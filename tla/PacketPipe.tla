----------------------------- MODULE PacketPipe -----------------------------
(***************************************************************************)
(* What one direction of a stream promises to the exchange above it: the   *)
(* packets that are written are read whole, each once and in order, until  *)
(* the connection breaks.  SrunRequest takes this for granted of toJvm and *)
(* toApache; SrunStream is shown to implement it with bytes and buffers.   *)
(***************************************************************************)
EXTENDS Naturals, Sequences

CONSTANT Packet

VARIABLES
  written,   \* the packets written so far
  got        \* the packets read so far

vars == <<written, got>>

Init == written = <<>> /\ got = <<>>

Write ==
  /\ UNCHANGED got
  /\ written' # written
  /\ \E p \in Packet : written' = Append(written, p)

Read ==
  /\ Len(got) < Len(written)
  /\ got' = Append(got, written[Len(got) + 1])
  /\ UNCHANGED written

Next == Write \/ Read

Spec == Init /\ [][Next]_vars

=============================================================================
