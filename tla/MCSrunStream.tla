---------------------------- MODULE MCSrunStream ----------------------------
(***************************************************************************)
(* Model values for SrunStream: a byte has 8 values and a buffer 8 bytes,   *)
(* so that the data of a packet may need two length bytes, fill the buffer  *)
(* or exceed it by one byte.                                                *)
(***************************************************************************)
EXTENDS SrunStream

Fill(n) == [i \in 1 .. n |-> 7]
MCPayload == {Fill(n) : n \in {4, 8, 9}}
MCAnswer == {<<1>>, <<3, 2, 1>>}

=============================================================================
