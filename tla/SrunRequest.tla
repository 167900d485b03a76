----------------------------- MODULE SrunRequest -----------------------------
(***************************************************************************)
(* Requests over one connection between mod_caucho and an srun: what       *)
(* write_request and send_data (src/srun/mod_caucho.c) and the stream      *)
(* under them (src/srun/stream.c) write and read, packet by packet.        *)
(*                                                                         *)
(* A request is its parameters and headers (one packet here, "env"), the   *)
(* blocks of a POST, each of them but the first sent only when the JVM has *)
(* acknowledged the one before, and CSE_END.  The answer is data, ended by *)
(* CSE_END when the JVM keeps the connection and by CSE_CLOSE when it does *)
(* not.  A connection whose answer ended with CSE_END is pooled and serves *)
(* the next request, so nothing of one exchange may be left in it.         *)
(*                                                                         *)
(* The buffers are bounded and a sender waits while the socket's is full.  *)
(* The JVM is not part of the repository's C source; it does what          *)
(* mod_caucho relies on.                                                   *)
(***************************************************************************)
EXTENDS Integers, Sequences, FiniteSets

CONSTANTS
  Requests,      \* requests are numbered 1 .. Requests, in turn
  MaxBlocks,     \* blocks of POST data a browser sends at most
  MaxAnswer,     \* data packets of an answer at most
  BufCapacity,   \* packets that fit in s->write_buf (BUF_LENGTH)
  InCapacity,    \* packets that the socket buffers hold on the way to the JVM
  OutCapacity    \* ... and on the way back

ASSUME RequestAssumption ==
  /\ Requests \in Nat \ {0} /\ MaxBlocks \in Nat /\ MaxAnswer \in Nat
  /\ BufCapacity \in Nat \ {0}
  /\ InCapacity \in Nat \ {0} /\ OutCapacity \in Nat \ {0}

VARIABLES
  \* mod_caucho
  pc,         \* control point of write_request
  cur,        \* number of the current request
  blocks,     \* POST blocks that the browser has yet to deliver
  sent,       \* POST blocks written; isFirst of the code is sent = 0
  writeBuf,   \* packets in s->write_buf
  readBuf,    \* packets in s->read_buf, from read_offset on
  open,       \* s->socket >= 0
  browser,    \* data packets handed to the browser, by request
  \* the connection
  toJvm, toApache,
  \* the JVM
  jpc,        \* what its thread for this connection is doing
  serving,    \* number of the request it reads or answers
  pending,    \* it has a block of POST data that it has not consumed
  sawEnd,     \* it has read the end of the request
  acked,      \* it has asked for the next packet and waits for it
  body,       \* POST blocks it consumed for the request
  left        \* data packets it may still write for the request

mod == <<pc, cur, blocks, sent, writeBuf, readBuf, open, browser>>
jvm == <<jpc, serving, pending, sawEnd, acked, body, left>>
vars == <<mod, toJvm, toApache, jvm>>

Req == 0 .. Requests
Packet == [kind : {"env", "D", "A", "Z", "X"}, req : Req]
P(k, r) == [kind |-> k, req |-> r]

\* The variables have their types and the socket buffers their bounds.
TypeOK ==
  /\ pc \in {"idle", "block", "ack", "final", "reuse", "close", "gone"}
  /\ cur \in Req /\ blocks \in 0 .. MaxBlocks /\ sent \in 0 .. MaxBlocks
  /\ writeBuf \in Seq(Packet) /\ readBuf \in Seq(Packet)
  /\ open \in BOOLEAN /\ browser \in Seq(Req)
  /\ toJvm \in Seq(Packet) /\ Len(toJvm) <= InCapacity
  /\ toApache \in Seq(Packet) /\ Len(toApache) <= OutCapacity
  /\ jpc \in {"scan", "serve", "drain", "refuse", "gone"}
  /\ serving \in Req
  /\ pending \in BOOLEAN /\ sawEnd \in BOOLEAN /\ acked \in BOOLEAN
  /\ body \in 0 .. MaxBlocks /\ left \in 0 .. MaxAnswer

Init ==
  /\ pc = "idle" /\ cur = 0 /\ blocks = 0 /\ sent = 0
  /\ writeBuf = <<>> /\ readBuf = <<>> /\ open = TRUE /\ browser = <<>>
  /\ toJvm = <<>> /\ toApache = <<>>
  /\ jpc = "scan" /\ serving = 0 /\ pending = FALSE /\ sawEnd = FALSE
  /\ acked = FALSE /\ body = 0 /\ left = 0

-----------------------------------------------------------------------------
(* Writing: cse_write_packet fills s->write_buf, which is sent when a       *)
(* packet no longer fits (cse_write) or when send_data finds s->read_buf    *)
(* empty (cse_flush).  send blocks while the socket buffer is full; what is *)
(* sent to a JVM that has gone may be lost before send fails.               *)

Write(p) == writeBuf' = Append(writeBuf, p)
Fits == Len(writeBuf) < BufCapacity

Reading == pc \in {"ack", "final"} /\ open
Empty == Reading /\ readBuf = <<>>

Send ==
  /\ open /\ writeBuf # <<>>
  /\ pc = "block" \/ Empty
  /\ \/ /\ jpc # "gone" /\ Len(toJvm) < InCapacity
        /\ toJvm' = Append(toJvm, Head(writeBuf))
     \/ /\ jpc = "gone"
        /\ UNCHANGED toJvm
  /\ writeBuf' = Tail(writeBuf)
  /\ UNCHANGED <<pc, cur, blocks, sent, readBuf, open, browser, toApache, jvm>>

\* cse_write: send fails, the stream is closed and nobody is told.
WriteFail ==
  /\ pc = "block" /\ writeBuf # <<>>
  /\ jpc = "gone" \/ ~open
  /\ writeBuf' = <<>> /\ open' = FALSE
  /\ UNCHANGED <<pc, cur, blocks, sent, readBuf, browser, toJvm, toApache, jvm>>

-----------------------------------------------------------------------------
(* write_request.                                                           *)

\* A request gets the idle connection.  cse_reuse forgets what is in the
\* stream's buffers; write_env and write_headers follow.
Begin ==
  /\ pc = "idle"
  /\ cur' = (cur % Requests) + 1
  /\ blocks' \in 0 .. MaxBlocks
  /\ sent' = 0 /\ browser' = <<>>
  /\ writeBuf' = <<P("env", cur')>> /\ readBuf' = <<>>
  /\ pc' = "block"
  /\ UNCHANGED <<open, toJvm, toApache, jvm>>

\* A block of POST data arrives: the first one is written at once ...
FirstBlock ==
  /\ pc = "block" /\ blocks > 0 /\ sent = 0
  /\ Fits /\ Write(P("D", cur))
  /\ blocks' = blocks - 1 /\ sent' = 1
  /\ UNCHANGED <<pc, cur, readBuf, open, browser, toJvm, toApache, jvm>>

\* Variants of NextBlock, for testing the properties: without send_data between
\* two blocks; without taking the block from the browser.
EagerBlock ==
  /\ pc = "block" /\ blocks > 0 /\ sent > 0
  /\ Fits /\ Write(P("D", cur))
  /\ blocks' = blocks - 1 /\ sent' = sent + 1
  /\ UNCHANGED <<pc, cur, readBuf, open, browser, toJvm, toApache, jvm>>

RepeatedBlock ==
  /\ pc = "block" /\ blocks > 0 /\ sent > 0
  /\ pc' = "ack"
  /\ UNCHANGED <<cur, blocks, sent, writeBuf, readBuf, open, browser, toJvm,
                 toApache, jvm>>

\* ... and the others when the JVM has asked for them: send_data is called to
\* wait for CSE_ACK.
NextBlock ==
  /\ pc = "block" /\ blocks > 0 /\ sent > 0
  /\ blocks' = blocks - 1
  /\ pc' = "ack"
  /\ UNCHANGED <<cur, sent, writeBuf, readBuf, open, browser, toJvm, toApache,
                 jvm>>

\* The data ends, or the browser goes away: CSE_END either way, and
\* send_data is called for the answer.
EndOfBody ==
  /\ pc = "block"
  /\ Fits /\ Write(P("Z", cur))
  /\ pc' = "final"
  /\ UNCHANGED <<cur, blocks, sent, readBuf, open, browser, toJvm, toApache,
                 jvm>>

\* Variant of Reusable: code != CSE_CLOSE instead of code == CSE_END.
NotClosed(code) == code # "X"

\* Only an answer that the JVM ended with CSE_END leaves the connection usable.
Reusable(code) == code = "Z"

\* send_data returns to write_request: after CSE_ACK the block goes out, after
\* anything else the loop ends; the second send_data decides whether the
\* connection is used again.
Return(code) ==
  \/ /\ pc = "ack" /\ code = "A"
     /\ Write(P("D", cur))
     /\ sent' = sent + 1
     /\ pc' = "block"
  \/ /\ pc = "ack" /\ code # "A"
     /\ Write(P("Z", cur))
     /\ pc' = "final"
     /\ UNCHANGED sent
  \/ /\ pc = "final"
     /\ pc' = IF Reusable(code) THEN "reuse" ELSE "close"
     /\ UNCHANGED <<sent, writeBuf>>

\* caucho_request: cse_recycle ...
Recycle ==
  /\ pc = "reuse"
  /\ pc' = "idle"
  /\ UNCHANGED <<cur, blocks, sent, writeBuf, readBuf, open, browser, toJvm,
                 toApache, jvm>>

\* ... or cse_close.
Close ==
  /\ pc = "close"
  /\ pc' = "gone" /\ open' = FALSE
  /\ UNCHANGED <<cur, blocks, sent, writeBuf, readBuf, browser, toJvm,
                 toApache, jvm>>

\* cse_open: the next request has a connection, and a JVM thread, of its own.
Connect ==
  /\ pc = "gone"
  /\ pc' = "idle" /\ open' = TRUE
  /\ writeBuf' = <<>> /\ readBuf' = <<>> /\ browser' = <<>>
  /\ toJvm' = <<>> /\ toApache' = <<>>
  /\ jpc' = "scan" /\ serving' = 0 /\ pending' = FALSE /\ sawEnd' = FALSE
  /\ acked' = FALSE /\ body' = 0 /\ left' = 0
  /\ UNCHANGED <<cur, blocks, sent>>

-----------------------------------------------------------------------------
(* send_data.                                                               *)

\* cse_fill_buffer, once everything is flushed: recv returns what has
\* arrived, at most a buffer of it.
Receive ==
  /\ Empty /\ writeBuf = <<>>
  /\ \E n \in 1 .. Len(toApache) :
       /\ readBuf' = SubSeq(toApache, 1, n)
       /\ toApache' = SubSeq(toApache, n + 1, Len(toApache))
  /\ UNCHANGED <<pc, cur, blocks, sent, writeBuf, open, browser, toJvm, jvm>>

\* What ends send_data: the end of the answer, and the acknowledgement if the
\* caller waits for one.
Ends(kind) == kind \in {"Z", "X"} \/ (kind = "A" /\ pc = "ack")

\* Variant of ReadData: data is lost while an acknowledgement is awaited.
ReadDataLate ==
  /\ Reading /\ readBuf # <<>>
  /\ ~Ends(Head(readBuf).kind)
  /\ browser' = IF Head(readBuf).kind = "D" /\ pc = "final"
                THEN Append(browser, Head(readBuf).req) ELSE browser
  /\ readBuf' = Tail(readBuf)
  /\ UNCHANGED <<pc, cur, blocks, sent, writeBuf, open, toJvm, toApache, jvm>>

ReadData ==
  /\ Reading /\ readBuf # <<>>
  /\ ~Ends(Head(readBuf).kind)
  /\ browser' = IF Head(readBuf).kind = "D"
                THEN Append(browser, Head(readBuf).req) ELSE browser
  /\ readBuf' = Tail(readBuf)
  /\ UNCHANGED <<pc, cur, blocks, sent, writeBuf, open, toJvm, toApache, jvm>>

ReadEnd ==
  /\ Reading /\ readBuf # <<>>
  /\ Ends(Head(readBuf).kind)
  /\ readBuf' = Tail(readBuf)
  /\ Return(Head(readBuf).kind)
  /\ UNCHANGED <<cur, blocks, open, browser, toJvm, toApache, jvm>>

\* Variant of BrowserGone: the answer counts as ended and the stream is kept.
BrowserGoneKept ==
  /\ Reading /\ readBuf # <<>>
  /\ Head(readBuf).kind = "D"
  /\ Return("Z")
  /\ UNCHANGED <<cur, blocks, readBuf, open, browser, toJvm, toApache, jvm>>

\* cse_write_response: the browser is gone, the stream is closed.
BrowserGone ==
  /\ Reading /\ readBuf # <<>>
  /\ Head(readBuf).kind = "D"
  /\ open' = FALSE
  /\ Return("fail")
  /\ UNCHANGED <<cur, blocks, readBuf, browser, toJvm, toApache, jvm>>

\* cse_fill_buffer: recv finds the JVM gone, and the stream is closed ...
EndOfFile ==
  /\ Empty /\ writeBuf = <<>>
  /\ toApache = <<>> /\ jpc = "gone"
  /\ open' = FALSE
  /\ Return("fail")
  /\ UNCHANGED <<cur, blocks, readBuf, browser, toJvm, toApache, jvm>>

\* ... or cse_flush does: the stream stays open and its buffer full ...
FlushFail ==
  /\ Empty /\ writeBuf # <<>> /\ jpc = "gone"
  /\ Return("fail")
  /\ UNCHANGED <<cur, blocks, readBuf, open, browser, toJvm, toApache, jvm>>

\* ... or the stream was closed before.
ReadClosed ==
  /\ pc \in {"ack", "final"} /\ ~open
  /\ Return("fail")
  /\ UNCHANGED <<cur, blocks, readBuf, open, browser, toJvm, toApache, jvm>>

-----------------------------------------------------------------------------
(* The JVM's thread for the connection.                                     *)

Reply(p) ==
  /\ Len(toApache) < OutCapacity
  /\ toApache' = Append(toApache, p)

\* It reads parameters and headers until the first block or the end, and
\* starts the servlet.
JScan ==
  /\ jpc = "scan" /\ toJvm # <<>>
  /\ LET p == Head(toJvm)
     IN /\ serving' = IF p.kind = "env" THEN p.req ELSE serving
        /\ jpc' = IF p.kind = "env" THEN "scan" ELSE "serve"
        /\ pending' = (p.kind = "D")
        /\ sawEnd' = (p.kind = "Z")
  /\ acked' = FALSE /\ body' = 0 /\ left' = MaxAnswer
  /\ toJvm' = Tail(toJvm)
  /\ UNCHANGED <<mod, toApache>>

\* The servlet writes a part of the answer.
JWrite ==
  /\ jpc = "serve" /\ left > 0 /\ ~acked
  /\ Reply(P("D", serving))
  /\ left' = left - 1
  /\ UNCHANGED <<mod, toJvm, jpc, serving, pending, sawEnd, acked, body>>

\* The servlet, or the JVM that drains the request, reads the POST: a block,
JConsume ==
  /\ jpc \in {"serve", "drain"} /\ pending
  /\ pending' = FALSE /\ body' = body + 1
  /\ UNCHANGED <<mod, toJvm, toApache, jpc, serving, sawEnd, acked, left>>

\* then, when nothing has arrived, it asks for more,
JAck ==
  /\ jpc \in {"serve", "drain"} /\ ~pending /\ ~sawEnd /\ ~acked
  /\ toJvm = <<>>
  /\ Reply(P("A", serving))
  /\ acked' = TRUE
  /\ UNCHANGED <<mod, toJvm, jpc, serving, pending, sawEnd, body, left>>

\* and waits for the next packet.
JNext ==
  /\ jpc \in {"serve", "drain"} /\ ~pending /\ ~sawEnd
  /\ toJvm # <<>>
  /\ pending' = (Head(toJvm).kind = "D")
  /\ sawEnd' = (Head(toJvm).kind # "D")
  /\ acked' = FALSE
  /\ toJvm' = Tail(toJvm)
  /\ UNCHANGED <<mod, toApache, jpc, serving, body, left>>

\* The servlet is done.  The JVM keeps the connection, once it has read all of
\* the request, or it does not.
JFinish ==
  /\ jpc = "serve" /\ ~acked
  /\ jpc' \in {"drain", "refuse"}
  /\ UNCHANGED <<mod, toJvm, toApache, serving, pending, sawEnd, acked, body,
                 left>>

JKeep ==
  /\ jpc = "drain" /\ ~pending /\ sawEnd
  /\ Reply(P("Z", serving))
  /\ jpc' = "scan"
  /\ UNCHANGED <<mod, toJvm, serving, pending, sawEnd, acked, body, left>>

JRefuse ==
  /\ jpc = "refuse"
  /\ Reply(P("X", serving))
  /\ jpc' = "gone" /\ toJvm' = <<>>
  /\ UNCHANGED <<mod, serving, pending, sawEnd, acked, body, left>>

\* The JVM goes away, or drops the connection.
JCrash ==
  /\ jpc # "gone"
  /\ jpc' = "gone" /\ toJvm' = <<>>
  /\ UNCHANGED <<mod, toApache, serving, pending, sawEnd, acked, body, left>>

\* The reset that follows destroys what had arrived.
Reset ==
  /\ jpc = "gone" /\ toApache # <<>>
  /\ toApache' = <<>>
  /\ UNCHANGED <<mod, toJvm, jvm>>

-----------------------------------------------------------------------------
ModStep ==
  \/ Send \/ WriteFail \/ FirstBlock \/ NextBlock \/ EndOfBody
  \/ Recycle \/ Close
  \/ Receive \/ ReadData \/ ReadEnd
  \/ BrowserGone \/ EndOfFile \/ FlushFail \/ ReadClosed

JvmStep ==
  \/ JScan \/ JWrite \/ JConsume \/ JAck \/ JNext \/ JFinish \/ JKeep \/ JRefuse

Next == Begin \/ Connect \/ ModStep \/ JvmStep \/ JCrash \/ Reset

\* The Apache process runs, the browser delivers or leaves, and the JVM's
\* thread runs and its servlet ends.
Spec == Init /\ [][Next]_vars /\ WF_vars(ModStep) /\ WF_vars(JvmStep)

-----------------------------------------------------------------------------
(* Properties.                                                              *)

\* A browser only ever gets data of the answer to its own request, on a
\* connection that serves one request after another.
AnswersOwn == \A k \in 1 .. Len(browser) : browser[k] = cur

\* A connection that write_request found reusable has nothing left in it in
\* either direction, and its JVM waits for a new request: neither the rest
\* of a POST nor a late CSE_ACK is taken for a part of the next exchange.
CleanWhenPooled ==
  pc \in {"reuse", "idle"} /\ jpc # "gone" =>
    /\ toJvm = <<>> /\ toApache = <<>> /\ writeBuf = <<>> /\ readBuf = <<>>
    /\ jpc = "scan"

\* When write_request returns 1, the JVM has read every block that was written
\* for this request and the browser has every packet the JVM answered with.
ExchangeWhole ==
  pc = "reuse" =>
    serving = cur /\ body = sent /\ Len(browser) = MaxAnswer - left

Blocks(s) == Cardinality({k \in 1 .. Len(s) : s[k].kind = "D"})

\* At most one block of POST data is on the way: write_request waits for
\* CSE_ACK, so that it never blocks in send while the JVM blocks on an
\* answer that nobody reads.
OneBlockInFlight ==
  Blocks(writeBuf) + Blocks(toJvm) + (IF pending THEN 1 ELSE 0) <= 1

\* Every exchange ends, however small the socket buffers are: mod_caucho and
\* the JVM never wait for each other.
ExchangeEnds == pc = "block" ~> pc \in {"idle", "gone"}

=============================================================================
