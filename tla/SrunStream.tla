----------------------------- MODULE SrunStream -----------------------------
(***************************************************************************)
(* The bytes of a stream between mod_caucho and an srun: cse_write,        *)
(* cse_flush, cse_fill_buffer and the cse_read_* functions                 *)
(* (src/srun/stream.c) under the packets that write_request and send_data  *)
(* (src/srun/mod_caucho.c) exchange with the JVM.                          *)
(*                                                                         *)
(* A packet is a code, three length bytes and data.  It is put together in *)
(* s->write_buf by two calls of cse_write and is taken apart from          *)
(* s->read_buf, which recv fills with any part of what has arrived: a      *)
(* header, or data, may be spread over any number of recvs.                *)
(*                                                                         *)
(* send takes all it is given or fails: on a blocking socket it sends a    *)
(* part only when a signal interrupts it.  The JVM is external.            *)
(***************************************************************************)
EXTENDS Integers, Sequences, FiniteSets

CONSTANTS
  Base,        \* values of a byte, 256 in the code
  BufLength,   \* BUF_LENGTH
  ValueSize,   \* room for a header value in send_data
  Payload,     \* data of the packets that mod_caucho writes
  Answer,      \* data of the packets that the JVM writes
  MaxWrites,   \* bound on the packets of a request before CSE_END
  MaxAnswer,   \* bound on the packets of an answer with data
  SocketBuf    \* bound on the bytes on the way to mod_caucho

\* Packet codes: small numbers for the letters of cse.h.
CSE_END == 1
CSE_DATA == 2
CSE_HEADER == 3
CSE_VALUE == 4
CSE_SEND_HEADER == 5
CSE_ACK == 6
CSE_CLOSE == 7
Failed == -1

Byte == 0 .. Base - 1
HeaderSize == 4

ASSUME StreamAssumption ==
  /\ Base \in Nat /\ Base > CSE_CLOSE
  /\ BufLength \in Nat /\ BufLength >= HeaderSize
  /\ ValueSize \in Nat \ {0}
  /\ Payload \subseteq Seq(Byte) /\ Answer \subseteq Seq(Byte)
  /\ \A d \in Payload \cup Answer : Len(d) < Base * Base * Base
  /\ MaxWrites \in Nat /\ MaxAnswer \in Nat /\ SocketBuf \in Nat

Packet == [code : 1 .. Base - 1, data : Payload \cup Answer \cup {<<>>}]
P(c, d) == [code |-> c, data |-> d]
Last(s) == s[Len(s)]

VARIABLES
  \* mod_caucho
  mode,       \* in write_request: "env", "post" (a block is written),
              \*   "block" (the next may follow), "end" (only CSE_END is left);
              \*   "data" (between the two cse_writes of a packet),
              \*   "read" (in send_data), "done", "crashed"
  written,    \* history: the packets given to cse_write_packet
  writeBuf,   \* s->write_buf
  open,       \* s->socket >= 0
  readBuf,    \* s->read_buf from read_offset to read_length
  ack,        \* the code that send_data waits for
  result,     \* what send_data returned last
  rd,         \* send_data's position in the packet it reads
  headers,    \* r->headers_out
  shown,      \* the headers that ap_send_http_header sent to the browser
  got,        \* history: the packets read
  \* the connection
  toJvm, toApache,   \* bytes on the way
  reset,             \* send and recv fail
  \* the JVM
  jvmGot,     \* the packets it has read
  answer      \* the packets it has written

reader == <<ack, result, rd, headers, shown, got>>
jvm == <<jvmGot, answer>>
vars == <<mode, written, writeBuf, open, readBuf, reader, toJvm, toApache, reset,
          jvm>>

\* Nothing of a packet is read yet.  field is "packet", or "value" in
\* cse_read_string; text is the data read so far, need what is missing.
Start(field, key) ==
  [field |-> field, key |-> key, hdr |-> <<>>, need |-> 0, text |-> <<>>]

Init ==
  /\ mode = "env" /\ written = <<>> /\ writeBuf = <<>> /\ open = TRUE
  /\ readBuf = <<>> /\ ack = CSE_ACK /\ result = CSE_ACK
  /\ rd = Start("packet", <<>>)
  /\ headers = <<>> /\ shown = <<>> /\ got = <<>>
  /\ toJvm = <<>> /\ toApache = <<>> /\ reset = FALSE
  /\ jvmGot = <<>> /\ answer = <<>>

-----------------------------------------------------------------------------
(* Headers of packets.                                                      *)

\* Variant of Header, for testing the properties: the two lower bytes swapped.
HeaderSwapped(p) ==
  LET n == Len(p.data)
  IN <<p.code, (n \div (Base * Base)) % Base, n % Base, (n \div Base) % Base>>

\* cse_write_packet.
Header(p) ==
  LET n == Len(p.data)
  IN <<p.code, (n \div (Base * Base)) % Base, (n \div Base) % Base, n % Base>>

Length(hdr) == (hdr[2] * Base + hdr[3]) * Base + hdr[4]

-----------------------------------------------------------------------------
(* Writing.                                                                 *)

\* send.
Sends(b) == toJvm' = toJvm \o b
CanSend == open /\ ~reset

\* Variant of Write: the buffer is not emptied before the data that did not fit.
WriteOver(b) ==
  IF Len(writeBuf) + Len(b) <= BufLength
  THEN writeBuf' = writeBuf \o b /\ UNCHANGED <<open, toJvm>>
  ELSE IF CanSend
  THEN /\ Sends(writeBuf)
       /\ writeBuf' = IF Len(b) > BufLength THEN <<>> ELSE writeBuf \o b
       /\ UNCHANGED open
  ELSE writeBuf' = <<>> /\ open' = FALSE /\ UNCHANGED toJvm

\* cse_write: what fits is kept; otherwise the buffer is sent first, and data
\* longer than the buffer is dropped: the empty buffer is sent in its place.
\* A send that fails closes the stream and nobody is told.
Write(b) ==
  IF Len(writeBuf) + Len(b) <= BufLength
  THEN writeBuf' = writeBuf \o b /\ UNCHANGED <<open, toJvm>>
  ELSE IF CanSend
  THEN /\ Sends(writeBuf)
       /\ writeBuf' = IF Len(b) > BufLength THEN <<>> ELSE b
       /\ UNCHANGED open
  ELSE writeBuf' = <<>> /\ open' = FALSE /\ UNCHANGED toJvm

\* What write_request writes next: parameters and headers, then blocks of POST
\* data, the second and later ones after an answer of CSE_ACK, and CSE_END.
Codes ==
  CASE mode = "env" -> {CSE_HEADER, CSE_DATA, CSE_END}
    [] mode = "block" -> {CSE_DATA}
    [] mode \in {"post", "end"} -> {CSE_END}
    [] OTHER -> {}

\* cse_write_packet: the header ...
WritePacket(p) ==
  /\ p.code \in Codes
  /\ p.code # CSE_END => Len(written) < MaxWrites
  /\ Write(Header(p))
  /\ written' = Append(written, p)
  /\ mode' = "data"
  /\ UNCHANGED <<readBuf, reader, toApache, reset, jvm>>

\* ... and the data.  After CSE_END send_data is called for the answer.
WriteData ==
  /\ mode = "data"
  /\ Write(Last(written).data)
  /\ mode' = CASE Last(written).code = CSE_END -> "read"
               [] Last(written).code = CSE_DATA -> "post"
               [] OTHER -> "env"
  /\ ack' = IF mode' = "read" THEN CSE_END ELSE ack
  /\ UNCHANGED <<written, readBuf, result, rd, headers, shown, got, toApache, reset,
                 jvm>>

\* There is more POST data: send_data waits for CSE_ACK.
AwaitAck ==
  /\ mode = "post" /\ Len(written) < MaxWrites
  /\ mode' = "read" /\ ack' = CSE_ACK
  /\ UNCHANGED <<written, writeBuf, open, readBuf, result, rd, headers, shown, got,
                 toJvm, toApache, reset, jvm>>

-----------------------------------------------------------------------------
(* Reading.                                                                 *)

Wanted == IF Len(rd.hdr) < HeaderSize THEN HeaderSize - Len(rd.hdr) ELSE rd.need
Starved == mode = "read" /\ open /\ Wanted > 0 /\ readBuf = <<>>

Ends(code) == code \in {Failed, CSE_END, CSE_CLOSE, ack}

\* send_data returns: to the loop of POST data, which goes on unless the answer
\* has ended or failed, or to caucho_request.
Return(code) ==
  /\ result' = code
  /\ mode' = IF ack = CSE_END THEN "done"
             ELSE IF code \in {Failed, CSE_END, CSE_CLOSE} THEN "end" ELSE "block"
  /\ rd' = Start("packet", <<>>)
  /\ UNCHANGED ack

\* cse_fill_buffer flushes what is written ...
Flush ==
  /\ Starved /\ writeBuf # <<>> /\ CanSend
  /\ Sends(writeBuf)
  /\ writeBuf' = <<>>
  /\ UNCHANGED <<mode, written, open, readBuf, reader, toApache, reset, jvm>>

\* ... and receives some of what has arrived.
Recv ==
  /\ Starved /\ writeBuf = <<>>
  /\ \E k \in 1 .. Len(toApache) :
       /\ k <= BufLength
       /\ readBuf' = SubSeq(toApache, 1, k)
       /\ toApache' = SubSeq(toApache, k + 1, Len(toApache))
  /\ UNCHANGED <<mode, written, writeBuf, open, reader, toJvm, reset, jvm>>

\* What is wanted and is there moves from the buffer to where it goes: the
\* header (cse_read_byte) or the data (cse_read_all, cse_skip,
\* cse_write_response).
Taken == IF Wanted < Len(readBuf) THEN Wanted ELSE Len(readBuf)

\* Variant of ReadLimit: what does not fit is not skipped.
NoSkip(len) == IF ValueSize > len THEN len ELSE ValueSize

\* cse_read_limit: bytes taken for a value of len bytes.  What does not fit
\* is skipped.
ReadLimit(len) == IF ValueSize > len THEN len ELSE ValueSize + (len - ValueSize)

\* Bytes of data that send_data reads after a header: SEND_HEADER has none.
Needs(hdr) ==
  CASE rd.field = "value" -> ReadLimit(Length(hdr))
    [] hdr[1] = CSE_SEND_HEADER -> 0
    [] OTHER -> Length(hdr)

Take ==
  /\ mode = "read" /\ open /\ Wanted > 0 /\ readBuf # <<>>
  /\ LET b == SubSeq(readBuf, 1, Taken)
         hdr == rd.hdr \o b
     IN rd' = IF Len(rd.hdr) = HeaderSize
              THEN [rd EXCEPT !.text = @ \o b, !.need = @ - Taken]
              ELSE [rd EXCEPT !.hdr = hdr,
                              !.need = IF Len(hdr) < HeaderSize THEN 0
                                                                ELSE Needs(hdr)]
  /\ readBuf' = SubSeq(readBuf, Taken + 1, Len(readBuf))
  /\ UNCHANGED <<mode, written, writeBuf, open, ack, result, headers, shown, got,
                 toJvm, toApache, reset, jvm>>

Whole == mode = "read" /\ open /\ Wanted = 0
Packed == Append(got, P(rd.hdr[1], rd.text))

\* CSE_HEADER: the key is followed by a packet with the value.
HeaderKey ==
  /\ Whole /\ rd.field = "packet" /\ rd.hdr[1] = CSE_HEADER
  /\ rd' = Start("value", rd.text)
  /\ got' = Packed
  /\ UNCHANGED <<mode, written, writeBuf, open, readBuf, ack, result, headers,
                 shown, toJvm, toApache, reset, jvm>>

\* A value that does not fit is cut.
Cut(text) == IF Len(text) < ValueSize THEN text ELSE SubSeq(text, 1, ValueSize - 1)

HeaderValue ==
  /\ Whole /\ rd.field = "value"
  /\ headers' = Append(headers, <<rd.key, Cut(rd.text)>>)
  /\ got' = Packed
  /\ rd' = Start("packet", <<>>)
  /\ UNCHANGED <<mode, written, writeBuf, open, readBuf, ack, result, shown,
                 toJvm, toApache, reset, jvm>>

\* The other packets: the loop goes on ...
Other ==
  /\ Whole /\ rd.field = "packet" /\ rd.hdr[1] # CSE_HEADER /\ ~Ends(rd.hdr[1])
  /\ shown' = IF rd.hdr[1] = CSE_SEND_HEADER THEN headers ELSE shown
  /\ got' = Packed
  /\ rd' = Start("packet", <<>>)
  /\ UNCHANGED <<mode, written, writeBuf, open, readBuf, ack, result, headers,
                 toJvm, toApache, reset, jvm>>

\* ... or ends.
End ==
  /\ Whole /\ rd.field = "packet" /\ Ends(rd.hdr[1])
  /\ got' = Packed
  /\ Return(rd.hdr[1])
  /\ UNCHANGED <<written, writeBuf, open, readBuf, headers, shown, toJvm, toApache,
                 reset, jvm>>

-----------------------------------------------------------------------------
(* Failures.                                                                *)

Junk == <<"junk", "junk">>

\* Inside a header for the browser: its key or its value.
InHeader == rd.field = "value" \/ (Len(rd.hdr) = HeaderSize /\ rd.hdr[1] = CSE_HEADER)

\* The code is read and the length is not.
NoLength == rd.field = "packet" /\ Len(rd.hdr) \in 1 .. HeaderSize - 1

\* Variant of ReadFails: what there is of a header is sent to the browser.
ReadFailsShown(code) ==
  /\ headers' = IF InHeader THEN Append(headers, Junk) ELSE headers
  /\ shown' = IF InHeader THEN headers' ELSE shown
  /\ Return(code)
  /\ UNCHANGED <<written, writeBuf, readBuf, got, toJvm, toApache, reset, jvm>>

\* A byte cannot be read, and no later one either.  send_data tests for it only
\* after a header, by s->socket, and in CSE_DATA: a header for the browser is set
\* to what happens to be in key and value, and a code that needs no data has its
\* effect.
ReadFails(code) ==
  /\ headers' = IF InHeader THEN Append(headers, Junk) ELSE headers
  /\ shown' = IF NoLength /\ open' /\ rd.hdr[1] = CSE_SEND_HEADER THEN headers
                                                                  ELSE shown
  /\ Return(code)
  /\ UNCHANGED <<written, writeBuf, readBuf, got, toJvm, toApache, reset, jvm>>

\* recv returns nothing, at the end of the connection or after Apache's timeout:
\* cse_fill_buffer closes the stream.
EndOfFile ==
  /\ Starved /\ writeBuf = <<>> /\ toApache = <<>>
  /\ open' = FALSE
  /\ ReadFails(IF rd.field = "packet" /\ Len(rd.hdr) = HeaderSize /\ Ends(rd.hdr[1])
               THEN rd.hdr[1] ELSE Failed)

\* cse_flush fails and leaves the stream open.  Behind a code that was still in
\* the buffer the three length bytes are read as -1 ...
FlushFail ==
  /\ Starved /\ writeBuf # <<>> /\ ~CanSend
  /\ ~(NoLength /\ rd.hdr[1] = CSE_HEADER)
  /\ UNCHANGED open
  /\ ReadFails(IF rd.field = "packet" /\ rd.hdr # <<>> /\ Ends(rd.hdr[1])
               THEN rd.hdr[1] ELSE Failed)

\* ... and key[len] = 0 is a store 16 megabytes above the buffer.
FlushCrash ==
  /\ Starved /\ writeBuf # <<>> /\ ~CanSend
  /\ NoLength /\ rd.hdr[1] = CSE_HEADER
  /\ mode' = "crashed"
  /\ UNCHANGED <<written, writeBuf, open, readBuf, reader, toJvm, toApache, reset, jvm>>

\* On a stream that cse_write closed, what is left in the buffer makes at most
\* the header of a packet.
ReadClosed ==
  /\ mode = "read" /\ ~open
  /\ readBuf' = SubSeq(readBuf, HeaderSize + 1, Len(readBuf))
  /\ Return(Failed)
  /\ UNCHANGED <<written, writeBuf, open, headers, shown, got, toJvm, toApache, reset,
                 jvm>>

\* ap_rwrite fails in cse_write_response.
BrowserGone ==
  /\ mode = "read" /\ open /\ Wanted > 0 /\ readBuf # <<>>
  /\ rd.field = "packet" /\ Len(rd.hdr) = HeaderSize /\ rd.hdr[1] = CSE_DATA
  /\ open' = FALSE
  /\ Return(Failed)
  /\ UNCHANGED <<written, writeBuf, readBuf, headers, shown, got, toJvm, toApache,
                 reset, jvm>>

-----------------------------------------------------------------------------
(* The JVM, external: it reads packets whole, acknowledges blocks of data, ends *)
(* its answer after it has read CSE_END, and may stop anywhere.                 *)

Count(s, code) == Cardinality({i \in DOMAIN s : s[i].code = code})

JRead ==
  /\ Len(toJvm) >= HeaderSize
  /\ LET len == Length(toJvm)
         size == HeaderSize + len
     IN /\ Len(toJvm) >= size
        /\ jvmGot' = Append(jvmGot, P(toJvm[1], SubSeq(toJvm, HeaderSize + 1, size)))
        /\ toJvm' = SubSeq(toJvm, size + 1, Len(toJvm))
  /\ UNCHANGED <<mode, written, writeBuf, open, readBuf, reader, toApache, reset,
                 answer>>

JEnded == answer # <<>> /\ Last(answer).code \in {CSE_END, CSE_CLOSE}
JInHeader == answer # <<>> /\ Last(answer).code = CSE_HEADER

JCodes ==
  IF JInHeader THEN {CSE_VALUE}
  ELSE {CSE_CLOSE}
    \cup (IF Count(answer, CSE_SEND_HEADER) = 0 THEN {CSE_SEND_HEADER} ELSE {})
    \cup (IF Count(answer, CSE_HEADER) + Count(answer, CSE_DATA) < MaxAnswer
          THEN {CSE_HEADER, CSE_DATA} ELSE {})
    \cup (IF Count(answer, CSE_ACK) < Count(jvmGot, CSE_DATA) THEN {CSE_ACK} ELSE {})
    \cup (IF Count(jvmGot, CSE_END) > 0 THEN {CSE_END} ELSE {})

JAnswer(p) ==
  /\ ~reset /\ ~JEnded
  /\ p.code \in JCodes
  /\ p.data \in IF p.code \in {CSE_HEADER, CSE_VALUE, CSE_DATA} THEN Answer ELSE {<<>>}
  /\ Len(toApache) + HeaderSize + Len(p.data) <= SocketBuf
  /\ answer' = Append(answer, p)
  /\ toApache' = toApache \o Header(p) \o p.data
  /\ UNCHANGED <<mode, written, writeBuf, open, readBuf, reader, toJvm, reset, jvmGot>>

\* The connection is reset, and what has arrived and is not received is lost.
Reset ==
  /\ ~reset /\ reset' = TRUE
  /\ toApache' = <<>>
  /\ UNCHANGED <<mode, written, writeBuf, open, readBuf, reader, toJvm, jvm>>

\* caucho_request recycles or closes the stream.
Finished == mode \in {"done", "crashed"} /\ UNCHANGED vars

Next ==
  \/ \E c \in {CSE_HEADER, CSE_DATA}, d \in Payload : WritePacket(P(c, d))
  \/ WritePacket(P(CSE_END, <<>>))
  \/ WriteData \/ AwaitAck
  \/ Flush \/ Recv \/ Take \/ HeaderKey \/ HeaderValue \/ Other \/ End
  \/ EndOfFile \/ FlushFail \/ FlushCrash \/ ReadClosed \/ BrowserGone
  \/ JRead \/ Reset
  \/ \E c \in CSE_END .. CSE_CLOSE, d \in Answer \cup {<<>>} : JAnswer(P(c, d))
  \/ Finished

Spec == Init /\ [][Next]_vars

-----------------------------------------------------------------------------
(* Properties.                                                              *)

\* The buffers of a stream never hold more than BUF_LENGTH bytes (cse_write
\* tests before memcpy, cse_fill_buffer limits recv), and send_data returns one
\* of the codes its callers test for.
TypeOK ==
  /\ mode \in {"env", "post", "block", "end", "data", "read", "done", "crashed"}
  /\ Len(writeBuf) <= BufLength /\ Len(readBuf) <= BufLength
  /\ writeBuf \in Seq(Byte) /\ readBuf \in Seq(Byte)
  /\ toJvm \in Seq(Byte) /\ toApache \in Seq(Byte)
  /\ open \in BOOLEAN /\ reset \in BOOLEAN
  /\ ack \in {CSE_ACK, CSE_END}
  /\ result \in {Failed, CSE_ACK, CSE_END, CSE_CLOSE}

\* The packets before the first one whose data is longer than the buffer, which
\* cse_write drops after its header is sent.
Dropped == {i \in DOMAIN written : Len(written[i].data) > BufLength}
Sound == IF Dropped = {} THEN Len(written)
         ELSE (CHOOSE i \in Dropped : \A j \in Dropped : i <= j) - 1

Out == INSTANCE PacketPipe WITH
  written <- SubSeq(written, 1, Sound),
  got <- SubSeq(jvmGot, 1, IF Len(jvmGot) < Sound THEN Len(jvmGot) ELSE Sound)

In == INSTANCE PacketPipe WITH written <- answer

\* Both directions of a stream carry packets whole, in order and once, however
\* the bytes are spread over buffers, sends and recvs: from cse_write_packet to
\* the JVM up to the first packet that cse_write has to drop, and from the JVM to
\* send_data, a header value that is too long and cut by cse_read_limit included.
ImplementsPipes == Out!Spec /\ In!Spec

\* The browser gets only headers whose key and value were received whole, the
\* value cut to its buffer: never what cse_read_all and cse_read_string leave in
\* key and value when the connection ends in the middle of a header.
HeadersWhole ==
  \A i \in 1 .. Len(shown) :
    \E j \in 1 .. Len(answer) - 1 :
      /\ answer[j].code = CSE_HEADER /\ answer[j + 1].code = CSE_VALUE
      /\ shown[i][1] = answer[j].data
      /\ shown[i][2] = LET value == answer[j + 1].data
                           n == IF Len(value) < ValueSize THEN Len(value)
                                                          ELSE ValueSize - 1
                       IN SubSeq(value, 1, n)

\* When the last send_data returns CSE_END, so that caucho_request recycles the
\* connection and the next request starts with empty buffers (cse_reuse), nothing
\* is left in the buffers or on the way: the next request is in step with the JVM.
EndInStep ==
  mode = "done" /\ result = CSE_END /\ Sound = Len(written) =>
    writeBuf = <<>> /\ readBuf = <<>> /\ toJvm = <<>> /\ toApache = <<>>

=============================================================================
