--------------------------- MODULE SrunRequestProofs ---------------------------
(***************************************************************************)
(* Proofs about SrunRequest, for any number of requests, blocks and answer *)
(* packets and buffers of any size: answers are not mixed up, a pooled     *)
(* connection is clean, and the POST and the answer of an exchange that    *)
(* leaves the connection usable are whole.                                 *)
(***************************************************************************)
EXTENDS SrunRequest, FiniteSetTheorems, SequenceTheorems, TLAPS

\* What is on the way to the JVM and what is on the way back, buffers
\* included.  Sending and receiving move packets within them.
Out == toJvm \o writeBuf
Back == readBuf \o toApache

\* Some packet of s is of kind k.
Has(s, k) == \E i \in 1 .. Len(s) : s[i].kind = k

Rank(k) == IF k = "env" THEN 1 ELSE IF k = "D" THEN 2 ELSE 3

\* To the JVM: the parameters, one block at most, and the end, in this order.
InOrder(s) ==
  /\ \A i \in 1 .. Len(s) : s[i].kind \in {"env", "D", "Z"}
  /\ \A i, j \in 1 .. Len(s) : i < j => Rank(s[i].kind) < Rank(s[j].kind)

\* From the JVM: data, one acknowledgement at most, and an end only at the end.
IsAnswer(s) ==
  /\ \A i \in 1 .. Len(s) : s[i].kind \in {"D", "A", "Z", "X"}
  /\ \A i \in 1 .. Len(s) : s[i].kind \in {"Z", "X"} => i = Len(s)
  /\ \A i, j \in 1 .. Len(s) : s[i].kind = "A" /\ s[j].kind = "A" => i = j

\* Every packet of s belongs to request r.
OfRequest(s, r) == \A i \in 1 .. Len(s) : s[i].req = r

One(b) == IF b THEN 1 ELSE 0

\* Control points between two requests, and those at which write_request will
\* write nothing more.
Between == {"idle", "reuse"}
Written == {"final", "close", "gone"}

Serving == {"serve", "drain", "refuse"}

\* The counters of a request and the control points of the two sides.
ControlInv ==
  /\ sent + blocks + One(pc = "ack") <= MaxBlocks
  /\ pc = "ack" => sent > 0
  /\ pc \in Between => open
  /\ pc = "close" => ~open \/ jpc = "gone"
  /\ pc = "gone" => ~open
  /\ ~open => jpc = "gone" \/ pc \in Written
  /\ jpc = "gone" => toJvm = <<>>

\* The packets on the way, of the current request only.
WireInv ==
  /\ InOrder(Out) /\ OfRequest(Out, cur)
  /\ IsAnswer(Back) /\ OfRequest(Back, cur)
  /\ pc \in Between => Out = <<>> /\ Back = <<>>
  /\ Has(Out, "Z") => pc \in Written
  /\ Has(Back, "X") => jpc = "gone"
  /\ Has(Back, "Z") => /\ jpc \in {"scan", "gone"} /\ pc \in Written
                       /\ Out = <<>> /\ ~pending
                       /\ body = sent /\ serving = cur

\* A block on the way, one that the JVM has not consumed, and the
\* acknowledgement that asks for one exclude each other.
TokenInv ==
  /\ ~(Has(Out, "D") /\ pending)
  /\ ~(Has(Out, "D") /\ Has(Back, "A"))
  /\ ~(pending /\ Has(Back, "A"))
  /\ Has(Out, "D") \/ pending \/ Has(Back, "A") =>
       sent > 0 /\ pc \notin Between

\* The JVM waits for a request: between two of them, before it has read all of
\* one, or after it has answered one.
ScanInv ==
  jpc = "scan" =>
    /\ ~pending
    /\ \/ pc \in Between
       \/ /\ Back = <<>> /\ browser = <<>> /\ pc \notin Between
          /\ Has(Out, "env") \/ serving = cur
          /\ sent = One(Has(Out, "D"))
          /\ open => (pc = "final" <=> Has(Out, "Z"))
       \/ /\ Out = <<>> /\ pc \in Written
          /\ serving = cur /\ body = sent
          /\ open /\ pc = "final" => Has(Back, "Z")

\* The JVM answers a request.
ServeInv ==
  jpc \in Serving =>
    /\ serving = cur /\ pc \notin Between
    /\ sent = body + One(pending) + One(Has(Out, "D"))
    /\ ~Has(Out, "env")
    /\ ~sawEnd => sent > 0
    /\ sawEnd => Out = <<>> /\ ~pending /\ pc \in Written
    /\ ~sawEnd /\ open /\ pc = "final" => Has(Out, "Z")
    /\ acked => ~pending /\ ~sawEnd /\ jpc # "refuse"
    /\ ~acked => ~Has(Back, "A") \/ sawEnd
    /\ ~acked /\ ~pending /\ ~sawEnd => ~Has(Out, "D")

\* Every data packet of the answer is on the way or with the browser.
CountInv ==
  open /\ (jpc \in Serving \/ Has(Back, "Z")) =>
    Len(browser) + Len(Back) - One(Has(Back, "A"))
      - One(Has(Back, "Z") \/ Has(Back, "X")) = MaxAnswer - left

ReqInv == /\ TypeOK /\ ControlInv /\ WireInv /\ TokenInv
          /\ ScanInv /\ ServeInv /\ CountInv
          /\ AnswersOwn /\ ExchangeWhole

USE RequestAssumption

-----------------------------------------------------------------------------
(* Sequences of packets: what taking the first, adding one at the end and   *)
(* splitting do to the parts of the invariant.                              *)

\* The empty sequence has no packets, and one more packet adds its kind.
LEMMA HasEmpty == \A k : ~Has(<<>>, k)
BY DEF Has

LEMMA HasAppend ==
  ASSUME NEW s \in Seq(Packet), NEW p \in Packet
  PROVE  \A k : Has(Append(s, p), k) <=> Has(s, k) \/ p.kind = k
<1> TAKE k
<1> DEFINE t == Append(s, p)
<1>1. /\ Len(t) = Len(s) + 1 /\ Len(s) \in Nat
      /\ \A i \in 1 .. Len(s) : t[i] = s[i]
      /\ t[Len(s) + 1] = p
  BY AppendProperties, LenProperties
<1> HIDE DEF t
<1>2. Has(t, k) <=> Has(s, k) \/ p.kind = k
  BY <1>1 DEF Has
<1> QED
  BY <1>2 DEF t

\* A sequence has the kind of its first packet and the kinds of the rest.
LEMMA HasTail ==
  ASSUME NEW s \in Seq(Packet), s # <<>>
  PROVE  /\ Head(s) \in Packet /\ Tail(s) \in Seq(Packet)
         /\ \A k : Has(s, k) <=> Head(s).kind = k \/ Has(Tail(s), k)
<1> DEFINE t == Tail(s)
<1>1. /\ Head(s) \in Packet /\ t \in Seq(Packet)
      /\ Len(t) = Len(s) - 1 /\ Len(s) \in Nat /\ Len(s) > 0
      /\ \A i \in 1 .. Len(t) : t[i] = s[i + 1]
      /\ Head(s) = s[1]
  BY HeadTailProperties, LenProperties, EmptySeq
<1> HIDE DEF t
<1>2. ASSUME NEW k PROVE Has(s, k) <=> Head(s).kind = k \/ Has(t, k)
  <2>1. ASSUME NEW i \in 1 .. Len(s), s[i].kind = k
        PROVE  Head(s).kind = k \/ Has(t, k)
    <3>1. CASE i = 1
      BY <2>1, <3>1, <1>1
    <3>2. CASE i # 1
      <4>1. i - 1 \in 1 .. Len(t) /\ t[i - 1] = s[i]
        BY <3>2, <1>1
      <4> QED
        BY <4>1, <2>1 DEF Has
    <3> QED
      BY <3>1, <3>2
  <2>2. Has(t, k) => Has(s, k)
    <3>1. ASSUME NEW i \in 1 .. Len(t), t[i].kind = k PROVE Has(s, k)
      <4>1. i + 1 \in 1 .. Len(s) /\ s[i + 1].kind = k
        BY <3>1, <1>1
      <4> QED
        BY <4>1 DEF Has
    <3> QED
      BY <3>1 DEF Has
  <2>3. Head(s).kind = k => Has(s, k)
    BY <1>1 DEF Has
  <2> QED
    BY <2>1, <2>2, <2>3 DEF Has
<1> QED
  BY <1>1, <1>2 DEF t

\* A packet may follow others if they are of lower rank, ...
LEMMA OrderAppend ==
  ASSUME NEW s \in Seq(Packet), NEW p \in Packet, InOrder(s),
         p.kind \in {"D", "Z"}, ~Has(s, "Z"), ~Has(s, p.kind)
  PROVE  InOrder(Append(s, p))
<1> DEFINE t == Append(s, p)
<1>1. /\ Len(t) = Len(s) + 1 /\ Len(s) \in Nat
      /\ \A i \in 1 .. Len(s) : t[i] = s[i]
      /\ t[Len(s) + 1] = p
  BY AppendProperties, LenProperties
<1> HIDE DEF t
<1>2. ASSUME NEW i \in 1 .. Len(t) PROVE t[i].kind \in {"env", "D", "Z"}
  BY <1>1 DEF InOrder
<1>3. ASSUME NEW i \in 1 .. Len(t), NEW j \in 1 .. Len(t), i < j
      PROVE  Rank(t[i].kind) < Rank(t[j].kind)
  <2>1. i \in 1 .. Len(s) /\ t[i] = s[i]
    BY <1>1, <1>3
  <2>2. CASE j \in 1 .. Len(s)
    BY <2>1, <2>2, <1>1, <1>3 DEF InOrder
  <2>3. CASE j = Len(s) + 1
    <3>1. s[i].kind \in {"env", "D", "Z"} /\ s[i].kind # "Z"
          /\ s[i].kind # p.kind
      BY <2>1 DEF InOrder, Has
    <3> QED
      BY <3>1, <2>1, <2>3, <1>1 DEF Rank
  <2> QED
    BY <2>2, <2>3, <1>1
<1>4. InOrder(t)
  BY <1>2, <1>3 DEF InOrder
<1> QED
  BY <1>4 DEF t

\* ... the first packet is of the lowest, and nothing follows the end.
LEMMA OrderTail ==
  ASSUME NEW s \in Seq(Packet), s # <<>>, InOrder(s)
  PROVE  /\ InOrder(Tail(s)) /\ Head(s).kind \in {"env", "D", "Z"}
         /\ ~Has(Tail(s), Head(s).kind) /\ ~Has(Tail(s), "env")
         /\ Head(s).kind = "Z" => Tail(s) = <<>>
<1> DEFINE t == Tail(s)
<1>1. /\ t \in Seq(Packet)
      /\ Len(t) = Len(s) - 1 /\ Len(s) \in Nat /\ Len(s) > 0
      /\ \A i \in 1 .. Len(t) : t[i] = s[i + 1]
      /\ Head(s) = s[1]
  BY HeadTailProperties, LenProperties, EmptySeq
<1> HIDE DEF t
<1>2. ASSUME NEW i \in 1 .. Len(t)
      PROVE  /\ i + 1 \in 1 .. Len(s) /\ t[i] = s[i + 1]
             /\ t[i].kind \in {"env", "D", "Z"}
             /\ Rank(s[1].kind) < Rank(t[i].kind)
  BY <1>1 DEF InOrder
<1>3. ASSUME NEW i \in 1 .. Len(t), NEW j \in 1 .. Len(t), i < j
      PROVE  Rank(t[i].kind) < Rank(t[j].kind)
  <2>1. i + 1 < j + 1 /\ t[i] = s[i + 1] /\ t[j] = s[j + 1]
        /\ i + 1 \in 1 .. Len(s) /\ j + 1 \in 1 .. Len(s)
    BY <1>3, <1>2
  <2> QED
    BY <2>1 DEF InOrder
<1>4. s[1].kind \in {"env", "D", "Z"}
  BY <1>1 DEF InOrder
<1>5. ASSUME NEW i \in 1 .. Len(t)
      PROVE  t[i].kind # s[1].kind /\ t[i].kind # "env" /\ s[1].kind # "Z"
  BY <1>2, <1>4 DEF Rank
<1>6. s[1].kind = "Z" => t = <<>>
  <2>1. s[1].kind = "Z" => 1 \notin 1 .. Len(t)
    BY <1>5
  <2> QED
    BY <2>1, <1>1, EmptySeq
<1>7. InOrder(t) /\ ~Has(t, s[1].kind) /\ ~Has(t, "env")
  BY <1>2, <1>3, <1>5 DEF InOrder, Has
<1> QED
  BY <1>1, <1>4, <1>6, <1>7 DEF t

\* An answer that has not ended goes on with data, with the one acknowledgement
\* or with its end, ...
LEMMA AnswerAppend ==
  ASSUME NEW s \in Seq(Packet), NEW p \in Packet, IsAnswer(s),
         p.kind \in {"D", "A", "Z", "X"}, ~Has(s, "Z"), ~Has(s, "X"),
         p.kind = "A" => ~Has(s, "A")
  PROVE  IsAnswer(Append(s, p))
<1> DEFINE t == Append(s, p)
<1>1. /\ Len(t) = Len(s) + 1 /\ Len(s) \in Nat
      /\ \A i \in 1 .. Len(s) : t[i] = s[i]
      /\ t[Len(s) + 1] = p
  BY AppendProperties, LenProperties
<1> HIDE DEF t
<1>2. ASSUME NEW i \in 1 .. Len(t)
      PROVE  t[i].kind \in {"D", "A", "Z", "X"}
             /\ (t[i].kind \in {"Z", "X"} => i = Len(t))
  <2>1. CASE i \in 1 .. Len(s)
    BY <2>1, <1>1 DEF IsAnswer, Has
  <2>2. CASE i = Len(s) + 1
    BY <2>2, <1>1
  <2> QED
    BY <2>1, <2>2, <1>1
<1>3. ASSUME NEW i \in 1 .. Len(t), NEW j \in 1 .. Len(t),
             t[i].kind = "A", t[j].kind = "A"
      PROVE  i = j
  <2>1. CASE Has(s, "A")
    <3>1. i \in 1 .. Len(s) /\ j \in 1 .. Len(s)
      BY <2>1, <1>1, <1>3
    <3> QED
      BY <3>1, <1>1, <1>3 DEF IsAnswer
  <2>2. CASE ~Has(s, "A")
    <3>1. i = Len(s) + 1 /\ j = Len(s) + 1
      BY <2>2, <1>1, <1>3 DEF Has
    <3> QED
      BY <3>1
  <2> QED
    BY <2>1, <2>2
<1>4. IsAnswer(t)
  BY <1>2, <1>3 DEF IsAnswer
<1> QED
  BY <1>4 DEF t

\* ... and the rest of an answer is one.
LEMMA AnswerTail ==
  ASSUME NEW s \in Seq(Packet), s # <<>>, IsAnswer(s)
  PROVE  /\ IsAnswer(Tail(s)) /\ Head(s).kind \in {"D", "A", "Z", "X"}
         /\ Head(s).kind = "A" => ~Has(Tail(s), "A")
         /\ Head(s).kind \in {"Z", "X"} => Tail(s) = <<>>
<1> DEFINE t == Tail(s)
<1>1. /\ t \in Seq(Packet)
      /\ Len(t) = Len(s) - 1 /\ Len(s) \in Nat /\ Len(s) > 0
      /\ \A i \in 1 .. Len(t) : t[i] = s[i + 1]
      /\ Head(s) = s[1]
  BY HeadTailProperties, LenProperties, EmptySeq
<1> HIDE DEF t
<1>2. ASSUME NEW i \in 1 .. Len(t)
      PROVE  i + 1 \in 1 .. Len(s) /\ t[i] = s[i + 1]
  BY <1>1
<1>3. ASSUME NEW i \in 1 .. Len(t)
      PROVE  /\ t[i].kind \in {"D", "A", "Z", "X"}
             /\ t[i].kind \in {"Z", "X"} => i = Len(t)
  <2>1. s[i + 1].kind \in {"D", "A", "Z", "X"}
        /\ (s[i + 1].kind \in {"Z", "X"} => i + 1 = Len(s))
    BY <1>2 DEF IsAnswer
  <2> QED
    BY <2>1, <1>2, <1>1
<1>4. ASSUME NEW i \in 1 .. Len(t), NEW j \in 1 .. Len(t),
             t[i].kind = "A", t[j].kind = "A"
      PROVE  i = j
  <2>1. s[i + 1].kind = "A" /\ s[j + 1].kind = "A"
        /\ i + 1 \in 1 .. Len(s) /\ j + 1 \in 1 .. Len(s)
    BY <1>2, <1>4
  <2>2. i + 1 = j + 1
    BY <2>1 DEF IsAnswer
  <2> QED
    BY <2>2
<1>5. s[1].kind \in {"D", "A", "Z", "X"}
  BY <1>1 DEF IsAnswer
<1>6. s[1].kind \in {"Z", "X"} => t = <<>>
  <2>1. s[1].kind \in {"Z", "X"} => 1 = Len(s)
    BY <1>1 DEF IsAnswer
  <2> QED
    BY <2>1, <1>1, EmptySeq
<1>7. s[1].kind = "A" => ~Has(t, "A")
  <2>1. ASSUME s[1].kind = "A", NEW i \in 1 .. Len(t), t[i].kind = "A"
        PROVE  FALSE
    <3>1. s[i + 1].kind = "A" /\ i + 1 \in 1 .. Len(s) /\ 1 \in 1 .. Len(s)
      BY <2>1, <1>1, <1>2
    <3>2. i + 1 = 1
      BY <2>1, <3>1 DEF IsAnswer
    <3> QED
      BY <3>2
  <2> QED
    BY <2>1 DEF Has
<1>8. IsAnswer(t)
  BY <1>3, <1>4 DEF IsAnswer
<1> QED
  BY <1>1, <1>5, <1>6, <1>7, <1>8 DEF t

\* Packets of one request, with one more of it or without the first.
LEMMA RequestAppend ==
  ASSUME NEW s \in Seq(Packet), NEW p \in Packet, NEW r,
         OfRequest(s, r), p.req = r
  PROVE  OfRequest(Append(s, p), r)
<1> DEFINE t == Append(s, p)
<1>1. /\ Len(t) = Len(s) + 1 /\ Len(s) \in Nat
      /\ \A i \in 1 .. Len(s) : t[i] = s[i]
      /\ t[Len(s) + 1] = p
  BY AppendProperties, LenProperties
<1> HIDE DEF t
<1>2. OfRequest(t, r)
  BY <1>1 DEF OfRequest
<1> QED
  BY <1>2 DEF t

LEMMA RequestTail ==
  ASSUME NEW s \in Seq(Packet), s # <<>>, NEW r, OfRequest(s, r)
  PROVE  OfRequest(Tail(s), r) /\ Head(s).req = r
<1> DEFINE t == Tail(s)
<1>1. /\ Len(t) = Len(s) - 1 /\ Len(s) \in Nat /\ Len(s) > 0
      /\ \A i \in 1 .. Len(t) : t[i] = s[i + 1]
      /\ Head(s) = s[1]
  BY HeadTailProperties, LenProperties, EmptySeq
<1> HIDE DEF t
<1>2. OfRequest(t, r) /\ Head(s).req = r
  BY <1>1 DEF OfRequest
<1> QED
  BY <1>2 DEF t

\* Each of two parts of a sequence is as good as the whole.
LEMMA Parts ==
  ASSUME NEW s \in Seq(Packet), NEW t \in Seq(Packet)
  PROVE  /\ \A k : Has(s \o t, k) <=> Has(s, k) \/ Has(t, k)
         /\ InOrder(s \o t) => InOrder(s) /\ InOrder(t)
         /\ IsAnswer(s \o t) => IsAnswer(s)
         /\ \A r : OfRequest(s \o t, r) => OfRequest(s, r) /\ OfRequest(t, r)
<1> DEFINE u == s \o t
<1>1. /\ Len(u) = Len(s) + Len(t) /\ Len(s) \in Nat /\ Len(t) \in Nat
      /\ \A i \in 1 .. Len(s) : i \in 1 .. Len(u) /\ u[i] = s[i]
      /\ \A i \in 1 .. Len(t) : Len(s) + i \in 1 .. Len(u)
                                /\ u[Len(s) + i] = t[i]
      /\ \A i \in 1 .. Len(u) : i \in 1 .. Len(s)
           \/ (i - Len(s) \in 1 .. Len(t) /\ u[i] = t[i - Len(s)])
  BY ConcatProperties, LenProperties
<1> HIDE DEF u
<1>2. ASSUME NEW k PROVE Has(u, k) <=> Has(s, k) \/ Has(t, k)
  <2>1. Has(s, k) => Has(u, k)
    BY <1>1 DEF Has
  <2>2. Has(t, k) => Has(u, k)
    BY <1>1 DEF Has
  <2>3. Has(u, k) => Has(s, k) \/ Has(t, k)
    BY <1>1 DEF Has
  <2> QED
    BY <2>1, <2>2, <2>3
<1>3. ASSUME InOrder(u) PROVE InOrder(s) /\ InOrder(t)
  <2>1. InOrder(s)
    BY <1>1, <1>3 DEF InOrder
  <2>2. ASSUME NEW i \in 1 .. Len(t), NEW j \in 1 .. Len(t), i < j
        PROVE  Rank(t[i].kind) < Rank(t[j].kind)
    <3>1. /\ Len(s) + i < Len(s) + j
          /\ Len(s) + i \in 1 .. Len(u) /\ Len(s) + j \in 1 .. Len(u)
          /\ u[Len(s) + i] = t[i] /\ u[Len(s) + j] = t[j]
      BY <1>1, <2>2
    <3>2. Rank(u[Len(s) + i].kind) < Rank(u[Len(s) + j].kind)
      BY <3>1, <1>3 DEF InOrder
    <3> QED
      BY <3>1, <3>2
  <2>3. ASSUME NEW i \in 1 .. Len(t) PROVE t[i].kind \in {"env", "D", "Z"}
    BY <1>1, <1>3 DEF InOrder
  <2> QED
    BY <2>1, <2>2, <2>3 DEF InOrder
<1>4. ASSUME IsAnswer(u) PROVE IsAnswer(s)
  <2>1. ASSUME NEW i \in 1 .. Len(s), s[i].kind \in {"Z", "X"}
        PROVE  i = Len(s)
    <3>1. i = Len(u)
      BY <1>1, <1>4, <2>1 DEF IsAnswer
    <3> QED
      BY <3>1, <1>1
  <2>2. \A i \in 1 .. Len(s) : s[i].kind \in {"D", "A", "Z", "X"}
    BY <1>1, <1>4 DEF IsAnswer
  <2>3. \A i, j \in 1 .. Len(s) : s[i].kind = "A" /\ s[j].kind = "A" => i = j
    BY <1>1, <1>4 DEF IsAnswer
  <2> QED
    BY <2>1, <2>2, <2>3 DEF IsAnswer
<1>5. ASSUME NEW r, OfRequest(u, r) PROVE OfRequest(s, r) /\ OfRequest(t, r)
  <2>1. OfRequest(s, r)
    BY <1>1, <1>5 DEF OfRequest
  <2>2. ASSUME NEW i \in 1 .. Len(t) PROVE t[i].req = r
    BY <1>1, <1>5 DEF OfRequest
  <2> QED
    BY <2>1, <2>2 DEF OfRequest
<1> QED
  BY <1>2, <1>3, <1>4, <1>5 DEF u

\* Packets that move from the front of one buffer to the end of the other stay
\* where they are on the way.
LEMMA MoveOne ==
  ASSUME NEW s \in Seq(Packet), NEW t \in Seq(Packet), t # <<>>
  PROVE  Append(s, Head(t)) \o Tail(t) = s \o t
<1> DEFINE h == <<Head(t)>>
           r == Tail(t)
<1>1. Head(t) \in Packet /\ r \in Seq(Packet) /\ h \in Seq(Packet)
  BY HeadTailProperties
<1>2. t = h \o r
  <2>1. /\ Len(h \o r) = 1 + Len(r) /\ h \o r \in Seq(Packet)
        /\ \A i \in 1 .. 1 + Len(r) :
             (h \o r)[i] = IF i <= 1 THEN h[i] ELSE r[i - 1]
    BY <1>1, ConcatProperties, Len(h) = 1
  <2>2. /\ Len(r) = Len(t) - 1 /\ Len(t) \in Nat
        /\ \A i \in 1 .. Len(r) : r[i] = t[i + 1]
        /\ t[1] = h[1]
    BY HeadTailProperties, LenProperties
  <2>3. ASSUME NEW i \in 1 .. Len(t) PROVE t[i] = (h \o r)[i]
    <3>1. CASE i = 1
      BY <3>1, <2>1, <2>2
    <3>2. CASE i # 1
      <4>1. i - 1 \in 1 .. Len(r) /\ (i - 1) + 1 = i
        BY <3>2, <2>2
      <4>2. r[i - 1] = t[i]
        BY <4>1, <2>2
      <4> QED
        BY <3>2, <4>1, <4>2, <2>1, <2>2
    <3> QED
      BY <3>1, <3>2
  <2>4. Len(t) = Len(h \o r)
    BY <2>1, <2>2
  <2> DEFINE u == h \o r
  <2> HIDE DEF h, r, u
  <2>5. /\ u \in Seq(Packet) /\ Len(t) = Len(u)
        /\ \A i \in 1 .. Len(t) : t[i] = u[i]
    BY <2>1, <2>3, <2>4 DEF u
  <2>6. t = u
    BY <2>5, SeqEqual
  <2> QED
    BY <2>6 DEF u
<1>3. Append(s, Head(t)) = s \o h
  BY <1>1, AppendIsConcat
<1> HIDE DEF h, r
<1>4. (s \o h) \o r = s \o (h \o r)
  BY <1>1, ConcatAssociative, SMTT(30)
<1> QED
  BY <1>2, <1>3, <1>4 DEF r

LEMMA MoveSome ==
  ASSUME NEW s \in Seq(Packet), NEW n \in 1 .. Len(s)
  PROVE  /\ SubSeq(s, 1, n) \in Seq(Packet)
         /\ SubSeq(s, n + 1, Len(s)) \in Seq(Packet)
         /\ Len(SubSeq(s, n + 1, Len(s))) <= Len(s)
         /\ SubSeq(s, 1, n) \o SubSeq(s, n + 1, Len(s)) = s
<1>1. Len(s) \in Nat /\ \A i \in 1 .. Len(s) : s[i] \in Packet
  BY LenProperties, ElementOfSeq
<1>2. SubSeq(s, 1, n) \in Seq(Packet)
  BY <1>1, SubSeqProperties, \A i \in 1 .. n : s[i] \in Packet
<1>3. /\ SubSeq(s, n + 1, Len(s)) \in Seq(Packet)
      /\ Len(SubSeq(s, n + 1, Len(s))) <= Len(s)
  <2>1. n + 1 \in Int /\ Len(s) \in Int
        /\ \A i \in n + 1 .. Len(s) : s[i] \in Packet
    BY <1>1
  <2>2. /\ SubSeq(s, n + 1, Len(s)) \in Seq(Packet)
        /\ Len(SubSeq(s, n + 1, Len(s)))
             = IF n + 1 <= Len(s) THEN Len(s) - (n + 1) + 1 ELSE 0
    BY <2>1, SubSeqProperties
  <2> QED
    BY <2>2, <1>1
<1>4. SubSeq(s, 1, n) \o SubSeq(s, n + 1, Len(s)) = SubSeq(s, 1, Len(s))
  <2>1. 1 \in 1 .. Len(s) + 1 /\ n \in 1 - 1 .. Len(s) /\ Len(s) \in n .. Len(s)
    BY <1>1
  <2> QED
    BY <2>1, ConcatAdjacentSubSeq
<1> QED
  BY <1>2, <1>3, <1>4, SubSeqFull

\* A packet taken from the front, or added at the end, of what is on the way.
LEMMA FrontOfTwo ==
  ASSUME NEW s \in Seq(Packet), NEW t \in Seq(Packet), s # <<>>
  PROVE  /\ s \o t \in Seq(Packet) /\ s \o t # <<>>
         /\ Head(s \o t) = Head(s) /\ Tail(s \o t) = Tail(s) \o t
<1>1. s \o t \in Seq(Packet) /\ s \o t # <<>>
  BY ConcatProperties, ConcatEqualIffEmpty
<1>2. /\ Len(s \o t) = Len(s) + Len(t)
      /\ \A i \in 1 .. Len(s) + Len(t) :
           (s \o t)[i] = IF i <= Len(s) THEN s[i] ELSE t[i - Len(s)]
  BY ConcatProperties
<1>3. Len(s) \in Nat /\ Len(s) > 0 /\ Len(t) \in Nat
  BY EmptySeq, LenProperties
<1>4. Head(s \o t) = Head(s)
  BY <1>2, <1>3, Head(s \o t) = (s \o t)[1], Head(s) = s[1]
<1>5. /\ Tail(s) \in Seq(Packet) /\ Len(Tail(s)) = Len(s) - 1
      /\ \A i \in 1 .. Len(Tail(s)) : Tail(s)[i] = s[i + 1]
  BY HeadTailProperties
<1>6. /\ Tail(s \o t) \in Seq(Packet) /\ Len(Tail(s \o t)) = Len(s \o t) - 1
      /\ \A i \in 1 .. Len(Tail(s \o t)) : Tail(s \o t)[i] = (s \o t)[i + 1]
  <2> DEFINE u == s \o t
  <2>1. u \in Seq(Packet) /\ u # <<>>
    BY <1>1
  <2> HIDE DEF u
  <2>2. /\ Tail(u) \in Seq(Packet) /\ Len(Tail(u)) = Len(u) - 1
        /\ \A i \in 1 .. Len(Tail(u)) : Tail(u)[i] = u[i + 1]
    BY <2>1, HeadTailProperties
  <2> QED
    BY <2>2 DEF u
<1>7. Tail(s \o t) = Tail(s) \o t
  <2> DEFINE a == Tail(s)
             b == Tail(s \o t)
             c == s \o t
  <2> HIDE DEF a, b, c
  <2>1. /\ a \o t \in Seq(Packet) /\ Len(a \o t) = Len(a) + Len(t)
        /\ \A i \in 1 .. Len(a) + Len(t) :
             (a \o t)[i] = IF i <= Len(a) THEN a[i] ELSE t[i - Len(a)]
    BY <1>5, ConcatProperties DEF a
  <2>2. /\ Len(c) = Len(s) + Len(t) /\ Len(a) = Len(s) - 1
        /\ b \in Seq(Packet) /\ Len(b) = Len(c) - 1
        /\ \A i \in 1 .. Len(a) : a[i] = s[i + 1]
        /\ \A i \in 1 .. Len(b) : b[i] = c[i + 1]
        /\ \A i \in 1 .. Len(s) + Len(t) :
             c[i] = IF i <= Len(s) THEN s[i] ELSE t[i - Len(s)]
    BY <1>2, <1>5, <1>6 DEF a, b, c
  <2>3. ASSUME NEW i \in 1 .. Len(b) PROVE b[i] = (a \o t)[i]
    <3>1. /\ i + 1 \in 1 .. Len(s) + Len(t) /\ i \in 1 .. Len(a) + Len(t)
          /\ b[i] = c[i + 1]
      BY <2>2, <1>3
    <3>2. CASE i <= Len(a)
      <4>1. i \in 1 .. Len(a) /\ i + 1 <= Len(s)
        BY <3>2, <2>2, <1>3
      <4> QED
        BY <4>1, <3>1, <3>2, <2>1, <2>2
    <3>3. CASE ~(i <= Len(a))
      <4>1. ~(i + 1 <= Len(s)) /\ (i + 1) - Len(s) = i - Len(a)
        BY <3>3, <2>2, <1>3
      <4>2. c[i + 1] = t[(i + 1) - Len(s)] /\ (a \o t)[i] = t[i - Len(a)]
        BY <4>1, <3>1, <3>3, <2>1, <2>2
      <4> QED
        BY <4>1, <4>2, <3>1
    <3> QED
      BY <3>2, <3>3
  <2>4. Len(b) = Len(a \o t)
    BY <2>1, <2>2, <1>3
  <2>5. b = a \o t
    BY <2>1, <2>2, <2>3, <2>4, SeqEqual
  <2> QED
    BY <2>5 DEF a, b
<1> QED
  BY <1>1, <1>4, <1>7

LEMMA BackOfTwo ==
  ASSUME NEW s \in Seq(Packet), NEW t \in Seq(Packet), NEW p \in Packet
  PROVE  /\ Append(t, p) \in Seq(Packet)
         /\ s \o Append(t, p) = Append(s \o t, p)
<1>1. Append(t, p) = t \o <<p>> /\ <<p>> \in Seq(Packet)
  BY AppendIsConcat
<1>2. s \o t \in Seq(Packet)
  BY ConcatProperties
<1>3. Append(s \o t, p) = (s \o t) \o <<p>>
  BY <1>2, AppendIsConcat
<1>4. (s \o t) \o <<p>> = s \o (t \o <<p>>)
  BY <1>1, ConcatAssociative
<1> QED
  BY <1>1, <1>3, <1>4, AppendProperties

-----------------------------------------------------------------------------
(* The steps of mod_caucho.                                                 *)

\* cse_write and cse_flush move a packet to the socket, or lose it.
LEMMA SendKeeps == ReqInv /\ Send => ReqInv'
<1> SUFFICES ASSUME ReqInv, Send PROVE ReqInv'
  OBVIOUS
<1> USE DEF ReqInv
<1>1. /\ TypeOK' /\ Back' = Back
      /\ Out \in Seq(Packet) /\ Out # <<>>
      /\ Out' = IF jpc = "gone" THEN Tail(Out) ELSE Out
  <2>1. Head(writeBuf) \in Packet /\ Tail(writeBuf) \in Seq(Packet)
    BY HeadTailProperties DEF TypeOK, Send
  <2>2. CASE jpc = "gone"
    <3>1. toJvm = <<>> /\ toJvm' = <<>> /\ writeBuf' = Tail(writeBuf)
      BY <2>2 DEF ControlInv, Send
    <3>2. <<>> \o writeBuf = writeBuf /\ <<>> \o Tail(writeBuf) = Tail(writeBuf)
      BY <2>1, ConcatEmptySeq DEF TypeOK
    <3>3. Out = writeBuf /\ Out' = Tail(writeBuf)
      BY <3>1, <3>2 DEF Out
    <3> QED
      BY <2>1, <2>2, <3>1, <3>3 DEF TypeOK, Send, mod, jvm, Back
  <2>3. CASE jpc # "gone"
    <3>1. /\ toJvm' = Append(toJvm, Head(writeBuf))
          /\ Len(toJvm) < InCapacity /\ writeBuf' = Tail(writeBuf)
      BY <2>3 DEF Send
    <3>2. toJvm' \in Seq(Packet) /\ Len(toJvm') = Len(toJvm) + 1
      BY <3>1, <2>1, AppendProperties DEF TypeOK
    <3>3. Out' = Out
      BY <3>1, MoveOne DEF Out, TypeOK, Send
    <3>4. Out \in Seq(Packet) /\ Out # <<>>
      BY ConcatProperties, ConcatEqualIffEmpty DEF Out, TypeOK, Send
    <3>5. Len(toJvm') <= InCapacity
      BY <3>1, <3>2, LenProperties DEF TypeOK
    <3>6. TypeOK'
      BY <2>1, <3>1, <3>2, <3>5 DEF TypeOK, Send, mod, jvm
    <3> QED
      BY <2>3, <3>3, <3>4, <3>6 DEF Send, Back
  <2> QED
    BY <2>2, <2>3
<1>2. /\ InOrder(Out)' /\ OfRequest(Out, cur)'
      /\ \A k : Has(Out, k)' => Has(Out, k)
      /\ jpc # "gone" => \A k : Has(Out, k)' <=> Has(Out, k)
  BY <1>1, OrderTail, RequestTail, HasTail DEF WireInv, Send
<1>3. IsAnswer(Back)' /\ OfRequest(Back, cur)'
      /\ \A k : Has(Back, k)' <=> Has(Back, k)
  BY <1>1 DEF WireInv, Send
<1>4. ControlInv'
  BY DEF ControlInv, Send, jvm, One
<1>5. WireInv'
  BY <1>1, <1>2, <1>3 DEF WireInv, Send, jvm, Between, Reading, Empty
<1>6. TokenInv'
  BY <1>2, <1>3 DEF TokenInv, Send, jvm
<1>7. ScanInv'
  BY <1>1, <1>2, <1>3 DEF ScanInv, Send, jvm, One
<1>8. ServeInv'
  BY <1>1, <1>2, <1>3 DEF ServeInv, Send, jvm, One, Serving
<1>9. CountInv' /\ AnswersOwn' /\ ExchangeWhole'
  BY <1>1, <1>3 DEF CountInv, AnswersOwn, ExchangeWhole, Send, jvm, One, Serving, Reading, Empty
<1> QED
  BY <1>1, <1>4, <1>5, <1>6, <1>7, <1>8, <1>9

\* cse_write finds the socket broken: what was in the buffer is lost.
LEMMA WriteFailKeeps == ReqInv /\ WriteFail => ReqInv'
<1> SUFFICES ASSUME ReqInv, WriteFail PROVE ReqInv'
  OBVIOUS
<1> USE DEF ReqInv
<1>1. jpc = "gone" /\ toJvm = <<>> /\ pc = "block"
  BY DEF ControlInv, WriteFail, Written
<1>2. TypeOK'
  BY EmptySeq DEF TypeOK, WriteFail, jvm
<1>3. Out' = <<>> /\ Back' = Back /\ Out \in Seq(Packet)
  <2>1. <<>> \o <<>> = <<>> /\ <<>> \in Seq(Packet)
    BY EmptySeq, ConcatEmptySeq
  <2> QED
    BY <1>1, <2>1, ConcatProperties DEF Out, Back, WriteFail, TypeOK
<1>4. InOrder(Out)' /\ OfRequest(Out, cur)' /\ \A k : ~Has(Out, k)'
  BY <1>3, EmptySeq DEF InOrder, OfRequest, Has
<1>5. IsAnswer(Back)' /\ OfRequest(Back, cur)'
      /\ \A k : Has(Back, k)' <=> Has(Back, k)
  BY <1>3 DEF WireInv, WriteFail
<1>6. ControlInv'
  BY <1>1 DEF ControlInv, WriteFail, jvm, One, Between
<1>7. WireInv'
  BY <1>1, <1>3, <1>4, <1>5 DEF WireInv, WriteFail, jvm, Between
<1>8. TokenInv' /\ ScanInv' /\ ServeInv'
  BY <1>1, <1>4, <1>5 DEF TokenInv, ScanInv, ServeInv, WriteFail, jvm, Serving
<1>9. CountInv' /\ AnswersOwn' /\ ExchangeWhole'
  BY <1>1 DEF CountInv, AnswersOwn, ExchangeWhole, WriteFail
<1> QED
  BY <1>2, <1>6, <1>7, <1>8, <1>9

\* A request starts on a connection with nothing on the way.
LEMMA BeginKeeps == ReqInv /\ Begin => ReqInv'
<1> SUFFICES ASSUME ReqInv, Begin PROVE ReqInv'
  OBVIOUS
<1> USE DEF ReqInv
<1>1. cur' \in Req /\ P("env", cur') \in Packet
  <2>1. cur % Requests \in 0 .. Requests - 1
    BY DEF TypeOK, Req
  <2> QED
    BY <2>1 DEF Begin, Req, P, Packet
<1>2. /\ toJvm = <<>> /\ toApache = <<>> /\ pc = "idle" /\ open
      /\ Out = <<>> /\ Back = <<>>
  <2>1. Out = <<>> /\ Back = <<>>
    BY DEF Begin, WireInv, Between
  <2> QED
    BY <2>1, ConcatEqualIffEmpty
       DEF Begin, ControlInv, Between, Out, Back, TypeOK
<1> DEFINE e == <<P("env", cur')>>
<1>3. e \in Seq(Packet) /\ Len(e) = 1 /\ e[1] = P("env", cur')
  BY <1>1
<1>4. Out' = e /\ Back' = <<>>
  BY <1>2, <1>3, EmptySeq, ConcatEmptySeq DEF Out, Back, Begin
<1>5. TypeOK'
  BY <1>1, <1>3, EmptySeq DEF TypeOK, Begin, jvm
<1>6. /\ InOrder(Out)' /\ OfRequest(Out, cur)'
      /\ Has(Out, "env")' /\ ~Has(Out, "D")' /\ ~Has(Out, "Z")'
  <2> HIDE DEF e
  <2>1. /\ InOrder(e) /\ OfRequest(e, cur')
        /\ Has(e, "env") /\ ~Has(e, "D") /\ ~Has(e, "Z")
    BY <1>3 DEF InOrder, OfRequest, Has, P
  <2> QED
    BY <2>1, <1>4
<1>7. IsAnswer(Back)' /\ OfRequest(Back, cur)' /\ \A k : ~Has(Back, k)'
  BY <1>4, EmptySeq DEF IsAnswer, OfRequest, Has
<1>8. \A k : ~Has(Out, k) /\ ~Has(Back, k)
  BY <1>2, HasEmpty
<1>9. jpc \in {"scan", "gone"} /\ ~(jpc = "scan" /\ pending)
  BY <1>2 DEF ServeInv, ScanInv, Serving, Between, TypeOK
<1> HIDE DEF e
<1>10. ControlInv'
  <2>1. PICK b \in 0 .. MaxBlocks : blocks' = b
    BY DEF Begin
  <2>2. sent' + blocks' + One(pc = "ack")' <= MaxBlocks
    BY <2>1 DEF Begin, One
  <2> QED
    BY <1>2, <1>9, <2>2 DEF ControlInv, Begin, jvm, One, Between
<1>11. WireInv'
  BY <1>2, <1>6, <1>7 DEF WireInv, Begin, jvm, Between
<1>12. TokenInv'
  BY <1>2, <1>6, <1>7 DEF TokenInv, Begin, jvm, Between
<1>13. ScanInv'
  BY <1>2, <1>4, <1>6, <1>7, <1>9 DEF ScanInv, Begin, jvm, One, Between
<1>14. ServeInv' /\ CountInv'
  BY <1>7, <1>9 DEF ServeInv, CountInv, Begin, jvm, Serving
<1>15. AnswersOwn' /\ ExchangeWhole'
  BY <1>2, EmptySeq DEF AnswersOwn, ExchangeWhole, Begin
<1> QED
  BY <1>5, <1>10, <1>11, <1>12, <1>13, <1>14, <1>15

\* write_request adds a packet to the stream.
LEMMA Writes ==
  ASSUME ReqInv, NEW k \in {"D", "Z"}, Write(P(k, cur)),
         UNCHANGED <<toJvm, cur>>, ~Has(Out, "Z"), ~Has(Out, k)
  PROVE  /\ writeBuf' \in Seq(Packet)
         /\ InOrder(Out)' /\ OfRequest(Out, cur)'
         /\ \A n : Has(Out, n)' <=> Has(Out, n) \/ n = k
<1> USE DEF ReqInv
<1>1. P(k, cur) \in Packet /\ P(k, cur).kind = k /\ P(k, cur).req = cur
  BY DEF P, Packet, TypeOK
<1>2. Out \in Seq(Packet)
  BY ConcatProperties DEF Out, TypeOK
<1>3. writeBuf' \in Seq(Packet) /\ Out' = Append(Out, P(k, cur))
  BY <1>1, BackOfTwo DEF Out, TypeOK, Write
<1>4. InOrder(Append(Out, P(k, cur))) /\ OfRequest(Append(Out, P(k, cur)), cur)
  BY <1>1, <1>2, OrderAppend, RequestAppend DEF WireInv
<1>5. \A n : Has(Append(Out, P(k, cur)), n) <=> Has(Out, n) \/ n = k
  BY <1>1, <1>2, HasAppend
<1> QED
  BY <1>3, <1>4, <1>5

\* The first block of a POST: none is on the way.
LEMMA FirstBlockKeeps == ReqInv /\ FirstBlock => ReqInv'
<1> SUFFICES ASSUME ReqInv, FirstBlock PROVE ReqInv'
  OBVIOUS
<1> USE DEF ReqInv
<1>1. ~Has(Out, "Z") /\ ~Has(Out, "D") /\ ~Has(Back, "A") /\ ~pending
      /\ ~Has(Back, "Z") /\ pc = "block"
  BY DEF FirstBlock, WireInv, TokenInv, Written
<1>2. /\ writeBuf' \in Seq(Packet)
      /\ InOrder(Out)' /\ OfRequest(Out, cur)'
      /\ \A n : Has(Out, n)' <=> Has(Out, n) \/ n = "D"
  BY <1>1, Writes DEF FirstBlock
<1>3. Back' = Back
  BY DEF Back, FirstBlock
<1>4. IsAnswer(Back)' /\ OfRequest(Back, cur)'
      /\ \A k : Has(Back, k)' <=> Has(Back, k)
  BY <1>3 DEF WireInv, FirstBlock
<1>5. TypeOK' /\ ControlInv'
  BY <1>2 DEF TypeOK, ControlInv, FirstBlock, jvm, One, Between, Written
<1>6. jpc \notin Serving
  BY <1>1 DEF ServeInv, FirstBlock, Written
<1>7. WireInv'
  BY <1>1, <1>2, <1>4 DEF WireInv, FirstBlock, jvm, Between
<1>8. TokenInv'
  BY <1>1, <1>2, <1>4 DEF TokenInv, FirstBlock, jvm, Between
<1>9. ScanInv'
  BY <1>1, <1>2, <1>3, <1>4 DEF ScanInv, FirstBlock, jvm, One, Between, Written
<1>10. ServeInv' /\ CountInv'
  BY <1>1, <1>4, <1>6 DEF ServeInv, CountInv, FirstBlock, jvm, Serving
<1>11. AnswersOwn' /\ ExchangeWhole'
  BY DEF AnswersOwn, ExchangeWhole, FirstBlock
<1> QED
  BY <1>5, <1>7, <1>8, <1>9, <1>10, <1>11

\* The end of the request: it has not been written before.
LEMMA EndOfBodyKeeps == ReqInv /\ EndOfBody => ReqInv'
<1> SUFFICES ASSUME ReqInv, EndOfBody PROVE ReqInv'
  OBVIOUS
<1> USE DEF ReqInv
<1>1. ~Has(Out, "Z") /\ ~Has(Back, "Z") /\ pc = "block" /\ pc' = "final"
  BY DEF EndOfBody, WireInv, Written
<1>2. /\ writeBuf' \in Seq(Packet)
      /\ InOrder(Out)' /\ OfRequest(Out, cur)'
      /\ \A n : Has(Out, n)' <=> Has(Out, n) \/ n = "Z"
  BY <1>1, Writes DEF EndOfBody
<1>3. Back' = Back
  BY DEF Back, EndOfBody
<1>4. IsAnswer(Back)' /\ OfRequest(Back, cur)'
      /\ \A k : Has(Back, k)' <=> Has(Back, k)
  BY <1>3 DEF WireInv, EndOfBody
<1>5. TypeOK' /\ ControlInv'
  BY <1>2 DEF TypeOK, ControlInv, EndOfBody, jvm, One, Between, Written
<1>6. WireInv'
  BY <1>1, <1>2, <1>4 DEF WireInv, EndOfBody, jvm, Between, Written
<1>7. TokenInv'
  BY <1>1, <1>2, <1>4 DEF TokenInv, EndOfBody, jvm, Between
<1>8. ScanInv'
  BY <1>1, <1>2, <1>3, <1>4 DEF ScanInv, EndOfBody, jvm, One, Between, Written
<1>9. ServeInv'
  BY <1>1, <1>2, <1>4
     DEF ServeInv, EndOfBody, jvm, One, Between, Written, Serving
<1>10. CountInv'
  BY <1>1, <1>3, <1>4 DEF CountInv, EndOfBody, jvm, Serving, One
<1>11. AnswersOwn' /\ ExchangeWhole'
  BY <1>1 DEF AnswersOwn, ExchangeWhole, EndOfBody
<1> QED
  BY <1>5, <1>6, <1>7, <1>8, <1>9, <1>10, <1>11

\* Another block: write_request starts to wait for the acknowledgement.
LEMMA NextBlockKeeps == ReqInv /\ NextBlock => ReqInv'
<1> SUFFICES ASSUME ReqInv, NextBlock PROVE ReqInv'
  OBVIOUS
<1> USE DEF ReqInv
<1>1. Out' = Out /\ Back' = Back /\ pc = "block" /\ pc' = "ack"
  BY DEF Out, Back, NextBlock
<1>2. /\ InOrder(Out)' /\ OfRequest(Out, cur)'
      /\ IsAnswer(Back)' /\ OfRequest(Back, cur)'
      /\ \A k : Has(Out, k)' <=> Has(Out, k)
      /\ \A k : Has(Back, k)' <=> Has(Back, k)
  BY <1>1 DEF WireInv, NextBlock
<1>3. TypeOK' /\ ControlInv'
  BY DEF TypeOK, ControlInv, NextBlock, jvm, One, Between, Written
<1>4. WireInv' /\ TokenInv'
  BY <1>1, <1>2 DEF WireInv, TokenInv, NextBlock, jvm, Between, Written
<1>5. ScanInv'
  BY <1>1, <1>2 DEF ScanInv, NextBlock, jvm, One, Between, Written
<1>6. ServeInv'
  BY <1>1, <1>2 DEF ServeInv, NextBlock, jvm, One, Between, Written, Serving
<1>7. CountInv' /\ AnswersOwn' /\ ExchangeWhole'
  BY <1>1, <1>2
     DEF CountInv, AnswersOwn, ExchangeWhole, NextBlock, jvm, One, Serving
<1> QED
  BY <1>3, <1>4, <1>5, <1>6, <1>7

\* cse_recycle and cse_close.
LEMMA RecycleKeeps == ReqInv /\ Recycle => ReqInv'
<1> SUFFICES ASSUME ReqInv, Recycle PROVE ReqInv'
  OBVIOUS
<1> USE DEF ReqInv
<1>1. Out' = Out /\ Back' = Back /\ pc = "reuse" /\ pc' = "idle"
  BY DEF Out, Back, Recycle
<1>2. /\ InOrder(Out)' /\ OfRequest(Out, cur)'
      /\ IsAnswer(Back)' /\ OfRequest(Back, cur)'
      /\ \A k : Has(Out, k)' <=> Has(Out, k)
      /\ \A k : Has(Back, k)' <=> Has(Back, k)
  BY <1>1 DEF WireInv, Recycle
<1>3. TypeOK' /\ ControlInv'
  BY DEF TypeOK, ControlInv, Recycle, jvm, One, Between, Written
<1>4. WireInv' /\ TokenInv'
  BY <1>1, <1>2 DEF WireInv, TokenInv, Recycle, jvm, Between, Written
<1>5. ScanInv' /\ ServeInv'
  BY <1>1 DEF ScanInv, ServeInv, Recycle, jvm, Between, Serving
<1>6. CountInv' /\ AnswersOwn' /\ ExchangeWhole'
  BY <1>1, <1>2
     DEF CountInv, AnswersOwn, ExchangeWhole, Recycle, jvm, One, Serving
<1> QED
  BY <1>3, <1>4, <1>5, <1>6

LEMMA CloseKeeps == ReqInv /\ Close => ReqInv'
<1> SUFFICES ASSUME ReqInv, Close PROVE ReqInv'
  OBVIOUS
<1> USE DEF ReqInv
<1>1. Out' = Out /\ Back' = Back /\ pc = "close" /\ pc' = "gone" /\ ~open'
  BY DEF Out, Back, Close
<1>2. /\ InOrder(Out)' /\ OfRequest(Out, cur)'
      /\ IsAnswer(Back)' /\ OfRequest(Back, cur)'
      /\ \A k : Has(Out, k)' <=> Has(Out, k)
      /\ \A k : Has(Back, k)' <=> Has(Back, k)
  BY <1>1 DEF WireInv, Close
<1>3. TypeOK' /\ ControlInv'
  BY DEF TypeOK, ControlInv, Close, jvm, One, Between, Written
<1>4. WireInv' /\ TokenInv'
  BY <1>1, <1>2 DEF WireInv, TokenInv, Close, jvm, Between, Written
<1>5. ScanInv'
  BY <1>1, <1>2 DEF ScanInv, Close, jvm, One, Between, Written
<1>6. ServeInv'
  BY <1>1, <1>2 DEF ServeInv, Close, jvm, One, Between, Written, Serving
<1>7. CountInv' /\ AnswersOwn' /\ ExchangeWhole'
  BY <1>1 DEF CountInv, AnswersOwn, ExchangeWhole, Close
<1> QED
  BY <1>3, <1>4, <1>5, <1>6, <1>7

\* A connection of its own has nothing on the way.
LEMMA ConnectKeeps == ReqInv /\ Connect => ReqInv'
<1> SUFFICES ASSUME ReqInv, Connect PROVE ReqInv'
  OBVIOUS
<1> USE DEF ReqInv
<1>1. Out' = <<>> /\ Back' = <<>> /\ pc' = "idle"
  BY EmptySeq, ConcatEmptySeq DEF Out, Back, Connect
<1>2. /\ InOrder(Out)' /\ OfRequest(Out, cur)'
      /\ IsAnswer(Back)' /\ OfRequest(Back, cur)'
      /\ \A k : ~Has(Out, k)' /\ ~Has(Back, k)'
  BY <1>1, EmptySeq DEF InOrder, OfRequest, IsAnswer, Has
<1>3. TypeOK' /\ ControlInv'
  <2>1. TypeOK'
    <3>1. <<>> \in Seq(Packet) /\ <<>> \in Seq(Req) /\ Len(<<>>) = 0
      BY EmptySeq
    <3>2. 0 \in Req /\ 0 \in 0 .. MaxBlocks /\ 0 \in 0 .. MaxAnswer
      BY DEF Req
    <3>3. /\ pc' = "idle" /\ cur' \in Req
          /\ blocks' \in 0 .. MaxBlocks /\ sent' \in 0 .. MaxBlocks
      BY DEF TypeOK, Connect
    <3>4. /\ writeBuf' \in Seq(Packet) /\ readBuf' \in Seq(Packet)
          /\ toJvm' \in Seq(Packet) /\ toApache' \in Seq(Packet)
          /\ browser' \in Seq(Req)
      BY <3>1 DEF Connect
    <3>5. Len(toJvm') <= InCapacity /\ Len(toApache') <= OutCapacity
      BY <3>1 DEF Connect
    <3> QED
      BY <3>2, <3>3, <3>4, <3>5 DEF TypeOK, Connect
  <2>2. sent' + blocks' + One(pc = "ack")' <= MaxBlocks
    BY DEF TypeOK, ControlInv, Connect, One
  <2> QED
    BY <2>1, <2>2 DEF ControlInv, Connect, One
<1>4. WireInv' /\ TokenInv'
  BY <1>1, <1>2 DEF WireInv, TokenInv, Connect
<1>5. ScanInv' /\ ServeInv' /\ CountInv'
  BY <1>1, <1>2 DEF ScanInv, ServeInv, CountInv, Connect, Between, Serving
<1>6. AnswersOwn' /\ ExchangeWhole'
  BY <1>1, EmptySeq DEF AnswersOwn, ExchangeWhole, Connect
<1> QED
  BY <1>3, <1>4, <1>5, <1>6

-----------------------------------------------------------------------------
(* send_data.                                                               *)

\* recv moves what has arrived into s->read_buf.
LEMMA ReceiveKeeps == ReqInv /\ Receive => ReqInv'
<1> SUFFICES ASSUME ReqInv, Receive PROVE ReqInv'
  OBVIOUS
<1> USE DEF ReqInv
<1>1. PICK n \in 1 .. Len(toApache) :
         /\ readBuf' = SubSeq(toApache, 1, n)
         /\ toApache' = SubSeq(toApache, n + 1, Len(toApache))
  BY DEF Receive
<1>2. /\ readBuf' \in Seq(Packet) /\ toApache' \in Seq(Packet)
      /\ Len(toApache') <= Len(toApache)
      /\ readBuf' \o toApache' = toApache
  BY <1>1, MoveSome DEF TypeOK
<1>3. Out' = Out /\ Back' = Back /\ Len(toApache') <= OutCapacity
  <2>1. <<>> \o toApache = toApache
    BY ConcatEmptySeq DEF TypeOK
  <2> QED
    BY <1>2, <2>1, LenProperties DEF Out, Back, Receive, Empty, TypeOK
<1>4. /\ InOrder(Out)' /\ OfRequest(Out, cur)'
      /\ IsAnswer(Back)' /\ OfRequest(Back, cur)'
      /\ \A k : Has(Out, k)' <=> Has(Out, k)
      /\ \A k : Has(Back, k)' <=> Has(Back, k)
  BY <1>3 DEF WireInv, Receive
<1>5. TypeOK' /\ ControlInv'
  BY <1>2, <1>3
     DEF TypeOK, ControlInv, Receive, mod, jvm, One, Between, Written
<1>6. WireInv' /\ TokenInv'
  BY <1>3, <1>4 DEF WireInv, TokenInv, Receive, jvm, Between, Written
<1>7. ScanInv'
  BY <1>3, <1>4 DEF ScanInv, Receive, jvm, One, Between, Written
<1>8. ServeInv'
  BY <1>3, <1>4 DEF ServeInv, Receive, jvm, One, Between, Written, Serving
<1>9. CountInv' /\ AnswersOwn' /\ ExchangeWhole'
  BY <1>3, <1>4
     DEF CountInv, AnswersOwn, ExchangeWhole, Receive, jvm, One, Serving
<1> QED
  BY <1>5, <1>6, <1>7, <1>8, <1>9

\* A packet that was received is the first on the way back.
LEMMA Reads ==
  ASSUME ReqInv, readBuf # <<>>
  PROVE  LET p == Head(readBuf)
         IN  /\ Head(Back) = p /\ Tail(Back) = Tail(readBuf) \o toApache
             /\ Back \in Seq(Packet) /\ Back # <<>>
             /\ p \in Packet /\ p.req = cur /\ p.kind \in {"D", "A", "Z", "X"}
             /\ Has(Back, p.kind)
             /\ Tail(Back) \in Seq(Packet) /\ IsAnswer(Tail(Back))
             /\ OfRequest(Tail(Back), cur)
             /\ Len(Tail(Back)) = Len(Back) - 1 /\ Len(Back) \in Nat
             /\ \A k : Has(Back, k) <=> k = p.kind \/ Has(Tail(Back), k)
             /\ p.kind = "A" => ~Has(Tail(Back), "A")
             /\ p.kind \in {"Z", "X"} => Tail(Back) = <<>>
             /\ Tail(readBuf) \in Seq(Packet)
<1> USE DEF ReqInv
<1>1. /\ Back \in Seq(Packet) /\ Back # <<>> /\ Head(Back) = Head(readBuf)
      /\ Tail(Back) = Tail(readBuf) \o toApache
  BY FrontOfTwo DEF Back, TypeOK
<1>2. Tail(readBuf) \in Seq(Packet)
  BY HeadTailProperties DEF TypeOK
<1>3. /\ IsAnswer(Tail(Back)) /\ Head(Back).kind \in {"D", "A", "Z", "X"}
      /\ Head(Back).kind = "A" => ~Has(Tail(Back), "A")
      /\ Head(Back).kind \in {"Z", "X"} => Tail(Back) = <<>>
  BY <1>1, AnswerTail DEF WireInv
<1>4. OfRequest(Tail(Back), cur) /\ Head(Back).req = cur
  BY <1>1, RequestTail DEF WireInv
<1>5. /\ Head(Back) \in Packet /\ Tail(Back) \in Seq(Packet)
      /\ \A k : Has(Back, k) <=> Head(Back).kind = k \/ Has(Tail(Back), k)
  BY <1>1, HasTail
<1>6. Len(Tail(Back)) = Len(Back) - 1 /\ Len(Back) \in Nat
  BY <1>1, HeadTailProperties, LenProperties
<1> QED
  BY <1>1, <1>2, <1>3, <1>4, <1>5, <1>6

\* Data goes to the browser; an acknowledgement that nobody waits for is
\* dropped.
LEMMA ReadDataKeeps == ReqInv /\ ReadData => ReqInv'
<1> SUFFICES ASSUME ReqInv, ReadData PROVE ReqInv'
  OBVIOUS
<1> USE DEF ReqInv
<1> DEFINE p == Head(readBuf)
<1>1. /\ p \in Packet /\ p.req = cur /\ p.kind \in {"D", "A"}
      /\ p.kind = "A" => pc = "final"
      /\ pc \in {"ack", "final"} /\ open /\ Has(Back, p.kind)
  BY Reads DEF ReadData, Reading, Ends
<1>2. Out' = Out /\ Back' = Tail(Back)
  BY Reads DEF Out, Back, ReadData
<1>3. /\ IsAnswer(Back)' /\ OfRequest(Back, cur)'
      /\ Len(Back)' = Len(Back) - 1 /\ Len(Back) \in Nat
      /\ \A k : Has(Back, k) <=> k = p.kind \/ Has(Back, k)'
      /\ p.kind = "A" => ~Has(Back, "A")'
  BY <1>2, Reads DEF ReadData
<1>4. /\ InOrder(Out)' /\ OfRequest(Out, cur)'
      /\ \A k : Has(Out, k)' <=> Has(Out, k)
  BY <1>2 DEF WireInv, ReadData
<1>5. /\ browser' \in Seq(Req)
      /\ Len(browser') = Len(browser) + One(p.kind = "D")
      /\ Len(browser) \in Nat
      /\ AnswersOwn'
  <2>1. CASE p.kind = "D"
    <3>1. browser' = Append(browser, cur)
      BY <2>1, <1>1 DEF ReadData
    <3>2. /\ browser' \in Seq(Req) /\ Len(browser') = Len(browser) + 1
          /\ \A i \in 1 .. Len(browser) : browser'[i] = browser[i]
          /\ browser'[Len(browser) + 1] = cur
      BY <3>1, AppendProperties DEF TypeOK
    <3>3. Len(browser) \in Nat
      BY LenProperties DEF TypeOK
    <3> QED
      BY <2>1, <3>2, <3>3 DEF AnswersOwn, One, ReadData
  <2>2. CASE p.kind # "D"
    BY <2>2, LenProperties DEF TypeOK, AnswersOwn, One, ReadData
  <2> QED
    BY <2>1, <2>2
<1>6. TypeOK' /\ ControlInv'
  BY <1>5, Reads DEF TypeOK, ControlInv, ReadData, jvm, One, Between, Written
<1> HIDE DEF p
<1>7. WireInv'
  BY <1>1, <1>2, <1>3, <1>4 DEF WireInv, ReadData, jvm, Between, Written
<1>8. TokenInv'
  BY <1>1, <1>3, <1>4 DEF TokenInv, ReadData, jvm, Between
<1>9. ScanInv'
  BY <1>1, <1>2, <1>3, <1>4, HasEmpty
     DEF ScanInv, ReadData, jvm, One, Between, Written
<1>10. ServeInv'
  BY <1>1, <1>2, <1>3, <1>4
     DEF ServeInv, ReadData, jvm, One, Between, Written, Serving
<1>11. CountInv'
  <2>1. UNCHANGED <<open, jpc, left>> /\ left \in Int
    BY DEF ReadData, jvm, TypeOK
  <2>2. (Has(Back, "Z") <=> Has(Back, "Z")')
        /\ (Has(Back, "X") <=> Has(Back, "X")')
    BY <1>1, <1>3
  <2>3. CASE p.kind = "D"
    BY <1>3, <1>5, <2>1, <2>2, <2>3 DEF CountInv, One
  <2>4. CASE p.kind = "A"
    BY <1>3, <1>5, <2>1, <2>2, <2>4 DEF CountInv, One
  <2> QED
    BY <1>1, <2>3, <2>4
<1>12. ExchangeWhole'
  BY <1>1 DEF ExchangeWhole, ReadData
<1> QED
  BY <1>5, <1>6, <1>7, <1>8, <1>9, <1>10, <1>11, <1>12

\* send_data fails or finds that the JVM will not keep the connection: the end
\* is still written to it, or write_request returns 0.
LEMMA FailKeeps ==
  ASSUME ReqInv, NEW code, code \notin {"A", "Z"}, Return(code),
         pc \in {"ack", "final"},
         open' \in BOOLEAN, open' => open /\ jpc = "gone",
         readBuf' \in Seq(Packet),
         Back' = Back \/ (jpc = "gone" /\ Back' = <<>>),
         UNCHANGED <<cur, blocks, browser, toJvm, toApache, jvm>>
  PROVE  ReqInv'
<1> USE DEF ReqInv
<1>1. \/ /\ pc = "ack" /\ Write(P("Z", cur)) /\ pc' = "final"
         /\ UNCHANGED sent
      \/ /\ pc = "final" /\ pc' = "close" /\ UNCHANGED <<sent, writeBuf>>
  BY DEF Return, Reusable
<1>2. UNCHANGED <<sent, jpc, serving, pending, sawEnd, acked, body, left>>
      /\ pc' \in {"final", "close"}
  BY <1>1 DEF jvm
<1>3. /\ writeBuf' \in Seq(Packet)
      /\ InOrder(Out)' /\ OfRequest(Out, cur)'
      /\ pc = "final" => Out' = Out
      /\ \A n : Has(Out, n)' <=> Has(Out, n) \/ (n = "Z" /\ pc = "ack")
  <2>1. CASE pc = "ack"
    <3>1. ~Has(Out, "Z") /\ Write(P("Z", cur))
      BY <2>1, <1>1 DEF WireInv, Written
    <3> QED
      BY <2>1, <3>1, Writes
  <2>2. CASE pc = "final"
    <3>1. Out' = Out /\ UNCHANGED writeBuf
      BY <2>2, <1>1 DEF Out
    <3> QED
      BY <2>2, <3>1 DEF WireInv, TypeOK
  <2> QED
    BY <2>1, <2>2
<1>4. /\ IsAnswer(Back)' /\ OfRequest(Back, cur)'
      /\ \A k : Has(Back, k)' => Has(Back, k)
      /\ jpc # "gone" => Back' = Back /\ \A k : Has(Back, k)' <=> Has(Back, k)
  <2>1. CASE Back' = Back
    BY <2>1 DEF WireInv
  <2>2. CASE jpc = "gone" /\ Back' = <<>>
    BY <2>2, EmptySeq DEF IsAnswer, OfRequest, Has
  <2> QED
    BY <2>1, <2>2
<1>5. pc = "ack" => ~Has(Back, "Z") /\ ~Has(Out, "Z")
  BY DEF WireInv, Written
<1>6. TypeOK'
  BY <1>2, <1>3 DEF TypeOK
<1>7. ControlInv'
  <2>1. sent' + blocks' + One(pc = "ack")' <= MaxBlocks
    BY <1>2 DEF ControlInv, One, TypeOK
  <2>2. pc' # "ack" /\ pc' \notin Between /\ pc' # "gone" /\ pc' \in Written
    BY <1>2 DEF Between, Written
  <2>3. ~open' \/ jpc' = "gone"
    BY <1>2
  <2>4. jpc' = "gone" => toJvm' = <<>>
    BY <1>2 DEF ControlInv
  <2> QED
    BY <2>1, <2>2, <2>3, <2>4 DEF ControlInv, One
<1>8. WireInv'
  BY <1>2, <1>3, <1>4, <1>5 DEF WireInv, Between, Written
<1>9. TokenInv'
  BY <1>2, <1>3, <1>4 DEF TokenInv, Between
<1>10. ScanInv'
  BY <1>2, <1>3, <1>4 DEF ScanInv, One, Between, Written
<1>11. ServeInv'
  BY <1>2, <1>3, <1>4 DEF ServeInv, One, Between, Written, Serving
<1>12. CountInv'
  <2>1. open' => jpc = "gone" /\ jpc \notin Serving
    BY DEF Serving
  <2>2. CASE Back' = Back
    <3>1. \A k : Has(Back, k)' <=> Has(Back, k)
      BY <2>2
    <3> QED
      BY <1>2, <2>1, <2>2, <3>1 DEF CountInv, One
  <2>3. CASE Back' = <<>>
    BY <1>2, <2>1, <2>3, HasEmpty DEF CountInv
  <2> QED
    BY <2>2, <2>3
<1>13. AnswersOwn' /\ ExchangeWhole'
  BY <1>2 DEF AnswersOwn, ExchangeWhole
<1> QED
  BY <1>6, <1>7, <1>8, <1>9, <1>10, <1>11, <1>12, <1>13

\* The browser is gone, ...
LEMMA BrowserGoneKeeps == ReqInv /\ BrowserGone => ReqInv'
<1> SUFFICES ASSUME ReqInv, BrowserGone PROVE ReqInv'
  OBVIOUS
<1>1. /\ Return("fail") /\ pc \in {"ack", "final"} /\ ~open'
      /\ open' \in BOOLEAN
      /\ UNCHANGED <<cur, blocks, readBuf, browser, toJvm, toApache, jvm>>
  BY DEF BrowserGone, Reading
<1>2. readBuf' \in Seq(Packet) /\ Back' = Back
  BY <1>1 DEF ReqInv, TypeOK, Back
<1> QED
  BY <1>1, <1>2, FailKeeps

\* ... or the JVM is, as recv ...
LEMMA EndOfFileKeeps == ReqInv /\ EndOfFile => ReqInv'
<1> SUFFICES ASSUME ReqInv, EndOfFile PROVE ReqInv'
  OBVIOUS
<1>1. /\ Return("fail") /\ pc \in {"ack", "final"} /\ ~open'
      /\ open' \in BOOLEAN
      /\ UNCHANGED <<cur, blocks, readBuf, browser, toJvm, toApache, jvm>>
  BY DEF EndOfFile, Empty, Reading
<1>2. readBuf' \in Seq(Packet) /\ Back' = Back
  BY <1>1 DEF ReqInv, TypeOK, Back
<1> QED
  BY <1>1, <1>2, FailKeeps

\* ... or send finds, ...
LEMMA FlushFailKeeps == ReqInv /\ FlushFail => ReqInv'
<1> SUFFICES ASSUME ReqInv, FlushFail PROVE ReqInv'
  OBVIOUS
<1>1. /\ Return("fail") /\ pc \in {"ack", "final"} /\ jpc = "gone"
      /\ UNCHANGED <<cur, blocks, readBuf, open, browser, toJvm, toApache,
                     jvm>>
  BY DEF FlushFail, Empty, Reading
<1>2. readBuf' \in Seq(Packet) /\ Back' = Back /\ open' \in BOOLEAN
      /\ (open' => open /\ jpc = "gone")
  BY <1>1 DEF ReqInv, TypeOK, Back
<1> QED
  BY <1>1, <1>2, FailKeeps

\* ... or was found gone before.
LEMMA ReadClosedKeeps == ReqInv /\ ReadClosed => ReqInv'
<1> SUFFICES ASSUME ReqInv, ReadClosed PROVE ReqInv'
  OBVIOUS
<1>1. /\ Return("fail") /\ pc \in {"ack", "final"} /\ ~open
      /\ UNCHANGED <<cur, blocks, readBuf, open, browser, toJvm, toApache,
                     jvm>>
  BY DEF ReadClosed
<1>2. readBuf' \in Seq(Packet) /\ Back' = Back /\ open' \in BOOLEAN
      /\ (open' => open /\ jpc = "gone")
  BY <1>1 DEF ReqInv, TypeOK, Back
<1> QED
  BY <1>1, <1>2, FailKeeps

\* The acknowledgement: the JVM has consumed every block so far and waits for
\* the one that write_request now adds.
LEMMA AckKeeps ==
  ASSUME ReqInv, ReadEnd, pc = "ack", Head(readBuf).kind = "A"
  PROVE  ReqInv'
<1> USE DEF ReqInv
<1>1. /\ Write(P("D", cur)) /\ sent' = sent + 1 /\ pc' = "block"
      /\ readBuf # <<>> /\ open /\ readBuf' = Tail(readBuf)
      /\ UNCHANGED <<cur, blocks, open, browser, toJvm, toApache, jvm>>
  BY DEF ReadEnd, Return, Reading
<1>2. Has(Back, "A") /\ Back # <<>> /\ Len(Back) \in Nat
  BY <1>1, Reads
<1>3. /\ ~Has(Out, "D") /\ ~pending /\ sent > 0 /\ ~Has(Out, "Z")
      /\ ~Has(Back, "Z")
  BY <1>2 DEF TokenInv, WireInv, Written
<1>4. jpc # "scan"
  BY <1>2 DEF ScanInv, Between, Written
<1>5. jpc \in Serving => acked /\ ~sawEnd /\ serving = cur /\ sent = body
  BY <1>2, <1>3 DEF ServeInv, Written, One, TypeOK
<1>6. UNCHANGED <<jpc, serving, pending, sawEnd, acked, body, left>>
  BY <1>1 DEF jvm
<1>7. /\ writeBuf' \in Seq(Packet)
      /\ InOrder(Out)' /\ OfRequest(Out, cur)'
      /\ \A n : Has(Out, n)' <=> Has(Out, n) \/ n = "D"
  BY <1>1, <1>3, Writes
<1>8. Back' = Tail(Back)
  BY <1>1, Reads DEF Back
<1>9. /\ readBuf' \in Seq(Packet)
      /\ IsAnswer(Back)' /\ OfRequest(Back, cur)'
      /\ Len(Back)' = Len(Back) - 1
      /\ \A k : Has(Back, k)' <=> Has(Back, k) /\ k # "A"
  BY <1>1, <1>8, Reads
<1>10. TypeOK'
  <2>1. sent' \in 0 .. MaxBlocks
    BY <1>1 DEF TypeOK, ControlInv, One
  <2> QED
    BY <1>1, <1>6, <1>7, <1>9, <2>1 DEF TypeOK
<1>11. ControlInv'
  BY <1>1, <1>3, <1>6 DEF ControlInv, One, Between, Written, TypeOK
<1>12. WireInv' /\ TokenInv'
  BY <1>1, <1>3, <1>6, <1>7, <1>9
     DEF WireInv, TokenInv, Between, Written, TypeOK
<1>13. ScanInv'
  BY <1>4, <1>6 DEF ScanInv
<1>14. ServeInv'
  <2> SUFFICES ASSUME jpc' \in Serving PROVE ServeInv'
    BY DEF ServeInv
  <2>1. acked /\ ~sawEnd /\ serving = cur /\ sent = body /\ jpc # "refuse"
        /\ ~Has(Out, "env")
    BY <1>5, <1>6 DEF ServeInv
  <2>2. body \in Nat
    BY DEF TypeOK
  <2> QED
    BY <1>1, <1>3, <1>6, <1>7, <2>1, <2>2 DEF ServeInv, One, Between
<1>15. CountInv'
  <2>1. /\ (Has(Back, "Z")' <=> Has(Back, "Z"))
        /\ (Has(Back, "X")' <=> Has(Back, "X"))
        /\ ~Has(Back, "A")'
    BY <1>9
  <2>2. Len(browser) \in Int
    BY LenProperties DEF TypeOK
  <2> QED
    BY <1>1, <1>2, <1>6, <1>9, <2>1, <2>2 DEF CountInv, One
<1>16. AnswersOwn' /\ ExchangeWhole'
  BY <1>1 DEF AnswersOwn, ExchangeWhole
<1> QED
  BY <1>10, <1>11, <1>12, <1>13, <1>14, <1>15, <1>16

\* CSE_END: nothing is left, and everything has arrived.
LEMMA EndKeeps ==
  ASSUME ReqInv, ReadEnd, pc = "final", Head(readBuf).kind = "Z"
  PROVE  ReqInv'
<1> USE DEF ReqInv
<1>1. /\ UNCHANGED <<sent, writeBuf>> /\ pc' = "reuse"
      /\ readBuf # <<>> /\ open /\ readBuf' = Tail(readBuf)
      /\ UNCHANGED <<cur, blocks, open, browser, toJvm, toApache, jvm>>
  BY DEF ReadEnd, Return, Reading, Reusable
<1>2. Has(Back, "Z") /\ Tail(Back) = <<>> /\ Len(Tail(Back)) = Len(Back) - 1
      /\ Len(Back) \in Nat /\ readBuf' \in Seq(Packet)
      /\ ~Has(Back, "A")
  BY <1>1, Reads, HasEmpty
<1>3. Len(Back) = 1
  <2>1. Len(Tail(Back)) = 0
    BY <1>2, EmptySeq
  <2> QED
    BY <1>2, <2>1
<1>4. /\ jpc \in {"scan", "gone"} /\ Out = <<>> /\ ~pending
      /\ body = sent /\ serving = cur
  BY <1>2 DEF WireInv
<1>5. UNCHANGED <<jpc, serving, pending, sawEnd, acked, body, left>>
  BY <1>1 DEF jvm
<1>6. Out' = <<>> /\ Back' = <<>>
  <2>1. Back' = Tail(Back)
    BY <1>1, Reads DEF Back
  <2> QED
    BY <1>1, <1>2, <1>4, <2>1 DEF Out
<1>7. /\ InOrder(Out)' /\ OfRequest(Out, cur)'
      /\ IsAnswer(Back)' /\ OfRequest(Back, cur)'
      /\ \A k : ~Has(Out, k)' /\ ~Has(Back, k)'
  BY <1>6, EmptySeq DEF InOrder, OfRequest, IsAnswer, Has
<1>8. TypeOK' /\ ControlInv'
  BY <1>1, <1>2, <1>5
     DEF TypeOK, ControlInv, One, Between, Written
<1>9. WireInv' /\ TokenInv' /\ ScanInv' /\ ServeInv' /\ CountInv'
  BY <1>1, <1>4, <1>5, <1>6, <1>7
     DEF WireInv, TokenInv, ScanInv, ServeInv, CountInv, Between, Serving
<1>10. ExchangeWhole'
  <2>1. Len(browser) \in Int /\ left \in Int
    BY LenProperties DEF TypeOK
  <2>2. Len(browser) + 1 - 0 - 1 = MaxAnswer - left
    BY <1>1, <1>2, <1>3 DEF CountInv, One
  <2> QED
    BY <1>1, <1>4, <1>5, <2>1, <2>2 DEF ExchangeWhole
<1>11. AnswersOwn'
  BY <1>1 DEF AnswersOwn
<1> QED
  BY <1>8, <1>9, <1>10, <1>11

LEMMA ReadEndKeeps == ReqInv /\ ReadEnd => ReqInv'
<1> SUFFICES ASSUME ReqInv, ReadEnd PROVE ReqInv'
  OBVIOUS
<1> DEFINE p == Head(readBuf)
<1>1. /\ p.kind \in {"Z", "X"} \/ (p.kind = "A" /\ pc = "ack")
      /\ pc \in {"ack", "final"} /\ open /\ readBuf # <<>>
      /\ Has(Back, p.kind) /\ readBuf' = Tail(readBuf)
      /\ Return(p.kind)
      /\ UNCHANGED <<cur, blocks, open, browser, toJvm, toApache, jvm>>
  BY Reads DEF ReadEnd, Ends, Reading
<1>2. CASE p.kind = "A"
  BY <1>1, <1>2, AckKeeps
<1>3. CASE p.kind = "Z"
  <2>1. pc = "final"
    BY <1>1, <1>3 DEF ReqInv, WireInv, Written
  <2> QED
    BY <1>3, <2>1, EndKeeps
<1>4. CASE p.kind = "X"
  <2>1. jpc = "gone"
    BY <1>1, <1>4 DEF ReqInv, WireInv
  <2>2. Back' = <<>> /\ readBuf' \in Seq(Packet)
    BY <1>1, <1>4, Reads DEF Back
  <2>3. open' \in BOOLEAN /\ (open' => open)
    BY <1>1 DEF ReqInv, TypeOK
  <2>4. Return("X")
    BY <1>1, <1>4
  <2> HIDE DEF p
  <2> QED
    BY <1>1, <2>1, <2>2, <2>3, <2>4, FailKeeps
<1> QED
  BY <1>1, <1>2, <1>3, <1>4

-----------------------------------------------------------------------------
(* The steps of the JVM.                                                    *)

\* A packet that has arrived is the first on the way to the JVM.
LEMMA Arrives ==
  ASSUME ReqInv, toJvm # <<>>, toJvm' = Tail(toJvm),
         UNCHANGED <<cur, writeBuf>>
  PROVE  LET p == Head(toJvm)
         IN  /\ Out' = Tail(Out) /\ Out # <<>> /\ Out \in Seq(Packet)
             /\ p \in Packet /\ p.req = cur /\ p.kind \in {"env", "D", "Z"}
             /\ InOrder(Out)' /\ OfRequest(Out, cur)'
             /\ \A k : Has(Out, k) <=> k = p.kind \/ Has(Out, k)'
             /\ ~Has(Out', p.kind) /\ ~Has(Out, "env")'
             /\ p.kind = "Z" => Out' = <<>>
             /\ toJvm' \in Seq(Packet) /\ Len(toJvm') <= InCapacity
<1> USE DEF ReqInv
<1>1. /\ Out \in Seq(Packet) /\ Out # <<>> /\ Head(Out) = Head(toJvm)
      /\ Tail(Out) = Tail(toJvm) \o writeBuf
  BY FrontOfTwo DEF Out, TypeOK
<1>2. Out' = Tail(Out)
  BY <1>1 DEF Out
<1>3. /\ InOrder(Tail(Out)) /\ Head(Out).kind \in {"env", "D", "Z"}
      /\ ~Has(Tail(Out), Head(Out).kind) /\ ~Has(Tail(Out), "env")
      /\ Head(Out).kind = "Z" => Tail(Out) = <<>>
  BY <1>1, OrderTail DEF WireInv
<1>4. OfRequest(Tail(Out), cur) /\ Head(Out).req = cur
  BY <1>1, RequestTail DEF WireInv
<1>5. /\ Head(Out) \in Packet
      /\ \A k : Has(Out, k) <=> Head(Out).kind = k \/ Has(Tail(Out), k)
  BY <1>1, HasTail
<1>6. toJvm' \in Seq(Packet) /\ Len(toJvm') <= InCapacity
  <2>1. /\ Tail(toJvm) \in Seq(Packet) /\ Len(Tail(toJvm)) = Len(toJvm) - 1
        /\ Len(toJvm) \in Nat /\ Len(toJvm) <= InCapacity
    BY HeadTailProperties, LenProperties DEF TypeOK
  <2> QED
    BY <2>1
<1>7. /\ InOrder(Out)' /\ OfRequest(Out, cur)'
      /\ \A k : Has(Out, k) <=> k = Head(Out).kind \/ Has(Out', k)
      /\ ~Has(Out', Head(Out).kind) /\ ~Has(Out, "env")'
  BY <1>2, <1>3, <1>4, <1>5
<1> QED
  BY <1>1, <1>2, <1>3, <1>4, <1>5, <1>6, <1>7

\* The JVM reads what belongs to the request that mod_caucho writes.
LEMMA JScanKeeps == ReqInv /\ JScan => ReqInv'
<1> SUFFICES ASSUME ReqInv, JScan PROVE ReqInv'
  OBVIOUS
<1> USE DEF ReqInv
<1> DEFINE p == Head(toJvm)
<1>1. /\ jpc = "scan" /\ toJvm # <<>> /\ toJvm' = Tail(toJvm)
      /\ serving' = IF p.kind = "env" THEN p.req ELSE serving
      /\ jpc' = IF p.kind = "env" THEN "scan" ELSE "serve"
      /\ pending' \in BOOLEAN /\ (pending' <=> p.kind = "D")
      /\ sawEnd' \in BOOLEAN /\ (sawEnd' <=> p.kind = "Z")
      /\ acked' = FALSE /\ body' = 0 /\ left' = MaxAnswer
      /\ UNCHANGED <<pc, cur, blocks, sent, writeBuf, readBuf, open, browser,
                     toApache>>
  BY DEF JScan, mod
<1>2. /\ Out # <<>> /\ p \in Packet /\ p.req = cur
      /\ p.kind \in {"env", "D", "Z"}
      /\ InOrder(Out)' /\ OfRequest(Out, cur)'
      /\ \A k : Has(Out, k) <=> k = p.kind \/ Has(Out, k)'
      /\ ~Has(Out', p.kind) /\ ~Has(Out, "env")'
      /\ p.kind = "Z" => Out' = <<>>
      /\ toJvm' \in Seq(Packet) /\ Len(toJvm') <= InCapacity
  BY <1>1, Arrives
<1>3. Back' = Back
  BY <1>1 DEF Back
<1> HIDE DEF p
<1>4. pc \notin Between /\ Back = <<>> /\ browser = <<>> /\ ~pending
      /\ (Has(Out, "env") \/ serving = cur) /\ sent = One(Has(Out, "D"))
      /\ (open => (pc = "final" <=> Has(Out, "Z")))
  BY <1>1, <1>2 DEF ScanInv, WireInv
<1>5. IsAnswer(Back)' /\ OfRequest(Back, cur)'
      /\ \A k : ~Has(Back, k) /\ ~Has(Back, k)'
  BY <1>1, <1>3, <1>4, HasEmpty DEF WireInv
<1>6. TypeOK'
  <2>1. serving' \in Req /\ body' \in 0 .. MaxBlocks
        /\ left' \in 0 .. MaxAnswer /\ acked' \in BOOLEAN
        /\ jpc' \in {"scan", "serve"}
    <3>1. serving' \in Req
      BY <1>1, <1>2 DEF TypeOK
    <3>2. 0 \in 0 .. MaxBlocks /\ MaxAnswer \in 0 .. MaxAnswer
      OBVIOUS
    <3>3. jpc' \in {"scan", "serve"}
      BY <1>1
    <3> QED
      BY <1>1, <3>1, <3>2, <3>3
  <2> QED
    BY <1>1, <1>2, <2>1 DEF TypeOK
<1>7. ControlInv'
  BY <1>1 DEF ControlInv, One
<1>8. WireInv'
  BY <1>1, <1>2, <1>4, <1>5 DEF WireInv
<1>9. TokenInv'
  BY <1>1, <1>2, <1>4, <1>5 DEF TokenInv, One
<1>10. p.kind # "env" => serving' = cur
  <2>1. CASE Has(Out, "env")
    <3>1. Has(Out, "env")' \/ p.kind = "env"
      BY <1>2, <2>1
    <3> QED
      BY <3>1, <1>2
  <2>2. CASE serving = cur
    BY <2>2, <1>1
  <2> QED
    BY <1>4, <2>1, <2>2
<1>11. ScanInv'
  BY <1>1, <1>2, <1>3, <1>4, <1>10 DEF ScanInv, One
<1>12. ServeInv'
  <2> SUFFICES ASSUME jpc' \in Serving PROVE ServeInv'
    BY DEF ServeInv
  <2>1. p.kind \in {"D", "Z"} /\ jpc' = "serve" /\ serving' = cur
    BY <1>1, <1>2, <1>10 DEF Serving
  <2>2. CASE p.kind = "D"
    <3>1. /\ Has(Out, "D") /\ ~Has(Out, "D")' /\ pending' /\ ~sawEnd'
          /\ sent = 1 /\ (Has(Out, "Z") <=> Has(Out, "Z")')
      BY <1>1, <1>2, <1>4, <2>2 DEF One
    <3> QED
      BY <1>1, <1>2, <1>4, <1>5, <2>1, <3>1 DEF ServeInv, One
  <2>3. CASE p.kind = "Z"
    <3>1. /\ Out' = <<>> /\ ~pending' /\ sawEnd' /\ ~Has(Out, "D")'
          /\ sent = 0 /\ pc \in Written
      BY <1>1, <1>2, <1>4, <2>3, HasEmpty DEF One, WireInv
    <3> QED
      BY <1>1, <1>2, <1>4, <1>5, <2>1, <3>1 DEF ServeInv, One
  <2> QED
    BY <2>1, <2>2, <2>3
<1>13. CountInv'
  <2>1. Len(browser') = 0 /\ Len(Back') = 0
    BY <1>1, <1>3, <1>4, EmptySeq
  <2> QED
    BY <1>1, <1>5, <2>1 DEF CountInv, One
<1>14. AnswersOwn' /\ ExchangeWhole'
  BY <1>1, <1>4 DEF AnswersOwn, ExchangeWhole, Between
<1> QED
  BY <1>6, <1>7, <1>8, <1>9, <1>11, <1>12, <1>13, <1>14

LEMMA JNextKeeps == ReqInv /\ JNext => ReqInv'
<1> SUFFICES ASSUME ReqInv, JNext PROVE ReqInv'
  OBVIOUS
<1> USE DEF ReqInv
<1> DEFINE p == Head(toJvm)
<1>1. /\ jpc \in {"serve", "drain"} /\ ~pending /\ ~sawEnd
      /\ toJvm # <<>> /\ toJvm' = Tail(toJvm)
      /\ pending' \in BOOLEAN /\ (pending' <=> p.kind = "D")
      /\ sawEnd' \in BOOLEAN /\ (sawEnd' <=> p.kind # "D")
      /\ acked' = FALSE
      /\ UNCHANGED <<pc, cur, blocks, sent, writeBuf, readBuf, open, browser,
                     toApache, jpc, serving, body, left>>
  BY DEF JNext, mod
<1>2. /\ p.kind \in {"env", "D", "Z"}
      /\ InOrder(Out)' /\ OfRequest(Out, cur)'
      /\ \A k : Has(Out, k) <=> k = p.kind \/ Has(Out, k)'
      /\ ~Has(Out', p.kind)
      /\ p.kind = "Z" => Out' = <<>>
      /\ toJvm' \in Seq(Packet) /\ Len(toJvm') <= InCapacity
  BY <1>1, Arrives
<1>3. Back' = Back
  BY <1>1 DEF Back
<1> HIDE DEF p
<1>4. IsAnswer(Back)' /\ OfRequest(Back, cur)'
      /\ \A k : Has(Back, k)' <=> Has(Back, k)
  BY <1>1, <1>3 DEF WireInv
<1>5. p.kind \in {"D", "Z"}
  BY <1>1, <1>2 DEF ServeInv, Serving
<1>6. ~Has(Back, "Z") /\ ~Has(Back, "X") /\ Has(Out, p.kind)
  BY <1>1, <1>2 DEF WireInv
<1>7. TypeOK' /\ ControlInv'
  BY <1>1, <1>2 DEF TypeOK, ControlInv, One
<1>8. WireInv'
  BY <1>1, <1>2, <1>4, <1>6, HasEmpty DEF WireInv, Between, ServeInv, Serving
<1>9. TokenInv'
  BY <1>1, <1>2, <1>4, <1>5, <1>6 DEF TokenInv, ServeInv, Serving
<1>10. ScanInv'
  BY <1>1 DEF ScanInv
<1>11. ServeInv'
  <2>1. CASE p.kind = "D"
    <3>1. /\ Has(Out, "D") /\ ~Has(Out, "D")' /\ pending' /\ ~sawEnd'
          /\ (Has(Out, "Z") <=> Has(Out, "Z")')
      BY <1>1, <1>2, <2>1
    <3>2. ~Has(Back, "A")
      BY <3>1 DEF TokenInv
    <3>3. /\ serving = cur /\ pc \notin Between /\ sent = body + 1
          /\ ~Has(Out, "env") /\ sent > 0
          /\ open /\ pc = "final" => Has(Out, "Z")
      BY <1>1, <3>1 DEF ServeInv, One, Serving, TypeOK
    <3>4. sent = body + 1 + 0 /\ ~Has(Out, "env")'
      BY <1>2, <3>3 DEF TypeOK
    <3> QED
      BY <1>1, <1>4, <3>1, <3>2, <3>3, <3>4 DEF ServeInv, One
  <2>2. CASE p.kind = "Z"
    <3>1. /\ Out' = <<>> /\ ~pending' /\ sawEnd' /\ pc \in Written
          /\ \A k : ~Has(Out, k)'
      BY <1>1, <1>2, <1>6, <2>2, HasEmpty DEF WireInv
    <3>2. ~Has(Out, "D")
      BY <1>2, <2>2, <3>1
    <3> QED
      BY <1>1, <1>4, <3>1, <3>2 DEF ServeInv, One, Serving
  <2> QED
    BY <1>5, <2>1, <2>2
<1>12. CountInv' /\ AnswersOwn' /\ ExchangeWhole'
  BY <1>1, <1>3, <1>4, <1>6
     DEF CountInv, AnswersOwn, ExchangeWhole, One, ServeInv, Serving, Between
<1> QED
  BY <1>7, <1>8, <1>9, <1>10, <1>11, <1>12

\* The JVM adds a packet to the answer.
LEMMA Replies ==
  ASSUME ReqInv, NEW k \in {"D", "A", "Z", "X"}, Reply(P(k, serving)),
         UNCHANGED <<readBuf, cur>>, jpc \in Serving,
         k = "A" => ~Has(Back, "A")
  PROVE  /\ toApache' \in Seq(Packet) /\ Len(toApache') <= OutCapacity
         /\ IsAnswer(Back)' /\ OfRequest(Back, cur)'
         /\ Len(Back) \in Nat /\ Len(Back') = Len(Back) + 1
         /\ \A n : Has(Back, n)' <=> Has(Back, n) \/ n = k
         /\ ~Has(Back, "Z") /\ ~Has(Back, "X")
<1> USE DEF ReqInv
<1> DEFINE p == P(k, cur)
<1>1. serving = cur /\ ~Has(Back, "Z") /\ ~Has(Back, "X")
  BY DEF ServeInv, WireInv, Serving
<1>2. p \in Packet /\ p.kind = k /\ p.req = cur
  BY DEF P, Packet, TypeOK
<1>3. toApache' = Append(toApache, p) /\ Len(toApache) < OutCapacity
  BY <1>1 DEF Reply
<1> HIDE DEF p
<1>4. toApache' \in Seq(Packet) /\ Len(toApache') <= OutCapacity
  <2>1. /\ toApache' \in Seq(Packet) /\ Len(toApache') = Len(toApache) + 1
        /\ Len(toApache) \in Nat
    BY <1>2, <1>3, AppendProperties, LenProperties DEF TypeOK
  <2> QED
    BY <1>3, <2>1
<1>5. Back \in Seq(Packet) /\ Back' = Append(Back, p)
  BY <1>2, <1>3, BackOfTwo, ConcatProperties DEF Back, TypeOK
<1>6. IsAnswer(Append(Back, p)) /\ OfRequest(Append(Back, p), cur)
  BY <1>1, <1>2, <1>5, AnswerAppend, RequestAppend DEF WireInv
<1>7. \A n : Has(Append(Back, p), n) <=> Has(Back, n) \/ n = k
  BY <1>2, <1>5, HasAppend
<1>8. Len(Append(Back, p)) = Len(Back) + 1 /\ Len(Back) \in Nat
  BY <1>2, <1>5, AppendProperties, LenProperties
<1> QED
  BY <1>1, <1>4, <1>5, <1>6, <1>7, <1>8

\* What is on the way to the JVM is not touched.
LEMMA OutKept ==
  ASSUME ReqInv, UNCHANGED <<toJvm, writeBuf, cur>>
  PROVE  /\ Out' = Out /\ InOrder(Out)' /\ OfRequest(Out, cur)'
         /\ \A k : Has(Out, k)' <=> Has(Out, k)
<1>1. Out' = Out
  BY DEF Out
<1> QED
  BY <1>1 DEF ReqInv, WireInv

\* Data of the answer ...
LEMMA JWriteKeeps == ReqInv /\ JWrite => ReqInv'
<1> SUFFICES ASSUME ReqInv, JWrite PROVE ReqInv'
  OBVIOUS
<1> USE DEF ReqInv
<1>1. /\ jpc = "serve" /\ ~acked /\ left > 0 /\ left' = left - 1
      /\ Reply(P("D", serving))
      /\ UNCHANGED <<pc, cur, blocks, sent, writeBuf, readBuf, open, browser,
                     toJvm, jpc, serving, pending, sawEnd, acked, body>>
  BY DEF JWrite, mod
<1>2. /\ toApache' \in Seq(Packet) /\ Len(toApache') <= OutCapacity
      /\ IsAnswer(Back)' /\ OfRequest(Back, cur)'
      /\ Len(Back) \in Nat /\ Len(Back') = Len(Back) + 1
      /\ \A n : Has(Back, n)' <=> Has(Back, n) \/ n = "D"
      /\ ~Has(Back, "Z") /\ ~Has(Back, "X")
  BY <1>1, Replies DEF Serving
<1>3. /\ Out' = Out /\ InOrder(Out)' /\ OfRequest(Out, cur)'
      /\ \A k : Has(Out, k)' <=> Has(Out, k)
  BY <1>1, OutKept
<1>4. TypeOK'
  <2>1. left' \in 0 .. MaxAnswer
    BY <1>1 DEF TypeOK
  <2> QED
    BY <1>1, <1>2, <2>1 DEF TypeOK
<1>5. ControlInv'
  BY <1>1 DEF ControlInv, One
<1>6. WireInv' /\ TokenInv'
  BY <1>1, <1>2, <1>3 DEF WireInv, TokenInv, ServeInv, Serving
<1>7. ScanInv' /\ ServeInv'
  BY <1>1, <1>2, <1>3 DEF ScanInv, ServeInv, One, Serving
<1>8. CountInv'
  <2>1. Len(browser) \in Int /\ left \in Int
    BY LenProperties DEF TypeOK
  <2> QED
    BY <1>1, <1>2, <2>1 DEF CountInv, One
<1>9. AnswersOwn' /\ ExchangeWhole'
  BY <1>1 DEF AnswersOwn, ExchangeWhole, ServeInv, Serving, Between
<1> QED
  BY <1>4, <1>5, <1>6, <1>7, <1>8, <1>9

\* ... and the acknowledgement, when no block is on the way.
LEMMA JAckKeeps == ReqInv /\ JAck => ReqInv'
<1> SUFFICES ASSUME ReqInv, JAck PROVE ReqInv'
  OBVIOUS
<1> USE DEF ReqInv
<1>1. /\ jpc \in {"serve", "drain"} /\ ~pending /\ ~sawEnd /\ ~acked /\ acked'
      /\ acked' \in BOOLEAN
      /\ Reply(P("A", serving))
      /\ UNCHANGED <<pc, cur, blocks, sent, writeBuf, readBuf, open, browser,
                     toJvm, jpc, serving, pending, sawEnd, body, left>>
  BY DEF JAck, mod
<1>2. ~Has(Back, "A") /\ ~Has(Out, "D") /\ sent > 0 /\ pc \notin Between
  BY <1>1 DEF ServeInv, Serving
<1>3. /\ toApache' \in Seq(Packet) /\ Len(toApache') <= OutCapacity
      /\ IsAnswer(Back)' /\ OfRequest(Back, cur)'
      /\ Len(Back) \in Nat /\ Len(Back') = Len(Back) + 1
      /\ \A n : Has(Back, n)' <=> Has(Back, n) \/ n = "A"
      /\ ~Has(Back, "Z") /\ ~Has(Back, "X")
  BY <1>1, <1>2, Replies DEF Serving
<1>4. /\ Out' = Out /\ InOrder(Out)' /\ OfRequest(Out, cur)'
      /\ \A k : Has(Out, k)' <=> Has(Out, k)
  BY <1>1, OutKept
<1>5. TypeOK' /\ ControlInv'
  BY <1>1, <1>3 DEF TypeOK, ControlInv, One
<1>6. WireInv' /\ TokenInv'
  BY <1>1, <1>2, <1>3, <1>4 DEF WireInv, TokenInv
<1>7. ScanInv' /\ ServeInv'
  BY <1>1, <1>2, <1>3, <1>4 DEF ScanInv, ServeInv, One, Serving
<1>8. CountInv'
  <2>1. Len(browser) \in Int /\ left \in Int
    BY LenProperties DEF TypeOK
  <2> QED
    BY <1>1, <1>2, <1>3, <2>1 DEF CountInv, One
<1>9. AnswersOwn' /\ ExchangeWhole'
  BY <1>1, <1>2 DEF AnswersOwn, ExchangeWhole, Between
<1> QED
  BY <1>5, <1>6, <1>7, <1>8, <1>9

\* CSE_END, when everything of the request was read.
LEMMA JKeepKeeps == ReqInv /\ JKeep => ReqInv'
<1> SUFFICES ASSUME ReqInv, JKeep PROVE ReqInv'
  OBVIOUS
<1> USE DEF ReqInv
<1>1. /\ jpc = "drain" /\ ~pending /\ sawEnd /\ jpc' = "scan"
      /\ Reply(P("Z", serving))
      /\ UNCHANGED <<pc, cur, blocks, sent, writeBuf, readBuf, open, browser,
                     toJvm, serving, pending, sawEnd, acked, body, left>>
  BY DEF JKeep, mod
<1>2. /\ toApache' \in Seq(Packet) /\ Len(toApache') <= OutCapacity
      /\ IsAnswer(Back)' /\ OfRequest(Back, cur)'
      /\ Len(Back) \in Nat /\ Len(Back') = Len(Back) + 1
      /\ \A n : Has(Back, n)' <=> Has(Back, n) \/ n = "Z"
      /\ ~Has(Back, "Z") /\ ~Has(Back, "X")
  BY <1>1, Replies DEF Serving
<1>3. /\ Out' = Out /\ InOrder(Out)' /\ OfRequest(Out, cur)'
      /\ \A k : Has(Out, k)' <=> Has(Out, k)
  BY <1>1, OutKept
<1>4. /\ Out = <<>> /\ pc \in Written /\ serving = cur /\ pc \notin Between
      /\ body = sent
  <2>1. /\ Out = <<>> /\ pc \in Written /\ serving = cur /\ pc \notin Between
        /\ sent = body + One(pending) + One(Has(Out, "D"))
    BY <1>1 DEF ServeInv, Serving
  <2>2. ~Has(Out, "D")
    BY <2>1, HasEmpty
  <2> QED
    BY <1>1, <2>1, <2>2 DEF One, TypeOK
<1>5. TypeOK' /\ ControlInv'
  BY <1>1, <1>2 DEF TypeOK, ControlInv, One
<1>6. WireInv' /\ TokenInv'
  BY <1>1, <1>2, <1>3, <1>4 DEF WireInv, TokenInv
<1>7. ScanInv' /\ ServeInv'
  BY <1>1, <1>2, <1>3, <1>4 DEF ScanInv, ServeInv, Serving
<1>8. CountInv'
  <2>1. Len(browser) \in Int /\ left \in Int
    BY LenProperties DEF TypeOK
  <2> QED
    BY <1>1, <1>2, <2>1 DEF CountInv, One, Serving
<1>9. AnswersOwn' /\ ExchangeWhole'
  BY <1>1, <1>4 DEF AnswersOwn, ExchangeWhole, Between
<1> QED
  BY <1>5, <1>6, <1>7, <1>8, <1>9

\* A block is consumed; the servlet ends.
LEMMA JConsumeKeeps == ReqInv /\ JConsume => ReqInv'
<1> SUFFICES ASSUME ReqInv, JConsume PROVE ReqInv'
  OBVIOUS
<1> USE DEF ReqInv
<1>1. /\ jpc \in {"serve", "drain"} /\ pending /\ pending' = FALSE
      /\ body' = body + 1
      /\ UNCHANGED <<pc, cur, blocks, sent, writeBuf, readBuf, open, browser,
                     toJvm, toApache, jpc, serving, sawEnd, acked, left>>
  BY DEF JConsume, mod
<1>2. /\ Out' = Out /\ InOrder(Out)' /\ OfRequest(Out, cur)'
      /\ \A k : Has(Out, k)' <=> Has(Out, k)
  BY <1>1, OutKept
<1>3. Back' = Back
  BY <1>1 DEF Back
<1>4. IsAnswer(Back)' /\ OfRequest(Back, cur)'
      /\ \A k : Has(Back, k)' <=> Has(Back, k)
  BY <1>1, <1>3 DEF WireInv
<1>5. /\ ~Has(Out, "D") /\ ~Has(Back, "A") /\ ~Has(Back, "Z")
      /\ sent = body + 1 /\ ~sawEnd /\ ~acked
  BY <1>1 DEF TokenInv, WireInv, ServeInv, Serving, One, TypeOK
<1>6. TypeOK'
  <2>1. body' \in 0 .. MaxBlocks
    BY <1>1, <1>5 DEF TypeOK
  <2> QED
    BY <1>1, <2>1 DEF TypeOK
<1>7. ControlInv'
  BY <1>1 DEF ControlInv, One
<1>8. WireInv' /\ TokenInv'
  BY <1>1, <1>2, <1>3, <1>4, <1>5 DEF WireInv, TokenInv
<1>9. ScanInv'
  BY <1>1 DEF ScanInv
<1>10. ServeInv'
  BY <1>1, <1>2, <1>4, <1>5 DEF ServeInv, One, Serving, TypeOK
<1>11. CountInv'
  BY <1>1, <1>3, <1>4 DEF CountInv, One
<1>12. AnswersOwn' /\ ExchangeWhole'
  BY <1>1 DEF AnswersOwn, ExchangeWhole, ServeInv, Serving, Between
<1> QED
  BY <1>6, <1>7, <1>8, <1>9, <1>10, <1>11, <1>12

LEMMA JFinishKeeps == ReqInv /\ JFinish => ReqInv'
<1> SUFFICES ASSUME ReqInv, JFinish PROVE ReqInv'
  OBVIOUS
<1> USE DEF ReqInv
<1>1. /\ jpc = "serve" /\ ~acked /\ jpc' \in {"drain", "refuse"}
      /\ UNCHANGED <<pc, cur, blocks, sent, writeBuf, readBuf, open, browser,
                     toJvm, toApache, serving, pending, sawEnd, acked, body,
                     left>>
  BY DEF JFinish, mod
<1>2. /\ Out' = Out /\ InOrder(Out)' /\ OfRequest(Out, cur)'
      /\ \A k : Has(Out, k)' <=> Has(Out, k)
  BY <1>1, OutKept
<1>3. Back' = Back
  BY <1>1 DEF Back
<1>4. IsAnswer(Back)' /\ OfRequest(Back, cur)'
      /\ \A k : Has(Back, k)' <=> Has(Back, k)
  BY <1>1, <1>3 DEF WireInv
<1>5. TypeOK' /\ ControlInv'
  BY <1>1 DEF TypeOK, ControlInv, One
<1>6. WireInv' /\ TokenInv'
  BY <1>1, <1>2, <1>3, <1>4 DEF WireInv, TokenInv
<1>7. ScanInv' /\ ServeInv'
  BY <1>1, <1>2, <1>4 DEF ScanInv, ServeInv, One, Serving
<1>8. CountInv'
  BY <1>1, <1>3, <1>4 DEF CountInv, One, Serving
<1>9. AnswersOwn' /\ ExchangeWhole'
  BY <1>1 DEF AnswersOwn, ExchangeWhole
<1> QED
  BY <1>5, <1>6, <1>7, <1>8, <1>9

-----------------------------------------------------------------------------
(* The JVM goes away.                                                       *)

\* What had not reached it is lost; what mod_caucho has yet to send is not.
LEMMA Lost ==
  ASSUME ReqInv, toJvm' = <<>>, UNCHANGED <<writeBuf, cur>>
  PROVE  /\ toJvm' \in Seq(Packet) /\ Len(toJvm') <= InCapacity
         /\ InOrder(Out)' /\ OfRequest(Out, cur)'
         /\ \A k : Has(Out, k)' => Has(Out, k)
         /\ Out = <<>> => Out' = <<>>
<1> USE DEF ReqInv
<1>1. Out' = writeBuf /\ toJvm' \in Seq(Packet) /\ Len(toJvm') = 0
  BY EmptySeq, ConcatEmptySeq DEF Out, TypeOK
<1>2. /\ InOrder(writeBuf) /\ OfRequest(writeBuf, cur)
      /\ \A k : Has(writeBuf, k) => Has(Out, k)
      /\ Out = <<>> => writeBuf = <<>>
  BY Parts, ConcatEqualIffEmpty DEF Out, WireInv, TypeOK
<1>3. 0 <= InCapacity
  OBVIOUS
<1> QED
  BY <1>1, <1>2, <1>3

\* A JVM that has gone: what remains true of the rest.
LEMMA GoneKeeps ==
  ASSUME ReqInv, jpc' = "gone", toJvm' = <<>>, TypeOK',
         UNCHANGED <<mod, serving, pending, sawEnd, acked, body, left>>,
         IsAnswer(Back)', OfRequest(Back, cur)',
         Back = <<>> /\ pc \in Between => Back' = <<>>,
         Has(Back, "A")' <=> Has(Back, "A"),
         Has(Back, "Z")' => Has(Back, "Z") /\ Back' = Back
  PROVE  ReqInv'
<1> USE DEF ReqInv
<1>1. UNCHANGED <<pc, cur, blocks, sent, writeBuf, readBuf, open, browser,
                  serving, pending, sawEnd, acked, body, left>>
  BY DEF mod
<1>2. /\ InOrder(Out)' /\ OfRequest(Out, cur)'
      /\ \A k : Has(Out, k)' => Has(Out, k)
      /\ Out = <<>> => Out' = <<>>
  BY <1>1, Lost
<1>3. ControlInv'
  BY <1>1 DEF ControlInv, One
<1>4. WireInv' /\ TokenInv'
  BY <1>1, <1>2 DEF WireInv, TokenInv
<1>5. ScanInv' /\ ServeInv'
  BY DEF ScanInv, ServeInv, Serving
<1>6. CountInv'
  <2> SUFFICES ASSUME open', Has(Back, "Z")' PROVE CountInv'
    BY DEF CountInv, Serving
  <2>1. Back' = Back /\ Has(Back, "Z") /\ open
    BY <1>1
  <2>2. (Has(Back, "A")' <=> Has(Back, "A"))
        /\ (Has(Back, "X")' <=> Has(Back, "X"))
    BY <2>1
  <2> QED
    BY <1>1, <2>1, <2>2 DEF CountInv, One
<1>7. AnswersOwn' /\ ExchangeWhole'
  BY <1>1 DEF AnswersOwn, ExchangeWhole
<1> QED
  BY <1>3, <1>4, <1>5, <1>6, <1>7

LEMMA JCrashKeeps == ReqInv /\ JCrash => ReqInv'
<1> SUFFICES ASSUME ReqInv, JCrash PROVE ReqInv'
  OBVIOUS
<1>1. /\ jpc' = "gone" /\ toJvm' = <<>>
      /\ UNCHANGED <<mod, toApache, serving, pending, sawEnd, acked, body,
                     left>>
  BY DEF JCrash
<1>2. UNCHANGED <<pc, cur, blocks, sent, writeBuf, readBuf, open, browser>>
  BY <1>1 DEF mod
<1>3. Back' = Back
  BY <1>1, <1>2 DEF Back
<1>4. /\ IsAnswer(Back)' /\ OfRequest(Back, cur)'
      /\ \A k : Has(Back, k)' <=> Has(Back, k)
  BY <1>2, <1>3 DEF ReqInv, WireInv
<1>5. TypeOK'
  <2>1. toJvm' \in Seq(Packet) /\ Len(toJvm') <= InCapacity
    BY <1>1, <1>2, Lost
  <2> QED
    BY <1>1, <1>2, <2>1 DEF ReqInv, TypeOK
<1> QED
  BY <1>1, <1>3, <1>4, <1>5, GoneKeeps

\* It refuses the connection: CSE_CLOSE is the last packet of the answer.
LEMMA JRefuseKeeps == ReqInv /\ JRefuse => ReqInv'
<1> SUFFICES ASSUME ReqInv, JRefuse PROVE ReqInv'
  OBVIOUS
<1> USE DEF ReqInv
<1>1. /\ jpc = "refuse" /\ jpc' = "gone" /\ toJvm' = <<>>
      /\ Reply(P("X", serving))
      /\ UNCHANGED <<mod, serving, pending, sawEnd, acked, body, left>>
      /\ UNCHANGED <<pc, cur, blocks, sent, writeBuf, readBuf, open, browser>>
  BY DEF JRefuse, mod
<1>2. /\ toApache' \in Seq(Packet) /\ Len(toApache') <= OutCapacity
      /\ IsAnswer(Back)' /\ OfRequest(Back, cur)'
      /\ \A n : Has(Back, n)' <=> Has(Back, n) \/ n = "X"
      /\ ~Has(Back, "Z")
  BY <1>1, Replies DEF Serving
<1>3. pc \notin Between
  BY <1>1 DEF ServeInv, Serving
<1>4. TypeOK'
  <2>1. toJvm' \in Seq(Packet) /\ Len(toJvm') <= InCapacity
    BY <1>1, Lost
  <2> QED
    BY <1>1, <1>2, <2>1 DEF TypeOK
<1>5. (Has(Back, "A")' <=> Has(Back, "A")) /\ ~Has(Back, "Z")'
  BY <1>2
<1> QED
  BY <1>1, <1>2, <1>3, <1>4, <1>5, GoneKeeps

\* A reset destroys what had arrived but was not received: an answer that was
\* complete had been received completely, or is lost.
LEMMA ResetKeeps == ReqInv /\ Reset => ReqInv'
<1> SUFFICES ASSUME ReqInv, Reset PROVE ReqInv'
  OBVIOUS
<1> USE DEF ReqInv
<1>1. /\ jpc = "gone" /\ toApache # <<>> /\ toApache' = <<>>
      /\ UNCHANGED <<pc, cur, blocks, sent, writeBuf, readBuf, open, browser,
                     toJvm, jpc, serving, pending, sawEnd, acked, body, left>>
  BY DEF Reset, mod, jvm
<1>2. Back' = readBuf
  BY <1>1, ConcatEmptySeq DEF Back, TypeOK
<1>3. /\ IsAnswer(readBuf) /\ OfRequest(readBuf, cur)
      /\ \A k : Has(readBuf, k) => Has(Back, k)
  BY Parts DEF Back, WireInv, TypeOK
<1>4. ~Has(readBuf, "Z")
  <2> SUFFICES ASSUME NEW i \in 1 .. Len(readBuf), readBuf[i].kind = "Z"
               PROVE  FALSE
    BY DEF Has
  <2>1. /\ Len(Back) = Len(readBuf) + Len(toApache) /\ Len(readBuf) \in Nat
        /\ Len(toApache) \in Nat \ {0}
        /\ \A j \in 1 .. Len(readBuf) + Len(toApache) :
             Back[j] = IF j <= Len(readBuf) THEN readBuf[j]
                       ELSE toApache[j - Len(readBuf)]
    BY <1>1, ConcatProperties, LenProperties, EmptySeq DEF Back, TypeOK
  <2>2. i \in 1 .. Len(Back) /\ Back[i] = readBuf[i]
    BY <2>1
  <2>3. i = Len(Back)
    BY <2>2 DEF WireInv, IsAnswer
  <2> QED
    BY <2>1, <2>3
<1>5. Back # <<>>
  BY <1>1, ConcatEqualIffEmpty DEF Back, TypeOK
<1>6. /\ IsAnswer(Back)' /\ OfRequest(Back, cur)' /\ ~Has(Back, "Z")'
      /\ \A k : Has(Back, k)' => Has(Back, k)
  BY <1>1, <1>2, <1>3, <1>4
<1>7. /\ Out' = Out /\ InOrder(Out)' /\ OfRequest(Out, cur)'
      /\ \A k : Has(Out, k)' <=> Has(Out, k)
  BY <1>1, OutKept
<1>8. TypeOK'
  <2>1. toApache' \in Seq(Packet) /\ Len(toApache') <= OutCapacity
    BY <1>1, EmptySeq
  <2> QED
    BY <1>1, <2>1 DEF TypeOK
<1>9. ControlInv'
  BY <1>1 DEF ControlInv, One
<1>10. WireInv' /\ TokenInv'
  BY <1>1, <1>5, <1>6, <1>7 DEF WireInv, TokenInv
<1>11. ScanInv' /\ ServeInv' /\ CountInv'
  BY <1>1, <1>6 DEF ScanInv, ServeInv, CountInv, Serving
<1>12. AnswersOwn' /\ ExchangeWhole'
  BY <1>1 DEF AnswersOwn, ExchangeWhole
<1> QED
  BY <1>8, <1>9, <1>10, <1>11, <1>12

-----------------------------------------------------------------------------
(* The theorems.                                                            *)

LEMMA ReqInit == Init => ReqInv
<1> SUFFICES ASSUME Init PROVE ReqInv
  OBVIOUS
<1>1. Out = <<>> /\ Back = <<>>
  BY EmptySeq, ConcatEmptySeq DEF Out, Back, Init
<1>2. /\ InOrder(Out) /\ OfRequest(Out, cur)
      /\ IsAnswer(Back) /\ OfRequest(Back, cur)
      /\ \A k : ~Has(Out, k) /\ ~Has(Back, k)
  BY <1>1, EmptySeq DEF InOrder, OfRequest, IsAnswer, Has
<1>3. TypeOK
  <2>1. <<>> \in Seq(Packet) /\ <<>> \in Seq(Req) /\ Len(<<>>) = 0
    BY EmptySeq
  <2>2. 0 \in Req /\ 0 \in 0 .. MaxBlocks /\ 0 \in 0 .. MaxAnswer
    BY DEF Req
  <2>3. Len(toJvm) <= InCapacity /\ Len(toApache) <= OutCapacity
    BY <2>1 DEF Init
  <2> QED
    BY <2>1, <2>2, <2>3 DEF TypeOK, Init
<1>4. ControlInv
  BY DEF ControlInv, Init, One
<1>5. WireInv /\ TokenInv /\ ScanInv /\ ServeInv /\ CountInv
  BY <1>1, <1>2
     DEF WireInv, TokenInv, ScanInv, ServeInv, CountInv, Init, Between, Serving
<1>6. AnswersOwn /\ ExchangeWhole
  BY EmptySeq DEF AnswersOwn, ExchangeWhole, Init
<1> QED
  BY <1>3, <1>4, <1>5, <1>6 DEF ReqInv

\* Every step keeps the invariant, stutters too.
LEMMA ReqStep == ReqInv /\ [Next]_vars => ReqInv'
<1> SUFFICES ASSUME ReqInv, [Next]_vars PROVE ReqInv'
  OBVIOUS
<1>1. CASE ModStep
  BY <1>1, SendKeeps, WriteFailKeeps, FirstBlockKeeps, NextBlockKeeps,
     EndOfBodyKeeps, RecycleKeeps, CloseKeeps, ReceiveKeeps, ReadDataKeeps,
     ReadEndKeeps, BrowserGoneKeeps, EndOfFileKeeps, FlushFailKeeps,
     ReadClosedKeeps
     DEF ModStep
<1>2. CASE JvmStep
  BY <1>2, JScanKeeps, JWriteKeeps, JConsumeKeeps, JAckKeeps, JNextKeeps,
     JFinishKeeps, JKeepKeeps, JRefuseKeeps
     DEF JvmStep
<1>3. CASE UNCHANGED vars
  <2>1. UNCHANGED <<pc, cur, blocks, sent, writeBuf, readBuf, open, browser,
                    toJvm, toApache, jpc, serving, pending, sawEnd, acked,
                    body, left>>
    BY <1>3 DEF vars, mod, jvm
  <2>2. Out' = Out /\ Back' = Back
    BY <2>1 DEF Out, Back
  <2>3. /\ InOrder(Out)' /\ OfRequest(Out, cur)'
        /\ IsAnswer(Back)' /\ OfRequest(Back, cur)'
        /\ \A k : Has(Out, k)' <=> Has(Out, k)
        /\ \A k : Has(Back, k)' <=> Has(Back, k)
    BY <2>1, <2>2 DEF ReqInv, WireInv
  <2>4. TypeOK' /\ ControlInv' /\ AnswersOwn' /\ ExchangeWhole'
    BY <2>1
       DEF ReqInv, TypeOK, ControlInv, One, AnswersOwn, ExchangeWhole
  <2>5. WireInv' /\ TokenInv'
    BY <2>1, <2>2, <2>3 DEF ReqInv, WireInv, TokenInv
  <2>6. ScanInv' /\ ServeInv' /\ CountInv'
    BY <2>1, <2>2, <2>3 DEF ReqInv, ScanInv, ServeInv, CountInv, One
  <2> QED
    BY <2>4, <2>5, <2>6 DEF ReqInv
<1> QED
  BY <1>1, <1>2, <1>3, BeginKeeps, ConnectKeeps, JCrashKeeps, ResetKeeps
     DEF Next

\* The invariant holds in every state of a connection's life.
THEOREM ReqInductive == Spec => []ReqInv
<1> QED
  BY ReqInit, ReqStep, PTL DEF Spec

\* The variables have their types: in particular write_request never has more
\* blocks than the browser sends and the socket buffers keep their bounds.
THEOREM RequestTypes == Spec => []TypeOK
<1>1. ReqInv => TypeOK
  BY DEF ReqInv
<1> QED
  BY <1>1, ReqInductive, PTL

\* send_data hands a browser only data of the answer to its own request, on
\* whatever connection and after whatever requests.
THEOREM AnswersAreOwn == Spec => []AnswersOwn
<1>1. ReqInv => AnswersOwn
  BY DEF ReqInv
<1> QED
  BY <1>1, ReqInductive, PTL

\* A connection that write_request found reusable has nothing left in it.
THEOREM PooledAreClean == Spec => []CleanWhenPooled
<1>1. ReqInv => CleanWhenPooled
  <2> SUFFICES ASSUME ReqInv, pc \in {"reuse", "idle"}, jpc # "gone"
               PROVE  /\ toJvm = <<>> /\ toApache = <<>>
                      /\ writeBuf = <<>> /\ readBuf = <<>> /\ jpc = "scan"
    BY DEF CleanWhenPooled
  <2>1. pc \in Between
    BY DEF Between
  <2>2. Out = <<>> /\ Back = <<>>
    BY <2>1 DEF ReqInv, WireInv
  <2>3. jpc = "scan"
    BY <2>1 DEF ReqInv, ServeInv, Serving, TypeOK
  <2> QED
    BY <2>2, <2>3, ConcatEqualIffEmpty DEF ReqInv, TypeOK, Out, Back
<1> QED
  BY <1>1, ReqInductive, PTL

\* When write_request returns 1, the POST and the answer have arrived whole.
THEOREM ExchangesAreWhole == Spec => []ExchangeWhole
<1>1. ReqInv => ExchangeWhole
  BY DEF ReqInv
<1> QED
  BY <1>1, ReqInductive, PTL

\* A part of a sequence in which one packet at most is a block.
LEMMA BlocksOf ==
  ASSUME NEW s \in Seq(Packet),
         \A i, j \in 1 .. Len(s) : s[i].kind = "D" /\ s[j].kind = "D" => i = j
  PROVE  Blocks(s) = One(Has(s, "D"))
<1> DEFINE B == {k \in 1 .. Len(s) : s[k].kind = "D"}
<1>1. CASE Has(s, "D")
  <2>1. PICK i \in 1 .. Len(s) : s[i].kind = "D"
    BY <1>1 DEF Has
  <2>2. B = {i}
    BY <2>1
  <2>3. Cardinality(B) = 1
    BY <2>2, FS_Singleton
  <2> QED
    BY <1>1, <2>3 DEF Blocks, One
<1>2. CASE ~Has(s, "D")
  <2>1. B = {}
    BY <1>2 DEF Has
  <2>2. Cardinality(B) = 0
    BY <2>1, FS_EmptySet
  <2> QED
    BY <1>2, <2>2 DEF Blocks, One
<1> QED
  BY <1>1, <1>2

LEMMA OneBlock ==
  ASSUME NEW s \in Seq(Packet), InOrder(s)
  PROVE  Blocks(s) = One(Has(s, "D"))
<1>1. ASSUME NEW i \in 1 .. Len(s), NEW j \in 1 .. Len(s),
             s[i].kind = "D", s[j].kind = "D"
      PROVE  i = j
  <2>1. ~(i < j) /\ ~(j < i)
    BY <1>1 DEF InOrder, Rank
  <2>2. i \in Int /\ j \in Int
    OBVIOUS
  <2> QED
    BY <2>1, <2>2
<1> QED
  BY <1>1, BlocksOf

\* In s \o t a block is in one of the two only.
LEMMA BlockInOne ==
  ASSUME NEW s \in Seq(Packet), NEW t \in Seq(Packet), InOrder(s \o t)
  PROVE  ~(Has(s, "D") /\ Has(t, "D"))
<1> SUFFICES ASSUME NEW i \in 1 .. Len(s), s[i].kind = "D",
                    NEW j \in 1 .. Len(t), t[j].kind = "D"
             PROVE  FALSE
  BY DEF Has
<1> DEFINE u == s \o t
<1>1. /\ Len(u) = Len(s) + Len(t) /\ Len(s) \in Nat /\ Len(t) \in Nat
      /\ \A n \in 1 .. Len(s) + Len(t) :
           u[n] = IF n <= Len(s) THEN s[n] ELSE t[n - Len(s)]
  BY ConcatProperties, LenProperties
<1> HIDE DEF u
<1>2. i \in 1 .. Len(u) /\ u[i] = s[i]
  BY <1>1
<1>3. /\ Len(s) + j \in 1 .. Len(u) /\ u[Len(s) + j] = t[j]
      /\ i < Len(s) + j
  BY <1>1
<1>4. Rank(u[i].kind) < Rank(u[Len(s) + j].kind)
  BY <1>2, <1>3 DEF InOrder, u
<1> QED
  BY <1>2, <1>3, <1>4 DEF Rank

\* write_request never has two blocks on the way, with the one that the JVM
\* has not consumed counted.
THEOREM OneBlockOnTheWay == Spec => []OneBlockInFlight
<1>1. ReqInv => OneBlockInFlight
  <2> SUFFICES ASSUME ReqInv PROVE OneBlockInFlight
    OBVIOUS
  <2>1. writeBuf \in Seq(Packet) /\ toJvm \in Seq(Packet) /\ InOrder(Out)
        /\ pending \in BOOLEAN /\ ~(Has(Out, "D") /\ pending)
    BY DEF ReqInv, TypeOK, WireInv, TokenInv
  <2>2. InOrder(toJvm) /\ InOrder(writeBuf)
        /\ (Has(Out, "D") <=> Has(toJvm, "D") \/ Has(writeBuf, "D"))
    BY <2>1, Parts DEF Out
  <2>3. ~(Has(toJvm, "D") /\ Has(writeBuf, "D"))
    BY <2>1, BlockInOne DEF Out
  <2>4. /\ Blocks(writeBuf) = One(Has(writeBuf, "D"))
        /\ Blocks(toJvm) = One(Has(toJvm, "D"))
    BY <2>1, <2>2, OneBlock
  <2> QED
    BY <2>1, <2>2, <2>3, <2>4 DEF OneBlockInFlight, One
<1> QED
  BY <1>1, ReqInductive, PTL

=============================================================================
