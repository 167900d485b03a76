-------------------------- MODULE SrunStreamProofs --------------------------
(***************************************************************************)
(* Proofs about SrunStream: the buffers never overflow, and both directions *)
(* of a stream implement PacketPipe, wherever send, recv and the buffers    *)
(* cut the bytes of a packet, for any size of the buffers and any data.     *)
(***************************************************************************)
EXTENDS SrunStream, Iteration, SequenceTheorems, FiniteSetTheorems, TLAPS

-----------------------------------------------------------------------------
(* Numbers: the three length bytes of a header.                             *)

\* A quotient is small if the number is.
LEMMA DivLess ==
  ASSUME NEW n \in Nat, NEW d \in Nat \ {0}, NEW m \in Nat, n < m * d
  PROVE  n \div d < m
  OBVIOUS

\* Dividing by a square is dividing twice.
LEMMA DivSquare ==
  ASSUME NEW n \in Nat, NEW d \in Nat \ {0}
  PROVE  n \div (d * d) = (n \div d) \div d
  OBVIOUS

\* Quotient and remainder.
LEMMA DivMod ==
  ASSUME NEW n \in Nat, NEW d \in Nat \ {0}
  PROVE  /\ n \div d \in Nat /\ n % d \in 0 .. d - 1
         /\ n = ((n \div d) * d) + (n % d)
  OBVIOUS

\* A small number is its own remainder.
LEMMA ModSmall ==
  ASSUME NEW d \in Nat \ {0}, NEW n \in 0 .. d - 1
  PROVE  n % d = n
  OBVIOUS

\* The digits of a number of three digits.
LEMMA ThreeDigits ==
  ASSUME NEW n \in Nat, NEW d \in Nat \ {0}, n < (d * d) * d
  PROVE  /\ (n \div (d * d)) % d \in 0 .. d - 1
         /\ (n \div d) % d \in 0 .. d - 1
         /\ n % d \in 0 .. d - 1
         /\ (((n \div (d * d)) % d) * d + ((n \div d) % d)) * d + (n % d) = n
<1> DEFINE q == n \div d
<1>1. q \in Nat /\ n % d \in 0 .. d - 1 /\ n = (q * d) + (n % d)
  BY DivMod
<1>2. q \div d \in Nat /\ q % d \in 0 .. d - 1 /\ q = ((q \div d) * d) + (q % d)
  BY <1>1, DivMod
<1>3. n \div (d * d) = q \div d
  BY DivSquare
<1>4. q < d * d
  <2>1. d * d \in Nat
    OBVIOUS
  <2> QED BY <2>1, DivLess
<1>5. q \div d < d
  BY <1>1, <1>4, DivLess
<1>6. (q \div d) % d = q \div d
  BY <1>2, <1>5, ModSmall
<1> HIDE DEF q
<1>7. (n \div (d * d)) % d = q \div d
  BY <1>3, <1>6
<1> QED BY <1>1, <1>2, <1>5, <1>7 DEF q

\* What the assumptions say of the sizes.
LEMMA Sizes ==
  /\ Base \in Nat \ {0} /\ Base > 7
  /\ BufLength \in Nat /\ BufLength >= HeaderSize
  /\ ValueSize \in Nat \ {0}
  BY StreamAssumption DEF CSE_CLOSE

-----------------------------------------------------------------------------
(* Strings of bytes.                                                        *)

\* Strings, two of them one behind the other, and the two parts of one that is
\* cut behind k bytes.  The lemmas below are all that the proofs use of them:
\* given the definitions, the provers would take strings apart without end.
Str(s) == s \in Seq(Byte)
Cat(s, t) == s \o t
Pre(s, k) == SubSeq(s, 1, k)
Suf(s, k) == SubSeq(s, k + 1, Len(s))

LEMMA StrLen == \A s : Str(s) => Len(s) \in Nat /\ (Len(s) = 0 <=> s = <<>>)
  BY EmptySeq, LenProperties DEF Str

LEMMA StrEmpty == Str(<<>>) /\ Len(<<>>) = 0
  BY EmptySeq DEF Str

LEMMA StrCat == \A s, t : Str(s) /\ Str(t) => Str(Cat(s, t)) /\ Len(Cat(s, t)) = Len(s) + Len(t)
  BY ConcatProperties DEF Str, Cat

LEMMA CatStr == \A s, t : Str(s) /\ Str(t) => Str(Cat(s, t))
  BY StrCat

LEMMA StrNothing == \A s : Str(s) => Cat(s, <<>>) = s /\ Cat(<<>>, s) = s
  BY ConcatEmptySeq DEF Str, Cat

LEMMA StrAssoc ==
  \A s, t, u : Str(s) /\ Str(t) /\ Str(u) => Cat(Cat(s, t), u) = Cat(s, Cat(t, u))
  BY ConcatAssociative DEF Str, Cat

\* The bytes of the first part.
LEMMA StrFirst ==
  \A s, t, i : Str(s) /\ Str(t) /\ i \in 1 .. Len(s) => Cat(s, t)[i] = s[i]
<1> SUFFICES ASSUME NEW s, NEW t, NEW i, Str(s), Str(t), i \in 1 .. Len(s)
             PROVE  (s \o t)[i] = s[i]
  BY DEF Cat
<1> QED BY ConcatProperties, LenProperties DEF Str

\* Strings that start with parts of the same length have the same parts.
LEMMA SameStart ==
  ASSUME NEW a, NEW b, NEW x, NEW y, Str(a), Str(b), Str(x), Str(y),
         Cat(a, x) = Cat(b, y), Len(a) = Len(b)
  PROVE  a = b /\ x = y
<1>1. ASSUME NEW i \in 1 .. Len(a) PROVE a[i] = b[i]
  <2>1. Cat(a, x)[i] = a[i]
    BY StrFirst
  <2>2. Cat(b, y)[i] = b[i]
    BY StrFirst
  <2> QED BY <2>1, <2>2
<1>2. a = b
  BY <1>1, SeqEqual DEF Str
<1>3. a \o x = a \o y
  BY <1>2 DEF Cat
<1> QED BY <1>2, <1>3, ConcatSimplifications DEF Str

\* Every string is the two parts at which it is cut.
LEMMA CutAt ==
  ASSUME NEW s, Str(s), NEW k \in 0 .. Len(s)
  PROVE  /\ Str(Pre(s, k)) /\ Len(Pre(s, k)) = k
         /\ Str(Suf(s, k)) /\ Len(Suf(s, k)) = Len(s) - k
         /\ Cat(Pre(s, k), Suf(s, k)) = s
<1> USE DEF Str, Cat, Pre, Suf
<1>0. Len(s) \in Nat /\ \A i \in 1 .. Len(s) : s[i] \in Byte
  BY LenProperties, ElementOfSeq
<1>1. SubSeq(s, 1, k) \in Seq(Byte) /\ Len(SubSeq(s, 1, k)) = k
  BY <1>0, SubSeqProperties
<1>2. /\ SubSeq(s, k + 1, Len(s)) \in Seq(Byte)
      /\ Len(SubSeq(s, k + 1, Len(s))) = Len(s) - k
  BY <1>0, SubSeqProperties
<1>3. SubSeq(s, 1, k) \o SubSeq(s, k + 1, Len(s)) = SubSeq(s, 1, Len(s))
  <2>1. 1 \in 1 .. Len(s) + 1 /\ k \in 1 - 1 .. Len(s) /\ Len(s) \in k .. Len(s)
    BY <1>0
  <2> QED BY <2>1, ConcatAdjacentSubSeq
<1> QED BY <1>1, <1>2, <1>3, SubSeqFull

\* What a string starts with can be cut off, and the rest is what follows.
LEMMA CutPrefix ==
  ASSUME NEW a, NEW b, NEW x, NEW y, Str(a), Str(b), Str(x), Str(y),
         Cat(a, x) = Cat(b, y), Len(b) <= Len(a)
  PROVE  /\ Pre(a, Len(b)) = b
         /\ Str(Suf(a, Len(b)))
         /\ Cat(Suf(a, Len(b)), x) = y
<1> DEFINE c == Pre(a, Len(b))
           r == Suf(a, Len(b))
<1>1. Len(b) \in 0 .. Len(a)
  BY StrLen
<1>2. Str(c) /\ Str(r) /\ Len(c) = Len(b) /\ Cat(c, r) = a
  BY <1>1, CutAt
<1> HIDE DEF c, r
<1>3. Cat(c, Cat(r, x)) = Cat(b, y)
  BY <1>2, StrAssoc
<1>4. c = b /\ Cat(r, x) = y
  BY <1>2, <1>3, StrCat, SameStart
<1> QED BY <1>2, <1>4 DEF c, r

-----------------------------------------------------------------------------
(* Packets and their bytes.                                                 *)

\* What a packet is on the way.
Bytes(p) == Cat(Header(p), p.data)

\* A header has four bytes, the code and the length of the data.
LEMMA HeaderIs ==
  ASSUME NEW p \in Packet
  PROVE  /\ Str(Header(p)) /\ Len(Header(p)) = HeaderSize
         /\ Header(p)[1] = p.code /\ Length(Header(p)) = Len(p.data)
         /\ Str(p.data) /\ Str(Bytes(p))
<1>1. Str(p.data) /\ Len(p.data) \in Nat /\ Len(p.data) < Base * Base * Base
  <2>1. p.data \in Payload \cup Answer \cup {<<>>}
    BY DEF Packet
  <2>2. CASE p.data = <<>>
    <3>1. 0 < Base * Base * Base
      BY StreamAssumption DEF CSE_CLOSE
    <3> QED BY <3>1, <2>2, StrEmpty
  <2>3. CASE p.data \in Payload \cup Answer
    BY <2>3, StreamAssumption, StrLen DEF Str
  <2> QED BY <2>1, <2>2, <2>3
<1>2. Base \in Nat \ {0} /\ p.code \in Byte
  BY StreamAssumption DEF Packet, CSE_CLOSE, Byte
<1> DEFINE n == Len(p.data)
           n1 == (n \div (Base * Base)) % Base
           n2 == (n \div Base) % Base
           n3 == n % Base
<1>3. n1 \in Byte /\ n2 \in Byte /\ n3 \in Byte /\ (n1 * Base + n2) * Base + n3 = n
  BY <1>1, <1>2, ThreeDigits DEF Byte
<1>4. Header(p) = <<p.code, n1, n2, n3>>
  BY DEF Header
<1> HIDE DEF n1, n2, n3, n
<1>5. Str(Header(p)) /\ Len(Header(p)) = 4
  BY <1>2, <1>3, <1>4 DEF Str
<1>6. Header(p)[1] = p.code /\ Length(Header(p)) = n
  BY <1>3, <1>4 DEF Length
<1> QED BY <1>1, <1>5, <1>6, StrCat DEF Bytes, HeaderSize, n

\* rest[k] are the bytes of the packets of ps behind the k-th, up to the n-th.
Rests(rest, ps, i, n) ==
  /\ rest \in [i .. n -> Seq(Byte)] /\ rest[n] = <<>>
  /\ \A k \in i .. n - 1 : rest[k] = Cat(Bytes(ps[k + 1]), rest[k + 1])

\* b is what the packets of ps behind the i-th, up to the n-th, are on the way.
Carries(b, ps, i, n) == \E rest : Rests(rest, ps, i, n) /\ rest[i] = b

\* Such bytes are a string.
LEMMA CarriesStr ==
  ASSUME NEW b, NEW ps, NEW i \in Nat, NEW n \in Nat, i <= n, Carries(b, ps, i, n)
  PROVE  Str(b)
<1>1. i \in i .. n
  OBVIOUS
<1> QED BY <1>1 DEF Carries, Rests, Str

\* No packets are no bytes.
LEMMA CarriesNothing ==
  ASSUME NEW ps, NEW n \in Nat
  PROVE  Carries(<<>>, ps, n, n) /\ \A b : Carries(b, ps, n, n) => b = <<>>
<1> DEFINE rest == [k \in n .. n |-> <<>>]
<1>1. Rests(rest, ps, n, n) /\ rest[n] = <<>>
  BY StrEmpty DEF Rests, Str
<1>2. Carries(<<>>, ps, n, n)
  <2> HIDE DEF rest
  <2> QED BY <1>1 DEF Carries
<1> QED BY <1>2 DEF Carries, Rests

\* The first packet can be taken away.
LEMMA CarriesFirst ==
  ASSUME NEW b, NEW ps, NEW i \in Nat, NEW n \in Nat, i < n, Carries(b, ps, i, n)
  PROVE  \E r : Str(r) /\ b = Cat(Bytes(ps[i + 1]), r) /\ Carries(r, ps, i + 1, n)
<1>1. PICK rest : Rests(rest, ps, i, n) /\ rest[i] = b
  BY DEF Carries
<1> DEFINE more == [k \in i + 1 .. n |-> rest[k]]
<1>2. Rests(more, ps, i + 1, n) /\ more[i + 1] = rest[i + 1]
  BY <1>1 DEF Rests
<1>3. Str(rest[i + 1]) /\ b = Cat(Bytes(ps[i + 1]), rest[i + 1])
  <2>1. i \in i .. n - 1 /\ i + 1 \in i .. n
    OBVIOUS
  <2> QED BY <1>1, <2>1 DEF Rests, Str
<1> HIDE DEF more
<1>4. Carries(rest[i + 1], ps, i + 1, n)
  BY <1>2 DEF Carries
<1> QED BY <1>3, <1>4

\* A packet can be put behind the last.
LEMMA CarriesMore ==
  ASSUME NEW b, NEW ps, NEW i \in Nat, NEW n \in Nat, i <= n, Carries(b, ps, i, n),
         \A k \in i + 1 .. n + 1 : ps[k] \in Packet
  PROVE  Carries(Cat(b, Bytes(ps[n + 1])), ps, i, n + 1)
<1>1. PICK rest : Rests(rest, ps, i, n) /\ rest[i] = b
  BY DEF Carries
<1> DEFINE new == Bytes(ps[n + 1])
           more == [k \in i .. n + 1 |-> IF k = n + 1 THEN <<>> ELSE Cat(rest[k], new)]
<1>2. Str(new)
  <2>1. ps[n + 1] \in Packet
    OBVIOUS
  <2> QED BY <2>1, HeaderIs
<1> HIDE DEF new
<1>3. \A k \in i .. n : Str(rest[k])
  BY <1>1 DEF Rests, Str
<1>4. \A k \in i .. n : Str(Cat(rest[k], new))
  BY <1>2, <1>3, StrCat
<1>5. more \in [i .. n + 1 -> Seq(Byte)]
  BY <1>4, StrEmpty DEF Str
<1>6. more[n + 1] = <<>>
  OBVIOUS
<1>7. ASSUME NEW k \in i .. n PROVE more[k] = Cat(Bytes(ps[k + 1]), more[k + 1])
  <2>1. more[k] = Cat(rest[k], new)
    OBVIOUS
  <2>2. CASE k = n
    <3>1. rest[k] = <<>> /\ more[k + 1] = <<>>
      BY <1>1, <2>2 DEF Rests
    <3>2. Cat(<<>>, new) = Cat(new, <<>>)
      BY <1>2, StrNothing
    <3> QED BY <2>1, <2>2, <3>1, <3>2 DEF new
  <2>3. CASE k # n
    <3>1. k \in i .. n - 1 /\ k + 1 \in i .. n /\ more[k + 1] = Cat(rest[k + 1], new)
      BY <2>3
    <3>2. rest[k] = Cat(Bytes(ps[k + 1]), rest[k + 1])
      BY <1>1, <3>1 DEF Rests
    <3>3. Str(Bytes(ps[k + 1]))
      <4>1. ps[k + 1] \in Packet
        BY <3>1
      <4> QED BY <4>1, HeaderIs
    <3>4. Str(rest[k + 1])
      BY <1>3, <3>1
    <3> HIDE DEF more
    <3> QED BY <1>2, <2>1, <3>1, <3>2, <3>3, <3>4, StrAssoc
  <2> QED BY <2>2, <2>3
<1>8. more[i] = Cat(b, new)
  BY <1>1
<1> HIDE DEF more
<1>9. Rests(more, ps, i, n + 1)
  BY <1>5, <1>6, <1>7 DEF Rests
<1> QED BY <1>8, <1>9 DEF Carries, new

\* The bytes depend on these packets only.
LEMMA CarriesSame ==
  ASSUME NEW b, NEW ps, NEW qs, NEW i \in Nat, NEW n \in Nat, Carries(b, ps, i, n),
         \A k \in i + 1 .. n : qs[k] = ps[k]
  PROVE  Carries(b, qs, i, n)
<1>1. PICK rest : Rests(rest, ps, i, n) /\ rest[i] = b
  BY DEF Carries
<1>2. \A k \in i .. n - 1 : Bytes(qs[k + 1]) = Bytes(ps[k + 1])
  OBVIOUS
<1>3. Rests(rest, qs, i, n)
  BY <1>1, <1>2 DEF Rests
<1> QED BY <1>1, <1>3 DEF Carries

-----------------------------------------------------------------------------
(* Types.                                                                   *)

FlagsOK ==
  /\ mode \in {"env", "post", "block", "end", "data", "read", "done", "crashed"}
  /\ open \in BOOLEAN /\ reset \in BOOLEAN
  /\ ack \in {CSE_ACK, CSE_END}
  /\ result \in {Failed, CSE_ACK, CSE_END, CSE_CLOSE}

BufsOK ==
  /\ Str(writeBuf) /\ Str(readBuf) /\ Str(toJvm) /\ Str(toApache)
  /\ Len(writeBuf) <= BufLength /\ Len(readBuf) <= BufLength

\* Data is read behind a whole header only.
RdOK ==
  /\ rd = [field |-> rd.field, key |-> rd.key, hdr |-> rd.hdr, need |-> rd.need,
           text |-> rd.text]
  /\ rd.field \in {"packet", "value"} /\ rd.need \in Nat
  /\ Str(rd.key) /\ Str(rd.hdr) /\ Str(rd.text)
  /\ Len(rd.hdr) <= HeaderSize
  /\ Len(rd.hdr) < HeaderSize => rd.need = 0 /\ rd.text = <<>>

\* Whatever the JVM reads behind a packet that cse_write dropped, it takes for
\* packets.
ReadPacket == [code : Byte, data : Seq(Byte)]

HistOK ==
  /\ written \in Seq(Packet) /\ answer \in Seq(Packet)
  /\ got \in Seq(ReadPacket) /\ jvmGot \in Seq(ReadPacket)
  /\ mode = "data" => written # <<>>

Types == FlagsOK /\ BufsOK /\ RdOK /\ HistOK

LEMMA TypesImply == Types => TypeOK
  BY DEF Types, FlagsOK, BufsOK, TypeOK, Str

LEMMA TypesInit == Init => Types
<1> SUFFICES ASSUME Init PROVE Types
  OBVIOUS
<1> USE StrEmpty, StreamAssumption DEF Init
<1>1. FlagsOK
  BY DEF FlagsOK, CSE_ACK
<1>2. BufsOK
  BY DEF BufsOK, HeaderSize
<1>3. RdOK
  BY DEF RdOK, Start, HeaderSize
<1>4. HistOK
  BY EmptySeq DEF HistOK
<1> QED BY <1>1, <1>2, <1>3, <1>4 DEF Types

\* The header of a string that has one.
LEMMA LengthIs ==
  ASSUME NEW s, Str(s), Len(s) >= HeaderSize
  PROVE  s[1] \in Byte /\ Length(s) \in Nat
<1>1. s[1] \in Byte /\ s[2] \in Byte /\ s[3] \in Byte /\ s[4] \in Byte
  BY ElementOfSeq, LenProperties DEF Str, HeaderSize
<1>2. s[2] \in Nat /\ s[3] \in Nat /\ s[4] \in Nat /\ Base \in Nat
  BY <1>1, StreamAssumption DEF Byte
<1>3. s[2] * Base + s[3] \in Nat
  BY <1>2
<1>4. (s[2] * Base + s[3]) * Base + s[4] \in Nat
  BY <1>2, <1>3
<1> QED BY <1>1, <1>4 DEF Length

\* cse_write keeps the buffer within its bounds; an open stream has what it is
\* given behind what is on the way, unless it is too long, and a stream that is
\* closed sends nothing.
LEMMA WriteDoes ==
  ASSUME Types, NEW b, Str(b), Write(b)
  PROVE  /\ Str(writeBuf') /\ Len(writeBuf') <= BufLength /\ Str(toJvm')
         /\ open' \in BOOLEAN
         /\ open' => /\ open
                     /\ \E z \in {<<>>, b} :
                          /\ Cat(toJvm', writeBuf') = Cat(Cat(toJvm, writeBuf), z)
                          /\ Len(b) <= BufLength => z = b
         /\ ~open' => toJvm' = toJvm
<1> USE Sizes DEF Types, BufsOK, FlagsOK
<1>0. Str(Cat(toJvm, writeBuf)) /\ Len(b) \in Nat /\ Len(writeBuf) \in Nat
  BY StrCat, StrLen
<1>1. CASE Len(writeBuf) + Len(b) <= BufLength
  <2>1. writeBuf' = Cat(writeBuf, b) /\ toJvm' = toJvm /\ open' = open
    BY <1>1 DEF Write, Cat
  <2>2. Cat(toJvm, Cat(writeBuf, b)) = Cat(Cat(toJvm, writeBuf), b)
    BY StrAssoc
  <2>3. Str(Cat(writeBuf, b)) /\ Len(Cat(writeBuf, b)) <= BufLength
    BY <1>1, StrCat
  <2> QED BY <2>1, <2>2, <2>3
<1>2. CASE ~(Len(writeBuf) + Len(b) <= BufLength) /\ CanSend
  <2>1. toJvm' = Cat(toJvm, writeBuf) /\ open' = open
    BY <1>2 DEF Write, Sends, Cat
  <2>2. writeBuf' = IF Len(b) > BufLength THEN <<>> ELSE b
    BY <1>2 DEF Write
  <2>3. CASE Len(b) > BufLength
    <3>1. writeBuf' = <<>>
      BY <2>2, <2>3
    <3> QED BY <1>0, <1>2, <2>1, <2>3, <3>1, StrEmpty DEF CanSend
  <2>4. CASE ~(Len(b) > BufLength)
    <3>1. writeBuf' = b
      BY <2>2, <2>4
    <3> QED BY <1>0, <1>2, <2>1, <2>4, <3>1 DEF CanSend
  <2> QED BY <2>3, <2>4
<1>3. CASE ~(Len(writeBuf) + Len(b) <= BufLength) /\ ~CanSend
  <2>1. writeBuf' = <<>> /\ open' = FALSE /\ toJvm' = toJvm
    BY <1>3 DEF Write
  <2>2. Str(<<>>) /\ Len(<<>>) <= BufLength
    BY StrEmpty DEF HeaderSize
  <2> QED BY <2>1, <2>2
<1> QED BY <1>1, <1>2, <1>3

\* The steps, with the packets they are about.
LEMMA Steps ==
  ASSUME Next
  PROVE  \/ \E p \in Packet : /\ WritePacket(p)
                              /\ p.code # CSE_END => p.code \in {CSE_HEADER, CSE_DATA}
         \/ WriteData \/ AwaitAck
         \/ Flush \/ Recv \/ Take \/ HeaderKey \/ HeaderValue \/ Other \/ End
         \/ EndOfFile \/ FlushFail \/ FlushCrash \/ ReadClosed \/ BrowserGone
         \/ JRead \/ Reset
         \/ \E p \in Packet : JAnswer(p)
         \/ Finished
<1>1. \A c \in CSE_END .. CSE_CLOSE, d \in Payload \cup Answer \cup {<<>>} :
        P(c, d) \in Packet /\ P(c, d).code = c
  <2>1. \A c \in CSE_END .. CSE_CLOSE : c \in 1 .. Base - 1
    BY Sizes DEF CSE_END, CSE_CLOSE
  <2> QED BY <2>1 DEF P, Packet
<1>2. ASSUME NEW c \in {CSE_HEADER, CSE_DATA}, NEW d \in Payload, WritePacket(P(c, d))
      PROVE  \E p \in Packet : /\ WritePacket(p)
                               /\ p.code # CSE_END => p.code \in {CSE_HEADER, CSE_DATA}
  <2>1. P(c, d) \in Packet /\ P(c, d).code = c
    BY <1>1 DEF CSE_END, CSE_CLOSE, CSE_HEADER, CSE_DATA
  <2> QED BY <1>2, <2>1
<1>3. ASSUME WritePacket(P(CSE_END, <<>>))
      PROVE  \E p \in Packet : /\ WritePacket(p)
                               /\ p.code # CSE_END => p.code \in {CSE_HEADER, CSE_DATA}
  <2>1. P(CSE_END, <<>>) \in Packet /\ P(CSE_END, <<>>).code = CSE_END
    BY <1>1 DEF CSE_END, CSE_CLOSE
  <2> QED BY <1>3, <2>1
<1>4. ASSUME NEW c \in CSE_END .. CSE_CLOSE, NEW d \in Answer \cup {<<>>}, JAnswer(P(c, d))
      PROVE  \E p \in Packet : JAnswer(p)
  <2>1. P(c, d) \in Packet
    BY <1>1
  <2> QED BY <1>4, <2>1
<1> QED BY <1>2, <1>3, <1>4 DEF Next

\* A header is whole, or there is only a part of it.
LEMMA HeaderOrPart ==
  \A n \in Nat : n <= HeaderSize => \/ n = HeaderSize /\ ~(n < HeaderSize)
                                    \/ n < HeaderSize /\ n # HeaderSize
  BY DEF HeaderSize

\* send_data begins with a packet or with a value.
LEMMA StartOK ==
  ASSUME NEW f \in {"packet", "value"}, NEW key, Str(key), rd' = Start(f, key)
  PROVE  RdOK'
<1>1. rd' = [field |-> f, key |-> key, hdr |-> <<>>, need |-> 0, text |-> <<>>]
  BY DEF Start
<1> QED BY <1>1, StrEmpty DEF RdOK, HeaderSize

\* send_data returns a code that its callers test for.
LEMMA ReturnDoes ==
  ASSUME Types, NEW code, code \in {Failed, CSE_END, CSE_CLOSE, ack}, Return(code)
  PROVE  /\ mode' \in {"done", "end", "block"} /\ ack' = ack
         /\ result' \in {Failed, CSE_ACK, CSE_END, CSE_CLOSE}
         /\ RdOK'
<1>1. RdOK'
  BY StrEmpty, StartOK DEF Return
<1> QED BY <1>1 DEF Return, Types, FlagsOK

\* A whole packet.
LEMMA WholeIs ==
  ASSUME Types, Whole
  PROVE  /\ mode = "read" /\ open /\ Len(rd.hdr) = HeaderSize /\ rd.need = 0
         /\ P(rd.hdr[1], rd.text) \in ReadPacket
<1>1. Len(rd.hdr) \in Nat /\ Len(rd.hdr) <= HeaderSize /\ Str(rd.hdr) /\ Str(rd.text)
  BY StrLen DEF Types, RdOK
<1>2. Len(rd.hdr) = HeaderSize /\ rd.need = 0
  <2>1. PICK n : n = Len(rd.hdr)
    OBVIOUS
  <2>2. (IF n < 4 THEN 4 - n ELSE rd.need) = 0
    BY <2>1 DEF Whole, Wanted, HeaderSize
  <2>3. n \in Nat /\ n <= 4
    BY <1>1, <2>1 DEF HeaderSize
  <2>4. n = 4
    BY <2>2, <2>3
  <2> QED BY <2>1, <2>2, <2>4 DEF HeaderSize
<1>3. rd.hdr[1] \in Byte
  BY <1>1, <1>2, LengthIs DEF HeaderSize
<1> QED BY <1>1, <1>2, <1>3 DEF Whole, P, ReadPacket, Str

\* What is wanted moves from the buffer to the header or to the data.
LEMMA TakeDoes ==
  ASSUME Types, Take
  PROVE  \E b, r :
           /\ Str(b) /\ Str(r) /\ readBuf = Cat(b, r) /\ readBuf' = r
           /\ Len(b) \in Nat \ {0} /\ Len(r) <= BufLength
           /\ Len(rd.hdr) = HeaderSize =>
                /\ Len(b) <= rd.need
                /\ rd' = [field |-> rd.field, key |-> rd.key, hdr |-> rd.hdr,
                          need |-> rd.need - Len(b), text |-> Cat(rd.text, b)]
           /\ Len(rd.hdr) < HeaderSize =>
                /\ Len(Cat(rd.hdr, b)) <= HeaderSize
                /\ rd' = [field |-> rd.field, key |-> rd.key, hdr |-> Cat(rd.hdr, b),
                          need |-> IF Len(Cat(rd.hdr, b)) < HeaderSize THEN 0
                                   ELSE Needs(Cat(rd.hdr, b)),
                          text |-> rd.text]
<1> DEFINE b == Pre(readBuf, Taken)
           r == Suf(readBuf, Taken)
<1>1. /\ Str(readBuf) /\ Len(readBuf) \in Nat \ {0} /\ Len(readBuf) <= BufLength
      /\ Str(rd.hdr) /\ Str(rd.text)
      /\ Len(rd.hdr) \in Nat /\ Len(rd.hdr) <= HeaderSize /\ rd.need \in Nat
      /\ rd = [field |-> rd.field, key |-> rd.key, hdr |-> rd.hdr, need |-> rd.need,
               text |-> rd.text]
  BY StrLen DEF Types, BufsOK, RdOK, Take
<1>2. Wanted \in Nat \ {0}
  <2>1. PICK n, m : n = Len(rd.hdr) /\ m = rd.need
    OBVIOUS
  <2>2. (IF n < 4 THEN 4 - n ELSE m) > 0 /\ Wanted = (IF n < 4 THEN 4 - n ELSE m)
    BY <2>1 DEF Take, Wanted, HeaderSize
  <2>3. n \in Nat /\ m \in Nat
    BY <1>1, <2>1
  <2> QED BY <2>2, <2>3
<1>3. Taken \in 1 .. Len(readBuf) /\ Taken <= Wanted
  BY <1>1, <1>2 DEF Taken
<1>4. /\ Str(b) /\ Len(b) = Taken
      /\ Str(r) /\ Len(r) = Len(readBuf) - Taken
      /\ Cat(b, r) = readBuf
  BY <1>1, <1>3, CutAt
<1>5. readBuf' = r
  BY DEF Take, Suf
<1>6. rd' = IF Len(rd.hdr) = HeaderSize
            THEN [rd EXCEPT !.text = Cat(@, b), !.need = @ - Taken]
            ELSE [rd EXCEPT !.hdr = Cat(rd.hdr, b),
                            !.need = IF Len(Cat(rd.hdr, b)) < HeaderSize THEN 0
                                     ELSE Needs(Cat(rd.hdr, b))]
  BY DEF Take, Pre, Cat
<1> HIDE DEF b, r
<1>7. ASSUME Len(rd.hdr) = HeaderSize
      PROVE  /\ Len(b) <= rd.need
             /\ rd' = [field |-> rd.field, key |-> rd.key, hdr |-> rd.hdr,
                       need |-> rd.need - Len(b), text |-> Cat(rd.text, b)]
  <2>1. Wanted = rd.need
    BY <1>7 DEF Wanted
  <2>2. rd' = [rd EXCEPT !.text = Cat(@, b), !.need = @ - Len(b)]
    BY <1>4, <1>6, <1>7
  <2> QED BY <1>1, <1>3, <1>4, <2>1, <2>2
<1>8. ASSUME Len(rd.hdr) < HeaderSize
      PROVE  /\ Len(Cat(rd.hdr, b)) <= HeaderSize
             /\ rd' = [field |-> rd.field, key |-> rd.key, hdr |-> Cat(rd.hdr, b),
                       need |-> IF Len(Cat(rd.hdr, b)) < HeaderSize THEN 0
                                ELSE Needs(Cat(rd.hdr, b)),
                       text |-> rd.text]
  <2>1. Wanted = HeaderSize - Len(rd.hdr)
    BY <1>8 DEF Wanted
  <2>2. Len(Cat(rd.hdr, b)) <= HeaderSize
    <3>1. PICK n, t : n = Len(rd.hdr) /\ t = Taken
      OBVIOUS
    <3>2. n \in Nat /\ t \in Nat /\ t <= 4 - n
      BY <1>1, <1>3, <2>1, <3>1 DEF HeaderSize
    <3>3. Len(Cat(rd.hdr, b)) = n + t
      BY <1>1, <1>4, <3>1, StrCat
    <3> QED BY <3>2, <3>3 DEF HeaderSize
  <2>3. Len(rd.hdr) # HeaderSize
    <3>1. PICK n : n = Len(rd.hdr)
      OBVIOUS
    <3>2. n \in Nat /\ n < 4
      BY <1>1, <1>8, <3>1 DEF HeaderSize
    <3>3. n # 4
      BY <3>2
    <3> QED BY <3>1, <3>3 DEF HeaderSize
  <2>4. rd' = [rd EXCEPT !.hdr = Cat(rd.hdr, b),
                         !.need = IF Len(Cat(rd.hdr, b)) < HeaderSize THEN 0
                                  ELSE Needs(Cat(rd.hdr, b))]
    BY <1>6, <2>3
  <2> QED BY <1>1, <2>2, <2>4
<1>9. Len(b) \in Nat \ {0} /\ Len(r) <= BufLength
  BY <1>1, <1>3, <1>4, Sizes
<1> QED BY <1>4, <1>5, <1>7, <1>8, <1>9

\* What the JVM reads is a packet: a code and as many bytes as its header says.
LEMMA JReadDoes ==
  ASSUME Types, JRead
  PROVE  LET size == HeaderSize + Length(toJvm)
         IN /\ Length(toJvm) \in Nat /\ size \in 0 .. Len(toJvm)
            /\ P(toJvm[1], Suf(Pre(toJvm, size), HeaderSize)) \in ReadPacket
            /\ jvmGot' = Append(jvmGot, P(toJvm[1], Suf(Pre(toJvm, size), HeaderSize)))
            /\ toJvm' = Suf(toJvm, size) /\ Str(toJvm')
<1> DEFINE len == Length(toJvm)
           size == HeaderSize + len
<1>1. Str(toJvm) /\ Len(toJvm) \in Nat /\ Len(toJvm) >= HeaderSize /\ Len(toJvm) >= size
  BY StrLen DEF Types, BufsOK, JRead
<1>2. toJvm[1] \in Byte /\ len \in Nat
  BY <1>1, LengthIs
<1>3. size \in 0 .. Len(toJvm) /\ HeaderSize \in 0 .. size
  BY <1>1, <1>2 DEF HeaderSize
<1>4. Str(Pre(toJvm, size)) /\ Len(Pre(toJvm, size)) = size /\ Str(Suf(toJvm, size))
  BY <1>1, <1>3, CutAt
<1>5. Str(Suf(Pre(toJvm, size), HeaderSize))
  BY <1>3, <1>4, CutAt
<1>6. SubSeq(toJvm, HeaderSize + 1, size) = Suf(Pre(toJvm, size), HeaderSize)
  <2>1. \A i \in HeaderSize + 1 .. size : i \in 1 .. size
    BY <1>2, <1>3 DEF HeaderSize
  <2>2. \A i \in 1 .. Len(toJvm) : toJvm[i] \in Byte
    BY <1>1, ElementOfSeq DEF Str
  <2>3. \A i \in 1 .. size : i \in 1 .. Len(toJvm)
    BY <1>1, <1>3
  <2>4. size \in Int /\ HeaderSize + 1 \in Int
    BY <1>2 DEF HeaderSize
  <2> DEFINE u == SubSeq(toJvm, 1, size)
  <2>5. /\ Len(u) = size
        /\ \A i \in 1 .. size : u[i] = toJvm[i] /\ u[i] \in Byte
    <3>1. Len(u) = size
      BY <1>4 DEF Pre
    <3>2. \A i \in 1 .. size - 1 + 1 : u[i] = toJvm[1 + i - 1]
      BY <2>2, <2>3, <2>4, SubSeqProperties
    <3> QED BY <2>2, <2>3, <2>4, <3>1, <3>2
  <2> HIDE DEF u, size
  <2> DEFINE v == SubSeq(toJvm, HeaderSize + 1, size)
             w == SubSeq(u, HeaderSize + 1, size)
  <2>6. /\ v \in Seq(Byte) /\ Len(v) = IF HeaderSize + 1 <= size THEN size - (HeaderSize + 1) + 1 ELSE 0
        /\ \A i \in 1 .. size - (HeaderSize + 1) + 1 : v[i] = toJvm[HeaderSize + 1 + i - 1]
    BY <2>1, <2>2, <2>3, <2>4, SubSeqProperties
  <2>7. /\ w \in Seq(Byte) /\ Len(w) = IF HeaderSize + 1 <= size THEN size - (HeaderSize + 1) + 1 ELSE 0
        /\ \A i \in 1 .. size - (HeaderSize + 1) + 1 : w[i] = u[HeaderSize + 1 + i - 1]
    BY <2>1, <2>4, <2>5, SubSeqProperties
  <2> HIDE DEF v, w
  <2>8. \A i \in 1 .. Len(v) : v[i] = w[i]
    <3>1. \A i \in 1 .. size - (HeaderSize + 1) + 1 : HeaderSize + 1 + i - 1 \in 1 .. size
      BY <2>4 DEF HeaderSize
    <3>2. \A i \in 1 .. Len(v) : i \in 1 .. size - (HeaderSize + 1) + 1
      BY <2>4, <2>6 DEF HeaderSize
    <3> QED BY <2>5, <2>6, <2>7, <3>1, <3>2
  <2>9. v = w
    BY <2>6, <2>7, <2>8, SeqEqual
  <2> QED BY <1>4, <2>5, <2>9 DEF u, v, w, Pre, Suf
<1>7. P(toJvm[1], Suf(Pre(toJvm, size), HeaderSize)) \in ReadPacket
  BY <1>2, <1>5 DEF P, ReadPacket, Str
<1>8. /\ jvmGot' = Append(jvmGot, P(toJvm[1], SubSeq(toJvm, HeaderSize + 1, size)))
      /\ toJvm' = SubSeq(toJvm, size + 1, Len(toJvm))
  BY DEF JRead
<1> QED BY <1>2, <1>3, <1>4, <1>6, <1>7, <1>8 DEF Suf

\* A step keeps the types.
LEMMA TypesNext ==
  ASSUME Types, [Next]_vars
  PROVE  Types'
<1>0. FlagsOK /\ BufsOK /\ RdOK /\ HistOK
  BY DEF Types
<1>f. ASSUME UNCHANGED <<mode, open, reset, ack, result>> PROVE FlagsOK'
  BY <1>0, <1>f DEF FlagsOK
<1>b. ASSUME UNCHANGED <<writeBuf, readBuf, toJvm, toApache>> PROVE BufsOK'
  BY <1>0, <1>b DEF BufsOK
<1>r. ASSUME UNCHANGED rd PROVE RdOK'
  BY <1>0, <1>r DEF RdOK
<1>h. ASSUME UNCHANGED <<written, answer, got, jvmGot>>, mode' = "data" => mode = "data"
      PROVE  HistOK'
  BY <1>0, <1>h DEF HistOK
<1>g. ASSUME UNCHANGED <<written, answer, jvmGot>>, mode' = "data" => mode = "data",
             NEW p \in ReadPacket, got' = Append(got, p)
      PROVE  HistOK'
  BY <1>0, <1>g, AppendProperties DEF HistOK
<1>1. ASSUME NEW p \in Packet, WritePacket(p) PROVE Types'
  <2>1. Str(Header(p)) /\ Write(Header(p))
    BY <1>1, HeaderIs DEF WritePacket
  <2>2. FlagsOK'
    BY <1>0, <1>1, <2>1, WriteDoes DEF WritePacket, FlagsOK, reader
  <2>3. BufsOK'
    BY <1>0, <1>1, <2>1, WriteDoes DEF WritePacket, BufsOK
  <2>4. HistOK'
    BY <1>0, <1>1, AppendProperties DEF WritePacket, HistOK, reader, jvm
  <2> QED BY <1>1, <1>r, <2>2, <2>3, <2>4 DEF WritePacket, reader, Types
<1>2. ASSUME WriteData PROVE Types'
  <2>1. Str(Last(written).data) /\ Write(Last(written).data)
    <3>1. written \in Seq(Packet) /\ written # <<>>
      BY <1>0, <1>2 DEF WriteData, HistOK
    <3>2. Last(written) \in Packet
      BY <3>1, EmptySeq, ElementOfSeq DEF Last
    <3> QED BY <1>2, <3>2, HeaderIs DEF WriteData
  <2>2. mode' \in {"read", "post", "env"} /\ ack' \in {CSE_ACK, CSE_END}
    BY <1>0, <1>2 DEF WriteData, FlagsOK
  <2>3. FlagsOK'
    BY <1>0, <1>2, <2>1, <2>2, WriteDoes DEF WriteData, FlagsOK
  <2>4. BufsOK'
    BY <1>0, <1>2, <2>1, WriteDoes DEF WriteData, BufsOK
  <2> QED BY <1>2, <1>r, <1>h, <2>2, <2>3, <2>4 DEF WriteData, Types, jvm
<1>3. ASSUME AwaitAck PROVE Types'
  <2>1. FlagsOK'
    BY <1>0, <1>3 DEF AwaitAck, FlagsOK
  <2> QED BY <1>3, <1>b, <1>r, <1>h, <2>1 DEF AwaitAck, Types, jvm
<1>4. ASSUME Flush PROVE Types'
  <2>1. toJvm' = Cat(toJvm, writeBuf) /\ writeBuf' = <<>>
    BY <1>4 DEF Flush, Sends, Cat
  <2>2. BufsOK'
    BY <1>0, <1>4, <2>1, StrCat, StrEmpty, Sizes DEF Flush, BufsOK, HeaderSize
  <2> QED BY <1>4, <1>f, <1>r, <1>h, <2>2 DEF Flush, Types, reader, jvm
<1>5. ASSUME Recv PROVE Types'
  <2>1. PICK k \in 1 .. Len(toApache) :
          /\ k <= BufLength
          /\ readBuf' = Pre(toApache, k) /\ toApache' = Suf(toApache, k)
    BY <1>5 DEF Recv, Pre, Suf
  <2>2. k \in 0 .. Len(toApache) /\ Str(toApache)
    BY <1>0 DEF BufsOK
  <2>3. BufsOK'
    BY <1>0, <1>5, <2>1, <2>2, CutAt DEF Recv, BufsOK
  <2> QED BY <1>5, <1>f, <1>r, <1>h, <2>3 DEF Recv, Types, reader, jvm
<1>6. ASSUME Take PROVE Types'
  <2>1. PICK b, r :
           /\ Str(b) /\ Str(r) /\ readBuf = Cat(b, r) /\ readBuf' = r
           /\ Len(b) \in Nat \ {0} /\ Len(r) <= BufLength
           /\ Len(rd.hdr) = HeaderSize =>
                /\ Len(b) <= rd.need
                /\ rd' = [field |-> rd.field, key |-> rd.key, hdr |-> rd.hdr,
                          need |-> rd.need - Len(b), text |-> Cat(rd.text, b)]
           /\ Len(rd.hdr) < HeaderSize =>
                /\ Len(Cat(rd.hdr, b)) <= HeaderSize
                /\ rd' = [field |-> rd.field, key |-> rd.key, hdr |-> Cat(rd.hdr, b),
                          need |-> IF Len(Cat(rd.hdr, b)) < HeaderSize THEN 0
                                   ELSE Needs(Cat(rd.hdr, b)),
                          text |-> rd.text]
    BY <1>6, TakeDoes
  <2>2. BufsOK'
    BY <1>0, <1>6, <2>1 DEF Take, BufsOK
  <2>3. RdOK'
    <3>1. Str(Cat(rd.hdr, b)) /\ Str(Cat(rd.text, b))
      BY <1>0, <2>1, StrCat DEF RdOK
    <3>2. CASE Len(rd.hdr) = HeaderSize
      <4>1. rd.need - Len(b) \in Nat
        BY <1>0, <2>1, <3>2 DEF RdOK
      <4> QED BY <1>0, <2>1, <3>1, <3>2, <4>1 DEF RdOK
    <3>3. CASE Len(rd.hdr) < HeaderSize
      <4> DEFINE h == Cat(rd.hdr, b)
      <4>1. Len(h) \in Nat /\ Len(h) <= HeaderSize
        BY <2>1, <3>1, <3>3, StrLen
      <4>2. Len(h) = HeaderSize => Needs(h) \in Nat
        <5> SUFFICES ASSUME Len(h) = HeaderSize PROVE Needs(h) \in Nat
          OBVIOUS
        <5>1. Length(h) \in Nat
          BY <3>1, <4>1, LengthIs
        <5> HIDE DEF h
        <5> QED BY <5>1, Sizes DEF Needs, ReadLimit
      <4>3. rd' = [field |-> rd.field, key |-> rd.key, hdr |-> h,
                   need |-> IF Len(h) < HeaderSize THEN 0 ELSE Needs(h),
                   text |-> rd.text]
        BY <2>1, <3>3
      <4>4. rd.text = <<>>
        BY <1>0, <3>3 DEF RdOK
      <4>5. Str(h)
        BY <3>1
      <4> HIDE DEF h
      <4>6. (IF Len(h) < HeaderSize THEN 0 ELSE Needs(h)) \in Nat
        BY <4>1, <4>2, HeaderOrPart
      <4> QED BY <1>0, <4>1, <4>3, <4>4, <4>5, <4>6 DEF RdOK
    <3>4. Len(rd.hdr) = HeaderSize \/ Len(rd.hdr) < HeaderSize
      <4>1. Len(rd.hdr) \in Nat /\ Len(rd.hdr) <= HeaderSize
        BY <1>0, StrLen DEF RdOK
      <4> QED BY <4>1, HeaderOrPart
    <3> QED BY <3>2, <3>3, <3>4
  <2> QED BY <1>6, <1>f, <1>h, <2>2, <2>3 DEF Take, Types, jvm
<1>7. ASSUME HeaderKey PROVE Types'
  <2>1. RdOK'
    BY <1>0, <1>7, StartOK DEF HeaderKey, RdOK
  <2>2. P(rd.hdr[1], rd.text) \in ReadPacket
    BY <1>7, WholeIs DEF HeaderKey
  <2> QED BY <1>7, <1>f, <1>b, <1>g, <2>1, <2>2 DEF HeaderKey, Packed, Types, jvm
<1>8. ASSUME HeaderValue PROVE Types'
  <2>1. RdOK'
    BY <1>8, StartOK, StrEmpty DEF HeaderValue
  <2>2. P(rd.hdr[1], rd.text) \in ReadPacket
    BY <1>8, WholeIs DEF HeaderValue
  <2> QED BY <1>8, <1>f, <1>b, <1>g, <2>1, <2>2 DEF HeaderValue, Packed, Types, jvm
<1>9. ASSUME Other PROVE Types'
  <2>1. RdOK'
    BY <1>9, StartOK, StrEmpty DEF Other
  <2>2. P(rd.hdr[1], rd.text) \in ReadPacket
    BY <1>9, WholeIs DEF Other
  <2> QED BY <1>9, <1>f, <1>b, <1>g, <2>1, <2>2 DEF Other, Packed, Types, jvm
<1>10. ASSUME End PROVE Types'
  <2>1. P(rd.hdr[1], rd.text) \in ReadPacket
    BY <1>10, WholeIs DEF End
  <2>2. RdOK' /\ mode' \in {"done", "end", "block"} /\ ack' = ack
        /\ result' \in {Failed, CSE_ACK, CSE_END, CSE_CLOSE}
    <3>1. rd.hdr[1] \in {Failed, CSE_END, CSE_CLOSE, ack} /\ Return(rd.hdr[1])
      BY <1>10 DEF End, Ends
    <3> QED BY <3>1, ReturnDoes
  <2>3. FlagsOK'
    BY <1>0, <1>10, <2>2 DEF End, FlagsOK
  <2>4. HistOK'
    <3>1. UNCHANGED <<written, answer, jvmGot>> /\ got' = Append(got, P(rd.hdr[1], rd.text))
      BY <1>10 DEF End, Packed, jvm
    <3> QED BY <1>g, <2>1, <2>2, <3>1
  <2> QED BY <1>10, <1>b, <2>2, <2>3, <2>4 DEF End, Types
<1>11. ASSUME open' \in BOOLEAN, NEW code, code \in {Failed, CSE_END, CSE_CLOSE, ack},
              Return(code),
              UNCHANGED <<written, writeBuf, readBuf, got, toJvm, toApache, reset, jvm>>
       PROVE  Types'
  <2>1. RdOK' /\ mode' \in {"done", "end", "block"} /\ ack' = ack
        /\ result' \in {Failed, CSE_ACK, CSE_END, CSE_CLOSE}
    BY <1>11, ReturnDoes
  <2>2. FlagsOK'
    BY <1>0, <1>11, <2>1 DEF FlagsOK
  <2> QED BY <1>11, <1>b, <1>h, <2>1, <2>2 DEF Types, jvm
<1>12. CASE EndOfFile
  <2>1. open' \in BOOLEAN
    BY <1>12 DEF EndOfFile
  <2>2. PICK code \in {Failed, CSE_END, CSE_CLOSE, ack} : ReadFails(code)
    BY <1>12 DEF EndOfFile, Ends
  <2> QED BY <1>11, <2>1, <2>2 DEF ReadFails
<1>13. CASE FlushFail
  <2>1. open' \in BOOLEAN
    BY <1>0, <1>13 DEF FlushFail, FlagsOK
  <2>2. PICK code \in {Failed, CSE_END, CSE_CLOSE, ack} : ReadFails(code)
    BY <1>13 DEF FlushFail, Ends
  <2> QED BY <1>11, <2>1, <2>2 DEF ReadFails
<1>14. CASE FlushCrash
  <2>1. FlagsOK'
    BY <1>0, <1>14 DEF FlushCrash, FlagsOK, reader
  <2> QED BY <1>14, <1>b, <1>r, <1>h, <2>1 DEF FlushCrash, Types, reader, jvm
<1>15. CASE ReadClosed
  <2>1. RdOK' /\ mode' \in {"done", "end", "block"} /\ ack' = ack
        /\ result' \in {Failed, CSE_ACK, CSE_END, CSE_CLOSE}
    BY <1>15, ReturnDoes DEF ReadClosed
  <2>2. FlagsOK'
    BY <1>0, <1>15, <2>1 DEF ReadClosed, FlagsOK
  <2>3. Str(readBuf') /\ Len(readBuf') <= BufLength
    <3>1. Str(readBuf) /\ Len(readBuf) \in Nat /\ Len(readBuf) <= BufLength
      BY <1>0, StrLen DEF BufsOK
    <3>2. readBuf' = Suf(readBuf, HeaderSize)
      BY <1>15 DEF ReadClosed, Suf
    <3>3. CASE HeaderSize <= Len(readBuf)
      <4>1. HeaderSize \in 0 .. Len(readBuf)
        BY <3>1, <3>3 DEF HeaderSize
      <4>2. Str(Suf(readBuf, HeaderSize))
            /\ Len(Suf(readBuf, HeaderSize)) = Len(readBuf) - HeaderSize
        BY <3>1, <4>1, CutAt
      <4> QED BY <3>1, <3>2, <4>2, Sizes DEF HeaderSize
    <3>4. CASE ~(HeaderSize <= Len(readBuf))
      <4>1. HeaderSize + 1 \in Int /\ Len(readBuf) \in Int /\ Len(readBuf) < HeaderSize + 1
        BY <3>1, <3>4 DEF HeaderSize
      <4>2. Suf(readBuf, HeaderSize) = <<>>
        BY <4>1, SubSeqEmpty DEF Suf
      <4>3. 0 <= BufLength
        BY Sizes
      <4> QED BY <3>2, <4>2, <4>3, StrEmpty
    <3> QED BY <3>3, <3>4
  <2>4. BufsOK'
    BY <1>0, <1>15, <2>3 DEF ReadClosed, BufsOK
  <2> QED BY <1>15, <1>h, <2>1, <2>2, <2>4 DEF ReadClosed, Types, jvm
<1>16. CASE BrowserGone
  BY <1>11, <1>16 DEF BrowserGone
<1>17. CASE JRead
  <2>1. Str(toJvm') /\ \E p \in ReadPacket : jvmGot' = Append(jvmGot, p)
    BY <1>17, JReadDoes
  <2>2. BufsOK'
    BY <1>0, <1>17, <2>1 DEF JRead, BufsOK
  <2>3. HistOK'
    BY <1>0, <1>17, <2>1, AppendProperties DEF JRead, HistOK, reader
  <2> QED BY <1>17, <1>f, <1>r, <2>2, <2>3 DEF JRead, Types, reader
<1>18. CASE Reset
  <2>1. BufsOK'
    BY <1>0, <1>18, StrEmpty DEF Reset, BufsOK
  <2>2. FlagsOK'
    BY <1>0, <1>18 DEF Reset, FlagsOK, reader
  <2> QED BY <1>18, <1>r, <1>h, <2>1, <2>2 DEF Reset, Types, reader, jvm
<1>19. ASSUME NEW p \in Packet, JAnswer(p) PROVE Types'
  <2>1. toApache' = Cat(Cat(toApache, Header(p)), p.data)
    BY <1>19 DEF JAnswer, Cat
  <2>2. BufsOK'
    BY <1>0, <1>19, <2>1, HeaderIs, StrCat DEF JAnswer, BufsOK
  <2>3. HistOK'
    BY <1>0, <1>19, AppendProperties DEF JAnswer, HistOK, reader
  <2> QED BY <1>19, <1>f, <1>r, <2>2, <2>3 DEF JAnswer, Types, reader
<1>20. CASE UNCHANGED vars
  BY <1>20, <1>f, <1>b, <1>r, <1>h DEF vars, reader, jvm, Types
<1>21. CASE Next
  BY <1>21, <1>1, <1>2, <1>3, <1>4, <1>5, <1>6, <1>7, <1>8, <1>9, <1>10, <1>12, <1>13,
     <1>14, <1>15, <1>16, <1>17, <1>18, <1>19, <1>20, Steps DEF Finished
<1> QED BY <1>20, <1>21

\* The buffers of a stream never hold more than BUF_LENGTH bytes, however long the
\* data of a packet is, and send_data returns one of the codes that its callers
\* test for.
THEOREM StreamTypes == Spec => []TypeOK
<1>1. Init => Types
  BY TypesInit
<1>2. Types /\ [Next]_vars => Types'
  BY TypesNext
<1>3. Types => TypeOK
  BY TypesImply
<1> QED BY <1>1, <1>2, <1>3, PTL DEF Spec

-----------------------------------------------------------------------------
(* From the JVM to send_data.                                               *)

\* Only headers, values and blocks of data have data; a value is behind its
\* header, and nothing is behind the end.
AnswerOK ==
  \A i \in 1 .. Len(answer) :
    /\ answer[i].code \in {CSE_HEADER, CSE_VALUE, CSE_DATA} \/ answer[i].data = <<>>
    /\ answer[i].code \in {CSE_END, CSE_CLOSE} => i = Len(answer)
    /\ i < Len(answer) /\ answer[i].code = CSE_HEADER => answer[i + 1].code = CSE_VALUE

GotOK == Len(got) <= Len(answer) /\ \A i \in 1 .. Len(got) : got[i] = answer[i]

\* All that send_data has of the packet it reads, all that is behind it on the way,
\* and what a reset lost, are the packets of the answer that are not read.
Back(lost) == Cat(rd.hdr, Cat(rd.text, Cat(readBuf, Cat(toApache, lost))))
BackOK ==
  open => \E lost : /\ Str(lost) /\ (reset \/ lost = <<>>)
                    /\ Carries(Back(lost), answer, Len(got), Len(answer))

\* Behind a header send_data knows how much it still needs.
NeedOK ==
  open /\ Len(rd.hdr) = HeaderSize => Len(rd.text) + rd.need = Length(rd.hdr)

ResetOK == reset => toApache = <<>>

InInv == AnswerOK /\ GotOK /\ BackOK /\ NeedOK /\ ResetOK

\* The first bytes of packets are those of the first header.
LEMMA FirstHeader ==
  ASSUME NEW ps \in Seq(Packet), NEW n \in Nat, n <= Len(ps),
         NEW h, NEW x, Str(h), Str(x), h # <<>>, Len(h) <= HeaderSize,
         Carries(Cat(h, x), ps, n, Len(ps))
  PROVE  /\ n < Len(ps) /\ ps[n + 1] \in Packet /\ h[1] = ps[n + 1].code
         /\ Len(h) = HeaderSize =>
              /\ h = Header(ps[n + 1])
              /\ \E r : /\ Str(r) /\ x = Cat(ps[n + 1].data, r)
                        /\ Carries(r, ps, n + 1, Len(ps))
<1>0. Len(ps) \in Nat /\ Len(h) \in Nat \ {0} /\ Len(x) \in Nat
  BY LenProperties, StrLen
<1>1. n < Len(ps)
  <2> SUFFICES ASSUME n = Len(ps) PROVE FALSE
    BY <1>0
  <2>1. Cat(h, x) = <<>>
    BY CarriesNothing
  <2>2. Len(Cat(h, x)) = Len(h) + Len(x)
    BY StrCat
  <2> QED BY <1>0, <2>1, <2>2, StrEmpty
<1>2. PICK r : Str(r) /\ Cat(h, x) = Cat(Bytes(ps[n + 1]), r) /\ Carries(r, ps, n + 1, Len(ps))
  BY <1>0, <1>1, CarriesFirst
<1>3. ps[n + 1] \in Packet
  <2>1. n + 1 \in 1 .. Len(ps)
    BY <1>0, <1>1
  <2> QED BY <2>1, ElementOfSeq
<1> DEFINE p == ps[n + 1]
           hp == Header(p)
<1>4. /\ Str(hp) /\ Len(hp) = HeaderSize /\ hp[1] = p.code /\ Str(p.data)
  BY <1>3, HeaderIs
<1>5. Cat(h, x) = Cat(hp, Cat(p.data, r)) /\ Str(Cat(p.data, r))
  BY <1>2, <1>4, StrAssoc, StrCat DEF Bytes
<1> HIDE DEF hp, p
<1>6. h[1] = hp[1]
  <2>1. 1 \in 1 .. Len(h) /\ 1 \in 1 .. Len(hp)
    BY <1>0, <1>4 DEF HeaderSize
  <2>2. Cat(h, x)[1] = h[1] /\ Cat(hp, Cat(p.data, r))[1] = hp[1]
    BY <1>4, <1>5, <2>1, StrFirst
  <2> QED BY <1>5, <2>2
<1>7. ASSUME Len(h) = HeaderSize PROVE h = hp /\ x = Cat(p.data, r)
  BY <1>4, <1>5, <1>7, SameStart
<1> QED BY <1>1, <1>2, <1>3, <1>4, <1>6, <1>7 DEF hp, p

\* All that is behind a header.
LEMMA BehindStr ==
  ASSUME Types, NEW lost, Str(lost)
  PROVE  /\ Str(Cat(toApache, lost)) /\ Str(Cat(readBuf, Cat(toApache, lost)))
         /\ Str(Cat(rd.text, Cat(readBuf, Cat(toApache, lost))))
<1>1. Str(toApache) /\ Str(readBuf) /\ Str(rd.text)
  BY DEF Types, BufsOK, RdOK
<1>2. Str(Cat(toApache, lost))
  BY <1>1, CatStr
<1>3. Str(Cat(readBuf, Cat(toApache, lost)))
  BY <1>1, <1>2, CatStr
<1> QED BY <1>1, <1>2, <1>3, CatStr

\* So it is with what send_data reads.
LEMMA ReadingFirst ==
  ASSUME Types, InInv, open, rd.hdr # <<>>
  PROVE  /\ Len(got) < Len(answer) /\ rd.hdr[1] = answer[Len(got) + 1].code
         /\ Len(rd.hdr) = HeaderSize => rd.hdr = Header(answer[Len(got) + 1])
<1>1. PICK lost : /\ Str(lost) /\ (reset \/ lost = <<>>)
                  /\ Carries(Back(lost), answer, Len(got), Len(answer))
  BY DEF InInv, BackOK
<1>2. /\ answer \in Seq(Packet) /\ Len(got) \in Nat /\ Len(got) <= Len(answer)
      /\ Str(rd.hdr) /\ Len(rd.hdr) <= HeaderSize
  BY LenProperties DEF Types, HistOK, RdOK, InInv, GotOK
<1>3. Str(Cat(rd.text, Cat(readBuf, Cat(toApache, lost))))
  BY <1>1, BehindStr
<1> QED BY <1>1, <1>2, <1>3, FirstHeader DEF Back

\* A packet that send_data has read whole is the next of the answer.
LEMMA WholeDoes ==
  ASSUME Types, InInv, Whole, got' = Packed, rd'.hdr = <<>>, rd'.text = <<>>,
         UNCHANGED <<open, readBuf, toApache, answer, reset>>
  PROVE  /\ Len(got) < Len(answer)
         /\ P(rd.hdr[1], rd.text) = answer[Len(got) + 1]
         /\ InInv'
<1>1. PICK lost : /\ Str(lost) /\ (reset \/ lost = <<>>)
                  /\ Carries(Back(lost), answer, Len(got), Len(answer))
  BY DEF InInv, BackOK, Whole
<1>2. /\ answer \in Seq(Packet) /\ Len(got) \in Nat /\ Len(answer) \in Nat
      /\ Len(got) <= Len(answer)
      /\ Str(rd.hdr) /\ Str(rd.text) /\ Str(readBuf) /\ Str(toApache)
      /\ Len(rd.hdr) = HeaderSize /\ rd.need = 0 /\ got \in Seq(ReadPacket)
      /\ P(rd.hdr[1], rd.text) \in ReadPacket
  BY LenProperties, WholeIs DEF Types, HistOK, BufsOK, RdOK, InInv, GotOK
<1> DEFINE x == Cat(rd.text, Cat(readBuf, Cat(toApache, lost)))
           p == answer[Len(got) + 1]
           rest == Cat(readBuf, Cat(toApache, lost))
<1>3. Str(x) /\ Str(rest)
  BY <1>1, BehindStr
<1>4. rd.hdr # <<>>
  BY <1>2, StrEmpty DEF HeaderSize
<1>5. Carries(Cat(rd.hdr, x), answer, Len(got), Len(answer))
  BY <1>1 DEF Back
<1> HIDE DEF x, p, rest
<1>6. /\ Len(got) < Len(answer) /\ p \in Packet /\ rd.hdr[1] = p.code
      /\ rd.hdr = Header(p)
      /\ \E r : Str(r) /\ x = Cat(p.data, r) /\ Carries(r, answer, Len(got) + 1, Len(answer))
  <2>1. Len(rd.hdr) <= HeaderSize
    BY <1>2 DEF HeaderSize
  <2> QED BY <1>2, <1>3, <1>4, <1>5, <2>1, FirstHeader DEF p
<1> PICK r : Str(r) /\ x = Cat(p.data, r) /\ Carries(r, answer, Len(got) + 1, Len(answer))
  BY <1>6
<1>7. Len(rd.text) = Len(p.data) /\ Str(p.data)
  <2>1. Len(rd.text) + rd.need = Length(rd.hdr)
    BY <1>2 DEF InInv, NeedOK, Whole
  <2>2. Length(rd.hdr) = Len(p.data) /\ Str(p.data)
    BY <1>6, HeaderIs
  <2>3. Len(rd.text) \in Nat
    BY <1>2, StrLen
  <2> QED BY <1>2, <2>1, <2>2, <2>3
<1>8. rd.text = p.data /\ rest = r
  <2>1. Cat(rd.text, rest) = Cat(p.data, r)
    BY DEF x, rest
  <2> QED BY <1>2, <1>3, <1>7, <2>1, SameStart
<1>9. P(rd.hdr[1], rd.text) = p
  BY <1>6, <1>8 DEF P, Packet
<1>10. got' = Append(got, p) /\ Len(got') = Len(got) + 1 /\ got'[Len(got) + 1] = p
       /\ \A i \in 1 .. Len(got) : got'[i] = got[i]
  <2>1. got' = Append(got, P(rd.hdr[1], rd.text))
    BY DEF Packed
  <2> QED BY <1>2, <1>9, <2>1, AppendProperties
<1>11. AnswerOK'
  BY DEF InInv, AnswerOK
<1>12. GotOK'
  <2>1. Len(got') <= Len(answer')
    BY <1>2, <1>6, <1>10
  <2>2. ASSUME NEW i \in 1 .. Len(got') PROVE got'[i] = answer'[i]
    <3>1. i \in 1 .. Len(got) \/ i = Len(got) + 1
      BY <1>2, <1>10
    <3> QED BY <1>10, <3>1 DEF InInv, GotOK, p
  <2> QED BY <2>1, <2>2 DEF GotOK
<1>13. BackOK'
  <2>1. Back(lost)' = r
    <3>1. Back(lost)' = Cat(<<>>, Cat(<<>>, rest))
      BY DEF Back, rest
    <3> QED BY <1>3, <1>8, <3>1, StrNothing
  <2>2. Carries(Back(lost)', answer', Len(got'), Len(answer'))
    BY <1>10, <2>1
  <2> QED BY <1>1, <2>2 DEF BackOK
<1>14. NeedOK'
  BY StrEmpty DEF NeedOK, HeaderSize
<1> QED BY <1>6, <1>9, <1>11, <1>12, <1>13, <1>14 DEF p, InInv, ResetOK

LEMMA InInit == Init => InInv
<1> SUFFICES ASSUME Init PROVE InInv
  OBVIOUS
<1>1. Len(answer) = 0 /\ Len(got) = 0 /\ answer = <<>>
  BY StrEmpty DEF Init
<1>2. Back(<<>>) = <<>>
  <2>1. Back(<<>>) = Cat(<<>>, Cat(<<>>, Cat(<<>>, Cat(<<>>, <<>>))))
    BY DEF Init, Back, Start
  <2> QED BY <2>1, StrEmpty, StrNothing
<1>3. Carries(Back(<<>>), answer, Len(got), Len(answer))
  BY <1>1, <1>2, CarriesNothing
<1>4. AnswerOK /\ GotOK
  BY <1>1 DEF AnswerOK, GotOK
<1>5. BackOK
  BY <1>3, StrEmpty DEF BackOK
<1>6. NeedOK /\ ResetOK
  BY StrEmpty DEF NeedOK, ResetOK, Init, Start, HeaderSize
<1> QED BY <1>4, <1>5, <1>6 DEF InInv

\* Steps that leave this direction alone, if they do not close the stream.
LEMMA InFrame ==
  ASSUME InInv, UNCHANGED <<rd, readBuf, toApache, answer, got, reset>>, open' => open
  PROVE  InInv'
<1>1. AnswerOK' /\ GotOK' /\ ResetOK'
  BY DEF InInv, AnswerOK, GotOK, ResetOK
<1>2. NeedOK'
  BY DEF InInv, NeedOK
<1>3. \A lost : Back(lost)' = Back(lost)
  BY DEF Back
<1>4. BackOK'
  BY <1>3 DEF InInv, BackOK
<1> QED BY <1>1, <1>2, <1>4 DEF InInv

\* Steps that close the stream, or find it closed.
LEMMA InClosed ==
  ASSUME InInv, UNCHANGED <<toApache, answer, got, reset>>, ~open'
  PROVE  InInv'
<1>1. AnswerOK' /\ GotOK' /\ ResetOK'
  BY DEF InInv, AnswerOK, GotOK, ResetOK
<1> QED BY <1>1 DEF InInv, NeedOK, BackOK

\* A send or a flush that fails leaves an open stream only if it was open.
LEMMA WriteOpen ==
  ASSUME NEW b, Write(b), open'
  PROVE  open
  BY DEF Write, CanSend

\* recv: any part of what has arrived moves to the buffer.
LEMMA RecvIn ==
  ASSUME Types, InInv, Recv
  PROVE  InInv'
<1>1. PICK k \in 1 .. Len(toApache) :
        /\ k <= BufLength
        /\ readBuf' = Pre(toApache, k) /\ toApache' = Suf(toApache, k)
  BY DEF Recv, Pre, Suf
<1>2. /\ readBuf = <<>> /\ open
      /\ UNCHANGED <<rd, answer, got, open, reset>>
  BY DEF Recv, Starved, reader, jvm
<1>3. Str(toApache) /\ k \in 0 .. Len(toApache)
  BY DEF Types, BufsOK
<1>4. Str(Pre(toApache, k)) /\ Str(Suf(toApache, k))
      /\ Cat(Pre(toApache, k), Suf(toApache, k)) = toApache
  BY <1>3, CutAt
<1>5. PICK lost : /\ Str(lost) /\ (reset \/ lost = <<>>)
                  /\ Carries(Back(lost), answer, Len(got), Len(answer))
  BY <1>2 DEF InInv, BackOK
<1>6. Back(lost)' = Back(lost)
  <2>1. Cat(readBuf', Cat(toApache', lost)) = Cat(toApache, lost)
    BY <1>1, <1>4, <1>5, StrAssoc
  <2>2. Cat(readBuf, Cat(toApache, lost)) = Cat(toApache, lost)
    BY <1>2, <1>5, BehindStr, StrNothing
  <2> QED BY <1>2, <2>1, <2>2 DEF Back
<1>7. BackOK'
  BY <1>2, <1>5, <1>6 DEF BackOK
<1>8. AnswerOK' /\ GotOK' /\ NeedOK'
  BY <1>2 DEF InInv, AnswerOK, GotOK, NeedOK
<1>9. ResetOK'
  <2>1. reset => toApache = <<>> /\ Len(toApache) = 0
    BY StrEmpty DEF InInv, ResetOK
  <2>2. Len(toApache) # 0
    BY <1>1
  <2> QED BY <1>2, <2>1, <2>2 DEF ResetOK
<1> QED BY <1>7, <1>8, <1>9 DEF InInv

\* cse_read_byte, cse_read_all and the others take a part of the buffer.
LEMMA TakeIn ==
  ASSUME Types, InInv, Take
  PROVE  InInv'
<1>1. PICK b, r :
           /\ Str(b) /\ Str(r) /\ readBuf = Cat(b, r) /\ readBuf' = r
           /\ Len(b) \in Nat \ {0} /\ Len(r) <= BufLength
           /\ Len(rd.hdr) = HeaderSize =>
                /\ Len(b) <= rd.need
                /\ rd' = [field |-> rd.field, key |-> rd.key, hdr |-> rd.hdr,
                          need |-> rd.need - Len(b), text |-> Cat(rd.text, b)]
           /\ Len(rd.hdr) < HeaderSize =>
                /\ Len(Cat(rd.hdr, b)) <= HeaderSize
                /\ rd' = [field |-> rd.field, key |-> rd.key, hdr |-> Cat(rd.hdr, b),
                          need |-> IF Len(Cat(rd.hdr, b)) < HeaderSize THEN 0
                                   ELSE Needs(Cat(rd.hdr, b)),
                          text |-> rd.text]
  BY TakeDoes
<1>2. open /\ UNCHANGED <<open, toApache, answer, got, reset>>
  BY DEF Take, jvm
<1>3. /\ Str(rd.hdr) /\ Str(rd.text) /\ Str(toApache)
      /\ Len(rd.hdr) \in Nat /\ Len(rd.hdr) <= HeaderSize
      /\ Len(rd.text) \in Nat /\ rd.need \in Nat
      /\ Len(rd.hdr) < HeaderSize => rd.need = 0 /\ rd.text = <<>>
      /\ answer \in Seq(Packet) /\ Len(got) \in Nat /\ Len(got) <= Len(answer)
  BY StrLen, LenProperties DEF Types, RdOK, BufsOK, HistOK, InInv, GotOK
<1>4. PICK lost : /\ Str(lost) /\ (reset \/ lost = <<>>)
                  /\ Carries(Back(lost), answer, Len(got), Len(answer))
  BY <1>2 DEF InInv, BackOK
<1> DEFINE t == Cat(toApache, lost)
<1>5. Str(t) /\ Str(Cat(r, t)) /\ Str(Cat(b, Cat(r, t)))
  BY <1>1, <1>3, <1>4, CatStr
<1>6. Cat(readBuf, t) = Cat(b, Cat(r, t))
  BY <1>1, <1>5, StrAssoc
<1>7. Back(lost) = Cat(rd.hdr, Cat(rd.text, Cat(b, Cat(r, t))))
  BY <1>6 DEF Back
<1> HIDE DEF t
<1>8. AnswerOK' /\ GotOK' /\ ResetOK'
  BY <1>2 DEF InInv, AnswerOK, GotOK, ResetOK
<1>9. CASE Len(rd.hdr) = HeaderSize
  <2>1. rd'.hdr = rd.hdr /\ rd'.text = Cat(rd.text, b) /\ rd'.need = rd.need - Len(b)
    BY <1>1, <1>9
  <2>2. Back(lost)' = Back(lost)
    <3>1. Back(lost)' = Cat(rd.hdr, Cat(Cat(rd.text, b), Cat(r, t)))
      BY <1>1, <1>2, <2>1 DEF Back, t
    <3>2. Cat(Cat(rd.text, b), Cat(r, t)) = Cat(rd.text, Cat(b, Cat(r, t)))
      BY <1>1, <1>3, <1>5, StrAssoc
    <3> QED BY <1>7, <3>1, <3>2
  <2>3. BackOK'
    BY <1>2, <1>4, <2>2 DEF BackOK
  <2>4. NeedOK'
    <3>1. Len(rd.text) + rd.need = Length(rd.hdr)
      BY <1>2, <1>9 DEF InInv, NeedOK
    <3>2. Len(Cat(rd.text, b)) = Len(rd.text) + Len(b)
      BY <1>1, <1>3, StrCat
    <3>3. Len(Cat(rd.text, b)) + (rd.need - Len(b)) = Length(rd.hdr)
      BY <1>1, <1>3, <3>1, <3>2
    <3> QED BY <2>1, <3>3 DEF NeedOK
  <2> QED BY <1>8, <2>3, <2>4 DEF InInv
<1>10. CASE Len(rd.hdr) < HeaderSize
  <2> DEFINE h == Cat(rd.hdr, b)
  <2>1. /\ rd'.hdr = h /\ rd'.text = <<>> /\ rd'.field = rd.field
        /\ rd'.need = IF Len(h) < HeaderSize THEN 0 ELSE Needs(h)
        /\ Len(h) <= HeaderSize
    BY <1>1, <1>3, <1>10
  <2>2. Str(h) /\ Len(h) \in Nat \ {0}
    BY <1>1, <1>3, StrCat
  <2>3. Back(lost)' = Cat(h, Cat(r, t)) /\ Back(lost) = Cat(h, Cat(r, t))
    <3>1. Back(lost)' = Cat(h, Cat(<<>>, Cat(r, t)))
      BY <1>1, <1>2, <2>1 DEF Back, t
    <3>2. Back(lost) = Cat(rd.hdr, Cat(<<>>, Cat(b, Cat(r, t))))
      BY <1>3, <1>7, <1>10
    <3>3. Cat(rd.hdr, Cat(b, Cat(r, t))) = Cat(h, Cat(r, t))
      BY <1>1, <1>3, <1>5, StrAssoc
    <3> HIDE DEF h
    <3> QED BY <1>5, <3>1, <3>2, <3>3, StrNothing
  <2>4. BackOK'
    BY <1>2, <1>4, <2>3 DEF BackOK
  <2>5. NeedOK'
    <3> SUFFICES ASSUME Len(h) = HeaderSize PROVE Needs(h) = Length(h)
      <4>1. Len(h) = HeaderSize => ~(Len(h) < HeaderSize)
        BY <2>2, HeaderOrPart, <2>1
      <4>2. Len(h) = HeaderSize => Length(h) \in Nat
        BY <2>2, LengthIs, HeaderOrPart DEF HeaderSize
      <4> HIDE DEF h
      <4> QED BY <2>1, <4>1, <4>2, StrEmpty DEF NeedOK
    <3>1. Length(h) \in Nat
      <4>1. Len(h) >= HeaderSize
        BY <2>2 DEF HeaderSize
      <4> HIDE DEF h
      <4> QED BY <2>2, <4>1, LengthIs
    <3>2. h # <<>>
      BY <2>2, StrEmpty
    <3>3. Carries(Cat(h, Cat(r, t)), answer, Len(got), Len(answer))
      BY <1>4, <2>3
    <3> HIDE DEF h
    <3>4. /\ Len(got) < Len(answer) /\ answer[Len(got) + 1] \in Packet
          /\ h[1] = answer[Len(got) + 1].code /\ h = Header(answer[Len(got) + 1])
      BY <1>3, <1>5, <2>1, <2>2, <3>2, <3>3, FirstHeader
    <3>5. Length(h) = Len(answer[Len(got) + 1].data)
      BY <3>4, HeaderIs
    <3>6. ASSUME h[1] = CSE_SEND_HEADER PROVE Length(h) = 0
      <4>1. Len(got) + 1 \in 1 .. Len(answer)
        BY <1>3, <3>4, LenProperties
      <4>2. answer[Len(got) + 1].data = <<>>
        BY <3>4, <3>6, <4>1 DEF InInv, AnswerOK, CSE_SEND_HEADER, CSE_HEADER, CSE_VALUE,
           CSE_DATA
      <4> QED BY <3>5, <4>2, StrEmpty
    <3>7. ReadLimit(Length(h)) = Length(h)
      BY <3>1, Sizes DEF ReadLimit
    <3> QED BY <3>6, <3>7 DEF Needs
  <2> QED BY <1>8, <2>4, <2>5 DEF InInv
<1> QED BY <1>3, <1>9, <1>10, HeaderOrPart

\* A connection that is reset loses what has arrived.
LEMMA ResetIn ==
  ASSUME Types, InInv, Reset
  PROVE  InInv'
<1>1. /\ reset' = TRUE /\ toApache' = <<>>
      /\ UNCHANGED <<rd, readBuf, open, answer, got>>
  BY DEF Reset, reader, jvm
<1>2. AnswerOK' /\ GotOK' /\ NeedOK' /\ ResetOK'
  BY <1>1 DEF InInv, AnswerOK, GotOK, NeedOK, ResetOK
<1>3. ASSUME open
      PROVE  \E lost : /\ Str(lost)
                       /\ Carries(Back(lost)', answer, Len(got), Len(answer))
  <2>1. PICK lost : /\ Str(lost) /\ (reset \/ lost = <<>>)
                    /\ Carries(Back(lost), answer, Len(got), Len(answer))
    BY <1>3 DEF InInv, BackOK
  <2> PICK more : more = Cat(toApache, lost)
    OBVIOUS
  <2>2. Str(more)
    BY <2>1, BehindStr
  <2>3. Back(more)' = Cat(rd.hdr, Cat(rd.text, Cat(readBuf, Cat(<<>>, more))))
    BY <1>1 DEF Back
  <2>4. Back(lost) = Cat(rd.hdr, Cat(rd.text, Cat(readBuf, more)))
    BY DEF Back
  <2>5. Back(more)' = Back(lost)
    BY <2>2, <2>3, <2>4, StrNothing
  <2>6. Carries(Back(more)', answer, Len(got), Len(answer))
    BY <2>1, <2>5
  <2> QED BY <2>2, <2>6
<1>4. BackOK'
  BY <1>1, <1>3 DEF BackOK
<1> QED BY <1>2, <1>4 DEF InInv

\* cse_flush fails: nothing comes any more, and what send_data had of a packet is
\* forgotten.
LEMMA FlushFailIn ==
  ASSUME Types, InInv, FlushFail
  PROVE  InInv'
<1>1. /\ readBuf = <<>> /\ open /\ reset
      /\ UNCHANGED <<readBuf, toApache, open, reset, answer, got>>
      /\ rd' = Start("packet", <<>>)
  BY DEF FlushFail, ReadFails, Return, Starved, CanSend, jvm
<1>2. toApache = <<>>
  BY <1>1 DEF InInv, ResetOK
<1>3. AnswerOK' /\ GotOK' /\ ResetOK'
  BY <1>1 DEF InInv, AnswerOK, GotOK, ResetOK
<1>4. rd'.hdr = <<>> /\ rd'.text = <<>>
  BY <1>1 DEF Start
<1>5. NeedOK'
  BY <1>4, StrEmpty DEF NeedOK, HeaderSize
<1>6. PICK lost : /\ Str(lost) /\ (reset \/ lost = <<>>)
                  /\ Carries(Back(lost), answer, Len(got), Len(answer))
  BY <1>1 DEF InInv, BackOK
<1>7. PICK more : more = Back(lost)
  OBVIOUS
<1>8. Str(more)
  <2>1. Str(rd.hdr)
    BY DEF Types, RdOK
  <2> QED BY <1>6, <1>7, <2>1, BehindStr, CatStr DEF Back
<1>9. Back(more)' = more
  <2>1. Back(more)' = Cat(<<>>, Cat(<<>>, Cat(<<>>, Cat(<<>>, more))))
    BY <1>1, <1>2, <1>4 DEF Back
  <2> QED BY <1>8, <2>1, StrNothing
<1>10. Carries(Back(more)', answer', Len(got'), Len(answer'))
  BY <1>1, <1>6, <1>7, <1>9
<1>11. BackOK'
  BY <1>1, <1>8, <1>10 DEF BackOK
<1> QED BY <1>3, <1>5, <1>11 DEF InInv

\* The JVM writes a packet.
LEMMA JAnswerIn ==
  ASSUME Types, InInv, NEW p \in Packet, JAnswer(p)
  PROVE  InInv'
<1>1. /\ ~reset /\ ~JEnded /\ p.code \in JCodes
      /\ p.data \in IF p.code \in {CSE_HEADER, CSE_VALUE, CSE_DATA} THEN Answer ELSE {<<>>}
      /\ answer' = Append(answer, p)
      /\ UNCHANGED <<rd, readBuf, open, reset, got>>
  BY DEF JAnswer, reader
<1>2. /\ answer \in Seq(Packet) /\ Len(answer) \in Nat /\ Len(got) \in Nat
      /\ Len(got) <= Len(answer)
  BY LenProperties DEF Types, HistOK, InInv, GotOK
<1>3. /\ answer' \in Seq(Packet) /\ Len(answer') = Len(answer) + 1
      /\ \A i \in 1 .. Len(answer) : answer'[i] = answer[i]
      /\ answer'[Len(answer) + 1] = p
  BY <1>1, <1>2, AppendProperties
<1>4. AnswerOK'
  <2> SUFFICES ASSUME NEW i \in 1 .. Len(answer')
               PROVE  /\ answer'[i].code \in {CSE_HEADER, CSE_VALUE, CSE_DATA}
                         \/ answer'[i].data = <<>>
                      /\ answer'[i].code \in {CSE_END, CSE_CLOSE} => i = Len(answer')
                      /\ i < Len(answer') /\ answer'[i].code = CSE_HEADER =>
                           answer'[i + 1].code = CSE_VALUE
    BY DEF AnswerOK
  <2>1. CASE i = Len(answer) + 1
    <3>1. answer'[i] = p /\ i = Len(answer')
      BY <1>3, <2>1
    <3> QED BY <1>1, <1>2, <1>3, <3>1
  <2>2. CASE i = Len(answer)
    <3>1. /\ i \in 1 .. Len(answer) /\ answer'[i] = answer[i] /\ answer'[i + 1] = p
          /\ i # Len(answer')
      BY <1>2, <1>3, <2>2
    <3>2. answer # <<>> /\ Last(answer) = answer[i]
      BY <1>2, <2>2, <3>1, StrEmpty DEF Last
    <3>3. answer[i].code \notin {CSE_END, CSE_CLOSE}
      BY <1>1, <3>2 DEF JEnded
    <3>4. answer[i].code = CSE_HEADER => p.code = CSE_VALUE
      BY <1>1, <3>2 DEF JInHeader, JCodes
    <3> QED BY <3>1, <3>3, <3>4 DEF InInv, AnswerOK
  <2>3. CASE i < Len(answer)
    <3>1. /\ i \in 1 .. Len(answer) /\ i + 1 \in 1 .. Len(answer)
          /\ i # Len(answer) /\ i # Len(answer')
      BY <1>2, <1>3, <2>3
    <3>2. answer'[i] = answer[i] /\ answer'[i + 1] = answer[i + 1]
      BY <1>3, <3>1
    <3> QED BY <2>3, <3>1, <3>2 DEF InInv, AnswerOK
  <2>4. i = Len(answer) + 1 \/ i = Len(answer) \/ i < Len(answer)
    BY <1>2, <1>3
  <2> QED BY <2>1, <2>2, <2>3, <2>4
<1>5. GotOK'
  <2>1. Len(got') <= Len(answer')
    BY <1>1, <1>2, <1>3
  <2>2. \A i \in 1 .. Len(got) : i \in 1 .. Len(answer)
    BY <1>2
  <2> QED BY <1>1, <1>3, <2>1, <2>2 DEF InInv, GotOK
<1>6. ASSUME open
      PROVE  \E lost : /\ Str(lost) /\ lost = <<>>
                       /\ Carries(Back(lost)', answer', Len(got), Len(answer'))
  <2>1. Carries(Back(<<>>), answer, Len(got), Len(answer))
    BY <1>1, <1>6 DEF InInv, BackOK
  <2>2. Carries(Back(<<>>), answer', Len(got), Len(answer))
    <3>1. \A k \in Len(got) + 1 .. Len(answer) : k \in 1 .. Len(answer)
      BY <1>2
    <3>2. \A k \in Len(got) + 1 .. Len(answer) : answer'[k] = answer[k]
      BY <1>3, <3>1
    <3> QED BY <1>2, <2>1, <3>2, CarriesSame
  <2>3. Carries(Cat(Back(<<>>), Bytes(p)), answer', Len(got), Len(answer) + 1)
    <3>1. \A k \in Len(got) + 1 .. Len(answer) + 1 : answer'[k] \in Packet
      <4>1. \A k \in Len(got) + 1 .. Len(answer) + 1 : k \in 1 .. Len(answer')
        BY <1>2, <1>3
      <4> QED BY <1>3, <4>1, ElementOfSeq
    <3> QED BY <1>2, <1>3, <2>2, <3>1, CarriesMore
  <2>4. Back(<<>>)' = Cat(Back(<<>>), Bytes(p))
    <3> DEFINE a == toApache
               ra == Cat(readBuf, toApache)
               tra == Cat(rd.text, ra)
    <3>1. Str(toApache) /\ Str(readBuf) /\ Str(rd.text) /\ Str(rd.hdr)
      BY DEF Types, BufsOK, RdOK
    <3>2. Str(ra) /\ Str(tra) /\ Str(Header(p)) /\ Str(p.data) /\ Str(Bytes(p))
      BY <3>1, CatStr, HeaderIs
    <3>3. toApache' = Cat(toApache, Bytes(p))
      <4>1. toApache' = Cat(Cat(toApache, Header(p)), p.data)
        BY DEF JAnswer, Cat
      <4> QED BY <3>1, <3>2, <4>1, StrAssoc DEF Bytes
    <3>4. Back(<<>>)' = Cat(rd.hdr, Cat(rd.text, Cat(readBuf, Cat(toApache, Bytes(p)))))
      <4>1. Back(<<>>)' = Cat(rd.hdr, Cat(rd.text,
                              Cat(readBuf, Cat(Cat(toApache, Bytes(p)), <<>>))))
        BY <1>1, <3>3 DEF Back
      <4>2. Cat(Cat(toApache, Bytes(p)), <<>>) = Cat(toApache, Bytes(p))
        BY <3>1, <3>2, CatStr, StrNothing
      <4> QED BY <4>1, <4>2
    <3>5. Back(<<>>) = Cat(rd.hdr, tra)
      BY <3>1, StrNothing DEF Back
    <3>6. Cat(readBuf, Cat(toApache, Bytes(p))) = Cat(ra, Bytes(p))
      BY <3>1, <3>2, StrAssoc
    <3> HIDE DEF ra
    <3>7. Cat(rd.text, Cat(ra, Bytes(p))) = Cat(tra, Bytes(p))
      BY <3>1, <3>2, StrAssoc
    <3> HIDE DEF tra
    <3>8. Cat(rd.hdr, Cat(tra, Bytes(p))) = Cat(Cat(rd.hdr, tra), Bytes(p))
      BY <3>1, <3>2, StrAssoc
    <3> QED BY <3>4, <3>5, <3>6, <3>7, <3>8
  <2>5. Carries(Back(<<>>)', answer', Len(got), Len(answer'))
    BY <1>3, <2>3, <2>4
  <2> QED BY <2>5, StrEmpty
<1>7. BackOK'
  BY <1>1, <1>6 DEF BackOK
<1>8. NeedOK' /\ ResetOK'
  BY <1>1 DEF InInv, NeedOK, ResetOK
<1> QED BY <1>4, <1>5, <1>7, <1>8 DEF InInv

\* The start of send_data's next packet.
LEMMA StartIs ==
  ASSUME NEW f, NEW key, rd' = Start(f, key)
  PROVE  rd'.hdr = <<>> /\ rd'.text = <<>>
  BY DEF Start

\* The steps that read a packet whole.
Reads == HeaderKey \/ HeaderValue \/ Other \/ End

LEMMA ReadsDoes ==
  ASSUME Types, InInv, Reads
  PROVE  /\ Len(got) < Len(answer)
         /\ P(rd.hdr[1], rd.text) = answer[Len(got) + 1]
         /\ Whole /\ got' = Packed
         /\ UNCHANGED <<open, readBuf, toApache, answer, reset>>
         /\ InInv'
<1>1. /\ Whole /\ got' = Packed
      /\ UNCHANGED <<open, readBuf, toApache, answer, reset>>
  BY DEF Reads, HeaderKey, HeaderValue, Other, End, jvm
<1>2. rd'.hdr = <<>> /\ rd'.text = <<>>
  <2>1. CASE HeaderKey
    BY <2>1, StartIs DEF HeaderKey
  <2>2. CASE HeaderValue
    BY <2>2, StartIs DEF HeaderValue
  <2>3. CASE Other
    BY <2>3, StartIs DEF Other
  <2>4. CASE End
    BY <2>4, StartIs DEF End, Return
  <2> QED BY <2>1, <2>2, <2>3, <2>4 DEF Reads
<1> QED BY <1>1, <1>2, WholeDoes

\* A step keeps what is read in step with what the JVM wrote.
LEMMA InNext ==
  ASSUME Types, InInv, [Next]_vars
  PROVE  InInv'
<1>1. ASSUME NEW p \in Packet, WritePacket(p) PROVE InInv'
  BY <1>1, InFrame, WriteOpen DEF WritePacket, reader, jvm
<1>2. CASE WriteData
  BY <1>2, InFrame, WriteOpen DEF WriteData, jvm
<1>3. CASE AwaitAck \/ Flush \/ FlushCrash \/ JRead \/ UNCHANGED vars
  <2>1. UNCHANGED <<rd, readBuf, toApache, answer, got, reset, open>>
    BY <1>3 DEF AwaitAck, Flush, FlushCrash, JRead, vars, reader, jvm
  <2> QED BY <2>1, InFrame
<1>4. CASE EndOfFile \/ ReadClosed \/ BrowserGone
  <2>1. UNCHANGED <<toApache, answer, got, reset>> /\ ~open'
    BY <1>4 DEF EndOfFile, ReadFails, ReadClosed, BrowserGone, jvm
  <2> QED BY <2>1, InClosed
<1>5. CASE Reads
  BY <1>5, ReadsDoes
<1>6. CASE Next
  BY <1>1, <1>2, <1>3, <1>4, <1>5, <1>6, RecvIn, TakeIn, ResetIn, FlushFailIn, JAnswerIn,
     Steps DEF Reads, Finished
<1> QED BY <1>3, <1>6

\* Only a packet that is read whole changes what send_data has read, and only a
\* packet that the JVM writes its answer.
LEMMA ReadOrNot ==
  ASSUME [Next]_vars
  PROVE  \/ Reads
         \/ \E p \in Packet : JAnswer(p)
         \/ UNCHANGED <<answer, got>>
<1>1. ASSUME NEW p \in Packet, WritePacket(p) PROVE UNCHANGED <<answer, got>>
  BY <1>1 DEF WritePacket, reader, jvm
<1>2. ASSUME WriteData \/ AwaitAck \/ Flush \/ Recv \/ Take \/ EndOfFile \/ FlushFail
             \/ FlushCrash \/ ReadClosed \/ BrowserGone \/ JRead \/ Reset \/ UNCHANGED vars
      PROVE  UNCHANGED <<answer, got>>
  BY <1>2 DEF WriteData, AwaitAck, Flush, Recv, Take, EndOfFile, FlushFail, FlushCrash,
     ReadClosed, BrowserGone, ReadFails, JRead, Reset, vars, reader, jvm
<1> QED BY <1>1, <1>2, Steps DEF Reads, Finished

\* A step of the stream is a step of the pipe to send_data, or none.
LEMMA InStep ==
  ASSUME Types, InInv, [Next]_vars
  PROVE  [In!Next]_(In!vars)
<1>0. answer \in Seq(Packet) /\ Len(answer) \in Nat
  BY LenProperties DEF Types, HistOK
<1>1. CASE Reads
  <2>1. /\ Len(got) < Len(answer) /\ got' = Append(got, answer[Len(got) + 1])
        /\ UNCHANGED answer
    BY <1>1, ReadsDoes DEF Packed
  <2> QED BY <2>1 DEF In!Next, In!Read
<1>2. ASSUME NEW p \in Packet, JAnswer(p) PROVE In!Next
  <2>1. answer' = Append(answer, p) /\ UNCHANGED got
    BY <1>2 DEF JAnswer, reader
  <2>2. answer' # answer
    BY <1>0, <2>1, AppendProperties
  <2> QED BY <2>1, <2>2 DEF In!Next, In!Write
<1> QED BY <1>1, <1>2, ReadOrNot DEF In!vars

-----------------------------------------------------------------------------
(* Headers for the browser.                                                 *)

\* A header as the JVM wrote it, with its value cut to the buffer.
Fine(h) ==
  \E j \in 1 .. Len(answer) - 1 :
    /\ answer[j].code = CSE_HEADER /\ answer[j + 1].code = CSE_VALUE
    /\ h[1] = answer[j].data /\ h[2] = Cut(answer[j + 1].data)

\* Nothing of the answer comes any more.
Drained == reset /\ rd.hdr = <<>> /\ readBuf = <<>>

\* What an open stream may still show is fine.
HeadersOK == open => Drained \/ \A i \in 1 .. Len(headers) : Fine(headers[i])
ShownOK == \A i \in 1 .. Len(shown) : Fine(shown[i])

\* Before a value send_data has the key of its header.
ValueOK ==
  open /\ rd.field = "value" =>
    /\ got # <<>> /\ got[Len(got)].code = CSE_HEADER
    /\ rd.key = got[Len(got)].data

HeadInv == HeadersOK /\ ShownOK /\ ValueOK

LEMMA HeadInit == Init => HeadInv
<1> SUFFICES ASSUME Init PROVE HeadInv
  OBVIOUS
<1>1. Len(headers) = 0 /\ Len(shown) = 0 /\ rd.field = "packet"
  BY StrEmpty DEF Init, Start
<1> QED BY <1>1 DEF HeadInv, HeadersOK, ShownOK, ValueOK

\* What was fine stays so: the JVM takes nothing back.
LEMMA FineStays ==
  ASSUME Types, Types', [Next]_vars, NEW h, Fine(h)
  PROVE  Fine(h)'
<1>0. answer \in Seq(Packet) /\ Len(answer) \in Nat
  BY LenProperties DEF Types, HistOK
<1>1. ASSUME UNCHANGED answer PROVE Fine(h)'
  BY <1>1 DEF Fine
<1>2. ASSUME NEW p \in Packet, JAnswer(p) PROVE Fine(h)'
  <2>1. /\ Len(answer') = Len(answer) + 1
        /\ \A i \in 1 .. Len(answer) : answer'[i] = answer[i]
    BY <1>0, <1>2, AppendProperties DEF JAnswer
  <2>2. PICK j \in 1 .. Len(answer) - 1 :
          /\ answer[j].code = CSE_HEADER /\ answer[j + 1].code = CSE_VALUE
          /\ h[1] = answer[j].data /\ h[2] = Cut(answer[j + 1].data)
    BY DEF Fine
  <2>3. /\ j \in 1 .. Len(answer') - 1
        /\ j \in 1 .. Len(answer) /\ j + 1 \in 1 .. Len(answer)
    BY <1>0, <2>1
  <2>4. answer'[j] = answer[j] /\ answer'[j + 1] = answer[j + 1]
    BY <2>1, <2>3
  <2> QED BY <2>2, <2>3, <2>4 DEF Fine
<1>3. Reads => UNCHANGED answer
  BY DEF Reads, HeaderKey, HeaderValue, Other, End, jvm
<1> QED BY <1>1, <1>2, <1>3, ReadOrNot

\* So do what is shown, and the headers of an open stream, if they are left alone.
LEMMA ShownStays ==
  ASSUME Types, Types', [Next]_vars, ShownOK, UNCHANGED shown
  PROVE  ShownOK'
  BY FineStays DEF ShownOK

LEMMA HeadersStay ==
  ASSUME Types, Types', [Next]_vars, HeadersOK, UNCHANGED headers, open' => open,
         open' /\ Drained => Drained'
  PROVE  HeadersOK'
<1>1. ASSUME \A i \in 1 .. Len(headers) : Fine(headers[i])
      PROVE  (\A i \in 1 .. Len(headers) : Fine(headers[i]))'
  BY <1>1, FineStays
<1> QED BY <1>1 DEF HeadersOK

\* Steps without a header for the browser.
LEMMA HeadFrame ==
  ASSUME Types, Types', InInv, HeadInv, [Next]_vars,
         UNCHANGED <<headers, shown, got>>, open' => open,
         open' => UNCHANGED <<rd, readBuf>> /\ (reset => reset')
  PROVE  HeadInv'
<1>1. ShownOK'
  BY ShownStays DEF HeadInv
<1>2. HeadersOK'
  <2>1. open' /\ Drained => Drained'
    BY DEF Drained
  <2> QED BY <2>1, HeadersStay DEF HeadInv
<1>3. ValueOK'
  BY DEF HeadInv, ValueOK
<1> QED BY <1>1, <1>2, <1>3 DEF HeadInv

\* What has arrived is received: then the headers are fine.
LEMMA RecvHead ==
  ASSUME Types, Types', InInv, HeadInv, [Next]_vars, Recv \/ Take
  PROVE  HeadInv'
<1>1. UNCHANGED <<headers, shown, got, open>>
  BY DEF Recv, Take, reader
<1>2. ~Drained
  <2>1. CASE Recv
    <3>1. Len(toApache) # 0
      BY <2>1 DEF Recv
    <3> QED BY <3>1, StrEmpty DEF Drained, InInv, ResetOK
  <2>2. CASE Take
    BY <2>2 DEF Drained, Take
  <2> QED BY <2>1, <2>2
<1>3. rd'.field = rd.field /\ rd'.key = rd.key
  <2>1. CASE Recv
    BY <2>1 DEF Recv, reader
  <2>2. CASE Take
    <3>1. Len(rd.hdr) = HeaderSize \/ Len(rd.hdr) < HeaderSize
      <4>1. Len(rd.hdr) \in Nat /\ Len(rd.hdr) <= HeaderSize
        BY StrLen DEF Types, RdOK
      <4> QED BY <4>1, HeaderOrPart
    <3> QED BY <2>2, <3>1, TakeDoes
  <2> QED BY <2>1, <2>2
<1>4. ShownOK'
  BY <1>1, ShownStays DEF HeadInv
<1>5. HeadersOK'
  BY <1>1, <1>2, HeadersStay DEF HeadInv
<1>6. ValueOK'
  BY <1>1, <1>3 DEF HeadInv, ValueOK
<1> QED BY <1>4, <1>5, <1>6 DEF HeadInv

\* A packet is read whole: a value makes a fine header, and what is shown is fine.
LEMMA ReadsHead ==
  ASSUME Types, Types', InInv, HeadInv, [Next]_vars, Reads
  PROVE  HeadInv'
<1>1. /\ Len(got) < Len(answer)
      /\ P(rd.hdr[1], rd.text) = answer[Len(got) + 1]
      /\ Whole /\ got' = Packed /\ UNCHANGED <<open, answer>>
  BY ReadsDoes
<1>2. /\ open /\ rd.hdr # <<>> /\ got \in Seq(ReadPacket) /\ Len(got) \in Nat
      /\ Len(answer) \in Nat
      /\ P(rd.hdr[1], rd.text) \in ReadPacket
  <2>1. Len(rd.hdr) = HeaderSize
    BY <1>1, WholeIs
  <2>2. rd.hdr # <<>>
    BY <2>1, StrEmpty DEF HeaderSize
  <2> QED BY <1>1, <2>2, WholeIs, LenProperties DEF Types, HistOK
<1>3. \A i \in 1 .. Len(headers) : Fine(headers[i])
  BY <1>2 DEF HeadInv, HeadersOK, Drained
<1>4. (\A i \in 1 .. Len(headers) : Fine(headers[i])) => HeadersOK
  BY DEF HeadersOK
<1>5. CASE HeaderKey
  <2>1. UNCHANGED <<headers, shown>> /\ rd' = Start("value", rd.text)
        /\ rd.hdr[1] = CSE_HEADER
    BY <1>5 DEF HeaderKey
  <2>2. ~Drained
    BY <1>2 DEF Drained
  <2>3. ShownOK' /\ HeadersOK'
    BY <1>1, <2>1, <2>2, ShownStays, HeadersStay DEF HeadInv
  <2>4. ValueOK'
    <3>1. got' = Append(got, P(CSE_HEADER, rd.text)) /\ P(CSE_HEADER, rd.text) \in ReadPacket
      BY <1>1, <1>2, <2>1 DEF Packed
    <3>2. got' # <<>> /\ got'[Len(got')] = P(CSE_HEADER, rd.text)
      BY <1>2, <3>1, AppendProperties
    <3>3. rd'.key = rd.text
      BY <2>1 DEF Start
    <3> QED BY <3>2, <3>3 DEF ValueOK, P
  <2> QED BY <2>3, <2>4 DEF HeadInv
<1>6. CASE HeaderValue
  <2>1. /\ headers' = Append(headers, <<rd.key, Cut(rd.text)>>) /\ UNCHANGED shown
        /\ rd' = Start("packet", <<>>) /\ rd.field = "value"
    BY <1>6 DEF HeaderValue
  <2>2. ShownOK'
    BY <2>1, ShownStays DEF HeadInv
  <2>3. ValueOK'
    BY <2>1 DEF ValueOK, Start
  <2>4. Fine(<<rd.key, Cut(rd.text)>>)
    <3>1. got # <<>> /\ got[Len(got)].code = CSE_HEADER /\ rd.key = got[Len(got)].data
      BY <1>2, <2>1 DEF HeadInv, ValueOK
    <3> DEFINE j == Len(got)
    <3>2. j \in 1 .. Len(got) /\ j \in 1 .. Len(answer) - 1 /\ j \in 1 .. Len(answer)
          /\ j < Len(answer)
      <4>1. Len(got) # 0
        BY <1>2, <3>1, EmptySeq
      <4> QED BY <1>1, <1>2, <4>1
    <3>3. answer[j] = got[j]
      BY <3>2 DEF InInv, GotOK
    <3>4. answer[j + 1].code = CSE_VALUE
      BY <3>1, <3>2, <3>3 DEF InInv, AnswerOK
    <3>5. answer[j + 1].data = rd.text
      BY <1>1 DEF P
    <3> HIDE DEF j
    <3>6. answer[j].code = CSE_HEADER /\ rd.key = answer[j].data
      BY <3>1, <3>3 DEF j
    <3>7. <<rd.key, Cut(rd.text)>>[1] = rd.key /\ <<rd.key, Cut(rd.text)>>[2] = Cut(rd.text)
      OBVIOUS
    <3> QED BY <3>2, <3>4, <3>5, <3>6, <3>7 DEF Fine
  <2>5. HeadersOK'
    <3>1. PICK h : h = <<rd.key, Cut(rd.text)>>
      OBVIOUS
    <3>2. ASSUME NEW i \in 1 .. Len(headers') PROVE Fine(headers[i])'
      <4>1. headers'[i] = h \/ \E k \in 1 .. Len(headers) : headers'[i] = headers[k]
        BY <2>1, <3>1
      <4>2. PICK g : g = headers'[i]
        OBVIOUS
      <4>3. Fine(g)
        BY <1>3, <2>4, <3>1, <4>1, <4>2
      <4>4. Fine(g)'
        BY <4>3, FineStays
      <4> QED BY <4>2, <4>4
    <3> QED BY <3>2 DEF HeadersOK
  <2> QED BY <2>2, <2>3, <2>5 DEF HeadInv
<1>7. CASE Other \/ End
  <2>1. /\ UNCHANGED headers /\ (shown' = headers \/ UNCHANGED shown)
        /\ rd' = Start("packet", <<>>)
    BY <1>7 DEF Other, End, Return
  <2>2. ~Drained
    BY <1>2 DEF Drained
  <2>3. HeadersOK'
    BY <1>1, <2>1, <2>2, HeadersStay DEF HeadInv
  <2>4. ShownOK'
    <3>1. CASE UNCHANGED shown
      BY <3>1, ShownStays DEF HeadInv
    <3>2. CASE shown' = headers
      BY <1>3, <3>2, FineStays DEF ShownOK
    <3> QED BY <2>1, <3>1, <3>2
  <2>5. ValueOK'
    BY <2>1 DEF ValueOK, Start
  <2> QED BY <2>3, <2>4, <2>5 DEF HeadInv
<1> QED BY <1>5, <1>6, <1>7 DEF Reads

\* A read that fails shows at most the headers that were fine before.
LEMMA FailsHead ==
  ASSUME Types, Types', InInv, HeadInv, [Next]_vars, EndOfFile \/ FlushFail
  PROVE  HeadInv'
<1>1. PICK code : ReadFails(code)
  BY DEF EndOfFile, FlushFail
<1>2. /\ rd' = Start("packet", <<>>) /\ UNCHANGED readBuf
      /\ shown' = IF NoLength /\ open' /\ rd.hdr[1] = CSE_SEND_HEADER THEN headers
                  ELSE shown
      /\ open' => open /\ readBuf = <<>> /\ reset'
      /\ open
  BY <1>1 DEF EndOfFile, FlushFail, ReadFails, Return, Starved, CanSend
<1>3. HeadersOK'
  <2>1. open' => Drained'
    BY <1>2 DEF Drained, Start
  <2> QED BY <2>1 DEF HeadersOK
<1>4. ShownOK'
  <2>1. CASE UNCHANGED shown
    BY <2>1, ShownStays DEF HeadInv
  <2>2. CASE NoLength /\ shown' = headers
    <3>1. rd.hdr # <<>>
      <4>1. Len(rd.hdr) # 0
        BY <2>2 DEF NoLength
      <4> QED BY <4>1, StrEmpty
    <3>2. \A i \in 1 .. Len(headers) : Fine(headers[i])
      BY <1>2, <3>1 DEF HeadInv, HeadersOK, Drained
    <3> QED BY <2>2, <3>2, FineStays DEF ShownOK
  <2> QED BY <1>2, <2>1, <2>2
<1>5. ValueOK'
  BY <1>2 DEF ValueOK, Start
<1> QED BY <1>3, <1>4, <1>5 DEF HeadInv

\* The steps keep it.
LEMMA HeadNext ==
  ASSUME Types, Types', InInv, HeadInv, [Next]_vars
  PROVE  HeadInv'
<1>1. ASSUME NEW p \in Packet, WritePacket(p) PROVE HeadInv'
  BY <1>1, HeadFrame, WriteOpen DEF WritePacket, reader
<1>2. CASE WriteData
  BY <1>2, HeadFrame, WriteOpen DEF WriteData
<1>3. CASE AwaitAck \/ Flush \/ FlushCrash \/ JRead \/ Reset \/ UNCHANGED vars
  <2>1. UNCHANGED <<headers, shown, got, rd, readBuf, open>> /\ (reset => reset')
    BY <1>3 DEF AwaitAck, Flush, FlushCrash, JRead, Reset, vars, reader
  <2> QED BY <2>1, HeadFrame
<1>4. ASSUME NEW p \in Packet, JAnswer(p) PROVE HeadInv'
  BY <1>4, HeadFrame DEF JAnswer, reader
<1>5. CASE ReadClosed \/ BrowserGone
  <2>1. UNCHANGED <<headers, shown, got>> /\ ~open'
    BY <1>5 DEF ReadClosed, BrowserGone
  <2> QED BY <2>1, HeadFrame
<1>6. CASE Next
  BY <1>1, <1>2, <1>3, <1>4, <1>5, <1>6, RecvHead, ReadsHead, FailsHead, Steps
     DEF Reads, Finished
<1> QED BY <1>3, <1>6

\* What is shown is what HeadersWhole asks for.
LEMMA FineWhole ==
  ASSUME Types, ShownOK
  PROVE  HeadersWhole
<1>1. ASSUME NEW i \in 1 .. Len(shown)
      PROVE  \E j \in 1 .. Len(answer) - 1 :
               /\ answer[j].code = CSE_HEADER /\ answer[j + 1].code = CSE_VALUE
               /\ shown[i][1] = answer[j].data
               /\ shown[i][2] = LET value == answer[j + 1].data
                                    n == IF Len(value) < ValueSize THEN Len(value)
                                                                   ELSE ValueSize - 1
                                IN SubSeq(value, 1, n)
  <2>1. PICK j \in 1 .. Len(answer) - 1 :
          /\ answer[j].code = CSE_HEADER /\ answer[j + 1].code = CSE_VALUE
          /\ shown[i][1] = answer[j].data /\ shown[i][2] = Cut(answer[j + 1].data)
    BY <1>1 DEF ShownOK, Fine
  <2>2. Str(answer[j + 1].data)
    <3>1. answer \in Seq(Packet) /\ Len(answer) \in Nat
      BY LenProperties DEF Types, HistOK
    <3>2. j + 1 \in 1 .. Len(answer)
      BY <3>1
    <3>3. answer[j + 1] \in Packet
      BY <3>1, <3>2, ElementOfSeq
    <3> QED BY <3>3, HeaderIs
  <2>3. PICK value : value = answer[j + 1].data
    OBVIOUS
  <2>4. SubSeq(value, 1, Len(value)) = value
    BY <2>2, <2>3, SubSeqFull DEF Str
  <2>5. Cut(value) = SubSeq(value, 1, IF Len(value) < ValueSize THEN Len(value)
                                                               ELSE ValueSize - 1)
    BY <2>4 DEF Cut
  <2> QED BY <2>1, <2>3, <2>5
<1> QED BY <1>1 DEF HeadersWhole

\* ap_send_http_header shows the browser no header that was cut off in the middle of
\* its key or value: what ReadFails leaves in key and value never gets there.
THEOREM StreamHeadersWhole == Spec => []HeadersWhole
<1> DEFINE IInv == Types /\ InInv /\ HeadInv
<1>1. Init => IInv
  BY TypesInit, InInit, HeadInit
<1>2. IInv /\ [Next]_vars => IInv'
  BY TypesNext, InNext, HeadNext
<1>3. IInv => HeadersWhole
  BY FineWhole DEF HeadInv
<1> QED BY <1>1, <1>2, <1>3, PTL DEF Spec

-----------------------------------------------------------------------------
(* From cse_write_packet to the JVM.                                        *)

\* Dropped and Sound for any packets.
DroppedOf(w) == {i \in DOMAIN w : Len(w[i].data) > BufLength}
SoundOf(w) ==
  IF DroppedOf(w) = {} THEN Len(w)
  ELSE (CHOOSE i \in DroppedOf(w) : \A j \in DroppedOf(w) : i <= j) - 1

LEMMA SoundThen == Sound = SoundOf(written) /\ Sound' = SoundOf(written')
  BY DEF Sound, SoundOf, Dropped, DroppedOf

\* Sound counts the packets before the first that is too long.
LEMMA SoundIs ==
  ASSUME NEW w \in Seq(Packet)
  PROVE  /\ SoundOf(w) \in 0 .. Len(w)
         /\ \A k \in 1 .. SoundOf(w) : Len(w[k].data) <= BufLength
         /\ SoundOf(w) < Len(w) => Len(w[SoundOf(w) + 1].data) > BufLength
<1>1. Len(w) \in Nat /\ DOMAIN w = 1 .. Len(w)
  BY LenProperties
<1>2. ASSUME NEW k \in 1 .. Len(w) PROVE Len(w[k].data) \in Nat
  <2>1. w[k] \in Packet
    BY <1>2, ElementOfSeq
  <2> QED BY <2>1, HeaderIs, StrLen
<1>3. CASE DroppedOf(w) = {}
  BY <1>1, <1>2, <1>3, Sizes DEF SoundOf, DroppedOf
<1>4. CASE DroppedOf(w) # {}
  <2> DEFINE T == DroppedOf(w)
             m == CHOOSE i \in T : \A j \in T : i <= j
  <2>1. T \subseteq 1 .. Len(w)
    BY <1>1 DEF DroppedOf
  <2>2. \E i \in T : \A j \in T : i <= j
    <3>1. T \subseteq Nat /\ T # {}
      BY <1>4, <2>1
    <3> HIDE DEF T
    <3> QED BY <3>1, LeastNumber
  <2>3. m \in T /\ \A j \in T : m <= j
    BY <2>2
  <2>4. SoundOf(w) = m - 1
    BY <1>4 DEF SoundOf
  <2>5. Len(w[m].data) > BufLength
    BY <2>3 DEF DroppedOf
  <2>6. \A k \in 1 .. Len(w) : k \notin T => Len(w[k].data) <= BufLength
    BY <1>1, <1>2, Sizes DEF DroppedOf
  <2> HIDE DEF T, m
  <2>7. m \in 1 .. Len(w) /\ m - 1 \in 0 .. Len(w) /\ (m - 1) + 1 = m
    BY <1>1, <2>1, <2>3
  <2>8. \A k \in 1 .. m - 1 : k \in 1 .. Len(w) /\ k \notin T
    BY <1>1, <2>3, <2>7
  <2> QED BY <2>4, <2>5, <2>6, <2>7, <2>8
<1> QED BY <1>3, <1>4

\* A packet that is written counts if it and all before it fit.
LEMMA SoundAppend ==
  ASSUME NEW w \in Seq(Packet), NEW p \in Packet
  PROVE  \/ /\ SoundOf(w) = Len(w) /\ Len(p.data) <= BufLength
            /\ SoundOf(Append(w, p)) = Len(w) + 1
         \/ /\ SoundOf(Append(w, p)) = SoundOf(w)
            /\ SoundOf(w) = Len(w) => Len(p.data) > BufLength
<1>1. PICK v : v = Append(w, p)
  OBVIOUS
<1>2. /\ v \in Seq(Packet) /\ Len(v) = Len(w) + 1 /\ Len(w) \in Nat
      /\ \A i \in 1 .. Len(w) : v[i] = w[i]
      /\ v[Len(w) + 1] = p
  BY <1>1, AppendProperties, LenProperties
<1>3. PICK m, n : m = SoundOf(w) /\ n = SoundOf(v)
  OBVIOUS
<1>4. /\ m \in 0 .. Len(w)
      /\ \A k \in 1 .. m : Len(w[k].data) <= BufLength
      /\ m < Len(w) => Len(w[m + 1].data) > BufLength
  BY <1>3, SoundIs
<1>5. /\ n \in 0 .. Len(v)
      /\ \A k \in 1 .. n : Len(v[k].data) <= BufLength
      /\ n < Len(v) => Len(v[n + 1].data) > BufLength
  BY <1>2, <1>3, SoundIs
<1>6. ASSUME NEW k \in 1 .. Len(v) PROVE Len(v[k].data) \in Nat
  <2>1. v[k] \in Packet
    BY <1>2, <1>6, ElementOfSeq
  <2> QED BY <2>1, HeaderIs, StrLen
<1>7. \A k \in 1 .. Len(v) : Len(v[k].data) <= BufLength => ~(Len(v[k].data) > BufLength)
  BY <1>6, Sizes
<1>8. CASE m < Len(w)
  <2>1. m + 1 \in 1 .. Len(w) /\ m + 1 \in 1 .. Len(v) /\ v[m + 1] = w[m + 1]
    BY <1>2, <1>4, <1>8
  <2>2. ~(m + 1 \in 1 .. n)
    BY <1>4, <1>5, <1>7, <1>8, <2>1
  <2>3. ~(n < m)
    <3> SUFFICES ASSUME n < m PROVE FALSE
      OBVIOUS
    <3>1. n + 1 \in 1 .. m /\ n + 1 \in 1 .. Len(w) /\ n + 1 \in 1 .. Len(v) /\ n < Len(v)
      BY <1>2, <1>4, <1>5
    <3>2. v[n + 1] = w[n + 1]
      BY <1>2, <3>1
    <3> QED BY <1>4, <1>5, <1>7, <3>1, <3>2
  <2>4. n = m
    BY <1>2, <1>4, <1>5, <2>2, <2>3
  <2>5. m # Len(w)
    BY <1>2, <1>4, <1>8
  <2> QED BY <1>1, <1>3, <2>4, <2>5
<1>9. CASE m = Len(w)
  <2>1. ~(n < m)
    <3> SUFFICES ASSUME n < m PROVE FALSE
      OBVIOUS
    <3>1. n + 1 \in 1 .. m /\ n + 1 \in 1 .. Len(w) /\ n + 1 \in 1 .. Len(v) /\ n < Len(v)
      BY <1>2, <1>4, <1>5
    <3>2. v[n + 1] = w[n + 1]
      BY <1>2, <3>1
    <3> QED BY <1>4, <1>5, <1>7, <3>1, <3>2
  <2>2. n = m \/ n = m + 1
    BY <1>2, <1>4, <1>5, <1>9, <2>1
  <2>3. CASE n = m
    <3>1. n < Len(v) /\ n + 1 = Len(w) + 1
      BY <1>2, <1>9, <2>3
    <3>2. Len(p.data) > BufLength
      BY <1>2, <1>5, <3>1
    <3> QED BY <1>1, <1>3, <2>3, <3>2
  <2>4. CASE n = m + 1
    <3>1. n \in 1 .. n /\ n = Len(w) + 1
      BY <1>2, <1>9, <2>4
    <3>2. Len(p.data) <= BufLength
      BY <1>2, <1>5, <3>1
    <3> QED BY <1>1, <1>3, <1>9, <3>1, <3>2
  <2> QED BY <2>2, <2>3, <2>4
<1> QED BY <1>2, <1>4, <1>8, <1>9

\* The data of a packet whose header is written.
Pending == IF mode = "data" /\ Sound = Len(written) THEN written[Len(written)].data
           ELSE <<>>

\* o is all that is written on the stream and not read by the JVM: what is on the
\* way and in the buffer, or, of a stream that is closed, something lost.
Sent(o) == \E x : Str(x) /\ o = Cat(toJvm, x) /\ (open => x = writeBuf)

\* It is the packets up to the first that is dropped, and some y behind them.
ForthOK ==
  Len(jvmGot) <= Sound =>
    \E o, e, y :
      /\ Sent(o) /\ Str(e) /\ Str(y)
      /\ Carries(e, written, Len(jvmGot), Sound)
      /\ Cat(o, Pending) = Cat(e, y)
      /\ Sound = Len(written) => y = <<>>

JvmGotOK ==
  /\ Sound = Len(written) => Len(jvmGot) <= Sound
  /\ \A i \in 1 .. Len(jvmGot) : i <= Sound => jvmGot[i] = written[i]

OutInv == ForthOK /\ JvmGotOK

LEMMA SentStr ==
  ASSUME Types, NEW o, Sent(o)
  PROVE  Str(o)
  BY CatStr DEF Sent, Types, BufsOK

\* Pending is data that fits into the buffer.
LEMMA PendingIs ==
  ASSUME Types
  PROVE  /\ Str(Pending)
         /\ mode = "data" => /\ written # <<>> /\ Last(written) \in Packet
                             /\ Str(Last(written).data)
                             /\ Sound = Len(written) =>
                                  /\ Pending = Last(written).data
                                  /\ Len(Pending) <= BufLength
<1>1. written \in Seq(Packet) /\ Len(written) \in Nat
  BY LenProperties DEF Types, HistOK
<1>2. ASSUME mode = "data" PROVE written # <<>> /\ Last(written) \in Packet
                                 /\ Len(written) \in 1 .. Len(written)
  <2>1. written # <<>> /\ Len(written) # 0
    BY <1>1, <1>2, EmptySeq DEF Types, HistOK
  <2>2. Len(written) \in 1 .. Len(written)
    BY <1>1, <2>1
  <2> QED BY <1>1, <2>1, <2>2, ElementOfSeq DEF Last
<1>3. ASSUME mode = "data" PROVE Str(Last(written).data)
  BY <1>2, <1>3, HeaderIs
<1>4. Str(Pending)
  BY <1>3, StrEmpty DEF Pending, Last
<1>5. ASSUME mode = "data", Sound = Len(written)
      PROVE  Pending = Last(written).data /\ Len(Pending) <= BufLength
  <2>1. Pending = Last(written).data
    BY <1>5 DEF Pending, Last
  <2>2. \A k \in 1 .. Sound : Len(written[k].data) <= BufLength
    BY <1>1, SoundIs, SoundThen
  <2> QED BY <1>2, <1>5, <2>1, <2>2 DEF Last
<1> QED BY <1>2, <1>3, <1>4, <1>5

\* cse_write puts behind it what it is given, unless that is too long.
LEMMA SentWrite ==
  ASSUME Types, NEW o, Sent(o), NEW b, Str(b), Write(b)
  PROVE  \E z : /\ z \in {<<>>, b}
                /\ Len(b) <= BufLength => z = b
                /\ Sent(Cat(o, z))'
<1>1. PICK x : Str(x) /\ o = Cat(toJvm, x) /\ (open => x = writeBuf)
  BY DEF Sent
<1>2. Str(toJvm) /\ Str(writeBuf) /\ Str(o)
  BY SentStr DEF Types, BufsOK
<1>3. /\ Str(writeBuf')
      /\ open' => /\ open
                  /\ \E z \in {<<>>, b} :
                       /\ Cat(toJvm', writeBuf') = Cat(Cat(toJvm, writeBuf), z)
                       /\ Len(b) <= BufLength => z = b
      /\ ~open' => toJvm' = toJvm
  BY WriteDoes
<1>4. CASE open'
  <2>1. PICK z \in {<<>>, b} :
          /\ Cat(toJvm', writeBuf') = Cat(Cat(toJvm, writeBuf), z)
          /\ Len(b) <= BufLength => z = b
    BY <1>3, <1>4
  <2>2. Cat(o, z) = Cat(toJvm', writeBuf')
    BY <1>1, <1>3, <1>4, <2>1
  <2>3. Sent(Cat(o, z))'
    BY <1>3, <2>2 DEF Sent
  <2> QED BY <2>1, <2>3
<1>5. CASE ~open'
  <2>1. Cat(o, b) = Cat(toJvm', Cat(x, b)) /\ Str(Cat(x, b))
    BY <1>1, <1>2, <1>3, <1>5, StrAssoc, CatStr
  <2>2. Sent(Cat(o, b))'
    BY <1>5, <2>1 DEF Sent
  <2> QED BY <2>2
<1> QED BY <1>4, <1>5

LEMMA OutInit == Init => OutInv
<1> SUFFICES ASSUME Init PROVE OutInv
  OBVIOUS
<1>1. Len(written) = 0 /\ Len(jvmGot) = 0 /\ written \in Seq(Packet)
  BY StrEmpty, EmptySeq DEF Init
<1>2. Sound = 0
  <2>1. SoundOf(written) \in 0 .. Len(written)
    BY <1>1, SoundIs
  <2> QED BY <1>1, <2>1, SoundThen
<1>3. Sent(<<>>)
  <2>1. <<>> = Cat(toJvm, <<>>)
    BY StrEmpty, StrNothing DEF Init
  <2> QED BY <2>1, StrEmpty DEF Sent, Init
<1>4. Pending = <<>> /\ Cat(<<>>, Pending) = Cat(<<>>, <<>>)
  BY DEF Pending, Init
<1>5. Carries(<<>>, written, Len(jvmGot), Sound)
  BY <1>1, <1>2, CarriesNothing
<1>6. ForthOK
  BY <1>3, <1>4, <1>5, StrEmpty DEF ForthOK
<1> QED BY <1>1, <1>6 DEF OutInv, JvmGotOK

\* Steps that neither write nor read on this side.
LEMMA OutFrame ==
  ASSUME OutInv, UNCHANGED <<toJvm, written, jvmGot>>,
         open' => open /\ UNCHANGED writeBuf,
         mode' = "data" <=> mode = "data"
  PROVE  OutInv'
<1>1. Sound' = Sound /\ Pending' = Pending
  BY SoundThen DEF Pending
<1>2. \A o : Sent(o) => Sent(o)'
  BY DEF Sent
<1>3. ForthOK'
  BY <1>1, <1>2 DEF OutInv, ForthOK
<1> QED BY <1>1, <1>3 DEF OutInv, JvmGotOK

\* cse_fill_buffer flushes.
LEMMA OutFlush ==
  ASSUME Types, OutInv, Flush
  PROVE  OutInv'
<1>1. /\ UNCHANGED <<written, jvmGot, mode, open>> /\ open
      /\ toJvm' = Cat(toJvm, writeBuf) /\ writeBuf' = <<>>
  BY DEF Flush, Sends, Starved, jvm, Cat
<1>2. Sound' = Sound /\ Pending' = Pending
  BY <1>1, SoundThen DEF Pending
<1>3. ASSUME NEW o, Sent(o) PROVE Sent(o)'
  <2>1. o = Cat(toJvm, writeBuf) /\ Str(o)
    BY <1>1, <1>3, SentStr DEF Sent
  <2>2. o = Cat(toJvm', <<>>)
    BY <1>1, <2>1, StrNothing
  <2> QED BY <1>1, <2>2, StrEmpty DEF Sent
<1>4. ForthOK'
  BY <1>1, <1>2, <1>3 DEF OutInv, ForthOK
<1> QED BY <1>1, <1>2, <1>4 DEF OutInv, JvmGotOK

\* cse_write_packet writes a header.
LEMMA OutWritePacket ==
  ASSUME Types, OutInv, NEW p \in Packet, WritePacket(p)
  PROVE  OutInv'
<1>1. /\ Write(Header(p)) /\ written' = Append(written, p) /\ mode' = "data"
      /\ UNCHANGED jvmGot /\ mode # "data"
  BY DEF WritePacket, Codes, jvm
<1>2. /\ written \in Seq(Packet) /\ Len(written) \in Nat /\ Len(jvmGot) \in Nat
      /\ Len(written') = Len(written) + 1 /\ written'[Len(written) + 1] = p
      /\ \A i \in 1 .. Len(written) : written'[i] = written[i]
  BY <1>1, LenProperties, AppendProperties DEF Types, HistOK
<1>3. /\ Str(Header(p)) /\ Str(p.data) /\ Str(Bytes(p))
      /\ Len(Header(p)) <= BufLength
  BY HeaderIs, Sizes DEF HeaderSize
<1>4. Sound \in 0 .. Len(written)
  BY <1>2, SoundIs, SoundThen
<1>5. \/ /\ Sound = Len(written) /\ Sound' = Len(written')
      \/ /\ Sound' = Sound /\ Sound' # Len(written')
  <2>1. \/ /\ SoundOf(written) = Len(written)
           /\ SoundOf(written') = Len(written) + 1
        \/ SoundOf(written') = SoundOf(written)
    BY <1>1, <1>2, SoundAppend
  <2>2. Sound # Len(written) + 1
    BY <1>2, <1>4
  <2> QED BY <1>2, <2>1, <2>2, SoundThen
<1>6. Pending = <<>>
  BY <1>1 DEF Pending
<1>7. ASSUME NEW i \in 1 .. Sound PROVE written'[i] = written[i]
  BY <1>2, <1>4
<1>8. JvmGotOK'
  <2>1. (Sound = Len(written)) => Len(jvmGot) <= Sound
    BY DEF OutInv, JvmGotOK
  <2>2. (Sound' = Len(written')) => Len(jvmGot') <= Sound'
    BY <1>1, <1>2, <1>4, <1>5, <2>1
  <2>3. ASSUME NEW i \in 1 .. Len(jvmGot'), i <= Sound' PROVE jvmGot'[i] = written'[i]
    <3>1. i \in 1 .. Len(jvmGot) /\ i <= Sound
      BY <1>1, <1>2, <1>4, <1>5, <2>1, <2>3
    <3>2. i \in 1 .. Sound
      BY <1>2, <1>4, <3>1
    <3> QED BY <1>1, <1>7, <3>1, <3>2 DEF OutInv, JvmGotOK
  <2> QED BY <2>2, <2>3 DEF JvmGotOK
<1>9. ForthOK'
  <2> SUFFICES ASSUME Len(jvmGot') <= Sound'
               PROVE  (\E o, e, y :
                         /\ Sent(o) /\ Str(e) /\ Str(y)
                         /\ Carries(e, written, Len(jvmGot), Sound)
                         /\ Cat(o, Pending) = Cat(e, y)
                         /\ Sound = Len(written) => y = <<>>)'
    BY DEF ForthOK
  <2>1. Len(jvmGot) <= Sound
    BY <1>1, <1>5 DEF OutInv, JvmGotOK
  <2>2. PICK o, e, y :
          /\ Sent(o) /\ Str(e) /\ Str(y)
          /\ Carries(e, written, Len(jvmGot), Sound)
          /\ Cat(o, Pending) = Cat(e, y)
          /\ Sound = Len(written) => y = <<>>
    BY <2>1 DEF OutInv, ForthOK
  <2>3. Str(o) /\ o = Cat(e, y)
    BY <1>6, <2>2, SentStr, StrNothing
  <2>4. PICK h : h = Header(p)
    OBVIOUS
  <2>5. Sent(Cat(o, h))'
    <3>1. PICK z : z \in {<<>>, h} /\ (Len(h) <= BufLength => z = h) /\ Sent(Cat(o, z))'
      BY <1>1, <1>3, <2>2, <2>4, SentWrite
    <3> QED BY <1>3, <2>4, <3>1
  <2>6. Carries(e, written', Len(jvmGot), Sound)
    <3>1. \A k \in Len(jvmGot) + 1 .. Sound : k \in 1 .. Sound
      BY <1>2, <1>4
    <3>2. \A k \in Len(jvmGot) + 1 .. Sound : written'[k] = written[k]
      BY <1>7, <3>1
    <3>3. Sound \in Nat
      BY <1>2, <1>4
    <3> QED BY <1>2, <2>2, <3>2, <3>3, CarriesSame
  <2>7. CASE Sound = Len(written) /\ Sound' = Len(written')
    <3>1. Pending' = p.data
      BY <1>1, <1>2, <2>7 DEF Pending
    <3>2. Carries(Cat(e, Bytes(p)), written', Len(jvmGot), Len(written) + 1)
      <4>1. \A k \in Len(jvmGot) + 1 .. Len(written) + 1 : k \in 1 .. Len(written')
        BY <1>2
      <4>2. \A k \in Len(jvmGot) + 1 .. Len(written) + 1 : written'[k] \in Packet
        <5>1. written' \in Seq(Packet)
          BY <1>1, <1>2, AppendProperties
        <5> QED BY <4>1, <5>1, ElementOfSeq
      <4>3. Carries(e, written', Len(jvmGot), Len(written)) /\ Len(jvmGot) <= Len(written)
        BY <2>1, <2>6, <2>7
      <4> QED BY <1>2, <4>2, <4>3, CarriesMore
    <3>3. Cat(Cat(o, h), p.data) = Cat(Cat(e, Bytes(p)), <<>>)
      <4>1. o = e
        BY <2>2, <2>3, <2>7, StrNothing
      <4>2. Cat(Cat(o, h), p.data) = Cat(o, Bytes(p))
        BY <1>3, <2>3, <2>4, StrAssoc DEF Bytes
      <4>3. Str(Cat(e, Bytes(p)))
        BY <1>3, <2>2, CatStr
      <4> QED BY <4>1, <4>2, <4>3, StrNothing
    <3>4. PICK e1 : e1 = Cat(e, Bytes(p))
      OBVIOUS
    <3>5. Str(e1)
      BY <1>3, <2>2, <3>4, CatStr
    <3>6. Carries(e1, written', Len(jvmGot'), Sound') /\ Cat(Cat(o, h), Pending') = Cat(e1, <<>>)
      BY <1>1, <1>2, <2>7, <3>1, <3>2, <3>3, <3>4
    <3> QED BY <2>5, <3>5, <3>6, StrEmpty
  <2>8. CASE Sound' = Sound /\ Sound' # Len(written')
    <3>1. Pending' = <<>>
      BY <2>8 DEF Pending
    <3>2. Cat(Cat(o, h), <<>>) = Cat(e, Cat(y, h)) /\ Str(Cat(y, h))
      <4>1. Cat(Cat(o, h), <<>>) = Cat(Cat(e, y), h)
        BY <1>3, <2>3, <2>4, CatStr, StrNothing
      <4> QED BY <1>3, <2>2, <2>4, <4>1, StrAssoc, CatStr
    <3>3. Carries(e, written', Len(jvmGot'), Sound')
      BY <1>1, <2>6, <2>8
    <3> QED BY <2>2, <2>5, <2>8, <3>1, <3>2, <3>3
  <2> QED BY <1>5, <2>7, <2>8
<1> QED BY <1>8, <1>9 DEF OutInv

\* cse_write_packet writes the data.
LEMMA OutWriteData ==
  ASSUME Types, OutInv, WriteData
  PROVE  OutInv'
<1>1. /\ Write(Last(written).data) /\ mode = "data" /\ mode' # "data"
      /\ UNCHANGED <<written, jvmGot>>
  BY DEF WriteData, jvm
<1>2. Sound' = Sound /\ Pending' = <<>>
  BY <1>1, SoundThen DEF Pending
<1>3. JvmGotOK'
  BY <1>1, <1>2 DEF OutInv, JvmGotOK
<1>4. ForthOK'
  <2> SUFFICES ASSUME Len(jvmGot') <= Sound'
               PROVE  (\E o, e, y :
                         /\ Sent(o) /\ Str(e) /\ Str(y)
                         /\ Carries(e, written, Len(jvmGot), Sound)
                         /\ Cat(o, Pending) = Cat(e, y)
                         /\ Sound = Len(written) => y = <<>>)'
    BY DEF ForthOK
  <2>1. PICK o, e, y :
          /\ Sent(o) /\ Str(e) /\ Str(y)
          /\ Carries(e, written, Len(jvmGot), Sound)
          /\ Cat(o, Pending) = Cat(e, y)
          /\ Sound = Len(written) => y = <<>>
    BY <1>1, <1>2 DEF OutInv, ForthOK
  <2>2. PICK b : b = Last(written).data
    OBVIOUS
  <2>3. Str(b) /\ Str(o) /\ Str(Pending)
    BY <1>1, <2>1, <2>2, PendingIs, SentStr
  <2>4. PICK z : z \in {<<>>, b} /\ (Len(b) <= BufLength => z = b) /\ Sent(Cat(o, z))'
    BY <1>1, <2>1, <2>2, <2>3, SentWrite
  <2>5. Carries(e, written', Len(jvmGot'), Sound')
    BY <1>1, <1>2, <2>1
  <2>6. Str(z) /\ Str(Cat(o, z)) /\ Cat(Cat(o, z), Pending') = Cat(o, z)
    BY <1>2, <2>3, <2>4, StrEmpty, CatStr, StrNothing
  <2>7. CASE Sound = Len(written)
    <3>1. Pending = z
      BY <1>1, <2>2, <2>4, <2>7, PendingIs
    <3>2. Cat(Cat(o, z), Pending') = Cat(e, y)
      BY <2>1, <2>6, <3>1
    <3> QED BY <1>1, <1>2, <2>1, <2>4, <2>5, <3>2
  <2>8. CASE Sound # Len(written)
    <3>1. Pending = <<>>
      BY <2>8 DEF Pending
    <3>2. o = Cat(e, y)
      BY <2>1, <2>3, <3>1, StrNothing
    <3>3. Cat(Cat(o, z), Pending') = Cat(e, Cat(y, z)) /\ Str(Cat(y, z))
      BY <2>1, <2>6, <3>2, StrAssoc, CatStr
    <3>4. Sound' # Len(written')
      BY <1>1, <1>2, <2>8
    <3> QED BY <2>1, <2>4, <2>5, <3>3, <3>4
  <2> QED BY <2>7, <2>8
<1> QED BY <1>3, <1>4 DEF OutInv

\* The first packet of a string that has its bytes: what the JVM takes from it.
LEMMA FirstPacket ==
  ASSUME NEW s, Str(s), NEW x, Str(x), NEW r, Str(r), NEW p \in Packet,
         Cat(s, x) = Cat(Bytes(p), r), Len(s) >= HeaderSize,
         Len(s) >= HeaderSize + Length(s)
  PROVE  LET size == HeaderSize + Length(s)
         IN /\ P(s[1], Suf(Pre(s, size), HeaderSize)) = p
            /\ Str(Suf(s, size)) /\ Cat(Suf(s, size), x) = r
<1>1. /\ Str(Header(p)) /\ Len(Header(p)) = HeaderSize
      /\ Header(p)[1] = p.code /\ Length(Header(p)) = Len(p.data)
      /\ Str(p.data) /\ Str(Bytes(p)) /\ Len(p.data) \in Nat /\ Len(s) \in Nat
  BY HeaderIs, StrLen
<1>2. Bytes(p) = Cat(Header(p), p.data) /\ Len(Bytes(p)) = HeaderSize + Len(p.data)
  BY <1>1, StrCat DEF Bytes
<1>3. Cat(s, x) = Cat(Header(p), Cat(p.data, r)) /\ Str(Cat(p.data, r))
  BY <1>1, <1>2, StrAssoc, CatStr
<1>4. ASSUME NEW i \in 1 .. HeaderSize PROVE s[i] = Header(p)[i]
  <2>1. i \in 1 .. Len(s) /\ i \in 1 .. Len(Header(p))
    BY <1>1 DEF HeaderSize
  <2>2. Cat(s, x)[i] = s[i] /\ Cat(Header(p), Cat(p.data, r))[i] = Header(p)[i]
    BY <1>1, <1>3, <2>1, StrFirst
  <2> QED BY <1>3, <2>2
<1>5. s[1] = p.code /\ Length(s) = Len(p.data)
  <2>1. s[1] = Header(p)[1] /\ s[2] = Header(p)[2] /\ s[3] = Header(p)[3]
        /\ s[4] = Header(p)[4]
    BY <1>4 DEF HeaderSize
  <2> QED BY <1>1, <2>1 DEF Length
<1>6. PICK size : size = HeaderSize + Length(s)
  OBVIOUS
<1>7. size = Len(Bytes(p)) /\ Len(Bytes(p)) <= Len(s)
  BY <1>2, <1>5, <1>6
<1>8. Pre(s, size) = Bytes(p) /\ Str(Suf(s, size)) /\ Cat(Suf(s, size), x) = r
  BY <1>1, <1>7, CutPrefix
<1>9. Suf(Bytes(p), HeaderSize) = p.data
  <2>1. Cat(Bytes(p), <<>>) = Cat(Header(p), p.data)
    BY <1>1, <1>2, StrNothing
  <2>2. Len(Header(p)) <= Len(Bytes(p))
    BY <1>1, <1>2 DEF HeaderSize
  <2>3. /\ Str(Suf(Bytes(p), Len(Header(p))))
        /\ Cat(Suf(Bytes(p), Len(Header(p))), <<>>) = p.data
    BY <1>1, <2>1, <2>2, StrEmpty, CutPrefix
  <2> QED BY <1>1, <2>3, StrNothing
<1>10. P(s[1], Suf(Pre(s, size), HeaderSize)) = p
  BY <1>5, <1>8, <1>9 DEF P, Packet
<1> QED BY <1>6, <1>8, <1>10

\* The JVM reads the next of the packets that count.
LEMMA JReadNext ==
  ASSUME Types, OutInv, JRead
  PROVE  /\ UNCHANGED <<written, mode, open, writeBuf>>
         /\ \E q \in ReadPacket :
              /\ jvmGot' = Append(jvmGot, q)
              /\ Len(jvmGot) < Sound => q = written[Len(jvmGot) + 1]
         /\ Len(jvmGot) = Sound => Sound # Len(written)
         /\ Len(jvmGot) < Sound =>
              \E o, e, y :
                /\ Sent(o)' /\ Str(e) /\ Str(y)
                /\ Carries(e, written, Len(jvmGot) + 1, Sound)
                /\ Cat(o, Pending) = Cat(e, y)
                /\ Sound = Len(written) => y = <<>>
<1>1. /\ UNCHANGED <<written, mode, open, writeBuf>>
      /\ Len(toJvm) >= HeaderSize /\ Len(toJvm) >= HeaderSize + Length(toJvm)
  BY DEF JRead
<1>2. PICK size : size = HeaderSize + Length(toJvm)
  OBVIOUS
<1>3. PICK q : q = P(toJvm[1], Suf(Pre(toJvm, size), HeaderSize))
  OBVIOUS
<1>4. q \in ReadPacket /\ jvmGot' = Append(jvmGot, q) /\ toJvm' = Suf(toJvm, size)
  BY <1>2, <1>3, JReadDoes
<1>5. /\ written \in Seq(Packet) /\ Len(written) \in Nat /\ Len(jvmGot) \in Nat
      /\ Str(toJvm)
  BY LenProperties DEF Types, HistOK, BufsOK
<1>6. Sound \in 0 .. Len(written)
  BY <1>5, SoundIs, SoundThen
<1>7. ASSUME Len(jvmGot) <= Sound
      PROVE  \E x, e, y :
               /\ Str(x) /\ (open => x = writeBuf) /\ Str(e) /\ Str(y)
               /\ Carries(e, written, Len(jvmGot), Sound)
               /\ Cat(toJvm, Cat(x, Pending)) = Cat(e, y)
               /\ Sound = Len(written) => y = <<>>
  <2>1. PICK o, e, y :
          /\ Sent(o) /\ Str(e) /\ Str(y)
          /\ Carries(e, written, Len(jvmGot), Sound)
          /\ Cat(o, Pending) = Cat(e, y)
          /\ Sound = Len(written) => y = <<>>
    BY <1>7 DEF OutInv, ForthOK
  <2>2. PICK x : Str(x) /\ o = Cat(toJvm, x) /\ (open => x = writeBuf)
    BY <2>1 DEF Sent
  <2>3. Cat(toJvm, Cat(x, Pending)) = Cat(e, y)
    BY <1>5, <2>1, <2>2, PendingIs, StrAssoc
  <2> QED BY <2>1, <2>2, <2>3
<1>8. ASSUME Len(jvmGot) = Sound PROVE Sound # Len(written)
  <2> SUFFICES ASSUME Sound = Len(written) PROVE FALSE
    OBVIOUS
  <2>1. PICK x, e, y :
               /\ Str(x) /\ (open => x = writeBuf) /\ Str(e) /\ Str(y)
               /\ Carries(e, written, Len(jvmGot), Sound)
               /\ Cat(toJvm, Cat(x, Pending)) = Cat(e, y)
               /\ Sound = Len(written) => y = <<>>
    BY <1>5, <1>7, <1>8
  <2>2. e = <<>> /\ y = <<>>
    BY <1>5, <1>8, <2>1, CarriesNothing
  <2>3. Len(Cat(toJvm, Cat(x, Pending))) = 0
    BY <2>1, <2>2, StrEmpty, StrNothing
  <2>4. Str(Cat(x, Pending))
    BY <2>1, PendingIs, CatStr
  <2>5. /\ Len(Cat(toJvm, Cat(x, Pending))) = Len(toJvm) + Len(Cat(x, Pending))
        /\ Len(toJvm) \in Nat /\ Len(Cat(x, Pending)) \in Nat
    BY <1>5, <2>4, StrCat, StrLen
  <2> QED BY <1>1, <2>3, <2>5 DEF HeaderSize
<1>9. ASSUME Len(jvmGot) < Sound
      PROVE  /\ q = written[Len(jvmGot) + 1]
             /\ \E o, e, y :
                  /\ Sent(o)' /\ Str(e) /\ Str(y)
                  /\ Carries(e, written, Len(jvmGot) + 1, Sound)
                  /\ Cat(o, Pending) = Cat(e, y)
                  /\ Sound = Len(written) => y = <<>>
  <2>1. PICK x, e, y :
               /\ Str(x) /\ (open => x = writeBuf) /\ Str(e) /\ Str(y)
               /\ Carries(e, written, Len(jvmGot), Sound)
               /\ Cat(toJvm, Cat(x, Pending)) = Cat(e, y)
               /\ Sound = Len(written) => y = <<>>
    BY <1>5, <1>6, <1>7, <1>9
  <2>2. PICK r : /\ Str(r) /\ e = Cat(Bytes(written[Len(jvmGot) + 1]), r)
                 /\ Carries(r, written, Len(jvmGot) + 1, Sound)
    <3>1. Sound \in Nat
      BY <1>5, <1>6
    <3> QED BY <1>5, <1>9, <2>1, <3>1, CarriesFirst
  <2>3. PICK p : p = written[Len(jvmGot) + 1]
    OBVIOUS
  <2>4. p \in Packet
    <3>1. Len(jvmGot) + 1 \in 1 .. Len(written)
      BY <1>5, <1>6, <1>9
    <3> QED BY <1>5, <2>3, <3>1, ElementOfSeq
  <2>5. PICK xp : xp = Cat(x, Pending)
    OBVIOUS
  <2>6. Str(xp) /\ Str(Cat(r, y)) /\ Str(Bytes(p)) /\ Str(Pending)
    BY <2>1, <2>2, <2>4, <2>5, PendingIs, CatStr, HeaderIs
  <2>7. Cat(toJvm, xp) = Cat(Bytes(p), Cat(r, y))
    BY <2>1, <2>2, <2>3, <2>5, <2>6, StrAssoc
  <2>8. q = p /\ Str(toJvm') /\ Cat(toJvm', xp) = Cat(r, y)
    <3>1. LET n == HeaderSize + Length(toJvm)
          IN /\ P(toJvm[1], Suf(Pre(toJvm, n), HeaderSize)) = p
             /\ Str(Suf(toJvm, n)) /\ Cat(Suf(toJvm, n), xp) = Cat(r, y)
      BY <1>1, <1>5, <2>4, <2>6, <2>7, FirstPacket
    <3> QED BY <1>2, <1>3, <1>4, <3>1
  <2>9. PICK o : o = Cat(toJvm', x)
    OBVIOUS
  <2>10. Sent(o)'
    BY <1>1, <2>1, <2>9 DEF Sent
  <2>11. Cat(o, Pending) = Cat(r, y)
    BY <2>1, <2>5, <2>6, <2>8, <2>9, StrAssoc
  <2> QED BY <2>1, <2>2, <2>3, <2>8, <2>10, <2>11
<1> QED BY <1>1, <1>4, <1>8, <1>9

LEMMA OutRead ==
  ASSUME Types, OutInv, JRead
  PROVE  OutInv'
<1>1. PICK q \in ReadPacket :
        /\ jvmGot' = Append(jvmGot, q)
        /\ Len(jvmGot) < Sound => q = written[Len(jvmGot) + 1]
  BY JReadNext
<1>2. /\ UNCHANGED <<written, mode, open, writeBuf>>
      /\ Len(jvmGot) = Sound => Sound # Len(written)
  BY JReadNext
<1>3. /\ Len(jvmGot) \in Nat /\ Len(jvmGot') = Len(jvmGot) + 1
      /\ \A i \in 1 .. Len(jvmGot) : jvmGot'[i] = jvmGot[i]
      /\ jvmGot'[Len(jvmGot) + 1] = q
  BY <1>1, LenProperties, AppendProperties DEF Types, HistOK
<1>4. Sound' = Sound /\ Pending' = Pending /\ Sound \in Nat
  <2>1. written \in Seq(Packet) /\ Len(written) \in Nat
    BY LenProperties DEF Types, HistOK
  <2>2. Sound \in 0 .. Len(written)
    BY <2>1, SoundIs, SoundThen
  <2> QED BY <1>2, <2>1, <2>2, SoundThen DEF Pending
<1>5. JvmGotOK'
  <2>1. (Sound' = Len(written')) => Len(jvmGot') <= Sound'
    BY <1>2, <1>3, <1>4 DEF OutInv, JvmGotOK
  <2>2. ASSUME NEW i \in 1 .. Len(jvmGot'), i <= Sound' PROVE jvmGot'[i] = written'[i]
    <3>1. CASE i = Len(jvmGot) + 1
      <4>1. Len(jvmGot) < Sound
        BY <1>3, <1>4, <2>2, <3>1
      <4> QED BY <1>1, <1>2, <1>3, <3>1, <4>1
    <3>2. CASE i # Len(jvmGot) + 1
      <4>1. i \in 1 .. Len(jvmGot) /\ i <= Sound
        BY <1>3, <1>4, <2>2, <3>2
      <4> QED BY <1>2, <1>3, <4>1 DEF OutInv, JvmGotOK
    <3> QED BY <3>1, <3>2
  <2> QED BY <2>1, <2>2 DEF JvmGotOK
<1>6. ForthOK'
  <2> SUFFICES ASSUME Len(jvmGot') <= Sound'
               PROVE  (\E o, e, y :
                         /\ Sent(o) /\ Str(e) /\ Str(y)
                         /\ Carries(e, written, Len(jvmGot), Sound)
                         /\ Cat(o, Pending) = Cat(e, y)
                         /\ Sound = Len(written) => y = <<>>)'
    BY DEF ForthOK
  <2>1. Len(jvmGot) < Sound
    BY <1>3, <1>4
  <2>2. PICK o, e, y :
                /\ Sent(o)' /\ Str(e) /\ Str(y)
                /\ Carries(e, written, Len(jvmGot) + 1, Sound)
                /\ Cat(o, Pending) = Cat(e, y)
                /\ Sound = Len(written) => y = <<>>
    BY <2>1, JReadNext
  <2> QED BY <1>2, <1>3, <1>4, <2>2
<1> QED BY <1>5, <1>6 DEF OutInv

\* A step keeps what the JVM reads in step with what is written.
LEMMA OutNext ==
  ASSUME Types, OutInv, [Next]_vars
  PROVE  OutInv'
<1>1. ASSUME UNCHANGED <<toJvm, written, jvmGot>>, open' => open /\ UNCHANGED writeBuf,
             mode \in {"read", "post"}, mode' # "data"
      PROVE  OutInv'
  BY <1>1, OutFrame
<1>2. CASE AwaitAck
  BY <1>1, <1>2 DEF AwaitAck, jvm
<1>3. CASE Recv \/ Take \/ HeaderKey \/ HeaderValue \/ Other \/ FlushCrash
  <2>1. /\ UNCHANGED <<toJvm, written, jvmGot, open, writeBuf>> /\ mode = "read"
        /\ mode' \in {"read", "crashed"}
    BY <1>3 DEF Recv, Take, HeaderKey, HeaderValue, Other, FlushCrash, Starved, Whole,
       reader, jvm
  <2> QED BY <1>1, <2>1
<1>4. CASE End \/ EndOfFile \/ FlushFail \/ ReadClosed \/ BrowserGone
  <2>1. /\ UNCHANGED <<toJvm, written, jvmGot, writeBuf>> /\ mode = "read"
        /\ open' => open
        /\ mode' \in {"done", "end", "block"}
    BY <1>4 DEF End, EndOfFile, FlushFail, ReadClosed, BrowserGone, ReadFails, Return,
       Starved, Whole, jvm
  <2> QED BY <1>1, <2>1
<1>5. ASSUME NEW p \in Packet, JAnswer(p) PROVE OutInv'
  BY <1>5, OutFrame DEF JAnswer
<1>6. CASE Reset \/ UNCHANGED vars
  <2>1. UNCHANGED <<toJvm, written, jvmGot, writeBuf, open, mode>>
    BY <1>6 DEF Reset, vars, jvm
  <2> QED BY <2>1, OutFrame
<1>7. CASE Next
  BY <1>2, <1>3, <1>4, <1>5, <1>6, <1>7, OutWritePacket, OutWriteData, OutFlush, OutRead,
     Steps DEF Finished
<1> QED BY <1>6, <1>7

\* The part of a sequence that a packet behind it does not change.
LEMMA AppendBehind ==
  ASSUME NEW S, NEW s \in Seq(S), NEW a \in S, NEW n \in 0 .. Len(s)
  PROVE  /\ SubSeq(s, 1, n) \in Seq(S) /\ Len(SubSeq(s, 1, n)) = n
         /\ \A i \in 1 .. n : SubSeq(s, 1, n)[i] = s[i]
         /\ SubSeq(Append(s, a), 1, n) = SubSeq(s, 1, n)
<1>1. Len(s) \in Nat /\ \A i \in 1 .. Len(s) : s[i] \in S
  BY LenProperties, ElementOfSeq
<1>2. PICK t : t = Append(s, a)
  OBVIOUS
<1>3. /\ Len(t) = Len(s) + 1 /\ t \in Seq(S)
      /\ \A i \in 1 .. Len(s) : t[i] = s[i]
  BY <1>2, AppendProperties
<1>4. \A i \in 1 .. n : i \in 1 .. Len(s) /\ s[i] \in S /\ t[i] \in S
  BY <1>1, <1>3
<1>5. /\ SubSeq(s, 1, n) \in Seq(S) /\ Len(SubSeq(s, 1, n)) = n
      /\ \A i \in 1 .. n : SubSeq(s, 1, n)[i] = s[i]
  BY <1>1, <1>4, SubSeqProperties
<1>6. /\ SubSeq(t, 1, n) \in Seq(S) /\ Len(SubSeq(t, 1, n)) = n
      /\ \A i \in 1 .. n : SubSeq(t, 1, n)[i] = t[i]
  BY <1>1, <1>3, <1>4, SubSeqProperties
<1>7. SubSeq(t, 1, n) = SubSeq(s, 1, n)
  BY <1>3, <1>4, <1>5, <1>6, SeqEqual
<1> QED BY <1>2, <1>5, <1>7

\* Only a packet that is written changes what is written, and only a packet that the
\* JVM reads what it has.
LEMMA WrittenOrNot ==
  ASSUME [Next]_vars
  PROVE  \/ \E p \in Packet : WritePacket(p) /\ UNCHANGED jvmGot
         \/ JRead /\ UNCHANGED written
         \/ UNCHANGED <<written, jvmGot>>
<1>1. ASSUME NEW p \in Packet, JAnswer(p) PROVE UNCHANGED <<written, jvmGot>>
  BY <1>1 DEF JAnswer
<1>2. ASSUME WriteData \/ AwaitAck \/ Flush \/ Recv \/ Take \/ Reads \/ EndOfFile
             \/ FlushFail \/ FlushCrash \/ ReadClosed \/ BrowserGone \/ Reset
             \/ UNCHANGED vars
      PROVE  UNCHANGED <<written, jvmGot>>
  BY <1>2 DEF WriteData, AwaitAck, Flush, Recv, Take, Reads, HeaderKey, HeaderValue,
     Other, End, EndOfFile, FlushFail, FlushCrash, ReadClosed, BrowserGone, ReadFails,
     Reset, vars, reader, jvm
<1>3. ASSUME NEW p \in Packet, WritePacket(p) PROVE UNCHANGED jvmGot
  BY <1>3 DEF WritePacket, jvm
<1>4. JRead => UNCHANGED written
  BY DEF JRead
<1> QED BY <1>1, <1>2, <1>3, <1>4, Steps DEF Reads, Finished

\* What the pipe to the JVM has read.
Reached == SubSeq(jvmGot, 1, IF Len(jvmGot) < Sound THEN Len(jvmGot) ELSE Sound)

\* A step of the stream is a step of the pipe to the JVM, or none.
LEMMA OutStep ==
  ASSUME Types, OutInv, [Next]_vars
  PROVE  [Out!Next]_(Out!vars)
<1>1. /\ written \in Seq(Packet) /\ jvmGot \in Seq(ReadPacket)
      /\ Len(written) \in Nat /\ Len(jvmGot) \in Nat
  BY LenProperties DEF Types, HistOK
<1>2. Sound \in 0 .. Len(written)
  BY <1>1, SoundIs, SoundThen
<1>3. CASE UNCHANGED <<written, jvmGot>>
  <2>1. Sound' = Sound
    BY <1>3, SoundThen
  <2> QED BY <1>3, <2>1 DEF Out!vars
<1>4. ASSUME NEW p \in Packet, WritePacket(p), UNCHANGED jvmGot
      PROVE  [Out!Next]_(Out!vars)
  <2>1. written' = Append(written, p)
    BY <1>4 DEF WritePacket
  <2>2. CASE /\ SoundOf(written) = Len(written)
             /\ SoundOf(Append(written, p)) = Len(written) + 1
    <3>1. Sound = Len(written) /\ Sound' = Len(written) + 1
      BY <2>1, <2>2, SoundThen
    <3>2. SubSeq(written, 1, Sound) = written /\ SubSeq(written', 1, Sound') = written'
      <4>1. written' \in Seq(Packet) /\ Len(written') = Len(written) + 1
        BY <1>1, <2>1, AppendProperties
      <4> QED BY <1>1, <3>1, <4>1, SubSeqFull
    <3>3. Len(jvmGot) <= Sound
      BY <3>1 DEF OutInv, JvmGotOK
    <3>4. Reached' = Reached
      <4>1. (IF Len(jvmGot) < Sound THEN Len(jvmGot) ELSE Sound) = Len(jvmGot)
        BY <1>1, <1>2, <3>3
      <4>2. (IF Len(jvmGot) < Sound' THEN Len(jvmGot) ELSE Sound') = Len(jvmGot)
        BY <1>1, <1>2, <3>1, <3>3
      <4> QED BY <1>4, <4>1, <4>2 DEF Reached
    <3>5. Append(written, p) # written
      BY <1>1, AppendProperties
    <3> QED BY <2>1, <3>2, <3>4, <3>5 DEF Out!Next, Out!Write, Reached
  <2>3. CASE SoundOf(Append(written, p)) = SoundOf(written)
    <3>1. Sound' = Sound
      BY <2>1, <2>3, SoundThen
    <3>2. SubSeq(written', 1, Sound) = SubSeq(written, 1, Sound)
      BY <1>1, <1>2, <2>1, AppendBehind
    <3> QED BY <1>4, <3>1, <3>2 DEF Out!vars
  <2> QED BY <1>1, <2>2, <2>3, SoundAppend
<1>5. CASE JRead /\ UNCHANGED written
  <2>1. PICK q \in ReadPacket :
          /\ jvmGot' = Append(jvmGot, q)
          /\ Len(jvmGot) < Sound => q = written[Len(jvmGot) + 1]
    BY <1>5, JReadNext
  <2>2. Sound' = Sound
    BY <1>5, SoundThen
  <2>3. Len(jvmGot') = Len(jvmGot) + 1 /\ jvmGot' \in Seq(ReadPacket)
    BY <1>1, <2>1, AppendProperties
  <2>4. CASE Len(jvmGot) < Sound
    <3>1. Reached = jvmGot
      BY <1>1, <2>4, SubSeqFull DEF Reached
    <3>2. Reached' = jvmGot'
      <4>1. (IF Len(jvmGot') < Sound' THEN Len(jvmGot') ELSE Sound') = Len(jvmGot')
        BY <1>1, <1>2, <2>2, <2>3, <2>4
      <4> QED BY <2>3, <4>1, SubSeqFull DEF Reached
    <3>3. /\ Len(SubSeq(written, 1, Sound)) = Sound
          /\ SubSeq(written, 1, Sound)[Len(jvmGot) + 1] = written[Len(jvmGot) + 1]
      <4>1. Len(jvmGot) + 1 \in 1 .. Sound /\ Sound \in 1 .. Len(written)
        BY <1>1, <1>2, <2>4
      <4>2. written[Sound] \in Packet
        BY <1>1, <4>1, ElementOfSeq
      <4> QED BY <1>1, <1>2, <4>1, <4>2, AppendBehind
    <3> QED BY <1>5, <2>1, <2>2, <2>4, <3>1, <3>2, <3>3 DEF Out!Next, Out!Read, Reached
  <2>5. CASE ~(Len(jvmGot) < Sound)
    <3>1. /\ (IF Len(jvmGot) < Sound THEN Len(jvmGot) ELSE Sound) = Sound
          /\ (IF Len(jvmGot') < Sound' THEN Len(jvmGot') ELSE Sound') = Sound
          /\ Sound \in 0 .. Len(jvmGot)
      BY <1>1, <1>2, <2>2, <2>3, <2>5
    <3>2. SubSeq(jvmGot', 1, Sound) = SubSeq(jvmGot, 1, Sound)
      BY <1>1, <2>1, <3>1, AppendBehind
    <3>3. Reached' = Reached
      BY <3>1, <3>2 DEF Reached
    <3> QED BY <1>5, <2>2, <3>3 DEF Out!vars, Reached
  <2> QED BY <2>4, <2>5
<1> QED BY <1>3, <1>4, <1>5, WrittenOrNot

LEMMA PipesInit == Init => Out!Init /\ In!Init
<1> SUFFICES ASSUME Init PROVE Out!Init /\ In!Init
  OBVIOUS
<1>1. \A n \in Int : n <= 0 => SubSeq(<<>>, 1, n) = <<>>
  BY SubSeqEmpty
<1>2. Sound = 0 /\ Len(<<>>) = 0
  <2>1. written \in Seq(Packet) /\ Len(written) = 0
    BY StrEmpty, EmptySeq DEF Init
  <2>2. SoundOf(written) \in 0 .. Len(written)
    BY <2>1, SoundIs
  <2> QED BY <2>1, <2>2, StrEmpty, SoundThen
<1>3. SubSeq(written, 1, Sound) = <<>> /\ Reached = <<>>
  BY <1>1, <1>2 DEF Init, Reached
<1> QED BY <1>3 DEF Init, Out!Init, In!Init, Reached

\* A stream implements two pipes of packets, wherever cse_write, cse_flush, send, recv
\* and cse_fill_buffer cut the bytes, whatever fails and whenever: what the JVM reads
\* are the packets of cse_write_packet in order, up to the first that cse_write drops,
\* and what send_data reads are the packets of the JVM.
THEOREM StreamImplementsPipes == Spec => ImplementsPipes
<1> DEFINE IInv == Types /\ InInv /\ OutInv
<1>1. Init => IInv
  BY TypesInit, InInit, OutInit
<1>2. IInv /\ [Next]_vars => IInv'
  BY TypesNext, InNext, OutNext
<1>3. Init => Out!Init /\ In!Init
  BY PipesInit
<1>4. IInv /\ [Next]_vars => [Out!Next]_(Out!vars) /\ [In!Next]_(In!vars)
  BY OutStep, InStep
<1> QED BY <1>1, <1>2, <1>3, <1>4, PTL DEF Spec, ImplementsPipes, Out!Spec, In!Spec

-----------------------------------------------------------------------------
(* The end of a request.                                                    *)

\* CSE_END is the last packet of a request, and its answer is awaited.
EndLast ==
  \A i \in 1 .. Len(written) :
    written[i].code = CSE_END =>
      /\ i = Len(written) /\ mode \in {"data", "read", "done", "crashed"}
      /\ mode = "read" => ack = CSE_END

\* The JVM ends its answer when it has read CSE_END.
EndAnswered ==
  Sound = Len(written) /\ (\E i \in 1 .. Len(answer) : answer[i].code = CSE_END) =>
    \E i \in 1 .. Len(jvmGot) : jvmGot[i].code = CSE_END

DoneOK ==
  mode = "done" /\ result = CSE_END /\ Sound = Len(written) =>
    /\ writeBuf = <<>> /\ readBuf = <<>> /\ toJvm = <<>> /\ toApache = <<>>
    /\ JEnded

EndInv == EndLast /\ EndAnswered /\ DoneOK

LEMMA CatEmpty ==
  ASSUME NEW s, NEW t, Str(s), Str(t), Cat(s, t) = <<>>
  PROVE  s = <<>> /\ t = <<>>
<1>1. Len(s) + Len(t) = 0 /\ Len(s) \in Nat /\ Len(t) \in Nat
  BY StrCat, StrLen, StrEmpty
<1>2. Len(s) = 0 /\ Len(t) = 0
  BY <1>1
<1> QED BY <1>2, StrLen

\* When the JVM has ended its answer, nothing is on the way to it.
LEMMA EndedMeansRead ==
  ASSUME Types, OutInv, EndInv, Sound = Len(written),
         NEW i \in 1 .. Len(answer), answer[i].code = CSE_END
  PROVE  toJvm = <<>> /\ (open => writeBuf = <<>>)
<1>1. PICK k \in 1 .. Len(jvmGot) : jvmGot[k].code = CSE_END
  BY DEF EndInv, EndAnswered
<1>2. /\ written \in Seq(Packet) /\ Len(written) \in Nat /\ Len(jvmGot) \in Nat
      /\ Str(toJvm)
  BY LenProperties DEF Types, HistOK, BufsOK
<1>3. Len(jvmGot) <= Sound
  BY DEF OutInv, JvmGotOK
<1>4. k \in 1 .. Len(written) /\ k <= Sound
  BY <1>2, <1>3
<1>5. k = Len(written)
  BY <1>1, <1>4 DEF OutInv, JvmGotOK, EndInv, EndLast
<1>6. Len(jvmGot) = Sound
  BY <1>2, <1>3, <1>5
<1>7. PICK o, e, y :
        /\ Sent(o) /\ Str(e) /\ Str(y)
        /\ Carries(e, written, Len(jvmGot), Sound)
        /\ Cat(o, Pending) = Cat(e, y)
        /\ Sound = Len(written) => y = <<>>
  BY <1>3 DEF OutInv, ForthOK
<1>8. e = <<>> /\ y = <<>>
  BY <1>2, <1>6, <1>7, CarriesNothing
<1>9. o = <<>>
  <2>1. Cat(o, Pending) = <<>>
    BY <1>7, <1>8, StrNothing
  <2> QED BY <1>7, <2>1, CatEmpty, SentStr, PendingIs
<1>10. PICK x : Str(x) /\ o = Cat(toJvm, x) /\ (open => x = writeBuf)
  BY <1>7 DEF Sent
<1>11. toJvm = <<>> /\ x = <<>>
  BY <1>2, <1>9, <1>10, CatEmpty
<1> QED BY <1>10, <1>11

LEMMA EndInit == Init => EndInv
<1> SUFFICES ASSUME Init PROVE EndInv
  OBVIOUS
<1>1. Len(written) = 0 /\ Len(answer) = 0 /\ mode = "env"
  BY StrEmpty DEF Init
<1> QED BY <1>1 DEF EndInv, EndLast, EndAnswered, DoneOK

\* What is counted is there.
LEMMA Counted ==
  ASSUME NEW s, NEW S, s \in Seq(S), NEW code, Count(s, code) > 0
  PROVE  \E i \in 1 .. Len(s) : s[i].code = code
<1> SUFFICES ASSUME \A i \in 1 .. Len(s) : s[i].code # code PROVE FALSE
  OBVIOUS
<1>1. {i \in DOMAIN s : s[i].code = code} = {}
  BY LenProperties
<1>2. Count(s, code) = 0
  BY <1>1, FS_EmptySet DEF Count
<1> QED BY <1>2

LEMMA EndLastNext ==
  ASSUME Types, EndInv, [Next]_vars
  PROVE  EndLast'
<1>1. written \in Seq(Packet) /\ Len(written) \in Nat
  BY LenProperties DEF Types, HistOK
<1>2. ASSUME UNCHANGED <<written, mode, ack>> PROVE EndLast'
  BY <1>2 DEF EndInv, EndLast
<1>3. ASSUME NEW p \in Packet, WritePacket(p) PROVE EndLast'
  <2>1. written' = Append(written, p) /\ mode' = "data"
        /\ mode \notin {"data", "read", "done", "crashed"}
    BY <1>3 DEF WritePacket, Codes
  <2>2. /\ Len(written') = Len(written) + 1
        /\ \A i \in 1 .. Len(written) : written'[i] = written[i]
    BY <1>1, <2>1, AppendProperties
  <2>3. ASSUME NEW i \in 1 .. Len(written'), written'[i].code = CSE_END
        PROVE  i = Len(written')
    <3>1. i \in 1 .. Len(written) \/ i = Len(written')
      BY <1>1, <2>2
    <3>2. i \in 1 .. Len(written) => written[i].code = CSE_END
      BY <2>2, <2>3
    <3> QED BY <2>1, <3>1, <3>2 DEF EndInv, EndLast
  <2> QED BY <2>1, <2>3 DEF EndLast
<1>4. CASE WriteData
  <2>1. /\ UNCHANGED written
        /\ written[Len(written)].code = CSE_END => mode' = "read" /\ ack' = CSE_END
    BY <1>4 DEF WriteData, Last, CSE_END, CSE_DATA
  <2> QED BY <2>1 DEF EndInv, EndLast
<1>5. CASE AwaitAck
  <2>1. UNCHANGED written /\ mode = "post"
    BY <1>5 DEF AwaitAck
  <2> QED BY <2>1 DEF EndInv, EndLast
<1>6. CASE End \/ EndOfFile \/ FlushFail \/ ReadClosed \/ BrowserGone \/ FlushCrash
  <2>1. /\ UNCHANGED <<written, ack>> /\ mode = "read"
        /\ ack = CSE_END => mode' \in {"done", "crashed"}
    BY <1>6 DEF End, EndOfFile, FlushFail, ReadClosed, BrowserGone, FlushCrash, ReadFails,
       Return, Starved, Whole, reader
  <2> QED BY <2>1 DEF EndInv, EndLast
<1>7. CASE Flush \/ Recv \/ Take \/ HeaderKey \/ HeaderValue \/ Other \/ JRead \/ Reset
           \/ UNCHANGED vars
  BY <1>2, <1>7 DEF Flush, Recv, Take, HeaderKey, HeaderValue, Other, JRead, Reset, vars,
     reader
<1>8. ASSUME NEW p \in Packet, JAnswer(p) PROVE EndLast'
  BY <1>2, <1>8 DEF JAnswer, reader
<1>9. CASE Next
  BY <1>3, <1>4, <1>5, <1>6, <1>7, <1>8, <1>9, Steps DEF Finished
<1> QED BY <1>7, <1>9

LEMMA EndAnsweredNext ==
  ASSUME Types, Types', EndInv, [Next]_vars
  PROVE  EndAnswered'
<1>1. /\ written \in Seq(Packet) /\ answer \in Seq(Packet) /\ jvmGot \in Seq(ReadPacket)
      /\ Len(written) \in Nat /\ Len(answer) \in Nat /\ Len(jvmGot) \in Nat
  BY LenProperties DEF Types, HistOK
<1>2. Sound \in 0 .. Len(written)
  BY <1>1, SoundIs, SoundThen
<1> DEFINE Asked == \E i \in 1 .. Len(jvmGot) : jvmGot[i].code = CSE_END
           Ended == \E i \in 1 .. Len(answer) : answer[i].code = CSE_END
<1>3. ASSUME Sound' = Len(written') => Sound = Len(written),
             Ended' => Ended \/ Asked, Asked => Asked'
      PROVE  EndAnswered'
  BY <1>3 DEF EndInv, EndAnswered
<1>4. Sound' = Len(written') => Sound = Len(written)
  <2>1. CASE UNCHANGED written
    BY <2>1, SoundThen
  <2>2. ASSUME NEW p \in Packet, WritePacket(p)
        PROVE  Sound' = Len(written') => Sound = Len(written)
    <3>1. written' = Append(written, p) /\ Len(written') = Len(written) + 1
      BY <1>1, <2>2, AppendProperties DEF WritePacket
    <3>2. SoundOf(written) = Len(written) \/ SoundOf(written') = SoundOf(written)
      BY <1>1, <3>1, SoundAppend
    <3>3. Sound # Len(written')
      BY <1>1, <1>2, <3>1
    <3> QED BY <3>2, <3>3, SoundThen
  <2> QED BY <2>1, <2>2, WrittenOrNot
<1>5. Asked => Asked'
  <2>1. CASE UNCHANGED jvmGot
    BY <2>1
  <2>2. ASSUME NEW q \in ReadPacket, jvmGot' = Append(jvmGot, q) PROVE Asked => Asked'
    <3>1. /\ Len(jvmGot') = Len(jvmGot) + 1
          /\ \A i \in 1 .. Len(jvmGot) : jvmGot'[i] = jvmGot[i]
      BY <1>1, <2>2, AppendProperties
    <3>2. \A i \in 1 .. Len(jvmGot) : i \in 1 .. Len(jvmGot')
      BY <1>1, <3>1
    <3> QED BY <3>1, <3>2
  <2>3. JRead => \E q \in ReadPacket : jvmGot' = Append(jvmGot, q)
    BY JReadDoes
  <2> QED BY <2>1, <2>2, <2>3, WrittenOrNot
<1>6. Ended' => Ended \/ Asked
  <2>1. CASE UNCHANGED answer
    BY <2>1
  <2>2. ASSUME NEW p \in Packet, JAnswer(p) PROVE Ended' => Ended \/ Asked
    <3>1. answer' = Append(answer, p) /\ p.code \in JCodes
      BY <2>2 DEF JAnswer
    <3>2. /\ Len(answer') = Len(answer) + 1 /\ answer'[Len(answer) + 1] = p
          /\ \A i \in 1 .. Len(answer) : answer'[i] = answer[i]
      BY <1>1, <3>1, AppendProperties
    <3>3. p.code = CSE_END => Count(jvmGot, CSE_END) > 0
      BY <3>1 DEF JCodes, CSE_END, CSE_VALUE, CSE_CLOSE, CSE_SEND_HEADER, CSE_HEADER,
         CSE_DATA, CSE_ACK
    <3>4. p.code = CSE_END => Asked
      BY <1>1, <3>3, Counted
    <3>5. \A i \in 1 .. Len(answer') : i \in 1 .. Len(answer) \/ i = Len(answer) + 1
      BY <1>1, <3>2
    <3> HIDE DEF Asked
    <3> QED BY <3>2, <3>4, <3>5
  <2>3. Reads => UNCHANGED answer
    BY DEF Reads, HeaderKey, HeaderValue, Other, End, jvm
  <2> QED BY <2>1, <2>2, <2>3, ReadOrNot
<1> HIDE DEF Asked, Ended
<1> QED BY <1>3, <1>4, <1>5, <1>6

\* send_data has read CSE_END: it was the last packet of the answer.
LEMMA EndDone ==
  ASSUME Types, InInv, OutInv, EndInv, End
  PROVE  DoneOK'
<1> SUFFICES ASSUME result' = CSE_END, Sound' = Len(written')
             PROVE  (/\ writeBuf = <<>> /\ readBuf = <<>> /\ toJvm = <<>>
                     /\ toApache = <<>> /\ JEnded)'
  BY DEF DoneOK
<1>1. /\ UNCHANGED <<written, writeBuf, open, readBuf, toJvm, toApache, reset, answer>>
      /\ result' = rd.hdr[1] /\ rd' = Start("packet", <<>>) /\ Reads
  BY DEF End, Return, Reads, jvm
<1>2. /\ Len(got) < Len(answer) /\ P(rd.hdr[1], rd.text) = answer[Len(got) + 1]
      /\ Whole /\ got' = Packed /\ InInv'
  BY <1>1, ReadsDoes
<1>3. /\ Len(got) \in Nat /\ Len(answer) \in Nat /\ got \in Seq(ReadPacket)
      /\ P(rd.hdr[1], rd.text) \in ReadPacket /\ open
      /\ Str(readBuf) /\ Str(toApache)
  BY <1>2, LenProperties, WholeIs DEF Types, HistOK, BufsOK
<1>4. answer[Len(got) + 1].code = CSE_END
  BY <1>1, <1>2 DEF P
<1>5. Len(got) + 1 \in 1 .. Len(answer)
  BY <1>2, <1>3
<1>6. Len(got) + 1 = Len(answer)
  BY <1>4, <1>5 DEF InInv, AnswerOK
<1>7. Len(got') = Len(answer)
  <2>1. Len(got') = Len(got) + 1
    BY <1>2, <1>3, AppendProperties DEF Packed
  <2> QED BY <1>6, <2>1
<1>8. readBuf = <<>> /\ toApache = <<>>
  <2>1. PICK lost : /\ Str(lost)
                    /\ Carries(Back(lost)', answer', Len(got'), Len(answer'))
    BY <1>1, <1>2, <1>3 DEF InInv, BackOK
  <2>2. Back(lost)' = <<>>
    BY <1>1, <1>3, <1>7, <2>1, CarriesNothing
  <2>3. Back(lost)' = Cat(<<>>, Cat(<<>>, Cat(readBuf, Cat(toApache, lost))))
    BY <1>1, StartIs DEF Back
  <2>4. Str(Cat(toApache, lost)) /\ Str(Cat(readBuf, Cat(toApache, lost)))
    BY <2>1, BehindStr
  <2>5. Cat(readBuf, Cat(toApache, lost)) = <<>>
    BY <2>2, <2>3, <2>4, StrNothing, StrEmpty, CatStr
  <2>6. readBuf = <<>> /\ Cat(toApache, lost) = <<>>
    BY <1>3, <2>4, <2>5, CatEmpty
  <2> QED BY <1>3, <2>1, <2>6, CatEmpty
<1>9. toJvm = <<>> /\ writeBuf = <<>>
  <2>1. Sound = Len(written)
    BY <1>1, SoundThen
  <2> QED BY <1>3, <1>4, <1>5, <2>1, EndedMeansRead
<1>10. JEnded
  <2>1. Last(answer).code = CSE_END
    BY <1>4, <1>6 DEF Last
  <2>2. answer # <<>>
    BY <1>2, <1>3, StrEmpty
  <2> QED BY <2>1, <2>2 DEF JEnded
<1> QED BY <1>1, <1>8, <1>9, <1>10 DEF JEnded

\* Behind the header of CSE_END there is nothing to wait for, and before it
\* nothing is left to flush: a read that fails does not return CSE_END.
LEMMA FailsDone ==
  ASSUME Types, InInv, OutInv, EndInv, EndOfFile \/ FlushFail
  PROVE  DoneOK'
<1> SUFFICES ASSUME result' = CSE_END, Sound' = Len(written')
             PROVE  FALSE
  BY DEF DoneOK
<1>1. UNCHANGED written /\ mode = "read" /\ open /\ Wanted > 0
  BY DEF EndOfFile, FlushFail, ReadFails, Starved
<1>2. CASE EndOfFile
  <2>1. Len(rd.hdr) = HeaderSize /\ rd.hdr[1] = CSE_END
    BY <1>2 DEF EndOfFile, ReadFails, Return, Failed, CSE_END
  <2>2. rd.hdr # <<>>
    BY <2>1, StrEmpty DEF HeaderSize
  <2>3. /\ Len(got) < Len(answer) /\ rd.hdr[1] = answer[Len(got) + 1].code
        /\ rd.hdr = Header(answer[Len(got) + 1])
    BY <1>1, <2>1, <2>2, ReadingFirst
  <2>4. /\ Len(got) + 1 \in 1 .. Len(answer) /\ answer[Len(got) + 1] \in Packet
    <3>1. answer \in Seq(Packet) /\ Len(answer) \in Nat /\ Len(got) \in Nat
      BY LenProperties DEF Types, HistOK
    <3>2. Len(got) + 1 \in 1 .. Len(answer)
      BY <2>3, <3>1
    <3> QED BY <3>1, <3>2, ElementOfSeq
  <2>5. Length(rd.hdr) = 0
    <3>1. answer[Len(got) + 1].data = <<>>
      BY <2>1, <2>3, <2>4 DEF InInv, AnswerOK, CSE_END, CSE_HEADER, CSE_VALUE, CSE_DATA
    <3> QED BY <2>3, <2>4, <3>1, HeaderIs, StrEmpty
  <2>6. Len(rd.text) + rd.need = 0
    BY <1>1, <2>1, <2>5 DEF InInv, NeedOK
  <2>7. Wanted = rd.need
    BY <2>1 DEF Wanted, HeaderSize
  <2>8. Len(rd.text) \in Nat /\ rd.need \in Nat
    BY StrLen DEF Types, RdOK
  <2> QED BY <1>1, <2>6, <2>7, <2>8
<1>3. CASE FlushFail
  <2>1. rd.hdr # <<>> /\ rd.hdr[1] = CSE_END /\ writeBuf # <<>>
    BY <1>3 DEF FlushFail, ReadFails, Return, Failed, CSE_END
  <2>2. Len(got) < Len(answer) /\ rd.hdr[1] = answer[Len(got) + 1].code
    BY <1>1, <2>1, ReadingFirst
  <2>3. Len(got) + 1 \in 1 .. Len(answer)
    BY <2>2, LenProperties DEF Types, HistOK
  <2>4. Sound = Len(written)
    BY <1>1, SoundThen
  <2> QED BY <1>1, <2>1, <2>2, <2>3, <2>4, EndedMeansRead
<1> QED BY <1>2, <1>3

LEMMA DoneNext ==
  ASSUME Types, InInv, OutInv, EndInv, [Next]_vars
  PROVE  DoneOK'
<1>1. ASSUME mode' # "done" \/ result' # CSE_END PROVE DoneOK'
  BY <1>1 DEF DoneOK
<1>2. ASSUME NEW p \in Packet, WritePacket(p) PROVE DoneOK'
  BY <1>1, <1>2 DEF WritePacket
<1>3. CASE WriteData \/ AwaitAck \/ Flush \/ Recv \/ Take \/ HeaderKey \/ HeaderValue
           \/ Other \/ FlushCrash
  <2>1. mode' # "done"
    BY <1>3 DEF WriteData, AwaitAck, Flush, Recv, Take, HeaderKey, HeaderValue, Other,
       FlushCrash, Starved, Whole
  <2> QED BY <1>1, <2>1
<1>4. CASE ReadClosed \/ BrowserGone
  <2>1. result' # CSE_END
    BY <1>4 DEF ReadClosed, BrowserGone, Return, Failed, CSE_END
  <2> QED BY <1>1, <2>1
<1>5. ASSUME UNCHANGED <<mode, result, written, writeBuf, readBuf, answer>>,
             toJvm = <<>> /\ toApache = <<>> /\ JEnded => toJvm' = <<>> /\ toApache' = <<>>
      PROVE  DoneOK'
  <2>1. Sound' = Sound
    BY <1>5, SoundThen
  <2> QED BY <1>5, <2>1 DEF EndInv, DoneOK, JEnded
<1>6. CASE JRead
  <2>1. toJvm # <<>>
    <3>1. Len(toJvm) >= HeaderSize
      BY <1>6 DEF JRead
    <3> QED BY <3>1, StrEmpty DEF HeaderSize
  <2> QED BY <1>5, <1>6, <2>1 DEF JRead, reader
<1>7. CASE Reset \/ UNCHANGED vars
  BY <1>5, <1>7 DEF Reset, vars, reader, jvm
<1>8. ASSUME NEW p \in Packet, JAnswer(p) PROVE DoneOK'
  <2>1. /\ UNCHANGED <<mode, result, written>> /\ ~JEnded
    BY <1>8 DEF JAnswer, reader
  <2>2. Sound' = Sound
    BY <2>1, SoundThen
  <2> QED BY <1>1, <2>1, <2>2 DEF EndInv, DoneOK
<1>9. CASE Next
  BY <1>2, <1>3, <1>4, <1>6, <1>7, <1>8, <1>9, EndDone, FailsDone, Steps DEF Finished
<1> QED BY <1>7, <1>9

\* A request that ends with CSE_END leaves nothing in the buffers and nothing on the
\* way, unless cse_write dropped data: the connection can be used again.
THEOREM StreamEndInStep == Spec => []EndInStep
<1> DEFINE IInv == Types /\ InInv /\ OutInv /\ EndInv
<1>1. Init => IInv
  BY TypesInit, InInit, OutInit, EndInit
<1>2. IInv /\ [Next]_vars => IInv'
  BY TypesNext, InNext, OutNext, EndLastNext, EndAnsweredNext, DoneNext DEF EndInv
<1>3. IInv => EndInStep
  BY DEF EndInv, DoneOK, EndInStep
<1> QED BY <1>1, <1>2, <1>3, PTL DEF Spec

=============================================================================
