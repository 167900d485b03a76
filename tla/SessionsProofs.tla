---------------------------- MODULE SessionsProofs ----------------------------
(***************************************************************************)
(* Proofs about Sessions, for requests with any number of headers, ints of *)
(* any size and client addresses of any length: the walk starts inside     *)
(* srun_list, and at the srun of the session.                              *)
(***************************************************************************)
EXTENDS Sessions, Iteration, SequenceTheorems

-----------------------------------------------------------------------------
(* The characters of a session.                                             *)

\* decode_session accepts the characters that the JVM uses, and only those.
LEMMA Digits ==
  ASSUME NEW c \in 0 .. 127
  PROVE  Digit(c) \in -1 .. 63 /\ (Digit(c) >= 0 <=> c \in Letters)
<1>1. Digit(c) \in -1 .. 63
  BY DEF Digit
<1>2. ASSUME c \in Letters PROVE Digit(c) >= 0
  <2>1. PICK n \in 0 .. 63 : c = Letter(n)
    BY <1>2 DEF Letters
  <2> QED
    BY <2>1 DEF Letter, Digit
<1>3. ASSUME Digit(c) >= 0 PROVE c \in Letters
  <2>1. c \in 97 .. 122 \/ c \in 65 .. 90 \/ c \in 48 .. 57 \/ c = 95 \/ c = 47
    BY <1>3 DEF Digit
  <2>2. \A n \in 0 .. 63 : Letter(n) \in Letters
    BY DEF Letters
  <2>3. CASE c \in 97 .. 122
    <3>1. c - 97 \in 0 .. 63 /\ Letter(c - 97) = c
      BY <2>3 DEF Letter
    <3> QED
      BY <3>1, <2>2
  <2>4. CASE c \in 65 .. 90
    <3>1. c - 65 + 26 \in 0 .. 63 /\ Letter(c - 65 + 26) = c
      BY <2>4 DEF Letter
    <3> QED
      BY <3>1, <2>2
  <2>5. CASE c \in 48 .. 57
    <3>1. c - 48 + 52 \in 0 .. 63 /\ Letter(c - 48 + 52) = c
      BY <2>5 DEF Letter
    <3> QED
      BY <3>1, <2>2
  <2>6. CASE c = 95
    <3>1. Letter(62) = c
      BY <2>6 DEF Letter
    <3> QED
      BY <3>1, <2>2
  <2>7. CASE c = 47
    <3>1. Letter(63) = c
      BY <2>7 DEF Letter
    <3> QED
      BY <3>1, <2>2
  <2> QED
    BY <2>1, <2>3, <2>4, <2>5, <2>6, <2>7
<1> QED
  BY <1>1, <1>2, <1>3

\* A session index is found where there is a session, and only there.
LEMMA SessionFound ==
  ASSUME NEW d \in Id \cup {NoId}
  PROVE  /\ SessionFromString(d) \in Int
         /\ SessionFromString(d) >= 0 <=> IsId(d)
<1>1. CASE d = NoId
  BY <1>1 DEF SessionFromString, IsId
<1>2. CASE d # NoId
  <2>1. d \in [1 .. 3 -> 0 .. 127]
    BY <1>2, SessionsAssumption
  <2>2. \A k \in 1 .. 3 : d[k] \in 0 .. 127
    BY <2>1
  <2>3. \A k \in 1 .. 3 : Digit(d[k]) \in -1 .. 63
                          /\ (Digit(d[k]) >= 0 <=> d[k] \in Letters)
    BY <2>2, Digits
  <2>4. (\E k \in 1 .. 3 : Digit(d[k]) < 0) <=> ~IsId(d)
    BY <2>3, <1>2 DEF IsId
  <2>5. CASE IsId(d)
    <3>1. Digit(d[1]) \in 0 .. 63 /\ Digit(d[2]) \in 0 .. 63
          /\ Digit(d[3]) \in 0 .. 63
      BY <2>3, <2>5 DEF IsId
    <3>2. DecodeSession(d)
            = Digit(d[1]) + 64 * (Digit(d[2]) + 64 * Digit(d[3]))
      BY <2>4, <2>5 DEF DecodeSession
    <3>3. DecodeSession(d) \in Int /\ DecodeSession(d) >= 0
      <4>1. \A a, b, c \in 0 .. 63 : a + 64 * (b + 64 * c) \in Nat
        OBVIOUS
      <4>2. Digit(d[1]) + 64 * (Digit(d[2]) + 64 * Digit(d[3])) \in Nat
        BY <3>1, <4>1
      <4> QED
        BY <3>2, <4>2
    <3>4. SessionFromString(d) = DecodeSession(d)
      BY <1>2 DEF SessionFromString
    <3> QED
      BY <2>5, <3>3, <3>4
  <2>6. CASE ~IsId(d)
    BY <1>2, <2>4, <2>6 DEF SessionFromString, DecodeSession
  <2> QED
    BY <2>5, <2>6
<1> QED
  BY <1>1, <1>2

\* The session of srun n is decoded to n, for the first 52 sruns: the value of
\* a digit is 17 less than the position of its character.
LEMMA DecodeEncode ==
  ASSUME NEW n \in 0 .. 51
  PROVE  /\ Encode(n) \in [1 .. 3 -> 0 .. 127] /\ IsId(Encode(n))
         /\ SessionFromString(Encode(n)) = n
<1>1. n % 64 = n /\ (n \div 64) % 64 = 0 /\ n \div 4096 = 0
  OBVIOUS
<1> DEFINE e == <<Letter(n), Letter(0), Letter(0)>>
<1>2. Encode(n) = e
  BY <1>1 DEF Encode
<1>3. Letter(n) \in 0 .. 127 /\ Letter(0) \in 0 .. 127
      /\ Digit(Letter(n)) = n /\ Digit(Letter(0)) = 0
      /\ Letter(n) \in Letters /\ Letter(0) \in Letters
  <2>1. Letter(n) \in 0 .. 127 /\ Letter(0) \in 0 .. 127
    BY DEF Letter
  <2>2. Digit(Letter(n)) = n /\ Digit(Letter(0)) = 0
    BY DEF Letter, Digit
  <2>3. Letter(n) \in Letters /\ Letter(0) \in Letters
    BY DEF Letters
  <2> QED
    BY <2>1, <2>2, <2>3
<1>4. /\ e \in [1 .. 3 -> 0 .. 127]
      /\ e[1] = Letter(n) /\ e[2] = Letter(0) /\ e[3] = Letter(0)
  BY <1>3
<1> HIDE DEF e
<1>5. \A k \in 1 .. 3 : e[k] \in Letters /\ Digit(e[k]) \in 0 .. 51
  BY <1>3, <1>4
<1>6. e # NoId /\ IsId(e)
  <2>1. e # NoId
    BY <1>4, SessionsAssumption
  <2> QED
    BY <1>5, <2>1 DEF IsId
<1>7. ~ \E k \in 1 .. 3 : Digit(e[k]) < 0
  BY <1>5
<1>8. DecodeSession(e) = Digit(e[1]) + 64 * (Digit(e[2]) + 64 * Digit(e[3]))
  BY <1>7 DEF DecodeSession
<1>9. DecodeSession(e) = n
  BY <1>3, <1>4, <1>8
<1> QED
  BY <1>2, <1>4, <1>6, <1>9 DEF SessionFromString

-----------------------------------------------------------------------------
(* random_host.                                                             *)

LEMMA IntMaxNat == IntMax \in Nat
BY SessionsAssumption

LEMMA Wraps == ASSUME NEW n \in Int PROVE Wrap(n) \in INT
<1> USE IntMaxNat
<1>1. 2 * IntMax + 2 \in Nat /\ 2 * IntMax + 2 > 0
  OBVIOUS
<1>2. (n + IntMax + 1) % (2 * IntMax + 2) \in 0 .. (2 * IntMax + 2) - 1
  BY <1>1
<1> QED
  BY <1>2 DEF Wrap, INT

LEMMA INTisInt == INT \subseteq Int /\ 0 \in INT
BY IntMaxNat DEF INT

\* The loop over an address of any length stays within the ints.
LEMMA MixedIsInt ==
  ASSUME NEW ip \in Seq(0 .. 127), NEW start \in INT
  PROVE  Mixed(start, ip) \in INT
<1> DEFINE N == Len(ip)
           F == [p \in INT \X (1 .. N) |-> Mix(p[1], ip[p[2]])]
<1>1. N \in Nat /\ \A k \in 1 .. N : ip[k] \in 0 .. 127
  BY LenProperties, ElementOfSeq
<1>2. F \in [INT \X (1 .. N) -> INT]
  <2>1. ASSUME NEW p \in INT \X (1 .. N) PROVE Mix(p[1], ip[p[2]]) \in INT
    <3>1. p[1] \in Int /\ ip[p[2]] \in 0 .. 127
      BY <1>1, INTisInt
    <3>2. 23 * p[1] + ip[p[2]] \in Int
      <4>1. \A v \in Int, c \in 0 .. 127 : 23 * v + c \in Int
        OBVIOUS
      <4> QED
        BY <3>1, <4>1
    <3> QED
      BY <3>2, Wraps DEF Mix
  <2> QED
    BY <2>1
<1>3. \A v \in INT, k \in 1 .. N : F[<<v, k>>] = Mix(v, ip[k])
  OBVIOUS
<1> HIDE DEF F
<1>4. PICK g \in [0 .. N -> INT] :
         g[0] = start /\ \A k \in 1 .. N : g[k] = F[<<g[k - 1], k>>]
  <2>1. \E g : Loop(g, N, INT, start, F)
    <3> HIDE DEF N
    <3> QED
      BY <1>1, <1>2, Iterates
  <2> QED
    BY <2>1 DEF Loop
<1> DEFINE Step(n) == [k \in 0 .. N |->
                         IF k = 0 THEN start ELSE Mix(n[k - 1], ip[k])]
           m == CHOOSE n : n = Step(n)
<1>5. g = Step(g)
  <2>1. ASSUME NEW k \in 0 .. N PROVE g[k] = Step(g)[k]
    <3>1. CASE k = 0
      BY <3>1, <1>4
    <3>2. CASE k # 0
      <4>1. k \in 1 .. N /\ g[k - 1] \in INT
        BY <3>2, <1>1
      <4> QED
        BY <4>1, <3>2, <1>3, <1>4
    <3> QED
      BY <3>1, <3>2
  <2> QED
    BY <2>1
<1>6. m = Step(m)
  BY <1>5
<1> HIDE DEF m
<1>7. m[0] = start /\ \A k \in 1 .. N : m[k] = Mix(m[k - 1], ip[k])
  <2>1. \A k \in 0 .. N : m[k] = IF k = 0 THEN start ELSE Mix(m[k - 1], ip[k])
    BY <1>6, Zenon
  <2> QED
    BY <1>1, <2>1
<1> DEFINE D == {k \in Nat : k <= N => m[k] \in INT}
<1>8. 0 \in D
  BY <1>7
<1>9. ASSUME NEW k \in Nat, k \in D PROVE k + 1 \in D
  <2> SUFFICES ASSUME k + 1 <= N PROVE m[k + 1] \in INT
    OBVIOUS
  <2>1. k + 1 \in 1 .. N /\ (k + 1) - 1 = k /\ m[k] \in INT
    BY <1>1, <1>9
  <2>2. m[k + 1] = Mix(m[k], ip[k + 1])
    BY <1>7, <2>1
  <2>3. 23 * m[k] + ip[k + 1] \in Int
    BY <1>1, <2>1, INTisInt, SMTT(30)
  <2> QED
    BY <2>2, <2>3, Wraps DEF Mix
<1>10. N \in D
  <2> HIDE DEF D
  <2> QED
    BY <1>1, <1>8, <1>9, SetInduction
<1> QED
  BY <1>1, <1>10 DEF Mixed, m

\* random_host returns an int for every client, and the remainder that
\* open_connection takes of it is an index into srun_list.
LEMMA HashInRange ==
  ASSUME NEW ip \in Ip, NEW time \in Time, NEW rand \in Rand, g_count \in INT
  PROVE  HostIndex(RandomHost(ip, time, rand)) \in Srun
<1> DEFINE n == Mixed(Mix(Wrap(time * 23 + g_count), rand), ip)
<1>1. g_count \in Int /\ time \in Nat /\ rand \in Nat /\ ip \in Seq(0 .. 127)
  BY SessionsAssumption, INTisInt
<1>2. Wrap(time * 23 + g_count) \in Int
  <2>1. time * 23 + g_count \in Int
    BY <1>1
  <2> QED
    BY <2>1, Wraps, INTisInt
<1>3. Mix(Wrap(time * 23 + g_count), rand) \in INT
  <2>1. 23 * Wrap(time * 23 + g_count) + rand \in Int
    BY <1>1, <1>2
  <2> QED
    BY <2>1, Wraps DEF Mix
<1>4. n \in Int
  BY <1>1, <1>3, MixedIsInt, INTisInt
<1>5. RandomHost(ip, time, rand) = IF n < 0 THEN Wrap(-n) ELSE n
  BY DEF RandomHost
<1> HIDE DEF n
<1>6. RandomHost(ip, time, rand) \in Int
  <2>1. -n \in Int
    BY <1>4
  <2>2. Wrap(-n) \in Int
    BY <2>1, Wraps, INTisInt
  <2> QED
    BY <1>4, <1>5, <2>2
<1>7. ASSUME NEW r \in Int PROVE HostIndex(r) \in Srun
  <2>1. SrunSize \in Nat /\ SrunSize > 0
    BY SrunSizeAssumption
  <2>2. \A a \in Nat : a % SrunSize \in 0 .. SrunSize - 1
    BY <2>1
  <2>3. CASE r < 0
    <3>1. -r \in Nat /\ Rem(r, SrunSize) = -((-r) % SrunSize)
      BY <2>3 DEF Rem
    <3>2. PICK a \in 0 .. SrunSize - 1 : a = (-r) % SrunSize
      BY <2>2, <3>1
    <3> QED
      BY <2>1, <3>1, <3>2 DEF HostIndex, Srun
  <2>4. CASE ~(r < 0)
    <3>1. r \in Nat /\ Rem(r, SrunSize) = r % SrunSize
      BY <2>4 DEF Rem
    <3>2. PICK a \in 0 .. SrunSize - 1 : a = r % SrunSize
      BY <2>2, <3>1
    <3> QED
      BY <2>1, <3>1, <3>2 DEF HostIndex, Srun
  <2> QED
    BY <2>3, <2>4
<1> QED
  BY <1>6, <1>7

-----------------------------------------------------------------------------
(* The invariant.                                                           *)

\* session comes from the first session that the request carries, and is
\* negative only if it carries none before the URI.
Decided ==
  \E m \in 1 .. Len(headers) + 1 :
    /\ \A j \in 1 .. m - 1 : ~IsId(Carried[j])
    /\ session = SessionFromString(Carried[m])
    /\ m <= Len(headers) => session >= 0

SessionInv ==
  /\ TypeOK
  /\ pc = "idle" => i = 0 /\ session < 0
  /\ pc = "headers" => /\ i <= Len(headers) /\ session < 0
                       /\ \A j \in 1 .. i : ~IsId(Carried[j])
  /\ pc = "uri" => \A j \in 1 .. Len(headers) : ~IsId(Carried[j])
  /\ pc \in {"host", "walk"} => Decided
  /\ pc = "walk" => host \in Srun /\ (session \in Srun => host = session)

\* What a request carries, and what Found makes of it.
LEMMA CarriedAt ==
  ASSUME headers \in Headers, uri \in Id \cup {NoId}
  PROVE  /\ Len(headers) \in 0 .. MaxHeaders
         /\ Len(Carried) = Len(headers) + 1
         /\ \A k \in 1 .. Len(headers) + 1 : Carried[k] \in Id \cup {NoId}
         /\ Carried[Len(headers) + 1] = uri
         /\ \A k \in 1 .. Len(headers) :
              Found(headers[k]) = SessionFromString(Carried[k])
<1>1. PICK m \in 0 .. MaxHeaders : headers \in [1 .. m -> Header]
  BY DEF Headers
<1>2. m \in Nat /\ Len(headers) = m
  BY <1>1, SessionsAssumption
<1> DEFINE c == [k \in 1 .. Len(headers) |->
                   IF headers[k].cookie THEN headers[k].id ELSE NoId]
           N == Id \cup {NoId}
<1>3. \A k \in 1 .. m : headers[k] \in Header
  BY <1>1
<1>4. \A k \in 1 .. m : c[k] \in N
  BY <1>2, <1>3 DEF Header
<1>5. c \in Seq(N) /\ Len(c) = m
  BY <1>2, <1>4
<1>6. Carried = Append(c, uri)
  BY DEF Carried
<1>7. \A k \in 1 .. m : Found(headers[k]) = SessionFromString(c[k])
  BY <1>2 DEF Found, SessionFromString
<1> HIDE DEF c
<1>8. Len(Carried) = m + 1 /\ Carried[m + 1] = uri
      /\ \A k \in 1 .. m : Carried[k] = c[k]
  BY <1>5, <1>6
<1>9. \A k \in 1 .. m + 1 : Carried[k] \in Id \cup {NoId}
  BY <1>2, <1>4, <1>8
<1> QED
  BY <1>1, <1>2, <1>7, <1>8, <1>9

LEMMA SessionInit == Init => SessionInv
<1> SUFFICES ASSUME Init PROVE SessionInv
  OBVIOUS
<1> USE DEF Init
<1>1. headers \in Headers
  <2>1. headers \in [1 .. 0 -> Header] /\ 0 \in 0 .. MaxHeaders
    BY SessionsAssumption
  <2> QED
    BY <2>1 DEF Headers
<1>2. TypeOK
  BY <1>1, INTisInt, SessionsAssumption DEF TypeOK
<1> QED
  BY <1>2 DEF SessionInv


LEMMA SessionStep == SessionInv /\ [Next]_vars => SessionInv'
<1> SUFFICES ASSUME SessionInv, [Next]_vars PROVE SessionInv'
  OBVIOUS
<1> USE SessionsAssumption DEF TypeOK, vars
<1>1. TypeOK
  BY DEF SessionInv
<1>2. /\ Len(headers) \in 0 .. MaxHeaders
      /\ Len(Carried) = Len(headers) + 1
      /\ \A k \in 1 .. Len(headers) + 1 : Carried[k] \in Id \cup {NoId}
      /\ Carried[Len(headers) + 1] = uri
      /\ \A k \in 1 .. Len(headers) :
           Found(headers[k]) = SessionFromString(Carried[k])
  BY <1>1, CarriedAt
<1>3. \A d \in Id \cup {NoId} : /\ SessionFromString(d) \in Int
                                /\ SessionFromString(d) >= 0 <=> IsId(d)
  BY SessionFound
<1>4. UNCHANGED <<headers, uri>> => Carried' = Carried
  BY DEF Carried
<1>5. CASE Arrive
  <2>1. TypeOK' /\ pc' = "headers" /\ i' = 0 /\ session' < 0
    BY <1>1, <1>5 DEF Arrive, SessionInv
  <2>2. Len(headers') \in 0 .. MaxHeaders
    <3>1. PICK m \in 0 .. MaxHeaders : headers' \in [1 .. m -> Header]
      BY <1>5 DEF Arrive, Headers
    <3>2. m \in Nat /\ Len(headers') = m
      BY <3>1
    <3> QED
      BY <3>2
  <2> QED
    BY <2>1, <2>2 DEF SessionInv
<1>6. CASE NextHeader
  <2>1. /\ pc = "headers" /\ i \in 0 .. Len(headers) - 1 /\ i' = i + 1
        /\ session' = Found(headers[i + 1])
        /\ UNCHANGED <<g_count, headers, uri, host>>
        /\ pc' = IF session' >= 0 THEN "host" ELSE "headers"
    BY <1>1, <1>2, <1>6 DEF NextHeader, SessionInv
  <2>2. PICK k \in 1 .. Len(headers) : k = i + 1
    BY <1>1, <1>2, <2>1
  <2>3. \A j \in 1 .. k : j \in 1 .. i \/ j = k
    BY <1>1, <1>2, <2>2
  <2>4. k \in 1 .. Len(headers) /\ k \in 1 .. Len(headers) + 1
        /\ k \in 0 .. MaxHeaders /\ k \in Nat /\ k - 1 = i
    BY <1>1, <1>2, <2>2
  <2>5. session' = SessionFromString(Carried[k])
    BY <1>2, <2>1, <2>4
  <2>6. session' \in Int /\ (session' >= 0 <=> IsId(Carried[k]))
    BY <1>2, <1>3, <2>4, <2>5
  <2>7. \A j \in 1 .. i : ~IsId(Carried[j])
    BY <2>1 DEF SessionInv
  <2>8. TypeOK'
    BY <1>1, <2>1, <2>4, <2>6
  <2>9. Carried' = Carried
    BY <1>4, <2>1
  <2>10. CASE session' >= 0
    <3>1. pc' = "host" /\ \A j \in 1 .. k - 1 : ~IsId(Carried[j])
      BY <2>1, <2>4, <2>7, <2>10
    <3>2. Decided'
      BY <2>1, <2>4, <2>5, <2>9, <2>10, <3>1 DEF Decided
    <3> QED
      BY <2>8, <3>1, <3>2 DEF SessionInv
  <2>11. CASE ~(session' >= 0)
    <3>1. pc' = "headers" /\ session' < 0 /\ i' <= Len(headers')
      <4>1. session' < 0
        BY <2>6, <2>11
      <4>2. i' = k /\ Len(headers') = Len(headers)
        BY <2>1, <2>2
      <4>3. k <= Len(headers)
        BY <1>2, <2>4
      <4> QED
        BY <2>1, <2>11, <4>1, <4>2, <4>3
    <3>2. \A j \in 1 .. k : ~IsId(Carried[j])
      BY <2>6, <2>7, <2>11, <2>2, <2>3
    <3>3. i' = k
      BY <2>1, <2>2
    <3>4. \A j \in 1 .. i' : ~IsId(Carried'[j])
      BY <2>9, <3>2, <3>3
    <3> HIDE DEF TypeOK
    <3> QED
      BY <2>8, <3>1, <3>4 DEF SessionInv
  <2> QED
    BY <2>10, <2>11
<1>7. CASE NoMoreHeaders
  <2>1. /\ pc = "headers" /\ i = Len(headers) /\ pc' = "uri"
        /\ UNCHANGED <<g_count, headers, uri, i, session, host>>
    BY <1>7 DEF NoMoreHeaders
  <2>2. Carried' = Carried /\ \A j \in 1 .. Len(headers) : ~IsId(Carried[j])
    BY <1>4, <2>1 DEF SessionInv
  <2> QED
    BY <1>1, <2>1, <2>2 DEF SessionInv
<1>8. CASE FromUri
  <2>1. /\ pc = "uri" /\ pc' = "host" /\ session' = SessionFromString(uri)
        /\ UNCHANGED <<g_count, headers, uri, i, host>>
    BY <1>8 DEF FromUri
  <2>2. session' \in Int /\ TypeOK'
    BY <1>1, <1>3, <2>1
  <2>3. Carried' = Carried /\ \A j \in 1 .. Len(headers) : ~IsId(Carried[j])
    BY <1>4, <2>1 DEF SessionInv
  <2> DEFINE m == Len(headers) + 1
  <2>4. m \in 1 .. Len(headers') + 1 /\ m - 1 = Len(headers)
        /\ ~(m <= Len(headers'))
    BY <1>2, <2>1
  <2>5. session' = SessionFromString(Carried'[m])
    BY <1>2, <2>1, <2>3
  <2>6. Decided'
    BY <2>3, <2>4, <2>5 DEF Decided
  <2> QED
    BY <2>1, <2>2, <2>6 DEF SessionInv
<1>9. CASE SessionHost
  <2>1. /\ pc = "host" /\ pc' = "walk" /\ session \in Srun /\ host' = session
        /\ UNCHANGED <<g_count, headers, uri, i, session>>
    BY <1>9 DEF SessionHost
  <2>2. Decided /\ Decided'
    BY <1>4, <2>1 DEF SessionInv, Decided
  <2> QED
    BY <1>1, <2>1, <2>2 DEF SessionInv
<1>10. CASE AnyHost
  <2>1. PICK ip \in Ip, time \in Time, rand \in Rand :
           host' = HostIndex(RandomHost(ip, time, rand))
    BY <1>10 DEF AnyHost
  <2>2. /\ pc = "host" /\ pc' = "walk" /\ session \notin Srun
        /\ g_count' = Wrap(g_count + 1)
        /\ UNCHANGED <<headers, uri, i, session>>
    BY <1>10 DEF AnyHost
  <2>3. g_count' \in INT
    <3>1. g_count + 1 \in Int
      BY <1>1, INTisInt
    <3> QED
      BY <2>2, <3>1, Wraps
  <2>4. host' \in Srun /\ host' \in Int
    BY <1>1, <2>1, HashInRange, SrunSizeAssumption DEF Srun
  <2>5. Decided'
    BY <1>4, <2>2 DEF SessionInv, Decided
  <2> QED
    BY <1>1, <2>2, <2>3, <2>4, <2>5 DEF SessionInv
<1>11. CASE Done
  <2>1. /\ pc' = "idle" /\ headers' = <<>> /\ uri' = NoId /\ i' = 0
        /\ session' = -1 /\ host' = 0 /\ g_count' = g_count
    BY <1>11 DEF Done
  <2>2. headers' \in Headers
    <3>1. headers' \in [1 .. 0 -> Header] /\ 0 \in 0 .. MaxHeaders
      BY <2>1
    <3> QED
      BY <3>1 DEF Headers
  <2> QED
    BY <1>1, <2>1, <2>2 DEF SessionInv
<1>12. CASE UNCHANGED vars
  <2>1. Carried' = Carried
    BY <1>4, <1>12
  <2> QED
    BY <1>12, <2>1 DEF SessionInv, Decided
<1> QED
  BY <1>5, <1>6, <1>7, <1>8, <1>9, <1>10, <1>11, <1>12 DEF Next

THEOREM SessionInductive == Spec => []SessionInv
BY SessionInit, SessionStep, PTL DEF Spec

-----------------------------------------------------------------------------
(* The theorems.                                                            *)

\* The variables have their types: the counter of random_host and what it
\* computes from it stay ints, for clients of any address.
THEOREM SessionTypes == Spec => []TypeOK
<1>1. SessionInv => TypeOK
  BY DEF SessionInv
<1> QED
  BY <1>1, SessionInductive, PTL

\* The walk of open_connection starts at an index of srun_list, whatever
\* random_host computes, the most negative int included.
THEOREM WalkStartsInList == Spec => []HostInRange
<1>1. SessionInv => HostInRange
  BY DEF SessionInv, HostInRange
<1> QED
  BY <1>1, SessionInductive, PTL

\* A request whose first session was started by srun n begins its walk there.
\* decode_session takes 17 from the digits '0' .. '9', so that an srun after
\* the 52nd would not be found again.
THEOREM SessionsComeBack == ASSUME SrunSize <= 52 PROVE Spec => []SessionStays
<1>1. SessionInv => SessionStays
  <2> SUFFICES ASSUME SessionInv, pc = "walk",
                      NEW k \in 1 .. Len(Carried), NEW n \in Srun,
                      Carried[k] = Encode(n),
                      \A j \in 1 .. k - 1 : ~IsId(Carried[j])
               PROVE  host = n
    BY DEF SessionStays
  <2>1. TypeOK /\ Decided /\ (session \in Srun => host = session)
    BY DEF SessionInv
  <2>2. /\ Len(headers) \in Nat /\ Len(Carried) = Len(headers) + 1
        /\ \A j \in 1 .. Len(headers) + 1 : Carried[j] \in Id \cup {NoId}
    BY <2>1, CarriedAt DEF TypeOK
  <2>3. IsId(Carried[k]) /\ SessionFromString(Carried[k]) = n
    <3>1. n \in 0 .. 51
      BY SrunSizeAssumption DEF Srun
    <3> QED
      BY <3>1, DecodeEncode
  <2>4. PICK m \in 1 .. Len(headers) + 1 :
           /\ \A j \in 1 .. m - 1 : ~IsId(Carried[j])
           /\ session = SessionFromString(Carried[m])
           /\ m <= Len(headers) => session >= 0
    BY <2>1 DEF Decided
  <2>5. ~(k < m)
    <3>1. k < m => k \in 1 .. m - 1
      BY <2>2
    <3> QED
      BY <2>3, <2>4, <3>1
  <2>6. ~(m < k)
    <3> SUFFICES ASSUME m < k PROVE FALSE
      OBVIOUS
    <3>1. m \in 1 .. k - 1 /\ m <= Len(headers)
      BY <2>2
    <3>2. ~IsId(Carried[m]) /\ session >= 0
      BY <2>4, <3>1
    <3> QED
      BY <2>2, <2>4, <3>2, SessionFound
  <2>7. m = k
    BY <2>2, <2>5, <2>6
  <2> QED
    BY <2>1, <2>3, <2>4, <2>7
<1> QED
  BY <1>1, SessionInductive, PTL

=============================================================================
