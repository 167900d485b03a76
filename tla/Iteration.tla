------------------------------ MODULE Iteration ------------------------------
(***************************************************************************)
(* Induction and iteration for proofs, stated about sets: what the loops   *)
(* over a client address, over the attributes of a tag and over the         *)
(* elements of resin.conf compute is defined by recursive functions, and    *)
(* these lemmas say that they exist.                                        *)
(***************************************************************************)
EXTENDS WellFoundedInduction, TLAPS

\* A set with 0 and the successor of each of its numbers has all of them.
LEMMA SetInduction ==
  ASSUME NEW S, 0 \in S, \A n \in Nat : n \in S => n + 1 \in S
  PROVE  Nat \subseteq S
<1> DEFINE R == OpToRel(<, Nat)
           T == Nat \ S
<1>1. \A x, y \in Nat : x < y => <<x, y>> \in R
  BY DEF OpToRel
<1>2. IsWellFoundedOn(R, Nat)
  BY NatLessThanWellFounded
<1> SUFFICES ASSUME T # {} PROVE FALSE
  OBVIOUS
<1> HIDE DEF R
<1>3. PICK x \in T : \A y \in T : <<y, x>> \notin R
  BY <1>2, WFMin, T \subseteq Nat
<1>4. x \in Nat \ {0} /\ x - 1 \in Nat /\ x - 1 < x
  OBVIOUS
<1>5. x - 1 \in S
  BY <1>1, <1>3, <1>4
<1>6. (x - 1) + 1 \in S
  BY <1>4, <1>5
<1> QED
  BY <1>4, <1>6

\* A set of numbers has a least one.
LEMMA LeastNumber ==
  ASSUME NEW T, T \subseteq Nat, T # {}
  PROVE  \E x \in T : \A y \in T : x <= y
<1> DEFINE R == OpToRel(<, Nat)
<1>1. \A x, y \in Nat : x < y => <<x, y>> \in R
  BY DEF OpToRel
<1>2. IsWellFoundedOn(R, Nat)
  BY NatLessThanWellFounded
<1> HIDE DEF R
<1>3. PICK x \in T : \A y \in T : <<y, x>> \notin R
  BY <1>2, WFMin
<1>4. \A y \in T : y \in Nat /\ x \in Nat /\ ~(y < x)
  BY <1>1, <1>3
<1>5. \A y \in T : x <= y
  BY <1>4
<1> QED
  BY <1>5

\* g has the values that a loop of n iterations takes, from b, when iteration
\* k makes F[v, k] of v.
Loop(g, n, S, b, F) ==
  /\ g \in [0 .. n -> S] /\ g[0] = b
  /\ \A k \in 1 .. n : g[k] = F[<<g[k - 1], k>>]

\* Every loop has its values.
LEMMA Iterates ==
  ASSUME NEW n \in Nat, NEW S, NEW b \in S, NEW F \in [S \X (1 .. n) -> S]
  PROVE  \E g : Loop(g, n, S, b, F)
<1> DEFINE Upto(j) == \E g \in [0 .. j -> S] :
             g[0] = b /\ \A k \in 1 .. j : g[k] = F[<<g[k - 1], k>>]
           D == {j \in Nat : j <= n => Upto(j)}
<1>1. 0 \in D
  <2> DEFINE g == [i \in 0 .. 0 |-> b]
  <2>1. g \in [0 .. 0 -> S] /\ g[0] = b
    OBVIOUS
  <2>2. \A k \in 1 .. 0 : g[k] = F[<<g[k - 1], k>>]
    OBVIOUS
  <2> QED
    BY <2>1, <2>2
<1>2. ASSUME NEW j \in Nat, j \in D PROVE j + 1 \in D
  <2> SUFFICES ASSUME j + 1 <= n PROVE Upto(j + 1)
    OBVIOUS
  <2>1. PICK g \in [0 .. j -> S] :
           g[0] = b /\ \A k \in 1 .. j : g[k] = F[<<g[k - 1], k>>]
    BY <1>2
  <2> DEFINE v == F[<<g[j], j + 1>>]
             h == [i \in 0 .. j + 1 |-> IF i = j + 1 THEN v ELSE g[i]]
  <2>2. v \in S
    <3>1. g[j] \in S /\ j + 1 \in 1 .. n
      OBVIOUS
    <3> QED
      BY <3>1
  <2>3. h \in [0 .. j + 1 -> S]
    BY <2>2
  <2>4. h[0] = b
    BY <2>1
  <2>5. ASSUME NEW k \in 1 .. j + 1 PROVE h[k] = F[<<h[k - 1], k>>]
    <3>1. k - 1 \in 0 .. j /\ h[k - 1] = g[k - 1]
      OBVIOUS
    <3>2. CASE k = j + 1
      <4>1. h[k] = v /\ k - 1 = j
        BY <3>2
      <4> QED
        BY <4>1, <3>1, <3>2
    <3>3. CASE k # j + 1
      <4>1. k \in 1 .. j /\ h[k] = g[k]
        BY <3>3
      <4> QED
        BY <4>1, <3>1, <2>1
    <3> QED
      BY <3>2, <3>3
  <2> HIDE DEF h, v
  <2> QED
    BY <2>3, <2>4, <2>5
<1>3. Nat \subseteq D
  <2> HIDE DEF D
  <2> QED
    BY <1>1, <1>2, SetInduction
<1>4. n \in D
  <2> HIDE DEF D
  <2> QED
    BY <1>3
<1>5. Upto(n)
  BY <1>4
<1>6. PICK g \in [0 .. n -> S] :
         g[0] = b /\ \A k \in 1 .. n : g[k] = F[<<g[k - 1], k>>]
  BY <1>5
<1>7. Loop(g, n, S, b, F)
  BY <1>6 DEF Loop
<1> QED
  BY <1>7

\* What a recursive function m computes, when every iteration keeps to S and
\* leads from T to T.
LEMMA LoopValues ==
  ASSUME NEW n \in Nat, NEW S, NEW b \in S, NEW F \in [S \X (1 .. n) -> S],
         NEW T, <<b, 0>> \in T,
         \A k \in 1 .. n, v \in S : <<v, k - 1>> \in T => <<F[<<v, k>>], k>> \in T,
         NEW m, m[0] = b, \A k \in 1 .. n : m[k - 1] \in S => m[k] = F[<<m[k - 1], k>>]
  PROVE  m[n] \in S /\ <<m[n], n>> \in T
<1> DEFINE D == {k \in Nat : k <= n => m[k] \in S /\ <<m[k], k>> \in T}
<1>1. 0 \in D
  OBVIOUS
<1>2. ASSUME NEW j \in Nat, j \in D PROVE j + 1 \in D
  <2> SUFFICES ASSUME j + 1 <= n PROVE m[j + 1] \in S /\ <<m[j + 1], j + 1>> \in T
    OBVIOUS
  <2>1. m[j] \in S /\ <<m[j], j>> \in T
    BY <1>2
  <2>2. j + 1 \in 1 .. n /\ (j + 1) - 1 = j
    OBVIOUS
  <2>3. m[j + 1] = F[<<m[j], j + 1>>]
    BY <2>1, <2>2
  <2>4. F[<<m[j], j + 1>>] \in S
    BY <2>1, <2>2
  <2>5. <<F[<<m[j], j + 1>>], j + 1>> \in T
    BY <2>1, <2>2
  <2> QED BY <2>3, <2>4, <2>5
<1>3. Nat \subseteq D
  <2> HIDE DEF D
  <2> QED BY <1>1, <1>2, SetInduction
<1>4. n \in D
  <2> HIDE DEF D
  <2> QED BY <1>3
<1> QED BY <1>4

=============================================================================
