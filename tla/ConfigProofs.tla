---------------------------- MODULE ConfigProofs ----------------------------
(***************************************************************************)
(* Proofs about Registry and Config: whatever a file holds and whatever it  *)
(* includes, the links of the registry lead through the elements in the     *)
(* order in which they are written, and values are whole; the walk of       *)
(* cse_init_config takes the error page and the directories of the web-apps *)
(* from what is written.                                                    *)
(***************************************************************************)
EXTENDS Config, Iteration, SequenceTheorems, TLAPS

-----------------------------------------------------------------------------
(* Types.                                                                   *)

\* Names of elements: STRING, but the provers do not know that a literal is one.
Name == STRING \cup {"", "web.xml"}

\* What a buffer holds: characters, "n" for a name, and memory never written.
Stored == Char \cup {Junk, "n"}

Value == Seq(Stored) \cup {Null}

Node ==
  [parent : Nat, next : Nat, prev : Nat, first : Nat, last : Nat,
   key : Name, value : Value]

FrameRec ==
  [root : Nat, node : Nat, inc : Nat, context : Name, buf : Seq(Stored), cap : Nat,
   spaceOnly : BOOLEAN, run : Seq(Char), fresh : BOOLEAN, atEnd : BOOLEAN]

Meaning == Seq(Char) \cup {Null, Unclear}

BufOK(f) == Len(f.buf) < f.cap /\ Capacity <= f.cap

\* The nodes ns with their history u and s, and the frames fs.
Shape(ns, u, s, fs) ==
  /\ ns \in Seq(Node) /\ fs \in Seq(FrameRec) /\ Len(fs) > 0
  /\ \A i \in 1 .. Len(fs) : BufOK(fs[i])
  /\ u \in Seq(Nat) /\ Len(u) = Len(ns)
  /\ s \in Seq(Meaning) /\ Len(s) = Len(ns)

Types ==
  /\ Shape(nodes, up, said, frames) /\ gone \subseteq 1 .. Len(nodes)
  /\ family \in DOMAIN Families /\ error \in BOOLEAN /\ headInclude \in BOOLEAN
  /\ phase \in {"parse", "parsed", "refused", "crashed", "init"}

-----------------------------------------------------------------------------
(* Links.                                                                   *)

\* Links lead forward, but for those to the parent and to the one before.
Forward(ns) ==
  \A c \in 1 .. Len(ns) :
    /\ ns[c].parent \in 0 .. c - 1 /\ ns[c].prev \in 0 .. c - 1
    /\ ns[c].prev = 0 \/ (ns[c].parent # 0 /\ ns[c].parent < ns[c].prev)
    /\ ns[c].next = 0 \/ ns[c].next \in c + 1 .. Len(ns)
    /\ ns[c].first = 0 \/ ns[c].first \in c + 1 .. Len(ns)
    /\ ns[c].last = 0 \/ ns[c].last \in c + 1 .. Len(ns)
    /\ ns[c].last # 0 => ns[c].first # 0

\* The nodes under p that are in use.
Kids(ns, G, p) == {c \in 1 .. Len(ns) \ G : ns[c].parent = p}

\* x is the least of the nodes S, or 0; the greatest.
Least(x, S) == IF x = 0 THEN S = {} ELSE x \in S /\ \A c \in S : x <= c
Greatest(x, S) == IF x = 0 THEN S = {} ELSE x \in S /\ \A c \in S : c <= x

\* The links of p lead through the nodes under it.
Linked(ns, G, p) ==
  /\ Least(ns[p].first, Kids(ns, G, p)) /\ Greatest(ns[p].last, Kids(ns, G, p))
  /\ \A c \in Kids(ns, G, p) : Least(ns[c].next, {d \in Kids(ns, G, p) : c < d})
AllLinked(ns, G) == \A p \in 1 .. Len(ns) \ G : Linked(ns, G, p)

\* c knows the node before it.
KnowsPrev(ns, G, c) == Greatest(ns[c].prev, {d \in Kids(ns, G, ns[c].parent) : d < c})

\* The nodes of a file that is being read.
PartOK(ns, G, f) ==
  /\ f.root \in Nat \ {0} /\ f.node \in Nat /\ f.root <= f.node /\ f.node <= Len(ns)
  /\ ns[f.root].parent = 0 /\ f.root \notin G
  /\ \A c \in 1 .. Len(ns) :
       f.root < c => ns[c].parent = 0 \/ f.root <= ns[c].parent

\* The open elements of a file: each is the last child of the one around it and,
\* unless an include was the first child of an element (h), knows the one before.
Open(ns, G, h, f, O) ==
  /\ f.node \in O /\ \A c \in O : c \in Nat /\ f.root <= c /\ c <= f.node /\ c \notin G
  /\ \A c \in O \ {f.root} :
       /\ ns[c].parent \in O /\ ns[ns[c].parent].last = c
       /\ h \/ KnowsPrev(ns, G, c)

\* The include that asks for the file f is the last child of the element at which
\* the file around it goes on.
IncOK(ns, G, h, f, node) ==
  /\ f.inc \in Nat /\ node < f.inc /\ f.inc < f.root /\ f.inc \notin G
  /\ ns[f.inc].parent = node /\ ns[node].last = f.inc
  /\ h \/ KnowsPrev(ns, G, f.inc)

\* A node is under the element in which it is written, or at the top of an included
\* file whose include is written there.
ParentsOK(ns, u, G, fs) ==
  \A c \in 1 .. Len(ns) \ G :
    /\ \A i \in 2 .. Len(fs) : u[c] # fs[i].root
    /\ \/ ns[c].parent = u[c]
       \/ \E i \in 2 .. Len(fs) : ns[c].parent = fs[i].root /\ u[c] = u[fs[i].inc]

FilesOK(ns, G, h, fs) ==
  /\ Len(fs) > 0 /\ fs[1].inc = 0
  /\ \A i \in 1 .. Len(fs) : PartOK(ns, G, fs[i]) /\ \E O : Open(ns, G, h, fs[i], O)
  /\ \A i \in 2 .. Len(fs) : IncOK(ns, G, h, fs[i], fs[i - 1].node)
  /\ \A i, j \in 1 .. Len(fs) : i < j => fs[i].node < fs[j].inc

Tree(ns, u, G, h, fs) ==
  /\ Forward(ns) /\ FilesOK(ns, G, h, fs)
  /\ \A c \in 1 .. Len(ns) : u[c] \in 0 .. c - 1
  /\ h \/ (AllLinked(ns, G) /\ ParentsOK(ns, u, G, fs))

TreeInv ==
  /\ Tree(nodes, up, gone, headInclude, frames)
  /\ phase \in {"parsed", "refused", "init"} => Len(frames) = 1

-----------------------------------------------------------------------------
(* Values.                                                                  *)

Fits(s) == Len(s) + 2 <= Capacity

ValueOK(value, s) ==
  /\ s = Null => value = Null \/ IsSpace(value)
  /\ s \notin {Null, Unclear} /\ Fits(s) => value = s

\* The text that a file has read since its last tag, as far as it will be a value.
TextOK(ns, s, f) ==
  /\ f.fresh /\ s[f.node] = Null => ns[f.node].value = Null
  /\ ns[f.node].first = 0 /\ ns[f.node].value = Null => f.buf = f.run \/ ~Fits(f.run)
  /\ f.spaceOnly => IsSpace(f.run)

Values(ns, s, fs) ==
  /\ \A n \in 1 .. Len(ns) : ValueOK(ns[n].value, s[n])
  /\ \A i \in 1 .. Len(fs) : TextOK(ns, s, fs[i])

ValueInv == Values(nodes, said, frames)

-----------------------------------------------------------------------------
(* Changes that leave the tree alone.                                       *)

SameLinks(a, b) ==
  /\ Len(a) = Len(b)
  /\ \A c \in 1 .. Len(a) :
       /\ a[c].parent = b[c].parent /\ a[c].next = b[c].next /\ a[c].prev = b[c].prev
       /\ a[c].first = b[c].first /\ a[c].last = b[c].last

LEMMA SameKids ==
  ASSUME NEW a, NEW b, NEW G, NEW p, SameLinks(a, b)
  PROVE  Kids(a, G, p) = Kids(b, G, p)
  BY DEF SameLinks, Kids

\* Values and keys are not part of the tree.
LEMMA LinksTree ==
  ASSUME NEW a, NEW b, NEW u, NEW G, NEW h, NEW fs, Len(a) \in Nat,
         SameLinks(a, b), Tree(a, u, G, h, fs)
  PROVE  Tree(b, u, G, h, fs)
<1>0. \A p : Kids(a, G, p) = Kids(b, G, p)
  BY SameKids
<1>1. Forward(b)
  BY DEF SameLinks, Forward, Tree
<1>2. ASSUME NEW i \in 1 .. Len(fs)
      PROVE  PartOK(b, G, fs[i])
  <2>1. PartOK(a, G, fs[i])
    BY DEF Tree, FilesOK
  <2> QED BY <2>1 DEF PartOK, SameLinks
<1>3. \A c \in 1 .. Len(a) : Forward(a) /\ KnowsPrev(a, G, c) => KnowsPrev(b, G, c)
  BY <1>0 DEF KnowsPrev, SameLinks
<1>4. ASSUME NEW i \in 1 .. Len(fs)
      PROVE  \E O : Open(b, G, h, fs[i], O)
  <2>1. PICK O : Open(a, G, h, fs[i], O)
    BY DEF Tree, FilesOK
  <2>2. PartOK(a, G, fs[i]) /\ Forward(a)
    BY DEF Tree, FilesOK
  <2>3. ASSUME NEW c \in O \ {fs[i].root}
        PROVE  /\ b[c].parent \in O /\ b[b[c].parent].last = c
               /\ h \/ KnowsPrev(b, G, c)
    <3>1. c \in 1 .. Len(a)
      BY <2>1, <2>2 DEF Open, PartOK
    <3>2. /\ a[c].parent \in O /\ a[a[c].parent].last = c
          /\ h \/ KnowsPrev(a, G, c)
      BY <2>1 DEF Open
    <3>3. a[c].parent \in 1 .. Len(a)
      BY <2>1, <2>2, <3>2 DEF Open, PartOK
    <3> QED BY <3>1, <3>2, <3>3, <1>3, <2>2 DEF SameLinks
  <2> QED BY <2>1, <2>3 DEF Open
<1>5. ASSUME NEW i \in 2 .. Len(fs)
      PROVE  IncOK(b, G, h, fs[i], fs[i - 1].node)
  <2>1. IncOK(a, G, h, fs[i], fs[i - 1].node) /\ PartOK(a, G, fs[i]) /\ Forward(a)
    BY DEF Tree, FilesOK
  <2>2. PartOK(a, G, fs[i - 1])
    BY DEF Tree, FilesOK
  <2>3. fs[i].inc \in 1 .. Len(a) /\ fs[i - 1].node \in 1 .. Len(a)
    BY <2>1, <2>2, SMTT(30) DEF IncOK, PartOK
  <2> QED BY <2>1, <2>3, <1>3 DEF IncOK, SameLinks
<1>6. FilesOK(b, G, h, fs)
  BY <1>2, <1>4, <1>5 DEF Tree, FilesOK
<1>7. AllLinked(a, G) => AllLinked(b, G)
  <2> SUFFICES ASSUME AllLinked(a, G), NEW p \in 1 .. Len(b) \ G PROVE Linked(b, G, p)
    BY DEF AllLinked
  <2>1. Linked(a, G, p) /\ p \in 1 .. Len(a)
    BY DEF AllLinked, SameLinks
  <2>2. \A c \in Kids(a, G, p) : a[c].next = b[c].next
    BY DEF Kids, SameLinks
  <2> QED BY <2>1, <2>2, <1>0 DEF Linked, SameLinks
<1>8. ParentsOK(a, u, G, fs) => ParentsOK(b, u, G, fs)
  BY DEF ParentsOK, SameLinks
<1> QED BY <1>1, <1>6, <1>7, <1>8 DEF Tree, SameLinks

\* The frames gs are fs, but for the element at which the innermost file goes on.
Moved(fs, gs, node) ==
  /\ Len(gs) = Len(fs)
  /\ \A i \in 1 .. Len(fs) : gs[i].root = fs[i].root /\ gs[i].inc = fs[i].inc
  /\ \A i \in 1 .. Len(fs) : gs[i].node = IF i = Len(fs) THEN node ELSE fs[i].node

LEMMA MovedTree ==
  ASSUME NEW ns, NEW u, NEW G, NEW h, NEW fs, NEW gs, NEW node,
         Len(ns) \in Nat, Len(fs) \in Nat,
         Tree(ns, u, G, h, fs), Moved(fs, gs, node),
         PartOK(ns, G, gs[Len(fs)]), NEW O, Open(ns, G, h, gs[Len(fs)], O)
  PROVE  Tree(ns, u, G, h, gs)
<1> DEFINE n == Len(fs)
<1>0. Len(gs) = n /\ n \in Nat /\ n > 0 /\ n \in 1 .. n
  BY DEF Moved, Tree, FilesOK
<1>1. ASSUME NEW i \in 1 .. n
      PROVE  PartOK(ns, G, gs[i]) /\ \E P : Open(ns, G, h, gs[i], P)
  <2>1. CASE i = n
    BY <2>1
  <2>2. CASE i # n
    <3>1. gs[i].root = fs[i].root /\ gs[i].node = fs[i].node
      BY <2>2 DEF Moved
    <3>2. PartOK(ns, G, fs[i]) /\ \E P : Open(ns, G, h, fs[i], P)
      BY DEF Tree, FilesOK
    <3> QED BY <3>1, <3>2 DEF PartOK, Open
  <2> QED BY <2>1, <2>2
<1>2. ASSUME NEW i \in 2 .. n
      PROVE  IncOK(ns, G, h, gs[i], gs[i - 1].node)
  <2>1. i - 1 \in 1 .. n /\ i - 1 # n /\ i \in 1 .. n
    BY <1>0
  <2>2. gs[i - 1].node = fs[i - 1].node /\ gs[i].root = fs[i].root /\ gs[i].inc = fs[i].inc
    BY <2>1 DEF Moved
  <2>3. IncOK(ns, G, h, fs[i], fs[i - 1].node)
    BY DEF Tree, FilesOK
  <2> QED BY <2>2, <2>3 DEF IncOK
<1>3. \A i, j \in 1 .. n : i < j => gs[i].node < gs[j].inc
  BY <1>0 DEF Moved, Tree, FilesOK
<1>4. gs[1].inc = 0
  BY <1>0 DEF Moved, Tree, FilesOK
<1>5. FilesOK(ns, G, h, gs)
  BY <1>0, <1>1, <1>2, <1>3, <1>4 DEF FilesOK
<1>6. ParentsOK(ns, u, G, fs) => ParentsOK(ns, u, G, gs)
  <2>1. \A i \in 2 .. n : gs[i].root = fs[i].root /\ gs[i].inc = fs[i].inc
    BY <1>0 DEF Moved
  <2> QED BY <2>1, <1>0, SMTT(30) DEF ParentsOK
<1> QED BY <1>5, <1>6 DEF Tree

\* A file goes on where it was.
LEMMA StayTree ==
  ASSUME NEW ns, NEW u, NEW G, NEW h, NEW fs, NEW gs,
         Len(ns) \in Nat, Len(fs) \in Nat,
         Tree(ns, u, G, h, fs), Moved(fs, gs, fs[Len(fs)].node)
  PROVE  Tree(ns, u, G, h, gs)
<1>0. Len(fs) \in 1 .. Len(fs)
  BY DEF Tree, FilesOK
<1>1. gs[Len(fs)].root = fs[Len(fs)].root /\ gs[Len(fs)].node = fs[Len(fs)].node
  BY <1>0 DEF Moved
<1>2. PartOK(ns, G, fs[Len(fs)])
  BY <1>0 DEF Tree, FilesOK
<1>3. PICK O : Open(ns, G, h, fs[Len(fs)], O)
  BY <1>0 DEF Tree, FilesOK
<1>4. PartOK(ns, G, gs[Len(fs)])
  BY <1>1, <1>2 DEF PartOK
<1>5. Open(ns, G, h, gs[Len(fs)], O)
  BY <1>1, <1>3 DEF Open
<1> QED BY <1>4, <1>5, MovedTree

\* inc can be asked for: it is the last child of node.
IncAhead(ns, G, h, inc, node) ==
  /\ inc \in Nat /\ node < inc /\ inc <= Len(ns) /\ inc \notin G
  /\ ns[inc].parent = node /\ ns[node].last = inc
  /\ h \/ KnowsPrev(ns, G, inc)

\* The innermost file goes on in an element.
GoesOn(fs, node) == node = fs[Len(fs)].node

\* An element is closed.
LEMMA CloseTree ==
  ASSUME NEW ns, NEW u, NEW G, NEW h, NEW fs, NEW gs, NEW e,
         Len(ns) \in Nat, Len(fs) \in Nat,
         Tree(ns, u, G, h, fs), GoesOn(fs, e),
         Moved(fs, gs, ns[e].parent), ns[e].parent # 0
  PROVE  /\ Tree(ns, u, G, h, gs)
         /\ IncAhead(ns, G, h, ns[ns[e].parent].last, ns[e].parent)
<1> DEFINE n == Len(fs)
           p == ns[e].parent
<1>e. e = fs[Len(fs)].node
  BY DEF GoesOn
<1> USE <1>e
<1>0. n \in 1 .. n
  BY DEF Tree, FilesOK
<1>1. gs[n].root = fs[n].root /\ gs[n].node = p
  BY <1>0 DEF Moved
<1>2. PartOK(ns, G, fs[n]) /\ Forward(ns)
  BY <1>0 DEF Tree, FilesOK
<1>3. PICK O : Open(ns, G, h, fs[n], O)
  BY <1>0 DEF Tree, FilesOK
<1>4. e \in Nat /\ e >= 1 /\ e <= Len(ns) /\ e # fs[n].root /\ fs[n].root < e
  BY <1>2 DEF PartOK
<1>5. p \in Nat /\ p < e /\ fs[n].root <= p
  BY <1>2, <1>4 DEF PartOK, Forward
<1>6. p \in O /\ ns[p].last = e /\ (h \/ KnowsPrev(ns, G, e)) /\ e \notin G
  BY <1>3, <1>4 DEF Open
<1>7. PartOK(ns, G, gs[n])
  BY <1>1, <1>2, <1>4, <1>5 DEF PartOK
<1> DEFINE P == {c \in O : c <= p}
<1>8. Open(ns, G, h, gs[n], P)
  <2>1. p \in P
    BY <1>5, <1>6
  <2>2. \A c \in P : c \in O /\ c \in Nat /\ fs[n].root <= c /\ c <= p /\ c \notin G
    BY <1>3 DEF Open
  <2>3. ASSUME NEW c \in P \ {fs[n].root}
        PROVE  /\ ns[c].parent \in P /\ ns[ns[c].parent].last = c
               /\ h \/ KnowsPrev(ns, G, c)
    <3>1. /\ ns[c].parent \in O /\ ns[ns[c].parent].last = c
          /\ h \/ KnowsPrev(ns, G, c)
      BY <1>3 DEF Open
    <3>2. c \in 1 .. Len(ns)
      BY <2>2, <1>2, <1>4, <1>5 DEF PartOK
    <3>3. ns[c].parent \in Nat /\ ns[c].parent < c
      BY <3>2, <1>2 DEF Forward
    <3>4. ns[c].parent <= p
      BY <2>2, <3>3, <1>5
    <3> QED BY <3>1, <3>4
  <2> HIDE DEF P
  <2> QED BY <1>1, <2>1, <2>2, <2>3 DEF Open
<1>9. Tree(ns, u, G, h, gs)
  <2> HIDE DEF P
  <2> QED BY <1>7, <1>8, MovedTree
<1> QED BY <1>9, <1>4, <1>5, <1>6 DEF IncAhead

-----------------------------------------------------------------------------
(* A tag: a new last child of an element, with its attributes.               *)

Tagged(a, m, node) ==
  LET e == Len(a) + 1
  IN /\ Len(m) \in Nat /\ e <= Len(m)
     /\ \A c \in 1 .. Len(a) :
          /\ m[c].parent = a[c].parent /\ m[c].prev = a[c].prev
          /\ m[c].next = IF c = a[node].last THEN e ELSE a[c].next
          /\ m[c].first = IF c = node /\ a[node].last = 0 THEN e ELSE a[c].first
          /\ m[c].last = IF c = node THEN e ELSE a[c].last
     /\ m[e].parent = node /\ m[e].prev = a[node].last /\ m[e].next = 0
     /\ m[e].first = (IF Len(m) = e THEN 0 ELSE e + 1)
     /\ m[e].last = (IF Len(m) = e THEN 0 ELSE Len(m))
     /\ \A c \in e + 1 .. Len(m) :
          /\ m[c].parent = e /\ m[c].prev = (IF c = e + 1 THEN 0 ELSE c - 1)
          /\ m[c].next = (IF c = Len(m) THEN 0 ELSE c + 1)
          /\ m[c].first = 0 /\ m[c].last = 0

LEMMA TagForward ==
  ASSUME NEW a, NEW m, NEW node, Len(a) \in Nat, node \in 1 .. Len(a),
         Tagged(a, m, node), Forward(a)
  PROVE  Forward(m)
<1> DEFINE e == Len(a) + 1
<1>0. Len(m) \in Nat /\ e <= Len(m) /\ e \in Nat
  BY DEF Tagged
<1>1. ASSUME NEW c \in 1 .. Len(m)
      PROVE  /\ m[c].parent \in 0 .. c - 1 /\ m[c].prev \in 0 .. c - 1
             /\ m[c].prev = 0 \/ (m[c].parent # 0 /\ m[c].parent < m[c].prev)
             /\ m[c].next = 0 \/ m[c].next \in c + 1 .. Len(m)
             /\ m[c].first = 0 \/ m[c].first \in c + 1 .. Len(m)
             /\ m[c].last = 0 \/ m[c].last \in c + 1 .. Len(m)
             /\ m[c].last # 0 => m[c].first # 0
  <2>1. CASE c \in 1 .. Len(a)
    <3>1. /\ a[c].parent \in 0 .. c - 1 /\ a[c].prev \in 0 .. c - 1
          /\ a[c].prev = 0 \/ (a[c].parent # 0 /\ a[c].parent < a[c].prev)
          /\ a[c].next = 0 \/ a[c].next \in c + 1 .. Len(a)
          /\ a[c].first = 0 \/ a[c].first \in c + 1 .. Len(a)
          /\ a[c].last = 0 \/ a[c].last \in c + 1 .. Len(a)
          /\ a[c].last # 0 => a[c].first # 0
      BY <2>1 DEF Forward
    <3>2. /\ m[c].parent = a[c].parent /\ m[c].prev = a[c].prev
          /\ m[c].next = IF c = a[node].last THEN e ELSE a[c].next
          /\ m[c].first = IF c = node /\ a[node].last = 0 THEN e ELSE a[c].first
          /\ m[c].last = IF c = node THEN e ELSE a[c].last
      BY <2>1 DEF Tagged
    <3>3. \A x : x \in c + 1 .. Len(a) => x \in c + 1 .. Len(m)
      BY <1>0
    <3>4. e \in c + 1 .. Len(m) /\ e # 0
      BY <1>0, <2>1
    <3> HIDE DEF e
    <3> QED BY <3>1, <3>2, <3>3, <3>4
  <2>2. CASE c = e
    <3>1. a[node].last = 0 \/ a[node].last \in node + 1 .. Len(a)
      BY DEF Forward
    <3> QED BY <2>2, <3>1, <1>0 DEF Tagged
  <2>3. CASE c > e
    <3>1. c \in e + 1 .. Len(m)
      BY <2>3, <1>0
    <3>2. /\ m[c].parent = e /\ m[c].prev = (IF c = e + 1 THEN 0 ELSE c - 1)
          /\ m[c].next = (IF c = Len(m) THEN 0 ELSE c + 1)
          /\ m[c].first = 0 /\ m[c].last = 0
      BY <3>1 DEF Tagged
    <3> QED BY <3>1, <3>2, <1>0
  <2> QED BY <2>1, <2>2, <2>3, <1>0
<1> QED BY <1>1 DEF Forward

LEMMA TagKids ==
  ASSUME NEW a, NEW m, NEW node, NEW G, Len(a) \in Nat, node \in 1 .. Len(a),
         G \subseteq 1 .. Len(a), Tagged(a, m, node), Forward(a)
  PROVE  /\ \A p \in 0 .. Len(a) : p # node => Kids(m, G, p) = Kids(a, G, p)
         /\ Kids(m, G, node) = Kids(a, G, node) \cup {Len(a) + 1}
         /\ Kids(m, G, Len(a) + 1) = Len(a) + 2 .. Len(m)
         /\ \A p \in Len(a) + 2 .. Len(m) : Kids(m, G, p) = {}
<1> DEFINE e == Len(a) + 1
<1>0. Len(m) \in Nat /\ e <= Len(m) /\ e \in Nat
  BY DEF Tagged
<1>1. \A c \in 1 .. Len(a) : c \in 1 .. Len(m) /\ m[c].parent = a[c].parent
  BY <1>0 DEF Tagged
<1>2. e \in 1 .. Len(m) /\ e \notin G /\ m[e].parent = node
  BY <1>0 DEF Tagged
<1>3. \A c \in e + 1 .. Len(m) : c \in 1 .. Len(m) /\ c \notin G /\ m[c].parent = e
  BY <1>0 DEF Tagged
<1>4. \A c \in 1 .. Len(m) : c \in 1 .. Len(a) \/ c = e \/ c \in e + 1 .. Len(m)
  BY <1>0
<1>5. \A c \in 1 .. Len(a) : a[c].parent \in 0 .. Len(a) /\ a[c].parent # e
  BY DEF Forward
<1>6. \A p \in e + 1 .. Len(m) : p # e /\ p # node /\ ~(p \in 0 .. Len(a))
  BY <1>0
<1>7. \A p \in 0 .. Len(a) : p # e
  BY <1>0
<1> HIDE DEF e
<1>8. ASSUME NEW p \in 0 .. Len(a), p # node
      PROVE  Kids(m, G, p) = Kids(a, G, p)
  BY <1>1, <1>2, <1>3, <1>4, <1>7, <1>8 DEF Kids
<1>9. Kids(m, G, node) = Kids(a, G, node) \cup {e}
  BY <1>1, <1>2, <1>3, <1>4, <1>7 DEF Kids
<1>10. Kids(m, G, e) = e + 1 .. Len(m)
  BY <1>1, <1>2, <1>3, <1>4, <1>5, <1>7 DEF Kids
<1>11. \A p \in e + 1 .. Len(m) : Kids(m, G, p) = {}
  BY <1>1, <1>2, <1>3, <1>4, <1>5, <1>6 DEF Kids
<1>12. e + 1 = Len(a) + 2
  BY DEF e
<1> QED BY <1>8, <1>9, <1>10, <1>11, <1>12 DEF e

LEMMA TagLinked ==
  ASSUME NEW a, NEW m, NEW node, NEW G, Len(a) \in Nat, node \in 1 .. Len(a),
         G \subseteq 1 .. Len(a), node \notin G, Tagged(a, m, node), Forward(a),
         AllLinked(a, G)
  PROVE  AllLinked(m, G)
<1> DEFINE e == Len(a) + 1
           K == Kids(a, G, node)
<1>0. Len(m) \in Nat /\ e <= Len(m) /\ e \in Nat
  BY DEF Tagged
<1>k. /\ \A p \in 0 .. Len(a) : p # node => Kids(m, G, p) = Kids(a, G, p)
      /\ Kids(m, G, node) = Kids(a, G, node) \cup {Len(a) + 1}
      /\ Kids(m, G, Len(a) + 1) = Len(a) + 2 .. Len(m)
      /\ \A p \in Len(a) + 2 .. Len(m) : Kids(m, G, p) = {}
  <2> HIDE DEF e, K
  <2> QED BY TagKids
<1>1. Greatest(a[node].last, K) /\ Least(a[node].first, K)
      /\ \A c \in K : Least(a[c].next, {d \in K : c < d})
  BY DEF AllLinked, Linked
<1>2. \A c \in K : c \in 1 .. Len(a) /\ c \in Nat /\ c < e
  BY DEF Kids
<1>3. ASSUME NEW p \in 1 .. Len(a) \ G, p # node
      PROVE  Linked(m, G, p)
  <2>1. Kids(m, G, p) = Kids(a, G, p)
    <3>1. p \in 0 .. Len(a)
      OBVIOUS
    <3> QED BY <1>3, <1>k, <3>1
  <2>2. Linked(a, G, p)
    BY DEF AllLinked
  <2>3. m[p].first = a[p].first /\ m[p].last = a[p].last
    BY <1>3 DEF Tagged
  <2>4. ASSUME NEW c \in Kids(a, G, p) PROVE m[c].next = a[c].next
    <3>1. c \in 1 .. Len(a) /\ c \notin K /\ c # 0
      BY <1>3 DEF Kids
    <3>2. c # a[node].last
      BY <3>1, <1>1 DEF Greatest
    <3> QED BY <3>1, <3>2 DEF Tagged
  <2> QED BY <2>1, <2>2, <2>3, <2>4 DEF Linked
<1>4. Linked(m, G, node)
  <2>1. Kids(m, G, node) = K \cup {e}
    BY <1>k
  <2>2. Least(m[node].first, K \cup {e})
    <3>1. m[node].first = IF a[node].last = 0 THEN e ELSE a[node].first
      BY DEF Tagged
    <3>2. CASE a[node].last = 0
      <4>1. K = {}
        BY <3>2, <1>1 DEF Greatest
      <4> QED BY <3>1, <3>2, <4>1, <1>0 DEF Least
    <3>3. CASE a[node].last # 0
      <4>1. a[node].first # 0
        BY <3>3 DEF Forward
      <4> QED BY <3>1, <3>3, <4>1, <1>1, <1>2, <1>0 DEF Least
    <3> QED BY <3>2, <3>3
  <2>3. Greatest(m[node].last, K \cup {e})
    <3>1. m[node].last = e
      BY DEF Tagged
    <3> QED BY <3>1, <1>0, <1>2 DEF Greatest
  <2>4. ASSUME NEW c \in K
        PROVE  Least(m[c].next, {d \in K \cup {e} : c < d})
    <3>1. m[c].next = IF c = a[node].last THEN e ELSE a[c].next
      BY <1>2 DEF Tagged
    <3>2. CASE c = a[node].last
      <4>1. \A d \in K : ~(c < d)
        BY <3>2, <1>1, <1>2 DEF Greatest
      <4> QED BY <3>1, <3>2, <4>1, <1>0, <1>2 DEF Least
    <3>3. CASE c # a[node].last
      <4>1. a[node].last \in K /\ c < a[node].last
        BY <3>3, <1>1, <1>2 DEF Greatest
      <4>2. Least(a[c].next, {d \in K : c < d})
        BY <1>1
      <4>3. a[c].next # 0
        BY <4>1, <4>2 DEF Least
      <4> QED BY <3>1, <3>3, <4>2, <4>3, <1>0, <1>2 DEF Least
    <3> QED BY <3>2, <3>3
  <2>5. Least(m[e].next, {d \in K \cup {e} : e < d})
    <3>1. m[e].next = 0
      BY DEF Tagged
    <3> QED BY <3>1, <1>0, <1>2 DEF Least
  <2> QED BY <2>1, <2>2, <2>3, <2>4, <2>5 DEF Linked
<1>5. Linked(m, G, e)
  <2>1. Kids(m, G, e) = e + 1 .. Len(m)
    <3>1. e + 1 = Len(a) + 2
      OBVIOUS
    <3> QED BY <3>1, <1>k
  <2>2. Least(m[e].first, e + 1 .. Len(m))
    <3>1. m[e].first = (IF Len(m) = e THEN 0 ELSE e + 1)
      BY DEF Tagged
    <3> QED BY <3>1, <1>0 DEF Least
  <2>3. Greatest(m[e].last, e + 1 .. Len(m))
    <3>1. m[e].last = (IF Len(m) = e THEN 0 ELSE Len(m))
      BY DEF Tagged
    <3> QED BY <3>1, <1>0 DEF Greatest
  <2>4. ASSUME NEW c \in e + 1 .. Len(m)
        PROVE  Least(m[c].next, {d \in e + 1 .. Len(m) : c < d})
    <3>1. m[c].next = (IF c = Len(m) THEN 0 ELSE c + 1)
      BY DEF Tagged
    <3> QED BY <3>1, <1>0 DEF Least
  <2> QED BY <2>1, <2>2, <2>3, <2>4 DEF Linked
<1>6. ASSUME NEW p \in e + 1 .. Len(m)
      PROVE  Linked(m, G, p)
  <2>1. Kids(m, G, p) = {}
    <3>1. p \in Len(a) + 2 .. Len(m)
      BY <1>0
    <3> QED BY <3>1, <1>k
  <2>2. m[p].first = 0 /\ m[p].last = 0
    BY DEF Tagged
  <2> QED BY <2>1, <2>2 DEF Linked, Least, Greatest
<1>7. \A p \in 1 .. Len(m) \ G : p \in 1 .. Len(a) \ G \/ p = e \/ p \in e + 1 .. Len(m)
  BY <1>0
<1> HIDE DEF e
<1> QED BY <1>3, <1>4, <1>5, <1>6, <1>7 DEF AllLinked

\* The files around the innermost one have smaller nodes.
LEMMA FileOrder ==
  ASSUME NEW ns, NEW G, NEW h, NEW fs, Len(ns) \in Nat, Len(fs) \in Nat,
         FilesOK(ns, G, h, fs)
  PROVE  LET f == fs[Len(fs)]
         IN /\ Len(fs) \in 1 .. Len(fs)
            /\ \A i \in 1 .. Len(fs) :
                 /\ fs[i].root \in Nat /\ fs[i].node \in Nat
                 /\ 1 <= fs[i].root /\ fs[i].root <= fs[i].node
                 /\ fs[i].node <= Len(ns) /\ fs[i].node <= f.node
                 /\ i # Len(fs) => fs[i].node < f.root /\ fs[i].node < f.inc
            /\ \A i \in 2 .. Len(fs) :
                 /\ fs[i].inc \in 1 .. Len(ns) /\ fs[i].inc \notin G
                 /\ fs[i].inc < fs[i].root
                 /\ i - 1 \in 1 .. Len(fs) /\ fs[i - 1].node < fs[i].inc
            /\ f.inc # 0 <=> Len(fs) > 1
<1> DEFINE n == Len(fs)
<1>1. n \in 1 .. n /\ n \in Nat
  BY DEF FilesOK
<1>2. ASSUME NEW i \in 1 .. n
      PROVE  /\ fs[i].root \in Nat /\ fs[i].node \in Nat
             /\ 1 <= fs[i].root /\ fs[i].root <= fs[i].node
             /\ fs[i].node <= Len(ns)
  <2>1. PartOK(ns, G, fs[i])
    BY DEF FilesOK
  <2> QED BY <2>1 DEF PartOK
<1>3. ASSUME NEW i \in 2 .. n
      PROVE  /\ fs[i].inc \in 1 .. Len(ns) /\ fs[i].inc \notin G
             /\ fs[i].inc < fs[i].root
             /\ i - 1 \in 1 .. n /\ fs[i - 1].node < fs[i].inc
  <2>1. IncOK(ns, G, h, fs[i], fs[i - 1].node)
    BY DEF FilesOK
  <2>2. i \in 1 .. n /\ i - 1 \in 1 .. n
    BY <1>1
  <2>3. /\ fs[i].inc \in Nat /\ fs[i - 1].node < fs[i].inc
        /\ fs[i].inc < fs[i].root /\ fs[i].inc \notin G
    BY <2>1 DEF IncOK
  <2> QED BY <2>2, <2>3, <1>2
<1>4. ASSUME NEW i \in 1 .. n
      PROVE  /\ fs[i].node <= fs[n].node
             /\ i # n => fs[i].node < fs[n].root /\ fs[i].node < fs[n].inc
  <2>1. CASE i = n
    BY <2>1, <1>2
  <2>2. CASE i # n
    <3>1. i < n /\ n \in 2 .. n
      BY <2>2, <1>1
    <3>2. fs[i].node < fs[n].inc
      BY <3>1, <1>1 DEF FilesOK
    <3> QED BY <3>1, <3>2, <1>2, <1>3, <1>1, SMTT(30)
  <2> QED BY <2>1, <2>2
<1>5. fs[n].inc # 0 <=> n > 1
  <2>1. CASE n = 1
    BY <2>1 DEF FilesOK
  <2>2. CASE n # 1
    <3>1. n \in 2 .. n /\ n > 1
      <4>1. \A x \in Nat : x # 1 /\ x \in 1 .. x => x \in 2 .. x /\ x > 1
        OBVIOUS
      <4> HIDE DEF n
      <4> QED BY <4>1, <2>2, <1>1
    <3>2. fs[n].inc \in 1 .. Len(ns)
      BY <3>1, <1>3
    <3> QED BY <3>1, <3>2
  <2> QED BY <2>1, <2>2
<1> QED BY <1>1, <1>2, <1>3, <1>4, <1>5

Home1(u, f) == IF f.node = f.root /\ f.inc # 0 THEN u[f.inc] ELSE f.node

Labelled(u, v, a, m, home) ==
  /\ \A c \in 1 .. Len(a) : v[c] = u[c]
  /\ v[Len(a) + 1] = home
  /\ \A c \in Len(a) + 2 .. Len(m) : v[c] = Len(a) + 1

\* A tag without content: the file goes on where it was.
LEMMA TagTree ==
  ASSUME NEW a, NEW m, NEW u, NEW v, NEW G, NEW h, NEW fs, NEW node,
         Len(a) \in Nat, Len(fs) \in Nat, G \subseteq 1 .. Len(a),
         Tree(a, u, G, h, fs), GoesOn(fs, node), Tagged(a, m, node),
         Labelled(u, v, a, m, Home1(u, fs[Len(fs)]))
  PROVE  Tree(m, v, G, h, fs) /\ IncAhead(m, G, h, Len(a) + 1, node)
<1> SUFFICES ASSUME node = fs[Len(fs)].node
             PROVE  Tree(m, v, G, h, fs) /\ IncAhead(m, G, h, Len(a) + 1, node)
  BY DEF GoesOn
<1> DEFINE n == Len(fs)
           e == Len(a) + 1
<1>o. /\ n \in 1 .. n
      /\ \A i \in 1 .. n :
           /\ fs[i].root \in Nat /\ fs[i].node \in Nat
           /\ 1 <= fs[i].root /\ fs[i].root <= fs[i].node
           /\ fs[i].node <= Len(a) /\ fs[i].node <= node
           /\ i # n => fs[i].node < fs[n].root /\ fs[i].node < fs[n].inc
      /\ \A i \in 2 .. n :
           /\ fs[i].inc \in 1 .. Len(a) /\ fs[i].inc \notin G
           /\ fs[i].inc < fs[i].root
           /\ i - 1 \in 1 .. n /\ fs[i - 1].node < fs[i].inc
      /\ fs[n].inc # 0 <=> n > 1
  <2>1. FilesOK(a, G, h, fs)
    BY DEF Tree
  <2> QED BY <2>1, FileOrder
<1>0. Len(m) \in Nat /\ e <= Len(m) /\ e \in Nat /\ node \in 1 .. Len(a) /\ Forward(a)
  BY <1>o DEF Tagged, Tree
<1>k. /\ \A p \in 0 .. Len(a) : p # node => Kids(m, G, p) = Kids(a, G, p)
      /\ Kids(m, G, node) = Kids(a, G, node) \cup {e}
      /\ Kids(m, G, Len(a) + 1) = Len(a) + 2 .. Len(m)
  <2>1. /\ \A p \in 0 .. Len(a) : p # node => Kids(m, G, p) = Kids(a, G, p)
        /\ Kids(m, G, node) = Kids(a, G, node) \cup {Len(a) + 1}
        /\ Kids(m, G, Len(a) + 1) = Len(a) + 2 .. Len(m)
    <3>1. ASSUME NEW x \in 1 .. Len(a), Tagged(a, m, x), Forward(a)
          PROVE  /\ \A p \in 0 .. Len(a) : p # x => Kids(m, G, p) = Kids(a, G, p)
                 /\ Kids(m, G, x) = Kids(a, G, x) \cup {Len(a) + 1}
                 /\ Kids(m, G, Len(a) + 1) = Len(a) + 2 .. Len(m)
                 /\ \A p \in Len(a) + 2 .. Len(m) : Kids(m, G, p) = {}
      <4> HIDE DEF e, n
      <4> QED BY <3>1, TagKids
    <3>2. node \in 1 .. Len(a) /\ Forward(a)
      BY <1>0
    <3> HIDE DEF e, n
    <3> QED BY <3>1, <3>2
  <2> QED BY <2>1
<1>n. node \notin G
  <2>1. PICK O : Open(a, G, h, fs[n], O)
    BY <1>o DEF Tree, FilesOK
  <2> QED BY <2>1 DEF Open
<1>t. /\ \A c \in 1 .. Len(a) : m[c].parent = a[c].parent /\ m[c].prev = a[c].prev
      /\ \A c \in 1 .. Len(a) : c # node => m[c].last = a[c].last
      /\ m[e].parent = node /\ m[e].prev = a[node].last /\ m[node].last = e
      /\ \A c \in e + 1 .. Len(m) : m[c].parent = e
  BY <1>0 DEF Tagged
<1>p. ASSUME NEW c \in 1 .. Len(a), a[c].parent # node, KnowsPrev(a, G, c)
      PROVE  KnowsPrev(m, G, c)
  <2>1. a[c].parent \in 0 .. Len(a)
    BY <1>0 DEF Forward
  <2> QED BY <2>1, <1>p, <1>k, <1>t DEF KnowsPrev
<1>1. Forward(m)
  BY <1>0, TagForward
<1>2. ASSUME NEW i \in 1 .. n
      PROVE  PartOK(m, G, fs[i])
  <2>1. PartOK(a, G, fs[i])
    BY DEF Tree, FilesOK
  <2>2. fs[i].root \in 1 .. Len(a)
    BY <1>o
  <2>3. ASSUME NEW c \in 1 .. Len(m), fs[i].root < c
        PROVE  m[c].parent = 0 \/ fs[i].root <= m[c].parent
    <3>1. CASE c \in 1 .. Len(a)
      BY <2>1, <2>3, <3>1, <1>t DEF PartOK
    <3>2. CASE c = e
      BY <3>2, <1>t, <1>o, SMTT(30)
    <3>3. CASE c \in e + 1 .. Len(m)
      <4>1. m[c].parent = e
        BY <3>3, <1>t
      <4> QED BY <4>1, <2>2
    <3> QED BY <3>1, <3>2, <3>3, <1>0
  <2> QED BY <2>1, <2>2, <2>3, <1>0, <1>t DEF PartOK
<1>3. ASSUME NEW i \in 1 .. n
      PROVE  \E O : Open(m, G, h, fs[i], O)
  <2>1. PICK O : Open(a, G, h, fs[i], O)
    BY DEF Tree, FilesOK
  <2>2. ASSUME NEW c \in O \ {fs[i].root}
        PROVE  /\ m[c].parent \in O /\ m[m[c].parent].last = c
               /\ h \/ KnowsPrev(m, G, c)
    <3>1. c \in Nat /\ fs[i].root <= c /\ c <= fs[i].node
      BY <2>1 DEF Open
    <3>2. c \in 1 .. Len(a) /\ c <= node
      BY <3>1, <1>o, <1>0, SMTT(30)
    <3>3. /\ a[c].parent \in O /\ a[a[c].parent].last = c
          /\ h \/ KnowsPrev(a, G, c)
      BY <2>1 DEF Open
    <3>4. a[c].parent \in Nat /\ a[c].parent < c
      BY <3>2, <1>0 DEF Forward
    <3>5. fs[i].root <= a[c].parent
      BY <2>1, <3>3 DEF Open
    <3>6. a[c].parent \in 1 .. Len(a) /\ a[c].parent # node
      BY <3>2, <3>4, <3>5, <1>o, <1>0
    <3> QED BY <3>2, <3>3, <3>6, <1>t, <1>p
  <2> QED BY <2>1, <2>2 DEF Open
<1>4. ASSUME NEW i \in 2 .. n
      PROVE  IncOK(m, G, h, fs[i], fs[i - 1].node)
  <2>1. IncOK(a, G, h, fs[i], fs[i - 1].node)
    BY DEF Tree, FilesOK
  <2>2. i - 1 \in 1 .. n /\ i - 1 # n /\ fs[i].inc \in 1 .. Len(a)
    BY <1>o
  <2>3. fs[i - 1].node \in 1 .. Len(a) /\ fs[i - 1].node # node
    <3>1. /\ fs[i - 1].node \in Nat /\ fs[i - 1].node <= Len(a) /\ 1 <= fs[i - 1].root
          /\ fs[i - 1].root <= fs[i - 1].node /\ fs[i - 1].root \in Nat
          /\ fs[i - 1].node < fs[n].root
      BY <2>2, <1>o
    <3>2. fs[n].root <= node /\ fs[n].root \in Nat /\ node \in Nat
      BY <1>o
    <3> QED BY <3>1, <3>2
  <2> QED BY <2>1, <2>2, <2>3, <1>t, <1>p DEF IncOK
<1>5. FilesOK(m, G, h, fs)
  BY <1>2, <1>3, <1>4 DEF Tree, FilesOK
<1> DEFINE home == Home1(u, fs[n])
<1>v. /\ \A c \in 1 .. Len(a) : v[c] = u[c]
      /\ v[e] = home /\ \A c \in e + 1 .. Len(m) : v[c] = e
  BY DEF Labelled
<1>u. \A c \in 1 .. Len(a) : u[c] \in 0 .. c - 1
  BY DEF Tree
<1>6. home \in 0 .. node
  <2>1. CASE node = fs[n].root /\ fs[n].inc # 0
    <3>1. n \in 2 .. n
      BY <2>1, <1>o
    <3>2. fs[n].inc \in 1 .. Len(a) /\ fs[n].inc < fs[n].root
      BY <3>1, <1>o
    <3>3. u[fs[n].inc] \in 0 .. fs[n].inc - 1
      BY <3>2, <1>u
    <3> QED BY <2>1, <3>2, <3>3, <1>0 DEF Home1
  <2>2. CASE ~(node = fs[n].root /\ fs[n].inc # 0)
    BY <2>2, <1>0 DEF Home1
  <2> QED BY <2>1, <2>2
<1>7. ASSUME NEW c \in 1 .. Len(m)
      PROVE  v[c] \in 0 .. c - 1
  <2>1. CASE c \in 1 .. Len(a)
    BY <2>1, <1>u, <1>v
  <2>2. CASE c = e
    BY <2>2, <1>v, <1>6, <1>0
  <2>3. CASE c \in e + 1 .. Len(m)
    BY <2>3, <1>v, <1>0
  <2> QED BY <2>1, <2>2, <2>3, <1>0
<1>8. ASSUME ~h
      PROVE  AllLinked(m, G) /\ ParentsOK(m, v, G, fs)
  <2>1. AllLinked(a, G) /\ ParentsOK(a, u, G, fs)
    BY <1>8 DEF Tree
  <2>2. AllLinked(m, G)
    BY <2>1, <1>0, <1>n, TagLinked
  <2> DEFINE Good(c) ==
        /\ \A i \in 2 .. n : v[c] # fs[i].root
        /\ \/ m[c].parent = v[c]
           \/ \E i \in 2 .. n : m[c].parent = fs[i].root /\ v[c] = v[fs[i].inc]
  <2>3. ASSUME NEW c \in 1 .. Len(a), c \notin G
        PROVE  Good(c)
    <3>1. /\ \A i \in 2 .. n : u[c] # fs[i].root
          /\ \/ a[c].parent = u[c]
             \/ \E i \in 2 .. n : a[c].parent = fs[i].root /\ u[c] = u[fs[i].inc]
      BY <2>1, <2>3 DEF ParentsOK
    <3>2. \A i \in 2 .. n : v[fs[i].inc] = u[fs[i].inc]
      BY <1>o, <1>v
    <3>3. v[c] = u[c] /\ m[c].parent = a[c].parent
      BY <1>v, <1>t
    <3> QED BY <3>1, <3>2, <3>3
  <2>4. Good(e)
    <3>1. CASE node = fs[n].root /\ fs[n].inc # 0
      <4>1. n \in 2 .. n
        BY <3>1, <1>o
      <4>2. fs[n].inc \in 1 .. Len(a) /\ fs[n].inc \notin G
        BY <4>1, <1>o
      <4>3. \A i \in 2 .. n : u[fs[n].inc] # fs[i].root
        BY <2>1, <4>2 DEF ParentsOK
      <4>4. v[e] = u[fs[n].inc] /\ v[fs[n].inc] = u[fs[n].inc]
        BY <3>1, <4>2, <1>v DEF Home1
      <4>5. m[e].parent = fs[n].root
        BY <3>1, <1>t
      <4> QED BY <4>1, <4>3, <4>4, <4>5
    <3>2. CASE ~(node = fs[n].root /\ fs[n].inc # 0)
      <4>1. v[e] = node /\ m[e].parent = node
        BY <3>2, <1>v, <1>t DEF Home1
      <4>2. ASSUME NEW i \in 2 .. n PROVE node # fs[i].root
        <5>1. i \in 1 .. n /\ n > 1
          BY <1>o
        <5>2. CASE i = n
          BY <5>1, <5>2, <3>2, <1>o
        <5>3. CASE i # n
          <6>1. fs[i].root <= fs[i].node /\ fs[i].node < fs[n].root /\ fs[n].root <= node
            BY <5>1, <5>3, <1>o
          <6>2. fs[i].root \in Nat /\ fs[i].node \in Nat /\ fs[n].root \in Nat
            BY <5>1, <1>o
          <6> QED BY <6>1, <6>2, <1>0
        <5> QED BY <5>2, <5>3
      <4> QED BY <4>1, <4>2
    <3> QED BY <3>1, <3>2
  <2>5. ASSUME NEW c \in e + 1 .. Len(m)
        PROVE  Good(c)
    <3>1. v[c] = e /\ m[c].parent = e
      BY <1>v, <1>t
    <3>2. \A i \in 2 .. n : fs[i].root # e
      <4>1. \A i \in 2 .. n : i \in 1 .. n
        OBVIOUS
      <4>2. \A i \in 1 .. n : /\ fs[i].root \in Nat /\ fs[i].node \in Nat
                              /\ fs[i].root <= fs[i].node /\ fs[i].node <= Len(a)
        BY <1>o
      <4>3. \A i \in 1 .. n : fs[i].root # e
        BY <4>2
      <4> QED BY <4>1, <4>3
    <3> QED BY <3>1, <3>2
  <2>6. \A c \in 1 .. Len(m) \ G : Good(c)
    <3>1. \A c \in 1 .. Len(m) \ G : (c \in 1 .. Len(a) /\ c \notin G) \/ c = e \/ c \in e + 1 .. Len(m)
      BY <1>0
    <3> HIDE DEF Good, e
    <3> QED BY <3>1, <2>3, <2>4, <2>5
  <2>7. ParentsOK(m, v, G, fs)
    BY <2>6 DEF ParentsOK
  <2> QED BY <2>2, <2>7
<1>9. Tree(m, v, G, h, fs)
  <2> HIDE DEF home
  <2> QED BY <1>1, <1>5, <1>7, <1>8 DEF Tree
<1>10. h \/ KnowsPrev(m, G, e)
  <2> SUFFICES ASSUME ~h PROVE KnowsPrev(m, G, e)
    OBVIOUS
  <2>1. Greatest(a[node].last, Kids(a, G, node))
    BY <1>0, <1>n DEF Tree, AllLinked, Linked
  <2>2. {d \in Kids(m, G, node) : d < e} = Kids(a, G, node)
    <3>1. \A d \in Kids(a, G, node) : d \in Nat /\ d < e
      BY <1>0 DEF Kids
    <3> QED BY <3>1, <1>k, <1>0
  <2> QED BY <2>1, <2>2, <1>t DEF KnowsPrev
<1> QED BY <1>9, <1>10, <1>0, <1>t DEF IncAhead

\* A tag with content: the file goes on in the new element.
LEMMA TagInTree ==
  ASSUME NEW a, NEW m, NEW u, NEW v, NEW G, NEW h, NEW fs, NEW gs, NEW node,
         Len(a) \in Nat, Len(fs) \in Nat, G \subseteq 1 .. Len(a),
         Tree(a, u, G, h, fs), GoesOn(fs, node), Tagged(a, m, node),
         Labelled(u, v, a, m, Home1(u, fs[Len(fs)])), Moved(fs, gs, Len(a) + 1)
  PROVE  /\ Tree(m, v, G, h, gs)
         /\ m[Len(a) + 1].last # 0 => IncAhead(m, G, h, m[Len(a) + 1].last, Len(a) + 1)
<1> DEFINE n == Len(fs)
           e == Len(a) + 1
<1>1. Tree(m, v, G, h, fs) /\ IncAhead(m, G, h, e, node)
  <2>1. Tree(m, v, G, h, fs) /\ IncAhead(m, G, h, Len(a) + 1, node)
    <3> HIDE DEF e, n
    <3> QED BY TagTree
  <2> QED BY <2>1
<1>g. node = fs[n].node
  BY DEF GoesOn
<1>2. n \in 1 .. n /\ PartOK(m, G, fs[n]) /\ Forward(m)
  <2>1. n \in 1 .. n
    BY DEF Tree, FilesOK
  <2> QED BY <2>1, <1>1 DEF Tree, FilesOK
<1>3. PICK O : Open(m, G, h, fs[n], O)
  BY <1>1, <1>2 DEF Tree, FilesOK
<1>4. e \in Nat /\ e <= Len(m) /\ e \notin G /\ Len(m) \in Nat
  BY DEF Tagged
<1>5. gs[n].root = fs[n].root /\ gs[n].node = e
  BY <1>2 DEF Moved
<1>6. node \in Nat /\ fs[n].root \in Nat /\ fs[n].root <= node /\ node < e
  BY <1>g, <1>1, <1>2 DEF PartOK, IncAhead
<1>7. PartOK(m, G, gs[n])
  <2>1. fs[n].root <= e
    BY <1>4, <1>6
  <2> QED BY <1>2, <1>4, <1>5, <2>1 DEF PartOK
<1> DEFINE P == O \cup {e}
<1>8. Open(m, G, h, gs[n], P)
  <2>1. \A c \in P : c \in Nat /\ fs[n].root <= c /\ c <= e /\ c \notin G
    <3>1. \A c \in O : c \in Nat /\ fs[n].root <= c /\ c <= node /\ c \notin G
      BY <1>g, <1>3 DEF Open
    <3> QED BY <3>1, <1>4, <1>6
  <2>2. ASSUME NEW c \in P \ {fs[n].root}
        PROVE  /\ m[c].parent \in P /\ m[m[c].parent].last = c
               /\ h \/ KnowsPrev(m, G, c)
    <3>1. CASE c \in O
      BY <3>1, <1>3 DEF Open
    <3>2. CASE c = e
      <4>1. node \in O
        BY <1>g, <1>3 DEF Open
      <4> QED BY <3>2, <4>1, <1>1 DEF IncAhead
    <3> QED BY <3>1, <3>2
  <2> HIDE DEF P
  <2>3. e \in P
    BY DEF P
  <2> QED BY <2>1, <2>2, <2>3, <1>5 DEF Open
<1>9. Tree(m, v, G, h, gs)
  <2>1. Moved(fs, gs, e)
    OBVIOUS
  <2> HIDE DEF P, e
  <2> QED BY <1>1, <1>4, <1>7, <1>8, <2>1, MovedTree
<1>10. ASSUME m[e].last # 0
       PROVE  IncAhead(m, G, h, m[e].last, e)
  <2>1. Len(m) > e /\ m[e].last = Len(m) /\ m[Len(m)].parent = e
        /\ m[Len(m)].prev = IF Len(m) = e + 1 THEN 0 ELSE Len(m) - 1
    BY <1>10, <1>4 DEF Tagged
  <2>2. Kids(m, G, e) = e + 1 .. Len(m)
    <3>1. ASSUME NEW x \in 1 .. Len(a), Tagged(a, m, x), Forward(a)
          PROVE  /\ \A p \in 0 .. Len(a) : p # x => Kids(m, G, p) = Kids(a, G, p)
                 /\ Kids(m, G, x) = Kids(a, G, x) \cup {Len(a) + 1}
                 /\ Kids(m, G, Len(a) + 1) = Len(a) + 2 .. Len(m)
                 /\ \A p \in Len(a) + 2 .. Len(m) : Kids(m, G, p) = {}
      <4> HIDE DEF e, n
      <4> QED BY <3>1, TagKids
    <3>2. node \in 1 .. Len(a)
      BY <1>2, <1>6 DEF PartOK
    <3>3. Forward(a)
      BY DEF Tree
    <3>4. e + 1 = Len(a) + 2
      OBVIOUS
    <3> QED BY <3>1, <3>2, <3>3, <3>4
  <2>3. KnowsPrev(m, G, Len(m))
    <3>1. {d \in Kids(m, G, e) : d < Len(m)} = e + 1 .. Len(m) - 1
      BY <2>2, <1>4
    <3> HIDE DEF e
    <3> QED BY <3>1, <2>1, <1>4 DEF KnowsPrev, Greatest
  <2>4. Len(m) \notin G
    BY <2>1, <1>4
  <2> QED BY <2>1, <2>3, <2>4, <1>4 DEF IncAhead
<1> QED BY <1>9, <1>10

\* A new root.
Grown(ns, m, u, v) ==
  /\ Len(m) = Len(ns) + 1 /\ \A c \in 1 .. Len(ns) : m[c] = ns[c] /\ v[c] = u[c]
  /\ m[Len(ns) + 1].parent = 0 /\ m[Len(ns) + 1].next = 0 /\ m[Len(ns) + 1].prev = 0
  /\ m[Len(ns) + 1].first = 0 /\ m[Len(ns) + 1].last = 0 /\ v[Len(ns) + 1] = 0

LEMMA GrowTree ==
  ASSUME NEW ns, NEW m, NEW u, NEW v, NEW G, NEW h, NEW fs,
         Len(ns) \in Nat, Len(fs) \in Nat, G \subseteq 1 .. Len(ns),
         Tree(ns, u, G, h, fs), Grown(ns, m, u, v)
  PROVE  Tree(m, v, G, h, fs)
<1> DEFINE r == Len(ns) + 1
           n == Len(fs)
<1>f. FilesOK(ns, G, h, fs) /\ Forward(ns)
  BY DEF Tree
<1>o. /\ n \in 1 .. n
      /\ \A i \in 1 .. n :
           /\ fs[i].root \in Nat /\ fs[i].node \in Nat
           /\ 1 <= fs[i].root /\ fs[i].root <= fs[i].node
           /\ fs[i].node <= Len(ns) /\ fs[i].node <= fs[n].node
           /\ i # n => fs[i].node < fs[n].root /\ fs[i].node < fs[n].inc
      /\ \A i \in 2 .. n :
           /\ fs[i].inc \in 1 .. Len(ns) /\ fs[i].inc \notin G
           /\ fs[i].inc < fs[i].root
           /\ i - 1 \in 1 .. n /\ fs[i - 1].node < fs[i].inc
      /\ fs[n].inc # 0 <=> n > 1
  BY <1>f, FileOrder
<1>r. m[r].parent = 0 /\ m[r].next = 0 /\ m[r].prev = 0 /\ m[r].first = 0 /\ m[r].last = 0
      /\ r \in Nat /\ r \notin G /\ Len(m) = r /\ v[r] = 0
  BY DEF Grown
<1>e. \A c \in 1 .. Len(ns) : m[c] = ns[c] /\ v[c] = u[c]
  BY DEF Grown
<1>k. ASSUME NEW p \in Nat, p # 0 PROVE Kids(m, G, p) = Kids(ns, G, p)
  <2>1. \A c \in 1 .. Len(m) : c \in 1 .. Len(ns) \/ c = r
    BY <1>r
  <2>2. \A c \in 1 .. Len(ns) : c \in 1 .. Len(m) /\ m[c] = ns[c]
    BY <1>r, <1>e
  <2> HIDE DEF r
  <2> QED BY <2>1, <2>2, <1>r, <1>k DEF Kids
<1>1. Forward(m)
  <2>1. ASSUME NEW c \in 1 .. Len(ns)
        PROVE  /\ m[c].parent \in 0 .. c - 1 /\ m[c].prev \in 0 .. c - 1
               /\ m[c].prev = 0 \/ (m[c].parent # 0 /\ m[c].parent < m[c].prev)
               /\ m[c].next = 0 \/ m[c].next \in c + 1 .. Len(ns)
               /\ m[c].first = 0 \/ m[c].first \in c + 1 .. Len(ns)
               /\ m[c].last = 0 \/ m[c].last \in c + 1 .. Len(ns)
               /\ m[c].last # 0 => m[c].first # 0
    BY <1>e, <1>f DEF Forward
  <2>2. \A c \in 1 .. Len(ns), x \in Nat : x \in c + 1 .. Len(ns) => x \in c + 1 .. Len(m)
    BY <1>r
  <2>3. \A c \in 1 .. Len(m) : c \in 1 .. Len(ns) \/ c = r
    BY <1>r
  <2>4. 0 \in 0 .. r - 1
    OBVIOUS
  <2> HIDE DEF r
  <2> SUFFICES ASSUME NEW c \in 1 .. Len(m)
               PROVE  /\ m[c].parent \in 0 .. c - 1 /\ m[c].prev \in 0 .. c - 1
                      /\ m[c].prev = 0 \/ (m[c].parent # 0 /\ m[c].parent < m[c].prev)
                      /\ m[c].next = 0 \/ m[c].next \in c + 1 .. Len(m)
                      /\ m[c].first = 0 \/ m[c].first \in c + 1 .. Len(m)
                      /\ m[c].last = 0 \/ m[c].last \in c + 1 .. Len(m)
                      /\ m[c].last # 0 => m[c].first # 0
    BY DEF Forward
  <2>5. CASE c \in 1 .. Len(ns)
    <3>1. /\ m[c].next = 0 \/ m[c].next \in c + 1 .. Len(m)
          /\ m[c].first = 0 \/ m[c].first \in c + 1 .. Len(m)
          /\ m[c].last = 0 \/ m[c].last \in c + 1 .. Len(m)
      BY <2>1, <2>2, <2>5
    <3> QED BY <3>1, <2>1, <2>5
  <2>6. CASE c = r
    BY <2>4, <2>6, <1>r
  <2> QED BY <2>3, <2>5, <2>6
<1>p. ASSUME NEW c \in 1 .. Len(ns), ns[c].parent # 0, KnowsPrev(ns, G, c)
      PROVE  KnowsPrev(m, G, c)
  <2>1. ns[c].parent \in Nat
    BY <1>f DEF Forward
  <2> QED BY <2>1, <1>p, <1>k, <1>e DEF KnowsPrev
<1>2. ASSUME NEW i \in 1 .. n
      PROVE  PartOK(m, G, fs[i]) /\ \E O : Open(m, G, h, fs[i], O)
  <2>1. PartOK(ns, G, fs[i])
    BY <1>f DEF FilesOK
  <2>2. PICK O : Open(ns, G, h, fs[i], O)
    BY <1>f DEF FilesOK
  <2>3. fs[i].root \in 1 .. Len(ns)
    BY <1>o, SMTT(30)
  <2>4. ASSUME NEW c \in O \ {fs[i].root}
        PROVE  /\ m[c].parent \in O /\ m[m[c].parent].last = c
               /\ h \/ KnowsPrev(m, G, c)
    <3>1. c \in 1 .. Len(ns)
      BY <2>1, <2>2 DEF Open, PartOK
    <3>2. /\ ns[c].parent \in O /\ ns[ns[c].parent].last = c
          /\ h \/ KnowsPrev(ns, G, c)
      BY <2>2 DEF Open
    <3>3. ns[c].parent \in 1 .. Len(ns)
      BY <2>1, <2>2, <3>2 DEF Open, PartOK
    <3>4. ns[c].parent # 0
      BY <3>3
    <3> QED BY <3>1, <3>2, <3>3, <3>4, <1>p, <1>e
  <2>5. Open(m, G, h, fs[i], O)
    BY <2>2, <2>4 DEF Open
  <2>6. ASSUME NEW c \in 1 .. Len(m), fs[i].root < c
        PROVE  m[c].parent = 0 \/ fs[i].root <= m[c].parent
    <3>1. CASE c \in 1 .. Len(ns)
      BY <3>1, <2>1, <2>6, <1>e DEF PartOK
    <3>2. CASE c = r
      BY <3>2, <1>r
    <3> QED BY <3>1, <3>2, <1>r
  <2>7. fs[i].node <= Len(m)
    BY <1>r, <1>o
  <2> QED BY <2>1, <2>3, <2>5, <2>6, <2>7, <1>e DEF PartOK
<1>3. ASSUME NEW i \in 2 .. n
      PROVE  IncOK(m, G, h, fs[i], fs[i - 1].node)
  <2>1. IncOK(ns, G, h, fs[i], fs[i - 1].node)
    BY <1>f DEF FilesOK
  <2>2. fs[i].inc \in 1 .. Len(ns) /\ fs[i - 1].node \in 1 .. Len(ns) /\ fs[i - 1].node # 0
    <3>1. i - 1 \in 1 .. n /\ fs[i].inc \in 1 .. Len(ns)
      BY <1>o
    <3>2. /\ fs[i - 1].node \in Nat /\ fs[i - 1].node <= Len(ns) /\ 1 <= fs[i - 1].root
          /\ fs[i - 1].root <= fs[i - 1].node /\ fs[i - 1].root \in Nat
      BY <3>1, <1>o
    <3> QED BY <3>1, <3>2
  <2> QED BY <2>1, <2>2, <1>p, <1>e DEF IncOK
<1>4. FilesOK(m, G, h, fs)
  BY <1>2, <1>3, <1>f DEF FilesOK
<1>5. \A c \in 1 .. Len(m) : v[c] \in 0 .. c - 1
  <2>1. \A c \in 1 .. Len(ns) : v[c] \in 0 .. c - 1
    BY <1>e DEF Tree
  <2>2. \A c \in 1 .. Len(m) : c \in 1 .. Len(ns) \/ c = r
    BY <1>r
  <2>3. 0 \in 0 .. r - 1
    OBVIOUS
  <2> HIDE DEF r
  <2> QED BY <2>1, <2>2, <2>3, <1>e, <1>r
<1>6. ASSUME ~h
      PROVE  AllLinked(m, G) /\ ParentsOK(m, v, G, fs)
  <2>1. AllLinked(ns, G) /\ ParentsOK(ns, u, G, fs)
    BY <1>6 DEF Tree
  <2>2. \A c \in 1 .. Len(m) : c \in 1 .. Len(ns) \/ c = r
    BY <1>r
  <2>3. ASSUME NEW p \in 1 .. Len(m) \ G PROVE Linked(m, G, p)
    <3>1. Kids(m, G, p) = Kids(ns, G, p) /\ p # 0
      BY <1>k
    <3>2. CASE p \in 1 .. Len(ns)
      <4>1. Linked(ns, G, p) /\ m[p] = ns[p]
        BY <3>2, <2>1, <1>e DEF AllLinked
      <4>2. \A c \in Kids(ns, G, p) : m[c] = ns[c]
        BY <1>e DEF Kids
      <4> QED BY <3>1, <4>1, <4>2 DEF Linked
    <3>3. CASE p = r
      <4>1. Kids(ns, G, r) = {}
        <5>1. \A c \in 1 .. Len(ns) : ns[c].parent \in 0 .. c - 1
          BY <1>f DEF Forward
        <5>2. \A c \in 1 .. Len(ns) : ns[c].parent # r
          BY <5>1
        <5> HIDE DEF r
        <5> QED BY <5>2 DEF Kids
      <4> QED BY <3>1, <3>3, <4>1, <1>r DEF Linked, Least, Greatest
    <3> QED BY <3>2, <3>3, <2>2
  <2>4. ASSUME NEW c \in 1 .. Len(m) \ G
        PROVE  /\ \A i \in 2 .. n : v[c] # fs[i].root
               /\ \/ m[c].parent = v[c]
                  \/ \E i \in 2 .. n : m[c].parent = fs[i].root /\ v[c] = v[fs[i].inc]
    <3>0. \A i \in 2 .. n : fs[i].inc \in 1 .. Len(ns) /\ fs[i].root # 0
      <4>1. \A i \in 2 .. n : i \in 1 .. n
        OBVIOUS
      <4>2. \A i \in 1 .. n : fs[i].root # 0
        BY <1>o
      <4> QED BY <4>1, <4>2, <1>o
    <3>1. CASE c \in 1 .. Len(ns)
      <4>1. /\ \A i \in 2 .. n : u[c] # fs[i].root
            /\ \/ ns[c].parent = u[c]
               \/ \E i \in 2 .. n : ns[c].parent = fs[i].root /\ u[c] = u[fs[i].inc]
        BY <2>1, <3>1 DEF ParentsOK
      <4>2. \A i \in 2 .. n : v[fs[i].inc] = u[fs[i].inc]
        BY <3>0, <1>e
      <4> QED BY <3>1, <4>1, <4>2, <1>e
    <3>2. CASE c = r
      BY <3>0, <3>2, <1>r
    <3> QED BY <3>1, <3>2, <2>2
  <2> QED BY <2>3, <2>4 DEF AllLinked, ParentsOK
<1> QED BY <1>1, <1>4, <1>5, <1>6 DEF Tree

\* A file is opened inside the innermost one.
LEMMA IncludeTree ==
  ASSUME NEW ns, NEW m, NEW u, NEW v, NEW G, NEW h, NEW fs, NEW gs, NEW inc, NEW node,
         Len(ns) \in Nat, Len(fs) \in Nat, G \subseteq 1 .. Len(ns),
         Tree(ns, u, G, h, fs), GoesOn(fs, node), IncAhead(ns, G, h, inc, node),
         Grown(ns, m, u, v),
         Len(gs) = Len(fs) + 1, \A i \in 1 .. Len(fs) : gs[i] = fs[i],
         gs[Len(gs)].root = Len(m), gs[Len(gs)].node = Len(m), gs[Len(gs)].inc = inc
  PROVE  Tree(m, v, G, h, gs)
<1> DEFINE r == Len(ns) + 1
           n == Len(fs)
<1>g. node = fs[n].node
  BY DEF GoesOn
<1>s. /\ Len(gs) = n + 1 /\ \A i \in 1 .. n : gs[i] = fs[i]
      /\ gs[n + 1].root = r /\ gs[n + 1].node = r /\ gs[n + 1].inc = inc
  BY DEF Grown
<1>1. Tree(m, v, G, h, fs)
  <2> HIDE DEF r, n
  <2> QED BY GrowTree
<1>f. FilesOK(m, G, h, fs) /\ Forward(m) /\ FilesOK(ns, G, h, fs) /\ Forward(ns)
  BY <1>1 DEF Tree
<1>o. /\ n \in 1 .. n /\ n \in Nat
      /\ \A i \in 1 .. n :
           /\ fs[i].root \in Nat /\ fs[i].node \in Nat
           /\ 1 <= fs[i].root /\ fs[i].root <= fs[i].node
           /\ fs[i].node <= Len(ns) /\ fs[i].node <= node
  BY <1>f, <1>g, FileOrder
<1>r. m[r].parent = 0 /\ r \in Nat /\ r \notin G /\ Len(m) = r /\ v[r] = 0
  BY DEF Grown
<1>e. \A c \in 1 .. Len(ns) : m[c] = ns[c] /\ v[c] = u[c]
  BY DEF Grown
<1>i. /\ inc \in Nat /\ node < inc /\ inc <= Len(ns) /\ inc \notin G
      /\ ns[inc].parent = node /\ ns[node].last = inc
      /\ h \/ KnowsPrev(ns, G, inc)
  BY DEF IncAhead
<1>j. node \in Nat /\ 1 <= node /\ node \in 1 .. Len(ns) /\ inc \in 1 .. Len(ns)
  BY <1>o, <1>g, <1>i
<1>2. h \/ KnowsPrev(m, G, inc)
  <2> SUFFICES ASSUME ~h PROVE KnowsPrev(m, G, inc)
    OBVIOUS
  <2>1. \A c \in 1 .. Len(m) : c \in 1 .. Len(ns) \/ c = r
    BY <1>r
  <2>2. \A c \in 1 .. Len(ns) : c \in 1 .. Len(m) /\ m[c] = ns[c]
    BY <1>r, <1>e
  <2>3. node # 0
    BY <1>j
  <2>4. Kids(m, G, node) = Kids(ns, G, node)
    <3> HIDE DEF r
    <3> QED BY <2>1, <2>2, <2>3, <1>r DEF Kids
  <2> QED BY <2>4, <1>i, <1>j, <1>e DEF KnowsPrev
<1>3. ASSUME NEW i \in 1 .. n + 1
      PROVE  PartOK(m, G, gs[i]) /\ \E O : Open(m, G, h, gs[i], O)
  <2>1. CASE i \in 1 .. n
    BY <2>1, <1>s, <1>f DEF FilesOK
  <2>2. CASE i = n + 1
    <3>1. PartOK(m, G, gs[n + 1])
      BY <1>s, <1>r DEF PartOK
    <3>2. Open(m, G, h, gs[n + 1], {r})
      BY <1>s, <1>r DEF Open
    <3> QED BY <2>2, <3>1, <3>2
  <2> QED BY <2>1, <2>2, <1>o
<1>4. ASSUME NEW i \in 2 .. n + 1
      PROVE  IncOK(m, G, h, gs[i], gs[i - 1].node)
  <2>1. CASE i \in 2 .. n
    <3>1. gs[i] = fs[i] /\ gs[i - 1] = fs[i - 1]
      BY <2>1, <1>s
    <3> QED BY <2>1, <3>1, <1>f DEF FilesOK
  <2>2. CASE i = n + 1
    <3>1. gs[i - 1].node = node
      BY <2>2, <1>s, <1>o, <1>g
    <3> QED BY <2>2, <3>1, <1>s, <1>i, <1>j, <1>e, <1>2 DEF IncOK
  <2> QED BY <2>1, <2>2, <1>o
<1>5. ASSUME NEW i \in 1 .. n + 1, NEW j \in 1 .. n + 1, i < j
      PROVE  gs[i].node < gs[j].inc
  <2>1. i \in 1 .. n /\ gs[i] = fs[i]
    BY <1>5, <1>s, <1>o
  <2>2. CASE j \in 1 .. n
    BY <2>1, <2>2, <1>5, <1>s, <1>f DEF FilesOK
  <2>3. CASE j = n + 1
    <3>1. fs[i].node <= node /\ fs[i].node \in Nat
      BY <2>1, <1>o
    <3> QED BY <2>1, <2>3, <3>1, <1>s, <1>i, <1>j
  <2> QED BY <2>2, <2>3, <1>o
<1>6. gs[1].inc = 0
  BY <1>s, <1>o, <1>f DEF FilesOK
<1>7. FilesOK(m, G, h, gs)
  BY <1>3, <1>4, <1>5, <1>6, <1>s, <1>o DEF FilesOK
<1>8. ASSUME ~h
      PROVE  ParentsOK(m, v, G, gs)
  <2>1. ParentsOK(m, v, G, fs)
    BY <1>1, <1>8 DEF Tree
  <2>2. ASSUME NEW c \in 1 .. Len(m) \ G
        PROVE  /\ \A i \in 2 .. n + 1 : v[c] # gs[i].root
               /\ \/ m[c].parent = v[c]
                  \/ \E i \in 2 .. n + 1 : m[c].parent = gs[i].root /\ v[c] = v[gs[i].inc]
    <3>1. /\ \A i \in 2 .. n : v[c] # fs[i].root
          /\ \/ m[c].parent = v[c]
             \/ \E i \in 2 .. n : m[c].parent = fs[i].root /\ v[c] = v[fs[i].inc]
      BY <2>1 DEF ParentsOK
    <3>2. \A i \in 2 .. n : i \in 2 .. n + 1 /\ gs[i] = fs[i]
      BY <1>s, <1>o
    <3>3. v[c] # r
      <4>1. v[c] \in 0 .. c - 1
        BY <1>1 DEF Tree
      <4> QED BY <4>1, <1>r
    <3>4. \A i \in 2 .. n + 1 : i \in 2 .. n \/ i = n + 1
      BY <1>o
    <3> HIDE DEF r, n
    <3> QED BY <3>1, <3>2, <3>3, <3>4, <1>s
  <2> QED BY <2>2, <1>s DEF ParentsOK
<1> QED BY <1>7, <1>8, <1>1 DEF Tree

\* A file is read by itself.
LEMMA FileTree ==
  ASSUME NEW ns, NEW m, NEW u, NEW v, NEW G, NEW h, NEW fs, NEW gs,
         Len(ns) \in Nat, Len(fs) = 1, G \subseteq 1 .. Len(ns),
         Tree(ns, u, G, h, fs), Grown(ns, m, u, v),
         Len(gs) = 1, gs[1].root = Len(m), gs[1].node = Len(m), gs[1].inc = 0
  PROVE  Tree(m, v, G, h, gs)
<1>1. Tree(m, v, G, h, fs)
  BY GrowTree
<1>r. m[Len(m)].parent = 0 /\ Len(m) \in Nat /\ Len(m) \notin G /\ Len(m) # 0
  BY DEF Grown
<1>2. PartOK(m, G, gs[1])
  BY <1>r DEF PartOK
<1>3. Open(m, G, h, gs[1], {Len(m)})
  BY <1>r DEF Open
<1>4. FilesOK(m, G, h, gs)
  BY <1>2, <1>3 DEF FilesOK
<1>5. ParentsOK(m, v, G, fs) => ParentsOK(m, v, G, gs)
  BY DEF ParentsOK
<1> QED BY <1>1, <1>4, <1>5 DEF Tree

\* The files around the innermost one.
Outer(fs, gs) == Len(gs) = Len(fs) - 1 /\ \A i \in 1 .. Len(gs) : gs[i] = fs[i]

\* What was read of the innermost file is not used.
LEMMA DropTree ==
  ASSUME NEW ns, NEW u, NEW G, NEW D, NEW h, NEW fs, NEW gs,
         Len(ns) \in Nat, Len(fs) \in Nat, Len(fs) > 1, Outer(fs, gs),
         Tree(ns, u, G, h, fs),
         D \subseteq fs[Len(fs)].root .. Len(ns), fs[Len(fs)].root \in D,
         \A c \in D : ns[c].parent = 0 \/ ns[c].parent \in D,
         h \/ Kids(ns, G \cup D, fs[Len(fs)].root) = {}
  PROVE  Tree(ns, u, G \cup D, h, gs)
<1> DEFINE n == Len(fs)
           r == fs[n].root
           H == G \cup D
<1>f. FilesOK(ns, G, h, fs) /\ Forward(ns)
  BY DEF Tree
<1>o. /\ \A i \in 1 .. n :
           /\ fs[i].root \in Nat /\ fs[i].node \in Nat
           /\ 1 <= fs[i].root /\ fs[i].root <= fs[i].node
           /\ fs[i].node <= Len(ns)
           /\ i # n => fs[i].node < r /\ fs[i].node < fs[n].inc
      /\ \A i \in 2 .. n :
           /\ fs[i].inc \in 1 .. Len(ns) /\ fs[i].inc < fs[i].root
           /\ i - 1 \in 1 .. n /\ fs[i - 1].node < fs[i].inc
  BY <1>f, FileOrder
<1>n. n \in Nat /\ n > 1 /\ n \in 1 .. n /\ r \in Nat /\ 1 <= r /\ r <= Len(ns)
  <2>1. n \in Nat /\ n > 1 /\ n \in 1 .. n
    OBVIOUS
  <2>2. fs[n].root \in Nat /\ fs[n].node \in Nat /\ 1 <= fs[n].root
        /\ fs[n].root <= fs[n].node /\ fs[n].node <= Len(ns)
    BY <2>1, <1>o
  <2> QED BY <2>1, <2>2
<1>s. Len(gs) = n - 1 /\ \A i \in 1 .. n - 1 : gs[i] = fs[i]
  BY DEF Outer
<1>d. \A c \in Nat : c < r => c \notin D
  BY <1>n
<1>i. ASSUME NEW i \in 1 .. n - 1
      PROVE  /\ i \in 1 .. n /\ fs[i].root \in Nat /\ fs[i].node \in Nat
             /\ fs[i].root <= fs[i].node /\ fs[i].node < r /\ gs[i] = fs[i]
  <2>1. i \in 1 .. n /\ i # n
    BY <1>n
  <2> QED BY <2>1, <1>o, <1>s
<1>p. ASSUME NEW c \in 1 .. Len(ns), c < r, KnowsPrev(ns, G, c)
      PROVE  KnowsPrev(ns, H, c)
  <2>1. {d \in Kids(ns, H, ns[c].parent) : d < c} = {d \in Kids(ns, G, ns[c].parent) : d < c}
    <3>1. ASSUME NEW d \in 1 .. Len(ns), d < c PROVE d \notin D
      BY <3>1, <1>p, <1>d, <1>n
    <3> HIDE DEF n, r
    <3> QED BY <3>1 DEF Kids
  <2> QED BY <2>1, <1>p DEF KnowsPrev
<1>1. ASSUME NEW i \in 1 .. n - 1
      PROVE  PartOK(ns, H, gs[i]) /\ \E O : Open(ns, H, h, gs[i], O)
  <2>1. PartOK(ns, G, fs[i])
    BY <1>f, <1>i DEF FilesOK
  <2>2. PICK O : Open(ns, G, h, fs[i], O)
    BY <1>f, <1>i DEF FilesOK
  <2>3. \A c \in O : c \in 1 .. Len(ns) /\ c < r /\ c \notin H
    <3>1. \A c \in O : c \in Nat /\ fs[i].root <= c /\ c <= fs[i].node /\ c \notin G
      BY <2>2 DEF Open
    <3>2. fs[i].root # 0 /\ fs[i].node <= Len(ns)
      BY <2>1 DEF PartOK
    <3>3. \A c \in O : c \in 1 .. Len(ns) /\ c < r
      BY <3>1, <3>2, <1>i, <1>n
    <3> QED BY <3>1, <3>3, <1>d
  <2>4. Open(ns, H, h, fs[i], O)
    <3> HIDE DEF H
    <3>1. \A c \in O : KnowsPrev(ns, G, c) => KnowsPrev(ns, H, c)
      BY <2>3, <1>p
    <3> QED BY <2>2, <2>3, <3>1 DEF Open
  <2>5. fs[i].root \notin H
    <3> DEFINE x == fs[i].root
    <3>1. x \in Nat /\ x < r
      <4>1. fs[i].root \in Nat /\ fs[i].node \in Nat /\ fs[i].root <= fs[i].node /\ fs[i].node < r
        BY <1>i
      <4> QED BY <4>1, <1>n
    <3>2. x \notin D
      <4> HIDE DEF x
      <4> QED BY <3>1, <1>d
    <3>3. x \notin G
      BY <2>1 DEF PartOK
    <3> QED BY <3>2, <3>3
  <2>6. PartOK(ns, H, fs[i])
    BY <2>1, <2>5 DEF PartOK
  <2> QED BY <2>4, <2>6, <1>i
<1>2. ASSUME NEW i \in 2 .. n - 1
      PROVE  IncOK(ns, H, h, gs[i], gs[i - 1].node)
  <2>1. i \in 2 .. n /\ i \in 1 .. n - 1 /\ i - 1 \in 1 .. n - 1
    BY <1>n
  <2>2. IncOK(ns, G, h, fs[i], fs[i - 1].node)
    BY <2>1, <1>f DEF FilesOK
  <2>3. fs[i].inc \in 1 .. Len(ns) /\ fs[i].inc < r
    <3>1. fs[i].inc \in 1 .. Len(ns) /\ fs[i].inc < fs[i].root
      BY <2>1, <1>o
    <3>2. /\ fs[i].root \in Nat /\ fs[i].node \in Nat
          /\ fs[i].root <= fs[i].node /\ fs[i].node < r
      BY <2>1, <1>i
    <3>3. fs[i].inc \in Nat /\ r \in Nat
      BY <3>1, <1>n
    <3> HIDE DEF r
    <3> QED BY <3>1, <3>2, <3>3
  <2>4. fs[i].inc \notin H
    BY <2>2, <2>3, <1>d DEF IncOK
  <2>5. gs[i] = fs[i] /\ gs[i - 1] = fs[i - 1]
    BY <2>1, <1>s
  <2> HIDE DEF H
  <2> QED BY <2>2, <2>3, <2>4, <2>5, <1>p DEF IncOK
<1>3. \A i, j \in 1 .. n - 1 : i < j => gs[i].node < gs[j].inc
  BY <1>i, <1>f DEF FilesOK
<1>4. gs[1].inc = 0
  BY <1>s, <1>n, <1>f DEF FilesOK
<1>5. FilesOK(ns, H, h, gs)
  <2> HIDE DEF H
  <2> QED BY <1>1, <1>2, <1>3, <1>4, <1>s, <1>n DEF FilesOK
<1>6. ASSUME ~h
      PROVE  AllLinked(ns, H) /\ ParentsOK(ns, u, H, gs)
  <2>1. AllLinked(ns, G) /\ ParentsOK(ns, u, G, fs)
    BY <1>6 DEF Tree
  <2>2. ASSUME NEW p \in 1 .. Len(ns) \ H PROVE Linked(ns, H, p)
    <3>1. Kids(ns, H, p) = Kids(ns, G, p)
      BY DEF Kids
    <3>2. Linked(ns, G, p)
      BY <2>1 DEF AllLinked
    <3> QED BY <3>1, <3>2 DEF Linked
  <2>3. ASSUME NEW c \in 1 .. Len(ns) \ H
        PROVE  /\ \A i \in 2 .. n - 1 : u[c] # gs[i].root
               /\ \/ ns[c].parent = u[c]
                  \/ \E i \in 2 .. n - 1 : ns[c].parent = gs[i].root /\ u[c] = u[gs[i].inc]
    <3>1. /\ \A i \in 2 .. n : u[c] # fs[i].root
          /\ \/ ns[c].parent = u[c]
             \/ \E i \in 2 .. n : ns[c].parent = fs[i].root /\ u[c] = u[fs[i].inc]
      BY <2>1 DEF ParentsOK
    <3>2. ns[c].parent # r
      BY <1>6 DEF Kids
    <3>3. \A i \in 2 .. n : i = n \/ (i \in 2 .. n - 1)
      BY <1>n
    <3>4. \A i \in 2 .. n - 1 : i \in 2 .. n /\ gs[i] = fs[i]
      BY <1>n, <1>s
    <3> HIDE DEF H
    <3> QED BY <3>1, <3>2, <3>3, <3>4
  <2> HIDE DEF H
  <2> QED BY <2>2, <2>3, <1>s DEF AllLinked, ParentsOK
<1>7. \A c \in 1 .. Len(ns) : u[c] \in 0 .. c - 1
  BY DEF Tree
<1> HIDE DEF H
<1>8. Tree(ns, u, H, h, gs)
  BY <1>5, <1>6, <1>7, <1>f DEF Tree
<1> QED BY <1>8 DEF H

-----------------------------------------------------------------------------
(* Chain.                                                                   *)

\* s is the walk along the links from p on, to the last node.
Walk(ns, p, s) ==
  /\ s \in Seq(1 .. Len(ns)) /\ Len(s) >= 1 /\ s[1] = p
  /\ \A i \in 1 .. Len(s) - 1 : s[i + 1] = ns[s[i]].next /\ s[i] < s[i + 1]
  /\ ns[s[Len(s)]].next = 0

LEMMA ChainWalks ==
  ASSUME NEW ns, Len(ns) \in Nat, Forward(ns), NEW p \in 1 .. Len(ns)
  PROVE  Walk(ns, p, Chain(ns, p))
<1> DEFINE N == Len(ns)
           S == {s \in Seq(1 .. N) : s # <<>>}
           After1(s) == IF ns[Last(s)].next = 0 THEN s ELSE Append(s, ns[Last(s)].next)
           F == [x \in S \X (1 .. N) |-> After1(x[1])]
           Part(s, k) ==
             /\ s[1] = p /\ \A i \in 1 .. Len(s) - 1 : s[i + 1] = ns[s[i]].next
             /\ \A i \in 1 .. Len(s) - 1 : s[i] < s[i + 1]
             /\ \A i \in 1 .. Len(s) : i <= s[i]
             /\ ns[s[Len(s)]].next = 0 \/ Len(s) = k + 1
           T == {x \in S \X Nat : Part(x[1], x[2])}
<1>0. N \in Nat /\ p \in 1 .. N
  OBVIOUS
<1>n. \A c \in 1 .. N : ns[c].next = 0 \/ (ns[c].next \in 1 .. N /\ c < ns[c].next)
  BY DEF Forward
<1>s. ASSUME NEW s \in S
      PROVE  /\ Len(s) \in Nat /\ Len(s) >= 1 /\ Last(s) = s[Len(s)] /\ s[Len(s)] \in 1 .. N
             /\ \A i \in 1 .. Len(s) : s[i] \in 1 .. N
  BY DEF Last
<1>1. ASSUME NEW s \in S PROVE After1(s) \in S
  <2>1. CASE ns[Last(s)].next = 0
    BY <2>1
  <2>2. CASE ns[Last(s)].next # 0
    <3>1. ns[Last(s)].next \in 1 .. N
      BY <2>2, <1>s, <1>n
    <3>2. Append(s, ns[Last(s)].next) \in Seq(1 .. N) /\ Append(s, ns[Last(s)].next) # <<>>
      BY <3>1
    <3> QED BY <2>2, <3>2
  <2> QED BY <2>1, <2>2
<1>2. F \in [S \X (1 .. N) -> S] /\ \A s \in S, k \in 1 .. N : F[<<s, k>>] = After1(s)
  <2> HIDE DEF S, After1
  <2> QED BY <1>1
<1>3. <<p>> \in S /\ <<<<p>>, 0>> \in T
  OBVIOUS
<1>4. ASSUME NEW k \in 1 .. N, NEW s \in S, <<s, k - 1>> \in T
      PROVE  <<F[<<s, k>>], k>> \in T
  <2>1. Part(s, k - 1)
    BY <1>4
  <2>2. F[<<s, k>>] = After1(s) /\ After1(s) \in S
    BY <1>1, <1>2
  <2>3. Part(After1(s), k)
    <3>1. CASE ns[Last(s)].next = 0
      <4>1. After1(s) = s /\ ns[s[Len(s)]].next = 0
        BY <3>1, <1>s
      <4> HIDE DEF After1
      <4> QED BY <2>1, <4>1
    <3>2. CASE ns[Last(s)].next # 0
      <4> DEFINE x == ns[Last(s)].next
                 t == Append(s, x)
                 L == Len(s)
      <4>1. After1(s) = t /\ L \in Nat /\ L >= 1 /\ s[L] \in 1 .. N /\ x = ns[s[L]].next
        BY <3>2, <1>s
      <4>2. x \in 1 .. N /\ s[L] < x
        BY <3>2, <4>1, <1>n
      <4>3. Len(t) = L + 1 /\ t[L + 1] = x /\ \A i \in 1 .. L : t[i] = s[i]
        BY <4>1, <4>2
      <4>4. L = k
        BY <2>1, <3>2, <4>1
      <4> HIDE DEF x, t, After1
      <4>5. t[1] = p
        BY <4>1, <4>3, <2>1
      <4>6. ASSUME NEW i \in 1 .. L
            PROVE  t[i + 1] = ns[t[i]].next /\ t[i] < t[i + 1]
        <5>1. CASE i = L
          BY <5>1, <4>1, <4>2, <4>3
        <5>2. CASE i # L
          <6>1. i \in 1 .. L - 1 /\ i + 1 \in 1 .. L
            BY <5>2, <4>1
          <6> QED BY <6>1, <2>1, <4>3
        <5> QED BY <5>1, <5>2
      <4>7. ASSUME NEW i \in 1 .. L + 1 PROVE i <= t[i]
        <5>1. CASE i = L + 1
          <6>1. L <= s[L]
            BY <2>1, <4>1
          <6> QED BY <5>1, <6>1, <4>1, <4>2, <4>3
        <5>2. CASE i # L + 1
          <6>1. i \in 1 .. L
            BY <5>2, <4>1
          <6> QED BY <6>1, <2>1, <4>3
        <5> QED BY <5>1, <5>2
      <4> HIDE DEF L
      <4>8. Len(t) - 1 = L
        BY <4>1, <4>3
      <4> QED BY <4>1, <4>3, <4>4, <4>5, <4>6, <4>7, <4>8
    <3> QED BY <3>1, <3>2
  <2> HIDE DEF Part, S, F, After1
  <2> QED BY <2>2, <2>3
<1> DEFINE Step(f) == [k \in 0 .. N |-> IF k = 0 THEN <<p>> ELSE After1(f[k - 1])]
           m == CHOOSE f : f = Step(f)
<1>5. PICK g \in [0 .. N -> S] : g[0] = <<p>> /\ \A k \in 1 .. N : g[k] = F[<<g[k - 1], k>>]
  <2>1. \E g : Loop(g, N, S, <<p>>, F)
    <3> HIDE DEF N, S, F, After1
    <3> QED BY <1>0, <1>2, <1>3, Iterates
  <2> QED BY <2>1 DEF Loop
<1> HIDE DEF After1, F, S, T
<1>6. g = Step(g)
  <2>1. ASSUME NEW k \in 0 .. N PROVE g[k] = Step(g)[k]
    <3>1. CASE k = 0
      BY <3>1, <1>5
    <3>2. CASE k # 0
      <4>1. k \in 1 .. N /\ k - 1 \in 0 .. N
        BY <3>2, <1>0
      <4>2. g[k - 1] \in S
        BY <4>1
      <4> QED BY <4>1, <4>2, <3>2, <1>2, <1>5
    <3> QED BY <3>1, <3>2
  <2> QED BY <2>1
<1>7. m = Step(m)
  BY <1>6
<1>8. Chain(ns, p) = m[N]
  <2>1. p # 0
    OBVIOUS
  <2> QED BY <2>1 DEF Chain, After1
<1> HIDE DEF m
<1>9. m[0] = <<p>> /\ \A k \in 1 .. N : m[k] = After1(m[k - 1])
  <2>1. \A k \in 0 .. N : m[k] = IF k = 0 THEN <<p>> ELSE After1(m[k - 1])
    BY <1>7, Zenon
  <2> QED BY <1>0, <2>1
<1>10. m[N] \in S /\ <<m[N], N>> \in T
  <2>1. \A k \in 1 .. N : m[k - 1] \in S => m[k] = F[<<m[k - 1], k>>]
    BY <1>2, <1>9
  <2> DEFINE b == <<p>>
  <2>2. b \in S /\ <<b, 0>> \in T /\ m[0] = b
    BY <1>3, <1>9
  <2>3. N \in Nat /\ F \in [S \X (1 .. N) -> S]
    BY <1>0, <1>2
  <2>4. \A k \in 1 .. N, v \in S : <<v, k - 1>> \in T => <<F[<<v, k>>], k>> \in T
    BY <1>4
  <2> HIDE DEF N, b
  <2> QED BY <2>1, <2>2, <2>3, <2>4, LoopValues, ZenonT(60)
<1>11. Part(m[N], N) /\ m[N] \in Seq(1 .. N)
  BY <1>10 DEF T, S
<1> DEFINE s == m[N]
<1>12. Len(s) \in Nat /\ Len(s) >= 1 /\ s[Len(s)] \in 1 .. N
  BY <1>10, <1>s
<1>13. ns[s[Len(s)]].next = 0
  <2>1. Len(s) <= s[Len(s)]
    BY <1>11, <1>12
  <2>2. Len(s) # N + 1
    BY <2>1, <1>12, <1>0
  <2> QED BY <2>2, <1>11
<1> HIDE DEF s
<1>14. Walk(ns, p, s)
  BY <1>11, <1>12, <1>13 DEF Walk, s
<1> QED BY <1>8, <1>14 DEF s

\* A walk ascends.
LEMMA WalkAscends ==
  ASSUME NEW ns, Len(ns) \in Nat, NEW p, NEW s, Walk(ns, p, s)
  PROVE  \A i, j \in 1 .. Len(s) : i < j => s[i] < s[j]
<1>0. Len(s) \in Nat /\ \A i \in 1 .. Len(s) : s[i] \in Nat
  BY DEF Walk
<1>s. \A i \in 1 .. Len(s) - 1 : s[i] < s[i + 1]
  BY DEF Walk
<1> SUFFICES ASSUME NEW i \in 1 .. Len(s)
             PROVE  \A j \in 1 .. Len(s) : i < j => s[i] < s[j]
  OBVIOUS
<1> DEFINE D == {k \in Nat : i + 1 + k <= Len(s) => s[i] < s[i + 1 + k]}
<1>1. 0 \in D
  <2> SUFFICES ASSUME i + 1 <= Len(s) PROVE s[i] < s[i + 1]
    OBVIOUS
  <2> QED BY <1>s, <1>0
<1>2. ASSUME NEW k \in Nat, k \in D PROVE k + 1 \in D
  <2> SUFFICES ASSUME i + 1 + (k + 1) <= Len(s) PROVE s[i] < s[i + 1 + (k + 1)]
    OBVIOUS
  <2>1. s[i] < s[i + 1 + k]
    BY <1>2, <1>0
  <2>2. i + 1 + k \in 1 .. Len(s) - 1 /\ i + 1 + k \in 1 .. Len(s)
        /\ (i + 1 + k) + 1 \in 1 .. Len(s) /\ (i + 1 + k) + 1 = i + 1 + (k + 1)
    BY <1>0
  <2>3. s[i + 1 + k] < s[(i + 1 + k) + 1]
    BY <2>2, <1>s
  <2>4. s[i] \in Nat /\ s[i + 1 + k] \in Nat /\ s[(i + 1 + k) + 1] \in Nat
    BY <2>2, <1>0
  <2> QED BY <2>1, <2>2, <2>3, <2>4
<1>3. Nat \subseteq D
  <2> HIDE DEF D
  <2> QED BY <1>1, <1>2, SetInduction
<1>4. ASSUME NEW j \in 1 .. Len(s), i < j PROVE s[i] < s[j]
  <2>1. j - i - 1 \in Nat /\ i + 1 + (j - i - 1) = j /\ i + 1 + (j - i - 1) <= Len(s)
    BY <1>4, <1>0
  <2>2. j - i - 1 \in D
    BY <2>1, <1>3
  <2> QED BY <2>1, <2>2
<1> QED BY <1>4

\* The walk from the first child of q on meets the children of q, and ends at
\* the last one.
LEMMA WalkKids ==
  ASSUME NEW ns, NEW G, NEW q, NEW s, Len(ns) \in Nat, Linked(ns, G, q),
         ns[q].first # 0, Walk(ns, ns[q].first, s)
  PROVE  Range(s) = Kids(ns, G, q) /\ ns[q].last = Last(s)
<1> DEFINE K == Kids(ns, G, q)
           L == Len(s)
<1>0. L \in Nat /\ L >= 1 /\ \A i \in 1 .. L : s[i] \in Nat
  BY DEF Walk
<1>k. \A c \in K : c \in Nat
  BY DEF Kids
<1>w. /\ s[1] = ns[q].first /\ ns[s[L]].next = 0
      /\ \A i \in 1 .. L - 1 : s[i + 1] = ns[s[i]].next /\ s[i] < s[i + 1]
  BY DEF Walk
<1>l. /\ ns[q].first \in K /\ \A c \in K : ns[q].first <= c
      /\ \A c \in K : Least(ns[c].next, {d \in K : c < d})
      /\ Greatest(ns[q].last, K)
  BY DEF Linked, Least
<1> HIDE DEF K, L
<1> DEFINE D == {k \in Nat : k + 1 <= L =>
                   s[k + 1] \in K /\ \A c \in K : c <= s[k + 1] => \E i \in 1 .. L : s[i] = c}
<1>1. 0 \in D
  <2>1. s[0 + 1] = s[1] /\ 1 \in 1 .. L
    BY <1>0
  <2>2. ASSUME NEW c \in K, c <= s[1] PROVE c = s[1]
    BY <2>2, <1>w, <1>l, <1>k
  <2> QED BY <2>1, <2>2, <1>w, <1>l
<1>2. ASSUME NEW k \in Nat, k \in D PROVE k + 1 \in D
  <2> DEFINE a == s[k + 1]
             b == s[(k + 1) + 1]
  <2> SUFFICES ASSUME (k + 1) + 1 <= L
               PROVE  b \in K /\ \A c \in K : c <= b => \E i \in 1 .. L : s[i] = c
    OBVIOUS
  <2>1. k + 1 \in 1 .. L - 1 /\ k + 1 \in 1 .. L /\ (k + 1) + 1 \in 1 .. L
    BY <1>0
  <2>2. a \in K /\ \A c \in K : c <= a => \E i \in 1 .. L : s[i] = c
    BY <2>1, <1>2, <1>0
  <2>3. b = ns[a].next /\ a < b /\ a \in Nat /\ b \in Nat
    BY <2>1, <1>w, <1>0
  <2>4. Least(b, {d \in K : a < d})
    BY <2>2, <2>3, <1>l
  <2>5. b \in K /\ \A c \in K : a < c => b <= c
    BY <2>3, <2>4 DEF Least
  <2>6. ASSUME NEW c \in K, c <= b PROVE \E i \in 1 .. L : s[i] = c
    <3>1. c <= a \/ c = b
      BY <2>3, <2>5, <2>6, <1>k
    <3> QED BY <3>1, <2>1, <2>2
  <2> QED BY <2>5, <2>6
<1>3. Nat \subseteq D
  <2> HIDE DEF D
  <2> QED BY <1>1, <1>2, SetInduction
<1>4. ASSUME NEW i \in 1 .. L
      PROVE  s[i] \in K /\ \A c \in K : c <= s[i] => \E j \in 1 .. L : s[j] = c
  <2>1. i - 1 \in Nat /\ (i - 1) + 1 = i /\ (i - 1) + 1 <= L
    BY <1>0
  <2>2. i - 1 \in D
    BY <2>1, <1>3
  <2> QED BY <2>1, <2>2
<1>5. s[L] \in K /\ s[L] \in Nat /\ \A c \in K : c <= s[L]
  <2>1. s[L] \in K /\ s[L] \in Nat
    BY <1>4, <1>0
  <2>2. Least(0, {d \in K : s[L] < d})
    BY <2>1, <1>l, <1>w
  <2> QED BY <2>1, <2>2, <1>k DEF Least
<1>6. Range(s) = {s[i] : i \in 1 .. L}
  <2>1. DOMAIN s = 1 .. L
    BY DEF Walk, L
  <2> QED BY <2>1 DEF Range
<1>7. Range(s) = K
  <2>1. L \in 1 .. L
    BY <1>0
  <2> QED BY <2>1, <1>4, <1>5, <1>6
<1>8. ns[q].last = s[L]
  <2>1. ns[q].last # 0 /\ ns[q].last \in K /\ \A c \in K : c <= ns[q].last
    BY <1>l, <1>5 DEF Greatest
  <2> QED BY <2>1, <1>5, <1>k
<1> QED BY <1>7, <1>8 DEF K, L, Last

-----------------------------------------------------------------------------
(* An included file takes the place of its include.                          *)

\* The root r of the file and the nodes S below it are moved.
Spliced(ns, m, inc, r, S) ==
  LET p == ns[inc].parent
      q == ns[inc].prev
  IN /\ Len(m) = Len(ns)
     /\ \A c \in 1 .. Len(ns) :
          /\ m[c].parent = IF c = r \/ c \in S THEN p ELSE ns[c].parent
          /\ m[c].prev = IF c = r THEN q ELSE ns[c].prev
          /\ m[c].next = IF c = q THEN ns[r].first ELSE ns[c].next
          /\ m[c].first = IF c = p /\ q = 0 THEN r ELSE ns[c].first
          /\ m[c].last = IF c = p /\ p # q THEN ns[r].last ELSE ns[c].last

\* The innermost file.
Innermost(fs, inc, r) == inc = fs[Len(fs)].inc /\ r = fs[Len(fs)].root

SpliceGone(ns, u, G, inc, r) == G \cup {r, inc} \cup {c \in 1 .. Len(ns) : u[c] = inc}

\* What is known before the file takes the place of inc.
LEMMA BeforeSplice ==
  ASSUME NEW ns, NEW u, NEW G, NEW h, NEW fs, NEW inc, NEW r,
         Len(ns) \in Nat, Len(fs) \in Nat, Len(fs) > 1,
         Tree(ns, u, G, h, fs), Innermost(fs, inc, r)
  PROVE  /\ inc \in 1 .. Len(ns) /\ r \in 1 .. Len(ns) /\ inc < r /\ inc \notin G /\ r \notin G
         /\ ns[inc].parent \in 1 .. inc - 1 /\ ns[inc].prev \in 0 .. inc - 1
         /\ ns[inc].parent = fs[Len(fs) - 1].node /\ ns[ns[inc].parent].last = inc
         /\ h \/ KnowsPrev(ns, G, inc)
         /\ ns[r].parent = 0 /\ u[inc] \in 0 .. inc - 1
         /\ \A i \in 1 .. Len(fs) - 1 :
              /\ fs[i].root \in Nat /\ fs[i].node \in Nat /\ 1 <= fs[i].root
              /\ fs[i].root <= fs[i].node /\ fs[i].node <= ns[inc].parent
         /\ \A i \in 2 .. Len(fs) - 1 :
              /\ fs[i].inc \in Nat /\ 1 <= fs[i].inc /\ fs[i].inc < fs[i].root
              /\ fs[i - 1].node < fs[i].inc /\ i - 1 \in 1 .. Len(fs) - 1
<1> DEFINE n == Len(fs)
<1>f. FilesOK(ns, G, h, fs) /\ Forward(ns)
  BY DEF Tree
<1>g. inc = fs[n].inc /\ r = fs[n].root
  BY DEF Innermost
<1>n. n \in Nat /\ n > 1 /\ n \in 2 .. n /\ n \in 1 .. n /\ n - 1 \in 1 .. n /\ n - 1 # n
  OBVIOUS
<1>o. /\ \A i \in 1 .. n :
           /\ fs[i].root \in Nat /\ fs[i].node \in Nat
           /\ 1 <= fs[i].root /\ fs[i].root <= fs[i].node /\ fs[i].node <= Len(ns)
      /\ \A i \in 2 .. n :
           /\ fs[i].inc \in 1 .. Len(ns) /\ fs[i].inc < fs[i].root
           /\ i - 1 \in 1 .. n /\ fs[i - 1].node < fs[i].inc
  BY <1>f, FileOrder
<1>1. PartOK(ns, G, fs[n]) /\ IncOK(ns, G, h, fs[n], fs[n - 1].node)
  BY <1>f, <1>n DEF FilesOK
<1> DEFINE p == fs[n - 1].node
<1>2. inc \in 1 .. Len(ns) /\ inc < r /\ p < inc
  BY <1>g, <1>n, <1>o
<1>3. fs[n].root \in Nat /\ fs[n].node \in Nat /\ fs[n].root <= fs[n].node /\ fs[n].node <= Len(ns)
      /\ p \in Nat /\ fs[n - 1].root \in Nat /\ 1 <= fs[n - 1].root /\ fs[n - 1].root <= p
  BY <1>n, <1>o
<1>4. r \in 1 .. Len(ns) /\ p \in 1 .. inc - 1
  BY <1>2, <1>3, <1>g
<1>5. inc \notin G /\ ns[inc].parent = p /\ ns[p].last = inc /\ (h \/ KnowsPrev(ns, G, inc))
  BY <1>1, <1>g DEF IncOK
<1>6. r \notin G /\ ns[r].parent = 0
  BY <1>1, <1>g DEF PartOK
<1>7. ns[inc].prev \in 0 .. inc - 1 /\ u[inc] \in 0 .. inc - 1
  BY <1>2, <1>f DEF Forward, Tree
<1>8. ASSUME NEW i \in 1 .. n - 1
      PROVE  /\ fs[i].root \in Nat /\ fs[i].node \in Nat /\ 1 <= fs[i].root
             /\ fs[i].root <= fs[i].node /\ fs[i].node <= p
  <2>1. i \in 1 .. n
    BY <1>n
  <2>2. CASE i = n - 1
    BY <2>1, <2>2, <1>o, <1>3
  <2>3. CASE i # n - 1
    <3>1. i < n - 1 /\ n - 1 \in 2 .. n
      BY <2>3, <1>n
    <3>2. fs[i].node < fs[n - 1].inc
      BY <3>1, <2>1, <1>n, <1>f DEF FilesOK
    <3>3. fs[n - 1].inc \in Nat /\ fs[n - 1].inc < fs[n - 1].root
      <4>1. \A j \in 2 .. n : fs[j].inc \in Nat /\ fs[j].inc < fs[j].root
        BY <1>o
      <4> HIDE DEF n
      <4> QED BY <4>1, <3>1
    <3>4. fs[i].root \in Nat /\ fs[i].node \in Nat /\ 1 <= fs[i].root /\ fs[i].root <= fs[i].node
      BY <2>1, <1>o
    <3> HIDE DEF p
    <3> QED BY <3>2, <3>3, <3>4, <1>3
  <2> QED BY <2>2, <2>3
<1>9. ASSUME NEW i \in 2 .. n - 1
      PROVE  /\ fs[i].inc \in Nat /\ 1 <= fs[i].inc /\ fs[i].inc < fs[i].root
             /\ fs[i - 1].node < fs[i].inc /\ i - 1 \in 1 .. n - 1
  <2>1. i \in 2 .. n /\ i - 1 \in 1 .. n - 1
    BY <1>n
  <2> QED BY <2>1, <1>o
<1> QED BY <1>2, <1>4, <1>5, <1>6, <1>7, <1>8, <1>9

LEMMA FilesWithHead ==
  ASSUME NEW ns, NEW G, NEW h, NEW x, NEW fs, FilesOK(ns, G, h, fs)
  PROVE  FilesOK(ns, G, h \/ x, fs)
<1>1. ASSUME NEW i \in 1 .. Len(fs) PROVE \E O : Open(ns, G, h \/ x, fs[i], O)
  <2>1. PICK O : Open(ns, G, h, fs[i], O)
    BY DEF FilesOK
  <2>2. Open(ns, G, h \/ x, fs[i], O)
    BY <2>1 DEF Open
  <2> QED BY <2>2
<1>2. ASSUME NEW i \in 2 .. Len(fs) PROVE IncOK(ns, G, h \/ x, fs[i], fs[i - 1].node)
  <2>1. IncOK(ns, G, h, fs[i], fs[i - 1].node)
    BY DEF FilesOK
  <2> QED BY <2>1 DEF IncOK
<1> QED BY <1>1, <1>2 DEF FilesOK

LEMMA SpliceTree ==
  ASSUME NEW ns, NEW m, NEW u, NEW G, NEW h, NEW fs, NEW gs, NEW inc, NEW r, NEW S,
         Len(ns) \in Nat, Len(fs) \in Nat, Len(fs) > 1, Outer(fs, gs),
         Tree(ns, u, G, h, fs), Innermost(fs, inc, r), Spliced(ns, m, inc, r, S),
         ns[r].first # 0, \A c \in S : c \in Nat /\ r < c,
         h \/ S = Kids(ns, G, r)
  PROVE  Tree(m, u, SpliceGone(ns, u, G, inc, r), h \/ ns[inc].prev = 0, gs)
<1> DEFINE n == Len(fs)
           p == ns[inc].parent
           q == ns[inc].prev
           H == SpliceGone(ns, u, G, inc, r)
<1>f. FilesOK(ns, G, h, fs) /\ Forward(ns)
  BY DEF Tree
<1>b. /\ inc \in 1 .. Len(ns) /\ r \in 1 .. Len(ns) /\ inc < r /\ inc \notin G /\ r \notin G
      /\ p \in 1 .. inc - 1 /\ q \in 0 .. inc - 1
      /\ p = fs[n - 1].node /\ ns[p].last = inc
      /\ h \/ KnowsPrev(ns, G, inc)
      /\ ns[r].parent = 0 /\ u[inc] \in 0 .. inc - 1
  BY BeforeSplice
<1>t. /\ inc \in Nat /\ r \in Nat /\ p \in Nat /\ q \in Nat
      /\ 1 <= p /\ p < inc /\ q < inc /\ inc < r /\ r <= Len(ns)
  <2> HIDE DEF p, q
  <2> QED BY <1>b
<1>i. ASSUME NEW i \in 1 .. n - 1
      PROVE  /\ fs[i].root \in Nat /\ fs[i].node \in Nat /\ 1 <= fs[i].root
             /\ fs[i].root <= fs[i].node /\ fs[i].node <= p
  BY BeforeSplice
<1>j. ASSUME NEW i \in 2 .. n - 1
      PROVE  /\ fs[i].inc \in Nat /\ 1 <= fs[i].inc /\ fs[i].inc < fs[i].root
             /\ fs[i - 1].node < fs[i].inc /\ i - 1 \in 1 .. n - 1 /\ i \in 1 .. n - 1
  BY BeforeSplice
<1>x. /\ Len(m) = Len(ns)
      /\ \A c \in 1 .. Len(ns) :
          /\ m[c].parent = IF c = r \/ c \in S THEN p ELSE ns[c].parent
          /\ m[c].prev = IF c = r THEN q ELSE ns[c].prev
          /\ m[c].next = IF c = q THEN ns[r].first ELSE ns[c].next
          /\ m[c].first = IF c = p /\ q = 0 THEN r ELSE ns[c].first
          /\ m[c].last = IF c = p /\ p # q THEN ns[r].last ELSE ns[c].last
  BY DEF Spliced
<1>s. Len(gs) = n - 1 /\ \A i \in 1 .. n - 1 : gs[i] = fs[i]
  BY DEF Outer
<1>n. n \in Nat /\ n > 1
  OBVIOUS
<1>u. \A c \in 1 .. Len(ns) : u[c] \in 0 .. c - 1
  BY DEF Tree
<1>r. ns[r].first \in r + 1 .. Len(ns) /\ (ns[r].last = 0 \/ ns[r].last \in r + 1 .. Len(ns))
  BY <1>b, <1>f DEF Forward
<1>h. \A c \in 1 .. Len(ns) : c < inc => (c \in H <=> c \in G)
  <2>1. \A c \in 1 .. Len(ns) : c < inc => u[c] # inc /\ c # inc /\ c # r
    BY <1>u, <1>b
  <2> QED BY <2>1 DEF SpliceGone
<1>y. ASSUME NEW c \in 1 .. Len(ns), c < inc
      PROVE  /\ m[c].parent = ns[c].parent /\ m[c].prev = ns[c].prev
             /\ c # p => m[c].last = ns[c].last
  <2>1. c # r /\ c \notin S
    BY <1>y, <1>b
  <2> QED BY <2>1, <1>x
<1>k. ASSUME NEW c \in 1 .. Len(ns), c < inc, KnowsPrev(ns, G, c)
      PROVE  KnowsPrev(m, H, c)
  <2>1. \A d \in 1 .. Len(ns) : d < c =>
           m[d].parent = ns[d].parent /\ (d \in H <=> d \in G)
    BY <1>k, <1>y, <1>h, <1>b
  <2>2. {d \in Kids(m, H, ns[c].parent) : d < c} = {d \in Kids(ns, G, ns[c].parent) : d < c}
    <3> HIDE DEF H
    <3> QED BY <2>1, <1>x DEF Kids
  <2> HIDE DEF H
  <2> QED BY <2>2, <1>k, <1>y DEF KnowsPrev
<1>q. /\ q = 0 \/ p < q
      /\ \A c \in 1 .. Len(ns) : r < c => ns[c].parent = 0 \/ r <= ns[c].parent
  <2>1. q = 0 \/ p < q
    BY <1>b, <1>f DEF Forward
  <2>2. PartOK(ns, G, fs[n]) /\ r = fs[n].root
    BY <1>n, <1>f DEF FilesOK, Innermost
  <2> QED BY <2>1, <2>2 DEF PartOK
<1> HIDE DEF H, n, p, q
<1>1. Forward(m)
  <2> SUFFICES ASSUME NEW c \in 1 .. Len(ns)
               PROVE  /\ m[c].parent \in 0 .. c - 1 /\ m[c].prev \in 0 .. c - 1
                      /\ m[c].prev = 0 \/ (m[c].parent # 0 /\ m[c].parent < m[c].prev)
                      /\ m[c].next = 0 \/ m[c].next \in c + 1 .. Len(ns)
                      /\ m[c].first = 0 \/ m[c].first \in c + 1 .. Len(ns)
                      /\ m[c].last = 0 \/ m[c].last \in c + 1 .. Len(ns)
                      /\ m[c].last # 0 => m[c].first # 0
    BY <1>x DEF Forward
  <2>1. /\ ns[c].parent \in 0 .. c - 1 /\ ns[c].prev \in 0 .. c - 1
        /\ ns[c].prev = 0 \/ (ns[c].parent # 0 /\ ns[c].parent < ns[c].prev)
        /\ ns[c].next = 0 \/ ns[c].next \in c + 1 .. Len(ns)
        /\ ns[c].first = 0 \/ ns[c].first \in c + 1 .. Len(ns)
        /\ ns[c].last = 0 \/ ns[c].last \in c + 1 .. Len(ns)
        /\ ns[c].last # 0 => ns[c].first # 0
    BY <1>f DEF Forward
  <2>2. m[c].parent \in 0 .. c - 1
    <3>1. CASE c = r \/ c \in S
      <4>1. m[c].parent = p /\ r <= c
        BY <3>1, <1>x, <1>b
      <4> QED BY <4>1, <1>b
    <3>2. CASE ~(c = r \/ c \in S)
      BY <3>2, <2>1, <1>x
    <3> QED BY <3>1, <3>2
  <2>3. m[c].prev \in 0 .. c - 1
    BY <2>1, <1>x, <1>b, SMTT(30)
  <2>4. m[c].next = 0 \/ m[c].next \in c + 1 .. Len(ns)
    <3>1. CASE c = q
      <4>1. m[c].next = ns[r].first
        BY <3>1, <1>x
      <4> QED BY <3>1, <4>1, <1>r, <1>b, SMTT(30)
    <3>2. CASE c # q
      BY <3>2, <2>1, <1>x
    <3> QED BY <3>1, <3>2
  <2>5. m[c].first = 0 \/ m[c].first \in c + 1 .. Len(ns)
    <3>1. CASE c = p /\ q = 0
      <4>1. m[c].first = r
        BY <3>1, <1>x
      <4> QED BY <3>1, <4>1, <1>b
    <3>2. CASE ~(c = p /\ q = 0)
      BY <3>2, <2>1, <1>x
    <3> QED BY <3>1, <3>2
  <2>6. m[c].last = 0 \/ m[c].last \in c + 1 .. Len(ns)
    <3>1. CASE c = p /\ p # q
      <4>1. m[c].last = ns[r].last
        BY <3>1, <1>x
      <4> QED BY <3>1, <4>1, <1>r, <1>b, SMTT(30)
    <3>2. CASE ~(c = p /\ p # q)
      <4>1. m[c].last = ns[c].last
        BY <3>2, <1>x
      <4> QED BY <4>1, <2>1
    <3> QED BY <3>1, <3>2
  <2>7. m[c].last # 0 => m[c].first # 0
    <3>1. CASE c = p
      <4>1. ns[p].first # 0
        BY <3>1, <2>1, <1>b, <1>t
      <4> QED BY <3>1, <4>1, <1>x, <1>b
    <3>2. CASE c # p
      BY <3>2, <2>1, <1>x
    <3> QED BY <3>1, <3>2
  <2>8. m[c].prev = 0 \/ (m[c].parent # 0 /\ m[c].parent < m[c].prev)
    <3>0. m[c].parent = (IF c = r \/ c \in S THEN p ELSE ns[c].parent)
          /\ m[c].prev = IF c = r THEN q ELSE ns[c].prev
      BY <1>x
    <3>1. CASE c = r
      <4>1. q = 0 \/ p < q
        BY <1>q
      <4> QED BY <3>0, <3>1, <4>1, <1>t
    <3>2. CASE c \in S /\ c # r
      <4>1. r < c
        BY <3>2
      <4>2. ns[c].parent = 0 \/ r <= ns[c].parent
        BY <4>1, <1>q
      <4>3. ns[c].prev = 0 \/ r < ns[c].prev
        BY <4>2, <2>1, <1>t
      <4> QED BY <3>0, <3>2, <4>3, <2>1, <1>t
    <3>3. CASE c # r /\ c \notin S
      BY <3>0, <3>3, <2>1
    <3> QED BY <3>1, <3>2, <3>3
  <2> QED BY <2>2, <2>3, <2>4, <2>5, <2>6, <2>7, <2>8
<1>2. ASSUME NEW i \in 1 .. n - 1
      PROVE  PartOK(m, H, gs[i]) /\ \E O : Open(m, H, h, gs[i], O)
  <2>0. gs[i] = fs[i] /\ i \in 1 .. n
    BY <1>s, <1>n
  <2>1. PartOK(ns, G, fs[i])
    BY <2>0, <1>f DEF FilesOK, n
  <2>2. PICK O : Open(ns, G, h, fs[i], O)
    BY <2>0, <1>f DEF FilesOK, n
  <2>3. \A c \in O : c \in 1 .. Len(ns) /\ c <= p /\ c < inc /\ c \notin H
    <3>1. \A c \in O : c \in Nat /\ fs[i].root <= c /\ c <= fs[i].node /\ c \notin G
      BY <2>2 DEF Open
    <3>2. \A c \in O : c \in 1 .. Len(ns) /\ c <= p /\ c < inc
      BY <3>1, <1>i, <1>t
    <3> QED BY <3>1, <3>2, <1>h
  <2>4. ASSUME NEW c \in O \ {fs[i].root}
        PROVE  m[c].parent \in O /\ m[m[c].parent].last = c /\ (h \/ KnowsPrev(m, H, c))
    <3>1. ns[c].parent \in O /\ ns[ns[c].parent].last = c /\ (h \/ KnowsPrev(ns, G, c))
      BY <2>2 DEF Open
    <3>2. ns[c].parent \in 0 .. c - 1
      BY <2>3, <1>f DEF Forward
    <3>3. ns[c].parent # p
      BY <3>2, <2>3, <1>b
    <3> QED BY <3>1, <3>3, <2>3, <1>y, <1>k
  <2>5. Open(m, H, h, fs[i], O)
    BY <2>2, <2>3, <2>4 DEF Open
  <2>6. fs[i].root \in 1 .. Len(ns) /\ fs[i].root < inc /\ fs[i].root <= p
    BY <1>i, <1>t, SMTT(30)
  <2>7. ASSUME NEW c \in 1 .. Len(m), fs[i].root < c
        PROVE  m[c].parent = 0 \/ fs[i].root <= m[c].parent
    <3>1. CASE c = r \/ c \in S
      BY <3>1, <2>6, <1>x
    <3>2. CASE ~(c = r \/ c \in S)
      BY <3>2, <2>7, <2>1, <1>x DEF PartOK
    <3> QED BY <3>1, <3>2
  <2>8. fs[i].root \notin H /\ m[fs[i].root].parent = 0
    BY <2>6, <2>1, <1>h, <1>y DEF PartOK
  <2>9. PartOK(m, H, fs[i])
    BY <2>1, <2>7, <2>8, <1>x DEF PartOK
  <2> QED BY <2>0, <2>5, <2>9
<1>3. ASSUME NEW i \in 2 .. n - 1
      PROVE  IncOK(m, H, h, gs[i], gs[i - 1].node)
  <2>1. gs[i] = fs[i] /\ gs[i - 1] = fs[i - 1] /\ i \in 2 .. n
    BY <1>j, <1>s, <1>n
  <2>2. IncOK(ns, G, h, fs[i], fs[i - 1].node)
    BY <2>1, <1>f DEF FilesOK, n
  <2>3. /\ fs[i].inc \in Nat /\ 1 <= fs[i].inc /\ fs[i].inc < fs[i].root
        /\ fs[i].root \in Nat /\ fs[i].node \in Nat /\ fs[i].root <= fs[i].node
        /\ fs[i].node <= p /\ fs[i - 1].node < fs[i].inc
        /\ fs[i - 1].node \in Nat /\ fs[i - 1].root \in Nat
        /\ 1 <= fs[i - 1].root /\ fs[i - 1].root <= fs[i - 1].node
    BY <1>i, <1>j
  <2>4. /\ fs[i].inc \in 1 .. Len(ns) /\ fs[i].inc < inc
        /\ fs[i - 1].node \in 1 .. Len(ns) /\ fs[i - 1].node < inc /\ fs[i - 1].node # p
    <3>1. /\ fs[i].inc < p /\ fs[i - 1].node < p
          /\ 1 <= fs[i - 1].node /\ fs[i - 1].node \in Nat /\ fs[i].inc \in Nat
      <4>1. fs[i].inc \in Nat /\ fs[i].inc < p
        BY <2>3, <1>t
      <4>2. fs[i - 1].node \in Nat /\ 1 <= fs[i - 1].node
        BY <2>3
      <4>3. fs[i - 1].node < fs[i].inc
        BY <2>3
      <4>4. fs[i - 1].node < p
        BY <4>1, <4>2, <4>3, <1>t, SMTT(30)
      <4> QED BY <4>1, <4>2, <4>4
    <3>2. 1 <= fs[i].inc
      BY <2>3
    <3>3. \A x \in Nat : 1 <= x /\ x < p => x \in 1 .. Len(ns) /\ x < inc /\ x # p
      BY <1>t
    <3> QED BY <3>1, <3>2, <3>3
  <2>5. fs[i].inc \notin H
    BY <2>2, <2>4, <1>h DEF IncOK
  <2> QED BY <2>1, <2>2, <2>4, <2>5, <1>y, <1>k DEF IncOK
<1>4. FilesOK(m, H, h, gs)
  <2>1. \A i, j \in 1 .. n - 1 : i < j => gs[i].node < gs[j].inc
    <3>1. \A i \in 1 .. n - 1 : i \in 1 .. n
      BY <1>n
    <3> QED BY <3>1, <1>s, <1>f DEF FilesOK, n
  <2>2. gs[1].inc = 0
    BY <1>s, <1>n, <1>f DEF FilesOK
  <2> QED BY <2>1, <2>2, <1>2, <1>3, <1>s, <1>n DEF FilesOK
<1>5. FilesOK(m, H, h \/ q = 0, gs)
  BY <1>4, FilesWithHead
<1>6. ASSUME ~h, q # 0
      PROVE  AllLinked(m, H)
  <2> DEFINE K == Kids(ns, G, p)
             R == Kids(ns, G, r)
             M == (K \ {inc}) \cup R
  <2>a. AllLinked(ns, G) /\ ParentsOK(ns, u, G, fs) /\ S = R
    BY <1>6 DEF Tree
  <2>p. p \in 1 .. Len(ns) /\ p \notin G /\ p < inc
    <3>1. n - 1 \in 1 .. n
      BY <1>n
    <3>2. PICK O : Open(ns, G, h, fs[n - 1], O)
      BY <3>1, <1>f DEF FilesOK, n
    <3>3. p \notin G
      BY <3>2, <1>b, <1>t DEF Open
    <3> QED BY <3>3, <1>b
  <2>b. Linked(ns, G, p) /\ Linked(ns, G, r)
    BY <2>a, <2>p, <1>b DEF AllLinked
  <2>c. \A c \in K : c \in Nat /\ c \in 1 .. Len(ns) /\ c <= inc /\ c \notin G /\ ns[c].parent = p
    <3>1. Greatest(inc, K)
      BY <2>b, <1>b, <1>t DEF Linked
    <3> QED BY <3>1, <1>t DEF Greatest, Kids
  <2>d. \A c \in R : c \in Nat /\ c \in 1 .. Len(ns) /\ r < c /\ c \notin G /\ ns[c].parent = r
    BY <2>a DEF Kids
  <2>e. /\ ns[p].first \in K /\ \A c \in K : ns[p].first <= c
        /\ q \in K /\ q < inc /\ \A c \in K : c < inc => c <= q
    <3>0. ns[p].last # 0 => ns[p].first # 0
      BY <1>f, <2>p DEF Forward
    <3>1. ns[p].first # 0
      BY <3>0, <1>b, <1>t
    <3>2. ns[p].first \in K /\ \A c \in K : ns[p].first <= c
      BY <2>b, <3>1 DEF Linked, Least
    <3>3. Greatest(q, {d \in K : d < inc})
      BY <1>6, <1>b DEF KnowsPrev, p, q
    <3> QED BY <3>2, <3>3, <1>6 DEF Greatest
  <2>f. /\ ns[r].first \in R /\ \A c \in R : ns[r].first <= c
        /\ ns[r].last \in R /\ \A c \in R : c <= ns[r].last
    <3>1. ns[r].first \in R /\ \A c \in R : ns[r].first <= c
      BY <2>b DEF Linked, Least
    <3>2. Greatest(ns[r].last, R)
      BY <2>b DEF Linked
    <3> QED BY <3>1, <3>2 DEF Greatest
  <2>g. ASSUME NEW c \in 1 .. Len(ns) \ G, ns[c].parent # 0, ns[c].parent \notin H
        PROVE  u[c] # inc
    <3>1. inc \in H
      BY DEF H, SpliceGone
    <3>2. \A i \in 2 .. n : u[fs[i].inc] # inc
      <4>1. \A i \in 2 .. n - 1 : fs[i].inc < inc /\ fs[i].inc \in 1 .. Len(ns)
        <5>1. ASSUME NEW i \in 2 .. n - 1
              PROVE  /\ fs[i].inc \in Nat /\ 1 <= fs[i].inc /\ fs[i].inc < fs[i].root
                     /\ fs[i].root \in Nat /\ fs[i].node \in Nat
                     /\ fs[i].root <= fs[i].node /\ fs[i].node <= p
          BY <1>i, <1>j
        <5>2. ASSUME NEW i \in 2 .. n - 1
              PROVE  fs[i].inc < p /\ fs[i].inc \in Nat /\ 1 <= fs[i].inc
          BY <5>1, <1>t, SMTT(30)
        <5> QED BY <5>2, <1>t
      <4>2. \A i \in 2 .. n - 1 : u[fs[i].inc] # inc
        BY <4>1, <1>u, <1>b, SMTT(30)
      <4>3. u[inc] # inc
        BY <1>b
      <4>4. \A i \in 2 .. n : i \in 2 .. n - 1 \/ i = n
        BY <1>n
      <4>5. inc = fs[n].inc
        BY DEF Innermost, n
      <4> QED BY <4>2, <4>3, <4>4, <4>5
    <3>3. \/ ns[c].parent = u[c]
          \/ \E i \in 2 .. n : ns[c].parent = fs[i].root /\ u[c] = u[fs[i].inc]
      BY <2>a DEF ParentsOK, n
    <3> QED BY <3>1, <3>2, <3>3, <2>g
  <2>h. \A c \in 1 .. Len(ns) : c \in H <=> c \in G \/ c = r \/ c = inc \/ u[c] = inc
    BY DEF H, SpliceGone
  <2>k. ASSUME NEW x \in 1 .. Len(ns) \ H
        PROVE  Kids(m, H, x) = IF x = p THEN M ELSE Kids(ns, G, x)
    <3>1. x # r /\ x # inc /\ x \notin G /\ x # 0
      BY <2>h
    <3>2. ASSUME NEW c \in 1 .. Len(ns), c \notin H, m[c].parent = x
          PROVE  c \in IF x = p THEN M ELSE Kids(ns, G, x)
      <4>1. c \notin G /\ c # inc /\ c # r
        BY <3>2, <2>h
      <4>2. CASE c \in S
        <5>1. x = p
          BY <4>2, <3>2, <1>x
        <5> QED BY <5>1, <4>2, <2>a
      <4>3. CASE c \notin S
        <5>1. ns[c].parent = x
          BY <4>1, <4>3, <3>2, <1>x
        <5> QED BY <5>1, <4>1 DEF Kids
      <4> QED BY <4>2, <4>3
    <3>3. ASSUME NEW c \in Kids(ns, G, x), c # inc
          PROVE  c \in 1 .. Len(ns) /\ c \notin H /\ m[c].parent = x
      <4>1. c \in 1 .. Len(ns) /\ c \notin G /\ ns[c].parent = x
        BY DEF Kids
      <4>2. u[c] # inc
        BY <4>1, <3>1, <2>g
      <4>3. c # r /\ c \notin S
        BY <4>1, <3>1, <2>a, <2>d, <1>b
      <4> QED BY <4>1, <4>2, <4>3, <3>3, <2>h, <1>x
    <3>4. ASSUME x = p, NEW c \in R
          PROVE  c \in 1 .. Len(ns) /\ c \notin H /\ m[c].parent = x
      <4>1. u[c] # inc
        <5>1. \A i \in 2 .. n : u[c] # fs[i].root
          BY <2>a, <2>d DEF ParentsOK, n
        <5>2. \E i \in 2 .. n : ns[c].parent = fs[i].root /\ u[c] = u[fs[i].inc]
          <6>1. n \in 2 .. n /\ r = fs[n].root
            BY <1>n DEF Innermost, n
          <6>2. u[c] # r
            BY <5>1, <6>1
          <6> QED BY <6>2, <2>a, <2>d DEF ParentsOK, n
        <5>3. PICK i \in 2 .. n : r = fs[i].root /\ u[c] = u[fs[i].inc]
          BY <5>2, <2>d
        <5>4. i = n
          <6>1. CASE i \in 2 .. n - 1
            <7>1. /\ fs[i].root \in Nat /\ fs[i].node \in Nat
                  /\ fs[i].root <= fs[i].node /\ fs[i].node <= p
              BY <6>1, <1>i, <1>j
            <7> QED BY <7>1, <5>3, <1>b, SMTT(30)
          <6> QED BY <6>1, <1>n
        <5>5. u[c] = u[inc]
          BY <5>3, <5>4 DEF Innermost, n
        <5> QED BY <5>5, <1>b
      <4>2. c # inc /\ c # r
        BY <2>d, <1>b
      <4> QED BY <4>1, <4>2, <3>4, <2>a, <2>d, <2>h, <1>x
    <3>5. inc \in H /\ (x # p => inc \notin Kids(ns, G, x))
      BY <2>h, <1>b DEF Kids, p
    <3>6. Kids(m, H, x) = {c \in 1 .. Len(ns) : c \notin H /\ m[c].parent = x}
      BY <1>x DEF Kids
    <3>7. CASE x = p
      BY <3>2, <3>3, <3>4, <3>6, <3>7
    <3>8. CASE x # p
      BY <3>2, <3>3, <3>5, <3>6, <3>8
    <3> QED BY <3>7, <3>8
  <2>1. Linked(m, H, p)
    <3> HIDE DEF K, R
    <3>k. Kids(m, H, p) = M
      <4>1. p \notin H
        BY <2>p, <1>h
      <4> QED BY <4>1, <2>p, <2>k
    <3>1. Least(m[p].first, M)
      <4>1. m[p].first = ns[p].first /\ ns[p].first # inc /\ ns[p].first \in 1 .. Len(ns)
        BY <1>6, <1>x, <2>p, <2>e, <2>c
      <4>2. \A c \in R : ns[p].first <= c
        <5>1. ns[p].first \in Nat /\ ns[p].first <= inc
          BY <2>c, <2>e
        <5>2. \A c \in R : c \in Nat /\ r < c
          BY <2>d
        <5> QED BY <5>1, <5>2, <1>t
      <4> QED BY <4>1, <4>2, <2>e DEF Least
    <3>2. Greatest(m[p].last, M)
      <4>1. m[p].last = ns[r].last
        <5>1. ns[p].parent \in 0 .. p - 1 /\ ns[q].parent = p
          BY <2>p, <2>e, <2>c, <1>f DEF Forward
        <5>2. p # q
          BY <5>1, <1>t
        <5> QED BY <5>2, <2>p, <1>x
      <4>2. ns[r].last \in R /\ ns[r].last \in 1 .. Len(ns) /\ r < ns[r].last
        BY <2>f, <2>d
      <4>3. \A c \in K : c <= ns[r].last
        BY <4>2, <2>c, <1>b
      <4> QED BY <4>1, <4>2, <4>3, <2>f DEF Greatest
    <3>3. ASSUME NEW c \in M
          PROVE  Least(m[c].next, {d \in M : c < d})
      <4>1. CASE c = q
        <5>1. m[c].next = ns[r].first /\ ns[r].first \in R /\ ns[r].first \in 1 .. Len(ns)
              /\ r < ns[r].first
          BY <4>1, <2>e, <2>c, <1>x, <2>f, <2>d
        <5>2. \A d \in K \ {inc} : ~(q < d)
          BY <2>e, <2>c, <1>t
        <5>3. {d \in M : c < d} = R
          <6>1. \A d \in R : d \in Nat /\ r < d
            BY <2>d
          <6>2. \A d \in R : q < d
            BY <6>1, <1>t
          <6> QED BY <4>1, <5>2, <6>2
        <5> QED BY <5>1, <5>3, <2>f DEF Least
      <4>2. CASE c \in K \ {inc} /\ c # q
        <5>1. m[c].next = ns[c].next /\ c < q /\ c \in 1 .. Len(ns)
          BY <4>2, <2>c, <2>e, <1>x, <1>t
        <5>2. Least(ns[c].next, {d \in K : c < d})
          BY <4>2, <2>b DEF Linked, K
        <5>3. /\ ns[c].next # 0 /\ ns[c].next \in K /\ c < ns[c].next
              /\ \A d \in K : c < d => ns[c].next <= d
          BY <5>1, <5>2, <2>e DEF Least
        <5>4. ns[c].next <= q /\ ns[c].next # inc /\ ns[c].next \in 1 .. Len(ns)
          <6> DEFINE x == ns[c].next
          <6>1. x \in K /\ x <= q
            <7>1. q \in K /\ c < q
              BY <5>1, <2>e
            <7> QED BY <7>1, <5>3
          <6> HIDE DEF x
          <6>2. x \in 1 .. Len(ns)
            BY <6>1, <2>c
          <6>3. x # inc
            BY <6>1, <6>2, <1>t
          <6> QED BY <6>1, <6>2, <6>3 DEF x
        <5>5. ASSUME NEW d \in R PROVE ns[c].next <= d
          BY <5>4, <2>d, <2>c, <2>e, <1>b, SMTT(30)
        <5> QED BY <5>1, <5>3, <5>4, <5>5 DEF Least
      <4>3. CASE c \in R
        <5>1. m[c].next = ns[c].next /\ c \in 1 .. Len(ns) /\ r < c
          BY <4>3, <2>d, <2>e, <2>c, <1>b, <1>x
        <5>2. Least(ns[c].next, {d \in R : c < d})
          BY <4>3, <2>b DEF Linked, R
        <5>3. \A d \in K : ~(c < d)
          BY <5>1, <2>c, <1>b
        <5>4. {d \in M : c < d} = {d \in R : c < d}
          BY <5>3
        <5> QED BY <5>1, <5>2, <5>4
      <4> QED BY <4>1, <4>2, <4>3
    <3> QED BY <3>k, <3>1, <3>2, <3>3 DEF Linked
  <2>2. ASSUME NEW x \in 1 .. Len(ns) \ H, x # p
        PROVE  Linked(m, H, x)
    <3>1. Kids(m, H, x) = Kids(ns, G, x)
      BY <2>2, <2>k
    <3>2. x \notin G /\ Linked(ns, G, x)
      BY <2>h, <2>a DEF AllLinked
    <3>3. m[x].first = ns[x].first /\ m[x].last = ns[x].last
      BY <2>2, <1>x
    <3>4. \A c \in Kids(ns, G, x) : m[c].next = ns[c].next
      <4>1. \A c \in Kids(ns, G, x) : c \in 1 .. Len(ns) /\ ns[c].parent = x
        BY DEF Kids
      <4>2. q \notin Kids(ns, G, x)
        BY <4>1, <2>2, <2>c, <2>e
      <4> QED BY <4>1, <4>2, <1>x
    <3> QED BY <3>1, <3>2, <3>3, <3>4 DEF Linked
  <2> HIDE DEF K, R
  <2> QED BY <2>1, <2>2, <1>x DEF AllLinked
<1>7. ASSUME ~h
      PROVE  ParentsOK(m, u, H, gs)
  <2>a. ParentsOK(ns, u, G, fs) /\ S = Kids(ns, G, r)
    BY <1>7 DEF Tree
  <2>g. inc = fs[n].inc /\ r = fs[n].root
    BY DEF Innermost, n
  <2>n. \A i \in 2 .. n : i \in 2 .. n - 1 \/ i = n
    BY <1>n
  <2>m. \A i \in 2 .. n - 1 : i \in 2 .. n /\ gs[i] = fs[i] /\ fs[i].root # r
    <3>1. \A i \in 2 .. n - 1 : i \in 2 .. n /\ gs[i] = fs[i]
      BY <1>s, <1>n
    <3>2. ASSUME NEW i \in 2 .. n - 1 PROVE fs[i].root # r
      <4>1. /\ fs[i].root \in Nat /\ fs[i].node \in Nat
            /\ fs[i].root <= fs[i].node /\ fs[i].node <= p
        BY <1>i, <1>j
      <4> QED BY <4>1, <1>b
    <3> QED BY <3>1, <3>2
  <2>b. ASSUME NEW c \in 1 .. Len(ns) \ G
        PROVE  /\ \A i \in 2 .. n : u[c] # fs[i].root
               /\ \/ ns[c].parent = u[c]
                  \/ \E i \in 2 .. n : ns[c].parent = fs[i].root /\ u[c] = u[fs[i].inc]
    BY <2>a DEF ParentsOK, n
  <2>1. ASSUME NEW c \in 1 .. Len(ns), c \notin H
        PROVE  /\ \A i \in 2 .. n - 1 : u[c] # gs[i].root
               /\ \/ m[c].parent = u[c]
                  \/ \E i \in 2 .. n - 1 : m[c].parent = gs[i].root /\ u[c] = u[gs[i].inc]
    <3>1. c \notin G /\ c # r
      BY <2>1 DEF H, SpliceGone
    <3>2. \A i \in 2 .. n - 1 : u[c] # gs[i].root
      BY <3>1, <2>b, <2>m
    <3>3. CASE c \in S
      <4>1. m[c].parent = p /\ ns[c].parent = r
        BY <3>3, <2>a, <1>x DEF Kids
      <4>2. u[c] = u[inc]
        <5>1. n \in 2 .. n
          BY <1>n
        <5>2. u[c] # r
          BY <5>1, <3>1, <2>b, <2>g
        <5>3. PICK i \in 2 .. n : r = fs[i].root /\ u[c] = u[fs[i].inc]
          BY <5>2, <4>1, <3>1, <2>b
        <5>4. i = n
          BY <5>3, <2>m, <2>n
        <5> QED BY <5>3, <5>4, <2>g
      <4>3. \/ p = u[inc]
            \/ \E i \in 2 .. n : p = fs[i].root /\ u[inc] = u[fs[i].inc]
        BY <2>b, <1>b DEF p
      <4>4. p # r
        BY <1>b
      <4>5. CASE p = u[inc]
        BY <3>2, <4>1, <4>2, <4>5
      <4>6. ASSUME NEW i \in 2 .. n, p = fs[i].root, u[inc] = u[fs[i].inc]
            PROVE  \E j \in 2 .. n - 1 : p = gs[j].root /\ u[inc] = u[gs[j].inc]
        <5>1. i # n
          BY <4>4, <4>6, <2>g
        <5>2. i \in 2 .. n - 1 /\ gs[i] = fs[i]
          BY <5>1, <2>m, <2>n
        <5> QED BY <5>2, <4>6
      <4> QED BY <3>2, <4>1, <4>2, <4>3, <4>5, <4>6
    <3>4. CASE c \notin S
      <4>1. m[c].parent = ns[c].parent
        BY <3>1, <3>4, <2>1, <1>x
      <4>2. ns[c].parent # r
        BY <3>1, <3>4, <2>a DEF Kids
      <4>3. \/ ns[c].parent = u[c]
            \/ \E i \in 2 .. n : ns[c].parent = fs[i].root /\ u[c] = u[fs[i].inc]
        BY <3>1, <2>1, <2>b
      <4>4. ASSUME NEW i \in 2 .. n, ns[c].parent = fs[i].root, u[c] = u[fs[i].inc]
            PROVE  \E j \in 2 .. n - 1 : ns[c].parent = gs[j].root /\ u[c] = u[gs[j].inc]
        <5>1. i # n
          BY <4>2, <4>4, <2>g
        <5>2. i \in 2 .. n - 1 /\ gs[i] = fs[i]
          BY <5>1, <2>m, <2>n
        <5> QED BY <5>2, <4>4
      <4> QED BY <3>2, <4>1, <4>3, <4>4
    <3> QED BY <3>3, <3>4
  <2> QED BY <2>1, <1>s, <1>x DEF ParentsOK
<1>8. Tree(m, u, H, h \/ q = 0, gs)
  BY <1>1, <1>5, <1>6, <1>7, <1>u, <1>x DEF Tree
<1> QED BY <1>8 DEF H, q

-----------------------------------------------------------------------------
(* The token buffer.                                                        *)

\* Text is never one of the marks.
LEMMA NotMarks ==
  /\ \A s \in Seq(Char) : s # Null /\ s # Unclear
  /\ \A s \in Seq(Stored) : s # Null
<1>1. ASSUME NEW s \in Seq(Stored) PROVE s # Null
  <2>1. ASSUME s = Null PROVE FALSE
    <3>1. Len(s) = 1 /\ s[1] = "NULL"
      BY <2>1 DEF Null
    <3>2. s[1] \in Stored
      <4> DEFINE S == Stored
      <4>1. s \in Seq(S) /\ Len(s) = 1
        BY <3>1
      <4> HIDE DEF S
      <4>2. s[1] \in S
        BY <4>1
      <4> QED BY <4>2 DEF S
    <3> QED BY <3>1, <3>2 DEF Stored, Char, Junk
  <2> QED BY <2>1
<1>2. ASSUME NEW s \in Seq(Char) PROVE s # Null /\ s # Unclear
  <2>1. ASSUME s = Null PROVE FALSE
    <3>1. Len(s) = 1 /\ s[1] = "NULL"
      BY <2>1 DEF Null
    <3>2. s[1] \in Char
      BY <3>1
    <3> QED BY <3>1, <3>2 DEF Char
  <2>2. ASSUME s = Unclear PROVE FALSE
    <3>1. Len(s) = 1 /\ s[1] = "unclear"
      BY <2>2 DEF Unclear
    <3>2. s[1] \in Char
      BY <3>1
    <3> QED BY <3>1, <3>2 DEF Char
  <2> QED BY <2>1, <2>2
<1> QED BY <1>1, <1>2

SameFrame(f, g) ==
  /\ g.root = f.root /\ g.node = f.node /\ g.inc = f.inc /\ g.context = f.context
  /\ g.spaceOnly = f.spaceOnly /\ g.run = f.run /\ g.fresh = f.fresh /\ g.atEnd = f.atEnd

LEMMA BufAppends ==
  ASSUME NEW f \in FrameRec, BufOK(f), NEW ch \in Char
  PROVE  LET g == BufAppend(f, ch)
         IN /\ g \in FrameRec /\ BufOK(g) /\ SameFrame(f, g)
            /\ Len(f.buf) + 2 < f.cap => g.buf = Append(f.buf, ch) /\ g.cap = f.cap
<1> DEFINE g == BufAppend(f, ch)
<1>0. f.buf \in Seq(Stored) /\ f.cap \in Nat /\ Len(f.buf) \in Nat /\ ch \in Stored
  BY DEF FrameRec, Stored
<1>1. CASE Len(f.buf) + 2 >= f.cap
  <2> DEFINE b == [i \in 1 .. Len(f.buf) |-> Junk] \o <<ch>>
  <2>1. b \in Seq(Stored) /\ Len(b) = Len(f.buf) + 1
    <3>1. [i \in 1 .. Len(f.buf) |-> Junk] \in Seq(Stored)
      BY <1>0 DEF Stored
    <3>2. Len([i \in 1 .. Len(f.buf) |-> Junk]) = Len(f.buf)
      BY <1>0
    <3> HIDE DEF Stored
    <3>3. <<ch>> \in Seq(Stored) /\ Len(<<ch>>) = 1
      BY <1>0
    <3> DEFINE x == [i \in 1 .. Len(f.buf) |-> Junk]
    <3> HIDE DEF x
    <3>4. x \in Seq(Stored) /\ Len(x) = Len(f.buf)
      BY <3>1, <3>2 DEF x
    <3>5. x \o <<ch>> \in Seq(Stored) /\ Len(x \o <<ch>>) = Len(f.buf) + 1
      BY <3>3, <3>4, ConcatProperties
    <3> QED BY <3>5 DEF x
  <2> HIDE DEF b
  <2>2. g = [f EXCEPT !.cap = 2 * @, !.buf = b]
    BY <1>1 DEF BufAppend, b
  <2>3. /\ g.buf = b /\ g.cap = 2 * f.cap /\ SameFrame(f, g)
        /\ g \in FrameRec
    <3>1. 2 * f.cap \in Nat
      BY <1>0
    <3> HIDE DEF g
    <3>2. g.buf = b /\ g.cap = 2 * f.cap /\ SameFrame(f, g)
      BY <2>2 DEF FrameRec, SameFrame
    <3>3. g \in FrameRec
      BY <3>1, <2>1, <2>2 DEF FrameRec
    <3> QED BY <3>2, <3>3
  <2>4. BufOK(g)
    BY <2>1, <2>3, <1>0, <1>1, RegistryAssumption DEF BufOK
  <2> QED BY <2>3, <2>4, <1>0, <1>1
<1>2. CASE ~(Len(f.buf) + 2 >= f.cap)
  <2>1. g = [f EXCEPT !.buf = Append(@, ch)]
    BY <1>2 DEF BufAppend
  <2>2. Append(f.buf, ch) \in Seq(Stored) /\ Len(Append(f.buf, ch)) = Len(f.buf) + 1
    BY <1>0
  <2>3. g.buf = Append(f.buf, ch) /\ g.cap = f.cap /\ SameFrame(f, g) /\ g \in FrameRec
    BY <2>1, <2>2, <1>0 DEF FrameRec, SameFrame
  <2> QED BY <2>2, <2>3, <1>0, <1>2 DEF BufOK
<1> QED BY <1>1, <1>2

LEMMA StoredAppend ==
  ASSUME NEW s \in Seq(Stored), NEW t \in Seq(Stored), NEW x \in Stored
  PROVE  Append(s \o t, x) = s \o Append(t, x)
<1>1. /\ Append(s \o t, x) = (s \o t) \o <<x>> /\ Append(t, x) = t \o <<x>>
      /\ <<x>> \in Seq(Stored)
  BY ConcatProperties, AppendIsConcat
<1>2. (s \o t) \o <<x>> = s \o (t \o <<x>>)
  BY <1>1, ConcatAssociative
<1> QED BY <1>1, <1>2

\* Characters one after the other: whole if there is room for them.
LEMMA BufferedText ==
  ASSUME NEW f \in FrameRec, BufOK(f), NEW chars \in Seq(Char)
  PROVE  LET g == Buffered(f, chars)
         IN /\ g \in FrameRec /\ BufOK(g) /\ SameFrame(f, g)
            /\ Len(f.buf) + Len(chars) + 2 <= f.cap => g.buf = f.buf \o chars
<1> DEFINE N == Len(chars)
           S == {g \in FrameRec : BufOK(g) /\ SameFrame(f, g)}
           F == [x \in S \X (1 .. N) |-> BufAppend(x[1], chars[x[2]])]
           Whole(g, k) == Len(f.buf) + k + 2 <= f.cap /\ k <= N =>
                            g.buf = f.buf \o SubSeq(chars, 1, k) /\ g.cap = f.cap
           T == {x \in S \X Nat : Whole(x[1], x[2])}
<1>0. /\ N \in Nat /\ \A k \in 1 .. N : chars[k] \in Char
      /\ f.buf \in Seq(Stored) /\ Len(f.buf) \in Nat /\ f.cap \in Nat /\ chars \in Seq(Stored)
  BY DEF FrameRec, Stored
<1>1. ASSUME NEW v \in S, NEW k \in 1 .. N
      PROVE  /\ BufAppend(v, chars[k]) \in S
             /\ Len(v.buf) + 2 < v.cap => /\ BufAppend(v, chars[k]).buf = Append(v.buf, chars[k])
                                          /\ BufAppend(v, chars[k]).cap = v.cap
  <2>1. v \in FrameRec /\ BufOK(v) /\ SameFrame(f, v) /\ chars[k] \in Char
    BY <1>0
  <2> DEFINE g == BufAppend(v, chars[k])
  <2>2. /\ g \in FrameRec /\ BufOK(g) /\ SameFrame(v, g)
        /\ Len(v.buf) + 2 < v.cap => g.buf = Append(v.buf, chars[k]) /\ g.cap = v.cap
    BY <2>1, BufAppends
  <2> HIDE DEF g
  <2>3. SameFrame(f, g)
    BY <2>1, <2>2 DEF SameFrame
  <2> QED BY <2>2, <2>3 DEF g
<1>2. F \in [S \X (1 .. N) -> S] /\ \A v \in S, k \in 1 .. N : F[<<v, k>>] = BufAppend(v, chars[k])
  <2> HIDE DEF S
  <2> QED BY <1>1
<1>3. f \in S /\ <<f, 0>> \in T
  <2>1. f \in S
    BY DEF SameFrame
  <2>2. SubSeq(chars, 1, 0) = <<>> /\ f.buf \o <<>> = f.buf
    BY <1>0, ConcatEmptySeq
  <2>3. Whole(f, 0)
    BY <2>2
  <2> HIDE DEF Whole, S
  <2> QED BY <2>1, <2>3
<1>4. ASSUME NEW k \in 1 .. N, NEW v \in S, <<v, k - 1>> \in T
      PROVE  <<F[<<v, k>>], k>> \in T
  <2>1. F[<<v, k>>] = BufAppend(v, chars[k]) /\ F[<<v, k>>] \in S
    BY <1>1, <1>2
  <2>2. Whole(v, k - 1)
    <3> HIDE DEF Whole, S
    <3> QED BY <1>4
  <2>3. ASSUME Len(f.buf) + k + 2 <= f.cap
        PROVE  BufAppend(v, chars[k]).buf = f.buf \o SubSeq(chars, 1, k)
               /\ BufAppend(v, chars[k]).cap = f.cap
    <3>1. v.buf = f.buf \o SubSeq(chars, 1, k - 1) /\ v.cap = f.cap
      <4>1. Len(f.buf) + (k - 1) + 2 <= f.cap /\ k - 1 <= N
        BY <2>3, <1>0
      <4> HIDE DEF N
      <4> QED BY <2>2, <4>1
    <3> DEFINE w == SubSeq(chars, 1, k - 1)
    <3>2. w \in Seq(Stored) /\ Len(w) = k - 1 /\ chars[k] \in Stored
          /\ SubSeq(chars, 1, k) = Append(w, chars[k])
      <4>1. chars[k] \in Stored /\ k - 1 \in 0 .. N
        BY <1>0 DEF Stored
      <4>2. w \in Seq(Stored) /\ Len(w) = k - 1
        BY <4>1, <1>0
      <4>3. SubSeq(chars, 1, k) = Append(w, chars[k])
        BY <4>1, <1>0
      <4> QED BY <4>1, <4>2, <4>3
    <3> HIDE DEF w
    <3>3. Len(v.buf) = Len(f.buf) + k - 1
      <4>1. Len(f.buf \o w) = Len(f.buf) + Len(w)
        BY <3>2, <1>0, ConcatProperties
      <4>2. v.buf = f.buf \o w
        BY <3>1 DEF w
      <4> QED BY <4>1, <4>2, <3>2, <1>0
    <3>4. Len(v.buf) + 2 < v.cap
      <4>1. v.cap = f.cap
        BY <3>1
      <4> QED BY <4>1, <3>3, <2>3, <1>0
    <3>5. BufAppend(v, chars[k]).buf = Append(f.buf \o w, chars[k])
          /\ BufAppend(v, chars[k]).cap = f.cap
      BY <3>1, <3>4, <1>1 DEF w
    <3>6. Append(f.buf \o w, chars[k]) = f.buf \o Append(w, chars[k])
      BY <3>2, <1>0, StoredAppend
    <3> QED BY <3>2, <3>5, <3>6
  <2>4. Whole(F[<<v, k>>], k)
    <3> HIDE DEF F
    <3> QED BY <2>1, <2>3
  <2> HIDE DEF S, Whole, F
  <2> QED BY <2>1, <2>4
<1> DEFINE Step(d) == [k \in 0 .. N |-> IF k = 0 THEN f ELSE BufAppend(d[k - 1], chars[k])]
           m == CHOOSE d : d = Step(d)
<1>5. PICK g \in [0 .. N -> S] : g[0] = f /\ \A k \in 1 .. N : g[k] = F[<<g[k - 1], k>>]
  <2>1. \E g : Loop(g, N, S, f, F)
    <3> HIDE DEF N, S, F
    <3> QED BY <1>0, <1>2, <1>3, Iterates
  <2> QED BY <2>1 DEF Loop
<1> HIDE DEF F, S, T
<1>6. g = Step(g)
  <2>1. ASSUME NEW k \in 0 .. N PROVE g[k] = Step(g)[k]
    <3>1. CASE k = 0
      BY <3>1, <1>5
    <3>2. CASE k # 0
      <4>1. k \in 1 .. N /\ k - 1 \in 0 .. N
        BY <3>2, <1>0
      <4>2. g[k - 1] \in S
        BY <4>1
      <4> QED BY <4>1, <4>2, <3>2, <1>2, <1>5
    <3> QED BY <3>1, <3>2
  <2> QED BY <2>1
<1>7. m = Step(m)
  BY <1>6
<1>8. Buffered(f, chars) = m[N]
  BY DEF Buffered
<1> HIDE DEF m
<1>9. m[0] = f /\ \A k \in 1 .. N : m[k] = BufAppend(m[k - 1], chars[k])
  <2>1. \A k \in 0 .. N : m[k] = IF k = 0 THEN f ELSE BufAppend(m[k - 1], chars[k])
    BY <1>7, Zenon
  <2> QED BY <1>0, <2>1
<1>10. m[N] \in S /\ <<m[N], N>> \in T
  <2>1. \A k \in 1 .. N : m[k - 1] \in S => m[k] = F[<<m[k - 1], k>>]
    BY <1>2, <1>9
  <2>2. f \in S /\ <<f, 0>> \in T /\ m[0] = f
    BY <1>3, <1>9
  <2>3. N \in Nat /\ F \in [S \X (1 .. N) -> S]
    BY <1>0, <1>2
  <2>4. \A k \in 1 .. N, v \in S : <<v, k - 1>> \in T => <<F[<<v, k>>], k>> \in T
    BY <1>4
  <2> HIDE DEF N
  <2> QED BY <2>1, <2>2, <2>3, <2>4, LoopValues
<1>11. m[N] \in FrameRec /\ BufOK(m[N]) /\ SameFrame(f, m[N])
  BY <1>10 DEF S
<1>12. Len(f.buf) + N + 2 <= f.cap => m[N].buf = f.buf \o SubSeq(chars, 1, N)
  <2>1. Whole(m[N], N)
    <3> HIDE DEF Whole
    <3> QED BY <1>10 DEF T
  <2>2. N <= N
    BY <1>0
  <2> HIDE DEF N
  <2> QED BY <2>1, <2>2
<1>13. SubSeq(chars, 1, N) = chars
  BY <1>0
<1> QED BY <1>8, <1>11, <1>12, <1>13

\* A token: whole if it fits the buffer.
LEMMA CollectedText ==
  ASSUME NEW f \in FrameRec, Capacity <= f.cap, NEW chars \in Seq(Char)
  PROVE  LET g == Collected(f, chars)
         IN /\ g \in FrameRec /\ BufOK(g) /\ SameFrame(f, g)
            /\ Fits(chars) => g.buf = chars
<1> DEFINE e == [f EXCEPT !.buf = <<>>]
           g == Buffered(e, chars)
<1>0. <<>> \in Seq(Stored)
  OBVIOUS
<1>1. e \in FrameRec /\ e.buf = <<>> /\ e.cap = f.cap /\ SameFrame(f, e)
  BY <1>0 DEF FrameRec, SameFrame
<1>2. BufOK(e) /\ f.cap \in Nat
  BY <1>1, RegistryAssumption, SMTT(30) DEF BufOK, FrameRec
<1> HIDE DEF e
<1>3. /\ g \in FrameRec /\ BufOK(g) /\ SameFrame(e, g)
      /\ Len(e.buf) + Len(chars) + 2 <= e.cap => g.buf = e.buf \o chars
  BY <1>1, <1>2, BufferedText
<1> HIDE DEF g
<1>4. SameFrame(f, g)
  BY <1>1, <1>3 DEF SameFrame
<1>5. Fits(chars) => g.buf = chars
  <2>1. <<>> \o chars = chars /\ Len(<<>>) = 0 /\ Len(chars) \in Nat
    BY ConcatEmptySeq
  <2> QED BY <2>1, <1>1, <1>2, <1>3, RegistryAssumption DEF Fits
<1> QED BY <1>3, <1>4, <1>5 DEF g, e, Collected

-----------------------------------------------------------------------------
(* A tag adds an element and its attributes.                                *)

\* m is ns with one more child of node.
AddedAt(ns, m, node, key) ==
  LET e == Len(ns) + 1
  IN /\ Len(m) = e
     /\ \A c \in 1 .. Len(ns) :
          /\ m[c].parent = ns[c].parent /\ m[c].prev = ns[c].prev
          /\ m[c].key = ns[c].key /\ m[c].value = ns[c].value
          /\ m[c].next = IF c = ns[node].last THEN e ELSE ns[c].next
          /\ m[c].first = IF c = node /\ ns[node].last = 0 THEN e ELSE ns[c].first
          /\ m[c].last = IF c = node THEN e ELSE ns[c].last
     /\ m[e].parent = node /\ m[e].prev = ns[node].last /\ m[e].next = 0
     /\ m[e].first = 0 /\ m[e].last = 0 /\ m[e].key = key /\ m[e].value = Null

Fields == {"parent", "next", "prev", "first", "last", "key", "value"}

\* m is ns, but for the field k of c.
FieldSet(ns, m, c, k, v) ==
  /\ m \in Seq(Node) /\ Len(m) = Len(ns)
  /\ \A d \in 1 .. Len(ns) : \A j \in Fields :
       m[d][j] = IF d = c /\ j = k THEN v ELSE ns[d][j]

LEMMA FieldSets ==
  ASSUME NEW ns \in Seq(Node), NEW c \in 1 .. Len(ns), NEW k, NEW v,
         (k \in {"next", "first", "last"} /\ v \in Nat) \/ (k = "value" /\ v \in Value)
  PROVE  FieldSet(ns, [ns EXCEPT ![c][k] = v], c, k, v)
<1> DEFINE x == [ns[c] EXCEPT ![k] = v]
           m == [ns EXCEPT ![c] = x]
<1>1. ns[c] \in Node /\ Len(ns) \in Nat
  OBVIOUS
<1>2. x \in Node /\ \A j \in Fields : x[j] = IF j = k THEN v ELSE ns[c][j]
  BY <1>1 DEF Node, Fields
<1>3. m = [ns EXCEPT ![c][k] = v]
  OBVIOUS
<1> HIDE DEF x
<1>4. /\ m \in Seq(Node) /\ Len(m) = Len(ns)
      /\ \A d \in 1 .. Len(ns) : m[d] = IF d = c THEN x ELSE ns[d]
  BY <1>1, <1>2
<1> HIDE DEF m
<1>5. FieldSet(ns, m, c, k, v)
  BY <1>2, <1>4 DEF FieldSet
<1> QED BY <1>3, <1>5

LEMMA RegistryAdds ==
  ASSUME NEW ns \in Seq(Node), NEW node \in 1 .. Len(ns), ns[node].last \in 0 .. Len(ns),
         NEW key \in Name
  PROVE  /\ RegistryAdd(ns, node, key) \in Seq(Node)
         /\ AddedAt(ns, RegistryAdd(ns, node, key), node, key)
<1> DEFINE n == Len(ns)
           last == ns[node].last
           x == [NewNode(key) EXCEPT !.parent = node, !.prev = last]
           k == IF last # 0 THEN "next" ELSE "first"
           p == IF last # 0 THEN last ELSE node
           y == [ns EXCEPT ![p][k] = n + 1]
           m == [y EXCEPT ![node].last = n + 1]
<1>0. n \in Nat /\ n + 1 \in Nat /\ p \in 1 .. n /\ k \in {"next", "first"}
  OBVIOUS
<1>1. /\ x \in Node /\ x.parent = node /\ x.prev = last /\ x.next = 0 /\ x.first = 0
      /\ x.last = 0 /\ x.key = key /\ x.value = Null
  <2>1. last \in Nat /\ node \in Nat /\ Null \in Value
    BY <1>0 DEF Value
  <2> HIDE DEF last
  <2>2. /\ NewNode(key) \in Node /\ NewNode(key).next = 0 /\ NewNode(key).first = 0
        /\ NewNode(key).last = 0 /\ NewNode(key).key = key /\ NewNode(key).value = Null
    BY <2>1 DEF NewNode, Node
  <2> QED BY <2>1, <2>2 DEF Node
<1>2. FieldSet(ns, y, p, k, n + 1)
  <2> DEFINE v == n + 1
  <2>1. v \in Nat /\ k \in {"next", "first", "last"} /\ p \in 1 .. Len(ns)
    BY <1>0
  <2> HIDE DEF p, k, v
  <2> QED BY <2>1, FieldSets
<1>3. FieldSet(y, m, node, "last", n + 1)
  <2>1. y \in Seq(Node) /\ Len(y) = n
    BY <1>2 DEF FieldSet
  <2>2. node \in 1 .. Len(y)
    BY <2>1
  <2> HIDE DEF n, y
  <2> QED BY <1>0, <2>1, <2>2, FieldSets
<1>4. RegistryAdd(ns, node, key) = Append(m, x)
  <2>1. CASE last # 0
    <3>1. y = [ns EXCEPT ![last].next = n + 1]
      BY <2>1
    <3>2. m = [ns EXCEPT ![last].next = n + 1, ![node].last = n + 1]
      BY <3>1
    <3> HIDE DEF m, x
    <3> QED BY <2>1, <3>2 DEF RegistryAdd, x
  <2>2. CASE last = 0
    <3>1. y = [ns EXCEPT ![node].first = n + 1]
      BY <2>2
    <3>2. m = [ns EXCEPT ![node].first = n + 1, ![node].last = n + 1]
      BY <3>1
    <3> HIDE DEF m, x
    <3> QED BY <2>2, <3>2 DEF RegistryAdd, x
  <2> QED BY <2>1, <2>2
<1> HIDE DEF m, x, y
<1>5. m \in Seq(Node) /\ Len(m) = n
  BY <1>2, <1>3 DEF FieldSet
<1>6. ASSUME NEW c \in 1 .. n
      PROVE  /\ m[c].parent = ns[c].parent /\ m[c].prev = ns[c].prev
             /\ m[c].key = ns[c].key /\ m[c].value = ns[c].value
             /\ m[c].next = IF c = last THEN n + 1 ELSE ns[c].next
             /\ m[c].first = IF c = node /\ last = 0 THEN n + 1 ELSE ns[c].first
             /\ m[c].last = IF c = node THEN n + 1 ELSE ns[c].last
  <2>1. \A j \in Fields : y[c][j] = IF c = p /\ j = k THEN n + 1 ELSE ns[c][j]
    BY <1>2 DEF FieldSet
  <2>2. \A j \in Fields : m[c][j] = IF c = node /\ j = "last" THEN n + 1 ELSE y[c][j]
    BY <1>2, <1>3 DEF FieldSet
  <2>3. /\ y[c].parent = ns[c].parent /\ y[c].prev = ns[c].prev
        /\ y[c].key = ns[c].key /\ y[c].value = ns[c].value
        /\ y[c].last = ns[c].last
    BY <2>1 DEF Fields
  <2>4. /\ y[c].next = IF c = last THEN n + 1 ELSE ns[c].next
        /\ y[c].first = IF c = node /\ last = 0 THEN n + 1 ELSE ns[c].first
    BY <2>1, <1>0 DEF Fields
  <2>5. /\ m[c].parent = y[c].parent /\ m[c].prev = y[c].prev
        /\ m[c].key = y[c].key /\ m[c].value = y[c].value
        /\ m[c].next = y[c].next /\ m[c].first = y[c].first
        /\ m[c].last = IF c = node THEN n + 1 ELSE y[c].last
    BY <2>2 DEF Fields
  <2> QED BY <2>3, <2>4, <2>5
<1>7. /\ Append(m, x) \in Seq(Node) /\ Len(Append(m, x)) = n + 1
      /\ Append(m, x)[n + 1] = x
      /\ \A c \in 1 .. n : Append(m, x)[c] = m[c]
  BY <1>0, <1>1, <1>5
<1> DEFINE w == Append(m, x)
<1> HIDE DEF w
<1>8. AddedAt(ns, w, node, key)
  BY <1>7, <1>6, <1>1, <1>0 DEF AddedAt, w
<1> QED BY <1>4, <1>7, <1>8 DEF w

LEMMA AddedTagged ==
  ASSUME NEW a, NEW m, NEW node, NEW key, Len(a) \in Nat, AddedAt(a, m, node, key)
  PROVE  Tagged(a, m, node)
  BY DEF AddedAt, Tagged

LEMMA TaggedLinks ==
  ASSUME NEW a, NEW m, NEW w, NEW node, Len(a) \in Nat, Tagged(a, m, node), SameLinks(m, w)
  PROVE  Tagged(a, w, node)
  BY SMTT(30) DEF Tagged, SameLinks

LEMMA TaggedAdd ==
  ASSUME NEW a, NEW m, NEW w, NEW node, NEW key, Len(a) \in Nat, Tagged(a, m, node),
         AddedAt(m, w, Len(a) + 1, key)
  PROVE  Tagged(a, w, node)
<1> DEFINE e == Len(a) + 1
           n == Len(m)
<1>1. n \in Nat /\ e \in Nat /\ e <= n /\ Len(w) = n + 1 /\ e # 0
  BY DEF Tagged, AddedAt
<1>2. m[e].last = IF n = e THEN 0 ELSE n
  BY DEF Tagged
<1>3. ASSUME NEW c \in 1 .. Len(a)
      PROVE  /\ w[c].parent = a[c].parent /\ w[c].prev = a[c].prev
             /\ w[c].next = IF c = a[node].last THEN e ELSE a[c].next
             /\ w[c].first = IF c = node /\ a[node].last = 0 THEN e ELSE a[c].first
             /\ w[c].last = IF c = node THEN e ELSE a[c].last
  <2>1. c \in 1 .. n /\ c # e /\ c # m[e].last
    BY <1>1, <1>2
  <2>2. /\ w[c].parent = m[c].parent /\ w[c].prev = m[c].prev /\ w[c].next = m[c].next
        /\ w[c].first = m[c].first /\ w[c].last = m[c].last
    BY <2>1 DEF AddedAt
  <2> QED BY <2>2 DEF Tagged
<1>4. /\ w[e].parent = node /\ w[e].prev = a[node].last /\ w[e].next = 0
      /\ w[e].first = e + 1 /\ w[e].last = n + 1
  <2>1. e \in 1 .. n /\ e # m[e].last
    BY <1>1, <1>2
  <2>2. /\ m[e].parent = node /\ m[e].prev = a[node].last /\ m[e].next = 0
        /\ m[e].first = IF n = e THEN 0 ELSE e + 1
    BY DEF Tagged
  <2>3. /\ w[e].parent = m[e].parent /\ w[e].prev = m[e].prev /\ w[e].next = m[e].next
        /\ w[e].first = (IF m[e].last = 0 THEN n + 1 ELSE m[e].first) /\ w[e].last = n + 1
    BY <2>1 DEF AddedAt
  <2> QED BY <2>2, <2>3, <1>1, <1>2
<1>5. ASSUME NEW c \in e + 1 .. n + 1
      PROVE  /\ w[c].parent = e /\ w[c].prev = IF c = e + 1 THEN 0 ELSE c - 1
             /\ w[c].next = IF c = n + 1 THEN 0 ELSE c + 1
             /\ w[c].first = 0 /\ w[c].last = 0
  <2>1. CASE c = n + 1
    <3>1. /\ w[c].parent = e /\ w[c].prev = m[e].last /\ w[c].next = 0
          /\ w[c].first = 0 /\ w[c].last = 0
      BY <2>1 DEF AddedAt
    <3> QED BY <3>1, <2>1, <1>1, <1>2
  <2>2. CASE c # n + 1
    <3>1. c \in e + 1 .. n /\ c \in 1 .. n /\ c # e
      BY <2>2, <1>1
    <3>2. /\ w[c].parent = m[c].parent /\ w[c].prev = m[c].prev
          /\ w[c].next = (IF c = m[e].last THEN n + 1 ELSE m[c].next)
          /\ w[c].first = m[c].first /\ w[c].last = m[c].last
      BY <3>1 DEF AddedAt
    <3>3. /\ m[c].parent = e /\ m[c].prev = (IF c = e + 1 THEN 0 ELSE c - 1)
          /\ m[c].next = (IF c = n THEN 0 ELSE c + 1)
          /\ m[c].first = 0 /\ m[c].last = 0
      BY <3>1 DEF Tagged
    <3>4. c = m[e].last <=> c = n
      BY <3>1, <1>1, <1>2
    <3> QED BY <3>1, <3>2, <3>3, <3>4, <2>2, <1>1
  <2> QED BY <2>1, <2>2
<1> QED BY <1>1, <1>3, <1>4, <1>5 DEF Tagged

\* What parse_tag has made of a tag so far: the nodes a before it with what is
\* said in them, s, the frame fr that reads it, and what has become of them, st.
TagState == [ns : Seq(Node), f : FrameRec, said : Seq(Meaning)]

NewValues(a, st) ==
  /\ \A c \in Len(a) + 1 .. Len(st.ns) : ValueOK(st.ns[c].value, st.said[c])
  /\ st.said[Len(a) + 1] = Null => st.ns[Len(a) + 1].value = Null

OldValues(a, s, st) ==
  \A c \in 1 .. Len(a) :
    st.ns[c].value = a[c].value /\ st.ns[c].key = a[c].key /\ st.said[c] = s[c]

TagRead(a, fr, s, st) ==
  /\ st \in TagState /\ Tagged(a, st.ns, fr.node) /\ SameFrame(fr, st.f) /\ BufOK(st.f)
  /\ Len(st.said) = Len(st.ns) /\ OldValues(a, s, st) /\ NewValues(a, st)

\* A value is what is said, and nothing else: text that fits is not a mark.
LEMMA TextValue ==
  ASSUME NEW chars \in Seq(Char), NEW buf, Fits(chars) => buf = chars
  PROVE  ValueOK(buf, chars)
  BY NotMarks DEF ValueOK

\* One attribute more.
LEMMA AttributeReads ==
  ASSUME NEW a \in Seq(Node), NEW fr, NEW s, NEW st, TagRead(a, fr, s, st),
         NEW attr \in Name \X Seq(Char)
  PROVE  TagRead(a, fr, s, AddAttribute(st, Len(a) + 1, attr))
<1> DEFINE e == Len(a) + 1
           f == Collected(st.f, attr[2])
           own == attr[1] = "id"
           ns == IF own THEN st.ns ELSE RegistryAdd(st.ns, e, attr[1])
           at == IF own THEN e ELSE Len(ns)
           out == [ns EXCEPT ![at].value = f.buf]
           sd == IF own THEN [st.said EXCEPT ![e] = attr[2]] ELSE Append(st.said, attr[2])
           r == [ns |-> out, f |-> f, said |-> sd]
<1>0. attr[1] \in Name /\ attr[2] \in Seq(Char) /\ Len(a) \in Nat
  OBVIOUS
<1>1. /\ st.ns \in Seq(Node) /\ st.f \in FrameRec /\ st.said \in Seq(Meaning)
      /\ Tagged(a, st.ns, fr.node) /\ SameFrame(fr, st.f) /\ BufOK(st.f)
      /\ Len(st.said) = Len(st.ns) /\ OldValues(a, s, st) /\ NewValues(a, st)
  BY DEF TagRead, TagState
<1>2. Len(st.ns) \in Nat /\ e <= Len(st.ns) /\ e \in 1 .. Len(st.ns)
  BY <1>0, <1>1 DEF Tagged
<1>3. /\ f \in FrameRec /\ BufOK(f) /\ SameFrame(st.f, f)
      /\ Fits(attr[2]) => f.buf = attr[2]
  <2>1. Capacity <= st.f.cap
    BY <1>1 DEF BufOK
  <2> QED BY <1>0, <1>1, <2>1, CollectedText
<1>4. AddAttribute(st, Len(a) + 1, attr) = r
  BY DEF AddAttribute
<1> HIDE DEF f
<1>5. f.buf \in Value /\ ValueOK(f.buf, attr[2]) /\ attr[2] \in Meaning /\ attr[2] # Null
  BY <1>0, <1>3, TextValue, NotMarks DEF FrameRec, Value, Meaning
<1>6. SameFrame(fr, f)
  BY <1>1, <1>3 DEF SameFrame
\* The nodes, before the value is set.
<1>7. /\ ns \in Seq(Node) /\ Tagged(a, ns, fr.node) /\ Len(ns) \in Nat
      /\ Len(ns) = (IF own THEN Len(st.ns) ELSE Len(st.ns) + 1)
      /\ \A c \in 1 .. Len(st.ns) : ns[c].value = st.ns[c].value /\ ns[c].key = st.ns[c].key
  <2>1. CASE own
    <3>1. ns = st.ns
      BY <2>1
    <3> HIDE DEF ns
    <3> QED BY <3>1, <2>1, <1>1, <1>2
  <2>2. CASE ~own
    <3> DEFINE w == RegistryAdd(st.ns, e, attr[1])
    <3>1. st.ns[e].last \in 0 .. Len(st.ns)
      BY <1>1, <1>2 DEF Tagged
    <3>2. w \in Seq(Node) /\ AddedAt(st.ns, w, e, attr[1])
      <4> DEFINE ee == e
                 key == attr[1]
      <4>1. ee \in 1 .. Len(st.ns) /\ st.ns[ee].last \in 0 .. Len(st.ns) /\ key \in Name
        BY <3>1, <1>0, <1>2
      <4> HIDE DEF ee, key
      <4>2. /\ RegistryAdd(st.ns, ee, key) \in Seq(Node)
            /\ AddedAt(st.ns, RegistryAdd(st.ns, ee, key), ee, key)
        BY <4>1, <1>1, RegistryAdds
      <4> QED BY <4>2 DEF ee, key
    <3> HIDE DEF w
    <3>3. Tagged(a, w, fr.node)
      BY <3>2, <1>0, <1>1, TaggedAdd
    <3>4. ns = w
      BY <2>2 DEF w
    <3>5. /\ Len(w) = Len(st.ns) + 1
          /\ \A c \in 1 .. Len(st.ns) : w[c].value = st.ns[c].value /\ w[c].key = st.ns[c].key
      BY <3>2 DEF AddedAt
    <3> HIDE DEF ns
    <3> QED BY <3>2, <3>3, <3>4, <3>5, <2>2, <1>2
  <2> QED BY <2>1, <2>2
<1>8. at \in 1 .. Len(ns) /\ at >= e
  BY <1>2, <1>7
<1> HIDE DEF ns
<1>9. FieldSet(ns, out, at, "value", f.buf)
  <2> DEFINE b == f.buf
  <2>1. b \in Value
    BY <1>5
  <2> HIDE DEF at, b
  <2>2. FieldSet(ns, [ns EXCEPT ![at]["value"] = b], at, "value", b)
    BY <2>1, <1>7, <1>8, FieldSets
  <2> QED BY <2>2 DEF b
<1> HIDE DEF out
<1>10. /\ out \in Seq(Node) /\ Len(out) = Len(ns) /\ SameLinks(ns, out)
       /\ \A c \in 1 .. Len(ns) : /\ out[c].value = IF c = at THEN f.buf ELSE ns[c].value
                                  /\ out[c].key = ns[c].key
  BY <1>9 DEF FieldSet, Fields, SameLinks
<1>11. Tagged(a, out, fr.node)
  BY <1>0, <1>7, <1>10, TaggedLinks
<1>12. /\ sd \in Seq(Meaning) /\ Len(sd) = Len(ns) /\ sd[at] = attr[2]
       /\ \A c \in 1 .. Len(st.ns) : c # at => sd[c] = st.said[c]
  <2>1. CASE own
    <3>1. sd = [st.said EXCEPT ![e] = attr[2]] /\ at = e
      BY <2>1
    <3> HIDE DEF sd, at
    <3> QED BY <3>1, <2>1, <1>1, <1>2, <1>5, <1>7
  <2>2. CASE ~own
    <3>1. sd = Append(st.said, attr[2]) /\ at = Len(ns)
      BY <2>2
    <3> HIDE DEF sd, at
    <3> QED BY <3>1, <2>2, <1>1, <1>2, <1>5, <1>7, SMTT(30)
  <2> QED BY <2>1, <2>2
<1>13. Len(ns) = Len(st.ns) \/ (Len(ns) = Len(st.ns) + 1 /\ at = Len(ns))
  BY <1>7
<1> HIDE DEF at, sd
<1>14. /\ r \in TagState /\ r.ns = out /\ r.f = f /\ r.said = sd
  BY <1>3, <1>10, <1>12 DEF TagState
<1> HIDE DEF r
<1>15. OldValues(a, s, r)
  <2>1. ASSUME NEW c \in 1 .. Len(a)
        PROVE  out[c].value = a[c].value /\ out[c].key = a[c].key /\ sd[c] = s[c]
    <3>1. c \in 1 .. Len(st.ns) /\ c \in 1 .. Len(ns) /\ c # at
      BY <1>0, <1>2, <1>8, <1>13
    <3>2. out[c].value = st.ns[c].value /\ out[c].key = st.ns[c].key /\ sd[c] = st.said[c]
      BY <3>1, <1>7, <1>10, <1>12
    <3> QED BY <3>2, <1>1 DEF OldValues
  <2> QED BY <2>1, <1>14 DEF OldValues
<1>16. NewValues(a, r)
  <2>1. ASSUME NEW c \in e .. Len(out) PROVE ValueOK(out[c].value, sd[c])
    <3>1. CASE c = at
      BY <3>1, <1>5, <1>8, <1>10, <1>12
    <3>2. CASE c # at
      <4>1. c \in 1 .. Len(st.ns) /\ c \in e .. Len(st.ns) /\ c \in 1 .. Len(ns)
        BY <3>2, <1>0, <1>2, <1>10, <1>13
      <4>2. out[c].value = st.ns[c].value /\ sd[c] = st.said[c]
        BY <4>1, <3>2, <1>7, <1>10, <1>12
      <4> QED BY <4>1, <4>2, <1>1 DEF NewValues
    <3> QED BY <3>1, <3>2
  <2>2. sd[e] = Null => out[e].value = Null
    <3>1. CASE e = at
      BY <3>1, <1>5, <1>12
    <3>2. CASE e # at
      <4>1. e \in 1 .. Len(ns)
        BY <1>2, <1>13
      <4>2. out[e].value = st.ns[e].value /\ sd[e] = st.said[e]
        BY <4>1, <3>2, <1>2, <1>7, <1>10, <1>12
      <4> QED BY <4>2, <1>1 DEF NewValues
    <3> QED BY <3>1, <3>2
  <2> QED BY <2>1, <2>2, <1>14 DEF NewValues
<1>17. TagRead(a, fr, s, r)
  BY <1>3, <1>6, <1>10, <1>11, <1>12, <1>14, <1>15, <1>16 DEF TagRead
<1> QED BY <1>4, <1>17

\* A tag: an element and its attributes.
LEMMA ElementReads ==
  ASSUME NEW a \in Seq(Node), NEW f \in FrameRec, BufOK(f), NEW s \in Seq(Meaning),
         Len(s) = Len(a), f.node \in 1 .. Len(a), a[f.node].last \in 0 .. Len(a),
         NEW piece, piece.key \in Name, piece.attrs \in Seq(Name \X Seq(Char))
  PROVE  LET st == AddElement(a, f, piece, s)
         IN TagRead(a, f, s, st) /\ st.f.buf = <<>>
<1> DEFINE N == Len(piece.attrs)
           b == [ns |-> RegistryAdd(a, f.node, piece.key), f |-> f, said |-> Append(s, Null)]
           S == {st \in TagState : TagRead(a, f, s, st)}
           F == [x \in S \X (1 .. N) |-> AddAttribute(x[1], Len(a) + 1, piece.attrs[x[2]])]
           T == S \X Nat
<1>0. /\ N \in Nat /\ \A k \in 1 .. N : piece.attrs[k] \in Name \X Seq(Char)
      /\ Len(a) \in Nat
  OBVIOUS
<1>1. b \in S
  <2> DEFINE w == RegistryAdd(a, f.node, piece.key)
             sd == Append(s, Null)
  <2>1. w \in Seq(Node) /\ AddedAt(a, w, f.node, piece.key)
    <3> DEFINE node == f.node
               key == piece.key
    <3>1. node \in 1 .. Len(a) /\ a[node].last \in 0 .. Len(a) /\ key \in Name
      OBVIOUS
    <3> HIDE DEF node, key
    <3>2. RegistryAdd(a, node, key) \in Seq(Node) /\ AddedAt(a, RegistryAdd(a, node, key), node, key)
      BY <3>1, RegistryAdds
    <3> QED BY <3>2 DEF node, key
  <2> HIDE DEF w
  <2>2. Tagged(a, w, f.node)
    BY <2>1, <1>0, AddedTagged
  <2>3. /\ sd \in Seq(Meaning) /\ Len(sd) = Len(a) + 1 /\ sd[Len(a) + 1] = Null
        /\ \A c \in 1 .. Len(a) : sd[c] = s[c]
    <3>1. Null \in Meaning
      BY DEF Meaning
    <3> QED BY <3>1, <1>0
  <2> HIDE DEF sd
  <2>4. /\ Len(w) = Len(a) + 1 /\ w[Len(a) + 1].value = Null
        /\ \A c \in 1 .. Len(a) : w[c].value = a[c].value /\ w[c].key = a[c].key
    BY <2>1 DEF AddedAt
  <2>5. b \in TagState /\ b.ns = w /\ b.f = f /\ b.said = sd
    BY <2>1, <2>3 DEF TagState, w, sd
  <2> HIDE DEF b
  <2>6. OldValues(a, s, b)
    BY <2>3, <2>4, <2>5 DEF OldValues
  <2>7. NewValues(a, b)
    <3>1. ValueOK(Null, Null)
      BY DEF ValueOK
    <3>2. \A c \in Len(a) + 1 .. Len(w) : c = Len(a) + 1
      BY <2>4, <1>0
    <3> QED BY <3>1, <3>2, <2>3, <2>4, <2>5 DEF NewValues
  <2>8. SameFrame(f, f)
    BY DEF SameFrame
  <2> QED BY <2>2, <2>3, <2>4, <2>5, <2>6, <2>7, <2>8 DEF TagRead
<1>2. \A st \in S, k \in 1 .. N : AddAttribute(st, Len(a) + 1, piece.attrs[k]) \in S
  <2> SUFFICES ASSUME NEW st \in S, NEW k \in 1 .. N
               PROVE  AddAttribute(st, Len(a) + 1, piece.attrs[k]) \in S
    OBVIOUS
  <2> DEFINE attr == piece.attrs[k]
  <2>1. attr \in Name \X Seq(Char) /\ TagRead(a, f, s, st)
    BY <1>0
  <2> HIDE DEF attr
  <2>2. TagRead(a, f, s, AddAttribute(st, Len(a) + 1, attr))
    BY <2>1, AttributeReads
  <2> QED BY <2>2 DEF TagRead, attr
<1>3. /\ F \in [S \X (1 .. N) -> S]
      /\ \A st \in S, k \in 1 .. N : F[<<st, k>>] = AddAttribute(st, Len(a) + 1, piece.attrs[k])
  <2> HIDE DEF S, N
  <2> QED BY <1>2
<1> DEFINE Step(d) == [k \in 0 .. N |-> IF k = 0 THEN b
                         ELSE AddAttribute(d[k - 1], Len(a) + 1, piece.attrs[k])]
           m == CHOOSE d : d = Step(d)
<1>4. PICK g \in [0 .. N -> S] : g[0] = b /\ \A k \in 1 .. N : g[k] = F[<<g[k - 1], k>>]
  <2>1. \E g : Loop(g, N, S, b, F)
    <3> HIDE DEF N, S, F, b
    <3> QED BY <1>0, <1>1, <1>3, Iterates
  <2> QED BY <2>1 DEF Loop
<1> HIDE DEF F, S, b
<1>5. g = Step(g)
  <2>1. ASSUME NEW k \in 0 .. N PROVE g[k] = Step(g)[k]
    <3>1. CASE k = 0
      BY <3>1, <1>4
    <3>2. CASE k # 0
      <4>1. k \in 1 .. N /\ k - 1 \in 0 .. N
        BY <3>2, <1>0
      <4>2. g[k - 1] \in S
        BY <4>1
      <4> QED BY <4>1, <4>2, <3>2, <1>3, <1>4
    <3> QED BY <3>1, <3>2
  <2> QED BY <2>1
<1>6. m = Step(m)
  BY <1>5
<1>7. AddElement(a, f, piece, s) = [m[N] EXCEPT !.f.buf = <<>>]
  BY DEF AddElement, b
<1> HIDE DEF m
<1>8. m[0] = b /\ \A k \in 1 .. N : m[k] = AddAttribute(m[k - 1], Len(a) + 1, piece.attrs[k])
  <2>1. \A k \in 0 .. N : m[k] = IF k = 0 THEN b
                                 ELSE AddAttribute(m[k - 1], Len(a) + 1, piece.attrs[k])
    BY <1>6, Zenon
  <2> QED BY <1>0, <2>1
<1>9. m[N] \in S
  <2>1. \A k \in 1 .. N : m[k - 1] \in S => m[k] = F[<<m[k - 1], k>>]
    BY <1>3, <1>8
  <2>2. b \in S /\ <<b, 0>> \in T /\ m[0] = b
    BY <1>1, <1>8
  <2>3. N \in Nat /\ F \in [S \X (1 .. N) -> S]
    BY <1>0, <1>3
  <2>4. \A k \in 1 .. N, st \in S : <<st, k - 1>> \in T => <<F[<<st, k>>], k>> \in T
    BY <1>3
  <2> HIDE DEF N, T
  <2> QED BY <2>1, <2>2, <2>3, <2>4, LoopValues
<1> DEFINE st == m[N]
           r == [st EXCEPT !.f.buf = <<>>]
<1>10. TagRead(a, f, s, st) /\ st \in TagState
  BY <1>9 DEF S
<1> HIDE DEF st
<1>11. /\ r \in TagState /\ r.ns = st.ns /\ r.said = st.said /\ r.f.buf = <<>>
       /\ SameFrame(st.f, r.f) /\ r.f.cap = st.f.cap
  <2> DEFINE y == [st.f EXCEPT !.buf = <<>>]
  <2>1. <<>> \in Seq(Stored)
    OBVIOUS
  <2>2. y \in FrameRec /\ SameFrame(st.f, y) /\ y.buf = <<>> /\ y.cap = st.f.cap
    BY <1>10, <2>1 DEF TagState, FrameRec, SameFrame
  <2>3. r = [st EXCEPT !.f = y]
    BY <1>10 DEF TagState
  <2> HIDE DEF y
  <2> QED BY <1>10, <2>2, <2>3 DEF TagState
<1> HIDE DEF r
<1>12. SameFrame(f, r.f)
  BY <1>10, <1>11 DEF TagRead, SameFrame
<1>13. BufOK(r.f)
  <2>1. Len(r.f.buf) = 0
    BY <1>11
  <2>2. Capacity <= st.f.cap /\ st.f.cap \in Nat
    <3>1. BufOK(st.f) /\ st.f \in FrameRec
      BY <1>10 DEF TagRead, TagState
    <3> QED BY <3>1 DEF BufOK, FrameRec
  <2> QED BY <2>1, <2>2, <1>11, RegistryAssumption DEF BufOK
<1>14. OldValues(a, s, r) /\ NewValues(a, r)
  BY <1>10, <1>11 DEF TagRead, OldValues, NewValues
<1>15. TagRead(a, f, s, r)
  BY <1>10, <1>11, <1>12, <1>13, <1>14 DEF TagRead
<1>16. AddElement(a, f, piece, s) = r
  BY <1>7 DEF st, r
<1> QED BY <1>11, <1>15, <1>16

-----------------------------------------------------------------------------
(* States.                                                                  *)

Good(ns, u, s, G, h, fs) ==
  /\ Shape(ns, u, s, fs) /\ G \subseteq 1 .. Len(ns)
  /\ Tree(ns, u, G, h, fs) /\ Values(ns, s, fs)

\* A resin:include that is the last child of a node can be replaced.
OpenEnd(ns, G, h, node) == ns[node].last # 0 => IncAhead(ns, G, h, ns[node].last, node)

\* A node without links.
LEMMA NewNodes ==
  ASSUME NEW key \in Name
  PROVE  /\ NewNode(key) \in Node /\ NewNode(key).value = Null /\ NewNode(key).key = key
         /\ NewNode(key).parent = 0 /\ NewNode(key).next = 0 /\ NewNode(key).prev = 0
         /\ NewNode(key).first = 0 /\ NewNode(key).last = 0
<1>1. Null \in Value
  BY DEF Value
<1> QED BY <1>1 DEF NewNode, Node

LEMMA NewFrames ==
  ASSUME NEW root \in Nat, NEW inc \in Nat, NEW context \in Name
  PROVE  LET f == Frame(root, inc, context)
         IN /\ f \in FrameRec /\ BufOK(f) /\ f.root = root /\ f.node = root /\ f.inc = inc
            /\ f.buf = <<>> /\ f.run = <<>> /\ ~f.fresh
<1> DEFINE f == Frame(root, inc, context)
<1>1. <<>> \in Seq(Stored) /\ <<>> \in Seq(Char) /\ Capacity \in Nat /\ Capacity > 0
  BY RegistryAssumption
<1>2. f \in FrameRec
  BY <1>1 DEF Frame, FrameRec
<1>3. /\ f.root = root /\ f.node = root /\ f.inc = inc /\ f.buf = <<>> /\ f.run = <<>>
      /\ ~f.fresh /\ f.cap = Capacity
  BY DEF Frame
<1>4. BufOK(f)
  BY <1>1, <1>3 DEF BufOK
<1> QED BY <1>2, <1>3, <1>4

\* The nodes, with the root of another file.
LEMMA Grows ==
  ASSUME NEW ns \in Seq(Node), NEW u \in Seq(Nat), NEW s \in Seq(Meaning),
         Len(u) = Len(ns), Len(s) = Len(ns)
  PROVE  LET m == Append(ns, NewNode(""))
             v == Append(u, 0)
             t == Append(s, Null)
         IN /\ m \in Seq(Node) /\ v \in Seq(Nat) /\ t \in Seq(Meaning)
            /\ Len(v) = Len(m) /\ Len(t) = Len(m) /\ Grown(ns, m, u, v)
            /\ \A c \in 1 .. Len(ns) : t[c] = s[c]
            /\ m[Len(m)].value = Null /\ t[Len(m)] = Null
<1> DEFINE key == ""
           x == NewNode(key)
<1>0. key \in Name
  BY DEF Name
<1> HIDE DEF key
<1>1. /\ x \in Node /\ x.value = Null /\ x.parent = 0 /\ x.next = 0 /\ x.prev = 0
      /\ x.first = 0 /\ x.last = 0
  BY <1>0, NewNodes
<1>2. Null \in Meaning /\ Len(ns) \in Nat
  BY DEF Meaning
<1> HIDE DEF x
<1> DEFINE m == Append(ns, x)
           v == Append(u, 0)
           t == Append(s, Null)
<1>3. /\ m \in Seq(Node) /\ Len(m) = Len(ns) + 1 /\ m[Len(ns) + 1] = x
      /\ \A c \in 1 .. Len(ns) : m[c] = ns[c]
  BY <1>1, <1>2
<1>4. /\ v \in Seq(Nat) /\ Len(v) = Len(ns) + 1 /\ v[Len(ns) + 1] = 0
      /\ \A c \in 1 .. Len(ns) : v[c] = u[c]
  BY <1>2
<1>5. /\ t \in Seq(Meaning) /\ Len(t) = Len(ns) + 1 /\ t[Len(ns) + 1] = Null
      /\ \A c \in 1 .. Len(ns) : t[c] = s[c]
  BY <1>2
<1> HIDE DEF m, v, t
<1>6. Grown(ns, m, u, v)
  BY <1>1, <1>3, <1>4 DEF Grown
<1> QED BY <1>1, <1>3, <1>4, <1>5, <1>6 DEF m, v, t, x, key

\* Values are what they were, with the root of another file.
LEMMA GrownValues ==
  ASSUME NEW ns \in Seq(Node), NEW m \in Seq(Node), NEW u, NEW v, NEW s \in Seq(Meaning),
         NEW t \in Seq(Meaning), NEW fs \in Seq(FrameRec), Len(s) = Len(ns), Len(t) = Len(m),
         Grown(ns, m, u, v), \A c \in 1 .. Len(ns) : t[c] = s[c],
         m[Len(m)].value = Null, t[Len(m)] = Null,
         \A i \in 1 .. Len(fs) : fs[i].node \in 1 .. Len(ns), Values(ns, s, fs)
  PROVE  Values(m, t, fs)
<1>1. Len(m) = Len(ns) + 1 /\ Len(ns) \in Nat /\ \A c \in 1 .. Len(ns) : m[c] = ns[c]
  BY DEF Grown
<1>2. ASSUME NEW c \in 1 .. Len(m) PROVE ValueOK(m[c].value, t[c])
  <2>1. CASE c = Len(m)
    BY <2>1 DEF ValueOK
  <2>2. CASE c # Len(m)
    <3>1. c \in 1 .. Len(ns)
      BY <2>2, <1>1
    <3> QED BY <3>1, <1>1 DEF Values
  <2> QED BY <2>1, <2>2
<1>3. ASSUME NEW i \in 1 .. Len(fs) PROVE TextOK(m, t, fs[i])
  <2>1. m[fs[i].node] = ns[fs[i].node] /\ t[fs[i].node] = s[fs[i].node]
    BY <1>1
  <2>2. TextOK(ns, s, fs[i])
    BY DEF Values
  <2> QED BY <2>1, <2>2 DEF TextOK
<1> QED BY <1>2, <1>3 DEF Values

\* parse_include goes on with another file.
LEMMA IncludeGood ==
  ASSUME NEW ns, NEW u, NEW s, NEW G, NEW h, NEW fs, NEW context \in Name,
         Good(ns, u, s, G, h, fs), OpenEnd(ns, G, h, fs[Len(fs)].node),
         ns[fs[Len(fs)].node].last # 0
  PROVE  Good(Append(ns, NewNode("")), Append(u, 0), Append(s, Null), G, h,
              Append(fs, Frame(Len(ns) + 1, ns[fs[Len(fs)].node].last, context)))
<1> DEFINE n == Len(fs)
           node == fs[n].node
           inc == ns[node].last
           m == Append(ns, NewNode(""))
           v == Append(u, 0)
           t == Append(s, Null)
           f == Frame(Len(ns) + 1, inc, context)
           gs == Append(fs, f)
<1>1. /\ ns \in Seq(Node) /\ u \in Seq(Nat) /\ s \in Seq(Meaning) /\ fs \in Seq(FrameRec)
      /\ Len(u) = Len(ns) /\ Len(s) = Len(ns) /\ n > 0 /\ n \in Nat /\ Len(ns) \in Nat
      /\ G \subseteq 1 .. Len(ns) /\ Tree(ns, u, G, h, fs) /\ Values(ns, s, fs)
      /\ \A i \in 1 .. n : BufOK(fs[i])
  BY DEF Good, Shape
<1>2. IncAhead(ns, G, h, inc, node)
  BY DEF OpenEnd
<1>3. /\ m \in Seq(Node) /\ v \in Seq(Nat) /\ t \in Seq(Meaning)
      /\ Len(v) = Len(m) /\ Len(t) = Len(m) /\ Grown(ns, m, u, v)
      /\ \A c \in 1 .. Len(ns) : t[c] = s[c]
      /\ m[Len(m)].value = Null /\ t[Len(m)] = Null
  BY <1>1, Grows
<1> HIDE DEF m, v, t
<1>4. inc \in Nat /\ Len(m) = Len(ns) + 1
  BY <1>2, <1>3 DEF IncAhead, Grown
<1> HIDE DEF inc
<1>5. /\ f \in FrameRec /\ BufOK(f) /\ f.root = Len(m) /\ f.node = Len(m) /\ f.inc = inc
      /\ f.buf = <<>> /\ f.run = <<>> /\ ~f.fresh
  <2> DEFINE root == Len(ns) + 1
  <2>1. root \in Nat
    BY <1>1
  <2> HIDE DEF root
  <2>2. LET g == Frame(root, inc, context)
        IN /\ g \in FrameRec /\ BufOK(g) /\ g.root = root /\ g.node = root /\ g.inc = inc
           /\ g.buf = <<>> /\ g.run = <<>> /\ ~g.fresh
    BY <2>1, <1>4, NewFrames
  <2> QED BY <2>2, <1>4 DEF root
<1> HIDE DEF f
<1>6. /\ gs \in Seq(FrameRec) /\ Len(gs) = n + 1 /\ gs[n + 1] = f
      /\ \A i \in 1 .. n : gs[i] = fs[i]
  BY <1>1, <1>5
<1> HIDE DEF gs
<1>7. Tree(m, v, G, h, gs)
  <2>1. GoesOn(fs, node)
    BY DEF GoesOn
  <2>2. gs[Len(gs)].root = Len(m) /\ gs[Len(gs)].node = Len(m) /\ gs[Len(gs)].inc = inc
    BY <1>5, <1>6
  <2>3. Len(gs) = Len(fs) + 1 /\ \A i \in 1 .. Len(fs) : gs[i] = fs[i]
    BY <1>6
  <2>4. Len(ns) \in Nat /\ Len(fs) \in Nat /\ IncAhead(ns, G, h, inc, node)
    BY <1>1, <1>2
  <2>5. G \subseteq 1 .. Len(ns) /\ Tree(ns, u, G, h, fs) /\ Grown(ns, m, u, v)
    BY <1>1, <1>3
  <2> HIDE DEF node, n
  <2> QED BY <2>1, <2>2, <2>3, <2>4, <2>5, IncludeTree
<1>8. \A i \in 1 .. n : fs[i].node \in 1 .. Len(ns)
  <2>1. FilesOK(ns, G, h, fs)
    BY <1>1 DEF Tree
  <2>2. ASSUME NEW i \in 1 .. n PROVE fs[i].node \in 1 .. Len(ns)
    <3>1. PartOK(ns, G, fs[i])
      BY <2>1 DEF FilesOK
    <3> QED BY <3>1, <1>1 DEF PartOK
  <2> QED BY <2>2
<1>9. Values(m, t, fs)
  BY <1>1, <1>3, <1>8, GrownValues
<1>10. Values(m, t, gs)
  <2>1. TextOK(m, t, f)
    BY <1>5 DEF TextOK, IsSpace
  <2>2. \A i \in 1 .. Len(gs) : TextOK(m, t, gs[i])
    <3>1. \A i \in 1 .. n : TextOK(m, t, fs[i])
      BY <1>9 DEF Values
    <3>2. ASSUME NEW i \in 1 .. n + 1 PROVE TextOK(m, t, gs[i])
      <4>1. i = n + 1 \/ i \in 1 .. n
        BY <1>1
      <4> HIDE DEF n
      <4> QED BY <4>1, <3>1, <2>1, <1>6
    <3> QED BY <3>2, <1>6
  <2> QED BY <2>2, <1>9 DEF Values
<1>11. Shape(m, v, t, gs)
  <2>1. \A i \in 1 .. Len(gs) : BufOK(gs[i])
    <3>2. ASSUME NEW i \in 1 .. n + 1 PROVE BufOK(gs[i])
      <4>1. i = n + 1 \/ i \in 1 .. n
        BY <1>1
      <4> HIDE DEF n
      <4> QED BY <4>1, <1>1, <1>5, <1>6
    <3> QED BY <3>2, <1>6
  <2> QED BY <2>1, <1>1, <1>3, <1>6 DEF Shape
<1>12. G \subseteq 1 .. Len(m)
  BY <1>1, <1>4
<1>13. Good(m, v, t, G, h, gs)
  BY <1>7, <1>10, <1>11, <1>12 DEF Good
<1> QED BY <1>13 DEF m, v, t, gs, f, inc

\* Text becomes the value of an element.
Taken(ns, f) == ~f.spaceOnly /\ ns[f.node].value = Null /\ ns[f.node].first = 0

SettledIs(ns, m, f) ==
  /\ m \in Seq(Node) /\ SameLinks(ns, m)
  /\ \A c \in 1 .. Len(ns) :
       /\ m[c].key = ns[c].key
       /\ m[c].value = IF c = f.node /\ Taken(ns, f) THEN f.buf ELSE ns[c].value

LEMMA Settles ==
  ASSUME NEW ns \in Seq(Node), NEW f \in FrameRec, f.node \in 1 .. Len(ns)
  PROVE  SettledIs(ns, Settled(ns, f), f)
<1>1. CASE Taken(ns, f)
  <2> DEFINE c == f.node
             b == f.buf
             m == [ns EXCEPT ![c].value = b]
  <2>1. c \in 1 .. Len(ns) /\ b \in Value
    BY DEF FrameRec, Value
  <2>2. Settled(ns, f) = m
    BY <1>1 DEF Taken, Settled
  <2> HIDE DEF c, b
  <2>3. FieldSet(ns, [ns EXCEPT ![c]["value"] = b], c, "value", b)
    BY <2>1, FieldSets
  <2> HIDE DEF m
  <2>4. FieldSet(ns, m, c, "value", b)
    BY <2>3 DEF m
  <2>5. SettledIs(ns, m, f)
    BY <2>4, <1>1 DEF FieldSet, Fields, SettledIs, SameLinks, b, c
  <2> QED BY <2>2, <2>5
<1>2. CASE ~Taken(ns, f)
  <2>1. Settled(ns, f) = ns
    BY <1>2 DEF Taken, Settled
  <2> QED BY <2>1, <1>2 DEF SettledIs, SameLinks
<1> QED BY <1>1, <1>2

\* What is said in the elements, when the text of f is over.
Spaces(f) == IsSpace(f.run) /\ Fits(f.run)
SaysIs(s, t, ns, f) ==
  /\ t \in Seq(Meaning) /\ Len(t) = Len(s)
  /\ \A c \in 1 .. Len(s) :
       t[c] = IF c # f.node \/ Spaces(f) THEN s[c]
              ELSE IF f.fresh /\ s[c] = Null /\ ns[c].first = 0 THEN f.run ELSE Unclear

LEMMA SaysWhat ==
  ASSUME said \in Seq(Meaning), NEW f \in FrameRec, f.node \in 1 .. Len(said)
  PROVE  SaysIs(said, Says(f), nodes, f)
<1> DEFINE c == f.node
           x == IF f.fresh /\ said[c] = Null /\ nodes[c].first = 0 THEN f.run ELSE Unclear
           t == [said EXCEPT ![c] = x]
<1>1. f.run \in Seq(Char) /\ x \in Meaning
  BY DEF FrameRec, Meaning
<1>2. CASE Spaces(f)
  <2>1. Says(f) = said
    BY <1>2 DEF Says, Spaces, Fits
  <2> QED BY <2>1, <1>2 DEF SaysIs
<1>3. CASE ~Spaces(f)
  <2>1. Says(f) = t
    BY <1>3 DEF Says, Spaces, Fits
  <2> DEFINE y == x
  <2>2. y \in Meaning
    BY <1>1
  <2> HIDE DEF y
  <2>3. /\ [said EXCEPT ![c] = y] \in Seq(Meaning) /\ Len([said EXCEPT ![c] = y]) = Len(said)
        /\ \A d \in 1 .. Len(said) : [said EXCEPT ![c] = y][d] = IF d = c THEN y ELSE said[d]
    BY <2>2
  <2>4. t = [said EXCEPT ![c] = y]
    BY DEF y
  <2> HIDE DEF t
  <2>5. t \in Seq(Meaning) /\ Len(t) = Len(said)
        /\ \A d \in 1 .. Len(said) : t[d] = IF d = c THEN x ELSE said[d]
    BY <2>3, <2>4 DEF y
  <2>6. SaysIs(said, t, nodes, f)
    BY <2>5, <1>3 DEF SaysIs
  <2> QED BY <2>1, <2>6
<1> QED BY <1>2, <1>3

\* Text that is over is the value of its element, or says nothing.
LEMMA SettledValue ==
  ASSUME NEW f \in FrameRec, NEW value \in Value, NEW s \in Meaning, NEW first,
         ValueOK(value, s), f.fresh /\ s = Null => value = Null,
         first = 0 /\ value = Null => f.buf = f.run \/ ~Fits(f.run),
         f.spaceOnly => IsSpace(f.run)
  PROVE  ValueOK(IF ~f.spaceOnly /\ value = Null /\ first = 0 THEN f.buf ELSE value,
                 IF Spaces(f) THEN s
                 ELSE IF f.fresh /\ s = Null /\ first = 0 THEN f.run ELSE Unclear)
<1>1. f.run \in Seq(Char) /\ f.buf \in Seq(Stored)
  BY DEF FrameRec
<1>2. f.run # Null /\ f.run # Unclear /\ f.buf # Null
  BY <1>1, NotMarks
<1>3. CASE Spaces(f)
  <2>1. CASE ~f.spaceOnly /\ value = Null /\ first = 0
    <3>1. f.buf = f.run /\ IsSpace(f.buf)
      BY <2>1, <1>3 DEF Spaces
    <3>2. s \notin {Null, Unclear} => ~Fits(s)
      BY <2>1 DEF ValueOK
    <3> QED BY <3>1, <3>2, <2>1, <1>3 DEF ValueOK
  <2>2. CASE ~(~f.spaceOnly /\ value = Null /\ first = 0)
    BY <2>2, <1>3
  <2> QED BY <2>1, <2>2
<1>4. CASE ~Spaces(f) /\ f.fresh /\ s = Null /\ first = 0
  <2>1. value = Null
    BY <1>4
  <2>2. Fits(f.run) => ~f.spaceOnly /\ f.buf = f.run
    BY <1>4, <2>1 DEF Spaces
  <2> QED BY <2>1, <2>2, <1>2, <1>4 DEF ValueOK
<1>5. CASE ~Spaces(f) /\ ~(f.fresh /\ s = Null /\ first = 0)
  <2>1. Unclear # Null
    BY DEF Unclear, Null
  <2> QED BY <2>1, <1>5 DEF ValueOK
<1> QED BY <1>3, <1>4, <1>5

LEMMA FrameNodes ==
  ASSUME NEW ns, NEW u, NEW s, NEW G, NEW h, NEW fs, Good(ns, u, s, G, h, fs)
  PROVE  /\ fs \in Seq(FrameRec) /\ Len(fs) \in Nat /\ Len(fs) > 0 /\ Len(ns) \in Nat
         /\ Last(fs) = fs[Len(fs)] /\ Last(fs) \in FrameRec
         /\ \A i \in 1 .. Len(fs) : fs[i].node \in 1 .. Len(ns)
         /\ \A i \in 1 .. Len(fs) - 1 : fs[i].node < fs[Len(fs)].root
         /\ fs[Len(fs)].root <= fs[Len(fs)].node /\ fs[Len(fs)].root \in Nat \ {0}
<1>1. /\ fs \in Seq(FrameRec) /\ Len(fs) \in Nat /\ Len(fs) > 0 /\ Len(ns) \in Nat
      /\ FilesOK(ns, G, h, fs)
  BY DEF Good, Shape, Tree
<1>2. Last(fs) = fs[Len(fs)] /\ Last(fs) \in FrameRec
  <2>1. Last(fs) = fs[Len(fs)]
    BY DEF Last
  <2> QED BY <2>1, <1>1
<1>3. /\ \A i \in 1 .. Len(fs) :
           /\ fs[i].root \in Nat /\ fs[i].node \in Nat
           /\ 1 <= fs[i].root /\ fs[i].root <= fs[i].node
           /\ fs[i].node <= Len(ns) /\ fs[i].node <= fs[Len(fs)].node
           /\ i # Len(fs) => fs[i].node < fs[Len(fs)].root /\ fs[i].node < fs[Len(fs)].inc
  BY <1>1, FileOrder
<1> QED BY <1>1, <1>2, <1>3

\* The text before a piece.
LEMMA SettledGood ==
  ASSUME Good(nodes, up, said, gone, headInclude, frames)
  PROVE  LET a == Settled(nodes, Top)
             t == Says(Top)
         IN /\ a \in Seq(Node) /\ SameLinks(nodes, a)
            /\ t \in Seq(Meaning) /\ Len(t) = Len(a)
            /\ Tree(a, up, gone, headInclude, frames)
            /\ \A n \in 1 .. Len(a) : a[n].key = nodes[n].key /\ ValueOK(a[n].value, t[n])
            /\ \A i \in 1 .. Len(frames) - 1 : TextOK(a, t, frames[i])
            /\ SettledIs(nodes, a, Top) /\ SaysIs(said, t, nodes, Top)
<1> DEFINE a == Settled(nodes, Top)
           t == Says(Top)
           f == Top
<1>1. /\ nodes \in Seq(Node) /\ said \in Seq(Meaning) /\ Len(said) = Len(nodes)
      /\ Tree(nodes, up, gone, headInclude, frames) /\ Values(nodes, said, frames)
  BY DEF Good, Shape
<1>2. /\ frames \in Seq(FrameRec) /\ Len(frames) \in Nat /\ Len(frames) > 0 /\ Len(nodes) \in Nat
      /\ f = frames[Len(frames)] /\ f \in FrameRec
      /\ \A i \in 1 .. Len(frames) : frames[i].node \in 1 .. Len(nodes)
      /\ \A i \in 1 .. Len(frames) - 1 : frames[i].node < f.root
      /\ f.root <= f.node /\ f.root \in Nat \ {0}
  <2> HIDE DEF a, t, f
  <2>1. /\ frames \in Seq(FrameRec) /\ Len(frames) \in Nat /\ Len(frames) > 0
        /\ Len(nodes) \in Nat
        /\ Last(frames) = frames[Len(frames)] /\ Last(frames) \in FrameRec
        /\ \A i \in 1 .. Len(frames) : frames[i].node \in 1 .. Len(nodes)
        /\ \A i \in 1 .. Len(frames) - 1 : frames[i].node < frames[Len(frames)].root
        /\ frames[Len(frames)].root <= frames[Len(frames)].node
        /\ frames[Len(frames)].root \in Nat \ {0}
    BY FrameNodes
  <2>2. f = Last(frames)
    BY DEF f, Top
  <2> QED BY <2>1, <2>2
<1>3. f.node \in 1 .. Len(nodes) /\ Len(frames) \in 1 .. Len(frames)
  BY <1>2
<1> HIDE DEF f
<1>4. SettledIs(nodes, Settled(nodes, f), f) /\ SaysIs(said, Says(f), nodes, f)
  BY <1>1, <1>2, <1>3, Settles, SaysWhat
<1>5. SettledIs(nodes, a, f) /\ SaysIs(said, t, nodes, f)
  BY <1>4 DEF f
<1> HIDE DEF a, t
<1>6. a \in Seq(Node) /\ SameLinks(nodes, a) /\ Len(a) = Len(nodes)
      /\ t \in Seq(Meaning) /\ Len(t) = Len(a)
  BY <1>5, <1>1 DEF SettledIs, SaysIs, SameLinks
<1>7. Tree(a, up, gone, headInclude, frames)
  BY <1>1, <1>2, <1>6, LinksTree
<1>8. ASSUME NEW n \in 1 .. Len(a)
      PROVE  a[n].key = nodes[n].key /\ ValueOK(a[n].value, t[n])
  <2>0. n \in 1 .. Len(nodes) /\ a[n].key = nodes[n].key /\ ValueOK(nodes[n].value, said[n])
    BY <1>1, <1>5, <1>6 DEF SettledIs, Values
  <2>1. CASE n = f.node
    <3>1. a[n].value = IF ~f.spaceOnly /\ nodes[n].value = Null /\ nodes[n].first = 0
                       THEN f.buf ELSE nodes[n].value
      BY <2>0, <2>1, <1>5 DEF SettledIs, Taken
    <3>2. t[n] = IF Spaces(f) THEN said[n]
                 ELSE IF f.fresh /\ said[n] = Null /\ nodes[n].first = 0 THEN f.run ELSE Unclear
      BY <2>0, <2>1, <1>1, <1>5 DEF SaysIs
    <3>3. TextOK(nodes, said, f)
      BY <1>1, <1>2, <1>3 DEF Values
    <3>4. nodes[n].value \in Value /\ said[n] \in Meaning
      <4>1. nodes[n] \in Node /\ said[n] \in Meaning
        BY <2>0, <1>1
      <4> QED BY <4>1 DEF Node
    <3> DEFINE value == nodes[n].value
               s == said[n]
               first == nodes[n].first
    <3>5. /\ value \in Value /\ s \in Meaning /\ ValueOK(value, s)
          /\ f.fresh /\ s = Null => value = Null
          /\ first = 0 /\ value = Null => f.buf = f.run \/ ~Fits(f.run)
          /\ f.spaceOnly => IsSpace(f.run)
      BY <3>3, <3>4, <2>0, <2>1 DEF TextOK
    <3> HIDE DEF value, s, first
    <3>6. ValueOK(IF ~f.spaceOnly /\ value = Null /\ first = 0 THEN f.buf ELSE value,
                  IF Spaces(f) THEN s
                  ELSE IF f.fresh /\ s = Null /\ first = 0 THEN f.run ELSE Unclear)
      BY <3>5, <1>2, SettledValue, ZenonT(60)
    <3> QED BY <3>1, <3>2, <3>6, <2>0 DEF value, s, first
  <2>2. CASE n # f.node
    <3>1. a[n].value = nodes[n].value /\ t[n] = said[n]
      BY <2>0, <2>2, <1>1, <1>5 DEF SettledIs, SaysIs
    <3> QED BY <3>1, <2>0
  <2> QED BY <2>1, <2>2
<1>9. ASSUME NEW i \in 1 .. Len(frames) - 1 PROVE TextOK(a, t, frames[i])
  <2>1. i \in 1 .. Len(frames) /\ frames[i].node \in 1 .. Len(nodes) /\ frames[i].node # f.node
    <3>1. frames[i].node < f.root /\ f.root <= f.node /\ i \in 1 .. Len(frames)
      BY <1>2
    <3>2. frames[i].node \in 1 .. Len(nodes)
      BY <3>1, <1>2
    <3> QED BY <3>1, <3>2, <1>2, <1>3
  <2> DEFINE c == frames[i].node
  <2>2. a[c].value = nodes[c].value /\ t[c] = said[c] /\ a[c].first = nodes[c].first
    BY <2>1, <1>1, <1>5, <1>6 DEF SettledIs, SaysIs, SameLinks
  <2>3. TextOK(nodes, said, frames[i])
    BY <2>1, <1>1 DEF Values
  <2> QED BY <2>2, <2>3 DEF TextOK
<1>10. SettledIs(nodes, a, Top) /\ SaysIs(said, t, nodes, Top)
  BY <1>5 DEF f
<1> QED BY <1>6, <1>7, <1>8, <1>9, <1>10 DEF a, t

LEMMA NoSpace == IsSpace(<<>>)
<1> DEFINE s == <<>>
<1>1. ASSUME NEW i \in 1 .. Len(s) PROVE FALSE
  OBVIOUS
<1> HIDE DEF s
<1>2. IsSpace(s)
  BY <1>1, Zenon DEF IsSpace
<1> QED BY <1>2 DEF s

LEMMA SpaceSpace ==
  ASSUME NEW s \in Seq(Char), NEW t \in Seq(Char), IsSpace(s), IsSpace(t)
  PROVE  IsSpace(s \o t)
<1>1. ASSUME NEW x, \A i \in 1 .. Len(s) : s[i] = x, \A i \in 1 .. Len(t) : t[i] = x
      PROVE  \A i \in 1 .. Len(s \o t) : (s \o t)[i] = x
  <2>1. \A i \in 1 .. Len(s) + Len(t) :
          (s \o t)[i] = IF i <= Len(s) THEN s[i] ELSE t[i - Len(s)]
    BY ConcatProperties
  <2>2. Len(s \o t) = Len(s) + Len(t) /\ Len(s) \in Nat /\ Len(t) \in Nat
    BY ConcatProperties
  <2>3. ASSUME NEW i \in 1 .. Len(s) + Len(t) PROVE (s \o t)[i] = x
    <3>1. CASE i <= Len(s)
      BY <3>1, <2>1, <2>2, <1>1
    <3>2. CASE ~(i <= Len(s))
      <4>1. i - Len(s) \in 1 .. Len(t)
        BY <3>2, <2>2
      <4>2. (s \o t)[i] = t[i - Len(s)]
        BY <3>2, <2>1
      <4> QED BY <4>1, <4>2, <1>1
    <3> QED BY <3>1, <3>2
  <2> QED BY <2>2, <2>3
<1> QED BY <1>1, Zenon DEF IsSpace

\* A step of the innermost file.
LEMMA TopSet ==
  ASSUME NEW fs \in Seq(FrameRec), Len(fs) > 0, NEW g \in FrameRec, NEW f, f = fs[Len(fs)],
         g.root = f.root, g.inc = f.inc, BufOK(g), \A i \in 1 .. Len(fs) : BufOK(fs[i])
  PROVE  LET gs == [fs EXCEPT ![Len(fs)] = g]
         IN /\ gs \in Seq(FrameRec) /\ Len(gs) = Len(fs) /\ gs[Len(fs)] = g
            /\ \A i \in 1 .. Len(fs) - 1 : gs[i] = fs[i]
            /\ Moved(fs, gs, g.node) /\ \A i \in 1 .. Len(gs) : BufOK(gs[i])
<1> DEFINE gs == [fs EXCEPT ![Len(fs)] = g]
<1>1. Len(fs) \in Nat /\ Len(fs) \in 1 .. Len(fs)
  OBVIOUS
<1>2. /\ gs \in Seq(FrameRec) /\ Len(gs) = Len(fs)
      /\ \A i \in 1 .. Len(fs) : gs[i] = IF i = Len(fs) THEN g ELSE fs[i]
  BY <1>1
<1> HIDE DEF gs
<1>3. Moved(fs, gs, g.node) /\ \A i \in 1 .. Len(gs) : BufOK(gs[i])
  BY <1>1, <1>2 DEF Moved
<1>4. gs[Len(fs)] = g /\ \A i \in 1 .. Len(fs) - 1 : gs[i] = fs[i]
  BY <1>1, <1>2
<1>5. gs \in Seq(FrameRec) /\ Len(gs) = Len(fs)
  BY <1>2
<1> QED BY <1>3, <1>4, <1>5 DEF gs

LEMMA GoodTop ==
  ASSUME NEW ns \in Seq(Node), NEW u \in Seq(Nat), NEW s \in Seq(Meaning), NEW G, NEW h,
         NEW gs \in Seq(FrameRec), Len(gs) > 0, \A i \in 1 .. Len(gs) : BufOK(gs[i]),
         Len(u) = Len(ns), Len(s) = Len(ns), G \subseteq 1 .. Len(ns), Tree(ns, u, G, h, gs),
         \A n \in 1 .. Len(ns) : ValueOK(ns[n].value, s[n]),
         \A i \in 1 .. Len(gs) - 1 : TextOK(ns, s, gs[i]), TextOK(ns, s, gs[Len(gs)])
  PROVE  Good(ns, u, s, G, h, gs)
<1>1. ASSUME NEW i \in 1 .. Len(gs) PROVE TextOK(ns, s, gs[i])
  <2>1. Len(gs) \in Nat
    OBVIOUS
  <2>2. i = Len(gs) \/ i \in 1 .. Len(gs) - 1
    BY <2>1
  <2> QED BY <2>2
<1> QED BY <1>1 DEF Good, Shape, Values

\* An element and its attributes are added to what the innermost file has read.
LEMMA TagGood ==
  ASSUME NEW ns \in Seq(Node), NEW u \in Seq(Nat), NEW s \in Seq(Meaning), NEW G, NEW h,
         NEW fs \in Seq(FrameRec), NEW f, f = fs[Len(fs)], Len(fs) > 0,
         Len(u) = Len(ns), Len(s) = Len(ns), G \subseteq 1 .. Len(ns),
         Tree(ns, u, G, h, fs), f.node \in 1 .. Len(ns),
         \A i \in 1 .. Len(fs) : BufOK(fs[i]),
         \A i \in 1 .. Len(fs) - 1 : fs[i].node \in 1 .. Len(ns) /\ fs[i].node # f.node,
         \A n \in 1 .. Len(ns) : ValueOK(ns[n].value, s[n]),
         \A i \in 1 .. Len(fs) - 1 : TextOK(ns, s, fs[i]),
         NEW st, TagRead(ns, f, s, st), NEW v \in Seq(Nat), Len(v) = Len(st.ns),
         Labelled(u, v, ns, st.ns, Home1(u, f)),
         NEW g \in FrameRec, BufOK(g), g.root = f.root, g.inc = f.inc, g.spaceOnly \in BOOLEAN,
         g.node = f.node \/ g.node = Len(ns) + 1, g.fresh => g.node = Len(ns) + 1,
         g.buf = <<>>, g.run = <<>>
  PROVE  /\ Good(st.ns, v, st.said, G, h, [fs EXCEPT ![Len(fs)] = g])
         /\ OpenEnd(st.ns, G, h, g.node)
<1> DEFINE gs == [fs EXCEPT ![Len(fs)] = g]
           m == st.ns
           t == st.said
           e == Len(ns) + 1
<1>1. Len(ns) \in Nat /\ Len(fs) \in Nat /\ Len(fs) \in 1 .. Len(fs)
  OBVIOUS
<1>2. /\ m \in Seq(Node) /\ t \in Seq(Meaning) /\ Tagged(ns, m, f.node) /\ Len(t) = Len(m)
      /\ OldValues(ns, s, st) /\ NewValues(ns, st)
  BY DEF TagRead, TagState
<1>3. /\ gs \in Seq(FrameRec) /\ Len(gs) = Len(fs) /\ gs[Len(fs)] = g
      /\ \A i \in 1 .. Len(fs) - 1 : gs[i] = fs[i]
      /\ Moved(fs, gs, g.node) /\ \A i \in 1 .. Len(gs) : BufOK(gs[i])
  BY TopSet
<1> HIDE DEF gs
<1>4. e \in 1 .. Len(m) /\ Len(m) \in Nat /\ e > Len(ns)
  BY <1>1, <1>2 DEF Tagged
<1>5. Tree(m, v, G, h, gs) /\ OpenEnd(m, G, h, g.node)
  <2> DEFINE node == f.node
  <2>1. GoesOn(fs, node) /\ Tagged(ns, m, node) /\ Labelled(u, v, ns, m, Home1(u, fs[Len(fs)]))
        /\ node \in 1 .. Len(ns)
    BY <1>2 DEF GoesOn
  <2> HIDE DEF m, node
  <2>2. CASE g.node = e
    <3>1. Moved(fs, gs, Len(ns) + 1)
      BY <1>3, <2>2
    <3>2. /\ Tree(m, v, G, h, gs)
          /\ m[Len(ns) + 1].last # 0 => IncAhead(m, G, h, m[Len(ns) + 1].last, Len(ns) + 1)
      <4> HIDE DEF e
      <4> QED BY <1>1, <2>1, <3>1, TagInTree
    <3> QED BY <3>2, <2>2 DEF OpenEnd
  <2>3. CASE g.node = node
    <3>1. Tree(m, v, G, h, fs) /\ IncAhead(m, G, h, Len(ns) + 1, node)
      <4> HIDE DEF e
      <4> QED BY <1>1, <2>1, TagTree
    <3>2. m[node].last = Len(ns) + 1
      BY <2>1 DEF Tagged
    <3>3. Moved(fs, gs, fs[Len(fs)].node)
      BY <1>3, <2>3 DEF node
    <3>4. Tree(m, v, G, h, gs)
      BY <1>1, <1>4, <3>1, <3>3, StayTree
    <3> QED BY <3>1, <3>2, <3>4, <2>3 DEF OpenEnd
  <2> QED BY <2>2, <2>3 DEF node
<1>6. ASSUME NEW n \in 1 .. Len(m) PROVE ValueOK(m[n].value, t[n])
  <2>1. CASE n \in 1 .. Len(ns)
    BY <2>1, <1>2 DEF OldValues
  <2>2. CASE n \notin 1 .. Len(ns)
    <3>1. n \in Len(ns) + 1 .. Len(m)
      BY <2>2, <1>1, <1>4
    <3> QED BY <3>1, <1>2 DEF NewValues
  <2> QED BY <2>1, <2>2
<1>7. ASSUME NEW i \in 1 .. Len(gs) - 1 PROVE TextOK(m, t, gs[i])
  <2> DEFINE c == fs[i].node
  <2>1. c \in 1 .. Len(ns) /\ c # f.node /\ gs[i] = fs[i] /\ TextOK(ns, s, fs[i])
    BY <1>3
  <2>2. m[c].first = ns[c].first
    BY <2>1, <1>2 DEF Tagged
  <2>3. m[c].value = ns[c].value /\ t[c] = s[c]
    BY <2>1, <1>2 DEF OldValues
  <2> HIDE DEF m, t
  <2> QED BY <2>1, <2>2, <2>3 DEF TextOK
<1>8. TextOK(m, t, g)
  <2>1. t[e] = Null => m[e].value = Null
    BY <1>2 DEF NewValues
  <2> HIDE DEF m, t
  <2> QED BY <2>1, NoSpace DEF TextOK
<1>9. G \subseteq 1 .. Len(m)
  BY <1>1, <1>4
<1>10. TextOK(m, t, gs[Len(gs)]) /\ Len(gs) > 0
  BY <1>3, <1>8
<1> HIDE DEF m, t
<1>11. Len(v) = Len(m) /\ Len(t) = Len(m)
  BY <1>2 DEF m
<1>12. Good(m, v, t, G, h, gs)
  BY <1>2, <1>3, <1>5, <1>6, <1>7, <1>9, <1>10, <1>11, GoodTop
<1> QED BY <1>5, <1>12 DEF m, t, gs

-----------------------------------------------------------------------------
(* The steps of the parser.                                                 *)

GoodNow == Good(nodes, up, said, gone, headInclude, frames)

Inv == Types /\ TreeInv /\ ValueInv

LEMMA InvParts ==
  Inv <=> /\ GoodNow
          /\ family \in DOMAIN Families /\ error \in BOOLEAN /\ headInclude \in BOOLEAN
          /\ phase \in {"parse", "parsed", "refused", "crashed", "init"}
          /\ phase \in {"parsed", "refused", "init"} => Len(frames) = 1
  BY DEF Inv, GoodNow, Types, TreeInv, ValueInv, Good

LEMMA InvNext ==
  ASSUME GoodNow', family' \in DOMAIN Families, error' \in BOOLEAN, headInclude' \in BOOLEAN,
         phase' \in {"parse", "parsed", "refused", "crashed", "init"},
         phase' \in {"parsed", "refused", "init"} => Len(frames') = 1
  PROVE  Inv'
  BY DEF Inv, GoodNow, Types, TreeInv, ValueInv, Good

\* What a grammar allows.
LEMMA PieceKinds ==
  ASSUME family \in DOMAIN Families, NEW piece \in Ahead
  PROVE  /\ phase = "parse"
         /\ piece.t \in {"tag", "empty"} =>
              piece.key \in Name /\ piece.attrs \in Seq(Name \X Seq(Char))
         /\ piece.t = "text" => piece.chars \in Seq(Char)
<1>1. phase = "parse" /\ piece \in Piece
  BY RegistryAssumption DEF Ahead, Grammar
<1>2. STRING \subseteq Name
  BY DEF Name
<1>3. ASSUME NEW attrs \in Seq(STRING \X Seq(Char)) PROVE attrs \in Seq(Name \X Seq(Char))
  <2>1. attrs \in [1 .. Len(attrs) -> STRING \X Seq(Char)] /\ Len(attrs) \in Nat
    OBVIOUS
  <2>2. STRING \X Seq(Char) \subseteq Name \X Seq(Char)
    BY <1>2
  <2> QED BY <2>1, <2>2
<1>4. CASE piece \in [t : {"tag", "empty"}, key : STRING, attrs : Seq(STRING \X Seq(Char))]
  <2>1. piece.t # "text" /\ piece.key \in STRING /\ piece.attrs \in Seq(STRING \X Seq(Char))
    BY <1>4
  <2> QED BY <2>1, <1>1, <1>2, <1>3
<1>5. CASE piece \in [t : {"text"}, chars : Seq(Char)]
  <2>1. piece.t = "text" /\ piece.chars \in Seq(Char)
    BY <1>5
  <2> QED BY <2>1, <1>1
<1>6. CASE piece \in [t : {"end", "comment", "unclosed", "malformed"}]
  <2>1. piece.t \in {"end", "comment", "unclosed", "malformed"}
    BY <1>6
  <2> QED BY <2>1, <1>1
<1> QED BY <1>1, <1>4, <1>5, <1>6 DEF Piece

\* parse_include, or nothing, after a tag.
LEMMA AfterTagGood ==
  ASSUME NEW f, NEW ns, NEW u, NEW s, AfterTag(f, ns, u, s),
         frames \in Seq(FrameRec), Len(frames) > 0,
         Good(ns, u, s, gone, headInclude, [frames EXCEPT ![Len(frames)] = f]),
         OpenEnd(ns, gone, headInclude, f.node), UNCHANGED <<gone, headInclude>>
  PROVE  GoodNow'
<1> DEFINE fs == [frames EXCEPT ![Len(frames)] = f]
<1>1. Len(fs) = Len(frames) /\ fs[Len(fs)] = f
  OBVIOUS
<1> HIDE DEF fs
<1>2. CASE nodes' = ns /\ up' = u /\ said' = s /\ frames' = fs
  BY <1>2 DEF GoodNow, fs
<1>3. CASE /\ Wants(ns, f.node)
           /\ nodes' = Append(ns, NewNode("")) /\ up' = Append(u, 0) /\ said' = Append(s, Null)
           /\ frames' = Append(fs, Frame(Len(ns) + 1, ns[f.node].last, Context(ns, f)))
  <2>1. Good(ns, u, s, gone, headInclude, fs)
    BY DEF fs
  <2>2. f \in FrameRec /\ f.node \in 1 .. Len(ns) /\ ns \in Seq(Node)
    <3>1. /\ fs \in Seq(FrameRec) /\ Len(fs) \in Nat /\ Len(fs) > 0
          /\ \A i \in 1 .. Len(fs) : fs[i].node \in 1 .. Len(ns)
      BY <2>1, FrameNodes
    <3> QED BY <3>1, <2>1, <1>1 DEF Good, Shape
  <2>3. Context(ns, f) \in Name
    <3>1. ns[f.node] \in Node /\ f \in FrameRec
      BY <2>2
    <3> QED BY <3>1 DEF Context, Node, FrameRec
  <2>4. ns[f.node].last # 0
    BY <1>3 DEF Wants
  <2> DEFINE context == Context(ns, f)
  <2>5. /\ context \in Name /\ OpenEnd(ns, gone, headInclude, fs[Len(fs)].node)
        /\ ns[fs[Len(fs)].node].last # 0
    BY <2>3, <2>4, <1>1
  <2> HIDE DEF context
  <2>6. Good(Append(ns, NewNode("")), Append(u, 0), Append(s, Null), gone, headInclude,
             Append(fs, Frame(Len(ns) + 1, ns[fs[Len(fs)].node].last, context)))
    BY <2>1, <2>5, IncludeGood
  <2> QED BY <2>6, <1>1, <1>3 DEF GoodNow, context
<1> QED BY <1>2, <1>3 DEF AfterTag, fs

LEMMA InvReadTag ==
  ASSUME Inv, NEW piece, ReadTag(piece)
  PROVE  Inv'
<1> DEFINE a == Settled(nodes, Top)
           t == Says(Top)
           f == Top
           n == Len(frames)
           elem == Len(nodes) + 1
           st == AddElement(a, f, piece, t)
           g == [st.f EXCEPT !.node = IF piece.t = "tag" THEN elem ELSE @,
                             !.run = <<>>, !.fresh = piece.t = "tag"]
           v == [c \in 1 .. Len(st.ns) |-> IF c < elem THEN up[c]
                                          ELSE IF c = elem THEN Home(f) ELSE elem]
<1>1. /\ GoodNow /\ family \in DOMAIN Families /\ error \in BOOLEAN /\ headInclude \in BOOLEAN
  BY InvParts
<1>2. /\ piece \in Ahead /\ piece.t \in {"tag", "empty"} /\ AfterTag(g, st.ns, v, st.said)
      /\ UNCHANGED <<family, phase, error, gone, headInclude>>
  BY DEF ReadTag, Reads
<1>3. phase = "parse" /\ piece.key \in Name /\ piece.attrs \in Seq(Name \X Seq(Char))
  BY <1>1, <1>2, PieceKinds
<1>4. /\ a \in Seq(Node) /\ SameLinks(nodes, a)
      /\ t \in Seq(Meaning) /\ Len(t) = Len(a)
      /\ Tree(a, up, gone, headInclude, frames)
      /\ \A c \in 1 .. Len(a) : ValueOK(a[c].value, t[c])
      /\ \A i \in 1 .. Len(frames) - 1 : TextOK(a, t, frames[i])
  BY <1>1, SettledGood DEF GoodNow
<1>5. /\ frames \in Seq(FrameRec) /\ n \in Nat /\ n > 0 /\ Len(nodes) \in Nat
      /\ f = frames[n] /\ f \in FrameRec
      /\ \A i \in 1 .. n : frames[i].node \in 1 .. Len(nodes)
      /\ \A i \in 1 .. n - 1 : frames[i].node < f.root
      /\ f.root <= f.node /\ f.root \in Nat \ {0}
  <2> HIDE DEF f
  <2>1. /\ frames \in Seq(FrameRec) /\ Len(frames) \in Nat /\ Len(frames) > 0
        /\ Len(nodes) \in Nat
        /\ Last(frames) = frames[Len(frames)] /\ Last(frames) \in FrameRec
        /\ \A i \in 1 .. Len(frames) : frames[i].node \in 1 .. Len(nodes)
        /\ \A i \in 1 .. Len(frames) - 1 : frames[i].node < frames[Len(frames)].root
        /\ frames[Len(frames)].root <= frames[Len(frames)].node
        /\ frames[Len(frames)].root \in Nat \ {0}
    BY <1>1, FrameNodes DEF GoodNow
  <2>2. f = Last(frames)
    BY DEF f, Top
  <2> QED BY <2>1, <2>2
<1>6. /\ up \in Seq(Nat) /\ Len(up) = Len(nodes) /\ gone \subseteq 1 .. Len(nodes)
      /\ \A i \in 1 .. n : BufOK(frames[i])
  BY <1>1 DEF GoodNow, Good, Shape
<1> HIDE DEF a, t, f
<1>7. Len(a) = Len(nodes) /\ f.node \in 1 .. Len(a) /\ BufOK(f) /\ n \in 1 .. n
  BY <1>4, <1>5, <1>6 DEF SameLinks
<1>8. TagRead(a, f, t, st) /\ st.f.buf = <<>>
  <2>1. a[f.node].last \in 0 .. Len(a)
    <3>1. Forward(a) /\ Len(a) \in Nat
      BY <1>4 DEF Tree
    <3> QED BY <3>1, <1>7 DEF Forward
  <2> QED BY <2>1, <1>3, <1>4, <1>5, <1>7, ElementReads
<1> HIDE DEF st
<1>9. st.f \in FrameRec /\ BufOK(st.f) /\ SameFrame(f, st.f) /\ Len(a) < Len(st.ns)
      /\ Len(st.ns) \in Nat
  BY <1>5, <1>7, <1>8 DEF TagRead, TagState, Tagged
<1>10. /\ g \in FrameRec /\ BufOK(g) /\ g.root = f.root /\ g.inc = f.inc
       /\ g.spaceOnly \in BOOLEAN
       /\ g.node = f.node \/ g.node = Len(a) + 1
       /\ g.fresh => g.node = Len(a) + 1
       /\ g.buf = <<>> /\ g.run = <<>>
  <2> DEFINE node == IF piece.t = "tag" THEN elem ELSE st.f.node
             fresh == piece.t = "tag"
  <2>1. node \in Nat /\ fresh \in BOOLEAN /\ (node = f.node \/ node = Len(a) + 1)
        /\ (fresh => node = Len(a) + 1)
    BY <1>5, <1>7, <1>9 DEF SameFrame
  <2>2. g = [st.f EXCEPT !.node = node, !.run = <<>>, !.fresh = fresh]
    OBVIOUS
  <2>3. <<>> \in Seq(Char)
    OBVIOUS
  <2> HIDE DEF node, fresh, g
  <2>4. /\ g \in FrameRec /\ g.node = node /\ g.run = <<>> /\ g.fresh = fresh
        /\ g.root = st.f.root /\ g.inc = st.f.inc /\ g.buf = st.f.buf /\ g.cap = st.f.cap
        /\ g.spaceOnly = st.f.spaceOnly
    BY <2>1, <2>2, <2>3, <1>9 DEF FrameRec
  <2>5. BufOK(g) /\ g.spaceOnly \in BOOLEAN
    BY <2>4, <1>9 DEF BufOK, FrameRec
  <2> QED BY <2>1, <2>4, <2>5, <1>8, <1>9 DEF SameFrame
<1>11. /\ v \in Seq(Nat) /\ Len(v) = Len(st.ns)
       /\ Labelled(up, v, a, st.ns, Home1(up, frames[Len(frames)]))
  <2>1. Home(f) = Home1(up, frames[Len(frames)])
    BY <1>5 DEF Home, Home1
  <2>2. Home(f) \in Nat
    <3>1. CASE f.node = f.root /\ f.inc # 0
      <4>1. FilesOK(a, gone, headInclude, frames)
        BY <1>4 DEF Tree
      <4>2. /\ frames[n].inc # 0 <=> n > 1
            /\ \A i \in 2 .. n : frames[i].inc \in 1 .. Len(a)
        BY <4>1, <1>5, <1>7, FileOrder
      <4>3. f.inc \in 1 .. Len(up)
        BY <4>2, <3>1, <1>5, <1>6, <1>7
      <4>4. up[f.inc] \in Nat
        BY <4>3, <1>6
      <4> QED BY <3>1, <4>4 DEF Home
    <3>2. CASE ~(f.node = f.root /\ f.inc # 0)
      <4>1. f.node \in Nat
        BY <1>7
      <4> QED BY <3>2, <4>1 DEF Home
    <3> QED BY <3>1, <3>2
  <2> DEFINE home == Home(f)
  <2>3. home \in Nat
    BY <2>2
  <2> HIDE DEF home
  <2>4. ASSUME NEW c \in 1 .. Len(st.ns)
        PROVE  (IF c < elem THEN up[c] ELSE IF c = elem THEN home ELSE elem) \in Nat
    <3>1. c < elem => c \in 1 .. Len(up)
      BY <1>5, <1>6
    <3>2. c < elem => up[c] \in Nat
      BY <3>1, <1>6
    <3> QED BY <3>2, <2>3, <1>5
  <2>5. v = [c \in 1 .. Len(st.ns) |-> IF c < elem THEN up[c] ELSE IF c = elem THEN home ELSE elem]
    BY DEF home
  <2> HIDE DEF v
  <2>6. v \in Seq(Nat) /\ Len(v) = Len(st.ns)
    BY <2>4, <2>5, <1>9
  <2>7. Labelled(up, v, a, st.ns, home)
    BY <2>5, <1>5, <1>7, <1>9 DEF Labelled
  <2> QED BY <2>1, <2>6, <2>7 DEF home
<1> HIDE DEF g, v
<1>12. \A i \in 1 .. n - 1 : frames[i].node \in 1 .. Len(a) /\ frames[i].node # f.node
  <2> SUFFICES ASSUME NEW i \in 1 .. n - 1
               PROVE  frames[i].node \in 1 .. Len(a) /\ frames[i].node # f.node
    OBVIOUS
  <2>1. i \in 1 .. n /\ frames[i].node < f.root /\ f.root <= f.node
    BY <1>5
  <2>2. frames[i].node \in 1 .. Len(nodes)
    BY <2>1, <1>5
  <2> QED BY <2>1, <2>2, <1>5, <1>7
<1>13. /\ Good(st.ns, v, st.said, gone, headInclude, [frames EXCEPT ![n] = g])
       /\ OpenEnd(st.ns, gone, headInclude, g.node)
  <2>1. Len(up) = Len(a) /\ Len(t) = Len(a) /\ gone \subseteq 1 .. Len(a)
        /\ Labelled(up, v, a, st.ns, Home1(up, f))
    BY <1>4, <1>5, <1>6, <1>7, <1>11
  <2> QED BY <2>1, <1>4, <1>5, <1>6, <1>7, <1>8, <1>10, <1>11, <1>12, TagGood, ZenonT(60)
<1>14. GoodNow'
  BY <1>2, <1>5, <1>13, AfterTagGood
<1>15. phase' = "parse" /\ family' \in DOMAIN Families /\ error' \in BOOLEAN
       /\ headInclude' \in BOOLEAN
  BY <1>1, <1>2, <1>3
<1> QED BY <1>14, <1>15, InvNext

\* The innermost file.
LEMMA TopFacts ==
  ASSUME GoodNow
  PROVE  /\ frames \in Seq(FrameRec) /\ Len(frames) \in Nat /\ Len(frames) > 0
         /\ Len(nodes) \in Nat /\ Len(frames) \in 1 .. Len(frames)
         /\ Top = frames[Len(frames)] /\ Top \in FrameRec /\ BufOK(Top)
         /\ Top.node \in 1 .. Len(nodes)
         /\ \A i \in 1 .. Len(frames) : BufOK(frames[i])
         /\ nodes \in Seq(Node) /\ up \in Seq(Nat) /\ said \in Seq(Meaning)
         /\ Len(up) = Len(nodes) /\ Len(said) = Len(nodes) /\ gone \subseteq 1 .. Len(nodes)
         /\ Tree(nodes, up, gone, headInclude, frames) /\ Values(nodes, said, frames)
<1>1. /\ frames \in Seq(FrameRec) /\ Len(frames) \in Nat /\ Len(frames) > 0
      /\ Len(nodes) \in Nat
      /\ Last(frames) = frames[Len(frames)] /\ Last(frames) \in FrameRec
      /\ \A i \in 1 .. Len(frames) : frames[i].node \in 1 .. Len(nodes)
  BY FrameNodes DEF GoodNow
<1>2. /\ nodes \in Seq(Node) /\ up \in Seq(Nat) /\ said \in Seq(Meaning)
      /\ Len(up) = Len(nodes) /\ Len(said) = Len(nodes) /\ gone \subseteq 1 .. Len(nodes)
      /\ Tree(nodes, up, gone, headInclude, frames) /\ Values(nodes, said, frames)
      /\ \A i \in 1 .. Len(frames) : BufOK(frames[i])
  BY DEF GoodNow, Good, Shape
<1>3. Top = Last(frames) /\ Len(frames) \in 1 .. Len(frames)
  BY <1>1 DEF Top
<1> HIDE DEF Top
<1> QED BY <1>1, <1>2, <1>3

\* parse_end_tag: the file goes on in the element around the one that ends.
LEMMA InvReadEndTag ==
  ASSUME Inv, ReadEndTag
  PROVE  Inv'
<1> DEFINE a == Settled(nodes, Top)
           t == Says(Top)
           node == nodes[Top.node].parent
           g == [Top EXCEPT !.node = node, !.buf = <<"n">>, !.run = <<>>, !.fresh = FALSE]
           gs == [frames EXCEPT ![Len(frames)] = g]
<1>1. /\ GoodNow /\ family \in DOMAIN Families /\ error \in BOOLEAN /\ headInclude \in BOOLEAN
  BY InvParts
<1>2. /\ EndTag \in Ahead /\ node # 0 /\ AfterTag(g, a, up, t)
      /\ UNCHANGED <<family, phase, error, gone, headInclude>>
  BY DEF ReadEndTag, Reads
<1>3. phase = "parse"
  BY <1>1, <1>2, PieceKinds
<1>4. /\ a \in Seq(Node) /\ SameLinks(nodes, a)
      /\ t \in Seq(Meaning) /\ Len(t) = Len(a)
      /\ Tree(a, up, gone, headInclude, frames)
      /\ \A c \in 1 .. Len(a) : ValueOK(a[c].value, t[c])
      /\ \A i \in 1 .. Len(frames) - 1 : TextOK(a, t, frames[i])
  BY <1>1, SettledGood DEF GoodNow
<1>5. /\ frames \in Seq(FrameRec) /\ Len(frames) \in Nat /\ Len(frames) > 0
      /\ Len(nodes) \in Nat /\ Len(frames) \in 1 .. Len(frames)
      /\ Top = frames[Len(frames)] /\ Top \in FrameRec /\ BufOK(Top)
      /\ Top.node \in 1 .. Len(nodes)
      /\ \A i \in 1 .. Len(frames) : BufOK(frames[i])
      /\ up \in Seq(Nat) /\ Len(up) = Len(nodes) /\ gone \subseteq 1 .. Len(nodes)
  BY <1>1, TopFacts
<1> HIDE DEF a, t
<1>6. /\ Len(a) = Len(nodes) /\ node = a[Top.node].parent /\ Forward(a)
      /\ node \in 1 .. Len(a)
  <2>1. Len(a) = Len(nodes) /\ node = a[Top.node].parent /\ Forward(a)
    BY <1>4, <1>5 DEF SameLinks, Tree
  <2>2. a[Top.node].parent \in 0 .. Top.node - 1
    BY <2>1, <1>5 DEF Forward
  <2> QED BY <2>1, <2>2, <1>2, <1>5
<1> HIDE DEF node
<1>7. /\ g \in FrameRec /\ BufOK(g) /\ g.root = Top.root /\ g.inc = Top.inc
      /\ g.node = node /\ g.run = <<>> /\ ~g.fresh
  <2>1. <<"n">> \in Seq(Stored) /\ <<>> \in Seq(Char) /\ Len(<<"n">>) = 1
    BY DEF Stored
  <2> DEFINE b == <<"n">>
  <2>2. b \in Seq(Stored) /\ Len(b) = 1 /\ node \in Nat
    BY <2>1, <1>6
  <2> HIDE DEF b
  <2> DEFINE y == [Top EXCEPT !.node = node, !.buf = b, !.run = <<>>, !.fresh = FALSE]
  <2>3. /\ y \in FrameRec /\ y.root = Top.root /\ y.inc = Top.inc
        /\ y.node = node /\ y.run = <<>> /\ ~y.fresh /\ y.buf = b /\ y.cap = Top.cap
    BY <2>1, <2>2, <1>5 DEF FrameRec
  <2>4. Capacity <= Top.cap /\ Top.cap \in Nat
    BY <1>5 DEF BufOK, FrameRec
  <2> HIDE DEF y
  <2>5. BufOK(y)
    <3>1. Capacity \in Nat /\ Capacity > 2
      BY RegistryAssumption
    <3>2. Len(y.buf) = 1 /\ y.cap = Top.cap
      BY <2>2, <2>3
    <3> QED BY <2>4, <3>1, <3>2 DEF BufOK
  <2>6. g = y
    BY DEF b, y
  <2> HIDE DEF g
  <2> QED BY <2>3, <2>5, <2>6
<1> HIDE DEF g
<1>8. /\ gs \in Seq(FrameRec) /\ Len(gs) = Len(frames) /\ gs[Len(frames)] = g
      /\ \A i \in 1 .. Len(frames) - 1 : gs[i] = frames[i]
      /\ Moved(frames, gs, g.node) /\ \A i \in 1 .. Len(gs) : BufOK(gs[i])
  BY <1>5, <1>7, TopSet
<1> HIDE DEF gs
<1>9. /\ Tree(a, up, gone, headInclude, gs)
      /\ IncAhead(a, gone, headInclude, a[node].last, node)
  <2> DEFINE e == Top.node
  <2>1. /\ GoesOn(frames, e) /\ a[e].parent # 0 /\ Moved(frames, gs, a[e].parent)
        /\ Len(a) \in Nat
    BY <1>2, <1>5, <1>6, <1>7, <1>8 DEF GoesOn
  <2>2. a[e].parent = node
    BY <1>6
  <2> HIDE DEF e
  <2>3. /\ Tree(a, up, gone, headInclude, gs)
        /\ IncAhead(a, gone, headInclude, a[a[e].parent].last, a[e].parent)
    BY <2>1, <1>4, <1>5, CloseTree
  <2> QED BY <2>2, <2>3
<1>10. OpenEnd(a, gone, headInclude, g.node) /\ a[node].first # 0
  <2>1. a[node].last # 0
    BY <1>9, <1>6 DEF IncAhead
  <2> QED BY <2>1, <1>6, <1>7, <1>9 DEF OpenEnd, Forward
<1>11. TextOK(a, t, gs[Len(gs)])
  <2>1. TextOK(a, t, g)
    BY <1>7, <1>10, NoSpace DEF TextOK
  <2> QED BY <2>1, <1>8
<1>12. Good(a, up, t, gone, headInclude, gs)
  <2>1. Len(gs) > 0 /\ Len(up) = Len(a) /\ gone \subseteq 1 .. Len(a)
        /\ \A i \in 1 .. Len(gs) - 1 : TextOK(a, t, gs[i])
    BY <1>4, <1>5, <1>6, <1>8
  <2> QED BY <2>1, <1>4, <1>5, <1>8, <1>9, <1>11, GoodTop
<1>13. GoodNow'
  <2>1. Good(a, up, t, gone, headInclude, [frames EXCEPT ![Len(frames)] = g])
    BY <1>12 DEF gs
  <2> QED BY <2>1, <1>2, <1>5, <1>10, AfterTagGood
<1>14. phase' = "parse" /\ family' \in DOMAIN Families /\ error' \in BOOLEAN
       /\ headInclude' \in BOOLEAN
  BY <1>1, <1>2, <1>3
<1> QED BY <1>13, <1>14, InvNext

\* The registry stays as it is.
LEMMA InvSame ==
  ASSUME Inv, UNCHANGED <<family, nodes, frames, error, history>>,
         phase' \in {"parse", "parsed", "refused", "crashed", "init"},
         phase' \in {"parsed", "refused", "init"} => Len(frames) = 1
  PROVE  Inv'
<1>1. /\ GoodNow /\ family \in DOMAIN Families /\ error \in BOOLEAN /\ headInclude \in BOOLEAN
  BY InvParts
<1>2. GoodNow'
  BY <1>1 DEF GoodNow, history
<1> QED BY <1>1, <1>2, InvNext DEF history

\* Characters outside of tags.
LEMMA InvReadText ==
  ASSUME Inv, NEW piece, ReadText(piece)
  PROVE  Inv'
<1> DEFINE chars == piece.chars
           b == Buffered(Top, chars)
           g == [b EXCEPT !.spaceOnly = @ /\ IsSpace(chars), !.run = @ \o chars]
           gs == [frames EXCEPT ![Len(frames)] = g]
<1>1. /\ GoodNow /\ family \in DOMAIN Families /\ error \in BOOLEAN /\ headInclude \in BOOLEAN
  BY InvParts
<1>2. /\ piece \in Ahead /\ piece.t = "text" /\ frames' = gs
      /\ UNCHANGED <<family, nodes, phase, error, history>>
  BY DEF ReadText, Reads, SetTop
<1>3. phase = "parse" /\ chars \in Seq(Char)
  BY <1>1, <1>2, PieceKinds
<1> HIDE DEF chars
<1>4. /\ frames \in Seq(FrameRec) /\ Len(frames) \in Nat /\ Len(frames) > 0
      /\ Len(nodes) \in Nat /\ Len(frames) \in 1 .. Len(frames)
      /\ Top = frames[Len(frames)] /\ Top \in FrameRec /\ BufOK(Top)
      /\ Top.node \in 1 .. Len(nodes)
      /\ \A i \in 1 .. Len(frames) : BufOK(frames[i])
      /\ nodes \in Seq(Node) /\ up \in Seq(Nat) /\ said \in Seq(Meaning)
      /\ Len(up) = Len(nodes) /\ Len(said) = Len(nodes) /\ gone \subseteq 1 .. Len(nodes)
      /\ Tree(nodes, up, gone, headInclude, frames) /\ Values(nodes, said, frames)
  BY <1>1, TopFacts
<1>5. /\ b \in FrameRec /\ BufOK(b) /\ SameFrame(Top, b)
      /\ Len(Top.buf) + Len(chars) + 2 <= Top.cap => b.buf = Top.buf \o chars
  BY <1>3, <1>4, BufferedText
<1> HIDE DEF b
<1>6. /\ g \in FrameRec /\ BufOK(g) /\ g.root = Top.root /\ g.inc = Top.inc
      /\ g.node = Top.node /\ g.fresh = Top.fresh /\ g.buf = b.buf
      /\ g.run = Top.run \o chars /\ g.spaceOnly = (Top.spaceOnly /\ IsSpace(chars))
  <2> DEFINE run == b.run \o chars
             only == b.spaceOnly /\ IsSpace(chars)
  <2>1. run \in Seq(Char) /\ only \in BOOLEAN
    <3>1. b.run \in Seq(Char)
      BY <1>5 DEF FrameRec
    <3>2. run \in Seq(Char)
      BY <3>1, <1>3, ConcatProperties
    <3> QED BY <3>2
  <2>2. g = [b EXCEPT !.spaceOnly = only, !.run = run]
    OBVIOUS
  <2> HIDE DEF run, only, g
  <2>3. /\ g \in FrameRec /\ g.root = b.root /\ g.inc = b.inc /\ g.node = b.node
        /\ g.fresh = b.fresh /\ g.buf = b.buf /\ g.cap = b.cap /\ g.run = run
        /\ g.spaceOnly = only
    BY <2>1, <2>2, <1>5 DEF FrameRec
  <2>4. BufOK(g)
    BY <2>3, <1>5 DEF BufOK
  <2>5. run = Top.run \o chars /\ only = (Top.spaceOnly /\ IsSpace(chars))
    BY <1>5 DEF SameFrame, run, only
  <2> QED BY <2>3, <2>4, <2>5, <1>5 DEF SameFrame
<1> HIDE DEF g
<1>7. /\ gs \in Seq(FrameRec) /\ Len(gs) = Len(frames) /\ gs[Len(frames)] = g
      /\ \A i \in 1 .. Len(frames) - 1 : gs[i] = frames[i]
      /\ Moved(frames, gs, g.node) /\ \A i \in 1 .. Len(gs) : BufOK(gs[i])
  BY <1>4, <1>6, TopSet
<1> HIDE DEF gs
<1>8. Tree(nodes, up, gone, headInclude, gs)
  <2>1. Moved(frames, gs, frames[Len(frames)].node)
    BY <1>4, <1>6, <1>7
  <2> QED BY <2>1, <1>4, StayTree
<1>9. TextOK(nodes, said, g)
  <2>1. TextOK(nodes, said, Top)
    BY <1>4 DEF Values
  <2>2. g.spaceOnly => IsSpace(g.run)
    <3>1. Top.run \in Seq(Char)
      BY <1>4 DEF FrameRec
    <3>2. ASSUME Top.spaceOnly, IsSpace(chars) PROVE IsSpace(Top.run \o chars)
      <4>1. IsSpace(Top.run)
        BY <2>1, <3>2 DEF TextOK
      <4> DEFINE run == Top.run
      <4>2. run \in Seq(Char) /\ IsSpace(run)
        BY <3>1, <4>1
      <4> HIDE DEF run
      <4>3. IsSpace(run \o chars)
        BY <4>2, <3>2, <1>3, SpaceSpace
      <4> QED BY <4>3 DEF run
    <3> QED BY <3>2, <1>6
  <2>3. ASSUME nodes[g.node].first = 0, nodes[g.node].value = Null, Fits(g.run)
        PROVE  g.buf = g.run
    <3> DEFINE run == Top.run
               buf == Top.buf
    <3>1. run \in Seq(Char) /\ Len(run) \in Nat /\ Len(chars) \in Nat /\ Len(run \o chars) = Len(run) + Len(chars)
      <4>1. run \in Seq(Char)
        BY <1>4 DEF FrameRec
      <4> HIDE DEF run
      <4>2. Len(run \o chars) = Len(run) + Len(chars)
        BY <4>1, <1>3, ConcatProperties
      <4> QED BY <4>1, <4>2, <1>3
    <3>2. g.run = run \o chars /\ (buf = run \/ ~Fits(run))
      BY <2>1, <2>3, <1>6 DEF TextOK
    <3>3. Capacity <= Top.cap /\ Top.cap \in Nat /\ Capacity \in Nat
      BY <1>4, RegistryAssumption DEF BufOK, FrameRec
    <3>4. Len(run) + Len(chars) + 2 <= Capacity
      <4>1. Len(g.run) + 2 <= Capacity
        BY <2>3 DEF Fits
      <4> HIDE DEF run
      <4> QED BY <4>1, <3>1, <3>2
    <3>5. buf = run
      <4> HIDE DEF run, buf
      <4>1. Fits(run)
        BY <3>1, <3>3, <3>4 DEF Fits
      <4> QED BY <4>1, <3>2
    <3>6. b.buf = buf \o chars
      <4>1. Len(buf) + Len(chars) + 2 <= Top.cap
        <5> HIDE DEF run, buf
        <5> QED BY <3>1, <3>3, <3>4, <3>5
      <4> QED BY <4>1, <1>5
    <3> QED BY <3>2, <3>5, <3>6, <1>6
  <2> QED BY <2>1, <2>2, <2>3, <1>6 DEF TextOK
<1>10. Good(nodes, up, said, gone, headInclude, gs)
  <2>1. /\ \A c \in 1 .. Len(nodes) : ValueOK(nodes[c].value, said[c])
        /\ Len(gs) > 0 /\ TextOK(nodes, said, gs[Len(gs)])
    BY <1>4, <1>7, <1>9 DEF Values
  <2>2. ASSUME NEW i \in 1 .. Len(gs) - 1 PROVE TextOK(nodes, said, gs[i])
    <3>1. i \in 1 .. Len(frames) /\ gs[i] = frames[i]
      BY <1>4, <1>7
    <3> QED BY <3>1, <1>4 DEF Values
  <2> QED BY <2>1, <2>2, <1>4, <1>7, <1>8, GoodTop
<1>11. GoodNow' /\ phase' = "parse" /\ family' = family /\ error' = error /\ headInclude' = headInclude
  BY <1>2, <1>3, <1>10 DEF GoodNow, history
<1> QED BY <1>1, <1>11, InvNext

\* skip_comment, skip_pi and skip_doctype.
LEMMA InvReadComment ==
  ASSUME Inv, NEW piece, ReadComment(piece)
  PROVE  Inv'
<1> DEFINE a == Settled(nodes, Top)
           t == Says(Top)
           g == [Top EXCEPT !.buf = SettledBuf(Top), !.run = <<>>, !.fresh = FALSE,
                            !.atEnd = piece.t = "unclosed"]
           gs == [frames EXCEPT ![Len(frames)] = g]
<1>1. /\ GoodNow /\ family \in DOMAIN Families /\ error \in BOOLEAN /\ headInclude \in BOOLEAN
  BY InvParts
<1>2. /\ piece \in Ahead /\ frames' = gs /\ nodes' = a /\ said' = t
      /\ error' = (error \/ piece.t = "unclosed")
      /\ UNCHANGED <<family, phase, up, gone, headInclude>>
  BY DEF ReadComment, Reads, SetTop
<1>3. phase = "parse"
  BY <1>1, <1>2, PieceKinds
<1>4. /\ frames \in Seq(FrameRec) /\ Len(frames) \in Nat /\ Len(frames) > 0
      /\ Len(nodes) \in Nat /\ Len(frames) \in 1 .. Len(frames)
      /\ Top = frames[Len(frames)] /\ Top \in FrameRec /\ BufOK(Top)
      /\ Top.node \in 1 .. Len(nodes)
      /\ \A i \in 1 .. Len(frames) : BufOK(frames[i])
      /\ up \in Seq(Nat) /\ Len(up) = Len(nodes) /\ gone \subseteq 1 .. Len(nodes)
  BY <1>1, TopFacts
<1>5. /\ a \in Seq(Node) /\ SameLinks(nodes, a)
      /\ t \in Seq(Meaning) /\ Len(t) = Len(a)
      /\ Tree(a, up, gone, headInclude, frames)
      /\ \A c \in 1 .. Len(a) : ValueOK(a[c].value, t[c])
      /\ \A i \in 1 .. Len(frames) - 1 : TextOK(a, t, frames[i])
      /\ SettledIs(nodes, a, Top)
  BY <1>1, SettledGood DEF GoodNow
<1> HIDE DEF a, t
<1>6. Len(a) = Len(nodes)
  BY <1>5 DEF SameLinks
<1>7. /\ g \in FrameRec /\ BufOK(g) /\ g.root = Top.root /\ g.inc = Top.inc
      /\ g.node = Top.node /\ ~g.fresh /\ g.buf = SettledBuf(Top) /\ g.run = <<>>
      /\ g.spaceOnly = Top.spaceOnly
  <2> DEFINE y == SettledBuf(Top)
             z == piece.t = "unclosed"
  <2>1. <<>> \in Seq(Stored) /\ <<>> \in Seq(Char) /\ z \in BOOLEAN
        /\ Top.buf \in Seq(Stored) /\ Len(<<>>) = 0 /\ Len(Top.buf) \in Nat
    BY <1>4, SMTT(30) DEF FrameRec
  <2>2. y \in Seq(Stored) /\ Len(y) <= Len(Top.buf) /\ Len(y) \in Nat
    BY <2>1 DEF SettledBuf
  <2>3. g = [Top EXCEPT !.buf = y, !.run = <<>>, !.fresh = FALSE, !.atEnd = z]
    OBVIOUS
  <2> HIDE DEF y, z, g
  <2>4. /\ g \in FrameRec /\ g.root = Top.root /\ g.inc = Top.inc /\ g.node = Top.node
        /\ ~g.fresh /\ g.buf = y /\ g.cap = Top.cap /\ g.run = <<>>
        /\ g.spaceOnly = Top.spaceOnly
    BY <2>1, <2>2, <2>3, <1>4 DEF FrameRec
  <2>5. BufOK(g)
    <3>1. Len(Top.buf) < Top.cap /\ Capacity <= Top.cap /\ Top.cap \in Nat
      BY <1>4 DEF BufOK, FrameRec
    <3>2. Len(g.buf) < g.cap
      BY <2>1, <2>2, <2>4, <3>1
    <3> QED BY <3>1, <3>2, <2>4 DEF BufOK
  <2> QED BY <2>4, <2>5 DEF y
<1> HIDE DEF g
<1>8. /\ gs \in Seq(FrameRec) /\ Len(gs) = Len(frames) /\ gs[Len(frames)] = g
      /\ \A i \in 1 .. Len(frames) - 1 : gs[i] = frames[i]
      /\ Moved(frames, gs, g.node) /\ \A i \in 1 .. Len(gs) : BufOK(gs[i])
  BY <1>4, <1>7, TopSet
<1> HIDE DEF gs
<1>9. Tree(a, up, gone, headInclude, gs)
  <2>1. Moved(frames, gs, frames[Len(frames)].node) /\ Len(a) \in Nat
    BY <1>4, <1>6, <1>7, <1>8
  <2> QED BY <2>1, <1>4, <1>5, StayTree
<1>10. TextOK(a, t, g)
  <2>1. ASSUME a[g.node].first = 0, a[g.node].value = Null PROVE g.buf = <<>>
    <3>1. /\ Top.node \in 1 .. Len(nodes) /\ a[Top.node].first = nodes[Top.node].first
          /\ a[Top.node].value = IF Taken(nodes, Top) THEN Top.buf ELSE nodes[Top.node].value
      BY <1>4, <1>5 DEF SettledIs, SameLinks
    <3>2. Top.buf # Null
      <4>1. Top.buf \in Seq(Stored)
        BY <1>4 DEF FrameRec
      <4> QED BY <4>1, NotMarks
    <3>3. Top.spaceOnly
      BY <2>1, <3>1, <3>2, <1>7 DEF Taken
    <3> QED BY <3>3, <1>7 DEF SettledBuf
  <2> QED BY <2>1, <1>7, NoSpace DEF TextOK
<1>11. Good(a, up, t, gone, headInclude, gs)
  <2>1. /\ Len(gs) > 0 /\ TextOK(a, t, gs[Len(gs)]) /\ Len(up) = Len(a)
        /\ gone \subseteq 1 .. Len(a)
    BY <1>4, <1>6, <1>8, <1>10
  <2>2. ASSUME NEW i \in 1 .. Len(gs) - 1 PROVE TextOK(a, t, gs[i])
    BY <1>5, <1>8
  <2> QED BY <2>1, <2>2, <1>4, <1>5, <1>8, <1>9, GoodTop
<1>12. GoodNow'
  BY <1>2, <1>11 DEF GoodNow
<1>13. phase' = "parse" /\ family' = family /\ error' \in BOOLEAN /\ headInclude' = headInclude
  BY <1>2, <1>3
<1> QED BY <1>1, <1>12, <1>13, InvNext

\* The end of an included file, whose nodes D stay aside or become part of another.
LEMMA FrontOuter ==
  ASSUME NEW fs \in Seq(FrameRec), Len(fs) > 1
  PROVE  /\ Front(fs) \in Seq(FrameRec) /\ Len(Front(fs)) = Len(fs) - 1 /\ Outer(fs, Front(fs))
         /\ Len(Front(fs)) > 0 /\ \A i \in 1 .. Len(Front(fs)) : Front(fs)[i] = fs[i]
<1>1. Len(fs) \in Nat /\ Front(fs) = SubSeq(fs, 1, Len(fs) - 1)
  BY DEF Front
<1> DEFINE k == Len(fs) - 1
           s == SubSeq(fs, 1, k)
<1>2. k \in 1 .. Len(fs)
  BY <1>1
<1>3. s \in Seq(FrameRec) /\ Len(s) = k /\ \A i \in 1 .. k : s[i] = fs[i]
  BY <1>1, <1>2
<1>4. Front(fs) = s
  BY <1>1
<1> HIDE DEF s
<1>5. Outer(fs, s) /\ Len(s) > 0
  BY <1>1, <1>3 DEF Outer
<1> QED BY <1>3, <1>4, <1>5

LEMMA OuterGood ==
  ASSUME NEW ns \in Seq(Node), NEW u \in Seq(Nat), NEW s \in Seq(Meaning), NEW m \in Seq(Node),
         NEW fs \in Seq(FrameRec), Len(fs) > 1, \A i \in 1 .. Len(fs) : BufOK(fs[i]),
         Len(u) = Len(ns), Len(s) = Len(ns), Len(m) = Len(ns), NEW G, NEW h,
         G \subseteq 1 .. Len(m), Tree(m, u, G, h, Front(fs)), Values(ns, s, fs),
         \A i \in 1 .. Len(fs) : fs[i].node \in 1 .. Len(ns),
         \A c \in 1 .. Len(ns) : /\ m[c].value = ns[c].value
                                 /\ m[c].first = 0 => ns[c].first = 0
  PROVE  Good(m, u, s, G, h, Front(fs))
<1>1. /\ Front(fs) \in Seq(FrameRec) /\ Len(Front(fs)) = Len(fs) - 1
      /\ Len(Front(fs)) > 0 /\ \A i \in 1 .. Len(Front(fs)) : Front(fs)[i] = fs[i]
  BY FrontOuter
<1> DEFINE gs == Front(fs)
<1>2. gs \in Seq(FrameRec) /\ Len(gs) = Len(fs) - 1 /\ Len(gs) > 0 /\ Tree(m, u, G, h, gs)
      /\ \A i \in 1 .. Len(gs) : gs[i] = fs[i]
  BY <1>1
<1> HIDE DEF gs
<1>3. \A i \in 1 .. Len(gs) : i \in 1 .. Len(fs)
  BY <1>2
<1>4. ASSUME NEW c \in 1 .. Len(m) PROVE ValueOK(m[c].value, s[c])
  BY DEF Values
<1>5. ASSUME NEW i \in 1 .. Len(gs) PROVE TextOK(m, s, gs[i])
  <2>1. gs[i] = fs[i] /\ fs[i].node \in 1 .. Len(ns) /\ TextOK(ns, s, fs[i])
    BY <1>2, <1>3 DEF Values
  <2> QED BY <2>1 DEF TextOK
<1>6. Good(m, u, s, G, h, gs)
  BY <1>2, <1>3, <1>4, <1>5 DEF Good, Shape, Values
<1> QED BY <1>6 DEF gs

\* How many files are open.
LEMMA FilesOpen ==
  ASSUME GoodNow
  PROVE  /\ Top.inc # 0 <=> Len(frames) > 1
         /\ Forward(nodes) /\ FilesOK(nodes, gone, headInclude, frames)
         /\ PartOK(nodes, gone, Top)
         /\ Top.inc # 0 => Top.inc \in 1 .. Len(nodes)
<1>1. /\ Len(frames) \in Nat /\ Len(nodes) \in Nat /\ Top = frames[Len(frames)]
      /\ Tree(nodes, up, gone, headInclude, frames) /\ Len(frames) \in 1 .. Len(frames)
  BY TopFacts
<1>2. Forward(nodes) /\ FilesOK(nodes, gone, headInclude, frames)
  BY <1>1 DEF Tree
<1>3. /\ frames[Len(frames)].inc # 0 <=> Len(frames) > 1
      /\ \A i \in 2 .. Len(frames) : frames[i].inc \in 1 .. Len(nodes)
  BY <1>1, <1>2, FileOrder
<1>4. PartOK(nodes, gone, Top)
  BY <1>1, <1>2 DEF FilesOK
<1> HIDE DEF Top
<1>5. Top.inc # 0 => Top.inc \in 1 .. Len(nodes)
  BY <1>1, <1>3
<1> QED BY <1>1, <1>2, <1>3, <1>4, <1>5

\* cse_parse returns 0.
LEMMA InvReadMalformed ==
  ASSUME Inv, ReadMalformed
  PROVE  Inv'
<1> DEFINE r == Top.root
           D == r .. Len(nodes)
<1>1. /\ GoodNow /\ family \in DOMAIN Families /\ error \in BOOLEAN /\ headInclude \in BOOLEAN
  BY InvParts
<1>2. Malformed \in Ahead /\ error' = TRUE /\ UNCHANGED <<family, nodes, up, said, headInclude>>
  BY DEF ReadMalformed, Reads
<1>3. phase = "parse"
  BY <1>1, <1>2, PieceKinds
<1>4. /\ frames \in Seq(FrameRec) /\ Len(frames) \in Nat /\ Len(frames) > 0
      /\ Len(nodes) \in Nat /\ Len(frames) \in 1 .. Len(frames)
      /\ Top = frames[Len(frames)]
      /\ \A i \in 1 .. Len(frames) : BufOK(frames[i])
      /\ nodes \in Seq(Node) /\ up \in Seq(Nat) /\ said \in Seq(Meaning)
      /\ Len(up) = Len(nodes) /\ Len(said) = Len(nodes) /\ gone \subseteq 1 .. Len(nodes)
      /\ Tree(nodes, up, gone, headInclude, frames) /\ Values(nodes, said, frames)
  BY <1>1, TopFacts
<1>5. /\ Top.inc # 0 <=> Len(frames) > 1
      /\ Forward(nodes) /\ PartOK(nodes, gone, Top)
  BY <1>1, FilesOpen
<1>6. CASE Top.inc = 0
  <2>1. phase' = "refused" /\ UNCHANGED <<frames, gone>> /\ Len(frames) = 1
    <3>1. ~(Len(frames) > 1)
      BY <1>5, <1>6
    <3>2. Len(frames) = 1
      <4> DEFINE k == Len(frames)
      <4>1. k \in Nat /\ k > 0 /\ ~(k > 1)
        BY <1>4, <3>1
      <4> HIDE DEF k
      <4>2. k = 1
        BY <4>1
      <4> QED BY <4>2 DEF k
    <3> HIDE DEF D, r
    <3>3. phase' = "refused" /\ UNCHANGED <<frames, gone>>
      BY <1>6 DEF ReadMalformed
    <3> QED BY <3>2, <3>3
  <2>2. GoodNow'
    BY <1>1, <1>2, <2>1 DEF GoodNow
  <2> QED BY <1>1, <1>2, <2>1, <2>2, InvNext
<1>7. CASE Top.inc # 0
  <2>1. frames' = Front(frames) /\ gone' = gone \cup D /\ phase' = phase /\ Len(frames) > 1
    BY <1>5, <1>7 DEF ReadMalformed
  <2>2. /\ r \in 1 .. Len(nodes) /\ r \in D
        /\ \A c \in D : nodes[c].parent = 0 \/ nodes[c].parent \in D
        /\ Kids(nodes, gone \cup D, r) = {}
    <3>0. \A c \in 1 .. Len(nodes) : nodes[c].parent \in 0 .. c - 1
      BY <1>5 DEF Forward
    <3>1. /\ r \in Nat \ {0} /\ r <= Len(nodes) /\ nodes[r].parent = 0
          /\ \A c \in 1 .. Len(nodes) :
               /\ r < c => nodes[c].parent = 0 \/ r <= nodes[c].parent
               /\ nodes[c].parent \in 0 .. c - 1
      BY <3>0, <1>5, <1>4 DEF PartOK
    <3> HIDE DEF r
    <3>2. \A c \in D : nodes[c].parent = 0 \/ nodes[c].parent \in D
      BY <3>1, <1>4
    <3>3. Kids(nodes, gone \cup D, r) = {}
      <4>1. ASSUME NEW c \in Kids(nodes, gone \cup D, r) PROVE FALSE
        <5>1. c \in 1 .. Len(nodes) /\ nodes[c].parent = r /\ c \notin D
          BY <4>1 DEF Kids
        <5> QED BY <5>1, <3>1, <1>4
      <4> QED BY <4>1
    <3>4. r \in 1 .. Len(nodes) /\ r \in D
      BY <3>1, <1>4
    <3> QED BY <3>2, <3>3, <3>4
  <2>3. Tree(nodes, up, gone \cup D, headInclude, Front(frames))
    <3> DEFINE gs == Front(frames)
    <3>1. Outer(frames, gs)
      BY <1>4, <2>1, FrontOuter
    <3>2. /\ D \subseteq frames[Len(frames)].root .. Len(nodes) /\ frames[Len(frames)].root \in D
          /\ \A c \in D : nodes[c].parent = 0 \/ nodes[c].parent \in D
          /\ headInclude \/ Kids(nodes, gone \cup D, frames[Len(frames)].root) = {}
      BY <2>2, <1>4
    <3> HIDE DEF gs, D
    <3>3. Tree(nodes, up, gone \cup D, headInclude, gs)
      BY <3>1, <3>2, <2>1, <1>4, DropTree
    <3> QED BY <3>3 DEF gs
  <2>4. gone \cup D \subseteq 1 .. Len(nodes)
    <3>1. D \subseteq 1 .. Len(nodes)
      <4> HIDE DEF r
      <4> QED BY <2>2, <1>4
    <3> HIDE DEF D
    <3> QED BY <3>1, <1>4
  <2>5. \A i \in 1 .. Len(frames) : frames[i].node \in 1 .. Len(nodes)
    BY <1>1, FrameNodes DEF GoodNow
  <2> DEFINE H == gone \cup D
  <2>6. Good(nodes, up, said, H, headInclude, Front(frames))
    <3>1. H \subseteq 1 .. Len(nodes) /\ Tree(nodes, up, H, headInclude, Front(frames))
      BY <2>3, <2>4
    <3> HIDE DEF H
    <3> QED BY <3>1, <2>1, <2>5, <1>4, OuterGood
  <2>7. GoodNow'
    BY <2>1, <2>6, <1>2 DEF GoodNow
  <2> QED BY <1>1, <1>2, <1>3, <2>1, <2>7, InvNext
<1> QED BY <1>6, <1>7

\* The children of an included root take the place of the include.
LEMMA Splices ==
  ASSUME NEW ns \in Seq(Node), NEW inc \in 1 .. Len(ns), NEW r \in 1 .. Len(ns), inc < r,
         Forward(ns), NEW S, S = Range(Chain(ns, ns[r].first)), \A c \in S : c \in Nat /\ r < c,
         ns[inc].parent \in 1 .. inc - 1, ns[inc].prev \in 0 .. inc - 1
  PROVE  LET m == Splice(ns, inc, r)
         IN /\ m \in Seq(Node) /\ Spliced(ns, m, inc, r, S)
            /\ \A c \in 1 .. Len(ns) : m[c].value = ns[c].value
<1> DEFINE p == ns[inc].parent
           q == ns[inc].prev
           new(c) == CASE c = q -> [ns[c] EXCEPT !.next = ns[r].first]
                       [] c = p -> [ns[c] EXCEPT !.first = IF q = 0 THEN r ELSE @,
                                                 !.last = ns[r].last]
                       [] c = r -> [ns[c] EXCEPT !.parent = p, !.prev = q]
                       [] c \in S -> [ns[c] EXCEPT !.parent = p]
                       [] OTHER -> ns[c]
           m == [c \in 1 .. Len(ns) |-> new(c)]
<1>1. Splice(ns, inc, r) = m
  BY DEF Splice
<1>2. /\ Len(ns) \in Nat /\ p \in Nat /\ q \in Nat /\ p < r /\ q < r /\ p # r /\ q # r
      /\ p \notin S /\ q \notin S /\ r \notin S /\ r \in Nat /\ p # 0 /\ p # q
      /\ ns[r] \in Node /\ ns[r].first \in Nat /\ ns[r].last \in Nat
  <2>1. ns[r] \in Node /\ Len(ns) \in Nat
    OBVIOUS
  <2>2. ns[r].first \in Nat /\ ns[r].last \in Nat
    BY <2>1 DEF Node
  <2>3. q = 0 \/ p < q
    BY DEF Forward
  <2>4. p \in Nat /\ q \in Nat /\ p < r /\ q < r /\ r \in Nat /\ p # 0
    <3>1. p \in 1 .. inc - 1 /\ q \in 0 .. inc - 1 /\ inc \in Nat /\ r \in Nat
      OBVIOUS
    <3> HIDE DEF p, q
    <3> QED BY <3>1
  <2>5. \A c \in S : c \in Nat /\ r < c
    OBVIOUS
  <2> HIDE DEF p, q
  <2>6. p # r /\ q # r /\ p # q
    BY <2>3, <2>4
  <2>7. p \notin S /\ q \notin S /\ r \notin S
    BY <2>4, <2>5
  <2> QED BY <2>1, <2>2, <2>4, <2>6, <2>7
<1> HIDE DEF p, q
<1>3. ASSUME NEW c \in 1 .. Len(ns)
      PROVE  /\ new(c) \in Node
             /\ new(c).parent = IF c = r \/ c \in S THEN p ELSE ns[c].parent
             /\ new(c).prev = IF c = r THEN q ELSE ns[c].prev
             /\ new(c).next = IF c = q THEN ns[r].first ELSE ns[c].next
             /\ new(c).first = IF c = p /\ q = 0 THEN r ELSE ns[c].first
             /\ new(c).last = IF c = p /\ p # q THEN ns[r].last ELSE ns[c].last
             /\ new(c).value = ns[c].value
  <2> DEFINE x == ns[c]
             first == ns[r].first
             last == ns[r].last
             y == new(c)
  <2>0. x \in Node /\ first \in Nat /\ last \in Nat /\ x.first \in Nat
    <3>1. x \in Node
      OBVIOUS
    <3> QED BY <3>1, <1>2 DEF Node
  <2>1. CASE c = q
    <3>0. c # p /\ c # r /\ c \notin S
      BY <2>1, <1>2
    <3>1. y = [x EXCEPT !.next = first]
      BY <2>1, <3>0
    <3> HIDE DEF y, x, first
    <3>2. /\ y \in Node /\ y.parent = x.parent /\ y.next = first /\ y.prev = x.prev
          /\ y.first = x.first /\ y.last = x.last /\ y.value = x.value
      BY <3>1, <2>0 DEF Node
    <3>3. c # r /\ c \notin S /\ ~(c = p /\ q = 0) /\ ~(c = p /\ p # q)
      BY <2>1, <1>2
    <3> QED BY <3>2, <3>3, <2>1 DEF y, x, first
  <2>2. CASE c = p /\ c # q
    <3> DEFINE f == IF q = 0 THEN r ELSE x.first
    <3>1. y = [x EXCEPT !.first = f, !.last = last] /\ f \in Nat
      BY <2>0, <2>2, <1>2
    <3> HIDE DEF y, x, last, f
    <3>2. /\ y \in Node /\ y.parent = x.parent /\ y.next = x.next /\ y.prev = x.prev
          /\ y.first = f /\ y.last = last /\ y.value = x.value
      BY <3>1, <2>0 DEF Node
    <3>3. c # r /\ c \notin S /\ p # q
      BY <2>2, <1>2
    <3> QED BY <3>2, <3>3, <2>2 DEF y, x, last, f
  <2>3. CASE c = r
    <3>1. y = [x EXCEPT !.parent = p, !.prev = q]
      BY <2>3, <1>2
    <3> HIDE DEF y, x
    <3>2. /\ y \in Node /\ y.parent = p /\ y.next = x.next /\ y.prev = q
          /\ y.first = x.first /\ y.last = x.last /\ y.value = x.value
      BY <3>1, <2>0, <1>2 DEF Node
    <3>3. c # q /\ c # p
      BY <2>3, <1>2
    <3> QED BY <3>2, <3>3, <2>3 DEF y, x
  <2>4. CASE c \in S
    <3>3. c # q /\ c # p /\ c # r
      BY <2>4, <1>2
    <3>1. y = [x EXCEPT !.parent = p]
      BY <2>4, <3>3
    <3> HIDE DEF y, x
    <3>2. /\ y \in Node /\ y.parent = p /\ y.next = x.next /\ y.prev = x.prev
          /\ y.first = x.first /\ y.last = x.last /\ y.value = x.value
      BY <3>1, <2>0, <1>2 DEF Node
    <3> QED BY <3>2, <3>3, <2>4 DEF y, x
  <2>5. CASE c # q /\ c # p /\ c # r /\ c \notin S
    <3>1. y = x
      BY <2>5
    <3> QED BY <3>1, <2>0, <2>5
  <2> QED BY <2>1, <2>2, <2>3, <2>4, <2>5
<1> HIDE DEF new
<1>4. /\ m \in Seq(Node) /\ Len(m) = Len(ns)
      /\ \A c \in 1 .. Len(ns) : m[c] = new(c)
  BY <1>2, <1>3
<1> HIDE DEF m
<1>5. Spliced(ns, m, inc, r, S)
  BY <1>3, <1>4 DEF Spliced, p, q
<1>6. \A c \in 1 .. Len(ns) : m[c].value = ns[c].value
  BY <1>3, <1>4
<1> QED BY <1>1, <1>4, <1>5, <1>6

\* The nodes that a file has put at its top.
Sub(ns, r) == Range(Chain(ns, ns[r].first))

LEMMA SubChain ==
  ASSUME NEW ns \in Seq(Node), NEW u, NEW G, NEW h, NEW fs, NEW r \in 1 .. Len(ns),
         Tree(ns, u, G, h, fs), r \notin G, ns[r].first # 0
  PROVE  /\ \A c \in Sub(ns, r) : c \in Nat /\ r < c
         /\ h \/ Sub(ns, r) = Kids(ns, G, r)
<1> DEFINE p == ns[r].first
           s == Chain(ns, p)
<1>1. Len(ns) \in Nat /\ Forward(ns) /\ (h \/ AllLinked(ns, G))
  BY DEF Tree
<1>2. p \in 1 .. Len(ns) /\ r < p
  <2>1. p \in r + 1 .. Len(ns)
    BY <1>1 DEF Forward
  <2> HIDE DEF p
  <2> QED BY <2>1
<1> HIDE DEF p
<1>3. Walk(ns, p, s)
  BY <1>1, <1>2, ChainWalks
<1> HIDE DEF s
<1>4. s \in Seq(1 .. Len(ns)) /\ Len(s) >= 1 /\ s[1] = p
  BY <1>3 DEF Walk
<1>5. \A i, j \in 1 .. Len(s) : i < j => s[i] < s[j]
  BY <1>1, <1>3, WalkAscends
<1>6. ASSUME NEW c \in Range(s) PROVE c \in Nat /\ r < c
  <2>1. PICK i \in DOMAIN s : c = s[i]
    BY DEF Range
  <2>2. Len(s) \in Nat /\ i \in 1 .. Len(s) /\ 1 \in 1 .. Len(s) /\ s[i] \in 1 .. Len(ns)
    BY <1>4
  <2>3. CASE i = 1
    BY <2>1, <2>3, <1>4, <1>2
  <2>4. CASE i # 1
    <3>1. s[1] < s[i]
      BY <2>2, <2>4, <1>5
    <3> QED BY <3>1, <2>1, <2>2, <1>4, <1>2
  <2> QED BY <2>3, <2>4
<1>7. ASSUME ~h PROVE Range(s) = Kids(ns, G, r)
  <2>1. Linked(ns, G, r) /\ ns[r].first # 0 /\ Walk(ns, ns[r].first, s)
    BY <1>1, <1>3, <1>7 DEF AllLinked, p
  <2> QED BY <2>1, <1>1, WalkKids
<1> QED BY <1>6, <1>7 DEF s, p, Sub

\* parse_include: what was read takes the place of the include.
LEMMA SpliceGood ==
  ASSUME GoodNow, Top.inc # 0, nodes[Top.root].first # 0
  PROVE  Good(Splice(nodes, Top.inc, Top.root), up, said,
              gone \cup {Top.root, Top.inc} \cup {n \in 1 .. Len(nodes) : up[n] = Top.inc},
              headInclude \/ nodes[Top.inc].prev = 0, Front(frames))
<1> DEFINE inc == Top.inc
           r == Top.root
           S == Range(Chain(nodes, nodes[r].first))
           m == Splice(nodes, inc, r)
           H == SpliceGone(nodes, up, gone, inc, r)
           h == headInclude \/ nodes[inc].prev = 0
<1>1. /\ frames \in Seq(FrameRec) /\ Len(frames) \in Nat /\ Len(nodes) \in Nat
      /\ Top = frames[Len(frames)]
      /\ \A i \in 1 .. Len(frames) : BufOK(frames[i])
      /\ nodes \in Seq(Node) /\ up \in Seq(Nat) /\ said \in Seq(Meaning)
      /\ Len(up) = Len(nodes) /\ Len(said) = Len(nodes) /\ gone \subseteq 1 .. Len(nodes)
      /\ Tree(nodes, up, gone, headInclude, frames) /\ Values(nodes, said, frames)
  BY TopFacts
<1>2. Len(frames) > 1 /\ Forward(nodes)
  BY FilesOpen
<1>3. Innermost(frames, inc, r) /\ nodes[r].first # 0
  BY <1>1 DEF Innermost
<1>4. \A i \in 1 .. Len(frames) : frames[i].node \in 1 .. Len(nodes)
  BY FrameNodes DEF GoodNow
<1> HIDE DEF inc, r
<1>5. /\ inc \in 1 .. Len(nodes) /\ r \in 1 .. Len(nodes) /\ inc < r /\ r \notin gone
      /\ nodes[inc].parent \in 1 .. inc - 1 /\ nodes[inc].prev \in 0 .. inc - 1
  BY <1>1, <1>2, <1>3, BeforeSplice
<1>6. /\ \A c \in S : c \in Nat /\ r < c
      /\ headInclude \/ S = Kids(nodes, gone, r)
  <2>1. /\ \A c \in Sub(nodes, r) : c \in Nat /\ r < c
        /\ headInclude \/ Sub(nodes, r) = Kids(nodes, gone, r)
    BY <1>1, <1>3, <1>5, SubChain
  <2> QED BY <2>1 DEF Sub
<1>7. /\ m \in Seq(Node) /\ Spliced(nodes, m, inc, r, S)
      /\ \A c \in 1 .. Len(nodes) : m[c].value = nodes[c].value
  <2> DEFINE T == S
  <2>1. T = Range(Chain(nodes, nodes[r].first)) /\ \A c \in T : c \in Nat /\ r < c
    BY <1>6
  <2> HIDE DEF T
  <2>2. /\ m \in Seq(Node) /\ Spliced(nodes, m, inc, r, T)
        /\ \A c \in 1 .. Len(nodes) : m[c].value = nodes[c].value
    BY <2>1, <1>1, <1>2, <1>5, Splices
  <2> QED BY <2>2 DEF T
<1> HIDE DEF m, S
<1>8. Outer(frames, Front(frames))
  BY <1>1, <1>2, FrontOuter
<1>9. Tree(m, up, H, h, Front(frames))
  <2> DEFINE gs == Front(frames)
  <2> HIDE DEF gs
  <2>1. Outer(frames, gs)
    BY <1>8 DEF gs
  <2>2. Tree(m, up, SpliceGone(nodes, up, gone, inc, r), headInclude \/ nodes[inc].prev = 0, gs)
    BY <2>1, <1>1, <1>2, <1>3, <1>6, <1>7, SpliceTree
  <2> QED BY <2>2 DEF gs
<1>10. Len(m) = Len(nodes) /\ \A c \in 1 .. Len(nodes) : m[c].first = 0 => nodes[c].first = 0
  <2>1. /\ Len(m) = Len(nodes)
        /\ \A c \in 1 .. Len(nodes) : \/ m[c].first = nodes[c].first \/ m[c].first = r
    BY <1>7 DEF Spliced
  <2> QED BY <2>1, <1>5
<1>11. H \subseteq 1 .. Len(m)
  BY <1>1, <1>5, <1>10 DEF SpliceGone
<1>12. H = gone \cup {r, inc} \cup {n \in 1 .. Len(nodes) : up[n] = inc}
  BY DEF SpliceGone
<1> HIDE DEF H, h
<1>13. Good(m, up, said, H, h, Front(frames))
  BY <1>1, <1>2, <1>4, <1>7, <1>9, <1>10, <1>11, OuterGood
<1> QED BY <1>12, <1>13 DEF m, h, inc, r

\* The end of an included file.
LEMMA InvEndOfInclude ==
  ASSUME Inv, EndOfInclude
  PROVE  Inv'
<1>1. /\ GoodNow /\ family \in DOMAIN Families /\ error \in BOOLEAN /\ headInclude \in BOOLEAN
  BY InvParts
<1>2. /\ phase = "parse" /\ Top.inc # 0 /\ frames' = Front(frames)
      /\ UNCHANGED <<family, phase, error, up, said>>
  BY DEF EndOfInclude
<1>3. CASE nodes[Top.root].first # 0
  <2>1. /\ nodes' = Splice(nodes, Top.inc, Top.root)
        /\ gone' = gone \cup {Top.root, Top.inc}
                     \cup {n \in 1 .. Len(nodes) : up[n] = Top.inc}
        /\ headInclude' = (headInclude \/ nodes[Top.inc].prev = 0)
    BY <1>3 DEF EndOfInclude
  <2>2. GoodNow'
    BY <2>1, <1>1, <1>2, <1>3, SpliceGood DEF GoodNow
  <2>3. headInclude' \in BOOLEAN
    BY <2>1
  <2> QED BY <2>2, <2>3, <1>1, <1>2, InvNext
<1>4. CASE nodes[Top.root].first = 0
  <2> DEFINE r == Top.root
             D == {r}
  <2>1. gone' = gone \cup D /\ UNCHANGED <<nodes, headInclude>>
    BY <1>4 DEF EndOfInclude
  <2>2. /\ frames \in Seq(FrameRec) /\ Len(frames) \in Nat /\ Len(nodes) \in Nat
        /\ Top = frames[Len(frames)]
        /\ \A i \in 1 .. Len(frames) : BufOK(frames[i])
        /\ nodes \in Seq(Node) /\ up \in Seq(Nat) /\ said \in Seq(Meaning)
        /\ Len(up) = Len(nodes) /\ Len(said) = Len(nodes) /\ gone \subseteq 1 .. Len(nodes)
        /\ Tree(nodes, up, gone, headInclude, frames) /\ Values(nodes, said, frames)
    BY <1>1, TopFacts
  <2>3. Len(frames) > 1 /\ PartOK(nodes, gone, Top)
    BY <1>1, <1>2, FilesOpen
  <2>4. r \in 1 .. Len(nodes) /\ nodes[r].parent = 0 /\ r \notin gone /\ nodes[r].first = 0
    <3>1. /\ Top.root \in Nat \ {0} /\ Top.node \in Nat /\ Top.root <= Top.node
          /\ Top.node <= Len(nodes) /\ nodes[Top.root].parent = 0 /\ Top.root \notin gone
      BY <2>3 DEF PartOK
    <3> HIDE DEF Top
    <3>2. Top.root \in 1 .. Len(nodes)
      BY <3>1, <2>2, SMTT(30)
    <3> QED BY <3>1, <3>2, <1>4
  <2>5. r = frames[Len(frames)].root
    BY <2>2
  <2> HIDE DEF r
  <2>6. headInclude \/ Kids(nodes, gone \cup D, r) = {}
    <3> SUFFICES ASSUME ~headInclude PROVE Kids(nodes, gone \cup D, r) = {}
      OBVIOUS
    <3>1. Linked(nodes, gone, r)
      BY <2>2, <2>4 DEF Tree, AllLinked
    <3>2. Kids(nodes, gone, r) = {}
      BY <3>1, <2>4 DEF Linked, Least
    <3> QED BY <3>2 DEF Kids
  <2>7. Tree(nodes, up, gone \cup D, headInclude, Front(frames))
    <3> DEFINE gs == Front(frames)
    <3>1. Outer(frames, gs)
      BY <2>2, <2>3, FrontOuter
    <3>2. /\ D \subseteq frames[Len(frames)].root .. Len(nodes) /\ frames[Len(frames)].root \in D
          /\ \A c \in D : nodes[c].parent = 0 \/ nodes[c].parent \in D
          /\ headInclude \/ Kids(nodes, gone \cup D, frames[Len(frames)].root) = {}
      <4>1. r \in r .. Len(nodes)
        BY <2>4, <2>2
      <4> QED BY <4>1, <2>4, <2>5, <2>6
    <3> HIDE DEF gs, D
    <3>3. Tree(nodes, up, gone \cup D, headInclude, gs)
      BY <3>1, <3>2, <2>2, <2>3, DropTree
    <3> QED BY <3>3 DEF gs
  <2> DEFINE H == gone \cup D
  <2>8. H \subseteq 1 .. Len(nodes) /\ Tree(nodes, up, H, headInclude, Front(frames))
    BY <2>2, <2>4, <2>7
  <2> HIDE DEF D
  <2>9. \A i \in 1 .. Len(frames) : frames[i].node \in 1 .. Len(nodes)
    BY <1>1, FrameNodes DEF GoodNow
  <2>10. Good(nodes, up, said, H, headInclude, Front(frames))
    <3> HIDE DEF H
    <3> QED BY <2>2, <2>3, <2>8, <2>9, OuterGood
  <2>11. GoodNow'
    BY <2>1, <2>10, <1>2 DEF GoodNow
  <2> QED BY <1>1, <1>2, <2>1, <2>11, InvNext
<1> QED BY <1>3, <1>4

\* One end tag too many.
LEMMA InvReadSurplusEndTag ==
  ASSUME Inv, ReadSurplusEndTag
  PROVE  Inv'
<1>1. phase' = "crashed" /\ UNCHANGED <<family, nodes, frames, error, history>>
  BY DEF ReadSurplusEndTag
<1> QED BY <1>1, InvSame

\* The end of the file that is not included.
LEMMA InvEndOfFile ==
  ASSUME Inv, EndOfFile
  PROVE  Inv'
<1>1. /\ Top.inc = 0 /\ phase' = "parsed"
      /\ UNCHANGED <<family, nodes, frames, error, history>>
  BY DEF EndOfFile
<1>2. GoodNow
  BY InvParts
<1>3. ~(Len(frames) > 1) /\ Len(frames) \in Nat /\ Len(frames) > 0
  BY <1>1, <1>2, FilesOpen, TopFacts
<1> DEFINE k == Len(frames)
<1>4. k = 1
  <2>1. k \in Nat /\ k > 0 /\ ~(k > 1)
    BY <1>3
  <2> HIDE DEF k
  <2> QED BY <2>1
<1> QED BY <1>1, <1>4, InvSame

\* The walk over the tree, which leaves it alone.
LEMMA InvInitConfig ==
  ASSUME Inv, InitConfig
  PROVE  Inv'
<1>1. /\ phase \in {"parsed", "refused"} /\ phase' = "init"
      /\ UNCHANGED <<family, nodes, frames, error, history>>
  BY DEF InitConfig
<1>2. Len(frames) = 1
  BY <1>1, InvParts
<1> QED BY <1>1, <1>2, InvSame

LEMMA InvReadWebXml ==
  ASSUME Inv, ReadWebXml
  PROVE  Inv'
<1>1. /\ phase \in {"parsed", "refused"} /\ phase' = "init"
      /\ UNCHANGED <<family, nodes, frames, error, history>>
  BY DEF ReadWebXml
<1>2. Len(frames) = 1
  BY <1>1, InvParts
<1> QED BY <1>1, <1>2, InvSame

LEMMA InvStutter ==
  ASSUME Inv, UNCHANGED vars
  PROVE  Inv'
<1>1. /\ phase' = phase /\ UNCHANGED <<family, nodes, frames, error, history>>
  BY DEF vars, regVars
<1>2. /\ phase \in {"parse", "parsed", "refused", "crashed", "init"}
      /\ phase \in {"parsed", "refused", "init"} => Len(frames) = 1
  BY InvParts
<1> QED BY <1>1, <1>2, InvSame

\* A file that has just been opened.
LEMMA FreshText ==
  ASSUME NEW ns, NEW s, NEW f, f.buf = <<>>, f.run = <<>>, ~f.fresh
  PROVE  TextOK(ns, s, f)
  BY NoSpace DEF TextOK

\* cse_init_web_app: web.xml is parsed into a root of its own.
LEMMA InvInitWebApp ==
  ASSUME Inv, InitWebApp
  PROVE  Inv'
<1>1. /\ phase = "init" /\ UNCHANGED <<family, error, gone, headInclude>>
      /\ \/ UNCHANGED <<nodes, frames, phase, up, said>>
         \/ /\ nodes' = Append(nodes, NewNode("")) /\ up' = Append(up, 0)
            /\ said' = Append(said, Null)
            /\ frames' = <<Frame(Len(nodes) + 1, 0, "web.xml")>>
            /\ phase' = "parse"
  BY DEF InitWebApp
<1>2. /\ GoodNow /\ family \in DOMAIN Families /\ error \in BOOLEAN /\ headInclude \in BOOLEAN
      /\ phase \in {"parsed", "refused", "init"} => Len(frames) = 1
  BY InvParts
<1>3. CASE UNCHANGED <<nodes, frames, phase, up, said>>
  BY <1>1, <1>2, <1>3, InvSame DEF history
<1>4. CASE /\ nodes' = Append(nodes, NewNode("")) /\ up' = Append(up, 0)
           /\ said' = Append(said, Null)
           /\ frames' = <<Frame(Len(nodes) + 1, 0, "web.xml")>>
           /\ phase' = "parse"
  <2> DEFINE m == Append(nodes, NewNode(""))
             v == Append(up, 0)
             t == Append(said, Null)
             context == "web.xml"
             g == Frame(Len(nodes) + 1, 0, context)
             gs == <<g>>
  <2>1. /\ frames \in Seq(FrameRec) /\ Len(frames) \in Nat /\ Len(nodes) \in Nat
        /\ nodes \in Seq(Node) /\ up \in Seq(Nat) /\ said \in Seq(Meaning)
        /\ Len(up) = Len(nodes) /\ Len(said) = Len(nodes) /\ gone \subseteq 1 .. Len(nodes)
        /\ Tree(nodes, up, gone, headInclude, frames) /\ Values(nodes, said, frames)
    BY <1>2, TopFacts
  <2>2. Len(frames) = 1 /\ \A i \in 1 .. Len(frames) : frames[i].node \in 1 .. Len(nodes)
    BY <1>1, <1>2, FrameNodes DEF GoodNow
  <2>3. /\ m \in Seq(Node) /\ v \in Seq(Nat) /\ t \in Seq(Meaning)
        /\ Len(v) = Len(m) /\ Len(t) = Len(m) /\ Grown(nodes, m, up, v)
        /\ \A c \in 1 .. Len(nodes) : t[c] = said[c]
        /\ m[Len(m)].value = Null /\ t[Len(m)] = Null
    BY <2>1, Grows
  <2>4. context \in Name
    BY DEF Name
  <2> HIDE DEF m, v, t, context
  <2>5. /\ g \in FrameRec /\ BufOK(g) /\ g.root = Len(nodes) + 1 /\ g.node = Len(nodes) + 1
        /\ g.inc = 0 /\ g.buf = <<>> /\ g.run = <<>> /\ ~g.fresh
    <3> DEFINE root == Len(nodes) + 1
               inc == 0
    <3>1. root \in Nat /\ inc \in Nat
      BY <2>1
    <3> HIDE DEF root, inc
    <3>2. LET f == Frame(root, inc, context)
          IN /\ f \in FrameRec /\ BufOK(f) /\ f.root = root /\ f.node = root /\ f.inc = inc
             /\ f.buf = <<>> /\ f.run = <<>> /\ ~f.fresh
      BY <3>1, <2>4, NewFrames
    <3> QED BY <3>2 DEF root, inc
  <2> HIDE DEF g
  <2>6. gs \in Seq(FrameRec) /\ Len(gs) = 1 /\ gs[1] = g /\ Len(gs) > 0
    BY <2>5
  <2> HIDE DEF gs
  <2>7. Tree(m, v, gone, headInclude, gs)
    <3>1. Len(m) = Len(nodes) + 1
      BY <2>3 DEF Grown
    <3>2. gs[1].root = Len(m) /\ gs[1].node = Len(m) /\ gs[1].inc = 0
      BY <3>1, <2>5, <2>6
    <3> QED BY <3>2, <2>1, <2>2, <2>3, <2>6, FileTree
  <2>8. \A c \in 1 .. Len(m) : ValueOK(m[c].value, t[c])
    <3>1. Values(m, t, frames)
      BY <2>1, <2>2, <2>3, GrownValues
    <3> QED BY <3>1 DEF Values
  <2>9. TextOK(m, t, g)
    BY <2>5, FreshText
  <2>10. gone \subseteq 1 .. Len(m)
    BY <2>1, <2>3 DEF Grown
  <2>11. /\ \A i \in 1 .. Len(gs) : BufOK(gs[i]) /\ TextOK(m, t, gs[i])
    BY <2>5, <2>6, <2>9
  <2>12. Good(m, v, t, gone, headInclude, gs)
    BY <2>3, <2>6, <2>7, <2>8, <2>10, <2>11 DEF Good, Shape, Values
  <2>13. GoodNow'
    BY <2>12, <1>1, <1>4 DEF GoodNow, m, v, t, gs, g, context
  <2> QED BY <2>13, <1>1, <1>2, <1>4, InvNext
<1> QED BY <1>1, <1>3, <1>4

\* A registry that has one node.
LEMMA OneTree ==
  ASSUME NEW ns, NEW u, NEW fs, Len(ns) = 1, Len(fs) = 1,
         ns[1].parent = 0, ns[1].next = 0, ns[1].prev = 0, ns[1].first = 0, ns[1].last = 0,
         u[1] = 0, fs[1].root = 1, fs[1].node = 1, fs[1].inc = 0
  PROVE  Tree(ns, u, {}, FALSE, fs)
<1>1. Forward(ns)
  BY DEF Forward
<1>2. PartOK(ns, {}, fs[1])
  BY DEF PartOK
<1>3. Open(ns, {}, FALSE, fs[1], {1})
  BY DEF Open
<1>0. (\A i \in 1 .. Len(fs) : i = 1) /\ ~(\E i \in 2 .. Len(fs) : TRUE) /\ Len(fs) > 0
  OBVIOUS
<1>4. FilesOK(ns, {}, FALSE, fs)
  <2>1. \A i, j \in 1 .. Len(fs) : ~(i < j)
    OBVIOUS
  <2>2. \A i \in 1 .. Len(fs) : PartOK(ns, {}, fs[i]) /\ \E O : Open(ns, {}, FALSE, fs[i], O)
    BY <1>0, <1>2, <1>3
  <2>3. \A i \in 2 .. Len(fs) : IncOK(ns, {}, FALSE, fs[i], fs[i - 1].node)
    BY <1>0
  <2> QED BY <1>0, <2>1, <2>2, <2>3 DEF FilesOK
<1>5. Kids(ns, {}, 1) = {}
  BY DEF Kids
<1>6. AllLinked(ns, {})
  BY <1>5 DEF AllLinked, Linked, Least, Greatest
<1>7. ParentsOK(ns, u, {}, fs)
  BY DEF ParentsOK
<1>8. \A c \in 1 .. Len(ns) : u[c] \in 0 .. c - 1
  <2>1. \A c \in 1 .. Len(ns) : c = 1
    OBVIOUS
  <2>2. 0 \in 0 .. 1 - 1
    OBVIOUS
  <2> QED BY <2>1, <2>2
<1> QED BY <1>1, <1>4, <1>6, <1>7, <1>8 DEF Tree

\* The registry is empty when the parse begins.
LEMMA InvInit ==
  ASSUME ConfigInit
  PROVE  Inv
<1> DEFINE key == ""
           x == NewNode(key)
           g == Frame(1, 0, key)
<1>1. /\ family \in DOMAIN Families /\ nodes = <<x>> /\ frames = <<g>>
      /\ phase = "parse" /\ error = FALSE
      /\ up = <<0>> /\ said = <<Null>> /\ gone = {} /\ headInclude = FALSE
  BY DEF ConfigInit, Init
<1>2. key \in Name
  BY DEF Name
<1> HIDE DEF key
<1>3. /\ x \in Node /\ x.value = Null /\ x.parent = 0 /\ x.next = 0 /\ x.prev = 0
      /\ x.first = 0 /\ x.last = 0
  BY <1>2, NewNodes
<1>4. /\ g \in FrameRec /\ BufOK(g) /\ g.root = 1 /\ g.node = 1
      /\ g.inc = 0 /\ g.buf = <<>> /\ g.run = <<>> /\ ~g.fresh
  <2> DEFINE root == 1
             inc == 0
  <2>1. root \in Nat /\ inc \in Nat
    OBVIOUS
  <2> HIDE DEF root, inc
  <2>2. LET f == Frame(root, inc, key)
        IN /\ f \in FrameRec /\ BufOK(f) /\ f.root = root /\ f.node = root /\ f.inc = inc
           /\ f.buf = <<>> /\ f.run = <<>> /\ ~f.fresh
    BY <2>1, <1>2, NewFrames
  <2> QED BY <2>2 DEF root, inc
<1> HIDE DEF x, g
<1>5. /\ nodes \in Seq(Node) /\ Len(nodes) = 1 /\ nodes[1] = x
      /\ frames \in Seq(FrameRec) /\ Len(frames) = 1 /\ frames[1] = g
  BY <1>1, <1>3, <1>4
<1>6. Null \in Meaning
  BY DEF Meaning
<1> DEFINE null == Null
<1>7. null \in Meaning /\ said = <<null>>
  BY <1>1, <1>6
<1> HIDE DEF null
<1>8. /\ up \in Seq(Nat) /\ Len(up) = 1 /\ up[1] = 0
      /\ said \in Seq(Meaning) /\ Len(said) = 1 /\ said[1] = null
  BY <1>1, <1>7
<1>9. Tree(nodes, up, gone, headInclude, frames)
  <2>1. /\ nodes[1].parent = 0 /\ nodes[1].next = 0 /\ nodes[1].prev = 0
        /\ nodes[1].first = 0 /\ nodes[1].last = 0
        /\ frames[1].root = 1 /\ frames[1].node = 1 /\ frames[1].inc = 0
    BY <1>3, <1>4, <1>5
  <2>2. Tree(nodes, up, {}, FALSE, frames)
    BY <2>1, <1>5, <1>8, OneTree
  <2> QED BY <2>2, <1>1
<1>10. Values(nodes, said, frames)
  <2>1. ValueOK(nodes[1].value, said[1])
    BY <1>3, <1>5, <1>8 DEF ValueOK, null
  <2>2. TextOK(nodes, said, g)
    BY <1>4, FreshText
  <2> QED BY <2>1, <2>2, <1>5 DEF Values
<1>11. GoodNow
  <2>1. gone \subseteq 1 .. Len(nodes) /\ Len(frames) > 0 /\ Len(up) = Len(nodes)
        /\ Len(said) = Len(nodes) /\ \A i \in 1 .. Len(frames) : BufOK(frames[i])
    BY <1>1, <1>4, <1>5, <1>8
  <2> QED BY <2>1, <1>5, <1>8, <1>9, <1>10 DEF GoodNow, Good, Shape
<1> QED BY <1>1, <1>11, InvParts

LEMMA InvStep ==
  ASSUME Inv, Next
  PROVE  Inv'
<1>1. ASSUME NEW piece \in Ahead, ReadTag(piece) PROVE Inv'
  BY <1>1, InvReadTag
<1>2. ASSUME NEW piece \in Ahead, ReadText(piece) PROVE Inv'
  BY <1>2, InvReadText
<1>3. ASSUME NEW piece \in Ahead, ReadComment(piece) PROVE Inv'
  BY <1>3, InvReadComment
<1>4. CASE ReadEndTag
  BY <1>4, InvReadEndTag
<1>5. CASE ReadSurplusEndTag
  BY <1>5, InvReadSurplusEndTag
<1>6. CASE ReadMalformed
  BY <1>6, InvReadMalformed
<1>7. CASE EndOfInclude
  BY <1>7, InvEndOfInclude
<1>8. CASE EndOfFile
  BY <1>8, InvEndOfFile
<1>9. CASE InitConfig
  BY <1>9, InvInitConfig
<1>10. CASE InitWebApp
  BY <1>10, InvInitWebApp
<1>11. CASE ReadWebXml
  BY <1>11, InvReadWebXml
<1>12. CASE Running
  BY <1>12, InvStutter DEF Running
<1> QED BY <1>1, <1>2, <1>3, <1>4, <1>5, <1>6, <1>7, <1>8, <1>9, <1>10, <1>11, <1>12
        DEF Next, Parses

\* The inductive invariant of the registry: whatever the files hold, its links are
\* those of a tree and its values those that are written.
THEOREM RegistryInv == Spec => []Inv
<1>1. ConfigInit => Inv
  BY InvInit
<1>2. Inv /\ [Next]_vars => Inv'
  BY InvStep, InvStutter
<1> QED BY <1>1, <1>2, PTL DEF Spec

-----------------------------------------------------------------------------
(* What the files say.                                                      *)

\* Between the files, the nodes under an element are those written in it.
LEMMA KidsWritten ==
  ASSUME Inv, Len(frames) = 1, ~headInclude, NEW n
  PROVE  Kids(nodes, gone, n) = Children(n)
<1>1. ParentsOK(nodes, up, gone, frames)
  BY DEF Inv, TreeInv, Tree
<1>2. \A c \in 1 .. Len(nodes) \ gone : nodes[c].parent = up[c]
  <2>1. ~(\E i \in 2 .. Len(frames) : TRUE)
    OBVIOUS
  <2> QED BY <1>1, <2>1 DEF ParentsOK
<1> QED BY <1>2 DEF Kids, Children

LEMMA InvAsWritten ==
  ASSUME Inv, Len(frames) = 1, ~headInclude
  PROVE  AsWritten
<1> SUFFICES ASSUME NEW n \in 1 .. Len(nodes) \ gone
             PROVE  LET chain == Chain(nodes, nodes[n].first)
                    IN /\ InOrder(chain, Children(n))
                       /\ nodes[n].last = IF chain = <<>> THEN 0 ELSE Last(chain)
                       /\ \A c \in Children(n) : nodes[c].parent = n
  BY DEF AsWritten
<1> DEFINE first == nodes[n].first
           s == Chain(nodes, first)
<1>1. Kids(nodes, gone, n) = Children(n)
  BY KidsWritten
<1>2. Linked(nodes, gone, n) /\ Forward(nodes) /\ Len(nodes) \in Nat
  BY DEF Inv, TreeInv, Tree, AllLinked, Types, Shape
<1>3. \A c \in Children(n) : nodes[c].parent = n
  BY <1>1 DEF Kids
<1>4. CASE first = 0
  <2>1. s = <<>>
    BY <1>4 DEF Chain
  <2>2. Children(n) = {} /\ nodes[n].last = 0
    BY <1>1, <1>2, <1>4 DEF Linked, Least, Greatest
  <2>3. InOrder(<<>>, {})
    BY DEF InOrder, Range
  <2> HIDE DEF s
  <2> QED BY <1>3, <2>1, <2>2, <2>3 DEF s, first
<1>5. CASE first # 0
  <2>1. first \in 1 .. Len(nodes)
    <3>1. first \in n + 1 .. Len(nodes)
      BY <1>2, <1>5 DEF Forward
    <3> HIDE DEF first
    <3> QED BY <3>1
  <2>2. Walk(nodes, first, s)
    <3> HIDE DEF first
    <3> QED BY <1>2, <2>1, ChainWalks
  <2> HIDE DEF s
  <2>3. Range(s) = Kids(nodes, gone, n) /\ nodes[n].last = Last(s)
    BY <1>2, <1>5, <2>2, WalkKids
  <2>4. \A i, j \in 1 .. Len(s) : i < j => s[i] < s[j]
    BY <1>2, <2>2, WalkAscends
  <2>5. s # <<>>
    BY <2>2 DEF Walk
  <2>6. InOrder(s, Children(n))
    BY <2>3, <2>4, <1>1 DEF InOrder
  <2> QED BY <1>3, <2>3, <2>5, <2>6 DEF s
<1> QED BY <1>4, <1>5

\* The registry is the tree that the files describe: between two pieces of the main
\* file the links first, next, last and parent that registry_add and parse_include
\* have set give every element the children that are written in it, in order, with
\* those of included files, however deep, in place of the resin:include.
THEOREM TreeWritten == Spec => []TreeAsWritten
<1>1. Inv => TreeAsWritten
  BY InvAsWritten DEF TreeAsWritten
<1> QED BY <1>1, RegistryInv, PTL

\* A value is what is written: neither the text of another element nor memory that
\* buf_append has not written (Junk) gets into a value that fits the buffer.
THEOREM ValuesWhole == Spec => []ValueWhole
<1>1. ASSUME Inv PROVE ValueWhole
  <2>1. \A n \in 1 .. Len(nodes) : ValueOK(nodes[n].value, said[n])
    BY <1>1 DEF Inv, ValueInv, Values
  <2> QED BY <2>1 DEF ValueWhole, ValueOK, Fits
<1> QED BY <1>1, RegistryInv, PTL

-----------------------------------------------------------------------------
(* What cse_init_config keeps.                                              *)

LocFields == {"host", "port", "prefix", "suffix", "is_exact"}

LocsOK(locs) == \E S : locs \in Seq(S) /\ \A loc \in S : DOMAIN loc = LocFields

LEMMA LocationFields ==
  ASSUME NEW host, NEW prefix, NEW pattern
  PROVE  DOMAIN Location(host, prefix, pattern) = LocFields
<1> DEFINE loc(p, s, e) == [host |-> Before(host, ":"), port |-> Atoi(After(host, ":")),
                       prefix |-> p, suffix |-> s, is_exact |-> e]
           path == Path(prefix, pattern)
<1>1. \A p, s, e : DOMAIN loc(p, s, e) = LocFields
  BY DEF LocFields
<1>2. \E p, s, e : Location(host, prefix, pattern) = loc(p, s, e)
  <2> HIDE DEF loc
  <2>1. CASE pattern = <<>>
    <3>1. Location(host, prefix, pattern) = loc(CleanPrefix(prefix, pattern), NoSuffix, FALSE)
      BY <2>1 DEF Location, loc
    <3> QED BY <3>1
  <2>2. CASE pattern # <<>> /\ pattern[1] = "*"
    <3>1. Location(host, prefix, pattern)
            = loc(CleanPrefix(prefix, pattern), Tail(pattern), FALSE)
      BY <2>2 DEF Location, loc
    <3> QED BY <3>1
  <2>3. CASE pattern # <<>> /\ Len(pattern) = 1 /\ pattern[1] # "*"
    <3>1. Location(host, prefix, pattern) = loc(Front(path), NoSuffix, FALSE)
      BY <2>3 DEF Location, loc
    <3> QED BY <3>1
  <2>4. CASE pattern # <<>> /\ Len(pattern) # 1 /\ Len(pattern) > 1 /\ pattern[1] # "*" /\ Last(path) # "*"
    <3>1. Location(host, prefix, pattern) = loc(path, NoSuffix, TRUE)
      BY <2>4 DEF Location, loc
    <3> QED BY <3>1
  <2>5. CASE /\ pattern # <<>> /\ pattern[1] # "*" /\ Len(pattern) # 1
             /\ ~(Len(pattern) > 1 /\ Last(path) # "*")
    <3>1. Location(host, prefix, pattern)
            = loc(IF Len(path) > 2 THEN SubSeq(path, 1, Len(path) - 2) ELSE path,
                  NoSuffix, FALSE)
      BY <2>5 DEF Location, loc
    <3> QED BY <3>1
  <2> QED BY <2>1, <2>2, <2>3, <2>4, <2>5
<1> QED BY <1>1, <1>2

LEMMA AddsLocation ==
  ASSUME NEW S, NEW locs \in Seq(S), NEW host, NEW prefix, NEW pattern,
         Location(host, prefix, pattern) \in S
  PROVE  AddLocation(locs, host, prefix, pattern) \in Seq(S)
<1> DEFINE loc == Location(host, prefix, pattern)
<1> HIDE DEF loc
<1>1. loc \in S
  BY DEF loc
<1>2. <<loc>> \o locs \in Seq(S)
  BY <1>1
<1>3. AddUnique(locs, loc) \in Seq(S)
  BY <1>2 DEF AddUnique
<1> QED BY <1>3 DEF AddLocation, loc

\* The nodes of a chain.
LEMMA ChainNodes ==
  ASSUME NEW ns, Len(ns) \in Nat, Forward(ns), NEW p \in 0 .. Len(ns)
  PROVE  Chain(ns, p) \in Seq(1 .. Len(ns))
<1>1. CASE p = 0
  BY <1>1 DEF Chain
<1>2. CASE p # 0
  <2>1. p \in 1 .. Len(ns)
    BY <1>2
  <2>2. Walk(ns, p, Chain(ns, p))
    BY <2>1, ChainWalks
  <2> QED BY <2>2 DEF Walk
<1> QED BY <1>1, <1>2

\* cse_init_web_app_contents keeps what is there and adds locations.
LEMMA ContentsOK ==
  ASSUME Len(nodes) \in Nat, Forward(nodes), NEW first \in 0 .. Len(nodes),
         NEW locs, LocsOK(locs), NEW host, NEW prefix
  PROVE  LocsOK(Contents(locs, first, host, prefix))
<1> DEFINE elems == Chain(nodes, first)
           N == Len(elems)
           pattern(n) == FindValue(nodes, nodes[n].first, "url-pattern")
           W == <<"/", "W", "/", "*">>
<1>0. elems \in Seq(1 .. Len(nodes)) /\ N \in Nat /\ \A k \in 1 .. N : elems[k] \in 1 .. Len(nodes)
  <2>1. elems \in Seq(1 .. Len(nodes))
    BY ChainNodes
  <2> QED BY <2>1
<1>1. PICK A : locs \in Seq(A) /\ \A loc \in A : DOMAIN loc = LocFields
  BY DEF LocsOK
<1> HIDE DEF elems, pattern, W
<1> DEFINE B == A \cup {Location(host, prefix, W)}
                  \cup {Location(host, prefix, pattern(n)) : n \in 1 .. Len(nodes)}
           S == Seq(B)
           b == AddLocation(locs, host, prefix, W)
           Adds(v, k) == IF nodes[elems[k]].key = "servlet-mapping" /\ pattern(elems[k]) # Null
                         THEN AddLocation(v, host, prefix, pattern(elems[k])) ELSE v
           F == [x \in S \X (1 .. N) |-> Adds(x[1], x[2])]
           T == S \X Nat
<1>2. \A loc \in B : DOMAIN loc = LocFields
  BY <1>1, LocationFields
<1>3. b \in S
  <2>1. locs \in Seq(B) /\ Location(host, prefix, W) \in B
    BY <1>1
  <2> HIDE DEF B
  <2> QED BY <2>1, AddsLocation
<1>4. ASSUME NEW v \in S, NEW k \in 1 .. N PROVE Adds(v, k) \in S
  <2>1. Location(host, prefix, pattern(elems[k])) \in B
    BY <1>0
  <2> HIDE DEF B
  <2>2. AddLocation(v, host, prefix, pattern(elems[k])) \in Seq(B)
    BY <2>1, AddsLocation
  <2> QED BY <2>2
<1> HIDE DEF S, b
<1>5. F \in [S \X (1 .. N) -> S] /\ \A v \in S, k \in 1 .. N : F[<<v, k>>] = Adds(v, k)
  <2> HIDE DEF Adds
  <2> QED BY <1>4
<1> DEFINE Step(d) == [k \in 0 .. N |-> IF k = 0 THEN b ELSE Adds(d[k - 1], k)]
           m == CHOOSE d : d = Step(d)
<1>6. PICK g \in [0 .. N -> S] : g[0] = b /\ \A k \in 1 .. N : g[k] = F[<<g[k - 1], k>>]
  <2>1. \E g : Loop(g, N, S, b, F)
    <3> HIDE DEF N, F
    <3> QED BY <1>0, <1>3, <1>5, Iterates
  <2> QED BY <2>1 DEF Loop
<1> HIDE DEF F, Adds
<1>7. g = Step(g)
  <2>1. ASSUME NEW k \in 0 .. N PROVE g[k] = Step(g)[k]
    <3>1. CASE k = 0
      BY <3>1, <1>6
    <3>2. CASE k # 0
      <4>1. k \in 1 .. N /\ k - 1 \in 0 .. N
        BY <3>2, <1>0
      <4>2. g[k - 1] \in S
        BY <4>1
      <4> QED BY <4>1, <4>2, <3>2, <1>5, <1>6
    <3> QED BY <3>1, <3>2
  <2> QED BY <2>1
<1>8. m = Step(m)
  BY <1>7
<1>9. Contents(locs, first, host, prefix) = m[N]
  BY DEF Contents, Adds, pattern, elems, b, W
<1> HIDE DEF m
<1>10. m[0] = b /\ \A k \in 1 .. N : m[k] = Adds(m[k - 1], k)
  <2>1. \A k \in 0 .. N : m[k] = IF k = 0 THEN b ELSE Adds(m[k - 1], k)
    BY <1>8, Zenon
  <2> QED BY <1>0, <2>1
<1>11. m[N] \in S
  <2>1. \A k \in 1 .. N : m[k - 1] \in S => m[k] = F[<<m[k - 1], k>>]
    BY <1>5, <1>10
  <2>2. b \in S /\ <<b, 0>> \in T /\ m[0] = b
    BY <1>3, <1>10
  <2>3. N \in Nat /\ F \in [S \X (1 .. N) -> S]
    BY <1>0, <1>5
  <2>4. \A k \in 1 .. N, v \in S : <<v, k - 1>> \in T => <<F[<<v, k>>], k>> \in T
    BY <2>3
  <2> HIDE DEF N, T
  <2> QED BY <2>1, <2>2, <2>3, <2>4, LoopValues
<1> QED BY <1>2, <1>9, <1>11 DEF LocsOK, S

\* The children of a node, as the loops over them see them.
Below(node) == Range(Chain(nodes, nodes[node].first))

\* The calls of cse_init_web_app that cse_init_host and cse_init_server make.
HostSet(node, host, dir) ==
  {App(node, host, <<>>, dir)}
    \cup {App(n, host, nodes[n].value, AppDir(n, AppDir(node, dir))) :
            n \in {c \in Below(node) : Named(c, "web-app")}}
ServerSet(node) ==
  HostSet(node, <<>>, ResinHome)
    \cup UNION {HostSet(n, nodes[n].value, AppDir(n, AppDir(node, ResinHome))) :
                  n \in {c \in Below(node) : Named(c, "host")}}

LEMMA BelowNodes ==
  ASSUME Len(nodes) \in Nat, Forward(nodes), NEW node \in 1 .. Len(nodes)
  PROVE  /\ Chain(nodes, nodes[node].first) \in Seq(1 .. Len(nodes))
         /\ Below(node) \subseteq 1 .. Len(nodes)
<1> DEFINE first == nodes[node].first
<1>1. first \in 0 .. Len(nodes)
  BY DEF Forward
<1> HIDE DEF first
<1>2. Chain(nodes, first) \in Seq(1 .. Len(nodes))
  BY <1>1, ChainNodes
<1> QED BY <1>2 DEF Below, Range, first

LEMMA HostAppsIn ==
  ASSUME Len(nodes) \in Nat, Forward(nodes), NEW node \in 1 .. Len(nodes), NEW host, NEW dir
  PROVE  HostApps(node, host, dir) \in Seq(HostSet(node, host, dir))
<1> DEFINE sub == Chain(nodes, nodes[node].first)
           N == Len(sub)
           hostDir == AppDir(node, dir)
           here == App(node, host, <<>>, dir)
           there(n) == App(n, host, nodes[n].value, AppDir(n, hostDir))
           B == HostSet(node, host, dir)
           S == Seq(B)
           b == <<here>>
           Adds(v, k) == IF Named(sub[k], "web-app") THEN Append(v, there(sub[k])) ELSE v
           F == [x \in S \X (1 .. N) |-> Adds(x[1], x[2])]
           T == S \X Nat
<1>0. N \in Nat /\ \A k \in 1 .. N : sub[k] \in Below(node)
  <2>1. sub \in Seq(1 .. Len(nodes))
    BY BelowNodes
  <2> QED BY <2>1 DEF Below, Range
<1>3. b \in S
  <2>1. here \in B
    BY DEF HostSet
  <2> HIDE DEF here, B
  <2> QED BY <2>1
<1>4. ASSUME NEW v \in S, NEW k \in 1 .. N PROVE Adds(v, k) \in S
  <2>1. CASE Named(sub[k], "web-app")
    <3>1. there(sub[k]) \in B
      BY <1>0, <2>1 DEF HostSet
    <3> HIDE DEF there, B
    <3>2. Append(v, there(sub[k])) \in Seq(B)
      BY <3>1
    <3> QED BY <2>1, <3>2
  <2>2. CASE ~Named(sub[k], "web-app")
    BY <2>2
  <2> QED BY <2>1, <2>2
<1> HIDE DEF S, b
<1>5. F \in [S \X (1 .. N) -> S] /\ \A v \in S, k \in 1 .. N : F[<<v, k>>] = Adds(v, k)
  <2> HIDE DEF Adds
  <2> QED BY <1>4
<1> DEFINE Step(d) == [k \in 0 .. N |-> IF k = 0 THEN b ELSE Adds(d[k - 1], k)]
           m == CHOOSE d : d = Step(d)
<1>6. PICK g \in [0 .. N -> S] : g[0] = b /\ \A k \in 1 .. N : g[k] = F[<<g[k - 1], k>>]
  <2>1. \E g : Loop(g, N, S, b, F)
    <3> HIDE DEF N, F
    <3> QED BY <1>0, <1>3, <1>5, Iterates
  <2> QED BY <2>1 DEF Loop
<1> HIDE DEF F, Adds
<1>7. g = Step(g)
  <2>1. ASSUME NEW k \in 0 .. N PROVE g[k] = Step(g)[k]
    <3>1. CASE k = 0
      BY <3>1, <1>6
    <3>2. CASE k # 0
      <4>1. k \in 1 .. N /\ k - 1 \in 0 .. N
        BY <3>2, <1>0
      <4>2. g[k - 1] \in S
        BY <4>1
      <4> QED BY <4>1, <4>2, <3>2, <1>5, <1>6
    <3> QED BY <3>1, <3>2
  <2> QED BY <2>1
<1>8. m = Step(m)
  BY <1>7
<1>9. HostApps(node, host, dir) = m[N]
  BY DEF HostApps, Adds, b
<1> HIDE DEF m
<1>10. m[0] = b /\ \A k \in 1 .. N : m[k] = Adds(m[k - 1], k)
  <2>1. \A k \in 0 .. N : m[k] = IF k = 0 THEN b ELSE Adds(m[k - 1], k)
    BY <1>8, Zenon
  <2> QED BY <1>0, <2>1
<1>11. m[N] \in S
  <2>1. \A k \in 1 .. N : m[k - 1] \in S => m[k] = F[<<m[k - 1], k>>]
    BY <1>5, <1>10
  <2>2. b \in S /\ <<b, 0>> \in T /\ m[0] = b
    BY <1>3, <1>10
  <2>3. N \in Nat /\ F \in [S \X (1 .. N) -> S]
    BY <1>0, <1>5
  <2>4. \A k \in 1 .. N, v \in S : <<v, k - 1>> \in T => <<F[<<v, k>>], k>> \in T
    BY <2>3
  <2> HIDE DEF N, T
  <2> QED BY <2>1, <2>2, <2>3, <2>4, LoopValues
<1> QED BY <1>9, <1>11 DEF S

LEMMA ServerAppsIn ==
  ASSUME Len(nodes) \in Nat, Forward(nodes), NEW node \in 1 .. Len(nodes)
  PROVE  ServerApps(node) \in Seq(ServerSet(node))
<1> DEFINE sub == Chain(nodes, nodes[node].first)
           N == Len(sub)
           appDir == AppDir(node, ResinHome)
           hosted(n) == HostApps(n, nodes[n].value, AppDir(n, appDir))
           B == ServerSet(node)
           S == Seq(B)
           b == HostApps(node, <<>>, ResinHome)
           Adds(v, k) == IF Named(sub[k], "host") THEN v \o hosted(sub[k]) ELSE v
           F == [x \in S \X (1 .. N) |-> Adds(x[1], x[2])]
           T == S \X Nat
<1>0. /\ N \in Nat /\ \A k \in 1 .. N : sub[k] \in Below(node)
      /\ Below(node) \subseteq 1 .. Len(nodes)
  <2>1. sub \in Seq(1 .. Len(nodes)) /\ Below(node) \subseteq 1 .. Len(nodes)
    BY BelowNodes
  <2> QED BY <2>1 DEF Below, Range
<1>3. b \in S
  <2>1. b \in Seq(HostSet(node, <<>>, ResinHome))
    BY HostAppsIn
  <2>2. HostSet(node, <<>>, ResinHome) \subseteq B
    BY DEF ServerSet
  <2> HIDE DEF b, B
  <2> QED BY <2>1, <2>2
<1>4. ASSUME NEW v \in S, NEW k \in 1 .. N PROVE Adds(v, k) \in S
  <2>1. CASE Named(sub[k], "host")
    <3> DEFINE H == HostSet(sub[k], nodes[sub[k]].value, AppDir(sub[k], appDir))
    <3>1. hosted(sub[k]) \in Seq(H)
      BY <1>0, HostAppsIn
    <3>2. H \subseteq B
      BY <1>0, <2>1 DEF ServerSet
    <3> HIDE DEF hosted, B, H
    <3>3. v \o hosted(sub[k]) \in Seq(B)
      BY <3>1, <3>2
    <3> QED BY <2>1, <3>3
  <2>2. CASE ~Named(sub[k], "host")
    BY <2>2
  <2> QED BY <2>1, <2>2
<1> HIDE DEF S, b
<1>5. F \in [S \X (1 .. N) -> S] /\ \A v \in S, k \in 1 .. N : F[<<v, k>>] = Adds(v, k)
  <2> HIDE DEF Adds
  <2> QED BY <1>4
<1> DEFINE Step(d) == [k \in 0 .. N |-> IF k = 0 THEN b ELSE Adds(d[k - 1], k)]
           m == CHOOSE d : d = Step(d)
<1>6. PICK g \in [0 .. N -> S] : g[0] = b /\ \A k \in 1 .. N : g[k] = F[<<g[k - 1], k>>]
  <2>1. \E g : Loop(g, N, S, b, F)
    <3> HIDE DEF N, F
    <3> QED BY <1>0, <1>3, <1>5, Iterates
  <2> QED BY <2>1 DEF Loop
<1> HIDE DEF F, Adds
<1>7. g = Step(g)
  <2>1. ASSUME NEW k \in 0 .. N PROVE g[k] = Step(g)[k]
    <3>1. CASE k = 0
      BY <3>1, <1>6
    <3>2. CASE k # 0
      <4>1. k \in 1 .. N /\ k - 1 \in 0 .. N
        BY <3>2, <1>0
      <4>2. g[k - 1] \in S
        BY <4>1
      <4> QED BY <4>1, <4>2, <3>2, <1>5, <1>6
    <3> QED BY <3>1, <3>2
  <2> QED BY <2>1
<1>8. m = Step(m)
  BY <1>7
<1>9. ServerApps(node) = m[N]
  BY DEF ServerApps, Adds, b
<1> HIDE DEF m
<1>10. m[0] = b /\ \A k \in 1 .. N : m[k] = Adds(m[k - 1], k)
  <2>1. \A k \in 0 .. N : m[k] = IF k = 0 THEN b ELSE Adds(m[k - 1], k)
    BY <1>8, Zenon
  <2> QED BY <1>0, <2>1
<1>11. m[N] \in S
  <2>1. \A k \in 1 .. N : m[k - 1] \in S => m[k] = F[<<m[k - 1], k>>]
    BY <1>5, <1>10
  <2>2. b \in S /\ <<b, 0>> \in T /\ m[0] = b
    BY <1>3, <1>10
  <2>3. N \in Nat /\ F \in [S \X (1 .. N) -> S]
    BY <1>0, <1>5
  <2>4. \A k \in 1 .. N, v \in S : <<v, k - 1>> \in T => <<F[<<v, k>>], k>> \in T
    BY <2>3
  <2> HIDE DEF N, T
  <2> QED BY <2>1, <2>2, <2>3, <2>4, LoopValues
<1> QED BY <1>9, <1>11 DEF S

\* cse_next_link finds the first node with a key.
LEMMA NextLinkIs ==
  ASSUME NEW ns, Len(ns) \in Nat, Forward(ns), NEW p \in 0 .. Len(ns), NEW key
  PROVE  /\ Least(NextLink(ns, p, key), {c \in Range(Chain(ns, p)) : ns[c].key = key})
         /\ NextLink(ns, p, key) \in 0 .. Len(ns)
<1> DEFINE chain == Chain(ns, p)
           hits == {i \in 1 .. Len(chain) : ns[chain[i]].key = key}
           h == CHOOSE i \in hits : \A j \in hits : i <= j
           K == {c \in Range(chain) : ns[c].key = key}
<1>1. chain \in Seq(1 .. Len(ns))
  BY ChainNodes
<1>2. \A i, j \in 1 .. Len(chain) : i < j => chain[i] < chain[j]
  <2>1. CASE p = 0
    <3>1. chain = <<>>
      BY <2>1 DEF Chain
    <3> QED BY <3>1
  <2>2. CASE p # 0
    <3>1. p \in 1 .. Len(ns)
      BY <2>2
    <3>2. Walk(ns, p, chain)
      BY <3>1, ChainWalks
    <3> HIDE DEF chain
    <3> QED BY <3>2, WalkAscends
  <2> QED BY <2>1, <2>2
<1>3. NextLink(ns, p, key) = IF hits = {} THEN 0 ELSE chain[h]
  BY DEF NextLink
<1> HIDE DEF chain
<1>4. \A i \in 1 .. Len(chain) : chain[i] \in 1 .. Len(ns)
  BY <1>1
<1>5. Range(chain) = {chain[i] : i \in 1 .. Len(chain)}
  BY <1>1 DEF Range
<1>6. CASE hits = {}
  <2>1. K = {}
    BY <1>5, <1>6
  <2> QED BY <1>3, <1>6, <2>1 DEF Least, chain
<1>7. CASE hits # {}
  <2>1. hits \subseteq Nat
    BY <1>1
  <2>2. \E i \in hits : \A j \in hits : i <= j
    <3> HIDE DEF hits
    <3> QED BY <1>7, <2>1, LeastNumber
  <2>3. h \in hits /\ \A j \in hits : h <= j
    BY <2>2
  <2> HIDE DEF h
  <2>4. chain[h] \in K /\ chain[h] # 0 /\ chain[h] \in 1 .. Len(ns)
    BY <2>3, <1>4, <1>5
  <2>5. ASSUME NEW c \in K PROVE chain[h] <= c
    <3>1. PICK j \in 1 .. Len(chain) : c = chain[j] /\ j \in hits
      BY <1>5
    <3>2. h = j \/ h < j
      BY <2>3, <3>1, <1>1
    <3>3. h \in 1 .. Len(chain)
      BY <2>3
    <3>4. chain[h] \in Nat /\ chain[j] \in Nat
      BY <1>4, <3>1, <3>3
    <3> QED BY <3>1, <3>2, <3>3, <3>4, <1>2
  <2> HIDE DEF K
  <2> QED BY <1>3, <1>7, <2>4, <2>5 DEF Least, K, chain
<1> QED BY <1>6, <1>7

\* Calls of cse_init_web_app, each for a node.
ForNode(a, ns) == "node" \in DOMAIN a /\ a.node \in 1 .. Len(ns)
AppsOK(apps, ns) == \E S : apps \in Seq(S) /\ \A a \in S : ForNode(a, ns)

ConfTypes ==
  /\ disableStatus \in BOOLEAN
  /\ LocsOK(locations) /\ AppsOK(todo, nodes)

LEMMA RestOK ==
  ASSUME NEW apps, apps # <<>>, NEW ns, AppsOK(apps, ns)
  PROVE  AppsOK(Tail(apps), ns) /\ ForNode(Head(apps), ns)
<1>1. PICK S : apps \in Seq(S) /\ \A a \in S : ForNode(a, ns)
  BY DEF AppsOK
<1>2. Tail(apps) \in Seq(S) /\ Head(apps) \in S
  BY <1>1
<1> QED BY <1>1, <1>2 DEF AppsOK

LEMMA MoreNodesOK ==
  ASSUME NEW apps, NEW ns, NEW m, AppsOK(apps, ns), Len(ns) \in Nat, Len(m) \in Nat,
         Len(ns) <= Len(m)
  PROVE  AppsOK(apps, m)
<1>1. PICK S : apps \in Seq(S) /\ \A a \in S : ForNode(a, ns)
  BY DEF AppsOK
<1>2. \A a \in S : ForNode(a, m)
  BY <1>1 DEF ForNode
<1> QED BY <1>1, <1>2 DEF AppsOK

\* http-server, where the parser has put it.
LEMMA HttpServerIn ==
  ASSUME Len(nodes) \in Nat, Len(nodes) > 0, Forward(nodes)
  PROVE  HttpServer \in 0 .. Len(nodes)
<1> DEFINE top == nodes[1].first
           caucho == NextLink(nodes, top, "caucho.com")
           first == nodes[caucho].first
           server == NextLink(nodes, first, "http-server")
<1>1. top \in 0 .. Len(nodes)
  <2>1. 1 \in 1 .. Len(nodes)
    OBVIOUS
  <2> QED BY <2>1 DEF Forward
<1> HIDE DEF top
<1>2. caucho \in 0 .. Len(nodes)
  BY <1>1, NextLinkIs
<1>3. HttpServer = IF caucho = 0 THEN 0 ELSE server
  BY DEF HttpServer, top
<1> HIDE DEF caucho
<1>4. CASE caucho # 0
  <2>1. caucho \in 1 .. Len(nodes)
    BY <1>2, <1>4
  <2>2. first \in 0 .. Len(nodes)
    BY <2>1 DEF Forward
  <2> HIDE DEF first
  <2>3. server \in 0 .. Len(nodes)
    BY <2>2, NextLinkIs
  <2> QED BY <2>3, <1>3, <1>4
<1> QED BY <1>3, <1>4

LEMMA ServerAppsOK ==
  ASSUME Len(nodes) \in Nat, Forward(nodes), NEW node \in 1 .. Len(nodes)
  PROVE  AppsOK(ServerApps(node), nodes)
<1>1. ServerApps(node) \in Seq(ServerSet(node))
  BY ServerAppsIn
<1>2. ASSUME NEW n \in 1 .. Len(nodes), NEW host, NEW dir, NEW a \in HostSet(n, host, dir)
      PROVE  ForNode(a, nodes)
  <2>1. ASSUME NEW m \in 1 .. Len(nodes), NEW p, NEW d, NEW h PROVE ForNode(App(m, h, p, d), nodes)
    BY DEF App, ForNode
  <2>2. Below(n) \subseteq 1 .. Len(nodes)
    BY BelowNodes
  <2>3. \E m \in 1 .. Len(nodes) : \E p, d, h : a = App(m, h, p, d)
    BY <2>2 DEF HostSet
  <2> QED BY <2>1, <2>3
<1>3. ASSUME NEW a \in ServerSet(node) PROVE ForNode(a, nodes)
  <2>1. CASE a \in HostSet(node, <<>>, ResinHome)
    BY <2>1, <1>2
  <2>2. CASE a \notin HostSet(node, <<>>, ResinHome)
    <3>1. PICK n \in Below(node) :
            a \in HostSet(n, nodes[n].value, AppDir(n, AppDir(node, ResinHome)))
      BY <2>2 DEF ServerSet
    <3>2. n \in 1 .. Len(nodes)
      BY BelowNodes
    <3> QED BY <3>1, <3>2, <1>2
  <2> QED BY <2>1, <2>2
<1> QED BY <1>1, <1>3 DEF AppsOK

-----------------------------------------------------------------------------
(* A parse leaves alone what other files have put into the registry.        *)

\* No later node is written in one of the first M.
Above(M, ns, u) == \A c \in M + 1 .. Len(ns) : u[c] \notin 1 .. M

\* The first M nodes are those of other files.
Low(M) == M \in Nat /\ M < frames[1].root /\ Above(M, nodes, up)

SameUpTo(M, a, s, b, t) ==
  \A c \in 1 .. M : b[c].key = a[c].key /\ b[c].value = a[c].value /\ t[c] = s[c]

Kept(M) ==
  /\ Len(nodes) <= Len(nodes') /\ SameUpTo(M, nodes, said, nodes', said')
  /\ \A c \in 1 .. M : up'[c] = up[c] /\ (c \in gone' <=> c \in gone)
  /\ Above(M, nodes', up')
  /\ frames'[1].root = frames[1].root
  /\ error => error'
  /\ headInclude => headInclude'

LEMMA LowTop ==
  ASSUME Inv, NEW M, Low(M)
  PROVE  /\ M < Top.root /\ M < Top.node /\ (Top.inc # 0 => M < Top.inc) /\ M <= Len(nodes)
         /\ Home(Top) \in Nat \ 1 .. M
         /\ Top.root \in Nat /\ Top.inc \in Nat
<1> DEFINE n == Len(frames)
<1>1. GoodNow
  BY InvParts
<1>2. /\ frames \in Seq(FrameRec) /\ n \in Nat /\ n > 0 /\ Len(nodes) \in Nat
      /\ n \in 1 .. n /\ Top = frames[n] /\ Top \in FrameRec
      /\ up \in Seq(Nat) /\ Len(up) = Len(nodes)
  BY <1>1, TopFacts
<1>3. /\ \A i \in 1 .. n :
           /\ frames[i].root \in Nat /\ frames[i].node \in Nat
           /\ 1 <= frames[i].root /\ frames[i].root <= frames[i].node
           /\ frames[i].node <= Len(nodes) /\ frames[i].node <= frames[n].node
           /\ i # n => frames[i].node < frames[n].root /\ frames[i].node < frames[n].inc
      /\ \A i \in 2 .. n : frames[i].inc \in 1 .. Len(nodes)
      /\ frames[n].inc # 0 <=> n > 1
  BY <1>1, <1>2, FilesOpen, FileOrder
<1>4. M \in Nat /\ M < frames[1].root /\ \A c \in M + 1 .. Len(nodes) : up[c] \notin 1 .. M
  BY DEF Low, Above
<1> DEFINE f == frames[1]
           g == frames[n]
<1>5. /\ f.root \in Nat /\ f.node \in Nat /\ f.root <= f.node /\ f.node <= Len(nodes)
      /\ g.root \in Nat /\ g.node \in Nat /\ g.root <= g.node /\ g.node <= Len(nodes)
      /\ 1 # n => f.node < g.root /\ f.node < g.inc
      /\ g.inc # 0 => 1 # n /\ g.inc \in 1 .. Len(nodes)
      /\ g.inc \in Nat
  <2>1. 1 \in 1 .. n
    BY <1>2
  <2>2. g.inc # 0 => n \in 2 .. n
    BY <1>2, <1>3
  <2>3. g.inc \in Nat
    BY <1>2 DEF FrameRec
  <2>4. /\ f.root \in Nat /\ f.node \in Nat /\ f.root <= f.node /\ f.node <= Len(nodes)
        /\ 1 # n => f.node < g.root /\ f.node < g.inc
    BY <2>1, <1>3
  <2>5. /\ g.root \in Nat /\ g.node \in Nat /\ g.root <= g.node /\ g.node <= Len(nodes)
    BY <1>2, <1>3
  <2>6. g.inc # 0 => 1 # n /\ g.inc \in 1 .. Len(nodes)
    <3>1. ASSUME g.inc # 0 PROVE 1 # n /\ n \in 2 .. n
      BY <3>1, <1>2, <1>3
    <3>2. n \in 2 .. n => g.inc \in 1 .. Len(nodes)
      BY <1>3
    <3> QED BY <3>1, <3>2
  <2> HIDE DEF f, g
  <2> QED BY <2>3, <2>4, <2>5, <2>6
<1>6. M < g.root /\ M < g.node /\ (g.inc # 0 => M < g.inc) /\ M <= Len(nodes)
  <2>1. M < f.root /\ M \in Nat
    BY <1>4
  <2>2. CASE n = 1
    <3>1. g = f
      BY <2>2
    <3> HIDE DEF f, g
    <3> QED BY <1>2, <1>5, <2>1, <2>2, <3>1
  <2>3. CASE n # 1
    <3> HIDE DEF f, g
    <3>1. /\ f.root \in Nat /\ f.node \in Nat /\ g.root \in Nat /\ g.node \in Nat
          /\ f.root <= f.node /\ f.node < g.root /\ g.root <= g.node /\ g.node <= Len(nodes)
          /\ f.node < g.inc /\ g.inc \in Nat /\ Len(nodes) \in Nat
      BY <1>2, <1>5, <2>3
    <3> DEFINE a == f.root
               b == f.node
               c == g.root
               d == g.node
               e == g.inc
               k == Len(nodes)
    <3>2. /\ a \in Nat /\ b \in Nat /\ c \in Nat /\ d \in Nat /\ e \in Nat /\ k \in Nat
          /\ a <= b /\ b < c /\ c <= d /\ d <= k /\ b < e /\ M < a /\ M \in Nat
      BY <2>1, <3>1
    <3> HIDE DEF a, b, c, d, e, k
    <3>3. M < c /\ M < d /\ M < e /\ M <= k
      BY <3>2
    <3> QED BY <3>3 DEF c, d, e, k
  <2> QED BY <2>2, <2>3
<1>7. Home(g) \in Nat \ 1 .. M
  <2>1. CASE g.node = g.root /\ g.inc # 0
    <3> DEFINE inc == g.inc
    <3>1. inc \in M + 1 .. Len(nodes) /\ inc \in 1 .. Len(up)
      <4>1. inc \in 1 .. Len(nodes) /\ M < inc
        BY <2>1, <1>5, <1>6
      <4> HIDE DEF inc
      <4> QED BY <4>1, <1>2, <1>4
    <3> HIDE DEF inc
    <3>2. up[inc] \in Nat /\ up[inc] \notin 1 .. M
      BY <3>1, <1>2, <1>4
    <3>3. Home(g) = up[inc]
      BY <2>1 DEF Home, inc
    <3> QED BY <3>2, <3>3
  <2>2. CASE ~(g.node = g.root /\ g.inc # 0)
    <3>1. Home(g) = g.node
      BY <2>2 DEF Home
    <3> HIDE DEF g
    <3> QED BY <3>1, <1>4, <1>5, <1>6
  <2> QED BY <2>1, <2>2
<1> QED BY <1>2, <1>5, <1>6, <1>7

\* The frame of the innermost file changes.
LEMMA RootSet ==
  ASSUME frames \in Seq(FrameRec), Len(frames) > 0, NEW g, g.root = Top.root
  PROVE  LET gs == [frames EXCEPT ![Len(frames)] = g]
         IN Len(gs) = Len(frames) /\ gs[1].root = frames[1].root
<1> DEFINE n == Len(frames)
           gs == [frames EXCEPT ![n] = g]
<1>1. n \in Nat /\ n > 0 /\ 1 \in 1 .. n /\ DOMAIN frames = 1 .. n /\ Top = frames[n]
  BY DEF Top, Last
<1>2. Len(gs) = n /\ gs[1] = IF n = 1 THEN g ELSE frames[1]
  BY <1>1
<1> HIDE DEF gs
<1> QED BY <1>1, <1>2 DEF gs

\* parse_include, or nothing, after a tag that has left other files alone.
LEMMA AfterTagKeeps ==
  ASSUME Inv, NEW M, Low(M),
         NEW f, NEW ns \in Seq(Node), NEW u \in Seq(Nat), NEW s \in Seq(Meaning),
         AfterTag(f, ns, u, s), Len(u) = Len(ns), Len(s) = Len(ns), Len(nodes) <= Len(ns),
         SameUpTo(M, nodes, said, ns, s), \A c \in 1 .. M : u[c] = up[c], Above(M, ns, u),
         f.root = Top.root, UNCHANGED <<error, gone, headInclude>>
  PROVE  Kept(M)
<1>1. /\ frames \in Seq(FrameRec) /\ Len(frames) > 0 /\ Len(nodes) \in Nat
  BY InvParts, TopFacts
<1>2. M \in Nat /\ M <= Len(nodes) /\ M <= Len(ns) /\ Len(ns) \in Nat
  BY <1>1, LowTop DEF Low
<1> DEFINE gs == [frames EXCEPT ![Len(frames)] = f]
<1>3. Len(gs) = Len(frames) /\ gs[1].root = frames[1].root
  BY <1>1, RootSet
<1>4. CASE nodes' = ns /\ up' = u /\ said' = s /\ frames' = gs
  <2> HIDE DEF gs
  <2> QED BY <1>3, <1>4 DEF Kept
<1>5. CASE \E g : /\ nodes' = Append(ns, NewNode("")) /\ up' = Append(u, 0)
                  /\ said' = Append(s, Null) /\ frames' = Append(gs, g)
  <2>1. PICK g : frames' = Append(gs, g)
    BY <1>5
  <2> DEFINE x == NewNode("")
             null == Null
             m == Append(ns, x)
             v == Append(u, 0)
             t == Append(s, null)
  <2>2. nodes' = m /\ up' = v /\ said' = t
    BY <1>5
  <2> HIDE DEF x, null
  <2>3. /\ Len(m) = Len(ns) + 1 /\ \A c \in 1 .. Len(ns) : m[c] = ns[c]
        /\ v[Len(ns) + 1] = 0 /\ \A c \in 1 .. Len(ns) : v[c] = u[c]
        /\ \A c \in 1 .. Len(ns) : t[c] = s[c]
    BY <1>2
  <2> HIDE DEF m, v, t
  <2>4. \A c \in 1 .. M : c \in 1 .. Len(ns)
    BY <1>2
  <2>5. SameUpTo(M, nodes, said, m, t) /\ \A c \in 1 .. M : v[c] = up[c]
    BY <2>3, <2>4 DEF SameUpTo
  <2>6. Above(M, m, v)
    <3> SUFFICES ASSUME NEW c \in M + 1 .. Len(m) PROVE v[c] \notin 1 .. M
      BY DEF Above
    <3>1. CASE c = Len(ns) + 1
      BY <3>1, <2>3
    <3>2. CASE c # Len(ns) + 1
      <4>1. c \in M + 1 .. Len(ns) /\ c \in 1 .. Len(ns)
        BY <3>2, <2>3, <1>2, SMTT(30)
      <4> QED BY <4>1, <2>3 DEF Above
    <3> QED BY <3>1, <3>2
  <2>7. frames'[1].root = frames[1].root
    <3>1. Append(gs, g)[1] = gs[1]
      <4>1. gs \in Seq(FrameRec \cup {f}) /\ Len(gs) \in Nat /\ Len(gs) > 0
        BY <1>1
      <4> HIDE DEF gs
      <4> QED BY <4>1
    <3> HIDE DEF gs
    <3> QED BY <3>1, <2>1, <1>3
  <2> QED BY <2>2, <2>3, <2>5, <2>6, <2>7, <1>1, <1>2 DEF Kept
<1> QED BY <1>4, <1>5 DEF AfterTag

\* parse_tag.
LEMMA KeptReadTag ==
  ASSUME Inv, NEW M, Low(M), NEW piece, ReadTag(piece)
  PROVE  Kept(M)
<1> DEFINE a == Settled(nodes, Top)
           t == Says(Top)
           f == Top
           elem == Len(nodes) + 1
           st == AddElement(a, f, piece, t)
           g == [st.f EXCEPT !.node = IF piece.t = "tag" THEN elem ELSE @,
                             !.run = <<>>, !.fresh = piece.t = "tag"]
           v == [c \in 1 .. Len(st.ns) |-> IF c < elem THEN up[c]
                                          ELSE IF c = elem THEN Home(f) ELSE elem]
<1>1. GoodNow /\ family \in DOMAIN Families
  BY InvParts
<1>2. /\ piece \in Ahead /\ piece.t \in {"tag", "empty"} /\ AfterTag(g, st.ns, v, st.said)
      /\ UNCHANGED <<family, phase, error, gone, headInclude>>
  BY DEF ReadTag, Reads
<1>3. piece.key \in Name /\ piece.attrs \in Seq(Name \X Seq(Char))
  BY <1>1, <1>2, PieceKinds
<1>4. /\ a \in Seq(Node) /\ SameLinks(nodes, a)
      /\ t \in Seq(Meaning) /\ Len(t) = Len(a)
      /\ Tree(a, up, gone, headInclude, frames)
      /\ SettledIs(nodes, a, Top) /\ SaysIs(said, t, nodes, Top)
  BY <1>1, SettledGood DEF GoodNow
<1>5. /\ f \in FrameRec /\ Len(nodes) \in Nat /\ BufOK(f) /\ f.node \in 1 .. Len(nodes)
      /\ up \in Seq(Nat) /\ Len(up) = Len(nodes) /\ Len(said) = Len(nodes)
  BY <1>1, TopFacts
<1>6. /\ M < Top.node /\ M <= Len(nodes) /\ Home(Top) \in Nat \ 1 .. M /\ M \in Nat
      /\ Above(M, nodes, up)
  BY LowTop DEF Low
<1> HIDE DEF a, t, f
<1>7. Len(a) = Len(nodes) /\ f.node \in 1 .. Len(a)
  BY <1>4, <1>5 DEF SameLinks
<1>8. TagRead(a, f, t, st)
  <2>1. a[f.node].last \in 0 .. Len(a)
    <3>1. Forward(a) /\ Len(a) \in Nat
      BY <1>4 DEF Tree
    <3> QED BY <3>1, <1>7 DEF Forward
  <2> QED BY <2>1, <1>3, <1>4, <1>5, <1>7, ElementReads
<1> HIDE DEF st
<1>9. /\ st.ns \in Seq(Node) /\ st.said \in Seq(Meaning) /\ Len(st.said) = Len(st.ns)
      /\ Len(a) < Len(st.ns) /\ Len(st.ns) \in Nat /\ st.f.root = f.root
      /\ OldValues(a, t, st)
  BY <1>5, <1>7, <1>8 DEF TagRead, TagState, Tagged, SameFrame
<1>10. g.root = Top.root
  <2>1. g.root = st.f.root
    <3>1. st.f \in FrameRec
      BY <1>8 DEF TagRead, TagState
    <3> QED BY <3>1 DEF FrameRec
  <2> QED BY <2>1, <1>9 DEF f
<1> HIDE DEF g
<1> DEFINE home == Home(f)
<1>11. home \in Nat \ 1 .. M
  BY <1>6 DEF f
<1> HIDE DEF home
<1>12. /\ v \in Seq(Nat) /\ Len(v) = Len(st.ns) /\ \A c \in 1 .. Len(nodes) : v[c] = up[c]
       /\ v[elem] = home /\ \A c \in elem + 1 .. Len(st.ns) : v[c] = elem
  <2>1. ASSUME NEW c \in 1 .. Len(st.ns)
        PROVE  (IF c < elem THEN up[c] ELSE IF c = elem THEN home ELSE elem) \in Nat
    <3>1. c < elem => c \in 1 .. Len(up)
      BY <1>5
    <3>2. c < elem => up[c] \in Nat
      BY <3>1, <1>5
    <3> QED BY <3>2, <1>11, <1>5
  <2>2. v = [c \in 1 .. Len(st.ns) |-> IF c < elem THEN up[c] ELSE IF c = elem THEN home ELSE elem]
    BY DEF home
  <2> HIDE DEF v
  <2>3. v \in Seq(Nat) /\ Len(v) = Len(st.ns)
    BY <2>1, <2>2, <1>9
  <2>4. \A c \in 1 .. Len(st.ns) : v[c] = IF c < elem THEN up[c] ELSE IF c = elem THEN home ELSE elem
    BY <2>2
  <2> DEFINE k == Len(nodes)
             m == Len(st.ns)
  <2>5. k \in Nat /\ m \in Nat /\ k < m /\ elem = k + 1
    BY <1>5, <1>7, <1>9
  <2>6. \A c \in 1 .. m : v[c] = IF c < elem THEN up[c] ELSE IF c = elem THEN home ELSE elem
    BY <2>4
  <2> HIDE DEF v, k, m
  <2>7. \A c \in 1 .. k : v[c] = up[c]
    <3> SUFFICES ASSUME NEW c \in 1 .. k PROVE v[c] = up[c]
      OBVIOUS
    <3>1. c \in 1 .. m /\ c < elem
      BY <2>5
    <3> QED BY <3>1, <2>6
  <2>8. v[elem] = home
    <3>1. elem \in 1 .. m /\ ~(elem < elem)
      BY <2>5
    <3> QED BY <3>1, <2>6
  <2>9. \A c \in elem + 1 .. m : v[c] = elem
    <3> SUFFICES ASSUME NEW c \in elem + 1 .. m PROVE v[c] = elem
      OBVIOUS
    <3>1. c \in 1 .. m /\ ~(c < elem) /\ c # elem
      BY <2>5
    <3> QED BY <3>1, <2>6
  <2> QED BY <2>3, <2>7, <2>8, <2>9 DEF k, m
<1> HIDE DEF v
<1>13. Above(M, st.ns, v)
  <2> SUFFICES ASSUME NEW c \in M + 1 .. Len(st.ns) PROVE v[c] \notin 1 .. M
    BY DEF Above
  <2>1. CASE c < elem
    <3>1. c \in M + 1 .. Len(nodes) /\ c \in 1 .. Len(nodes)
      BY <2>1, <1>5, <1>6
    <3> QED BY <3>1, <1>6, <1>12 DEF Above
  <2>2. CASE c = elem
    BY <2>2, <1>11, <1>12
  <2>3. CASE c > elem
    <3>1. c \in elem + 1 .. Len(st.ns)
      BY <2>3, <1>5, <1>9
    <3>2. v[c] = elem
      BY <3>1, <1>12
    <3> QED BY <3>2, <1>5, <1>6
  <2>4. c < elem \/ c = elem \/ c > elem
    BY <1>5, <1>6, <1>9, SMTT(30)
  <2> QED BY <2>1, <2>2, <2>3, <2>4
<1>14. SameUpTo(M, nodes, said, st.ns, st.said)
  <2> SUFFICES ASSUME NEW c \in 1 .. M
               PROVE  /\ st.ns[c].key = nodes[c].key /\ st.ns[c].value = nodes[c].value
                      /\ st.said[c] = said[c]
    BY DEF SameUpTo
  <2>1. c \in 1 .. Len(nodes) /\ c \in 1 .. Len(a) /\ c \in 1 .. Len(said) /\ c # Top.node
    BY <1>5, <1>6, <1>7
  <2>2. /\ st.ns[c].value = a[c].value /\ st.ns[c].key = a[c].key /\ st.said[c] = t[c]
    BY <2>1, <1>9 DEF OldValues
  <2>3. a[c].value = nodes[c].value /\ a[c].key = nodes[c].key
    BY <2>1, <1>4 DEF SettledIs
  <2>4. t[c] = said[c]
    BY <2>1, <1>4 DEF SaysIs
  <2> QED BY <2>2, <2>3, <2>4
<1>15. \A c \in 1 .. M : v[c] = up[c]
  BY <1>5, <1>6, <1>12
<1> DEFINE ns == st.ns
           s == st.said
<1>16. /\ AfterTag(g, ns, v, s) /\ ns \in Seq(Node) /\ s \in Seq(Meaning)
       /\ Len(s) = Len(ns) /\ Len(v) = Len(ns) /\ Len(nodes) <= Len(ns)
       /\ Above(M, ns, v) /\ SameUpTo(M, nodes, said, ns, s)
       /\ UNCHANGED <<error, gone, headInclude>>
  BY <1>2, <1>5, <1>7, <1>9, <1>12, <1>13, <1>14
<1> HIDE DEF ns, s
<1> QED BY <1>10, <1>12, <1>15, <1>16, AfterTagKeeps

LEMMA SettledKeeps ==
  ASSUME Inv, NEW M, Low(M)
  PROVE  LET a == Settled(nodes, Top)
             t == Says(Top)
         IN /\ a \in Seq(Node) /\ t \in Seq(Meaning) /\ Len(a) = Len(nodes) /\ Len(t) = Len(a)
            /\ SameUpTo(M, nodes, said, a, t) /\ Above(M, a, up)
<1> DEFINE a == Settled(nodes, Top)
           t == Says(Top)
<1>1. GoodNow
  BY InvParts
<1>2. /\ a \in Seq(Node) /\ SameLinks(nodes, a)
      /\ t \in Seq(Meaning) /\ Len(t) = Len(a)
      /\ SettledIs(nodes, a, Top) /\ SaysIs(said, t, nodes, Top)
  BY <1>1, SettledGood DEF GoodNow
<1>3. Len(nodes) \in Nat /\ Len(said) = Len(nodes)
  BY <1>1, TopFacts
<1>4. M < Top.node /\ M <= Len(nodes) /\ M \in Nat /\ Above(M, nodes, up)
  BY LowTop DEF Low
<1> HIDE DEF a, t
<1>5. Len(a) = Len(nodes)
  BY <1>2 DEF SameLinks
<1>6. SameUpTo(M, nodes, said, a, t)
  <2> SUFFICES ASSUME NEW c \in 1 .. M
               PROVE  /\ a[c].key = nodes[c].key /\ a[c].value = nodes[c].value
                      /\ t[c] = said[c]
    BY DEF SameUpTo
  <2>1. c \in 1 .. Len(nodes) /\ c \in 1 .. Len(said) /\ c # Top.node
    BY <1>3, <1>4
  <2>2. a[c].value = nodes[c].value /\ a[c].key = nodes[c].key
    BY <2>1, <1>2 DEF SettledIs
  <2>3. t[c] = said[c]
    BY <2>1, <1>2 DEF SaysIs
  <2> QED BY <2>2, <2>3
<1>7. Above(M, a, up)
  BY <1>4, <1>5 DEF Above
<1> QED BY <1>2, <1>5, <1>6, <1>7 DEF a, t

\* parse_end_tag.
LEMMA KeptReadEndTag ==
  ASSUME Inv, NEW M, Low(M), ReadEndTag
  PROVE  Kept(M)
<1> DEFINE a == Settled(nodes, Top)
           t == Says(Top)
           g == [Top EXCEPT !.node = nodes[Top.node].parent, !.buf = <<"n">>,
                            !.run = <<>>, !.fresh = FALSE]
<1>1. AfterTag(g, a, up, t) /\ UNCHANGED <<error, gone, headInclude>>
  BY DEF ReadEndTag
<1>2. /\ a \in Seq(Node) /\ t \in Seq(Meaning) /\ Len(a) = Len(nodes) /\ Len(t) = Len(a)
      /\ SameUpTo(M, nodes, said, a, t) /\ Above(M, a, up)
  BY SettledKeeps
<1> HIDE DEF a, t
<1>3. Top \in FrameRec /\ up \in Seq(Nat) /\ Len(up) = Len(nodes) /\ Len(nodes) \in Nat
  BY InvParts, TopFacts
<1>4. g.root = Top.root
  BY <1>3 DEF FrameRec
<1> HIDE DEF g
<1>5. Len(up) = Len(a) /\ Len(nodes) <= Len(a) /\ \A c \in 1 .. M : up[c] = up[c]
  BY <1>2, <1>3
<1> QED BY <1>1, <1>2, <1>3, <1>4, <1>5, AfterTagKeeps

\* Characters outside of tags.
LEMMA KeptReadText ==
  ASSUME Inv, NEW M, Low(M), NEW piece, ReadText(piece)
  PROVE  Kept(M)
<1> DEFINE b == Buffered(Top, piece.chars)
           g == [b EXCEPT !.spaceOnly = @ /\ IsSpace(piece.chars), !.run = @ \o piece.chars]
           gs == [frames EXCEPT ![Len(frames)] = g]
<1>1. GoodNow /\ family \in DOMAIN Families
  BY InvParts
<1>2. /\ piece \in Ahead /\ piece.t = "text" /\ frames' = gs
      /\ UNCHANGED <<nodes, error, history>>
  BY DEF ReadText, Reads, SetTop
<1>3. piece.chars \in Seq(Char)
  BY <1>1, <1>2, PieceKinds
<1>4. /\ frames \in Seq(FrameRec) /\ Len(frames) > 0 /\ Top \in FrameRec /\ BufOK(Top)
      /\ Len(nodes) \in Nat
  BY <1>1, TopFacts
<1>5. b \in FrameRec /\ b.root = Top.root
  BY <1>3, <1>4, BufferedText DEF SameFrame
<1> HIDE DEF b
<1>6. g.root = Top.root
  BY <1>5 DEF FrameRec
<1> HIDE DEF g
<1>7. gs[1].root = frames[1].root
  BY <1>4, <1>6, RootSet
<1> HIDE DEF gs
<1> QED BY <1>2, <1>4, <1>7 DEF Kept, SameUpTo, Low, history, Above

LEMMA KeptReadComment ==
  ASSUME Inv, NEW M, Low(M), NEW piece, ReadComment(piece)
  PROVE  Kept(M)
<1> DEFINE a == Settled(nodes, Top)
           t == Says(Top)
           g == [Top EXCEPT !.buf = SettledBuf(Top), !.run = <<>>, !.fresh = FALSE,
                            !.atEnd = piece.t = "unclosed"]
           gs == [frames EXCEPT ![Len(frames)] = g]
<1>1. /\ frames' = gs /\ nodes' = a /\ said' = t
      /\ error' = (error \/ piece.t = "unclosed") /\ UNCHANGED <<up, gone, headInclude>>
  BY DEF ReadComment, SetTop
<1>2. Len(a) = Len(nodes) /\ SameUpTo(M, nodes, said, a, t) /\ Above(M, a, up)
  BY SettledKeeps
<1> HIDE DEF a, t
<1>3. /\ frames \in Seq(FrameRec) /\ Len(frames) > 0 /\ Top \in FrameRec /\ Len(nodes) \in Nat
  BY InvParts, TopFacts
<1>4. g.root = Top.root
  BY <1>3 DEF FrameRec
<1> HIDE DEF g
<1>5. gs[1].root = frames[1].root
  BY <1>3, <1>4, RootSet
<1> HIDE DEF gs
<1>6. SameUpTo(M, nodes, said, nodes', said') /\ Above(M, nodes', up')
  <2>1. nodes' = a /\ said' = t /\ up' = up
    BY <1>1
  <2> QED BY <2>1, <1>2
<1>7. Len(nodes') = Len(nodes) /\ frames'[1].root = frames[1].root
  BY <1>1, <1>2, <1>5
<1>8. error => error'
  BY <1>1, Zenon
<1>9. UNCHANGED <<up, gone, headInclude>>
  BY <1>1
<1>10. Len(nodes) <= Len(nodes')
  BY <1>3, <1>7
<1> QED BY <1>6, <1>7, <1>8, <1>9, <1>10 DEF Kept

\* The file around the innermost one goes on.
LEMMA FrontRoot ==
  ASSUME Inv, Top.inc # 0
  PROVE  Front(frames)[1].root = frames[1].root
<1>1. GoodNow
  BY InvParts
<1>2. frames \in Seq(FrameRec) /\ Len(frames) > 1
  BY <1>1, TopFacts, FilesOpen
<1> DEFINE gs == Front(frames)
<1>3. /\ Len(gs) > 0 /\ Len(gs) = Len(frames) - 1 /\ \A i \in 1 .. Len(gs) : gs[i] = frames[i]
  BY <1>2, FrontOuter
<1>4. Len(frames) \in Nat
  BY <1>2
<1> HIDE DEF gs
<1>5. 1 \in 1 .. Len(gs)
  BY <1>2, <1>3, <1>4
<1>6. gs[1] = frames[1]
  BY <1>3, <1>5
<1> QED BY <1>6 DEF gs

LEMMA KeptReadMalformed ==
  ASSUME Inv, NEW M, Low(M), ReadMalformed
  PROVE  Kept(M)
<1>1. error' = TRUE /\ UNCHANGED <<nodes, up, said, headInclude>>
  BY DEF ReadMalformed
<1>2. M < Top.root /\ Top.root \in Nat /\ M \in Nat /\ Above(M, nodes, up) /\ Len(nodes) \in Nat
  BY LowTop, InvParts, TopFacts DEF Low
<1>3. CASE Top.inc # 0
  <2>1. frames' = Front(frames) /\ gone' = gone \cup Top.root .. Len(nodes)
    BY <1>3 DEF ReadMalformed
  <2>2. \A c \in 1 .. M : c \in gone' <=> c \in gone
    BY <2>1, <1>2
  <2>3. frames'[1].root = frames[1].root
    BY <2>1, <1>3, FrontRoot
  <2> QED BY <1>1, <1>2, <2>2, <2>3 DEF Kept, SameUpTo
<1>4. CASE Top.inc = 0
  <2>1. UNCHANGED <<frames, gone>>
    BY <1>4 DEF ReadMalformed
  <2> QED BY <1>1, <1>2, <2>1 DEF Kept, SameUpTo
<1> QED BY <1>3, <1>4

\* The nodes keep what they are when an included file takes its place.
LEMMA SpliceKeeps ==
  ASSUME NEW ns \in Seq(Node), NEW inc, NEW r
  PROVE  LET m == Splice(ns, inc, r)
         IN /\ Len(m) = Len(ns)
            /\ \A c \in 1 .. Len(ns) : m[c].key = ns[c].key /\ m[c].value = ns[c].value
<1> DEFINE p == ns[inc].parent
           q == ns[inc].prev
           S == Range(Chain(ns, ns[r].first))
           new(c) == CASE c = q -> [ns[c] EXCEPT !.next = ns[r].first]
                       [] c = p -> [ns[c] EXCEPT !.first = IF q = 0 THEN r ELSE @,
                                                 !.last = ns[r].last]
                       [] c = r -> [ns[c] EXCEPT !.parent = p, !.prev = q]
                       [] c \in S -> [ns[c] EXCEPT !.parent = p]
                       [] OTHER -> ns[c]
<1>1. Splice(ns, inc, r) = [c \in 1 .. Len(ns) |-> new(c)]
  BY DEF Splice
<1>2. ASSUME NEW c \in 1 .. Len(ns)
      PROVE  new(c).key = ns[c].key /\ new(c).value = ns[c].value
  <2>1. ns[c] \in Node
    OBVIOUS
  <2> DEFINE x == ns[c]
             A == IF q = 0 THEN r ELSE x.first
             y1 == [x EXCEPT !.next = ns[r].first]
             y2 == [x EXCEPT !.first = A, !.last = ns[r].last]
             y3 == [x EXCEPT !.parent = p, !.prev = q]
             y4 == [x EXCEPT !.parent = p]
  <2>2. new(c) = y1 \/ new(c) = y2 \/ new(c) = y3 \/ new(c) = y4 \/ new(c) = x
    <3> HIDE DEF S, p, q
    <3>1. CASE c = q
      BY <3>1
    <3>2. CASE c # q /\ c = p
      BY <3>2
    <3>3. CASE c # q /\ c # p /\ c = r
      BY <3>3
    <3>4. CASE c # q /\ c # p /\ c # r /\ c \in S
      BY <3>4
    <3>5. CASE c # q /\ c # p /\ c # r /\ c \notin S
      BY <3>5
    <3> QED BY <3>1, <3>2, <3>3, <3>4, <3>5
  <2> HIDE DEF new, A, p, q
  <2>3. x \in Node
    BY <2>1
  <2> HIDE DEF x
  <2>4. /\ y1.key = x.key /\ y1.value = x.value /\ y2.key = x.key /\ y2.value = x.value
        /\ y3.key = x.key /\ y3.value = x.value /\ y4.key = x.key /\ y4.value = x.value
    BY <2>3 DEF Node
  <2> HIDE DEF y1, y2, y3, y4
  <2>5. new(c).key = x.key /\ new(c).value = x.value
    BY <2>2, <2>4
  <2> QED BY <2>5 DEF x
<1> HIDE DEF new
<1> DEFINE m == [c \in 1 .. Len(ns) |-> new(c)]
<1>3. Len(m) = Len(ns) /\ \A c \in 1 .. Len(ns) : m[c] = new(c)
  <2>1. Len(ns) \in Nat
    OBVIOUS
  <2> QED BY <2>1
<1> HIDE DEF m
<1>4. \A c \in 1 .. Len(ns) : m[c].key = ns[c].key /\ m[c].value = ns[c].value
  BY <1>2, <1>3
<1>5. Splice(ns, inc, r) = m
  BY <1>1 DEF m
<1> QED BY <1>3, <1>4, <1>5

LEMMA KeptEndOfInclude ==
  ASSUME Inv, NEW M, Low(M), EndOfInclude
  PROVE  Kept(M)
<1>1. Top.inc # 0 /\ frames' = Front(frames) /\ UNCHANGED <<error, up, said>>
  BY DEF EndOfInclude
<1>2. /\ M < Top.root /\ M < Top.inc /\ Top.root \in Nat /\ Top.inc \in Nat /\ M \in Nat
      /\ M <= Len(nodes) /\ Above(M, nodes, up)
  BY <1>1, LowTop DEF Low
<1>3. nodes \in Seq(Node) /\ Len(nodes) \in Nat /\ up \in Seq(Nat) /\ Len(up) = Len(nodes)
      /\ \A c \in 1 .. Len(nodes) : up[c] \in 0 .. c - 1
  BY InvParts, TopFacts DEF Tree
<1>4. frames'[1].root = frames[1].root
  BY <1>1, FrontRoot
<1>5. CASE nodes[Top.root].first # 0
  <2> DEFINE D == {n \in 1 .. Len(nodes) : up[n] = Top.inc}
             m == Splice(nodes, Top.inc, Top.root)
  <2>1. /\ nodes' = m /\ gone' = gone \cup {Top.root, Top.inc} \cup D
        /\ headInclude => headInclude'
    BY <1>5 DEF EndOfInclude
  <2>2. \A c \in 1 .. M : c \notin D /\ c # Top.root /\ c # Top.inc
    <3> SUFFICES ASSUME NEW c \in 1 .. M, c \in D PROVE FALSE
      BY <1>2
    <3>1. up[c] < c /\ up[c] \in Nat /\ up[c] = Top.inc
      BY <1>3
    <3> QED BY <3>1, <1>2
  <2>3. Len(m) = Len(nodes)
        /\ \A c \in 1 .. Len(nodes) : m[c].key = nodes[c].key /\ m[c].value = nodes[c].value
    BY <1>3, SpliceKeeps
  <2> HIDE DEF D, m
  <2>4. SameUpTo(M, nodes, said, m, said)
    BY <1>2, <1>3, <2>3 DEF SameUpTo
  <2>5. Above(M, m, up)
    BY <1>2, <2>3 DEF Above
  <2>6. \A c \in 1 .. M : c \in gone' <=> c \in gone
    BY <2>1, <2>2
  <2> QED BY <1>1, <1>3, <1>4, <2>1, <2>3, <2>4, <2>5, <2>6 DEF Kept
<1>6. CASE nodes[Top.root].first = 0
  <2>1. gone' = gone \cup {Top.root} /\ UNCHANGED <<nodes, headInclude>>
    BY <1>6 DEF EndOfInclude
  <2>2. \A c \in 1 .. M : c # Top.root
    BY <1>2
  <2> QED BY <1>1, <1>2, <1>3, <1>4, <2>1, <2>2 DEF Kept, SameUpTo
<1> QED BY <1>5, <1>6

\* No step of the parser changes the nodes of other files.
LEMMA ParseKeeps ==
  ASSUME Inv, NEW M, Low(M), Parses
  PROVE  Kept(M)
<1>1. ASSUME NEW piece, ReadTag(piece) PROVE Kept(M)
  BY <1>1, KeptReadTag
<1>2. ASSUME NEW piece, ReadText(piece) PROVE Kept(M)
  BY <1>2, KeptReadText
<1>3. ASSUME NEW piece, ReadComment(piece) PROVE Kept(M)
  BY <1>3, KeptReadComment
<1>4. ASSUME UNCHANGED <<nodes, frames, error, history>> PROVE Kept(M)
  <2>1. Len(nodes) \in Nat
    BY InvParts, TopFacts
  <2> QED BY <2>1, <1>4 DEF Kept, SameUpTo, Low, history, Above
<1>5. CASE ReadSurplusEndTag
  BY <1>4, <1>5 DEF ReadSurplusEndTag
<1>6. CASE EndOfFile
  BY <1>4, <1>6 DEF EndOfFile
<1> QED BY <1>1, <1>2, <1>3, <1>5, <1>6, KeptReadEndTag, KeptReadMalformed, KeptEndOfInclude
        DEF Parses

-----------------------------------------------------------------------------
(* The files one after the other: resin.conf, and the web.xml of web-apps.   *)

\* The last node that resin.conf has put into the registry.
MainLast == IF Len(owner) > 1 THEN owner[2].node - 1 ELSE Len(nodes)

Stage ==
  /\ \E S : owner \in Seq(S)
  /\ phase = "refused" => error
  /\ Len(owner) = 0 => frames[1].root = 1 /\ phase # "init" /\ todo = <<>> /\ looked = {}
  /\ Len(owner) = 1 => phase = "init"
  /\ Len(owner) > 0 /\ phase # "init" => todo # <<>>
  /\ Len(owner) > 1 => Low(MainLast) /\ MainLast > 0

ConfInv == Inv /\ ConfTypes /\ Stage

LEMMA ParsePhase ==
  ASSUME Inv, Parses
  PROVE  /\ phase = "parse" /\ phase' \in {"parse", "parsed", "refused", "crashed"}
         /\ phase' = "refused" => error'
<1>0. family \in DOMAIN Families
  BY InvParts
<1>1. ASSUME NEW piece \in Ahead PROVE phase = "parse"
  BY <1>0, PieceKinds
<1>2. ASSUME NEW piece \in Ahead, ReadTag(piece) \/ ReadText(piece) \/ ReadComment(piece)
      PROVE  phase = "parse" /\ phase' = "parse"
  <2>1. phase' = phase
    BY <1>2 DEF ReadTag, ReadText, ReadComment
  <2> QED BY <1>1, <2>1
<1>3. CASE ReadEndTag
  <2>1. phase' = phase /\ EndTag \in Ahead
    BY <1>3 DEF ReadEndTag, Reads
  <2> QED BY <1>1, <2>1
<1>4. CASE ReadSurplusEndTag
  <2>1. phase' = "crashed" /\ EndTag \in Ahead
    BY <1>4 DEF ReadSurplusEndTag, Reads
  <2> QED BY <1>1, <2>1
<1>5. CASE ReadMalformed
  <2>1. (phase' = "refused" \/ phase' = phase) /\ Malformed \in Ahead /\ error'
    BY <1>5 DEF ReadMalformed, Reads
  <2> QED BY <1>1, <2>1
<1>6. CASE EndOfInclude
  BY <1>6 DEF EndOfInclude
<1>7. CASE EndOfFile
  BY <1>7 DEF EndOfFile
<1> QED BY <1>2, <1>3, <1>4, <1>5, <1>6, <1>7 DEF Parses

\* While resin.conf is read, no node is one of another file.
LEMMA LowNone ==
  ASSUME Inv
  PROVE  Low(0)
<1>1. GoodNow
  BY InvParts
<1>2. FilesOK(nodes, gone, headInclude, frames) /\ Len(frames) \in Nat /\ Len(frames) > 0
  BY <1>1, TopFacts DEF Tree
<1>3. 1 \in 1 .. Len(frames)
  BY <1>2
<1>4. PartOK(nodes, gone, frames[1])
  BY <1>2, <1>3 DEF FilesOK
<1>5. frames[1].root \in Nat \ {0}
  BY <1>4 DEF PartOK
<1> QED BY <1>5 DEF Low, Above

LEMMA StageParses ==
  ASSUME Inv, Stage, Parses, UNCHANGED conf
  PROVE  Stage' /\ (Len(owner) > 1 => Kept(MainLast) /\ MainLast' = MainLast)
<1>1. /\ phase = "parse" /\ phase' \in {"parse", "parsed", "refused", "crashed"}
      /\ phase' = "refused" => error'
  BY ParsePhase
<1>2. UNCHANGED <<owner, todo, looked>>
  BY DEF conf
<1>3. Len(owner) = 0 => frames'[1].root = 1
  <2>1. Kept(0)
    BY LowNone, ParseKeeps
  <2> QED BY <2>1 DEF Kept, Stage
<1>4. Len(owner) # 1
  BY <1>1 DEF Stage
<1>5. ASSUME Len(owner) > 1
      PROVE  Kept(MainLast) /\ MainLast' = MainLast /\ Low(MainLast)' /\ MainLast > 0
  <2> DEFINE M == MainLast
  <2>1. Low(M) /\ M > 0
    BY <1>5 DEF Stage
  <2>2. M' = M
    BY <1>2, <1>5 DEF MainLast
  <2> HIDE DEF M
  <2>3. Kept(M)
    BY <2>1, ParseKeeps
  <2>4. Low(M)'
    BY <2>1, <2>2, <2>3 DEF Kept, Low
  <2> QED BY <2>1, <2>2, <2>3, <2>4 DEF M
<1>6. Stage'
  BY <1>1, <1>2, <1>3, <1>4, <1>5 DEF Stage
<1> QED BY <1>5, <1>6

\* A file is opened behind the others.
Opens ==
  /\ nodes' = Append(nodes, NewNode("")) /\ up' = Append(up, 0) /\ said' = Append(said, Null)
  /\ frames' = <<Frame(Len(nodes) + 1, 0, "web.xml")>>

LEMMA OpenKeeps ==
  ASSUME Inv, NEW M \in 1 .. Len(nodes), Above(M, nodes, up), Opens
  PROVE  /\ Low(M)' /\ Len(nodes') = Len(nodes) + 1
         /\ SameUpTo(M, nodes, said, nodes', said')
         /\ \A c \in 1 .. M : up'[c] = up[c]
<1>1. /\ nodes \in Seq(Node) /\ up \in Seq(Nat) /\ said \in Seq(Meaning) /\ Len(nodes) \in Nat
      /\ Len(up) = Len(nodes) /\ Len(said) = Len(nodes)
  BY InvParts, TopFacts
<1> DEFINE x == NewNode("")
           null == Null
           m == Append(nodes, x)
           v == Append(up, 0)
           t == Append(said, null)
<1>2. nodes' = m /\ up' = v /\ said' = t
  BY DEF Opens
<1> HIDE DEF x, null
<1>3. /\ Len(m) = Len(nodes) + 1 /\ \A c \in 1 .. Len(nodes) : m[c] = nodes[c]
      /\ v[Len(nodes) + 1] = 0 /\ \A c \in 1 .. Len(nodes) : v[c] = up[c]
      /\ \A c \in 1 .. Len(nodes) : t[c] = said[c]
  <2>1. Len(m) = Len(nodes) + 1 /\ \A c \in 1 .. Len(nodes) : m[c] = nodes[c]
    BY <1>1
  <2>2. v[Len(nodes) + 1] = 0 /\ \A c \in 1 .. Len(nodes) : v[c] = up[c]
    BY <1>1
  <2>3. \A c \in 1 .. Len(nodes) : t[c] = said[c]
    BY <1>1
  <2> QED BY <2>1, <2>2, <2>3
<1> HIDE DEF m, v, t
<1>4. \A c \in 1 .. M : c \in 1 .. Len(nodes)
  BY <1>1
<1>5. SameUpTo(M, nodes, said, nodes', said') /\ \A c \in 1 .. M : up'[c] = up[c]
  BY <1>2, <1>3, <1>4 DEF SameUpTo
<1>6. Above(M, nodes', up')
  <2> SUFFICES ASSUME NEW c \in M + 1 .. Len(m) PROVE v[c] \notin 1 .. M
    BY <1>2 DEF Above
  <2>1. CASE c = Len(nodes) + 1
    BY <2>1, <1>3
  <2>2. CASE c # Len(nodes) + 1
    <3> DEFINE n == Len(nodes)
    <3>0. n \in Nat /\ M \in 1 .. n /\ c \in M + 1 .. n + 1 /\ c # n + 1
      BY <2>2, <1>1, <1>3
    <3>1. c \in M + 1 .. Len(nodes) /\ c \in 1 .. Len(nodes)
      <4>1. c \in M + 1 .. n /\ c \in 1 .. n
        <5> HIDE DEF n
        <5> QED BY <3>0
      <4> QED BY <4>1 DEF n
    <3> QED BY <3>1, <1>3 DEF Above
  <2> QED BY <2>1, <2>2
<1>7. frames'[1].root = Len(nodes) + 1
  BY DEF Frame, Opens
<1>8. Low(M)'
  BY <1>1, <1>6, <1>7 DEF Low
<1> QED BY <1>2, <1>3, <1>5, <1>8

\* The first nodes stay as they are when web.xml files are read.
Same(M) ==
  /\ Len(nodes) <= Len(nodes') /\ SameUpTo(M, nodes, said, nodes', said')
  /\ \A c \in 1 .. M : up'[c] = up[c] /\ (c \in gone' <=> c \in gone)
  /\ Above(M, nodes, up) /\ Above(M, nodes', up')
  /\ error => error'
  /\ headInclude => headInclude'
  /\ M \in 1 .. Len(nodes)

LEMMA StageInitWebApp ==
  ASSUME Inv, ConfTypes, Stage, InitWebApp
  PROVE  Stage' /\ Same(MainLast) /\ MainLast' = MainLast
<1>1. /\ phase = "init" /\ todo # <<>> /\ UNCHANGED <<error, gone, headInclude>>
  BY DEF InitWebApp
<1>2. /\ Len(nodes) \in Nat /\ Len(nodes) > 0
      /\ nodes \in Seq(Node) /\ up \in Seq(Nat) /\ said \in Seq(Meaning)
      /\ Len(up) = Len(nodes)
  <2>1. GoodNow
    BY InvParts
  <2>2. Top.node \in 1 .. Len(nodes) /\ Len(nodes) \in Nat
    BY <2>1, TopFacts
  <2> QED BY <2>1, <2>2, TopFacts
<1>3. PICK S : owner \in Seq(S)
  BY DEF Stage
<1>4. Len(owner) \in Nat /\ Len(owner) # 0
  BY <1>1, <1>3 DEF Stage
<1>5. MainLast \in 1 .. Len(nodes) /\ Above(MainLast, nodes, up)
  <2>1. CASE Len(owner) > 1
    <3>1. Low(MainLast) /\ MainLast > 0
      BY <2>1 DEF Stage
    <3>2. MainLast <= Len(nodes)
      BY <3>1, LowTop
    <3> QED BY <3>1, <3>2, <1>2 DEF Low
  <2>2. CASE ~(Len(owner) > 1)
    <3>1. MainLast = Len(nodes)
      BY <2>2 DEF MainLast
    <3> QED BY <3>1, <1>2 DEF Above
  <2> QED BY <2>1, <2>2
<1>6. CASE /\ todo' = Tail(todo)
           /\ UNCHANGED <<nodes, frames, phase, up, said, owner>>
  <2>1. MainLast' = MainLast
    BY <1>6 DEF MainLast
  <2>2. Len(owner) > 1 => Low(MainLast)'
    BY <2>1, <1>6 DEF Stage, Low
  <2>3. Stage'
    BY <2>1, <2>2, <1>1, <1>4, <1>6 DEF Stage
  <2>4. Same(MainLast)
    BY <1>1, <1>2, <1>5, <1>6 DEF Same, SameUpTo
  <2> QED BY <2>1, <2>3, <2>4
<1>7. CASE /\ nodes' = Append(nodes, NewNode("")) /\ up' = Append(up, 0)
           /\ said' = Append(said, Null)
           /\ frames' = <<Frame(Len(nodes) + 1, 0, "web.xml")>>
           /\ owner' = Append(owner, [Head(todo) EXCEPT !.node = Len(nodes) + 1])
           /\ phase' = "parse" /\ UNCHANGED todo
  <2>0. PICK M : M = MainLast
    OBVIOUS
  <2> DEFINE app == [Head(todo) EXCEPT !.node = Len(nodes) + 1]
             k == Len(owner)
  <2>k. k \in Nat /\ k # 0 /\ (k > 1 <=> k # 1)
    <3>1. k \in Nat /\ k # 0
      BY <1>4
    <3> HIDE DEF k
    <3> QED BY <3>1
  <2>1. app.node = Len(nodes) + 1
    <3>1. ForNode(Head(todo), nodes)
      BY <1>1, RestOK DEF ConfTypes
    <3> QED BY <3>1 DEF ForNode
  <2>2. owner' = Append(owner, app)
    BY <1>7
  <2> HIDE DEF app
  <2>3. /\ Len(owner') = Len(owner) + 1 /\ owner' \in Seq(S \cup {app})
        /\ owner'[2] = IF Len(owner) = 1 THEN app ELSE owner[2]
    <3> DEFINE R == S \cup {app}
    <3>1. owner \in Seq(R) /\ app \in R
      BY <1>3
    <3> HIDE DEF R
    <3>2. /\ Append(owner, app) \in Seq(R) /\ Len(Append(owner, app)) = Len(owner) + 1
          /\ Append(owner, app)[2] = IF Len(owner) = 1 THEN app ELSE owner[2]
      <4>1. /\ Append(owner, app) \in Seq(R) /\ Len(Append(owner, app)) = Len(owner) + 1
            /\ Append(owner, app)[Len(owner) + 1] = app
            /\ \A i \in 1 .. Len(owner) : Append(owner, app)[i] = owner[i]
        BY <3>1
      <4>2. k # 1 => 2 \in 1 .. k
        <5> HIDE DEF k
        <5> QED BY <2>k
      <4>3. k # 1 => Append(owner, app)[2] = owner[2]
        BY <4>1, <4>2
      <4>4. k = 1 => Append(owner, app)[2] = app
        BY <4>1
      <4> QED BY <4>1, <4>3, <4>4
    <3> QED BY <2>2, <3>2 DEF R
  <2>4. MainLast' = M
    <3>0. Len(owner') = k + 1 /\ k + 1 > 1
      <4>1. Len(owner') = k + 1
        BY <2>3
      <4> HIDE DEF k
      <4> QED BY <4>1, <2>k
    <3>1. Len(owner') > 1 /\ MainLast' = owner'[2].node - 1
      BY <3>0 DEF MainLast
    <3>2. CASE k = 1
      <4>1. MainLast = Len(nodes)
        BY <3>2 DEF MainLast
      <4>2. owner'[2].node - 1 = Len(nodes)
        BY <3>2, <2>1, <2>3, <1>2
      <4> QED BY <2>0, <3>1, <4>1, <4>2
    <3>3. CASE k # 1
      <4>1. MainLast = owner[2].node - 1
        BY <3>3, <2>k DEF MainLast
      <4>2. owner'[2] = owner[2]
        BY <3>3, <2>3
      <4> QED BY <2>0, <3>1, <4>1, <4>2
    <3> QED BY <3>2, <3>3
  <2>5. M \in 1 .. Len(nodes) /\ Above(M, nodes, up)
    BY <1>5, <2>0
  <2>6. /\ Low(M)' /\ Len(nodes') = Len(nodes) + 1
        /\ SameUpTo(M, nodes, said, nodes', said')
        /\ \A c \in 1 .. M : up'[c] = up[c]
    <3>1. Opens
      BY <1>7 DEF Opens
    <3>2. /\ Low(M)' /\ Len(nodes') = Len(nodes) + 1
          /\ SameUpTo(M, nodes, said, nodes', said')
          /\ \A c \in 1 .. M : up'[c] = up[c]
      BY <2>5, <3>1, OpenKeeps
    <3> QED BY <3>2
  <2>7. Same(M)
    BY <2>4, <2>5, <2>6, <1>1, <1>2 DEF Same, Low
  <2>8. Stage'
    <3>1. Low(MainLast)' /\ MainLast' > 0
      BY <2>4, <2>5, <2>6, <1>2 DEF Low
    <3>2. Len(owner') # 0 /\ Len(owner') # 1
      <4>1. Len(owner') = k + 1
        BY <2>3
      <4> HIDE DEF k
      <4> QED BY <4>1, <2>k
    <3> QED BY <3>1, <3>2, <2>3, <1>1, <1>7 DEF Stage
  <2> QED BY <2>0, <2>4, <2>7, <2>8
<1> QED BY <1>6, <1>7 DEF InitWebApp

LEMMA StageInitConfig ==
  ASSUME Inv, Stage, InitConfig
  PROVE  Stage' /\ MainLast' = Len(nodes)
<1>1. /\ phase' = "init" /\ owner' = <<App(1, <<>>, <<>>, <<>>)>> /\ UNCHANGED nodes
  BY DEF InitConfig
<1> DEFINE app == App(1, <<>>, <<>>, <<>>)
<1>2. owner' = <<app>>
  BY <1>1
<1> HIDE DEF app
<1>3. owner' \in Seq({app}) /\ Len(owner') = 1
  BY <1>2
<1>4. Stage'
  <2>1. \E S : owner' \in Seq(S)
    BY <1>3, Zenon
  <2>2. Len(owner') # 0 /\ ~(Len(owner') > 1) /\ phase' # "refused"
    BY <1>1, <1>3
  <2> QED BY <2>1, <2>2, <1>1 DEF Stage
<1> QED BY <1>1, <1>3, <1>4 DEF MainLast

LEMMA StageReadWebXml ==
  ASSUME Inv, Stage, ReadWebXml
  PROVE  Stage' /\ MainLast' = MainLast /\ todo # <<>> /\ UNCHANGED <<nodes, error, history>>
<1>1. /\ phase \in {"parsed", "refused"} /\ phase' = "init" /\ Len(owner) > 0
      /\ UNCHANGED <<nodes, frames, error, history, owner>>
  BY DEF ReadWebXml
<1>2. todo # <<>>
  BY <1>1 DEF Stage
<1>3. MainLast' = MainLast
  BY <1>1 DEF MainLast
<1>4. Len(owner) > 1 => Low(MainLast)'
  BY <1>1, <1>3 DEF Stage, Low, history
<1>5. Len(owner') # 0
  <2> DEFINE k == Len(owner)
  <2>1. k > 0 /\ Len(owner') = k
    BY <1>1
  <2> HIDE DEF k
  <2> QED BY <2>1
<1>6. Stage'
  BY <1>1, <1>3, <1>4, <1>5 DEF Stage
<1> QED BY <1>1, <1>2, <1>3, <1>6

\* What is kept of the walk has its types.
LEMMA TypesParses ==
  ASSUME Inv, ConfTypes, Parses, UNCHANGED conf
  PROVE  ConfTypes'
<1>1. Len(nodes) <= Len(nodes')
  BY LowNone, ParseKeeps DEF Kept
<1>2. Inv'
  BY ParseKeeps, InvStep DEF Next
<1>3. Len(nodes) \in Nat /\ Len(nodes') \in Nat
  BY <1>2 DEF Inv, Types, Shape
<1>4. UNCHANGED <<locations, disableStatus, todo>>
  BY DEF conf
<1>5. AppsOK(todo, nodes')
  BY <1>1, <1>3, MoreNodesOK DEF ConfTypes
<1> QED BY <1>4, <1>5 DEF ConfTypes

LEMMA TypesInitConfig ==
  ASSUME Inv, ConfTypes, InitConfig
  PROVE  ConfTypes'
<1>1. UNCHANGED <<nodes, locations>>
  BY DEF InitConfig
<1>2. nodes \in Seq(Node) /\ Len(nodes) \in Nat /\ Forward(nodes) /\ Len(nodes) > 0
  <2>1. GoodNow
    BY InvParts
  <2>2. Top.node \in 1 .. Len(nodes) /\ Len(nodes) \in Nat
    BY <2>1, TopFacts
  <2> QED BY <2>1, <2>2, TopFacts, FilesOpen
<1>3. CASE phase = "parsed" /\ HttpServer # 0
  <2>1. todo' = ServerApps(HttpServer) /\ disableStatus' \in BOOLEAN
    BY <1>3 DEF InitConfig
  <2>2. HttpServer \in 1 .. Len(nodes)
    <3>1. HttpServer \in 0 .. Len(nodes)
      BY <1>2, HttpServerIn
    <3> HIDE DEF HttpServer
    <3> QED BY <3>1, <1>2, <1>3
  <2>3. AppsOK(ServerApps(HttpServer), nodes)
    BY <2>2, <1>2, ServerAppsOK
  <2> QED BY <2>1, <2>3, <1>1 DEF ConfTypes
<1>4. CASE ~(phase = "parsed" /\ HttpServer # 0)
  <2>1. UNCHANGED <<disableStatus, todo>>
    BY <1>4 DEF InitConfig
  <2> QED BY <2>1, <1>1 DEF ConfTypes
<1> QED BY <1>3, <1>4

LEMMA TypesInitWebApp ==
  ASSUME Inv, Stage, ConfTypes, InitWebApp
  PROVE  ConfTypes'
<1> DEFINE app == Head(todo)
           n == app.node
<1>1. /\ todo # <<>> /\ (todo' = Tail(todo) \/ todo' = todo)
      /\ locations' = Contents(locations, nodes[n].first, app.host, app.prefix)
      /\ UNCHANGED disableStatus
  BY DEF InitWebApp
<1>2. /\ AppsOK(Tail(todo), nodes) /\ n \in 1 .. Len(nodes) /\ AppsOK(todo, nodes)
      /\ LocsOK(locations)
  BY <1>1, RestOK DEF ConfTypes, ForNode
<1>3. Len(nodes) \in Nat /\ Len(nodes') \in Nat /\ Forward(nodes) /\ Len(nodes) <= Len(nodes')
  <2>1. Same(MainLast)
    BY StageInitWebApp
  <2>2. Inv'
    BY InvInitWebApp
  <2> QED BY <2>1, <2>2, InvParts, FilesOpen DEF Same, Inv, Types, Shape
<1> HIDE DEF n
<1>4. nodes[n].first \in 0 .. Len(nodes)
  BY <1>2, <1>3 DEF Forward
<1> DEFINE first == nodes[n].first
<1>5. locations' = Contents(locations, first, app.host, app.prefix) /\ first \in 0 .. Len(nodes)
  BY <1>1, <1>4
<1> HIDE DEF first, app
<1>6. LocsOK(Contents(locations, first, app.host, app.prefix))
  BY <1>2, <1>3, <1>5, ContentsOK
<1>7. AppsOK(todo, nodes') /\ AppsOK(Tail(todo), nodes')
  BY <1>2, <1>3, MoreNodesOK
<1>8. AppsOK(todo', nodes')
  BY <1>1, <1>7
<1> QED BY <1>1, <1>5, <1>6, <1>8 DEF ConfTypes

LEMMA TypesReadWebXml ==
  ASSUME Inv, Stage, ConfTypes, ReadWebXml
  PROVE  ConfTypes'
<1> DEFINE top == nodes[Top.root].first
           first == nodes[top].first
           app == Last(owner)
<1>1. /\ todo # <<>> /\ UNCHANGED nodes
  BY StageReadWebXml
<1>2. /\ todo' = Tail(todo) /\ UNCHANGED disableStatus
      /\ locations' = IF phase = "parsed" /\ top # 0
                      THEN Contents(locations, first, app.host, app.prefix) ELSE locations
  BY DEF ReadWebXml
<1>3. AppsOK(Tail(todo), nodes) /\ LocsOK(locations)
  BY <1>1, RestOK DEF ConfTypes
<1>4. Len(nodes) \in Nat /\ Forward(nodes) /\ PartOK(nodes, gone, Top)
  BY InvParts, FilesOpen, TopFacts
<1>5. Top.root \in 1 .. Len(nodes)
  <2>1. Top.root \in Nat \ {0} /\ Top.node \in Nat /\ Top.root <= Top.node /\ Top.node <= Len(nodes)
    BY <1>4 DEF PartOK
  <2> DEFINE r == Top.root
             e == Top.node
  <2>2. r \in Nat \ {0} /\ e \in Nat /\ r <= e /\ e <= Len(nodes)
    BY <2>1
  <2> HIDE DEF r, e
  <2>3. r \in 1 .. Len(nodes)
    BY <2>2, <1>4
  <2> QED BY <2>3 DEF r
<1>6. top \in 0 .. Len(nodes)
  BY <1>4, <1>5 DEF Forward
<1> HIDE DEF top
<1>7. top # 0 => first \in 0 .. Len(nodes)
  <2>1. ASSUME top # 0 PROVE first \in 0 .. Len(nodes)
    <3>1. top \in 1 .. Len(nodes)
      BY <1>6, <2>1, <1>4
    <3> QED BY <3>1, <1>4 DEF Forward
  <2> QED BY <2>1
<1> HIDE DEF first, app
<1>8. LocsOK(locations')
  <2>1. CASE phase = "parsed" /\ top # 0
    <3>1. LocsOK(Contents(locations, first, app.host, app.prefix))
      BY <2>1, <1>3, <1>4, <1>7, ContentsOK
    <3> QED BY <3>1, <2>1, <1>2
  <2>2. CASE ~(phase = "parsed" /\ top # 0)
    <3>1. locations' = locations
      BY <2>2, <1>2
    <3> QED BY <3>1, <1>3
  <2> QED BY <2>1, <2>2
<1> QED BY <1>1, <1>2, <1>3, <1>8 DEF ConfTypes

LEMMA ConfStutter ==
  ASSUME ConfTypes, Stage, UNCHANGED vars
  PROVE  ConfTypes' /\ Stage' /\ MainLast' = MainLast
<1>1. UNCHANGED <<nodes, frames, phase, error, up, locations, disableStatus, todo, looked, owner>>
  BY DEF vars, regVars, history, conf
<1>2. ConfTypes' /\ MainLast' = MainLast
  BY <1>1 DEF ConfTypes, MainLast
<1>3. Len(owner) > 1 => Low(MainLast)'
  BY <1>1, <1>2 DEF Stage, Low
<1>4. Stage'
  BY <1>1, <1>2, <1>3 DEF Stage
<1> QED BY <1>2, <1>4

LEMMA ConfInit ==
  ASSUME ConfigInit
  PROVE  ConfInv
<1>1. Inv
  BY InvInit
<1>2. /\ locations = <<>> /\ disableStatus = FALSE /\ todo = <<>> /\ looked = {} /\ owner = <<>>
      /\ phase = "parse" /\ frames = <<Frame(1, 0, "")>>
  BY DEF ConfigInit, Init
<1>3. LocsOK(<<>>) /\ AppsOK(<<>>, nodes)
  <2> DEFINE E == {}
             e == <<>>
  <2>1. /\ e \in Seq(E) /\ \A loc \in E : DOMAIN loc = LocFields
        /\ \A a \in E : ForNode(a, nodes)
    OBVIOUS
  <2> HIDE DEF E, e
  <2>2. LocsOK(e)
    BY <2>1 DEF LocsOK
  <2>3. AppsOK(e, nodes)
    BY <2>1 DEF AppsOK
  <2> QED BY <2>2, <2>3 DEF e
<1>4. ConfTypes
  BY <1>2, <1>3 DEF ConfTypes
<1>5. frames[1].root = 1
  BY <1>2 DEF Frame
<1>6. (\E S : owner \in Seq(S)) /\ Len(owner) = 0
  <2>1. owner = <<>>
    BY <1>2
  <2>2. <<>> \in Seq({}) /\ Len(<<>>) = 0
    OBVIOUS
  <2>3. owner \in Seq({}) /\ Len(owner) = 0
    BY <2>1, <2>2
  <2> QED BY <2>3, Zenon
<1>7. Stage
  <2> DEFINE k == Len(owner)
  <2>0. k = 0
    BY <1>6
  <2>1. ~(k > 0) /\ ~(k > 1) /\ k # 1
    <3> HIDE DEF k
    <3> QED BY <2>0
  <2>2. phase # "refused" /\ phase # "init"
    <3>1. phase = "parse"
      BY <1>2
    <3> QED BY <3>1
  <2> QED BY <2>1, <2>2, <1>2, <1>5, <1>6 DEF Stage
<1> QED BY <1>1, <1>4, <1>7 DEF ConfInv

LEMMA ConfStep ==
  ASSUME ConfInv, [Next]_vars
  PROVE  ConfInv'
<1>1. Inv /\ ConfTypes /\ Stage
  BY DEF ConfInv
<1>2. Inv'
  BY <1>1, InvStep, InvStutter
<1>3. CASE Parses /\ UNCHANGED conf
  BY <1>1, <1>2, <1>3, TypesParses, StageParses DEF ConfInv
<1>4. CASE InitConfig
  BY <1>1, <1>2, <1>4, TypesInitConfig, StageInitConfig DEF ConfInv
<1>5. CASE InitWebApp
  BY <1>1, <1>2, <1>5, TypesInitWebApp, StageInitWebApp DEF ConfInv
<1>6. CASE ReadWebXml
  BY <1>1, <1>2, <1>6, TypesReadWebXml, StageReadWebXml DEF ConfInv
<1>7. CASE UNCHANGED vars
  BY <1>1, <1>2, <1>7, ConfStutter DEF ConfInv
<1> QED BY <1>3, <1>4, <1>5, <1>6, <1>7 DEF Next, Running

\* The invariant of cse_init_config: that of the registry, with the types of what it
\* keeps and the order of its phases.
THEOREM ConfigInv == Spec => []ConfInv
<1>1. ConfigInit => ConfInv
  BY ConfInit
<1>2. ConfInv /\ [Next]_vars => ConfInv'
  BY ConfStep
<1> QED BY <1>1, <1>2, PTL DEF Spec

\* The links of the registry lead to nodes, whatever was parsed, included or cut
\* off, no token is as long as its buffer, and every location that cse_add_location
\* has made has all of its fields.
THEOREM ConfigTypes == Spec => []TypeOK
<1>1. ASSUME ConfInv PROVE TypeOK
  <2>1. Inv /\ ConfTypes
    BY <1>1 DEF ConfInv
  <2>2. RegistryTypeOK
    <3>1. /\ Len(nodes) \in Nat /\ Forward(nodes) /\ Len(up) = Len(nodes)
          /\ Len(said) = Len(nodes) /\ gone \subseteq 1 .. Len(nodes)
          /\ \A i \in 1 .. Len(frames) : BufOK(frames[i])
      BY <2>1, InvParts, TopFacts, FilesOpen
    <3>2. ASSUME NEW n \in 1 .. Len(nodes)
          PROVE  {nodes[n].parent, nodes[n].next, nodes[n].prev, nodes[n].first, nodes[n].last}
                   \subseteq 0 .. Len(nodes)
      <4> DEFINE k == Len(nodes)
                 x == nodes[n]
      <4>1. /\ x.parent \in 0 .. n - 1 /\ x.prev \in 0 .. n - 1
            /\ x.next = 0 \/ x.next \in n + 1 .. k
            /\ x.first = 0 \/ x.first \in n + 1 .. k
            /\ x.last = 0 \/ x.last \in n + 1 .. k
        BY <3>1 DEF Forward
      <4>2. k \in Nat /\ n \in 1 .. k
        BY <3>1
      <4> HIDE DEF x, k
      <4>3. {x.parent, x.next, x.prev, x.first, x.last} \subseteq 0 .. k
        BY <4>1, <4>2
      <4> QED BY <4>3 DEF x, k
    <3>3. \A i \in 1 .. Len(frames) : Len(frames[i].buf) < frames[i].cap
      BY <3>1 DEF BufOK
    <3> QED BY <3>1, <3>2, <3>3 DEF RegistryTypeOK
  <2>3. \A i \in 1 .. Len(locations) :
          DOMAIN locations[i] = {"host", "port", "prefix", "suffix", "is_exact"}
    <3>1. PICK S : locations \in Seq(S) /\ \A loc \in S : DOMAIN loc = LocFields
      BY <2>1 DEF ConfTypes, LocsOK
    <3> QED BY <3>1 DEF LocFields
  <2>4. /\ phase \in {"parse", "parsed", "refused", "crashed", "init"}
        /\ error \in BOOLEAN /\ disableStatus \in BOOLEAN
    BY <2>1, InvParts DEF ConfTypes
  <2> QED BY <2>2, <2>3, <2>4 DEF TypeOK
<1> QED BY <1>1, ConfigInv, PTL

-----------------------------------------------------------------------------
(* What the walk finds in the tree is what the files say.                   *)

\* What is said in the first M nodes has a meaning.
Meant(M) ==
  /\ ~headInclude
  /\ \A n \in 1 .. M \ gone :
       /\ said[n] # Unclear /\ Fits(said[n])
       /\ Key(n) \in Valued /\ said[n] = Null => nodes[n].value = Null

LEMMA MinIs ==
  ASSUME NEW S, S \subseteq Nat, NEW x \in S, \A c \in S : x <= c
  PROVE  Min(S) = x
<1>1. \E y \in S : \A c \in S : y <= c
  OBVIOUS
<1> DEFINE m == Min(S)
<1>2. m \in S /\ \A c \in S : m <= c
  BY <1>1 DEF Min
<1> HIDE DEF m
<1>3. m \in Nat /\ x \in Nat /\ m <= x /\ x <= m
  BY <1>2
<1>4. m = x
  BY <1>3
<1> QED BY <1>4 DEF m

LEMMA MaxIs ==
  ASSUME NEW S, S \subseteq Nat, NEW x \in S, \A c \in S : c <= x
  PROVE  Max(S) = x
<1>1. \E y \in S : \A c \in S : c <= y
  OBVIOUS
<1> DEFINE m == Max(S)
<1>2. m \in S /\ \A c \in S : c <= m
  BY <1>1 DEF Max
<1> HIDE DEF m
<1>3. m \in Nat /\ x \in Nat /\ m <= x /\ x <= m
  BY <1>2
<1>4. m = x
  BY <1>3
<1> QED BY <1>4 DEF m

LEMMA ChildNodes ==
  ASSUME NEW n, NEW key
  PROVE  /\ Children(n) \subseteq 1 .. Len(nodes) \ gone /\ ChildrenOf(n, key) \subseteq Children(n)
         /\ ChildrenOf(n, key) \subseteq Nat
         /\ ChildrenOf(n, key) # {} => Min(ChildrenOf(n, key)) \in ChildrenOf(n, key)
<1> DEFINE C == ChildrenOf(n, key)
<1>1. Children(n) \subseteq 1 .. Len(nodes) \ gone /\ C \subseteq Children(n) /\ C \subseteq Nat
  BY DEF Children, ChildrenOf
<1> HIDE DEF C
<1>2. ASSUME C # {} PROVE Min(C) \in C
  <2>1. PICK x \in C : \A c \in C : x <= c
    BY <1>1, <1>2, LeastNumber
  <2>2. Min(C) = x
    BY <1>1, <2>1, MinIs
  <2> QED BY <2>2
<1> QED BY <1>1, <1>2 DEF C

\* cse_next_link among the children of an element.
LEMMA NextIs ==
  ASSUME Inv, Len(frames) = 1, ~headInclude, NEW n \in 1 .. Len(nodes) \ gone, NEW key
  PROVE  /\ Below(n) = Children(n)
         /\ NextLink(nodes, nodes[n].first, key)
              = IF ChildrenOf(n, key) = {} THEN 0 ELSE Min(ChildrenOf(n, key))
<1> DEFINE first == nodes[n].first
           chain == Chain(nodes, first)
           C == ChildrenOf(n, key)
           link == NextLink(nodes, first, key)
<1>1. Len(nodes) \in Nat /\ Forward(nodes)
  BY InvParts, TopFacts, FilesOpen
<1>2. first \in 0 .. Len(nodes)
  BY <1>1 DEF Forward
<1>3. Range(chain) = Children(n)
  BY InvAsWritten DEF AsWritten, InOrder
<1> HIDE DEF first
<1>4. Least(link, {c \in Range(chain) : nodes[c].key = key}) /\ link \in 0 .. Len(nodes)
  BY <1>1, <1>2, NextLinkIs
<1>5. {c \in Range(chain) : nodes[c].key = key} = C
  BY <1>3 DEF ChildrenOf, Key
<1> HIDE DEF chain, link
<1>6. Least(link, C)
  BY <1>4, <1>5
<1>7. C \subseteq Nat
  BY ChildNodes
<1> HIDE DEF C
<1>8. link = IF C = {} THEN 0 ELSE Min(C)
  <2>1. CASE link = 0
    <3>1. C = {}
      BY <2>1, <1>6 DEF Least
    <3> QED BY <2>1, <3>1
  <2>2. CASE link # 0
    <3>1. link \in C /\ \A c \in C : link <= c
      BY <2>2, <1>6 DEF Least
    <3>2. Min(C) = link
      BY <3>1, <1>7, MinIs
    <3> QED BY <3>1, <3>2
  <2> QED BY <2>1, <2>2
<1>9. Below(n) = Children(n)
  BY <1>3 DEF Below, chain, first
<1> QED BY <1>8, <1>9 DEF C, link, first

LEMMA ValueIsSaid ==
  ASSUME Inv, Meant(Len(nodes)), NEW c \in 1 .. Len(nodes) \ gone, Key(c) \in Valued
  PROVE  nodes[c].value = said[c]
<1>1. ValueOK(nodes[c].value, said[c])
  BY DEF Inv, ValueInv, Values
<1>2. /\ said[c] # Unclear /\ Fits(said[c])
      /\ said[c] = Null => nodes[c].value = Null
  BY DEF Meant
<1>3. said[c] # Null => nodes[c].value = said[c]
  BY <1>1, <1>2 DEF ValueOK
<1> QED BY <1>2, <1>3

\* cse_find_value among the children of an element.
LEMMA FindIsSaid ==
  ASSUME Inv, Len(frames) = 1, Meant(Len(nodes)), NEW n \in 1 .. Len(nodes) \ gone,
         NEW key \in Valued
  PROVE  FindValue(nodes, nodes[n].first, key) = SaidOf(n, key)
<1> DEFINE C == ChildrenOf(n, key)
           link == NextLink(nodes, nodes[n].first, key)
<1>1. link = IF C = {} THEN 0 ELSE Min(C)
  BY NextIs DEF Meant
<1>2. FindValue(nodes, nodes[n].first, key) = IF link = 0 THEN Null ELSE nodes[link].value
  BY DEF FindValue
<1>3. SaidOf(n, key) = IF C = {} THEN Null ELSE said[Min(C)]
  BY DEF SaidOf
<1>4. C # {} => Min(C) \in 1 .. Len(nodes) \ gone /\ Key(Min(C)) = key
  <2>1. C # {} => Min(C) \in C /\ Min(C) \in 1 .. Len(nodes) \ gone
    BY ChildNodes
  <2> QED BY <2>1 DEF ChildrenOf
<1> HIDE DEF C, link
<1>5. CASE C = {}
  BY <1>1, <1>2, <1>3, <1>5
<1>6. CASE C # {}
  <2>1. link = Min(C) /\ link # 0
    BY <1>1, <1>4, <1>6
  <2>2. nodes[link].value = said[link]
    BY <2>1, <1>4, <1>6, ValueIsSaid
  <2> QED BY <1>2, <1>3, <1>6, <2>1, <2>2
<1> QED BY <1>5, <1>6

\* The elements that the walk starts from.
LEMMA ServerIs ==
  ASSUME Inv, Len(frames) = 1, ~headInclude, 1 \in 1 .. Len(nodes) \ gone
  PROVE  /\ ServerElems = IF HttpServer = 0 THEN {} ELSE {HttpServer}
         /\ HttpServer # 0 => HttpServer \in 1 .. Len(nodes) \ gone /\ Key(HttpServer) = "http-server"
<1> DEFINE T == ChildrenOf(1, "caucho.com")
           t == Min(T)
           S == ChildrenOf(t, "http-server")
<1>1. NextLink(nodes, nodes[1].first, "caucho.com") = IF T = {} THEN 0 ELSE t
  BY NextIs
<1>2. T # {} => t \in 1 .. Len(nodes) \ gone
  BY ChildNodes
<1> HIDE DEF T
<1>3. CASE T = {}
  <2>1. HttpServer = 0
    BY <1>1, <1>3 DEF HttpServer
  <2>2. ServerElems = {}
    BY <1>3 DEF ServerElems, T
  <2> QED BY <2>1, <2>2
<1>4. CASE T # {}
  <2>0. t # 0
    BY <1>2, <1>4
  <2> HIDE DEF t
  <2>1. HttpServer = NextLink(nodes, nodes[t].first, "http-server")
    BY <1>1, <1>4, <2>0 DEF HttpServer
  <2>2. NextLink(nodes, nodes[t].first, "http-server") = IF S = {} THEN 0 ELSE Min(S)
    BY <1>2, <1>4, NextIs
  <2>3. ServerElems = IF S = {} THEN {} ELSE {Min(S)}
    BY <1>4 DEF ServerElems, T, t
  <2>4. S # {} => Min(S) \in S /\ Min(S) \in 1 .. Len(nodes) \ gone
    BY ChildNodes
  <2>5. \A c \in S : Key(c) = "http-server"
    BY DEF ChildrenOf
  <2> DEFINE s == Min(S)
             H == HttpServer
  <2>6. CASE S = {}
    <3>1. H = 0 /\ ServerElems = {}
      BY <2>1, <2>2, <2>3, <2>6
    <3> QED BY <3>1
  <2>7. CASE S # {}
    <3>1. H = s /\ ServerElems = {s}
      BY <2>1, <2>2, <2>3, <2>7
    <3>2. s \in 1 .. Len(nodes) \ gone /\ Key(s) = "http-server"
      BY <2>4, <2>5, <2>7
    <3> HIDE DEF s, H
    <3>3. s # 0
      BY <3>2
    <3> QED BY <3>1, <3>2, <3>3 DEF H
  <2> QED BY <2>6, <2>7
<1> QED BY <1>3, <1>4

-----------------------------------------------------------------------------
(* What resin.conf says stays when web.xml files are read.                  *)

LEMMA SameChildren ==
  ASSUME NEW M, Same(M), Inv, Inv'
  PROVE  \A n \in 1 .. M : /\ Children(n)' = Children(n) /\ Children(n) \subseteq 1 .. M
                           /\ Key(n)' = Key(n)
<1> SUFFICES ASSUME NEW n \in 1 .. M
             PROVE  /\ Children(n)' = Children(n) /\ Children(n) \subseteq 1 .. M
                    /\ Key(n)' = Key(n)
  OBVIOUS
<1>1. /\ Len(nodes) \in Nat /\ Len(nodes') \in Nat /\ M \in 1 .. Len(nodes)
      /\ Len(nodes) <= Len(nodes')
  BY DEF Same, Inv, Types, Shape
<1>2. ASSUME NEW c \in 1 .. Len(nodes), up[c] = n PROVE c \in 1 .. M
  <2>1. CASE c > M
    <3>1. c \in M + 1 .. Len(nodes)
      BY <1>1, <2>1
    <3> QED BY <1>2, <3>1 DEF Same, Above
  <2> QED BY <1>1, <2>1
<1>3. ASSUME NEW c \in 1 .. Len(nodes'), up'[c] = n PROVE c \in 1 .. M
  <2>1. CASE c > M
    <3>1. c \in M + 1 .. Len(nodes')
      BY <1>1, <2>1
    <3> QED BY <1>3, <3>1 DEF Same, Above
  <2> QED BY <1>1, <2>1
<1>4. \A c \in 1 .. M : /\ c \in 1 .. Len(nodes) /\ c \in 1 .. Len(nodes') /\ up'[c] = up[c]
                        /\ c \in gone' <=> c \in gone
  BY <1>1 DEF Same
<1>5. Children(n) \subseteq 1 .. M
  BY <1>2 DEF Children
<1>6. Children(n)' = Children(n)
  <2>1. Children(n)' = {c \in 1 .. Len(nodes') : up'[c] = n /\ c \notin gone'}
    BY DEF Children
  <2>2. Children(n) = {c \in 1 .. Len(nodes) : up[c] = n /\ c \notin gone}
    BY DEF Children
  <2> QED BY <2>1, <2>2, <1>2, <1>3, <1>4
<1>7. Key(n)' = Key(n)
  BY DEF Same, SameUpTo, Key
<1> QED BY <1>5, <1>6, <1>7

LEMMA SameSaid ==
  ASSUME NEW M, Same(M), Inv, Inv', NEW n \in 1 .. M, NEW key
  PROVE  /\ ChildrenOf(n, key)' = ChildrenOf(n, key) /\ ChildrenOf(n, key) \subseteq 1 .. M
         /\ SaidOf(n, key)' = SaidOf(n, key)
<1>1. /\ Children(n)' = Children(n) /\ Children(n) \subseteq 1 .. M
      /\ \A c \in 1 .. M : Key(c)' = Key(c)
  BY SameChildren
<1>2. ChildrenOf(n, key)' = {c \in Children(n)' : Key(c)' = key}
  BY DEF ChildrenOf
<1>3. ChildrenOf(n, key)' = ChildrenOf(n, key) /\ ChildrenOf(n, key) \subseteq 1 .. M
  BY <1>1, <1>2 DEF ChildrenOf
<1> DEFINE C == ChildrenOf(n, key)
<1>4. C # {} => Min(C) \in 1 .. M
  <2>1. C # {} => Min(C) \in C
    BY ChildNodes
  <2> QED BY <2>1, <1>3
<1>5. SaidOf(n, key)' = IF C' = {} THEN Null ELSE said'[Min(C')]
  BY DEF SaidOf
<1>6. SaidOf(n, key) = IF C = {} THEN Null ELSE said[Min(C)]
  BY DEF SaidOf
<1>7. C' = C
  BY <1>3
<1> HIDE DEF C
<1>8. \A c \in 1 .. M : said'[c] = said[c]
  BY DEF Same, SameUpTo
<1>9. SaidOf(n, key)' = SaidOf(n, key)
  BY <1>4, <1>5, <1>6, <1>7, <1>8
<1> QED BY <1>3, <1>9

LEMMA SameServer ==
  ASSUME NEW M, Same(M), Inv, Inv'
  PROVE  ServerElems' = ServerElems /\ ServerElems \subseteq 1 .. M
<1> DEFINE T == ChildrenOf(1, "caucho.com")
           S == ChildrenOf(Min(T), "http-server")
<1>1. 1 \in 1 .. M
  BY DEF Same
<1>2. T' = T /\ T \subseteq 1 .. M
  BY <1>1, SameSaid
<1>3. T # {} => Min(T) \in 1 .. M
  <2>1. T # {} => Min(T) \in T
    BY ChildNodes
  <2> QED BY <2>1, <1>2
<1>4. CASE T = {}
  <2>1. ServerElems = {}
    BY <1>4 DEF ServerElems
  <2>2. ServerElems' = {}
    BY <1>2, <1>4 DEF ServerElems
  <2> QED BY <2>1, <2>2
<1>5. CASE T # {}
  <2>0. PICK t : t = Min(T)
    OBVIOUS
  <2>1. t \in 1 .. M /\ Min(T') = t
    BY <2>0, <1>2, <1>3, <1>5
  <2> DEFINE C == ChildrenOf(t, "http-server")
  <2>2. C' = C /\ C \subseteq 1 .. M
    BY <2>1, SameSaid
  <2>3. C # {} => Min(C) \in 1 .. M
    <3>1. C # {} => Min(C) \in C
      BY ChildNodes
    <3> QED BY <3>1, <2>2
  <2>4. ServerElems = IF C = {} THEN {} ELSE {Min(C)}
    BY <2>0, <1>5 DEF ServerElems
  <2>5. T' # {}
    BY <1>2, <1>5
  <2>6. ServerElems' = IF C' = {} THEN {} ELSE {Min(C')}
    BY <2>1, <2>5 DEF ServerElems
  <2> HIDE DEF C
  <2>7. ServerElems' = IF C = {} THEN {} ELSE {Min(C)}
    BY <2>2, <2>6
  <2> QED BY <2>3, <2>4, <2>7
<1> QED BY <1>4, <1>5

LEMMA MaxIn ==
  ASSUME NEW M \in Nat, NEW S, S \subseteq 1 .. M, S # {}
  PROVE  Max(S) \in S /\ \A c \in S : c <= Max(S)
<1> DEFINE T == {M - c : c \in S}
<1>1. T \subseteq Nat /\ T # {}
  <2>1. \A c \in S : M - c \in Nat
    OBVIOUS
  <2>2. PICK c : c \in S
    OBVIOUS
  <2>3. M - c \in T
    BY <2>2
  <2>4. T # {}
    BY <2>3
  <2> QED BY <2>1, <2>4
<1>2. PICK t \in T : \A y \in T : t <= y
  <2> HIDE DEF T
  <2> QED BY <1>1, LeastNumber
<1>3. PICK x \in S : t = M - x
  OBVIOUS
<1>4. \A c \in S : c <= x
  <2> SUFFICES ASSUME NEW c \in S PROVE c <= x
    OBVIOUS
  <2>1. M - c \in T
    OBVIOUS
  <2>2. M - x <= M - c
    BY <2>1, <1>2, <1>3
  <2> QED BY <2>2
<1>5. Max(S) = x
  <2>1. S \subseteq Nat
    OBVIOUS
  <2> QED BY <2>1, <1>4, MaxIs
<1> QED BY <1>4, <1>5

LEMMA MinIn ==
  ASSUME NEW S, S \subseteq Nat, S # {}
  PROVE  Min(S) \in S /\ \A c \in S : Min(S) <= c
<1>1. PICK x \in S : \A c \in S : x <= c
  BY LeastNumber
<1>2. Min(S) = x
  BY <1>1, MinIs
<1> QED BY <1>1, <1>2

LEMMA SamePage ==
  ASSUME NEW M, Same(M), Inv, Inv', NEW P \in SUBSET (1 .. M)
  PROVE  PageOf(P)' = PageOf(P)
<1> DEFINE lost == {n \in P : SaidOf(n, "exception-type") = <<"connection">>}
           any == {n \in P : /\ SaidOf(n, "exception-type") = Null
                             /\ SaidOf(n, "error-code") = Null}
<1>1. \A n \in P : /\ SaidOf(n, "exception-type")' = SaidOf(n, "exception-type")
                   /\ SaidOf(n, "error-code")' = SaidOf(n, "error-code")
                   /\ SaidOf(n, "location")' = SaidOf(n, "location")
  BY SameSaid
<1>2. lost' = lost
  <2>1. lost' = {n \in P : SaidOf(n, "exception-type")' = <<"connection">>}
    OBVIOUS
  <2> QED BY <2>1, <1>1
<1>3. any' = any
  <2>1. any' = {n \in P : /\ SaidOf(n, "exception-type")' = Null
                          /\ SaidOf(n, "error-code")' = Null}
    BY DEF Null
  <2> QED BY <2>1, <1>1
<1>4. PageOf(P) = IF lost # {} THEN SaidOf(Max(lost), "location")
                  ELSE IF any # {} THEN SaidOf(Min(any), "location") ELSE Null
  BY DEF PageOf

<1>6. lost \subseteq P /\ any \subseteq P /\ P \subseteq 1 .. M /\ M \in Nat
  <2>1. M \in Nat
    <3>1. M \in 1 .. Len(nodes)
      BY DEF Same
    <3> QED BY <3>1
  <2> QED BY <2>1
<1>7. PICK x, y, p : x = Max(lost) /\ y = Min(any) /\ p = PageOf(P)
  OBVIOUS
<1>8. x = Max(lost') /\ y = Min(any')
  BY <1>2, <1>3, <1>7
<1>9. PageOf(P)' = IF lost' # {} THEN SaidOf(x, "location")'
                   ELSE IF any' # {} THEN SaidOf(y, "location")' ELSE Null
  BY <1>8 DEF PageOf, Null
<1>10. (lost # {} => x \in P) /\ (any # {} => y \in P)
  <2> HIDE DEF lost, any
  <2>1. lost # {} => Max(lost) \in lost
    <3>1. lost \subseteq 1 .. M
      BY <1>6
    <3> QED BY <3>1, <1>6, MaxIn
  <2>2. any # {} => Min(any) \in any
    <3>1. any \subseteq Nat
      BY <1>6
    <3> QED BY <3>1, MinIn
  <2> QED BY <2>1, <2>2, <1>6, <1>7
<1>11. p = IF lost # {} THEN SaidOf(x, "location")
           ELSE IF any # {} THEN SaidOf(y, "location") ELSE Null
  BY <1>4, <1>7
<1> HIDE DEF lost, any
<1>12. PageOf(P)' = p
  BY <1>1, <1>2, <1>3, <1>9, <1>10, <1>11
<1> QED BY <1>7, <1>12

-----------------------------------------------------------------------------
(* The page for a lost connection.                                          *)

\* A page behind the others.
LEMMA PageAdds ==
  ASSUME NEW M \in Nat, NEW P, P \subseteq 1 .. M, NEW n \in 1 .. M, \A p \in P : p < n,
         \A p \in P \cup {n} : SaidOf(p, "location") # Null
  PROVE  PageOf(P \cup {n}) =
           IF \/ SaidOf(n, "exception-type") = <<"connection">>
              \/ /\ SaidOf(n, "exception-type") = Null /\ SaidOf(n, "error-code") = Null
                 /\ PageOf(P) = Null
           THEN SaidOf(n, "location") ELSE PageOf(P)
<1> DEFINE Lost(x) == SaidOf(x, "exception-type") = <<"connection">>
           Plain(x) == SaidOf(x, "exception-type") = Null /\ SaidOf(x, "error-code") = Null
           Loc(x) == SaidOf(x, "location")
           Q == P \cup {n}
           lost(A) == {x \in A : Lost(x)}
           plain(A) == {x \in A : Plain(x)}
           page(A) == IF lost(A) # {} THEN Loc(Max(lost(A)))
                      ELSE IF plain(A) # {} THEN Loc(Min(plain(A))) ELSE Null
<1>1. PageOf(P) = page(P) /\ PageOf(Q) = page(Q)
  BY DEF PageOf
<1>2. \A p \in Q : Loc(p) # Null
  OBVIOUS
<1> HIDE DEF Lost, Plain, Loc
<1>3. /\ lost(P) \subseteq P /\ plain(P) \subseteq P /\ lost(P) \subseteq 1 .. M
      /\ plain(P) \subseteq Nat
  <2>1. lost(P) \subseteq P /\ plain(P) \subseteq P
    OBVIOUS
  <2>2. P \subseteq 1 .. M /\ P \subseteq Nat
    OBVIOUS
  <2> HIDE DEF lost, plain
  <2> QED BY <2>1, <2>2
<1>4. lost(P) # {} => Max(lost(P)) \in lost(P) /\ Max(lost(P)) \in P
  <2> DEFINE A == lost(P)
  <2>1. A \subseteq 1 .. M /\ A \subseteq P
    BY <1>3
  <2> HIDE DEF A
  <2>2. A # {} => Max(A) \in A
    BY <2>1, MaxIn
  <2> QED BY <2>1, <2>2 DEF A
<1>5. plain(P) # {} => /\ Min(plain(P)) \in plain(P) /\ Min(plain(P)) \in P
                     /\ \A c \in plain(P) : Min(plain(P)) <= c
  <2> DEFINE A == plain(P)
  <2>1. A \subseteq Nat /\ A \subseteq P
    BY <1>3
  <2> HIDE DEF A
  <2>2. A # {} => Min(A) \in A /\ \A c \in A : Min(A) <= c
    BY <2>1, MinIn
  <2> QED BY <2>1, <2>2 DEF A
<1>6. page(P) = Null <=> lost(P) = {} /\ plain(P) = {}
  <2> DEFINE A == lost(P)
             B == plain(P)
             a == Max(A)
             b == Min(B)
  <2>1. page(P) = IF A # {} THEN Loc(a) ELSE IF B # {} THEN Loc(b) ELSE Null
    OBVIOUS
  <2>2. (A # {} => a \in Q) /\ (B # {} => b \in Q)
    BY <1>4, <1>5
  <2> HIDE DEF page, A, B, a, b
  <2>3. page(P) = Null <=> A = {} /\ B = {}
    BY <2>1, <2>2, <1>2
  <2> QED BY <2>3 DEF A, B
<1>7. CASE Lost(n)
  <2> DEFINE A == lost(Q)
  <2>0. n \in A /\ A \subseteq Q
    BY <1>7
  <2> HIDE DEF A
  <2>1. A \subseteq Nat /\ \A c \in A : c <= n
    BY <2>0
  <2>2. Max(A) = n /\ A # {}
    BY <2>0, <2>1, MaxIs
  <2>3. page(Q) = Loc(n)
    BY <2>2 DEF A
  <2> HIDE DEF page
  <2> QED BY <2>3, <1>1, <1>7 DEF Lost, Loc
<1>8. CASE ~Lost(n) /\ Plain(n) /\ page(P) = Null
  <2>1. lost(Q) = {} /\ plain(Q) = {n}
    BY <1>6, <1>8
  <2>2. Min({n}) = n
    BY MinIs
  <2>3. page(Q) = Loc(n)
    BY <2>1, <2>2
  <2> HIDE DEF page
  <2> QED BY <2>3, <1>1, <1>8 DEF Plain, Loc
<1>9. CASE ~Lost(n) /\ ~(Plain(n) /\ page(P) = Null)
  <2>1. lost(Q) = lost(P)
    BY <1>9
  <2>2. page(Q) = page(P)
    <3>1. CASE lost(P) # {}
      BY <2>1, <3>1
    <3>2. CASE lost(P) = {} /\ ~Plain(n)
      <4>1. plain(Q) = plain(P)
        BY <3>2
      <4> QED BY <2>1, <4>1
    <3>3. CASE lost(P) = {} /\ Plain(n)
      <4> DEFINE B == plain(P)
                 b == Min(B)
      <4>1. B # {}
        BY <1>6, <1>9, <3>3
      <4>2. b \in B /\ b \in P /\ \A c \in B : b <= c
        BY <1>5, <4>1
      <4>3. plain(Q) = B \cup {n}
        BY <3>3
      <4> HIDE DEF B, b
      <4>4. Min(B \cup {n}) = b
        <5>1. b \in B \cup {n} /\ B \cup {n} \subseteq Nat /\ \A c \in B \cup {n} : b <= c
          BY <4>2, <1>3 DEF B
        <5> QED BY <5>1, MinIs
      <4>5. page(Q) = Loc(b)
        BY <2>1, <3>3, <4>3, <4>4
      <4>6. page(P) = Loc(b)
        BY <3>3, <4>1 DEF B, b
      <4> QED BY <4>5, <4>6
    <3> QED BY <3>1, <3>2, <3>3
  <2> HIDE DEF page
  <2> QED BY <2>2, <1>1, <1>9 DEF Plain, Lost
<1> QED BY <1>7, <1>8, <1>9

LEMMA ErrorPageSays ==
  ASSUME Inv, Len(frames) = 1, Meant(Len(nodes)), NEW n \in 1 .. Len(nodes) \ gone, NEW page
  PROVE  ErrorPage(page, n) =
           IF \/ SaidOf(n, "exception-type") = <<"connection">>
              \/ /\ SaidOf(n, "exception-type") = Null /\ SaidOf(n, "error-code") = Null
                 /\ page = Null
           THEN SaidOf(n, "location") ELSE page
<1>1. /\ "exception-type" \in Valued /\ "error-code" \in Valued /\ "location" \in Valued
  BY DEF Valued
<1>2. /\ FindValue(nodes, nodes[n].first, "exception-type") = SaidOf(n, "exception-type")
      /\ FindValue(nodes, nodes[n].first, "error-code") = SaidOf(n, "error-code")
      /\ FindValue(nodes, nodes[n].first, "location") = SaidOf(n, "location")
  BY <1>1, FindIsSaid
<1> QED BY <1>2 DEF ErrorPage

\* cse_init_error_page, loop and all.
LEMMA LastPageIs ==
  ASSUME Inv, Len(frames) = 1, Meant(Len(nodes)), NEW s \in 1 .. Len(nodes) \ gone,
         \A n \in ChildrenOf(s, "error-page") : SaidOf(n, "location") # Null
  PROVE  LastErrorPage(nodes[s].first) = PageOf(ChildrenOf(s, "error-page"))
<1> DEFINE E == ChildrenOf(s, "error-page")
           pages == Chain(nodes, nodes[s].first)
           N == Len(pages)
           Upto(k) == {pages[i] : i \in 1 .. k} \cap E
           S == {Null} \cup {SaidOf(n, "location") : n \in 1 .. Len(nodes)}
           Adds(v, k) == IF nodes[pages[k]].key = "error-page" THEN ErrorPage(v, pages[k]) ELSE v
           F == [x \in S \X (1 .. N) |-> Adds(x[1], x[2])]
           T == {x \in S \X Nat : x[2] <= N => x[1] = PageOf(Upto(x[2]))}
           b == Null
<1>0. /\ N \in Nat /\ \A i, j \in 1 .. N : i < j => pages[i] < pages[j]
      /\ \A k \in 1 .. N : pages[k] \in 1 .. Len(nodes) \ gone /\ pages[k] \in Children(s)
      /\ Children(s) = {pages[i] : i \in 1 .. N} /\ Len(nodes) \in Nat
  <2>1. InOrder(pages, Children(s))
    BY InvAsWritten DEF AsWritten, Meant
  <2>2. Len(nodes) \in Nat /\ Forward(nodes)
    BY InvParts, TopFacts, FilesOpen
  <2>3. pages \in Seq(1 .. Len(nodes))
    <3> DEFINE first == nodes[s].first
    <3>1. first \in 0 .. Len(nodes)
      BY <2>2 DEF Forward
    <3> HIDE DEF first
    <3>2. Chain(nodes, first) \in Seq(1 .. Len(nodes))
      BY <2>2, <3>1, ChainNodes
    <3> QED BY <3>2 DEF first
  <2>4. Children(s) \subseteq 1 .. Len(nodes) \ gone
    BY ChildNodes
  <2> HIDE DEF pages
  <2>5. Range(pages) = {pages[i] : i \in 1 .. N}
    BY <2>3 DEF Range
  <2>6. Children(s) = {pages[i] : i \in 1 .. N}
    BY <2>1, <2>5 DEF InOrder
  <2>7. \A k \in 1 .. N : pages[k] \in Children(s)
    BY <2>6
  <2>8. N \in Nat
    BY <2>3
  <2> QED BY <2>1, <2>2, <2>4, <2>6, <2>7, <2>8 DEF InOrder
<1>1. E \subseteq Children(s) /\ E = {c \in Children(s) : nodes[c].key = "error-page"}
      /\ E \subseteq 1 .. Len(nodes)
  BY ChildNodes DEF ChildrenOf, Key
<1>2. LastErrorPage(nodes[s].first)
        = LET upto[k \in 0 .. N] == IF k = 0 THEN b ELSE Adds(upto[k - 1], k) IN upto[N]
  BY DEF LastErrorPage
<1> HIDE DEF pages, E
<1>3. b \in S /\ <<b, 0>> \in T
  <2>1. b \in S
    OBVIOUS
  <2>2. Upto(0) = {}
    OBVIOUS
  <2>3. PageOf({}) = Null
    BY DEF PageOf
  <2> HIDE DEF S, Upto
  <2> QED BY <2>1, <2>2, <2>3
<1>4. ASSUME NEW v \in S, NEW k \in 1 .. N
      PROVE  /\ Adds(v, k) \in S
             /\ <<v, k - 1>> \in T => <<Adds(v, k), k>> \in T
  <2> DEFINE n == pages[k]
             P == Upto(k - 1)
  <2>1. n \in 1 .. Len(nodes) \ gone /\ k \in Nat /\ k - 1 \in Nat /\ k <= N /\ k - 1 <= N
    BY <1>0
  <2>2. Upto(k) = IF n \in E THEN P \cup {n} ELSE P
    <3>1. {pages[i] : i \in 1 .. k} = {pages[i] : i \in 1 .. k - 1} \cup {n}
      <4>1. \A i \in 1 .. k : i = k \/ i \in 1 .. k - 1
        BY <2>1
      <4>2. (\A i \in 1 .. k - 1 : i \in 1 .. k) /\ k \in 1 .. k
        BY <2>1
      <4> QED BY <4>1, <4>2
    <3> QED BY <3>1
  <2>3. n \in E <=> nodes[n].key = "error-page"
    BY <1>0, <1>1
  <2>4. CASE n \notin E
    <3>1. Adds(v, k) = v /\ Upto(k) = P
      BY <2>2, <2>3, <2>4
    <3> HIDE DEF Adds, Upto, S, P
    <3>2. <<v, k - 1>> \in T => v = PageOf(P)
      BY <2>1 DEF P
    <3> QED BY <3>1, <3>2, <2>1
  <2>5. CASE n \in E
    <3>1. Adds(v, k) = ErrorPage(v, n)
      BY <2>3, <2>5
    <3>2. ErrorPage(v, n) =
            IF \/ SaidOf(n, "exception-type") = <<"connection">>
               \/ /\ SaidOf(n, "exception-type") = Null /\ SaidOf(n, "error-code") = Null
                  /\ v = Null
            THEN SaidOf(n, "location") ELSE v
      <4> HIDE DEF n
      <4> QED BY <2>1, ErrorPageSays
    <3>3. SaidOf(n, "location") \in S
      BY <2>1
    <3>4. Adds(v, k) \in S
      <4> HIDE DEF S, Adds, n
      <4> QED BY <3>1, <3>2, <3>3
    <3>5. PageOf(P \cup {n}) =
            IF \/ SaidOf(n, "exception-type") = <<"connection">>
               \/ /\ SaidOf(n, "exception-type") = Null /\ SaidOf(n, "error-code") = Null
                  /\ PageOf(P) = Null
            THEN SaidOf(n, "location") ELSE PageOf(P)
      <4>1. \A p \in P : p < n
        <5> SUFFICES ASSUME NEW p \in P PROVE p < n
          OBVIOUS
        <5>1. PICK i \in 1 .. k - 1 : p = pages[i]
          OBVIOUS
        <5>2. i \in 1 .. N /\ k \in 1 .. N /\ i < k
          BY <1>0, <2>1
        <5> QED BY <5>1, <5>2, <1>0
      <4>2. \A p \in P \cup {n} : SaidOf(p, "location") # Null
        BY <2>5 DEF E
      <4>3. P \subseteq 1 .. Len(nodes) /\ n \in 1 .. Len(nodes)
        BY <1>1, <2>1
      <4> HIDE DEF P, n
      <4> QED BY <4>1, <4>2, <4>3, <1>0, PageAdds
    <3>6. ASSUME v = PageOf(P) PROVE Adds(v, k) = PageOf(Upto(k))
      <4> HIDE DEF Adds, P, n, Upto
      <4> QED BY <3>6, <3>1, <3>2, <3>5, <2>2, <2>5
    <3> HIDE DEF Adds, Upto, S, P
    <3>7. <<v, k - 1>> \in T => v = PageOf(P)
      BY <2>1 DEF P
    <3> QED BY <3>4, <3>6, <3>7, <2>1
  <2> QED BY <2>4, <2>5
<1> HIDE DEF S, b, T
<1>5. F \in [S \X (1 .. N) -> S] /\ \A v \in S, k \in 1 .. N : F[<<v, k>>] = Adds(v, k)
  <2> HIDE DEF Adds
  <2> QED BY <1>4
<1> DEFINE Step(d) == [k \in 0 .. N |-> IF k = 0 THEN b ELSE Adds(d[k - 1], k)]
           m == CHOOSE d : d = Step(d)
<1>6. PICK g \in [0 .. N -> S] : g[0] = b /\ \A k \in 1 .. N : g[k] = F[<<g[k - 1], k>>]
  <2>1. \E g : Loop(g, N, S, b, F)
    <3> HIDE DEF N, F
    <3> QED BY <1>0, <1>3, <1>5, Iterates
  <2> QED BY <2>1 DEF Loop
<1> HIDE DEF F, Adds
<1>7. g = Step(g)
  <2>1. ASSUME NEW k \in 0 .. N PROVE g[k] = Step(g)[k]
    <3>1. CASE k = 0
      BY <3>1, <1>6
    <3>2. CASE k # 0
      <4>1. k \in 1 .. N /\ k - 1 \in 0 .. N
        BY <3>2, <1>0
      <4>2. g[k - 1] \in S
        BY <4>1
      <4> QED BY <4>1, <4>2, <3>2, <1>5, <1>6
    <3> QED BY <3>1, <3>2
  <2> QED BY <2>1
<1>8. m = Step(m)
  BY <1>7
<1>9. LastErrorPage(nodes[s].first) = m[N]
  BY <1>2
<1> HIDE DEF m
<1>10. m[0] = b /\ \A k \in 1 .. N : m[k] = Adds(m[k - 1], k)
  <2>1. \A k \in 0 .. N : m[k] = IF k = 0 THEN b ELSE Adds(m[k - 1], k)
    BY <1>8, Zenon
  <2> QED BY <1>0, <2>1
<1>11. m[N] \in S /\ <<m[N], N>> \in T
  <2>1. \A k \in 1 .. N : m[k - 1] \in S => m[k] = F[<<m[k - 1], k>>]
    BY <1>5, <1>10
  <2>2. b \in S /\ <<b, 0>> \in T /\ m[0] = b
    BY <1>3, <1>10
  <2>3. N \in Nat /\ F \in [S \X (1 .. N) -> S]
    BY <1>0, <1>5
  <2>4. \A k \in 1 .. N, v \in S : <<v, k - 1>> \in T => <<F[<<v, k>>], k>> \in T
    BY <1>4, <1>5
  <2> HIDE DEF N
  <2> QED BY <2>1, <2>2, <2>3, <2>4, LoopValues, ZenonT(60)
<1>12. m[N] = PageOf(Upto(N))
  <2> HIDE DEF Upto, N
  <2>1. N <= N
    BY <1>0
  <2> QED BY <1>11, <2>1 DEF T
<1>13. Upto(N) = E
  BY <1>0, <1>1
<1> QED BY <1>9, <1>12, <1>13 DEF E

\* The calls of cse_init_web_app, made and to come.
Calls == looked \cup Range(todo)

LEMMA StageLow ==
  ASSUME Inv, Stage
  PROVE  MainLast \in 1 .. Len(nodes) /\ Above(MainLast, nodes, up) /\ Len(nodes) \in Nat
<1>1. Len(nodes) \in Nat /\ Len(nodes) > 0
  <2>1. GoodNow
    BY InvParts
  <2>2. Top.node \in 1 .. Len(nodes) /\ Len(nodes) \in Nat
    BY <2>1, TopFacts
  <2> QED BY <2>2
<1>2. CASE Len(owner) > 1
  <2>1. Low(MainLast) /\ MainLast > 0
    BY <1>2 DEF Stage
  <2>2. MainLast <= Len(nodes)
    BY <2>1, LowTop
  <2> QED BY <2>1, <2>2, <1>1 DEF Low
<1>3. CASE ~(Len(owner) > 1)
  <2>1. MainLast = Len(nodes)
    BY <1>3 DEF MainLast
  <2> QED BY <2>1, <1>1 DEF Above
<1> QED BY <1>2, <1>3

LEMMA SameUnchanged ==
  ASSUME NEW M \in 1 .. Len(nodes), Above(M, nodes, up), Len(nodes) \in Nat,
         UNCHANGED <<nodes, error, history>>
  PROVE  Same(M)
<1>1. UNCHANGED <<nodes, error, up, said, gone, headInclude>>
  BY DEF history
<1> QED BY <1>1 DEF Same, SameUpTo, Above

LEMMA Fewer ==
  ASSUME NEW apps, NEW ns, AppsOK(apps, ns), apps # <<>>
  PROVE  Head(apps) \in Range(apps) /\ Range(Tail(apps)) \subseteq Range(apps)
<1>1. PICK S : apps \in Seq(S)
  BY DEF AppsOK
<1>2. Head(apps) = apps[1] /\ 1 \in DOMAIN apps
  BY <1>1
<1>3. \A i \in DOMAIN Tail(apps) : i + 1 \in DOMAIN apps /\ Tail(apps)[i] = apps[i + 1]
  BY <1>1
<1> QED BY <1>2, <1>3 DEF Range

\* Once resin.conf is read, its nodes stay, and no call is added.
LEMMA StepSame ==
  ASSUME ConfInv, [Next]_vars, Len(owner) > 0
  PROVE  /\ Same(MainLast) /\ MainLast' = MainLast /\ UNCHANGED errorPage
         /\ Calls' \subseteq Calls /\ Len(owner) # 0
<1>1. Inv /\ ConfTypes /\ Stage
  BY DEF ConfInv
<1>2. /\ MainLast \in 1 .. Len(nodes) /\ Above(MainLast, nodes, up) /\ Len(nodes) \in Nat
  BY <1>1, StageLow
<1> DEFINE k == Len(owner)
<1>3. k # 0
  <2>1. k > 0
    OBVIOUS
  <2> HIDE DEF k
  <2> QED BY <2>1
<1>4. CASE Parses /\ UNCHANGED conf
  <2>1. phase = "parse"
    BY <1>1, <1>4, ParsePhase
  <2>2. k # 1 /\ \E S : owner \in Seq(S)
    BY <1>1, <2>1 DEF Stage
  <2>3. k > 1
    <3>1. k \in Nat
      BY <2>2
    <3> HIDE DEF k
    <3> QED BY <1>3, <2>2, <3>1
  <2>4. Kept(MainLast) /\ MainLast' = MainLast
    BY <1>1, <1>4, <2>3, StageParses
  <2>5. Same(MainLast)
    BY <1>2, <2>4 DEF Kept, Same
  <2> QED BY <1>3, <1>4, <2>4, <2>5 DEF conf, Calls
<1>5. ~InitConfig
  BY <1>3 DEF InitConfig
<1>6. CASE InitWebApp
  <2>1. Same(MainLast) /\ MainLast' = MainLast
    BY <1>1, <1>6, StageInitWebApp
  <2>2. /\ todo # <<>> /\ looked' = looked \cup {Head(todo)} /\ (todo' = Tail(todo) \/ todo' = todo)
        /\ UNCHANGED errorPage
    BY <1>6 DEF InitWebApp
  <2>3. Head(todo) \in Range(todo) /\ Range(Tail(todo)) \subseteq Range(todo)
    BY <1>1, <2>2, Fewer DEF ConfTypes
  <2>4. Calls' = looked' \cup Range(todo')
    BY DEF Calls
  <2>5. Calls' \subseteq Calls
    BY <2>2, <2>3, <2>4 DEF Calls
  <2> QED BY <1>3, <2>1, <2>2, <2>5
<1>7. CASE ReadWebXml
  <2>1. /\ MainLast' = MainLast /\ todo # <<>> /\ UNCHANGED <<nodes, error, history>>
    BY <1>1, <1>7, StageReadWebXml
  <2>2. Same(MainLast)
    BY <1>2, <2>1, SameUnchanged
  <2>3. looked' = looked /\ todo' = Tail(todo) /\ UNCHANGED errorPage
    BY <1>7 DEF ReadWebXml
  <2>4. Range(Tail(todo)) \subseteq Range(todo)
    BY <1>1, <2>1, Fewer DEF ConfTypes
  <2>5. Calls' \subseteq Calls
    BY <2>3, <2>4 DEF Calls
  <2> QED BY <1>3, <2>1, <2>2, <2>3, <2>5
<1>8. CASE UNCHANGED vars
  <2>1. UNCHANGED <<nodes, error, history, looked, todo, owner, errorPage>>
    BY <1>8 DEF vars, regVars, conf
  <2>2. Same(MainLast)
    BY <1>2, <2>1, SameUnchanged
  <2>3. MainLast' = MainLast /\ Calls' = Calls
    BY <2>1 DEF MainLast, Calls
  <2> QED BY <1>3, <2>1, <2>2, <2>3
<1> QED BY <1>4, <1>5, <1>6, <1>7, <1>8 DEF Next, Running

\* What is said in the first nodes stays.
LEMMA SameMeant ==
  ASSUME NEW M, Same(M), Meant(M)'
  PROVE  Meant(M)
<1>1. headInclude => headInclude'
  BY DEF Same
<1>2. ASSUME NEW n \in 1 .. M \ gone
      PROVE  /\ said[n] # Unclear /\ Fits(said[n])
             /\ Key(n) \in Valued /\ said[n] = Null => nodes[n].value = Null
  <2>1. n \in 1 .. M \ gone' /\ said'[n] = said[n] /\ nodes'[n].key = nodes[n].key
        /\ nodes'[n].value = nodes[n].value
    BY DEF Same, SameUpTo
  <2>2. /\ said'[n] # Unclear /\ Fits(said'[n])
        /\ nodes'[n].key \in Valued /\ said'[n] = Null => nodes'[n].value = Null
    BY <2>1 DEF Meant, Key
  <2> QED BY <2>1, <2>2 DEF Key
<1>3. ~headInclude
  BY <1>1 DEF Meant
<1> QED BY <1>2, <1>3 DEF Meant

\* config->error_page is the page for a lost connection.
PageClaim(s) ==
  LET pages == ChildrenOf(s, "error-page")
  IN (\A n \in pages : SaidOf(n, "location") # Null) => errorPage = PageOf(pages)

PageInv == Len(owner) > 0 /\ ~error /\ Meant(MainLast) => \A s \in ServerElems : PageClaim(s)

LEMMA SameClaim ==
  ASSUME NEW M, Same(M), Inv, Inv', NEW s \in 1 .. M, NEW page, errorPage' = page,
         LET pages == ChildrenOf(s, "error-page")
         IN (\A n \in pages : SaidOf(n, "location") # Null) => page = PageOf(pages)
  PROVE  PageClaim(s)'
<1>1. PICK P : P = ChildrenOf(s, "error-page")
  OBVIOUS
<1>2. /\ ChildrenOf(s, "error-page")' = P /\ P \subseteq 1 .. M
      /\ \A n \in 1 .. M : SaidOf(n, "location")' = SaidOf(n, "location")
  BY <1>1, SameSaid
<1>3. PageOf(P)' = PageOf(P)
  BY <1>2, SamePage
<1>4. (\A n \in P : SaidOf(n, "location") # Null) => page = PageOf(P)
  BY <1>1
<1>5. (\A n \in P : SaidOf(n, "location")' # Null) => errorPage' = PageOf(P)'
  BY <1>2, <1>3, <1>4
<1>6. PageClaim(s)' <=> ((\A n \in P : SaidOf(n, "location")' # Null) => errorPage' = PageOf(P)')
  BY <1>2 DEF PageClaim, Null
<1> QED BY <1>5, <1>6

\* When cse_init_config begins its walk, the registry is the tree of resin.conf.
LEMMA WalkStarts ==
  ASSUME ConfInv, InitConfig
  PROVE  /\ Inv /\ Inv' /\ Len(frames) = 1 /\ 1 \in 1 .. Len(nodes) \ gone /\ Len(nodes) \in Nat
         /\ UNCHANGED <<nodes, up, said, gone, headInclude, error>>
         /\ Len(owner) = 0 /\ MainLast = Len(nodes) /\ MainLast' = Len(nodes)
         /\ phase = "refused" => error
         /\ phase \in {"parsed", "refused"} /\ Same(Len(nodes))
<1>1. Inv /\ Stage
  BY DEF ConfInv
<1>2. /\ phase \in {"parsed", "refused"} /\ Len(owner) = 0
      /\ UNCHANGED <<family, nodes, frames, error, read, history>>
  BY DEF InitConfig
<1>3. Inv' /\ MainLast' = Len(nodes) /\ Len(frames) = 1
  BY <1>1, <1>2, InvInitConfig, StageInitConfig, InvParts
<1>4. MainLast = Len(nodes)
  <2> DEFINE k == Len(owner)
  <2>1. ~(k > 1)
    <3>1. k = 0
      BY <1>2
    <3> HIDE DEF k
    <3> QED BY <3>1
  <2> QED BY <2>1 DEF MainLast
<1>5. 1 \in 1 .. Len(nodes) \ gone /\ Len(nodes) \in Nat
  <2>1. Top = frames[1] /\ Len(nodes) \in Nat /\ PartOK(nodes, gone, Top)
    BY <1>1, <1>3, InvParts, TopFacts, FilesOpen
  <2>2. frames[1].root = 1
    BY <1>1, <1>2 DEF Stage
  <2> HIDE DEF Top
  <2>3. Top.root \notin gone /\ Top.root <= Top.node /\ Top.node <= Len(nodes) /\ Top.node \in Nat
    BY <2>1 DEF PartOK
  <2>4. Top.root = 1
    BY <2>1, <2>2
  <2> DEFINE e == Top.node
             n == Len(nodes)
  <2>5. 1 <= e /\ e <= n /\ e \in Nat /\ n \in Nat
    BY <2>1, <2>3, <2>4
  <2> HIDE DEF e, n
  <2>6. 1 \in 1 .. n
    BY <2>5
  <2> QED BY <2>1, <2>3, <2>4, <2>6 DEF n
<1>6. Same(Len(nodes))
  <2>1. MainLast \in 1 .. Len(nodes) /\ Above(MainLast, nodes, up)
    BY <1>1, StageLow
  <2> QED BY <2>1, <1>2, <1>4, <1>5, SameUnchanged
<1>7. phase = "refused" => error
  BY <1>1 DEF Stage
<1> QED BY <1>1, <1>2, <1>3, <1>4, <1>5, <1>6, <1>7 DEF history

LEMMA PageInitConfig ==
  ASSUME ConfInv, InitConfig
  PROVE  PageInv'
<1>0. PICK M : M = Len(nodes)
  OBVIOUS
<1>1. /\ Inv /\ Inv' /\ Len(frames) = 1 /\ 1 \in 1 .. Len(nodes) \ gone
      /\ UNCHANGED <<nodes, up, said, gone, headInclude, error>>
      /\ MainLast' = M /\ Same(M)
      /\ (phase = "refused" => error)
      /\ phase \in {"parsed", "refused"}
  BY <1>0, WalkStarts
<1> SUFFICES ASSUME ~error', Meant(MainLast)', NEW s \in ServerElems'
             PROVE  PageClaim(s)'
  BY DEF PageInv
<1>2. phase = "parsed"
  BY <1>1
<1>3. Meant(M)
  <2>1. Meant(M)'
    BY <1>1 DEF Meant
  <2> QED BY <2>1, <1>1, SameMeant
<1>4. s \in ServerElems /\ s \in 1 .. M
  BY <1>1, SameServer
<1>5. s = HttpServer /\ HttpServer # 0 /\ s \in 1 .. Len(nodes) \ gone
  BY <1>1, <1>3, <1>4, ServerIs DEF Meant
<1>6. errorPage' = LastErrorPage(nodes[HttpServer].first)
  BY <1>2, <1>5 DEF InitConfig
<1>7. errorPage' = LastErrorPage(nodes[s].first)
  BY <1>5, <1>6
<1>8. PICK page : page = LastErrorPage(nodes[s].first)
  OBVIOUS
<1>9. LET pages == ChildrenOf(s, "error-page")
      IN (\A n \in pages : SaidOf(n, "location") # Null) => page = PageOf(pages)
  BY <1>0, <1>1, <1>3, <1>5, <1>8, LastPageIs
<1>10. errorPage' = page
  BY <1>7, <1>8
<1> QED BY <1>1, <1>4, <1>9, <1>10, SameClaim

LEMMA PageStep ==
  ASSUME ConfInv, PageInv, [Next]_vars
  PROVE  PageInv'
<1>1. Inv /\ Inv' /\ Stage
  BY ConfStep DEF ConfInv
<1>2. CASE Len(owner) > 0
  <2>0. PICK M : M = MainLast
    OBVIOUS
  <2>1. Same(M) /\ MainLast' = M /\ UNCHANGED errorPage
    BY <1>2, <2>0, StepSame
  <2> SUFFICES ASSUME ~error', Meant(MainLast)', NEW s \in ServerElems'
               PROVE  PageClaim(s)'
    BY DEF PageInv
  <2>2. Meant(M)
    <3>1. Meant(M)'
      BY <2>1 DEF Meant
    <3> QED BY <3>1, <2>1, SameMeant
  <2>3. s \in ServerElems /\ s \in 1 .. M /\ ~error
    <3>1. error => error'
      BY <2>1 DEF Same
    <3> QED BY <3>1, <1>1, <2>1, SameServer
  <2>4. PageClaim(s)
    BY <1>2, <2>0, <2>2, <2>3 DEF PageInv
  <2>5. PICK page : page = errorPage
    OBVIOUS
  <2>6. LET pages == ChildrenOf(s, "error-page")
        IN (\A n \in pages : SaidOf(n, "location") # Null) => page = PageOf(pages)
    BY <2>4, <2>5 DEF PageClaim
  <2>7. errorPage' = page
    BY <2>1, <2>5
  <2> QED BY <1>1, <2>1, <2>3, <2>6, <2>7, SameClaim
<1>3. CASE ~(Len(owner) > 0)
  <2>1. CASE InitConfig
    BY <2>1, PageInitConfig
  <2>2. CASE ~InitConfig
    <3> DEFINE k == Len(owner)
    <3>1. k = 0
      <4>1. (\E S : owner \in Seq(S)) /\ ~(k > 0)
        BY <1>1, <1>3 DEF Stage
      <4>2. k \in Nat
        BY <4>1
      <4> HIDE DEF k
      <4> QED BY <4>1, <4>2
    <3>2. ~InitWebApp /\ ~ReadWebXml
      <4>1. phase # "init"
        BY <1>1, <3>1 DEF Stage
      <4> QED BY <4>1, <1>3 DEF InitWebApp, ReadWebXml
    <3>3. owner' = owner
      BY <2>2, <3>2 DEF Next, Running, vars, conf
    <3>4. ~(Len(owner') > 0)
      BY <1>3, <3>3
    <3> QED BY <3>4 DEF PageInv
  <2> QED BY <2>1, <2>2
<1> QED BY <1>2, <1>3

\* What the files say has a meaning, in resin.conf as elsewhere.
LEMMA ClearMeant ==
  ASSUME Inv, Stage, Clear
  PROVE  Meant(MainLast)
<1>1. MainLast \in 1 .. Len(nodes) /\ Len(nodes) \in Nat
  BY StageLow
<1> HIDE DEF MainLast
<1>2. \A n \in 1 .. MainLast \ gone : n \in Live
  BY <1>1 DEF Live
<1> QED BY <1>2 DEF Clear, Meant, Fits

\* The error page of the configuration: the last page for a lost connection, and
\* else the first one without conditions, wherever they stand among the others and
\* whatever the web.xml files that are read afterwards hold (cse_init_error_page).
THEOREM ErrorPageWritten == Spec => []ErrorPageAsWritten
<1>1. ConfigInit => ConfInv /\ PageInv
  <2> SUFFICES ASSUME ConfigInit PROVE ConfInv /\ PageInv
    OBVIOUS
  <2>1. owner = <<>>
    BY DEF ConfigInit
  <2>2. ~(Len(owner) > 0)
    BY <2>1
  <2> QED BY <2>2, ConfInit DEF PageInv
<1>2. ConfInv /\ PageInv /\ [Next]_vars => ConfInv' /\ PageInv'
  BY ConfStep, PageStep
<1>3. ConfInv /\ PageInv => ErrorPageAsWritten
  <2> SUFFICES ASSUME ConfInv, PageInv, Started, Clear, NEW s \in ServerElems
               PROVE  PageClaim(s)
    BY DEF ErrorPageAsWritten, PageClaim
  <2>1. Inv /\ Stage
    BY DEF ConfInv
  <2>2. Len(owner) > 0 /\ ~error
    <3> DEFINE k == Len(owner)
    <3>1. k # 0 /\ \E S : owner \in Seq(S)
      BY <2>1 DEF Stage, Started, Ready
    <3>2. k \in Nat
      BY <3>1
    <3> HIDE DEF k
    <3>3. k > 0
      BY <3>1, <3>2
    <3> QED BY <3>3 DEF k, Started
  <2>3. Meant(MainLast)
    BY <2>1, ClearMeant
  <2> QED BY <2>2, <2>3 DEF PageInv
<1> QED BY <1>1, <1>2, <1>3, PTL DEF Spec

-----------------------------------------------------------------------------
(* The directories of the web-apps.                                         *)

\* cse_app_dir takes what the files say.
LEMMA AppDirIs ==
  ASSUME Inv, Len(frames) = 1, Meant(Len(nodes)), NEW n \in 1 .. Len(nodes) \ gone, NEW p,
         Key(n) = "web-app" => said[n] # Null
  PROVE  AppDir(n, p) = Within(p, DirName(n))
<1>1. FindValue(nodes, nodes[n].first, "app-dir") = SaidOf(n, "app-dir")
  BY FindIsSaid DEF Valued
<1>2. Key(n) = "web-app" => nodes[n].value = said[n] /\ said[n] # Null
  BY ValueIsSaid DEF Valued
<1> DEFINE given == SaidOf(n, "app-dir")
           id == nodes[n].value
           name == IF ~Given(given) /\ nodes[n].key = "web-app"
                   THEN IF Given(id) /\ id[1] = "/" THEN Tail(id) ELSE id
                   ELSE given
<1>3. AppDir(n, p) = IF ~Given(name) THEN p
                     ELSE IF Absolute(name) THEN name ELSE p \o <<"/">> \o name
  BY <1>1 DEF AppDir
<1>4. name = DirName(n)
  <2>1. CASE ~Given(given) /\ Key(n) = "web-app"
    <3>1. Given(id) <=> id # <<>>
      BY <1>2, <2>1 DEF Given
    <3> QED BY <1>2, <2>1, <3>1 DEF DirName, Unslashed, Key
  <2>2. CASE ~(~Given(given) /\ Key(n) = "web-app")
    BY <2>2 DEF DirName, Key
  <2> QED BY <2>1, <2>2
<1> QED BY <1>3, <1>4 DEF Within

\* The loops over the children of an element take those that say something.
LEMMA NamedIs ==
  ASSUME Inv, Len(frames) = 1, Meant(Len(nodes)), NEW n \in 1 .. Len(nodes) \ gone,
         NEW key \in {"host", "web-app"}
  PROVE  {c \in Below(n) : Named(c, key)} = {c \in ChildrenOf(n, key) : said[c] # Null}
<1>1. Below(n) = Children(n) /\ Children(n) \subseteq 1 .. Len(nodes) \ gone
  BY NextIs, ChildNodes DEF Meant
<1>2. ASSUME NEW c \in Children(n) PROVE Named(c, key) <=> Key(c) = key /\ said[c] # Null
  <2>1. CASE Key(c) = key
    <3>1. nodes[c].value = said[c]
      BY <1>1, <2>1, ValueIsSaid DEF Valued
    <3> QED BY <2>1, <3>1 DEF Named, Key
  <2>2. CASE Key(c) # key
    BY <2>2 DEF Named, Key
  <2> QED BY <2>1, <2>2
<1> QED BY <1>1, <1>2 DEF ChildrenOf

\* The elements that configure a web-app, in resin.conf.
Place(n) ==
  \/ n \in ServerElems \cup HostElems
  \/ n \in Live /\ Key(n) = "web-app" /\ up[n] \in ServerElems \cup HostElems

DirOK(n, dir) ==
  \/ dir = Dir(n)
  \/ n \in ServerElems /\ SaidOf(n, "app-dir") # Null
  \/ up[n] \in HostElems /\ RelativeDir(up[n])

DirsOK == \A a \in Calls : Place(a.node) /\ DirOK(a.node, a.dir)

\* The web-apps of a server or of a host are asked for in their directories.
LEMMA HostDirs ==
  ASSUME Inv, Len(frames) = 1, Meant(Len(nodes)), NEW n \in 1 .. Len(nodes) \ gone,
         Key(n) # "web-app", NEW host, NEW dir, NEW a \in HostSet(n, host, dir)
  PROVE  \/ a.node = n /\ a.dir = dir
         \/ /\ a.node \in ChildrenOf(n, "web-app") /\ said[a.node] # Null
            /\ a.dir = Within(Within(dir, DirName(n)), DirName(a.node))
<1>1. {c \in Below(n) : Named(c, "web-app")}
        = {c \in ChildrenOf(n, "web-app") : said[c] # Null}
  BY NamedIs
<1>2. CASE a = App(n, host, <<>>, dir)
  BY <1>2 DEF App
<1>3. CASE \E c \in {c \in Below(n) : Named(c, "web-app")} :
             a = App(c, host, nodes[c].value, AppDir(c, AppDir(n, dir)))
  <2>1. PICK c \in ChildrenOf(n, "web-app") :
          said[c] # Null /\ a = App(c, host, nodes[c].value, AppDir(c, AppDir(n, dir)))
    BY <1>1, <1>3
  <2>2. c \in 1 .. Len(nodes) \ gone
    BY ChildNodes
  <2>3. a.node = c /\ a.dir = AppDir(c, AppDir(n, dir))
    BY <2>1 DEF App
  <2>4. AppDir(n, dir) = Within(dir, DirName(n))
    BY AppDirIs
  <2>5. \A p : AppDir(c, p) = Within(p, DirName(c))
    BY <2>1, <2>2, AppDirIs
  <2> QED BY <2>1, <2>3, <2>4, <2>5
<1> QED BY <1>2, <1>3 DEF HostSet

LEMMA ChildOf ==
  ASSUME NEW n, NEW key, NEW c \in ChildrenOf(n, key)
  PROVE  up[c] = n /\ Key(c) = key /\ c \in Live
  BY DEF ChildrenOf, Children, Live

\* cse_init_server: the web-apps of the default host and of the virtual hosts.
LEMMA ServerDirs ==
  ASSUME Inv, Len(frames) = 1, Meant(Len(nodes)), NEW s \in 1 .. Len(nodes) \ gone,
         Key(s) = "http-server", ServerElems = {s}, NEW a \in ServerSet(s)
  PROVE  Place(a.node) /\ DirOK(a.node, a.dir)
<1>1. \A w : w \in HostElems => Key(w) = "host" /\ up[w] = s /\ w \notin ServerElems
  BY DEF HostElems
<1>2. CASE a \in HostSet(s, <<>>, ResinHome)
  <2>1. CASE a.node = s /\ a.dir = ResinHome
    <3>1. CASE SaidOf(s, "app-dir") = Null
      <4>1. DirName(s) = Null /\ ~Given(DirName(s))
        BY <3>1 DEF DirName, Given
      <4>2. Dir(s) = ResinHome
        BY <4>1 DEF Dir, Within
      <4> QED BY <2>1, <4>2 DEF Place, DirOK
    <3>2. CASE SaidOf(s, "app-dir") # Null
      BY <2>1, <3>2 DEF Place, DirOK
    <3> QED BY <3>1, <3>2
  <2>2. CASE /\ a.node \in ChildrenOf(s, "web-app") /\ said[a.node] # Null
             /\ a.dir = Within(Within(ResinHome, DirName(s)), DirName(a.node))
    <3>1. up[a.node] = s /\ Key(a.node) = "web-app" /\ a.node \in Live
      BY <2>2, ChildOf
    <3>2. Dir(a.node) = a.dir
      BY <2>2, <3>1 DEF Dir
    <3> QED BY <3>1, <3>2 DEF Place, DirOK
  <2> QED BY <1>2, <2>1, <2>2, HostDirs
<1>3. CASE \E h \in {c \in Below(s) : Named(c, "host")} :
             a \in HostSet(h, nodes[h].value, AppDir(h, AppDir(s, ResinHome)))
  <2>1. PICK h \in ChildrenOf(s, "host") :
          said[h] # Null /\ a \in HostSet(h, nodes[h].value, AppDir(h, AppDir(s, ResinHome)))
    <3>1. {c \in Below(s) : Named(c, "host")} = {c \in ChildrenOf(s, "host") : said[c] # Null}
      BY NamedIs
    <3> QED BY <1>3, <3>1
  <2>2. h \in 1 .. Len(nodes) \ gone
    BY ChildNodes
  <2>3. up[h] = s /\ Key(h) = "host" /\ h \in HostElems
    <3>1. up[h] = s /\ Key(h) = "host" /\ h \in Live
      BY ChildOf
    <3> QED BY <2>1, <3>1 DEF HostElems
  <2> DEFINE home == Within(ResinHome, DirName(s))
             dir == Within(home, DirName(h))
  <2>4. AppDir(h, AppDir(s, ResinHome)) = dir
    <3>1. AppDir(s, ResinHome) = home
      BY AppDirIs
    <3>2. \A p : AppDir(h, p) = Within(p, DirName(h))
      BY <2>2, <2>3, AppDirIs
    <3> QED BY <3>1, <3>2
  <2>5. Dir(h) = dir
    BY <1>1, <2>3 DEF Dir
  <2>6. CASE a.node = h /\ a.dir = dir
    BY <2>3, <2>5, <2>6 DEF Place, DirOK
  <2>7. CASE /\ a.node \in ChildrenOf(h, "web-app") /\ said[a.node] # Null
             /\ a.dir = Within(Within(dir, DirName(h)), DirName(a.node))
    <3>1. up[a.node] = h /\ Key(a.node) = "web-app" /\ a.node \in Live
      BY <2>7, ChildOf
    <3>2. Place(a.node)
      BY <2>3, <3>1 DEF Place
    <3>3. CASE RelativeDir(h)
      BY <2>3, <3>1, <3>2, <3>3 DEF DirOK
    <3>4. CASE ~RelativeDir(h)
      <4>1. DirName(h) = SaidOf(h, "app-dir")
        BY <2>3 DEF DirName
      <4>2. Within(dir, DirName(h)) = dir
        BY <3>4, <4>1 DEF RelativeDir, Within
      <4>3. Dir(a.node) = a.dir
        BY <1>1, <2>3, <2>7, <3>1, <4>2 DEF Dir
      <4> QED BY <3>2, <4>3 DEF DirOK
    <3> QED BY <3>3, <3>4
  <2> QED BY <2>1, <2>2, <2>3, <2>4, <2>6, <2>7, HostDirs
<1> QED BY <1>2, <1>3 DEF ServerSet

LEMMA SameHosts ==
  ASSUME NEW M, Same(M), Inv, Inv'
  PROVE  HostElems' = HostElems /\ HostElems \subseteq 1 .. M
<1>1. ServerElems' = ServerElems /\ ServerElems \subseteq 1 .. M
  BY SameServer
<1>2. Len(nodes) \in Nat /\ Len(nodes') \in Nat /\ M \in 1 .. Len(nodes) /\ Len(nodes) <= Len(nodes')
  BY DEF Same, Inv, Types, Shape
<1>3. \A n \in Live : up[n] \in 1 .. M => n \in 1 .. M
  <2>1. \A c \in M + 1 .. Len(nodes) : up[c] \notin 1 .. M
    BY DEF Same, Above
  <2> QED BY <1>2, <2>1 DEF Live
<1>4. \A n \in Live' : up'[n] \in 1 .. M => n \in 1 .. M
  <2>1. \A c \in M + 1 .. Len(nodes') : up'[c] \notin 1 .. M
    BY DEF Same, Above
  <2> QED BY <1>2, <2>1 DEF Live
<1>5. \A n \in 1 .. M : /\ n \in Live' <=> n \in Live
                        /\ Key(n)' = Key(n) /\ up'[n] = up[n] /\ said'[n] = said[n]
  BY <1>2 DEF Same, SameUpTo, Live, Key
<1>6. HostElems = {n \in 1 .. M : /\ n \in Live /\ Key(n) = "host" /\ said[n] # Null
                                  /\ up[n] \in ServerElems}
  BY <1>1, <1>3 DEF HostElems
<1>7. HostElems' = {n \in 1 .. M : /\ n \in Live' /\ Key(n)' = "host" /\ said'[n] # Null
                                   /\ up'[n] \in ServerElems'}
  BY <1>1, <1>4 DEF HostElems, Null
<1>8. HostElems' = HostElems
  BY <1>1, <1>5, <1>6, <1>7
<1> QED BY <1>6, <1>8

LEMMA SamePlace ==
  ASSUME NEW M, Same(M), Inv, Inv', NEW n, Place(n)
  PROVE  /\ Place(n)' /\ n \in 1 .. M
         /\ up[n] \in 1 .. M \/ n \in ServerElems
         /\ up[n] \in ServerElems \/ n \in ServerElems \/ up[up[n]] \in 1 .. M
<1>1. ServerElems' = ServerElems /\ ServerElems \subseteq 1 .. M
  BY SameServer
<1>2. HostElems' = HostElems /\ HostElems \subseteq 1 .. M
  BY SameHosts
<1>3. Len(nodes) \in Nat /\ Len(nodes') \in Nat /\ M \in 1 .. Len(nodes) /\ Len(nodes) <= Len(nodes')
  BY DEF Same, Inv, Types, Shape
<1>4. \A c \in Live : up[c] \in 1 .. M => c \in 1 .. M
  <2>1. \A c \in M + 1 .. Len(nodes) : up[c] \notin 1 .. M
    BY DEF Same, Above
  <2> QED BY <1>3, <2>1 DEF Live
<1>5. \A c \in 1 .. M : /\ c \in Live' <=> c \in Live
                        /\ Key(c)' = Key(c) /\ up'[c] = up[c]
  BY <1>3 DEF Same, SameUpTo, Live, Key
<1>6. \A h \in HostElems : up[h] \in ServerElems
  BY DEF HostElems
<1>7. CASE n \in ServerElems \cup HostElems
  BY <1>1, <1>2, <1>6, <1>7 DEF Place
<1>8. CASE n \in Live /\ Key(n) = "web-app" /\ up[n] \in ServerElems \cup HostElems
  <2>1. up[n] \in 1 .. M /\ n \in 1 .. M
    BY <1>1, <1>2, <1>4, <1>8
  <2>2. Place(n)'
    BY <1>1, <1>2, <1>5, <1>8, <2>1 DEF Place
  <2> QED BY <1>1, <1>6, <1>8, <2>1, <2>2
<1> QED BY <1>7, <1>8 DEF Place

LEMMA SameName ==
  ASSUME NEW M, Same(M), Inv, Inv', NEW n \in 1 .. M
  PROVE  /\ DirName(n)' = DirName(n) /\ RelativeDir(n)' = RelativeDir(n)
         /\ SaidOf(n, "app-dir")' = SaidOf(n, "app-dir")
<1>1. SaidOf(n, "app-dir")' = SaidOf(n, "app-dir")
  BY SameSaid
<1>2. Key(n)' = Key(n) /\ said'[n] = said[n]
  BY DEF Same, SameUpTo, Key
<1>3. DirName(n)' = DirName(n)
  BY <1>1, <1>2 DEF DirName, Given, Unslashed, Null
<1>4. RelativeDir(n)' = RelativeDir(n)
  BY <1>1 DEF RelativeDir, Given, Absolute, Null
<1> QED BY <1>1, <1>3, <1>4

LEMMA ServerKey == \A n \in ServerElems : Key(n) = "http-server"
<1> SUFFICES ASSUME NEW n \in ServerElems PROVE Key(n) = "http-server"
  OBVIOUS
<1> DEFINE S == ChildrenOf(Min(ChildrenOf(1, "caucho.com")), "http-server")
<1>1. S # {} /\ n = Min(S)
  BY DEF ServerElems
<1>2. n \in S
  BY <1>1, ChildNodes
<1> QED BY <1>2, ChildOf

LEMMA SameDir ==
  ASSUME NEW M, Same(M), Inv, Inv', NEW n, Place(n), NEW dir, DirOK(n, dir)
  PROVE  DirOK(n, dir)'
<1>1. ServerElems' = ServerElems /\ HostElems' = HostElems /\ n \in 1 .. M
  BY SameServer, SameHosts, SamePlace
<1>2. Key(n)' = Key(n) /\ up'[n] = up[n]
  BY <1>1 DEF Same, SameUpTo, Key
<1>3. DirName(n)' = DirName(n) /\ SaidOf(n, "app-dir")' = SaidOf(n, "app-dir")
  BY <1>1, SameName
<1>4. PICK u : u = up[n]
  OBVIOUS
<1>5. ~(n \in ServerElems) => u \in 1 .. M
  BY <1>4, SamePlace
<1>6. /\ u \in 1 .. M => DirName(u)' = DirName(u) /\ up'[u] = up[u]
      /\ u \in HostElems => RelativeDir(u)' = RelativeDir(u)
  BY SameHosts, SameName DEF Same
<1>7. PICK v : v = up[u]
  OBVIOUS
<1>8. CASE dir = Dir(n)
  <2>1. CASE n \in ServerElems
    <3>1. Key(n) # "web-app"
      BY <2>1, ServerKey
    <3>2. Dir(n) = Within(ResinHome, DirName(n))
      BY <2>1, <3>1 DEF Dir
    <3>3. Dir(n)' = Within(ResinHome, DirName(n)')
      BY <1>1, <1>2, <2>1, <3>1 DEF Dir, Within
    <3> QED BY <1>3, <1>8, <3>2, <3>3 DEF DirOK
  <2>2. CASE n \notin ServerElems /\ u \in ServerElems
    <3>1. Dir(n) = Within(Within(ResinHome, DirName(u)), DirName(n))
      BY <1>4, <2>2 DEF Dir
    <3>2. Dir(n)' = Within(Within(ResinHome, DirName(u)'), DirName(n)')
      BY <1>1, <1>2, <1>4, <2>2 DEF Dir
    <3> QED BY <1>2, <1>3, <1>5, <1>6, <1>8, <2>2, <3>1, <3>2 DEF DirOK
  <2>3. CASE n \notin ServerElems /\ u \notin ServerElems
    <3>1. DirName(v)' = DirName(v)
      BY <1>4, <1>7, <2>3, SamePlace, SameName
    <3>2. Key(n) = "web-app"
      BY <1>4, <2>3 DEF Place, HostElems
    <3>3. Dir(n) = Within(Within(Within(ResinHome, DirName(v)), DirName(u)), DirName(n))
      BY <1>4, <1>7, <2>3, <3>2 DEF Dir
    <3>4. up'[u] = v
      BY <1>5, <1>6, <1>7, <2>3
    <3>5. Dir(n)' = Within(Within(Within(ResinHome, DirName(v)'), DirName(u)'), DirName(n)')
      BY <1>1, <1>2, <1>4, <2>3, <3>2, <3>4 DEF Dir
    <3> QED BY <1>3, <1>5, <1>6, <1>8, <2>3, <3>1, <3>3, <3>5 DEF DirOK
  <2> QED BY <2>1, <2>2, <2>3
<1>9. CASE n \in ServerElems /\ SaidOf(n, "app-dir") # Null
  BY <1>1, <1>3, <1>9 DEF DirOK, Null
<1>10. CASE up[n] \in HostElems /\ RelativeDir(up[n])
  <2>1. u \in HostElems /\ RelativeDir(u)
    BY <1>4, <1>10
  <2>2. RelativeDir(u)' /\ u \in HostElems' /\ u = up'[n]
    BY <1>1, <1>2, <1>4, <1>6, <2>1
  <2> QED BY <2>2 DEF DirOK
<1> QED BY <1>8, <1>9, <1>10 DEF DirOK

\* Where cse_init_web_app has looked for a web.xml, and will look.
DirInv ==
  /\ Len(owner) = 0 => Calls = {}
  /\ Len(owner) > 0 /\ Meant(MainLast) => DirsOK

LEMMA DirInitConfig ==
  ASSUME ConfInv, DirInv, InitConfig
  PROVE  DirInv'
<1>0. PICK M : M = Len(nodes)
  OBVIOUS
<1>1. /\ Inv /\ Inv' /\ Len(frames) = 1 /\ 1 \in 1 .. Len(nodes) \ gone
      /\ MainLast' = M /\ Same(M) /\ Len(owner) = 0 /\ Len(nodes) \in Nat
  BY <1>0, WalkStarts
<1>2. Len(owner') = 1 /\ looked' = looked
  BY DEF InitConfig
<1>3. Calls = {}
  BY <1>1 DEF DirInv
<1> SUFFICES ASSUME Meant(MainLast)', NEW a \in Calls'
             PROVE  Place(a.node)' /\ DirOK(a.node, a.dir)'
  BY <1>2 DEF DirInv, DirsOK
<1>4. Meant(M)
  <2>1. Meant(M)'
    BY <1>1 DEF Meant
  <2> QED BY <2>1, <1>1, SameMeant
<1>5. a \in Range(todo')
  BY <1>2, <1>3 DEF Calls
<1>6. HttpServer # 0 /\ todo' = ServerApps(HttpServer)
  <2>1. todo' # todo
    BY <1>3, <1>5 DEF Calls
  <2> QED BY <2>1 DEF InitConfig
<1>7. PICK s : s = HttpServer
  OBVIOUS
<1>8. ServerElems = {s} /\ s \in 1 .. Len(nodes) \ gone /\ Key(s) = "http-server"
  BY <1>1, <1>4, <1>6, <1>7, ServerIs DEF Meant
<1>9. a \in ServerSet(s)
  <2>1. todo' \in Seq(ServerSet(s))
    <3>1. Forward(nodes)
      BY <1>1, InvParts, FilesOpen
    <3> QED BY <1>1, <1>6, <1>7, <1>8, <3>1, ServerAppsIn
  <2> HIDE DEF ServerSet
  <2> QED BY <1>5, <2>1 DEF Range
<1>10. Place(a.node) /\ DirOK(a.node, a.dir)
  BY <1>0, <1>1, <1>4, <1>8, <1>9, ServerDirs
<1>11. PICK n, dir : n = a.node /\ dir = a.dir
  OBVIOUS
<1>12. Place(n)' /\ DirOK(n, dir)'
  BY <1>1, <1>10, <1>11, SamePlace, SameDir
<1> QED BY <1>11, <1>12

LEMMA DirStep ==
  ASSUME ConfInv, DirInv, [Next]_vars
  PROVE  DirInv'
<1>1. Inv /\ Inv' /\ Stage
  BY ConfStep DEF ConfInv
<1> DEFINE k == Len(owner)
<1>2. k \in Nat
  BY <1>1 DEF Stage
<1>3. CASE k > 0
  <2>0. PICK M : M = MainLast
    OBVIOUS
  <2>1. Same(M) /\ MainLast' = M /\ Calls' \subseteq Calls
    BY <1>3, <2>0, StepSame
  <2>2. Len(owner') # 0
    <3>1. owner' = owner \/ InitConfig \/ InitWebApp
      BY DEF Next, Running, vars, conf, ReadWebXml
    <3>2. CASE InitConfig
      BY <1>3, <3>2 DEF InitConfig
    <3>3. CASE InitWebApp
      <4>1. owner' = owner \/ \E x : owner' = Append(owner, x)
        BY <3>3 DEF InitWebApp
      <4>2. \A x : Len(Append(owner, x)) = k + 1
        BY <1>1 DEF Stage
      <4>3. CASE owner' = owner
        <5>1. Len(owner') = k
          BY <4>3
        <5> HIDE DEF k
        <5> QED BY <5>1, <1>2, <1>3
      <4>4. CASE \E x : owner' = Append(owner, x)
        <5>1. Len(owner') = k + 1
          BY <4>2, <4>4
        <5> HIDE DEF k
        <5> QED BY <5>1, <1>2, <1>3
      <4> QED BY <4>1, <4>3, <4>4
    <3>4. CASE owner' = owner
      <4>1. Len(owner') = k
        BY <3>4
      <4> HIDE DEF k
      <4> QED BY <4>1, <1>2, <1>3
    <3> QED BY <3>1, <3>2, <3>3, <3>4
  <2> SUFFICES ASSUME Meant(MainLast)', NEW a \in Calls'
               PROVE  Place(a.node)' /\ DirOK(a.node, a.dir)'
    BY <2>2 DEF DirInv, DirsOK
  <2>3. Meant(M)
    <3>1. Meant(M)'
      BY <2>1 DEF Meant
    <3> QED BY <3>1, <2>1, SameMeant
  <2>4. Place(a.node) /\ DirOK(a.node, a.dir)
    BY <1>3, <2>0, <2>1, <2>3 DEF DirInv, DirsOK
  <2>5. PICK n, dir : n = a.node /\ dir = a.dir
    OBVIOUS
  <2>6. Place(n)' /\ DirOK(n, dir)'
    BY <1>1, <2>1, <2>4, <2>5, SamePlace, SameDir
  <2> QED BY <2>5, <2>6
<1>4. CASE ~(k > 0)
  <2>1. k = 0
    <3> HIDE DEF k
    <3> QED BY <1>2, <1>4
  <2>2. CASE InitConfig
    BY <2>2, DirInitConfig
  <2>3. CASE ~InitConfig
    <3>1. phase # "init"
      BY <1>1, <2>1 DEF Stage
    <3>2. ~InitWebApp /\ ~ReadWebXml
      BY <3>1, <1>4 DEF InitWebApp, ReadWebXml
    <3>3. owner' = owner /\ looked' = looked /\ todo' = todo
      BY <2>3, <3>2 DEF Next, Running, vars, conf
    <3>4. Calls' = Calls /\ Calls = {} /\ ~(Len(owner') > 0)
      BY <1>4, <2>1, <3>3 DEF Calls, DirInv
    <3> QED BY <3>4 DEF DirInv
  <2> QED BY <2>2, <2>3
<1> QED BY <1>3, <1>4

\* The web.xml of every web-app is looked for in the directory that its app-dir, or
\* its name, and those around it give, whatever the files read meanwhile hold
\* (cse_app_dir, cse_init_server, cse_init_host, cse_init_web_app).
THEOREM WebXmlDirs == Spec => []WebXmlInAppDir
<1>1. ConfigInit => ConfInv /\ DirInv
  <2> SUFFICES ASSUME ConfigInit PROVE ConfInv /\ DirInv
    OBVIOUS
  <2>1. owner = <<>> /\ looked = {} /\ todo = <<>>
    BY DEF ConfigInit
  <2>2. ~(Len(owner) > 0) /\ Calls = {}
    BY <2>1 DEF Calls, Range
  <2> QED BY <2>2, ConfInit DEF DirInv
<1>2. ConfInv /\ DirInv /\ [Next]_vars => ConfInv' /\ DirInv'
  BY ConfStep, DirStep
<1>3. ConfInv /\ DirInv => WebXmlInAppDir
  <2> SUFFICES ASSUME ConfInv, DirInv, Clear, NEW a \in looked
               PROVE  DirOK(a.node, a.dir)
    BY DEF WebXmlInAppDir, DirOK
  <2>1. Inv /\ Stage /\ a \in Calls
    BY DEF ConfInv, Calls
  <2>2. Len(owner) > 0
    <3> DEFINE k == Len(owner)
    <3>1. k # 0 /\ \E S : owner \in Seq(S)
      BY <2>1 DEF Stage
    <3>2. k \in Nat
      BY <3>1
    <3> HIDE DEF k
    <3>3. k > 0
      BY <3>1, <3>2
    <3> QED BY <3>3 DEF k
  <2>3. Meant(MainLast)
    BY <2>1, ClearMeant
  <2> QED BY <2>1, <2>2, <2>3 DEF DirInv, DirsOK
<1> QED BY <1>1, <1>2, <1>3, PTL DEF Spec

=============================================================================
