---------------------------- MODULE SrunListProofs ----------------------------
(***************************************************************************)
(* Proofs about SrunList, for configurations of any length and any initial *)
(* capacity of the list.                                                   *)
(***************************************************************************)
EXTENDS SrunList, Iteration, SequenceTheorems

\* The configurations with a list of capacity cap, and all of them.
ConfigOf(cap) ==
  [srun_list : [0 .. cap - 1 -> Srun_t], srun_size : 0 .. cap,
   srun_capacity : {cap}, error : BOOLEAN]

Configs == UNION {ConfigOf(cap) : cap \in Nat \ {0}}

\* Sessions are indices, and only an error leaves the list empty.
Sound(c) ==
  /\ \A k \in 0 .. c.srun_size - 1 : c.srun_list[k].session = k
  /\ c.srun_size >= 1 \/ c.error

SoundConfigs == {c \in Configs : Sound(c)}

-----------------------------------------------------------------------------
(* cse_add_host_int.                                                        *)

LEMMA ConfigShape ==
  ASSUME NEW c \in Configs
  PROVE  \E cap \in Nat \ {0} :
           /\ c = [srun_list |-> c.srun_list, srun_size |-> c.srun_size,
                   srun_capacity |-> cap, error |-> c.error]
           /\ c.srun_list \in [0 .. cap - 1 -> Srun_t]
           /\ c.srun_size \in 0 .. cap
           /\ c.srun_capacity = cap
           /\ c.error \in BOOLEAN
BY DEF Configs, ConfigOf

LEMMA ConfigMade ==
  ASSUME NEW cap \in Nat \ {0}, NEW l \in [0 .. cap - 1 -> Srun_t],
         NEW n \in 0 .. cap, NEW e \in BOOLEAN
  PROVE  [srun_list |-> l, srun_size |-> n, srun_capacity |-> cap, error |-> e]
           \in Configs
BY DEF Configs, ConfigOf

LEMMA BlankIsSrun == Blank \in Srun_t
BY DEF Blank, Srun_t, Named

\* What a new configuration and an srun without a host have in common.
LEMMA KeptSize ==
  ASSUME NEW c \in Configs
  PROVE  Kept(c) \in Nat /\ Kept(c) <= c.srun_size
<1>1. c.srun_size \in Nat
  BY ConfigShape
<1> QED
  BY <1>1 DEF Kept

\* There is room for the next srun, and growing the list loses none.
LEMMA GrownHasRoom ==
  ASSUME NEW c \in Configs
  PROVE  /\ Grown(c) \in Configs
         /\ Kept(c) \in 0 .. Grown(c).srun_capacity - 1
         /\ Grown(c).error = c.error
         /\ \A k \in 0 .. Kept(c) - 1 : Grown(c).srun_list[k] = c.srun_list[k]
<1>1. PICK cap \in Nat \ {0} :
           /\ c = [srun_list |-> c.srun_list, srun_size |-> c.srun_size,
                   srun_capacity |-> cap, error |-> c.error]
           /\ c.srun_list \in [0 .. cap - 1 -> Srun_t]
           /\ c.srun_size \in 0 .. cap
           /\ c.srun_capacity = cap
           /\ c.error \in BOOLEAN
  BY ConfigShape
<1>2. Kept(c) \in Nat /\ Kept(c) <= c.srun_size
  BY KeptSize
<1>3. CASE Kept(c) < c.srun_capacity
  <2>1. Grown(c) = c
    BY <1>3 DEF Grown
  <2> QED
    BY <1>1, <1>2, <1>3, <2>1
<1>4. CASE ~(Kept(c) < c.srun_capacity)
  <2> DEFINE l == [k \in 0 .. 2 * cap - 1 |->
                     IF k < cap THEN c.srun_list[k] ELSE Blank]
  <2>1. Grown(c) = [c EXCEPT !.srun_capacity = 2 * cap, !.srun_list = l]
    BY <1>1, <1>4 DEF Grown
  <2>2. \A k \in 0 .. 2 * cap - 1 : k < cap => k \in 0 .. cap - 1
    OBVIOUS
  <2>3. l \in [0 .. 2 * cap - 1 -> Srun_t]
    BY <1>1, <2>2, BlankIsSrun
  <2>4. 2 * cap \in Nat \ {0} /\ c.srun_size \in 0 .. 2 * cap
        /\ Kept(c) \in 0 .. 2 * cap - 1
    BY <1>1, <1>2
  <2>5. \A k \in 0 .. Kept(c) - 1 : l[k] = c.srun_list[k]
    BY <1>1, <1>2
  <2> HIDE DEF l
  <2>6. Grown(c) = [srun_list |-> l, srun_size |-> c.srun_size,
                    srun_capacity |-> 2 * cap, error |-> c.error]
    BY <1>1, <2>1
  <2>7. Grown(c) \in ConfigOf(2 * cap)
    BY <1>1, <2>3, <2>4, <2>6 DEF ConfigOf
  <2> QED
    BY <2>4, <2>5, <2>6, <2>7 DEF Configs
<1> QED
  BY <1>3, <1>4

\* A host that is found becomes the last srun, after those that are kept; one
\* that is not found is an error.
LEMMA HostAdded ==
  ASSUME NEW c \in Configs, NEW e \in Entry, NEW is_default \in BOOLEAN
  PROVE  LET d == AddHost(c, e, is_default)  n == Kept(c)
         IN /\ d \in Configs
            /\ e.host \in Host =>
                 /\ d.error = c.error /\ d.srun_size = n + 1
                 /\ d.srun_list[n] = NewSrun(e, is_default, n)
            /\ e.host \notin Host => d.error /\ d.srun_size = n
            /\ \A k \in 0 .. n - 1 : d.srun_list[k] = c.srun_list[k]
<1> DEFINE g == Grown(c)
           n == Kept(c)
           d == AddHost(c, e, is_default)
           s == NewSrun(e, is_default, n)
<1>1. /\ g \in Configs /\ n \in 0 .. g.srun_capacity - 1 /\ g.error = c.error
      /\ \A k \in 0 .. n - 1 : g.srun_list[k] = c.srun_list[k]
  BY GrownHasRoom
<1>2. d = IF e.host \in Host THEN Put(g, n, s) ELSE NotFound(g, n)
  BY DEF AddHost
<1>3. n \in Nat
  BY KeptSize
<1>4. s = [host |-> e.host, backup |-> e.backup,
           is_default |-> is_default /\ n = 0, session |-> n]
  BY DEF NewSrun
<1> HIDE DEF g, n, d, s
<1>5. PICK cap \in Nat \ {0} :
           /\ g = [srun_list |-> g.srun_list, srun_size |-> g.srun_size,
                   srun_capacity |-> cap, error |-> g.error]
           /\ g.srun_list \in [0 .. cap - 1 -> Srun_t]
           /\ g.srun_size \in 0 .. cap
           /\ g.srun_capacity = cap
           /\ g.error \in BOOLEAN
  BY <1>1, ConfigShape
<1>6. n \in 0 .. cap /\ n + 1 \in 0 .. cap /\ n \in 0 .. cap - 1
  BY <1>1, <1>3, <1>5
<1>7. CASE e.host \in Host
  <2> DEFINE l == [k \in 0 .. cap - 1 |->
                     IF k = n THEN s ELSE g.srun_list[k]]
  <2>1. s \in Srun_t
    <3>1. e.backup \in BOOLEAN
      BY DEF Entry
    <3>2. (is_default /\ n = 0) \in BOOLEAN
      OBVIOUS
    <3> QED
      BY <1>3, <1>4, <1>7, <3>1, <3>2 DEF Srun_t, Named
  <2>2. l \in [0 .. cap - 1 -> Srun_t]
    BY <1>5, <2>1
  <2>3. DOMAIN g.srun_list = 0 .. cap - 1
    BY <1>5
  <2>4. d = [g EXCEPT !.srun_size = n + 1, !.srun_list = l]
    BY <1>2, <1>7, <2>3 DEF Put
  <2>5. l[n] = s /\ \A k \in 0 .. n - 1 : l[k] = g.srun_list[k]
    BY <1>3, <1>6
  <2> HIDE DEF l
  <2>6. d = [srun_list |-> l, srun_size |-> n + 1, srun_capacity |-> cap,
             error |-> g.error]
    BY <1>5, <2>4
  <2>7. d \in ConfigOf(cap)
    BY <1>5, <1>6, <2>2, <2>6 DEF ConfigOf
  <2>8. d \in Configs
    BY <2>7 DEF Configs
  <2> QED
    BY <1>1, <1>7, <2>5, <2>6, <2>8 DEF d, n, s
<1>8. CASE e.host \notin Host
  <2>1. d = [g EXCEPT !.srun_size = n, !.error = TRUE]
    BY <1>2, <1>8 DEF NotFound
  <2>2. d = [srun_list |-> g.srun_list, srun_size |-> n, srun_capacity |-> cap,
             error |-> TRUE]
    BY <1>5, <2>1
  <2>3. d \in ConfigOf(cap)
    BY <1>5, <1>6, <2>2 DEF ConfigOf
  <2>4. d \in Configs
    BY <2>3 DEF Configs
  <2>5. d.error = TRUE /\ d.srun_size = n /\ d.srun_list = g.srun_list
    BY <2>2
  <2> QED
    BY <1>1, <1>8, <2>4, <2>5 DEF d, n
<1> QED
  BY <1>7, <1>8


\* A host added to a sound configuration leaves it sound.
LEMMA SoundAdded ==
  ASSUME NEW c \in SoundConfigs, NEW e \in Entry, NEW is_default \in BOOLEAN
  PROVE  AddHost(c, e, is_default) \in SoundConfigs
<1> DEFINE d == AddHost(c, e, is_default)
           n == Kept(c)
<1>1. c \in Configs /\ Sound(c)
  BY DEF SoundConfigs
<1>2. c.srun_size \in Nat
  BY <1>1, ConfigShape
<1>3. n \in Nat /\ n <= c.srun_size
  BY <1>1, KeptSize
<1>4. /\ d \in Configs
      /\ e.host \in Host => d.error = c.error /\ d.srun_size = n + 1
                            /\ d.srun_list[n] = NewSrun(e, is_default, n)
      /\ e.host \notin Host => d.error /\ d.srun_size = n
      /\ \A k \in 0 .. n - 1 : d.srun_list[k] = c.srun_list[k]
  BY <1>1, HostAdded
<1> HIDE DEF d, n
<1>5. \A k \in 0 .. n - 1 : d.srun_list[k].session = k
  <2>1. \A k \in 0 .. n - 1 : k \in 0 .. c.srun_size - 1
    BY <1>2, <1>3
  <2> QED
    BY <1>1, <1>4, <2>1 DEF Sound
<1>6. CASE e.host \in Host
  <2>1. d.srun_list[n].session = n
    BY <1>4, <1>6 DEF NewSrun
  <2>2. d.srun_size = n + 1 /\ d.srun_size >= 1
    BY <1>3, <1>4, <1>6
  <2>3. \A k \in 0 .. d.srun_size - 1 : k = n \/ k \in 0 .. n - 1
    BY <1>3, <2>2
  <2>4. Sound(d)
    BY <1>5, <2>1, <2>2, <2>3 DEF Sound
  <2> QED
    BY <1>4, <2>4 DEF SoundConfigs, d
<1>7. CASE e.host \notin Host
  <2>1. Sound(d)
    BY <1>4, <1>5, <1>7 DEF Sound
  <2> QED
    BY <1>4, <2>1 DEF SoundConfigs, d
<1> QED
  BY <1>6, <1>7

\* An error alone changes nothing else.
LEMMA ErrorReported ==
  ASSUME NEW c \in SoundConfigs, NEW d, d = [c EXCEPT !.error = TRUE]
  PROVE  d \in SoundConfigs /\ d.error = TRUE
<1>1. c \in Configs /\ Sound(c)
  BY DEF SoundConfigs
<1>2. PICK cap \in Nat \ {0} :
         /\ c = [srun_list |-> c.srun_list, srun_size |-> c.srun_size,
                 srun_capacity |-> cap, error |-> c.error]
         /\ c.srun_list \in [0 .. cap - 1 -> Srun_t]
         /\ c.srun_size \in 0 .. cap
  BY <1>1, ConfigShape
<1> DEFINE l == c.srun_list
           n == c.srun_size
           e == c.error
<1>3. d = [srun_list |-> l, srun_size |-> n, srun_capacity |-> cap,
           error |-> TRUE]
  <2>1. c = [srun_list |-> l, srun_size |-> n, srun_capacity |-> cap,
             error |-> e]
    BY <1>2
  <2> HIDE DEF l, n, e
  <2> QED
    BY <2>1
<1>4. l \in [0 .. cap - 1 -> Srun_t] /\ n \in 0 .. cap
  BY <1>2
<1>5. d \in Configs
  <2> HIDE DEF l, n
  <2> QED
    BY <1>3, <1>4, ConfigMade, ZenonT(40)
<1>6. d.srun_list = c.srun_list /\ d.srun_size = c.srun_size /\ d.error = TRUE
  BY <1>3
<1>7. Sound(d)
  BY <1>1, <1>6 DEF Sound
<1> QED
  BY <1>5, <1>6, <1>7 DEF SoundConfigs

-----------------------------------------------------------------------------
(* cse_init_hosts.                                                          *)

\* What the loop over the elements of a file computes, when every iteration
\* keeps to S.
LEMMA HostsAdded ==
  ASSUME NEW S, NEW c \in S, NEW file \in Seq(Entry),
         \A d \in S, e \in Entry : AddHost(d, e, FALSE) \in S
  PROVE  \E done :
           /\ done[0] = c /\ AddHosts(c, file) = done[Len(file)]
           /\ \A k \in 1 .. Len(file) :
                done[k] = AddHost(done[k - 1], file[k], FALSE)
           /\ \A k \in 0 .. Len(file) : done[k] \in S
<1> DEFINE N == Len(file)
           F == [p \in S \X (1 .. N) |-> AddHost(p[1], file[p[2]], FALSE)]
<1>1. N \in Nat /\ \A k \in 1 .. N : file[k] \in Entry
  BY LenProperties, ElementOfSeq
<1>2. F \in [S \X (1 .. N) -> S]
  BY <1>1
<1>3. \A v \in S, k \in 1 .. N : F[<<v, k>>] = AddHost(v, file[k], FALSE)
  OBVIOUS
<1> HIDE DEF F
<1>4. PICK g \in [0 .. N -> S] :
         g[0] = c /\ \A k \in 1 .. N : g[k] = F[<<g[k - 1], k>>]
  <2>1. \E g : Loop(g, N, S, c, F)
    <3> HIDE DEF N
    <3> QED
      BY <1>1, <1>2, Iterates
  <2> QED
    BY <2>1 DEF Loop
<1> DEFINE Step(n) == [k \in 0 .. N |-> IF k = 0 THEN c
                         ELSE AddHost(n[k - 1], file[k], FALSE)]
           m == CHOOSE n : n = Step(n)
<1>5. g = Step(g)
  <2>1. ASSUME NEW k \in 0 .. N PROVE g[k] = Step(g)[k]
    <3>1. CASE k = 0
      BY <3>1, <1>4
    <3>2. CASE k # 0
      <4>1. k \in 1 .. N /\ g[k - 1] \in S
        BY <3>2, <1>1
      <4> QED
        BY <4>1, <3>2, <1>3, <1>4
    <3> QED
      BY <3>1, <3>2
  <2> QED
    BY <2>1
<1>6. m = Step(m)
  BY <1>5
<1> HIDE DEF m
<1>7. m[0] = c /\ \A k \in 1 .. N : m[k] = AddHost(m[k - 1], file[k], FALSE)
  <2>1. \A k \in 0 .. N : m[k] = IF k = 0 THEN c
                                 ELSE AddHost(m[k - 1], file[k], FALSE)
    BY <1>6, Zenon
  <2> QED
    BY <1>1, <2>1
<1> DEFINE D == {k \in Nat : k <= N => m[k] \in S}
<1>8. 0 \in D
  BY <1>7
<1>9. ASSUME NEW k \in Nat, k \in D PROVE k + 1 \in D
  <2> SUFFICES ASSUME k + 1 <= N PROVE m[k + 1] \in S
    OBVIOUS
  <2>1. k + 1 \in 1 .. N /\ (k + 1) - 1 = k /\ m[k] \in S
    BY <1>1, <1>9
  <2> QED
    BY <1>1, <1>7, <2>1
<1>10. \A k \in 0 .. N : m[k] \in S
  <2>1. Nat \subseteq D
    <3> HIDE DEF D
    <3> QED
      BY <1>8, <1>9, SetInduction
  <2> QED
    BY <1>1, <2>1
<1>11. AddHosts(c, file) = m[N]
  BY DEF AddHosts, m
<1> QED
  BY <1>7, <1>10, <1>11


\* A file of any length leaves a sound configuration sound.
LEMMA SoundHosts ==
  ASSUME NEW c \in SoundConfigs, NEW file \in Files, NEW h \in Host \cup Unknown
  PROVE  InitHosts(c, file, h) \in SoundConfigs /\ file \in Seq(Entry)
<1>1. file \in Seq(Entry)
  BY ListAssumption DEF Files
<1>2. CASE file = <<>>
  <2>1. [host |-> h, backup |-> FALSE] \in Entry
    BY DEF Entry
  <2>2. AddHost(c, [host |-> h, backup |-> FALSE], TRUE) \in SoundConfigs
    BY <2>1, SoundAdded
  <2> QED
    BY <1>1, <1>2, <2>2 DEF InitHosts
<1>3. CASE file # <<>>
  <2>1. PICK done :
           /\ AddHosts(c, file) = done[Len(file)]
           /\ \A k \in 0 .. Len(file) : done[k] \in SoundConfigs
    <3>1. \A d \in SoundConfigs, e \in Entry :
             AddHost(d, e, FALSE) \in SoundConfigs
      BY SoundAdded
    <3> HIDE DEF SoundConfigs
    <3> QED
      BY <1>1, <3>1, HostsAdded
  <2>2. Len(file) \in 0 .. Len(file)
    BY <1>1, LenProperties
  <2> QED
    BY <1>1, <1>3, <2>1, <2>2 DEF InitHosts
<1> QED
  BY <1>2, <1>3

-----------------------------------------------------------------------------
(* The sruns that were asked for.                                           *)

\* c has the sruns of list, and none of them will make way.
AsAsked(c, list) ==
  /\ c.srun_size = Len(list)
  /\ \A k \in 1 .. Len(list) : /\ c.srun_list[k - 1].host = list[k].host
                               /\ c.srun_list[k - 1].backup = list[k].backup
                               /\ c.srun_list[k - 1].is_default = FALSE

\* Before any srun is asked for, the one that there is makes way.
Followed(c, list) ==
  \/ c.error
  \/ list = <<>> /\ Kept(c) = 0
  \/ list # <<>> /\ AsAsked(c, list)

\* An srun asked for comes after those asked for before.
LEMMA FollowedAdded ==
  ASSUME NEW c \in Configs, NEW list \in Seq(Entry), NEW e \in Entry,
         Followed(c, list)
  PROVE  Followed(AddHost(c, e, FALSE), Append(list, e))
<1> DEFINE d == AddHost(c, e, FALSE)
           n == Kept(c)
           longer == Append(list, e)
<1>1. /\ e.host \in Host => d.error = c.error /\ d.srun_size = n + 1
                            /\ d.srun_list[n] = NewSrun(e, FALSE, n)
      /\ e.host \notin Host => d.error /\ d.srun_size = n
      /\ \A k \in 0 .. n - 1 : d.srun_list[k] = c.srun_list[k]
  BY HostAdded
<1>2. CASE d.error
  BY <1>2 DEF Followed
<1>3. CASE ~d.error
  <2>1. e.host \in Host /\ ~c.error
    BY <1>1, <1>3
  <2>2. Len(list) \in Nat /\ \A k \in 1 .. Len(list) : list[k] \in Entry
    BY LenProperties, ElementOfSeq
  <2>3. /\ n = Len(list)
        /\ \A k \in 1 .. n : /\ c.srun_list[k - 1].host = list[k].host
                             /\ c.srun_list[k - 1].backup = list[k].backup
                             /\ c.srun_list[k - 1].is_default = FALSE
    <3>1. CASE list = <<>>
      <4>1. n = 0 /\ Len(list) = 0
        BY <2>1, <3>1 DEF Followed
      <4> QED
        BY <4>1
    <3>2. CASE list # <<>>
      <4>1. AsAsked(c, list)
        BY <2>1, <3>2 DEF Followed
      <4>2. c.srun_size = Len(list) /\ Len(list) >= 1
        BY <2>2, <3>2, <4>1, EmptySeq DEF AsAsked
      <4>3. c.srun_list[0].host = list[1].host
            /\ c.srun_list[0].is_default = FALSE /\ list[1] \in Entry
        BY <2>2, <4>1, <4>2 DEF AsAsked
      <4>4. c.srun_list[0].host # NoHost
        BY <4>3, ListAssumption DEF Entry
      <4>5. n = c.srun_size
        BY <4>3, <4>4 DEF Kept
      <4> QED
        BY <4>1, <4>2, <4>5 DEF AsAsked
    <3> QED
      BY <3>1, <3>2
  <2>4. Len(longer) = n + 1 /\ longer[n + 1] = e
        /\ \A k \in 1 .. n : longer[k] = list[k]
    BY <2>2, <2>3, AppendProperties
  <2>5. longer # <<>>
    BY <2>4, e \in Entry, list \in Seq(Entry), AppendProperties
  <2>6. d.srun_size = n + 1 /\ d.srun_list[n].host = e.host
        /\ d.srun_list[n].backup = e.backup
        /\ d.srun_list[n].is_default = FALSE
    <3>1. NewSrun(e, FALSE, n).is_default = FALSE
      BY DEF NewSrun
    <3>2. NewSrun(e, FALSE, n).host = e.host
          /\ NewSrun(e, FALSE, n).backup = e.backup
      BY DEF NewSrun
    <3> QED
      BY <1>1, <2>1, <3>1, <3>2
  <2>7. ASSUME NEW k \in 1 .. Len(longer)
        PROVE  /\ d.srun_list[k - 1].host = longer[k].host
               /\ d.srun_list[k - 1].backup = longer[k].backup
               /\ d.srun_list[k - 1].is_default = FALSE
    <3> HIDE DEF d, n, longer
    <3>0. n \in Nat
      BY <2>2, <2>3
    <3>1. CASE k = n + 1
      <4>1. k - 1 = n
        BY <3>0, <3>1
      <4> QED
        BY <2>4, <2>6, <3>1, <4>1
    <3>2. CASE k # n + 1
      <4>1. k \in 1 .. n /\ k - 1 \in 0 .. n - 1
        BY <2>4, <3>0, <3>2
      <4> QED
        BY <1>1, <2>3, <2>4, <4>1
    <3> QED
      BY <3>1, <3>2
  <2> HIDE DEF d, n, longer
  <2>8. AsAsked(d, longer)
    BY <2>4, <2>6, <2>7 DEF AsAsked
  <2>9. Followed(d, longer)
    BY <2>5, <2>8 DEF Followed
  <2> QED
    BY <2>9 DEF d, longer
<1> QED
  BY <1>2, <1>3


\* A CauchoConfigFile that nothing comes before: its elements are the sruns
\* asked for, and its default srun makes way for a CauchoHost.
LEMMA FollowedHosts ==
  ASSUME NEW c \in SoundConfigs, NEW file \in Files, NEW h \in Host \cup Unknown,
         Followed(c, <<>>)
  PROVE  Followed(InitHosts(c, file, h), file)
<1>1. file \in Seq(Entry) /\ c \in Configs
  BY SoundHosts DEF SoundConfigs
<1>2. CASE file = <<>>
  <2> DEFINE e == [host |-> h, backup |-> FALSE]
             d == AddHost(c, e, TRUE)
  <2>1. InitHosts(c, file, h) = d
    BY <1>2 DEF InitHosts
  <2>2. c.error \/ Kept(c) = 0
    BY DEF Followed
  <2>3. e \in Entry
    BY DEF Entry
  <2> HIDE DEF e
  <2>4. /\ e.host \in Host => d.error = c.error /\ d.srun_size = Kept(c) + 1
                              /\ d.srun_list[Kept(c)] = NewSrun(e, TRUE, Kept(c))
        /\ e.host \notin Host => d.error
    BY <1>1, <2>3, HostAdded
  <2> HIDE DEF d
  <2>5. CASE d.error
    BY <1>2, <2>1, <2>5 DEF Followed
  <2>6. CASE ~d.error
    <3>1. Kept(c) = 0 /\ d.srun_size = 0 + 1 /\ d.srun_list[0] = NewSrun(e, TRUE, 0)
      BY <2>2, <2>4, <2>6
    <3>2. NewSrun(e, TRUE, 0).is_default
      BY DEF NewSrun
    <3>3. Kept(d) = 0
      BY <3>1, <3>2 DEF Kept
    <3> QED
      BY <1>2, <2>1, <3>3 DEF Followed
  <2> QED
    BY <2>5, <2>6
<1>3. CASE file # <<>>
  <2> DEFINE N == Len(file)
             Read(k) == [j \in 1 .. k |-> file[j]]
  <2>1. N \in Nat /\ \A k \in 1 .. N : file[k] \in Entry
    BY <1>1, LenProperties, ElementOfSeq
  <2>2. PICK done :
           /\ done[0] = c /\ AddHosts(c, file) = done[N]
           /\ \A k \in 1 .. N : done[k] = AddHost(done[k - 1], file[k], FALSE)
           /\ \A k \in 0 .. N : done[k] \in SoundConfigs
    <3>1. \A d \in SoundConfigs, e \in Entry :
             AddHost(d, e, FALSE) \in SoundConfigs
      BY SoundAdded
    <3> HIDE DEF SoundConfigs
    <3> QED
      BY <1>1, <3>1, HostsAdded
  <2> DEFINE D == {k \in Nat : k <= N => Followed(done[k], Read(k))}
  <2>3. 0 \in D
    <3>1. Read(0) = <<>>
      OBVIOUS
    <3> QED
      BY <2>2, <3>1
  <2>4. ASSUME NEW k \in Nat, k \in D PROVE k + 1 \in D
    <3> SUFFICES ASSUME k + 1 <= N PROVE Followed(done[k + 1], Read(k + 1))
      OBVIOUS
    <3>1. k + 1 \in 1 .. N /\ (k + 1) - 1 = k /\ k \in 0 .. N
      BY <2>1
    <3>2. Followed(done[k], Read(k)) /\ done[k] \in Configs
      BY <2>1, <2>2, <2>4, <3>1 DEF SoundConfigs
    <3>3. file[k + 1] \in Entry
      BY <2>1, <3>1
    <3>4. Read(k) \in Seq(Entry)
      BY <2>1, <3>1
    <3>5. Read(k + 1) = Append(Read(k), file[k + 1])
      <4>1. Len(Read(k)) = k /\ Len(Read(k + 1)) = k + 1
        OBVIOUS
      <4>2. \A j \in 1 .. k : Read(k)[j] = file[j]
        OBVIOUS
      <4>3. \A j \in 1 .. k + 1 : Read(k + 1)[j] = file[j]
        OBVIOUS
      <4>4. \A j \in 1 .. k + 1 : j \in 1 .. k \/ j = k + 1
        OBVIOUS
      <4>5. Read(k + 1) \in Seq(Entry)
        BY <2>1, <3>1
      <4> HIDE DEF Read
      <4>6. Append(Read(k), file[k + 1]) \in Seq(Entry)
            /\ Len(Append(Read(k), file[k + 1])) = k + 1
            /\ Append(Read(k), file[k + 1])[k + 1] = file[k + 1]
            /\ \A j \in 1 .. k : Append(Read(k), file[k + 1])[j] = file[j]
        BY <3>3, <3>4, <4>1, <4>2, AppendProperties
      <4> DEFINE r == Read(k + 1)
                 a == Append(Read(k), file[k + 1])
      <4>7. \A j \in 1 .. k + 1 : r[j] = a[j]
        BY <4>3, <4>4, <4>6
      <4>8. r \in Seq(Entry) /\ a \in Seq(Entry) /\ Len(r) = k + 1 /\ Len(a) = k + 1
        BY <4>1, <4>5, <4>6
      <4> HIDE DEF r, a
      <4>9. r = a
        BY <4>7, <4>8, SeqEqual
      <4> QED
        BY <4>9 DEF r, a
    <3> HIDE DEF Read
    <3>6. Followed(AddHost(done[k], file[k + 1], FALSE), Read(k + 1))
      BY <3>2, <3>3, <3>4, <3>5, FollowedAdded
    <3> QED
      BY <2>2, <3>1, <3>6
  <2>5. N \in D
    <3> HIDE DEF D
    <3> QED
      BY <2>1, <2>3, <2>4, SetInduction
  <2>6. Read(N) = file
    BY <1>1
  <2>7. Followed(done[N], file)
    BY <2>1, <2>5, <2>6
  <2> QED
    BY <1>3, <2>2, <2>7 DEF InitHosts
<1> QED
  BY <1>2, <1>3

-----------------------------------------------------------------------------
(* The invariant.                                                           *)

ListInv ==
  /\ config \in SoundConfigs
  /\ read \in 0 .. MaxDirectives
  /\ asked \in Seq(Entry)
  /\ started \in BOOLEAN
  /\ started => ~config.error
  /\ read = 0 => asked = <<>>
  /\ FileFirst => Followed(config, asked)

LEMMA ListInit == Init => ListInv
<1> SUFFICES ASSUME Init PROVE ListInv
  OBVIOUS
<1> USE ListAssumption
<1>1. config = [srun_list |-> [k \in 0 .. Capacity - 1 |-> Blank],
                srun_size |-> 1, srun_capacity |-> Capacity, error |-> FALSE]
      /\ read = 0 /\ asked = <<>> /\ started = FALSE
  BY DEF Init
<1>2. config \in Configs
  <2>1. [k \in 0 .. Capacity - 1 |-> Blank] \in [0 .. Capacity - 1 -> Srun_t]
    BY BlankIsSrun
  <2>2. 1 \in 0 .. Capacity
    OBVIOUS
  <2>3. config \in ConfigOf(Capacity)
    BY <1>1, <2>1, <2>2 DEF ConfigOf
  <2> QED
    BY <2>3 DEF Configs
<1>3. config.srun_size = 1 /\ config.srun_list[0] = Blank
  <2>1. 0 \in 0 .. Capacity - 1
    OBVIOUS
  <2> QED
    BY <1>1, <2>1
<1>4. Sound(config)
  <2>1. Blank.session = 0
    BY DEF Blank
  <2>2. \A k \in 0 .. config.srun_size - 1 : k = 0
    BY <1>3
  <2> QED
    BY <1>3, <2>1, <2>2, config.srun_size >= 1 DEF Sound
<1>5. Kept(config) = 0
  BY <1>3 DEF Kept, Blank
<1>6. asked \in Seq(Entry) /\ read \in 0 .. MaxDirectives
  BY <1>1
<1>7. config \in SoundConfigs
  BY <1>2, <1>4 DEF SoundConfigs
<1>8. Followed(config, asked)
  BY <1>1, <1>5 DEF Followed
<1>9. started \in BOOLEAN /\ (started => ~config.error)
  BY <1>1
<1> QED
  BY <1>1, <1>6, <1>7, <1>8, <1>9 DEF ListInv

LEMMA ListStep == ListInv /\ [Next]_vars => ListInv'
<1> SUFFICES ASSUME ListInv, [Next]_vars PROVE ListInv'
  OBVIOUS
<1> USE ListAssumption
<1>1. /\ config \in SoundConfigs /\ read \in 0 .. MaxDirectives
      /\ asked \in Seq(Entry) /\ started \in BOOLEAN
      /\ read = 0 => asked = <<>>
      /\ FileFirst => Followed(config, asked)
  BY DEF ListInv
<1>2. CASE HostDirective
  <2>1. PICK e \in Entry : config' = AddHost(config, e, FALSE)
                           /\ asked' = Append(asked, e)
    BY <1>2 DEF HostDirective
  <2>2. /\ ~started /\ started' = started
        /\ read' \in 0 .. MaxDirectives /\ read' # 0
    BY <1>1, <1>2 DEF HostDirective, Reads
  <2>3. config' \in SoundConfigs
    BY <1>1, <2>1, SoundAdded
  <2>4. asked' \in Seq(Entry)
    BY <1>1, <2>1, AppendProperties
  <2>5. FileFirst => Followed(config', asked')
    <3>1. config \in Configs
      BY <1>1 DEF SoundConfigs
    <3> QED
      BY <1>1, <2>1, <3>1, FollowedAdded
  <2> QED
    BY <1>1, <2>2, <2>3, <2>4, <2>5 DEF ListInv
<1>3. CASE ConfigFileDirective
  <2>1. PICK file \in Files, h \in Host \cup Unknown :
           config' = InitHosts(config, file, h) /\ asked' = asked \o file
    BY <1>3 DEF ConfigFileDirective
  <2>2. /\ ~started /\ started' = started
        /\ read' \in 0 .. MaxDirectives /\ read' # 0
        /\ FileFirst => read = 0
    BY <1>1, <1>3 DEF ConfigFileDirective, Reads
  <2>3. config' \in SoundConfigs /\ file \in Seq(Entry)
    BY <1>1, <2>1, SoundHosts
  <2>4. asked' \in Seq(Entry)
    BY <1>1, <2>1, <2>3, ConcatProperties
  <2>5. FileFirst => Followed(config', asked')
    <3> SUFFICES ASSUME FileFirst PROVE Followed(config', asked')
      OBVIOUS
    <3>1. asked = <<>>
      BY <1>1, <2>2
    <3>2. asked' = file
      BY <2>1, <2>3, <3>1, ConcatEmptySeq
    <3>3. Followed(config, <<>>)
      BY <1>1, <3>1
    <3>4. Followed(InitHosts(config, file, h), file)
      BY <1>1, <3>3, FollowedHosts
    <3> QED
      BY <2>1, <3>2, <3>4
  <2> QED
    BY <1>1, <2>2, <2>3, <2>4, <2>5 DEF ListInv
<1>4. CASE MissingFile
  <2>1. /\ ~started /\ started' = started /\ asked' = asked
        /\ read' \in 0 .. MaxDirectives /\ read' # 0
        /\ config' = [config EXCEPT !.error = TRUE]
    BY <1>1, <1>4 DEF MissingFile, Reads
  <2>2. config' \in SoundConfigs /\ config'.error = TRUE
    BY <1>1, <2>1, ErrorReported
  <2>3. Followed(config', asked')
    BY <2>2 DEF Followed
  <2> QED
    BY <1>1, <2>1, <2>2, <2>3 DEF ListInv
<1>5. CASE Start
  BY <1>1, <1>5 DEF Start, ListInv
<1>6. CASE UNCHANGED vars
  BY <1>1, <1>6 DEF vars, ListInv
<1> QED
  BY <1>2, <1>3, <1>4, <1>5, <1>6 DEF Next

THEOREM ListInductive == Spec => []ListInv
BY ListInit, ListStep, PTL DEF Spec

-----------------------------------------------------------------------------
(* The theorems.                                                            *)

\* The list has room for its sruns, for any number of directives and elements:
\* cse_add_host_int writes inside srun_list.
THEOREM ListTypes == Spec => []TypeOK
<1>1. ListInv => TypeOK
  BY ConfigShape DEF ListInv, SoundConfigs, TypeOK
<1> QED
  BY <1>1, ListInductive, PTL

\* A session index is the position of its srun.
THEOREM SessionsAreIndices == Spec => []SessionIsIndex
<1>1. ListInv => SessionIsIndex
  BY DEF ListInv, SoundConfigs, Sound, SessionIsIndex
<1> QED
  BY <1>1, ListInductive, PTL

\* A server that starts has an srun to try.
THEOREM StartsWithSrun == Spec => []SrunToTry
<1>1. ListInv => SrunToTry
  BY DEF ListInv, SoundConfigs, Sound, SrunToTry
<1> QED
  BY <1>1, ListInductive, PTL

\* When no directive comes before CauchoConfigFile, the sruns of a server are
\* those that the files ask for, in their order.
THEOREM SrunsFollowFiles == ASSUME FileFirst PROVE Spec => []SrunsAsAsked
<1>1. ListInv => SrunsAsAsked
  BY DEF ListInv, Followed, AsAsked, SrunsAsAsked
<1> QED
  BY <1>1, ListInductive, PTL

=============================================================================
