---------------------------- MODULE SrunPoolProofs ----------------------------
(***************************************************************************)
(* Proofs about SrunPool, for any number of threads, sruns, descriptors    *)
(* and pool slots: the types, the ownership of the connections, and that   *)
(* SrunPool implements ConnOwner.                                          *)
(***************************************************************************)
EXTENDS SrunPool, FiniteSetTheorems, TLAPS

\* Where a thread can be in the loops of open_connection and jvm_status.
WalkInv ==
  \A t \in Thread :
    /\ at[t].i < SrunSize
    /\ pc[t] \in {"probe", "reuse", "expire"} => at[t].pass \in {1, 2, 3}
    /\ pc[t] = "check" => at[t].pass = 2
    /\ pc[t] = "connect" => at[t].pass \in {0, 2, 3}
    /\ pc[t] = "connected" => at[t].pass \in {2, 3}
    /\ pc[t] = "refused" => at[t].pass = 3
    /\ pc[t] \in {"exchange", "close"} => at[t].pass = 4
    /\ pc[t] \in {"recycle", "push"} => at[t].pass \in {0, 4}

\* Only the holder of the lock is between its test and its update, and what
\* it tested still holds.
LockInv ==
  \A t \in Thread :
    /\ pc[t] \in InPool => (Locked => lock = t)
    /\ pc[t] = "reuse" => n_sockets[Cur(t)] > 0
    /\ pc[t] = "push" => n_sockets[srun[t]] < MaxSockets

\* Control points at which the stream has no connection, and at which it has.
Unconnected == {"idle", "probe", "reuse", "expire", "check", "connect",
                "refused", "giveup", "end"}
Connected == {"connected", "exchange", "push"}

\* The connection of a thread leads to s->srun, and only it is registered
\* with the request's pool.
StreamInv ==
  \A t \in Thread :
    /\ pc[t] \in Unconnected => socket[t] = None
    /\ pc[t] \in Connected => socket[t] # None
    /\ socket[t] # None => /\ srun[t] \in Srun
                           /\ conn[socket[t]] = srun[t]
    /\ cleanup[t] \subseteq {socket[t]}

\* A child that has ended left no thread busy and no connection pooled.
ChildInv ==
  ~alive => /\ \A t \in Thread : pc[t] = "idle"
            /\ \A i \in Srun : n_sockets[i] = 0

Ownership == OwnedOnce /\ OpenIffOwned /\ PooledWhereConnected

IndInv ==
  /\ TypeOK /\ WalkInv /\ LockInv /\ StreamInv /\ ChildInv
  /\ Ownership

-----------------------------------------------------------------------------
USE SrunSizeAssumption, PoolAssumption

\* A remainder lies below its divisor.
LEMMA ModRange ==
  ASSUME NEW x \in Int, NEW m \in Nat \ {0}
  PROVE  x % m \in 0 .. m - 1
  OBVIOUS

\* The walk stays inside srun_list.
LEMMA ProbeInSrun ==
  ASSUME NEW h \in Srun, NEW i \in Nat
  PROVE  Probe(h, i) \in Srun
  <1>1. h + i * (Incr(h) + SrunSize) \in Int
    BY DEF Incr, Srun
  <1> QED BY <1>1, ModRange DEF Probe, Srun

\* What a function reaches from a finite set is no larger than the set.
LEMMA ReachBound ==
  ASSUME NEW S, IsFiniteSet(S), NEW T, NEW R, NEW g \in [S -> R],
         \A y \in T : \E x \in S : g[x] = y
  PROVE  IsFiniteSet(T) /\ Cardinality(T) <= Cardinality(S)
  <1> DEFINE Q == {g[x] : x \in S}
  <1>1. g \in Surjection(S, Q)
    BY DEF Surjection
  <1>2. IsFiniteSet(Q) /\ Cardinality(Q) <= Cardinality(S)
    BY <1>1, FS_Surjection
  <1>3. T \in SUBSET Q
    OBVIOUS
  <1>4. IsFiniteSet(T) /\ Cardinality(T) <= Cardinality(Q)
    BY <1>2, <1>3, FS_Subset
  <1>5. /\ Cardinality(T) \in Nat /\ Cardinality(Q) \in Nat
        /\ Cardinality(S) \in Nat
    BY <1>2, <1>4, FS_CardinalityType
  <1> QED BY <1>2, <1>4, <1>5

\* The records that the loops and the requests start from, and the next
\* position of a loop.
LEMMA RecordTypes ==
  /\ NoAt \in At /\ NoAt.pass = 0 /\ NoAt.i = 0
  /\ Returned \in At /\ Returned.pass = 4 /\ Returned.i = 0
  /\ NoRequest \in Request
  BY DEF NoAt, Returned, NoRequest, At, Request, Srun

\* The next position of a loop is a position, in the same pass or the next.
LEMMA NextAtType ==
  ASSUME NEW a \in At, a.i < SrunSize, a.pass \in 0 .. 3
  PROVE  /\ NextAt(a) \in At
         /\ NextAt(a).i < SrunSize
         /\ NextAt(a).pass \in {a.pass, a.pass + 1}
  BY DEF NextAt, At

\* What a step of thread t finds: the srun that it is at, its request time,
\* and where its loop goes next.
LEMMA ThreadFacts ==
  ASSUME TypeOK, WalkInv, NEW t \in Thread
  PROVE  /\ Cur(t) \in Srun
         /\ req[t].time \in Nat
         /\ at[t].pass \in 0 .. 4
         /\ at[t].pass # 4 =>
              /\ NextAt(at[t]) \in At
              /\ NextAt(at[t]).i < SrunSize
              /\ NextAt(at[t]).pass \in {at[t].pass, at[t].pass + 1}
  <1>1. /\ at[t] \in At /\ at[t].i \in Nat /\ at[t].i < SrunSize
        /\ at[t].pass \in 0 .. 4
        /\ req[t].host \in Srun /\ req[t].time \in Nat
    BY DEF TypeOK, WalkInv, At, Request
  <1>2. at[t].i \in Srun
    BY <1>1 DEF Srun
  <1>3. Probe(req[t].host, at[t].i) \in Srun
    BY <1>1, ProbeInSrun
  <1>4. at[t].pass # 4 => /\ NextAt(at[t]) \in At
                          /\ NextAt(at[t]).i < SrunSize
                          /\ NextAt(at[t]).pass \in {at[t].pass, at[t].pass + 1}
    BY <1>1, NextAtType
  <1> QED BY <1>1, <1>2, <1>3, <1>4 DEF Cur

\* Threads that keep their place keep their srun.
LEMMA CurFrame ==
  ASSUME NEW u \in Thread, at'[u] = at[u], req'[u] = req[u]
  PROVE  Cur(u)' = Cur(u)
  BY DEF Cur

\* One thread moves to a control point, and on in its loop or not.
LEMMA Moved ==
  ASSUME TypeOK, NEW t \in Thread, NEW l \in PC, NEW a \in At,
         pc' = [pc EXCEPT ![t] = l],
         at' = [at EXCEPT ![t] = a] \/ (at' = at /\ a = at[t])
  PROVE  /\ at' \in [Thread -> At] /\ pc' \in [Thread -> PC]
         /\ \A u \in Thread : u # t => pc'[u] = pc[u] /\ at'[u] = at[u]
         /\ pc'[t] = l /\ at'[t] = a
  <1>1. at' \in [Thread -> At] /\ at'[t] = a
    <2>1. CASE at' = at /\ a = at[t]
      BY <2>1 DEF TypeOK
    <2>2. CASE at' = [at EXCEPT ![t] = a]
      BY <2>2 DEF TypeOK
    <2> QED BY <2>1, <2>2
  <1>2. pc' \in [Thread -> PC] /\ pc'[t] = l
    BY DEF TypeOK
  <1>3. \A u \in Thread : u # t => pc'[u] = pc[u] /\ at'[u] = at[u]
    BY DEF TypeOK
  <1> QED BY <1>1, <1>2, <1>3

\* Where cse_reuse_socket's caller goes on when it returned 0.
LEMMA MissedMoves ==
  ASSUME TypeOK, WalkInv, NEW t \in Thread, at[t].pass \in {1, 2, 3}, Missed(t)
  PROVE  /\ at' \in [Thread -> At] /\ pc' \in [Thread -> PC]
         /\ \A u \in Thread : u # t => pc'[u] = pc[u] /\ at'[u] = at[u]
         /\ at'[t].i < SrunSize
         /\ \/ pc'[t] = "probe" /\ at'[t].pass \in {1, 2, 3}
            \/ pc'[t] = "giveup"
            \/ pc'[t] = "check" /\ at'[t].pass = 2
            \/ pc'[t] = "connect" /\ at'[t].pass = 3
  <1>0. /\ {"probe", "giveup", "check", "connect"} \subseteq PC
        /\ at[t] \in At /\ at[t].i < SrunSize
    BY DEF PC, TypeOK, WalkInv
  <1>1. CASE at[t].pass = 1
    <2>1. /\ NextAt(at[t]) \in At /\ NextAt(at[t]).i < SrunSize
          /\ NextAt(at[t]).pass \in {1, 2}
      BY <1>1, ThreadFacts
    <2>2. /\ pc' = [pc EXCEPT ![t] = "probe"]
          /\ at' = [at EXCEPT ![t] = NextAt(at[t])]
      BY <1>1, <2>1 DEF Missed, Advance, Goto
    <2> QED BY <1>0, <2>1, <2>2, Moved, ZenonT(40)
  <1>2. CASE at[t].pass = 2
    <2>1. pc' = [pc EXCEPT ![t] = "check"] /\ at' = at
      BY <1>2 DEF Missed, Goto
    <2> QED BY <1>0, <1>2, <2>1, Moved
  <1>3. CASE at[t].pass = 3
    <2>1. pc' = [pc EXCEPT ![t] = "connect"] /\ at' = at
      BY <1>3 DEF Missed, Goto
    <2> QED BY <1>0, <1>3, <2>1, Moved
  <1> QED BY <1>1, <1>2, <1>3

\* Where a thread goes on after cse_recycle.
LEMMA AfterRecycleMoves ==
  ASSUME TypeOK, WalkInv, NEW t \in Thread, at[t].pass \in {0, 4},
         AfterRecycle(t)
  PROVE  /\ at' \in [Thread -> At] /\ pc' \in [Thread -> PC]
         /\ \A u \in Thread : u # t => pc'[u] = pc[u] /\ at'[u] = at[u]
         /\ at'[t].i < SrunSize
         /\ \/ pc'[t] = "end"
            \/ pc'[t] = "connect" /\ at'[t].pass = 0
  <1>0. /\ {"end", "connect"} \subseteq PC
        /\ at[t] \in At /\ at[t].i < SrunSize
    BY DEF PC, TypeOK, WalkInv
  <1>1. CASE at[t].pass = 0
    <2>1. /\ NextAt(at[t]) \in At /\ NextAt(at[t]).i < SrunSize
          /\ NextAt(at[t]).pass \in {0, 1}
      BY <1>1, ThreadFacts
    <2>2. /\ pc' = [pc EXCEPT ![t] = IF NextAt(at[t]).pass = 1 THEN "end" ELSE "connect"]
          /\ at' = [at EXCEPT ![t] = NextAt(at[t])]
      BY <1>1 DEF AfterRecycle, AdvanceStatus, Goto
    <2>3. CASE NextAt(at[t]).pass = 1
      BY <1>0, <2>1, <2>2, <2>3, Moved
    <2>4. CASE NextAt(at[t]).pass = 0
      BY <1>0, <2>1, <2>2, <2>4, Moved, ZenonT(40)
    <2> QED BY <2>1, <2>3, <2>4
  <1>2. CASE at[t].pass = 4
    <2>1. pc' = [pc EXCEPT ![t] = "end"] /\ at' = at
      BY <1>2 DEF AfterRecycle, Goto
    <2> QED BY <1>0, <2>1, Moved
  <1> QED BY <1>1, <1>2

\* The slots in use of a pool that gains, or loses, its last one.
LEMMA RangeStep ==
  ASSUME NEW k \in Nat
  PROVE  /\ 0 .. (k + 1) - 1 = (0 .. k - 1) \cup {k}
         /\ 0 .. k - 1 = (0 .. (k + 1) - 1) \ {k}
  <1>1. \A x : x \in 0 .. (k + 1) - 1 <=> x \in 0 .. k - 1 \/ x = k
    OBVIOUS
  <1>2. k \notin 0 .. k - 1
    OBVIOUS
  <1> QED BY <1>1, <1>2

\* A step that leaves the pools and the streams' connections alone.
LEMMA OwnershipFrame ==
  ASSUME Ownership, UNCHANGED <<conn, sockets, n_sockets, socket>>
  PROVE  Ownership'
  <1>1. OwnedOnce'
    BY DEF Ownership, OwnedOnce, InUse
  <1>2. OpenIffOwned'
    BY DEF Ownership, OpenIffOwned, InUse
  <1>3. PooledWhereConnected'
    BY DEF Ownership, PooledWhereConnected, InUse
  <1> QED BY <1>1, <1>2, <1>3 DEF Ownership

\* cse_close on the stream of a thread.
LEMMA CloseOwnership ==
  ASSUME TypeOK, Ownership, NEW t \in Thread, CloseStream(t),
         UNCHANGED <<sockets, n_sockets>>
  PROVE  Ownership'
  <1>1. \A u \in Thread : socket'[u] = IF u = t THEN None ELSE socket[u]
    BY DEF CloseStream, TypeOK
  <1>2. \A f \in Fd : conn'[f] = IF f = socket[t] THEN None ELSE conn[f]
    BY DEF CloseStream, CloseAll
  <1>3. \A i \in Srun : \A k \in InUse(i) : sockets[i][k] \in Fd \ {None, socket[t]}
    BY DEF Ownership, PooledWhereConnected, OwnedOnce
  <1>4. \A i \in Srun : InUse(i)' = InUse(i)
    BY DEF InUse
  <1>5. OwnedOnce'
    BY <1>1, <1>3, <1>4 DEF Ownership, OwnedOnce
  <1>6. OpenIffOwned'
    BY <1>1, <1>2, <1>3, <1>4 DEF Ownership, OpenIffOwned, OwnedOnce
  <1>7. PooledWhereConnected'
    BY <1>2, <1>3, <1>4 DEF Ownership, PooledWhereConnected
  <1> QED BY <1>5, <1>6, <1>7 DEF Ownership

\* A child that has just started has no connections.
THEOREM InitInd == Init => IndInv
  <1> SUFFICES ASSUME Init PROVE IndInv
    OBVIOUS
  <1>1. TypeOK
    BY DEF Init, TypeOK, Empty, PC, InPool, At, NoAt, Request, NoRequest, Srun
  <1>2. WalkInv /\ LockInv /\ StreamInv /\ ChildInv
    BY DEF Init, WalkInv, LockInv, StreamInv, ChildInv, InPool, Unconnected,
       Connected, NoAt, Srun
  <1>3. Ownership
    BY DEF Init, Ownership, OwnedOnce, OpenIffOwned, PooledWhereConnected,
       InUse
  <1> QED BY <1>1, <1>2, <1>3 DEF IndInv

\* caucho_request: the request has a first host and no connection yet.
LEMMA ArriveInd ==
  ASSUME IndInv, NEW t \in Thread, Arrive(t)
  PROVE  IndInv'
  <1> USE DEF IndInv
  <1>1. TypeOK'
    <2>1. PICK s \in Session : \E h \in FirstHosts(s) :
            /\ req' = [req EXCEPT ![t] = [session |-> s, time |-> now, host |-> h]]
            /\ at' = [at EXCEPT ![t] = [pass |-> IF s < 0 THEN 1 ELSE 2, i |-> 0]]
      BY DEF Arrive
    <2>2. PICK h \in FirstHosts(s) :
            req' = [req EXCEPT ![t] = [session |-> s, time |-> now, host |-> h]]
      BY <2>1
    <2>3. [session |-> s, time |-> now, host |-> h] \in Request
      BY DEF FirstHosts, Request, TypeOK
    <2>4. [pass |-> IF s < 0 THEN 1 ELSE 2, i |-> 0] \in At
      BY DEF At
    <2> QED BY <2>1, <2>2, <2>3, <2>4 DEF TypeOK, PC, Arrive, Goto, world,
               kernel, flags, slots, stream
  <1>2. WalkInv'
    BY DEF WalkInv, TypeOK, Arrive, Goto
  <1>3. LockInv'
    BY CurFrame DEF LockInv, InPool, Arrive, Goto, slots, stream
  <1>4. StreamInv'
    BY DEF StreamInv, Unconnected, Connected, Arrive, Goto, kernel, stream
  <1>5. ChildInv'
    BY DEF ChildInv, Arrive, Goto
  <1>6. Ownership'
    BY OwnershipFrame DEF Arrive, Goto, kernel, slots, stream
  <1> QED BY <1>1, <1>2, <1>3, <1>4, <1>5, <1>6

\* caucho_status: the status page has no connection yet.
LEMMA ArriveStatusInd ==
  ASSUME IndInv, NEW t \in Thread, ArriveStatus(t)
  PROVE  IndInv'
  <1> USE DEF IndInv
  <1>1. TypeOK'
    BY RecordTypes DEF TypeOK, PC, ArriveStatus, Goto, world, kernel, flags,
       slots, stream
  <1>2. WalkInv'
    BY RecordTypes DEF WalkInv, TypeOK, ArriveStatus, Goto
  <1>3. LockInv'
    BY CurFrame DEF LockInv, InPool, ArriveStatus, Goto, slots, stream
  <1>4. StreamInv'
    BY DEF StreamInv, Unconnected, Connected, ArriveStatus, Goto, kernel,
       stream
  <1>5. ChildInv'
    BY DEF ChildInv, ArriveStatus, Goto
  <1>6. Ownership'
    BY OwnershipFrame DEF ArriveStatus, Goto, kernel, slots, stream
  <1> QED BY <1>1, <1>2, <1>3, <1>4, <1>5, <1>6

\* A backup is left out: only the place in the loop changes.
LEMMA SkipBackupInd ==
  ASSUME IndInv, NEW t \in Thread, SkipBackup(t)
  PROVE  IndInv'
  <1> USE DEF IndInv
  <1>c. Cur(t) \in Srun /\ req[t].time \in Nat /\ at[t].pass \in 0 .. 4
    BY ThreadFacts
  <1>n. at[t].pass # 4 => /\ NextAt(at[t]) \in At
                          /\ NextAt(at[t]).i < SrunSize
                          /\ NextAt(at[t]).pass \in {at[t].pass, at[t].pass + 1}
    BY ThreadFacts
  <1>1. TypeOK'
    BY <1>c, <1>n DEF TypeOK, WalkInv, PC, SkipBackup, Goto, Advance, world,
       kernel, flags, slots, stream
  <1>2. WalkInv'
    BY <1>n DEF WalkInv, TypeOK, SkipBackup, Goto, Advance
  <1>3. LockInv'
    BY CurFrame DEF LockInv, InPool, SkipBackup, Goto, Advance, slots, stream
  <1>4. StreamInv'
    BY DEF StreamInv, Unconnected, Connected, SkipBackup, Goto, Advance,
       kernel, stream
  <1>5. ChildInv'
    BY DEF ChildInv, SkipBackup, Goto, Advance
  <1>6. Ownership'
    BY OwnershipFrame DEF SkipBackup, Goto, Advance, kernel, slots, stream
  <1> QED BY <1>1, <1>2, <1>3, <1>4, <1>5, <1>6

\* cse_reuse_socket takes the lock with n_sockets > 0, or goes on without it.
LEMMA ReuseEnterInd ==
  ASSUME IndInv, NEW t \in Thread, ReuseEnter(t)
  PROVE  IndInv'
  <1> USE DEF IndInv
  <1>c. Cur(t) \in Srun /\ req[t].time \in Nat /\ at[t].pass \in 0 .. 4
    BY ThreadFacts
  <1>n. at[t].pass # 4 => /\ NextAt(at[t]) \in At
                          /\ NextAt(at[t]).i < SrunSize
                          /\ NextAt(at[t]).pass \in {at[t].pass, at[t].pass + 1}
    BY ThreadFacts
  <1>p. at[t].pass \in {1, 2, 3} /\ Clamped(t) \in Nat
    BY <1>c DEF WalkInv, ReuseEnter, Clamped, TypeOK
  <1>1. TypeOK'
    <2>1. at' \in [Thread -> At] /\ pc' \in [Thread -> PC]
      <3>1. CASE n_sockets[Cur(t)] > 0
        <4>1. /\ {"reuse", "expire"} \subseteq PC
              /\ (IF Fresh(t) THEN "reuse" ELSE "expire") \in {"reuse", "expire"}
          BY DEF PC, InPool
        <4>2. /\ pc' = [pc EXCEPT ![t] = IF Fresh(t) THEN "reuse" ELSE "expire"]
              /\ at' = at /\ at[t] \in At
          BY <3>1 DEF TypeOK, ReuseEnter, Goto
        <4> QED BY <4>1, <4>2, Moved
      <3>2. CASE n_sockets[Cur(t)] = 0
        BY <1>p, <3>2, MissedMoves DEF ReuseEnter
      <3> QED BY <1>c, <3>1, <3>2 DEF TypeOK
    <2>2. last_time' \in [Srun -> Nat] /\ lock' \in Thread \cup {None}
      BY <1>p DEF TypeOK, ReuseEnter, Acquire
    <2> QED BY <2>1, <2>2 DEF TypeOK, ReuseEnter, world, kernel, slots, stream
  <1>2. WalkInv'
    <2> SUFFICES ASSUME NEW u \in Thread PROVE WalkInv!(u)'
      BY DEF WalkInv
    <2>1. CASE n_sockets[Cur(t)] > 0
      BY <1>p, <2>1 DEF TypeOK, WalkInv, ReuseEnter, Goto
    <2>2. CASE n_sockets[Cur(t)] = 0
      <3>1. CASE u = t
        BY <1>p, <2>2, <3>1, MissedMoves DEF ReuseEnter
      <3>2. CASE u # t
        BY <1>p, <2>2, <3>2, MissedMoves DEF ReuseEnter, WalkInv
      <3> QED BY <3>1, <3>2
    <2> QED BY <1>c, <2>1, <2>2 DEF TypeOK
  <1>3. LockInv'
    BY CurFrame, LockAssumption DEF LockInv, WalkInv, TypeOK, InPool,
       ReuseEnter, Goto, Missed, Advance, Acquire, LockFree, Clamped, slots
  <1>4. StreamInv'
    BY DEF StreamInv, TypeOK, Unconnected, Connected, ReuseEnter, Goto, Missed,
       Advance, Acquire, LockFree, Clamped, kernel, stream
  <1>5. ChildInv'
    BY DEF ChildInv, ReuseEnter, Goto, Missed, Advance, Acquire, LockFree,
       Clamped
  <1>6. Ownership'
    BY OwnershipFrame DEF ReuseEnter, Goto, Missed, Advance, Acquire, LockFree,
       Clamped, kernel, slots, stream
  <1> QED BY <1>1, <1>2, <1>3, <1>4, <1>5, <1>6

\* cse_reuse moves a connection from the top of a pool to the thread's stream.
LEMMA ReuseInd ==
  ASSUME IndInv, NEW t \in Thread, Reuse(t)
  PROVE  IndInv'
  <1> USE DEF IndInv
  <1>c. Cur(t) \in Srun /\ req[t].time \in Nat /\ at[t].pass \in 0 .. 4
    BY ThreadFacts
  <1>p. n_sockets[Cur(t)] - 1 \in InUse(Cur(t)) /\ n_sockets[Cur(t)] - 1 \in 0 .. MaxSockets - 1
    BY <1>c DEF Reuse, LockInv, TypeOK, InUse
  <1>q. sockets[Cur(t)][n_sockets[Cur(t)] - 1] \in Fd
    BY <1>c, <1>p DEF Ownership, PooledWhereConnected
  <1>1. TypeOK'
    <2>1. sockets' \in [Srun -> [0 .. MaxSockets - 1 -> Fd \cup {None}]]
      BY <1>p DEF TypeOK, Reuse
    <2>2. /\ n_sockets' \in [Srun -> 0 .. MaxSockets]
          /\ is_dead' \in [Srun -> BOOLEAN] /\ last_time' \in [Srun -> Nat]
      BY <1>c, <1>p DEF TypeOK, Reuse
    <2>3. /\ socket' \in [Thread -> Fd \cup {None}]
          /\ srun' \in [Thread -> Srun \cup {None}]
          /\ cleanup' \in [Thread -> SUBSET Fd]
      BY <1>c, <1>q DEF TypeOK, Reuse
    <2>4. at' \in [Thread -> At] /\ pc' \in [Thread -> PC] /\ lock' = None
      BY RecordTypes DEF TypeOK, PC, Reuse, Goto, Release
    <2> QED BY <2>1, <2>2, <2>3, <2>4 DEF TypeOK, Reuse, world, kernel
  <1>2. WalkInv'
    BY RecordTypes DEF WalkInv, TypeOK, Reuse, Goto, Release
  <1>3. LockInv'
    BY LockAssumption DEF LockInv, TypeOK, InPool, Reuse, Goto, Release
  <1>4. StreamInv'
    BY <1>c DEF StreamInv, Ownership, PooledWhereConnected, InUse, LockInv,
       TypeOK, Unconnected, Reuse, Goto, Release, kernel
  <1>5. ChildInv'
    BY DEF ChildInv, Reuse, Goto, Release
  <1>6. Ownership'
    <2> DEFINE i == Cur(t)
               k == n_sockets[i] - 1
               f == sockets[i][k]
    <2>1. i \in Srun /\ k \in InUse(i) /\ f \in Fd /\ conn' = conn
      BY <1>c, <1>p, <1>q DEF Reuse, kernel
    <2>2. \A j \in Srun : InUse(j)' = IF j = i THEN InUse(i) \ {k} ELSE InUse(j)
      <3>1. \A j \in Srun : /\ n_sockets[j] \in Nat
                            /\ n_sockets'[j] = IF j = i THEN k ELSE n_sockets[j]
        BY DEF TypeOK, Reuse
      <3>2. k \in Nat
        BY <1>p
      <3>3. \A j \in Srun : j = i => /\ InUse(j) = 0 .. (k + 1) - 1
                                    /\ InUse(j)' = 0 .. k - 1
        BY <2>1, <3>1, <3>2 DEF InUse
      <3> HIDE DEF i
      <3> QED BY <3>1, <3>2, <3>3, RangeStep DEF InUse
    <2>3. \A j \in Srun : \A m \in InUse(j)' : sockets'[j][m] = sockets[j][m]
      BY <1>p, <2>2 DEF Reuse
    <2>4. \A u \in Thread : socket'[u] = IF u = t THEN f ELSE socket[u]
      BY DEF TypeOK, Reuse
    <2>5. \A u \in Thread : socket[u] # f
      BY <2>1 DEF Ownership, OwnedOnce
    <2>6. socket[t] = None
      BY DEF Reuse, StreamInv, Unconnected
    <2> HIDE DEF i, k
    <2>7. OwnedOnce'
      BY <2>1, <2>2, <2>3, <2>4, <2>5 DEF Ownership, OwnedOnce
    <2>8. OpenIffOwned'
      BY <2>1, <2>2, <2>3, <2>4, <2>5, <2>6 DEF Ownership, OpenIffOwned
    <2>9. PooledWhereConnected'
      BY <2>1, <2>2, <2>3 DEF Ownership, PooledWhereConnected
    <2> QED BY <2>7, <2>8, <2>9 DEF Ownership
  <1> QED BY <1>1, <1>2, <1>3, <1>4, <1>5, <1>6

\* The expiry of a pool closes what it holds and nothing else.
LEMMA ExpireInd ==
  ASSUME IndInv, NEW t \in Thread, Expire(t)
  PROVE  IndInv'
  <1> USE DEF IndInv
  <1>c. Cur(t) \in Srun /\ req[t].time \in Nat /\ at[t].pass \in 0 .. 4
    BY ThreadFacts
  <1>n. at[t].pass # 4 => /\ NextAt(at[t]) \in At
                          /\ NextAt(at[t]).i < SrunSize
                          /\ NextAt(at[t]).pass \in {at[t].pass, at[t].pass + 1}
    BY ThreadFacts
  <1>p. at[t].pass \in {1, 2, 3}
    BY DEF WalkInv, Expire
  <1>1. TypeOK'
    <2>1. at' \in [Thread -> At] /\ pc' \in [Thread -> PC]
      BY <1>p, MissedMoves DEF Expire
    <2>2. conn' \in [Fd -> Srun \cup {None}] /\ live' \subseteq Fd
      BY DEF TypeOK, Expire, CloseAll
    <2>3. /\ sockets' \in [Srun -> [0 .. MaxSockets - 1 -> Fd \cup {None}]]
          /\ n_sockets' \in [Srun -> 0 .. MaxSockets]
      BY <1>c DEF TypeOK, Expire, Empty
    <2> QED BY <2>1, <2>2, <2>3 DEF TypeOK, Expire, Release, world, flags,
               stream
  <1>2. WalkInv'
    BY <1>n DEF WalkInv, TypeOK, Expire, Goto, Release, Missed, Advance,
       CloseAll, Empty
  <1>3. LockInv'
    BY CurFrame, LockAssumption DEF LockInv, WalkInv, TypeOK, InPool, Expire,
       Goto, Release, Missed, Advance, CloseAll, Empty
  <1>s. \A u \in Thread : socket[u] \notin Pooled(Cur(t))
    BY <1>c DEF Ownership, OwnedOnce, Pooled
  <1>4. StreamInv'
    <2>1. \A u \in Thread : socket[u] # None => conn'[socket[u]] = conn[socket[u]]
      BY <1>s DEF Expire, CloseAll, TypeOK
    <2>2. pc'[t] \in Unconnected /\ socket[t] = None
      BY <1>p, MissedMoves DEF Expire, StreamInv, Unconnected
    <2>3. \A u \in Thread : u # t => pc'[u] = pc[u]
      BY <1>p, MissedMoves DEF Expire
    <2> QED BY <2>1, <2>2, <2>3 DEF StreamInv, Unconnected, Connected, Expire,
               stream
  <1>5. ChildInv'
    BY DEF ChildInv, Expire, Goto, Release, Missed, Advance, CloseAll, Empty
  <1>6. Ownership'
    <2> DEFINE i == Cur(t)
    <2>1. i \in Srun /\ socket' = socket /\ \A u \in Thread : socket[u] \notin Pooled(i)
      BY <1>c, <1>s DEF Expire, stream
    <2>2. \A g \in Fd : conn'[g] = IF g \in Pooled(i) THEN None ELSE conn[g]
      BY DEF Expire, CloseAll
    <2>3. \A j \in Srun : InUse(j)' = IF j = i THEN {} ELSE InUse(j)
      BY DEF TypeOK, Expire, InUse
    <2>4. \A j \in Srun : j # i => sockets'[j] = sockets[j]
      BY DEF Expire
    <2>5. \A j \in Srun : \A m \in InUse(j) : j # i => sockets[j][m] \notin Pooled(i)
      BY <1>c DEF Ownership, OwnedOnce, Pooled
    <2> HIDE DEF i
    <2>6. OwnedOnce'
      BY <2>1, <2>3, <2>4 DEF Ownership, OwnedOnce
    <2>7. OpenIffOwned'
      <3> SUFFICES ASSUME NEW g \in Fd
                   PROVE  conn'[g] # None <=>
                            \/ \E j \in Srun : \E m \in InUse(j)' : sockets'[j][m] = g
                            \/ \E u \in Thread : socket'[u] = g
        BY DEF OpenIffOwned
      <3>1. CASE g \in Pooled(i)
        BY <2>1, <2>2, <2>3, <2>4, <2>5, <3>1
      <3>2. CASE g \notin Pooled(i)
        BY <2>1, <2>2, <2>3, <2>4, <3>2 DEF Ownership, OpenIffOwned, Pooled
      <3> QED BY <3>1, <3>2
    <2>8. PooledWhereConnected'
      BY <2>1, <2>2, <2>3, <2>4, <2>5 DEF Ownership, PooledWhereConnected
    <2> QED BY <2>6, <2>7, <2>8 DEF Ownership
  <1> QED BY <1>1, <1>2, <1>3, <1>4, <1>5, <1>6

\* An srun thought dead is left out: only the place in the loop changes.
LEMMA SkipDeadInd ==
  ASSUME IndInv, NEW t \in Thread, SkipDead(t)
  PROVE  IndInv'
  <1> USE DEF IndInv
  <1>n. at[t].pass # 4 => /\ NextAt(at[t]) \in At
                          /\ NextAt(at[t]).i < SrunSize
                          /\ NextAt(at[t]).pass \in {at[t].pass, at[t].pass + 1}
    BY ThreadFacts
  <1>1. TypeOK'
    BY <1>n DEF TypeOK, WalkInv, PC, SkipDead, Goto, Advance, world, kernel,
       flags, slots, stream
  <1>2. WalkInv'
    BY <1>n DEF WalkInv, TypeOK, SkipDead, Goto, Advance
  <1>3. LockInv'
    BY CurFrame DEF LockInv, InPool, SkipDead, Goto, Advance, slots, stream
  <1>4. StreamInv'
    BY DEF StreamInv, Unconnected, Connected, SkipDead, Goto, Advance, kernel,
       stream
  <1>5. ChildInv'
    BY DEF ChildInv, SkipDead, Goto, Advance
  <1>6. Ownership'
    BY OwnershipFrame DEF SkipDead, Goto, Advance, kernel, slots, stream
  <1> QED BY <1>1, <1>2, <1>3, <1>4, <1>5, <1>6

\* An srun not thought dead is tried: only the control point changes.
LEMMA TryAliveInd ==
  ASSUME IndInv, NEW t \in Thread, TryAlive(t)
  PROVE  IndInv'
  <1> USE DEF IndInv
  <1>1. TypeOK'
    BY DEF TypeOK, PC, TryAlive, Goto, world, kernel, flags, slots, stream
  <1>2. WalkInv'
    BY DEF WalkInv, TryAlive, Goto
  <1>3. LockInv'
    BY CurFrame DEF LockInv, InPool, TryAlive, Goto, slots, stream
  <1>4. StreamInv'
    BY DEF StreamInv, Unconnected, Connected, TryAlive, Goto, kernel, stream
  <1>5. ChildInv'
    BY DEF ChildInv, TryAlive, Goto
  <1>6. Ownership'
    BY OwnershipFrame DEF TryAlive, Goto, kernel, slots, stream
  <1> QED BY <1>1, <1>2, <1>3, <1>4, <1>5, <1>6

\* A new connection takes a descriptor that nobody owns.
LEMMA ConnectOkInd ==
  ASSUME IndInv, NEW t \in Thread, ConnectOk(t)
  PROVE  IndInv'
  <1> USE DEF IndInv
  <1>c. Cur(t) \in Srun /\ req[t].time \in Nat /\ at[t].pass \in 0 .. 4
    BY ThreadFacts
  <1>1. TypeOK'
    BY <1>c DEF TypeOK, PC, ConnectOk, Goto, Closed, world, flags, slots
  <1>2. WalkInv'
    BY DEF WalkInv, ConnectOk, Goto, Closed
  <1>3. LockInv'
    BY CurFrame DEF LockInv, InPool, ConnectOk, Goto, Closed, slots
  <1>4. StreamInv'
    BY <1>c DEF StreamInv, TypeOK, Unconnected, ConnectOk, Goto, Closed
  <1>5. ChildInv'
    BY DEF ChildInv, ConnectOk, Goto, Closed
  <1>6. Ownership'
    <2>1. PICK f \in Fd :
            /\ conn[f] = None
            /\ socket' = [socket EXCEPT ![t] = f]
            /\ conn' = [conn EXCEPT ![f] = Cur(t)]
      BY DEF ConnectOk, Closed
    <2>2. \A u \in Thread : socket'[u] = IF u = t THEN f ELSE socket[u]
      BY <2>1 DEF TypeOK
    <2>3. \A g \in Fd : conn'[g] = IF g = f THEN Cur(t) ELSE conn[g]
      BY <2>1 DEF TypeOK
    <2>4. sockets' = sockets /\ \A i \in Srun : InUse(i)' = InUse(i)
      BY DEF ConnectOk, slots, InUse
    <2>5. socket[t] = None /\ Cur(t) # None
      BY <1>c DEF ConnectOk, StreamInv, Unconnected
    <2>6. /\ \A u \in Thread : socket[u] # f
          /\ \A i \in Srun : \A k \in InUse(i) : sockets[i][k] # f
      BY <2>1 DEF Ownership, OpenIffOwned
    <2>7. OwnedOnce'
      BY <2>2, <2>4, <2>6 DEF Ownership, OwnedOnce
    <2>8. OpenIffOwned'
      BY <2>2, <2>3, <2>4, <2>5 DEF Ownership, OpenIffOwned
    <2>9. PooledWhereConnected'
      BY <2>3, <2>4, <2>6 DEF Ownership, PooledWhereConnected
    <2> QED BY <2>7, <2>8, <2>9 DEF Ownership
  <1> QED BY <1>1, <1>2, <1>3, <1>4, <1>5, <1>6

\* A failed connect leaves the thread without a connection.
LEMMA ConnectFailInd ==
  ASSUME IndInv, NEW t \in Thread, ConnectFail(t)
  PROVE  IndInv'
  <1> USE DEF IndInv
  <1>c. Cur(t) \in Srun /\ req[t].time \in Nat /\ at[t].pass \in 0 .. 4
    BY ThreadFacts
  <1>n. at[t].pass # 4 => /\ NextAt(at[t]) \in At
                          /\ NextAt(at[t]).i < SrunSize
                          /\ NextAt(at[t]).pass \in {at[t].pass, at[t].pass + 1}
    BY ThreadFacts
  <1>1. TypeOK'
    <2>1. at[t].pass \in {0, 2, 3}
      BY DEF WalkInv, ConnectFail
    <2>2. at' \in [Thread -> At] /\ pc' \in [Thread -> PC]
      <3>1. CASE at[t].pass = 2
        <4>1. pc' = [pc EXCEPT ![t] = "probe"]
          BY <1>n, <3>1 DEF ConnectFail, Advance, Goto
        <4>2. at' = [at EXCEPT ![t] = NextAt(at[t])] /\ "probe" \in PC
          BY <3>1 DEF ConnectFail, Advance, PC
        <4>3. NextAt(at[t]) \in At
          BY <1>n, <3>1
        <4> QED BY <4>1, <4>2, <4>3, Moved
      <3>2. CASE at[t].pass # 2
        BY <3>2, ZenonT(40) DEF TypeOK, PC, ConnectFail, Goto
      <3> QED BY <3>1, <3>2
    <2>3. /\ socket' \in [Thread -> Fd \cup {None}]
          /\ srun' \in [Thread -> Srun \cup {None}]
      BY <1>c DEF TypeOK, ConnectFail
    <2> QED BY <2>2, <2>3 DEF TypeOK, ConnectFail, world, kernel, slots, flags
  <1>2. WalkInv'
    BY <1>n DEF WalkInv, TypeOK, ConnectFail, Goto, Advance
  <1>3. LockInv'
    BY CurFrame DEF LockInv, TypeOK, InPool, ConnectFail, Goto, Advance, slots
  <1>4. StreamInv'
    BY DEF StreamInv, TypeOK, Unconnected, Connected, ConnectFail, Goto,
       Advance, kernel
  <1>5. ChildInv'
    BY DEF ChildInv, ConnectFail, Goto, Advance
  <1>6. Ownership'
    BY OwnershipFrame DEF TypeOK, StreamInv, Unconnected, ConnectFail, Goto,
       Advance, kernel, slots
  <1> QED BY <1>1, <1>2, <1>3, <1>4, <1>5, <1>6

\* The connection that was opened is registered with the request's pool.
LEMMA MarkAliveInd ==
  ASSUME IndInv, NEW t \in Thread, MarkAlive(t)
  PROVE  IndInv'
  <1> USE DEF IndInv
  <1>c. Cur(t) \in Srun /\ req[t].time \in Nat /\ at[t].pass \in 0 .. 4
    BY ThreadFacts
  <1>1. TypeOK'
    BY <1>c, RecordTypes DEF TypeOK, StreamInv, Connected, PC, MarkAlive, Goto,
       world, kernel, slots
  <1>2. WalkInv'
    BY RecordTypes DEF WalkInv, TypeOK, MarkAlive, Goto
  <1>3. LockInv'
    BY CurFrame DEF LockInv, InPool, MarkAlive, Goto, slots
  <1>4. StreamInv'
    BY DEF StreamInv, Unconnected, Connected, MarkAlive, Goto, kernel
  <1>5. ChildInv'
    BY DEF ChildInv, MarkAlive, Goto
  <1>6. Ownership'
    BY OwnershipFrame DEF MarkAlive, Goto, kernel, slots
  <1> QED BY <1>1, <1>2, <1>3, <1>4, <1>5, <1>6

\* A dead mark concerns no connection.
LEMMA MarkDeadInd ==
  ASSUME IndInv, NEW t \in Thread, MarkDead(t)
  PROVE  IndInv'
  <1> USE DEF IndInv
  <1>c. Cur(t) \in Srun /\ req[t].time \in Nat /\ at[t].pass \in 0 .. 4
    BY ThreadFacts
  <1>n. at[t].pass # 4 => /\ NextAt(at[t]) \in At
                          /\ NextAt(at[t]).i < SrunSize
                          /\ NextAt(at[t]).pass \in {at[t].pass, at[t].pass + 1}
    BY ThreadFacts
  <1>1. TypeOK'
    BY <1>c, <1>n DEF TypeOK, WalkInv, PC, MarkDead, Goto, Advance, world,
       kernel, slots, stream
  <1>2. WalkInv'
    BY <1>n DEF WalkInv, TypeOK, MarkDead, Goto, Advance
  <1>3. LockInv'
    BY CurFrame DEF LockInv, InPool, MarkDead, Goto, Advance, slots, stream
  <1>4. StreamInv'
    BY DEF StreamInv, Unconnected, Connected, MarkDead, Goto, Advance, kernel,
       stream
  <1>5. ChildInv'
    BY DEF ChildInv, MarkDead, Goto, Advance
  <1>6. Ownership'
    BY OwnershipFrame DEF MarkDead, Goto, Advance, kernel, slots, stream
  <1> QED BY <1>1, <1>2, <1>3, <1>4, <1>5, <1>6

\* A request that no srun took has no connection.
LEMMA ConnectionErrorInd ==
  ASSUME IndInv, NEW t \in Thread, ConnectionError(t)
  PROVE  IndInv'
  <1> USE DEF IndInv
  <1>1. TypeOK'
    BY DEF TypeOK, PC, ConnectionError, Goto, world, kernel, flags, slots,
       stream
  <1>2. WalkInv'
    BY DEF WalkInv, ConnectionError, Goto
  <1>3. LockInv'
    BY CurFrame DEF LockInv, InPool, ConnectionError, Goto, slots, stream
  <1>4. StreamInv'
    BY DEF StreamInv, Unconnected, Connected, ConnectionError, Goto, kernel,
       stream
  <1>5. ChildInv'
    BY DEF ChildInv, ConnectionError, Goto
  <1>6. Ownership'
    BY OwnershipFrame DEF ConnectionError, Goto, kernel, slots, stream
  <1> QED BY <1>1, <1>2, <1>3, <1>4, <1>5, <1>6

\* After CSE_END the stream has its connection, to be recycled.
LEMMA ExchangeEndInd ==
  ASSUME IndInv, NEW t \in Thread, ExchangeEnd(t)
  PROVE  IndInv'
  <1> USE DEF IndInv
  <1>1. TypeOK'
    BY DEF TypeOK, PC, ExchangeEnd, Goto, world, kernel, flags, slots, stream
  <1>2. WalkInv'
    BY DEF WalkInv, ExchangeEnd, Goto
  <1>3. LockInv'
    BY CurFrame DEF LockInv, InPool, ExchangeEnd, Goto, slots, stream
  <1>4. StreamInv'
    BY DEF StreamInv, TypeOK, Unconnected, ExchangeEnd, Goto, kernel, stream
  <1>5. ChildInv'
    BY DEF ChildInv, ExchangeEnd, Goto
  <1>6. Ownership'
    BY OwnershipFrame DEF ExchangeEnd, Goto, kernel, slots, stream
  <1> QED BY <1>1, <1>2, <1>3, <1>4, <1>5, <1>6

\* After CSE_CLOSE the stream has its connection, to be closed.
LEMMA ExchangeCloseInd ==
  ASSUME IndInv, NEW t \in Thread, ExchangeClose(t)
  PROVE  IndInv'
  <1> USE DEF IndInv
  <1>1. TypeOK'
    BY DEF TypeOK, PC, ExchangeClose, Goto, world, kernel, flags, slots, stream
  <1>2. WalkInv'
    BY DEF WalkInv, ExchangeClose, Goto
  <1>3. LockInv'
    BY CurFrame DEF LockInv, InPool, ExchangeClose, Goto, slots, stream
  <1>4. StreamInv'
    BY DEF StreamInv, TypeOK, Unconnected, Connected, ExchangeClose, Goto,
       kernel, stream
  <1>5. ChildInv'
    BY DEF ChildInv, ExchangeClose, Goto
  <1>6. Ownership'
    BY OwnershipFrame DEF ExchangeClose, Goto, kernel, slots, stream
  <1> QED BY <1>1, <1>2, <1>3, <1>4, <1>5, <1>6

\* A lost stream has closed its own connection and no other.
LEMMA ExchangeLostInd ==
  ASSUME IndInv, NEW t \in Thread, ExchangeLost(t)
  PROVE  IndInv'
  <1> USE DEF IndInv
  <1>1. TypeOK'
    BY DEF TypeOK, PC, ExchangeLost, Goto, CloseStream, CloseAll, world, flags,
       slots
  <1>2. WalkInv'
    BY DEF WalkInv, ExchangeLost, Goto, CloseStream, CloseAll
  <1>3. LockInv'
    BY CurFrame DEF LockInv, InPool, ExchangeLost, Goto, CloseStream, CloseAll,
       slots
  <1>4. StreamInv'
    BY DEF StreamInv, Ownership, OwnedOnce, TypeOK, Connected, ExchangeLost,
       Goto, CloseStream, CloseAll
  <1>5. ChildInv'
    BY DEF ChildInv, ExchangeLost, Goto, CloseStream, CloseAll
  <1>6. Ownership'
    BY CloseOwnership DEF ExchangeLost, slots
  <1> QED BY <1>1, <1>2, <1>3, <1>4, <1>5, <1>6

\* cse_close closes the stream's own connection and no other.
LEMMA CloseInd ==
  ASSUME IndInv, NEW t \in Thread, Close(t)
  PROVE  IndInv'
  <1> USE DEF IndInv
  <1>1. TypeOK'
    BY DEF TypeOK, PC, Close, Goto, CloseStream, CloseAll, world, flags, slots
  <1>2. WalkInv'
    BY DEF WalkInv, Close, Goto, CloseStream, CloseAll
  <1>3. LockInv'
    BY CurFrame DEF LockInv, InPool, Close, Goto, CloseStream, CloseAll, slots
  <1>4. StreamInv'
    BY DEF StreamInv, Ownership, OwnedOnce, TypeOK, Connected, Close, Goto,
       CloseStream, CloseAll
  <1>5. ChildInv'
    BY DEF ChildInv, Close, Goto, CloseStream, CloseAll
  <1>6. Ownership'
    BY CloseOwnership DEF Close, slots
  <1> QED BY <1>1, <1>2, <1>3, <1>4, <1>5, <1>6

\* cse_recycle takes the lock with room in the pool.
LEMMA RecycleEnterInd ==
  ASSUME IndInv, NEW t \in Thread, RecycleEnter(t)
  PROVE  IndInv'
  <1> USE DEF IndInv
  <1>1. TypeOK'
    BY DEF TypeOK, PC, InPool, RecycleEnter, Goto, LockFree, Acquire, HasRoom,
       world, kernel, flags, slots, stream
  <1>2. WalkInv'
    BY DEF WalkInv, RecycleEnter, Goto, LockFree, Acquire, HasRoom
  <1>3. LockInv'
    BY CurFrame DEF LockInv, RecycleEnter, Goto, LockFree, Acquire, HasRoom,
       slots, stream
  <1>4. StreamInv'
    BY DEF StreamInv, Unconnected, RecycleEnter, Goto, LockFree, Acquire,
       HasRoom, kernel, stream
  <1>5. ChildInv'
    BY DEF ChildInv, RecycleEnter, Goto, LockFree, Acquire, HasRoom
  <1>6. Ownership'
    BY OwnershipFrame DEF RecycleEnter, Goto, LockFree, Acquire, HasRoom,
       kernel, slots, stream
  <1> QED BY <1>1, <1>2, <1>3, <1>4, <1>5, <1>6

\* cse_recycle without room closes the stream's own connection.
LEMMA RecycleCloseInd ==
  ASSUME IndInv, NEW t \in Thread, RecycleClose(t)
  PROVE  IndInv'
  <1> USE DEF IndInv
  <1>n. at[t].pass # 4 => /\ NextAt(at[t]) \in At
                          /\ NextAt(at[t]).i < SrunSize
                          /\ NextAt(at[t]).pass \in {at[t].pass, at[t].pass + 1}
    BY ThreadFacts
  <1>p. at[t].pass \in {0, 4}
    BY DEF WalkInv, RecycleClose
  <1>1. TypeOK'
    <2>1. at' \in [Thread -> At] /\ pc' \in [Thread -> PC]
      BY <1>p, AfterRecycleMoves DEF RecycleClose
    <2>2. conn' \in [Fd -> Srun \cup {None}] /\ live' \subseteq Fd
      BY DEF TypeOK, RecycleClose, CloseStream, CloseAll
    <2>3. /\ socket' \in [Thread -> Fd \cup {None}]
          /\ cleanup' \in [Thread -> SUBSET Fd]
      BY DEF TypeOK, RecycleClose, CloseStream
    <2> QED BY <2>1, <2>2, <2>3 DEF TypeOK, RecycleClose, world, slots, flags
  <1>2. WalkInv'
    BY <1>n DEF WalkInv, TypeOK, RecycleClose, Goto, LockFree, HasRoom,
       CloseStream, CloseAll, AfterRecycle, AdvanceStatus
  <1>3. LockInv'
    BY LockAssumption DEF LockInv, TypeOK, InPool, RecycleClose, Goto,
       LockFree, HasRoom, CloseStream, CloseAll, AfterRecycle, AdvanceStatus
  <1>4. StreamInv'
    BY DEF StreamInv, Ownership, OwnedOnce, TypeOK, Connected, RecycleClose,
       Goto, LockFree, HasRoom, CloseStream, CloseAll, AfterRecycle,
       AdvanceStatus
  <1>5. ChildInv'
    BY DEF ChildInv, RecycleClose, Goto, LockFree, HasRoom, CloseStream,
       CloseAll, AfterRecycle, AdvanceStatus
  <1>6. Ownership'
    BY CloseOwnership DEF RecycleClose, slots
  <1> QED BY <1>1, <1>2, <1>3, <1>4, <1>5, <1>6

\* cse_recycle moves the stream's connection to the first free slot of the pool
\* of the srun that it leads to, and takes it from the request's cleanups.
LEMMA PushInd ==
  ASSUME IndInv, NEW t \in Thread, Push(t)
  PROVE  IndInv'
  <1> USE DEF IndInv
  <1>n. at[t].pass # 4 => /\ NextAt(at[t]) \in At
                          /\ NextAt(at[t]).i < SrunSize
                          /\ NextAt(at[t]).pass \in {at[t].pass, at[t].pass + 1}
    BY ThreadFacts
  <1>p. at[t].pass \in {0, 4}
    BY DEF WalkInv, Push
  <1>q. /\ srun[t] \in Srun /\ socket[t] \in Fd /\ conn[socket[t]] = srun[t]
        /\ n_sockets[srun[t]] \in 0 .. MaxSockets - 1
    BY DEF Push, StreamInv, Connected, LockInv, TypeOK
  <1>1. TypeOK'
    <2>1. at' \in [Thread -> At] /\ pc' \in [Thread -> PC]
      BY <1>p, AfterRecycleMoves DEF Push
    <2>2. sockets' \in [Srun -> [0 .. MaxSockets - 1 -> Fd \cup {None}]]
      BY <1>q DEF TypeOK, Push
    <2>3. n_sockets' \in [Srun -> 0 .. MaxSockets]
      BY <1>q DEF TypeOK, Push
    <2>4. /\ socket' \in [Thread -> Fd \cup {None}]
          /\ cleanup' \in [Thread -> SUBSET Fd]
      BY DEF TypeOK, Push
    <2> QED BY <2>1, <2>2, <2>3, <2>4 DEF TypeOK, Push, Release, world, kernel,
               flags
  <1>2. WalkInv'
    BY <1>n DEF WalkInv, TypeOK, Push, Goto, Release, AfterRecycle,
       AdvanceStatus
  <1>3. LockInv'
    BY LockAssumption DEF LockInv, TypeOK, InPool, Push, Goto, Release,
       AfterRecycle, AdvanceStatus
  <1>4. StreamInv'
    BY DEF StreamInv, TypeOK, Connected, Push, Goto, Release, AfterRecycle,
       AdvanceStatus, kernel
  <1>5. ChildInv'
    BY DEF ChildInv, Push, Goto, Release, AfterRecycle, AdvanceStatus
  <1>6. Ownership'
    <2> DEFINE i == srun[t]
               k == n_sockets[i]
               f == socket[t]
    <2>1. /\ i \in Srun /\ f \in Fd /\ conn[f] = i /\ conn' = conn
          /\ k \in 0 .. MaxSockets - 1 /\ k \notin InUse(i)
      BY <1>q DEF Push, kernel, InUse
    <2>2. \A j \in Srun : InUse(j)' = IF j = i THEN InUse(i) \cup {k} ELSE InUse(j)
      <3>1. \A j \in Srun : /\ n_sockets[j] \in Nat
                            /\ n_sockets'[j] = IF j = i THEN k + 1 ELSE n_sockets[j]
        BY <1>q DEF TypeOK, Push
      <3>2. \A j \in Srun : j = i => /\ InUse(j) = 0 .. k - 1
                                    /\ InUse(j)' = 0 .. (k + 1) - 1
        BY <2>1, <3>1 DEF InUse
      <3> HIDE DEF i
      <3> QED BY <2>1, <3>1, <3>2, RangeStep DEF InUse
    <2>3. \A j \in Srun : \A m \in InUse(j)' :
            sockets'[j][m] = IF j = i /\ m = k THEN f ELSE sockets[j][m]
      <3>1. \A j \in Srun : InUse(j)' \subseteq 0 .. MaxSockets - 1
        BY <1>1 DEF TypeOK, InUse
      <3> QED BY <1>q, <3>1 DEF TypeOK, Push
    <2>4. \A u \in Thread : socket'[u] = IF u = t THEN None ELSE socket[u]
      BY DEF TypeOK, Push
    <2>5. \A j \in Srun : \A m \in InUse(j) : sockets[j][m] \in Fd \ {f}
      BY DEF Ownership, OwnedOnce, PooledWhereConnected
    <2> HIDE DEF i, k, f
    <2>6. OwnedOnce'
      <3>1. \A u \in Thread : u # t => socket[u] # f
        BY <2>1 DEF Ownership, OwnedOnce, f
      <3> QED BY <2>1, <2>2, <2>3, <2>4, <2>5, <3>1 DEF Ownership, OwnedOnce
    <2>7. OpenIffOwned'
      <3>1. conn[f] # None /\ socket[t] = f
        BY <2>1 DEF f
      <3> QED BY <2>1, <2>2, <2>3, <2>4, <3>1 DEF Ownership, OpenIffOwned
    <2>8. PooledWhereConnected'
      BY <2>1, <2>2, <2>3 DEF Ownership, PooledWhereConnected
    <2> QED BY <2>6, <2>7, <2>8 DEF Ownership
  <1> QED BY <1>1, <1>2, <1>3, <1>4, <1>5, <1>6

\* The cleanups that are left when a request ends close nobody's connection.
LEMMA EndRequestInd ==
  ASSUME IndInv, NEW t \in Thread, EndRequest(t)
  PROVE  IndInv'
  <1> USE DEF IndInv
  <1>1. TypeOK'
    BY RecordTypes DEF TypeOK, PC, EndRequest, Goto, CloseAll, world, flags,
       slots
  <1>2. WalkInv'
    BY RecordTypes DEF WalkInv, EndRequest, Goto, CloseAll
  <1>3. LockInv'
    BY CurFrame DEF LockInv, InPool, EndRequest, Goto, CloseAll, slots
  <1>4. StreamInv'
    BY DEF StreamInv, TypeOK, Unconnected, Connected, EndRequest, Goto,
       CloseAll
  <1>5. ChildInv'
    BY DEF ChildInv, EndRequest, Goto, CloseAll
  <1>6. Ownership'
    <2>1. socket[t] = None /\ cleanup[t] = {}
      BY DEF EndRequest, StreamInv, Unconnected, TypeOK
    <2>2. socket' = socket /\ conn' = conn
      BY <2>1 DEF EndRequest, CloseAll, TypeOK
    <2> QED BY <2>2, OwnershipFrame DEF EndRequest, slots
  <1> QED BY <1>1, <1>2, <1>3, <1>4, <1>5, <1>6

\* A step of the surroundings that leaves the threads, the pools and the lock
\* alone.
LEMMA Surroundings ==
  ASSUME IndInv, now' \in Nat, jvmUp' \in [Srun -> BOOLEAN], live' \subseteq Fd,
         UNCHANGED <<alive, conn, slots, flags, lock, pc, at, req, stream>>
  PROVE  IndInv'
  <1> USE DEF IndInv
  <1>1. TypeOK'
    BY DEF TypeOK, slots, flags, stream
  <1>2. WalkInv'
    BY DEF WalkInv
  <1>3. LockInv'
    BY CurFrame DEF LockInv, slots, stream
  <1>4. StreamInv'
    BY DEF StreamInv, stream
  <1>5. ChildInv'
    BY DEF ChildInv, slots
  <1>6. Ownership'
    BY OwnershipFrame DEF slots, stream
  <1> QED BY <1>1, <1>2, <1>3, <1>4, <1>5, <1>6

\* cse_close_child closes the pooled connections, and no thread has one.
LEMMA CloseChildInd ==
  ASSUME IndInv, CloseChild
  PROVE  IndInv'
  <1> USE DEF IndInv
  <1>a. \A t \in Thread : pc[t] = "idle" /\ pc'[t] = "idle" /\ socket[t] = None
    BY DEF CloseChild, StreamInv, Unconnected
  <1>b. \A i \in Srun : n_sockets'[i] = 0 /\ InUse(i)' = {}
    BY DEF CloseChild, InUse
  <1>c. \A f \in Fd : (\E i \in Srun : f \in Pooled(i)) => conn'[f] = None
    BY DEF CloseChild, CloseAll
  <1>1. TypeOK'
    <2>1. conn' \in [Fd -> Srun \cup {None}] /\ live' \subseteq Fd
      BY DEF TypeOK, CloseChild, CloseAll
    <2>2. /\ sockets' \in [Srun -> [0 .. MaxSockets - 1 -> Fd \cup {None}]]
          /\ n_sockets' \in [Srun -> 0 .. MaxSockets]
      BY DEF CloseChild, Empty
    <2> QED BY <2>1, <2>2 DEF TypeOK, CloseChild, world, flags, stream
  <1>2. WalkInv'
    BY DEF WalkInv, CloseChild
  <1>3. LockInv'
    BY <1>a DEF LockInv, InPool
  <1>4. StreamInv'
    BY <1>a DEF StreamInv, CloseChild, stream
  <1>5. ChildInv'
    BY <1>a, <1>b DEF ChildInv
  <1>6. Ownership'
    <2>1. socket' = socket /\ \A f \in Fd : conn'[f] # None => conn[f] # None
      BY DEF CloseChild, CloseAll, stream
    <2>2. OwnedOnce'
      BY <1>b, <2>1 DEF Ownership, OwnedOnce
    <2>3. \A f \in Fd : conn'[f] = None
      <3> SUFFICES ASSUME NEW f \in Fd, conn[f] # None PROVE conn'[f] = None
        BY <2>1
      <3>1. \E i \in Srun : \E k \in InUse(i) : sockets[i][k] = f
        BY <1>a DEF Ownership, OpenIffOwned
      <3>2. \E i \in Srun : f \in Pooled(i)
        BY <3>1 DEF Pooled
      <3> QED BY <1>c, <3>2
    <2>4. OpenIffOwned'
      BY <1>a, <1>b, <2>1, <2>3 DEF OpenIffOwned
    <2>5. PooledWhereConnected'
      BY <1>b DEF PooledWhereConnected
    <2> QED BY <2>2, <2>4, <2>5 DEF Ownership
  <1> QED BY <1>1, <1>2, <1>3, <1>4, <1>5, <1>6

\* cse_open_child forgets pools that are empty.
LEMMA OpenChildInd ==
  ASSUME IndInv, OpenChild
  PROVE  IndInv'
  <1> USE DEF IndInv
  <1>a. \A t \in Thread : pc[t] = "idle" /\ pc'[t] = "idle"
    BY DEF OpenChild, ChildInv
  <1>b. \A i \in Srun : InUse(i) = {} /\ InUse(i)' = {}
    BY DEF OpenChild, ChildInv, InUse
  <1>1. TypeOK'
    <2>1. /\ sockets' \in [Srun -> [0 .. MaxSockets - 1 -> Fd \cup {None}]]
          /\ n_sockets' \in [Srun -> 0 .. MaxSockets]
      BY DEF OpenChild, Empty
    <2>2. is_dead' \in [Srun -> BOOLEAN] /\ last_time' \in [Srun -> Nat]
      BY DEF OpenChild
    <2> QED BY <2>1, <2>2 DEF TypeOK, OpenChild, world, kernel, stream
  <1>2. WalkInv'
    BY DEF WalkInv, OpenChild
  <1>3. LockInv'
    BY <1>a DEF LockInv, InPool
  <1>4. StreamInv'
    BY DEF StreamInv, OpenChild, kernel, stream
  <1>5. ChildInv'
    BY DEF ChildInv, OpenChild
  <1>6. Ownership'
    BY <1>b DEF Ownership, OwnedOnce, OpenIffOwned, PooledWhereConnected,
       OpenChild, kernel, stream
  <1> QED BY <1>1, <1>2, <1>3, <1>4, <1>5, <1>6

\* IndInv is inductive.
LEMMA NextInd ==
  ASSUME IndInv, [Next]_vars
  PROVE  IndInv'
  <1>1. CASE UNCHANGED vars
    BY <1>1, Surroundings DEF IndInv, TypeOK, vars, slots, flags, stream
  <1>2. ASSUME NEW t \in Thread, Arrive(t) \/ ArriveStatus(t) PROVE IndInv'
    BY <1>2, ArriveInd, ArriveStatusInd
  <1>3. ASSUME NEW t \in Thread, Step(t) PROVE IndInv'
    <2>1. CASE SkipBackup(t) \/ ReuseEnter(t) \/ Reuse(t) \/ Expire(t)
      BY <2>1, SkipBackupInd, ReuseEnterInd, ReuseInd, ExpireInd
    <2>2. CASE \/ SkipDead(t) \/ TryAlive(t) \/ ConnectOk(t) \/ ConnectFail(t)
               \/ MarkAlive(t) \/ MarkDead(t) \/ ConnectionError(t)
      BY <2>2, SkipDeadInd, TryAliveInd, ConnectOkInd, ConnectFailInd,
         MarkAliveInd, MarkDeadInd, ConnectionErrorInd
    <2>3. CASE ExchangeEnd(t) \/ ExchangeClose(t) \/ ExchangeLost(t) \/ Close(t)
      BY <2>3, ExchangeEndInd, ExchangeCloseInd, ExchangeLostInd, CloseInd
    <2>4. CASE RecycleEnter(t) \/ RecycleClose(t) \/ Push(t) \/ EndRequest(t)
      BY <2>4, RecycleEnterInd, RecycleCloseInd, PushInd, EndRequestInd
    <2> QED BY <1>3, <2>1, <2>2, <2>3, <2>4 DEF Step
  <1>4. CASE Environment
    <2>1. CASE CloseChild \/ OpenChild
      BY <2>1, CloseChildInd, OpenChildInd
    <2>2. CASE Clock
      BY <2>2, Surroundings DEF Clock, kernel, IndInv, TypeOK
    <2>3. ASSUME NEW i \in Srun, JvmStart(i) \/ JvmStop(i) PROVE IndInv'
      <3>1. jvmUp' \in [Srun -> BOOLEAN] /\ live' \subseteq Fd
        BY <2>3 DEF JvmStart, JvmStop, kernel, IndInv, TypeOK
      <3> QED BY <2>3, <3>1, Surroundings DEF JvmStart, JvmStop, kernel,
                 IndInv, TypeOK
    <2>4. ASSUME NEW f \in Fd, JvmDrop(f) PROVE IndInv'
      BY <2>4, Surroundings DEF JvmDrop, world, IndInv, TypeOK
    <2> QED BY <1>4, <2>1, <2>2, <2>3, <2>4 DEF Environment
  <1> QED BY <1>1, <1>2, <1>3, <1>4 DEF Next

\* The inductive invariant holds in every state of every behaviour.
THEOREM Inductive == Spec => []IndInv
  BY InitInd, NextInd, PTL DEF Spec

\* The types hold, and with them the bound: no pool ever holds more than
\* max_sockets connections, however many threads recycle at once.
THEOREM TypeCorrect == Spec => []TypeOK
  <1>1. IndInv => TypeOK
    BY DEF IndInv
  <1> QED BY <1>1, Inductive, PTL

\* No connection is ever in two streams, two slots, or a stream and a slot.
THEOREM ConnectionsOwnedOnce == Spec => []OwnedOnce
  <1>1. IndInv => OwnedOnce
    BY DEF IndInv, Ownership
  <1> QED BY <1>1, Inductive, PTL

\* A connection is closed when, and only when, nobody owns it any more.
THEOREM ConnectionsOpenIffOwned == Spec => []OpenIffOwned
  <1>1. IndInv => OpenIffOwned
    BY DEF IndInv, Ownership
  <1> QED BY <1>1, Inductive, PTL

\* The pool of an srun holds connections to that srun only.
THEOREM ConnectionsPooledRight == Spec => []PooledWhereConnected
  <1>1. IndInv => PooledWhereConnected
    BY DEF IndInv, Ownership
  <1> QED BY <1>1, Inductive, PTL

-----------------------------------------------------------------------------
(* SrunPool implements ConnOwner: what the arrays, the lock and the passes *)
(* of many threads do to the connections is one atomic step of ConnOwner,  *)
(* or none, for any number of threads, sruns, descriptors and pool slots.  *)

USE SrunSizeAssumption, PoolAssumption

\* The function that the refinement maps owner to.
Own == [f \in Fd |-> Owner(f)]

\* A descriptor is owned by the thread whose stream has it, by the srun whose
\* pool has it, or by nobody when it is closed.
OwnerIs ==
  \A f \in Fd :
    /\ \A t \in Thread : Owner(f) = t <=> socket[t] = f
    /\ \A i \in Srun : Owner(f) = i <=> f \in Pooled(i)
    /\ Owner(f) = None <=> conn[f] = None
    /\ Owner(f) \in Thread \cup Srun \cup {None}

\* So it is in every state of SrunPool.
LEMMA OwnerNow == IndInv => OwnerIs
  <1> SUFFICES ASSUME IndInv, NEW f \in Fd PROVE OwnerIs!(f)
    BY DEF OwnerIs
  <1>0. OwnedOnce /\ OpenIffOwned
    BY DEF IndInv, Ownership
  <1>1. \A u \in Thread \cup Srun :
          u \in Users(f) <=> \/ u \in Thread /\ socket[u] = f
                             \/ u \in Srun /\ f \in Pooled(u)
    BY DEF Users
  <1>2. Users(f) \subseteq Thread \cup Srun
    BY DEF Users
  <1>3. \A u, v \in Users(f) : u = v
    BY <1>0, <1>1, <1>2 DEF OwnedOnce, Pooled
  <1>4. Users(f) # {} <=> conn[f] # None
    BY <1>0 DEF OpenIffOwned, Users, Pooled
  <1>5. CASE Users(f) = {}
    BY <1>1, <1>4, <1>5 DEF Owner
  <1>6. CASE Users(f) # {}
    <2>1. Owner(f) \in Users(f)
      BY <1>6 DEF Owner
    <2> QED BY <1>1, <1>2, <1>3, <1>4, <1>6, <2>1
  <1> QED BY <1>5, <1>6

\* And after every step.
LEMMA OwnerNext == IndInv' => OwnerIs'
  BY OwnerNow, PTL

\* A descriptor that stays where it is keeps its owner.
LEMMA OwnerKept ==
  ASSUME IndInv, IndInv', NEW f \in Fd, conn'[f] = conn[f],
         \A t \in Thread : socket[t] = f => socket'[t] = f,
         \A i \in Srun : f \in Pooled(i) => f \in Pooled(i)'
  PROVE  Owner(f)' = Owner(f)
  BY OwnerNow, OwnerNext DEF OwnerIs

\* A step that leaves the pools and the streams' connections alone is none of
\* ConnOwner's.
LEMMA OwnerFrame ==
  ASSUME UNCHANGED <<conn, sockets, n_sockets, socket>>
  PROVE  UNCHANGED ConnOwners!vars
  <1>1. \A f \in Fd : Owner(f)' = Owner(f)
    BY DEF Owner, Users, Pooled, InUse
  <1> QED BY <1>1 DEF ConnOwners!vars

\* cse_reuse takes an idle connection.
LEMMA ReuseTakes ==
  ASSUME IndInv, IndInv', NEW t \in Thread, Reuse(t)
  PROVE  \E f \in Fd : ConnOwners!Take(t, f)
  <1>i. PICK i \in Srun : i = Cur(t)
    BY ThreadFacts DEF IndInv
  <1>k. PICK k : k = n_sockets[i] - 1
    OBVIOUS
  <1>f. PICK f : f = sockets[i][k]
    OBVIOUS
  <1>0. TypeOK /\ OwnerIs /\ OwnerIs'
    BY OwnerNow, OwnerNext DEF IndInv
  <1>1. k \in InUse(i) /\ k \in 0 .. MaxSockets - 1
    BY <1>0, <1>i, <1>k DEF Reuse, IndInv, LockInv, TypeOK, InUse
  <1>2. f \in Fd /\ f \in Pooled(i)
    BY <1>0, <1>1, <1>f DEF IndInv, Ownership, PooledWhereConnected, Pooled
  <1>3. socket[t] = None
    BY DEF Reuse, IndInv, StreamInv, Unconnected
  <1>4. \A u \in Thread : socket'[u] = IF u = t THEN f ELSE socket[u]
    BY <1>0, <1>i, <1>k, <1>f DEF TypeOK, Reuse
  <1>5. conn' = conn
    BY DEF Reuse, kernel
  <1>6. \A j \in Srun : \A m \in InUse(j) :
          (j = i /\ m = k) \/ (m \in InUse(j)' /\ sockets'[j][m] = sockets[j][m])
    <2>1. \A j \in Srun : /\ n_sockets[j] \in Nat
                          /\ n_sockets'[j] = IF j = i THEN k ELSE n_sockets[j]
      BY <1>0, <1>i, <1>k DEF TypeOK, Reuse
    <2>2. \A j \in Srun : \A m \in InUse(j) :
            (j = i /\ m = k) \/ m \in InUse(j)'
      BY <1>k, <2>1 DEF InUse
    <2>3. \A j \in Srun : \A m \in InUse(j) :
            (j = i /\ m = k) \/ sockets'[j][m] = sockets[j][m]
      BY <1>0, <1>1, <1>i, <1>k, <2>1 DEF InUse, TypeOK, Reuse
    <2> QED BY <2>2, <2>3
  <1>7. \A g \in Fd \ {f} : Owner(g)' = Owner(g)
    <2> SUFFICES ASSUME NEW g \in Fd \ {f} PROVE Owner(g)' = Owner(g)
      OBVIOUS
    <2>1. \A u \in Thread : socket[u] = g => socket'[u] = g
      BY <1>3, <1>4
    <2>2. \A j \in Srun : g \in Pooled(j) => g \in Pooled(j)'
      BY <1>6, <1>f DEF Pooled
    <2> QED BY <1>5, <2>1, <2>2, OwnerKept
  <1>8. Owner(f) = i /\ Owner(f)' = t
    BY <1>0, <1>2, <1>4 DEF OwnerIs
  <1>9. \A g \in Fd : Owner(g) # t
    BY <1>0, <1>3 DEF OwnerIs
  <1>10. Own' = [Own EXCEPT ![f] = t]
    BY <1>2, <1>7, <1>8 DEF Own
  <1>11. ConnOwners!Take(t, f)
    BY <1>0, <1>2, <1>5, <1>8, <1>9, <1>10 DEF ConnOwners!Take, Own
  <1> QED BY <1>2, <1>11

\* cse_open opens a closed descriptor.
LEMMA ConnectOpens ==
  ASSUME IndInv, IndInv', NEW t \in Thread, ConnectOk(t)
  PROVE  \E f \in Fd, i \in Srun : ConnOwners!Open(t, f, i)
  <1>0. TypeOK /\ OwnerIs /\ OwnerIs' /\ Cur(t) \in Srun
    BY OwnerNow, OwnerNext, ThreadFacts DEF IndInv
  <1>1. PICK f \in Closed : /\ socket' = [socket EXCEPT ![t] = f]
                            /\ conn' = [conn EXCEPT ![f] = Cur(t)]
    BY DEF ConnectOk
  <1>2. f \in Fd /\ Owner(f) = None /\ socket'[t] = f
    BY <1>0, <1>1 DEF Closed, OwnerIs, TypeOK
  <1>3. socket[t] = None
    BY DEF ConnectOk, IndInv, StreamInv, Unconnected
  <1>4. \A g \in Fd \ {f} : Owner(g)' = Owner(g)
    <2> SUFFICES ASSUME NEW g \in Fd \ {f} PROVE Owner(g)' = Owner(g)
      OBVIOUS
    <2>1. conn'[g] = conn[g]
      BY <1>0, <1>1 DEF TypeOK
    <2>2. \A u \in Thread : socket[u] = g => socket'[u] = g
      BY <1>0, <1>1, <1>3 DEF TypeOK
    <2>3. \A j \in Srun : g \in Pooled(j) => g \in Pooled(j)'
      BY DEF Pooled, InUse, ConnectOk, slots
    <2> QED BY <2>1, <2>2, <2>3, OwnerKept
  <1>5. Owner(f)' = t
    BY <1>0, <1>2 DEF OwnerIs
  <1>6. \A g \in Fd : Owner(g) # t
    BY <1>0, <1>3 DEF OwnerIs
  <1>7. Own' = [Own EXCEPT ![f] = t]
    BY <1>2, <1>4, <1>5 DEF Own
  <1>8. ConnOwners!Open(t, f, Cur(t))
    BY <1>1, <1>2, <1>6, <1>7 DEF ConnOwners!Open, Own
  <1> QED BY <1>0, <1>2, <1>8

\* cse_close discards the connection of the thread, if it has one.
LEMMA CloseDiscards ==
  ASSUME IndInv, IndInv', NEW t \in Thread, CloseStream(t), UNCHANGED slots
  PROVE  (\E f \in Fd : ConnOwners!Discard(t, f)) \/ UNCHANGED ConnOwners!vars
  <1>f. PICK f : f = socket[t]
    OBVIOUS
  <1>0. TypeOK /\ OwnerIs /\ OwnerIs'
    BY OwnerNow, OwnerNext DEF IndInv
  <1>1. \A u \in Thread : socket'[u] = IF u = t THEN None ELSE socket[u]
    BY <1>0 DEF CloseStream, TypeOK
  <1>2. conn' = [g \in Fd |-> IF g = f THEN None ELSE conn[g]]
    BY <1>f DEF CloseStream, CloseAll
  <1>3. CASE f = None
    <2>1. conn' = conn
      BY <1>0, <1>2, <1>3 DEF TypeOK
    <2>2. socket' = socket
      BY <1>0, <1>3, <1>f DEF CloseStream, TypeOK
    <2> QED BY <2>1, <2>2, OwnerFrame DEF slots
  <1>4. CASE f # None
    <2>1. f \in Fd
      BY <1>0, <1>4, <1>f DEF TypeOK
    <2>2. \A g \in Fd \ {f} : Owner(g)' = Owner(g)
      <3> SUFFICES ASSUME NEW g \in Fd \ {f} PROVE Owner(g)' = Owner(g)
        OBVIOUS
      <3>1. conn'[g] = conn[g] /\ \A u \in Thread : socket[u] = g => socket'[u] = g
        BY <1>1, <1>2, <1>f
      <3>2. \A j \in Srun : g \in Pooled(j) => g \in Pooled(j)'
        BY DEF Pooled, InUse, slots
      <3> QED BY <3>1, <3>2, OwnerKept
    <2>3. Owner(f) = t /\ Owner(f)' = None
      BY <1>0, <1>2, <1>f, <2>1 DEF OwnerIs
    <2>4. Own' = [Own EXCEPT ![f] = None]
      BY <2>1, <2>2, <2>3 DEF Own
    <2>5. conn' = [conn EXCEPT ![f] = None]
      BY <1>0, <1>2 DEF TypeOK
    <2>6. ConnOwners!Discard(t, f)
      BY <2>1, <2>3, <2>4, <2>5 DEF ConnOwners!Discard, Own
    <2> QED BY <2>1, <2>6
  <1> QED BY <1>3, <1>4

\* Fewer connections than slots are idle in a pool that has room.
LEMMA IdleBelow ==
  ASSUME IndInv, NEW i \in Srun, n_sockets[i] < MaxSockets
  PROVE  Cardinality(ConnOwners!Idle(i)) < MaxSockets
  <1>0. TypeOK /\ OwnerIs /\ n_sockets[i] \in Nat
    BY OwnerNow DEF IndInv, TypeOK
  <1> DEFINE S == InUse(i)
             g == [k \in S |-> sockets[i][k]]
             T == ConnOwners!Idle(i)
  <1>1. IsFiniteSet(S) /\ Cardinality(S) = n_sockets[i]
    <2>1. 0 \in Int /\ n_sockets[i] - 1 \in Int
      BY <1>0
    <2>2. /\ IsFiniteSet(0 .. n_sockets[i] - 1)
          /\ Cardinality(0 .. n_sockets[i] - 1) =
               IF 0 > n_sockets[i] - 1 THEN 0 ELSE n_sockets[i] - 1 - 0 + 1
      BY <2>1, FS_Interval
    <2> QED BY <1>0, <2>2 DEF InUse
  <1>2. g \in [S -> Fd \cup {None}]
    BY <1>0 DEF TypeOK, InUse
  <1>3. \A f \in T : \E k \in S : g[k] = f
    BY <1>0 DEF ConnOwners!Idle, OwnerIs, Pooled
  <1> HIDE DEF S, g, T
  <1>4. IsFiniteSet(T) /\ Cardinality(T) <= Cardinality(S)
    BY <1>1, <1>2, <1>3, ReachBound
  <1>5. Cardinality(T) \in Nat
    BY <1>4, FS_CardinalityType
  <1> QED BY <1>0, <1>1, <1>4, <1>5 DEF T

\* cse_recycle gives the connection to the pool of the srun it leads to.
LEMMA PushGives ==
  ASSUME IndInv, IndInv', NEW t \in Thread, Push(t)
  PROVE  \E f \in Fd : ConnOwners!Give(t, f)
  <1>f. PICK f, i : f = socket[t] /\ i = srun[t]
    OBVIOUS
  <1>k. PICK k : k = n_sockets[i]
    OBVIOUS
  <1>0. /\ TypeOK /\ OwnerIs /\ OwnerIs'
        /\ i \in Srun /\ f \in Fd /\ conn[f] = i /\ k < MaxSockets /\ k \in Nat
    BY <1>f, <1>k, OwnerNow, OwnerNext, SMTT(30)
       DEF IndInv, TypeOK, StreamInv, LockInv, Push, Connected
  <1>1. \A u \in Thread : socket'[u] = IF u = t THEN None ELSE socket[u]
    BY <1>0 DEF TypeOK, Push
  <1>2. conn' = conn
    BY DEF Push, kernel
  <1>3. \A j \in Srun : \A m \in InUse(j) :
          m \in InUse(j)' /\ sockets'[j][m] = sockets[j][m]
    <2>1. \A j \in Srun : /\ n_sockets[j] \in Nat
                          /\ n_sockets'[j] = IF j = i THEN k + 1 ELSE n_sockets[j]
      BY <1>0, <1>f, <1>k DEF TypeOK, Push
    <2>2. \A j \in Srun : \A m \in InUse(j) : m \in InUse(j)'
      BY <1>0, <1>k, <2>1 DEF InUse
    <2>3. \A j \in Srun : \A m \in InUse(j) : sockets'[j][m] = sockets[j][m]
      BY <1>0, <1>f, <1>k, <2>1, SMTT(30) DEF InUse, TypeOK, Push
    <2> QED BY <2>2, <2>3
  <1>4. \A g \in Fd \ {f} : Owner(g)' = Owner(g)
    <2> SUFFICES ASSUME NEW g \in Fd \ {f} PROVE Owner(g)' = Owner(g)
      OBVIOUS
    <2>1. \A u \in Thread : socket[u] = g => socket'[u] = g
      BY <1>1, <1>f
    <2>2. \A j \in Srun : g \in Pooled(j) => g \in Pooled(j)'
      BY <1>3 DEF Pooled
    <2> QED BY <1>2, <2>1, <2>2, OwnerKept
  <1>5. f \in Pooled(i)'
    <2>1. k \in 0 .. MaxSockets - 1 /\ sockets'[i][k] = f
      BY <1>0, <1>f, <1>k DEF TypeOK, Push
    <2>2. k \in InUse(i)'
      BY <1>0, <1>f, <1>k DEF InUse, TypeOK, Push
    <2> QED BY <2>1, <2>2 DEF Pooled
  <1>6. Owner(f) = t /\ Owner(f)' = i
    BY <1>0, <1>5, <1>f DEF OwnerIs
  <1>7. Own' = [Own EXCEPT ![f] = i]
    BY <1>0, <1>4, <1>6 DEF Own
  <1>8. ConnOwners!Cardinality(ConnOwners!Idle(conn[f])) < MaxSockets
    BY <1>0, <1>k, IdleBelow DEF ConnOwners!Cardinality, Cardinality
  <1>9. Own[f] = t /\ Own' = [Own EXCEPT ![f] = conn[f]]
    BY <1>0, <1>6, <1>7 DEF Own
  <1>10. ConnOwners!Give(t, f)
    BY <1>2, <1>8, <1>9 DEF ConnOwners!Give, Own
  <1> QED BY <1>0, <1>10

\* The idle connections of some pools are closed and the rest stays.
LEMMA PoolsExpire ==
  ASSUME IndInv, IndInv', NEW S \in SUBSET Srun,
         CloseAll(UNION {Pooled(i) : i \in S}), socket' = socket,
         \A j \in Srun \ S : Pooled(j)' = Pooled(j)
  PROVE  ConnOwners!Expire(S)
  <1>0. OwnerIs /\ OwnerIs'
    BY OwnerNow, OwnerNext
  <1>1. ASSUME NEW f \in Fd, Owner(f) \in S
        PROVE  conn'[f] = None /\ Owner(f)' = None
    <2>1. PICK i \in S : f \in Pooled(i)
      BY <1>0, <1>1 DEF OwnerIs
    <2>2. conn'[f] = None
      BY <2>1 DEF CloseAll
    <2> QED BY <1>0, <2>2 DEF OwnerIs
  <1>2. ASSUME NEW f \in Fd, Owner(f) \notin S
        PROVE  conn'[f] = conn[f] /\ Owner(f)' = Owner(f)
    <2>1. \A i \in S : f \notin Pooled(i)
      BY <1>0, <1>2 DEF OwnerIs
    <2>2. conn'[f] = conn[f]
      BY <2>1 DEF CloseAll
    <2>3. \A j \in Srun : f \in Pooled(j) => f \in Pooled(j)'
      BY <2>1
    <2> QED BY <2>2, <2>3, OwnerKept
  <1>3. Own' = [f \in Fd |-> IF Own[f] \in S THEN None ELSE Own[f]]
    BY <1>1, <1>2 DEF Own
  <1>4. conn' = [f \in Fd |-> IF Own[f] \in S THEN None ELSE conn[f]]
    <2>1. conn' \in [Fd -> Srun \cup {None}]
      BY DEF IndInv, TypeOK
    <2> QED BY <1>1, <1>2, <2>1 DEF Own
  <1> QED BY <1>3, <1>4 DEF ConnOwners!Expire, Own

\* cse_reuse_socket closes what it finds too old, all of it.
LEMMA ExpireExpires ==
  ASSUME IndInv, IndInv', NEW t \in Thread, Expire(t)
  PROVE  \E S \in SUBSET Srun : ConnOwners!Expire(S)
  <1>1. PICK i \in Srun : i = Cur(t)
    BY ThreadFacts DEF IndInv
  <1>2. CloseAll(UNION {Pooled(j) : j \in {i}}) /\ socket' = socket
    BY <1>1 DEF Expire, CloseAll, stream
  <1>3. \A j \in Srun \ {i} : Pooled(j)' = Pooled(j)
    BY <1>1 DEF Expire, IndInv, TypeOK, Pooled, InUse
  <1>4. {i} \in SUBSET Srun
    OBVIOUS
  <1>5. ConnOwners!Expire({i})
    BY <1>2, <1>3, <1>4, PoolsExpire
  <1> QED BY <1>4, <1>5

\* cse_close_child closes all pooled connections.
LEMMA CloseChildExpires ==
  ASSUME IndInv, IndInv', CloseChild
  PROVE  ConnOwners!Expire(Srun)
  <1>1. CloseAll(UNION {Pooled(j) : j \in Srun}) /\ socket' = socket
    BY DEF CloseChild, stream
  <1> QED BY <1>1, PoolsExpire

\* Every step of SrunPool is a step of ConnOwner, or none.
LEMMA StepImplements ==
  ASSUME IndInv, IndInv', [Next]_vars
  PROVE  [ConnOwners!Next]_ConnOwners!vars
  <1> USE DEF slots, kernel, stream
  <1>1. ASSUME NEW t \in Thread, Reuse(t) \/ ConnectOk(t) \/ Push(t)
        PROVE  ConnOwners!Next
    BY <1>1, ReuseTakes, ConnectOpens, PushGives DEF ConnOwners!Next
  <1>2. ASSUME NEW t \in Thread,
               ExchangeLost(t) \/ Close(t) \/ RecycleClose(t)
        PROVE  [ConnOwners!Next]_ConnOwners!vars
    <2>1. CloseStream(t) /\ UNCHANGED slots
      BY <1>2 DEF ExchangeLost, Close, RecycleClose
    <2> QED BY <2>1, CloseDiscards DEF ConnOwners!Next
  <1>3. ASSUME \/ \E t \in Thread : Expire(t)
               \/ CloseChild
        PROVE  ConnOwners!Next
    BY <1>3, ExpireExpires, CloseChildExpires DEF ConnOwners!Next
  <1>4. ASSUME NEW t \in Thread,
               \/ Arrive(t) \/ ArriveStatus(t) \/ SkipBackup(t) \/ ReuseEnter(t)
               \/ SkipDead(t) \/ TryAlive(t) \/ MarkAlive(t) \/ MarkDead(t)
               \/ ConnectionError(t) \/ ExchangeEnd(t) \/ ExchangeClose(t)
               \/ RecycleEnter(t)
        PROVE  UNCHANGED ConnOwners!vars
    <2>1. UNCHANGED <<conn, sockets, n_sockets, socket>>
      BY <1>4 DEF Arrive, ArriveStatus, SkipBackup, ReuseEnter, SkipDead,
         TryAlive, MarkAlive, MarkDead, ConnectionError, ExchangeEnd,
         ExchangeClose, RecycleEnter
    <2> QED BY <2>1, OwnerFrame
  <1>5. ASSUME NEW t \in Thread, ConnectFail(t) \/ EndRequest(t)
        PROVE  UNCHANGED ConnOwners!vars
    <2>1. socket[t] = None /\ cleanup[t] = {} /\ TypeOK
      BY <1>5 DEF ConnectFail, EndRequest, IndInv, StreamInv, Unconnected, TypeOK
    <2>2. UNCHANGED <<conn, sockets, n_sockets, socket>>
      BY <1>5, <2>1 DEF ConnectFail, EndRequest, CloseAll, TypeOK
    <2> QED BY <2>2, OwnerFrame
  <1>6. ASSUME OpenChild PROVE UNCHANGED ConnOwners!vars
    <2>1. \A i \in Srun : InUse(i) = {} /\ InUse(i)' = {}
      BY <1>6 DEF OpenChild, IndInv, ChildInv, InUse
    <2>2. \A f \in Fd : Owner(f)' = Owner(f)
      BY <1>6, <2>1, OwnerKept DEF Pooled, OpenChild
    <2> QED BY <1>6, <2>2 DEF ConnOwners!vars, OpenChild
  <1>7. ASSUME \/ Clock \/ (\E f \in Fd : JvmDrop(f)) \/ UNCHANGED vars
               \/ (\E i \in Srun : JvmStart(i) \/ JvmStop(i))
        PROVE  UNCHANGED ConnOwners!vars
    <2>1. UNCHANGED <<conn, sockets, n_sockets, socket>>
      BY <1>7 DEF Clock, JvmDrop, JvmStart, JvmStop, vars
    <2> QED BY <2>1, OwnerFrame
  <1> QED BY <1>1, <1>2, <1>3, <1>4, <1>5, <1>6, <1>7
             DEF Next, Step, Environment

\* The pool of connections, with its lock, its arrays and its three passes,
\* implements the atomic specification of who owns a connection.
THEOREM PoolImplementsConnOwner == Spec => ImplementsConnOwner
  <1>1. Init => ConnOwners!Init
    BY DEF Init, ConnOwners!Init, Owner, Users, Pooled, InUse
  <1>2. IndInv /\ IndInv' /\ [Next]_vars => [ConnOwners!Next]_ConnOwners!vars
    BY StepImplements
  <1> QED BY <1>1, <1>2, Inductive, PTL DEF Spec, ImplementsConnOwner, ConnOwners!Spec

=============================================================================
