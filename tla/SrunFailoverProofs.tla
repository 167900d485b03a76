-------------------------- MODULE SrunFailoverProofs --------------------------
(***************************************************************************)
(* Proofs about SrunFailover, for any number of sruns, backups, threads    *)
(* and descriptors: the walk of open_connection reaches every srun, and    *)
(* what that makes of sessions, backups and the "cannot connect" page.     *)
(***************************************************************************)
EXTENDS SrunFailover, SrunPoolProofs

\* Control points inside the three loops of open_connection.
Walking == {"probe", "reuse", "expire", "check", "connect", "connected",
            "refused"}

\* Pass 2 of the request has found srun j unusable, or leaves it out.
Tried(t, j) == j \in unusable[t] \/ (req[t].session < 0 /\ IsBackup[j])

\* A session skips pass 1, and its srun is the first of the walk.
Asked(t) ==
  pc[t] \in Walking /\ at[t].pass \in 1 .. 3 =>
    /\ req[t].session \in Srun => req[t].host = req[t].session
    /\ req[t].session >= 0 => at[t].pass # 1

\* What the request has behind it at its place in the loops.
Passed(t) ==
  pc[t] \in Walking =>
    /\ at[t].pass = 2 =>
         \A k \in 0 .. at[t].i - 1 : Tried(t, Probe(req[t].host, k))
    /\ at[t].pass = 3 =>
         /\ \A j \in Srun : Tried(t, j)
         /\ \A k \in 0 .. at[t].i - 1 : Probe(req[t].host, k) \in refused[t]

\* The srun that the loop is at.
Chosen(t) ==
  /\ pc[t] \in {"reuse", "expire", "check", "connect", "connected"} =>
       ~LeaveOut(t)
  /\ pc[t] = "connected" => srun[t] = Cur(t)
  /\ pc[t] = "refused" => Cur(t) \in refused[t]

\* The srun that got the request, or that nobody did.
Served(t) ==
  /\ pc[t] = "exchange" =>
       /\ IsBackup[srun[t]] /\ req[t].session < 0 =>
            \A j \in Srun : IsBackup[j] \/ j \in unusable[t]
       /\ req[t].session \in Srun \ {srun[t]} =>
            req[t].session \in unusable[t]
  /\ pc[t] = "giveup" => refused[t] = Srun

Found(t) == Asked(t) /\ Passed(t) /\ Chosen(t) /\ Served(t)

HistoryTypeOK ==
  /\ unusable \in [Thread -> SUBSET Srun]
  /\ refused \in [Thread -> SUBSET Srun]
  /\ stayedUp \in [Thread -> SUBSET Srun]
  /\ stayedDown \in [Thread -> SUBSET Srun]

\* The inductive invariant of BackupLast and Sticky.
HistInv == HistoryTypeOK /\ \A t \in Thread : Found(t)

\* That of UnreachableMeansDown: while there are descriptors, an srun whose
\* JVM was up all the time refuses no connection.
UpInv ==
  \A t \in Thread :
    /\ pc[t] = "idle" => refused[t] = {}
    /\ stayedUp[t] \subseteq Up
    /\ refused[t] \cap stayedUp[t] = {}

\* That of DeadNotForLong: cse_reuse_socket's test for a clock that was set
\* back, and nobody else to change last_time after it.
TimeInv ==
  \A t \in Thread :
    pc[t] \in {"expire", "check"} => last_time[Cur(t)] <= req[t].time

\* Descriptors for full pools and a connection of every thread.
EnoughDescriptors ==
  /\ IsFiniteSet(Fd) /\ IsFiniteSet(Thread)
  /\ Cardinality(Fd) >= SrunSize * MaxSockets + Cardinality(Thread)

\* The single thread of a Unix or OS/2 child.
OneThread == \A t, u \in Thread : t = u

-----------------------------------------------------------------------------
(* The walk reaches every srun.                                             *)

USE SrunSizeAssumption, PoolAssumption

\* A multiple of m that lies strictly between -m and m is 0.
LEMMA SmallMultiple ==
  ASSUME NEW d \in Int, NEW m \in Nat \ {0}, -m < d * m, d * m < m
  PROVE  d = 0
  <1>1. CASE d >= 1
    <2>1. (d - 1) * m >= 0
      BY <1>1
    <2>2. d * m = (d - 1) * m + m
      OBVIOUS
    <2> QED BY <2>1, <2>2
  <1>2. CASE d <= -1
    <2>1. (-d - 1) * m >= 0
      BY <1>2
    <2>2. d * m = -((-d - 1) * m) - m
      OBVIOUS
    <2> QED BY <2>1, <2>2
  <1> QED BY <1>1, <1>2

\* The remainder is the one number below the divisor that differs from the
\* dividend by a multiple of it.
LEMMA ModUnique ==
  ASSUME NEW q \in Int, NEW m \in Nat \ {0}, NEW r \in 0 .. m - 1
  PROVE  (q * m + r) % m = r
  <1> DEFINE x == q * m + r
             d == q - (x \div m)
  <1>1. x \in Int /\ x \div m \in Int /\ x % m \in 0 .. m - 1
    OBVIOUS
  <1>2. x = (x \div m) * m + (x % m)
    OBVIOUS
  <1>3. d \in Int /\ d * m = q * m - (x \div m) * m
    BY <1>1
  <1>4. d * m = (x % m) - r
    BY <1>1, <1>2, <1>3
  <1>5. d = 0
    BY <1>1, <1>3, <1>4, SmallMultiple
  <1> QED BY <1>1, <1>3, <1>4, <1>5

\* Iteration i of the walk is i sruns away from the first host.
LEMMA ProbeAway ==
  ASSUME NEW h \in Srun, NEW i \in 0 .. SrunSize - 1
  PROVE  /\ Incr(h) \in {-1, 1}
         /\ Incr(h) = -1 => Probe(h, i) = IF i <= h THEN h - i
                                                    ELSE h - i + SrunSize
         /\ Incr(h) = 1 => Probe(h, i) = IF h + i < SrunSize THEN h + i
                                         ELSE h + i - SrunSize
  <1>1. Incr(h) \in {-1, 1}
    BY DEF Incr, Srun
  <1>2. ASSUME Incr(h) = -1
        PROVE  Probe(h, i) = IF i <= h THEN h - i ELSE h - i + SrunSize
    <2>1. h + i * (Incr(h) + SrunSize) = i * SrunSize + (h - i)
      BY <1>2 DEF Srun
    <2>2. h + i * (Incr(h) + SrunSize) = (i - 1) * SrunSize + (h - i + SrunSize)
      BY <1>2 DEF Srun
    <2>3. CASE i <= h
      <3>1. h - i \in 0 .. SrunSize - 1 /\ i \in Int
        BY <2>3 DEF Srun
      <3>2. (i * SrunSize + (h - i)) % SrunSize = h - i
        BY <3>1, ModUnique
      <3> QED BY <2>1, <2>3, <3>2 DEF Probe
    <2>4. CASE i > h
      <3>1. h - i + SrunSize \in 0 .. SrunSize - 1 /\ i - 1 \in Int
        BY <2>4 DEF Srun
      <3>2. ((i - 1) * SrunSize + (h - i + SrunSize)) % SrunSize = h - i + SrunSize
        BY <3>1, ModUnique
      <3> QED BY <2>2, <2>4, <3>2 DEF Probe, Srun
    <2> QED BY <2>3, <2>4 DEF Srun
  <1>3. ASSUME Incr(h) = 1
        PROVE  Probe(h, i) = IF h + i < SrunSize THEN h + i ELSE h + i - SrunSize
    <2>1. h + i * (Incr(h) + SrunSize) = i * SrunSize + (h + i)
      BY <1>3 DEF Srun
    <2>2. h + i * (Incr(h) + SrunSize) = (i + 1) * SrunSize + (h + i - SrunSize)
      BY <1>3 DEF Srun
    <2>3. CASE h + i < SrunSize
      <3>1. h + i \in 0 .. SrunSize - 1 /\ i \in Int
        BY <2>3 DEF Srun
      <3>2. (i * SrunSize + (h + i)) % SrunSize = h + i
        BY <3>1, ModUnique
      <3> QED BY <2>1, <2>3, <3>2 DEF Probe
    <2>4. CASE h + i >= SrunSize
      <3>1. h + i - SrunSize \in 0 .. SrunSize - 1 /\ i + 1 \in Int
        BY <2>4 DEF Srun
      <3>2. ((i + 1) * SrunSize + (h + i - SrunSize)) % SrunSize = h + i - SrunSize
        BY <3>1, ModUnique
      <3> QED BY <2>2, <2>4, <3>2 DEF Probe, Srun
    <2> QED BY <2>3, <2>4 DEF Srun
  <1> QED BY <1>1, <1>2, <1>3

\* The walk of open_connection starts at the first host and reaches every
\* srun, downwards and upwards, whatever the number of sruns.
THEOREM WalkReachesAll ==
  ASSUME NEW h \in Srun
  PROVE  /\ Probe(h, 0) = h
         /\ \A j \in Srun : \E i \in 0 .. SrunSize - 1 : Probe(h, i) = j
  <1>1. Probe(h, 0) = h
    <2>1. 0 \in 0 .. SrunSize - 1
      OBVIOUS
    <2> QED BY <2>1, ProbeAway DEF Srun
  <1>2. ASSUME NEW j \in Srun
        PROVE  \E i \in 0 .. SrunSize - 1 : Probe(h, i) = j
    <2> DEFINE down == IF j <= h THEN h - j ELSE h - j + SrunSize
               up == IF h <= j THEN j - h ELSE j - h + SrunSize
    <2>1. down \in 0 .. SrunSize - 1 /\ up \in 0 .. SrunSize - 1
      BY DEF Srun
    <2>2. CASE Incr(h) = -1
      <3>1. Probe(h, down) = IF down <= h THEN h - down ELSE h - down + SrunSize
        BY <2>1, <2>2, ProbeAway
      <3>2. Probe(h, down) = j
        BY <3>1 DEF Srun
      <3> QED BY <2>1, <3>2
    <2>3. CASE Incr(h) = 1
      <3>1. Probe(h, up) = IF h + up < SrunSize THEN h + up ELSE h + up - SrunSize
        BY <2>1, <2>3, ProbeAway
      <3>2. Probe(h, up) = j
        BY <3>1 DEF Srun
      <3> QED BY <2>1, <3>2
    <2>4. Incr(h) \in {-1, 1}
      BY <2>1, ProbeAway
    <2> QED BY <2>2, <2>3, <2>4
  <1> QED BY <1>1, <1>2

-----------------------------------------------------------------------------
(* What the steps do to a request's history.                                *)

\* The steps with their history are steps of the child.
LEMMA HistoryRestrictsNothing ==
  /\ FInit => Init
  /\ [FNext]_fvars => [Next]_vars
  <1>1. ASSUME NEW t \in Thread,
               \/ FArrive(t) \/ FEndRequest(t) \/ FUnusable(t) \/ FRefused(t)
               \/ FAnswer(t) \/ FOther(t)
        PROVE  Arrive(t) \/ ArriveStatus(t) \/ Step(t)
    BY <1>1 DEF FArrive, FEndRequest, FUnusable, FRefused, FAnswer, FOther, Step
  <1>2. ASSUME NEW i \in Srun, FJvm(i) PROVE JvmStart(i) \/ JvmStop(i)
    BY <1>2 DEF FJvm
  <1>3. FEnvironment => Environment
    BY DEF FEnvironment, Environment
  <1>4. FNext => Next
    BY <1>1, <1>2, <1>3 DEF FNext, Next, Environment
  <1>5. UNCHANGED fvars => UNCHANGED vars
    BY DEF fvars, vars
  <1> QED BY <1>4, <1>5 DEF FInit

\* A step leaves the history of the other threads alone, but for what the
\* JVMs do.
LEMMA FoundFrame ==
  ASSUME NEW u \in Thread, Found(u),
         pc'[u] = pc[u], at'[u] = at[u], req'[u] = req[u], srun'[u] = srun[u],
         unusable'[u] = unusable[u], refused'[u] = refused[u]
  PROVE  Found(u)'
  BY DEF Found, Asked, Passed, Chosen, Served, Tried, LeaveOut, Cur, Walking

\* A loop goes on to its next srun, the next pass, or gives up, when the srun
\* that it was at is noted.
LEMMA AdvanceFound ==
  ASSUME TypeOK, WalkInv, HistoryTypeOK, NEW t \in Thread, Found(t),
         pc[t] \in Walking, at[t].pass \in 1 .. 3, Advance(t),
         req'[t] = req[t],
         unusable[t] \subseteq unusable'[t], refused[t] \subseteq refused'[t],
         refused'[t] \subseteq Srun,
         at[t].pass = 2 => \/ Cur(t) \in unusable'[t]
                           \/ req[t].session < 0 /\ IsBackup[Cur(t)],
         at[t].pass = 3 => Cur(t) \in refused'[t]
  PROVE  Found(t)'
  <1> DEFINE h == req[t].host
             a == NextAt(at[t])
  <1>1. /\ h \in Srun /\ at[t] \in At /\ at[t].i \in Nat /\ at[t].i < SrunSize
        /\ Cur(t) = Probe(h, at[t].i)
    BY DEF TypeOK, WalkInv, At, Request, Cur
  <1>2. /\ at'[t] = a /\ req'[t].host = h
        /\ pc'[t] = IF a.pass = 4 THEN "giveup" ELSE "probe"
    BY DEF Advance, Goto, TypeOK
  <1>3. \A j \in Srun : Tried(t, j) => Tried(t, j)'
    BY DEF Tried
  <1>4. at[t].pass = 2 => \A k \in 0 .. at[t].i : Tried(t, Probe(h, k))'
    <2> SUFFICES ASSUME at[t].pass = 2, NEW k \in 0 .. at[t].i
                 PROVE  Tried(t, Probe(h, k))'
      OBVIOUS
    <2>1. CASE k = at[t].i
      BY <1>1, <1>2, <2>1 DEF Tried
    <2>2. CASE k # at[t].i
      <3>1. k \in 0 .. at[t].i - 1 /\ Probe(h, k) \in Srun
        BY <1>1, <2>2, ProbeInSrun, SMTT(30)
      <3>2. Passed(t)
        BY DEF Found
      <3>3. Tried(t, Probe(h, k))
        BY <3>1, <3>2 DEF Passed
      <3> QED BY <1>3, <3>1, <3>3
    <2> QED BY <2>1, <2>2
  <1>5. at[t].pass = 3 => /\ \A j \in Srun : Tried(t, j)'
                          /\ \A k \in 0 .. at[t].i : Probe(h, k) \in refused'[t]
    <2> SUFFICES ASSUME at[t].pass = 3
                 PROVE  /\ \A j \in Srun : Tried(t, j)'
                        /\ \A k \in 0 .. at[t].i : Probe(h, k) \in refused'[t]
      OBVIOUS
    <2>1. \A j \in Srun : Tried(t, j)'
      BY <1>3 DEF Found, Passed
    <2>2. ASSUME NEW k \in 0 .. at[t].i PROVE Probe(h, k) \in refused'[t]
      <3>1. k = at[t].i \/ k \in 0 .. at[t].i - 1
        BY <1>1
      <3> QED BY <1>1, <3>1 DEF Found, Passed
    <2> QED BY <2>1, <2>2
  <1>6. CASE at[t].i + 1 < SrunSize
    <2>1. a.pass = at[t].pass /\ a.i = at[t].i + 1 /\ a.i - 1 = at[t].i
      BY <1>1, <1>6 DEF NextAt, At
    <2>2. Asked(t)'
      BY <1>2, <2>1 DEF Found, Asked, Walking
    <2>3. Passed(t)'
      BY <1>2, <1>4, <1>5, <2>1 DEF Passed
    <2> QED BY <1>2, <2>1, <2>2, <2>3 DEF Found, Chosen, Served
  <1>7. CASE ~(at[t].i + 1 < SrunSize)
    <2>1. a.pass = at[t].pass + 1 /\ a.i = 0 /\ at[t].i = SrunSize - 1
      BY <1>1, <1>7 DEF NextAt, At
    <2>2. Asked(t)'
      <3>1. at[t].pass \in {1, 2, 3} /\ a.pass # 1
        BY <2>1
      <3> QED BY <1>2, <2>1, <3>1 DEF Found, Asked, Walking
    <2>3. at[t].pass = 2 => \A j \in Srun : Tried(t, j)'
      <3> SUFFICES ASSUME at[t].pass = 2, NEW j \in Srun PROVE Tried(t, j)'
        OBVIOUS
      <3>1. PICK k \in 0 .. at[t].i : Probe(h, k) = j
        BY <1>1, <2>1, WalkReachesAll
      <3> QED BY <1>2, <1>4, <3>1 DEF Tried
    <2>4. at[t].pass = 3 => \A j \in Srun : j \in refused'[t]
      BY <1>1, <1>5, <2>1, WalkReachesAll, SMTT(30)
    <2>5. Passed(t)'
      BY <1>2, <2>1, <2>3 DEF Passed
    <2>6. a.pass = 4 => refused'[t] = Srun
      <3>1. a.pass = 4 => at[t].pass = 3
        BY <2>1
      <3> QED BY <2>4, <3>1
    <2>7. Served(t)'
      BY <1>2, <2>6 DEF Served
    <2> QED BY <1>2, <2>2, <2>5, <2>7 DEF Found, Chosen
  <1> QED BY <1>6, <1>7

\* A step of one thread leaves the others where they are.
LEMMA OthersStay ==
  ASSUME TypeOK, NEW t \in Thread, Arrive(t) \/ ArriveStatus(t) \/ Step(t),
         NEW u \in Thread, u # t
  PROVE  /\ pc'[u] = pc[u] /\ at'[u] = at[u]
         /\ req'[u] = req[u] /\ srun'[u] = srun[u]
  <1> USE DEF TypeOK, Goto, Advance, AfterRecycle, AdvanceStatus, Missed, stream
  <1>1. CASE Arrive(t) \/ ArriveStatus(t)
    BY <1>1 DEF Arrive, ArriveStatus
  <1>2. CASE SkipBackup(t) \/ ReuseEnter(t) \/ Reuse(t) \/ Expire(t)
    BY <1>2 DEF SkipBackup, ReuseEnter, Reuse, Expire
  <1>3. CASE \/ SkipDead(t) \/ TryAlive(t) \/ ConnectOk(t) \/ ConnectFail(t)
             \/ MarkAlive(t) \/ MarkDead(t) \/ ConnectionError(t)
    BY <1>3 DEF SkipDead, TryAlive, ConnectOk, ConnectFail, MarkAlive, MarkDead,
       ConnectionError
  <1>4. CASE ExchangeEnd(t) \/ ExchangeClose(t) \/ ExchangeLost(t) \/ Close(t)
    BY <1>4 DEF ExchangeEnd, ExchangeClose, ExchangeLost, Close
  <1>5. CASE RecycleEnter(t) \/ RecycleClose(t) \/ Push(t) \/ EndRequest(t)
    BY <1>5 DEF RecycleEnter, RecycleClose, Push, EndRequest
  <1> QED BY <1>1, <1>2, <1>3, <1>4, <1>5 DEF Step

\* What a step has to show when only thread t moves.
LEMMA OneMoves ==
  ASSUME TypeOK, HistInv, NEW t \in Thread,
         Arrive(t) \/ ArriveStatus(t) \/ Step(t),
         HistoryTypeOK', Found(t)',
         \A u \in Thread : u # t => /\ unusable'[u] = unusable[u]
                                    /\ refused'[u] = refused[u]
  PROVE  HistInv'
  <1>1. ASSUME NEW u \in Thread, u # t PROVE Found(u)'
    BY <1>1, OthersStay, FoundFrame DEF HistInv
  <1> QED BY <1>1 DEF HistInv

\* Outside the loops of open_connection the history says nothing.
LEMMA QuietFound ==
  ASSUME NEW t \in Thread,
         \/ pc'[t] \in {"idle", "end", "recycle", "close", "push"}
         \/ pc'[t] = "connect" /\ at'[t].pass = 0
  PROVE  Found(t)'
  BY DEF Found, Asked, Passed, Chosen, Served, LeaveOut, Walking

\* cse_reuse_socket returned 0: pass 1 goes on, passes 2 and 3 connect.
LEMMA MissedFound ==
  ASSUME TypeOK, WalkInv, HistoryTypeOK, NEW t \in Thread, Found(t),
         pc[t] \in {"probe", "expire"}, at[t].pass \in 1 .. 3, ~LeaveOut(t),
         Missed(t), UNCHANGED <<req, srun, history>>
  PROVE  Found(t)'
  <1>1. CASE at[t].pass = 1
    <2>1. Advance(t)
      BY <1>1 DEF Missed
    <2>2. refused'[t] \subseteq Srun /\ refused[t] = refused'[t] /\ unusable[t] = unusable'[t]
      BY DEF HistoryTypeOK, history
    <2> QED BY <1>1, <2>1, <2>2, AdvanceFound DEF Walking
  <1>2. CASE at[t].pass \in {2, 3}
    <2>1. /\ at' = at /\ req' = req /\ srun' = srun
          /\ unusable' = unusable /\ refused' = refused
          /\ pc'[t] = IF at[t].pass = 2 THEN "check" ELSE "connect"
      BY <1>2 DEF Missed, Goto, TypeOK, history
    <2>2. Asked(t)' /\ Passed(t)'
      BY <1>2, <2>1 DEF Found, Asked, Passed, Tried, Walking
    <2>3. Chosen(t)' /\ Served(t)'
      BY <1>2, <2>1 DEF Chosen, Served, LeaveOut, Cur
    <2> QED BY <2>2, <2>3 DEF Found
  <1> QED BY <1>1, <1>2

\* The walk goes on within the loop body with the same srun.
LEMMA SameSrunFound ==
  ASSUME NEW t \in Thread, Found(t), pc[t] \in Walking, pc'[t] \in Walking,
         pc'[t] \notin {"connected", "refused"},
         ~LeaveOut(t), at'[t] = at[t], req'[t] = req[t],
         unusable'[t] = unusable[t], refused'[t] = refused[t]
  PROVE  Found(t)'
  <1>1. Asked(t)' /\ Passed(t)'
    BY DEF Found, Asked, Passed, Tried
  <1>2. Chosen(t)' /\ Served(t)'
    BY DEF Chosen, Served, LeaveOut, Cur, Walking
  <1> QED BY <1>1, <1>2 DEF Found

\* The srun whose connection the request gets: a backup, or an srun that the
\* session does not name, only in pass 3 or after the srun it names.
LEMMA ServedFound ==
  ASSUME TypeOK, WalkInv, NEW t \in Thread, Found(t), pc[t] \in Walking,
         at[t].pass \in 1 .. 3, ~LeaveOut(t),
         pc'[t] = "exchange", srun'[t] = Cur(t), req'[t] = req[t],
         unusable'[t] = unusable[t]
  PROVE  Found(t)'
  <1>1. ASSUME IsBackup[Cur(t)], req[t].session < 0
        PROVE  \A j \in Srun : IsBackup[j] \/ j \in unusable[t]
    <2>1. at[t].pass = 3
      BY <1>1 DEF LeaveOut
    <2> QED BY <2>1 DEF Found, Passed, Tried
  <1>2. ASSUME req[t].session \in Srun \ {Cur(t)}
        PROVE  req[t].session \in unusable[t]
    <2>1. /\ at[t].pass \in {2, 3} /\ req[t].session >= 0
          /\ req[t].host = req[t].session
      BY <1>2 DEF Found, Asked, Srun
    <2>2. CASE at[t].pass = 3
      BY <1>2, <2>1, <2>2 DEF Found, Passed, Tried, TypeOK, Request
    <2>3. CASE at[t].pass = 2
      <3>1. Probe(req[t].host, 0) = req[t].session
        BY <1>2, <2>1, WalkReachesAll
      <3>2. at[t].i # 0 /\ at[t].i \in Nat
        BY <1>2, <2>3, <3>1 DEF Cur, TypeOK, At
      <3>3. Tried(t, Probe(req[t].host, 0))
        BY <2>3, <3>2 DEF Found, Passed
      <3> QED BY <2>1, <3>1, <3>3 DEF Tried, TypeOK, Request
    <2> QED BY <2>1, <2>2, <2>3
  <1> QED BY <1>1, <1>2 DEF Found, Asked, Passed, Chosen, Served, Walking

-----------------------------------------------------------------------------
(* HistInv is inductive.                                                    *)

\* What a thread finds before its step.
LEMMA Before ==
  ASSUME IndInv, HistInv, NEW t \in Thread
  PROVE  /\ TypeOK /\ WalkInv /\ HistoryTypeOK /\ Found(t)
         /\ Cur(t) \in Srun
         /\ pc[t] \in Walking \ {"connect"} => at[t].pass \in 1 .. 3
         /\ at[t].pass \in 0 .. 4
  BY ThreadFacts DEF IndInv, HistInv, WalkInv, Walking

\* The request is walked from the srun that its session names, in pass 2.
LEMMA ArriveHist ==
  ASSUME IndInv, HistInv, NEW t \in Thread, FArrive(t)
  PROVE  HistInv'
  <1>0. TypeOK /\ HistoryTypeOK
    BY Before
  <1>1. PICK s \in Session : \E h \in FirstHosts(s) :
          /\ req' = [req EXCEPT ![t] = [session |-> s, time |-> now, host |-> h]]
          /\ at' = [at EXCEPT ![t] = [pass |-> IF s < 0 THEN 1 ELSE 2, i |-> 0]]
    BY DEF FArrive, Arrive
  <1>2. PICK h \in FirstHosts(s) :
          req' = [req EXCEPT ![t] = [session |-> s, time |-> now, host |-> h]]
    BY <1>1
  <1>3. /\ s \in Int /\ (s \in Srun => h = s)
        /\ req'[t].session = s /\ req'[t].host = h /\ pc'[t] = "probe"
        /\ at'[t].pass = (IF s < 0 THEN 1 ELSE 2) /\ at'[t].i = 0
    BY <1>0, <1>1, <1>2 DEF TypeOK, FArrive, Arrive, Goto, FirstHosts
  <1>4. Found(t)'
    BY <1>3 DEF Found, Asked, Passed, Chosen, Served
  <1>5. HistoryTypeOK' /\ unusable' = unusable /\ refused' = refused
    BY <1>0 DEF HistoryTypeOK, FArrive, Up
  <1> QED BY <1>0, <1>4, <1>5, OneMoves DEF FArrive

\* The request's pool is destroyed, and its history with it.
LEMMA EndRequestHist ==
  ASSUME IndInv, HistInv, NEW t \in Thread, FEndRequest(t)
  PROVE  HistInv'
  <1>0. TypeOK /\ HistoryTypeOK
    BY Before
  <1>1. Found(t)'
    BY <1>0, QuietFound DEF FEndRequest, EndRequest, Goto, TypeOK
  <1>2. HistoryTypeOK'
    BY <1>0 DEF HistoryTypeOK, FEndRequest
  <1>3. \A u \in Thread : u # t => unusable'[u] = unusable[u] /\ refused'[u] = refused[u]
    BY <1>0 DEF HistoryTypeOK, FEndRequest
  <1> QED BY <1>0, <1>1, <1>2, <1>3, OneMoves DEF FEndRequest, Step

\* Pass 2 notes the srun that it cannot use.
LEMMA UnusableHist ==
  ASSUME IndInv, HistInv, NEW t \in Thread, FUnusable(t)
  PROVE  HistInv'
  <1>0. TypeOK /\ WalkInv /\ HistoryTypeOK /\ Found(t) /\ Cur(t) \in Srun
    BY Before
  <1>1. at[t].pass = 2 /\ pc[t] \in Walking /\ Advance(t) /\ req' = req
    BY <1>0 DEF FUnusable, SkipDead, ConnectFail, WalkInv, Walking
  <1>2. /\ unusable' = [unusable EXCEPT ![t] = @ \cup {Cur(t)}]
        /\ refused' = refused
    BY DEF FUnusable, Note
  <1>3. HistoryTypeOK'
    BY <1>0, <1>2 DEF HistoryTypeOK, FUnusable
  <1>4. Found(t)'
    <2>1. unusable'[t] = unusable[t] \cup {Cur(t)} /\ refused'[t] \subseteq Srun
      BY <1>0, <1>2 DEF HistoryTypeOK
    <2> QED BY <1>0, <1>1, <1>2, <2>1, AdvanceFound
  <1>5. \A u \in Thread : u # t => unusable'[u] = unusable[u] /\ refused'[u] = refused[u]
    BY <1>0, <1>2 DEF HistoryTypeOK
  <1> QED BY <1>0, <1>3, <1>4, <1>5, OneMoves DEF FUnusable, Step

\* Pass 3 notes the srun that refused its connection.
LEMMA RefusedHist ==
  ASSUME IndInv, HistInv, NEW t \in Thread, FRefused(t)
  PROVE  HistInv'
  <1>0. TypeOK /\ WalkInv /\ HistoryTypeOK /\ Found(t) /\ Cur(t) \in Srun
    BY Before
  <1>1. /\ at[t].pass = 3 /\ pc[t] \in Walking /\ pc'[t] = "refused"
        /\ req' = req /\ at' = at
    BY <1>0 DEF FRefused, ConnectFail, Goto, TypeOK, Walking
  <1>2. /\ refused' = [refused EXCEPT ![t] = @ \cup {Cur(t)}]
        /\ unusable' = unusable
    BY DEF FRefused, Note
  <1>3. HistoryTypeOK'
    BY <1>0, <1>2 DEF HistoryTypeOK, FRefused
  <1>4. Found(t)'
    <2>1. refused'[t] = refused[t] \cup {Cur(t)} /\ Cur(t)' = Cur(t)
      BY <1>0, <1>1, <1>2 DEF HistoryTypeOK, Cur
    <2>2. Asked(t)' /\ Passed(t)'
      BY <1>0, <1>1, <1>2, <2>1 DEF Found, Asked, Passed, Tried
    <2>3. Chosen(t)' /\ Served(t)'
      BY <1>1, <2>1 DEF Chosen, Served
    <2> QED BY <2>2, <2>3 DEF Found
  <1>5. \A u \in Thread : u # t => unusable'[u] = unusable[u] /\ refused'[u] = refused[u]
    BY <1>0, <1>2 DEF HistoryTypeOK
  <1> QED BY <1>0, <1>3, <1>4, <1>5, OneMoves DEF FRefused, Step

\* The request is answered, or fails: it is out of the loops.
LEMMA AnswerHist ==
  ASSUME IndInv, HistInv, NEW t \in Thread, FAnswer(t)
  PROVE  HistInv'
  <1>0. TypeOK /\ HistoryTypeOK
    BY Before
  <1>1. \/ ExchangeEnd(t) \/ ExchangeClose(t) \/ ExchangeLost(t)
        \/ ConnectionError(t)
    BY DEF FAnswer
  <1>2. Found(t)'
    BY <1>0, <1>1, QuietFound DEF ExchangeEnd, ExchangeClose, ExchangeLost,
       ConnectionError, Goto, TypeOK
  <1>3. HistoryTypeOK' /\ unusable' = unusable /\ refused' = refused
    BY <1>0 DEF HistoryTypeOK, FAnswer
  <1> QED BY <1>0, <1>1, <1>2, <1>3, OneMoves DEF Step

\* The steps that a request's history does not record.
LEMMA OtherHist ==
  ASSUME IndInv, HistInv, NEW t \in Thread, FOther(t)
  PROVE  HistInv'
  <1>0. /\ TypeOK /\ WalkInv /\ HistoryTypeOK /\ Found(t) /\ Cur(t) \in Srun
        /\ pc[t] \in Walking \ {"connect"} => at[t].pass \in 1 .. 3
    BY Before
  <1>u. UNCHANGED history
    BY DEF FOther
  <1>h. /\ HistoryTypeOK' /\ unusable' = unusable /\ refused' = refused
        /\ unusable'[t] = unusable[t] /\ refused'[t] = refused[t]
        /\ refused'[t] \subseteq Srun
    BY <1>0, <1>u DEF HistoryTypeOK, history
  <1>1. CASE ArriveStatus(t)
    <2>1. pc'[t] = "connect" /\ at'[t].pass = 0
      BY <1>0, <1>1, RecordTypes DEF ArriveStatus, Goto, TypeOK
    <2> QED BY <1>0, <1>1, <1>h, <2>1, QuietFound, OneMoves
  <1>2. CASE SkipBackup(t)
    <2>1. /\ pc[t] \in Walking /\ at[t].pass \in {1, 2} /\ Advance(t)
          /\ req' = req /\ req[t].session < 0 /\ IsBackup[Cur(t)]
      BY <1>2 DEF SkipBackup, LeaveOut, Walking
    <2>2. Found(t)'
      BY <1>0, <1>h, <2>1, AdvanceFound
    <2> QED BY <1>0, <1>2, <1>h, <2>2, OneMoves DEF Step
  <1>3. CASE ReuseEnter(t)
    <2>1. Found(t)'
      <3>1. CASE n_sockets[Cur(t)] > 0
        <4>1. /\ pc[t] \in Walking /\ pc'[t] \in {"reuse", "expire"}
              /\ ~LeaveOut(t) /\ at' = at /\ req' = req
          BY <1>0, <1>3, <3>1 DEF ReuseEnter, Goto, TypeOK, Walking
        <4> QED BY <1>0, <1>h, <4>1, SameSrunFound DEF Walking
      <3>2. CASE n_sockets[Cur(t)] = 0
        <4>1. /\ pc[t] = "probe" /\ ~LeaveOut(t) /\ Missed(t)
              /\ UNCHANGED <<req, srun>>
          BY <1>3, <3>2 DEF ReuseEnter, stream
        <4> QED BY <1>0, <1>u, <4>1, MissedFound DEF Walking
      <3> QED BY <1>3, <3>1, <3>2 DEF ReuseEnter
    <2> QED BY <1>0, <1>3, <1>h, <2>1, OneMoves DEF Step
  <1>4. CASE Reuse(t)
    <2>1. /\ pc[t] \in Walking /\ at[t].pass \in 1 .. 3 /\ ~LeaveOut(t)
          /\ pc'[t] = "exchange" /\ srun'[t] = Cur(t) /\ req' = req
      BY <1>0, <1>4 DEF Reuse, Goto, TypeOK, Walking, Found, Chosen
    <2>2. Found(t)'
      BY <1>0, <1>h, <2>1, ServedFound
    <2> QED BY <1>0, <1>4, <1>h, <2>2, OneMoves DEF Step
  <1>5. CASE Expire(t)
    <2>1. /\ pc[t] = "expire" /\ ~LeaveOut(t) /\ Missed(t)
          /\ UNCHANGED <<req, srun>>
      BY <1>0, <1>5 DEF Expire, stream, Found, Chosen
    <2>2. Found(t)'
      BY <1>0, <1>u, <2>1, MissedFound DEF Walking
    <2> QED BY <1>0, <1>5, <1>h, <2>2, OneMoves DEF Step
  <1>6. CASE TryAlive(t)
    <2>1. /\ pc[t] \in Walking /\ pc'[t] = "connect"
          /\ ~LeaveOut(t) /\ at' = at /\ req' = req
      BY <1>0, <1>6 DEF TryAlive, Goto, TypeOK, Walking, Found, Chosen
    <2>2. Found(t)'
      BY <1>0, <1>h, <2>1, SameSrunFound DEF Walking
    <2> QED BY <1>0, <1>6, <1>h, <2>2, OneMoves DEF Step
  <1>7. CASE ConnectOk(t)
    <2>1. Found(t)'
      <3>1. CASE at[t].pass = 0
        BY <1>0, <1>7, <3>1, QuietFound DEF ConnectOk, Goto, TypeOK
      <3>2. CASE at[t].pass # 0
        <4>1. /\ pc[t] = "connect" /\ pc'[t] = "connected" /\ ~LeaveOut(t)
              /\ srun'[t] = Cur(t) /\ at' = at /\ req' = req
          BY <1>0, <1>7, <3>2 DEF ConnectOk, Goto, TypeOK, Found, Chosen
        <4>2. Asked(t)' /\ Passed(t)'
          BY <1>0, <1>h, <4>1 DEF Found, Asked, Passed, Tried, Walking
        <4>3. Chosen(t)' /\ Served(t)'
          BY <4>1 DEF Chosen, Served, LeaveOut, Cur
        <4> QED BY <4>2, <4>3 DEF Found
      <3> QED BY <3>1, <3>2
    <2> QED BY <1>0, <1>7, <1>h, <2>1, OneMoves DEF Step
  <1>8. CASE MarkAlive(t)
    <2>1. /\ pc[t] \in Walking /\ at[t].pass \in 1 .. 3 /\ ~LeaveOut(t)
          /\ pc'[t] = "exchange" /\ srun'[t] = Cur(t) /\ req' = req
      BY <1>0, <1>8 DEF MarkAlive, Goto, TypeOK, Walking, Found, Chosen
    <2>2. Found(t)'
      BY <1>0, <1>h, <2>1, ServedFound
    <2> QED BY <1>0, <1>8, <1>h, <2>2, OneMoves DEF Step
  <1>9. CASE MarkDead(t)
    <2>1. /\ pc[t] \in Walking /\ at[t].pass = 3 /\ Advance(t) /\ req' = req
          /\ Cur(t) \in refused[t]
      BY <1>0, <1>9 DEF MarkDead, WalkInv, Walking, Found, Chosen
    <2>2. Found(t)'
      BY <1>0, <1>h, <2>1, AdvanceFound
    <2> QED BY <1>0, <1>9, <1>h, <2>2, OneMoves DEF Step
  <1>10. CASE Close(t) \/ RecycleEnter(t) \/ ExchangeLost(t)
    <2>1. pc'[t] \in {"end", "push", "close"}
      BY <1>0, <1>10 DEF Close, RecycleEnter, ExchangeLost, Goto, TypeOK
    <2> QED BY <1>0, <1>10, <1>h, <2>1, QuietFound, OneMoves DEF Step
  <1>11. CASE RecycleClose(t) \/ Push(t)
    <2>1. AfterRecycle(t) /\ at[t].pass \in {0, 4}
      BY <1>0, <1>11 DEF RecycleClose, Push, WalkInv
    <2> QED BY <1>0, <1>11, <1>h, <2>1, AfterRecycleMoves, QuietFound, OneMoves
            DEF Step
  <1>12. CASE ConnectFail(t) /\ at[t].pass = 0
    <2>1. pc'[t] = "recycle"
      BY <1>0, <1>12 DEF ConnectFail, Goto, TypeOK
    <2> QED BY <1>0, <1>12, <1>h, <2>1, QuietFound, OneMoves DEF Step
  <1> QED BY <1>1, <1>2, <1>3, <1>4, <1>5, <1>6, <1>7, <1>8, <1>9, <1>10,
             <1>11, <1>12 DEF FOther

\* A step of the surroundings leaves every thread where it is.
LEMMA SurroundingsHist ==
  ASSUME HistInv, HistoryTypeOK',
         UNCHANGED <<pc, at, req, srun, unusable, refused>>
  PROVE  HistInv'
  BY FoundFrame DEF HistInv

\* HistInv is inductive, relative to the invariant of SrunPool.
LEMMA HistNext ==
  ASSUME IndInv, HistInv, [FNext]_fvars
  PROVE  HistInv'
  <1>0. HistoryTypeOK
    BY DEF HistInv
  <1>1. ASSUME NEW t \in Thread,
               \/ FArrive(t) \/ FEndRequest(t) \/ FUnusable(t) \/ FRefused(t)
               \/ FAnswer(t) \/ FOther(t)
        PROVE  HistInv'
    BY <1>1, ArriveHist, EndRequestHist, UnusableHist, RefusedHist, AnswerHist,
       OtherHist
  <1>2. ASSUME NEW i \in Srun, FJvm(i) PROVE HistInv'
    <2>1. UNCHANGED <<pc, at, req, srun, unusable, refused>>
      BY <1>2 DEF FJvm, JvmStart, JvmStop, stream
    <2>2. HistoryTypeOK'
      BY <1>0, <1>2 DEF FJvm, HistoryTypeOK
    <2> QED BY <2>1, <2>2, SurroundingsHist
  <1>3. CASE FEnvironment \/ UNCHANGED fvars
    <2>1. UNCHANGED <<pc, at, req, srun, history>>
      BY <1>3 DEF FEnvironment, CloseChild, OpenChild, Clock, JvmDrop, stream,
         fvars, vars
    <2>2. HistoryTypeOK'
      BY <1>0, <2>1 DEF HistoryTypeOK, history
    <2> QED BY <2>1, <2>2, SurroundingsHist DEF history
  <1> QED BY <1>1, <1>2, <1>3 DEF FNext

\* A child that has just started has no history.
LEMMA HistInit == FInit => HistInv
  <1> SUFFICES ASSUME FInit PROVE HistInv
    OBVIOUS
  <1>1. HistoryTypeOK
    BY DEF FInit, HistoryTypeOK
  <1>2. \A t \in Thread : Found(t)
    BY DEF FInit, Init, Found, Asked, Passed, Chosen, Served, Walking
  <1> QED BY <1>1, <1>2 DEF HistInv

\* SrunPool's invariant and that of the walk hold in every state.
THEOREM FailoverInductive == FSpec => [](IndInv /\ HistInv)
  <1>1. FInit => IndInv /\ HistInv
    BY HistInit, HistoryRestrictsNothing, InitInd
  <1>2. IndInv /\ HistInv /\ [FNext]_fvars => (IndInv /\ HistInv)'
    BY HistNext, HistoryRestrictsNothing, NextInd
  <1> QED BY <1>1, <1>2, PTL DEF FSpec

\* A backup takes a request without a session only after every primary was
\* found unusable by this request.
THEOREM BackupsAreLast == FSpec => []BackupLast
  <1>1. IndInv /\ HistInv => BackupLast
    BY DEF HistInv, Found, Served, BackupLast, Serving
  <1> QED BY <1>1, FailoverInductive, PTL

\* A session leaves its JVM only when this request found that JVM unusable.
THEOREM SessionsStick == FSpec => []Sticky
  <1>1. IndInv /\ HistInv => Sticky
    BY DEF HistInv, Found, Served, Sticky, Serving
  <1> QED BY <1>1, FailoverInductive, PTL

-----------------------------------------------------------------------------
(* While there are descriptors, a JVM that is up refuses nobody.            *)

\* A thread that is about to connect has no connection, so the others and the
\* pools leave it a descriptor.
LEMMA DescriptorLeft ==
  ASSUME IndInv, EnoughDescriptors, NEW t \in Thread, pc[t] = "connect"
  PROVE  Closed # {}
  <1> DEFINE Slot == 0 .. MaxSockets - 1
             InSlot == {f \in Fd : \E i \in Srun : \E k \in InUse(i) : sockets[i][k] = f}
             InStream == {f \in Fd : \E u \in Thread \ {t} : socket[u] = f}
  <1>0. TypeOK /\ OpenIffOwned /\ socket[t] = None
    BY DEF IndInv, Ownership, StreamInv, Unconnected
  <1>1. IsFiniteSet(InSlot) /\ Cardinality(InSlot) <= SrunSize * MaxSockets
    <2> DEFINE Place == Srun \X Slot
               g == [s \in Place |-> sockets[s[1]][s[2]]]
    <2>1. /\ IsFiniteSet(Srun) /\ Cardinality(Srun) = SrunSize
          /\ IsFiniteSet(Slot) /\ Cardinality(Slot) = MaxSockets
      BY FS_Interval DEF Srun
    <2>2. IsFiniteSet(Place) /\ Cardinality(Place) = SrunSize * MaxSockets
      BY <2>1, FS_Product
    <2>3. g \in [Place -> Fd \cup {None}]
      BY <1>0 DEF TypeOK
    <2>4. \A f \in InSlot : \E s \in Place : g[s] = f
      <3> SUFFICES ASSUME NEW f \in InSlot PROVE \E s \in Place : g[s] = f
        OBVIOUS
      <3>1. PICK i \in Srun : \E k \in InUse(i) : sockets[i][k] = f
        OBVIOUS
      <3>2. PICK k \in InUse(i) : sockets[i][k] = f
        BY <3>1
      <3>3. k \in Slot
        BY <1>0 DEF InUse, TypeOK
      <3>4. <<i, k>> \in Place /\ g[<<i, k>>] = f
        BY <3>2, <3>3
      <3> QED BY <3>4
    <2> HIDE DEF g, Place, InSlot
    <2>5. IsFiniteSet(InSlot) /\ Cardinality(InSlot) <= Cardinality(Place)
      BY <2>2, <2>3, <2>4, ReachBound
    <2> QED BY <2>2, <2>5
  <1>2. IsFiniteSet(InStream) /\ Cardinality(InStream) <= Cardinality(Thread) - 1
    <2> DEFINE g == [u \in Thread \ {t} |-> socket[u]]
    <2>1. /\ IsFiniteSet(Thread \ {t})
          /\ Cardinality(Thread \ {t}) = Cardinality(Thread) - 1
      BY FS_RemoveElement DEF EnoughDescriptors
    <2>2. g \in [Thread \ {t} -> Fd \cup {None}]
      BY <1>0 DEF TypeOK
    <2>3. \A f \in InStream : \E u \in Thread \ {t} : g[u] = f
      OBVIOUS
    <2> HIDE DEF g, InStream
    <2>4. /\ IsFiniteSet(InStream)
          /\ Cardinality(InStream) <= Cardinality(Thread \ {t})
      BY <2>1, <2>2, <2>3, ReachBound
    <2> QED BY <2>1, <2>4
  <1>3. SUFFICES ASSUME Closed = {} PROVE FALSE
    OBVIOUS
  <1>4. Fd = InSlot \cup InStream
    <2>1. ASSUME NEW f \in Fd PROVE f \in InSlot \cup InStream
      <3>1. conn[f] # None
        BY <1>3 DEF Closed
      <3>2. CASE \E i \in Srun : \E k \in InUse(i) : sockets[i][k] = f
        BY <3>2
      <3>3. CASE \E u \in Thread : socket[u] = f
        BY <1>0, <3>3
      <3> QED BY <1>0, <3>1, <3>2, <3>3 DEF OpenIffOwned
    <2> QED BY <2>1
  <1> HIDE DEF InSlot, InStream
  <1>5. /\ Cardinality(Fd) = Cardinality(InSlot) + Cardinality(InStream)
                             - Cardinality(InSlot \cap InStream)
        /\ IsFiniteSet(InSlot \cap InStream)
    BY <1>1, <1>2, <1>4, FS_Union, FS_Intersection
  <1>6. /\ Cardinality(InSlot \cap InStream) \in Nat
        /\ Cardinality(InSlot) \in Nat /\ Cardinality(InStream) \in Nat
        /\ Cardinality(Thread) \in Nat /\ Cardinality(Fd) \in Nat
    BY <1>1, <1>2, <1>5, FS_CardinalityType DEF EnoughDescriptors
  <1>7. SrunSize * MaxSockets \in Nat
    OBVIOUS
  <1> QED BY <1>1, <1>2, <1>5, <1>6, <1>7 DEF EnoughDescriptors

\* Only the end of a request makes a thread idle.
LEMMA BusyUntilEnd ==
  ASSUME TypeOK, WalkInv, NEW t \in Thread,
         \/ Arrive(t) \/ ArriveStatus(t)
         \/ Step(t) /\ ~(pc[t] = "end")
  PROVE  pc'[t] # "idle"
  <1>m. ASSUME Advance(t) PROVE pc'[t] # "idle"
    BY <1>m DEF Advance, Goto, TypeOK
  <1>1. CASE Arrive(t) \/ ArriveStatus(t)
    BY <1>1 DEF Arrive, ArriveStatus, Goto, TypeOK
  <1>2. CASE SkipBackup(t) \/ ReuseEnter(t) \/ Reuse(t) \/ Expire(t)
    BY <1>2, <1>m DEF SkipBackup, ReuseEnter, Reuse, Expire, Missed, Goto, TypeOK
  <1>3. CASE \/ SkipDead(t) \/ TryAlive(t) \/ ConnectOk(t) \/ ConnectFail(t)
             \/ MarkAlive(t) \/ MarkDead(t) \/ ConnectionError(t)
    BY <1>3, <1>m DEF SkipDead, TryAlive, ConnectOk, ConnectFail, MarkAlive,
       MarkDead, ConnectionError, Goto, TypeOK
  <1>4. CASE ExchangeEnd(t) \/ ExchangeClose(t) \/ ExchangeLost(t) \/ Close(t)
    BY <1>4 DEF ExchangeEnd, ExchangeClose, ExchangeLost, Close, Goto, TypeOK
  <1>5. CASE RecycleEnter(t)
    BY <1>5 DEF RecycleEnter, Goto, TypeOK
  <1>6. CASE RecycleClose(t) \/ Push(t)
    BY <1>6, AfterRecycleMoves DEF RecycleClose, Push, WalkInv
  <1>7. CASE EndRequest(t)
    BY <1>7, <1>1 DEF EndRequest
  <1> QED BY <1>1, <1>2, <1>3, <1>4, <1>5, <1>6, <1>7 DEF Step

\* A thread that neither starts nor ends a request, and the JVMs, leave the
\* rest of UpInv alone.
LEMMA UpFrame ==
  ASSUME TypeOK, WalkInv, UpInv, NEW t \in Thread,
         ArriveStatus(t) \/ (Step(t) /\ pc[t] # "end"),
         UNCHANGED <<jvmUp, refused, stayedUp>>
  PROVE  UpInv'
  <1>1. \A u \in Thread : pc'[u] = "idle" => pc[u] = "idle"
    <2> SUFFICES ASSUME NEW u \in Thread, pc'[u] = "idle" PROVE pc[u] = "idle"
      OBVIOUS
    <2>1. u # t
      BY BusyUntilEnd
    <2> QED BY <2>1, OthersStay
  <1> QED BY <1>1 DEF UpInv, Up

\* UpInv is inductive while there are descriptors.
LEMMA UpNext ==
  ASSUME EnoughDescriptors, IndInv, HistInv, UpInv, [FNext]_fvars
  PROVE  UpInv'
  <1>0. TypeOK /\ WalkInv /\ HistoryTypeOK
    BY DEF IndInv, HistInv
  <1>1. ASSUME NEW t \in Thread, FArrive(t) PROVE UpInv'
    <2>1. /\ pc[t] = "idle" /\ refused' = refused /\ jvmUp' = jvmUp
          /\ stayedUp' = [stayedUp EXCEPT ![t] = Up]
      BY <1>1 DEF FArrive, Arrive, world
    <2>2. \A u \in Thread : pc'[u] = "idle" => pc[u] = "idle"
      BY <1>0, <1>1, <2>1, OthersStay DEF FArrive
    <2> QED BY <1>0, <2>1, <2>2 DEF UpInv, Up, HistoryTypeOK
  <1>2. ASSUME NEW t \in Thread, FEndRequest(t) PROVE UpInv'
    <2>1. /\ refused' = [refused EXCEPT ![t] = {}] /\ jvmUp' = jvmUp
          /\ stayedUp' = [stayedUp EXCEPT ![t] = {}]
      BY <1>2 DEF FEndRequest, EndRequest, world
    <2>2. \A u \in Thread : u # t => pc'[u] = pc[u]
      BY <1>0, <1>2, OthersStay DEF FEndRequest, Step
    <2> QED BY <1>0, <2>1, <2>2 DEF UpInv, Up, HistoryTypeOK
  <1>3. ASSUME NEW t \in Thread, FUnusable(t) PROVE UpInv'
    <2>1. /\ SkipDead(t) \/ ConnectFail(t)
          /\ pc[t] \in {"check", "connect"}
          /\ UNCHANGED <<jvmUp, refused, stayedUp>>
      BY <1>3 DEF FUnusable, SkipDead, ConnectFail, world
    <2> QED BY <1>0, <2>1, UpFrame DEF Step
  <1>4. ASSUME NEW t \in Thread, FRefused(t) PROVE UpInv'
    <2>1. /\ ConnectFail(t) /\ pc[t] = "connect" /\ at[t].pass = 3
          /\ jvmUp' = jvmUp /\ stayedUp' = stayedUp /\ pc'[t] = "refused"
          /\ refused' = [refused EXCEPT ![t] = @ \cup {Cur(t)}]
      BY <1>0, <1>4 DEF FRefused, ConnectFail, Note, Goto, TypeOK, world
    <2>2. Cur(t) \notin Up
      BY <2>1, DescriptorLeft DEF ConnectFail, Waits, Up
    <2>3. \A u \in Thread : u # t => pc'[u] = pc[u]
      BY <1>0, <2>1, OthersStay DEF Step
    <2> QED BY <1>0, <2>1, <2>2, <2>3 DEF UpInv, Up, HistoryTypeOK
  <1>5. ASSUME NEW t \in Thread, FAnswer(t) PROVE UpInv'
    <2>1. /\ Step(t) /\ pc[t] # "end"
          /\ UNCHANGED <<jvmUp, refused, stayedUp>>
      BY <1>5 DEF FAnswer, Step, ExchangeEnd, ExchangeClose, ExchangeLost,
         ConnectionError, world
    <2> QED BY <1>0, <2>1, UpFrame
  <1>6. ASSUME NEW t \in Thread, FOther(t) PROVE UpInv'
    <2>1. UNCHANGED <<refused, stayedUp>>
      BY <1>6 DEF FOther, history
    <2>2. CASE ArriveStatus(t)
      BY <1>0, <2>1, <2>2, UpFrame DEF ArriveStatus, world
    <2>3. CASE \/ SkipBackup(t) \/ ReuseEnter(t) \/ Reuse(t)
               \/ Expire(t) \/ TryAlive(t) \/ ConnectOk(t) \/ MarkAlive(t)
               \/ MarkDead(t) \/ ConnectFail(t)
      <3>1. Step(t) /\ pc[t] # "end" /\ jvmUp' = jvmUp
        BY <2>3 DEF Step, SkipBackup, ReuseEnter, Reuse, Expire, TryAlive,
           ConnectOk, MarkAlive, MarkDead, ConnectFail, world
      <3> QED BY <1>0, <2>1, <3>1, UpFrame
    <2>4. CASE \/ Close(t) \/ RecycleEnter(t) \/ RecycleClose(t) \/ Push(t)
               \/ ExchangeLost(t)
      <3>1. Step(t) /\ pc[t] # "end" /\ jvmUp' = jvmUp
        BY <2>4 DEF Step, Close, RecycleEnter, RecycleClose, Push,
           ExchangeLost, world
      <3> QED BY <1>0, <2>1, <3>1, UpFrame
    <2> QED BY <1>6, <2>2, <2>3, <2>4 DEF FOther
  <1>7. ASSUME NEW i \in Srun, FJvm(i) PROVE UpInv'
    <2>1. pc' = pc /\ refused' = refused
      BY <1>7 DEF FJvm, JvmStart, JvmStop
    <2>2. CASE JvmStart(i) /\ stayedUp' = stayedUp
      BY <1>0, <2>1, <2>2 DEF UpInv, Up, JvmStart, TypeOK
    <2>3. CASE JvmStop(i) /\ stayedUp' = [t \in Thread |-> stayedUp[t] \ {i}]
      BY <1>0, <2>1, <2>3 DEF UpInv, Up, JvmStop, TypeOK
    <2> QED BY <1>7, <2>2, <2>3 DEF FJvm
  <1>8. CASE FEnvironment \/ UNCHANGED fvars
    <2>1. UNCHANGED <<pc, jvmUp, refused, stayedUp>>
      BY <1>8 DEF FEnvironment, CloseChild, OpenChild, Clock, JvmDrop, world,
         history, fvars, vars
    <2> QED BY <2>1 DEF UpInv, Up
  <1> QED BY <1>1, <1>2, <1>3, <1>4, <1>5, <1>6, <1>7, <1>8 DEF FNext

\* With descriptors for full pools and every thread, the "cannot connect" page
\* means that every JVM refused, and that none was up all the time.
THEOREM UnreachableIsDown ==
  ASSUME EnoughDescriptors
  PROVE  FSpec => []UnreachableMeansDown
  <1>1. FInit => UpInv
    BY DEF FInit, UpInv
  <1>2. IndInv /\ HistInv /\ UpInv /\ [FNext]_fvars => UpInv'
    BY UpNext
  <1>3. IndInv /\ HistInv /\ UpInv => UnreachableMeansDown
    BY DEF HistInv, HistoryTypeOK, Found, Served, UpInv, UnreachableMeansDown
  <1> QED BY <1>1, <1>2, <1>3, FailoverInductive, PTL DEF FSpec

-----------------------------------------------------------------------------
(* The marks of dead sruns, in a child with one thread.                     *)

\* A thread enters the control points of TimeInv after cse_reuse_socket's
\* test, and stays there with the same srun.
LEMMA TimeNext ==
  ASSUME OneThread, IndInv, TimeInv, [Next]_vars
  PROVE  TimeInv'
  <1> SUFFICES ASSUME NEW t \in Thread, pc'[t] \in {"expire", "check"}
               PROVE  last_time'[Cur(t)'] <= req'[t].time
    BY DEF TimeInv
  <1>0. /\ TypeOK /\ WalkInv /\ Cur(t) \in Srun /\ req[t].time \in Nat
        /\ last_time[Cur(t)] \in Nat /\ \A u \in Thread : u = t
    BY ThreadFacts DEF IndInv, TypeOK, OneThread
  <1>1. CASE ReuseEnter(t)
    <2>1. last_time'[Cur(t)] <= req[t].time
      BY <1>0, <1>1 DEF ReuseEnter, Clamped, TypeOK
    <2>2. at[t].pass = 1 /\ n_sockets[Cur(t)] = 0 => pc'[t] \in {"probe", "giveup"}
      BY <1>0, <1>1 DEF ReuseEnter, Missed, Advance, Goto, TypeOK
    <2>3. req' = req /\ at' = at
      BY <1>0, <1>1, <2>2 DEF ReuseEnter, Missed, TypeOK
    <2> QED BY <2>1, <2>3, CurFrame
  <1>2. CASE Expire(t)
    <2>1. /\ pc[t] = "expire" /\ last_time' = last_time /\ req' = req
          /\ Missed(t)
      BY <1>2 DEF Expire, flags
    <2>2. at[t].pass = 1 => pc'[t] \in {"probe", "giveup"}
      BY <1>0, <2>1 DEF Missed, Advance, Goto, TypeOK
    <2>3. at' = at
      BY <2>1, <2>2 DEF Missed
    <2> QED BY <2>1, <2>3, CurFrame DEF TimeInv
  <1>3. CASE \/ Arrive(t) \/ ArriveStatus(t) \/ SkipBackup(t) \/ Reuse(t)
             \/ SkipDead(t) \/ TryAlive(t) \/ ConnectOk(t) \/ ConnectFail(t)
             \/ MarkAlive(t) \/ MarkDead(t) \/ ConnectionError(t)
    BY <1>0, <1>3 DEF Arrive, ArriveStatus, SkipBackup, Reuse, SkipDead,
       TryAlive, ConnectOk, ConnectFail, MarkAlive, MarkDead, ConnectionError,
       Advance, Goto, TypeOK
  <1>4. CASE \/ ExchangeEnd(t) \/ ExchangeClose(t) \/ ExchangeLost(t)
             \/ Close(t) \/ RecycleEnter(t) \/ RecycleClose(t) \/ Push(t)
             \/ EndRequest(t)
    BY <1>0, <1>4 DEF ExchangeEnd, ExchangeClose, ExchangeLost, Close,
       RecycleEnter, RecycleClose, Push, EndRequest, AfterRecycle,
       AdvanceStatus, Goto, TypeOK
  <1>5. CASE CloseChild \/ OpenChild
    BY <1>5 DEF CloseChild, OpenChild, IndInv, ChildInv
  <1>6. CASE \/ Clock \/ (\E f \in Fd : JvmDrop(f)) \/ UNCHANGED vars
             \/ (\E i \in Srun : JvmStart(i) \/ JvmStop(i))
    <2>1. pc' = pc /\ last_time' = last_time /\ req' = req /\ at' = at
      BY <1>6 DEF Clock, JvmDrop, JvmStart, JvmStop, flags, vars
    <2> QED BY <2>1, CurFrame DEF TimeInv
  <1> QED BY <1>0, <1>1, <1>2, <1>3, <1>4, <1>5, <1>6 DEF Next, Step, Environment

\* In a child with one thread an srun is skipped as dead for at most
\* dead_time, however the clock is set.
THEOREM DeadMarksExpire ==
  ASSUME OneThread
  PROVE  FSpec => []DeadNotForLong
  <1>1. FInit => TimeInv
    BY DEF FInit, Init, TimeInv
  <1>2. IndInv /\ TimeInv /\ [FNext]_fvars => TimeInv'
    BY TimeNext, HistoryRestrictsNothing
  <1>3. IndInv /\ TimeInv => DeadNotForLong
    <2> SUFFICES ASSUME IndInv, TimeInv, NEW t \in Thread, pc[t] = "check",
                        ThinksDead(t)
                 PROVE  req[t].time - last_time[Cur(t)] \in 0 .. DeadTime
      BY DEF DeadNotForLong
    <2>1. req[t].time \in Nat /\ last_time[Cur(t)] \in Nat
      BY ThreadFacts DEF IndInv, TypeOK
    <2> QED BY <2>1 DEF TimeInv, ThinksDead
  <1> QED BY <1>1, <1>2, <1>3, FailoverInductive, PTL DEF FSpec

=============================================================================
