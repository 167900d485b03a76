------------------------------- MODULE SrunPool -------------------------------
(***************************************************************************)
(* The worker threads of one Apache child and the srun connections they    *)
(* share: open_connection, cse_reuse_socket, cse_recycle and cse_open of   *)
(* src/srun/stream.c; caucho_request, jvm_status, cse_open_child and       *)
(* cse_close_child of src/srun/mod_caucho.c.                               *)
(*                                                                         *)
(* Every step is at most one access to state that other threads see.  What *)
(* config->lock protects takes two steps, the test and the update, so that *)
(* an invariant that holds owes it to the lock.  What is sent and received *)
(* over a connection is one of three outcomes here.                        *)
(***************************************************************************)
EXTENDS HostOrder

CONSTANTS
  Thread,       \* worker threads of the child (one on Unix and OS/2)
  Fd,           \* descriptors the process can have open for sruns
  IsBackup,     \* srun->is_backup
  Session,      \* session indices that requests carry, -1 for no session
  MaxSockets,   \* srun->max_sockets
  LiveTime,     \* srun->live_time
  DeadTime,     \* srun->dead_time
  MaxTime,      \* bound on the clock
  Locked,       \* config->lock is a mutex (cse_create_lock on WIN32)
  None          \* no thread, no descriptor, no srun

ASSUME PoolAssumption ==
  /\ IsBackup \in [Srun -> BOOLEAN]
  /\ Session \subseteq Int
  /\ MaxSockets \in Nat \ {0}
  /\ LiveTime \in Nat /\ DeadTime \in Nat /\ MaxTime \in Nat
  /\ None \notin Thread /\ None \notin Fd /\ None \notin Srun
  /\ Thread \cap Srun = {}

\* Without a mutex the child has one thread: the module is thread safe only
\* where cse_create_lock made a lock.
ASSUME LockAssumption ==
  /\ Locked \in BOOLEAN
  /\ Locked \/ \A t, u \in Thread : t = u

VARIABLES
  now,          \* the clock that r->request_time is read from
  alive,        \* the child is between cse_open_child and cse_close_child
  jvmUp,        \* jvmUp[i]: the JVM of srun i accepts connections
  conn,         \* conn[f]: the srun that descriptor f is connected to, None
                \*   when f is closed
  live,         \* open descriptors whose other end is still connected
  sockets,      \* sockets[i][k]: srun->sockets; what the code leaves in the
                \*   slots from n_sockets on is never read, None here
  n_sockets,    \* srun->n_sockets
  is_dead,      \* srun->is_dead
  last_time,    \* srun->last_time
  lock,         \* holder of config->lock, or None
  pc,           \* control point of a thread
  at,           \* pass and iteration of open_connection's loops, or of
                \*   jvm_status's loop (pass 0)
  req,          \* session_index, request_time and host of a request
  socket,       \* s->socket, None for -1
  srun,         \* s->srun
  cleanup       \* descriptors that r->pool closes when it is destroyed

world == <<now, jvmUp>>
kernel == <<conn, live>>
flags == <<is_dead, last_time>>
slots == <<sockets, n_sockets>>
stream == <<socket, srun, cleanup>>
vars == <<now, alive, jvmUp, conn, live, sockets, n_sockets, is_dead,
          last_time, lock, pc, at, req, socket, srun, cleanup>>

InPool == {"reuse", "expire", "push"}       \* control points inside the lock
PC == InPool \cup
      {"idle", "probe", "check", "connect", "connected", "refused", "giveup",
       "exchange", "recycle", "close", "end"}

At == [pass : 0 .. 4, i : 0 .. SrunSize]
Request == [session : Int, time : Nat, host : Srun]

NoAt == [pass |-> 0, i |-> 0]
Returned == [pass |-> 4, i |-> 0]           \* open_connection has returned
NoRequest == [session |-> -1, time |-> 0, host |-> 0]
Empty == [k \in 0 .. MaxSockets - 1 |-> None]

\* The variables have their types; the pool never holds more than max_sockets.
TypeOK ==
  /\ now \in Nat
  /\ alive \in BOOLEAN
  /\ jvmUp \in [Srun -> BOOLEAN]
  /\ conn \in [Fd -> Srun \cup {None}]
  /\ live \subseteq Fd
  /\ sockets \in [Srun -> [0 .. MaxSockets - 1 -> Fd \cup {None}]]
  /\ n_sockets \in [Srun -> 0 .. MaxSockets]
  /\ is_dead \in [Srun -> BOOLEAN]
  /\ last_time \in [Srun -> Nat]
  /\ lock \in Thread \cup {None}
  /\ pc \in [Thread -> PC]
  /\ at \in [Thread -> At]
  /\ req \in [Thread -> Request]
  /\ socket \in [Thread -> Fd \cup {None}]
  /\ srun \in [Thread -> Srun \cup {None}]
  /\ cleanup \in [Thread -> SUBSET Fd]

-----------------------------------------------------------------------------
(* cse_open_child: the srun structures of a child that starts.              *)
Init ==
  /\ now = 0
  /\ alive = TRUE
  /\ jvmUp \in [Srun -> BOOLEAN]
  /\ conn = [f \in Fd |-> None]
  /\ live = {}
  /\ sockets = [i \in Srun |-> Empty]
  /\ n_sockets = [i \in Srun |-> 0]
  /\ is_dead = [i \in Srun |-> FALSE]
  /\ last_time = [i \in Srun |-> 0]
  /\ lock = None
  /\ pc = [t \in Thread |-> "idle"]
  /\ at = [t \in Thread |-> NoAt]
  /\ req = [t \in Thread |-> NoRequest]
  /\ socket = [t \in Thread |-> None]
  /\ srun = [t \in Thread |-> None]
  /\ cleanup = [t \in Thread |-> {}]

Goto(t, label) == pc' = [pc EXCEPT ![t] = label]

LockFree == Locked => lock = None
Acquire(t) == lock' = IF Locked THEN t ELSE lock
Release == lock' = None

\* The srun that thread t is at.
Cur(t) == IF at[t].pass = 0 THEN at[t].i ELSE Probe(req[t].host, at[t].i)

\* Variant of NextAt: each loop ends one srun too early.
NextAtShort(a) == IF a.i + 2 < SrunSize THEN [a EXCEPT !.i = a.i + 1]
                                        ELSE [pass |-> a.pass + 1, i |-> 0]

\* End of a loop body: the next srun, else the next pass, else "return 0".
NextAt(a) == IF a.i + 1 < SrunSize THEN [a EXCEPT !.i = a.i + 1]
                                   ELSE [pass |-> a.pass + 1, i |-> 0]

Advance(t) ==
  /\ at' = [at EXCEPT ![t] = NextAt(at[t])]
  /\ Goto(t, IF NextAt(at[t]).pass = 4 THEN "giveup" ELSE "probe")

\* End of jvm_status's loop body.
AdvanceStatus(t) ==
  /\ at' = [at EXCEPT ![t] = NextAt(at[t])]
  /\ Goto(t, IF NextAt(at[t]).pass = 1 THEN "end" ELSE "connect")

\* After cse_recycle: the request is over, the status page goes on.
AfterRecycle(t) ==
  IF at[t].pass = 0 THEN AdvanceStatus(t) ELSE Goto(t, "end") /\ UNCHANGED at

\* closesocket for each of a set of descriptors.
CloseAll(S) ==
  /\ conn' = [f \in Fd |-> IF f \in S THEN None ELSE conn[f]]
  /\ live' = live \ S

\* cse_close: -1 is closed in vain.
CloseStream(t) ==
  /\ socket' = [socket EXCEPT ![t] = None]
  /\ cleanup' = [cleanup EXCEPT ![t] = cleanup[t] \ {socket[t]}]
  /\ CloseAll({socket[t]})

Closed == {f \in Fd : conn[f] = None}
InUse(i) == 0 .. n_sockets[i] - 1            \* slots of a pool in use
Pooled(i) == {sockets[i][k] : k \in InUse(i)}

-----------------------------------------------------------------------------
(* A request or a status page arrives.                                      *)

\* caucho_request up to the first loop of open_connection: a request that
\* carries a session goes straight to the second one.
Arrive(t) ==
  /\ pc[t] = "idle" /\ alive
  /\ \E s \in Session : \E h \in FirstHosts(s) :
       /\ req' = [req EXCEPT ![t] = [session |-> s, time |-> now, host |-> h]]
       /\ at' = [at EXCEPT ![t] = [pass |-> IF s < 0 THEN 1 ELSE 2, i |-> 0]]
  /\ Goto(t, "probe")
  /\ UNCHANGED <<world, alive, kernel, slots, flags, lock, stream>>

\* caucho_status: jvm_status opens a connection to each srun in turn.
ArriveStatus(t) ==
  /\ pc[t] = "idle" /\ alive
  /\ at' = [at EXCEPT ![t] = NoAt]
  /\ Goto(t, "connect")
  /\ UNCHANGED <<world, alive, kernel, slots, flags, lock, req, stream>>

-----------------------------------------------------------------------------
(* open_connection: passes 1 and 2 leave the backups out when the request   *)
(* has no session.                                                          *)

\* Variant of LeaveOut: pass 2 tries the backups as well.
LeaveOutOfPass1(t) ==
  req[t].session < 0 /\ at[t].pass = 1 /\ IsBackup[Cur(t)]

LeaveOut(t) ==
  req[t].session < 0 /\ at[t].pass \in {1, 2} /\ IsBackup[Cur(t)]

SkipBackup(t) ==
  /\ pc[t] = "probe"
  /\ LeaveOut(t)
  /\ Advance(t)
  /\ UNCHANGED <<world, alive, kernel, slots, flags, lock, req, stream>>

\* cse_reuse_socket returned 0.
Missed(t) ==
  IF at[t].pass = 1
  THEN Advance(t)
  ELSE Goto(t, IF at[t].pass = 2 THEN "check" ELSE "connect") /\ UNCHANGED at

\* Variant of Clamped, for testing the properties: no test for a clock that
\* was set back.
NotClamped(t) == last_time[Cur(t)]

\* last_time after the test for a clock (or a thread) that is behind.
Clamped(t) == IF req[t].time < last_time[Cur(t)] THEN req[t].time
                                                 ELSE last_time[Cur(t)]

Fresh(t) == Clamped(t) + LiveTime >= req[t].time

\* cse_reuse_socket takes the lock and looks at the pool.
ReuseEnter(t) ==
  /\ pc[t] = "probe"
  /\ ~LeaveOut(t)
  /\ LockFree
  /\ last_time' = [last_time EXCEPT ![Cur(t)] = Clamped(t)]
  /\ \/ /\ n_sockets[Cur(t)] > 0
        /\ Goto(t, IF Fresh(t) THEN "reuse" ELSE "expire")
        /\ Acquire(t)
        /\ UNCHANGED at
     \/ /\ n_sockets[Cur(t)] = 0
        /\ Missed(t)
        /\ UNCHANGED lock
  /\ UNCHANGED <<world, alive, kernel, slots, is_dead, req, stream>>

\* cse_reuse, and the cleanup that cse_open_connection registers.
Reuse(t) ==
  /\ pc[t] = "reuse"
  /\ LET i == Cur(t)
         f == sockets[i][n_sockets[i] - 1]
     IN /\ n_sockets' = [n_sockets EXCEPT ![i] = n_sockets[i] - 1]
        /\ sockets' = [sockets EXCEPT ![i][n_sockets[i] - 1] = None]
        /\ socket' = [socket EXCEPT ![t] = f]
        /\ srun' = [srun EXCEPT ![t] = i]
        /\ cleanup' = [cleanup EXCEPT ![t] = cleanup[t] \cup {f}]
        /\ is_dead' = [is_dead EXCEPT ![i] = FALSE]
        /\ last_time' = [last_time EXCEPT ![i] = req[t].time]
  /\ Release
  /\ at' = [at EXCEPT ![t] = Returned]
  /\ Goto(t, "exchange")
  /\ UNCHANGED <<world, alive, kernel, req>>

\* Variant of Expire: "return 0" with the lock held.
ExpireLocked(t) ==
  /\ pc[t] = "expire"
  /\ CloseAll(Pooled(Cur(t)))
  /\ n_sockets' = [n_sockets EXCEPT ![Cur(t)] = 0]
  /\ sockets' = [sockets EXCEPT ![Cur(t)] = Empty]
  /\ Missed(t)
  /\ UNCHANGED <<world, alive, flags, lock, req, stream>>

\* The srun was not used for live_time: its idle connections are closed.
Expire(t) ==
  /\ pc[t] = "expire"
  /\ CloseAll(Pooled(Cur(t)))
  /\ n_sockets' = [n_sockets EXCEPT ![Cur(t)] = 0]
  /\ sockets' = [sockets EXCEPT ![Cur(t)] = Empty]
  /\ Release
  /\ Missed(t)
  /\ UNCHANGED <<world, alive, flags, req, stream>>

\* Pass 2 does not connect to an srun that died less than dead_time ago.
ThinksDead(t) ==
  is_dead[Cur(t)] /\ last_time[Cur(t)] + DeadTime >= req[t].time

SkipDead(t) ==
  /\ pc[t] = "check"
  /\ ThinksDead(t)
  /\ Advance(t)
  /\ UNCHANGED <<world, alive, kernel, slots, flags, lock, req, stream>>

TryAlive(t) ==
  /\ pc[t] = "check"
  /\ ~ThinksDead(t)
  /\ Goto(t, "connect")
  /\ UNCHANGED <<world, alive, kernel, slots, flags, lock, at, req, stream>>

-----------------------------------------------------------------------------
(* cse_open: pass 2 bounds the connect by connect_timeout, pass 3 and the   *)
(* status page (wait = 1) do not.                                           *)

Waits(t) == at[t].pass \in {0, 3}

ConnectOk(t) ==
  /\ pc[t] = "connect"
  /\ jvmUp[Cur(t)]
  /\ \E f \in Closed :
       /\ socket' = [socket EXCEPT ![t] = f]
       /\ live' = live \cup {f}
       /\ conn' = [conn EXCEPT ![f] = Cur(t)]
  /\ srun' = [srun EXCEPT ![t] = Cur(t)]
  /\ Goto(t, IF at[t].pass = 0 THEN "recycle" ELSE "connected")
  /\ UNCHANGED <<world, alive, slots, flags, lock, at, req, cleanup>>

\* The connect is refused or times out, or no descriptor is left.
ConnectFail(t) ==
  /\ pc[t] = "connect"
  /\ ~jvmUp[Cur(t)] \/ ~Waits(t) \/ Closed = {}
  /\ socket' = [socket EXCEPT ![t] = None]
  /\ srun' = [srun EXCEPT ![t] = Cur(t)]
  /\ IF at[t].pass = 2
     THEN Advance(t)
     ELSE Goto(t, IF at[t].pass = 0 THEN "recycle" ELSE "refused") /\ UNCHANGED at
  /\ UNCHANGED <<world, alive, kernel, slots, flags, lock, req, cleanup>>

\* open_connection marks the srun alive, outside the lock, and
\* cse_open_connection registers the cleanup.
MarkAlive(t) ==
  /\ pc[t] = "connected"
  /\ is_dead' = [is_dead EXCEPT ![Cur(t)] = FALSE]
  /\ last_time' = [last_time EXCEPT ![Cur(t)] = req[t].time]
  /\ cleanup' = [cleanup EXCEPT ![t] = cleanup[t] \cup {socket[t]}]
  /\ at' = [at EXCEPT ![t] = Returned]
  /\ Goto(t, "exchange")
  /\ UNCHANGED <<world, alive, kernel, slots, lock, req, socket, srun>>

\* Pass 3 marks the srun dead, outside the lock.
MarkDead(t) ==
  /\ pc[t] = "refused"
  /\ is_dead' = [is_dead EXCEPT ![Cur(t)] = TRUE]
  /\ last_time' = [last_time EXCEPT ![Cur(t)] = req[t].time]
  /\ Advance(t)
  /\ UNCHANGED <<world, alive, kernel, slots, lock, req, stream>>

\* No srun took the request: connection_error.
ConnectionError(t) ==
  /\ pc[t] = "giveup"
  /\ Goto(t, "end")
  /\ UNCHANGED <<world, alive, kernel, slots, flags, lock, at, req, stream>>

-----------------------------------------------------------------------------
(* write_request, by its outcome.                                           *)

\* The answer ended with CSE_END: the connection can be used again.
ExchangeEnd(t) ==
  /\ pc[t] = "exchange"
  /\ socket[t] \in live
  /\ Goto(t, "recycle")
  /\ UNCHANGED <<world, alive, kernel, slots, flags, lock, at, req, stream>>

\* The answer ended with CSE_CLOSE, or cse_flush could not send the request:
\* the stream is still open.
ExchangeClose(t) ==
  /\ pc[t] = "exchange"
  /\ Goto(t, "close")
  /\ UNCHANGED <<world, alive, kernel, slots, flags, lock, at, req, stream>>

\* cse_fill_buffer found the srun gone, or cse_write_response the browser:
\* both have closed the stream by the time caucho_request closes it again.
ExchangeLost(t) ==
  /\ pc[t] = "exchange"
  /\ CloseStream(t)
  /\ Goto(t, "close")
  /\ UNCHANGED <<world, alive, slots, flags, lock, at, req, srun>>

\* caucho_request's cse_close(&s, "no reuse").
Close(t) ==
  /\ pc[t] = "close"
  /\ CloseStream(t)
  /\ Goto(t, "end")
  /\ UNCHANGED <<world, alive, slots, flags, lock, at, req, srun>>

\* Variant of HasRoom: off by one.
HasRoomForOneMore(t) == socket[t] # None /\ n_sockets[srun[t]] <= MaxSockets

\* cse_recycle takes the lock and looks for room.  update_count is 0 on both
\* sides of the code's third test, as nothing ever changes it.
HasRoom(t) == socket[t] # None /\ n_sockets[srun[t]] < MaxSockets

RecycleEnter(t) ==
  /\ pc[t] = "recycle"
  /\ LockFree
  /\ HasRoom(t)
  /\ Acquire(t)
  /\ Goto(t, "push")
  /\ UNCHANGED <<world, alive, kernel, slots, flags, at, req, stream>>

\* Variant of RecycleClose: s->socket is dropped and never closed.
RecycleLeak(t) ==
  /\ pc[t] = "recycle"
  /\ LockFree
  /\ ~HasRoom(t)
  /\ socket' = [socket EXCEPT ![t] = None]
  /\ cleanup' = [cleanup EXCEPT ![t] = cleanup[t] \ {socket[t]}]
  /\ AfterRecycle(t)
  /\ UNCHANGED <<world, alive, kernel, slots, flags, lock, req, srun>>

\* cse_recycle without room, or without a socket: the connection is closed.
\* The CSE_CLOSE packet stays in the stream's buffer and is not sent.
RecycleClose(t) ==
  /\ pc[t] = "recycle"
  /\ LockFree
  /\ ~HasRoom(t)
  /\ CloseStream(t)
  /\ AfterRecycle(t)
  /\ UNCHANGED <<world, alive, slots, flags, lock, req, srun>>

\* Variants of Push: s->socket keeps the descriptor; the request's cleanup for
\* it is not killed; it goes to the pool of the first srun.
PushKept(t) ==
  /\ pc[t] = "push"
  /\ LET i == srun[t]
     IN /\ sockets' = [sockets EXCEPT ![i][n_sockets[i]] = socket[t]]
        /\ n_sockets' = [n_sockets EXCEPT ![i] = n_sockets[i] + 1]
  /\ cleanup' = [cleanup EXCEPT ![t] = cleanup[t] \ {socket[t]}]
  /\ Release
  /\ AfterRecycle(t)
  /\ UNCHANGED <<world, alive, kernel, flags, req, socket, srun>>

PushWithCleanup(t) ==
  /\ pc[t] = "push"
  /\ LET i == srun[t]
     IN /\ sockets' = [sockets EXCEPT ![i][n_sockets[i]] = socket[t]]
        /\ n_sockets' = [n_sockets EXCEPT ![i] = n_sockets[i] + 1]
  /\ socket' = [socket EXCEPT ![t] = None]
  /\ Release
  /\ AfterRecycle(t)
  /\ UNCHANGED <<world, alive, kernel, flags, req, srun, cleanup>>

PushToFirst(t) ==
  /\ pc[t] = "push"
  /\ sockets' = [sockets EXCEPT ![0][n_sockets[0]] = socket[t]]
  /\ n_sockets' = [n_sockets EXCEPT ![0] = n_sockets[0] + 1]
  /\ socket' = [socket EXCEPT ![t] = None]
  /\ cleanup' = [cleanup EXCEPT ![t] = cleanup[t] \ {socket[t]}]
  /\ Release
  /\ AfterRecycle(t)
  /\ UNCHANGED <<world, alive, kernel, flags, req, srun>>

Push(t) ==
  /\ pc[t] = "push"
  /\ LET i == srun[t]
     IN /\ sockets' = [sockets EXCEPT ![i][n_sockets[i]] = socket[t]]
        /\ n_sockets' = [n_sockets EXCEPT ![i] = n_sockets[i] + 1]
  /\ socket' = [socket EXCEPT ![t] = None]
  /\ cleanup' = [cleanup EXCEPT ![t] = cleanup[t] \ {socket[t]}]
  /\ Release
  /\ AfterRecycle(t)
  /\ UNCHANGED <<world, alive, kernel, flags, req, srun>>

\* Apache destroys r->pool, and with it whatever the request left behind.
EndRequest(t) ==
  /\ pc[t] = "end"
  /\ CloseAll(cleanup[t])
  /\ cleanup' = [cleanup EXCEPT ![t] = {}]
  /\ socket' = [socket EXCEPT ![t] = None]
  /\ srun' = [srun EXCEPT ![t] = None]
  /\ at' = [at EXCEPT ![t] = NoAt]
  /\ req' = [req EXCEPT ![t] = NoRequest]
  /\ Goto(t, "idle")
  /\ UNCHANGED <<world, alive, slots, flags, lock>>

-----------------------------------------------------------------------------
(* The child ends once its threads are idle, and another one starts.        *)

CloseChild ==
  /\ alive
  /\ \A t \in Thread : pc[t] = "idle"
  /\ alive' = FALSE
  /\ CloseAll(UNION {Pooled(i) : i \in Srun})
  /\ n_sockets' = [i \in Srun |-> 0]
  /\ sockets' = [i \in Srun |-> Empty]
  /\ UNCHANGED <<world, flags, lock, pc, at, req, stream>>

OpenChild ==
  /\ ~alive
  /\ alive' = TRUE
  /\ n_sockets' = [i \in Srun |-> 0]
  /\ sockets' = [i \in Srun |-> Empty]
  /\ is_dead' = [i \in Srun |-> FALSE]
  /\ last_time' = [i \in Srun |-> 0]
  /\ UNCHANGED <<world, kernel, lock, pc, at, req, stream>>

-----------------------------------------------------------------------------
(* The surroundings: the clock, which may also be set back, and the JVMs.   *)

Clock ==
  /\ now' \in 0 .. MaxTime
  /\ UNCHANGED <<alive, jvmUp, kernel, slots, flags, lock, pc, at, req, stream>>

JvmStart(i) ==
  /\ ~jvmUp[i]
  /\ jvmUp' = [jvmUp EXCEPT ![i] = TRUE]
  /\ UNCHANGED <<now, alive, kernel, slots, flags, lock, pc, at, req, stream>>

\* The JVM goes away and takes all of its connections with it.
JvmStop(i) ==
  /\ jvmUp[i]
  /\ jvmUp' = [jvmUp EXCEPT ![i] = FALSE]
  /\ live' = {f \in live : conn[f] # i}
  /\ UNCHANGED <<now, alive, conn, slots, flags, lock, pc, at, req, stream>>

\* The JVM drops one connection, as it does with idle ones.
JvmDrop(f) ==
  /\ f \in live
  /\ live' = live \ {f}
  /\ UNCHANGED <<world, alive, conn, slots, flags, lock, pc, at, req, stream>>

-----------------------------------------------------------------------------
TakesLock(t) == ReuseEnter(t) \/ RecycleEnter(t) \/ RecycleClose(t)

Step(t) ==
  \/ SkipBackup(t) \/ ReuseEnter(t) \/ Reuse(t) \/ Expire(t)
  \/ SkipDead(t) \/ TryAlive(t)
  \/ ConnectOk(t) \/ ConnectFail(t) \/ MarkAlive(t) \/ MarkDead(t)
  \/ ConnectionError(t)
  \/ ExchangeEnd(t) \/ ExchangeClose(t) \/ ExchangeLost(t) \/ Close(t)
  \/ RecycleEnter(t) \/ RecycleClose(t) \/ Push(t) \/ EndRequest(t)

Environment ==
  \/ CloseChild \/ OpenChild \/ Clock
  \/ \E i \in Srun : JvmStart(i) \/ JvmStop(i)
  \/ \E f \in Fd : JvmDrop(f)

Next == \/ \E t \in Thread : Arrive(t) \/ ArriveStatus(t) \/ Step(t)
        \/ Environment

Spec == Init /\ [][Next]_vars

\* Apache runs every thread, Windows serves the waiters of a mutex in turn,
\* and connect and recv return: the JVM answers or goes away, or the soft
\* timeout of the request fires.
Fairness == \A t \in Thread : WF_vars(Step(t)) /\ SF_vars(TakesLock(t))

FairSpec == Spec /\ Fairness

-----------------------------------------------------------------------------
(* Properties.                                                              *)

\* Every descriptor is owned at most once, by one slot of one pool or by the
\* stream of one thread: no two requests ever talk over one connection,
\* whatever cse_reuse_socket and cse_recycle do at the same time.
OwnedOnce ==
  /\ \A i, j \in Srun : \A k \in InUse(i), m \in InUse(j) :
       sockets[i][k] = sockets[j][m] => i = j /\ k = m
  /\ \A i \in Srun : \A k \in InUse(i), t \in Thread :
       sockets[i][k] # socket[t]
  /\ \A t, u \in Thread : socket[t] = socket[u] /\ socket[t] # None => t = u

\* A descriptor is open exactly as long as someone owns it: cse_close, the
\* expiry of a pool and the request's cleanups neither close a connection
\* that is pooled or used by another request, nor leave one open forever.
OpenIffOwned ==
  \A f \in Fd :
    conn[f] # None <=> \/ \E i \in Srun : \E k \in InUse(i) : sockets[i][k] = f
                       \/ \E t \in Thread : socket[t] = f

\* A connection is pooled with the srun it leads to, so that a reused
\* connection never takes a request to another JVM than open_connection
\* chose.
PooledWhereConnected ==
  \A i \in Srun : \A k \in InUse(i) :
    sockets[i][k] \in Fd /\ conn[sockets[i][k]] = i

\* Who owns a descriptor; one that is open and that nobody owns is mapped to
\* itself, which ConnOwner does not allow.
Users(f) == {t \in Thread : socket[t] = f} \cup {i \in Srun : f \in Pooled(i)}
Owner(f) == IF Users(f) # {} THEN CHOOSE u \in Users(f) : TRUE
            ELSE IF conn[f] = None THEN None ELSE f

ConnOwners == INSTANCE ConnOwner
  WITH owner <- [f \in Fd |-> Owner(f)], Closed <- None

\* The pool implements ConnOwner: the arrays, the lock and the three passes
\* do to the connections what its atomic steps do.
ImplementsConnOwner == ConnOwners!Spec

\* Every request and every status page ends: no thread waits forever for the
\* lock, and the three passes of open_connection stop.
RequestEnds == \A t \in Thread : pc[t] # "idle" ~> pc[t] = "idle"

=============================================================================
