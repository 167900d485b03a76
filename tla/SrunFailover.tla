----------------------------- MODULE SrunFailover -----------------------------
(***************************************************************************)
(* SrunPool with the history of each request: which sruns it has found     *)
(* unusable and which JVMs were up, or down, ever since it arrived.  The   *)
(* history restricts nothing; it lets the promises of load balancing and   *)
(* failover be stated: sessions stay with their JVM, backups are a last    *)
(* resort, and a request only fails when there is nobody left to serve it. *)
(***************************************************************************)
EXTENDS SrunPool

VARIABLES
  unusable,   \* sruns that pass 2 of the request skipped as dead or could
              \*   not connect to
  refused,    \* sruns that pass 3 of the request could not connect to
  stayedUp,   \* sruns whose JVM has been up since the request arrived
  stayedDown, \* sruns whose JVM has been down since the request arrived
  answer      \* what the browser got: "pending", "answered", "empty" or
              \*   "unreachable"

history == <<unusable, refused, stayedUp, stayedDown, answer>>
fvars == <<vars, history>>

Up == {i \in Srun : jvmUp[i]}

FInit ==
  /\ Init
  /\ unusable = [t \in Thread |-> {}]
  /\ refused = [t \in Thread |-> {}]
  /\ stayedUp = [t \in Thread |-> {}]
  /\ stayedDown = [t \in Thread |-> {}]
  /\ answer = [t \in Thread |-> "pending"]

FArrive(t) ==
  /\ Arrive(t)
  /\ stayedUp' = [stayedUp EXCEPT ![t] = Up]
  /\ stayedDown' = [stayedDown EXCEPT ![t] = Srun \ Up]
  /\ UNCHANGED <<unusable, refused, answer>>

FEndRequest(t) ==
  /\ EndRequest(t)
  /\ unusable' = [unusable EXCEPT ![t] = {}]
  /\ refused' = [refused EXCEPT ![t] = {}]
  /\ stayedUp' = [stayedUp EXCEPT ![t] = {}]
  /\ stayedDown' = [stayedDown EXCEPT ![t] = {}]
  /\ answer' = [answer EXCEPT ![t] = "pending"]

Note(S, t) == S' = [S EXCEPT ![t] = @ \cup {Cur(t)}]

FUnusable(t) ==
  /\ SkipDead(t) \/ (ConnectFail(t) /\ at[t].pass = 2)
  /\ Note(unusable, t)
  /\ UNCHANGED <<refused, stayedUp, stayedDown, answer>>

FRefused(t) ==
  /\ ConnectFail(t)
  /\ at[t].pass = 3
  /\ Note(refused, t)
  /\ UNCHANGED <<unusable, stayedUp, stayedDown, answer>>

FAnswer(t) ==
  /\ \/ /\ ExchangeEnd(t) \/ ExchangeClose(t)
        /\ socket[t] \in live
        /\ answer' = [answer EXCEPT ![t] = "answered"]
     \/ /\ ExchangeClose(t) \/ ExchangeLost(t)
        /\ socket[t] \notin live
        /\ answer' = [answer EXCEPT ![t] = "empty"]
     \/ /\ ConnectionError(t)
        /\ answer' = [answer EXCEPT ![t] = "unreachable"]
  /\ UNCHANGED <<unusable, refused, stayedUp, stayedDown>>

\* The steps of a request that its history does not record.
FOther(t) ==
  /\ \/ ArriveStatus(t) \/ SkipBackup(t) \/ ReuseEnter(t) \/ Reuse(t)
     \/ Expire(t) \/ TryAlive(t) \/ ConnectOk(t) \/ MarkAlive(t)
     \/ MarkDead(t) \/ Close(t) \/ RecycleEnter(t) \/ RecycleClose(t)
     \/ Push(t)
     \/ (ConnectFail(t) /\ at[t].pass = 0)
     \/ (ExchangeLost(t) /\ socket[t] \in live)     \* the browser went away
  /\ UNCHANGED history

FJvm(i) ==
  \/ /\ JvmStart(i)
     /\ stayedDown' = [t \in Thread |-> stayedDown[t] \ {i}]
     /\ UNCHANGED <<unusable, refused, stayedUp, answer>>
  \/ /\ JvmStop(i)
     /\ stayedUp' = [t \in Thread |-> stayedUp[t] \ {i}]
     /\ UNCHANGED <<unusable, refused, stayedDown, answer>>

FEnvironment ==
  /\ CloseChild \/ OpenChild \/ Clock \/ \E f \in Fd : JvmDrop(f)
  /\ UNCHANGED history

FNext ==
  \/ \E t \in Thread : \/ FArrive(t) \/ FEndRequest(t)
                       \/ FUnusable(t) \/ FRefused(t) \/ FAnswer(t)
                       \/ FOther(t)
  \/ \E i \in Srun : FJvm(i)
  \/ FEnvironment

FSpec == FInit /\ [][FNext]_fvars

-----------------------------------------------------------------------------
(* Properties.                                                              *)

Serving(t, i) == pc[t] = "exchange" /\ srun[t] = i

\* open_connection sends a request without a session to a backup only after
\* pass 2 of this request has found every primary unusable, whatever the
\* walk of the sruns started from and however the pools changed meanwhile.
BackupLast ==
  \A t \in Thread, i \in Srun :
    Serving(t, i) /\ IsBackup[i] /\ req[t].session = -1 =>
      \A j \in Srun : IsBackup[j] \/ j \in unusable[t]

\* A request of a session is served by the JVM that the session names,
\* unless this request itself has found that JVM unusable.
Sticky ==
  \A t \in Thread, i \in Srun :
    Serving(t, i) /\ req[t].session \in Srun \ {i} =>
      req[t].session \in unusable[t]

\* The browser sees the "cannot connect" page only if every JVM, backups
\* included, refused a connection that open_connection waited for, so never
\* while some JVM was up all the time and descriptors were left.
UnreachableMeansDown ==
  \A t \in Thread : pc[t] = "giveup" =>
    refused[t] = Srun /\ stayedUp[t] = {}

\* Pass 2 skips an srun as dead only if the mark is at most dead_time old and
\* not from the future: after the clock is set back a dead srun is not
\* ignored until the clock has caught up.  It holds for the one thread of a
\* Unix child; on WIN32 a later request may renew the mark in between.
DeadNotForLong ==
  \A t \in Thread :
    pc[t] = "check" /\ ThinksDead(t) =>
      req[t].time - last_time[Cur(t)] \in 0 .. DeadTime

\* A request that is not answered was sent to a JVM that was there when it
\* arrived, or there was no other JVM: "If something happens to the first
\* JVM, Resin will send the request to the backup without the browser even
\* being aware of the redirection" (doc/ref/balance.html).
FailoverUnseen ==
  \A t \in Thread :
    answer[t] = "empty" => srun[t] \notin stayedDown[t] \/ stayedUp[t] = {}

=============================================================================
