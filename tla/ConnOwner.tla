------------------------------ MODULE ConnOwner ------------------------------
(***************************************************************************)
(* What the connection pool of mod_caucho promises its callers, without    *)
(* locks, arrays or passes: every connection to an srun is closed, idle in *)
(* the pool of the srun it is connected to, or used by exactly one thread. *)
(* SrunPool implements this specification.                                 *)
(***************************************************************************)
EXTENDS Integers, FiniteSets

CONSTANTS Thread, Srun, Fd, MaxSockets, Closed

VARIABLES owner,    \* Closed, the srun whose pool holds it, or its thread
          conn      \* the srun a descriptor is connected to, or Closed

vars == <<owner, conn>>

Idle(i) == {f \in Fd : owner[f] = i}

TypeOK == /\ owner \in [Fd -> {Closed} \cup Srun \cup Thread]
          /\ conn \in [Fd -> Srun \cup {Closed}]

Init == /\ owner = [f \in Fd |-> Closed]
        /\ conn = [f \in Fd |-> Closed]

\* A thread without a connection opens one.
Open(t, f, i) ==
  /\ owner[f] = Closed
  /\ \A g \in Fd : owner[g] # t
  /\ owner' = [owner EXCEPT ![f] = t]
  /\ conn' = [conn EXCEPT ![f] = i]

\* A thread without a connection takes an idle one.
Take(t, f) ==
  /\ owner[f] \in Srun
  /\ \A g \in Fd : owner[g] # t
  /\ owner' = [owner EXCEPT ![f] = t]
  /\ UNCHANGED conn

\* A thread gives its connection to the pool of the srun it leads to.
Give(t, f) ==
  /\ owner[f] = t
  /\ Cardinality(Idle(conn[f])) < MaxSockets
  /\ owner' = [owner EXCEPT ![f] = conn[f]]
  /\ UNCHANGED conn

\* A thread closes its connection.
Discard(t, f) ==
  /\ owner[f] = t
  /\ owner' = [owner EXCEPT ![f] = Closed]
  /\ conn' = [conn EXCEPT ![f] = Closed]

\* Idle connections of some sruns are closed, all of each at once.
Expire(S) ==
  /\ owner' = [f \in Fd |-> IF owner[f] \in S THEN Closed ELSE owner[f]]
  /\ conn' = [f \in Fd |-> IF owner[f] \in S THEN Closed ELSE conn[f]]

Next == \/ \E t \in Thread, f \in Fd : \/ \E i \in Srun : Open(t, f, i)
                                       \/ Take(t, f)
                                       \/ Give(t, f)
                                       \/ Discard(t, f)
        \/ \E S \in SUBSET Srun : Expire(S)

Spec == Init /\ [][Next]_vars

=============================================================================
