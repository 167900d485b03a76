----------------------------- MODULE MCSrunPool -----------------------------
(* Instances of SrunPool for TLC.                                            *)
EXTENDS SrunPool, TLC

\* The last srun of the list is a backup, or none is.
NoBackup == [i \in Srun |-> FALSE]
OneBackup == [i \in Srun |-> i = SrunSize - 1]

\* Requests without a session; requests with one.
NoSession == {-1}
AnySession == -1 .. SrunSize

Symmetry == Permutations(Thread) \cup Permutations(Fd)

=============================================================================
