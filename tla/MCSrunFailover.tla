--------------------------- MODULE MCSrunFailover ---------------------------
(* Instances of SrunFailover for TLC.                                        *)
EXTENDS SrunFailover, TLC

\* The last srun of the list is a backup.
OneBackup == [i \in Srun |-> i = SrunSize - 1]

\* No session, a session of every srun, and one of no srun.
AnySession == -1 .. SrunSize

Symmetry == Permutations(Fd)

=============================================================================
