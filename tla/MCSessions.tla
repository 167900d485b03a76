------------------------------ MODULE MCSessions ------------------------------
(* Instances of Sessions for TLC.                                            *)
EXTENDS Sessions

\* Sessions of the second and the third srun, of an srun that is not
\* configured, with a character that no session has, and cut short.
FewIds == {Encode(1), Encode(2), Encode(70), <<98, 63, 97>>, <<98, 0, 97>>}

\* Clients 1, 1.2 and one that is not set.
FewIps == {<<>>, <<49>>, <<49, 46, 50>>}

=============================================================================
