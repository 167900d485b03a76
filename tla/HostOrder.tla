------------------------------ MODULE HostOrder ------------------------------
(***************************************************************************)
(* The order in which open_connection (src/srun/stream.c) tries the sruns  *)
(* of a configuration.  The sruns are the indices of config->srun_list.    *)
(***************************************************************************)
EXTENDS Integers

CONSTANT SrunSize          \* config->srun_size, the number of JVMs

ASSUME SrunSizeAssumption == SrunSize \in Nat \ {0}

Srun == 0 .. SrunSize - 1

\* Direction of the walk: downwards from an even host, upwards from an odd one.
Incr(host) == 2 * (host % 2) - 1

\* Variant of Probe, for testing the properties: the walk starts one srun late.
LateProbe(host, i) == (host + (i + 1) * (Incr(host) + SrunSize)) % SrunSize

\* The srun tried in iteration i of each of the three loops.
Probe(host, i) == (host + i * (Incr(host) + SrunSize)) % SrunSize

\* A session names the srun that created it (srun->session is the index the
\* srun got in cse_add_host_int); any other session index is as good as none
\* and the walk starts at a random srun.
FirstHosts(session) == IF session \in Srun THEN {session} ELSE Srun

=============================================================================
