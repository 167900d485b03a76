------------------------------- MODULE SrunList -------------------------------
(***************************************************************************)
(* How config->srun_list comes about while Apache reads httpd.conf:        *)
(* cse_create_server_config and the directives CauchoHost, CauchoBackup    *)
(* and CauchoConfigFile (src/srun/mod_caucho.c), cse_init_hosts and        *)
(* cse_init_host_node (src/srun/config.c), cse_add_host_int                *)
(* (src/srun/stream.c).                                                    *)
(*                                                                         *)
(* HostOrder and SrunPool take its results for granted: there is an srun   *)
(* to try, and a session names the index of its srun.                      *)
(***************************************************************************)
EXTENDS Integers, Sequences

CONSTANTS
  Host,           \* host names that gethostbyname finds
  Unknown,        \* host names that it does not find
  NoHost,         \* host = 0, of the srun that every configuration starts with
  Capacity,       \* srun_capacity of a new configuration, 16 in the code
  MaxDirectives,  \* bound on the directives of an httpd.conf
  MaxFile,        \* bound on the srun and srun-backup elements of a resin.conf
  FileFirst       \* no directive comes before CauchoConfigFile

ASSUME ListAssumption ==
  /\ Unknown \cap Host = {} /\ NoHost \notin Host \cup Unknown
  /\ Capacity \in Nat \ {0} /\ MaxDirectives \in Nat /\ MaxFile \in Nat
  /\ FileFirst \in BOOLEAN

VARIABLES
  config,   \* srun_list, srun_size, srun_capacity and error
  read,     \* directives read
  asked,    \* history: the sruns that the directives asked for, in order
  started   \* Apache has read httpd.conf and serves requests

vars == <<config, read, asked, started>>

Entry == [host : Host \cup Unknown, backup : BOOLEAN]
Named == Host \cup {NoHost}
Srun_t == [host : Named, backup : BOOLEAN, is_default : BOOLEAN, session : Nat]
Blank == [host |-> NoHost, backup |-> FALSE, is_default |-> FALSE, session |-> 0]

\* The variables have their types; the list has room for its sruns.
TypeOK ==
  /\ config.srun_capacity \in Nat
  /\ config.srun_size \in 0 .. config.srun_capacity
  /\ config.srun_list \in [0 .. config.srun_capacity - 1 -> Srun_t]
  /\ config.error \in BOOLEAN
  /\ read \in 0 .. MaxDirectives
  /\ asked \in Seq(Entry)
  /\ started \in BOOLEAN

\* cse_create_server_config: one srun without a host.
Init ==
  /\ config = [srun_list |-> [k \in 0 .. Capacity - 1 |-> Blank],
               srun_size |-> 1, srun_capacity |-> Capacity, error |-> FALSE]
  /\ read = 0 /\ asked = <<>> /\ started = FALSE

-----------------------------------------------------------------------------
(* cse_add_host_int.                                                        *)

\* The srun that a configuration starts with, and the default one, make way
\* for the next srun.
Kept(c) ==
  IF c.srun_size = 1 /\ (c.srun_list[0].is_default \/ c.srun_list[0].host = NoHost)
  THEN 0 ELSE c.srun_size

\* Variant of Grown, for testing the properties: the list grows too late.
GrownLate(c) ==
  IF Kept(c) <= c.srun_capacity THEN c
  ELSE [c EXCEPT !.srun_capacity = 2 * c.srun_capacity,
                 !.srun_list = [k \in 0 .. 2 * c.srun_capacity - 1 |->
                   IF k < c.srun_capacity THEN c.srun_list[k] ELSE Blank]]

\* A full list is copied to one of twice the capacity.
Grown(c) ==
  IF Kept(c) < c.srun_capacity THEN c
  ELSE [c EXCEPT !.srun_capacity = 2 * c.srun_capacity,
                 !.srun_list = [k \in 0 .. 2 * c.srun_capacity - 1 |->
                   IF k < c.srun_capacity THEN c.srun_list[k] ELSE Blank]]

\* Variants of NewSrun: the first srun is always a default; sessions count
\* from 1.
NewSrunDefault(e, is_default, n) ==
  [host |-> e.host, backup |-> e.backup, is_default |-> n = 0, session |-> n]

NewSrunFromOne(e, is_default, n) ==
  [host |-> e.host, backup |-> e.backup, is_default |-> is_default /\ n = 0,
   session |-> n + 1]

NewSrun(e, is_default, n) ==
  [host |-> e.host, backup |-> e.backup, is_default |-> is_default /\ n = 0,
   session |-> n]

\* Variant of NotFound: no error is reported.
NotFoundSilent(c, n) == [c EXCEPT !.srun_size = n]

NotFound(c, n) == [c EXCEPT !.srun_size = n, !.error = TRUE]

Put(c, n, srun) ==
  [c EXCEPT !.srun_size = n + 1,
            !.srun_list = [k \in DOMAIN c.srun_list |->
                             IF k = n THEN srun ELSE c.srun_list[k]]]

AddHost(c, e, is_default) ==
  LET n == Kept(c)
  IN IF e.host \in Host THEN Put(Grown(c), n, NewSrun(e, is_default, n))
                        ELSE NotFound(Grown(c), n)

-----------------------------------------------------------------------------
(* The directives.  Apache stops at the first one that reports an error.    *)

Reads == ~started /\ ~config.error /\ read < MaxDirectives

\* CauchoHost and CauchoBackup.
HostDirective ==
  /\ Reads
  /\ \E e \in Entry :
       /\ config' = AddHost(config, e, FALSE)
       /\ asked' = Append(asked, e)
  /\ read' = read + 1
  /\ UNCHANGED started

\* The elements of a resin.conf as cse_init_hosts adds them: srun, then
\* srun-backup.
Files ==
  {file \in UNION {[1 .. m -> Entry] : m \in 0 .. MaxFile} :
     \A j, k \in DOMAIN file : j < k /\ file[j].backup => file[k].backup}

AddHosts(c, file) ==
  LET done[k \in 0 .. Len(file)] ==
        IF k = 0 THEN c ELSE AddHost(done[k - 1], file[k], FALSE)
  IN done[Len(file)]

\* A file without them has a default srun, at its srun-host or at "localhost".
InitHosts(c, file, host) ==
  IF file = <<>> THEN AddHost(c, [host |-> host, backup |-> FALSE], TRUE)
                 ELSE AddHosts(c, file)

\* CauchoConfigFile.
ConfigFileDirective ==
  /\ Reads
  /\ FileFirst => read = 0
  /\ \E file \in Files, host \in Host \cup Unknown :
       /\ config' = InitHosts(config, file, host)
       /\ asked' = asked \o file
  /\ read' = read + 1
  /\ UNCHANGED started

\* ... of a file that cannot be opened.
MissingFile ==
  /\ Reads
  /\ FileFirst => read = 0
  /\ config' = [config EXCEPT !.error = TRUE]
  /\ read' = read + 1
  /\ UNCHANGED <<asked, started>>

Start ==
  /\ ~started /\ ~config.error
  /\ started' = TRUE
  /\ UNCHANGED <<config, read, asked>>

Next == HostDirective \/ ConfigFileDirective \/ MissingFile \/ Start

Spec == Init /\ [][Next]_vars

-----------------------------------------------------------------------------
(* Properties.                                                              *)

\* A server that starts has an srun to try, although the list is emptied
\* before the host that replaces the default srun is looked up.
SrunToTry == started => config.srun_size >= 1

\* A session index is the position of its srun in srun_list, which is what
\* open_connection's search relies on, also after the first srun made way
\* and after the list was copied.
SessionIsIndex ==
  \A k \in 0 .. config.srun_size - 1 : config.srun_list[k].session = k

\* A server that starts has exactly the sruns that httpd.conf and resin.conf
\* ask for, in order: "the resin.conf doesn't need the srun and srun-backup
\* configurations.  The equivalent configuration in Apache's httpd.conf is"
\* CauchoHost and CauchoBackup (conf/samples/load_balance.conf).
SrunsAsAsked ==
  started /\ asked # <<>> =>
    /\ config.srun_size = Len(asked)
    /\ \A k \in 1 .. Len(asked) :
         /\ config.srun_list[k - 1].host = asked[k].host
         /\ config.srun_list[k - 1].backup = asked[k].backup

=============================================================================
