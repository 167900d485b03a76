------------------------------- MODULE Sessions -------------------------------
(***************************************************************************)
(* Where open_connection starts to look for an srun: get_session_index     *)
(* (src/srun/mod_caucho.c) finds the session of a request,                 *)
(* cse_session_from_string and decode_session (src/srun/stream.c) the srun *)
(* that it belongs to, and random_host one for a request without session.  *)
(*                                                                         *)
(* Characters are their codes.  An int is a number of -(IntMax + 1) ..     *)
(* IntMax and wraps, as in every build of the module.                      *)
(***************************************************************************)
EXTENDS HostOrder, Sequences

CONSTANTS
  Id,          \* what may follow "JSESSIONID=" or ";jsessionid=": the codes of
               \*   three characters, of which those after a NUL are arbitrary
  NoId,        \* the text has no "JSESSIONID="
  MaxHeaders,  \* bound on the headers of a request
  IntMax,      \* INT_MAX
  Time,        \* values of r->request_time
  Rand,        \* values of random()
  Ip           \* client addresses, as sequences of character codes

ASSUME SessionsAssumption ==
  /\ NoId \notin [1 .. 3 -> 0 .. 127]
  /\ \A d \in Id : d \in [1 .. 3 -> 0 .. 127]
  /\ MaxHeaders \in Nat /\ IntMax \in Nat
  /\ Time \subseteq Nat /\ Rand \subseteq Nat
  /\ \A a \in Ip : a \in Seq(0 .. 127)

VARIABLES
  g_count,   \* g_count, which every child starts at 0
  pc,        \* control point
  headers,   \* r->headers_in: is the key "Cookie", and what follows the first
             \*   "JSESSIONID=" of the value
  uri,       \* what follows ";jsessionid=" in r->uri
  i,         \* headers looked at
  session,   \* the session index found
  host       \* host of open_connection

vars == <<g_count, pc, headers, uri, i, session, host>>

Header == [cookie : BOOLEAN, id : Id \cup {NoId}]
Headers == UNION {[1 .. m -> Header] : m \in 0 .. MaxHeaders}
INT == -(IntMax + 1) .. IntMax

\* The variables have their types; g_count stays an int.
TypeOK ==
  /\ g_count \in INT
  /\ pc \in {"idle", "headers", "uri", "host", "walk"}
  /\ headers \in Headers
  /\ uri \in Id \cup {NoId}
  /\ i \in 0 .. MaxHeaders
  /\ session \in Int /\ host \in Int

Init ==
  /\ g_count = 0 /\ pc = "idle"
  /\ headers = <<>> /\ uri = NoId /\ i = 0 /\ session = -1 /\ host = 0

-----------------------------------------------------------------------------
(* decode_session and cse_session_from_string.                              *)

\* The value of a character, -1 for one that no session has.
Digit(c) ==
  CASE c \in 97 .. 122 -> c - 97           \* 'a' .. 'z'
    [] c \in 65 .. 90  -> c - 65 + 26      \* 'A' .. 'Z'
    [] c \in 48 .. 57  -> c - 65 + 52      \* '0' .. '9'
    [] c = 95          -> 62               \* '_'
    [] c = 47          -> 63               \* '/'
    [] OTHER           -> -1

\* Variant of DecodeSession, for testing the properties: the most significant
\* character first.
DecodeSessionReversed(id) ==
  IF \E k \in 1 .. 3 : Digit(id[k]) < 0 THEN -1
  ELSE Digit(id[3]) + 64 * (Digit(id[2]) + 64 * Digit(id[1]))

DecodeSession(id) ==
  IF \E k \in 1 .. 3 : Digit(id[k]) < 0 THEN -1
  ELSE Digit(id[1]) + 64 * (Digit(id[2]) + 64 * Digit(id[3]))

SessionFromString(id) == IF id = NoId THEN -1 ELSE DecodeSession(id)

-----------------------------------------------------------------------------
(* random_host.                                                             *)

\* Variant of Wrap: ints that do not wrap.
Unbounded(n) == n

Wrap(n) == ((n + IntMax + 1) % (2 * IntMax + 2)) - (IntMax + 1)

\* The remainder of C, with the sign of the dividend.
Rem(n, d) == IF n < 0 THEN -((-n) % d) ELSE n % d

\* One step of the hash, and the loop over the characters of remote_ip.
Mix(n, c) == Wrap(23 * n + c)

Mixed(start, ip) ==
  LET n[k \in 0 .. Len(ip)] == IF k = 0 THEN start ELSE Mix(n[k - 1], ip[k])
  IN n[Len(ip)]

RandomHost(ip, time, rand) ==
  LET n == Mixed(Mix(Wrap(time * 23 + g_count), rand), ip)
  IN IF n < 0 THEN Wrap(-n) ELSE n

\* Variant of HostIndex: without the test for a negative remainder.
SignedIndex(n) == Rem(n, SrunSize)

\* An index into srun_list.  The most negative int is its own negation, so the
\* remainder may be negative even here.
HostIndex(n) == LET h == Rem(n, SrunSize) IN IF h < 0 THEN -h ELSE h

-----------------------------------------------------------------------------
(* A request.                                                               *)

Arrive ==
  /\ pc = "idle"
  /\ headers' \in Headers
  /\ uri' \in Id \cup {NoId}
  /\ pc' = "headers"
  /\ UNCHANGED <<g_count, i, session, host>>

\* get_session_index: the first Cookie header with a session decides ...
Found(h) == IF h.cookie THEN SessionFromString(h.id) ELSE -1

NextHeader ==
  /\ pc = "headers" /\ i < Len(headers)
  /\ i' = i + 1
  /\ session' = Found(headers[i + 1])
  /\ pc' = IF session' >= 0 THEN "host" ELSE "headers"
  /\ UNCHANGED <<g_count, headers, uri, host>>

NoMoreHeaders ==
  /\ pc = "headers" /\ i = Len(headers)
  /\ pc' = "uri"
  /\ UNCHANGED <<g_count, headers, uri, i, session, host>>

\* ... and the URI when there is none.
FromUri ==
  /\ pc = "uri"
  /\ session' = SessionFromString(uri)
  /\ pc' = "host"
  /\ UNCHANGED <<g_count, headers, uri, i, host>>

\* open_connection: the srun of the session, ...
SessionHost ==
  /\ pc = "host" /\ session \in Srun
  /\ host' = session
  /\ pc' = "walk"
  /\ UNCHANGED <<g_count, headers, uri, i, session>>

\* ... or a random one.
AnyHost ==
  /\ pc = "host" /\ session \notin Srun
  /\ \E ip \in Ip, time \in Time, rand \in Rand :
       host' = HostIndex(RandomHost(ip, time, rand))
  /\ g_count' = Wrap(g_count + 1)
  /\ pc' = "walk"
  /\ UNCHANGED <<headers, uri, i, session>>

\* The walk of the sruns is in SrunPool.
Done ==
  /\ pc = "walk"
  /\ pc' = "idle"
  /\ headers' = <<>> /\ uri' = NoId /\ i' = 0 /\ session' = -1 /\ host' = 0
  /\ UNCHANGED g_count

Next == \/ Arrive \/ NextHeader \/ NoMoreHeaders \/ FromUri
        \/ SessionHost \/ AnyHost \/ Done

Spec == Init /\ [][Next]_vars

-----------------------------------------------------------------------------
(* The JVM's side: srun n begins its sessions with Encode(n), "aaa" for the *)
(* first srun, "baa" for the second (doc/ref/balance.html).                 *)

Letter(n) == IF n < 26 THEN 97 + n
             ELSE IF n < 52 THEN 65 + n - 26
             ELSE IF n < 62 THEN 48 + n - 52
             ELSE IF n = 62 THEN 95 ELSE 47

Encode(n) == <<Letter(n % 64), Letter((n \div 64) % 64), Letter(n \div 4096)>>

-----------------------------------------------------------------------------
(* Properties.                                                              *)

\* The walk starts inside srun_list, for every int that random_host can
\* produce: the smallest one, which negation leaves negative, included.
HostInRange == pc = "walk" => host \in Srun

Letters == {Letter(n) : n \in 0 .. 63}
IsId(d) == d # NoId /\ \A k \in 1 .. 3 : d[k] \in Letters

\* What may be a session, in the order of its priority.
Carried ==
  Append([k \in 1 .. Len(headers) |->
            IF headers[k].cookie THEN headers[k].id ELSE NoId], uri)

\* "A session needs to stay on the same JVM that started it"
\* (doc/ref/balance.html): a request whose first session, cookies before the
\* URI, was started by srun n begins its walk at srun n.
SessionStays ==
  pc = "walk" =>
    \A k \in 1 .. Len(Carried), n \in Srun :
      Carried[k] = Encode(n) /\ (\A j \in 1 .. k - 1 : ~IsId(Carried[j]))
        => host = n

=============================================================================
