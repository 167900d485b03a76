------------------------------ MODULE Locations ------------------------------
(***************************************************************************)
(* Which requests are Resin's (src/srun/config.c): a url-pattern of a web-   *)
(* app becomes a location_t, and cse_match_request looks for a location that *)
(* fits the host, port and URI of a request.  Strings are sequences of one-  *)
(* character strings; ";" stands for ";jsessionid=" and "j" for              *)
(* "j_security_check".                                                       *)
(***************************************************************************)
EXTENDS Integers, Sequences, SequencesExt, TLC

Digit == "0" :> 0 @@ "1" :> 1 @@ "2" :> 2
Atoi(s) == FoldLeft(LAMBDA v, d : 10 * v + Digit[d], 0, s)

NoSuffix == <<"NULL">>

\* strchr, strstr: the first place of part in s, or 0.
Find(s, part) ==
  SelectInSeq([i \in 1 .. Len(s) - Len(part) + 1 |-> SubSeq(s, i, i + Len(part) - 1)],
              LAMBDA sub : sub = part)
HasPart(s, part) == part = <<>> \/ Find(s, part) # 0

Before(s, ch) == IF Find(s, <<ch>>) = 0 THEN s ELSE SubSeq(s, 1, Find(s, <<ch>>) - 1)
After(s, ch) ==
  IF Find(s, <<ch>>) = 0 THEN <<>> ELSE SubSeq(s, Find(s, <<ch>>) + 1, Len(s))

-----------------------------------------------------------------------------
(* cse_add_location.                                                        *)

\* The prefix starts with a slash, unless it is empty, and does not end with one.
CleanPrefix(prefix, pattern) ==
  LET lead == \/ prefix = <<>> /\ pattern # <<>> /\ pattern[1] \notin {"/", "*"}
              \/ prefix # <<>> /\ prefix[1] # "/"
      p == (IF lead THEN <<"/">> ELSE <<>>) \o prefix
  IN IF p # <<>> /\ Last(p) = "/" THEN Front(p) ELSE p

Path(prefix, pattern) ==
  CleanPrefix(prefix, pattern) \o (IF pattern[1] = "/" THEN <<>> ELSE <<"/">>) \o pattern

Location(host, prefix, pattern) ==
  LET loc(p, s, e) == [host |-> Before(host, ":"), port |-> Atoi(After(host, ":")),
                       prefix |-> p, suffix |-> s, is_exact |-> e]
      path == Path(prefix, pattern)
  IN CASE pattern = <<>> -> loc(CleanPrefix(prefix, pattern), NoSuffix, FALSE)
       [] pattern # <<>> /\ pattern[1] = "*" ->
            loc(CleanPrefix(prefix, pattern), Tail(pattern), FALSE)
       [] Len(pattern) = 1 /\ pattern[1] # "*" -> loc(Front(path), NoSuffix, FALSE)
       [] Len(pattern) > 1 /\ pattern[1] # "*" /\ Last(path) # "*" ->
            loc(path, NoSuffix, TRUE)
       [] OTHER -> loc(IF Len(path) > 2 THEN SubSeq(path, 1, Len(path) - 2) ELSE path,
                       NoSuffix, FALSE)

\* cse_add_unique_location.
AddUnique(locs, loc) == IF loc \in Range(locs) THEN locs ELSE <<loc>> \o locs

AddLocation(locs, host, prefix, pattern) ==
  AddUnique(locs, Location(host, prefix, pattern))

-----------------------------------------------------------------------------
(* cse_match_request.                                                       *)

\* Variant of StartsWith: the end of a name is not looked for.
StartsWithName(full, part) == IsPrefix(part, full)

\* cse_starts_with: behind part, full is at its end or at a slash.
StartsWith(full, part) ==
  /\ IsPrefix(part, full)
  /\ Len(full) > Len(part) => full[Len(part) + 1] = "/"

\* Variant of MatchSuffix: only the first place is tried.
MatchFirst(full, suffix) ==
  LET i == Find(full, suffix)
      j == i + Len(suffix)
  IN i # 0 /\ (j > Len(full) \/ full[j] = "/")

\* cse_match_suffix: one place after the other, until suffix is at the end of
\* full or before a slash.  The places do not overlap.
MatchSuffix(full, suffix) ==
  LET at[from \in 1 .. Len(full) + 1] ==
        LET i == Find(SubSeq(full, from, Len(full)), suffix)
            j == from - 1 + i + Len(suffix)
        IN i # 0 /\ (j > Len(full) \/ full[j] = "/" \/ at[j])
  IN at[1]

MatchOne(loc, host, port, uri) ==
  /\ loc.host = <<>> \/ HasPart(loc.host, host)
  /\ port = 0 \/ loc.port = 0 \/ port = loc.port
  /\ IF loc.is_exact THEN uri = loc.prefix
     ELSE /\ StartsWith(uri, loc.prefix)
          /\ loc.suffix = NoSuffix \/ MatchSuffix(uri, loc.suffix)

\* cse_match_location.
MatchLocation(locs, host, port, uri) ==
  \E i \in 1 .. Len(locs) : MatchOne(locs[i], host, port, uri)

MatchRequest(locs, host, port, uri) ==
  LET test == Before(uri, ";")
  IN MatchLocation(locs, host, port, test) \/ HasPart(test, <<"/", "j">>)

\* cse_dispatch.
CauchoStatus == <<"/", "s">>   \* "/caucho-status"
Dispatch(locs, disableStatus, host, port, uri) ==
  IF MatchRequest(locs, host, port, uri) THEN "caucho-request"
  ELSE IF ~disableStatus /\ uri = CauchoStatus THEN "caucho-status"
  ELSE "declined"

=============================================================================
