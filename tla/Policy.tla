------------------------------- MODULE Policy -------------------------------
(***************************************************************************)
(* policy.Authorize as a whole: token, service, right, path and, last, the *)
(* rate limit of the module RateLimit.  Methods are pairs of service and   *)
(* action, paths those of the module PathPolicy.                           *)
(***************************************************************************)
EXTENDS RateLimit, PathPolicy

CONSTANTS
  Tokens,        \* cap_ids of the tokens in use, with a rate_limit or not
  claims,        \* their Service, Rights, Actions and PathPrefix
  Requests       \* what services ask Authorize about: cap, method and path

ASSUME ClaimsAssumption ==
  /\ \A c \in Tokens : claims[c].PathPrefix \in Seq(STRING)
  /\ \A r \in Requests : r.cap \in Tokens \cup {"nil"} /\ r.path \in Seq(STRING)

VARIABLE last   \* history: the last request and the name of the answer

policyVars == <<vars, last>>

nil == "nil"   \* no claims

hasRight(c, m) == m \in claims[c].Rights
hasAction(c, m) == m[2] \in claims[c].Actions

\* An answer without the limiter.
Answer(c, m, p, name) ==
  Other /\ last' = [cap |-> c, method |-> m, path |-> p, code |-> name]

\* A request with a rate limit, or without one.
limit(c, m, p) ==
  \/ c \notin Caps /\ Answer(c, m, p, "OK")
  \/ c \in Caps /\ ~parseRate(c) /\ Answer(c, m, p, "INVALID_ARGUMENT")
  \/ /\ c \in Caps /\ enforceRateLimit(c)
     /\ last' = [cap |-> c, method |-> m, path |-> p,
                 code |-> IF answer'.admitted THEN "OK" ELSE "RESOURCE_EXHAUSTED"]

Mut_enforceConstraints(c, m, p) ==
  \/ enforcePathPrefix(claims[c].PathPrefix, p) /\ limit(c, m, p)
  \/ /\ ~enforcePathPrefix(claims[c].PathPrefix, p)
     /\ IF c \in Caps /\ parseRate(c)
          THEN /\ enforceRateLimit(c)
               /\ last' = [cap |-> c, method |-> m, path |-> p, code |-> "PERMISSION_DENIED"]
          ELSE Answer(c, m, p, "PERMISSION_DENIED")

enforceConstraints(c, m, p) ==
  \/ enforcePathPrefix(claims[c].PathPrefix, p) /\ limit(c, m, p)
  \/ ~enforcePathPrefix(claims[c].PathPrefix, p) /\ Answer(c, m, p, "PERMISSION_DENIED")

\* The services pass methods of two parts only.
permitted(c, m) ==
  Len(m) = 2 /\ claims[c].Service = m[1] /\ (hasRight(c, m) \/ hasAction(c, m))

Authorize(c, m, p) ==
  \/ c = nil /\ Answer(c, m, p, "UNAUTHENTICATED")
  \/ c # nil /\ ~permitted(c, m) /\ Answer(c, m, p, "PERMISSION_DENIED")
  \/ c # nil /\ permitted(c, m) /\ enforceConstraints(c, m, p)

PolicyInit ==
  /\ Init
  /\ last = [cap |-> nil, method |-> <<>>, path |-> <<>>, code |-> ""]

PolicyNext ==
  \/ (Tick \/ Observe) /\ UNCHANGED last
  \/ \E r \in Requests : Authorize(r.cap, r.method, r.path)

PolicySpec == PolicyInit /\ [][PolicyNext]_policyVars

-----------------------------------------------------------------------------
prefixOf(c) == claims[c].PathPrefix

(* A request that is granted never leaves the directory of path_prefix on  *)
(* the way along its path, as long as the path is followed from there: so  *)
(* enforcePathPrefix resolves it, whichever directory the service then     *)
(* opens it from (OpensUnderPrefix in Capabilities).                       *)
PathsAsGranted ==
  last.code = "OK" /\ prefixOf(last.cap) # <<>> =>
    \A i \in 0..Len(last.path) :
      Under(Abs(prefixOf(last.cap) \o SubSeq(last.path, 1, i)), Abs(prefixOf(last.cap)))

(* The other way round: with the right to the method, a relative path with *)
(* no ".." in it is never denied, however it is written.  The prefix "/"   *)
(* is the exception (enforcePathPrefix).                                   *)
PlainPathsGranted ==
  last.code = "PERMISSION_DENIED" /\ permitted(last.cap, last.method) =>
    IsAbs(last.path) \/ HasDotDot(last.path) \/ Abs(prefixOf(last.cap)) = <<>>

(* A refused request costs nobody a token, for whatever reason it is       *)
(* refused: the rate limit comes last of all checks (Authorize,            *)
(* enforceConstraints).                                                    *)
RefusalsAreFree ==
  [][now' = now /\ last'.code # "OK" => \A c \in Caps : Available(c)' = Available(c)]_policyVars
=============================================================================
