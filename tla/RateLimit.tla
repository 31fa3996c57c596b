----------------------------- MODULE RateLimit -----------------------------
(***************************************************************************)
(* The token buckets of the policy layer (enforceRateLimit), with a clock. *)
(*                                                                         *)
(* Time is counted in ticks, Second of them to a second, and a rate of     *)
(* Rate[c]/Den requests per second may be fractional, as parseRate allows. *)
(* Tokens are counted in units of 1/(Second * Den), in which the refill of *)
(* one tick is Rate[c]; the rounding of float64 is left out.  Rate 0 is a  *)
(* string parseRate refuses.  A request here is one that Authorize (module *)
(* Policy) has let pass up to its rate limit.                              *)
(***************************************************************************)
EXTENDS Integers

CONSTANTS
  Caps,           \* cap_ids with a rate_limit
  Rate, Den,      \* its rates
  Second,         \* ticks in a second
  staleBucketTTL, \* in ticks; five minutes in the code
  MaxTime         \* bound: ticks the clock runs

ASSUME RateAssumption ==
  /\ Rate \in [Caps -> Nat]
  /\ Den \in Nat \ {0} /\ Second \in Nat \ {0} /\ MaxTime \in Nat
  /\ staleBucketTTL \in Nat /\ staleBucketTTL >= Second

VARIABLES
  now,      \* the clock
  buckets,  \* globalLimiter.buckets, a function on the cap_ids that have one
  answer,   \* the last answer: the capability, and whether it was admitted
  mark,     \* history: the start of a window of time
  count     \* history: the requests admitted since mark, for each capability

vars == <<now, buckets, answer, mark, count>>

Cost == Second * Den
Capacity(c) == Rate[c] * Second

NoAnswer == [cap |-> "none", admitted |-> FALSE]
Answers == [cap : Caps, admitted : BOOLEAN] \cup {NoAnswer}

AtMost(x, y) == IF x > y THEN y ELSE x

Bucket(c) == [tokens : 0..Capacity(c), last : 0..now]

(* The values the variables take: a bucket is never overdrawn, never       *)
(* fuller than one second's worth, and last used in the past.              *)
TypeOK ==
  /\ now \in 0..MaxTime
  /\ DOMAIN buckets \subseteq Caps
  /\ \A c \in DOMAIN buckets : Rate[c] > 0 /\ buckets[c] \in Bucket(c)
  /\ answer \in Answers
  /\ mark \in 0..now /\ count \in [Caps -> Nat]

Init ==
  /\ now = 0
  /\ buckets = [c \in {} |-> [tokens |-> 0, last |-> 0]]
  /\ answer = NoAnswer
  /\ mark = 0 /\ count = [c \in Caps |-> 0]

Tick ==
  /\ now < MaxTime
  /\ now' = now + 1
  /\ UNCHANGED <<buckets, answer, mark, count>>

Mut_stale(b) == now - b.last > 0

\* A bucket unused for this long is deleted by the next request of anyone.
stale(b) == now - b.last > staleBucketTTL

\* ParseFloat reads NaN and Inf too.  With such a rate no request is refused; it
\* is left out here.
parseRate(c) == Rate[c] > 0

Mut_refilled(b, c) ==
  [tokens |-> b.tokens + (now - b.last) * Rate[c], last |-> now]

refilled(b, c) ==
  [tokens |-> AtMost(b.tokens + (now - b.last) * Rate[c], Capacity(c)), last |-> now]

\* The bucket the code works on: the one of c, unless it is missing or stale.
found(c) ==
  IF c \in DOMAIN buckets /\ ~stale(buckets[c])
    THEN buckets[c] ELSE [tokens |-> Capacity(c), last |-> now]

enforceRateLimit(c) ==
  /\ parseRate(c)
  /\ LET b == refilled(found(c), c)
         kept == {d \in DOMAIN buckets : ~stale(buckets[d])} \cup {c}
         spent == IF b.tokens < Cost THEN b ELSE [b EXCEPT !.tokens = @ - Cost]
     IN /\ buckets' = [d \in kept |-> IF d = c THEN spent ELSE buckets[d]]
        /\ answer' = [cap |-> c, admitted |-> b.tokens >= Cost]
        /\ count' = [count EXCEPT ![c] = IF b.tokens < Cost THEN @ ELSE @ + 1]
  /\ UNCHANGED <<now, mark>>

\* A request that does not come to the limiter, or has no rate to go by.
Other ==
  /\ answer' = NoAnswer
  /\ UNCHANGED <<now, buckets, mark, count>>

\* An observer begins to count, at any moment.
Observe ==
  /\ mark # now
  /\ mark' = now /\ count' = [c \in Caps |-> 0]
  /\ UNCHANGED <<now, buckets, answer>>

Next == Tick \/ Observe \/ Other \/ \E c \in Caps : enforceRateLimit(c)

Spec == Init /\ [][Next]_vars

-----------------------------------------------------------------------------
\* What c may spend at this moment.
Available(c) ==
  IF c \in DOMAIN buckets
    THEN AtMost(buckets[c].tokens + (now - buckets[c].last) * Rate[c], Capacity(c))
    ELSE Capacity(c)

(* Whenever one begins to count: in t seconds a capability gets at most    *)
(* rate * t requests more than the burst of one second's worth, however    *)
(* requests and evictions of its bucket interleave (enforceRateLimit).     *)
RateBound ==
  \A c \in Caps : count[c] * Cost <= Capacity(c) + (now - mark) * Rate[c]

Ideal == INSTANCE TokenBucket WITH level <- [c \in Caps |-> Available(c)]

(* Neither the lazy refill nor the eviction of stale buckets, which every  *)
(* request does for all capabilities, can be seen: requests are admitted   *)
(* and refused as by buckets that are refilled at every tick and never     *)
(* deleted, each for itself (enforceRateLimit).                            *)
ImplementsTokenBucket == Ideal!Spec
=============================================================================
