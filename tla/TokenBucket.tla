----------------------------- MODULE TokenBucket -----------------------------
(***************************************************************************)
(* What the rate limiter promises: a bucket for every capability, full at  *)
(* the start and refilled at every tick of the clock.  A request is        *)
(* admitted exactly when its bucket holds the cost of one, and costs       *)
(* nothing otherwise.  There is no eviction and no lazy refill here.       *)
(***************************************************************************)
EXTENDS Integers

CONSTANTS
  Caps,        \* cap_ids with a rate_limit
  Rate, Den,   \* requests per second of each, Rate[c] / Den
  Second       \* ticks in a second

VARIABLES
  level,   \* the tokens of each capability, in units of 1/(Second * Den)
  answer   \* the last answer: the capability, and whether it was admitted

vars == <<level, answer>>

Cost == Second * Den
Capacity(c) == Rate[c] * Second

None == [cap |-> "none", admitted |-> FALSE]

Init == level = [c \in Caps |-> Capacity(c)] /\ answer = None

Tick ==
  /\ level' = [c \in Caps |-> IF level[c] + Rate[c] > Capacity(c) THEN Capacity(c)
                              ELSE level[c] + Rate[c]]
  /\ UNCHANGED answer

Admit(c) ==
  /\ level[c] >= Cost
  /\ level' = [level EXCEPT ![c] = @ - Cost]
  /\ answer' = [cap |-> c, admitted |-> TRUE]

Refuse(c) ==
  /\ level[c] < Cost
  /\ answer' = [cap |-> c, admitted |-> FALSE]
  /\ UNCHANGED level

\* A request that the limiter does not see.
Other == answer' = None /\ UNCHANGED level

Next == Tick \/ Other \/ \E c \in Caps : Admit(c) \/ Refuse(c)

Spec == Init /\ [][Next]_vars
=============================================================================
