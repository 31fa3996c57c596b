---------------------------- MODULE Policy_proofs ----------------------------
(***************************************************************************)
(* The rate bound and the refinement of the ideal limiter, for all rates:  *)
(* the eviction of stale buckets, which forgets their tokens, changes      *)
(* nothing, as a bucket that old would be full.  And the path check, for   *)
(* all prefixes and paths: without ".." a path stays where it started.     *)
(***************************************************************************)
EXTENDS Policy, NatRecursion_proofs

(* What was admitted since mark and what may still be spent come out of    *)
(* one burst and the refill since.                                         *)
RateInv ==
  /\ TypeOK
  /\ \A c \in Caps : Rate[c] = 0 => count[c] = 0
  /\ \A c \in Caps : Rate[c] > 0 =>
       count[c] * Cost + Available(c) <= Capacity(c) + (now - mark) * Rate[c]

-----------------------------------------------------------------------------
(* Arithmetic of the refill: longer waits give more, and ticks add up.     *)
LEMMA Products ==
  ASSUME NEW x \in Nat, NEW y \in Nat, NEW r \in Nat
  PROVE  /\ x * r \in Nat
         /\ x <= y => x * r <= y * r
         /\ (x + 1) * r = x * r + r
<1>1. x * r \in Nat
  OBVIOUS
<1>2. x <= y => x * r <= y * r
  OBVIOUS
<1>3. (x + 1) * r = x * r + r
  OBVIOUS
<1> QED
  BY <1>1, <1>2, <1>3

(* The sizes of a bucket and of a request.                                 *)
LEMMA Sizes ==
  /\ Cost \in Nat
  /\ \A c \in Caps : Capacity(c) \in Nat /\ Rate[c] \in Nat
<1>1. Cost \in Nat
  BY RateAssumption, Products DEF Cost
<1>2. ASSUME NEW c \in Caps PROVE Capacity(c) \in Nat /\ Rate[c] \in Nat
  BY RateAssumption, Products DEF Capacity
<1> QED
  BY <1>1, <1>2

(* What is available is a number of tokens the bucket can hold.            *)
LEMMA AvailableType ==
  ASSUME TypeOK, NEW c \in Caps
  PROVE  Available(c) \in 0..Capacity(c)
<1>1. CASE c \notin DOMAIN buckets
  BY <1>1, Sizes DEF Available
<1>2. CASE c \in DOMAIN buckets
  <2>1. buckets[c].tokens \in 0..Capacity(c) /\ buckets[c].last \in 0..now /\ now \in Nat
    BY <1>2 DEF TypeOK, Bucket
  <2>2. now - buckets[c].last \in Nat
    BY <2>1
  <2>3. (now - buckets[c].last) * Rate[c] \in Nat
    BY <2>2, Sizes, Products
  <2> QED
    BY <1>2, <2>1, <2>3, Sizes DEF Available, AtMost
<1> QED
  BY <1>1, <1>2

(* A bucket that is evicted was full again.                                *)
LEMMA StaleIsFull ==
  ASSUME TypeOK, NEW c \in DOMAIN buckets, stale(buckets[c])
  PROVE  Available(c) = Capacity(c)
<1>1. buckets[c].tokens \in Nat /\ now - buckets[c].last \in Nat /\ c \in Caps
  BY DEF TypeOK, Bucket
<1>2. Second <= now - buckets[c].last /\ Second \in Nat
  BY <1>1, RateAssumption DEF stale, TypeOK, Bucket
<1>3. Second * Rate[c] <= (now - buckets[c].last) * Rate[c]
  BY <1>1, <1>2, Sizes, Products
<1>4. Capacity(c) = Second * Rate[c]
  BY <1>1, RateAssumption DEF Capacity
<1>5. (now - buckets[c].last) * Rate[c] \in Nat
  BY <1>1, Sizes, Products
<1> QED
  BY <1>1, <1>3, <1>4, <1>5, Sizes DEF Available, AtMost

(* The bucket that is looked up and refilled has what is available.        *)
LEMMA RefilledIsAvailable ==
  ASSUME TypeOK, NEW c \in Caps
  PROVE  refilled(found(c), c) = [tokens |-> Available(c), last |-> now]
<1>1. CASE c \in DOMAIN buckets /\ ~stale(buckets[c])
  BY <1>1 DEF refilled, found, Available
<1>2. CASE ~(c \in DOMAIN buckets /\ ~stale(buckets[c]))
  <2>1. found(c) = [tokens |-> Capacity(c), last |-> now]
    BY <1>2 DEF found
  <2>2. Available(c) = Capacity(c)
    BY <1>2, StaleIsFull DEF Available
  <2>3. (now - now) * Rate[c] = 0
    BY Sizes DEF TypeOK
  <2> QED
    BY <2>1, <2>2, <2>3, Sizes DEF refilled, AtMost
<1> QED
  BY <1>1, <1>2

(* A request changes nothing but the bucket and the count of its own       *)
(* capability, by the cost of one request or not at all.                   *)
LEMMA EnforceEffect ==
  ASSUME TypeOK, NEW c \in Caps, enforceRateLimit(c)
  PROVE  /\ TypeOK'
         /\ \A d \in Caps : d # c => Available(d)' = Available(d) /\ count'[d] = count[d]
         /\ \/ /\ Available(c)' = Available(c) /\ Available(c) < Cost
               /\ count'[c] = count[c] /\ answer' = [cap |-> c, admitted |-> FALSE]
            \/ /\ Available(c)' = Available(c) - Cost /\ Cost <= Available(c)
               /\ count'[c] = count[c] + 1 /\ answer' = [cap |-> c, admitted |-> TRUE]
<1> DEFINE kept == {d \in DOMAIN buckets : ~stale(buckets[d])} \cup {c}
           left == IF Available(c) < Cost THEN Available(c) ELSE Available(c) - Cost
           spent == [tokens |-> left, last |-> now]
<1>1. /\ Rate[c] > 0 /\ now' = now /\ mark' = mark
      /\ buckets' = [d \in kept |-> IF d = c THEN spent ELSE buckets[d]]
      /\ count' = [count EXCEPT ![c] = IF Available(c) < Cost THEN @ ELSE @ + 1]
      /\ answer' = [cap |-> c, admitted |-> Available(c) >= Cost]
  <2>1. PICK b : b = refilled(found(c), c)
    OBVIOUS
  <2>2. b = [tokens |-> Available(c), last |-> now]
    BY <2>1, RefilledIsAvailable
  <2>3. (IF b.tokens < Cost THEN b ELSE [b EXCEPT !.tokens = @ - Cost]) = spent
    <3>1. CASE b.tokens < Cost
      BY <2>2, <3>1
    <3>2. CASE ~(b.tokens < Cost)
      BY <2>2, <3>2
    <3> QED
      BY <3>1, <3>2
  <2>4. b.tokens = Available(c)
    BY <2>2
  <2>5. /\ buckets' = [d \in kept |->
                         IF d = c THEN IF b.tokens < Cost THEN b
                                       ELSE [b EXCEPT !.tokens = @ - Cost]
                                  ELSE buckets[d]]
        /\ count' = [count EXCEPT ![c] = IF b.tokens < Cost THEN @ ELSE @ + 1]
        /\ answer' = [cap |-> c, admitted |-> b.tokens >= Cost]
        /\ Rate[c] > 0 /\ now' = now /\ mark' = mark
    BY <2>1, Zenon DEF enforceRateLimit, parseRate
  <2> HIDE DEF spent, kept
  <2> QED
    BY <2>3, <2>4, <2>5
<1>2. left \in 0..Capacity(c)
  BY AvailableType, Sizes
<1> HIDE DEF left
<1>3. now \in Nat /\ \A d \in Caps : Bucket(d)' = Bucket(d)
  BY <1>1 DEF TypeOK, Bucket, Capacity
<1>4. spent \in Bucket(c)
  BY <1>2, <1>3 DEF Bucket
<1>5. TypeOK'
  <2>1. DOMAIN buckets' = kept /\ kept \subseteq Caps
    BY <1>1 DEF TypeOK
  <2>2. ASSUME NEW d \in kept PROVE Rate[d] > 0 /\ buckets'[d] \in Bucket(d)'
    <3>1. CASE d = c
      BY <1>1, <1>3, <1>4, <3>1
    <3>2. CASE d # c
      BY <1>1, <1>3, <2>1, <3>2 DEF TypeOK
    <3> QED
      BY <3>1, <3>2
  <2>3. count' \in [Caps -> Nat]
    BY <1>1 DEF TypeOK
  <2>4. answer' \in Answers
    BY <1>1 DEF Answers
  <2> QED
    BY <1>1, <2>1, <2>2, <2>3, <2>4 DEF TypeOK
<1>6. ASSUME NEW d \in Caps, d # c PROVE Available(d)' = Available(d) /\ count'[d] = count[d]
  <2>1. CASE d \in DOMAIN buckets /\ stale(buckets[d])
    <3>1. d \notin DOMAIN buckets'
      BY <1>1, <1>6, <2>1
    <3>2. Available(d)' = Capacity(d)
      BY <3>1 DEF Available, Capacity
    <3> QED
      BY <1>1, <1>6, <2>1, <3>2, StaleIsFull DEF TypeOK
  <2>2. CASE d \in DOMAIN buckets /\ ~stale(buckets[d])
    <3>1. d \in DOMAIN buckets' /\ buckets'[d] = buckets[d]
      BY <1>1, <1>6, <2>2
    <3> QED
      BY <1>1, <1>6, <2>2, <3>1 DEF TypeOK, Available, Capacity
  <2>3. CASE d \notin DOMAIN buckets
    BY <1>1, <1>6, <2>3 DEF TypeOK, Available, Capacity
  <2> QED
    BY <2>1, <2>2, <2>3
<1>7. Available(c)' = left
  <2>1. c \in DOMAIN buckets' /\ buckets'[c] = spent
    BY <1>1
  <2>2. (now' - now) * Rate[c] = 0
    BY <1>1, <1>3, Sizes
  <2> QED
    BY <1>1, <1>2, <2>1, <2>2, Sizes DEF Available, AtMost, Capacity
<1>8. count[c] \in Nat /\ Available(c) \in Nat /\ Cost \in Nat
  BY AvailableType, Sizes DEF TypeOK
<1>9. c \in DOMAIN count
  BY DEF TypeOK
<1>10. CASE Available(c) < Cost
  <2>1. left = Available(c) /\ count'[c] = count[c] /\ (Available(c) >= Cost) = FALSE
    BY <1>1, <1>8, <1>9, <1>10 DEF left
  <2>2. answer' = [cap |-> c, admitted |-> FALSE]
    BY Zenon, <1>1, <2>1
  <2> QED
    BY Zenon, <1>5, <1>6, <1>7, <1>10, <2>1, <2>2
<1>11. CASE ~(Available(c) < Cost)
  <2>1. left = Available(c) - Cost /\ count'[c] = count[c] + 1 /\ Available(c) >= Cost
    BY <1>1, <1>8, <1>9, <1>11 DEF left
  <2> QED
    BY Zenon, <1>1, <1>5, <1>6, <1>7, <1>8, <2>1
<1> QED
  BY Zenon, <1>10, <1>11

(* The clock only refills, up to the brim.                                 *)
LEMMA TickEffect ==
  ASSUME TypeOK, Tick
  PROVE  /\ TypeOK'
         /\ \A c \in Caps : /\ Available(c)' \in Nat /\ Available(c)' <= Available(c) + Rate[c]
                            /\ Available(c)' = AtMost(Available(c) + Rate[c], Capacity(c))
<1>1. /\ now \in Nat /\ now' = now + 1 /\ now' \in 0..MaxTime
      /\ UNCHANGED <<buckets, answer, mark, count>>
  BY RateAssumption DEF TypeOK, Tick
<1>2. TypeOK'
  <2>1. \A c \in Caps : Bucket(c) \subseteq Bucket(c)'
    BY <1>1 DEF Bucket, Capacity
  <2> QED
    BY <1>1, <2>1 DEF TypeOK
<1>3. ASSUME NEW c \in Caps
      PROVE  /\ Available(c)' \in Nat /\ Available(c)' <= Available(c) + Rate[c]
             /\ Available(c)' = AtMost(Available(c) + Rate[c], Capacity(c))
  <2>1. CASE c \in DOMAIN buckets
    <3>1. buckets[c].tokens \in Nat /\ now - buckets[c].last \in Nat
      BY <2>1 DEF TypeOK, Bucket
    <3> DEFINE w == now - buckets[c].last
    <3>2. (w + 1) * Rate[c] = w * Rate[c] + Rate[c] /\ w * Rate[c] \in Nat
      BY <3>1, Sizes, Products
    <3>3. now' - buckets'[c].last = w + 1
      BY <1>1, <2>1, <3>1 DEF TypeOK, Bucket
    <3>4. Available(c)' = AtMost(buckets[c].tokens + (w + 1) * Rate[c], Capacity(c))
      BY <1>1, <2>1, <3>3 DEF Available, Capacity
    <3>5. Available(c) = AtMost(buckets[c].tokens + w * Rate[c], Capacity(c))
      BY <2>1 DEF Available
    <3> QED
      BY <3>1, <3>2, <3>4, <3>5, Sizes DEF AtMost
  <2>2. CASE c \notin DOMAIN buckets
    <3>1. Available(c)' = Capacity(c) /\ Available(c) = Capacity(c)
      BY <1>1, <2>2 DEF Available, Capacity
    <3> QED
      BY <3>1, Sizes DEF AtMost
  <2> QED
    BY <2>1, <2>2
<1> QED
  BY <1>2, <1>3

(* Steps that touch neither the clock nor a bucket.                        *)
LEMMA AvailableKept ==
  UNCHANGED <<now, buckets>> => \A c \in Caps : Available(c)' = Available(c)
  BY DEF Available, Capacity

(* There is a full burst at the start, and an observer starts at any time. *)
LEMMA RateInit == Init => RateInv
<1> SUFFICES ASSUME Init PROVE RateInv
  OBVIOUS
<1>1. TypeOK
  BY RateAssumption DEF Init, TypeOK, Bucket, Answers
<1>2. ASSUME NEW c \in Caps
      PROVE  count[c] * Cost + Available(c) <= Capacity(c) + (now - mark) * Rate[c]
  <2>1. count[c] = 0 /\ now = 0 /\ mark = 0 /\ Available(c) = Capacity(c)
    BY DEF Init, Available
  <2>2. 0 * Cost = 0 /\ (0 - 0) * Rate[c] = 0
    BY Sizes
  <2> QED
    BY <2>1, <2>2, Sizes
<1> QED
  BY <1>1, <1>2 DEF RateInv, Init

(* Requests move tokens from what is available to what was admitted.       *)
LEMMA RateStep == RateInv /\ [Next]_vars => RateInv'
<1> SUFFICES ASSUME RateInv, [Next]_vars PROVE RateInv'
  OBVIOUS
<1>1. TypeOK
  BY DEF RateInv
<1>2. \A c \in Caps : count[c] \in Nat /\ Available(c) \in Nat /\ count[c] * Cost \in Nat
  BY <1>1, AvailableType, Sizes, Products DEF TypeOK
<1>3. now \in Nat /\ mark \in Nat /\ now - mark \in Nat
  BY <1>1 DEF TypeOK
<1>4. \A c \in Caps : (now - mark) * Rate[c] \in Nat
  BY <1>3, Sizes, Products
<1>5. CASE Tick
  <2>1. /\ TypeOK' /\ now' = now + 1 /\ mark' = mark /\ count' = count
        /\ \A c \in Caps : Available(c)' \in Nat /\ Available(c)' <= Available(c) + Rate[c]
    BY <1>1, <1>5, TickEffect DEF Tick
  <2>2. ASSUME NEW c \in Caps, Rate[c] > 0
        PROVE  count'[c] * Cost + Available(c)' <= Capacity(c) + (now' - mark') * Rate[c]
    <3>1. now' - mark' = (now - mark) + 1
      BY <1>3, <2>1
    <3>2. (now' - mark') * Rate[c] = (now - mark) * Rate[c] + Rate[c]
      BY <1>3, <3>1, Sizes, Products
    <3>3. count[c] * Cost + Available(c) <= Capacity(c) + (now - mark) * Rate[c]
      BY <2>2 DEF RateInv
    <3> QED
      BY <1>2, <1>4, <2>1, <3>2, <3>3, Sizes
  <2> QED
    BY <2>1, <2>2 DEF RateInv, Cost, Capacity
<1>6. ASSUME NEW c \in Caps, enforceRateLimit(c) PROVE RateInv'
  <2>1. /\ TypeOK' /\ now' = now /\ mark' = mark /\ Rate[c] > 0
        /\ \A d \in Caps : d # c => Available(d)' = Available(d) /\ count'[d] = count[d]
        /\ \/ Available(c)' = Available(c) /\ count'[c] = count[c]
           \/ /\ Available(c)' = Available(c) - Cost /\ Cost <= Available(c)
              /\ count'[c] = count[c] + 1
    BY Zenon, <1>1, <1>6, EnforceEffect DEF enforceRateLimit, parseRate
  <2>2. \A d \in Caps : Rate[d] = 0 => count'[d] = 0
    BY <2>1 DEF RateInv
  <2>3. ASSUME NEW d \in Caps, Rate[d] > 0
        PROVE  count'[d] * Cost + Available(d)' <= Capacity(d) + (now' - mark') * Rate[d]
    <3>1. count[d] * Cost + Available(d) <= Capacity(d) + (now - mark) * Rate[d]
      BY <2>3 DEF RateInv
    <3>2. CASE Available(d)' = Available(d) /\ count'[d] = count[d]
      BY <2>1, <3>1, <3>2
    <3>3. CASE Available(d)' = Available(d) - Cost /\ count'[d] = count[d] + 1
      <4>1. (count[d] + 1) * Cost = count[d] * Cost + Cost
        BY <1>2, Sizes, Products
      <4>2. count'[d] * Cost + Available(d)' = count[d] * Cost + Available(d)
        BY <1>2, <3>3, <4>1, Sizes
      <4> QED
        BY <2>1, <3>1, <4>2
    <3> QED
      BY <2>1, <3>2, <3>3
  <2> QED
    BY <2>1, <2>2, <2>3 DEF RateInv, Cost, Capacity
<1>7. CASE Observe
  <2>1. /\ now' = now /\ mark' = now /\ buckets' = buckets /\ answer' = answer
        /\ count' = [c \in Caps |-> 0]
    BY <1>7 DEF Observe
  <2>2. TypeOK'
    BY <1>1, <2>1 DEF TypeOK, Bucket, Capacity
  <2>3. ASSUME NEW c \in Caps
        PROVE  count'[c] * Cost + Available(c)' <= Capacity(c) + (now' - mark') * Rate[c]
    <3>1. Available(c)' = Available(c) /\ Available(c) \in 0..Capacity(c) /\ count'[c] = 0
      BY <1>1, <2>1, AvailableKept, AvailableType
    <3>2. 0 * Cost = 0 /\ (now' - mark') * Rate[c] = 0
      BY <1>3, <2>1, Sizes
    <3> QED
      BY <3>1, <3>2, Sizes
  <2> QED
    BY <2>1, <2>2, <2>3 DEF RateInv, Cost, Capacity
<1>8. CASE Other \/ UNCHANGED vars
  <2>1. UNCHANGED <<now, buckets, mark, count>> /\ answer' \in Answers
    BY <1>1, <1>8 DEF vars, Other, Answers, TypeOK
  <2> QED
    BY <2>1, AvailableKept DEF RateInv, TypeOK, Bucket, Cost, Capacity
<1> QED
  BY <1>5, <1>6, <1>7, <1>8 DEF Next

(* For all rates and any TTL of at least a second: the type invariant.     *)
THEOREM RateTypeCorrect == Spec => []TypeOK
<1>1. RateInv => TypeOK
  BY DEF RateInv
<1> QED
  BY <1>1, RateInit, RateStep, PTL DEF Spec

(* For all rates: no window of time sees more than its refill and a burst. *)
THEOREM RateIsBounded == Spec => []RateBound
<1>1. RateInv => RateBound
  <2> SUFFICES ASSUME RateInv, NEW c \in Caps
               PROVE  count[c] * Cost <= Capacity(c) + (now - mark) * Rate[c]
    BY DEF RateBound
  <2>1. TypeOK /\ count[c] \in Nat /\ now - mark \in Nat
    BY DEF RateInv, TypeOK
  <2>2. count[c] * Cost \in Nat /\ (now - mark) * Rate[c] \in Nat
    BY <2>1, Sizes, Products
  <2>3. CASE Rate[c] = 0
    <3>1. count[c] * Cost = 0
      BY <2>3, Sizes DEF RateInv
    <3> QED
      BY <2>2, <3>1, Sizes
  <2>4. CASE Rate[c] > 0
    BY <2>1, <2>2, <2>4, AvailableType, Sizes DEF RateInv
  <2> QED
    BY <2>3, <2>4, Sizes
<1> QED
  BY <1>1, RateInit, RateStep, PTL DEF Spec

(* For all rates and any TTL of at least a second, what requests see of    *)
(* the limiter is what they would see of the ideal one.                    *)
THEOREM LimiterIsIdeal == Spec => ImplementsTokenBucket
<1> DEFINE level == [c \in Caps |-> Available(c)]
<1>1. Init => Ideal!Init
  <2> SUFFICES ASSUME Init PROVE Ideal!Init
    BY Zenon
  <2>1. \A c \in Caps : Available(c) = Rate[c] * Second
    BY DEF Init, Available, Capacity
  <2>2. level = [c \in Caps |-> Rate[c] * Second]
    BY Zenon, <2>1
  <2> QED
    BY Zenon, <2>2 DEF Init, Ideal!Init, Ideal!Capacity, NoAnswer, Ideal!None
<1>2. ASSUME TypeOK, [Next]_vars PROVE [Ideal!Next]_(Ideal!vars)
  <2>1. CASE Tick
    <3>1. answer' = answer
      BY Zenon, <2>1 DEF Tick
    <3>2. \A c \in Caps : Available(c)' = AtMost(level[c] + Rate[c], Capacity(c))
      BY Zenon, <1>2, <2>1, TickEffect
    <3>3. level' = [c \in Caps |-> AtMost(level[c] + Rate[c], Capacity(c))]
      BY Zenon, <3>2
    <3>4. Ideal!Tick
      BY Zenon, <3>1, <3>3 DEF Ideal!Tick, Ideal!Capacity, Capacity, AtMost
    <3> QED
      BY Zenon, <3>4 DEF Ideal!Next
  <2>2. ASSUME NEW c \in Caps, enforceRateLimit(c) PROVE Ideal!Next
    <3>1. /\ \A d \in Caps : d # c => Available(d)' = Available(d)
          /\ \/ /\ Available(c)' = Available(c) /\ Available(c) < Cost
                /\ answer' = [cap |-> c, admitted |-> FALSE]
             \/ /\ Available(c)' = Available(c) - Cost /\ Cost <= Available(c)
                /\ answer' = [cap |-> c, admitted |-> TRUE]
      BY Zenon, <1>2, <2>2, EnforceEffect
    <3>2. Available(c) \in Int /\ Cost \in Int /\ Ideal!Cost = Cost
      BY <1>2, AvailableType, Sizes DEF Cost, Ideal!Cost
    <3>3. CASE Available(c) < Cost
      <4>1. Available(c)' = Available(c) /\ answer' = [cap |-> c, admitted |-> FALSE]
        BY <3>1, <3>2, <3>3
      <4>2. level' = level
        BY Zenon, <3>1, <4>1
      <4>3. Ideal!Refuse(c)
        BY Zenon, <3>2, <3>3, <4>1, <4>2 DEF Ideal!Refuse
      <4> QED
        BY Zenon, <4>3 DEF Ideal!Next
    <3>4. CASE ~(Available(c) < Cost)
      <4>1. /\ Available(c)' = Available(c) - Cost /\ Available(c) >= Cost
            /\ answer' = [cap |-> c, admitted |-> TRUE]
        BY <3>1, <3>2, <3>4
      <4>2. level' = [level EXCEPT ![c] = level[c] - Cost]
        BY Zenon, <3>1, <4>1
      <4>3. Ideal!Admit(c)
        BY Zenon, <3>2, <4>1, <4>2 DEF Ideal!Admit
      <4> QED
        BY Zenon, <4>3 DEF Ideal!Next
    <3> QED
      BY Zenon, <3>3, <3>4
  <2>3. CASE Observe \/ UNCHANGED vars
    <3>1. UNCHANGED <<now, buckets, answer>>
      BY Zenon, <2>3 DEF Observe, vars
    <3>2. level' = level
      BY Zenon, <3>1, AvailableKept
    <3> QED
      BY Zenon, <3>1, <3>2 DEF Ideal!vars
  <2>4. CASE Other
    <3>1. UNCHANGED <<now, buckets>> /\ answer' = NoAnswer
      BY Zenon, <2>4 DEF Other
    <3>2. level' = level
      BY Zenon, <3>1, AvailableKept
    <3>3. Ideal!Other
      BY Zenon, <3>1, <3>2 DEF Ideal!Other, NoAnswer, Ideal!None
    <3> QED
      BY Zenon, <3>3 DEF Ideal!Next
  <2> QED
    BY Zenon, <1>2, <2>1, <2>2, <2>3, <2>4 DEF Next
<1> QED
  BY <1>1, <1>2, RateTypeCorrect, PTL DEF Spec, ImplementsTokenBucket, Ideal!Spec

-----------------------------------------------------------------------------
(* What Authorize does to the limiter is what a request does to it, or     *)
(* nothing: all that is proved of the limiter holds in the policy layer.   *)
THEOREM PolicyImplementsRateLimit == PolicySpec => Spec
<1>1. ASSUME NEW c, NEW m, NEW p, Authorize(c, m, p)
      PROVE  Other \/ (c \in Caps /\ enforceRateLimit(c))
  BY Zenon, <1>1 DEF Authorize, enforceConstraints, limit, Answer
<1>2. PolicyNext => Next
  BY Zenon, <1>1 DEF PolicyNext, Next
<1>3. UNCHANGED policyVars => UNCHANGED vars
  BY Zenon DEF policyVars, vars
<1>4. PolicyInit => Init
  BY Zenon DEF PolicyInit
<1> QED
  BY <1>2, <1>3, <1>4, PTL DEF PolicySpec, Spec

(* For all claims, requests and rates: a refused request costs nobody a    *)
(* token (Authorize, enforceConstraints).                                  *)
THEOREM RefusalsCostNothing == PolicySpec => RefusalsAreFree
<1> DEFINE Free == now' = now /\ last'.code # "OK" =>
                     \A c \in Caps : Available(c)' = Available(c)
<1>1. ASSUME TypeOK, PolicyNext, now' = now, last'.code # "OK", NEW d \in Caps
      PROVE  Available(d)' = Available(d)
  <2>1. CASE Tick
    BY <1>1, <2>1 DEF Tick, TypeOK
  <2>2. CASE Observe \/ Other
    BY Zenon, <2>2, AvailableKept DEF Observe, Other
  <2>3. ASSUME NEW r \in Requests, Authorize(r.cap, r.method, r.path), ~Other
        PROVE  Available(d)' = Available(d)
    <3> DEFINE c == r.cap
    <3>1. /\ c \in Caps /\ enforceRateLimit(c)
          /\ last' = [cap |-> c, method |-> r.method, path |-> r.path,
                      code |-> IF answer'.admitted THEN "OK" ELSE "RESOURCE_EXHAUSTED"]
      BY Zenon, <2>3 DEF Authorize, enforceConstraints, limit, Answer
    <3>2. /\ d # c => Available(d)' = Available(d)
          /\ \/ Available(c)' = Available(c)
             \/ answer' = [cap |-> c, admitted |-> TRUE]
      BY Zenon, <1>1, <3>1, EnforceEffect
    <3>3. answer' # [cap |-> c, admitted |-> TRUE]
      BY <1>1, <3>1
    <3> QED
      BY Zenon, <3>2, <3>3
  <2> QED
    BY Zenon, <1>1, <2>1, <2>2, <2>3 DEF PolicyNext
<1>2. TypeOK /\ [PolicyNext]_policyVars => [Free]_policyVars
  BY Zenon, <1>1
<1> QED
  BY <1>2, PolicyImplementsRateLimit, RateTypeCorrect, PTL DEF PolicySpec, RefusalsAreFree

-----------------------------------------------------------------------------
(* The directories that a path goes through.                               *)
Walk(p) ==
  CHOOSE at : at = [i \in 0..Len(p) |-> IF i = 0 THEN <<>> ELSE enter(at[i - 1], p[i])]

(* Names lead to directories.                                              *)
LEMMA EnterType ==
  ASSUME NEW dir \in Seq(STRING), NEW name \in STRING
  PROVE  enter(dir, name) \in Seq(STRING)
<1>1. CASE name \in {"", "."}
  BY <1>1 DEF enter
<1>2. CASE name = ".."
  BY <1>2 DEF enter
<1>3. CASE name \notin {"", "."} /\ name # ".."
  <2>1. enter(dir, name) = Append(dir, name)
    BY Zenon, <1>3 DEF enter
  <2>2. ASSUME NEW S, NEW s \in Seq(S), NEW e \in S PROVE Append(s, e) \in Seq(S)
    OBVIOUS
  <2> QED
    BY Zenon, <2>1, <2>2
<1> QED
  BY Zenon, <1>1, <1>2, <1>3

(* The recursion of Clean is well defined.                                 *)
LEMMA WalkDef ==
  ASSUME NEW p \in Seq(STRING)
  PROVE  /\ Clean(p) = Walk(p)[Len(p)]
         /\ Walk(p)[0] = <<>>
         /\ \A i \in 1..Len(p) : Walk(p)[i] = enter(Walk(p)[i - 1], p[i])
         /\ \A i \in 0..Len(p) : Walk(p)[i] \in Seq(STRING)
<1> DEFINE n == Len(p)
           Eq(at) == at = [i \in 0..n |-> IF i = 0 THEN <<>> ELSE enter(at[i - 1], p[i])]
           G == [i \in Nat |-> [s \in Seq(STRING) |-> IF i \in 1..n THEN enter(s, p[i]) ELSE s]]
<1>1. n \in Nat /\ \A i \in 1..n : p[i] \in STRING
  OBVIOUS
<1>2. G \in [Nat -> [Seq(STRING) -> Seq(STRING)]] /\ <<>> \in Seq(STRING)
  <2>1. ASSUME NEW i \in Nat, NEW s \in Seq(STRING)
        PROVE  (IF i \in 1..n THEN enter(s, p[i]) ELSE s) \in Seq(STRING)
    BY Zenon, <1>1, EnterType
  <2>2. <<>> \in Seq(STRING)
    OBVIOUS
  <2> QED
    BY Zenon, <2>1, <2>2
<1>3. PICK f \in [Nat -> Seq(STRING)] : Recursive(f, <<>>, G)
  <2> HIDE DEF G
  <2> QED
    BY Zenon, <1>2, RecursionExists
<1>4. f[0] = <<>> /\ \A i \in 1..n : f[i] = enter(f[i - 1], p[i])
  <2>1. f[0] = <<>>
    BY Zenon, <1>3 DEF Recursive
  <2>2. ASSUME NEW i \in 1..n PROVE f[i] = enter(f[i - 1], p[i])
    <3>1. i \in Nat /\ i # 0 /\ i - 1 \in Nat
      BY <1>1
    <3>2. f[i] = G[i][f[i - 1]]
      BY Zenon, <1>3, <3>1 DEF Recursive
    <3>3. f[i - 1] \in Seq(STRING)
      BY Zenon, <3>1
    <3> QED
      BY Zenon, <3>1, <3>2, <3>3
  <2> QED
    BY Zenon, <2>1, <2>2
<1> DEFINE h == [i \in 0..n |-> f[i]]
<1>5. Eq(h)
  <2>1. ASSUME NEW i \in 0..n PROVE h[i] = IF i = 0 THEN <<>> ELSE enter(h[i - 1], p[i])
    <3>1. CASE i = 0
      BY Zenon, <1>4, <3>1
    <3>2. CASE i # 0
      <4>1. i \in 1..n /\ i - 1 \in 0..n
        BY <1>1, <3>2
      <4> QED
        BY Zenon, <1>4, <3>2, <4>1
    <3> QED
      BY Zenon, <3>1, <3>2
  <2> QED
    BY Zenon, <2>1
<1>6. Eq(Walk(p))
  <2>1. Walk(p) = CHOOSE at : Eq(at)
    BY Zenon DEF Walk
  <2> HIDE DEF Eq, h
  <2> QED
    BY Zenon, <1>5, <2>1
<1>7. Clean(p) = Walk(p)[n]
  BY Zenon DEF Clean, Walk
<1>8. Walk(p)[0] = <<>>
  <2>1. 0 \in 0..n
    BY <1>1
  <2> QED
    BY Zenon, <1>6, <2>1
<1>9. ASSUME NEW i \in 1..n PROVE Walk(p)[i] = enter(Walk(p)[i - 1], p[i])
  <2>1. i \in 0..n /\ i # 0
    BY <1>1
  <2> QED
    BY Zenon, <1>6, <2>1
<1>10. ASSUME NEW i \in 0..n PROVE Walk(p)[i] \in Seq(STRING)
  <2> DEFINE T == {j \in Nat : j <= n => Walk(p)[j] \in Seq(STRING)}
  <2>1. 0 \in T
    BY Zenon, <1>2, <1>8, 0 \in Nat
  <2>2. ASSUME NEW j \in T PROVE j + 1 \in T
    <3> SUFFICES ASSUME j + 1 <= n PROVE Walk(p)[j + 1] \in Seq(STRING)
      OBVIOUS
    <3>1. j + 1 \in 1..n /\ (j + 1) - 1 = j /\ Walk(p)[j] \in Seq(STRING)
      BY <1>1
    <3> QED
      BY Zenon, <1>1, <1>9, <3>1, EnterType
  <2>3. T = Nat
    <3>1. T \in SUBSET Nat
      OBVIOUS
    <3> HIDE DEF T
    <3> QED
      BY Zenon, <2>1, <2>2, <3>1, Induction
  <2>4. i \in Nat /\ i <= n
    BY <1>1
  <2> QED
    BY Zenon, <2>3, <2>4
<1> QED
  BY Zenon, <1>7, <1>8, <1>9, <1>10

(* The start of a path leads where it leads alone.                         *)
LEMMA WalkAgrees ==
  ASSUME NEW p \in Seq(STRING), NEW q \in Seq(STRING)
  PROVE  \A i \in 0..Len(p) : Walk(p \o q)[i] = Walk(p)[i]
<1> DEFINE T == {i \in Nat : i <= Len(p) => Walk(p \o q)[i] = Walk(p)[i]}
<1>1. /\ p \o q \in Seq(STRING) /\ Len(p) \in Nat /\ Len(p \o q) = Len(p) + Len(q) /\ Len(q) \in Nat
      /\ \A i \in 1..Len(p) : (p \o q)[i] = p[i]
  OBVIOUS
<1>2. 0 \in T
  BY Zenon, <1>1, WalkDef, 0 \in Nat
<1>3. ASSUME NEW i \in T PROVE i + 1 \in T
  <2> SUFFICES ASSUME i + 1 <= Len(p) PROVE Walk(p \o q)[i + 1] = Walk(p)[i + 1]
    OBVIOUS
  <2>1. /\ i + 1 \in 1..Len(p) /\ i + 1 \in 1..Len(p \o q) /\ (i + 1) - 1 = i
        /\ Walk(p \o q)[i] = Walk(p)[i]
    BY <1>1
  <2>2. Walk(p \o q)[i + 1] = enter(Walk(p \o q)[i], (p \o q)[i + 1])
    BY Zenon, <1>1, <2>1, WalkDef
  <2>3. Walk(p)[i + 1] = enter(Walk(p)[i], p[i + 1])
    BY Zenon, <2>1, WalkDef
  <2> QED
    BY Zenon, <1>1, <2>1, <2>2, <2>3
<1>4. T = Nat
  <2>1. T \in SUBSET Nat
    OBVIOUS
  <2> HIDE DEF T
  <2> QED
    BY Zenon, <1>2, <1>3, <2>1, Induction
<1>5. ASSUME NEW i \in 0..Len(p) PROVE Walk(p \o q)[i] = Walk(p)[i]
  <2>1. i \in Nat /\ i <= Len(p)
    BY <1>1
  <2> QED
    BY Zenon, <1>4, <2>1
<1> QED
  BY Zenon, <1>5

(* Only ".." leads out of a directory.                                     *)
LEMMA EnterUnder ==
  ASSUME NEW dir \in Seq(STRING), NEW s \in Seq(STRING), NEW name \in STRING,
         name # "..", Under(s, dir)
  PROVE  Under(enter(s, name), dir)
<1>1. CASE name \in {"", "."}
  BY Zenon, <1>1 DEF enter
<1>2. CASE name \notin {"", "."}
  <2>1. enter(s, name) = Append(s, name)
    BY Zenon, <1>2 DEF enter
  <2>2. ASSUME NEW S, NEW t \in Seq(S), NEW e \in S, NEW k \in Nat, k <= Len(t)
        PROVE  k <= Len(Append(t, e)) /\ SubSeq(Append(t, e), 1, k) = SubSeq(t, 1, k)
    BY <2>2
  <2>3. Len(dir) \in Nat
    OBVIOUS
  <2>4. Len(dir) <= Len(s) /\ SubSeq(s, 1, Len(dir)) = dir
    BY Zenon DEF Under
  <2>5. Len(dir) <= Len(Append(s, name)) /\ SubSeq(Append(s, name), 1, Len(dir)) = SubSeq(s, 1, Len(dir))
    BY Zenon, <2>2, <2>3, <2>4
  <2> QED
    BY Zenon, <2>1, <2>4, <2>5 DEF Under
<1> QED
  BY Zenon, <1>1, <1>2

(* A path that goes on without ".." stays under the directory it started   *)
(* from.                                                                   *)
LEMMA CleanUnder ==
  ASSUME NEW p \in Seq(STRING), NEW q \in Seq(STRING), \A i \in 1..Len(q) : q[i] # ".."
  PROVE  Under(Clean(p \o q), Clean(p))
<1> DEFINE w == Walk(p \o q)
           dir == Clean(p)
           T == {i \in Nat : i <= Len(q) => Under(w[Len(p) + i], dir)}
<1>1. /\ p \o q \in Seq(STRING) /\ Len(p) \in Nat /\ Len(p \o q) = Len(p) + Len(q) /\ Len(q) \in Nat
      /\ \A i \in 1..Len(q) : (p \o q)[Len(p) + i] = q[i] /\ q[i] \in STRING
  OBVIOUS
<1>2. dir \in Seq(STRING) /\ \A i \in 0..Len(p \o q) : w[i] \in Seq(STRING)
  <2>1. Len(p) \in 0..Len(p)
    BY <1>1
  <2> QED
    BY Zenon, <1>1, <2>1, WalkDef
<1>3. 0 \in T
  <2>1. Len(p) \in 0..Len(p) /\ Len(p) + 0 = Len(p) /\ 0 \in Nat
    BY <1>1
  <2>2. w[Len(p) + 0] = dir
    <3>1. w[Len(p)] = Walk(p)[Len(p)]
      BY Zenon, <2>1, WalkAgrees
    <3>2. dir = Walk(p)[Len(p)]
      BY Zenon, WalkDef
    <3> QED
      BY Zenon, <2>1, <3>1, <3>2
  <2>3. \A s \in Seq(STRING) : Under(s, s)
    BY DEF Under
  <2> QED
    BY Zenon, <1>2, <2>1, <2>2, <2>3
<1>4. ASSUME NEW i \in T PROVE i + 1 \in T
  <2> DEFINE k == Len(p) + (i + 1)
  <2> SUFFICES ASSUME i + 1 <= Len(q) PROVE Under(w[k], dir)
    OBVIOUS
  <2>1. /\ i + 1 \in 1..Len(q) /\ k \in 1..Len(p \o q) /\ k - 1 = Len(p) + i
        /\ k - 1 \in 0..Len(p \o q) /\ Under(w[Len(p) + i], dir)
    BY <1>1
  <2>2. w[k] = enter(w[k - 1], (p \o q)[k])
    BY Zenon, <1>1, <2>1, WalkDef
  <2>3. (p \o q)[k] \in STRING /\ (p \o q)[k] # ".."
    BY Zenon, <1>1, <2>1
  <2> HIDE DEF w, dir, k
  <2> QED
    BY Zenon, <1>2, <2>1, <2>2, <2>3, EnterUnder
<1>5. T = Nat
  <2>1. T \in SUBSET Nat
    OBVIOUS
  <2> HIDE DEF T
  <2> QED
    BY Zenon, <1>3, <1>4, <2>1, Induction
<1>6. Under(w[Len(p \o q)], dir)
  <2>1. Len(q) \in T
    BY Zenon, <1>1, <1>5
  <2>2. Len(q) <= Len(q)
    BY <1>1
  <2> HIDE DEF w, dir
  <2> QED
    BY Zenon, <1>1, <2>1, <2>2
<1> QED
  BY Zenon, <1>1, <1>6, WalkDef

(* The same of a path that is appended to a path_prefix.                   *)
LEMMA AbsUnder ==
  ASSUME NEW prefix \in Seq(STRING), prefix # <<>>, NEW q \in Seq(STRING),
         \A i \in 1..Len(q) : q[i] # ".."
  PROVE  Under(Abs(prefix \o q), Abs(prefix))
<1> DEFINE base == IF IsAbs(prefix) THEN prefix ELSE wd \o prefix
<1>1. wd \in Seq(STRING)
  BY Zenon, PathAssumption DEF PathAssumption
<1>2. IsAbs(prefix \o q) <=> IsAbs(prefix)
  <2>1. ASSUME NEW S, NEW s \in Seq(S), NEW t \in Seq(S), s # <<>>
        PROVE  s \o t # <<>> /\ (s \o t)[1] = s[1]
    BY <2>1
  <2> QED
    BY Zenon, <2>1 DEF IsAbs
<1>3. wd \o (prefix \o q) = (wd \o prefix) \o q
  BY <1>1
<1>4. Abs(prefix \o q) = Clean(base \o q)
  <2>1. CASE IsAbs(prefix)
    BY Zenon, <1>2, <2>1 DEF Abs
  <2>2. CASE ~IsAbs(prefix)
    BY Zenon, <1>2, <1>3, <2>2 DEF Abs
  <2> QED
    BY Zenon, <2>1, <2>2
<1>5. Abs(prefix) = Clean(base)
  BY Zenon DEF Abs
<1>6. base \in Seq(STRING)
  <2>1. wd \o prefix \in Seq(STRING)
    BY <1>1
  <2> QED
    BY Zenon, <2>1
<1> QED
  BY Zenon, <1>4, <1>5, <1>6, CleanUnder

(* What the last answer tells of the path check.                           *)
GrantInv ==
  /\ last.code = "OK" =>
       /\ last.cap \in Tokens /\ last.path \in Seq(STRING)
       /\ enforcePathPrefix(prefixOf(last.cap), last.path)
  /\ last.code = "PERMISSION_DENIED" /\ permitted(last.cap, last.method) =>
       /\ last.cap \in Tokens /\ last.path \in Seq(STRING)
       /\ ~enforcePathPrefix(prefixOf(last.cap), last.path)

(* Authorize answers as the path check says.                               *)
LEMMA GrantStep ==
  ASSUME GrantInv, [PolicyNext]_policyVars
  PROVE  GrantInv'
<1>1. CASE UNCHANGED last
  BY Zenon, <1>1 DEF GrantInv, prefixOf, permitted, hasRight, hasAction
<1>2. ASSUME NEW r \in Requests, Authorize(r.cap, r.method, r.path) PROVE GrantInv'
  <2> DEFINE c == r.cap
             m == r.method
             p == r.path
             said(code) == last' = [cap |-> c, method |-> m, path |-> p, code |-> code]
  <2>1. p \in Seq(STRING) /\ c \in Tokens \cup {"nil"}
    BY Zenon, ClaimsAssumption DEF ClaimsAssumption
  <2>2. ASSUME NEW code, said(code)
        PROVE  last'.cap = c /\ last'.method = m /\ last'.path = p /\ last'.code = code
    BY Zenon, <2>2
  <2>3. CASE c = nil
    <3>1. said("UNAUTHENTICATED")
      BY Zenon, <1>2, <2>3 DEF Authorize, Answer
    <3>2. last'.code = "UNAUTHENTICATED"
      BY Zenon, <2>2, <3>1
    <3> QED
      BY <3>2 DEF GrantInv
  <2>4. CASE c # nil /\ ~permitted(c, m)
    <3>1. said("PERMISSION_DENIED")
      BY Zenon, <1>2, <2>4 DEF Authorize, Answer
    <3>2. last'.code = "PERMISSION_DENIED" /\ last'.cap = c /\ last'.method = m
      BY Zenon, <2>2, <3>1
    <3>3. last'.code # "OK"
      BY <3>2
    <3> HIDE DEF c, m, said
    <3> QED
      BY Zenon, <2>4, <3>2, <3>3 DEF GrantInv, permitted, hasRight, hasAction
  <2>5. CASE c # nil /\ permitted(c, m) /\ ~enforcePathPrefix(prefixOf(c), p)
    <3>1. said("PERMISSION_DENIED")
      BY Zenon, <1>2, <2>5 DEF Authorize, enforceConstraints, prefixOf, Answer
    <3>2. last'.code = "PERMISSION_DENIED" /\ last'.cap = c /\ last'.path = p
      BY Zenon, <2>2, <3>1
    <3>3. last'.code # "OK"
      BY <3>2
    <3>4. c \in Tokens
      BY Zenon, <2>1, <2>5 DEF nil
    <3> HIDE DEF c, p, said
    <3> QED
      BY Zenon, <2>1, <2>5, <3>2, <3>3, <3>4 DEF GrantInv, prefixOf
  <2>6. CASE c # nil /\ permitted(c, m) /\ enforcePathPrefix(prefixOf(c), p)
    <3>1. limit(c, m, p)
      BY Zenon, <1>2, <2>6 DEF Authorize, enforceConstraints, prefixOf
    <3>2. \E code \in {"OK", "INVALID_ARGUMENT", "RESOURCE_EXHAUSTED"} : said(code)
      BY Zenon, <3>1 DEF limit, Answer
    <3>3. /\ last'.code \in {"OK", "INVALID_ARGUMENT", "RESOURCE_EXHAUSTED"}
          /\ last'.cap = c /\ last'.path = p
      BY Zenon, <2>2, <3>2
    <3>4. last'.code # "PERMISSION_DENIED"
      BY <3>3
    <3>5. c \in Tokens
      BY Zenon, <2>1, <2>6 DEF nil
    <3> HIDE DEF c, p, said
    <3> QED
      BY Zenon, <2>1, <2>6, <3>3, <3>4, <3>5 DEF GrantInv, prefixOf
  <2> QED
    BY Zenon, <2>3, <2>4, <2>5, <2>6
<1> QED
  BY Zenon, <1>1, <1>2 DEF PolicyNext, policyVars

(* What an answer tells of the path check, in every reachable state.       *)
THEOREM GrantInvariant == PolicySpec => []GrantInv
<1>1. PolicyInit => GrantInv
  <2> SUFFICES ASSUME PolicyInit PROVE GrantInv
    BY Zenon
  <2>1. last.code = ""
    BY Zenon DEF PolicyInit
  <2>2. last.code # "OK" /\ last.code # "PERMISSION_DENIED"
    BY <2>1
  <2> QED
    BY Zenon, <2>2 DEF GrantInv
<1> QED
  BY <1>1, GrantStep, PTL DEF PolicySpec

(* For all prefixes, paths and working directories: a request that is      *)
(* granted stays under its path_prefix all along its path                  *)
(* (enforcePathPrefix).                                                    *)
THEOREM PathsStayUnderPrefix == PolicySpec => []PathsAsGranted
<1>1. ASSUME GrantInv, last.code = "OK", prefixOf(last.cap) # <<>>, NEW i \in 0..Len(last.path)
      PROVE  Under(Abs(prefixOf(last.cap) \o SubSeq(last.path, 1, i)), Abs(prefixOf(last.cap)))
  <2> DEFINE prefix == prefixOf(last.cap)
             path == last.path
             q == SubSeq(path, 1, i)
  <2>1. path \in Seq(STRING) /\ last.cap \in Tokens /\ enforcePathPrefix(prefix, path)
    BY Zenon, <1>1 DEF GrantInv
  <2>2. prefix \in Seq(STRING)
    BY Zenon, <2>1, ClaimsAssumption DEF ClaimsAssumption, prefixOf
  <2>3. q \in Seq(STRING) /\ \A j \in 1..Len(q) : j \in 1..Len(path) /\ q[j] = path[j]
    BY <2>1
  <2>4. \A j \in 1..Len(path) : path[j] # ".."
    <3>1. CASE path = <<>>
      BY <3>1
    <3>2. CASE ~HasDotDot(path)
      <4>1. DOMAIN path = 1..Len(path)
        BY <2>1
      <4> QED
        BY Zenon, <3>2, <4>1, PathAssumption DEF HasDotDot, PathAssumption
    <3> QED
      BY Zenon, <1>1, <2>1, <3>1, <3>2 DEF enforcePathPrefix
  <2> HIDE DEF prefix, path, q
  <2>5. Under(Abs(prefix \o q), Abs(prefix))
    BY Zenon, <1>1, <2>2, <2>3, <2>4, AbsUnder DEF prefix
  <2> QED
    BY Zenon, <2>5 DEF prefix, path, q
<1>2. GrantInv => PathsAsGranted
  BY Zenon, <1>1 DEF PathsAsGranted
<1> QED
  BY <1>2, GrantInvariant, PTL

(* For all prefixes, paths and working directories: of the paths that a    *)
(* token with the right is denied, each is absolute or has ".." in it, or  *)
(* the prefix is the root (enforcePathPrefix).                             *)
THEOREM PlainPathsAreGranted == PolicySpec => []PlainPathsGranted
<1>1. ASSUME GrantInv, last.code = "PERMISSION_DENIED", permitted(last.cap, last.method),
             ~IsAbs(last.path), ~HasDotDot(last.path)
      PROVE  Abs(prefixOf(last.cap)) = <<>>
  <2> DEFINE prefix == prefixOf(last.cap)
             path == last.path
  <2>1. path \in Seq(STRING) /\ last.cap \in Tokens /\ ~enforcePathPrefix(prefix, path)
    BY Zenon, <1>1 DEF GrantInv
  <2>2. prefix \in Seq(STRING)
    BY Zenon, <2>1, ClaimsAssumption DEF ClaimsAssumption, prefixOf
  <2>3. prefix # <<>> /\ ~HasPrefix(Abs(prefix \o path), Abs(prefix))
    BY Zenon, <1>1, <2>1 DEF enforcePathPrefix
  <2>4. \A j \in 1..Len(path) : path[j] # ".."
    <3>1. DOMAIN path = 1..Len(path)
      BY <2>1
    <3> QED
      BY Zenon, <1>1, <3>1, PathAssumption DEF HasDotDot, PathAssumption
  <2>5. Under(Abs(prefix \o path), Abs(prefix))
    <3> HIDE DEF prefix, path
    <3> QED
      BY Zenon, <2>1, <2>2, <2>3, <2>4, AbsUnder
  <2> QED
    BY Zenon, <2>3, <2>5 DEF HasPrefix
<1>2. GrantInv => PlainPathsGranted
  BY Zenon, <1>1 DEF PlainPathsGranted
<1> QED
  BY <1>2, GrantInvariant, PTL
=============================================================================
