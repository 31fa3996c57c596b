-------------------------- MODULE CrashPolicy_proofs --------------------------
(***************************************************************************)
(* The quarantine window and the backoff, for any configuration and any    *)
(* number of crashes.                                                      *)
(***************************************************************************)
EXTENDS CrashPolicy, NatRecursion_proofs, FiniteSetTheorems

(* The kept crash times are those in the window before the last crash.     *)
WindowInv ==
  /\ CrashCount = 0 => CrashWindow = {}
  /\ CrashCount > 0 => CrashWindow = recent(1..CrashCount, at, at[CrashCount])

(* As long as nobody calls StartService there is one process, or one       *)
(* report of it, or one restart timer, that of the last crash.             *)
OneAtATime ==
  manual = 0 =>
    /\ procs + reports <= 1
    /\ State \in {Declared, Restarting, Quarantined} => procs = 0 /\ reports = 0
    /\ timers \subseteq {CrashCount}
    /\ timers # {} => State = Restarting

PolicyInv == TypeOK /\ WindowInv /\ QuarantineExact /\ OneAtATime

(* As long as nobody calls StartService, each crash comes after the delay  *)
(* of the one before it, and so does what runs now.                        *)
SpacedInv ==
  /\ State = Declared => CrashCount = 0
  /\ \A k \in 1..CrashCount : at[k] <= judged[k]
  /\ manual = 0 =>
       /\ \A k \in 1..CrashCount : k < CrashCount => at[k + 1] >= judged[k] + ComputeDelay(k)
       /\ (CrashCount > 0 /\ (procs > 0 \/ reports > 0)) => due(CrashCount)

-----------------------------------------------------------------------------
(* The loop of ComputeDelay is defined for any number of rounds.           *)
LEMMA DoubledDef ==
  /\ doubled \in [Nat -> Nat]
  /\ doubled[0] = BaseDelay
  /\ \A i \in Nat : doubled[i + 1] = IF 2 * doubled[i] > MaxDelay THEN MaxDelay ELSE 2 * doubled[i]
<1> USE PolicyAssumption DEF PolicyAssumption
<1> DEFINE G == [i \in Nat |-> [x \in Nat |-> IF 2 * x > MaxDelay THEN MaxDelay ELSE 2 * x]]
           Eq(f) == f = [i \in Nat |-> IF i = 0 THEN BaseDelay
                                       ELSE LET d == 2 * f[i - 1] IN IF d > MaxDelay THEN MaxDelay ELSE d]
<1>1. G \in [Nat -> [Nat -> Nat]] /\ BaseDelay \in Nat
  OBVIOUS
<1>2. PICK f \in [Nat -> Nat] : Recursive(f, BaseDelay, G)
  <2> HIDE DEF G
  <2> QED
    BY Zenon, <1>1, RecursionExists
<1>3. Eq(f)
  <2> DEFINE g == [i \in Nat |-> IF i = 0 THEN BaseDelay
                                  ELSE LET d == 2 * f[i - 1] IN IF d > MaxDelay THEN MaxDelay ELSE d]
  <2>1. ASSUME NEW i \in Nat PROVE f[i] = g[i]
    <3>1. CASE i = 0
      BY <1>2, <3>1 DEF Recursive
    <3>2. CASE i # 0
      <4>1. f[i] = G[i][f[i - 1]]
        BY Zenon, <1>2, <3>2 DEF Recursive
      <4>2. i - 1 \in Nat /\ f[i - 1] \in Nat
        BY <3>2
      <4> QED
        BY <3>2, <4>1, <4>2
    <3> QED
      BY Zenon, <3>1, <3>2
  <2> QED
    BY <2>1
<1>4. doubled = CHOOSE g : Eq(g)
  BY Zenon DEF doubled
<1>5. Eq(doubled)
  <2> HIDE DEF Eq
  <2> QED
    BY Zenon, <1>3, <1>4
<1>6. /\ doubled[0] = BaseDelay
      /\ \A i \in Nat : doubled[i + 1] = IF 2 * doubled[i] > MaxDelay THEN MaxDelay ELSE 2 * doubled[i]
  <2>1. \A i \in Nat : i + 1 \in Nat /\ i + 1 # 0 /\ (i + 1) - 1 = i
    OBVIOUS
  <2> HIDE DEF G
  <2> QED
    BY Zenon, <1>5, <2>1
<1>7. doubled \in [Nat -> Nat]
  <2>1. doubled = [i \in Nat |-> doubled[i]]
    BY Zenon, <1>5
  <2>2. doubled[0] \in Nat /\ \A i \in Nat : doubled[i] \in Nat => doubled[i + 1] \in Nat
    BY <1>6
  <2> QED
    BY Zenon, <2>1, <2>2, RecursionType
<1> QED
  BY Zenon, <1>6, <1>7

(* The powers of two of the documented delay.                              *)
LEMMA TwoToTheDef ==
  /\ twoToThe \in [Nat -> Nat]
  /\ twoToThe[0] = 1
  /\ \A i \in Nat : twoToThe[i + 1] = 2 * twoToThe[i]
<1> DEFINE G == [i \in Nat |-> [x \in Nat |-> 2 * x]]
           Eq(f) == f = [i \in Nat |-> IF i = 0 THEN 1 ELSE 2 * f[i - 1]]
<1>1. G \in [Nat -> [Nat -> Nat]] /\ 1 \in Nat
  OBVIOUS
<1>2. PICK f \in [Nat -> Nat] : Recursive(f, 1, G)
  <2> HIDE DEF G
  <2> QED
    BY Zenon, <1>1, RecursionExists
<1>3. Eq(f)
  <2>1. ASSUME NEW i \in Nat PROVE f[i] = IF i = 0 THEN 1 ELSE 2 * f[i - 1]
    <3>1. CASE i = 0
      BY <1>2, <3>1 DEF Recursive
    <3>2. CASE i # 0
      <4>1. f[i] = G[i][f[i - 1]]
        BY Zenon, <1>2, <3>2 DEF Recursive
      <4>2. i - 1 \in Nat /\ f[i - 1] \in Nat
        BY <3>2
      <4> QED
        BY <3>2, <4>1, <4>2
    <3> QED
      BY Zenon, <3>1, <3>2
  <2> QED
    BY <2>1
<1>4. Eq(twoToThe)
  <2>1. twoToThe = CHOOSE g : Eq(g)
    BY Zenon DEF twoToThe
  <2> HIDE DEF Eq
  <2> QED
    BY Zenon, <1>3, <2>1
<1>5. twoToThe[0] = 1 /\ \A i \in Nat : twoToThe[i + 1] = 2 * twoToThe[i]
  <2>1. \A i \in Nat : i + 1 \in Nat /\ i + 1 # 0 /\ (i + 1) - 1 = i
    OBVIOUS
  <2> QED
    BY Zenon, <1>4, <2>1
<1>6. twoToThe \in [Nat -> Nat]
  <2>1. twoToThe = [i \in Nat |-> twoToThe[i]]
    BY Zenon, <1>4
  <2>2. twoToThe[0] \in Nat /\ \A i \in Nat : twoToThe[i] \in Nat => twoToThe[i + 1] \in Nat
    BY <1>5
  <2> QED
    BY Zenon, <2>1, <2>2, RecursionType
<1> QED
  BY Zenon, <1>5, <1>6

(* A delay is a number of ticks.                                           *)
LEMMA DelayType == ASSUME NEW n \in Nat PROVE ComputeDelay(n) \in Nat
<1>1. CASE n <= 1
  BY <1>1, PolicyAssumption DEF ComputeDelay, PolicyAssumption
<1>2. CASE ~(n <= 1)
  <2>1. n - 1 \in Nat
    BY <1>2
  <2> QED
    BY Zenon, <1>2, <2>1, DoubledDef DEF ComputeDelay
<1> QED
  BY Zenon, <1>1, <1>2

(* The sum of the first delays.                                            *)
LEMMA AllSleptDef ==
  /\ allSlept \in [Nat -> Nat]
  /\ allSlept[0] = 0
  /\ \A i \in Nat : allSlept[i + 1] = allSlept[i] + ComputeDelay(i + 1)
<1> DEFINE G == [i \in Nat |-> [x \in Nat |-> x + ComputeDelay(i)]]
           Eq(f) == f = [i \in Nat |-> IF i = 0 THEN 0 ELSE f[i - 1] + ComputeDelay(i)]
<1>1. G \in [Nat -> [Nat -> Nat]] /\ 0 \in Nat
  BY DelayType
<1>2. PICK f \in [Nat -> Nat] : Recursive(f, 0, G)
  <2> HIDE DEF G
  <2> QED
    BY Zenon, <1>1, RecursionExists
<1>3. Eq(f)
  <2>1. ASSUME NEW i \in Nat PROVE f[i] = IF i = 0 THEN 0 ELSE f[i - 1] + ComputeDelay(i)
    <3>1. CASE i = 0
      BY <1>2, <3>1 DEF Recursive
    <3>2. CASE i # 0
      <4>1. f[i] = G[i][f[i - 1]]
        BY Zenon, <1>2, <3>2 DEF Recursive
      <4>2. i - 1 \in Nat /\ f[i - 1] \in Nat
        BY <3>2
      <4> QED
        BY <3>2, <4>1, <4>2
    <3> QED
      BY Zenon, <3>1, <3>2
  <2> QED
    BY <2>1
<1>4. Eq(allSlept)
  <2>1. allSlept = CHOOSE g : Eq(g)
    BY Zenon DEF allSlept
  <2> HIDE DEF Eq
  <2> QED
    BY Zenon, <1>3, <2>1
<1>5. allSlept[0] = 0 /\ \A i \in Nat : allSlept[i + 1] = allSlept[i] + ComputeDelay(i + 1)
  <2>1. allSlept[0] = 0
    BY Zenon, <1>4
  <2>2. ASSUME NEW i \in Nat PROVE allSlept[i + 1] = allSlept[i] + ComputeDelay(i + 1)
    <3>1. i + 1 \in Nat /\ i + 1 # 0 /\ (i + 1) - 1 = i
      OBVIOUS
    <3>2. allSlept[i + 1] = allSlept[(i + 1) - 1] + ComputeDelay(i + 1)
      BY Zenon, <1>4, <3>1
    <3> QED
      BY Zenon, <3>1, <3>2
  <2> QED
    BY Zenon, <2>1, <2>2
<1>6. allSlept \in [Nat -> Nat]
  <2>1. allSlept = [i \in Nat |-> allSlept[i]]
    BY Zenon, <1>4
  <2>2. \A i \in Nat : i + 1 \in Nat /\ ComputeDelay(i + 1) \in Nat
    BY DelayType
  <2>3. allSlept[0] \in Nat /\ \A i \in Nat : allSlept[i] \in Nat => allSlept[i + 1] \in Nat
    BY <1>5, <2>2
  <2> QED
    BY Zenon, <2>1, <2>3, RecursionType
<1> QED
  BY Zenon, <1>5, <1>6

(* The loop of ComputeDelay computes the closed form of its comment, for   *)
(* every count from the first if the maximum is not below the base.        *)
LEMMA DelayClosedForm ==
  ASSUME BaseDelay <= MaxDelay, NEW count \in Nat, count > 0
  PROVE  ComputeDelay(count) = Documented(count)
<1> USE PolicyAssumption DEF PolicyAssumption
<1> DEFINE capped(i) == IF BaseDelay * twoToThe[i] > MaxDelay THEN MaxDelay ELSE BaseDelay * twoToThe[i]
           T == {i \in Nat : doubled[i] = capped(i)}
<1>1. 0 \in T
  BY DoubledDef, TwoToTheDef
<1>2. ASSUME NEW i \in T PROVE i + 1 \in T
  <2>1. twoToThe[i] \in Nat /\ doubled[i] \in Nat
    BY DoubledDef, TwoToTheDef
  <2>2. PICK q \in Nat : q = BaseDelay * twoToThe[i]
    BY <2>1
  <2>3. BaseDelay * twoToThe[i + 1] = 2 * q
    BY <2>1, <2>2, TwoToTheDef
  <2>4. doubled[i] = IF q > MaxDelay THEN MaxDelay ELSE q
    BY <2>2
  <2>5. doubled[i + 1] = IF 2 * doubled[i] > MaxDelay THEN MaxDelay ELSE 2 * doubled[i]
    BY DoubledDef
  <2>6. doubled[i + 1] = IF 2 * q > MaxDelay THEN MaxDelay ELSE 2 * q
    BY <2>1, <2>4, <2>5
  <2> QED
    BY <2>3, <2>6
<1>3. T = Nat
  <2>1. T \in SUBSET Nat
    OBVIOUS
  <2> HIDE DEF T
  <2> QED
    BY Zenon, <1>1, <1>2, <2>1, Induction
<1>4. count - 1 \in Nat /\ (count <= 1 => count - 1 = 0)
  OBVIOUS
<1>5. ComputeDelay(count) = doubled[count - 1]
  BY <1>4, DoubledDef DEF ComputeDelay
<1>6. doubled[count - 1] = capped(count - 1)
  BY Zenon, <1>3, <1>4
<1> QED
  BY Zenon, <1>5, <1>6 DEF Documented

-----------------------------------------------------------------------------
(* Pruning crash by crash keeps all that is in the window at any later     *)
(* reading of the clock: a time that was pruned earlier is older still.    *)
LEMMA PruneExact ==
  ASSUME PolicyAssumption, TypeOK, WindowInv, NEW n, n = CrashCount + 1,
         NEW times, times = [k \in 1..n |-> IF k = n THEN now ELSE at[k]],
         NEW later \in Int, later >= now
  PROVE  /\ pruned(n, times) = recent(1..n, times, times[n])
         /\ recent(pruned(n, times), times, later) = recent(1..n, times, later)
<1>1. /\ CrashCount \in Nat /\ now \in Nat /\ n \in 1..n /\ n \in Nat /\ Window \in Nat
      /\ at \in [1..CrashCount -> 0..now] /\ CrashWindow \subseteq 1..CrashCount
  BY DEF PolicyAssumption, TypeOK
<1>2. times[n] = now /\ \A k \in 1..CrashCount : k \in 1..n /\ k # n /\ times[k] = at[k]
  BY <1>1
<1>3. \A k \in 1..n : k = n \/ k \in 1..CrashCount
  BY <1>1
<1>4. ASSUME NEW k \in 1..CrashCount, at[k] > now - Window PROVE k \in CrashWindow
  <2>1. CrashCount > 0 /\ CrashCount \in 1..CrashCount
    BY <1>1
  <2>2. at[CrashCount] \in Int /\ at[CrashCount] <= now /\ at[k] \in Int
    BY <1>1, <2>1
  <2>3. at[k] > at[CrashCount] - Window
    BY <1>1, <1>4, <2>2
  <2> QED
    BY <2>1, <2>3 DEF WindowInv, recent
<1>5. ASSUME NEW k \in 1..n, times[k] > now - Window PROVE k \in CrashWindow \cup {n}
  BY Zenon, <1>2, <1>3, <1>4, <1>5
<1>6. CrashWindow \cup {n} \subseteq 1..n
  BY Zenon, <1>1, <1>2
<1>7. pruned(n, times) = recent(1..n, times, now)
  BY Zenon, <1>5, <1>6 DEF pruned, recent
<1>8. recent(recent(1..n, times, now), times, later) = recent(1..n, times, later)
  <2>1. \A k \in 1..n : times[k] \in Int
    BY <1>1, <1>2, <1>3
  <2>2. ASSUME NEW k \in 1..n, times[k] > later - Window PROVE times[k] > now - Window
    BY <1>1, <2>1, <2>2
  <2> QED
    BY Zenon, <2>2 DEF recent
<1> QED
  BY Zenon, <1>2, <1>7, <1>8

(* A step that takes no report leaves the window and what was decided on   *)
(* it alone.                                                               *)
LEMMA WindowKept ==
  ASSUME WindowInv, QuarantineExact, UNCHANGED <<CrashCount, CrashWindow, at, judged>>,
         State' = State \/ State' \notin {Quarantined, Restarting}
  PROVE  WindowInv' /\ QuarantineExact'
BY Zenon DEF WindowInv, QuarantineExact

(* The whole of handleCrash on a service that is not Stopped.              *)
LEMMA CrashJudged ==
  ASSUME PolicyAssumption, PolicyInv, HandleCrash, State # Stopped
  PROVE  PolicyInv'
<1> DEFINE n == CrashCount + 1
<1>0. PICK later \in now..(now + MaxPause) :
        /\ later <= MaxTime /\ now' = later
        /\ CrashCount' = n
        /\ at' = [k \in 1..n |-> IF k = n THEN now ELSE at[k]]
        /\ judged' = [k \in 1..n |-> IF k = n THEN later ELSE judged[k]]
        /\ CrashWindow' = pruned(n, at')
        /\ \/ /\ ShouldQuarantine(CrashWindow', at', later)
              /\ State' = Quarantined /\ UNCHANGED timers
           \/ /\ ~ShouldQuarantine(CrashWindow', at', later)
              /\ State' = Restarting /\ timers' = timers \cup {n}
  BY Zenon DEF HandleCrash, counted
<1>1. CrashCount < MaxCount /\ reports > 0 /\ reports' = reports - 1 /\ UNCHANGED <<procs, manual>>
  BY Zenon DEF HandleCrash
<1>2. /\ now \in Nat /\ later \in Nat /\ later >= now /\ CrashCount \in Nat /\ MaxCount \in Nat
      /\ MaxTime \in Nat /\ n \in Nat /\ n \in 1..n /\ n > 0 /\ n # 0
  BY <1>0 DEF PolicyInv, TypeOK, PolicyAssumption
<1>3. /\ CrashWindow' = recent(1..n, at', at'[n])
      /\ recent(CrashWindow', at', later) = recent(1..n, at', later)
  <2> HIDE DEF n
  <2>1. n = CrashCount + 1 /\ later \in Int
    BY <1>2 DEF n
  <2> QED
    BY ZenonT(30), <1>0, <1>2, <2>1, PruneExact DEF PolicyInv
<1>4. judged'[n] = later
  BY Zenon, <1>0, <1>2
<1>5. WindowInv'
  BY Zenon, <1>0, <1>2, <1>3 DEF WindowInv
<1>6. QuarantineExact'
  <2>1. ShouldQuarantine(CrashWindow', at', later) <=> ShouldQuarantine(1..n, at', judged'[n])
    BY Zenon, <1>3, <1>4 DEF ShouldQuarantine
  <2>2. Quarantined # Restarting
    BY DEF Quarantined, Restarting
  <2> HIDE DEF n
  <2> QED
    BY Zenon, <1>0, <2>1, <2>2 DEF QuarantineExact
<1>7. TypeOK'
  <2>1. at' \in [1..n -> 0..later] /\ judged' \in [1..n -> 0..later]
    BY SMTT(30), <1>0, <1>2 DEF PolicyInv, TypeOK
  <2>2. CrashWindow' \subseteq 1..n
    BY Zenon, <1>3 DEF recent
  <2>3. timers' \subseteq 1..n /\ n \in 0..MaxCount /\ later \in 0..MaxTime
    <3>1. n \in 0..MaxCount /\ later \in 0..MaxTime
      BY <1>0, <1>1, <1>2
    <3>2. timers \subseteq 1..n
      BY <1>2 DEF PolicyInv, TypeOK
    <3>3. timers' = timers \/ timers' = timers \cup {n}
      BY Zenon, <1>0
    <3> QED
      BY Zenon, <1>2, <3>1, <3>2, <3>3
  <2>4. reports' \in Nat /\ procs' \in Nat /\ manual' \in 0..MaxManual
    BY <1>1 DEF PolicyInv, TypeOK
  <2>5. State' \in ServiceStates
    BY Zenon, <1>0 DEF ServiceStates
  <2> QED
    BY Zenon, <1>0, <2>1, <2>2, <2>3, <2>4, <2>5 DEF TypeOK
<1>8. OneAtATime'
  <2> SUFFICES ASSUME manual = 0 PROVE OneAtATime'
    BY Zenon, <1>1 DEF OneAtATime
  <2>1. procs = 0 /\ reports = 1 /\ State # Restarting
    BY <1>1 DEF PolicyInv, OneAtATime, TypeOK
  <2>2. timers = {}
    BY Zenon, <2>1 DEF PolicyInv, OneAtATime
  <2> QED
    BY <1>0, <1>1, <2>1, <2>2 DEF OneAtATime
<1> QED
  BY Zenon, <1>5, <1>6, <1>7, <1>8 DEF PolicyInv

(* The sum of processes and reports does not grow.                         *)
LEMMA NotMore ==
  ASSUME NEW p \in Nat, NEW r \in Nat, NEW p1 \in Nat, NEW r1 \in Nat,
         p + r <= 1, p1 + r1 <= p + r
  PROVE  p1 + r1 <= 1
OBVIOUS

(* A start() of a service that is down, while nothing of it is under way.  *)
LEMMA Started ==
  ASSUME PolicyInv, start, manual' = manual, NEW k, timers' = timers \ {k},
         State \in {Declared, Restarting}, State = Declared \/ k \in timers,
         UNCHANGED <<now, CrashCount, CrashWindow, at, judged>>
  PROVE  PolicyInv'
<1>1. WindowInv' /\ QuarantineExact'
  <2>1. State' \notin {Quarantined, Restarting}
    BY DEF start, Healthy, Crashed, Quarantined, Restarting
  <2> QED
    BY Zenon, <2>1, WindowKept DEF PolicyInv
<1>2. TypeOK'
  <2>1. State' \in ServiceStates /\ procs' \in Nat /\ reports' \in Nat
    BY DEF start, PolicyInv, TypeOK, ServiceStates
  <2> QED
    BY Zenon, <2>1 DEF PolicyInv, TypeOK
<1>3. OneAtATime'
  <2> SUFFICES ASSUME manual = 0 PROVE OneAtATime'
    BY Zenon DEF OneAtATime
  <2>1. procs = 0 /\ reports = 0 /\ timers' = {}
    BY DEF PolicyInv, OneAtATime, Declared, Restarting
  <2> QED
    BY <2>1 DEF start, OneAtATime, Healthy, Crashed, Declared, Restarting, Quarantined
<1> QED
  BY Zenon, <1>1, <1>2, <1>3 DEF PolicyInv

(* Every step keeps the invariant.                                         *)
LEMMA PolicyStep ==
  ASSUME PolicyInv, [Next]_vars
  PROVE  PolicyInv'
<1> USE PolicyAssumption
<1>1. CASE Tick
  <2>1. UNCHANGED <<State, CrashCount, CrashWindow, timers, procs, reports, at, judged, manual>>
    BY Zenon, <1>1 DEF Tick
  <2>2. now \in Nat /\ now' = now + 1 /\ now' \in 0..MaxTime
    BY <1>1 DEF Tick, PolicyInv, TypeOK, PolicyAssumption
  <2>3. at' \in [1..CrashCount -> 0..now'] /\ judged' \in [1..CrashCount -> 0..now']
    BY <2>1, <2>2 DEF PolicyInv, TypeOK
  <2>4. TypeOK'
    BY Zenon, <2>1, <2>2, <2>3 DEF PolicyInv, TypeOK
  <2> QED
    BY Zenon, <2>1, <2>4 DEF PolicyInv, WindowInv, QuarantineExact, OneAtATime
<1>2. CASE StartAll
  <2>1. timers' = timers \ {0}
    BY <1>2 DEF StartAll, PolicyInv, TypeOK
  <2> QED
    BY Zenon, <1>2, <2>1, Started DEF StartAll
<1>3. CASE Crash
  <2>1. UNCHANGED <<now, State, CrashCount, CrashWindow, timers, at, judged, manual>>
    BY Zenon, <1>3 DEF Crash
  <2>2. /\ procs' \in Nat /\ reports' \in Nat /\ procs # 0
        /\ procs' + reports' <= procs + reports
    BY <1>3 DEF Crash, PolicyInv, TypeOK
  <2>3. OneAtATime'
    <3> SUFFICES ASSUME manual = 0 PROVE OneAtATime'
      BY Zenon, <2>1 DEF OneAtATime
    <3>1. procs + reports <= 1 /\ procs \in Nat /\ reports \in Nat
      BY Zenon DEF PolicyInv, OneAtATime, TypeOK
    <3>2. procs' + reports' <= 1
      BY Zenon, <2>2, <3>1, NotMore
    <3>3. State \notin {Declared, Restarting, Quarantined}
      BY Zenon, <2>2 DEF PolicyInv, OneAtATime
    <3> QED
      BY Zenon, <2>1, <3>2, <3>3 DEF PolicyInv, OneAtATime
  <2>4. TypeOK'
    BY Zenon, <2>1, <2>2 DEF PolicyInv, TypeOK
  <2> QED
    BY Zenon, <2>1, <2>3, <2>4, WindowKept DEF PolicyInv
<1>4. CASE HandleCrash
  <2>1. CASE State = Stopped
    <3>1. UNCHANGED <<now, State, CrashCount, CrashWindow, timers, at, judged, procs, manual>>
      BY Zenon, <1>4, <2>1 DEF HandleCrash
    <3>2. reports' \in Nat /\ procs + reports' <= procs + reports
      BY <1>4 DEF HandleCrash, PolicyInv, TypeOK
    <3>3. OneAtATime'
      <4> SUFFICES ASSUME manual = 0 PROVE OneAtATime'
        BY Zenon, <3>1 DEF OneAtATime
      <4>1. procs + reports <= 1 /\ procs \in Nat /\ reports \in Nat
        BY Zenon DEF PolicyInv, OneAtATime, TypeOK
      <4>2. procs' + reports' <= 1
        BY Zenon, <3>1, <3>2, <4>1, NotMore
      <4>3. State' \notin {Declared, Restarting, Quarantined}
        BY <2>1, <3>1 DEF Stopped, Declared, Restarting, Quarantined
      <4> QED
        BY Zenon, <3>1, <4>2, <4>3 DEF PolicyInv, OneAtATime
    <3>4. TypeOK'
      BY Zenon, <3>1, <3>2 DEF PolicyInv, TypeOK
    <3> QED
      BY Zenon, <3>1, <3>3, <3>4, WindowKept DEF PolicyInv
  <2> QED
    BY Zenon, <1>4, <2>1, CrashJudged
<1>5. ASSUME NEW k \in 1..MaxCount, RestartTimer(k) PROVE PolicyInv'
  <2>1. CASE State = Restarting
    BY Zenon, <1>5, <2>1, Started DEF RestartTimer
  <2>2. CASE State # Restarting
    <3>1. /\ UNCHANGED <<now, State, CrashCount, CrashWindow, at, judged, procs, reports, manual>>
          /\ timers' \subseteq timers
      BY Zenon, <1>5, <2>2 DEF RestartTimer
    <3>2. OneAtATime'
      BY <3>1 DEF PolicyInv, OneAtATime
    <3>3. TypeOK'
      BY Zenon, <3>1 DEF PolicyInv, TypeOK
    <3> QED
      BY Zenon, <3>1, <3>2, <3>3, WindowKept DEF PolicyInv
  <2> QED
    BY Zenon, <2>1, <2>2
<1>6. CASE StartService
  <2>1. UNCHANGED <<now, CrashCount, CrashWindow, timers, at, judged>>
    BY Zenon, <1>6 DEF StartService
  <2>2. State' \notin {Quarantined, Restarting}
    BY <1>6 DEF StartService, start, Healthy, Crashed, Quarantined, Restarting
  <2>3. State' \in ServiceStates /\ procs' \in Nat /\ reports' \in Nat
    BY <1>6 DEF StartService, start, PolicyInv, TypeOK, ServiceStates
  <2>4. manual' \in 0..MaxManual /\ manual' # 0
    BY <1>6 DEF StartService, PolicyInv, TypeOK, PolicyAssumption
  <2>5. TypeOK'
    BY Zenon, <2>1, <2>3, <2>4 DEF PolicyInv, TypeOK
  <2>6. OneAtATime'
    BY Zenon, <2>4 DEF OneAtATime
  <2> QED
    BY Zenon, <2>1, <2>2, <2>5, <2>6, WindowKept DEF PolicyInv
<1>7. CASE StopService
  <2>1. UNCHANGED <<now, CrashCount, CrashWindow, timers, reports, at, judged, manual>>
    BY Zenon, <1>7 DEF StopService
  <2>2. /\ State = Healthy /\ State' = Stopped /\ procs' \in Nat
        /\ procs' + reports <= procs + reports
    BY <1>7 DEF StopService, PolicyInv, TypeOK
  <2>3. TypeOK'
    BY Zenon, <2>1, <2>2 DEF PolicyInv, TypeOK, ServiceStates
  <2>4. OneAtATime'
    <3> SUFFICES ASSUME manual = 0 PROVE OneAtATime'
      BY Zenon, <2>1 DEF OneAtATime
    <3>1. procs + reports <= 1 /\ procs \in Nat /\ reports \in Nat
      BY Zenon DEF PolicyInv, OneAtATime, TypeOK
    <3>2. procs' + reports' <= 1
      BY Zenon, <2>1, <2>2, <3>1, NotMore
    <3>3. State # Restarting /\ State' \notin {Declared, Restarting, Quarantined}
      BY <2>2 DEF Healthy, Stopped, Declared, Restarting, Quarantined
    <3> QED
      BY Zenon, <2>1, <3>2, <3>3 DEF PolicyInv, OneAtATime
  <2>5. State' \notin {Quarantined, Restarting}
    BY <2>2 DEF Stopped, Quarantined, Restarting
  <2> QED
    BY Zenon, <2>1, <2>3, <2>4, <2>5, WindowKept DEF PolicyInv
<1>8. CASE Over \/ UNCHANGED vars
  <2>1. UNCHANGED vars
    BY Zenon, <1>8 DEF Over
  <2> QED
    BY Zenon, <2>1 DEF vars, PolicyInv, TypeOK, WindowInv, QuarantineExact, OneAtATime
<1> QED
  BY Zenon, <1>1, <1>2, <1>3, <1>4, <1>5, <1>6, <1>7, <1>8 DEF Next

(* The invariant, and with it types, hold in every reachable state.        *)
THEOREM PolicyInvariant == Spec => []PolicyInv
<1>1. Init => PolicyInv
  <2> SUFFICES ASSUME Init PROVE PolicyInv
    BY Zenon
  <2>1. TypeOK
    BY PolicyAssumption DEF Init, TypeOK, ServiceStates
  <2>2. WindowInv /\ OneAtATime
    BY DEF Init, WindowInv, OneAtATime
  <2>3. QuarantineExact
    BY DEF Init, QuarantineExact, Declared, Quarantined, Restarting
  <2> QED
    BY Zenon, <2>1, <2>2, <2>3 DEF PolicyInv
<1> QED
  BY <1>1, PolicyStep, PTL DEF Spec

(* The values the variables take, for every configuration: in particular   *)
(* only crashes that were taken have a time in the window or a timer.      *)
THEOREM PolicyTypeCorrect == Spec => []TypeOK
<1>1. PolicyInv => TypeOK
  BY Zenon DEF PolicyInv
<1> QED
  BY <1>1, PolicyInvariant, PTL

(* For any configuration and any history, manual restarts included: a      *)
(* service is quarantined exactly when its crashes fill the window         *)
(* (handleCrash, ShouldQuarantine).                                        *)
THEOREM QuarantineIsExact == Spec => []QuarantineExact
<1>1. PolicyInv => QuarantineExact
  BY Zenon DEF PolicyInv
<1> QED
  BY <1>1, PolicyInvariant, PTL

(* For any configuration: without StartService calls no restart comes      *)
(* before the delay for the number of crashes has passed (handleCrash, the *)
(* restart timer).                                                         *)
THEOREM BackoffIsKept == Spec => BackoffKept
<1>1. ASSUME PolicyInv, [Next]_vars, State = Restarting, State' # Restarting, manual' = 0
      PROVE  now >= judged[CrashCount] + ComputeDelay(CrashCount)
  <2>1. PICK k \in 1..MaxCount : RestartTimer(k)
    <3>1. ~StartAll /\ ~StopService
      BY <1>1 DEF StartAll, StopService, Restarting, Declared, Healthy
    <3>2. ~StartService
      BY <1>1, PolicyAssumption DEF StartService, PolicyInv, TypeOK
    <3>3. ~HandleCrash
      <4> SUFFICES ASSUME HandleCrash PROVE FALSE
        BY Zenon
      <4>1. manual = 0 /\ reports > 0
        BY Zenon, <1>1 DEF HandleCrash
      <4> QED
        BY <1>1, <4>1 DEF PolicyInv, OneAtATime
    <3>4. ~Tick /\ ~Crash /\ ~Over /\ ~UNCHANGED vars
      BY Zenon, <1>1 DEF Tick, Crash, Over, vars
    <3> QED
      BY Zenon, <1>1, <3>1, <3>2, <3>3, <3>4 DEF Next
  <2>2. k = CrashCount
    BY Zenon, <1>1, <2>1 DEF RestartTimer, PolicyInv, OneAtATime
  <2> QED
    BY Zenon, <2>1, <2>2 DEF RestartTimer, due
<1>2. PolicyInv /\ [Next]_vars =>
        [State = Restarting /\ State' # Restarting /\ manual' = 0
           => now >= judged[CrashCount] + ComputeDelay(CrashCount)]_vars
  BY Zenon, <1>1
<1> QED
  BY <1>2, PolicyInvariant, PTL DEF Spec, BackoffKept
-----------------------------------------------------------------------------
(* A step that takes no crash keeps the crashes apart.                     *)
LEMMA SpacedKept ==
  ASSUME SpacedInv, UNCHANGED <<CrashCount, at, judged>>,
         State' = Declared => State = Declared,
         manual' = 0 =>
           /\ manual = 0
           /\ CrashCount > 0 /\ (procs' > 0 \/ reports' > 0) => due(CrashCount)'
  PROVE  SpacedInv'
BY Zenon DEF SpacedInv

(* Every step keeps the crashes apart.                                     *)
LEMMA SpacedStep ==
  ASSUME PolicyInv, SpacedInv, [Next]_vars
  PROVE  SpacedInv'
<1>1. CASE Tick
  <2>1. UNCHANGED <<State, CrashCount, procs, reports, at, judged, manual>>
    BY Zenon, <1>1 DEF Tick
  <2>2. ASSUME CrashCount > 0, due(CrashCount) PROVE due(CrashCount)'
    <3>1. now \in Int /\ now' = now + 1 /\ judged[CrashCount] \in Int /\ ComputeDelay(CrashCount) \in Int
      <4>1. CrashCount \in Nat /\ CrashCount \in 1..CrashCount
        BY <2>2, PolicyAssumption DEF PolicyInv, TypeOK, PolicyAssumption
      <4> QED
        BY <1>1, <4>1, DelayType, PolicyAssumption DEF Tick, PolicyInv, TypeOK, PolicyAssumption
    <3>2. judged'[CrashCount'] = judged[CrashCount] /\ ComputeDelay(CrashCount') = ComputeDelay(CrashCount)
      BY Zenon, <2>1
    <3> QED
      BY <2>2, <3>1, <3>2 DEF due
  <2> QED
    BY Zenon, <2>1, <2>2, SpacedKept DEF SpacedInv
<1>2. CASE StartAll
  <2>1. UNCHANGED <<CrashCount, at, judged, manual>> /\ State = Declared
    BY Zenon, <1>2 DEF StartAll
  <2>2. ~(CrashCount > 0)
    BY <2>1 DEF SpacedInv
  <2> QED
    BY Zenon, <2>1, <2>2, SpacedKept
<1>3. CASE Crash
  <2>1. UNCHANGED <<State, now, CrashCount, at, judged, manual>> /\ procs > 0
    BY Zenon, <1>3 DEF Crash
  <2>2. due(CrashCount) => due(CrashCount)'
    BY Zenon, <2>1 DEF due
  <2> QED
    BY Zenon, <2>1, <2>2, SpacedKept DEF SpacedInv
<1>4. CASE HandleCrash
  <2>1. CASE State = Stopped
    <3>1. UNCHANGED <<State, now, CrashCount, at, judged, manual>> /\ reports > 0
      BY Zenon, <1>4, <2>1 DEF HandleCrash
    <3>2. due(CrashCount) => due(CrashCount)'
      BY Zenon, <3>1 DEF due
    <3> QED
      BY Zenon, <3>1, <3>2, SpacedKept DEF SpacedInv
  <2>2. CASE State # Stopped
    <3> DEFINE n == CrashCount + 1
    <3>1. PICK later \in now..(now + MaxPause) :
            /\ CrashCount' = n
            /\ at' = [k \in 1..n |-> IF k = n THEN now ELSE at[k]]
            /\ judged' = [k \in 1..n |-> IF k = n THEN later ELSE judged[k]]
      BY Zenon, <1>4, <2>2 DEF HandleCrash, counted
    <3>2. manual' = manual /\ procs' = procs /\ reports' = reports - 1 /\ reports > 0
      BY Zenon, <1>4 DEF HandleCrash
    <3>3. State' # Declared
      BY <1>4, <2>2 DEF HandleCrash, Declared, Quarantined, Restarting
    <3>4. CrashCount \in Nat /\ now \in Nat /\ n \in Nat /\ n \in 1..n
      BY PolicyAssumption DEF PolicyInv, TypeOK, PolicyAssumption
    <3>5. ASSUME NEW k \in 1..n, k # n
          PROVE  k \in 1..CrashCount /\ at'[k] = at[k] /\ judged'[k] = judged[k]
      BY <3>1, <3>4, <3>5
    <3>6. at'[n] = now /\ judged'[n] = later
      BY Zenon, <3>1, <3>4
    <3>7. \A k \in 1..n : at'[k] <= judged'[k]
      BY <3>1, <3>4, <3>5, <3>6 DEF SpacedInv
    <3>8. ASSUME manual = 0 PROVE procs' = 0 /\ reports' = 0
      BY <3>2, <3>8 DEF PolicyInv, OneAtATime, TypeOK
    <3>9. ASSUME manual = 0, NEW k \in 1..n, k < n
          PROVE  at'[k + 1] >= judged'[k] + ComputeDelay(k)
      <4>1. k # n /\ k + 1 \in 1..n /\ CrashCount > 0
        BY <3>4, <3>9
      <4>2. CASE k + 1 = n
        <5>1. k = CrashCount /\ due(CrashCount)
          BY <3>2, <3>4, <3>9, <4>1, <4>2 DEF SpacedInv
        <5> QED
          BY Zenon, <3>5, <3>6, <4>1, <4>2, <5>1 DEF due
      <4>3. CASE k + 1 # n
        <5>1. k \in 1..CrashCount /\ k < CrashCount
          BY <3>4, <3>9, <4>3
        <5>2. at[k + 1] >= judged[k] + ComputeDelay(k)
          BY Zenon, <3>9, <5>1 DEF SpacedInv
        <5> QED
          BY Zenon, <3>5, <4>1, <4>3, <5>2
      <4> QED
        BY Zenon, <4>2, <4>3
    <3>10. manual' = 0 => /\ \A k \in 1..CrashCount' : k < CrashCount' => at'[k + 1] >= judged'[k] + ComputeDelay(k)
                          /\ ~(procs' > 0) /\ ~(reports' > 0)
      BY <3>1, <3>2, <3>8, <3>9
    <3> HIDE DEF n
    <3> QED
      BY Zenon, <3>1, <3>3, <3>7, <3>10 DEF SpacedInv
  <2> QED
    BY Zenon, <2>1, <2>2
<1>5. ASSUME NEW k \in 1..MaxCount, RestartTimer(k) PROVE SpacedInv'
  <2>1. UNCHANGED <<now, CrashCount, at, judged, manual>> /\ k \in timers /\ due(k)
    BY Zenon, <1>5 DEF RestartTimer
  <2>2. ASSUME State' = Declared PROVE State = Declared
    BY <1>5, <2>2 DEF RestartTimer, start, Healthy, Crashed, Declared
  <2>3. ASSUME manual' = 0 PROVE due(CrashCount)'
    BY Zenon, <2>1, <2>3 DEF PolicyInv, OneAtATime, due
  <2> QED
    BY Zenon, <2>1, <2>2, <2>3, SpacedKept
<1>6. CASE StartService
  <2>1. UNCHANGED <<CrashCount, at, judged>>
    BY Zenon, <1>6 DEF StartService
  <2>2. State' # Declared
    BY <1>6 DEF StartService, start, Healthy, Crashed, Declared
  <2>3. manual' # 0
    BY <1>6, PolicyAssumption DEF StartService, PolicyInv, TypeOK, PolicyAssumption
  <2> QED
    BY Zenon, <2>1, <2>2, <2>3, SpacedKept
<1>7. CASE StopService
  <2>1. UNCHANGED <<now, CrashCount, reports, at, judged, manual>> /\ State' = Stopped
    BY Zenon, <1>7 DEF StopService
  <2>2. State' # Declared
    BY <2>1 DEF Stopped, Declared
  <2>3. procs' > 0 => procs > 0
    BY <1>7 DEF StopService, PolicyInv, TypeOK
  <2>4. due(CrashCount) => due(CrashCount)'
    BY Zenon, <2>1 DEF due
  <2> QED
    BY Zenon, <2>1, <2>2, <2>3, <2>4, SpacedKept DEF SpacedInv
<1>8. CASE Over \/ UNCHANGED vars
  BY Zenon, <1>8 DEF Over, vars, SpacedInv, due
<1> QED
  BY Zenon, <1>1, <1>2, <1>3, <1>4, <1>5, <1>6, <1>7, <1>8 DEF Next

(* Without StartService calls crashes are spaced by the backoff.           *)
THEOREM SpacedInvariant == Spec => []SpacedInv
<1>1. Init => SpacedInv
  BY DEF Init, SpacedInv
<1> QED
  BY <1>1, SpacedStep, PolicyInvariant, PTL DEF Spec

(* The delays between two crashes add up.                                  *)
LEMMA CrashesApart ==
  ASSUME TypeOK, SpacedInv, manual = 0, NEW m \in 1..CrashCount
  PROVE  \A k \in m..CrashCount : at[k] - at[m] >= slept(m, k)
<1>1. CrashCount \in Nat
  BY PolicyAssumption DEF TypeOK, PolicyAssumption
<1>2. \A k \in 1..CrashCount : at[k] \in Int /\ judged[k] \in Int /\ ComputeDelay(k) \in Int
  BY <1>1, DelayType, PolicyAssumption DEF TypeOK, PolicyAssumption
<1>3. \A i \in Nat : allSlept[i] \in Int
  BY AllSleptDef
<1> DEFINE T == {j \in Nat : m + j <= CrashCount => at[m + j] - at[m] >= slept(m, m + j)}
<1>4. 0 \in T
  <2>1. m + 0 = m /\ m - 1 \in Nat
    BY <1>1
  <2> QED
    BY <1>2, <1>3, <2>1 DEF slept
<1>5. ASSUME NEW j \in T PROVE j + 1 \in T
  <2> SUFFICES ASSUME m + (j + 1) <= CrashCount
               PROVE  at[m + (j + 1)] - at[m] >= slept(m, m + (j + 1))
    OBVIOUS
  <2> DEFINE k == m + j
  <2>1. /\ k \in 1..CrashCount /\ k + 1 \in 1..CrashCount /\ k < CrashCount
        /\ m + (j + 1) = k + 1 /\ k - 1 \in Nat /\ m - 1 \in Nat /\ (k + 1) - 1 = (k - 1) + 1
        /\ (k - 1) + 1 = k
    BY <1>1
  <2>2. at[k] - at[m] >= slept(m, k)
    BY <1>1, <2>1
  <2> HIDE DEF k, T
  <2>3. at[k + 1] >= judged[k] + ComputeDelay(k) /\ at[k] <= judged[k]
    BY Zenon, <2>1 DEF SpacedInv
  <2>4. allSlept[(k + 1) - 1] = allSlept[k - 1] + ComputeDelay(k)
    BY Zenon, <2>1, AllSleptDef
  <2>5. slept(m, k + 1) = slept(m, k) + ComputeDelay(k)
    BY <1>2, <1>3, <2>1, <2>4 DEF slept
  <2>6. slept(m, k) \in Int
    BY <1>3, <2>1 DEF slept
  <2>7. at[k + 1] - at[m] >= slept(m, k + 1)
    BY <1>2, <2>1, <2>2, <2>3, <2>5, <2>6
  <2> QED
    BY Zenon, <2>1, <2>7
<1>6. T = Nat
  <2>1. T \in SUBSET Nat
    OBVIOUS
  <2> HIDE DEF T
  <2> QED
    BY Zenon, <1>4, <1>5, <2>1, Induction
<1>7. ASSUME NEW k \in m..CrashCount PROVE at[k] - at[m] >= slept(m, k)
  <2>1. k - m \in Nat /\ m + (k - m) = k /\ k <= CrashCount
    BY <1>1
  <2>2. k - m \in T
    BY Zenon, <1>6, <2>1
  <2> QED
    BY Zenon, <2>1, <2>2
<1> QED
  BY Zenon, <1>7

(* Delays are not negative: a later crash has no earlier time.             *)
LEMMA CrashesOrdered ==
  ASSUME TypeOK, SpacedInv, manual = 0, NEW m \in 1..CrashCount, NEW k \in m..CrashCount
  PROVE  at[m] <= at[k]
<1>1. CrashCount \in Nat
  BY PolicyAssumption DEF TypeOK, PolicyAssumption
<1>2. \A i \in 1..CrashCount : at[i] \in Int /\ judged[i] \in Int /\ ComputeDelay(i) \in Nat
  BY <1>1, DelayType, PolicyAssumption DEF TypeOK, PolicyAssumption
<1> DEFINE T == {j \in Nat : m + j <= CrashCount => at[m] <= at[m + j]}
<1>3. 0 \in T
  BY <1>1, <1>2
<1>4. ASSUME NEW j \in T PROVE j + 1 \in T
  <2> SUFFICES ASSUME m + (j + 1) <= CrashCount PROVE at[m] <= at[m + (j + 1)]
    OBVIOUS
  <2> DEFINE i == m + j
  <2>1. i \in 1..CrashCount /\ i + 1 \in 1..CrashCount /\ i < CrashCount /\ m + (j + 1) = i + 1
    BY <1>1
  <2>2. at[m] <= at[i]
    BY <1>1, <2>1
  <2> HIDE DEF i, T
  <2>3. at[i + 1] >= judged[i] + ComputeDelay(i) /\ at[i] <= judged[i]
    BY Zenon, <2>1 DEF SpacedInv
  <2>4. at[m] <= at[i + 1]
    BY <1>2, <2>1, <2>2, <2>3
  <2> QED
    BY Zenon, <2>1, <2>4
<1>5. T = Nat
  <2>1. T \in SUBSET Nat
    OBVIOUS
  <2> HIDE DEF T
  <2> QED
    BY Zenon, <1>3, <1>4, <2>1, Induction
<1>6. k - m \in Nat /\ m + (k - m) = k /\ k <= CrashCount
  BY <1>1
<1>7. k - m \in T
  BY Zenon, <1>5, <1>6
<1> QED
  BY Zenon, <1>6, <1>7

(* If a window is full, the MaxCrashes-th crash from the last is in it.    *)
LEMMA FullWindow ==
  ASSUME TypeOK, SpacedInv, manual = 0, NEW t \in Int, ShouldQuarantine(1..CrashCount, at, t)
  PROVE  LET m == CrashCount - MaxCrashes + 1 IN
         m \in 1..CrashCount /\ at[m] > t - Window
<1> DEFINE n == CrashCount
           m == n - MaxCrashes + 1
           R == recent(1..n, at, t)
<1>1. n \in Nat /\ MaxCrashes \in Nat /\ Window \in Int /\ MaxCrashes > 0
  BY PolicyAssumption DEF TypeOK, PolicyAssumption, ShouldQuarantine
<1>2. \A i \in 1..n : at[i] \in Int
  BY <1>1, PolicyAssumption DEF TypeOK, PolicyAssumption
<1>3. Cardinality(R) >= MaxCrashes
  BY Zenon DEF ShouldQuarantine
<1>4. ASSUME NEW l \in 0..n, R \subseteq (l + 1)..n PROVE Cardinality(R) <= n - l
  <2>1. l + 1 \in Int /\ n \in Int
    BY <1>1
  <2>2. IsFiniteSet((l + 1)..n) /\ Cardinality((l + 1)..n) = n - l
    <3>1. Cardinality((l + 1)..n) = IF l + 1 > n THEN 0 ELSE n - (l + 1) + 1
      BY <2>1, FS_Interval
    <3>2. IsFiniteSet((l + 1)..n)
      BY <2>1, FS_Interval
    <3> QED
      BY <1>1, <3>1, <3>2
  <2>3. Cardinality(R) <= Cardinality((l + 1)..n)
    BY Zenon, <1>4, <2>2, FS_Subset
  <2> QED
    BY <2>2, <2>3
<1>5. Cardinality(R) \in Nat
  <2>1. IsFiniteSet(1..n)
    BY <1>1, FS_Interval
  <2>2. R \subseteq 1..n
    BY Zenon DEF recent
  <2>3. IsFiniteSet(R)
    BY Zenon, <2>1, <2>2, FS_Subset
  <2> QED
    BY Zenon, <2>3, FS_CardinalityType
<1>6. m \in 1..n
  <2>1. R \subseteq (0 + 1)..n
    BY <1>1 DEF recent
  <2>2. 0 \in 0..n
    BY <1>1
  <2>3. Cardinality(R) <= n - 0
    BY Zenon, <1>4, <2>1, <2>2
  <2> QED
    BY <1>1, <1>3, <1>5, <2>3
<1>7. at[m] > t - Window
  <2> SUFFICES ASSUME ~(at[m] > t - Window) PROVE FALSE
    OBVIOUS
  <2>1. ASSUME NEW i \in R PROVE i \in (m + 1)..n
    <3>1. i \in 1..n /\ at[i] > t - Window
      BY Zenon DEF recent
    <3>2. ~(i <= m)
      <4> SUFFICES ASSUME i <= m PROVE FALSE
        OBVIOUS
      <4>1. m \in i..n
        BY <1>1, <1>6, <3>1
      <4>2. at[i] <= at[m]
        BY <3>1, <4>1, CrashesOrdered
      <4> QED
        BY <1>1, <1>2, <1>6, <3>1, <4>2
    <3> QED
      BY <1>1, <1>6, <3>1, <3>2
  <2>2. m \in 0..n
    BY <1>1, <1>6
  <2>3. Cardinality(R) <= n - m
    BY Zenon, <1>4, <2>1, <2>2
  <2> QED
    BY <1>1, <1>3, <1>5, <2>3
<1> QED
  BY Zenon, <1>6, <1>7

(* A quarantined service has had MaxCrashes crashes, the first of which is *)
(* less than a window before the last: so are the delays between them.     *)
LEMMA QuarantinedWindow ==
  ASSUME PolicyInv, SpacedInv, State = Quarantined, manual = 0
  PROVE  LET m == CrashCount - MaxCrashes + 1 IN
         m \in 1..CrashCount /\ slept(m, CrashCount) < Window
<1> DEFINE n == CrashCount
           m == n - MaxCrashes + 1
<1>1. n \in Nat /\ ShouldQuarantine(1..n, at, judged[n])
  BY PolicyAssumption DEF PolicyInv, QuarantineExact, TypeOK, PolicyAssumption
<1>2. n > 0
  <2> SUFFICES ASSUME n = 0 PROVE FALSE
    BY <1>1
  <2>1. recent(1..n, at, judged[n]) = {}
    BY DEF recent
  <2>2. Cardinality(recent(1..n, at, judged[n])) = 0
    BY Zenon, <2>1, FS_EmptySet
  <2> QED
    BY <1>1, <2>2, PolicyAssumption DEF ShouldQuarantine, PolicyAssumption
<1>3. n \in 1..n /\ judged[n] \in Int /\ at[n] \in Int /\ Window \in Int
  BY <1>1, <1>2, PolicyAssumption DEF PolicyInv, TypeOK, PolicyAssumption
<1>4. m \in 1..n /\ at[m] > judged[n] - Window
  BY Zenon, <1>1, <1>3, FullWindow DEF PolicyInv
<1>5. at[m] \in Int /\ n \in m..n /\ m - 1 \in Nat /\ n - 1 \in Nat
  BY <1>1, <1>2, <1>4, PolicyAssumption DEF PolicyInv, TypeOK, PolicyAssumption
<1>6. at[n] - at[m] >= slept(m, n)
  BY <1>4, <1>5, CrashesApart DEF PolicyInv
<1>7. slept(m, n) \in Int
  BY <1>5, AllSleptDef DEF slept
<1>8. at[n] <= judged[n]
  BY Zenon, <1>3 DEF SpacedInv
<1> HIDE DEF n, m
<1>9. slept(m, n) < Window
  BY <1>3, <1>4, <1>5, <1>6, <1>7, <1>8
<1> QED
  BY Zenon, <1>4, <1>9 DEF n, m

(* For any configuration: without StartService calls a service is only     *)
(* quarantined at a crash before which the last delays add up to less than *)
(* the window; later crashes restart it for ever (handleCrash).            *)
THEOREM QuarantineComesEarly == Spec => []QuarantineOnlyEarly
<1>1. PolicyInv /\ SpacedInv => QuarantineOnlyEarly
  BY Zenon, QuarantinedWindow DEF QuarantineOnlyEarly
<1> QED
  BY <1>1, PolicyInvariant, SpacedInvariant, PTL

(* For every configuration whose maximum is not below its base, and any    *)
(* number of crashes: the loop of ComputeDelay computes the closed form    *)
(* that its comment documents.                                             *)
THEOREM DelayIsAsDocumented ==
  ASSUME BaseDelay <= MaxDelay
  PROVE  Spec => []DelayAsDocumented
<1>1. TypeOK => DelayAsDocumented
  <2> SUFFICES ASSUME TypeOK, CrashCount > 0
               PROVE  ComputeDelay(CrashCount) = Documented(CrashCount)
    BY Zenon DEF DelayAsDocumented
  <2>1. CrashCount \in Nat
    BY PolicyAssumption DEF TypeOK, PolicyAssumption
  <2> QED
    BY Zenon, <2>1, DelayClosedForm
<1> QED
  BY <1>1, PolicyTypeCorrect, PTL

(* DefaultBackoff: 1s, 2s, 4s, 8s, 16s, and then 30s for ever.             *)
LEMMA DefaultDelays ==
  ASSUME NEW second \in Nat \ {0}, BaseDelay = second, MaxDelay = 30 * second
  PROVE  \A k \in Nat : k >= 6 => ComputeDelay(k) = 30 * second
<1> DEFINE T == {k \in Nat : doubled[k + 5] = 30 * second}
<1>1. /\ doubled[1] = 2 * second /\ doubled[2] = 4 * second /\ doubled[3] = 8 * second
      /\ doubled[4] = 16 * second /\ doubled[5] = 30 * second
  <2>1. /\ doubled[0] = second
        /\ \A i \in Nat : doubled[i + 1] = IF 2 * doubled[i] > 30 * second THEN 30 * second ELSE 2 * doubled[i]
    BY DoubledDef
  <2>2. doubled[0 + 1] = 2 * second
    BY <2>1
  <2>3. doubled[1 + 1] = 4 * second
    BY <2>1, <2>2
  <2>4. doubled[2 + 1] = 8 * second
    BY <2>1, <2>3
  <2>5. doubled[3 + 1] = 16 * second
    BY <2>1, <2>4
  <2>6. doubled[4 + 1] = 30 * second
    BY <2>1, <2>5
  <2> QED
    BY <2>2, <2>3, <2>4, <2>5, <2>6
<1>2. 0 \in T
  BY <1>1
<1>3. ASSUME NEW k \in T PROVE k + 1 \in T
  <2>1. k + 5 \in Nat /\ (k + 5) + 1 = (k + 1) + 5
    OBVIOUS
  <2>2. doubled[(k + 5) + 1] = 30 * second
    BY <2>1, DoubledDef
  <2> QED
    BY <2>1, <2>2
<1>4. T = Nat
  <2> HIDE DEF T
  <2> QED
    BY Zenon, <1>2, <1>3, Induction DEF T
<1>5. ASSUME NEW k \in Nat, k >= 6 PROVE ComputeDelay(k) = 30 * second
  <2>1. k - 6 \in Nat /\ (k - 6) + 5 = k - 1
    BY <1>5
  <2>2. doubled[k - 1] = 30 * second
    BY Zenon, <1>4, <2>1
  <2> QED
    BY <1>5, <2>2 DEF ComputeDelay
<1> QED
  BY Zenon, <1>5

(* With the default configuration, 1s doubling to 30s and 5 crashes in 2   *)
(* minutes, for clocks of any resolution: without StartService calls only  *)
(* the 5th to the 9th crash of a service can quarantine it.  From the 10th *)
(* on, four delays of 30s fill the window (DefaultBackoff,                 *)
(* DefaultQuarantine, handleCrash).                                        *)
THEOREM DefaultsQuarantineEarly ==
  ASSUME NEW second \in Nat \ {0},
         BaseDelay = second, MaxDelay = 30 * second, MaxCrashes = 5, Window = 120 * second
  PROVE  Spec => [](State = Quarantined /\ manual = 0 => CrashCount \in 5..9)
<1>1. ASSUME PolicyInv, SpacedInv, State = Quarantined, manual = 0 PROVE CrashCount \in 5..9
  <2>1. PICK n \in Nat : n = CrashCount
    BY <1>1, PolicyAssumption DEF PolicyInv, TypeOK, PolicyAssumption
  <2>2. n - 5 + 1 \in 1..n /\ slept(n - 5 + 1, n) < 120 * second
    BY <1>1, <2>1, QuarantinedWindow
  <2>3. n >= 5
    BY <2>2
  <2>4. ASSUME n >= 10 PROVE FALSE
    <3> DEFINE a == n - 5
    <3>1. a \in Nat /\ a + 1 \in Nat /\ a + 2 \in Nat /\ a + 3 \in Nat /\ a + 4 \in Nat /\ a >= 5
      BY <2>4
    <3>2. (a + 1) + 1 = a + 2 /\ (a + 2) + 1 = a + 3 /\ (a + 3) + 1 = a + 4
      BY <3>1
    <3>3. /\ ComputeDelay(a + 1) = 30 * second /\ ComputeDelay(a + 2) = 30 * second
          /\ ComputeDelay(a + 3) = 30 * second /\ ComputeDelay(a + 4) = 30 * second
      BY <3>1, DefaultDelays
    <3>4. /\ allSlept[a + 1] = allSlept[a] + ComputeDelay(a + 1)
          /\ allSlept[(a + 1) + 1] = allSlept[a + 1] + ComputeDelay((a + 1) + 1)
          /\ allSlept[(a + 2) + 1] = allSlept[a + 2] + ComputeDelay((a + 2) + 1)
          /\ allSlept[(a + 3) + 1] = allSlept[a + 3] + ComputeDelay((a + 3) + 1)
      BY Zenon, <3>1, AllSleptDef
    <3>5. allSlept[a] \in Nat
      BY <3>1, AllSleptDef
    <3>6. allSlept[a + 4] = allSlept[a] + 120 * second
      <4>1. /\ allSlept[a + 2] = allSlept[a + 1] + ComputeDelay(a + 2)
            /\ allSlept[a + 3] = allSlept[a + 2] + ComputeDelay(a + 3)
            /\ allSlept[a + 4] = allSlept[a + 3] + ComputeDelay(a + 4)
        BY Zenon, <3>2, <3>4
      <4> HIDE DEF a
      <4> QED
        BY <3>3, <3>4, <3>5, <4>1
    <3>7. n - 1 = a + 4 /\ (n - 5 + 1) - 1 = a
      OBVIOUS
    <3>8. slept(n - 5 + 1, n) = allSlept[a + 4] - allSlept[a]
      BY Zenon, <3>7 DEF slept
    <3> HIDE DEF a
    <3> QED
      BY <2>2, <3>5, <3>6, <3>8
  <2> QED
    BY <2>1, <2>3, <2>4
<1>2. PolicyInv /\ SpacedInv => (State = Quarantined /\ manual = 0 => CrashCount \in 5..9)
  BY Zenon, <1>1
<1> QED
  BY <1>2, PolicyInvariant, SpacedInvariant, PTL
=============================================================================
