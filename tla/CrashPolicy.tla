----------------------------- MODULE CrashPolicy -----------------------------
(***************************************************************************)
(* Time in the crash recovery of one service: the backoff delays, the      *)
(* sliding quarantine window and the restart timers of handleCrash, which  *)
(* the module Supervisor leaves open.  In return a start() is one step     *)
(* here; its interleavings are the module Supervisor.                      *)
(*                                                                         *)
(* Crashes are numbered in the order handleCrash takes their reports.      *)
(* CrashWindow holds the numbers of the crashes whose times the code       *)
(* keeps.  handleCrash reads the clock before it prunes them, and          *)
(* ShouldQuarantine reads it again.                                        *)
(***************************************************************************)
EXTENDS ServiceState, Integers, FiniteSets

CONSTANTS
  BaseDelay, MaxDelay,  \* BackoffConfig
  MaxCrashes, Window,   \* QuarantineConfig
  MaxTime,              \* bound: ticks the clock runs
  MaxPause,             \* bound: ticks between the two readings in handleCrash
  MaxCount,             \* bound: crash reports taken
  MaxManual             \* bound: StartService calls

ASSUME PolicyAssumption ==
  /\ BaseDelay \in Nat /\ MaxDelay \in Nat
  /\ MaxCrashes \in Nat /\ Window \in Nat \ {0}
  /\ MaxTime \in Nat /\ MaxPause \in Nat /\ MaxCount \in Nat /\ MaxManual \in Nat

VARIABLES
  now,          \* the clock
  State,        \* se.State
  CrashCount,   \* se.CrashCount
  CrashWindow,  \* se.CrashWindow
  timers,       \* crashes whose restart timer has not fired
  procs,        \* processes of the service that run
  reports,      \* crash reports on their way to Run
  at,           \* history: when handleCrash took the report of each crash
  judged,       \* history: when ShouldQuarantine looked at it
  manual        \* history: StartService calls that reached start()

vars == <<now, State, CrashCount, CrashWindow, timers, procs, reports, at, judged, manual>>

(* The values the variables take.                                          *)
TypeOK ==
  /\ now \in 0..MaxTime
  /\ State \in ServiceStates
  /\ CrashCount \in 0..MaxCount
  /\ CrashWindow \subseteq 1..CrashCount /\ timers \subseteq 1..CrashCount
  /\ procs \in Nat /\ reports \in Nat
  /\ at \in [1..CrashCount -> 0..now] /\ judged \in [1..CrashCount -> 0..now]
  /\ manual \in 0..MaxManual

Init ==
  /\ now = 0
  /\ State = Declared
  /\ CrashCount = 0 /\ CrashWindow = {}
  /\ timers = {} /\ procs = 0 /\ reports = 0
  /\ at = [k \in {} |-> 0] /\ judged = [k \in {} |-> 0]
  /\ manual = 0

Tick ==
  /\ now < MaxTime
  /\ now' = now + 1
  /\ UNCHANGED <<State, CrashCount, CrashWindow, timers, procs, reports, at, judged, manual>>

-----------------------------------------------------------------------------
\* The loop of ComputeDelay after i rounds.
doubled[i \in Nat] ==
  IF i = 0 THEN BaseDelay
  ELSE LET d == 2 * doubled[i - 1] IN IF d > MaxDelay THEN MaxDelay ELSE d

Mut_ComputeDelay(count) == doubled[count]
ComputeDelay(count) == IF count <= 1 THEN BaseDelay ELSE doubled[count - 1]

Mut_recent(crashes, times, t) == {k \in crashes : times[k] >= t - Window}

\* The crashes that are less than Window old at time t.
recent(crashes, times, t) == {k \in crashes : times[k] > t - Window}

ShouldQuarantine(crashes, times, t) ==
  MaxCrashes > 0 /\ Cardinality(recent(crashes, times, t)) >= MaxCrashes

\* start(): the service is up, cmd.Start() fails, or the process does not get
\* ready, is killed and reported.
start ==
  \/ State' = Healthy /\ procs' = procs + 1 /\ UNCHANGED reports
  \/ State' = Crashed /\ UNCHANGED <<procs, reports>>
  \/ State' = Crashed /\ reports' = reports + 1 /\ UNCHANGED procs

StartAll ==
  /\ State = Declared
  /\ start
  /\ UNCHANGED <<now, CrashCount, CrashWindow, timers, at, judged, manual>>

\* A process ends; the monitor reports it unless the service is Stopped.
Crash ==
  /\ procs > 0
  /\ procs' = procs - 1
  /\ reports' = IF State = Stopped THEN reports ELSE reports + 1
  /\ UNCHANGED <<now, State, CrashCount, CrashWindow, timers, at, judged, manual>>

Mut_pruned(n, times) == recent(CrashWindow, times, now)
pruned(n, times) == recent(CrashWindow \cup {n}, times, now)

Mut_counted == CrashCount

\* se.CrashCount++
counted == CrashCount + 1

HandleCrash ==
  /\ reports > 0
  /\ reports' = reports - 1
  /\ \/ State = Stopped
        /\ UNCHANGED <<now, State, CrashCount, CrashWindow, timers, at, judged>>
     \/ /\ State # Stopped /\ CrashCount < MaxCount
        /\ \E later \in now..(now + MaxPause) :
             LET n == CrashCount + 1 IN
             /\ later <= MaxTime /\ now' = later
             /\ CrashCount' = counted
             /\ at' = [k \in 1..n |-> IF k = n THEN now ELSE at[k]]
             /\ judged' = [k \in 1..n |-> IF k = n THEN later ELSE judged[k]]
             /\ CrashWindow' = pruned(n, at')
             /\ \/ /\ ShouldQuarantine(CrashWindow', at', later)
                   /\ State' = Quarantined /\ UNCHANGED timers
                \/ /\ ~ShouldQuarantine(CrashWindow', at', later)
                   /\ State' = Restarting /\ timers' = timers \cup {n}
  /\ UNCHANGED <<procs, manual>>

Mut_due(k) == TRUE
due(k) == now >= judged[k] + ComputeDelay(k)

\* The function passed to time.AfterFunc for crash k.
RestartTimer(k) ==
  /\ k \in timers /\ due(k)
  /\ timers' = timers \ {k}
  /\ \/ State # Restarting /\ UNCHANGED <<State, procs, reports>>
     \/ State = Restarting /\ start
  /\ UNCHANGED <<now, CrashCount, CrashWindow, at, judged, manual>>

StartService ==
  /\ manual < MaxManual
  /\ CanTransition(State, Starting)
  /\ start
  /\ manual' = manual + 1
  /\ UNCHANGED <<now, CrashCount, CrashWindow, timers, at, judged>>

\* StopService on a running service returns when its process has ended.
StopService ==
  /\ State = Healthy
  /\ State' = Stopped
  /\ procs' = IF procs = 0 THEN 0 ELSE procs - 1
  /\ UNCHANGED <<now, CrashCount, CrashWindow, timers, reports, at, judged, manual>>

\* The clock has come to its bound.
Over == now = MaxTime /\ UNCHANGED vars

Next ==
  \/ Tick \/ StartAll \/ Crash \/ HandleCrash
  \/ \E k \in 1..MaxCount : RestartTimer(k)
  \/ StartService \/ StopService \/ Over

Spec == Init /\ [][Next]_vars

-----------------------------------------------------------------------------
(* A service is quarantined exactly when the crashes of its whole history, *)
(* those before a manual restart included, fill the window: pruning the    *)
(* kept times crash by crash loses none that still counts (handleCrash,    *)
(* ShouldQuarantine).                                                      *)
QuarantineExact ==
  LET n == CrashCount IN
  /\ State = Quarantined => ShouldQuarantine(1..n, at, judged[n])
  /\ State = Restarting => ~ShouldQuarantine(1..n, at, judged[n])

(* As long as nobody calls StartService, a restart comes no sooner after   *)
(* the crash than the documented delay for the number of crashes so far,   *)
(* "base * 2^(count-1), capped at max" (ComputeDelay, the restart timer).  *)
BackoffKept ==
  [][State = Restarting /\ State' # Restarting /\ manual' = 0
       => now >= judged[CrashCount] + ComputeDelay(CrashCount)]_vars

twoToThe[n \in Nat] == IF n = 0 THEN 1 ELSE 2 * twoToThe[n - 1]

Documented(count) ==
  LET d == BaseDelay * twoToThe[count - 1] IN IF d > MaxDelay THEN MaxDelay ELSE d

(* The loop of ComputeDelay computes the documented closed form, "base *   *)
(* 2^(count-1), capped at max".                                            *)
DelayAsDocumented == CrashCount > 0 => ComputeDelay(CrashCount) = Documented(CrashCount)

\* The delays after the first n crashes, added up.
allSlept[n \in Nat] == IF n = 0 THEN 0 ELSE allSlept[n - 1] + ComputeDelay(n)

\* The least time from crash m to crash n when nobody calls StartService.
slept(m, n) == allSlept[n - 1] - allSlept[m - 1]

(* CrashCount is never reset, so the delays only grow, and with them the   *)
(* window empties: as long as nobody calls StartService a service is only  *)
(* quarantined at a crash before which the last delays add up to less than *)
(* the window.  By the defaults, 1s doubling to 30s and 5 crashes in 2     *)
(* minutes, that is the 5th to the 9th crash; a later crash loop goes on   *)
(* for ever (handleCrash, DefaultBackoff, DefaultQuarantine).              *)
QuarantineOnlyEarly ==
  State = Quarantined /\ manual = 0 => slept(CrashCount - MaxCrashes + 1, CrashCount) < Window
=============================================================================
