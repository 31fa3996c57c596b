--------------------------- MODULE Recovery_proofs ---------------------------
(***************************************************************************)
(* What the crash recovery guarantees as long as no client sends           *)
(* svc.start: the restart timer is then the only code that spawns after    *)
(* StartAll, and it never meets an incarnation that is still being watched. *)
(***************************************************************************)
EXTENDS Manager_proofs

(* Without svc.start requests: the incarnations before the current one are *)
(* over, a done channel is closed by the monitor of its own process, a     *)
(* service has at most one report under way, and where a spawn is possible *)
(* the report of the last process has been taken.                          *)
Past ==
  \A s \in Services, i \in Incarnations :
    i < Cmd[s] => mon[s][i] = "end"

Watch ==
  \A s \in Services, i \in Incarnations :
    /\ mon[s][i] = "waiting" => monCmd[s][i] = i
    /\ i \in closed[s] <=> mon[s][i] \in {"closed", "report", "end"}
    /\ i \in closed[s] => proc[s][i] = "exited"
    /\ i > Cmd[s] => proc[s][i] = "none"

OneReport ==
  /\ \A s \in Services : queued(s) => Cmd[s] >= 1 /\ mon[s][Cmd[s]] = "end"
  /\ \A j, k \in 1..Len(crashCh) : crashCh[j] = crashCh[k] => j = k

Settled ==
  \A s \in Services : State[s] \in {Restarting, Quarantined, Declared} =>
    ~queued(s) /\ (Cmd[s] = 0 \/ mon[s][Cmd[s]] = "end")

StopEnd ==
  \A s \in Services, i \in Incarnations : stopPc[s][i] = "end" => i \in closed[s]

Pending == Past /\ Watch /\ OneReport /\ Settled /\ StopEnd

NoStartInv == checked = {} /\ NoPanic /\ Pending

-----------------------------------------------------------------------------
(* A start() of a service whose last process has been reported and whose   *)
(* report has been taken disturbs nothing.                                 *)
LEMMA SpawnPending ==
  ASSUME TypeInv, Pending, NEW s \in Services, State[s] \in {Restarting, Declared},
         spawn(s) \/ spawnFails(s), UNCHANGED <<monCmd, closed, crashCh, stopPc>>
  PROVE  Pending'
<1>0. /\ Cmd[s] \in Int /\ Cmd[s] >= 0
      /\ spawn(s) => Cmd[s] + 1 \in Incarnations
  BY ConstantsAssumption DEF TypeInv, TypeOK, EntryType, spawn, Incarnations
<1> USE DEF Pending, TypeInv, TypeOK, EntryType, ProcessType, ThreadType
<1>1. ~queued(s) /\ (Cmd[s] = 0 \/ mon[s][Cmd[s]] = "end")
  BY Zenon DEF Settled
<1>2. CASE spawnFails(s)
  <2>1. UNCHANGED <<Cmd, proc, mon>> /\ State' = [State EXCEPT ![s] = Crashed]
    BY Zenon, <1>2 DEF spawnFails
  <2>2. Settled'
    BY <2>1 DEF Settled, queued, Crashed, Restarting, Quarantined, Declared
  <2>3. Past' /\ Watch' /\ OneReport' /\ StopEnd'
    BY <2>1 DEF Past, Watch, OneReport, StopEnd, queued
  <2> QED
    BY <2>2, <2>3
<1>3. CASE spawn(s)
  <2> DEFINE i == Cmd[s] + 1
  <2>1. i \in Incarnations /\ Cmd[s] \in Int /\ Cmd[s] >= 0
    BY Zenon, <1>0, <1>3
  <2>2. /\ Cmd' = [Cmd EXCEPT ![s] = i]
        /\ proc' = [proc EXCEPT ![s][i] = "booting"]
        /\ mon' = [mon EXCEPT ![s][i] = "spawned"]
        /\ State' = [State EXCEPT ![s] = Starting]
    BY Zenon, <1>3 DEF spawn
  <2>3. \A t \in Services : Cmd[t] \in Int /\ Cmd[t] >= 0
    BY ConstantsAssumption
  <2>4. Incarnations \subseteq Int
    BY DEF Incarnations
  <2> HIDE DEF i
  <2>5. Past'
    <3> SUFFICES ASSUME NEW t \in Services, NEW j \in Incarnations, j < Cmd'[t]
                 PROVE  mon'[t][j] = "end"
      BY Zenon DEF Past
    <3>1. CASE t = s
      <4>1. j < i /\ j <= Cmd[s]
        BY <2>1, <2>2, <2>4, <3>1 DEF i
      <4>2. mon'[s][j] = mon[s][j]
        BY <2>1, <2>2, <4>1, <2>4
      <4> QED
        BY <1>1, <2>1, <2>4, <3>1, <4>1, <4>2 DEF Past, Incarnations
    <3>2. CASE t # s
      BY Zenon, <2>2, <3>2 DEF Past
    <3> QED
      BY Zenon, <3>1, <3>2
  <2>6. Watch'
    <3> SUFFICES ASSUME NEW t \in Services, NEW j \in Incarnations
                 PROVE  /\ mon'[t][j] = "waiting" => monCmd[t][j] = j
                        /\ j \in closed[t] <=> mon'[t][j] \in {"closed", "report", "end"}
                        /\ j \in closed[t] => proc'[t][j] = "exited"
                        /\ j > Cmd'[t] => proc'[t][j] = "none"
      BY DEF Watch
    <3>1. CASE t = s /\ j = i
      <4>1. i > Cmd[s]
        BY <2>1 DEF i
      <4>2. mon[s][i] = "none"
        BY Zenon, <2>1, <4>1 DEF Counted
      <4>3. i \notin closed[s]
        BY Zenon, <2>1, <4>2 DEF Watch
      <4>4. mon'[t][j] = "spawned" /\ Cmd'[t] = i
        BY Zenon, <2>1, <2>2, <3>1
      <4> QED
        BY <2>1, <2>4, <3>1, <4>3, <4>4
    <3>2. CASE ~(t = s /\ j = i)
      <4>1. mon'[t][j] = mon[t][j] /\ proc'[t][j] = proc[t][j]
        BY Zenon, <2>2, <3>2
      <4>2. j > Cmd'[t] => j > Cmd[t]
        BY <2>1, <2>2, <2>3, <2>4 DEF i
      <4> QED
        BY <4>1, <4>2 DEF Watch
    <3> QED
      BY Zenon, <3>1, <3>2
  <2>7. OneReport'
    <3>1. \A t \in Services : queued(t)' => queued(t) /\ t # s
      BY Zenon, <1>1 DEF queued
    <3>2. ASSUME NEW t \in Services, t # s PROVE Cmd'[t] = Cmd[t] /\ mon'[t] = mon[t]
      BY Zenon, <2>2, <3>2
    <3>3. \A t \in Services : queued(t)' => Cmd'[t] >= 1 /\ mon'[t][Cmd'[t]] = "end"
      BY Zenon, <3>1, <3>2 DEF OneReport
    <3>4. \A j, k \in 1..Len(crashCh') : crashCh'[j] = crashCh'[k] => j = k
      BY Zenon DEF OneReport
    <3> QED
      BY Zenon, <3>3, <3>4 DEF OneReport
  <2>8. Settled'
    <3> SUFFICES ASSUME NEW t \in Services, State'[t] \in {Restarting, Quarantined, Declared}
                 PROVE  ~queued(t)' /\ (Cmd'[t] = 0 \/ mon'[t][Cmd'[t]] = "end")
      BY Zenon DEF Settled
    <3>1. t # s
      BY Zenon, <2>2 DEF Starting, Restarting, Quarantined, Declared
    <3> QED
      BY Zenon, <2>2, <3>1 DEF Settled, queued
  <2>9. StopEnd'
    BY Zenon DEF StopEnd
  <2> QED
    BY <2>5, <2>6, <2>7, <2>8, <2>9
<1> QED
  BY Zenon, <1>2, <1>3

(* A process takes a step of its own, or is killed.                        *)
LEMMA ProcessPending ==
  ASSUME TypeInv, Pending, UNCHANGED <<State, Cmd, mon, monCmd, closed, crashCh>>, StopEnd',
         \A t \in Services, j \in Incarnations :
           \/ proc'[t][j] = proc[t][j]
           \/ j <= Cmd[t] /\ (proc'[t][j] = "exited" \/ j \notin closed[t])
  PROVE  Pending'
<1>1. Past' /\ OneReport' /\ Settled'
  BY DEF Pending, Past, OneReport, Settled, queued
<1>2. Watch'
  <2>1. \A t \in Services, j \in Incarnations : Cmd[t] \in Int /\ j \in Int
    BY ConstantsAssumption DEF TypeInv, TypeOK, EntryType, Incarnations
  <2> QED
    BY <2>1 DEF Pending, Watch
<1> QED
  BY Zenon, <1>1, <1>2 DEF Pending

(* The monitor of a service that is not about to be spawned and has no     *)
(* report in the channel moves on.                                         *)
LEMMA OthersReported ==
  ASSUME Pending, UNCHANGED <<State, Cmd, crashCh>>, NEW s \in Services, ~queued(s),
         State[s] \notin {Restarting, Quarantined, Declared},
         \A t \in Services : t # s => mon'[t] = mon[t]
  PROVE  OneReport' /\ Settled'
<1>1. \A t \in Services : queued(t)' <=> queued(t)
  BY Zenon DEF queued
<1>2. OneReport'
  BY Zenon, <1>1 DEF Pending, OneReport
<1>3. Settled'
  BY Zenon, <1>1 DEF Pending, Settled
<1> QED
  BY Zenon, <1>2, <1>3

(* Only the monitor of the current incarnation moves on.                   *)
LEMMA PastKept ==
  ASSUME Pending, Cmd' = Cmd, NEW s \in Services,
         \A t \in Services, j \in Incarnations : j < Cmd[t] => j # Cmd[t],
         \A t \in Services, j \in Incarnations : t # s \/ j # Cmd[s] => mon'[t][j] = mon[t][j]
  PROVE  Past'
<1> SUFFICES ASSUME NEW t \in Services, NEW j \in Incarnations, j < Cmd[t]
             PROVE  mon'[t][j] = "end"
  BY Zenon DEF Past
<1>1. mon'[t][j] = mon[t][j]
  BY Zenon
<1> QED
  BY Zenon, <1>1 DEF Pending, Past

(* A step that touches nothing the invariant is about.                     *)
LEMMA PendingKept ==
  ASSUME Pending, UNCHANGED <<State, Cmd, proc, mon, monCmd, closed, crashCh, stopPc>>
  PROVE  Pending'
<1>1. Past' /\ Watch'
  BY Zenon DEF Pending, Past, Watch
<1>2. OneReport' /\ Settled' /\ StopEnd'
  BY Zenon DEF Pending, OneReport, Settled, StopEnd, queued
<1> QED
  BY Zenon, <1>1, <1>2 DEF Pending

(* Every step of the manager keeps the recovery invariant.                 *)
LEMMA PendingStep ==
  ASSUME "svc.start" \notin Requests, TypeInv, StartAllProgress, NoStartInv, [Next]_vars
  PROVE  NoStartInv'
<1> checked = {} /\ NoPanic /\ Pending
  BY Zenon DEF NoStartInv
<1> SUFFICES (checked = {} /\ NoPanic /\ Pending)'
  BY Zenon DEF NoStartInv, Pending
<1> USE DEF entry, process, threads, main
<1> DEFINE Safe == checked = {} /\ NoPanic /\ Pending
<1> SUFFICES Safe'
  BY Zenon DEF NoStartInv
<1>0. /\ Incarnations \subseteq Int
      /\ \A t \in Services : Cmd[t] \in Int /\ Cmd[t] >= 0 /\ Cmd[t] <= MaxSpawn
      /\ MaxSpawn \in Nat
  BY ConstantsAssumption DEF Incarnations, TypeInv, TypeOK, EntryType
<1>a. \A t \in Services, j \in Incarnations : j < Cmd[t] => j # Cmd[t]
  BY <1>0
<1>1. ASSUME NEW s \in Services, NEW i \in Incarnations,
             Listen(s, i) \/ Die(s, i) \/ Terminate(s, i)
      PROVE  Safe'
  <2>1. i <= Cmd[s] /\ i \notin closed[s]
    BY <1>0, <1>1 DEF Listen, Die, Terminate, Pending, Watch
  <2>2. \A t \in Services, j \in Incarnations : t # s \/ j # i => proc'[t][j] = proc[t][j]
    BY <1>1 DEF Listen, Die, Terminate, TypeInv, TypeOK, ProcessType
  <2>3. UNCHANGED <<State, Cmd, mon, monCmd, closed, crashCh, stopPc, checked, phase>>
    BY Zenon, <1>1 DEF Listen, Die, Terminate
  <2>4. StopEnd'
    BY Zenon, <2>3 DEF Pending, StopEnd
  <2>5. Pending'
    BY Zenon, <2>1, <2>2, <2>3, <2>4, ProcessPending
  <2> QED
    BY Zenon, <2>3, <2>5 DEF NoPanic
<1>2. ASSUME NEW s \in Services, NEW i \in Incarnations, StartKill(s, i) \/ StopKill(s, i)
      PROVE  Safe'
  <2>1. proc' = [proc EXCEPT ![s][Cmd[s]] = "exited"]
    BY Zenon, <1>2 DEF StartKill, StopKill, Kill
  <2>2. \A t \in Services, j \in Incarnations :
          proc'[t][j] = proc[t][j] \/ (j <= Cmd[t] /\ proc'[t][j] = "exited")
    BY <1>0, <2>1 DEF TypeInv, TypeOK, ProcessType
  <2>3. UNCHANGED <<State, Cmd, mon, monCmd, closed, crashCh, checked, phase>>
    BY Zenon, <1>2 DEF StartKill, StopKill
  <2>4. StopEnd'
    <3>1. \A t \in Services, j \in Incarnations :
            stopPc'[t][j] = stopPc[t][j] \/ stopPc'[t][j] = "killed"
      <4>1. CASE StartKill(s, i)
        BY Zenon, <4>1 DEF StartKill
      <4>2. CASE StopKill(s, i)
        BY Zenon, <4>2 DEF StopKill, TypeInv, TypeOK, ThreadType
      <4> QED
        BY Zenon, <1>2, <4>1, <4>2
    <3> QED
      BY Zenon, <2>3, <3>1 DEF Pending, StopEnd
  <2>5. Pending'
    BY Zenon, <2>2, <2>3, <2>4, ProcessPending
  <2> QED
    BY Zenon, <2>3, <2>5 DEF NoPanic
<1>3. ASSUME NEW s \in Services, NEW i \in Incarnations, PollReady(s, i) \/ ReadyTimeout(s, i)
      PROVE  Safe'
  BY Zenon, <1>3, PendingKept DEF PollReady, ReadyTimeout, NoPanic
<1>4. ASSUME NEW s \in Services, NEW i \in Incarnations,
             BecomeHealthy(s, i) \/ NotReady(s, i)
      PROVE  Safe'
  <2>1. UNCHANGED <<Cmd, mon, monCmd, closed, crashCh, proc, stopPc, checked>>
    BY Zenon, <1>4 DEF BecomeHealthy, NotReady
  <2>2. phase' # "panicked"
    BY Zenon, <1>4 DEF BecomeHealthy, NotReady, StartReturns, NoPanic
  <2>3. \A t \in Services : State'[t] = State[t] \/ State'[t] \in {Healthy, Crashed}
    BY Zenon, <1>4 DEF BecomeHealthy, NotReady, TypeInv, TypeOK, EntryType
  <2>4. Settled'
    BY SMTT(30), <2>1, <2>3 DEF Pending, Settled, queued, Healthy, Crashed, Restarting, Quarantined,
       Declared
  <2> QED
    BY <2>1, <2>2, <2>4 DEF NoPanic, Pending, Past, Watch, OneReport, StopEnd, queued
<1>5. ASSUME NEW s \in Services, beginStop(s), phase' = phase
      PROVE  Safe'
  <2>1. UNCHANGED <<Cmd, mon, monCmd, closed, crashCh, proc, checked>>
    BY Zenon, <1>5 DEF beginStop
  <2>2. Settled'
    BY <1>5, <2>1 DEF beginStop, Pending, Settled, queued, Stopped, Restarting, Quarantined,
       Declared, TypeInv, TypeOK, EntryType
  <2>3. StopEnd'
    BY SMTT(30), <1>5, <2>1 DEF beginStop, Pending, StopEnd, TypeInv, TypeOK, ThreadType
  <2> QED
    BY <1>5, <2>1, <2>2, <2>3 DEF NoPanic, Pending, Past, Watch, OneReport, queued
<1>6. ASSUME NEW s \in Services, NEW i \in Incarnations, StopReturns(s, i)
      PROVE  Safe'
  <2>1. UNCHANGED <<State, Cmd, mon, monCmd, closed, crashCh, proc, checked, phase>>
    BY Zenon, <1>6 DEF StopReturns
  <2>2. StopEnd'
    BY Zenon, <1>6, <2>1 DEF StopReturns, Pending, StopEnd, TypeInv, TypeOK, ThreadType
  <2> QED
    BY <2>1, <2>2 DEF NoPanic, Pending, Past, Watch, OneReport, Settled, queued
<1>7. ASSUME NEW s \in Services, NEW i \in Incarnations, mon[s][i] \notin {"none", "end"}
      PROVE  i = Cmd[s] /\ ~queued(s) /\ State[s] \notin {Restarting, Quarantined, Declared}
  <2>1. i = Cmd[s]
    BY <1>0, <1>7 DEF Pending, Past, TypeInv, Counted
  <2> QED
    BY SMTT(30), <1>0, <1>7, <2>1 DEF Pending, OneReport, Settled, Incarnations
<1>8. ASSUME NEW s \in Services, NEW i \in Incarnations, MonitorReadsCmd(s, i)
      PROVE  Safe'
  <2>1. UNCHANGED <<State, Cmd, closed, crashCh, proc, stopPc, checked, phase>>
    BY Zenon, <1>8 DEF MonitorReadsCmd
  <2>2. mon[s][i] = "spawned" /\ i = Cmd[s] /\ ~queued(s)
        /\ State[s] \notin {Restarting, Quarantined, Declared}
    BY Zenon, <1>7, <1>8 DEF MonitorReadsCmd
  <2>3. /\ mon'[s][i] = "waiting" /\ monCmd'[s][i] = i
        /\ \A t \in Services, j \in Incarnations :
             t # s \/ j # i => mon'[t][j] = mon[t][j] /\ monCmd'[t][j] = monCmd[t][j]
        /\ \A t \in Services : t # s => mon'[t] = mon[t]
    BY Zenon, <1>8, <2>2 DEF MonitorReadsCmd, TypeInv, TypeOK, ThreadType
  <2>4. Past'
    BY <1>a, <2>1, <2>2, <2>3, PastKept
  <2>5. Watch'
    BY <2>1, <2>2, <2>3 DEF Pending, Watch
  <2>6. OneReport' /\ Settled'
    BY Zenon, <2>1, <2>2, <2>3, OthersReported
  <2> QED
    BY Zenon, <2>1, <2>4, <2>5, <2>6 DEF NoPanic, Pending, StopEnd
<1>9. ASSUME NEW s \in Services, NEW i \in Incarnations, MonitorCloses(s, i)
      PROVE  Safe'
  <2>1. UNCHANGED <<State, Cmd, monCmd, crashCh, proc, stopPc, checked>>
    BY Zenon, <1>9 DEF MonitorCloses
  <2>2. mon[s][i] = "waiting" /\ i = Cmd[s] /\ ~queued(s)
        /\ State[s] \notin {Restarting, Quarantined, Declared}
    BY Zenon, <1>7, <1>9 DEF MonitorCloses
  <2>3. i \notin closed[s] /\ proc[s][i] = "exited"
    BY Zenon, <1>9, <2>2 DEF MonitorCloses, waitReturned, Pending, Watch
  <2>4. /\ closed' = [closed EXCEPT ![s] = @ \cup {i}]
        /\ mon' = [mon EXCEPT ![s][i] = "closed"]
        /\ phase' = phase
    BY <1>9, <2>2, <2>3 DEF MonitorCloses
  <2>5. /\ mon'[s][i] = "closed" /\ closed'[s] = closed[s] \cup {i}
        /\ \A t \in Services, j \in Incarnations : t # s \/ j # i => mon'[t][j] = mon[t][j]
        /\ \A t \in Services : t # s => closed'[t] = closed[t] /\ mon'[t] = mon[t]
    BY Zenon, <2>4 DEF TypeInv, TypeOK, ThreadType
  <2>6. Past'
    BY <1>0, <2>1, <2>2, <2>5 DEF Pending, Past
  <2>7. Watch'
    BY <2>1, <2>2, <2>3, <2>5 DEF Pending, Watch
  <2>8. OneReport' /\ Settled'
    BY Zenon, <2>1, <2>2, <2>5, OthersReported
  <2>9. StopEnd'
    BY Zenon, <2>1, <2>5 DEF Pending, StopEnd
  <2> QED
    BY <2>1, <2>4, <2>6, <2>7, <2>8, <2>9 DEF NoPanic, Pending
<1>10. ASSUME NEW s \in Services, NEW i \in Incarnations, MonitorReadsState(s, i)
      PROVE  Safe'
  <2>1. UNCHANGED <<State, Cmd, monCmd, closed, crashCh, proc, stopPc, checked, phase>>
    BY Zenon, <1>10 DEF MonitorReadsState
  <2>2. mon[s][i] = "closed" /\ i = Cmd[s] /\ ~queued(s)
        /\ State[s] \notin {Restarting, Quarantined, Declared}
    BY Zenon, <1>7, <1>10 DEF MonitorReadsState
  <2>3. /\ mon'[s][i] \in {"report", "end"}
        /\ \A t \in Services, j \in Incarnations : t # s \/ j # i => mon'[t][j] = mon[t][j]
        /\ \A t \in Services : t # s => mon'[t] = mon[t]
    BY <1>10 DEF MonitorReadsState, TypeInv, TypeOK, ThreadType
  <2>4. Past'
    BY <1>a, <2>1, <2>2, <2>3, PastKept
  <2>5. Watch'
    BY <2>1, <2>2, <2>3 DEF Pending, Watch
  <2>6. OneReport' /\ Settled'
    BY Zenon, <2>1, <2>2, <2>3, OthersReported
  <2> QED
    BY Zenon, <2>1, <2>4, <2>5, <2>6 DEF NoPanic, Pending, StopEnd
<1>11. ASSUME NEW s \in Services, NEW i \in Incarnations, MonitorReports(s, i)
      PROVE  Safe'
  <2>1. UNCHANGED <<State, Cmd, monCmd, closed, proc, stopPc, checked, phase>>
    BY Zenon, <1>11 DEF MonitorReports
  <2>2. mon[s][i] = "report" /\ i = Cmd[s] /\ ~queued(s)
        /\ State[s] \notin {Restarting, Quarantined, Declared}
    BY Zenon, <1>7, <1>11 DEF MonitorReports
  <2>3. /\ mon'[s][i] = "end"
        /\ \A t \in Services, j \in Incarnations : t # s \/ j # i => mon'[t][j] = mon[t][j]
        /\ \A t \in Services : t # s => mon'[t] = mon[t]
    BY Zenon, <1>11 DEF MonitorReports, TypeInv, TypeOK, ThreadType
  <2>4. /\ crashCh \in Seq(Services) /\ crashCh' = Append(crashCh, s)
        /\ \A t \in Services : queued(t)' => queued(t) \/ t = s
    BY Zenon, <1>11, QueueAppend DEF MonitorReports, TypeInv, TypeOK
  <2>5. Past' /\ Watch'
    BY <1>0, <2>1, <2>2, <2>3 DEF Pending, Past, Watch
  <2>6. \A t \in Services : queued(t)' => Cmd[t] >= 1 /\ mon'[t][Cmd[t]] = "end"
    <3>1. i >= 1
      BY DEF Incarnations
    <3>2. ASSUME NEW t \in Services, t # s, queued(t)'
          PROVE  Cmd[t] >= 1 /\ mon'[t][Cmd[t]] = "end"
      BY Zenon, <2>3, <2>4, <3>2 DEF Pending, OneReport
    <3> QED
      BY Zenon, <2>2, <2>3, <3>1, <3>2
  <2>7. \A j, k \in 1..Len(crashCh') : crashCh'[j] = crashCh'[k] => j = k
    BY SMTT(30), <2>2, <2>4 DEF Pending, OneReport, queued
  <2>8. OneReport'
    BY Zenon, <2>1, <2>6, <2>7 DEF OneReport
  <2>9. Settled'
    BY Zenon, <2>1, <2>2, <2>3, <2>4 DEF Pending, Settled
  <2> QED
    BY Zenon, <2>1, <2>5, <2>8, <2>9 DEF NoPanic, Pending, StopEnd
<1>12. CASE HandleCrash
  <2>0. PICK h \in Services : h = Head(crashCh)
    BY <1>12 DEF HandleCrash, TypeInv, TypeOK
  <2>1. UNCHANGED <<Cmd, mon, monCmd, closed, proc, stopPc, checked, phase>>
    BY Zenon, <1>12 DEF HandleCrash
  <2>2. /\ crashCh \in Seq(Services) /\ crashCh # <<>> /\ crashCh' = Tail(crashCh)
        /\ queued(h)
    BY <1>12, <2>0 DEF HandleCrash, TypeInv, TypeOK, queued
  <2>3. \A t \in Services : queued(t)' => queued(t)
    BY Zenon, <2>2, QueueTail
  <2>4. ~queued(h)'
    <3> SUFFICES ASSUME NEW k \in 1..Len(Tail(crashCh)), Tail(crashCh)[k] = h PROVE FALSE
      BY Zenon, <2>2 DEF queued
    <3>1. k + 1 \in 1..Len(crashCh) /\ crashCh[k + 1] = crashCh[1] /\ 1 \in 1..Len(crashCh)
      BY <2>0, <2>2
    <3> QED
      BY <3>1 DEF Pending, OneReport
  <2>5. \A j, k \in 1..Len(crashCh') : crashCh'[j] = crashCh'[k] => j = k
    <3> SUFFICES ASSUME NEW j \in 1..Len(Tail(crashCh)), NEW k \in 1..Len(Tail(crashCh)),
                        Tail(crashCh)[j] = Tail(crashCh)[k]
                 PROVE  j = k
      BY Zenon, <2>2
    <3>1. /\ j + 1 \in 1..Len(crashCh) /\ k + 1 \in 1..Len(crashCh)
          /\ crashCh[j + 1] = crashCh[k + 1]
      BY <2>2
    <3> QED
      BY <3>1 DEF Pending, OneReport
  <2>6. OneReport'
    BY Zenon, <2>1, <2>3, <2>5 DEF Pending, OneReport
  <2>7. \A t \in Services : t # h => State'[t] = State[t]
    BY Zenon, <1>12, <2>0, <2>2 DEF HandleCrash, TypeInv, TypeOK, EntryType
  <2>8. Settled'
    BY Zenon, <2>1, <2>2, <2>3, <2>4, <2>7 DEF Pending, Settled, OneReport
  <2> QED
    BY Zenon, <2>1, <2>6, <2>8 DEF NoPanic, Pending, Past, Watch, StopEnd
<1>13. ASSUME NEW s \in Services, RestartTimer(s)
      PROVE  Safe'
  <2>1. UNCHANGED <<monCmd, closed, crashCh, stopPc, checked, phase>>
    BY Zenon, <1>13 DEF RestartTimer
  <2>2. CASE UNCHANGED <<State, Cmd, proc, mon>>
    BY Zenon, <2>1, <2>2, PendingKept DEF NoPanic
  <2>3. CASE State[s] = Restarting /\ (spawn(s) \/ spawnFails(s))
    BY Zenon, <2>1, <2>3, SpawnPending DEF NoPanic
  <2> QED
    BY Zenon, <1>13, <2>2, <2>3 DEF RestartTimer, stillRestarting
<1>14. ASSUME NEW s \in Services, CheckDependencies(s) \/ StartService(s)
      PROVE  FALSE
  BY Zenon, <1>14 DEF CheckDependencies, StartService
<1>15. CASE StartNext
  <2>1. UNCHANGED <<monCmd, closed, crashCh, stopPc, checked>> /\ phase' # "panicked"
    BY Zenon, <1>15 DEF StartNext, NoPanic
  <2>2. order[pos] \in Services /\ pos <= NumServices /\ phase = "startall"
    BY <1>15, CountType DEF StartNext, TypeInv, TypeOK, MainType, MainOK
  <2>3. State[order[pos]] = Declared
    BY Zenon, <1>15, <2>2 DEF StartNext, startAllBusy, StartAllProgress, startInProgress
  <2> QED
    BY <1>15, <2>1, <2>2, <2>3, SpawnPending DEF StartNext, NoPanic
<1>16. CASE StopNext
  <2>1. order[pos] \in Services
    BY <1>16, CountType DEF StopNext, TypeInv, TypeOK, MainType, MainOK
  <2>2. phase' = phase
    BY Zenon, <1>16 DEF StopNext
  <2>3. CASE UNCHANGED <<entry, process, threads, crashCh>>
    BY Zenon, <2>2, <2>3, PendingKept DEF NoPanic
  <2> QED
    BY Zenon, <1>5, <1>16, <2>1, <2>2, <2>3 DEF StopNext
<1>17. CASE RunReturns \/ OpenControl \/ StopNextReturns \/ Exit \/ Shutdown \/ Gone
            \/ UNCHANGED vars
  <2>1. UNCHANGED <<entry, process, threads, crashCh>> /\ phase' # "panicked"
    BY Zenon, <1>17 DEF RunReturns, OpenControl, StopNextReturns, Exit, Shutdown, Gone, vars,
       NoPanic
  <2> QED
    BY Zenon, <2>1, PendingKept DEF NoPanic
<1>18. ASSUME NEW s \in Services, StopService(s) PROVE Safe'
  BY Zenon, <1>5, <1>18 DEF StopService
<1> HIDE DEF entry, process, threads, main, Safe
<1>19. CASE \E s \in Services, i \in Incarnations :
              \/ Listen(s, i) \/ Die(s, i) \/ Terminate(s, i)
              \/ Start(s, i) \/ Monitor(s, i) \/ Stop(s, i)
  BY <1>1, <1>2, <1>3, <1>4, <1>6, <1>8, <1>9, <1>10, <1>11, <1>19 DEF Start, Monitor, Stop
<1>20. CASE \E s \in Services : RestartTimer(s) \/ CheckDependencies(s) \/ StartService(s)
                                \/ StopService(s)
  BY Zenon, <1>13, <1>14, <1>18, <1>20
<1> QED
  BY Zenon, <1>12, <1>15, <1>16, <1>17, <1>19, <1>20 DEF Next, Main

(* Without svc.start requests every incarnation but the current one has    *)
(* ended and been reported, and the current one has at most one report on  *)
(* its way (monitor, handleCrash, the restart timer, stopLocked).          *)
THEOREM RecoveryInvariant ==
  ASSUME "svc.start" \notin Requests
  PROVE  Spec => []NoStartInv
<1>1. Init => NoStartInv
  <2> SUFFICES ASSUME Init PROVE NoStartInv
    BY Zenon
  <2> USE DEF Init, Each
  <2>1. checked = {} /\ NoPanic
    BY Zenon DEF NoPanic
  <2>2. Past /\ StopEnd
    BY DEF Past, StopEnd, Incarnations
  <2>3. Watch
    BY Zenon DEF Watch
  <2>4. OneReport
    BY DEF OneReport, queued
  <2>5. Settled
    BY DEF Settled, queued
  <2> QED
    BY Zenon, <2>1, <2>2, <2>3, <2>4, <2>5 DEF NoStartInv, Pending
<1>2. TypeInv /\ StartAllProgress /\ NoStartInv /\ [Next]_vars => NoStartInv'
  BY Zenon, PendingStep
<1>3. Init => StartAllProgress
  BY SMTT(30), CountType DEF Init, StartAllProgress
<1> QED
  BY <1>1, <1>2, <1>3, TypeInvInit, TypeInvStep, StartAllProgressStep, PTL DEF Spec

(* Only the process se.Cmd stands for may run, and its done channel is     *)
(* still open.                                                             *)
LEMMA PastIsOver ==
  ASSUME TypeInv, NoStartInv, NEW s \in Services, NEW i \in Incarnations, live(s, i)
  PROVE  i = Cmd[s] /\ i \notin closed[s]
<1>1. i \in Int /\ Cmd[s] \in Int
  BY ConstantsAssumption DEF TypeInv, TypeOK, EntryType, Incarnations
<1>2. i \notin closed[s] /\ ~(i > Cmd[s])
  BY Zenon DEF NoStartInv, Pending, Watch, live
<1>3. ~(i < Cmd[s])
  BY Zenon, <1>2 DEF NoStartInv, Pending, Past, Watch
<1> QED
  BY <1>1, <1>2, <1>3

(* Without svc.start requests the automatic restart never overlaps two     *)
(* processes of a service (handleCrash, the restart timer, start).         *)
THEOREM RestartsDoNotOverlap ==
  ASSUME "svc.start" \notin Requests
  PROVE  Spec => []SingleProcess
<1>1. TypeInv /\ NoStartInv => SingleProcess
  BY Zenon, PastIsOver DEF SingleProcess
<1>2. Spec => []TypeInv
  BY TypeInvInit, TypeInvStep, PTL DEF Spec
<1> QED
  BY <1>1, <1>2, RecoveryInvariant, PTL

(* Without svc.start requests the comment on ServiceEntry.done is right.   *)
THEOREM DoneIsExit ==
  ASSUME "svc.start" \notin Requests
  PROVE  Spec => []DoneMeansExited
<1>1. TypeInv /\ NoStartInv => DoneMeansExited
  BY DEF NoStartInv, Pending, Watch, DoneMeansExited, TypeInv, TypeOK, ThreadType
<1>2. Spec => []TypeInv
  BY TypeInvInit, TypeInvStep, PTL DEF Spec
<1> QED
  BY <1>1, <1>2, RecoveryInvariant, PTL

(* And no monitor closes a done channel twice, which would panic.          *)
THEOREM NothingPanics ==
  ASSUME "svc.start" \notin Requests
  PROVE  Spec => []NoPanic
<1>1. NoStartInv => NoPanic
  BY DEF NoStartInv
<1> QED
  BY <1>1, RecoveryInvariant, PTL

(* Without svc.start requests a stop that has returned leaves no process   *)
(* of the service behind (stopLocked, monitor).                            *)
THEOREM StopIsComplete ==
  ASSUME "svc.start" \notin Requests
  PROVE  Spec => []StopReplyMeansDead
<1>1. TypeInv /\ NoStartInv => StopReplyMeansDead
  BY Zenon, PastIsOver DEF StopReplyMeansDead, NoStartInv, Pending, StopEnd
<1>2. Spec => []TypeInv
  BY TypeInvInit, TypeInvStep, PTL DEF Spec
<1> QED
  BY <1>1, <1>2, RecoveryInvariant, PTL

-----------------------------------------------------------------------------
(* The manager implements Lifecycle.                                       *)

\* The last process of s has ended, and its report has been taken.
Over(s) == Cmd[s] >= 1 /\ mon[s][Cmd[s]] = "end" /\ ~queued(s)

(* What the recovery invariant has to be strengthened by: a service that   *)
(* is being started or restarted has been spawned, and one in quarantine   *)
(* has nothing under way that could end the quarantine.                    *)
LifeInv ==
  /\ \A s \in Services : State[s] \in {Starting, Healthy, Restarting} => Cmd[s] >= 1
  /\ \A s \in Services :
       ShouldQuarantine(CrashWindow[s]) => State[s] \in {Quarantined, Crashed} /\ Over(s)

\* A step that neither spawns nor ends a process nor counts a crash.
QuietStep ==
  /\ UNCHANGED <<Cmd, CrashWindow, proc>>
  /\ \A t \in Services :
       \/ State'[t] = State[t]
       \/ State'[t] = Crashed
       \/ State[t] \in {Starting, Healthy} /\ State'[t] \in {Healthy, Stopped}
  /\ \A t \in Services : Over(t) => Over(t)'

\* A process step: i of s binds its socket or ends.
ProcessStep(s, i) ==
  /\ UNCHANGED <<State, Cmd, CrashWindow, mon, crashCh>>
  /\ \/ proc[s][i] = "booting" /\ proc' = [proc EXCEPT ![s][i] = "serving"]
     \/ i <= Cmd[s] /\ proc' = [proc EXCEPT ![s][i] = "exited"]

\* The one way to a new process.
SpawnStep(s) ==
  /\ spawn(s) /\ UNCHANGED <<CrashWindow, crashCh>>
  /\ \/ State[s] = Restarting
     \/ State[s] = Declared /\ \A d \in DependsOn[s] : State[d] = Healthy

(* Nothing but monitors that have not ended moves mon, and only they fill  *)
(* the channel.                                                            *)
LEMMA MonitorQuiet ==
  ASSUME TypeInv, NoStartInv, NEW s \in Services, NEW i \in Incarnations, Monitor(s, i)
  PROVE  QuietStep
<1> USE DEF entry, process, threads, main
<1>1. UNCHANGED <<State, Cmd, CrashWindow, proc>> /\ mon[s][i] \notin {"none", "end"}
  BY Zenon DEF Monitor, MonitorReadsCmd, MonitorCloses, MonitorReadsState, MonitorReports
<1>2. \A t \in Services, j \in Incarnations : t # s \/ j # i => mon'[t][j] = mon[t][j]
  <2>1. mon' = mon \/ \E pc : mon' = [mon EXCEPT ![s][i] = pc]
    BY Zenon DEF Monitor, MonitorReadsCmd, MonitorCloses, MonitorReadsState, MonitorReports
  <2> QED
    BY <2>1 DEF TypeInv, TypeOK, ThreadType
<1>3. i = Cmd[s]
  <2>1. i \in Int /\ Cmd[s] \in Int
    BY ConstantsAssumption DEF TypeInv, TypeOK, EntryType, Incarnations
  <2>2. ~(i < Cmd[s]) /\ ~(i > Cmd[s])
    BY Zenon, <1>1 DEF NoStartInv, Pending, Past, TypeInv, Counted
  <2> QED
    BY <2>1, <2>2
<1>4. \A t \in Services : queued(t)' => queued(t) \/ t = s
  <2>1. CASE MonitorReports(s, i)
    BY Zenon, <2>1, QueueAppend DEF MonitorReports, TypeInv, TypeOK
  <2>2. CASE UNCHANGED crashCh
    BY Zenon, <2>2 DEF queued
  <2> QED
    BY Zenon, <2>1, <2>2 DEF Monitor, MonitorReadsCmd, MonitorCloses, MonitorReadsState
<1>5. ASSUME NEW t \in Services, Over(t) PROVE Over(t)'
  <2>1. t # s
    BY Zenon, <1>1, <1>3, <1>5 DEF Over
  <2>2. Cmd[t] \in Incarnations
    BY <1>5, ConstantsAssumption DEF Over, TypeInv, TypeOK, EntryType, Incarnations
  <2> QED
    BY Zenon, <1>1, <1>2, <1>4, <1>5, <2>1, <2>2 DEF Over
<1> QED
  BY Zenon, <1>1, <1>5 DEF QuietStep

(* What a step of the manager does to processes and crash counts.          *)
LEMMA StepKinds ==
  ASSUME "svc.start" \notin Requests, TypeInv, StartAllProgress, NoStartInv, [Next]_vars
  PROVE  \/ QuietStep \/ HandleCrash
         \/ \E s \in Services, i \in Incarnations : ProcessStep(s, i)
         \/ \E s \in Services : SpawnStep(s)
<1> USE DEF entry, process, threads, main
<1> DEFINE Kinds == \/ QuietStep \/ HandleCrash
                    \/ \E s \in Services, i \in Incarnations : ProcessStep(s, i)
                    \/ \E s \in Services : SpawnStep(s)
<1>0. /\ \A t \in Services : Cmd[t] \in 0..MaxSpawn /\ Cmd[t] \in Int
      /\ Incarnations \subseteq Int /\ 0 \notin Incarnations
  BY ConstantsAssumption DEF Incarnations, TypeInv, TypeOK, EntryType
<1>a. ASSUME NEW s \in Services, NEW x, State' = [State EXCEPT ![s] = x]
      PROVE  \A t \in Services : State'[t] = State[t] \/ (t = s /\ State'[t] = x)
  BY Zenon, <1>a DEF TypeInv, TypeOK, EntryType
<1>1. ASSUME NEW s \in Services, NEW i \in Incarnations,
             Listen(s, i) \/ Die(s, i) \/ Terminate(s, i)
      PROVE  ProcessStep(s, i)
  <2>1. CASE Listen(s, i)
    BY Zenon, <2>1 DEF Listen, ProcessStep
  <2>2. CASE Die(s, i) \/ Terminate(s, i)
    <3>1. i <= Cmd[s]
      BY <1>0, <2>2 DEF Die, Terminate, NoStartInv, Pending, Watch
    <3> QED
      BY Zenon, <2>2, <3>1 DEF Die, Terminate, ProcessStep
  <2> QED
    BY Zenon, <1>1, <2>1, <2>2
<1>2. ASSUME NEW s \in Services, NEW i \in Incarnations, StartKill(s, i) \/ StopKill(s, i)
      PROVE  Kinds
  <2>1. /\ proc' = [proc EXCEPT ![s][Cmd[s]] = "exited"]
        /\ UNCHANGED <<State, Cmd, CrashWindow, mon, crashCh>>
    BY Zenon, <1>2 DEF StartKill, StopKill, Kill
  <2>2. CASE Cmd[s] \in Incarnations
    <3>1. ProcessStep(s, Cmd[s])
      BY <1>0, <2>1 DEF ProcessStep
    <3> QED
      BY Zenon, <2>2, <3>1
  <2>3. CASE Cmd[s] \notin Incarnations
    <3>1. proc' = proc
      BY <2>1, <2>3 DEF TypeInv, TypeOK, ProcessType
    <3> QED
      BY Zenon, <2>1, <3>1 DEF QuietStep, Over, queued
  <2> QED
    BY Zenon, <2>2, <2>3
<1>3. ASSUME NEW s \in Services, NEW i \in Incarnations,
             PollReady(s, i) \/ ReadyTimeout(s, i) \/ StopReturns(s, i)
      PROVE  QuietStep
  BY Zenon, <1>3 DEF PollReady, ReadyTimeout, StopReturns, QuietStep, Over, queued
<1>4. ASSUME NEW s \in Services, NEW i \in Incarnations, BecomeHealthy(s, i) \/ NotReady(s, i)
      PROVE  QuietStep
  <2>1. UNCHANGED <<Cmd, CrashWindow, proc, mon, crashCh>>
    BY Zenon, <1>4 DEF BecomeHealthy, NotReady
  <2>2. \A t \in Services : State'[t] = State[t] \/ State'[t] = Crashed
                            \/ (State[t] = Starting /\ State'[t] = Healthy)
    <3>1. CASE NotReady(s, i)
      <4>1. State' = [State EXCEPT ![s] = Crashed]
        BY Zenon, <3>1 DEF NotReady
      <4> QED
        BY <4>1 DEF TypeInv, TypeOK, EntryType
    <3>2. CASE BecomeHealthy(s, i)
      <4>1. CanTransition(State[s], Healthy) => State[s] = Starting
        BY DEF CanTransition, transitions, Declared, Starting, Healthy, Crashed, Restarting,
           Stopped, Quarantined
      <4>2. \/ State' = State
            \/ CanTransition(State[s], Healthy) /\ State' = [State EXCEPT ![s] = Healthy]
        <5>1. State' = [State EXCEPT ![s] = IF CanTransition(@, Healthy) THEN Healthy ELSE @]
          BY Zenon, <3>2 DEF BecomeHealthy
        <5> QED
          BY Zenon, <5>1 DEF TypeInv, TypeOK, EntryType
      <4> QED
        BY <4>1, <4>2 DEF TypeInv, TypeOK, EntryType
    <3> QED
      BY Zenon, <1>4, <3>1, <3>2
  <2> QED
    BY Zenon, <2>1, <2>2 DEF QuietStep, Over, queued
<1>5. ASSUME NEW s \in Services, beginStop(s)
      PROVE  QuietStep
  <2>1. UNCHANGED <<Cmd, CrashWindow, proc, mon, crashCh>>
    BY Zenon, <1>5 DEF beginStop
  <2>2. \A t \in Services : State'[t] = State[t]
                            \/ (State[t] \in {Starting, Healthy} /\ State'[t] = Stopped)
    <3>1. State[s] \in {Healthy, Starting} /\ State' = [State EXCEPT ![s] = Stopped]
      BY Zenon, <1>5 DEF beginStop
    <3> QED
      BY <3>1 DEF TypeInv, TypeOK, EntryType
  <2> QED
    BY Zenon, <2>1, <2>2 DEF QuietStep, Over, queued
<1>6. ASSUME NEW s \in Services, spawnFails(s), UNCHANGED <<CrashWindow, crashCh>>
      PROVE  QuietStep
  <2>1. UNCHANGED <<Cmd, CrashWindow, proc, mon, crashCh>>
    BY Zenon, <1>6 DEF spawnFails
  <2>2. \A t \in Services : State'[t] = State[t] \/ State'[t] = Crashed
    BY Zenon, <1>a, <1>6 DEF spawnFails
  <2> QED
    BY Zenon, <2>1, <2>2 DEF QuietStep, Over, queued
<1>7. ASSUME NEW s \in Services, RestartTimer(s) PROVE Kinds
  <2>1. CASE UNCHANGED <<entry, process, mon, startPc>>
    BY Zenon, <1>7, <2>1 DEF RestartTimer, QuietStep, Over, queued
  <2>2. CASE stillRestarting(s) /\ (spawn(s) \/ spawnFails(s)) /\ UNCHANGED CrashWindow
    BY Zenon, <1>6, <1>7, <2>2 DEF RestartTimer, stillRestarting, SpawnStep
  <2> QED
    BY Zenon, <1>7, <2>1, <2>2 DEF RestartTimer
<1>8. CASE StartNext
  <2>1. order[pos] \in Services /\ pos \in 1..NumServices /\ phase = "startall"
    BY <1>8, CountType DEF StartNext, TypeInv, TypeOK, MainType, MainOK
  <2>2. State[order[pos]] = Declared
    BY Zenon, <1>8, <2>1 DEF StartNext, startAllBusy, StartAllProgress, startInProgress
  <2>3. \A d \in DependsOn[order[pos]] : State[d] = Healthy
    BY <2>1, CountType DEF StartAllProgress, IsTopoOrder, TypeInv, TypeOK, MainType
  <2> QED
    BY Zenon, <1>6, <1>8, <2>1, <2>2, <2>3 DEF StartNext, SpawnStep
<1>9. CASE StopNext
  <2>1. order[pos] \in Services
    BY <1>9, CountType DEF StopNext, TypeInv, TypeOK, MainType, MainOK
  <2>2. CASE UNCHANGED <<entry, process, threads, crashCh>>
    BY Zenon, <2>2 DEF QuietStep, Over, queued
  <2> QED
    BY Zenon, <1>5, <1>9, <2>1, <2>2 DEF StopNext
<1>10. CASE RunReturns \/ OpenControl \/ StopNextReturns \/ Exit \/ Shutdown \/ Gone
            \/ UNCHANGED vars
  <2>1. UNCHANGED <<entry, process, threads, crashCh>>
    BY Zenon, <1>10 DEF RunReturns, OpenControl, StopNextReturns, Exit, Shutdown, Gone, vars
  <2> QED
    BY Zenon, <2>1 DEF QuietStep, Over, queued
<1>11. ASSUME NEW s \in Services, CheckDependencies(s) \/ StartService(s)
      PROVE  FALSE
  BY Zenon, <1>11 DEF CheckDependencies, StartService, NoStartInv
<1>12. ASSUME NEW s \in Services, StopService(s) PROVE QuietStep
  BY Zenon, <1>5, <1>12 DEF StopService
<1> HIDE DEF entry, process, threads, main
<1>13. CASE \E s \in Services, i \in Incarnations :
              \/ Listen(s, i) \/ Die(s, i) \/ Terminate(s, i)
              \/ Start(s, i) \/ Monitor(s, i) \/ Stop(s, i)
  BY Zenon, <1>1, <1>2, <1>3, <1>4, <1>13, MonitorQuiet DEF Start, Stop
<1>14. CASE \E s \in Services : RestartTimer(s) \/ CheckDependencies(s) \/ StartService(s)
                                \/ StopService(s)
  BY Zenon, <1>7, <1>11, <1>12, <1>14
<1> QED
  BY Zenon, <1>8, <1>9, <1>10, <1>13, <1>14 DEF Next, Main

(* What HandleCrash does to the service whose report it takes.             *)
LEMMA CrashTaken ==
  ASSUME TypeInv, NoStartInv, HandleCrash
  PROVE  \E h \in Services :
           /\ queued(h) /\ Over(h)'
           /\ \A t \in Services : queued(t)' => queued(t)
           /\ \A t \in Services : t # h => State'[t] = State[t] /\ CrashWindow'[t] = CrashWindow[t]
           /\ \/ UNCHANGED <<State, CrashWindow>>
              \/ State'[h] = Quarantined /\ ShouldQuarantine(CrashWindow'[h])
              \/ State'[h] = Restarting /\ ~ShouldQuarantine(CrashWindow'[h])
           /\ UNCHANGED <<Cmd, mon, proc>>
<1> USE DEF entry, process
<1>0. PICK h \in Services : h = Head(crashCh)
  BY DEF HandleCrash, TypeInv, TypeOK
<1>1. UNCHANGED <<Cmd, mon, proc>>
  BY Zenon DEF HandleCrash
<1>2. /\ crashCh \in Seq(Services) /\ crashCh # <<>> /\ crashCh' = Tail(crashCh)
      /\ queued(h)
  BY <1>0 DEF HandleCrash, TypeInv, TypeOK, queued
<1>3. \A t \in Services : queued(t)' => queued(t)
  BY Zenon, <1>2, QueueTail
<1>4. ~queued(h)'
  <2> SUFFICES ASSUME NEW k \in 1..Len(Tail(crashCh)), Tail(crashCh)[k] = h PROVE FALSE
    BY Zenon, <1>2 DEF queued
  <2>1. k + 1 \in 1..Len(crashCh) /\ crashCh[k + 1] = crashCh[1] /\ 1 \in 1..Len(crashCh)
    BY <1>0, <1>2
  <2> QED
    BY <2>1 DEF NoStartInv, Pending, OneReport
<1>5. \/ UNCHANGED <<State, CrashWindow>>
      \/ \E n : /\ CrashWindow' = [CrashWindow EXCEPT ![h] = n]
                /\ \/ ShouldQuarantine(n) /\ State' = [State EXCEPT ![h] = Quarantined]
                   \/ ~ShouldQuarantine(n) /\ State' = [State EXCEPT ![h] = Restarting]
  BY Zenon, <1>0 DEF HandleCrash
<1>6. /\ \A t \in Services : t # h => State'[t] = State[t] /\ CrashWindow'[t] = CrashWindow[t]
      /\ \/ UNCHANGED <<State, CrashWindow>>
         \/ State'[h] = Quarantined /\ ShouldQuarantine(CrashWindow'[h])
         \/ State'[h] = Restarting /\ ~ShouldQuarantine(CrashWindow'[h])
  BY Zenon, <1>5 DEF TypeInv, TypeOK, EntryType
<1>7. Over(h)'
  BY Zenon, <1>1, <1>2, <1>4 DEF Over, NoStartInv, Pending, OneReport
<1> QED
  BY Zenon, <1>1, <1>2, <1>3, <1>6, <1>7

(* Every step keeps a quarantine closed.                                   *)
LEMMA LifeStep ==
  ASSUME "svc.start" \notin Requests, TypeInv, StartAllProgress, NoStartInv, LifeInv,
         [Next]_vars
  PROVE  LifeInv'
<1> DEFINE Begun == \A s \in Services : State[s] \in {Starting, Healthy, Restarting} => Cmd[s] >= 1
           Closed == \A s \in Services : ShouldQuarantine(CrashWindow[s])
                       => State[s] \in {Quarantined, Crashed} /\ Over(s)
<1>a. Begun /\ Closed
  BY Zenon DEF LifeInv
<1> SUFFICES Begun' /\ Closed'
  BY Zenon DEF LifeInv
<1>1. CASE QuietStep
  BY <1>1, <1>a DEF QuietStep, Starting, Healthy, Restarting, Crashed, Stopped, Quarantined
<1>2. ASSUME NEW s \in Services, NEW i \in Incarnations, ProcessStep(s, i)
      PROVE  Begun' /\ Closed'
  BY Zenon, <1>2, <1>a DEF ProcessStep, Over, queued
<1>3. CASE HandleCrash
  <2>1. PICK h \in Services :
           /\ queued(h) /\ Over(h)'
           /\ \A t \in Services : queued(t)' => queued(t)
           /\ \A t \in Services : t # h => State'[t] = State[t] /\ CrashWindow'[t] = CrashWindow[t]
           /\ \/ UNCHANGED <<State, CrashWindow>>
              \/ State'[h] = Quarantined /\ ShouldQuarantine(CrashWindow'[h])
              \/ State'[h] = Restarting /\ ~ShouldQuarantine(CrashWindow'[h])
           /\ UNCHANGED <<Cmd, mon, proc>>
    BY Zenon, <1>3, CrashTaken
  <2>2. ~ShouldQuarantine(CrashWindow[h])
    BY Zenon, <1>a, <2>1 DEF Over
  <2>3. Begun'
    BY Zenon, <1>a, <2>1 DEF Over
  <2>4. Closed'
    BY Zenon, <1>a, <2>1, <2>2 DEF Over
  <2> QED
    BY Zenon, <2>3, <2>4
<1>4. ASSUME NEW s \in Services, SpawnStep(s)
      PROVE  Begun' /\ Closed'
  <2>1. /\ Cmd' = [Cmd EXCEPT ![s] = Cmd[s] + 1] /\ State' = [State EXCEPT ![s] = Starting]
        /\ mon' = [mon EXCEPT ![s][Cmd[s] + 1] = "spawned"]
        /\ UNCHANGED <<CrashWindow, crashCh>>
        /\ State[s] \in {Restarting, Declared}
    BY Zenon, <1>4 DEF SpawnStep, spawn
  <2>2. Cmd'[s] >= 1 /\ \A t \in Services : t # s => Cmd'[t] = Cmd[t] /\ State'[t] = State[t]
    BY <2>1 DEF TypeInv, TypeOK, EntryType
  <2>3. \A t \in Services : t # s => mon'[t] = mon[t]
    BY Zenon, <2>1 DEF TypeInv, TypeOK, ThreadType
  <2>4. ~ShouldQuarantine(CrashWindow[s])
    BY <1>a, <2>1 DEF Restarting, Declared, Quarantined, Crashed
  <2> QED
    BY ZenonT(30), <1>a, <2>1, <2>2, <2>3, <2>4 DEF Over, queued
<1> QED
  BY Zenon, <1>1, <1>2, <1>3, <1>4, StepKinds

(* Every step of the manager is a step of Lifecycle, or none.              *)
LEMMA LifecycleStep ==
  ASSUME "svc.start" \notin Requests, TypeInv, StartAllProgress, NoStartInv, LifeInv,
         [Next]_vars
  PROVE  [Processes!Next]_(Processes!vars)
<1> DEFINE running == {s \in Services : \E i \in Incarnations : live(s, i)}
           held == {s \in Services : ShouldQuarantine(CrashWindow[s])}
<1>0. \A s \in Services : Over(s) => s \notin running
  <2> SUFFICES ASSUME NEW s \in Services, Over(s), NEW i \in Incarnations, live(s, i) PROVE FALSE
    BY Zenon
  <2>1. i = Cmd[s] /\ i \notin closed[s]
    BY Zenon, PastIsOver
  <2> QED
    BY Zenon, <2>1 DEF Over, NoStartInv, Pending, Watch
<1>1. CASE QuietStep
  <2>1. Cmd' = Cmd /\ running' = running /\ held' = held
    BY Zenon, <1>1 DEF QuietStep, live
  <2> QED
    BY Zenon, <2>1 DEF Processes!vars
<1>2. ASSUME NEW s \in Services, NEW i \in Incarnations, ProcessStep(s, i)
      PROVE  [Processes!Next]_(Processes!vars)
  <2>1. Cmd' = Cmd /\ held' = held
    BY Zenon, <1>2 DEF ProcessStep
  <2>2. proc \in [Services -> [Incarnations -> {"none", "booting", "serving", "exited"}]]
    BY Zenon DEF TypeInv, TypeOK, ProcessType
  <2>3. CASE proc[s][i] = "booting" /\ proc' = [proc EXCEPT ![s][i] = "serving"]
    <3>1. running' = running
      BY <2>2, <2>3 DEF live
    <3> QED
      BY Zenon, <2>1, <3>1 DEF Processes!vars
  <2>4. CASE proc' = [proc EXCEPT ![s][i] = "exited"] /\ live(s, i)
    <3>1. s \in running /\ running' = running \ {s}
      BY <2>2, <2>4, PastIsOver DEF live
    <3> QED
      BY Zenon, <2>1, <3>1 DEF Processes!Next, Processes!End
  <2>5. CASE proc' = [proc EXCEPT ![s][i] = "exited"] /\ ~live(s, i)
    <3>1. running' = running
      BY <2>2, <2>5 DEF live
    <3> QED
      BY Zenon, <2>1, <3>1 DEF Processes!vars
  <2> QED
    BY Zenon, <1>2, <2>3, <2>4, <2>5 DEF ProcessStep
<1>3. CASE HandleCrash
  <2>1. PICK h \in Services :
           /\ queued(h) /\ Over(h)'
           /\ \A t \in Services : t # h => State'[t] = State[t] /\ CrashWindow'[t] = CrashWindow[t]
           /\ UNCHANGED <<Cmd, mon, proc>>
    BY Zenon, <1>3, CrashTaken
  <2>2. Cmd[h] > 0 /\ h \notin running
    <3>1. Cmd[h] >= 1 /\ mon[h][Cmd[h]] = "end" /\ Cmd[h] \in Int
      BY <2>1, ConstantsAssumption DEF NoStartInv, Pending, OneReport, TypeInv, TypeOK, EntryType
    <3>2. ASSUME NEW i \in Incarnations, live(h, i) PROVE FALSE
      <4>1. i = Cmd[h] /\ i \notin closed[h]
        BY Zenon, <3>2, PastIsOver
      <4> QED
        BY Zenon, <3>1, <4>1 DEF NoStartInv, Pending, Watch
    <3> QED
      BY <3>1, <3>2
  <2>3. h \notin held
    BY Zenon, <2>1 DEF LifeInv, Over
  <2>4. running' = running /\ (held' = held \/ held' = held \cup {h})
    BY <2>1, <2>3 DEF live
  <2> QED
    BY Zenon, <2>1, <2>2, <2>4 DEF Processes!vars, Processes!Next, Processes!Quarantine
<1>4. ASSUME NEW s \in Services, SpawnStep(s)
      PROVE  [Processes!Next]_(Processes!vars)
  <2>1. /\ Cmd' = [Cmd EXCEPT ![s] = Cmd[s] + 1] /\ Cmd[s] < MaxSpawn
        /\ proc' = [proc EXCEPT ![s][Cmd[s] + 1] = "booting"]
        /\ CrashWindow' = CrashWindow
    BY Zenon, <1>4 DEF SpawnStep, spawn
  <2>2. s \notin running
    <3>1. Cmd[s] = 0 \/ mon[s][Cmd[s]] = "end"
      BY Zenon, <1>4 DEF SpawnStep, NoStartInv, Pending, Settled
    <3>2. ASSUME NEW i \in Incarnations, live(s, i) PROVE FALSE
      <4>1. i = Cmd[s] /\ i \notin closed[s] /\ i # 0
        BY <3>2, PastIsOver DEF Incarnations
      <4> QED
        BY Zenon, <3>1, <4>1 DEF NoStartInv, Pending, Watch
    <3> QED
      BY Zenon, <3>2
  <2>3. s \notin held
    BY <1>4 DEF SpawnStep, LifeInv, Restarting, Declared, Quarantined, Crashed
  <2>4. Cmd[s] = 0 => \A d \in DependsOn[s] : Cmd[d] > 0
    <3>1. ASSUME NEW d \in DependsOn[s], State[d] = Healthy PROVE Cmd[d] > 0
      BY <3>1, ConstantsAssumption DEF LifeInv, TypeInv, TypeOK, EntryType
    <3>2. State[s] = Restarting => Cmd[s] >= 1
      BY Zenon DEF LifeInv
    <3> QED
      BY <1>4, <3>1, <3>2 DEF SpawnStep
  <2>5. running' = running \cup {s} /\ held' = held
    <3>1. Cmd[s] + 1 \in Incarnations
      BY <2>1, ConstantsAssumption DEF TypeInv, TypeOK, EntryType, Incarnations
    <3> QED
      BY <2>1, <3>1 DEF live, TypeInv, TypeOK, ProcessType
  <2> QED
    BY Zenon, <2>1, <2>2, <2>3, <2>4, <2>5 DEF Processes!Next, Processes!Spawn
<1> QED
  BY Zenon, <1>1, <1>2, <1>3, <1>4, StepKinds

(* Without svc.start requests the manager, with all its goroutines, timers *)
(* and late reports, implements Lifecycle: a service is never started      *)
(* beside a running process of it, before its dependencies, or after its   *)
(* quarantine (StartAll, handleCrash, the restart timer, start).           *)
THEOREM ManagerImplementsLifecycle ==
  ASSUME "svc.start" \notin Requests
  PROVE  Spec => ImplementsLifecycle
<1>0. ~ShouldQuarantine(0)
  BY ConstantsAssumption DEF ShouldQuarantine
<1>1. Init => LifeInv
  BY <1>0 DEF Init, LifeInv, Declared, Starting, Healthy, Restarting
<1>2. Init => Processes!Init
  BY <1>0 DEF Init, Processes!Init, Each, live
<1>3. TypeInv /\ StartAllProgress /\ NoStartInv /\ LifeInv /\ [Next]_vars => LifeInv'
  BY Zenon, LifeStep
<1>4. TypeInv /\ StartAllProgress /\ NoStartInv /\ LifeInv /\ [Next]_vars
        => [Processes!Next]_(Processes!vars)
  BY Zenon, LifecycleStep
<1>5. Init => StartAllProgress
  BY SMTT(30), CountType DEF Init, StartAllProgress
<1>6. Spec => [](TypeInv /\ StartAllProgress)
  BY <1>5, TypeInvInit, TypeInvStep, StartAllProgressStep, PTL DEF Spec
<1> QED
  BY <1>1, <1>2, <1>3, <1>4, <1>6, RecoveryInvariant, PTL
     DEF Spec, ImplementsLifecycle, Processes!Spec

-----------------------------------------------------------------------------
(* Who moves the socket file.                                              *)
LEMMA SocketMoves ==
  ASSUME TypeInv, [Next]_vars
  PROVE  \/ UNCHANGED <<sock, Cmd>>
         \/ \E s \in Services, i \in Incarnations : Listen(s, i)
         \/ \E s \in Services : /\ sock' = [sock EXCEPT ![s] = 0]
                                /\ \A t \in Services : t # s => Cmd'[t] = Cmd[t]
<1> USE DEF entry, process, threads, main
<1> DEFINE Unlinked(s) == /\ sock' = [sock EXCEPT ![s] = 0]
                          /\ \A t \in Services : t # s => Cmd'[t] = Cmd[t]
           Moves == \/ UNCHANGED <<sock, Cmd>>
                    \/ \E s \in Services, i \in Incarnations : Listen(s, i)
                    \/ \E s \in Services : Unlinked(s)
<1>1. ASSUME NEW s \in Services, NEW i \in Incarnations,
             Start(s, i) \/ Monitor(s, i) \/ Stop(s, i) \/ Die(s, i)
      PROVE  UNCHANGED <<sock, Cmd>>
  BY Zenon, <1>1 DEF Start, PollReady, BecomeHealthy, ReadyTimeout, StartKill, NotReady, Monitor,
     MonitorReadsCmd, MonitorCloses, MonitorReadsState, MonitorReports, Stop, StopKill,
     StopReturns, Die
<1>2. ASSUME NEW s \in Services, NEW i \in Incarnations, Terminate(s, i)
      PROVE  Unlinked(s)
  BY Zenon, <1>2 DEF Terminate
<1>3. ASSUME NEW s \in Services, spawn(s) \/ spawnFails(s) PROVE Unlinked(s)
  BY Zenon, <1>3 DEF spawn, spawnFails, TypeInv, TypeOK, EntryType
<1>4. ASSUME NEW s \in Services, RestartTimer(s) \/ StartService(s) PROVE Moves
  BY Zenon, <1>3, <1>4 DEF RestartTimer, StartService
<1>5. ASSUME NEW s \in Services, CheckDependencies(s) \/ StopService(s)
      PROVE  UNCHANGED <<sock, Cmd>>
  BY Zenon, <1>5 DEF CheckDependencies, StopService, beginStop
<1>6. CASE StartNext
  <2>1. order[pos] \in Services
    BY <1>6, CountType DEF StartNext, TypeInv, TypeOK, MainType, MainOK
  <2> QED
    BY Zenon, <1>3, <1>6, <2>1 DEF StartNext
<1>7. CASE HandleCrash \/ RunReturns \/ OpenControl \/ StopNext \/ StopNextReturns \/ Exit
           \/ Shutdown \/ Gone \/ UNCHANGED vars
  BY Zenon, <1>7 DEF HandleCrash, RunReturns, OpenControl, StopNext, beginStop, StopNextReturns,
     Exit, Shutdown, Gone, vars
<1> HIDE DEF entry, process, threads, main
<1>8. CASE \E s \in Services, i \in Incarnations :
              \/ Listen(s, i) \/ Die(s, i) \/ Terminate(s, i)
              \/ Start(s, i) \/ Monitor(s, i) \/ Stop(s, i)
  BY Zenon, <1>1, <1>2, <1>8
<1>9. CASE \E s \in Services : RestartTimer(s) \/ CheckDependencies(s) \/ StartService(s)
                                \/ StopService(s)
  BY Zenon, <1>4, <1>5, <1>9
<1> QED
  BY Zenon, <1>6, <1>7, <1>8, <1>9 DEF Next, Main

(* Without svc.start requests the socket file at the path is never one an  *)
(* earlier process of the service has bound: whoever polls for it or dials *)
(* it meets the current process (start, Server.Start, Server.Stop).        *)
THEOREM SocketsAreCurrent ==
  ASSUME "svc.start" \notin Requests
  PROVE  Spec => []SocketIsCurrent
<1>1. Init => SocketIsCurrent
  BY Zenon DEF Init, SocketIsCurrent
<1>2. ASSUME TypeInv, NoStartInv, SocketIsCurrent, [Next]_vars
      PROVE  SocketIsCurrent'
  <2>1. sock \in [Services -> 0..MaxSpawn]
    BY Zenon, <1>2 DEF TypeInv, TypeOK, ProcessType
  <2>2. ASSUME NEW s \in Services, NEW i \in Incarnations, Listen(s, i)
        PROVE  SocketIsCurrent'
    <3>1. Cmd' = Cmd /\ sock' = [sock EXCEPT ![s] = i] /\ live(s, i)
      BY Zenon, <2>2 DEF Listen, entry, live
    <3>2. i = Cmd[s]
      BY Zenon, <1>2, <3>1, PastIsOver
    <3> QED
      BY Zenon, <1>2, <2>1, <3>1, <3>2 DEF SocketIsCurrent
  <2>3. ASSUME NEW s \in Services, sock' = [sock EXCEPT ![s] = 0],
               \A t \in Services : t # s => Cmd'[t] = Cmd[t]
        PROVE  SocketIsCurrent'
    BY Zenon, <1>2, <2>1, <2>3 DEF SocketIsCurrent
  <2> QED
    BY Zenon, <1>2, <2>2, <2>3, SocketMoves DEF SocketIsCurrent
<1>3. Spec => []TypeInv
  BY TypeInvInit, TypeInvStep, PTL DEF Spec
<1> QED
  BY <1>1, <1>2, <1>3, RecoveryInvariant, PTL DEF Spec
=============================================================================
