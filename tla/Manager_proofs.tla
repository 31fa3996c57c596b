---------------------------- MODULE Manager_proofs ----------------------------
(***************************************************************************)
(* What holds of the service manager whatever its clients send: the types, *)
(* first as the goroutines of an incarnation keep them, then as starts and *)
(* stops do; that StartAll starts the services in dependency order, for    *)
(* any services and any dependencies that have such an order; and that the *)
(* crash of a watched process is never lost.                               *)
(***************************************************************************)
EXTENDS Supervisor, TLAPS

active(pc) == pc \in {"polling", "ready", "draining", "killed"}

-----------------------------------------------------------------------------
(* Types are kept because nothing works on an incarnation before Cmd       *)
(* counts it, and because pos only moves while a start() or a stop of the  *)
(* service at pos returns.                                                 *)
Counted ==
  \A s \in Services, i \in Incarnations :
    i > Cmd[s] => mon[s][i] = "none" /\ startPc[s][i] = "none"

MainOK ==
  /\ phase \in {"startall", "serving"} => stopping = 0
  /\ phase = "stopall" => pos <= NumServices
  /\ phase = "stopall" /\ stopping # 0 => pos >= 1
  /\ phase = "startall" => /\ pos >= 1
                           /\ loop = FALSE
                           /\ checked = {}
                           /\ \A s \in Services : timers[s] = 0

\* While StartAll runs, the only start() in progress is its own.
StartAllCalls ==
  phase = "startall" =>
    \A s \in Services, i \in Incarnations :
      active(startPc[s][i]) =>
        pos <= NumServices /\ s = order[pos] /\ State[s] = Starting /\ i = Cmd[s]

TypeInv == TypeOK /\ Counted /\ MainOK /\ StartAllCalls

-----------------------------------------------------------------------------
(* The number of services that StartAll and StopAll walk through is finite.*)
LEMMA CountType == NumServices \in Nat
BY Zenon, ConstantsAssumption DEF NumServices

(* What is left alone keeps its type.                                      *)
LEMMA Kept ==
  /\ EntryType /\ UNCHANGED <<State, Cmd, CrashWindow>> => EntryType'
  /\ ProcessType /\ UNCHANGED <<proc, sock>> => ProcessType'
  /\ ThreadType /\ UNCHANGED threads => ThreadType'
  /\ MainType /\ UNCHANGED <<phase, order, pos, stopping, loop>> => MainType'
<1>1. EntryType /\ UNCHANGED <<State, Cmd, CrashWindow>> => EntryType'
  BY Zenon DEF EntryType
<1>2. ProcessType /\ UNCHANGED <<proc, sock>> => ProcessType'
  BY Zenon DEF ProcessType
<1>3. ThreadType /\ UNCHANGED threads => ThreadType'
  BY Zenon DEF ThreadType, threads
<1>4. MainType /\ UNCHANGED <<phase, order, pos, stopping, loop>> => MainType'
  BY Zenon DEF MainType
<1> QED
  BY Zenon, <1>1, <1>2, <1>3, <1>4

(* A step that moves only goroutines which are already under way.          *)
LEMMA CountedKept ==
  ASSUME Counted, Cmd' = Cmd,
         \A t \in Services, j \in Incarnations :
           /\ mon'[t][j] = mon[t][j] \/ mon[t][j] # "none"
           /\ startPc'[t][j] = startPc[t][j] \/ startPc[t][j] # "none"
  PROVE  Counted'
BY DEF Counted

(* Outside StartAll there is nothing to show; during StartAll a step that  *)
(* starts no start() and moves neither the position nor a state.           *)
LEMMA CallsKept ==
  ASSUME StartAllCalls,
         phase' = "startall" =>
           /\ UNCHANGED <<phase, pos, order, Cmd, State>>
           /\ \A t \in Services, j \in Incarnations :
                active(startPc'[t][j]) => active(startPc[t][j])
  PROVE  StartAllCalls'
BY Zenon DEF StartAllCalls

(* The steps of the processes, and all others that change no variable of   *)
(* the supervisor.                                                         *)
LEMMA ProcessStepType ==
  ASSUME TypeInv, UNCHANGED <<State, Cmd, CrashWindow>>, UNCHANGED threads, crashCh' = crashCh,
         UNCHANGED <<phase, order, pos, stopping, loop>>, ProcessType'
  PROVE  TypeInv'
<1>1. EntryType' /\ ThreadType' /\ MainType'
  BY Zenon, Kept DEF TypeInv, TypeOK
<1>2. Counted' /\ StartAllCalls'
  BY Zenon, CountedKept, CallsKept DEF TypeInv, threads
<1>3. MainOK'
  BY Zenon DEF TypeInv, MainOK, threads
<1> QED
  BY Zenon, <1>1, <1>2, <1>3 DEF TypeInv, TypeOK

(* The steps of the main goroutine that only move it.                      *)
LEMMA MainStepType ==
  ASSUME TypeInv, UNCHANGED <<State, Cmd, CrashWindow>>, UNCHANGED <<proc, sock>>,
         UNCHANGED threads, crashCh' = crashCh, MainType', MainOK', phase' # "startall"
  PROVE  TypeInv'
<1>1. EntryType' /\ ThreadType' /\ ProcessType'
  BY Zenon, Kept DEF TypeInv, TypeOK
<1>2. Counted' /\ StartAllCalls'
  BY Zenon, CountedKept, CallsKept DEF TypeInv, threads
<1> QED
  BY Zenon, <1>1, <1>2 DEF TypeInv, TypeOK

(* The steps of one goroutine of an incarnation that leave the entry and   *)
(* the main goroutine alone.                                               *)
LEMMA ThreadStepType ==
  ASSUME TypeInv, UNCHANGED <<State, Cmd, CrashWindow>>,
         UNCHANGED <<phase, order, pos, stopping, loop>>, UNCHANGED <<checked, timers>>,
         ProcessType', ThreadType', crashCh' \in Seq(Services),
         \A t \in Services, j \in Incarnations :
           /\ mon'[t][j] = mon[t][j] \/ mon[t][j] # "none"
           /\ \/ startPc'[t][j] = startPc[t][j]
              \/ active(startPc[t][j])
  PROVE  TypeInv'
<1>1. EntryType' /\ MainType'
  BY Zenon, Kept DEF TypeInv, TypeOK
<1>2. Counted' /\ StartAllCalls'
  BY Zenon, CountedKept, CallsKept DEF TypeInv, active
<1>3. MainOK'
  BY Zenon DEF TypeInv, MainOK
<1> QED
  BY Zenon, <1>1, <1>2, <1>3 DEF TypeInv, TypeOK

(* A process listens, dies or is terminated.                               *)
LEMMA ProcessesType ==
  ASSUME TypeInv, NEW s \in Services, NEW i \in Incarnations,
         Listen(s, i) \/ Die(s, i) \/ Terminate(s, i)
  PROVE  TypeInv'
<1>a. /\ EntryType /\ ProcessType /\ ThreadType /\ crashCh \in Seq(Services) /\ MainType
      /\ Counted /\ MainOK /\ StartAllCalls
  BY Zenon DEF TypeInv, TypeOK
<1>b. MaxSpawn \in Nat /\ NumServices \in Nat
  BY Zenon, CountType, ConstantsAssumption
<1> USE DEF entry, process, main
<1>1. /\ UNCHANGED <<State, Cmd, CrashWindow>> /\ UNCHANGED threads /\ crashCh' = crashCh
      /\ UNCHANGED <<phase, order, pos, stopping, loop>>
  BY Zenon DEF Listen, Die, Terminate
<1>2. i \in 0..MaxSpawn
  BY <1>b DEF Incarnations
<1>3. CASE Listen(s, i)
  BY Zenon, <1>a, <1>1, <1>2, <1>3, ProcessStepType DEF Listen, ProcessType
<1>4. CASE Die(s, i)
  BY Zenon, <1>a, <1>1, <1>4, ProcessStepType DEF Die, ProcessType
<1>5. CASE Terminate(s, i)
  BY <1>a, <1>b, <1>1, <1>5, ProcessStepType DEF Terminate, ProcessType
<1> QED
  BY Zenon, <1>3, <1>4, <1>5

(* start() polls for the socket, gives up or kills.                        *)
LEMMA StartWaitsType ==
  ASSUME TypeInv, NEW s \in Services, NEW i \in Incarnations,
         PollReady(s, i) \/ ReadyTimeout(s, i) \/ StartKill(s, i)
  PROVE  TypeInv'
<1>a. /\ EntryType /\ ProcessType /\ ThreadType /\ crashCh \in Seq(Services) /\ MainType
      /\ Counted /\ MainOK /\ StartAllCalls
  BY Zenon DEF TypeInv, TypeOK
<1> USE DEF entry, process, main
<1>1. /\ UNCHANGED <<State, Cmd, CrashWindow>> /\ UNCHANGED <<checked, timers>>
      /\ UNCHANGED <<phase, order, pos, stopping, loop>> /\ crashCh' = crashCh
      /\ UNCHANGED <<closed, mon, monCmd, stopPc>>
  BY Zenon DEF PollReady, ReadyTimeout, StartKill
<1>2. PICK x \in {"ready", "draining", "killed"} :
        startPc' = [startPc EXCEPT ![s][i] = x]
  BY Zenon DEF PollReady, ReadyTimeout, StartKill
<1>3. active(startPc[s][i])
  BY Zenon DEF PollReady, ReadyTimeout, StartKill, active
<1>4. startDone' = startDone \/ startDone' = [startDone EXCEPT ![s][i] = Cmd[s]]
  BY Zenon DEF PollReady, ReadyTimeout, StartKill
<1>5. startDone' \in [Services -> [Incarnations -> 0..MaxSpawn]]
  <2>1. CASE startDone' = startDone
    BY Zenon, <1>a, <2>1 DEF ThreadType
  <2>2. CASE startDone' = [startDone EXCEPT ![s][i] = Cmd[s]]
    BY Zenon, <1>a, <2>2 DEF EntryType, ThreadType
  <2> QED
    BY Zenon, <1>4, <2>1, <2>2
<1>6. ThreadType'
  BY Zenon, <1>a, <1>1, <1>2, <1>5 DEF ThreadType
<1>7. ProcessType'
  <2>1. CASE UNCHANGED <<proc, sock>>
    BY Zenon, <1>a, <2>1, Kept
  <2>2. CASE StartKill(s, i)
    BY Zenon, <1>a, <2>2 DEF StartKill, Kill, ProcessType
  <2> QED
    BY Zenon, <2>1, <2>2 DEF PollReady, ReadyTimeout
<1>8. \A t \in Services, j \in Incarnations :
        startPc'[t][j] = startPc[t][j] \/ active(startPc[t][j])
  BY Zenon, <1>a, <1>2, <1>3 DEF ThreadType
<1> QED
  BY Zenon, <1>a, <1>1, <1>6, <1>7, <1>8, ThreadStepType

(* The monitor waits, reads State and reports.                             *)
LEMMA MonitorMovesType ==
  ASSUME TypeInv, NEW s \in Services, NEW i \in Incarnations,
         MonitorReadsCmd(s, i) \/ MonitorReadsState(s, i) \/ MonitorReports(s, i)
  PROVE  TypeInv'
<1>a. /\ EntryType /\ ProcessType /\ ThreadType /\ crashCh \in Seq(Services) /\ MainType
      /\ Counted /\ MainOK /\ StartAllCalls
  BY Zenon DEF TypeInv, TypeOK
<1> USE DEF entry, process, main
<1>1. /\ UNCHANGED <<State, Cmd, CrashWindow>> /\ UNCHANGED <<checked, timers>>
      /\ UNCHANGED <<phase, order, pos, stopping, loop>> /\ UNCHANGED <<proc, sock>>
      /\ UNCHANGED <<closed, startPc, startDone, stopPc>>
  BY Zenon DEF MonitorReadsCmd, MonitorReadsState, MonitorReports
<1>2. mon[s][i] # "none"
  BY Zenon DEF MonitorReadsCmd, MonitorReadsState, MonitorReports
<1>3. PICK x \in {"waiting", "report", "end"} : mon' = [mon EXCEPT ![s][i] = x]
  BY Zenon DEF MonitorReadsCmd, MonitorReadsState, MonitorReports
<1>4. monCmd' = monCmd \/ monCmd' = [monCmd EXCEPT ![s][i] = Cmd[s]]
  BY Zenon DEF MonitorReadsCmd, MonitorReadsState, MonitorReports
<1>5. monCmd' \in [Services -> [Incarnations -> 0..MaxSpawn]]
  <2>1. CASE monCmd' = monCmd
    BY Zenon, <1>a, <2>1 DEF ThreadType
  <2>2. CASE monCmd' = [monCmd EXCEPT ![s][i] = Cmd[s]]
    BY Zenon, <1>a, <2>2 DEF EntryType, ThreadType
  <2> QED
    BY Zenon, <1>4, <2>1, <2>2
<1>6. ThreadType'
  BY Zenon, <1>a, <1>1, <1>3, <1>5 DEF ThreadType
<1>7. crashCh' \in Seq(Services)
  BY <1>a DEF MonitorReadsCmd, MonitorReadsState, MonitorReports
<1>8. \A t \in Services, j \in Incarnations : mon'[t][j] = mon[t][j] \/ mon[t][j] # "none"
  BY Zenon, <1>a, <1>2, <1>3 DEF ThreadType
<1>9. ProcessType'
  BY Zenon, <1>a, <1>1, Kept
<1> QED
  BY Zenon, <1>a, <1>1, <1>6, <1>7, <1>8, <1>9, ThreadStepType

(* The monitor closes done, or panics.                                     *)
LEMMA MonitorClosesType ==
  ASSUME TypeInv, NEW s \in Services, NEW i \in Incarnations, MonitorCloses(s, i)
  PROVE  TypeInv'
<1>a. /\ EntryType /\ ProcessType /\ ThreadType /\ crashCh \in Seq(Services) /\ MainType
      /\ Counted /\ MainOK /\ StartAllCalls
  BY Zenon DEF TypeInv, TypeOK
<1>b. MaxSpawn \in Nat /\ NumServices \in Nat
  BY Zenon, CountType, ConstantsAssumption
<1> USE DEF entry, process, main
<1>1. /\ UNCHANGED <<State, Cmd, CrashWindow>> /\ UNCHANGED <<checked, timers>>
      /\ UNCHANGED <<proc, sock>> /\ UNCHANGED <<monCmd, startPc, startDone, stopPc>>
      /\ crashCh' = crashCh /\ mon[s][i] # "none"
  BY Zenon DEF MonitorCloses
<1>2. Cmd[s] \in Incarnations
  BY SMTT(30), <1>a, <1>b, <1>1 DEF EntryType, Counted, Incarnations
<1>3. ProcessType'
  BY Zenon, <1>a, <1>1, Kept
<1>4. CASE /\ closed' = [closed EXCEPT ![s] = @ \cup {Cmd[s]}]
           /\ mon' = [mon EXCEPT ![s][i] = "closed"]
           /\ UNCHANGED main
  <2>1. ThreadType'
    BY Zenon, <1>a, <1>1, <1>2, <1>4 DEF ThreadType
  <2>2. \A t \in Services, j \in Incarnations : mon'[t][j] = mon[t][j] \/ mon[t][j] # "none"
    BY Zenon, <1>a, <1>1, <1>4 DEF ThreadType
  <2> QED
    BY Zenon, <1>a, <1>1, <1>3, <1>4, <2>1, <2>2, ThreadStepType
<1>5. CASE phase' = "panicked" /\ UNCHANGED <<closed, mon, order, pos, stopping, loop>>
  BY Zenon, <1>a, <1>1, <1>5, MainStepType DEF threads, MainType, MainOK
<1> QED
  BY Zenon, <1>4, <1>5 DEF MonitorCloses

(* stopLocked kills and returns.                                           *)
LEMMA StopMovesType ==
  ASSUME TypeInv, NEW s \in Services, NEW i \in Incarnations, StopKill(s, i) \/ StopReturns(s, i)
  PROVE  TypeInv'
<1>a. /\ EntryType /\ ProcessType /\ ThreadType /\ crashCh \in Seq(Services) /\ MainType
      /\ Counted /\ MainOK /\ StartAllCalls
  BY Zenon DEF TypeInv, TypeOK
<1> USE DEF entry, process, main
<1>1. /\ UNCHANGED <<State, Cmd, CrashWindow>> /\ UNCHANGED <<checked, timers>>
      /\ UNCHANGED <<phase, order, pos, stopping, loop>> /\ crashCh' = crashCh
      /\ UNCHANGED <<closed, mon, monCmd, startPc, startDone>>
  BY Zenon DEF StopKill, StopReturns
<1>2. PICK x \in {"killed", "end"} : stopPc' = [stopPc EXCEPT ![s][i] = x]
  BY Zenon DEF StopKill, StopReturns
<1>3. ThreadType'
  BY Zenon, <1>a, <1>1, <1>2 DEF ThreadType
<1>4. ProcessType'
  <2>1. CASE StopReturns(s, i)
    BY Zenon, <1>a, <2>1, Kept DEF StopReturns
  <2>2. CASE StopKill(s, i)
    BY Zenon, <1>a, <2>2 DEF StopKill, Kill, ProcessType
  <2> QED
    BY Zenon, <2>1, <2>2
<1> QED
  BY Zenon, <1>a, <1>1, <1>3, <1>4, ThreadStepType

(* start() returns, to StartAll or to whoever restarted the service.       *)
LEMMA StartEndsType ==
  ASSUME TypeInv, NEW s \in Services, NEW i \in Incarnations,
         BecomeHealthy(s, i) \/ NotReady(s, i)
  PROVE  TypeInv'
<1>a. /\ EntryType /\ ProcessType /\ ThreadType /\ crashCh \in Seq(Services) /\ MainType
      /\ Counted /\ MainOK /\ StartAllCalls
  BY Zenon DEF TypeInv, TypeOK
<1>b. MaxSpawn \in Nat /\ NumServices \in Nat
  BY Zenon, CountType, ConstantsAssumption
<1> USE DEF entry, process, main
<1>1. /\ UNCHANGED <<Cmd, CrashWindow>> /\ UNCHANGED <<checked, timers>>
      /\ UNCHANGED <<proc, sock>> /\ UNCHANGED <<closed, mon, monCmd, startDone, stopPc>>
      /\ UNCHANGED <<order, stopping, loop>> /\ crashCh' = crashCh
  BY Zenon DEF BecomeHealthy, NotReady, StartReturns
<1>2. active(startPc[s][i]) /\ startPc' = [startPc EXCEPT ![s][i] = "end"]
  BY Zenon DEF BecomeHealthy, NotReady, active
<1>3. PICK x \in {State[s], Healthy, Crashed} : State' = [State EXCEPT ![s] = x]
  BY Zenon DEF BecomeHealthy, NotReady
<1>4. EntryType'
  BY Zenon, <1>a, <1>1, <1>3 DEF EntryType, ServiceStates
<1>5. ThreadType'
  BY Zenon, <1>a, <1>1, <1>2 DEF ThreadType
<1>6. \/ phase = "startall" /\ pos' = pos /\ phase' = "fatal"
      \/ phase = "startall" /\ pos' = pos + 1 /\ phase' = phase
      \/ phase # "startall" /\ pos' = pos /\ phase' = phase
  BY Zenon DEF BecomeHealthy, NotReady, StartReturns
<1>7. phase = "startall" => pos \in 1..NumServices
  BY <1>a, <1>b, <1>2 DEF MainType, MainOK, StartAllCalls
<1>8. MainType'
  BY <1>a, <1>b, <1>1, <1>6, <1>7 DEF MainType
<1>9. MainOK'
  BY <1>a, <1>b, <1>1, <1>6, <1>7 DEF MainOK
<1>10. \A t \in Services, j \in Incarnations :
         startPc'[t][j] = startPc[t][j] \/ (t = s /\ j = i /\ startPc'[t][j] = "end")
  BY Zenon, <1>a, <1>2 DEF ThreadType
<1>11. Counted'
  BY <1>a, <1>1, <1>2, <1>10, CountedKept DEF active
<1>12. StartAllCalls'
  <2> SUFFICES ASSUME phase' = "startall", NEW t \in Services, NEW j \in Incarnations,
                      active(startPc'[t][j])
               PROVE  FALSE
    BY Zenon DEF StartAllCalls
  <2>1. phase = "startall"
    BY Zenon, <1>6
  <2>2. startPc'[t][j] # "end"
    BY Zenon DEF active
  <2>3. startPc'[t][j] = startPc[t][j] /\ ~(t = s /\ j = i)
    BY <1>a, <1>2, <1>10, <2>2 DEF ThreadType
  <2>4. active(startPc[t][j])
    BY Zenon, <2>3
  <2> QED
    BY <1>a, <1>2, <2>1, <2>3, <2>4 DEF StartAllCalls
<1>13. ProcessType'
  BY Zenon, <1>a, <1>1, Kept
<1> QED
  BY <1>a, <1>1, <1>4, <1>5, <1>8, <1>9, <1>11, <1>12, <1>13 DEF TypeInv, TypeOK

-----------------------------------------------------------------------------
(* The types hold before StartAll takes its first step (NewManager, Declare).*)
LEMMA TypeInvInit == Init => TypeInv
<1> SUFFICES ASSUME Init PROVE TypeInv
  BY Zenon
<1> USE CountType, ConstantsAssumption DEF Init, Each
<1>1. EntryType /\ ProcessType
  BY DEF EntryType, ProcessType, ServiceStates
<1>2. ThreadType /\ crashCh \in Seq(Services)
  BY DEF ThreadType
<1>4. MainType
  <2>1. order \in [1..NumServices -> Services]
    BY Zenon
  <2>2. pos \in 0..(NumServices + 1) /\ stopping \in 0..MaxSpawn
    OBVIOUS
  <2>3. phase = "startall" /\ loop = FALSE
    BY Zenon
  <2> HIDE CountType, ConstantsAssumption DEF Init
  <2> QED
    BY Zenon, <2>1, <2>2, <2>3 DEF MainType
<1>3. Counted /\ MainOK /\ StartAllCalls
  BY DEF Counted, MainOK, StartAllCalls, active
<1> QED
  BY Zenon, <1>1, <1>2, <1>3, <1>4 DEF TypeInv, TypeOK

(* start() keeps the types, whether cmd.Start() succeeds or fails.         *)
LEMMA SpawnType ==
  ASSUME EntryType, ProcessType, ThreadType, Counted, NEW s \in Services,
         spawn(s) \/ spawnFails(s)
  PROVE  /\ State' \in [Services -> ServiceStates]
         /\ Cmd' \in [Services -> 0..MaxSpawn]
         /\ ProcessType'
         /\ mon' \in [Services -> [Incarnations ->
                {"none", "spawned", "waiting", "closed", "report", "end"}]]
         /\ startPc' \in [Services -> [Incarnations ->
                {"none", "polling", "ready", "draining", "killed", "end"}]]
         /\ Counted'
<1> MaxSpawn \in Nat
  BY Zenon, ConstantsAssumption
<1>1. State' \in [Services -> ServiceStates]
  BY Zenon DEF EntryType, spawn, spawnFails, ServiceStates, Starting, Crashed
<1>2. Cmd' \in [Services -> 0..MaxSpawn]
  BY DEF EntryType, spawn, spawnFails
<1>3. ProcessType'
  <2>1. CASE spawn(s)
    <3>1. Cmd[s] + 1 \in Incarnations
      BY <2>1 DEF spawn, EntryType, Incarnations
    <3> QED
      BY <2>1, <3>1 DEF ProcessType, spawn
  <2>2. CASE spawnFails(s)
     BY <2>2 DEF ProcessType, spawnFails
  <2> QED
    BY Zenon, <2>1, <2>2
<1>4. /\ mon' \in [Services -> [Incarnations ->
                {"none", "spawned", "waiting", "closed", "report", "end"}]]
      /\ startPc' \in [Services -> [Incarnations ->
                {"none", "polling", "ready", "draining", "killed", "end"}]]
  <2>1. CASE spawn(s)
    <3>1. Cmd[s] + 1 \in Incarnations
      BY <2>1 DEF spawn, EntryType, Incarnations
    <3> QED
      BY Zenon, <2>1, <3>1 DEF ThreadType, spawn
  <2>2. CASE spawnFails(s)
    BY Zenon, <2>2 DEF ThreadType, spawnFails
  <2> QED
    BY Zenon, <2>1, <2>2
<1>5. Counted'
  <2>1. CASE spawn(s)
     <3> SUFFICES ASSUME NEW t \in Services, NEW j \in Incarnations, j > Cmd'[t]
                  PROVE  mon'[t][j] = "none" /\ startPc'[t][j] = "none"
       BY Zenon DEF Counted
     <3>1. Cmd'[t] \in Int /\ Cmd[t] \in Int /\ j \in Int /\ Cmd[s] \in Int
       BY <1>2 DEF EntryType, Incarnations
     <3>2. j > Cmd[t] /\ (t = s => j # Cmd[s] + 1)
       BY <2>1, <3>1 DEF spawn, EntryType
     <3> QED
       BY Zenon, <2>1, <3>2 DEF spawn, Counted, ThreadType
  <2>2. CASE spawnFails(s)
     BY Zenon, <2>2 DEF Counted, spawnFails
  <2> QED
    BY Zenon, <2>1, <2>2
<1> QED
  BY Zenon, <1>1, <1>2, <1>3, <1>4, <1>5

(* A spawn, or none, after StartAll (RestartTimer, StartService).          *)
LEMMA SpawnLaterType ==
  ASSUME TypeInv, NEW s \in Services, phase # "startall",
         UNCHANGED <<CrashWindow, closed, monCmd, startDone, stopPc, crashCh>>,
         UNCHANGED <<phase, order, pos, stopping, loop>>,
         checked' \in SUBSET Services, timers' \in [Services -> Nat],
         \/ spawn(s) \/ spawnFails(s)
         \/ UNCHANGED <<State, Cmd, proc, sock, mon, startPc>>
  PROVE  TypeInv'
<1>a. /\ EntryType /\ ProcessType /\ ThreadType /\ crashCh \in Seq(Services) /\ MainType
      /\ Counted /\ MainOK /\ StartAllCalls
  BY Zenon DEF TypeInv, TypeOK
<1> USE DEF entry, process, main
<1>1. /\ State' \in [Services -> ServiceStates] /\ Cmd' \in [Services -> 0..MaxSpawn]
      /\ ProcessType' /\ Counted'
      /\ mon' \in [Services -> [Incarnations ->
              {"none", "spawned", "waiting", "closed", "report", "end"}]]
      /\ startPc' \in [Services -> [Incarnations ->
              {"none", "polling", "ready", "draining", "killed", "end"}]]
  <2>1. CASE spawn(s) \/ spawnFails(s)
    BY Zenon, <1>a, <2>1, SpawnType
  <2>2. CASE UNCHANGED <<State, Cmd, proc, sock, mon, startPc>>
    <3>1. ProcessType' /\ Counted'
      BY Zenon, <1>a, <2>2, Kept, CountedKept
    <3> QED
      BY Zenon, <1>a, <2>2, <3>1 DEF EntryType, ThreadType
  <2> QED
    BY Zenon, <2>1, <2>2
<1>2. EntryType'
  BY Zenon, <1>a, <1>1 DEF EntryType
<1>3. ThreadType'
  BY Zenon, <1>a, <1>1 DEF ThreadType
<1>4. MainType' /\ StartAllCalls'
  BY Zenon, <1>a, Kept, CallsKept
<1>5. MainOK'
  BY Zenon, <1>a DEF MainOK
<1> QED
  BY Zenon, <1>a, <1>1, <1>2, <1>3, <1>4, <1>5 DEF TypeInv, TypeOK

(* The restart timer fires.                                                *)
LEMMA RestartTimerType ==
  ASSUME TypeInv, NEW s \in Services, RestartTimer(s)
  PROVE  TypeInv'
<1>a. /\ EntryType /\ ProcessType /\ ThreadType /\ crashCh \in Seq(Services) /\ MainType
      /\ Counted /\ MainOK /\ StartAllCalls
  BY Zenon DEF TypeInv, TypeOK
<1> USE DEF entry, process, main
<1>1. timers' \in [Services -> Nat] /\ phase # "startall"
  BY <1>a DEF RestartTimer, ThreadType, MainOK
<1>2. checked' \in SUBSET Services
  BY Zenon, <1>a DEF RestartTimer, ThreadType
<1> QED
  BY Zenon, SpawnLaterType, <1>1, <1>2 DEF RestartTimer

(* The two halves of StartService.                                         *)
LEMMA StartServiceType ==
  ASSUME TypeInv, NEW s \in Services, CheckDependencies(s) \/ StartService(s)
  PROVE  TypeInv'
<1>a. /\ EntryType /\ ProcessType /\ ThreadType /\ crashCh \in Seq(Services) /\ MainType
      /\ Counted /\ MainOK /\ StartAllCalls
  BY Zenon DEF TypeInv, TypeOK
<1> USE DEF entry, process, main
<1>1. timers' \in [Services -> Nat] /\ checked' \in SUBSET Services
  BY Zenon, <1>a DEF CheckDependencies, StartService, ThreadType
<1>2. phase # "startall"
  BY Zenon, <1>a DEF CheckDependencies, StartService, Controlled, MainOK
<1>3. CASE CheckDependencies(s)
  BY Zenon, SpawnLaterType, <1>1, <1>2, <1>3 DEF CheckDependencies
<1>4. CASE StartService(s)
  BY Zenon, SpawnLaterType, <1>1, <1>2, <1>4 DEF StartService
<1> QED
  BY Zenon, <1>3, <1>4

(* stopLocked begins (StopService, StopAll).                               *)
LEMMA BeginStopType ==
  ASSUME TypeInv, NEW s \in Services, beginStop(s), phase' # "startall", MainType', MainOK'
  PROVE  TypeInv'
<1>a. /\ EntryType /\ ProcessType /\ ThreadType /\ crashCh \in Seq(Services) /\ MainType
      /\ Counted /\ MainOK /\ StartAllCalls
  BY Zenon DEF TypeInv, TypeOK
<1> USE DEF entry, process, main
<1>1. /\ UNCHANGED <<Cmd, CrashWindow>> /\ UNCHANGED <<proc, sock>> /\ crashCh' = crashCh
      /\ UNCHANGED <<closed, mon, monCmd, startPc, startDone, checked, timers>>
      /\ State' = [State EXCEPT ![s] = Stopped]
      /\ stopPc' = [stopPc EXCEPT ![s][Cmd[s]] = "draining"]
  BY Zenon DEF beginStop
<1>2. EntryType'
  BY Zenon, <1>a, <1>1 DEF EntryType, ServiceStates
<1>3. ThreadType'
  BY Zenon, <1>a, <1>1 DEF ThreadType
<1>4. ProcessType' /\ Counted' /\ StartAllCalls'
  BY Zenon, <1>a, <1>1, Kept, CountedKept, CallsKept
<1> QED
  BY Zenon, <1>a, <1>1, <1>2, <1>3, <1>4 DEF TypeInv, TypeOK

(* svc.stop.                                                               *)
LEMMA StopServiceType ==
  ASSUME TypeInv, NEW s \in Services, StopService(s)
  PROVE  TypeInv'
<1>a. /\ EntryType /\ ProcessType /\ ThreadType /\ crashCh \in Seq(Services) /\ MainType
      /\ Counted /\ MainOK /\ StartAllCalls
  BY Zenon DEF TypeInv, TypeOK
<1> USE DEF entry, process, main
<1>1. phase' # "startall" /\ UNCHANGED <<phase, order, pos, stopping, loop>> /\ beginStop(s)
  BY Zenon DEF StopService, Controlled
<1>2. MainType' /\ MainOK'
  BY Zenon, <1>a, <1>1, Kept DEF MainOK
<1> QED
  BY Zenon, BeginStopType, <1>1, <1>2

(* handleCrash takes a report.                                             *)
LEMMA HandleCrashType ==
  ASSUME TypeInv, HandleCrash
  PROVE  TypeInv'
<1>a. /\ EntryType /\ ProcessType /\ ThreadType /\ crashCh \in Seq(Services) /\ MainType
      /\ Counted /\ MainOK /\ StartAllCalls
  BY Zenon DEF TypeInv, TypeOK
<1> USE DEF entry, process, main
<1> DEFINE s == Head(crashCh)
<1>1. /\ s \in Services /\ crashCh' \in Seq(Services) /\ phase # "startall"
      /\ UNCHANGED <<phase, order, pos, stopping, loop>> /\ UNCHANGED <<proc, sock>>
      /\ UNCHANGED <<Cmd, closed, mon, monCmd, startPc, startDone, stopPc, checked>>
  BY <1>a DEF HandleCrash, MainOK
<1>2. \/ UNCHANGED <<State, CrashWindow, timers>>
      \/ \E n \in 1..(CrashWindow[s] + 1), x \in {Quarantined, Restarting} :
           /\ CrashWindow' = [CrashWindow EXCEPT ![s] = n]
           /\ State' = [State EXCEPT ![s] = x]
           /\ timers' = timers \/ timers' = [timers EXCEPT ![s] = @ + 1]
  BY Zenon DEF HandleCrash
<1> HIDE DEF s
<1>3. EntryType' /\ timers' \in [Services -> Nat]
  <2>1. CASE UNCHANGED <<State, CrashWindow, timers>>
    BY Zenon, <1>a, <1>1, <2>1 DEF EntryType, ThreadType
  <2>2. ASSUME NEW n \in 1..(CrashWindow[s] + 1), NEW x \in {Quarantined, Restarting},
               /\ CrashWindow' = [CrashWindow EXCEPT ![s] = n]
               /\ State' = [State EXCEPT ![s] = x]
               /\ timers' = timers \/ timers' = [timers EXCEPT ![s] = @ + 1]
        PROVE  EntryType' /\ timers' \in [Services -> Nat]
    <3>1. n \in Nat /\ x \in ServiceStates
      BY <1>a, <1>1 DEF EntryType, ServiceStates
    <3>2. EntryType'
      BY Zenon, <1>a, <1>1, <2>2, <3>1 DEF EntryType
    <3>3. CASE timers' = timers
      BY Zenon, <1>a, <3>2, <3>3 DEF ThreadType
    <3>4. CASE timers' = [timers EXCEPT ![s] = @ + 1]
      BY <1>a, <1>1, <3>2, <3>4 DEF ThreadType
    <3> QED
      BY Zenon, <2>2, <3>3, <3>4
  <2> QED
    BY Zenon, <1>2, <2>1, <2>2
<1>4. ThreadType'
  BY Zenon, <1>a, <1>1, <1>3 DEF ThreadType
<1>5. ProcessType' /\ MainType' /\ Counted' /\ StartAllCalls'
  BY Zenon, <1>a, <1>1, Kept, CountedKept, CallsKept
<1>6. MainOK'
  BY Zenon, <1>a, <1>1 DEF MainOK
<1> QED
  BY Zenon, <1>1, <1>3, <1>4, <1>5, <1>6 DEF TypeInv, TypeOK

(* The only start() that a spawn adds is that of the new incarnation.      *)
LEMMA SpawnCalls ==
  ASSUME EntryType, ThreadType, NEW s \in Services, spawn(s),
         NEW t \in Services, NEW j \in Incarnations,
         active(startPc'[t][j]), ~active(startPc[t][j])
  PROVE  t = s /\ j = Cmd'[s] /\ State'[s] = Starting
<1>1. startPc' = [startPc EXCEPT ![s][Cmd[s] + 1] = "polling"]
  BY Zenon DEF spawn
<1>2. Cmd'[s] = Cmd[s] + 1 /\ State'[s] = Starting
  BY Zenon DEF spawn, EntryType
<1>3. startPc \in [Services -> [Incarnations ->
                {"none", "polling", "ready", "draining", "killed", "end"}]]
  BY Zenon DEF ThreadType
<1>4. startPc'[t][j] # startPc[t][j]
  BY Zenon
<1>5. t = s /\ j = Cmd[s] + 1
  BY Zenon, <1>1, <1>3, <1>4
<1> QED
  BY Zenon, <1>2, <1>5

(* StartAll spawns the service at pos.                                     *)
LEMMA SpawnFirstType ==
  ASSUME TypeInv, NEW s \in Services, s = order[pos], phase = "startall", pos <= NumServices,
         UNCHANGED <<CrashWindow, closed, monCmd, startDone, stopPc>>,
         UNCHANGED <<checked, timers, order, pos, stopping, loop>>,
         crashCh' = crashCh,
         \A i \in Incarnations : ~active(startPc[s][i]),
         \/ spawn(s) /\ phase' = phase
         \/ spawnFails(s) /\ phase' = "fatal"
  PROVE  TypeInv'
<1>a. /\ EntryType /\ ProcessType /\ ThreadType /\ crashCh \in Seq(Services) /\ MainType
      /\ Counted /\ MainOK /\ StartAllCalls
  BY Zenon DEF TypeInv, TypeOK
<1> USE DEF entry, process, main
<1>3. /\ State' \in [Services -> ServiceStates] /\ Cmd' \in [Services -> 0..MaxSpawn]
      /\ ProcessType' /\ Counted'
      /\ mon' \in [Services -> [Incarnations ->
              {"none", "spawned", "waiting", "closed", "report", "end"}]]
      /\ startPc' \in [Services -> [Incarnations ->
              {"none", "polling", "ready", "draining", "killed", "end"}]]
  BY Zenon, <1>a, SpawnType
<1>4. EntryType'
  BY Zenon, <1>a, <1>3 DEF EntryType
<1>5. ThreadType'
  BY Zenon, <1>a, <1>3 DEF ThreadType
<1>6. MainType' /\ MainOK'
  BY Zenon, <1>a DEF MainType, MainOK
<1>7. StartAllCalls'
  <2> SUFFICES ASSUME phase' = "startall", NEW t \in Services, NEW j \in Incarnations,
                      active(startPc'[t][j])
               PROVE  pos' <= NumServices /\ t = order'[pos'] /\ State'[t] = Starting
                      /\ j = Cmd'[t]
    BY Zenon DEF StartAllCalls
  <2>1. spawn(s)
    BY Zenon
  <2>2. ~active(startPc[t][j])
    BY Zenon, <1>a DEF StartAllCalls
  <2>3. t = s /\ j = Cmd'[s] /\ State'[s] = Starting
    BY <1>a, <2>1, <2>2, SpawnCalls
  <2> QED
    BY Zenon, <2>3
<1> QED
  BY Zenon, <1>a, <1>3, <1>4, <1>5, <1>6, <1>7 DEF TypeInv, TypeOK

(* StartAll moves on.                                                      *)
LEMMA StartNextType ==
  ASSUME TypeInv, StartNext
  PROVE  TypeInv'
<1>a. /\ EntryType /\ ProcessType /\ ThreadType /\ crashCh \in Seq(Services) /\ MainType
      /\ Counted /\ MainOK /\ StartAllCalls
  BY Zenon DEF TypeInv, TypeOK
<1>b. MaxSpawn \in Nat /\ NumServices \in Nat
  BY Zenon, CountType, ConstantsAssumption
<1> USE DEF entry, process, main
<1>1. order[pos] \in Services
  BY <1>a, <1>b DEF StartNext, MainType, MainOK
<1>2. \A i \in Incarnations : ~active(startPc[order[pos]][i])
  BY Zenon DEF StartNext, startAllBusy, active
<1> QED
  BY Zenon, SpawnFirstType, <1>1, <1>2 DEF StartNext

(* StopAll moves on.                                                       *)
LEMMA StopNextType ==
  ASSUME TypeInv, StopNext
  PROVE  TypeInv'
<1>a. /\ EntryType /\ ProcessType /\ ThreadType /\ crashCh \in Seq(Services) /\ MainType
      /\ Counted /\ MainOK /\ StartAllCalls
  BY Zenon DEF TypeInv, TypeOK
<1>b. MaxSpawn \in Nat /\ NumServices \in Nat
  BY Zenon, CountType, ConstantsAssumption
<1> USE DEF entry, process, main
<1>1. /\ order[pos] \in Services /\ phase = "stopall" /\ pos \in 1..NumServices
      /\ UNCHANGED <<phase, order, loop>>
  BY <1>a, <1>b DEF StopNext, MainType, MainOK
<1>2. CASE beginStop(order[pos]) /\ stopping' = Cmd[order[pos]] /\ pos' = pos
  <2>1. MainType' /\ MainOK'
    BY <1>a, <1>b, <1>1, <1>2 DEF MainType, MainOK, EntryType
  <2> QED
    BY Zenon, BeginStopType, <1>1, <1>2, <2>1
<1>3. CASE pos' = pos - 1 /\ UNCHANGED <<entry, process, threads, crashCh, stopping>>
  <2>1. MainType' /\ MainOK'
    BY <1>a, <1>b, <1>1, <1>3 DEF StopNext, MainType, MainOK
  <2> QED
    BY Zenon, <1>a, <1>1, <1>3, <2>1, MainStepType
<1> QED
  BY Zenon, <1>2, <1>3 DEF StopNext

(* The other steps of the main goroutine and of Run.                       *)
LEMMA MainMovesType ==
  ASSUME TypeInv, RunReturns \/ OpenControl \/ StopNextReturns \/ Exit \/ Shutdown
  PROVE  TypeInv'
<1>a. /\ EntryType /\ ProcessType /\ ThreadType /\ crashCh \in Seq(Services) /\ MainType
      /\ Counted /\ MainOK /\ StartAllCalls
  BY Zenon DEF TypeInv, TypeOK
<1>b. MaxSpawn \in Nat /\ NumServices \in Nat
  BY Zenon, CountType, ConstantsAssumption
<1> USE DEF entry, process, main
<1>1. /\ UNCHANGED <<State, Cmd, CrashWindow>> /\ UNCHANGED <<proc, sock>>
      /\ UNCHANGED threads /\ crashCh' = crashCh /\ phase' # "startall"
  BY Zenon DEF RunReturns, OpenControl, StopNextReturns, Exit, Shutdown
<1>2. MainType'
  <2>1. CASE StopNextReturns
    BY SMTT(30), <1>a, <1>b, <2>1 DEF StopNextReturns, MainType, MainOK
  <2>2. CASE RunReturns \/ OpenControl
    BY Zenon, <1>a, <2>2 DEF RunReturns, OpenControl, MainType
  <2>3. CASE Exit \/ Shutdown
    BY <1>a, <1>b, <2>3 DEF Exit, Shutdown, MainType
  <2> QED
    BY Zenon, <2>1, <2>2, <2>3
<1>3. MainOK'
  BY SMTT(30), <1>a, <1>b DEF RunReturns, OpenControl, StopNextReturns, Exit, Shutdown,
     MainType,
     MainOK
<1> QED
  BY Zenon, <1>1, <1>2, <1>3, MainStepType

(* Every step of the manager keeps the types and what they rest on.        *)
LEMMA TypeInvStep == TypeInv /\ [Next]_vars => TypeInv'
<1> SUFFICES ASSUME TypeInv, [Next]_vars PROVE TypeInv'
  BY Zenon
<1>16. CASE UNCHANGED vars
  <2>1. /\ UNCHANGED <<State, Cmd, CrashWindow>> /\ UNCHANGED <<proc, sock>>
        /\ UNCHANGED threads /\ crashCh' = crashCh
        /\ UNCHANGED <<phase, order, pos, stopping, loop>>
    BY Zenon, <1>16 DEF vars, entry, process, main
  <2>2. ProcessType'
    BY Zenon, <2>1, Kept DEF TypeInv, TypeOK
  <2> QED
    BY Zenon, <2>1, <2>2, ProcessStepType
<1>17. CASE \E s \in Services, i \in Incarnations :
              \/ Listen(s, i) \/ Die(s, i) \/ Terminate(s, i)
              \/ Start(s, i) \/ Monitor(s, i) \/ Stop(s, i)
  BY <1>17, ProcessesType, StartWaitsType, MonitorMovesType, MonitorClosesType,
     StopMovesType, StartEndsType DEF Start, Monitor, Stop
<1>18. CASE \E s \in Services : RestartTimer(s) \/ CheckDependencies(s) \/ StartService(s)
                                \/ StopService(s)
  BY Zenon, RestartTimerType, StartServiceType, StopServiceType, <1>18
<1> QED
  BY Zenon, <1>16, <1>17, <1>18, HandleCrashType, StartNextType, StopNextType, MainMovesType
  DEF Next, Main, Gone

(* Every variable keeps its type in every reachable state.                 *)
THEOREM TypeCorrect == Spec => []TypeOK
<1>1. Spec => []TypeInv
  BY TypeInvInit, TypeInvStep, PTL DEF Spec
<1>2. TypeInv => TypeOK
  BY Zenon DEF TypeInv
<1>3. QED
  BY <1>1, <1>2, PTL

-----------------------------------------------------------------------------
(* How far StartAll has come.                                              *)
StartAllProgress ==
  /\ IsTopoOrder(order)
  /\ phase = "startall" =>
       /\ \A s \in Services : State[s] # Declared =>
            \E k \in 1..NumServices : k <= pos /\ order[k] = s
       /\ \A k \in 1..NumServices : k < pos => State[order[k]] = Healthy
       /\ pos <= NumServices /\ State[order[pos]] # Declared => startInProgress(order[pos])

(* m.order is assigned once, before the first start() (StartAll).          *)
LEMMA OrderFixed == [Next]_vars => order' = order
<1> SUFFICES ASSUME [Next]_vars PROVE order' = order
  BY Zenon
<1> USE DEF entry, process, threads, main, vars
<1>1. ASSUME NEW s \in Services, NEW i \in Incarnations,
             Listen(s, i) \/ Die(s, i) \/ Terminate(s, i) \/ Start(s, i) \/ Monitor(s, i)
             \/ Stop(s, i)
      PROVE  order' = order
  BY Zenon, <1>1 DEF Listen, Die, Terminate, Start, PollReady, BecomeHealthy, ReadyTimeout,
     StartKill,
     NotReady, StartReturns, Monitor, MonitorReadsCmd, MonitorCloses, MonitorReadsState,
     MonitorReports, Stop, StopKill, StopReturns
<1>2. ASSUME NEW s \in Services,
             RestartTimer(s) \/ CheckDependencies(s) \/ StartService(s) \/ StopService(s)
      PROVE  order' = order
  BY ZenonT(30), <1>2 DEF RestartTimer, CheckDependencies, StartService, StopService
<1>3. ASSUME HandleCrash \/ RunReturns \/ Main \/ Shutdown \/ Gone
      PROVE  order' = order
  BY SMTT(30), <1>3 DEF HandleCrash, RunReturns, Main, StartNext, OpenControl, StopNext,
     StopNextReturns,
     Exit, Shutdown, Gone
<1> QED
  BY Zenon, <1>1, <1>2, <1>3 DEF Next

(* The steps that can be taken while StartAll goes on.                     *)
LEMMA StartAllFrame ==
  ASSUME TypeInv, [Next]_vars, phase' = "startall"
  PROVE  /\ phase = "startall"
         /\ \/ UNCHANGED <<State, pos, startPc>>
            \/ \E s \in Services, i \in Incarnations :
                 PollReady(s, i) \/ ReadyTimeout(s, i) \/ StartKill(s, i) \/ BecomeHealthy(s, i)
            \/ StartNext /\ spawn(order[pos])
<1> USE DEF entry, process, threads, main, vars
<1> DEFINE Quiet == phase = "startall" /\ UNCHANGED <<State, pos, startPc>>
<1>1. ASSUME NEW s \in Services, NEW i \in Incarnations,
             Listen(s, i) \/ Die(s, i) \/ Terminate(s, i) \/ Monitor(s, i) \/ Stop(s, i)
      PROVE  Quiet
  BY Zenon, <1>1 DEF Listen, Die, Terminate, Monitor, MonitorReadsCmd, MonitorCloses,
     MonitorReadsState, MonitorReports, Stop, StopKill, StopReturns
<1>2. ASSUME NEW s \in Services, NEW i \in Incarnations,
             PollReady(s, i) \/ ReadyTimeout(s, i) \/ StartKill(s, i)
      PROVE  phase = "startall"
  BY Zenon, <1>2 DEF PollReady, ReadyTimeout, StartKill
<1>3. ASSUME NEW s \in Services, NEW i \in Incarnations, BecomeHealthy(s, i)
      PROVE  phase = "startall"
  BY Zenon, <1>3 DEF BecomeHealthy, StartReturns
<1>4. ASSUME NEW s \in Services, NEW i \in Incarnations, NotReady(s, i)
      PROVE  FALSE
  BY ZenonT(30), <1>4 DEF NotReady, StartReturns, Up
<1>5. ASSUME NEW s \in Services,
             RestartTimer(s) \/ CheckDependencies(s) \/ StartService(s) \/ StopService(s)
      PROVE  FALSE
  BY <1>5 DEF RestartTimer, CheckDependencies, StartService, StopService, Controlled,
     TypeInv, MainOK
<1>6. ASSUME HandleCrash \/ RunReturns PROVE FALSE
  BY Zenon, <1>6 DEF HandleCrash, RunReturns, TypeInv, MainOK
<1>7. ASSUME OpenControl \/ StopNext \/ StopNextReturns \/ Exit \/ Shutdown PROVE FALSE
  BY Zenon, <1>7 DEF OpenControl, StopNext, StopNextReturns, Exit, Shutdown
<1>8. ASSUME StartNext PROVE phase = "startall" /\ spawn(order[pos])
  BY Zenon, <1>8 DEF StartNext
<1>9. ASSUME Gone \/ UNCHANGED vars PROVE Quiet
  BY Zenon, <1>9 DEF Gone
<1> HIDE DEF entry, process, threads, main, vars
<1> QED
  BY Zenon, <1>1, <1>2, <1>3, <1>4, <1>5, <1>6, <1>7, <1>8, <1>9 DEF Next, Start, Main

(* Every step keeps what StartAll has achieved up to pos.                  *)
LEMMA StartAllProgressStep ==
  TypeInv /\ StartAllProgress /\ [Next]_vars => StartAllProgress'
<1> SUFFICES ASSUME TypeInv, StartAllProgress, [Next]_vars PROVE StartAllProgress'
  BY Zenon
<1> DEFINE Reached == \A s \in Services : State[s] # Declared =>
                        \E k \in 1..NumServices : k <= pos /\ order[k] = s
           Before  == \A k \in 1..NumServices : k < pos => State[order[k]] = Healthy
           AtPos   == pos <= NumServices /\ State[order[pos]] # Declared
                        => startInProgress(order[pos])
<1>1. order' = order /\ IsTopoOrder(order)'
  BY OrderFixed DEF StartAllProgress, IsTopoOrder
<1> SUFFICES ASSUME phase' = "startall" PROVE (Reached /\ Before /\ AtPos)'
  BY Zenon, <1>1 DEF StartAllProgress
<1>2. phase = "startall" /\ Reached /\ Before /\ AtPos
  BY Zenon, StartAllFrame DEF StartAllProgress
<1>3. pos \in Int /\ NumServices \in Nat /\ pos >= 1 /\ order \in [1..NumServices -> Services]
  BY <1>2, CountType DEF TypeInv, TypeOK, MainType, MainOK
<1>4. CASE UNCHANGED <<State, pos, startPc>>
  BY Zenon, <1>1, <1>2, <1>4 DEF startInProgress
<1>5. ASSUME NEW s \in Services, NEW i \in Incarnations,
             PollReady(s, i) \/ ReadyTimeout(s, i) \/ StartKill(s, i)
      PROVE  (Reached /\ Before /\ AtPos)'
  <2>1. UNCHANGED <<State, pos>>
    BY Zenon, <1>5 DEF PollReady, ReadyTimeout, StartKill, entry, main
  <2>2. s = order[pos] /\ startInProgress(s)'
    BY <1>2, <1>5 DEF PollReady, ReadyTimeout, StartKill, TypeInv, TypeOK, ThreadType,
       StartAllCalls, active, startInProgress
  <2> QED
    BY Zenon, <1>1, <1>2, <2>1, <2>2 DEF startInProgress
<1>6. ASSUME NEW s \in Services, NEW i \in Incarnations, BecomeHealthy(s, i)
      PROVE  (Reached /\ Before /\ AtPos)'
  <2>1. pos <= NumServices /\ s = order[pos] /\ State[s] = Starting
    BY Zenon, <1>2, <1>6 DEF BecomeHealthy, TypeInv, StartAllCalls, active
  <2>2. State' = [State EXCEPT ![s] = Healthy] /\ pos' = pos + 1
    BY Zenon, <1>2, <1>6, <2>1 DEF BecomeHealthy, StartReturns, CanTransition, transitions, TypeInv,
       TypeOK, EntryType
  <2>3. State \in [Services -> ServiceStates]
    BY Zenon DEF TypeInv, TypeOK, EntryType
  <2>4. Reached'
    BY <1>1, <1>2, <1>3, <2>1, <2>2, <2>3
  <2>5. Before'
    BY <1>1, <1>2, <1>3, <2>1, <2>2, <2>3
  <2>6. ASSUME pos + 1 <= NumServices PROVE State[order[pos + 1]] = Declared /\ order[pos + 1] # s
    BY <1>2, <1>3, <2>1, <2>6 DEF StartAllProgress, IsTopoOrder
  <2>7. AtPos'
    BY <1>1, <1>3, <2>2, <2>3, <2>6
  <2> QED
    BY Zenon, <2>4, <2>5, <2>7
<1>7. ASSUME StartNext, spawn(order[pos])
      PROVE  (Reached /\ Before /\ AtPos)'
  <2> DEFINE s == order[pos]
  <2>1. pos \in 1..NumServices /\ s \in Services /\ pos' = pos
    BY <1>3, <1>7 DEF StartNext
  <2>2. State' = [State EXCEPT ![s] = Starting] /\ State \in [Services -> ServiceStates]
    BY Zenon, <1>7 DEF spawn, TypeInv, TypeOK, EntryType
  <2>3. Reached'
    BY <1>1, <1>2, <2>1, <2>2
  <2>4. Before'
    <3> SUFFICES ASSUME NEW k \in 1..NumServices, k < pos PROVE State'[order[k]] = Healthy
      BY Zenon, <1>1, <2>1
    <3>1. order[k] # s
      BY <1>2, <1>3, <2>1 DEF StartAllProgress, IsTopoOrder
    <3> HIDE DEF s
    <3>2. State'[order[k]] = State[order[k]]
      BY Zenon, <1>3, <2>1, <2>2, <3>1
    <3> QED
      BY Zenon, <1>2, <3>2
  <2>5. startInProgress(s)'
    <3>1. Cmd[s] + 1 \in Incarnations
      BY <1>7, <2>1, ConstantsAssumption DEF spawn, TypeInv, TypeOK, EntryType, Incarnations
    <3>2. startPc'[s][Cmd[s] + 1] = "polling"
      BY Zenon, <1>7, <2>1, <3>1 DEF spawn, TypeInv, TypeOK, ThreadType
    <3> QED
      BY Zenon, <3>1, <3>2, <1>1, <2>1 DEF startInProgress
  <2> QED
    BY Zenon, <1>1, <2>1, <2>3, <2>4, <2>5
<1> QED
  BY Zenon, StartAllFrame, <1>4, <1>5, <1>6, <1>7

(* For any acyclic declaration of dependencies: StartAll spawns a service  *)
(* only when everything it depends on is Healthy.                          *)
THEOREM StartsInDependencyOrder == Spec => []StartAllOrder
<1>1. Init => StartAllProgress
  BY CountType DEF Init, StartAllProgress
<1>2. Spec => [](TypeInv /\ StartAllProgress)
  BY <1>1, TypeInvInit, TypeInvStep, StartAllProgressStep, PTL DEF Spec
<1>3. TypeInv /\ StartAllProgress => StartAllOrder
  <2> SUFFICES ASSUME TypeInv, StartAllProgress, phase = "startall",
                      NEW s \in Services, State[s] # Declared, NEW d \in DependsOn[s]
               PROVE  State[d] = Healthy
    BY Zenon DEF StartAllOrder
  <2>1. PICK k \in 1..NumServices : k <= pos /\ order[k] = s
    BY Zenon DEF StartAllProgress
  <2>2. DOMAIN order = 1..NumServices /\ pos \in Int /\ NumServices \in Nat
    BY CountType DEF TypeInv, TypeOK, MainType
  <2>3. PICK j \in 1..NumServices : j < k /\ order[j] = d
    BY <2>1, <2>2 DEF StartAllProgress, IsTopoOrder
  <2> QED
    BY <2>1, <2>2, <2>3 DEF StartAllProgress
<1> QED
  BY <1>2, <1>3, PTL

-----------------------------------------------------------------------------
(* Only these steps change what NoLostCrash speaks of.                     *)
LEMMA WatchFrame ==
  ASSUME TypeInv, [Next]_vars
  PROVE  \/ UNCHANGED <<State, Cmd, mon, monCmd, crashCh>>
         \/ \E s \in Services, i \in Incarnations :
              BecomeHealthy(s, i) \/ NotReady(s, i) \/ Monitor(s, i)
         \/ \E s \in Services : RestartTimer(s) \/ StartService(s) \/ beginStop(s)
         \/ HandleCrash \/ StartNext
<1> USE DEF entry, process, threads, main, vars
<1>1. ASSUME NEW s \in Services, NEW i \in Incarnations,
             Listen(s, i) \/ Die(s, i) \/ Terminate(s, i) \/ Stop(s, i)
      PROVE  UNCHANGED <<State, Cmd, mon, monCmd, crashCh>>
  BY Zenon, <1>1 DEF Listen, Die, Terminate, Stop, StopKill, StopReturns
<1>2. ASSUME NEW s \in Services, NEW i \in Incarnations,
             PollReady(s, i) \/ ReadyTimeout(s, i) \/ StartKill(s, i)
      PROVE  UNCHANGED <<State, Cmd, mon, monCmd, crashCh>>
  BY Zenon, <1>2 DEF PollReady, ReadyTimeout, StartKill
<1>3. ASSUME NEW s \in Services, CheckDependencies(s)
      PROVE  UNCHANGED <<State, Cmd, mon, monCmd, crashCh>>
  BY Zenon, <1>3 DEF CheckDependencies
<1>4. ASSUME RunReturns \/ OpenControl \/ StopNextReturns \/ Exit \/ Shutdown \/ Gone
      PROVE  UNCHANGED <<State, Cmd, mon, monCmd, crashCh>>
  BY Zenon, <1>4 DEF RunReturns, OpenControl, StopNextReturns, Exit, Shutdown, Gone
<1>5. ASSUME StopNext
      PROVE  (\E s \in Services : beginStop(s)) \/ UNCHANGED <<State, Cmd, mon, monCmd, crashCh>>
  <2>1. order[pos] \in Services
    BY <1>5, CountType DEF StopNext, TypeInv, TypeOK, MainType, MainOK
  <2> QED
    BY Zenon, <1>5, <2>1 DEF StopNext
<1>6. ASSUME UNCHANGED vars
      PROVE  UNCHANGED <<State, Cmd, mon, monCmd, crashCh>>
  BY Zenon, <1>6
<1> HIDE DEF entry, process, threads, main, vars
<1> QED
  BY Zenon, <1>1, <1>2, <1>3, <1>4, <1>5, <1>6 DEF Next, Start, Main, StopService

(* monitor's send adds one report to crashCh and loses none.               *)
LEMMA QueueAppend ==
  ASSUME crashCh \in Seq(Services), NEW s \in Services, crashCh' = Append(crashCh, s)
  PROVE  /\ queued(s)'
         /\ \A t \in Services : queued(t)' => queued(t) \/ t = s
         /\ \A t \in Services : queued(t) => queued(t)'
BY DEF queued

(* Run's receive takes the first report off crashCh and no other.          *)
LEMMA QueueTail ==
  ASSUME crashCh \in Seq(Services), crashCh # <<>>, crashCh' = Tail(crashCh)
  PROVE  /\ \A t \in Services : queued(t)' => queued(t)
         /\ \A t \in Services : queued(t) /\ t # Head(crashCh) => queued(t)'
<1>1. ASSUME NEW t \in Services, queued(t)' PROVE queued(t)
  <2>1. PICK k \in 1..Len(Tail(crashCh)) : Tail(crashCh)[k] = t
    BY Zenon, <1>1 DEF queued
  <2>2. k + 1 \in 1..Len(crashCh) /\ crashCh[k + 1] = t
    BY <2>1
  <2> QED
    BY Zenon, <2>2 DEF queued
<1>2. ASSUME NEW t \in Services, queued(t), t # Head(crashCh) PROVE queued(t)'
  <2>1. PICK k \in 1..Len(crashCh) : crashCh[k] = t
    BY Zenon, <1>2 DEF queued
  <2>2. k - 1 \in 1..Len(Tail(crashCh)) /\ Tail(crashCh)[k - 1] = t
    BY <1>2, <2>1
  <2> QED
    BY Zenon, <2>2 DEF queued
<1> QED
  BY Zenon, <1>1, <1>2

(* What NoLostCrash needs to be inductive: a service shown as running has  *)
(* a process.                                                              *)
watched(s) ==
  State[s] \in {Starting, Healthy} => Cmd[s] >= 1 /\ reportOnItsWay(s)

WatchInv == \A s \in Services : watched(s)

(* start() leaves the new process with a monitor that will report it.      *)
LEMMA SpawnWatched ==
  ASSUME TypeInv, WatchInv, NEW s \in Services, spawn(s) \/ spawnFails(s),
         UNCHANGED <<monCmd, crashCh>>
  PROVE  WatchInv'
<1> USE DEF TypeInv, TypeOK, EntryType, ThreadType
<1> SUFFICES ASSUME NEW t \in Services PROVE watched(t)'
  BY Zenon DEF WatchInv
<1>1. CASE t # s
  <2>1. State'[t] = State[t] /\ Cmd'[t] = Cmd[t] /\ mon'[t] = mon[t]
    BY Zenon, <1>1 DEF spawn, spawnFails
  <2> QED
    BY Zenon, <2>1 DEF WatchInv, watched, reportOnItsWay, queued
<1>2. CASE t = s /\ spawn(s)
  <2>1. Cmd[s] \in Int /\ Cmd[s] >= 0 /\ Cmd[s] + 1 \in Incarnations
    BY <1>2, ConstantsAssumption DEF spawn, Incarnations
  <2>2. Cmd'[s] = Cmd[s] + 1 /\ mon'[s][Cmd[s] + 1] = "spawned"
    BY Zenon, <1>2, <2>1 DEF spawn
  <2> QED
    BY <1>2, <2>1, <2>2 DEF watched, reportOnItsWay
<1>3. CASE t = s /\ spawnFails(s)
  BY Zenon, <1>3 DEF spawnFails, watched, Crashed, Starting, Healthy
<1> QED
  BY Zenon, <1>1, <1>2, <1>3

(* No step of any goroutine leaves a running service unwatched.            *)
LEMMA WatchInvStep == TypeInv /\ WatchInv /\ [Next]_vars => WatchInv'
<1> SUFFICES ASSUME TypeInv, WatchInv, [Next]_vars PROVE WatchInv'
  BY Zenon
<1> USE DEF WatchInv
<1>1. CASE UNCHANGED <<State, Cmd, mon, monCmd, crashCh>>
  BY Zenon, <1>1 DEF watched, reportOnItsWay, queued
<1>2. ASSUME NEW s \in Services, NEW i \in Incarnations, BecomeHealthy(s, i)
      PROVE  WatchInv'
  BY <1>2 DEF BecomeHealthy, CanTransition, transitions, watched, reportOnItsWay, queued,
     TypeInv, TypeOK, EntryType, Declared, Starting, Healthy, Crashed, Restarting, Stopped,
     Quarantined
<1>3. ASSUME NEW s \in Services, NEW i \in Incarnations, NotReady(s, i)
      PROVE  WatchInv'
  BY Zenon, <1>3 DEF NotReady, watched, reportOnItsWay, queued, TypeInv, TypeOK, EntryType,
     Starting, Healthy, Crashed
<1>4. ASSUME NEW s \in Services, beginStop(s)
      PROVE  WatchInv'
  BY Zenon, <1>4 DEF beginStop, watched, reportOnItsWay, queued, TypeInv, TypeOK, EntryType,
     Starting, Healthy, Stopped
<1>5. ASSUME NEW s \in Services, NEW i \in Incarnations, MonitorReadsCmd(s, i)
      PROVE  WatchInv'
  <2> SUFFICES ASSUME NEW t \in Services PROVE watched(t)'
    BY Zenon
  <2>1. CASE t = s /\ Cmd[t] = i
    BY Zenon, <1>5, <2>1 DEF MonitorReadsCmd, entry, watched, reportOnItsWay, TypeInv, TypeOK,
       ThreadType
  <2>2. CASE ~(t = s /\ Cmd[t] = i)
    <3>1. mon'[t][Cmd[t]] = mon[t][Cmd[t]] /\ monCmd'[t][Cmd[t]] = monCmd[t][Cmd[t]]
      BY <1>5, <2>2 DEF MonitorReadsCmd, TypeInv, TypeOK, ThreadType
    <3> QED
      BY Zenon, <1>5, <3>1 DEF MonitorReadsCmd, entry, watched, reportOnItsWay, queued
  <2> QED
    BY Zenon, <2>1, <2>2
<1>6. ASSUME NEW s \in Services, NEW i \in Incarnations, MonitorCloses(s, i)
      PROVE  WatchInv'
  <2>1. CASE mon' = [mon EXCEPT ![s][i] = "closed"]
    <3> SUFFICES ASSUME NEW t \in Services PROVE watched(t)'
      BY Zenon
    <3>1. mon'[t][Cmd[t]] \in {mon[t][Cmd[t]], "closed"}
      BY <2>1 DEF TypeInv, TypeOK, ThreadType
    <3> QED
      BY Zenon, <1>6, <3>1 DEF MonitorCloses, entry, watched, reportOnItsWay, queued
  <2>2. CASE mon' = mon
    BY Zenon, <1>6, <2>2 DEF MonitorCloses, entry, watched, reportOnItsWay, queued
  <2> QED
    BY Zenon, <1>6, <2>1, <2>2 DEF MonitorCloses
<1>7. ASSUME NEW s \in Services, NEW i \in Incarnations, MonitorReadsState(s, i)
      PROVE  WatchInv'
  <2> SUFFICES ASSUME NEW t \in Services PROVE watched(t)'
    BY Zenon
  <2>1. UNCHANGED <<State, Cmd, monCmd, crashCh>>
    BY Zenon, <1>7 DEF MonitorReadsState, entry
  <2>2. mon' = [mon EXCEPT ![s][i] = IF State[s] = Stopped THEN "end" ELSE "report"]
    BY Zenon, <1>7 DEF MonitorReadsState
  <2>3. CASE t = s /\ State[s] = Stopped
    BY Zenon, <2>1, <2>3 DEF watched, Starting, Healthy, Stopped
  <2>4. CASE t # s \/ State[s] # Stopped
    <3>1. mon'[t][Cmd[t]] \in {mon[t][Cmd[t]], "report"}
      BY <2>2, <2>4 DEF TypeInv, TypeOK, ThreadType
    <3> QED
      BY Zenon, <2>1, <3>1 DEF watched, reportOnItsWay, queued
  <2> QED
    BY Zenon, <2>3, <2>4
<1>8. ASSUME NEW s \in Services, NEW i \in Incarnations, MonitorReports(s, i)
      PROVE  WatchInv'
  <2>1. queued(s)' /\ \A t \in Services : queued(t) => queued(t)'
    BY Zenon, <1>8, QueueAppend DEF MonitorReports, TypeInv, TypeOK
  <2> QED
    BY Zenon, <1>8, <2>1 DEF MonitorReports, entry, watched, reportOnItsWay, TypeInv, TypeOK,
       ThreadType
<1>9. ASSUME NEW s \in Services, RestartTimer(s)
      PROVE  WatchInv'
  BY Zenon, <1>9, <1>1, SpawnWatched DEF RestartTimer, entry, process
<1>10. ASSUME NEW s \in Services, StartService(s)
      PROVE  WatchInv'
  BY Zenon, <1>10, <1>1, SpawnWatched DEF StartService, entry, process
<1>11. CASE StartNext
  <2>1. order[pos] \in Services
    BY <1>11, CountType DEF StartNext, TypeInv, TypeOK, MainType, MainOK
  <2> QED
    BY Zenon, <1>11, <2>1, SpawnWatched DEF StartNext
<1>12. CASE HandleCrash
  <2> DEFINE h == Head(crashCh)
  <2>1. h \in Services /\ \A t \in Services : queued(t) /\ t # h => queued(t)'
    BY <1>12, QueueTail DEF HandleCrash, TypeInv, TypeOK
  <2>2. State'[h] \notin {Starting, Healthy}
    BY Zenon, <1>12, <2>1 DEF HandleCrash, ignored, entry, TypeInv, TypeOK, EntryType, Stopped,
       Quarantined, Restarting, Starting, Healthy
  <2>3. ASSUME NEW t \in Services, t # h
        PROVE  State'[t] = State[t] /\ Cmd'[t] = Cmd[t] /\ mon' = mon /\ monCmd' = monCmd
    BY Zenon, <1>12, <2>1, <2>3 DEF HandleCrash, entry, TypeInv, TypeOK, EntryType
  <2> QED
    BY Zenon, <2>1, <2>2, <2>3 DEF watched, reportOnItsWay
<1> QED
  BY Zenon, WatchFrame, <1>1, <1>2, <1>3, <1>4, <1>5, <1>6, <1>7, <1>8, <1>9, <1>10, <1>11, <1>12
     DEF Monitor

(* Whatever the services, the requests and the interleaving: a process     *)
(* that svc.list shows as Starting or Healthy is watched, so its end is    *)
(* reported to handleCrash.                                                *)
THEOREM CrashesAreReported == Spec => []NoLostCrash
<1>1. Init => WatchInv
  BY Zenon DEF Init, WatchInv, watched, Declared, Starting, Healthy
<1>2. Spec => [](TypeInv /\ WatchInv)
  BY <1>1, TypeInvInit, TypeInvStep, WatchInvStep, PTL DEF Spec
<1>3. WatchInv => NoLostCrash
  BY Zenon DEF WatchInv, watched, NoLostCrash
<1> QED
  BY <1>2, <1>3, PTL

-----------------------------------------------------------------------------
(* Who may move a service out of Stopped.                                  *)
LEMMA LeavesStopped ==
  ASSUME TypeInv, StartAllProgress, [Next]_vars, NEW s \in Services,
         State[s] = Stopped, ~startInProgress(s), State'[s] # Stopped
  PROVE  s \in checked /\ s \notin checked'
<1> USE DEF entry, process, threads, main, vars
<1>0. ASSUME NEW t \in Services, t # s, NEW x, State' = [State EXCEPT ![t] = x] PROVE FALSE
  BY Zenon, <1>0 DEF TypeInv, TypeOK, EntryType
<1>1. ASSUME NEW t \in Services, NEW i \in Incarnations,
             \/ Listen(t, i) \/ Die(t, i) \/ Terminate(t, i) \/ Monitor(t, i) \/ Stop(t, i)
             \/ PollReady(t, i) \/ ReadyTimeout(t, i) \/ StartKill(t, i)
      PROVE  FALSE
  BY Zenon, <1>1 DEF Listen, Die, Terminate, Monitor, MonitorReadsCmd, MonitorCloses,
     MonitorReadsState, MonitorReports, Stop, StopKill, StopReturns, PollReady, ReadyTimeout,
     StartKill
<1>2. ASSUME NEW t \in Services, NEW i \in Incarnations, BecomeHealthy(t, i) \/ NotReady(t, i)
      PROVE  FALSE
  <2>1. t # s
    BY Zenon, <1>2 DEF BecomeHealthy, NotReady, startInProgress
  <2>2. \E x : State' = [State EXCEPT ![t] = x]
    BY Zenon, <1>2 DEF BecomeHealthy, NotReady
  <2> QED
    BY Zenon, <1>0, <2>1, <2>2
<1>3. ASSUME NEW t \in Services, State[t] # Stopped, spawn(t) \/ spawnFails(t) PROVE FALSE
  <2>1. \E x : State' = [State EXCEPT ![t] = x]
    BY Zenon, <1>3 DEF spawn, spawnFails
  <2> QED
    BY Zenon, <1>0, <1>3, <2>1
<1>4. ASSUME NEW t \in Services, RestartTimer(t) PROVE FALSE
  <2>1. stillRestarting(t) => State[t] # Stopped
    BY DEF stillRestarting, Restarting, Stopped
  <2> QED
    BY Zenon, <1>3, <1>4, <2>1 DEF RestartTimer
<1>5. ASSUME NEW t \in Services, beginStop(t) PROVE FALSE
  BY Zenon, <1>5 DEF beginStop, TypeInv, TypeOK, EntryType
<1>6. ASSUME NEW t \in Services, StartService(t) PROVE s \in checked /\ s \notin checked'
  <2>1. CASE t # s
    <3>1. State' = State \/ \E x : State' = [State EXCEPT ![t] = x]
      BY Zenon, <1>6 DEF StartService, spawn, spawnFails
    <3> QED
      BY Zenon, <1>0, <2>1, <3>1
  <2>2. CASE t = s
    BY Zenon, <1>6, <2>2 DEF StartService
  <2> QED
    BY Zenon, <2>1, <2>2
<1>7. CASE HandleCrash
  <2>1. State' = State \/ \E x : ~ignored(Head(crashCh))
                                 /\ State' = [State EXCEPT ![Head(crashCh)] = x]
    BY Zenon, <1>7 DEF HandleCrash
  <2>2. Head(crashCh) \in Services
    BY <1>7 DEF HandleCrash, TypeInv, TypeOK
  <2> QED
    BY Zenon, <1>0, <2>1, <2>2 DEF ignored
<1>8. CASE StartNext
  <2>1. order[pos] \in Services /\ pos <= NumServices /\ phase = "startall"
    BY <1>8, CountType DEF StartNext, TypeInv, TypeOK, MainType, MainOK
  <2>2. State[order[pos]] = Declared /\ Declared # Stopped
    BY Zenon, <1>8, <2>1 DEF StartNext, startAllBusy, StartAllProgress, startInProgress, Declared,
       Stopped
  <2> QED
    BY Zenon, <1>3, <1>8, <2>1, <2>2 DEF StartNext
<1>9. CASE StopNext
  <2>1. order[pos] \in Services
    BY <1>9, CountType DEF StopNext, TypeInv, TypeOK, MainType, MainOK
  <2> QED
    BY Zenon, <1>5, <1>9, <2>1 DEF StopNext
<1>10. ASSUME \/ RunReturns \/ OpenControl \/ StopNextReturns \/ Exit \/ Shutdown \/ Gone
              \/ UNCHANGED vars \/ \E t \in Services : CheckDependencies(t)
       PROVE  FALSE
  BY Zenon, <1>10 DEF RunReturns, OpenControl, StopNextReturns, Exit, Shutdown, Gone,
     CheckDependencies
<1>11. ASSUME NEW t \in Services, StopService(t) PROVE FALSE
  BY Zenon, <1>5, <1>11 DEF StopService
<1> HIDE DEF entry, process, threads, main, vars
<1>12. CASE \E t \in Services, i \in Incarnations :
              \/ Listen(t, i) \/ Die(t, i) \/ Terminate(t, i)
              \/ Start(t, i) \/ Monitor(t, i) \/ Stop(t, i)
  BY Zenon, <1>1, <1>2, <1>12 DEF Start
<1>13. CASE \E t \in Services : RestartTimer(t) \/ StartService(t) \/ StopService(t)
  BY Zenon, <1>4, <1>6, <1>11, <1>13
<1> QED
  BY Zenon, <1>7, <1>8, <1>9, <1>10, <1>12, <1>13 DEF Next, Main

(* Whatever clients send: a Stopped service with no start() under way is   *)
(* moved on by nothing but a StartService call; late reports, monitors and *)
(* restart timers leave it alone (handleCrash, monitor, the restart timer).*)
THEOREM StoppedStaysStopped == Spec => StoppedIsFinal
<1>1. Init => StartAllProgress
  BY SMTT(30), CountType DEF Init, StartAllProgress
<1>2. Spec => [](TypeInv /\ StartAllProgress)
  BY <1>1, TypeInvInit, TypeInvStep, StartAllProgressStep, PTL DEF Spec
<1>3. TypeInv /\ StartAllProgress /\ [Next]_vars =>
        [\A s \in Services :
           State[s] = Stopped /\ ~startInProgress(s) /\ State'[s] # Stopped
             => s \in checked /\ s \notin checked']_vars
  BY Zenon, LeavesStopped
<1> QED
  BY <1>2, <1>3, PTL DEF Spec, StoppedIsFinal
=============================================================================
