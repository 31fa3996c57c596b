----------------------------- MODULE Supervisor -----------------------------
(***************************************************************************)
(* The service manager: every goroutine that touches a ServiceEntry.       *)
(*                                                                         *)
(* A start() that spawns creates one incarnation of the service: a         *)
(* process, a done channel, a monitor goroutine, and the goroutine that    *)
(* polls for the socket.  All four carry the number of the incarnation.    *)
(* se.Cmd, se.PID and se.done are assigned together, so Cmd[s] stands for  *)
(* the three of them.  A stretch of code under se.mu is one step; what the *)
(* code does without the lock (the monitor's reads of se.Cmd and se.done,  *)
(* the Kill in stopLocked) is a step of its own.  Time is not modelled:    *)
(* a timeout or a timer may fire at any moment after it is armed.          *)
(***************************************************************************)
EXTENDS ServiceState, Integers, Sequences, FiniteSets

CONSTANTS
  Services,       \* the names passed to Declare
  DependsOn,      \* Config.DependsOn of every service
  Requests,       \* control methods clients use, a subset of ControlMethods
  MaxCrashes,     \* QuarantineConfig.MaxCrashes, 0 for "never"
  CrashChCap,     \* capacity of crashCh (16 in the code)
  SpawnCanFail,   \* whether cmd.Start() may return an error
  MaxSpawn        \* bound: successful cmd.Start() calls per service

ControlMethods == {"svc.start", "svc.stop"}

ASSUME ConstantsAssumption ==
  /\ Cardinality(Services) \in Nat
  /\ DependsOn \in [Services -> SUBSET Services]
  /\ Requests \subseteq ControlMethods
  /\ MaxCrashes \in Nat
  /\ CrashChCap \in Nat \ {0}
  /\ SpawnCanFail \in BOOLEAN
  /\ MaxSpawn \in Nat \ {0}

VARIABLES
  State,        \* se.State
  Cmd,          \* incarnation that se.Cmd, se.PID and se.done belong to, 0 = nil
  CrashWindow,  \* number of crash times in se.CrashWindow
  proc,         \* the processes of every incarnation
  sock,         \* which incarnation's socket file is at the path, 0 = no file
  closed,       \* incarnations whose done channel is closed
  mon,          \* monitor goroutines
  monCmd,       \* the incarnation a monitor is in Wait() for
  startPc,      \* goroutines inside start(), from the spawn on
  startDone,    \* the done channel a start() waits for in stopLocked
  stopPc,       \* StopService and StopAll calls inside stopLocked
  checked,      \* services a StartService call has checked the dependencies of
  timers,       \* armed restart timers
  crashCh,      \* the crash reports on their way to Run
  phase,        \* where the main goroutine is
  order,        \* m.order
  pos,          \* position of StartAll, StopAll in m.order
  stopping,     \* incarnation StopAll is waiting for, 0 = none
  loop          \* Run is in its select

entry   == <<State, Cmd, CrashWindow>>
process == <<proc, sock>>
threads == <<closed, mon, monCmd, startPc, startDone, stopPc, checked, timers>>
main    == <<phase, order, pos, stopping, loop>>
vars    == <<entry, process, threads, crashCh, main>>

Incarnations == 1..MaxSpawn

NumServices == Cardinality(Services)

Each(x) == [s \in Services |-> [i \in Incarnations |-> x]]

EntryType ==
  /\ State \in [Services -> ServiceStates]
  /\ Cmd \in [Services -> 0..MaxSpawn]
  /\ CrashWindow \in [Services -> Nat]

ProcessType ==
  /\ proc \in [Services -> [Incarnations -> {"none", "booting", "serving", "exited"}]]
  /\ sock \in [Services -> 0..MaxSpawn]

ThreadType ==
  /\ closed \in [Services -> SUBSET Incarnations]
  /\ mon \in [Services -> [Incarnations ->
                {"none", "spawned", "waiting", "closed", "report", "end"}]]
  /\ monCmd \in [Services -> [Incarnations -> 0..MaxSpawn]]
  /\ startPc \in [Services -> [Incarnations ->
                {"none", "polling", "ready", "draining", "killed", "end"}]]
  /\ startDone \in [Services -> [Incarnations -> 0..MaxSpawn]]
  /\ stopPc \in [Services -> [Incarnations -> {"none", "draining", "killed", "end"}]]
  /\ checked \in SUBSET Services
  /\ timers \in [Services -> Nat]

MainType ==
  /\ phase \in {"startall", "serving", "stopall", "exited", "fatal", "panicked"}
  /\ order \in [1..NumServices -> Services]
  /\ pos \in 0..(NumServices + 1)
  /\ stopping \in 0..MaxSpawn
  /\ loop \in BOOLEAN

(* The values the variables take.                                          *)
TypeOK ==
  EntryType /\ ProcessType /\ ThreadType /\ crashCh \in Seq(Services) /\ MainType

-----------------------------------------------------------------------------
(* What topoSort may return; its loop is the module TopoSort.  A service   *)
(* comes after all it depends on.                                          *)
Mut_IsTopoOrder(o) == \A j, k \in DOMAIN o : o[j] = o[k] => j = k

IsTopoOrder(o) ==
  /\ \A j, k \in DOMAIN o : o[j] = o[k] => j = k
  /\ \A k \in DOMAIN o : \A d \in DependsOn[o[k]] :
       \E j \in DOMAIN o : j < k /\ o[j] = d

Init ==
  /\ State = [s \in Services |-> Declared]
  /\ Cmd = [s \in Services |-> 0]
  /\ CrashWindow = [s \in Services |-> 0]
  /\ proc = Each("none")
  /\ sock = [s \in Services |-> 0]
  /\ closed = [s \in Services |-> {}]
  /\ mon = Each("none") /\ monCmd = Each(0)
  /\ startPc = Each("none") /\ startDone = Each(0)
  /\ stopPc = Each("none")
  /\ checked = {}
  /\ timers = [s \in Services |-> 0]
  /\ crashCh = <<>>
  /\ phase = "startall"
  /\ order \in {o \in [1..NumServices -> Services] : IsTopoOrder(o)}
  /\ pos = 1 /\ stopping = 0 /\ loop = FALSE

\* The supervisor process has not exited: its goroutines can take steps.
Up == phase \in {"startall", "serving", "stopall"}

\* Control requests are served, at the end over connections already open:
\* Server.Stop closes the listener only.
Controlled == phase \in {"serving", "stopall"}

-----------------------------------------------------------------------------
(* The processes.  One may bind its socket, crash at any moment, leaving   *)
(* the socket file, or end on SIGTERM after removing the file at its path. *)
(* What is left running when the supervisor has gone is not followed.      *)

Listen(s, i) ==
  /\ Up
  /\ proc[s][i] = "booting"
  /\ proc' = [proc EXCEPT ![s][i] = "serving"]
  /\ sock' = [sock EXCEPT ![s] = i]
  /\ UNCHANGED <<entry, threads, crashCh, main>>

Die(s, i) ==
  /\ Up
  /\ proc[s][i] \in {"booting", "serving"}
  /\ proc' = [proc EXCEPT ![s][i] = "exited"]
  /\ UNCHANGED <<entry, sock, threads, crashCh, main>>

Terminate(s, i) ==
  /\ Up
  /\ proc[s][i] = "serving"
  /\ proc' = [proc EXCEPT ![s][i] = "exited"]
  /\ sock' = [sock EXCEPT ![s] = 0]
  /\ UNCHANGED <<entry, threads, crashCh, main>>

Mut_Kill(s) == UNCHANGED proc

\* Process.Kill() on whatever se.Cmd is by then.
Kill(s) == proc' = [proc EXCEPT ![s][Cmd[s]] = "exited"]

-----------------------------------------------------------------------------
(* start(), up to the point where it releases the lock to poll.            *)

Mut_spawn(s) ==
  LET i == Cmd[s] + 1 IN
  /\ Cmd[s] < MaxSpawn
  /\ State' = [State EXCEPT ![s] = Starting]
  /\ UNCHANGED sock
  /\ Cmd' = [Cmd EXCEPT ![s] = i]
  /\ proc' = [proc EXCEPT ![s][i] = "booting"]
  /\ mon' = [mon EXCEPT ![s][i] = "spawned"]
  /\ startPc' = [startPc EXCEPT ![s][i] = "polling"]

spawn(s) ==
  LET i == Cmd[s] + 1 IN
  /\ Cmd[s] < MaxSpawn
  /\ State' = [State EXCEPT ![s] = Starting]
  /\ sock' = [sock EXCEPT ![s] = 0]
  /\ Cmd' = [Cmd EXCEPT ![s] = i]
  /\ proc' = [proc EXCEPT ![s][i] = "booting"]
  /\ mon' = [mon EXCEPT ![s][i] = "spawned"]
  /\ startPc' = [startPc EXCEPT ![s][i] = "polling"]

spawnFails(s) ==
  /\ SpawnCanFail \/ Cmd[s] = MaxSpawn
  /\ State' = [State EXCEPT ![s] = Crashed]
  /\ sock' = [sock EXCEPT ![s] = 0]
  /\ UNCHANGED <<Cmd, proc, mon, startPc>>

\* The rest of start(): the socket file is seen, ...
PollReady(s, i) ==
  /\ Up
  /\ startPc[s][i] = "polling" /\ sock[s] # 0
  /\ startPc' = [startPc EXCEPT ![s][i] = "ready"]
  /\ UNCHANGED <<entry, process, closed, mon, monCmd, startDone, stopPc, checked,
                 timers, crashCh, main>>

\* What StartAll does when its start() returns; only StartAll calls start()
\* before the control socket is open.
StartReturns(ok) ==
  /\ phase' = IF phase = "startall" /\ ~ok THEN "fatal" ELSE phase
  /\ pos' = IF phase = "startall" /\ ok THEN pos + 1 ELSE pos
  /\ UNCHANGED <<order, stopping, loop>>

\* ... and the lock is taken again: transition(Healthy).
BecomeHealthy(s, i) ==
  /\ Up
  /\ startPc[s][i] = "ready"
  /\ startPc' = [startPc EXCEPT ![s][i] = "end"]
  /\ State' = [State EXCEPT ![s] = IF CanTransition(@, Healthy) THEN Healthy ELSE @]
  /\ StartReturns(CanTransition(State[s], Healthy))
  /\ UNCHANGED <<Cmd, CrashWindow, process, closed, mon, monCmd, startDone, stopPc,
                 checked, timers, crashCh>>

\* ReadyTimeout passed: stopLocked(0) up to its select.
ReadyTimeout(s, i) ==
  /\ Up
  /\ startPc[s][i] = "polling"
  /\ startPc' = [startPc EXCEPT ![s][i] = "draining"]
  /\ startDone' = [startDone EXCEPT ![s][i] = Cmd[s]]
  /\ UNCHANGED <<entry, process, closed, mon, monCmd, stopPc, checked, timers,
                 crashCh, main>>

StartKill(s, i) ==
  /\ Up
  /\ startPc[s][i] = "draining"
  /\ startPc' = [startPc EXCEPT ![s][i] = "killed"]
  /\ Kill(s)
  /\ UNCHANGED <<entry, sock, closed, mon, monCmd, startDone, stopPc, checked,
                 timers, crashCh, main>>

NotReady(s, i) ==
  /\ Up
  /\ startPc[s][i] \in {"draining", "killed"} /\ startDone[s][i] \in closed[s]
  /\ startPc' = [startPc EXCEPT ![s][i] = "end"]
  /\ State' = [State EXCEPT ![s] = Crashed]
  /\ StartReturns(FALSE)
  /\ UNCHANGED <<Cmd, CrashWindow, process, closed, mon, monCmd, startDone, stopPc,
                 checked, timers, crashCh>>

-----------------------------------------------------------------------------
(* monitor()                                                               *)

MonitorReadsCmd(s, i) ==
  /\ Up
  /\ mon[s][i] = "spawned"
  /\ mon' = [mon EXCEPT ![s][i] = "waiting"]
  /\ monCmd' = [monCmd EXCEPT ![s][i] = Cmd[s]]
  /\ UNCHANGED <<entry, process, closed, startPc, startDone, stopPc, checked, timers,
                 crashCh, main>>

Mut_waitReturned(s, i) == TRUE
waitReturned(s, i) == proc[s][monCmd[s][i]] = "exited"

\* Wait() returns and close(se.done) follows; closing a channel twice panics
\* and takes the supervisor down.
MonitorCloses(s, i) ==
  /\ Up
  /\ mon[s][i] = "waiting" /\ waitReturned(s, i)
  /\ \/ /\ Cmd[s] \notin closed[s]
        /\ closed' = [closed EXCEPT ![s] = @ \cup {Cmd[s]}]
        /\ mon' = [mon EXCEPT ![s][i] = "closed"]
        /\ UNCHANGED main
     \/ /\ Cmd[s] \in closed[s]
        /\ phase' = "panicked"
        /\ UNCHANGED <<closed, mon, order, pos, stopping, loop>>
  /\ UNCHANGED <<entry, process, monCmd, startPc, startDone, stopPc, checked, timers,
                 crashCh>>

Mut_MonitorReadsState(s, i) ==
  /\ Up
  /\ mon[s][i] = "closed"
  /\ mon' = [mon EXCEPT ![s][i] = IF State[s] = Healthy THEN "report" ELSE "end"]
  /\ UNCHANGED <<entry, process, closed, monCmd, startPc, startDone, stopPc, checked,
                 timers, crashCh, main>>

Mut_ExitIsNoCrash(s, i) ==
  /\ Up
  /\ mon[s][i] = "closed"
  /\ mon' = [mon EXCEPT ![s][i] = "end"]
  /\ UNCHANGED <<entry, process, closed, monCmd, startPc, startDone, stopPc, checked,
                 timers, crashCh, main>>

MonitorReadsState(s, i) ==
  /\ Up
  /\ mon[s][i] = "closed"
  /\ mon' = [mon EXCEPT ![s][i] = IF State[s] = Stopped THEN "end" ELSE "report"]
  /\ UNCHANGED <<entry, process, closed, monCmd, startPc, startDone, stopPc, checked,
                 timers, crashCh, main>>

Mut_MonitorReports(s, i) ==
  /\ Up
  /\ mon[s][i] = "report" /\ Len(crashCh) < CrashChCap
  /\ crashCh' = Append(crashCh, s)
  /\ mon' = [mon EXCEPT ![s][i] = "waiting"]
  /\ UNCHANGED <<entry, process, closed, monCmd, startPc, startDone, stopPc, checked,
                 timers, main>>

MonitorReports(s, i) ==
  /\ Up
  /\ mon[s][i] = "report" /\ Len(crashCh) < CrashChCap
  /\ crashCh' = Append(crashCh, s)
  /\ mon' = [mon EXCEPT ![s][i] = "end"]
  /\ UNCHANGED <<entry, process, closed, monCmd, startPc, startDone, stopPc, checked,
                 timers, main>>

-----------------------------------------------------------------------------
(* Run and handleCrash.  The delay that CrashCount gives is left open: a   *)
(* timer may fire at any moment.  Time only decides how many of the        *)
(* earlier crashes are still inside the window.                            *)

Mut_ignored(s) == FALSE
ignored(s) == State[s] = Stopped

ShouldQuarantine(n) == MaxCrashes > 0 /\ n >= MaxCrashes

HandleCrash ==
  /\ Up /\ loop
  /\ crashCh # <<>>
  /\ LET s == Head(crashCh) IN
       \/ /\ ignored(s)
          /\ UNCHANGED <<entry, timers>>
       \/ /\ ~ignored(s)
          /\ \E inWindow \in 1..(CrashWindow[s] + 1) :
               /\ CrashWindow' = [CrashWindow EXCEPT ![s] = inWindow]
               /\ \/ /\ ShouldQuarantine(inWindow)
                     /\ State' = [State EXCEPT ![s] = Quarantined]
                     /\ UNCHANGED timers
                  \/ /\ ~ShouldQuarantine(inWindow)
                     /\ State' = [State EXCEPT ![s] = Restarting]
                     /\ timers' = [timers EXCEPT ![s] = @ + 1]
          /\ UNCHANGED Cmd
  /\ crashCh' = Tail(crashCh)
  /\ UNCHANGED <<process, closed, mon, monCmd, startPc, startDone, stopPc, checked, main>>

Mut_stillRestarting(s) == State[s] = Crashed
stillRestarting(s) == State[s] = Restarting

\* The function passed to time.AfterFunc.
RestartTimer(s) ==
  /\ Up
  /\ timers[s] > 0
  /\ timers' = [timers EXCEPT ![s] = @ - 1]
  /\ \/ /\ ~stillRestarting(s)
        /\ UNCHANGED <<entry, process, mon, startPc>>
     \/ /\ stillRestarting(s)
        /\ spawn(s) \/ spawnFails(s)
        /\ UNCHANGED CrashWindow
  /\ UNCHANGED <<closed, monCmd, startDone, stopPc, checked, crashCh, main>>

-----------------------------------------------------------------------------
(* StartService, between whose dependency check and start() anything may   *)
(* happen, and StopService.  A call that returns an error changes nothing. *)
(* The check is one step: no service that is declared has more than one    *)
(* dependency.                                                             *)
(* Bound: one StartService call per service between check and start.       *)

CheckDependencies(s) ==
  /\ Controlled /\ "svc.start" \in Requests
  /\ s \notin checked
  /\ \A d \in DependsOn[s] : State[d] = Healthy
  /\ checked' = checked \cup {s}
  /\ UNCHANGED <<entry, process, closed, mon, monCmd, startPc, startDone, stopPc,
                 timers, crashCh, main>>

StartService(s) ==
  /\ Up
  /\ s \in checked
  /\ checked' = checked \ {s}
  /\ \/ /\ ~CanTransition(State[s], Starting)
        /\ UNCHANGED <<entry, process, mon, startPc>>
     \/ /\ CanTransition(State[s], Starting)
        /\ spawn(s) \/ spawnFails(s)
        /\ UNCHANGED CrashWindow
  /\ UNCHANGED <<closed, monCmd, startDone, stopPc, timers, crashCh, main>>

\* Up to the select in stopLocked; the process gets its SIGTERM.
beginStop(s) ==
  /\ State[s] \in {Healthy, Starting}
  /\ State' = [State EXCEPT ![s] = Stopped]
  /\ stopPc' = [stopPc EXCEPT ![s][Cmd[s]] = "draining"]
  /\ UNCHANGED <<Cmd, CrashWindow, process, closed, mon, monCmd, startPc, startDone,
                 checked, timers, crashCh>>

StopService(s) ==
  /\ Controlled /\ "svc.stop" \in Requests
  /\ beginStop(s)
  /\ UNCHANGED main

Mut_StopKill(s, i) ==
  /\ Up
  /\ stopPc[s][i] = "draining"
  /\ stopPc' = [stopPc EXCEPT ![s][i] = "end"]
  /\ UNCHANGED <<entry, process, closed, mon, monCmd, startPc, startDone, checked, timers,
                 crashCh, main>>

StopKill(s, i) ==
  /\ Up
  /\ stopPc[s][i] = "draining"
  /\ stopPc' = [stopPc EXCEPT ![s][i] = "killed"]
  /\ Kill(s)
  /\ UNCHANGED <<entry, sock, closed, mon, monCmd, startPc, startDone, checked, timers,
                 crashCh, main>>

StopReturns(s, i) ==
  /\ Up
  /\ stopPc[s][i] \in {"draining", "killed"} /\ i \in closed[s]
  /\ stopPc' = [stopPc EXCEPT ![s][i] = "end"]
  /\ UNCHANGED <<entry, process, closed, mon, monCmd, startPc, startDone, checked,
                 timers, crashCh, main>>

-----------------------------------------------------------------------------
(* The main goroutine: StartAll, the control socket and Run, and on a      *)
(* signal cancel(), ctlSrv.Stop() and StopAll.                             *)

\* The start() of StartAll that is still running, if any.
startAllBusy ==
  \E i \in Incarnations : startPc[order[pos]][i] \in {"polling", "ready", "draining", "killed"}

StartNext ==
  /\ phase = "startall" /\ pos <= NumServices
  /\ ~startAllBusy
  /\ LET s == order[pos] IN
       \/ spawn(s) /\ UNCHANGED phase
       \/ spawnFails(s) /\ phase' = "fatal"
  /\ UNCHANGED <<CrashWindow, closed, monCmd, startDone, stopPc, checked, timers,
                 crashCh, order, pos, stopping, loop>>

OpenControl ==
  /\ phase = "startall" /\ pos > NumServices
  /\ \/ phase' = "serving" /\ loop' = TRUE
     \/ phase' = "fatal" /\ UNCHANGED loop
  /\ UNCHANGED <<entry, process, threads, crashCh, order, pos, stopping>>

Shutdown ==
  /\ phase = "serving"
  /\ phase' = "stopall"
  /\ pos' = NumServices
  /\ UNCHANGED <<entry, process, threads, crashCh, order, stopping, loop>>

\* Run's select takes ctx.Done(), possibly after some more crash reports.
RunReturns ==
  /\ phase = "stopall" /\ loop
  /\ loop' = FALSE
  /\ UNCHANGED <<entry, process, threads, crashCh, phase, order, pos, stopping>>

Mut_StopNext ==
  /\ phase = "stopall" /\ pos > 0 /\ stopping = 0
  /\ LET s == order[pos] IN
       \/ /\ beginStop(s)
          /\ stopping' = Cmd[s]
          /\ UNCHANGED pos
       \/ /\ State[s] \notin {Healthy, Starting}
          /\ pos' = pos - 2
          /\ UNCHANGED <<entry, process, threads, crashCh, stopping>>
  /\ UNCHANGED <<phase, order, loop>>

StopNext ==
  /\ phase = "stopall" /\ pos > 0 /\ stopping = 0
  /\ LET s == order[pos] IN
       \/ /\ beginStop(s)
          /\ stopping' = Cmd[s]
          /\ UNCHANGED pos
       \/ /\ State[s] \notin {Healthy, Starting}
          /\ pos' = pos - 1
          /\ UNCHANGED <<entry, process, threads, crashCh, stopping>>
  /\ UNCHANGED <<phase, order, loop>>

StopNextReturns ==
  /\ phase = "stopall" /\ stopping # 0
  /\ stopPc[order[pos]][stopping] = "end"
  /\ pos' = pos - 1 /\ stopping' = 0
  /\ UNCHANGED <<entry, process, threads, crashCh, phase, order, loop>>

Exit ==
  /\ phase = "stopall" /\ pos = 0
  /\ phase' = "exited"
  /\ UNCHANGED <<entry, process, threads, crashCh, order, pos, stopping, loop>>

\* A supervisor that has gone stays gone.
Gone == ~Up /\ UNCHANGED vars

-----------------------------------------------------------------------------
Start(s, i) ==
  PollReady(s, i) \/ BecomeHealthy(s, i) \/ ReadyTimeout(s, i) \/ StartKill(s, i)
  \/ NotReady(s, i)

Monitor(s, i) ==
  MonitorReadsCmd(s, i) \/ MonitorCloses(s, i) \/ MonitorReadsState(s, i)
  \/ MonitorReports(s, i)

Stop(s, i) == StopKill(s, i) \/ StopReturns(s, i)

Main == StartNext \/ OpenControl \/ StopNext \/ StopNextReturns \/ Exit

Next ==
  \/ \E s \in Services :
       \/ \E i \in Incarnations :
            \/ Listen(s, i) \/ Die(s, i) \/ Terminate(s, i)
            \/ Start(s, i) \/ Monitor(s, i) \/ Stop(s, i)
       \/ RestartTimer(s)
       \/ CheckDependencies(s) \/ StartService(s) \/ StopService(s)
  \/ HandleCrash \/ RunReturns
  \/ Main \/ Shutdown
  \/ Gone

Spec == Init /\ [][Next]_vars

(* The Go scheduler runs every goroutine that can run, and timers fire.    *)
(* Nothing obliges a process to listen or to end, a client to send a       *)
(* request, or anybody to shut the supervisor down.                        *)
Fairness ==
  /\ \A s \in Services, i \in Incarnations :
       WF_vars(Start(s, i)) /\ WF_vars(Monitor(s, i)) /\ WF_vars(Stop(s, i))
  /\ \A s \in Services : WF_vars(RestartTimer(s)) /\ WF_vars(StartService(s))
  /\ WF_vars(HandleCrash) /\ WF_vars(Main)

FairSpec == Spec /\ Fairness

-----------------------------------------------------------------------------
live(s, i) == proc[s][i] \in {"booting", "serving"}

\* Some start() of s has not returned.
startInProgress(s) ==
  \E i \in Incarnations : startPc[s][i] \in {"polling", "ready", "draining", "killed"}

queued(s) == \E k \in 1..Len(crashCh) : crashCh[k] = s

\* The monitor of the current process will report its end, or has done so and
\* Run has not taken the report yet.
reportOnItsWay(s) ==
  \/ mon[s][Cmd[s]] \in {"spawned", "closed", "report"}
  \/ mon[s][Cmd[s]] = "waiting" /\ monCmd[s][Cmd[s]] = Cmd[s]
  \/ queued(s)

(* A service that svc.list shows as Starting or Healthy is watched: however *)
(* starts, stops, stale reports and restart timers interleave, when its     *)
(* current process ends a report of that reaches handleCrash (monitor,      *)
(* handleCrash).                                                            *)
NoLostCrash ==
  \A s \in Services : State[s] \in {Starting, Healthy} => reportOnItsWay(s)

(* Without svc.start requests the crash recovery never runs two processes  *)
(* of one service side by side (handleCrash, the restart timer, start).    *)
SingleProcess ==
  \A s \in Services : \A i, j \in Incarnations : live(s, i) /\ live(s, j) => i = j

(* The comment on ServiceEntry.done: "closed when the process exits (by    *)
(* monitor)".  Holds as long as there are no svc.start requests.           *)
DoneMeansExited ==
  \A s \in Services : \A i \in closed[s] : proc[s][i] = "exited"

(* No monitor closes a done channel a second time, which would panic and   *)
(* end the supervisor (monitor).  Holds without svc.start requests.        *)
NoPanic == phase # "panicked"

(* When a stop of the current process has returned, no process of the      *)
(* service runs (stopLocked).  Holds without svc.start requests.           *)
StopReplyMeansDead ==
  \A s \in Services : \A i \in Incarnations :
    Cmd[s] = i /\ stopPc[s][i] = "end" => \A j \in Incarnations : ~live(s, j)

(* StartAll has a service spawned only while all it depends on are Healthy *)
(* (StartAll, topoSort).                                                   *)
StartAllOrder ==
  phase = "startall" =>
    \A s \in Services : State[s] # Declared =>
      \A d \in DependsOn[s] : State[d] = Healthy

(* The socket file at the path, which start() takes for readiness and       *)
(* clients dial, is the one of the current process or there is none: the    *)
(* file a crashed process leaves does not outlive its successor's spawn,    *)
(* and no earlier process binds late (start, Server.Start).  Holds without  *)
(* svc.start requests.                                                      *)
SocketIsCurrent == \A s \in Services : sock[s] \in {0, Cmd[s]}

Processes ==
  INSTANCE Lifecycle WITH
    spawned <- Cmd,
    running <- {s \in Services : \E i \in Incarnations : live(s, i)},
    held    <- {s \in Services : ShouldQuarantine(CrashWindow[s])}

(* The manager keeps the promises of Lifecycle: all its goroutines together *)
(* never start a service beside a running process of it, before its        *)
(* dependencies, or after its quarantine (StartAll, handleCrash, the        *)
(* restart timer, start).  Holds without svc.start requests.                *)
ImplementsLifecycle == Processes!Spec

(* A Stopped service with no start() under way stays Stopped until a       *)
(* StartService call: stale crash reports, monitors that look at State     *)
(* late and left-over restart timers do not bring it back (handleCrash,    *)
(* monitor, the restart timer).                                            *)
StoppedIsFinal ==
  [][\A s \in Services :
       State[s] = Stopped /\ ~startInProgress(s) /\ State'[s] # Stopped
         => s \in checked /\ s \notin checked']_vars

(* The end of a Healthy service's process is noticed: it is not shown as   *)
(* Healthy for ever (monitor, Run).                                        *)
CrashNoticed ==
  \A s \in Services : \A i \in Incarnations :
    (Cmd[s] = i /\ State[s] = Healthy /\ proc[s][i] = "exited")
      ~> (Cmd[s] # i \/ State[s] # Healthy \/ ~Up)

(* A crash of a Healthy service that no start() call is still working on   *)
(* ends in a new process, in Quarantined or in Stopped; that is, the       *)
(* restart is not lost (handleCrash, the restart timer).                   *)
CrashRecovered ==
  \A s \in Services : \A i \in 1..(MaxSpawn - 1) :
    (Cmd[s] = i /\ State[s] = Healthy /\ proc[s][i] = "exited" /\ ~startInProgress(s))
      ~> (Cmd[s] # i \/ State[s] \in {Quarantined, Stopped} \/ ~Up)

(* Every StopService and StopAll call returns (stopLocked): after the      *)
(* SIGKILL at the latest the monitor closes the channel it waits for.      *)
StopTerminates ==
  \A s \in Services : \A i \in Incarnations :
    (stopPc[s][i] # "none") ~> (stopPc[s][i] = "end" \/ ~Up)

-----------------------------------------------------------------------------
(* What a document says and the code does not do.                          *)

(* "Stopped services can be restarted via supervisor.svc.start": after a   *)
(* stop of the current process nothing else spawns the next one.           *)
StoppedNotRestarted ==
  [][\A s \in Services :
       Cmd'[s] # Cmd[s] /\ Cmd[s] # 0 =>
         stopPc[s][Cmd[s]] = "none" \/ (s \in checked /\ s \notin checked')]_vars
=============================================================================
