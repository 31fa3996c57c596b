------------------------------ MODULE Lifecycle ------------------------------
(***************************************************************************)
(* What the service manager promises about the processes it runs as long   *)
(* as nobody sends svc.start, without goroutines, channels, timers or      *)
(* locks: a service is first started after all it depends on, it is only   *)
(* started when no process of it runs, and once it is quarantined it is    *)
(* never started again.                                                    *)
(***************************************************************************)
EXTENDS Naturals

CONSTANTS
  Services,   \* the names passed to Declare
  DependsOn   \* Config.DependsOn of every service

VARIABLES
  spawned,  \* how many processes every service has had
  running,  \* the services with a process
  held      \* the services in quarantine

vars == <<spawned, running, held>>

Init == spawned = [s \in Services |-> 0] /\ running = {} /\ held = {}

Spawn(s) ==
  /\ s \notin running /\ s \notin held
  /\ spawned[s] = 0 => \A d \in DependsOn[s] : spawned[d] > 0
  /\ spawned' = [spawned EXCEPT ![s] = @ + 1]
  /\ running' = running \cup {s}
  /\ UNCHANGED held

\* The process crashes, terminates or is killed.
End(s) ==
  /\ s \in running
  /\ running' = running \ {s}
  /\ UNCHANGED <<spawned, held>>

Quarantine(s) ==
  /\ spawned[s] > 0 /\ s \notin running
  /\ held' = held \cup {s}
  /\ UNCHANGED <<spawned, running>>

Next == \E s \in Services : Spawn(s) \/ End(s) \/ Quarantine(s)

Spec == Init /\ [][Next]_vars
=============================================================================
