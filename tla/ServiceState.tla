---------------------------- MODULE ServiceState ----------------------------
(***************************************************************************)
(* The lifecycle states of a supervised service and the table of legal     *)
(* state changes (internal/supervisor/state.go).  The supervisor consults  *)
(* the table only where it calls transition(); it also assigns State       *)
(* directly, see the module Supervisor.                                    *)
(***************************************************************************)

Declared    == "Declared"       \* registered but never started
Starting    == "Starting"       \* process spawned, waiting for readiness
Healthy     == "Healthy"        \* the socket file was seen
Crashed     == "Crashed"        \* exited unexpectedly, or could not start
Restarting  == "Restarting"     \* a restart timer is armed
Stopped     == "Stopped"        \* intentionally stopped
Quarantined == "Quarantined"    \* too many crashes

ServiceStates ==
  {Declared, Starting, Healthy, Crashed, Restarting, Stopped, Quarantined}

transitions ==
  { <<Declared, Starting>>,
    <<Starting, Healthy>>, <<Starting, Crashed>>,
    <<Healthy, Crashed>>, <<Healthy, Stopped>>,
    <<Crashed, Restarting>>, <<Crashed, Quarantined>>,
    <<Restarting, Starting>>,
    <<Quarantined, Starting>>,
    <<Stopped, Starting>> }

CanTransition(from, to) == <<from, to>> \in transitions
=============================================================================
