---------------------------- MODULE MCSupervisor ----------------------------
(* Small instances of Supervisor: one service on its own, or fs with the   *)
(* identity service it depends on, as cmd/supervisor/main.go declares them. *)
EXTENDS Supervisor

NoDependencies == [s \in Services |-> {}]

FsNeedsIdentity == [s \in Services |-> IF s = "fs" THEN {"identity"} ELSE {}]
=============================================================================
