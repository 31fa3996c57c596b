----------------------------- MODULE MCDiscovery -----------------------------
(* One service beside the registry.  Commands of every kind, one with a    *)
(* request that is too large, one that registers an endpoint which is not  *)
(* the service's, and one that names none.                                 *)
EXTENDS Discovery

MCDependsOn == [s \in Services |-> {}]

command(m, e, size) == [method |-> m, service |-> "fs", endpoint |-> e, size |-> size]

MCCommands ==
  {command("call", none, 1), command("call", none, 2), command("registry.list", none, 1),
   command("registry.register", <<"registry">>, 1), command("registry.register", none, 1)}
=============================================================================
