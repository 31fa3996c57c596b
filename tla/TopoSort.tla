------------------------------ MODULE TopoSort ------------------------------
(***************************************************************************)
(* Manager.topoSort: Kahn's algorithm over the declared services.  Go      *)
(* iterates over a map in any order, so the two loops over maps take their *)
(* elements in any order, and so does the loop over dependents, whose      *)
(* order is that of the first loop.  A service names a dependency once.    *)
(***************************************************************************)
EXTENDS Integers, Sequences, FiniteSets

CONSTANTS
  Names,      \* names a configuration may use
  Services    \* those that were declared

ASSUME DeclarationAssumption ==
  IsFiniteSet(Names) /\ Services \subseteq Names

VARIABLES
  DependsOn,   \* Config.DependsOn of every service, the input
  stage,       \* the loop that is running
  todo,        \* keys its range clause has not produced yet
  inDegree,
  dependents,
  queue,
  order,
  current,     \* the dependents of the last element of order still to be visited
  result       \* what is returned

vars == <<DependsOn, stage, todo, inDegree, dependents, queue, order, current, result>>

Elements(q) == {q[j] : j \in 1..Len(q)}

(* The values the variables take; an in-degree is never counted down below *)
(* zero.                                                                   *)
TypeOK ==
  /\ DependsOn \in [Services -> SUBSET Names]
  /\ stage \in {"build", "seed", "sort", "end"}
  /\ todo \in SUBSET Services
  /\ inDegree \in [Services -> Nat]
  /\ dependents \in [Services -> SUBSET Services]
  /\ queue \in Seq(Services) /\ order \in Seq(Services)
  /\ current \in SUBSET Services
  /\ result \in {"none", "sorted", "unknown", "cycle"}

Init ==
  /\ DependsOn \in [Services -> SUBSET Names]
  /\ stage = "build" /\ todo = Services
  /\ inDegree = [s \in Services |-> 0]
  /\ dependents = [s \in Services |-> {}]
  /\ queue = <<>> /\ order = <<>> /\ current = {}
  /\ result = "none"

Return(r) == stage' = "end" /\ result' = r

Mut_Build(s) ==
  /\ stage = "build" /\ s \in todo
  /\ DependsOn[s] \subseteq Services
  /\ todo' = todo \ {s}
  /\ dependents' = [d \in Services |->
                      IF d \in DependsOn[s] THEN dependents[d] \cup {s} ELSE dependents[d]]
  /\ UNCHANGED <<DependsOn, stage, inDegree, queue, order, current, result>>

\* The first loop takes a service whose dependencies are all declared, ...
Build(s) ==
  /\ stage = "build" /\ s \in todo
  /\ DependsOn[s] \subseteq Services
  /\ todo' = todo \ {s}
  /\ inDegree' = [inDegree EXCEPT ![s] = Cardinality(DependsOn[s])]
  /\ dependents' = [d \in Services |->
                      IF d \in DependsOn[s] THEN dependents[d] \cup {s} ELSE dependents[d]]
  /\ UNCHANGED <<DependsOn, stage, queue, order, current, result>>

\* ... or one that depends on an unknown service.
BuildFails(s) ==
  /\ stage = "build" /\ s \in todo
  /\ ~(DependsOn[s] \subseteq Services)
  /\ Return("unknown")
  /\ UNCHANGED <<DependsOn, todo, inDegree, dependents, queue, order, current>>

Built ==
  /\ stage = "build" /\ todo = {}
  /\ stage' = "seed" /\ todo' = Services
  /\ UNCHANGED <<DependsOn, inDegree, dependents, queue, order, current, result>>

ready(s) == inDegree[s] = 0

Seed(s) ==
  /\ stage = "seed" /\ s \in todo
  /\ todo' = todo \ {s}
  /\ queue' = IF ready(s) THEN Append(queue, s) ELSE queue
  /\ UNCHANGED <<DependsOn, stage, inDegree, dependents, order, current, result>>

Seeded ==
  /\ stage = "seed" /\ todo = {}
  /\ stage' = "sort"
  /\ UNCHANGED <<DependsOn, todo, inDegree, dependents, queue, order, current, result>>

Pop ==
  /\ stage = "sort" /\ current = {} /\ queue # <<>>
  /\ queue' = Tail(queue)
  /\ order' = Append(order, Head(queue))
  /\ current' = dependents[Head(queue)]
  /\ UNCHANGED <<DependsOn, stage, todo, inDegree, dependents, result>>

Mut_Visit(s) ==
  /\ stage = "sort" /\ s \in current
  /\ current' = current \ {s}
  /\ inDegree' = [inDegree EXCEPT ![s] = @ - 1]
  /\ queue' = IF inDegree[s] = 0 THEN Append(queue, s) ELSE queue
  /\ UNCHANGED <<DependsOn, stage, todo, dependents, order, result>>

Visit(s) ==
  /\ stage = "sort" /\ s \in current
  /\ current' = current \ {s}
  /\ inDegree' = [inDegree EXCEPT ![s] = @ - 1]
  /\ queue' = IF inDegree[s] - 1 = 0 THEN Append(queue, s) ELSE queue
  /\ UNCHANGED <<DependsOn, stage, todo, dependents, order, result>>

Mut_Sorted ==
  /\ stage = "sort" /\ current = {} /\ queue = <<>>
  /\ Return("sorted")
  /\ UNCHANGED <<DependsOn, todo, inDegree, dependents, queue, order, current>>

Sorted ==
  /\ stage = "sort" /\ current = {} /\ queue = <<>>
  /\ Return(IF Len(order) # Cardinality(Services) THEN "cycle" ELSE "sorted")
  /\ UNCHANGED <<DependsOn, todo, inDegree, dependents, queue, order, current>>

Returned == stage = "end" /\ UNCHANGED vars

Next ==
  \/ \E s \in Services : Build(s) \/ BuildFails(s) \/ Seed(s) \/ Visit(s)
  \/ Built \/ Seeded \/ Pop \/ Sorted
  \/ Returned

Spec == Init /\ [][Next]_vars

-----------------------------------------------------------------------------
(* What StartAll gets: every service once, after all it depends on.  This  *)
(* is what Supervisor assumes of m.order.                                  *)
SortedOrder ==
  result = "sorted" =>
    /\ Len(order) = Cardinality(Services)
    /\ \A j, k \in 1..Len(order) : order[j] = order[k] => j = k
    /\ \A k \in 1..Len(order) : \A d \in DependsOn[order[k]] :
         \E j \in 1..Len(order) : j < k /\ order[j] = d

(* "dependency cycle detected" is returned only if there is one: services  *)
(* that each depend on another of them.                                    *)
CycleIsReal ==
  result = "cycle" =>
    \E C \in SUBSET Services : C # {} /\ \A s \in C : DependsOn[s] \cap C # {}
=============================================================================
