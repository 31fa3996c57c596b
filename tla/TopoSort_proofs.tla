-------------------------- MODULE TopoSort_proofs --------------------------
(***************************************************************************)
(* topoSort is correct for every declaration of finitely many services.    *)
(***************************************************************************)
EXTENDS TopoSort, FiniteSetTheorems, TLAPS

\* Services the first loop, the second loop is through with.
built  == IF stage = "build" THEN Services \ todo ELSE Services
seeded == IF stage = "build" THEN {} ELSE IF stage = "seed" THEN Services \ todo ELSE Services

Done == Elements(order)

\* The dependencies of s that inDegree[s] still counts: those not in order, and
\* the last one in order while s waits for its visit.
left(s) == {d \in DependsOn[s] : d \notin Done \/ (s \in current /\ d = order[Len(order)])}

(* The counts are right, and what has been queued is what counts to zero.  *)
CountInv ==
  /\ \A d \in Services : dependents[d] = {s \in built : d \in DependsOn[s]}
  /\ \A s \in built : DependsOn[s] \subseteq Services /\ inDegree[s] = Cardinality(left(s))
  /\ Elements(queue) \cup Done = {s \in seeded : inDegree[s] = 0}
  /\ stage # "sort" => order = <<>> /\ current = {}
  /\ \A s \in current : order # <<>> /\ order[Len(order)] \in DependsOn[s]

(* Nothing is queued twice, and order is sorted as far as it goes.         *)
OrderInv ==
  /\ \A j, k \in 1..Len(queue) : queue[j] = queue[k] => j = k
  /\ \A j, k \in 1..Len(order) : order[j] = order[k] => j = k
  /\ Elements(queue) \cap Done = {}
  /\ \A k \in 1..Len(order) : \A d \in DependsOn[order[k]] :
       \E j \in 1..Len(order) : j < k /\ order[j] = d

TopoInv ==
  /\ TypeOK /\ SortedOrder /\ CycleIsReal
  /\ stage # "end" => CountInv /\ OrderInv /\ result = "none"

-----------------------------------------------------------------------------
(* What append does to the elements of queue and order.                    *)
LEMMA AppendElements ==
  ASSUME NEW q \in Seq(Services), NEW s \in Services
  PROVE  /\ Elements(Append(q, s)) = Elements(q) \cup {s}
         /\ s \notin Elements(q) /\ (\A j, k \in 1..Len(q) : q[j] = q[k] => j = k) =>
              \A j, k \in 1..Len(Append(q, s)) :
                Append(q, s)[j] = Append(q, s)[k] => j = k
<1>1. /\ Len(Append(q, s)) = Len(q) + 1 /\ Append(q, s)[Len(q) + 1] = s /\ Len(q) \in Nat
      /\ \A j \in 1..Len(q) : Append(q, s)[j] = q[j]
  OBVIOUS
<1> QED
  BY <1>1 DEF Elements

(* What taking the first element off does to the elements of queue.        *)
LEMMA TailElements ==
  ASSUME NEW q \in Seq(Services), q # <<>>,
         \A j, k \in 1..Len(q) : q[j] = q[k] => j = k
  PROVE  /\ Head(q) \in Services /\ Tail(q) \in Seq(Services)
         /\ Elements(q) = Elements(Tail(q)) \cup {Head(q)}
         /\ Head(q) \notin Elements(Tail(q))
         /\ \A j, k \in 1..Len(Tail(q)) : Tail(q)[j] = Tail(q)[k] => j = k
<1>1. /\ Len(Tail(q)) = Len(q) - 1 /\ Len(q) \in Nat /\ Len(q) > 0 /\ Head(q) = q[1]
      /\ \A j \in 1..Len(Tail(q)) : Tail(q)[j] = q[j + 1]
      /\ Head(q) \in Services /\ Tail(q) \in Seq(Services)
  OBVIOUS
<1>2. \A j \in 1..Len(q) : j # 1 => j - 1 \in 1..Len(Tail(q)) /\ Tail(q)[j - 1] = q[j]
  BY <1>1
<1>3. Elements(q) = Elements(Tail(q)) \cup {Head(q)}
  <2>1. ASSUME NEW j \in 1..Len(q) PROVE q[j] \in Elements(Tail(q)) \cup {Head(q)}
    BY Zenon, <1>1, <1>2 DEF Elements
  <2>2. ASSUME NEW j \in 1..Len(Tail(q)) PROVE Tail(q)[j] \in Elements(q)
    BY <1>1 DEF Elements
  <2>3. Head(q) \in Elements(q)
    BY <1>1 DEF Elements
  <2>4. Elements(q) \subseteq Elements(Tail(q)) \cup {Head(q)}
    BY ZenonT(30), <2>1 DEF Elements
  <2>5. Elements(Tail(q)) \subseteq Elements(q)
    BY ZenonT(30), <2>2 DEF Elements
  <2> QED
    BY Zenon, <2>3, <2>4, <2>5
<1>4. Head(q) \notin Elements(Tail(q))
  BY <1>1 DEF Elements
<1>5. \A j, k \in 1..Len(Tail(q)) : Tail(q)[j] = Tail(q)[k] => j = k
  BY <1>1
<1> QED
  BY Zenon, <1>1, <1>3, <1>4, <1>5

(* The sets of dependencies that are counted are finite.                   *)
LEMMA LeftFinite ==
  ASSUME TypeOK, NEW s \in Services
  PROVE  /\ IsFiniteSet(left(s)) /\ Cardinality(left(s)) \in Nat
         /\ Cardinality(left(s)) = 0 <=> left(s) = {}
<1>1. left(s) \subseteq Names
  BY Zenon DEF left, TypeOK
<1>2. IsFiniteSet(left(s))
  BY Zenon, <1>1, DeclarationAssumption, FS_Subset
<1> QED
  BY Zenon, <1>2, FS_CardinalityType, FS_EmptySet

(* Steps that leave queue and order alone.                                 *)
LEMMA Same ==
  /\ order' = order => Done' = Done
  /\ queue' = queue => Elements(queue)' = Elements(queue)
  /\ UNCHANGED <<DependsOn, order, current>> => \A s \in Services : left(s)' = left(s)
<1>1. order' = order => Done' = Done
  BY Zenon DEF Done
<1>2. queue' = queue => Elements(queue)' = Elements(queue)
  BY Zenon
<1>3. UNCHANGED <<DependsOn, order, current>> => \A s \in Services : left(s)' = left(s)
  BY Zenon DEF left, Done
<1> QED
  BY Zenon, <1>1, <1>2, <1>3

(* Before the first loop nothing is counted.                               *)
LEMMA TopoInit == Init => TopoInv
<1> SUFFICES ASSUME Init PROVE TopoInv
  BY Zenon
<1>1. TypeOK
  BY DEF Init, TypeOK
<1>2. Elements(queue) = {} /\ Done = {}
  BY DEF Init, Elements, Done
<1> QED
  BY <1>1, <1>2 DEF Init, TopoInv, SortedOrder, CycleIsReal, CountInv, OrderInv, built, seeded

(* Every step of topoSort keeps the invariant.                             *)
LEMMA TopoStep == TopoInv /\ [Next]_vars => TopoInv'
<1> SUFFICES ASSUME TopoInv, [Next]_vars PROVE TopoInv'
  BY Zenon
<1>a. TypeOK /\ (stage # "end" => CountInv /\ OrderInv /\ result = "none")
  BY Zenon DEF TopoInv
<1>b. ASSUME TypeOK', CountInv', OrderInv', result' = "none" PROVE TopoInv'
  BY Zenon, <1>b DEF TopoInv, SortedOrder, CycleIsReal
<1>1. ASSUME NEW s \in Services, Build(s) PROVE TopoInv'
  <2>1. /\ stage = "build" /\ stage' = "build" /\ s \in todo /\ todo' = todo \ {s}
        /\ DependsOn[s] \subseteq Services /\ result' = result
        /\ inDegree' = [inDegree EXCEPT ![s] = Cardinality(DependsOn[s])]
        /\ UNCHANGED <<DependsOn, queue, order, current>>
        /\ CountInv /\ OrderInv /\ result = "none" /\ order = <<>> /\ current = {}
    BY Zenon, <1>1, <1>a DEF Build, CountInv
  <2>2. Done = {} /\ \A t \in Services : left(t) = DependsOn[t] /\ left(t)' = left(t)
    BY <2>1 DEF Done, Elements, left
  <2>3. Cardinality(DependsOn[s]) \in Nat
    BY Zenon, <1>a, <2>2, LeftFinite
  <2>4. TypeOK'
    BY <1>1, <1>a, <2>1, <2>3 DEF Build, TypeOK
  <2>5. \A d \in Services : dependents'[d] = {t \in built' : d \in DependsOn'[t]}
    BY <1>1, <1>a, <2>1 DEF Build, CountInv, built, TypeOK
  <2>6. \A t \in built' : DependsOn'[t] \subseteq Services /\ inDegree'[t] = Cardinality(left(t)')
    BY Zenon, <1>a, <2>1, <2>2 DEF CountInv, built, TypeOK
  <2>7. CountInv'
    BY Zenon, <2>1, <2>5, <2>6, Same DEF CountInv, seeded
  <2>8. OrderInv'
    BY <2>1, Same DEF OrderInv
  <2> QED
    BY Zenon, <1>b, <2>1, <2>4, <2>7, <2>8
<1>2. ASSUME NEW s \in Services, BuildFails(s) PROVE TopoInv'
  BY Zenon, <1>2, <1>a DEF BuildFails, Return, TypeOK, TopoInv, SortedOrder, CycleIsReal
<1>3. CASE Built
  <2>1. /\ stage = "build" /\ stage' = "seed" /\ todo = {} /\ todo' = Services
        /\ UNCHANGED <<DependsOn, inDegree, dependents, queue, order, current, result>>
        /\ CountInv /\ OrderInv /\ result = "none"
    BY Zenon, <1>3, <1>a DEF Built
  <2>2. TypeOK'
    BY Zenon, <1>a, <2>1 DEF TypeOK
  <2>3. CountInv'
    BY Zenon, <2>1, Same DEF CountInv, built, seeded
  <2>4. OrderInv'
    BY <2>1, Same DEF OrderInv
  <2> QED
    BY Zenon, <1>b, <2>1, <2>2, <2>3, <2>4
<1>4. CASE Seeded
  <2>1. /\ stage = "seed" /\ stage' = "sort" /\ todo = {}
        /\ UNCHANGED <<DependsOn, todo, inDegree, dependents, queue, order, current, result>>
        /\ CountInv /\ OrderInv /\ result = "none"
    BY Zenon, <1>4, <1>a DEF Seeded
  <2>2. TypeOK'
    BY Zenon, <1>a, <2>1 DEF TypeOK
  <2>3. CountInv'
    BY Zenon, <2>1, Same DEF CountInv, built, seeded
  <2>4. OrderInv'
    BY <2>1, Same DEF OrderInv
  <2> QED
    BY Zenon, <1>b, <2>1, <2>2, <2>3, <2>4
<1>5. ASSUME NEW s \in Services, Seed(s) PROVE TopoInv'
  <2>1. /\ stage = "seed" /\ stage' = "seed" /\ s \in todo /\ todo' = todo \ {s}
        /\ queue' = IF inDegree[s] = 0 THEN Append(queue, s) ELSE queue
        /\ UNCHANGED <<DependsOn, inDegree, dependents, order, current, result>>
        /\ CountInv /\ OrderInv /\ result = "none" /\ order = <<>>
    BY Zenon, <1>5, <1>a DEF Seed, ready, CountInv
  <2>2. TypeOK'
    BY <1>a, <2>1 DEF TypeOK
  <2>3. s \notin Elements(queue) /\ Done = {} /\ Done' = {}
    BY <2>1 DEF CountInv, seeded, Done, Elements
  <2>4. /\ Elements(queue)' = Elements(queue) \cup (IF inDegree[s] = 0 THEN {s} ELSE {})
        /\ \A j, k \in 1..Len(queue') : queue'[j] = queue'[k] => j = k
    <3>1. CASE inDegree[s] = 0
      BY <1>a, <2>1, <2>3, <3>1, AppendElements DEF OrderInv, TypeOK
    <3>2. CASE inDegree[s] # 0
      BY <2>1, <3>2 DEF OrderInv
    <3> QED
      BY Zenon, <3>1, <3>2
  <2>5. Elements(queue)' \cup Done' = {t \in seeded' : inDegree'[t] = 0}
    BY <1>a, <2>1, <2>3, <2>4 DEF CountInv, seeded, TypeOK
  <2>6. CountInv'
    BY Zenon, <2>1, <2>3, <2>5, Same DEF CountInv, built
  <2>7. OrderInv'
    BY <2>1, <2>3, <2>4 DEF OrderInv
  <2> QED
    BY Zenon, <1>b, <2>1, <2>2, <2>6, <2>7
<1>6. CASE Pop
  <2>1. PICK h : h = Head(queue)
    BY Zenon
  <2>2. /\ stage = "sort" /\ stage' = "sort" /\ current = {} /\ queue # <<>>
        /\ queue' = Tail(queue) /\ order' = Append(order, h) /\ current' = dependents[h]
        /\ UNCHANGED <<DependsOn, todo, inDegree, dependents, result>>
        /\ CountInv /\ OrderInv /\ result = "none"
        /\ queue \in Seq(Services) /\ order \in Seq(Services)
    BY Zenon, <1>6, <1>a, <2>1 DEF Pop, TypeOK
  <2>3. /\ h \in Services /\ queue' \in Seq(Services)
        /\ Elements(queue) = Elements(queue') \cup {h} /\ h \notin Elements(queue')
        /\ \A j, k \in 1..Len(queue') : queue'[j] = queue'[k] => j = k
    BY <2>1, <2>2, TailElements DEF OrderInv
  <2>4. h \notin Done
    BY Zenon, <2>2, <2>3 DEF OrderInv
  <2>5. /\ Done' = Done \cup {h}
        /\ \A j, k \in 1..Len(order') : order'[j] = order'[k] => j = k
    BY Zenon, <2>2, <2>3, <2>4, AppendElements DEF OrderInv, Done
  <2>6. /\ order' \in Seq(Services) /\ Len(order') = Len(order) + 1 /\ Len(order) \in Nat
        /\ order'[Len(order')] = h /\ \A j \in 1..Len(order) : order'[j] = order[j]
        /\ order' # <<>>
    BY <2>2, <2>3
  <2>7. TypeOK'
    BY Zenon, <1>a, <2>2, <2>3, <2>6 DEF TypeOK
  <2>8. current' = {s \in Services : h \in DependsOn[s]}
    BY Zenon, <2>2, <2>3 DEF CountInv, built
  <2>9. ASSUME NEW s \in Services PROVE left(s)' = left(s)
    <3>1. left(s)' = {d \in DependsOn[s] : d \notin Done' \/ (s \in current' /\ d = h)}
      BY Zenon, <2>2, <2>6 DEF left
    <3>2. left(s) = {d \in DependsOn[s] : d \notin Done}
      BY Zenon, <2>2 DEF left
    <3> QED
      BY <2>4, <2>5, <2>8, <3>1, <3>2
  <2>10. Elements(queue') \cup Done' = Elements(queue) \cup Done
    BY Zenon, <2>3, <2>5
  <2>11. CountInv'
    BY <2>2, <2>6, <2>8, <2>9, <2>10 DEF CountInv, built, seeded
  <2>12. DependsOn[h] \subseteq Done
    <3>1. inDegree[h] = 0
      BY Zenon, <2>2, <2>3 DEF CountInv
    <3>2. left(h) = {}
      BY Zenon, <1>a, <2>2, <2>3, <3>1, LeftFinite DEF CountInv, built
    <3> QED
      BY Zenon, <2>2, <3>2 DEF left
  <2>13. ASSUME NEW k \in 1..Len(order'), NEW d \in DependsOn'[order'[k]]
         PROVE  \E j \in 1..Len(order') : j < k /\ order'[j] = d
    <3>1. CASE k = Len(order')
      <4>1. PICK j \in 1..Len(order) : order[j] = d
        BY Zenon, <2>2, <2>6, <2>12, <2>13, <3>1 DEF Done, Elements
      <4> QED
        BY <2>6, <3>1, <4>1
    <3>2. CASE k # Len(order')
      <4>1. k \in 1..Len(order) /\ d \in DependsOn[order[k]]
        BY <2>2, <2>6, <2>13, <3>2
      <4>2. PICK j \in 1..Len(order) : j < k /\ order[j] = d
        BY Zenon, <2>2, <4>1 DEF OrderInv
      <4> QED
        BY <2>6, <4>2
    <3> QED
      BY Zenon, <3>1, <3>2
  <2>14. Elements(queue') \cap Done' = {}
    BY <2>2, <2>3, <2>5 DEF OrderInv
  <2>15. OrderInv'
    BY Zenon, <2>3, <2>5, <2>13, <2>14 DEF OrderInv
  <2> QED
    BY Zenon, <1>b, <2>2, <2>7, <2>11, <2>15
<1>7. ASSUME NEW s \in Services, Visit(s) PROVE TopoInv'
  <2>1. /\ stage = "sort" /\ stage' = "sort" /\ s \in current /\ current' = current \ {s}
        /\ inDegree' = [inDegree EXCEPT ![s] = @ - 1]
        /\ queue' = IF inDegree[s] - 1 = 0 THEN Append(queue, s) ELSE queue
        /\ UNCHANGED <<DependsOn, todo, dependents, order, result>>
        /\ CountInv /\ OrderInv /\ result = "none"
        /\ queue \in Seq(Services) /\ inDegree \in [Services -> Nat]
    BY Zenon, <1>7, <1>a DEF Visit, TypeOK
  <2>2. PICK l : l = order[Len(order)]
    BY Zenon
  <2>3. l \in left(s) /\ l \in Done
    <3>1. order # <<>> /\ l \in DependsOn[s]
      BY Zenon, <2>1, <2>2 DEF CountInv
    <3>2. Len(order) \in 1..Len(order)
      BY <1>a, <3>1 DEF TypeOK
    <3> QED
      BY Zenon, <2>1, <2>2, <3>1, <3>2 DEF left, Done, Elements
  <2>4. left(s)' = left(s) \ {l} /\ \A t \in Services : t # s => left(t)' = left(t)
    BY Zenon, <2>1, <2>2, <2>3, Same DEF left
  <2>5. inDegree[s] = Cardinality(left(s)) /\ inDegree[s] # 0
    BY Zenon, <1>a, <2>1, <2>3, LeftFinite DEF CountInv, built
  <2>6. inDegree'[s] = Cardinality(left(s)') /\ inDegree'[s] \in Nat
    <3>1. IsFiniteSet(left(s))
      BY Zenon, <1>a, LeftFinite
    <3>2. Cardinality(left(s) \ {l}) = Cardinality(left(s)) - 1
      BY Zenon, <2>3, <3>1, FS_RemoveElement
    <3> QED
      BY <2>1, <2>4, <2>5, <3>2
  <2>7. s \notin Elements(queue) \cup Done
    BY Zenon, <2>1, <2>5 DEF CountInv
  <2>8. /\ Elements(queue') = Elements(queue) \cup (IF inDegree'[s] = 0 THEN {s} ELSE {})
        /\ \A j, k \in 1..Len(queue') : queue'[j] = queue'[k] => j = k
    <3>1. CASE inDegree'[s] = 0
      BY SMTT(30), <2>1, <2>7, <3>1, AppendElements DEF OrderInv
    <3>2. CASE inDegree'[s] # 0
      BY <2>1, <3>2 DEF OrderInv
    <3> QED
      BY Zenon, <3>1, <3>2
  <2>9. TypeOK'
    BY <1>a, <2>1, <2>6 DEF TypeOK
  <2>10. Elements(queue') \cup Done' = {t \in seeded' : inDegree'[t] = 0}
    BY <2>1, <2>5, <2>7, <2>8, Same DEF CountInv, seeded
  <2>11. \A t \in built' : DependsOn'[t] \subseteq Services /\ inDegree'[t] = Cardinality(left(t)')
    BY Zenon, <2>1, <2>4, <2>6 DEF CountInv, built
  <2>12. CountInv'
    BY Zenon, <2>1, <2>10, <2>11 DEF CountInv, built
  <2>13. OrderInv'
    BY <2>1, <2>7, <2>8, Same DEF OrderInv
  <2> QED
    BY Zenon, <1>b, <2>1, <2>9, <2>12, <2>13
<1>8. CASE Sorted
  <2>1. /\ stage = "sort" /\ stage' = "end" /\ current = {} /\ queue = <<>>
        /\ result' = IF Len(order) # Cardinality(Services) THEN "cycle" ELSE "sorted"
        /\ UNCHANGED <<DependsOn, todo, inDegree, dependents, queue, order, current>>
        /\ CountInv /\ OrderInv
    BY Zenon, <1>8, <1>a DEF Sorted, Return
  <2>2. TypeOK'
    BY Zenon, <1>a, <2>1 DEF TypeOK
  <2>3. SortedOrder'
    BY <2>1 DEF SortedOrder, OrderInv
  <2>4. ASSUME Len(order) # Cardinality(Services)
        PROVE  \E C \in SUBSET Services : C # {} /\ \A s \in C : DependsOn[s] \cap C # {}
    <3> DEFINE C == Services \ Done
    <3>1. Done # Services
      <4> SUFFICES ASSUME Done = Services PROVE FALSE
        BY Zenon
      <4>1. order \in [1..Len(order) -> Services] /\ Len(order) \in Nat
        BY <1>a DEF TypeOK
      <4>2. \A s \in Services : \E j \in 1..Len(order) : order[j] = s
        BY Zenon DEF Done, Elements
      <4>3. order \in Injection(1..Len(order), Services)
        BY Zenon, <2>1, <4>1 DEF Injection, IsInjective, OrderInv
      <4>4. order \in Surjection(1..Len(order), Services)
        BY Zenon, <4>1, <4>2 DEF Surjection
      <4>5. ExistsBijection(1..Len(order), Services)
        BY Zenon, <4>3, <4>4 DEF ExistsBijection, Bijection
      <4> QED
        BY Zenon, <2>4, <4>1, <4>5, FS_CountingElements
    <3>2. Done \subseteq Services
      BY <1>a DEF Done, Elements, TypeOK
    <3>3. ASSUME NEW s \in C PROVE DependsOn[s] \cap C # {}
      <4>1. Elements(queue) = {}
        BY <2>1 DEF Elements
      <4>2. inDegree[s] # 0
        BY Zenon, <2>1, <4>1 DEF CountInv, seeded
      <4>3. left(s) # {}
        BY Zenon, <1>a, <2>1, <4>2, LeftFinite DEF CountInv, built
      <4> QED
        BY Zenon, <2>1, <4>3 DEF left, CountInv, built
    <3> QED
      BY Zenon, <3>1, <3>2, <3>3
  <2> QED
    BY Zenon, <2>1, <2>2, <2>3, <2>4 DEF TopoInv, CycleIsReal
<1>9. CASE Returned \/ UNCHANGED vars
  <2>1. UNCHANGED <<DependsOn, stage, todo, inDegree, dependents, queue, order, current, result>>
    BY Zenon, <1>9 DEF Returned, vars
  <2>2. TypeOK' /\ SortedOrder' /\ CycleIsReal'
    BY SMTT(30), <2>1 DEF TopoInv, TypeOK, SortedOrder, CycleIsReal
  <2>3. ASSUME CountInv PROVE CountInv'
    BY Zenon, <2>1, <2>3, Same DEF CountInv, built, seeded
  <2>4. ASSUME OrderInv PROVE OrderInv'
    BY <2>1, <2>4, Same DEF OrderInv
  <2> QED
    BY Zenon, <2>1, <2>2, <2>3, <2>4 DEF TopoInv
<1> QED
  BY Zenon, <1>1, <1>2, <1>3, <1>4, <1>5, <1>6, <1>7, <1>8, <1>9 DEF Next

(* The invariant holds throughout.                                         *)
LEMMA TopoInvariant == Spec => []TopoInv
  BY TopoInit, TopoStep, PTL DEF Spec

(* For every declaration: the in-degrees topoSort decrements never go      *)
(* below zero and no name enters the queue or the order from outside.      *)
THEOREM TopoTypeCorrect == Spec => []TypeOK
<1>1. TopoInv => TypeOK
  BY Zenon DEF TopoInv
<1> QED
  BY <1>1, TopoInvariant, PTL

(* For every declaration: a result of topoSort is every service once, each *)
(* after all those it depends on.                                          *)
THEOREM TopoSortCorrect == Spec => []SortedOrder
<1>1. TopoInv => SortedOrder
  BY Zenon DEF TopoInv
<1> QED
  BY <1>1, TopoInvariant, PTL

(* For every declaration: topoSort says "dependency cycle detected" only   *)
(* of one that has a cycle.                                                *)
THEOREM CyclesAreReal == Spec => []CycleIsReal
<1>1. TopoInv => CycleIsReal
  BY Zenon DEF TopoInv
<1> QED
  BY <1>1, TopoInvariant, PTL
=============================================================================
