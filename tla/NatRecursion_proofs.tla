------------------------- MODULE NatRecursion_proofs -------------------------
(***************************************************************************)
(* Induction over the natural numbers and functions defined by recursion   *)
(* over them, stated about sets and functions rather than operators so     *)
(* that the proofs about ComputeDelay and filepath.Abs can cite them.      *)
(***************************************************************************)
EXTENDS Integers, WellFoundedInduction, TLAPS

(* A set of natural numbers that is not empty has a least element.         *)
LEMMA LeastNumber ==
  ASSUME NEW T \in SUBSET Nat, T # {}
  PROVE  \E n \in T : \A m \in T : n <= m
<1> DEFINE R == OpToRel(<, Nat)
<1>1. PICK n \in T : \A m \in T : ~ (<<m, n>> \in R)
  <2>1. IsWellFoundedOn(R, Nat)
    BY Zenon, NatLessThanWellFounded
  <2> HIDE DEF R
  <2> QED
    BY Zenon, <2>1, WFMin
<1>2. ASSUME NEW m \in T PROVE n <= m
  <2>1. ~(m < n)
    BY Zenon, <1>1 DEF OpToRel
  <2> QED
    BY <2>1
<1> QED
  BY <1>2

(* Induction: T is the set of the numbers for which the claim holds.       *)
LEMMA Induction ==
  ASSUME NEW T \in SUBSET Nat, 0 \in T, \A n \in T : n + 1 \in T
  PROVE  T = Nat
<1> SUFFICES ASSUME Nat \ T # {} PROVE FALSE
  BY Zenon
<1>1. PICK n \in Nat \ T : \A m \in Nat \ T : n <= m
  BY Zenon, LeastNumber
<1>2. n # 0 /\ n - 1 \in Nat
  BY <1>1
<1>3. n - 1 \in T
  BY <1>1, <1>2
<1> QED
  BY <1>1, <1>3

(* The values of a function over the natural numbers, one after the other. *)
LEMMA RecursionType ==
  ASSUME NEW X, NEW f, f = [i \in Nat |-> f[i]], f[0] \in X,
         \A i \in Nat : f[i] \in X => f[i + 1] \in X
  PROVE  f \in [Nat -> X]
<1> DEFINE T == {i \in Nat : f[i] \in X}
<1>1. 0 \in T
  OBVIOUS
<1>2. \A i \in T : i + 1 \in T
  OBVIOUS
<1>3. T = Nat
  <2>1. T \in SUBSET Nat
    OBVIOUS
  <2> HIDE DEF T
  <2> QED
    BY Zenon, <1>1, <1>2, <2>1, Induction
<1>4. \A i \in Nat : f[i] \in X
  BY Zenon, <1>3
<1> QED
  BY Zenon, <1>4

(* The first n values of the function that starts with b and goes from     *)
(* one value to the next by G.                                             *)
Follows(f, b, G, n) ==
  /\ f[0] = b
  /\ \A i \in 1..n : f[i] = G[i][f[i - 1]]

(* Two functions that start alike and go on by the same G agree.           *)
LEMMA FollowsUnique ==
  ASSUME NEW b, NEW G, NEW n \in Nat, NEW f, NEW g,
         Follows(f, b, G, n), Follows(g, b, G, n)
  PROVE  \A i \in 0..n : f[i] = g[i]
<1> DEFINE T == {i \in Nat : i <= n => f[i] = g[i]}
<1>1. 0 \in T
  BY DEF Follows
<1>2. ASSUME NEW i \in T PROVE i + 1 \in T
  <2> SUFFICES ASSUME i + 1 <= n PROVE f[i + 1] = g[i + 1]
    OBVIOUS
  <2>1. i + 1 \in 1..n /\ f[i] = g[i] /\ (i + 1) - 1 = i
    OBVIOUS
  <2>2. f[i + 1] = G[i + 1][f[i]] /\ g[i + 1] = G[i + 1][g[i]]
    BY <2>1 DEF Follows
  <2> QED
    BY <2>1, <2>2
<1>3. T = Nat
  <2> HIDE DEF T
  <2>1. T \in SUBSET Nat
    BY DEF T
  <2> QED
    BY Zenon, <1>1, <1>2, <2>1, Induction
<1> QED
  BY <1>3

(* Such a function can be continued by one more value.                     *)
LEMMA FollowsLonger ==
  ASSUME NEW X, NEW b \in X, NEW G \in [Nat -> [X -> X]], NEW n \in Nat,
         \E f \in [0..n -> X] : Follows(f, b, G, n)
  PROVE  \E f \in [0..(n + 1) -> X] : Follows(f, b, G, n + 1)
<1>1. PICK f \in [0..n -> X] : Follows(f, b, G, n)
  OBVIOUS
<1> DEFINE next == G[n + 1][f[n]]
           g == [i \in 0..(n + 1) |-> IF i = n + 1 THEN next ELSE f[i]]
<1>2. next \in X
  <2>1. n \in 0..n /\ n + 1 \in Nat
    OBVIOUS
  <2> QED
    BY Zenon, <2>1, <1>1
<1>3. g \in [0..(n + 1) -> X]
  <2> HIDE DEF next
  <2> QED
    BY <1>2
<1>4. g[0] = b
  BY <1>1 DEF Follows
<1>5. ASSUME NEW i \in 1..(n + 1) PROVE g[i] = G[i][g[i - 1]]
  <2>1. CASE i = n + 1
    <3>1. i \in 0..(n + 1) /\ i - 1 \in 0..(n + 1) /\ i - 1 # n + 1 /\ i - 1 = n
      BY <2>1
    <3>2. g[i] = next /\ g[i - 1] = f[n]
      BY Zenon, <2>1, <3>1
    <3> QED
      BY Zenon, <2>1, <3>2
  <2>2. CASE i # n + 1
    <3>1. i \in 1..n /\ i \in 0..(n + 1) /\ i - 1 \in 0..(n + 1) /\ i - 1 # n + 1
      BY <2>2
    <3>2. g[i] = f[i] /\ g[i - 1] = f[i - 1]
      BY Zenon, <2>2, <3>1
    <3> QED
      BY Zenon, <1>1, <3>1, <3>2 DEF Follows
  <2> QED
    BY Zenon, <2>1, <2>2
<1>6. Follows(g, b, G, n + 1)
  BY Zenon, <1>4, <1>5 DEF Follows
<1> QED
  BY Zenon, <1>3, <1>6

(* The function over the natural numbers that is so defined.               *)
Recursive(f, b, G) == f = [i \in Nat |-> IF i = 0 THEN b ELSE G[i][f[i - 1]]]

(* There is a function over the natural numbers that starts with b and     *)
(* goes on by G.                                                           *)
LEMMA RecursionExists ==
  ASSUME NEW X, NEW b \in X, NEW G \in [Nat -> [X -> X]]
  PROVE  \E f \in [Nat -> X] : Recursive(f, b, G)
<1> DEFINE Ok(n) == \E f \in [0..n -> X] : Follows(f, b, G, n)
           T == {n \in Nat : Ok(n)}
<1>1. 0 \in T
  <2> DEFINE f == [i \in 0..0 |-> b]
  <2>1. f \in [0..0 -> X] /\ Follows(f, b, G, 0)
    BY DEF Follows
  <2> QED
    BY <2>1
<1>2. ASSUME NEW n \in T PROVE n + 1 \in T
  <2>1. n \in Nat /\ Ok(n)
    BY Zenon
  <2>2. Ok(n + 1)
    BY Zenon, <2>1, FollowsLonger
  <2>3. n + 1 \in Nat
    BY <2>1
  <2> QED
    BY Zenon, <2>2, <2>3
<1>3. T = Nat
  <2> HIDE DEF T
  <2>1. T \in SUBSET Nat
    BY DEF T
  <2> QED
    BY Zenon, <1>1, <1>2, <2>1, Induction
<1> DEFINE part == [n \in Nat |-> CHOOSE f \in [0..n -> X] : Follows(f, b, G, n)]
           whole == [n \in Nat |-> part[n][n]]
<1>4. ASSUME NEW n \in Nat PROVE part[n] \in [0..n -> X] /\ Follows(part[n], b, G, n)
  <2>1. \E f \in [0..n -> X] : Follows(f, b, G, n)
    BY Zenon, <1>3
  <2> QED
    BY Zenon, <2>1
<1> HIDE DEF part
<1>5. whole \in [Nat -> X]
  BY <1>4
<1>6. ASSUME NEW n \in Nat, n # 0 PROVE whole[n] = G[n][whole[n - 1]]
  <2>1. n - 1 \in Nat /\ n \in 1..n /\ n - 1 \in 0..(n - 1) /\ \A i \in 1..(n - 1) : i \in 1..n
    BY <1>6
  <2>2. Follows(part[n], b, G, n - 1)
    BY Zenon, <1>4, <2>1 DEF Follows
  <2>3. Follows(part[n - 1], b, G, n - 1)
    BY Zenon, <1>4, <2>1
  <2>4. part[n][n - 1] = part[n - 1][n - 1]
    <3>1. ASSUME NEW k \in Nat, NEW f, NEW g, Follows(f, b, G, k), Follows(g, b, G, k)
          PROVE  f[k] = g[k]
      BY <3>1, FollowsUnique
    <3> QED
      BY Zenon, <2>1, <2>2, <2>3, <3>1
  <2>5. part[n][n] = G[n][part[n][n - 1]]
    BY Zenon, <1>4, <2>1 DEF Follows
  <2> QED
    BY Zenon, <2>1, <2>4, <2>5
<1>7. whole[0] = b
  BY <1>4 DEF Follows
<1>8. whole = [i \in Nat |-> IF i = 0 THEN b ELSE G[i][whole[i - 1]]]
  <2> DEFINE step == [i \in Nat |-> IF i = 0 THEN b ELSE G[i][whole[i - 1]]]
  <2>1. \A i \in Nat : whole[i] = step[i]
    BY <1>6, <1>7
  <2> QED
    BY <1>5, <2>1
<1> QED
  BY Zenon, <1>5, <1>8 DEF Recursive
=============================================================================
