-------------------------- MODULE InductionProofs -----------------------------
(***************************************************************************)
(* Induction on the natural numbers and definition by recursion, as facts  *)
(* about sets and functions: the library states them for any predicate,    *)
(* these for any set and any function, which first-order provers can use.  *)
(* The other proof modules need them for what the recursive functions of   *)
(* the models compute: the trees of Interner, WalkFrames of Checker, the   *)
(* paths, the walks and merge_with of DisjointSets, and the terms and      *)
(* substitutions of Signature.                                             *)
(***************************************************************************)
EXTENDS Integers, FiniteSetTheorems, TLAPS

(* The sets 1 .. n of the numbers that a set lacks have no smallest.       *)
THEOREM SetInduction ==
  ASSUME NEW T, 0 \in T, \A n \in Nat : n \in T => n + 1 \in T
  PROVE  Nat \subseteq T
<1> DEFINE Missing == {n \in Nat : n \notin T}
           Initial == {1 .. n : n \in Missing}
<1> SUFFICES ASSUME Missing # {} PROVE FALSE
  OBVIOUS
<1>1. Initial \subseteq FiniteSubsetsOf(Nat)
  <2> SUFFICES ASSUME NEW n \in Nat PROVE 1 .. n \in FiniteSubsetsOf(Nat)
    BY Zenon
  <2>1. IsFiniteSet(1 .. n)
    BY FS_Interval
  <2>2. 1 .. n \in SUBSET Nat
    OBVIOUS
  <2> QED
    BY ONLY <2>1, <2>2, Zenon DEF FiniteSubsetsOf
<1>2. PICK D \in Initial : \A E \in Initial : <<E, D>> \notin StrictSubsetOrdering(Nat)
  <2>1. Initial # {}
    OBVIOUS
  <2> HIDE DEF Initial
  <2> QED
    BY ONLY <1>1, <2>1, WFMin, FS_StrictSubsetOrderingWellFounded
<1>3. PICK n \in Missing : D = 1 .. n
  BY <1>2
<1>4. n - 1 \in Missing
  BY <1>3
<1>5. 1 .. (n - 1) \in Initial
  BY <1>4
<1>6. /\ 1 .. (n - 1) \subseteq 1 .. n /\ 1 .. (n - 1) # 1 .. n
      /\ 1 .. n \in SUBSET Nat /\ 1 .. (n - 1) \in SUBSET Nat
  <2>1. n \in 1 .. n /\ n \notin 1 .. (n - 1) /\ n \in Nat
    BY <1>3, <1>4
  <2> QED
    BY <2>1
<1> HIDE DEF Initial
<1> QED
  BY <1>2, <1>3, <1>5, <1>6 DEF StrictSubsetOrdering

-----------------------------------------------------------------------------
(* Functions defined by recursion                                          *)

(* The first n steps of the recursion.                                     *)
Steps(V, v0, step, g, n) ==
    /\ g \in [0 .. n -> V]
    /\ g[0] = v0
    /\ \A k \in 0 .. n - 1 : g[k + 1] = step[<<k, g[k]>>]

LEMMA StepsExist ==
  ASSUME NEW V, NEW v0 \in V, NEW step \in [Nat \X V -> V]
  PROVE  \A n \in Nat : \E g : Steps(V, v0, step, g, n)
<1> DEFINE T == {n \in Nat : \E g : Steps(V, v0, step, g, n)}
<1>1. 0 \in T
  <2>1. Steps(V, v0, step, [k \in 0 .. 0 |-> v0], 0)
    BY DEF Steps
  <2> QED
    BY <2>1
<1>2. ASSUME NEW n \in Nat, n \in T
      PROVE  n + 1 \in T
  <2>1. PICK g : Steps(V, v0, step, g, n)
    BY <1>2
  <2> DEFINE last == step[<<n, g[n]>>]
             h == [k \in 0 .. n + 1 |-> IF k = n + 1 THEN last ELSE g[k]]
  <2>2. g \in [0 .. n -> V] /\ g[0] = v0
        /\ \A k \in 0 .. n - 1 : g[k + 1] = step[<<k, g[k]>>]
    BY <2>1 DEF Steps
  <2>3. last \in V
    BY <2>2
  <2> HIDE DEF last
  <2>4. h \in [0 .. n + 1 -> V] /\ h[0] = v0
    BY <2>2, <2>3
  <2>5. ASSUME NEW k \in 0 .. n
        PROVE  h[k + 1] = step[<<k, h[k]>>]
    <3>1. h[k] = g[k]
      OBVIOUS
    <3>2. CASE k = n
      <4>1. h[n + 1] = last
        OBVIOUS
      <4> HIDE DEF h
      <4> QED
        BY <3>1, <3>2, <4>1 DEF last
    <3>3. CASE k # n
      <4>1. k \in 0 .. n - 1 /\ k + 1 \in 0 .. n /\ k + 1 # n + 1 /\ k + 1 \in 0 .. n + 1
        BY <3>3
      <4>2. h[k + 1] = g[k + 1]
        BY <4>1
      <4> HIDE DEF h
      <4> QED
        BY <2>2, <3>1, <4>1, <4>2
    <3> QED
      BY <3>2, <3>3
  <2>6. Steps(V, v0, step, h, n + 1)
    <3>1. n + 1 - 1 = n
      OBVIOUS
    <3> HIDE DEF h
    <3> QED
      BY <2>4, <2>5, <3>1 DEF Steps
  <2> HIDE DEF h
  <2> QED
    BY <2>6
<1> HIDE DEF T
<1>3. Nat \subseteq T
  BY <1>1, <1>2, SetInduction
<1> QED
  BY <1>3 DEF T

LEMMA StepsUnique ==
  ASSUME NEW V, NEW v0, NEW step, NEW f, NEW g, NEW n \in Nat, NEW m \in Nat,
         Steps(V, v0, step, f, n), Steps(V, v0, step, g, m)
  PROVE  \A k \in Nat : k <= n /\ k <= m => f[k] = g[k]
<1> DEFINE T == {k \in Nat : k <= n /\ k <= m => f[k] = g[k]}
<1>1. 0 \in T
  BY DEF Steps
<1>2. ASSUME NEW k \in Nat, k \in T
      PROVE  k + 1 \in T
  <2> SUFFICES ASSUME k + 1 <= n, k + 1 <= m
               PROVE  f[k + 1] = g[k + 1]
    OBVIOUS
  <2>1. f[k] = g[k] /\ k \in 0 .. n - 1 /\ k \in 0 .. m - 1
    BY <1>2
  <2> QED
    BY <2>1 DEF Steps
<1> HIDE DEF T
<1>3. Nat \subseteq T
  BY <1>1, <1>2, SetInduction
<1> QED
  BY <1>3 DEF T

(* f starts with v0 and goes on by step, with values in V.                 *)
Follows(V, v0, step, f) ==
    /\ f \in [Nat -> V]
    /\ f[0] = v0
    /\ \A n \in Nat : f[n + 1] = step[<<n, f[n]>>]

(* A first value and a step define a function.                             *)
THEOREM Recursion ==
  ASSUME NEW V, NEW v0 \in V, NEW step \in [Nat \X V -> V]
  PROVE  \E f : Follows(V, v0, step, f)
<1> DEFINE G(n) == CHOOSE g : Steps(V, v0, step, g, n)
           F == [n \in Nat |-> G(n)[n]]
<1>1. \A n \in Nat : Steps(V, v0, step, G(n), n)
  BY StepsExist
<1>2. \A n \in Nat : F[n] = G(n)[n]
  OBVIOUS
<1>3. F = [n \in Nat |-> F[n]]
  OBVIOUS
<1> HIDE DEF G, F
<1>4. ASSUME NEW n \in Nat
      PROVE  F[n] \in V
  <2>1. G(n) \in [0 .. n -> V] /\ n \in 0 .. n
    BY <1>1 DEF Steps
  <2> QED
    BY <1>2, <2>1
<1>5. F[0] = v0
  BY <1>1, <1>2 DEF Steps
<1>6. ASSUME NEW n \in Nat
      PROVE  F[n + 1] = step[<<n, F[n]>>]
  <2>1. n + 1 \in Nat /\ n \in 0 .. (n + 1) - 1 /\ n <= n + 1
    OBVIOUS
  <2>2. G(n + 1)[n + 1] = step[<<n, G(n + 1)[n]>>]
    BY <1>1, <2>1 DEF Steps
  <2>3. Steps(V, v0, step, G(n + 1), n + 1) /\ Steps(V, v0, step, G(n), n)
    BY <1>1, <2>1
  <2>4. G(n + 1)[n] = G(n)[n]
    BY <2>1, <2>3, StepsUnique
  <2> QED
    BY <1>2, <2>1, <2>2, <2>4
<1>7. F \in [Nat -> V]
  BY <1>3, <1>4
<1>8. Follows(V, v0, step, F)
  BY <1>5, <1>6, <1>7 DEF Follows
<1> QED
  BY <1>8
=============================================================================
