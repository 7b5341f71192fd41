--------------------------- MODULE InternerProofs ---------------------------
(***************************************************************************)
(* Proofs of the safety properties of Interner, for any finite number of   *)
(* threads and addresses, any labels and shards, and any number of handles.*)
(*                                                                         *)
(* Everything rests on the count of an object being the number of its      *)
(* owners: from it follows that an object whose count is two has no owner  *)
(* but the map and the thread that drops it, so no one else can clone it,  *)
(* and that an object of which anything is left is still in the map.       *)
(***************************************************************************)
EXTENDS Interner, InductionProofs, FiniteSetTheorems, TLAPS

-----------------------------------------------------------------------------
(* Counting                                                                *)

(* Two sets that differ at most in one element.                            *)
LEMMA Toggle ==
  ASSUME NEW S, NEW T, NEW e, IsFiniteSet(S), S \ {e} = T \ {e}
  PROVE  /\ IsFiniteSet(T)
         /\ Cardinality(S) \in Nat /\ Cardinality(T) \in Nat
         /\ Cardinality(T) = Cardinality(S) + (IF e \in T THEN 1 ELSE 0)
                                            - (IF e \in S THEN 1 ELSE 0)
<1> DEFINE U == S \ {e}
<1>1. IsFiniteSet(U) /\ Cardinality(U) \in Nat
      /\ Cardinality(U) = IF e \in S THEN Cardinality(S) - 1 ELSE Cardinality(S)
  BY FS_RemoveElement, FS_CardinalityType
<1>2. IsFiniteSet(U \union {e}) /\ Cardinality(U \union {e}) = Cardinality(U) + 1
  BY <1>1, FS_AddElement
<1>3. (e \in T => T = U \union {e}) /\ (e \notin T => T = U)
  OBVIOUS
<1>4. Cardinality(S) \in Nat
  BY FS_CardinalityType
<1> HIDE DEF U
<1>5. CASE e \in T
  <2>1. IsFiniteSet(T) /\ Cardinality(T) = Cardinality(U) + 1
    BY <1>2, <1>3, <1>5, Zenon
  <2> QED
    BY <1>1, <1>4, <1>5, <2>1
<1>6. CASE e \notin T
  BY <1>1, <1>3, <1>4, <1>6
<1> QED
  BY <1>5, <1>6

(* The handles of a thread are numbered from 1.                            *)
LEMMA HandleNumbers ==
  ASSUME NEW h \in [Threads -> [Addrs -> Nat]], NEW x \in Addrs
  PROVE  /\ Handles(h, x) \subseteq Threads \X Nat
         /\ \A u \in Threads, i \in Nat : <<u, i>> \in Handles(h, x) <=> 1 <= i /\ i <= h[u][x]
<1>1. \A u \in Threads : h[u][x] \in Nat
  OBVIOUS
<1>2. ASSUME NEW z \in Handles(h, x) PROVE z \in Threads \X Nat
  <2>1. PICK u \in Threads : z \in {<<u, i>> : i \in 1..h[u][x]}
    BY DEF Handles
  <2>2. PICK i \in 1..h[u][x] : z = <<u, i>>
    BY <2>1
  <2> QED
    BY <2>2
<1>3. ASSUME NEW u \in Threads, NEW i \in Nat
      PROVE  <<u, i>> \in Handles(h, x) <=> 1 <= i /\ i <= h[u][x]
  <2>1. ASSUME <<u, i>> \in Handles(h, x) PROVE i \in 1..h[u][x]
    <3>1. PICK v \in Threads : <<u, i>> \in {<<v, j>> : j \in 1..h[v][x]}
      BY <2>1 DEF Handles
    <3>2. PICK j \in 1..h[v][x] : <<u, i>> = <<v, j>>
      BY <3>1
    <3> QED
      BY <3>2
  <2>2. ASSUME i \in 1..h[u][x] PROVE <<u, i>> \in Handles(h, x)
    BY <2>2 DEF Handles
  <2> QED
    BY <1>1, <2>1, <2>2
<1> QED
  BY <1>2, <1>3

(* The handles of an address that is given to or taken from a thread.      *)
LEMMA HandlesGain ==
  ASSUME NEW h \in [Threads -> [Addrs -> Nat]], NEW t \in Threads,
         NEW a \in Addrs, NEW x \in Addrs, IsFiniteSet(Handles(h, x))
  PROVE  /\ Gain(h, t, a) \in [Threads -> [Addrs -> Nat]]
         /\ IsFiniteSet(Handles(Gain(h, t, a), x))
         /\ Cardinality(Handles(h, x)) \in Nat
         /\ Cardinality(Handles(Gain(h, t, a), x)) =
              Cardinality(Handles(h, x)) + (IF x = a THEN 1 ELSE 0)
<1> DEFINE g == Gain(h, t, a)
           e == <<t, h[t][a] + 1>>
<1>1. /\ g \in [Threads -> [Addrs -> Nat]]
      /\ \A u \in Threads, y \in Addrs :
            g[u][y] = IF u = t /\ y = a THEN h[u][y] + 1 ELSE h[u][y]
  BY DEF Gain
<1>2. Cardinality(Handles(h, x)) \in Nat
  BY FS_CardinalityType
<1> HIDE DEF g
<1>3. CASE x # a
  <2>1. Handles(g, x) = Handles(h, x)
    BY <1>1, <1>3 DEF Handles
  <2> QED
    BY <1>1, <1>2, <1>3, <2>1 DEF g
<1>4. CASE x = a
  <2>1. Handles(g, x) = Handles(h, x) \union {e} /\ e \notin Handles(h, x)
    <3>1. h[t][a] \in Nat /\ \A u \in Threads : g[u][x] = IF u = t THEN h[u][x] + 1 ELSE h[u][x]
      BY <1>1, <1>4
    <3>2. \A u \in Threads, i \in Nat :
            <<u, i>> \in Handles(g, x) <=> <<u, i>> \in Handles(h, x) \/ (u = t /\ i = h[t][a] + 1)
      <4> TAKE u \in Threads, i \in Nat
      <4>1. <<u, i>> \in Handles(g, x) <=> 1 <= i /\ i <= g[u][x]
        BY <1>1, HandleNumbers
      <4>2. <<u, i>> \in Handles(h, x) <=> 1 <= i /\ i <= h[u][x]
        BY HandleNumbers
      <4>3. h[u][x] \in Nat /\ h[t][x] \in Nat
        OBVIOUS
      <4>4. CASE u # t
        <5>1. g[u][x] = h[u][x]
          BY <3>1, <4>4
        <5> QED
          BY <4>1, <4>2, <4>4, <5>1, Zenon
      <4>5. CASE u = t
        <5>1. g[u][x] = h[t][a] + 1 /\ h[u][x] = h[t][a]
          BY <1>4, <3>1, <4>5
        <5> HIDE DEF e
        <5> QED
          BY <3>1, <4>1, <4>2, <4>5, <5>1, SMTT(30)
      <4> QED
        BY <4>4, <4>5
    <3>3. e \in Threads \X Nat /\ e \notin Handles(h, x)
      BY <1>4, <3>1, HandleNumbers
    <3>4. Handles(g, x) \subseteq Threads \X Nat /\ Handles(h, x) \subseteq Threads \X Nat
      BY <1>1, HandleNumbers
    <3>5. \A z \in Threads \X Nat : z \in Handles(g, x) <=> z \in Handles(h, x) \/ z = e
      BY <3>2
    <3> QED
      BY <3>3, <3>4, <3>5
  <2>2. /\ IsFiniteSet(Handles(g, x))
        /\ Cardinality(Handles(g, x)) = Cardinality(Handles(h, x)) + 1
    <3> HIDE DEF e
    <3> QED
      BY <2>1, FS_AddElement
  <2> QED
    BY <1>1, <1>2, <1>4, <2>2 DEF g
<1> QED
  BY <1>3, <1>4

LEMMA HandlesLose ==
  ASSUME NEW h \in [Threads -> [Addrs -> Nat]], NEW t \in Threads,
         NEW a \in Addrs, NEW x \in Addrs, IsFiniteSet(Handles(h, x)),
         h[t][a] > 0
  PROVE  /\ Lose(h, t, a) \in [Threads -> [Addrs -> Nat]]
         /\ IsFiniteSet(Handles(Lose(h, t, a), x))
         /\ Cardinality(Handles(h, x)) \in Nat
         /\ Cardinality(Handles(Lose(h, t, a), x)) =
              Cardinality(Handles(h, x)) - (IF x = a THEN 1 ELSE 0)
<1> DEFINE g == Lose(h, t, a)
           e == <<t, h[t][a]>>
<1>1. /\ g \in [Threads -> [Addrs -> Nat]]
      /\ \A u \in Threads, y \in Addrs :
            g[u][y] = IF u = t /\ y = a THEN h[u][y] - 1 ELSE h[u][y]
  BY DEF Lose
<1>2. Cardinality(Handles(h, x)) \in Nat
  BY FS_CardinalityType
<1> HIDE DEF g
<1>3. CASE x # a
  <2>1. Handles(g, x) = Handles(h, x)
    BY <1>1, <1>3 DEF Handles
  <2> QED
    BY <1>1, <1>2, <1>3, <2>1 DEF g
<1>4. CASE x = a
  <2>1. Handles(g, x) = Handles(h, x) \ {e} /\ e \in Handles(h, x)
    <3>1. h[t][a] \in Nat /\ \A u \in Threads : g[u][x] = IF u = t THEN h[u][x] - 1 ELSE h[u][x]
      BY <1>1, <1>4
    <3>2. \A u \in Threads, i \in Nat :
            <<u, i>> \in Handles(g, x) <=> <<u, i>> \in Handles(h, x) /\ ~(u = t /\ i = h[t][a])
      <4> TAKE u \in Threads, i \in Nat
      <4>1. <<u, i>> \in Handles(g, x) <=> 1 <= i /\ i <= g[u][x]
        BY <1>1, HandleNumbers
      <4>2. <<u, i>> \in Handles(h, x) <=> 1 <= i /\ i <= h[u][x]
        BY HandleNumbers
      <4>3. h[u][x] \in Nat /\ h[t][x] \in Nat
        OBVIOUS
      <4>4. CASE u # t
        <5>1. g[u][x] = h[u][x]
          BY <3>1, <4>4
        <5> QED
          BY <4>1, <4>2, <4>4, <5>1, Zenon
      <4>5. CASE u = t
        <5>1. g[u][x] = h[t][a] - 1 /\ h[u][x] = h[t][a]
          BY <1>4, <3>1, <4>5
        <5> HIDE DEF e
        <5> QED
          BY <3>1, <4>1, <4>2, <4>5, <5>1
      <4> QED
        BY <4>4, <4>5
    <3>3. e \in Threads \X Nat /\ e \in Handles(h, x)
      BY <1>4, <3>1, HandleNumbers
    <3>4. Handles(g, x) \subseteq Threads \X Nat /\ Handles(h, x) \subseteq Threads \X Nat
      BY <1>1, HandleNumbers
    <3>5. \A z \in Threads \X Nat : z \in Handles(g, x) <=> z \in Handles(h, x) /\ z # e
      BY <3>2
    <3> QED
      BY <3>3, <3>4, <3>5
  <2>2. /\ IsFiniteSet(Handles(g, x))
        /\ Cardinality(Handles(g, x)) = Cardinality(Handles(h, x)) - 1
    <3> HIDE DEF e
    <3> QED
      BY <2>1, FS_RemoveElement
  <2> QED
    BY <1>1, <1>2, <1>4, <2>2 DEF g
<1> QED
  BY <1>3, <1>4

-----------------------------------------------------------------------------
(* The inductive invariant                                                 *)

Types ==
    /\ heap \in [Addrs -> Object]
    /\ strong \in [Addrs -> Nat]
    /\ map \subseteq Addrs
    /\ lock \in [Shards -> Threads \union {NoThread}]
    /\ held \in [Threads -> [Addrs -> Nat]]
    /\ pc \in [Threads -> PC]
    /\ \A t \in Threads :
          /\ Creating(t) => arg[t] \in Object
          /\ Dropping(t) => arg[t] \in Addrs
          /\ pc[t] = "idle" => arg[t] = Nil
    /\ DOMAIN arg = Threads /\ arg = [t \in Threads |-> arg[t]]

(* A thread holds the lock of the shard it works on, and no other.         *)
Locks ==
    \A s \in Shards, t \in Threads : lock[s] = t <=> Holds(t) /\ ShardUsed(t) = s

(* Every address has finitely many handles, and the count is exact.        *)
Counts ==
    /\ \A a \in Addrs : IsFiniteSet(Handles(held, a))
    /\ CountsExact

(* No two objects of the map are the same object.                          *)
OneLevel == \A a, b \in map : heap[a] = heap[b] => a = b

(* What can be used, and what a thread drops without having seen that the  *)
(* map has it no more, is in the map.                                      *)
InMap ==
    /\ Usable \subseteq map
    /\ \A t \in Threads :
          pc[t] \in {"drop", "drop_slow", "recheck", "remove"} => arg[t] \in map

(* Until it removes an object, its dropper and the map are its two owners. *)
LastTwo == \A t \in Threads : pc[t] = "remove" => strong[arg[t]] = 2

(* Objects are built from below: of any of them, one has its child outside.*)
Acyclic ==
    \A S \in SUBSET Allocated : S # {} => \E a \in S : heap[a].child \notin S

IInv == Types /\ Locks /\ Counts /\ OneLevel /\ InMap /\ LastTwo /\ Acyclic

-----------------------------------------------------------------------------
(* What the counts say                                                     *)

LEMMA OwnersFinite ==
  ASSUME Types, Counts, NEW a \in Addrs
  PROVE  /\ IsFiniteSet(Handles(held, a)) /\ Cardinality(Handles(held, a)) \in Nat
         /\ IsFiniteSet(Droppers(a)) /\ Cardinality(Droppers(a)) \in Nat
         /\ IsFiniteSet(Creators(a)) /\ Cardinality(Creators(a)) \in Nat
         /\ IsFiniteSet(Parents(a)) /\ Cardinality(Parents(a)) \in Nat
<1>1. IsFiniteSet(Handles(held, a))
  BY DEF Counts
<1>2. IsFiniteSet(Threads) /\ IsFiniteSet(Addrs)
  BY InternerAssumption
<1>3. Droppers(a) \subseteq Threads /\ Creators(a) \subseteq Threads
      /\ Parents(a) \subseteq Addrs
  BY DEF Droppers, Creators, Parents, Allocated
<1>4. IsFiniteSet(Droppers(a)) /\ IsFiniteSet(Creators(a)) /\ IsFiniteSet(Parents(a))
  BY <1>2, <1>3, FS_Subset
<1> QED
  BY <1>1, <1>4, FS_CardinalityType

LEMMA Positive ==
  ASSUME NEW S, IsFiniteSet(S)
  PROVE  /\ Cardinality(S) \in Nat
         /\ Cardinality(S) > 0 <=> S # {}
         /\ \A x \in S : Cardinality(S) >= 1
         /\ \A x, y \in S : x # y => Cardinality(S) >= 2
<1>1. Cardinality(S) \in Nat /\ (Cardinality(S) = 0 <=> S = {})
  BY FS_CardinalityType, FS_EmptySet
<1>2. ASSUME NEW x \in S, NEW y \in S, x # y
      PROVE  Cardinality(S) >= 2
  <2>1. IsFiniteSet(S \ {x}) /\ Cardinality(S \ {x}) = Cardinality(S) - 1
    BY <1>2, FS_RemoveElement
  <2>2. S \ {x} # {}
    BY <1>2
  <2>3. Cardinality(S \ {x}) \in Nat /\ Cardinality(S \ {x}) # 0
    BY <2>1, <2>2, FS_CardinalityType, FS_EmptySet
  <2> QED
    BY <1>1, <2>1, <2>3
<1> QED
  BY <1>1, <1>2

(* An address can be used if it has an owner beside the map and those that *)
(* drop it.                                                                *)
Rest(a) == Cardinality(Handles(held, a)) + Cardinality(Creators(a)) + Cardinality(Parents(a))

LEMMA Owners ==
  ASSUME Types, Counts, NEW a \in Addrs
  PROVE  /\ Rest(a) \in Nat /\ Cardinality(Droppers(a)) \in Nat
         /\ strong[a] = (IF a \in map THEN 1 ELSE 0) + Rest(a) + Cardinality(Droppers(a))
         /\ Rest(a) > 0 <=> a \in Usable
         /\ \A t \in Threads :
               Dropping(t) /\ arg[t] = a => Cardinality(Droppers(a)) >= 1
         /\ \A t, u \in Threads :
               t # u /\ Dropping(t) /\ arg[t] = a /\ Dropping(u) /\ arg[u] = a
                  => Cardinality(Droppers(a)) >= 2
<1>1. /\ IsFiniteSet(Handles(held, a)) /\ IsFiniteSet(Droppers(a))
      /\ IsFiniteSet(Creators(a)) /\ IsFiniteSet(Parents(a))
  BY OwnersFinite
<1>2. /\ Cardinality(Handles(held, a)) \in Nat
      /\ Cardinality(Handles(held, a)) > 0 <=> Handles(held, a) # {}
      /\ Cardinality(Creators(a)) \in Nat
      /\ Cardinality(Creators(a)) > 0 <=> Creators(a) # {}
      /\ Cardinality(Parents(a)) \in Nat
      /\ Cardinality(Parents(a)) > 0 <=> Parents(a) # {}
  BY <1>1, Positive
<1>3. /\ Cardinality(Droppers(a)) \in Nat
      /\ \A t \in Droppers(a) : Cardinality(Droppers(a)) >= 1
      /\ \A t, u \in Droppers(a) : t # u => Cardinality(Droppers(a)) >= 2
  BY <1>1, Positive
<1>4. Handles(held, a) # {} <=> \E t \in Threads : held[t][a] > 0
  <2>1. ASSUME NEW t \in Threads, held[t][a] > 0
        PROVE  <<t, 1>> \in Handles(held, a)
    BY <2>1 DEF Handles, Types
  <2>2. ASSUME NEW e \in Handles(held, a)
        PROVE  \E t \in Threads : held[t][a] > 0
    BY <2>2 DEF Handles, Types
  <2> QED
    BY <2>1, <2>2
<1>5. a \in Usable <=> Handles(held, a) # {} \/ Creators(a) # {} \/ Parents(a) # {}
  BY <1>4 DEF Usable, Creators, Parents
<1>6. strong[a] = (IF a \in map THEN 1 ELSE 0)
                  + Cardinality(Handles(held, a)) + Cardinality(Droppers(a))
                  + Cardinality(Creators(a)) + Cardinality(Parents(a))
  BY DEF Counts, CountsExact
<1>7. \A t \in Threads : Dropping(t) /\ arg[t] = a => t \in Droppers(a)
  BY DEF Droppers
<1> QED
  BY <1>2, <1>3, <1>5, <1>6, <1>7 DEF Rest

(* What the proofs of the actions take from it.                            *)
LEMMA Counted ==
  ASSUME Types, Counts, NEW a \in Addrs
  PROVE  /\ strong[a] \in Nat
         /\ a \in map => strong[a] >= 1
         /\ a \in Usable => strong[a] >= 1
         /\ a \in Usable /\ a \in map => strong[a] >= 2
         /\ \A t \in Threads : Dropping(t) /\ arg[t] = a =>
               /\ strong[a] >= 1
               /\ a \in map => strong[a] >= 2
               /\ a \in map /\ a \in Usable => strong[a] >= 3
         /\ \A t, u \in Threads :
               t # u /\ Dropping(t) /\ arg[t] = a /\ Dropping(u) /\ arg[u] = a =>
               /\ strong[a] >= 2
               /\ a \in map => strong[a] >= 3
<1> DEFINE d == Cardinality(Droppers(a))
<1>1. /\ Rest(a) \in Nat /\ d \in Nat
      /\ strong[a] = (IF a \in map THEN 1 ELSE 0) + Rest(a) + d
      /\ Rest(a) > 0 <=> a \in Usable
  BY Owners
<1>2. \A t \in Threads : Dropping(t) /\ arg[t] = a => d >= 1
  BY Owners
<1>3. \A t, u \in Threads :
         t # u /\ Dropping(t) /\ arg[t] = a /\ Dropping(u) /\ arg[u] = a => d >= 2
  BY Owners
<1> HIDE DEF d
<1> QED
  BY <1>1, <1>2, <1>3

-----------------------------------------------------------------------------
(* What a step of a thread leaves alone                                    *)

OthersStay(t) == \A u \in Threads : u # t => pc'[u] = pc[u] /\ arg'[u] = arg[u]

LEMMA BeginsOrIdles ==
  ASSUME Types, NEW t \in Threads, NEW what, NEW x,
         Begin(t, what, x) \/ (Idle(t) /\ what = "idle" /\ x = Nil)
  PROVE  /\ OthersStay(t)
         /\ pc'[t] = what /\ arg'[t] = x
         /\ DOMAIN arg' = Threads /\ arg' = [u \in Threads |-> arg'[u]]
         /\ what \in PC => pc' \in [Threads -> PC]
BY SMTT(30) DEF Types, Begin, Idle, OthersStay

LEMMA TypesStep ==
  ASSUME Types, NEW t \in Threads, OthersStay(t),
         pc' \in [Threads -> PC], arg' = [u \in Threads |-> arg'[u]],
         heap' \in [Addrs -> Object], strong' \in [Addrs -> Nat], map' \subseteq Addrs,
         lock' \in [Shards -> Threads \union {NoThread}],
         held' \in [Threads -> [Addrs -> Nat]],
         Creating(t)' => arg'[t] \in Object,
         Dropping(t)' => arg'[t] \in Addrs,
         pc'[t] = "idle" => arg'[t] = Nil
  PROVE  Types'
<1>1. \A u \in Threads : /\ Creating(u)' => arg'[u] \in Object
                         /\ Dropping(u)' => arg'[u] \in Addrs
                         /\ pc'[u] = "idle" => arg'[u] = Nil
  BY DEF Types, OthersStay, Creating, Dropping
<1> QED
  BY <1>1 DEF Types

LEMMA ShardUsedType ==
  ASSUME Types, NEW t \in Threads
  PROVE  Holds(t) => ShardUsed(t) \in Shards
BY InternerAssumption DEF Types, Holds, ShardUsed, Shard, Creating, Dropping, Object, PC

LEMMA LocksStep ==
  ASSUME Types, Locks, NEW t \in Threads, OthersStay(t),
         \A u \in Threads : u # t /\ Holds(u) => ShardUsed(u)' = ShardUsed(u),
         \/ /\ UNCHANGED lock
            /\ Holds(t)' <=> Holds(t)
            /\ Holds(t) => ShardUsed(t)' = ShardUsed(t)
         \/ ~Holds(t) /\ Holds(t)' /\ Acquire(t, ShardUsed(t)')
         \/ Holds(t) /\ ~Holds(t)' /\ Release(ShardUsed(t))
  PROVE  Locks'
<1>1. \A u \in Threads : u # t => (Holds(u)' <=> Holds(u))
  BY DEF OthersStay, Holds
<1>2. t # NoThread
  BY InternerAssumption
<1> SUFFICES ASSUME NEW s \in Shards, NEW u \in Threads
             PROVE  lock'[s] = u <=> Holds(u)' /\ ShardUsed(u)' = s
  BY DEF Locks
<1>3. lock[s] = u <=> Holds(u) /\ ShardUsed(u) = s
  BY DEF Locks
<1>4. lock[s] = t <=> Holds(t) /\ ShardUsed(t) = s
  BY DEF Locks
<1>5. lock \in [Shards -> Threads \union {NoThread}]
  BY DEF Types
<1>6. u # NoThread
  BY InternerAssumption
<1>7. CASE UNCHANGED lock /\ (Holds(t)' <=> Holds(t))
           /\ (Holds(t) => ShardUsed(t)' = ShardUsed(t))
  BY <1>1, <1>3, <1>7
<1>8. CASE ~Holds(t) /\ Holds(t)' /\ Acquire(t, ShardUsed(t)')
  BY <1>1, <1>2, <1>3, <1>4, <1>5, <1>6, <1>8 DEF Acquire
<1>9. CASE Holds(t) /\ ~Holds(t)' /\ Release(ShardUsed(t))
  BY <1>1, <1>2, <1>3, <1>4, <1>5, <1>6, <1>9 DEF Release
<1> QED
  BY <1>7, <1>8, <1>9

(* The owners by what a thread does change by that thread alone.           *)
LEMMA ThreadCount ==
  ASSUME Types, Counts, NEW t \in Threads, OthersStay(t), NEW x \in Addrs
  PROVE  /\ Cardinality(Droppers(x)) \in Nat /\ Cardinality(Creators(x)) \in Nat
         /\ Cardinality(Droppers(x)') = Cardinality(Droppers(x))
               + (IF Dropping(t)' /\ arg'[t] = x THEN 1 ELSE 0)
               - (IF Dropping(t) /\ arg[t] = x THEN 1 ELSE 0)
         /\ Cardinality(Creators(x)') = Cardinality(Creators(x))
               + (IF Creating(t)' /\ arg'[t].child = x THEN 1 ELSE 0)
               - (IF Creating(t) /\ arg[t].child = x THEN 1 ELSE 0)
<1>1. IsFiniteSet(Droppers(x)) /\ IsFiniteSet(Creators(x))
  BY OwnersFinite
<1>2. Droppers(x) \ {t} = Droppers(x)' \ {t} /\ Creators(x) \ {t} = Creators(x)' \ {t}
  BY DEF Droppers, Creators, OthersStay, Creating, Dropping
<1>3. /\ t \in Droppers(x) <=> Dropping(t) /\ arg[t] = x
      /\ t \in Droppers(x)' <=> Dropping(t)' /\ arg'[t] = x
      /\ t \in Creators(x) <=> Creating(t) /\ arg[t].child = x
      /\ t \in Creators(x)' <=> Creating(t)' /\ arg'[t].child = x
  BY DEF Droppers, Creators
<1>4. /\ Cardinality(Droppers(x)) \in Nat
      /\ Cardinality(Droppers(x)') = Cardinality(Droppers(x))
               + (IF t \in Droppers(x)' THEN 1 ELSE 0) - (IF t \in Droppers(x) THEN 1 ELSE 0)
  BY <1>1, <1>2, Toggle
<1>5. /\ Cardinality(Creators(x)) \in Nat
      /\ Cardinality(Creators(x)') = Cardinality(Creators(x))
               + (IF t \in Creators(x)' THEN 1 ELSE 0) - (IF t \in Creators(x) THEN 1 ELSE 0)
  BY <1>1, <1>2, Toggle
<1> QED
  BY <1>3, <1>4, <1>5

(* The objects of the heap change at most at one address.                  *)
LEMMA ParentCount ==
  ASSUME Types, Counts, NEW a \in Addrs, NEW x \in Addrs,
         \A p \in Addrs : p # a => heap'[p] = heap[p] /\ (p \in Allocated' <=> p \in Allocated)
  PROVE  /\ Cardinality(Parents(x)) \in Nat
         /\ Cardinality(Parents(x)') = Cardinality(Parents(x))
               + (IF a \in Allocated' /\ heap'[a].child = x THEN 1 ELSE 0)
               - (IF a \in Allocated /\ heap[a].child = x THEN 1 ELSE 0)
<1>1. IsFiniteSet(Parents(x))
  BY OwnersFinite
<1>2. Allocated \subseteq Addrs /\ Allocated' \subseteq Addrs
  BY DEF Allocated
<1>3. Parents(x) \ {a} = Parents(x)' \ {a}
  BY <1>2 DEF Parents
<1>4. /\ a \in Parents(x) <=> a \in Allocated /\ heap[a].child = x
      /\ a \in Parents(x)' <=> a \in Allocated' /\ heap'[a].child = x
  BY DEF Parents
<1>5. /\ Cardinality(Parents(x)) \in Nat
      /\ Cardinality(Parents(x)') = Cardinality(Parents(x))
               + (IF a \in Parents(x)' THEN 1 ELSE 0) - (IF a \in Parents(x) THEN 1 ELSE 0)
  BY <1>1, <1>3, Toggle
<1> QED
  BY <1>4, <1>5

-----------------------------------------------------------------------------
(* Steps of one thread that leave the heap, the counts and the map alone   *)

Quiet == UNCHANGED <<heap, strong, map>>

LEMMA QuietCounts ==
  ASSUME Types, Counts, Quiet, NEW t \in Threads, OthersStay(t),
         \A x \in Addrs :
            /\ IsFiniteSet(Handles(held', x))
            /\ Cardinality(Handles(held', x))
                  + (IF Dropping(t)' /\ arg'[t] = x THEN 1 ELSE 0)
                  + (IF Creating(t)' /\ arg'[t].child = x THEN 1 ELSE 0)
               = Cardinality(Handles(held, x))
                  + (IF Dropping(t) /\ arg[t] = x THEN 1 ELSE 0)
                  + (IF Creating(t) /\ arg[t].child = x THEN 1 ELSE 0)
  PROVE  Counts'
<1> SUFFICES ASSUME NEW x \in Addrs
             PROVE  /\ IsFiniteSet(Handles(held', x))
                    /\ strong'[x] = (IF x \in map' THEN 1 ELSE 0)
                          + Cardinality(Handles(held', x)) + Cardinality(Droppers(x)')
                          + Cardinality(Creators(x)') + Cardinality(Parents(x)')
  BY DEF Counts, CountsExact
<1>1. /\ IsFiniteSet(Handles(held', x))
      /\ Cardinality(Handles(held', x)) \in Nat
      /\ Cardinality(Handles(held, x)) \in Nat
  BY OwnersFinite, FS_CardinalityType
<1>2. Parents(x)' = Parents(x) /\ Cardinality(Parents(x)) \in Nat
  BY OwnersFinite DEF Parents, Allocated, Quiet
<1>3. /\ Cardinality(Droppers(x)) \in Nat /\ Cardinality(Creators(x)) \in Nat
      /\ Cardinality(Droppers(x)') = Cardinality(Droppers(x))
               + (IF Dropping(t)' /\ arg'[t] = x THEN 1 ELSE 0)
               - (IF Dropping(t) /\ arg[t] = x THEN 1 ELSE 0)
      /\ Cardinality(Creators(x)') = Cardinality(Creators(x))
               + (IF Creating(t)' /\ arg'[t].child = x THEN 1 ELSE 0)
               - (IF Creating(t) /\ arg[t].child = x THEN 1 ELSE 0)
  BY ThreadCount
<1>4. strong[x] = (IF x \in map THEN 1 ELSE 0)
          + Cardinality(Handles(held, x)) + Cardinality(Droppers(x))
          + Cardinality(Creators(x)) + Cardinality(Parents(x))
  BY DEF Counts, CountsExact
<1>5. strong'[x] = strong[x] /\ map' = map
  BY DEF Quiet
<1> QED
  BY <1>1, <1>2, <1>3, <1>4, <1>5

LEMMA QuietRest ==
  ASSUME OneLevel, Acyclic, Quiet
  PROVE  OneLevel' /\ Acyclic'
<1>1. Allocated' = Allocated
  BY DEF Quiet, Allocated
<1> QED
  BY <1>1 DEF Quiet, OneLevel, Acyclic

(* A step whose thread gains nothing: what it newly works on was its own.  *)
LEMMA QuietInMap ==
  ASSUME Types, InMap, LastTwo, Quiet, NEW t \in Threads, OthersStay(t),
         \A u \in Threads, x \in Addrs : held'[u][x] > 0 => held[u][x] > 0,
         Creating(t)' => arg'[t].child = Nil \/ arg'[t].child \in Usable,
         pc'[t] \in {"drop", "drop_slow", "recheck", "remove"} => arg'[t] \in map,
         pc'[t] = "remove" => strong[arg'[t]] = 2
  PROVE  InMap' /\ LastTwo'
<1>1. Usable' \subseteq Usable
  <2> SUFFICES ASSUME NEW a \in Addrs, a \in Usable'
               PROVE  a \in Usable
    BY DEF Usable
  <2>1. CASE \E u \in Threads : held'[u][a] > 0
    BY <2>1 DEF Usable
  <2>2. CASE \E u \in Threads : Creating(u)' /\ arg'[u].child = a
    <3>1. PICK u \in Threads : Creating(u)' /\ arg'[u].child = a
      BY <2>2
    <3>2. CASE u = t
      BY <3>1, <3>2, InternerAssumption
    <3>3. CASE u # t
      BY <3>1, <3>3 DEF OthersStay, Creating, Usable
    <3> QED
      BY <3>2, <3>3
  <2>3. CASE \E p \in Allocated' : heap'[p].child = a
    BY <2>3 DEF Usable, Quiet, Allocated
  <2> QED
    BY <2>1, <2>2, <2>3 DEF Usable
<1> QED
  BY <1>1 DEF InMap, LastTwo, Quiet, OthersStay

LEMMA StartNewStep ==
  ASSUME IInv, NEW t \in Threads, StartNew(t)
  PROVE  IInv'
<1> USE DEF IInv
<1>1. PICK obj \in Object :
         /\ obj.child # Nil => held[t][obj.child] > 0
         /\ held' = IF obj.child = Nil THEN held ELSE Lose(held, t, obj.child)
         /\ Begin(t, "lookup", obj)
  BY DEF StartNew
<1>2. /\ pc[t] = "idle" /\ Quiet /\ UNCHANGED lock
      /\ held \in [Threads -> [Addrs -> Nat]]
  BY DEF StartNew, Quiet, Types
<1>3. /\ OthersStay(t) /\ pc'[t] = "lookup" /\ arg'[t] = obj
      /\ arg' = [u \in Threads |-> arg'[u]] /\ pc' \in [Threads -> PC]
  BY <1>1, BeginsOrIdles DEF PC
<1>4. ~Creating(t) /\ ~Dropping(t) /\ Creating(t)' /\ ~Dropping(t)' /\ ~Holds(t) /\ ~Holds(t)'
  BY <1>2, <1>3 DEF Creating, Dropping, Holds
<1>5. obj.child # Nil => obj.child \in Addrs
  BY DEF Object
<1>6. \A x \in Addrs :
         /\ IsFiniteSet(Handles(held', x))
         /\ Cardinality(Handles(held, x)) \in Nat
         /\ Cardinality(Handles(held', x)) = Cardinality(Handles(held, x))
               - (IF obj.child = x THEN 1 ELSE 0)
  <2>1. CASE obj.child = Nil
    BY <1>1, <2>1, OwnersFinite, InternerAssumption
  <2>2. CASE obj.child # Nil
    BY <1>1, <1>2, <1>5, <2>2, OwnersFinite, HandlesLose
  <2> QED
    BY <2>1, <2>2
<1>7. /\ held' \in [Threads -> [Addrs -> Nat]]
      /\ \A u \in Threads, x \in Addrs : held'[u][x] > 0 => held[u][x] > 0
  <2>1. CASE obj.child = Nil
    BY <1>1, <1>2, <2>1
  <2>2. CASE obj.child # Nil
    BY <1>1, <1>2, <1>5, <2>2 DEF Lose
  <2> QED
    BY <2>1, <2>2
<1>8. Types'
  BY <1>2, <1>3, <1>4, <1>7, TypesStep DEF Types, Quiet
<1>9. Locks'
  BY <1>2, <1>3, <1>4, LocksStep DEF ShardUsed, OthersStay, Quiet, Creating
<1>10. Counts'
  BY <1>2, <1>3, <1>4, <1>6, QuietCounts
<1>11. InMap' /\ LastTwo'
  BY <1>1, <1>2, <1>3, <1>5, <1>7, QuietInMap DEF Usable
<1> QED
  BY <1>2, <1>8, <1>9, <1>10, <1>11, QuietRest

LEMMA StartDropStep ==
  ASSUME IInv, NEW t \in Threads, NEW a \in Addrs, StartDrop(t, a)
  PROVE  IInv'
<1> USE DEF IInv
<1>1. /\ pc[t] = "idle" /\ held[t][a] > 0 /\ held' = Lose(held, t, a)
      /\ Begin(t, "drop", a) /\ Quiet /\ UNCHANGED lock
      /\ held \in [Threads -> [Addrs -> Nat]]
  BY DEF StartDrop, Quiet, Types
<1>2. /\ OthersStay(t) /\ pc'[t] = "drop" /\ arg'[t] = a
      /\ arg' = [u \in Threads |-> arg'[u]] /\ pc' \in [Threads -> PC]
  BY <1>1, BeginsOrIdles DEF PC
<1>3. ~Creating(t) /\ ~Dropping(t) /\ ~Creating(t)' /\ Dropping(t)' /\ ~Holds(t) /\ ~Holds(t)'
  BY <1>1, <1>2 DEF Creating, Dropping, Holds
<1>4. \A x \in Addrs :
         /\ IsFiniteSet(Handles(held', x))
         /\ Cardinality(Handles(held, x)) \in Nat
         /\ Cardinality(Handles(held', x)) = Cardinality(Handles(held, x))
               - (IF x = a THEN 1 ELSE 0)
  BY <1>1, OwnersFinite, HandlesLose
<1>5. /\ held' \in [Threads -> [Addrs -> Nat]]
      /\ \A u \in Threads, x \in Addrs : held'[u][x] > 0 => held[u][x] > 0
  BY <1>1 DEF Lose
<1>6. Types'
  BY <1>1, <1>2, <1>3, <1>5, TypesStep DEF Types, Quiet
<1>7. Locks'
  BY <1>1, <1>2, <1>3, LocksStep DEF ShardUsed, OthersStay, Quiet, Creating
<1>8. Counts'
  BY <1>1, <1>2, <1>3, <1>4, QuietCounts
<1>9. a \in map
  BY <1>1 DEF InMap, Usable
<1>10. InMap' /\ LastTwo'
  BY <1>1, <1>2, <1>3, <1>5, <1>9, QuietInMap
<1> QED
  BY <1>1, <1>6, <1>7, <1>8, <1>10, QuietRest

(* A thread goes on with what it works on.                                 *)
LEMMA GoesOn ==
  ASSUME IInv, NEW t \in Threads, NEW what \in PC, Quiet, UNCHANGED held,
         Begin(t, what, arg[t]),
         \/ pc[t] = "lookup" /\ what = "found?"
         \/ /\ pc[t] \in {"drop", "drop_slow", "recheck"}
            /\ what \in {"drop_slow", "recheck", "remove", "decrement"},
         what = "remove" => strong[arg[t]] = 2,
         lock' \in [Shards -> Threads \union {NoThread}],
         \/ UNCHANGED lock /\ (what \in {"found?", "recheck", "remove"} <=> Holds(t))
         \/ /\ ~Holds(t) /\ what \in {"found?", "recheck", "remove"}
            /\ Acquire(t, ShardUsed(t))
         \/ /\ Holds(t) /\ what \notin {"found?", "recheck", "remove"}
            /\ Release(ShardUsed(t))
  PROVE  IInv'
<1> USE DEF IInv
<1>1. /\ OthersStay(t) /\ pc'[t] = what /\ arg'[t] = arg[t]
      /\ arg' = [u \in Threads |-> arg'[u]] /\ pc' \in [Threads -> PC]
  BY BeginsOrIdles
<1>2. (Creating(t)' <=> Creating(t)) /\ (Dropping(t)' <=> Dropping(t))
      /\ pc[t] # "idle" /\ pc'[t] # "idle"
  BY <1>1 DEF Creating, Dropping
<1>3. Types'
  BY <1>1, <1>2, TypesStep DEF Types, Quiet
<1>4. \A u \in Threads : Holds(u) => ShardUsed(u)' = ShardUsed(u)
  BY <1>1, <1>2 DEF ShardUsed, OthersStay, Quiet, Creating
<1>5. ShardUsed(t)' = ShardUsed(t)
  BY <1>1, <1>2 DEF ShardUsed, Quiet, Creating
<1>6. Holds(t)' <=> what \in {"found?", "recheck", "remove"}
  BY <1>1 DEF Holds
<1>7. Locks'
  BY <1>1, <1>4, <1>5, <1>6, LocksStep
<1>8. Counts'
  <2>1. \A x \in Addrs : IsFiniteSet(Handles(held, x)) /\ held' = held
    BY OwnersFinite
  <2> QED
    BY <1>1, <1>2, <2>1, QuietCounts
<1>9. pc'[t] \in {"drop", "drop_slow", "recheck", "remove"} => arg'[t] \in map
  BY <1>1 DEF InMap
<1>10. Creating(t)' => arg'[t].child = Nil \/ arg'[t].child \in Usable
  BY <1>1, <1>2 DEF Usable, Types, Object
<1>11. InMap' /\ LastTwo'
  BY <1>1, <1>9, <1>10, QuietInMap
<1> QED
  BY <1>3, <1>7, <1>8, <1>11, QuietRest

(* The object a thread drops under the lock is the one the map finds.      *)
LEMMA FindsItself ==
  ASSUME IInv, NEW t \in Threads, pc[t] \in {"recheck", "remove"}
  PROVE  Matches(heap[arg[t]]) = {arg[t]} /\ arg[t] \in map /\ arg[t] \in Addrs
BY DEF IInv, InMap, OneLevel, Matches, Types

LEMMA WorkingShard ==
  ASSUME Types, NEW t \in Threads
  PROVE  /\ Creating(t) => ShardUsed(t) = Shard(arg[t])
         /\ Dropping(t) => ShardUsed(t) = Shard(heap[arg[t]])
BY DEF ShardUsed, Creating, Dropping

LEMMA QuietSteps ==
  ASSUME IInv, NEW t \in Threads,
         \/ LookupLock(t) \/ Drop(t) \/ DropSlowLock(t)
         \/ DropSlowReturn(t) \/ DropSlowRecheck(t)
  PROVE  IInv'
<1>1. Types /\ lock \in [Shards -> Threads \union {NoThread}] /\ pc[t] \in PC
  BY DEF IInv, Types
<1>2. CASE LookupLock(t)
  <2>1. ~Holds(t) /\ Acquire(t, ShardUsed(t)) /\ pc[t] = "lookup"
    BY <1>1, <1>2, WorkingShard DEF LookupLock, Holds, Creating
  <2>2. lock' \in [Shards -> Threads \union {NoThread}] /\ "found?" \in PC
    BY <1>1, <2>1 DEF Acquire, PC
  <2>3. Quiet /\ UNCHANGED held /\ Begin(t, "found?", arg[t])
    BY <1>2 DEF LookupLock, Quiet
  <2> QED
    BY <2>1, <2>2, <2>3, GoesOn
<1>3. CASE Drop(t)
  <2> DEFINE what == IF strong[arg[t]] = 2 THEN "drop_slow" ELSE "decrement"
  <2>1. /\ ~Holds(t) /\ pc[t] = "drop" /\ UNCHANGED lock /\ Quiet /\ UNCHANGED held
        /\ Begin(t, what, arg[t])
    BY <1>3 DEF Drop, Holds, Quiet
  <2>2. what \in {"drop_slow", "decrement"} /\ what \in PC
    BY DEF PC
  <2> HIDE DEF what
  <2> QED
    BY <1>1, <2>1, <2>2, GoesOn
<1>4. CASE DropSlowLock(t)
  <2>1. ~Holds(t) /\ Acquire(t, ShardUsed(t)) /\ pc[t] = "drop_slow"
    BY <1>1, <1>4, WorkingShard DEF DropSlowLock, Holds, Dropping
  <2>2. lock' \in [Shards -> Threads \union {NoThread}] /\ "recheck" \in PC
    BY <1>1, <2>1 DEF Acquire, PC
  <2>3. Quiet /\ UNCHANGED held /\ Begin(t, "recheck", arg[t])
    BY <1>4 DEF DropSlowLock, Quiet
  <2> QED
    BY <2>1, <2>2, <2>3, GoesOn
<1>5. CASE DropSlowReturn(t)
  <2>1. Holds(t) /\ Release(ShardUsed(t)) /\ pc[t] = "recheck"
    BY <1>1, <1>5, WorkingShard DEF DropSlowReturn, Holds, Dropping
  <2>2. lock' \in [Shards -> Threads \union {NoThread}] /\ "decrement" \in PC
    BY <1>1, <2>1 DEF Release, PC
  <2>3. Quiet /\ UNCHANGED held /\ Begin(t, "decrement", arg[t])
    BY <1>5 DEF DropSlowReturn, Quiet
  <2> QED
    BY <2>1, <2>2, <2>3, GoesOn
<1>6. CASE DropSlowRecheck(t)
  <2>1. Holds(t) /\ pc[t] = "recheck" /\ UNCHANGED lock /\ "remove" \in PC
    BY <1>6 DEF DropSlowRecheck, Holds, PC
  <2>2. strong[arg[t]] = 2
    BY <1>6, <2>1, FindsItself DEF DropSlowRecheck
  <2>3. Quiet /\ UNCHANGED held /\ Begin(t, "remove", arg[t])
    BY <1>6 DEF DropSlowRecheck, Quiet
  <2> QED
    BY <1>1, <2>1, <2>2, <2>3, GoesOn
<1> QED
  BY <1>2, <1>3, <1>4, <1>5, <1>6

-----------------------------------------------------------------------------
(* Steps that change a count                                               *)

LEMMA CountsStep ==
  ASSUME Types, Counts, NEW t \in Threads, OthersStay(t), NEW a \in Addrs,
         \A p \in Addrs : p # a => heap'[p] = heap[p] /\ (p \in Allocated' <=> p \in Allocated),
         \A x \in Addrs :
            /\ IsFiniteSet(Handles(held', x))
            /\ strong'[x]
                  + (IF x \in map THEN 1 ELSE 0)
                  + Cardinality(Handles(held, x))
                  + (IF Dropping(t) /\ arg[t] = x THEN 1 ELSE 0)
                  + (IF Creating(t) /\ arg[t].child = x THEN 1 ELSE 0)
                  + (IF a \in Allocated /\ heap[a].child = x THEN 1 ELSE 0)
               = strong[x]
                  + (IF x \in map' THEN 1 ELSE 0)
                  + Cardinality(Handles(held', x))
                  + (IF Dropping(t)' /\ arg'[t] = x THEN 1 ELSE 0)
                  + (IF Creating(t)' /\ arg'[t].child = x THEN 1 ELSE 0)
                  + (IF a \in Allocated' /\ heap'[a].child = x THEN 1 ELSE 0),
         strong' \in [Addrs -> Nat]
  PROVE  Counts'
<1> SUFFICES ASSUME NEW x \in Addrs
             PROVE  /\ IsFiniteSet(Handles(held', x))
                    /\ strong'[x] = (IF x \in map' THEN 1 ELSE 0)
                          + Cardinality(Handles(held', x)) + Cardinality(Droppers(x)')
                          + Cardinality(Creators(x)') + Cardinality(Parents(x)')
  BY DEF Counts, CountsExact
<1>1. /\ IsFiniteSet(Handles(held', x))
      /\ Cardinality(Handles(held', x)) \in Nat
      /\ Cardinality(Handles(held, x)) \in Nat
  BY OwnersFinite, FS_CardinalityType
<1>2. /\ Cardinality(Parents(x)) \in Nat
      /\ Cardinality(Parents(x)') = Cardinality(Parents(x))
               + (IF a \in Allocated' /\ heap'[a].child = x THEN 1 ELSE 0)
               - (IF a \in Allocated /\ heap[a].child = x THEN 1 ELSE 0)
  BY ParentCount
<1>3. /\ Cardinality(Droppers(x)) \in Nat /\ Cardinality(Creators(x)) \in Nat
      /\ Cardinality(Droppers(x)') = Cardinality(Droppers(x))
               + (IF Dropping(t)' /\ arg'[t] = x THEN 1 ELSE 0)
               - (IF Dropping(t) /\ arg[t] = x THEN 1 ELSE 0)
      /\ Cardinality(Creators(x)') = Cardinality(Creators(x))
               + (IF Creating(t)' /\ arg'[t].child = x THEN 1 ELSE 0)
               - (IF Creating(t) /\ arg[t].child = x THEN 1 ELSE 0)
  BY ThreadCount
<1>4. strong[x] = (IF x \in map THEN 1 ELSE 0)
          + Cardinality(Handles(held, x)) + Cardinality(Droppers(x))
          + Cardinality(Creators(x)) + Cardinality(Parents(x))
  BY DEF Counts, CountsExact
<1>5. strong[x] \in Nat /\ strong'[x] \in Nat
  BY DEF Types
<1> QED
  BY <1>1, <1>2, <1>3, <1>4, <1>5

(* The heap stays as long as no count comes to or from zero.               *)
LEMMA HeapStays ==
  ASSUME Types, Acyclic, UNCHANGED heap,
         \A x \in Addrs : strong'[x] > 0 <=> strong[x] > 0
  PROVE  Allocated' = Allocated /\ Acyclic'
<1>1. Allocated' = Allocated
  BY DEF Allocated
<1> QED
  BY <1>1 DEF Acyclic

LEMMA CloneStep ==
  ASSUME IInv, NEW t \in Threads, NEW a \in Addrs, Clone(t, a)
  PROVE  IInv'
<1> USE DEF IInv
<1>1. /\ pc[t] = "idle" /\ held[t][a] > 0
      /\ strong' = [strong EXCEPT ![a] = @ + 1]
      /\ held' = Gain(held, t, a)
      /\ UNCHANGED <<heap, map, lock, pc, arg>>
      /\ held \in [Threads -> [Addrs -> Nat]] /\ strong \in [Addrs -> Nat]
  BY DEF Clone, Types
<1>2. /\ strong' \in [Addrs -> Nat]
      /\ \A x \in Addrs : strong'[x] = strong[x] + (IF x = a THEN 1 ELSE 0)
  BY <1>1
<1>3. a \in Usable /\ a \in map
  BY <1>1 DEF Usable, InMap
<1>4. strong[a] >= 2
        /\ \A u \in Threads : Dropping(u) /\ arg[u] = a => strong[a] >= 3
  BY <1>3, Counted
<1>5. OthersStay(t)
  BY <1>1 DEF OthersStay
<1>6. \A x \in Addrs :
         /\ held' \in [Threads -> [Addrs -> Nat]]
         /\ IsFiniteSet(Handles(held', x))
         /\ Cardinality(Handles(held, x)) \in Nat
         /\ Cardinality(Handles(held', x)) = Cardinality(Handles(held, x))
               + (IF x = a THEN 1 ELSE 0)
  BY <1>1, OwnersFinite, HandlesGain
<1>7. Types'
  BY <1>1, <1>2, <1>6 DEF Types, Creating, Dropping
<1>8. Locks'
  BY <1>1 DEF Locks, Holds, ShardUsed, Creating
<1>9. Allocated' = Allocated /\ Acyclic'
  BY <1>1, <1>2, <1>4, HeapStays
<1>10. Counts'
  <2>1. /\ Dropping(t)' <=> Dropping(t)
        /\ Creating(t)' <=> Creating(t)
        /\ arg' = arg /\ map' = map /\ heap' = heap
    BY <1>1 DEF Dropping, Creating
  <2>2. \A x \in Addrs : strong[x] \in Nat
                         /\ strong'[x] + Cardinality(Handles(held, x))
                            = strong[x] + Cardinality(Handles(held', x))
    <3> SUFFICES ASSUME NEW x \in Addrs
                 PROVE  /\ strong[x] \in Nat
                        /\ strong'[x] + Cardinality(Handles(held, x))
                           = strong[x] + Cardinality(Handles(held', x))
      OBVIOUS
    <3>1. strong[x] \in Nat
      BY <1>1
    <3>2. strong'[x] = strong[x] + (IF x = a THEN 1 ELSE 0)
      BY <1>2
    <3>3. /\ Cardinality(Handles(held, x)) \in Nat
          /\ Cardinality(Handles(held', x)) = Cardinality(Handles(held, x))
               + (IF x = a THEN 1 ELSE 0)
      BY <1>6
    <3> QED
      BY ONLY <3>1, <3>2, <3>3
  <2>3. \A p \in Addrs : heap'[p] = heap[p] /\ (p \in Allocated' <=> p \in Allocated)
    BY <1>9, <2>1
  <2>4. \A x \in Addrs : IsFiniteSet(Handles(held', x))
                         /\ Cardinality(Handles(held', x)) \in Nat
                         /\ Cardinality(Handles(held, x)) \in Nat
    BY <1>6, FS_CardinalityType
  <2>5. strong' \in [Addrs -> Nat] /\ Types /\ Counts
    BY <1>2
  <2> HIDE DEF IInv
  <2> QED
    BY ONLY <1>5, <1>9, <2>1, <2>2, <2>3, <2>4, <2>5, CountsStep
<1>11. Usable' \subseteq Usable
  <2>1. \A u \in Threads, x \in Addrs : held'[u][x] > 0 => x = a \/ held[u][x] > 0
    BY <1>1 DEF Gain
  <2> QED
    BY <1>1, <1>3, <1>9, <2>1 DEF Usable, Creating
<1>12. InMap' /\ OneLevel'
  BY <1>1, <1>11 DEF InMap, OneLevel
<1>13. LastTwo'
  <2> SUFFICES ASSUME NEW u \in Threads, pc[u] = "remove"
               PROVE  strong'[arg[u]] = 2
    BY <1>1 DEF LastTwo
  <2>1. Dropping(u) /\ arg[u] \in Addrs
    BY DEF Dropping, Types
  <2> QED
    BY <1>2, <1>4, <2>1 DEF LastTwo
<1> QED
  BY <1>7, <1>8, <1>9, <1>10, <1>12, <1>13

LEMMA SendStep ==
  ASSUME IInv, NEW t \in Threads, NEW u \in Threads, NEW a \in Addrs, Send(t, u, a)
  PROVE  IInv'
<1> USE DEF IInv
<1> DEFINE less == Lose(held, t, a)
<1>1. /\ t # u /\ pc[t] = "idle" /\ held[t][a] > 0
      /\ held' = Gain(less, u, a)
      /\ Quiet /\ UNCHANGED <<lock, pc, arg>>
      /\ held \in [Threads -> [Addrs -> Nat]]
  BY DEF Send, Types, Quiet
<1>2. OthersStay(t)
  BY <1>1 DEF OthersStay
<1>3. \A x \in Addrs :
         /\ less \in [Threads -> [Addrs -> Nat]]
         /\ IsFiniteSet(Handles(less, x))
         /\ Cardinality(Handles(held, x)) \in Nat
         /\ Cardinality(Handles(less, x)) = Cardinality(Handles(held, x))
               - (IF x = a THEN 1 ELSE 0)
  BY <1>1, OwnersFinite, HandlesLose
<1>4. \A v \in Threads, x \in Addrs : held'[v][x] > 0 => x = a \/ held[v][x] > 0
  BY <1>1 DEF Lose, Gain
<1> HIDE DEF less
<1>5. \A x \in Addrs :
         /\ held' \in [Threads -> [Addrs -> Nat]]
         /\ IsFiniteSet(Handles(held', x))
         /\ Cardinality(Handles(less, x)) \in Nat
         /\ Cardinality(Handles(held', x)) = Cardinality(Handles(less, x))
               + (IF x = a THEN 1 ELSE 0)
  BY <1>1, <1>3, HandlesGain
<1>6. \A x \in Addrs :
         /\ held' \in [Threads -> [Addrs -> Nat]]
         /\ IsFiniteSet(Handles(held', x))
         /\ Cardinality(Handles(held', x)) = Cardinality(Handles(held, x))
  BY <1>3, <1>5
<1>7. Types'
  BY <1>1, <1>6 DEF Types, Creating, Dropping, Quiet
<1>8. Locks'
  BY <1>1 DEF Locks, Holds, ShardUsed, Creating, Quiet
<1>9. Counts'
  BY <1>1, <1>2, <1>6, QuietCounts DEF Dropping, Creating
<1>10. Usable' \subseteq Usable
  BY <1>1, <1>4 DEF Usable, Creating, Quiet, Allocated
<1>11. InMap' /\ LastTwo'
  BY <1>1, <1>10 DEF InMap, LastTwo, Quiet
<1> QED
  BY <1>1, <1>7, <1>8, <1>9, <1>11, QuietRest

LEMMA DropSlowRemoveStep ==
  ASSUME IInv, NEW t \in Threads, DropSlowRemove(t)
  PROVE  IInv'
<1> DEFINE a == arg[t]
<1> USE DEF IInv
<1>1. /\ pc[t] = "remove" /\ a \in map /\ a \in Addrs
      /\ Dropping(t) /\ ~Creating(t) /\ Holds(t)
      /\ strong \in [Addrs -> Nat] /\ strong[a] = 2
  BY FindsItself DEF DropSlowRemove, Dropping, Creating, Holds, LastTwo, Types
<1>2. /\ map' = map \ {a} /\ strong' = [strong EXCEPT ![a] = @ - 1]
      /\ Release(ShardUsed(t)) /\ Begin(t, "decrement", a) /\ UNCHANGED <<heap, held>>
  <2>1. PICK x \in Matches(heap[arg[t]]) :
           map' = map \ {x} /\ strong' = [strong EXCEPT ![x] = @ - 1]
    BY DEF DropSlowRemove
  <2>2. Matches(heap[arg[t]]) = {arg[t]}
    BY <1>1, FindsItself
  <2>3. ShardUsed(t) = Shard(heap[arg[t]])
    BY <1>1, WorkingShard
  <2> QED
    BY <2>1, <2>2, <2>3 DEF DropSlowRemove
<1>3. /\ OthersStay(t) /\ pc'[t] = "decrement" /\ arg'[t] = a
      /\ arg' = [u \in Threads |-> arg'[u]] /\ pc' \in [Threads -> PC]
  BY <1>2, BeginsOrIdles DEF PC
<1>4. Dropping(t)' /\ ~Creating(t)' /\ ~Holds(t)'
  BY <1>3 DEF Dropping, Creating, Holds
<1> HIDE DEF a
<1>5. /\ strong' \in [Addrs -> Nat]
      /\ \A x \in Addrs : strong'[x] = strong[x] - (IF x = a THEN 1 ELSE 0)
  BY <1>1, <1>2
<1>6. Types'
  <2>1. lock' \in [Shards -> Threads \union {NoThread}]
    BY <1>2 DEF Release, Types
  <2> QED
    BY <1>1, <1>2, <1>3, <1>4, <1>5, <2>1, TypesStep DEF Types
<1>7. Locks'
  BY <1>1, <1>2, <1>3, <1>4, LocksStep DEF ShardUsed, OthersStay, Creating
<1>8. Allocated' = Allocated /\ Acyclic'
  <2>1. \A x \in Addrs : strong'[x] > 0 <=> strong[x] > 0
    BY <1>1, <1>5
  <2> QED
    BY <1>2, <2>1, HeapStays
<1>9. Counts'
  <2>1. \A p \in Addrs : heap'[p] = heap[p] /\ (p \in Allocated' <=> p \in Allocated)
    BY <1>2, <1>8
  <2>2. \A x \in Addrs : /\ IsFiniteSet(Handles(held, x)) /\ held' = held
                         /\ Cardinality(Handles(held, x)) \in Nat
    BY <1>2, OwnersFinite
  <2>3. \A x \in Addrs : strong[x] \in Nat
                         /\ strong'[x] + (IF x \in map THEN 1 ELSE 0)
                            = strong[x] + (IF x \in map' THEN 1 ELSE 0)
    <3> SUFFICES ASSUME NEW x \in Addrs
                 PROVE  strong[x] \in Nat
                        /\ strong'[x] + (IF x \in map THEN 1 ELSE 0)
                           = strong[x] + (IF x \in map' THEN 1 ELSE 0)
      OBVIOUS
    <3> QED
      BY <1>1, <1>2, <1>5
  <2>4. heap' = heap /\ arg'[t] = arg[t]
    BY <1>2, <1>3 DEF a
  <2>5. Types /\ Counts
    OBVIOUS
  <2>6. \A x \in Addrs :
          strong'[x]
            + (IF x \in map THEN 1 ELSE 0)
            + Cardinality(Handles(held, x))
            + (IF Dropping(t) /\ arg[t] = x THEN 1 ELSE 0)
            + (IF Creating(t) /\ arg[t].child = x THEN 1 ELSE 0)
            + (IF a \in Allocated /\ heap[a].child = x THEN 1 ELSE 0)
          = strong[x]
            + (IF x \in map' THEN 1 ELSE 0)
            + Cardinality(Handles(held', x))
            + (IF Dropping(t)' /\ arg'[t] = x THEN 1 ELSE 0)
            + (IF Creating(t)' /\ arg'[t].child = x THEN 1 ELSE 0)
            + (IF a \in Allocated' /\ heap'[a].child = x THEN 1 ELSE 0)
    <3> SUFFICES ASSUME NEW x \in Addrs
                 PROVE  strong'[x] + (IF x \in map THEN 1 ELSE 0)
                           = strong[x] + (IF x \in map' THEN 1 ELSE 0)
      BY <1>1, <1>4, <1>5, <1>8, <2>2, <2>3, <2>4
    <3> QED
      BY <2>3
  <2>7. \A x \in Addrs : IsFiniteSet(Handles(held', x))
    BY <2>2
  <2>8. OthersStay(t) /\ a \in Addrs /\ strong' \in [Addrs -> Nat]
    BY <1>1, <1>3, <1>5
  <2> HIDE DEF IInv
  <2> QED
    BY ONLY <2>1, <2>5, <2>6, <2>7, <2>8, CountsStep
<1>10. /\ a \notin Usable
       /\ \A u \in Threads : u # t /\ Dropping(u) => arg[u] # a
  BY <1>1, Counted DEF a
<1>11. Usable' = Usable
  <2>1. \A u \in Threads : /\ Creating(u)' <=> Creating(u)
                           /\ Creating(u) => arg'[u] = arg[u]
    BY <1>1, <1>3, <1>4 DEF OthersStay, Creating
  <2> QED
    BY <1>2, <1>8, <2>1 DEF Usable
<1>12. InMap'
  <2>1. \A u \in Threads :
           pc'[u] \in {"drop", "drop_slow", "recheck", "remove"} => arg'[u] \in map'
    BY <1>2, <1>3, <1>10 DEF InMap, OthersStay, Dropping
  <2> QED
    BY <1>2, <1>10, <1>11, <2>1 DEF InMap
<1>13. LastTwo'
  <2> SUFFICES ASSUME NEW u \in Threads, pc'[u] = "remove"
               PROVE  strong'[arg'[u]] = 2
    BY DEF LastTwo
  <2>1. u # t /\ pc[u] = "remove" /\ arg'[u] = arg[u]
    BY <1>3 DEF OthersStay
  <2>2. Dropping(u) /\ arg[u] \in Addrs /\ arg[u] # a
    BY <1>10, <2>1 DEF Dropping, Types
  <2> QED
    BY <1>5, <2>1, <2>2 DEF LastTwo, Types
<1>14. OneLevel'
  BY <1>2 DEF OneLevel
<1> QED
  BY <1>6, <1>7, <1>8, <1>9, <1>12, <1>13, <1>14

LEMMA LookupHitStep ==
  ASSUME IInv, NEW t \in Threads, LookupHit(t)
  PROVE  IInv'
<1> DEFINE child == arg[t].child
<1> USE DEF IInv
<1>1. PICK a \in map :
         /\ heap[a] = arg[t]
         /\ strong' = [strong EXCEPT ![a] = @ + 1]
         /\ held' = Gain(held, t, a)
  BY DEF LookupHit, Matches
<1>2. /\ pc[t] = "found?" /\ a \in Addrs /\ UNCHANGED <<heap, map>>
      /\ Creating(t) /\ ~Dropping(t) /\ Holds(t)
      /\ arg[t] \in Object /\ held \in [Threads -> [Addrs -> Nat]]
      /\ strong \in [Addrs -> Nat]
  BY DEF LookupHit, Creating, Dropping, Holds, Types
<1>3. ShardUsed(t) = Shard(arg[t]) /\ Release(ShardUsed(t))
  BY <1>2, WorkingShard DEF LookupHit
<1>4. /\ child # Nil => child \in Addrs /\ child \in Usable /\ child \in map
      /\ child \in Addrs => child # Nil
  BY <1>2, InternerAssumption DEF Object, Usable, InMap
<1>5. /\ OthersStay(t) /\ arg' = [u \in Threads |-> arg'[u]] /\ pc' \in [Threads -> PC]
      /\ \/ child = Nil /\ pc'[t] = "idle" /\ arg'[t] = Nil
         \/ child # Nil /\ pc'[t] = "drop" /\ arg'[t] = child
  <2>1. CASE child = Nil
    <3>1. Idle(t) /\ "idle" \in PC
      BY <2>1 DEF LookupHit, PC
    <3>2. /\ OthersStay(t) /\ arg' = [u \in Threads |-> arg'[u]] /\ pc' \in [Threads -> PC]
          /\ pc'[t] = "idle" /\ arg'[t] = Nil
      BY <3>1, BeginsOrIdles
    <3> QED
      BY <2>1, <3>2
  <2>2. CASE child # Nil
    <3>1. Begin(t, "drop", child) /\ "drop" \in PC
      BY <2>2 DEF LookupHit, PC
    <3>2. /\ OthersStay(t) /\ arg' = [u \in Threads |-> arg'[u]] /\ pc' \in [Threads -> PC]
          /\ pc'[t] = "drop" /\ arg'[t] = child
      BY <3>1, BeginsOrIdles
    <3> QED
      BY <2>2, <3>2
  <2> QED
    BY <2>1, <2>2
<1>6. ~Creating(t)' /\ ~Holds(t)' /\ (Dropping(t)' <=> child # Nil)
  BY <1>5 DEF Creating, Holds, Dropping
<1> HIDE DEF child
<1>7. /\ strong' \in [Addrs -> Nat]
      /\ \A x \in Addrs : strong'[x] = strong[x] + (IF x = a THEN 1 ELSE 0)
  BY <1>1, <1>2
<1>8. \A x \in Addrs :
         /\ held' \in [Threads -> [Addrs -> Nat]]
         /\ IsFiniteSet(Handles(held', x))
         /\ Cardinality(Handles(held, x)) \in Nat
         /\ Cardinality(Handles(held', x)) = Cardinality(Handles(held, x))
               + (IF x = a THEN 1 ELSE 0)
  BY <1>1, <1>2, OwnersFinite, HandlesGain
<1>9. Types'
  <2>1. lock' \in [Shards -> Threads \union {NoThread}]
    BY <1>3 DEF Release, Types
  <2>2. held' \in [Threads -> [Addrs -> Nat]]
    BY <1>2, <1>8
  <2> QED
    BY <1>2, <1>4, <1>5, <1>6, <1>7, <2>1, <2>2, TypesStep DEF Types
<1>10. Locks'
  BY <1>2, <1>3, <1>5, <1>6, LocksStep DEF ShardUsed, OthersStay, Creating
<1>11. strong[a] >= 1
  BY <1>1, <1>2, Counted
<1>12. Allocated' = Allocated /\ Acyclic'
  <2>1. \A x \in Addrs : strong'[x] > 0 <=> strong[x] > 0
    BY <1>2, <1>7, <1>11
  <2> QED
    BY <1>2, <2>1, HeapStays
<1>13. Counts'
  <2>1. \A p \in Addrs : heap'[p] = heap[p] /\ (p \in Allocated' <=> p \in Allocated)
    BY <1>2, <1>12
  <2>2. \A x \in Addrs : /\ IsFiniteSet(Handles(held', x))
                         /\ Cardinality(Handles(held, x)) \in Nat
                         /\ Cardinality(Handles(held', x)) \in Nat
    BY <1>8, FS_CardinalityType
  <2>3. \A x \in Addrs : strong[x] \in Nat
                         /\ strong'[x] + Cardinality(Handles(held, x))
                            = strong[x] + Cardinality(Handles(held', x))
    <3> SUFFICES ASSUME NEW x \in Addrs
                 PROVE  strong[x] \in Nat
                        /\ strong'[x] + Cardinality(Handles(held, x))
                            = strong[x] + Cardinality(Handles(held', x))
      OBVIOUS
    <3>1. strong[x] \in Nat
      BY <1>2
    <3>2. strong'[x] = strong[x] + (IF x = a THEN 1 ELSE 0)
      BY <1>7
    <3>3. /\ Cardinality(Handles(held, x)) \in Nat
          /\ Cardinality(Handles(held', x)) = Cardinality(Handles(held, x))
               + (IF x = a THEN 1 ELSE 0)
      BY <1>8
    <3> QED
      BY ONLY <3>1, <3>2, <3>3
  <2>4. heap' = heap /\ map' = map
    BY <1>2
  <2>5. Types /\ Counts
    OBVIOUS
  <2>6. \A x \in Addrs : /\ Dropping(t)' /\ arg'[t] = x <=> arg[t].child = x
                         /\ ~(Dropping(t) /\ arg[t] = x)
    BY <1>2, <1>4, <1>5, <1>6 DEF child
  <2> HIDE DEF IInv
  <2> QED
    BY ONLY <1>2, <1>5, <1>6, <1>7, <1>12, <2>1, <2>2, <2>3, <2>4, <2>5, <2>6, CountsStep
<1>14. Usable' \subseteq Usable \union {a}
  <2>1. \A u \in Threads, x \in Addrs : held'[u][x] > 0 => x = a \/ held[u][x] > 0
    BY <1>1, <1>2 DEF Gain
  <2>2. \A u \in Threads : /\ Creating(u)' => Creating(u)
                           /\ Creating(u)' => arg'[u] = arg[u]
    BY <1>5, <1>6 DEF OthersStay, Creating
  <2> QED
    BY <1>2, <1>12, <2>1, <2>2 DEF Usable
<1>15. InMap'
  <2>1. \A u \in Threads :
           pc'[u] \in {"drop", "drop_slow", "recheck", "remove"} => arg'[u] \in map
    BY <1>4, <1>5 DEF InMap, OthersStay
  <2> QED
    BY <1>1, <1>2, <1>14, <2>1 DEF InMap
<1>16. LastTwo'
  <2> SUFFICES ASSUME NEW u \in Threads, pc'[u] = "remove"
               PROVE  strong'[arg'[u]] = 2
    BY DEF LastTwo
  <2>1. u # t /\ pc[u] = "remove" /\ arg'[u] = arg[u]
    BY <1>5 DEF OthersStay
  <2>2. Dropping(u) /\ Holds(u) /\ arg[u] \in Addrs
    BY <2>1 DEF Dropping, Holds, Types
  <2>3. arg[u] # a
    <3> SUFFICES ASSUME arg[u] = a PROVE FALSE
      OBVIOUS
    <3>1. ShardUsed(u) = ShardUsed(t) /\ ShardUsed(t) \in Shards
      BY <1>1, <1>2, <1>3, <2>2, WorkingShard, ShardUsedType
    <3>2. lock[ShardUsed(t)] = u /\ lock[ShardUsed(t)] = t
      BY <1>2, <2>2, <3>1 DEF Locks
    <3> QED
      BY <2>1, <3>2
  <2> QED
    BY <1>2, <1>7, <2>1, <2>2, <2>3 DEF LastTwo
<1>17. OneLevel'
  BY <1>2 DEF OneLevel
<1> QED
  BY <1>9, <1>10, <1>12, <1>13, <1>15, <1>16, <1>17

LEMMA AllocStep ==
  ASSUME IInv, NEW t \in Threads, Alloc(t)
  PROVE  IInv'
<1> DEFINE child == arg[t].child
<1> USE DEF IInv
<1>1. PICK a \in Addrs :
         /\ strong[a] = 0
         /\ heap' = [heap EXCEPT ![a] = arg[t]]
         /\ strong' = [strong EXCEPT ![a] = 2]
         /\ map' = map \union {a}
         /\ held' = Gain(held, t, a)
  BY DEF Alloc
<1>2. /\ pc[t] = "found?" /\ Matches(arg[t]) = {}
      /\ Creating(t) /\ ~Dropping(t) /\ Holds(t)
      /\ arg[t] \in Object /\ held \in [Threads -> [Addrs -> Nat]]
      /\ strong \in [Addrs -> Nat] /\ heap \in [Addrs -> Object] /\ map \subseteq Addrs
  BY DEF Alloc, Creating, Dropping, Holds, Types
<1>3. ShardUsed(t) = Shard(arg[t]) /\ Release(ShardUsed(t)) /\ Idle(t)
  BY <1>2, WorkingShard DEF Alloc
<1>4. /\ OthersStay(t) /\ arg' = [u \in Threads |-> arg'[u]] /\ pc' \in [Threads -> PC]
      /\ pc'[t] = "idle" /\ arg'[t] = Nil
  BY <1>3, BeginsOrIdles DEF PC
<1>5. ~Creating(t)' /\ ~Holds(t)' /\ ~Dropping(t)'
  BY <1>4 DEF Creating, Holds, Dropping
<1>6. /\ a \notin map /\ a \notin Usable
      /\ \A u \in Threads : Dropping(u) => arg[u] # a
  BY <1>1, Counted
<1>7. /\ child # Nil => child \in Addrs /\ child \in Usable /\ child # a
      /\ child \in Addrs => child # Nil
  BY <1>2, <1>6, InternerAssumption DEF Object, Usable
<1> HIDE DEF child
<1>8. /\ heap' \in [Addrs -> Object] /\ strong' \in [Addrs -> Nat] /\ map' \subseteq Addrs
      /\ heap'[a] = arg[t] /\ strong'[a] = 2
      /\ \A x \in Addrs : x # a => heap'[x] = heap[x] /\ strong'[x] = strong[x]
  BY <1>1, <1>2
<1>9. \A x \in Addrs :
         /\ held' \in [Threads -> [Addrs -> Nat]]
         /\ IsFiniteSet(Handles(held', x))
         /\ Cardinality(Handles(held, x)) \in Nat
         /\ Cardinality(Handles(held', x)) = Cardinality(Handles(held, x))
               + (IF x = a THEN 1 ELSE 0)
  BY <1>1, <1>2, OwnersFinite, HandlesGain
<1>10. Types'
  <2>1. lock' \in [Shards -> Threads \union {NoThread}]
    BY <1>3 DEF Release, Types
  <2>2. held' \in [Threads -> [Addrs -> Nat]]
    BY <1>1, <1>9
  <2> QED
    BY <1>4, <1>5, <1>8, <2>1, <2>2, TypesStep
<1>11. Locks'
  <2>1. ASSUME NEW u \in Threads, u # t, Holds(u)
        PROVE  ShardUsed(u)' = ShardUsed(u)
    <3>1. /\ pc'[u] = pc[u] /\ arg'[u] = arg[u]
          /\ Creating(u) \/ (Dropping(u) /\ arg[u] \in Addrs)
      BY <1>4, <2>1 DEF OthersStay, Holds, Creating, Dropping, Types
    <3> QED
      BY <1>6, <1>8, <3>1 DEF ShardUsed, Creating
  <2> QED
    BY <1>2, <1>3, <1>4, <1>5, <2>1, LocksStep
<1>12. Allocated' = Allocated \union {a} /\ a \notin Allocated /\ Allocated \subseteq Addrs
  BY <1>1, <1>8 DEF Allocated
<1>13. \A p \in Allocated : heap[p].child # a
  BY <1>1, <1>6 DEF Usable
<1>14. Counts'
  <2>1. \A p \in Addrs : p # a => heap'[p] = heap[p] /\ (p \in Allocated' <=> p \in Allocated)
    BY <1>8, <1>12
  <2>2. \A x \in Addrs : IsFiniteSet(Handles(held', x))
    BY <1>9
  <2>3. \A x \in Addrs :
          strong'[x]
            + (IF x \in map THEN 1 ELSE 0)
            + Cardinality(Handles(held, x))
            + (IF Dropping(t) /\ arg[t] = x THEN 1 ELSE 0)
            + (IF Creating(t) /\ arg[t].child = x THEN 1 ELSE 0)
            + (IF a \in Allocated /\ heap[a].child = x THEN 1 ELSE 0)
          = strong[x]
            + (IF x \in map' THEN 1 ELSE 0)
            + Cardinality(Handles(held', x))
            + (IF Dropping(t)' /\ arg'[t] = x THEN 1 ELSE 0)
            + (IF Creating(t)' /\ arg'[t].child = x THEN 1 ELSE 0)
            + (IF a \in Allocated' /\ heap'[a].child = x THEN 1 ELSE 0)
    <3> SUFFICES ASSUME NEW x \in Addrs
                 PROVE  strong'[x]
                           + (IF x \in map THEN 1 ELSE 0)
                           + Cardinality(Handles(held, x))
                           + 0
                           + (IF child = x THEN 1 ELSE 0)
                           + 0
                        = strong[x]
                           + (IF x \in map' THEN 1 ELSE 0)
                           + Cardinality(Handles(held', x))
                           + 0
                           + 0
                           + (IF child = x THEN 1 ELSE 0)
      BY <1>2, <1>5, <1>8, <1>12 DEF child
    <3>1. strong[x] \in Nat
      BY <1>2
    <3>2. strong'[x] = strong[x] + (IF x = a THEN 2 ELSE 0)
      BY <1>1, <1>8, <3>1
    <3>3. /\ Cardinality(Handles(held, x)) \in Nat
          /\ Cardinality(Handles(held', x)) = Cardinality(Handles(held, x))
               + (IF x = a THEN 1 ELSE 0)
      BY <1>9
    <3>4. (x \in map' <=> x \in map \/ x = a) /\ a \notin map
      BY <1>1, <1>6
    <3> QED
      BY ONLY <3>1, <3>2, <3>3, <3>4
  <2>4. Types /\ Counts
    OBVIOUS
  <2>5. OthersStay(t) /\ a \in Addrs /\ strong' \in [Addrs -> Nat]
    BY <1>1, <1>4, <1>8
  <2> HIDE DEF IInv
  <2> QED
    BY ONLY <2>1, <2>2, <2>3, <2>4, <2>5, CountsStep
<1>15. Usable' \subseteq Usable \union {a}
  <2>1. \A u \in Threads, x \in Addrs : held'[u][x] > 0 => x = a \/ held[u][x] > 0
    BY <1>1, <1>2 DEF Gain
  <2>2. \A u \in Threads : /\ Creating(u)' => Creating(u)
                           /\ Creating(u)' => arg'[u] = arg[u]
    BY <1>4, <1>5 DEF OthersStay, Creating
  <2>3. \A p \in Allocated', x \in Addrs : heap'[p].child = x => x \in Usable
    BY <1>7, <1>8, <1>12 DEF Usable, child
  <2> QED
    BY <2>1, <2>2, <2>3 DEF Usable
<1>16. InMap'
  <2>1. \A u \in Threads :
           pc'[u] \in {"drop", "drop_slow", "recheck", "remove"} => arg'[u] \in map
    BY <1>4 DEF InMap, OthersStay
  <2> QED
    BY <1>1, <1>15, <2>1 DEF InMap
<1>17. LastTwo'
  <2> SUFFICES ASSUME NEW u \in Threads, pc'[u] = "remove"
               PROVE  strong'[arg'[u]] = 2
    BY DEF LastTwo
  <2>1. u # t /\ pc[u] = "remove" /\ arg'[u] = arg[u]
    BY <1>4 DEF OthersStay
  <2>2. Dropping(u) /\ arg[u] \in Addrs
    BY <2>1 DEF Dropping, Types
  <2> QED
    BY <1>6, <1>8, <2>1, <2>2 DEF LastTwo
<1>18. OneLevel'
  <2> SUFFICES ASSUME NEW b \in map', NEW c \in map', heap'[b] = heap'[c]
               PROVE  b = c
    BY DEF OneLevel
  <2>1. \A x \in map : heap[x] # arg[t] /\ heap'[x] = heap[x]
    BY <1>2, <1>6, <1>8 DEF Matches
  <2> QED
    BY <1>1, <1>8, <2>1 DEF OneLevel
<1>19. Acyclic'
  <2> SUFFICES ASSUME NEW S \in SUBSET (Allocated'), S # {}
               PROVE  \E b \in S : heap'[b].child \notin S
    BY DEF Acyclic
  <2>1. CASE S = {a}
    BY <1>7, <1>8, <2>1, InternerAssumption DEF child
  <2>2. CASE S # {a}
    <3>1. S \ {a} \in SUBSET Allocated /\ S \ {a} # {}
      BY <1>12, <2>2
    <3>2. PICK b \in S \ {a} : heap[b].child \notin S \ {a}
      BY <3>1 DEF Acyclic
    <3>3. heap'[b] = heap[b] /\ heap[b].child # a
      BY <1>8, <1>12, <1>13, <3>1
    <3> QED
      BY <3>2, <3>3
  <2> QED
    BY <2>1, <2>2
<1> QED
  BY <1>10, <1>11, <1>14, <1>16, <1>17, <1>18, <1>19

LEMMA DecrementStep ==
  ASSUME IInv, NEW t \in Threads, Decrement(t)
  PROVE  IInv'
<1> DEFINE a == arg[t]
           child == heap[a].child
           frees == strong[a] = 1
<1> USE DEF IInv
<1>1. /\ pc[t] = "decrement" /\ a \in Addrs
      /\ Dropping(t) /\ ~Creating(t) /\ ~Holds(t) /\ ~Holds(t)
      /\ strong \in [Addrs -> Nat] /\ heap[a] \in Object
      /\ strong' = [strong EXCEPT ![a] = @ - 1]
      /\ UNCHANGED <<heap, map, lock, held>>
  BY DEF Decrement, Dropping, Creating, Holds, Types
<1>2. /\ strong[a] >= 1
      /\ a \in map => strong[a] >= 2
      /\ \A u \in Threads :
            u # t /\ Dropping(u) /\ arg[u] = a =>
               strong[a] >= 2 /\ (a \in map => strong[a] >= 3)
  BY <1>1, Counted
<1>3. /\ child # Nil => child \in Addrs
      /\ child \in Addrs => child # Nil
      /\ frees /\ child # Nil => child \in Usable /\ child \in map
  BY <1>1, <1>2, InternerAssumption DEF Object, Usable, InMap, Allocated
<1>4. /\ OthersStay(t) /\ arg' = [u \in Threads |-> arg'[u]] /\ pc' \in [Threads -> PC]
      /\ \/ ~(frees /\ child # Nil) /\ pc'[t] = "idle" /\ arg'[t] = Nil
         \/ (frees /\ child # Nil) /\ pc'[t] = "drop" /\ arg'[t] = child
  <2>1. CASE ~(frees /\ child # Nil)
    <3>1. Idle(t) /\ "idle" \in PC
      BY <2>1 DEF Decrement, PC
    <3>2. /\ OthersStay(t) /\ arg' = [u \in Threads |-> arg'[u]] /\ pc' \in [Threads -> PC]
          /\ pc'[t] = "idle" /\ arg'[t] = Nil
      BY <3>1, BeginsOrIdles
    <3> QED
      BY <2>1, <3>2
  <2>2. CASE frees /\ child # Nil
    <3>1. Begin(t, "drop", child) /\ "drop" \in PC
      BY <2>2 DEF Decrement, PC
    <3>2. /\ OthersStay(t) /\ arg' = [u \in Threads |-> arg'[u]] /\ pc' \in [Threads -> PC]
          /\ pc'[t] = "drop" /\ arg'[t] = child
      BY <3>1, BeginsOrIdles
    <3> QED
      BY <2>2, <3>2
  <2> QED
    BY <2>1, <2>2
<1>5. ~Creating(t)' /\ ~Holds(t)' /\ (Dropping(t)' <=> frees /\ child # Nil)
  BY <1>4 DEF Creating, Holds, Dropping
<1>6. /\ strong' \in [Addrs -> Nat]
      /\ \A x \in Addrs : strong'[x] = strong[x] - (IF x = a THEN 1 ELSE 0)
  BY <1>1, <1>2
<1>7. /\ \A p \in Addrs : p # a => (p \in Allocated' <=> p \in Allocated)
      /\ a \in Allocated /\ (a \in Allocated' <=> ~frees)
      /\ Allocated' \subseteq Allocated
  BY <1>1, <1>2, <1>6 DEF Allocated
<1>8. \A u \in Threads : u # t /\ Dropping(u) /\ arg[u] = a => ~frees
  BY <1>2
<1>9. \A u \in Threads : u # t /\ pc[u] = "remove" => arg[u] # a
  BY <1>2 DEF LastTwo, InMap, Dropping
<1>10. \A x \in Addrs : (Dropping(t)' /\ arg'[t] = x) <=> frees /\ child = x
  BY <1>3, <1>4, <1>5
<1> HIDE DEF frees, child, a
<1>11. Types'
  BY <1>1, <1>3, <1>4, <1>5, <1>6, TypesStep DEF Types
<1>12. Locks'
  BY <1>1, <1>4, <1>5, LocksStep DEF ShardUsed, OthersStay, Creating
<1>13. Counts'
  <2>1. \A p \in Addrs : p # a => heap'[p] = heap[p] /\ (p \in Allocated' <=> p \in Allocated)
    BY <1>1, <1>7
  <2>2. \A x \in Addrs : IsFiniteSet(Handles(held', x)) /\ held' = held
                         /\ Cardinality(Handles(held, x)) \in Nat
    BY <1>1, OwnersFinite
  <2>3. \A x \in Addrs :
          strong'[x]
            + (IF x \in map THEN 1 ELSE 0)
            + Cardinality(Handles(held, x))
            + (IF Dropping(t) /\ arg[t] = x THEN 1 ELSE 0)
            + (IF Creating(t) /\ arg[t].child = x THEN 1 ELSE 0)
            + (IF a \in Allocated /\ heap[a].child = x THEN 1 ELSE 0)
          = strong[x]
            + (IF x \in map' THEN 1 ELSE 0)
            + Cardinality(Handles(held', x))
            + (IF Dropping(t)' /\ arg'[t] = x THEN 1 ELSE 0)
            + (IF Creating(t)' /\ arg'[t].child = x THEN 1 ELSE 0)
            + (IF a \in Allocated' /\ heap'[a].child = x THEN 1 ELSE 0)
    <3> SUFFICES ASSUME NEW x \in Addrs
                 PROVE  strong'[x]
                           + (IF x \in map THEN 1 ELSE 0)
                           + Cardinality(Handles(held, x))
                           + (IF a = x THEN 1 ELSE 0)
                           + 0
                           + (IF child = x THEN 1 ELSE 0)
                        = strong[x]
                           + (IF x \in map THEN 1 ELSE 0)
                           + Cardinality(Handles(held, x))
                           + (IF frees /\ child = x THEN 1 ELSE 0)
                           + 0
                           + (IF ~frees /\ child = x THEN 1 ELSE 0)
      BY <1>1, <1>5, <1>7, <1>10, <2>2 DEF child, a
    <3>1. strong[x] \in Nat /\ strong'[x] = strong[x] - (IF x = a THEN 1 ELSE 0)
      BY <1>1, <1>6
    <3> QED
      BY ONLY <3>1, <2>2
  <2>4. Types /\ Counts
    OBVIOUS
  <2>5. OthersStay(t) /\ a \in Addrs /\ strong' \in [Addrs -> Nat]
    BY <1>1, <1>4, <1>6
  <2>6. \A x \in Addrs : IsFiniteSet(Handles(held', x))
    BY <2>2
  <2> HIDE DEF IInv
  <2> QED
    BY ONLY <2>1, <2>6, <2>3, <2>4, <2>5, CountsStep
<1>14. Usable' \subseteq Usable
  <2>1. \A u \in Threads : /\ Creating(u)' => Creating(u)
                           /\ Creating(u)' => arg'[u] = arg[u]
    BY <1>4, <1>5 DEF OthersStay, Creating
  <2> QED
    BY <1>1, <1>7, <2>1 DEF Usable
<1>15. InMap'
  <2>1. \A u \in Threads :
           pc'[u] \in {"drop", "drop_slow", "recheck", "remove"} => arg'[u] \in map
    BY <1>3, <1>4 DEF InMap, OthersStay
  <2> QED
    BY <1>1, <1>14, <2>1 DEF InMap
<1>16. LastTwo'
  <2> SUFFICES ASSUME NEW u \in Threads, pc'[u] = "remove"
               PROVE  strong'[arg'[u]] = 2
    BY DEF LastTwo
  <2>1. u # t /\ pc[u] = "remove" /\ arg'[u] = arg[u]
    BY <1>4 DEF OthersStay
  <2>2. Dropping(u) /\ arg[u] \in Addrs
    BY <2>1 DEF Dropping, Types
  <2> QED
    BY <1>6, <1>9, <2>1, <2>2 DEF LastTwo
<1>17. OneLevel'
  BY <1>1 DEF OneLevel
<1>18. Acyclic'
  BY <1>1, <1>7 DEF Acyclic
<1> QED
  BY <1>11, <1>12, <1>13, <1>15, <1>16, <1>17, <1>18

-----------------------------------------------------------------------------
(* The invariant, and the properties that follow from it                   *)

LEMMA InitInv == Init => IInv
<1> SUFFICES ASSUME Init PROVE IInv
  OBVIOUS
<1> DEFINE blank == CHOOSE obj \in Object : obj.child = Nil
<1>1. blank \in Object
  <2>1. PICK l \in Labels : TRUE
    BY InternerAssumption
  <2>2. [label |-> l, child |-> Nil] \in Object
    BY DEF Object
  <2> QED
    BY <2>2
<1>2. heap \in [Addrs -> {blank}]
  BY DEF Init
<1> HIDE DEF blank
<1>3. heap \in [Addrs -> Object]
  BY <1>1, <1>2
<1>4. /\ strong = [a \in Addrs |-> 0] /\ map = {}
      /\ lock = [s \in Shards |-> NoThread]
      /\ held = [t \in Threads |-> [a \in Addrs |-> 0]]
      /\ pc = [t \in Threads |-> "idle"] /\ arg = [t \in Threads |-> Nil]
  BY DEF Init
<1>5. \A t \in Threads : ~Creating(t) /\ ~Dropping(t) /\ ~Holds(t)
  BY <1>4 DEF Creating, Dropping, Holds
<1>6. Types
  BY <1>3, <1>4, <1>5 DEF Types, PC
<1>7. Locks
  BY <1>4, <1>5, InternerAssumption DEF Locks
<1>8. Allocated = {}
  BY <1>4 DEF Allocated
<1>9. Counts
  <2> SUFFICES ASSUME NEW a \in Addrs
               PROVE  /\ IsFiniteSet(Handles(held, a))
                      /\ strong[a] = (IF a \in map THEN 1 ELSE 0)
                            + Cardinality(Handles(held, a)) + Cardinality(Droppers(a))
                            + Cardinality(Creators(a)) + Cardinality(Parents(a))
    BY DEF Counts, CountsExact
  <2>1. Handles(held, a) = {}
    BY <1>4 DEF Handles
  <2>2. Droppers(a) = {} /\ Creators(a) = {} /\ Parents(a) = {}
    BY <1>5, <1>8 DEF Droppers, Creators, Parents
  <2>3. strong[a] = 0 /\ a \notin map
    BY <1>4
  <2> QED
    BY <2>1, <2>2, <2>3, FS_EmptySet
<1>10. OneLevel /\ InMap /\ LastTwo /\ Acyclic
  BY <1>4, <1>5, <1>8 DEF OneLevel, InMap, LastTwo, Acyclic, Usable
<1> QED
  BY <1>6, <1>7, <1>9, <1>10 DEF IInv

LEMMA NextInv == IInv /\ [Next]_vars => IInv'
<1> SUFFICES ASSUME IInv, [Next]_vars PROVE IInv'
  OBVIOUS
<1>1. CASE Next
  <2>1. PICK t \in Threads :
           \/ StartNew(t) \/ Continue(t)
           \/ \E a \in Addrs : Clone(t, a) \/ StartDrop(t, a)
           \/ \E a \in Addrs, u \in Threads : Send(t, u, a)
    BY <1>1 DEF Next
  <2>2. CASE StartNew(t)
    BY <2>2, StartNewStep
  <2>3. CASE LookupLock(t) \/ Drop(t) \/ DropSlowLock(t)
             \/ DropSlowReturn(t) \/ DropSlowRecheck(t)
    BY <2>3, QuietSteps
  <2>4. CASE LookupHit(t)
    BY <2>4, LookupHitStep
  <2>5. CASE Alloc(t)
    BY <2>5, AllocStep
  <2>6. CASE DropSlowRemove(t)
    BY <2>6, DropSlowRemoveStep
  <2>7. CASE Decrement(t)
    BY <2>7, DecrementStep
  <2>8. CASE \E a \in Addrs : Clone(t, a) \/ StartDrop(t, a)
    BY <2>8, CloneStep, StartDropStep
  <2>9. CASE \E a \in Addrs, u \in Threads : Send(t, u, a)
    BY <2>9, SendStep
  <2> QED
    BY <2>1, <2>2, <2>3, <2>4, <2>5, <2>6, <2>7, <2>8, <2>9 DEF Continue
<1>2. CASE UNCHANGED vars
  <2> USE <1>2 DEF vars
  <2>1. Types' /\ Locks'
    BY DEF IInv, Types, Locks, Creating, Dropping, Holds, ShardUsed
  <2>2. Allocated' = Allocated /\ Usable' = Usable
    BY DEF Allocated, Usable, Creating
  <2>3. Counts'
    BY <2>2 DEF IInv, Counts, CountsExact, Droppers, Creators, Parents, Dropping, Creating
  <2>4. OneLevel' /\ InMap' /\ LastTwo' /\ Acyclic'
    BY <2>2 DEF IInv, OneLevel, InMap, LastTwo, Acyclic
  <2> QED
    BY <2>1, <2>3, <2>4 DEF IInv
<1> QED
  BY <1>1, <1>2

(* The invariant of the interner, for any threads, addresses and labels.   *)
THEOREM Invariance == Spec => []IInv
BY InitInv, NextInv, PTL DEF Spec

(* Type correctness, and that a thread holds the lock of the shard it      *)
(* works on and no other (lock_shard).                                     *)
THEOREM TypeCorrect == Spec => []TypeOK
<1>1. IInv => TypeOK
  BY DEF IInv, Types, Locks, TypeOK
<1> QED
  BY <1>1, Invariance, PTL

(* The count of an Arc is the number of its owners: nothing is freed twice *)
(* or while it is used (Interned::clone, drop, Interned::new).             *)
THEOREM CountsAlwaysExact == Spec => []CountsExact
<1>1. IInv => CountsExact
  BY DEF IInv, Counts
<1> QED
  BY <1>1, Invariance, PTL

(* The expect "interned value removed prematurely" of drop_slow never      *)
(* fails, and finds the Arc that is dropped.                               *)
THEOREM NeverRemovedPrematurely == Spec => []NotRemovedPrematurely
<1>1. IInv => NotRemovedPrematurely
  BY FindsItself DEF IInv, InMap, NotRemovedPrematurely
<1> QED
  BY <1>1, Invariance, PTL

(* drop_slow removes an object only while no one can get hold of it: the   *)
(* count it read under the lock has not changed.                           *)
THEOREM OnlyUnusedRemoved == Spec => []RemovesUnused
<1>1. ASSUME IInv, NEW t \in Threads, pc[t] = "remove"
      PROVE  strong[arg[t]] = 2 /\ arg[t] \notin Usable
  <2>1. arg[t] \in map /\ arg[t] \in Addrs /\ strong[arg[t]] = 2 /\ Dropping(t)
    BY <1>1, FindsItself DEF IInv, LastTwo, Dropping
  <2> QED
    BY <1>1, <2>1, Counted DEF IInv
<1>2. IInv => RemovesUnused
  BY <1>1 DEF RemovesUnused
<1> QED
  BY <1>2, Invariance, PTL

-----------------------------------------------------------------------------
(* What the recursive definition of Tree says                              *)

(* The trees of depth n, given those of depth n - 1.                       *)
Layer(f, n) ==
    [a \in Addrs |->
        <<heap[a].label,
          IF n = 0 \/ heap[a].child = Nil THEN <<>> ELSE f[n - 1][heap[a].child]>>]

Approx(g, n) == g = [k \in 0 .. n |-> Layer(g, k)]

LEMMA LayerOf ==
  ASSUME NEW f, NEW g, NEW n \in Nat, n = 0 \/ f[n - 1] = g[n - 1]
  PROVE  Layer(f, n) = Layer(g, n)
BY DEF Layer

LEMMA ApproxExists == \A n \in Nat : \E g : Approx(g, n)
<1> DEFINE T == {n \in Nat : \E g : Approx(g, n)}
<1>1. 0 \in T
  <2> DEFINE h == [k \in 0 .. 0 |-> Layer(<<>>, 0)]
  <2>1. Layer(h, 0) = Layer(<<>>, 0)
    BY LayerOf
  <2>2. h = [k \in 0 .. 0 |-> Layer(h, k)]
    <3>1. \A k \in 0 .. 0 : k = 0
      OBVIOUS
    <3> HIDE DEF h
    <3>2. \A k \in 0 .. 0 : Layer(h, k) = Layer(<<>>, 0)
      BY <2>1, <3>1
    <3> QED
      BY <3>2 DEF h
  <2> HIDE DEF h
  <2> QED
    BY <2>2 DEF Approx
<1>2. ASSUME NEW n \in Nat, n \in T
      PROVE  n + 1 \in T
  <2>1. PICK g : Approx(g, n)
    BY <1>2
  <2> DEFINE h == [k \in 0 .. n + 1 |-> IF k = n + 1 THEN Layer(g, n + 1) ELSE g[k]]
  <2>2. \A k \in 0 .. n : h[k] = g[k] /\ g[k] = Layer(g, k)
    BY <2>1 DEF Approx
  <2>3. \A k \in 0 .. n + 1 : h[k] = Layer(h, k)
    <3> SUFFICES ASSUME NEW k \in 0 .. n + 1
                 PROVE  h[k] = Layer(h, k)
      OBVIOUS
    <3>1. h[k] = Layer(g, k)
      <4>1. CASE k = n + 1
        BY <4>1
      <4>2. CASE k # n + 1
        <5>1. k \in 0 .. n
          BY <4>2
        <5> HIDE DEF h
        <5> QED
          BY <5>1, <2>2
      <4> QED
        BY <4>1, <4>2
    <3>2. k = 0 \/ h[k - 1] = g[k - 1]
      BY <2>2
    <3> HIDE DEF h
    <3> QED
      BY <3>1, <3>2, LayerOf
  <2>4. h = [k \in 0 .. n + 1 |-> h[k]]
    OBVIOUS
  <2> HIDE DEF h
  <2>5. h = [k \in 0 .. n + 1 |-> Layer(h, k)]
    BY <2>3, <2>4
  <2> QED
    BY <2>5 DEF Approx
<1> HIDE DEF T
<1>3. Nat \subseteq T
  BY <1>1, <1>2, SetInduction
<1> QED
  BY <1>3 DEF T

LEMMA ApproxUnique ==
  ASSUME NEW f, NEW g, NEW n \in Nat, NEW m \in Nat, Approx(f, n), Approx(g, m)
  PROVE  \A k \in Nat : k <= n /\ k <= m => f[k] = g[k]
<1> DEFINE T == {k \in Nat : k <= n /\ k <= m => f[k] = g[k]}
<1>1. \A k \in 0 .. n : f[k] = Layer(f, k)
  BY DEF Approx
<1>2. \A k \in 0 .. m : g[k] = Layer(g, k)
  BY DEF Approx
<1>3. 0 \in T
  <2>1. Layer(f, 0) = Layer(g, 0)
    BY LayerOf
  <2> QED
    BY <1>1, <1>2, <2>1
<1>4. ASSUME NEW k \in Nat, k \in T
      PROVE  k + 1 \in T
  <2> SUFFICES ASSUME k + 1 <= n, k + 1 <= m
               PROVE  f[k + 1] = g[k + 1]
    OBVIOUS
  <2>1. f[k] = g[k]
    BY <1>4
  <2>2. Layer(f, k + 1) = Layer(g, k + 1)
    BY <2>1, LayerOf
  <2>3. k + 1 \in 0 .. n /\ k + 1 \in 0 .. m
    OBVIOUS
  <2> QED
    BY <1>1, <1>2, <2>2, <2>3
<1> HIDE DEF T
<1>5. Nat \subseteq T
  BY <1>3, <1>4, SetInduction
<1> QED
  BY <1>5 DEF T

LEMMA TreeUnfolds == \A n \in Nat : Tree[n] = Layer(Tree, n)
<1> DEFINE App(n) == CHOOSE g : Approx(g, n)
           F == [n \in Nat |-> App(n)[n]]
<1>1. \A n \in Nat : Approx(App(n), n)
  BY ApproxExists
<1>2. ASSUME NEW n \in Nat
      PROVE  F[n] = Layer(F, n)
  <2>1. F[n] = App(n)[n]
    OBVIOUS
  <2>2. App(n)[n] = Layer(App(n), n)
    <3> HIDE DEF App
    <3> QED
      BY <1>1 DEF Approx
  <2>3. n = 0 \/ F[n - 1] = App(n)[n - 1]
    <3> SUFFICES ASSUME n # 0 PROVE F[n - 1] = App(n)[n - 1]
      OBVIOUS
    <3>1. n - 1 \in Nat /\ F[n - 1] = App(n - 1)[n - 1]
      OBVIOUS
    <3> HIDE DEF App, F
    <3>2. Approx(App(n), n) /\ Approx(App(n - 1), n - 1)
      BY <1>1, <3>1
    <3>3. App(n)[n - 1] = App(n - 1)[n - 1]
      BY <3>1, <3>2, ApproxUnique
    <3> QED
      BY <3>1, <3>3
  <2> HIDE DEF App, F
  <2>4. Layer(F, n) = Layer(App(n), n)
    BY <2>3, LayerOf
  <2> QED
    BY <2>1, <2>2, <2>4
<1>3. F = [n \in Nat |-> F[n]]
  OBVIOUS
<1> HIDE DEF F, App
<1>4. F = [n \in Nat |-> Layer(F, n)]
  BY <1>2, <1>3
<1>5. Tree = [n \in Nat |-> Layer(Tree, n)]
  BY <1>4 DEF Tree, Layer
<1> QED
  BY <1>5

-----------------------------------------------------------------------------
(* Pointer equality is structural equality                                 *)

(* A part of the heap whose objects are told apart by their trees of depth *)
(* n: it has the children of its objects.                                  *)
ToldApart(L, n) ==
    /\ L \subseteq Allocated
    /\ \A a \in L : heap[a].child = Nil \/ heap[a].child \in L
    /\ \A a \in L, b \in Usable : a \in Usable /\ Tree[n][a] = Tree[n][b] => a = b

LEMMA UsableAllocated ==
  ASSUME IInv
  PROVE  /\ Usable \subseteq Allocated
         /\ \A a \in Allocated : heap[a].child = Nil \/ heap[a].child \in Usable
<1>1. ASSUME NEW a \in Usable PROVE a \in Allocated
  BY <1>1, Counted DEF IInv, Usable, Allocated
<1>2. ASSUME NEW a \in Allocated, heap[a].child # Nil
      PROVE  heap[a].child \in Usable
  BY <1>2 DEF IInv, Types, Object, Allocated, Usable
<1> QED
  BY <1>1, <1>2

(* One level more: the objects with their children in L.                   *)
LEMMA OneLevelMore ==
  ASSUME IInv, NEW n \in Nat, NEW L, ToldApart(L, n)
  PROVE  LET M == {a \in Allocated : heap[a].child = Nil \/ heap[a].child \in L}
         IN  ToldApart(M, n + 1) /\ L \subseteq M /\ (L # Allocated => L # M)
<1> DEFINE M == {a \in Allocated : heap[a].child = Nil \/ heap[a].child \in L}
<1>1. L \subseteq M
  BY DEF ToldApart
<1>2. L # Allocated => L # M
  <2> SUFFICES ASSUME L # Allocated PROVE L # M
    OBVIOUS
  <2>1. Allocated \ L \in SUBSET Allocated /\ Allocated \ L # {}
    BY DEF ToldApart
  <2>2. PICK a \in Allocated \ L : heap[a].child \notin Allocated \ L
    BY <2>1 DEF IInv, Acyclic
  <2>3. heap[a].child = Nil \/ heap[a].child \in Allocated
    BY <2>2, UsableAllocated
  <2> QED
    BY <2>2, <2>3
<1>3. ASSUME NEW a \in M, NEW b \in Usable, a \in Usable, Tree[n + 1][a] = Tree[n + 1][b]
      PROVE  a = b
  <2> DEFINE ca == heap[a].child
             cb == heap[b].child
             ta == IF ca = Nil THEN <<>> ELSE Tree[n][ca]
             tb == IF cb = Nil THEN <<>> ELSE Tree[n][cb]
  <2>1. a \in Addrs /\ b \in Addrs /\ a \in Allocated /\ b \in Allocated
    BY <1>3, UsableAllocated DEF Allocated
  <2>2. Tree[n + 1] = Layer(Tree, n + 1) /\ n + 1 # 0 /\ n + 1 - 1 = n
    BY TreeUnfolds
  <2>3. Tree[n + 1][a] = <<heap[a].label, ta>> /\ Tree[n + 1][b] = <<heap[b].label, tb>>
    BY <2>1, <2>2 DEF Layer
  <2>4. heap[a].label = heap[b].label /\ ta = tb
    <3> HIDE DEF ta, tb
    <3>1. <<heap[a].label, ta>> = <<heap[b].label, tb>>
      BY ONLY <1>3, <2>3, Zenon
    <3> QED
      BY ONLY <3>1
  <2>5. \A c \in Addrs : Tree[n][c] # <<>>
    <3> SUFFICES ASSUME NEW c \in Addrs PROVE Tree[n][c] # <<>>
      OBVIOUS
    <3>1. Tree[n] = Layer(Tree, n)
      BY TreeUnfolds
    <3>2. PICK s : Tree[n][c] = <<heap[c].label, s>>
      BY <3>1 DEF Layer
    <3> QED
      BY <3>2
  <2>6. (ca = Nil \/ ca \in Usable) /\ (cb = Nil \/ cb \in Usable) /\ Usable \subseteq Addrs
    BY <2>1, UsableAllocated DEF Usable
  <2>7. ca = Nil \/ ca \in L
    BY <1>3
  <2>8. ca = cb
    <3>1. Nil \notin Addrs
      BY InternerAssumption
    <3> HIDE DEF ca, cb
    <3>2. CASE ca = Nil
      BY <2>4, <2>5, <2>6, <3>2
    <3>3. CASE ca # Nil
      <4>1. cb # Nil
        BY <2>4, <2>5, <2>6, <3>3
      <4>2. Tree[n][ca] = Tree[n][cb]
        BY <2>4, <3>3, <4>1
      <4> QED
        BY <2>6, <2>7, <3>3, <4>1, <4>2 DEF ToldApart
    <3> QED
      BY <3>2, <3>3
  <2>9. heap[a] = heap[b]
    <3>1. heap[a] \in Object /\ heap[b] \in Object
      BY <2>1 DEF IInv, Types
    <3> QED
      BY <2>4, <2>8, <3>1 DEF Object
  <2> QED
    BY <1>3, <2>9 DEF IInv, InMap, OneLevel
<1>4. ToldApart(M, n + 1)
  <2>1. M \subseteq Allocated /\ \A a \in M : heap[a].child = Nil \/ heap[a].child \in M
    BY <1>1
  <2> HIDE DEF M
  <2> QED
    BY <1>3, <2>1 DEF ToldApart
<1> QED
  BY <1>1, <1>2, <1>4

LEMMA TreesTellApart ==
  ASSUME IInv
  PROVE  \A n \in Nat : \E L : ToldApart(L, n) /\ (L = Allocated \/ Cardinality(L) >= n)
<1> DEFINE T == {n \in Nat : \E L : ToldApart(L, n) /\ (L = Allocated \/ Cardinality(L) >= n)}
<1>1. 0 \in T
  <2>1. ToldApart({}, 0) /\ Cardinality({}) >= 0
    BY FS_EmptySet DEF ToldApart
  <2> QED
    BY <2>1
<1>2. ASSUME NEW n \in Nat, n \in T
      PROVE  n + 1 \in T
  <2>1. PICK L : ToldApart(L, n) /\ (L = Allocated \/ Cardinality(L) >= n)
    BY <1>2
  <2> DEFINE M == {a \in Allocated : heap[a].child = Nil \/ heap[a].child \in L}
  <2>2. ToldApart(M, n + 1) /\ L \subseteq M /\ (L # Allocated => L # M)
    BY <2>1, OneLevelMore
  <2> HIDE DEF M
  <2>3. M = Allocated \/ Cardinality(M) >= n + 1
    <3>1. M \subseteq Allocated /\ L \subseteq Allocated
      BY <2>1, <2>2 DEF ToldApart
    <3>2. CASE L = Allocated
      BY <2>2, <3>1, <3>2
    <3>3. CASE L # Allocated
      <4>1. IsFiniteSet(M)
        <5>1. IsFiniteSet(Addrs) /\ M \in SUBSET Addrs
          BY <3>1, InternerAssumption DEF Allocated
        <5> QED
          BY <5>1, FS_Subset
      <4>2. /\ Cardinality(L) <= Cardinality(M) /\ IsFiniteSet(L)
            /\ Cardinality(L) # Cardinality(M)
        BY <2>2, <3>3, <4>1, FS_Subset
      <4>3. Cardinality(L) \in Nat /\ Cardinality(M) \in Nat /\ Cardinality(L) >= n
        BY <2>1, <3>3, <4>1, <4>2, FS_CardinalityType
      <4> QED
        BY <4>2, <4>3
    <3> QED
      BY <3>2, <3>3
  <2> QED
    BY <2>2, <2>3
<1> HIDE DEF T
<1>3. Nat \subseteq T
  BY <1>1, <1>2, SetInduction
<1> QED
  BY <1>3 DEF T

(* Equality of handles, by the pointer, is equality of the trees they      *)
(* stand for, although an object is compared only one level deep           *)
(* (PartialEq and Hash of Interned).                                       *)
THEOREM PointersCanonical == Spec => []Canonical
<1>1. ASSUME IInv PROVE Canonical
  <2> DEFINE n == Cardinality(Addrs)
  <2>1. IsFiniteSet(Addrs) /\ n \in Nat
    BY InternerAssumption, FS_CardinalityType
  <2>2. PICK L : ToldApart(L, n) /\ (L = Allocated \/ Cardinality(L) >= n)
    BY <1>1, <2>1, TreesTellApart
  <2>3. L \subseteq Allocated /\ Allocated \subseteq Addrs
    BY <2>2 DEF ToldApart, Allocated
  <2>4. L = Allocated
    <3> SUFFICES ASSUME L # Allocated PROVE FALSE
      OBVIOUS
    <3>1. L \in SUBSET Addrs /\ L # Addrs
      BY <2>3
    <3>2. IsFiniteSet(L) /\ Cardinality(L) <= n /\ Cardinality(L) # n
      BY <2>1, <3>1, FS_Subset
    <3>3. Cardinality(L) \in Nat
      BY <3>2, FS_CardinalityType
    <3> QED
      BY <2>1, <2>2, <3>2, <3>3
  <2>5. Usable \subseteq L
    BY <1>1, <2>4, UsableAllocated
  <2> QED
    BY <2>2, <2>5 DEF Canonical, ToldApart
<1> QED
  BY <1>1, Invariance, PTL

-----------------------------------------------------------------------------
(* One thread leaves nothing behind                                        *)

(* Whatever is in the map can be used, or is about to be dropped by a      *)
(* thread that has not yet decided whether to remove it.                   *)
Kept ==
    \A a \in map :
        \/ a \in Usable
        \/ \E t \in Threads :
              /\ pc[t] \in {"drop", "drop_slow", "recheck", "remove"}
              /\ arg[t] = a

(* With one thread, what has a third owner beside the map and the dropper  *)
(* can be used.                                                            *)
LEMMA ThirdOwner ==
  ASSUME NEW t, Threads = {t}, IInv, NEW a \in map, strong[a] # 2,
         Dropping(t), arg[t] = a
  PROVE  a \in Usable
<1>1. a \in Addrs /\ t \in Threads
  BY DEF IInv, Types
<1>2. /\ Rest(a) \in Nat /\ Cardinality(Droppers(a)) \in Nat
      /\ strong[a] = (IF a \in map THEN 1 ELSE 0) + Rest(a) + Cardinality(Droppers(a))
      /\ Rest(a) > 0 <=> a \in Usable
  BY <1>1, Owners DEF IInv
<1>3. Cardinality(Droppers(a)) = 1
  <2>1. Droppers(a) = {t}
    BY <1>1 DEF Droppers
  <2> QED
    BY <2>1, FS_Singleton
<1> QED
  BY <1>2, <1>3

LEMMA KeptStep ==
  ASSUME NEW t, Threads = {t}, IInv, IInv', Kept, Next
  PROVE  Kept'
<1> SUFFICES ASSUME NEW x \in map', x \notin Usable'
             PROVE  /\ pc'[t] \in {"drop", "drop_slow", "recheck", "remove"}
                    /\ arg'[t] = x
  BY DEF Kept
<1> DEFINE Undecided == pc[t] \in {"drop", "drop_slow", "recheck", "remove"} /\ arg[t] = x
<1>1. /\ t \in Threads /\ x \in Addrs /\ held \in [Threads -> [Addrs -> Nat]]
      /\ pc \in [Threads -> PC] /\ DOMAIN arg = Threads /\ strong \in [Addrs -> Nat]
      /\ arg = [u \in Threads |-> arg[u]] /\ heap \in [Addrs -> Object] /\ map \subseteq Addrs
  BY DEF IInv, Types
<1>2. x \in map => x \in Usable \/ Undecided
  BY DEF Kept
<1>3. /\ ~(held'[t][x] > 0)
      /\ ~(Creating(t)' /\ arg'[t].child = x)
      /\ \A p \in Allocated' : heap'[p].child # x
  BY <1>1 DEF Usable
<1>4. x \in Usable <=>
         \/ held[t][x] > 0
         \/ Creating(t) /\ arg[t].child = x
         \/ \E p \in Allocated : heap[p].child = x
  BY <1>1 DEF Usable
<1>5. x \in Addrs => x # Nil
  BY InternerAssumption
<1>6. CASE StartNew(t)
  <2>1. PICK obj \in Object :
           /\ held' = IF obj.child = Nil THEN held ELSE Lose(held, t, obj.child)
           /\ Begin(t, "lookup", obj)
    BY <1>6 DEF StartNew
  <2>2. pc[t] = "idle" /\ Allocated' = Allocated /\ heap' = heap /\ map' = map
    BY <1>6 DEF StartNew, Allocated
  <2>3. Creating(t)' /\ arg'[t] = obj
    BY <1>1, <2>1 DEF Begin, Creating
  <2>4. held[t][x] > 0 => held'[t][x] > 0 \/ obj.child = x
    BY <1>1, <2>1 DEF Lose, Object
  <2> QED
    BY <1>2, <1>3, <1>4, <2>2, <2>3, <2>4 DEF Creating
<1>7. CASE LookupLock(t) \/ Drop(t) \/ DropSlowLock(t) \/ DropSlowReturn(t) \/ DropSlowRecheck(t)
  <2>1. /\ Allocated' = Allocated /\ heap' = heap /\ map' = map /\ held' = held
        /\ \E what \in PC : Begin(t, what, arg[t])
    BY <1>7 DEF LookupLock, Drop, DropSlowLock, DropSlowReturn, DropSlowRecheck, Allocated, PC
  <2>2. arg'[t] = arg[t] /\ (Creating(t) => pc[t] = "lookup" /\ pc'[t] = "found?")
    BY <1>1, <1>7, <2>1
       DEF Begin, LookupLock, Drop, DropSlowLock, DropSlowReturn, DropSlowRecheck, Creating
  <2>3. x \notin Usable
    BY <1>3, <1>4, <2>1, <2>2 DEF Creating
  <2>4. Undecided /\ x \in map /\ Dropping(t)
    BY <1>2, <2>1, <2>3 DEF Dropping
  <2>5. strong[x] = 2
    BY <2>3, <2>4, ThirdOwner
  <2>6. CASE Drop(t)
    BY <1>1, <2>2, <2>4, <2>5, <2>6 DEF Drop, Begin
  <2>7. CASE DropSlowReturn(t)
    BY <2>4, <2>5, <2>7, FindsItself DEF DropSlowReturn
  <2>8. CASE DropSlowLock(t) \/ DropSlowRecheck(t)
    BY <1>1, <2>2, <2>4, <2>8 DEF DropSlowLock, DropSlowRecheck, Begin
  <2>9. CASE LookupLock(t)
    BY <2>4, <2>9 DEF LookupLock
  <2> QED
    BY <1>7, <2>6, <2>7, <2>8, <2>9
<1>8. CASE LookupHit(t)
  <2>1. PICK a \in map : strong' = [strong EXCEPT ![a] = @ + 1] /\ held' = Gain(held, t, a)
    BY <1>8 DEF LookupHit, Matches
  <2>2. a \in Addrs /\ strong[a] >= 1
    BY <1>1, <2>1, Counted DEF IInv
  <2>3. Allocated' = Allocated
    BY <1>1, <2>1, <2>2 DEF Allocated
  <2>4. held[t][x] > 0 => held'[t][x] > 0
    BY <1>1, <2>1, <2>2 DEF Gain
  <2>5. pc[t] = "found?" /\ heap' = heap /\ map' = map
    BY <1>8 DEF LookupHit
  <2>6. arg[t].child = x
    BY <1>2, <1>3, <1>4, <2>3, <2>4, <2>5 DEF Creating
  <2>7. Begin(t, "drop", x)
    BY <1>1, <1>5, <1>8, <2>6 DEF LookupHit
  <2> QED
    BY <1>1, <2>7 DEF Begin
<1>9. CASE Alloc(t)
  <2>1. PICK a \in Addrs :
           /\ strong[a] = 0
           /\ heap' = [heap EXCEPT ![a] = arg[t]]
           /\ strong' = [strong EXCEPT ![a] = 2]
           /\ map' = map \union {a}
           /\ held' = Gain(held, t, a)
    BY <1>9 DEF Alloc
  <2>2. pc[t] = "found?"
    BY <1>9 DEF Alloc
  <2>3. held'[t][a] > 0 /\ (held[t][x] > 0 => held'[t][x] > 0)
    BY <1>1, <2>1 DEF Gain
  <2>4. /\ a \in Allocated' /\ heap'[a] = arg[t]
        /\ \A p \in Allocated : p \in Allocated' /\ heap'[p] = heap[p]
    BY <1>1, <2>1 DEF Allocated
  <2> QED
    BY <1>2, <1>3, <1>4, <2>1, <2>2, <2>3, <2>4
<1>10. CASE DropSlowRemove(t)
  <2>1. pc[t] = "remove" /\ Matches(heap[arg[t]]) = {arg[t]} /\ arg[t] \in Addrs
        /\ strong[arg[t]] = 2
    BY <1>1, <1>10, FindsItself DEF DropSlowRemove, IInv, LastTwo
  <2>2. map' = map \ {arg[t]} /\ strong' = [strong EXCEPT ![arg[t]] = @ - 1]
        /\ heap' = heap /\ held' = held
    BY <1>10, <2>1 DEF DropSlowRemove
  <2>3. Allocated' = Allocated
    BY <1>1, <2>1, <2>2 DEF Allocated
  <2> QED
    BY <1>2, <1>3, <1>4, <2>1, <2>2, <2>3 DEF Creating
<1>11. CASE Decrement(t)
  <2> DEFINE a == arg[t]
             child == heap[a].child
  <2>1. /\ pc[t] = "decrement" /\ a \in Addrs
        /\ strong' = [strong EXCEPT ![a] = @ - 1]
        /\ UNCHANGED <<heap, map, lock, held>>
        /\ IF strong[a] = 1 /\ child # Nil THEN Begin(t, "drop", child) ELSE Idle(t)
    BY <1>11 DEF Decrement, IInv, Types, Dropping
  <2> HIDE DEF a
  <2>2. PICK p \in Allocated : heap[p].child = x
    BY <1>2, <1>3, <1>4, <2>1 DEF Creating
  <2>3. p \notin Allocated' /\ p \in Addrs
    BY <1>3, <2>1, <2>2 DEF Allocated
  <2>4. p = a /\ strong[a] = 1
    BY <1>1, <2>1, <2>2, <2>3 DEF Allocated
  <2>5. Begin(t, "drop", x)
    BY <1>1, <1>5, <2>1, <2>2, <2>4
  <2> QED
    BY <1>1, <2>5 DEF Begin
<1>12. ASSUME NEW a \in Addrs, Clone(t, a)
       PROVE  FALSE
  <2>1. Allocated' = Allocated
    BY <1>1, <1>12, Counted DEF Clone, Allocated, IInv, Usable
  <2>2. held[t][x] > 0 => held'[t][x] > 0
    BY <1>1, <1>12 DEF Clone, Gain
  <2> QED
    BY <1>2, <1>3, <1>4, <1>12, <2>1, <2>2 DEF Clone, Creating
<1>13. ASSUME NEW a \in Addrs, StartDrop(t, a)
       PROVE  /\ pc'[t] \in {"drop", "drop_slow", "recheck", "remove"}
              /\ arg'[t] = x
  <2>1. Allocated' = Allocated /\ pc'[t] = "drop" /\ arg'[t] = a
    BY <1>1, <1>13 DEF StartDrop, Begin, Allocated
  <2>2. held[t][x] > 0 => held'[t][x] > 0 \/ x = a
    BY <1>1, <1>13 DEF StartDrop, Lose
  <2> QED
    BY <1>2, <1>3, <1>4, <1>13, <2>1, <2>2 DEF StartDrop, Creating
<1>14. ASSUME NEW u \in Threads, NEW a \in Addrs, Send(t, u, a)
       PROVE  FALSE
  BY <1>14 DEF Send
<1> QED
  BY <1>6, <1>7, <1>8, <1>9, <1>10, <1>11, <1>12, <1>13, <1>14 DEF Next, Continue

(* "When the last `Ref` is dropped, remove the object from the global map":*)
(* true of a program with one thread, as the run shows.                    *)
THEOREM OneThreadRemoves ==
  ASSUME NEW CONSTANT t, Threads = {t}
  PROVE  Spec => []LastDropRemoves
<1>1. Init => Kept
  BY DEF Init, Kept
<1>2. IInv /\ IInv' /\ Kept /\ [Next]_vars => Kept'
  <2>1. CASE Next
    BY <2>1, KeptStep
  <2>2. CASE UNCHANGED vars
    BY <2>2 DEF vars, Kept, Usable, Allocated, Creating
  <2> QED
    BY <2>1, <2>2
<1>3. Kept => LastDropRemoves
  BY DEF Kept, LastDropRemoves
<1> QED
  BY <1>1, <1>2, <1>3, Invariance, PTL DEF Spec
=============================================================================
