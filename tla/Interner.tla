------------------------------ MODULE Interner ------------------------------
(***************************************************************************)
(* The interning of types and expressions                                  *)
(* (src/liquid-rust-typeck/src/intern.rs): a global map owns one strong    *)
(* reference to every interned object, a handle (Interned) owns another,   *)
(* and equality of handles is equality of pointers.  The map is split into *)
(* shards, each under a lock; a handle is dropped without the lock unless  *)
(* it looks like the last one.                                             *)
(*                                                                         *)
(* An object is a label and at most one child, which it owns as a handle   *)
(* (TyKind::Ref(Ty), ...).  Objects hash and compare by the label and the  *)
(* POINTER of the child, so a handle that is not canonical spoils all the  *)
(* objects above it.  An address is used again once its object is freed.   *)
(* Shrinking the backing storage of a shard is left out.                   *)
(***************************************************************************)
EXTENDS Naturals, FiniteSets, FiniteSetsExt

CONSTANTS
    Threads,
    Addrs,          \* where an Arc can be allocated
    Labels,
    Shards,
    ShardOf,        \* the shard of an object, by its label
    NoThread,
    Nil,            \* no child, no address
    MaxHandles      \* bound on the handles of one thread

ASSUME InternerAssumption ==
    /\ IsFiniteSet(Threads) /\ IsFiniteSet(Addrs) /\ Labels # {}
    /\ ShardOf \in [Labels -> Shards]
    /\ NoThread \notin Threads /\ Nil \notin Addrs
    /\ MaxHandles \in Nat

VARIABLES
    heap,       \* the object at an address, meaningful while strong > 0
    strong,     \* Arc::strong_count
    map,        \* the addresses of the Arcs the map owns
    lock,       \* who holds the write lock of a shard
    held,       \* how many handles to an address a thread owns
    pc, arg     \* what a thread does, and the object or address it does it to

vars == <<heap, strong, map, lock, held, pc, arg>>

Object == [label : Labels, child : Addrs \union {Nil}]
Shard(obj) == ShardOf[obj.label]

Init ==
    /\ heap \in [Addrs -> {CHOOSE obj \in Object : obj.child = Nil}]
    /\ strong = [a \in Addrs |-> 0]
    /\ map = {}
    /\ lock = [s \in Shards |-> NoThread]
    /\ held = [t \in Threads |-> [a \in Addrs |-> 0]]
    /\ pc = [t \in Threads |-> "idle"]
    /\ arg = [t \in Threads |-> Nil]

Idle(t) == pc' = [pc EXCEPT ![t] = "idle"] /\ arg' = [arg EXCEPT ![t] = Nil]
Begin(t, what, x) == pc' = [pc EXCEPT ![t] = what] /\ arg' = [arg EXCEPT ![t] = x]
Acquire(t, s) == lock[s] = NoThread /\ lock' = [lock EXCEPT ![s] = t]
Release(s) == lock' = [lock EXCEPT ![s] = NoThread]
HandleCount(t) == MapThenSumSet(LAMBDA a : held[t][a], Addrs)
Gain(h, t, a) == [h EXCEPT ![t][a] = @ + 1]
Lose(h, t, a) == [h EXCEPT ![t][a] = @ - 1]

-----------------------------------------------------------------------------
(* Interned::new                                                           *)

(* The shard's get_key_value(obj).                                         *)
Matches(obj) == {a \in map : heap[a] = obj}
Allocated == {a \in Addrs : strong[a] > 0}
Creating(t) == pc[t] \in {"lookup", "found?"}

(* Addrs bounds the objects: new ones are not begun without an address for *)
(* each.                                                                   *)
Room == Cardinality(Allocated) + Cardinality({t \in Threads : Creating(t)}) < Cardinality(Addrs)

(* A child moves from the thread into the object.                          *)
StartNew(t) ==
    /\ pc[t] = "idle"
    /\ HandleCount(t) < MaxHandles
    /\ \E obj \in Object :
          /\ Room \/ Matches(obj) # {}
          /\ obj.child # Nil => held[t][obj.child] > 0
          /\ held' = IF obj.child = Nil THEN held ELSE Lose(held, t, obj.child)
          /\ Begin(t, "lookup", obj)
    /\ UNCHANGED <<heap, strong, map, lock>>

LookupLock(t) ==
    /\ pc[t] = "lookup"
    /\ Acquire(t, Shard(arg[t]))
    /\ Begin(t, "found?", arg[t])
    /\ UNCHANGED <<heap, strong, map, held>>

(* Mutant: the lock is kept when the object found is returned.             *)
LookupHitLocked(t) ==
    /\ pc[t] = "found?"
    /\ \E a \in Matches(arg[t]) :
          /\ strong' = [strong EXCEPT ![a] = @ + 1]
          /\ held' = Gain(held, t, a)
    /\ IF arg[t].child = Nil THEN Idle(t) ELSE Begin(t, "drop", arg[t].child)
    /\ UNCHANGED <<heap, map, lock>>

(* The object found is cloned under the lock; then the one given is        *)
(* dropped, with its child.                                                *)
LookupHit(t) ==
    /\ pc[t] = "found?"
    /\ \E a \in Matches(arg[t]) :
          /\ strong' = [strong EXCEPT ![a] = @ + 1]
          /\ held' = Gain(held, t, a)
    /\ Release(Shard(arg[t]))
    /\ IF arg[t].child = Nil THEN Idle(t) ELSE Begin(t, "drop", arg[t].child)
    /\ UNCHANGED <<heap, map>>

(* Mutants of Alloc: the map is not looked at, and the reference of the map*)
(* is not counted.                                                         *)
AllocAlways(t) ==
    /\ pc[t] = "found?"
    /\ \E a \in Addrs :
          /\ strong[a] = 0
          /\ heap' = [heap EXCEPT ![a] = arg[t]]
          /\ strong' = [strong EXCEPT ![a] = 2]
          /\ map' = map \union {a}
          /\ held' = Gain(held, t, a)
    /\ Release(Shard(arg[t]))
    /\ Idle(t)
AllocOne(t) ==
    /\ pc[t] = "found?"
    /\ Matches(arg[t]) = {}
    /\ \E a \in Addrs :
          /\ strong[a] = 0
          /\ heap' = [heap EXCEPT ![a] = arg[t]]
          /\ strong' = [strong EXCEPT ![a] = 1]
          /\ map' = map \union {a}
          /\ held' = Gain(held, t, a)
    /\ Release(Shard(arg[t]))
    /\ Idle(t)

(* alloc: one reference for the map and one for the handle.                *)
Alloc(t) ==
    /\ pc[t] = "found?"
    /\ Matches(arg[t]) = {}
    /\ \E a \in Addrs :
          /\ strong[a] = 0
          /\ heap' = [heap EXCEPT ![a] = arg[t]]
          /\ strong' = [strong EXCEPT ![a] = 2]
          /\ map' = map \union {a}
          /\ held' = Gain(held, t, a)
    /\ Release(Shard(arg[t]))
    /\ Idle(t)

-----------------------------------------------------------------------------
(* Handles move between threads and are cloned                             *)

Clone(t, a) ==
    /\ pc[t] = "idle" /\ held[t][a] > 0 /\ HandleCount(t) < MaxHandles
    /\ strong' = [strong EXCEPT ![a] = @ + 1]
    /\ held' = Gain(held, t, a)
    /\ UNCHANGED <<heap, map, lock, pc, arg>>

Send(t, u, a) ==
    /\ t # u /\ pc[t] = "idle" /\ held[t][a] > 0 /\ HandleCount(u) < MaxHandles
    /\ held' = Gain(Lose(held, t, a), u, a)
    /\ UNCHANGED <<heap, strong, map, lock, pc, arg>>

-----------------------------------------------------------------------------
(* Drop for Interned                                                       *)

(* Mutant: a handle is dropped without being owned.                        *)
StartDropAny(t, a) ==
    /\ pc[t] = "idle" /\ a \in map
    /\ held' = Lose(held, t, a)
    /\ Begin(t, "drop", a)
    /\ UNCHANGED <<heap, strong, map, lock>>

StartDrop(t, a) ==
    /\ pc[t] = "idle" /\ held[t][a] > 0
    /\ held' = Lose(held, t, a)
    /\ Begin(t, "drop", a)
    /\ UNCHANGED <<heap, strong, map, lock>>

(* Mutant: the count of the map's own reference is forgotten.              *)
DropAtOne(t) ==
    /\ pc[t] = "drop"
    /\ Begin(t, IF strong[arg[t]] = 1 THEN "drop_slow" ELSE "decrement", arg[t])
    /\ UNCHANGED <<heap, strong, map, lock, held>>

(* The count is read without the lock.                                     *)
Drop(t) ==
    /\ pc[t] = "drop"
    /\ Begin(t, IF strong[arg[t]] = 2 THEN "drop_slow" ELSE "decrement", arg[t])
    /\ UNCHANGED <<heap, strong, map, lock, held>>

(* Mutant: drop_slow goes on without the lock.                             *)
DropSlowNoLock(t) ==
    /\ pc[t] = "drop_slow"
    /\ Begin(t, "recheck", arg[t])
    /\ UNCHANGED <<heap, strong, map, lock, held>>

DropSlowLock(t) ==
    /\ pc[t] = "drop_slow"
    /\ Acquire(t, Shard(heap[arg[t]]))
    /\ Begin(t, "recheck", arg[t])
    /\ UNCHANGED <<heap, strong, map, held>>

(* get_key_value and expect, then the count again, under the lock.         *)
DropSlowReturn(t) ==
    /\ pc[t] = "recheck"
    /\ \E a \in Matches(heap[arg[t]]) : strong[a] # 2
    /\ Release(Shard(heap[arg[t]]))
    /\ Begin(t, "decrement", arg[t])
    /\ UNCHANGED <<heap, strong, map, held>>

(* Mutant: the count is not read again.                                    *)
DropSlowNoRecheck(t) ==
    /\ pc[t] = "recheck"
    /\ Begin(t, "remove", arg[t])
    /\ UNCHANGED <<heap, strong, map, lock, held>>

DropSlowRecheck(t) ==
    /\ pc[t] = "recheck"
    /\ \E a \in Matches(heap[arg[t]]) : strong[a] = 2
    /\ Begin(t, "remove", arg[t])
    /\ UNCHANGED <<heap, strong, map, lock, held>>

DropSlowRemove(t) ==
    /\ pc[t] = "remove"
    /\ \E a \in Matches(heap[arg[t]]) :
          /\ map' = map \ {a}
          /\ strong' = [strong EXCEPT ![a] = @ - 1]
    /\ Release(Shard(heap[arg[t]]))
    /\ Begin(t, "decrement", arg[t])
    /\ UNCHANGED <<heap, held>>

(* The field `arc` is dropped after Drop::drop: the last one frees the     *)
(* object and drops its child.                                             *)
Decrement(t) ==
    /\ pc[t] = "decrement"
    /\ LET a     == arg[t]
           child == heap[a].child
       IN  /\ strong' = [strong EXCEPT ![a] = @ - 1]
           /\ IF strong[a] = 1 /\ child # Nil THEN Begin(t, "drop", child) ELSE Idle(t)
    /\ UNCHANGED <<heap, map, lock, held>>

-----------------------------------------------------------------------------
(* What a thread does once it has begun an operation.                      *)
Continue(t) ==
    \/ LookupLock(t) \/ LookupHit(t) \/ Alloc(t)
    \/ Drop(t) \/ DropSlowLock(t) \/ DropSlowReturn(t) \/ DropSlowRecheck(t)
    \/ DropSlowRemove(t) \/ Decrement(t)

Next ==
    \E t \in Threads :
        \/ StartNew(t) \/ Continue(t)
        \/ \E a \in Addrs : Clone(t, a) \/ StartDrop(t, a)
        \/ \E a \in Addrs, u \in Threads : Send(t, u, a)

Spec == Init /\ [][Next]_vars

(* A running thread is scheduled again.  Nothing is assumed of who gets a  *)
(* lock.                                                                   *)
FairSpec == Spec /\ \A t \in Threads : WF_vars(Continue(t))

-----------------------------------------------------------------------------
(* Properties                                                              *)

PC == {"idle", "lookup", "found?", "drop", "drop_slow", "recheck", "remove", "decrement"}
Dropping(t) == pc[t] \notin {"idle", "lookup", "found?"}

(* A thread holds the lock of the shard it is working on, and no other: it *)
(* never waits for one while it holds one.                                 *)
Holds(t) == pc[t] \in {"found?", "recheck", "remove"}
ShardUsed(t) == Shard(IF Creating(t) THEN arg[t] ELSE heap[arg[t]])

TypeOK ==
    /\ heap \in [Addrs -> Object]
    /\ strong \in [Addrs -> Nat]
    /\ map \subseteq Addrs
    /\ lock \in [Shards -> Threads \union {NoThread}]
    /\ held \in [Threads -> [Addrs -> Nat]]
    /\ pc \in [Threads -> PC]
    /\ \A t \in Threads :
          /\ Creating(t) => arg[t] \in Object
          /\ Dropping(t) => arg[t] \in Addrs
          /\ pc[t] = "idle" => arg[t] = Nil
    /\ \A s \in Shards, t \in Threads : lock[s] = t <=> Holds(t) /\ ShardUsed(t) = s

(* The owners of an address: the handles of the threads (numbered), the    *)
(* threads that drop one, those that intern an object with it, and the     *)
(* objects of the heap with it.                                            *)
Handles(h, a) == UNION {{<<t, i>> : i \in 1 .. h[t][a]} : t \in Threads}
Droppers(a) == {t \in Threads : Dropping(t) /\ arg[t] = a}
Creators(a) == {t \in Threads : Creating(t) /\ arg[t].child = a}
Parents(a) == {p \in Allocated : heap[p].child = a}

(* Every strong reference is owned by exactly one of: the map, a handle of *)
(* a thread, the handle a thread is dropping, an object being interned and *)
(* an object in the heap.  Nothing is freed twice or while it is used.     *)
CountsExact ==
    \A a \in Addrs :
        strong[a] =
            (IF a \in map THEN 1 ELSE 0)
            + Cardinality(Handles(held, a)) + Cardinality(Droppers(a))
            + Cardinality(Creators(a)) + Cardinality(Parents(a))

(* The addresses of the handles that can still be compared, cloned or      *)
(* looked into: not one that is being dropped.                             *)
Usable ==
    {a \in Addrs :
        \/ \E t \in Threads : held[t][a] > 0 \/ (Creating(t) /\ arg[t].child = a)
        \/ \E p \in Allocated : heap[p].child = a}

(* The tree of labels under an address, down to the depth n.               *)
Tree[n \in Nat] ==
    [a \in Addrs |->
        <<heap[a].label,
          IF n = 0 \/ heap[a].child = Nil THEN <<>> ELSE Tree[n - 1][heap[a].child]>>]

(* Pointer equality is structural equality, though objects are compared    *)
(* only one level deep: no two usable handles to equal trees have different*)
(* addresses, whatever was dropped and interned again in between.          *)
Canonical ==
    \A a, b \in Usable :
        Tree[Cardinality(Addrs)][a] = Tree[Cardinality(Addrs)][b] => a = b

(* A value is removed from the map only when nothing else can use it: a    *)
(* drop that has seen the count 2 finds its own Arc in the map, even       *)
(* though it read the count without the lock (the expect "interned value   *)
(* removed prematurely", intern.rs:327, never fails).                      *)
NotRemovedPrematurely ==
    /\ Usable \subseteq map
    /\ \A t \in Threads :
          pc[t] \in {"recheck", "remove"} => Matches(heap[arg[t]]) = {arg[t]}

(* Between reading the count 2 under the lock and removing the Arc no one  *)
(* gets hold of it again.                                                  *)
RemovesUnused ==
    \A t \in Threads : pc[t] = "remove" => strong[arg[t]] = 2 /\ arg[t] \notin Usable

(* "When the last `Ref` is dropped, remove the object from the global map."*)
(* (intern.rs:307): when no thread is in an operation, every object of the *)
(* map has a handle.                                                       *)
LastDropRemoves ==
    (\A t \in Threads : pc[t] = "idle") => map \subseteq Usable

(* A lock that is taken is given back, although dropping an object drops   *)
(* its child, which may be in the same shard.                              *)
LocksReleased == \A s \in Shards : lock[s] # NoThread ~> lock[s] = NoThread
=============================================================================
