----------------------------- MODULE Partition -----------------------------
(***************************************************************************)
(* What a DisjointSetsMap promises                                         *)
(* (src/liquid-rust-common/src/disjoint_sets.rs): the indices given so far *)
(* are divided into classes, and each class has one element.               *)
(***************************************************************************)
EXTENDS Integers, FiniteSets

CONSTANTS
    Elems,          \* the elements a class can have
    Merge(_, _)     \* the merge the callers pass

VARIABLES
    classes,        \* a partition of the indices
    value           \* the element of each class

vars == <<classes, value>>

Indices == UNION classes
ClassOf(i) == CHOOSE c \in classes : i \in c

Init ==
    /\ classes = {{i} : i \in Indices}
    /\ \A i \in Indices : i \in Nat /\ i < Cardinality(Indices)
    /\ value \in [classes -> Elems]

(* The next index, alone in its class.                                     *)
Push(e) ==
    LET new == {Cardinality(Indices)}
    IN  /\ classes' = classes \union {new}
        /\ value' = [c \in classes' |-> IF c = new THEN e ELSE value[c]]

Union(i, j) ==
    LET c    == ClassOf(i)
        d    == ClassOf(j)
        both == c \union d
    IN  /\ c # d
        /\ classes' = (classes \ {c, d}) \union {both}
        /\ value' = [b \in classes' |-> IF b = both THEN Merge(value[c], value[d]) ELSE value[b]]

Update(i, e) ==
    /\ value' = [value EXCEPT ![ClassOf(i)] = e]
    /\ UNCHANGED classes

MapValues(f) ==
    /\ value' = [c \in classes |-> f[value[c]]]
    /\ UNCHANGED classes

(* Each index i of the other map, in order, merges other[i] into its class.*)
MergeWith(other) ==
    LET n == Cardinality(DOMAIN other)
        merged[k \in 0..n] ==
          IF k = 0 THEN value
          ELSE [merged[k - 1] EXCEPT ![ClassOf(k - 1)] = Merge(@, other[k - 1])]
    IN  /\ value' = merged[n]
        /\ UNCHANGED classes

Next ==
    \/ \E e \in Elems : Push(e)
    \/ \E i, j \in Indices : Union(i, j)
    \/ \E i \in Indices, e \in Elems : Update(i, e)
    \/ \E f \in [Elems -> Elems] : MapValues(f)
    \/ \E n \in 0..Cardinality(Indices) : \E other \in [0..(n - 1) -> Elems] : MergeWith(other)

Spec == Init /\ [][Next]_vars
=============================================================================
