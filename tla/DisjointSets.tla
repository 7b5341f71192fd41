---------------------------- MODULE DisjointSets ----------------------------
(***************************************************************************)
(* DisjointSetsMap (src/liquid-rust-common/src/disjoint_sets.rs): a forest *)
(* with union by size and path compression.  The members of a set are also *)
(* a cycle of the table next, which a union splices, and map has the       *)
(* element of each root and of nothing else.                               *)
(*                                                                         *)
(* unchecked_find compresses through a Cell, so even the operations that   *)
(* take &self change parent.                                               *)
(***************************************************************************)
EXTENDS Naturals, Sequences, FiniteSets, SequencesExt

CONSTANTS
    Elems,
    Merge(_, _),
    MaxSize         \* bound on the number of indices

ASSUME DisjointSetsAssumption ==
    /\ MaxSize \in Nat
    /\ \A a, b \in Elems : Merge(a, b) \in Elems

VARIABLES
    map,        \* DisjointSetsMap.map: from roots to elements
    parent,     \* DisjointSetsMap.parent
    size,       \* DisjointSetsMap.size, meaningful for a root
    next        \* DisjointSetsMap.next

vars == <<map, parent, size, next>>

Indices == DOMAIN parent
IndexSets == {0..(n - 1) : n \in 1..MaxSize} \union {{}}

(* from_iter and, with no element, new.                                    *)
Init ==
    \E is \in IndexSets :
        /\ map \in [is -> Elems]
        /\ parent = [i \in is |-> i]
        /\ size = [i \in is |-> 1]
        /\ next = [i \in is |-> i]

-----------------------------------------------------------------------------
(* unchecked_find                                                          *)

(* The indices from i up to its root.                                      *)
Path(p, i) ==
    LET up[j \in DOMAIN p] == IF p[j] = j THEN {j} ELSE {j} \union up[p[j]] IN up[i]
Root(p, i) == CHOOSE r \in Path(p, i) : p[r] = r

(* parent after a find: every index passed points at the root.             *)
Compressed(p, i) == [j \in DOMAIN p |-> IF j \in Path(p, i) THEN Root(p, i) ELSE p[j]]

-----------------------------------------------------------------------------
(* The operations                                                          *)

Extend(f, v) == [i \in 0..Cardinality(Indices) |-> IF i \in Indices THEN f[i] ELSE v]

Push(e) ==
    LET idx == Cardinality(Indices)
    IN  /\ idx < MaxSize
        /\ map' = [i \in DOMAIN map \union {idx} |-> IF i = idx THEN e ELSE map[i]]
        /\ parent' = Extend(parent, idx)
        /\ size' = Extend(size, 1)
        /\ next' = Extend(next, idx)

SameSet(i, j) ==
    /\ parent' = Compressed(Compressed(parent, i), j)
    /\ UNCHANGED <<map, size, next>>

(* Mutants of Union, by what differs: the larger tree goes under the       *)
(* smaller, the element stays with the first root, the element of the      *)
(* smaller is lost, the indices are spliced before the roots are compared*)
UnionBy(i, j, largest, keyed, merged, spliced) ==
    LET p     == Compressed(Compressed(parent, i), j)
        root1 == Root(parent, i)
        root2 == Root(parent, j)
        root  == IF (size[root1] <= size[root2]) = largest THEN root2 ELSE root1
        other == IF root = root2 THEN root1 ELSE root2
        key   == IF keyed THEN root ELSE root1
    IN  IF root1 = root2
        THEN /\ next' = IF spliced THEN next ELSE [next EXCEPT ![i] = next[j], ![j] = next[i]]
             /\ parent' = p /\ UNCHANGED <<map, size>>
        ELSE /\ next' = [next EXCEPT ![root1] = next[root2], ![root2] = next[root1]]
             /\ parent' = [p EXCEPT ![other] = root]
             /\ size' = [size EXCEPT ![root] = @ + size[other]]
             /\ map' = [r \in (DOMAIN map \ {root1, root2}) \union {key} |->
                          IF r # key THEN map[r]
                          ELSE IF merged THEN Merge(map[root1], map[root2])
                          ELSE map[root]]
UnionUnderSmaller(i, j) == UnionBy(i, j, FALSE, TRUE, TRUE, TRUE)
UnionKeptAtFirst(i, j) == UnionBy(i, j, TRUE, FALSE, TRUE, TRUE)
UnionUnmerged(i, j) == UnionBy(i, j, TRUE, TRUE, FALSE, TRUE)
UnionSplicedFirst(i, j) == UnionBy(i, j, TRUE, TRUE, TRUE, FALSE)

(* multi_union is a sequence of unions with its first index.               *)
(* The smaller tree goes under the larger, the first on a tie.             *)
Union(i, j) ==
    LET p     == Compressed(Compressed(parent, i), j)
        root1 == Root(parent, i)
        root2 == Root(parent, j)
        root  == IF size[root1] <= size[root2] THEN root2 ELSE root1
        other == IF root = root2 THEN root1 ELSE root2
    IN  IF root1 = root2
        THEN parent' = p /\ UNCHANGED <<map, size, next>>
        ELSE /\ next' = [next EXCEPT ![root1] = next[root2], ![root2] = next[root1]]
             /\ parent' = [p EXCEPT ![other] = root]
             /\ size' = [size EXCEPT ![root] = @ + size[other]]
             /\ map' = [r \in DOMAIN map \ {other} |->
                          IF r = root THEN Merge(map[root1], map[root2]) ELSE map[r]]

(* get_mut and update: find starts compressing at the parent of i.         *)
Update(i, e) ==
    /\ parent' = Compressed(parent, parent[i])
    /\ map' = [map EXCEPT ![Root(parent, i)] = e]
    /\ UNCHANGED <<size, next>>

Get(i) ==
    /\ parent' = Compressed(parent, parent[i])
    /\ UNCHANGED <<map, size, next>>

(* map_values and values_mut                                               *)
MapValues(f) ==
    /\ map' = [r \in DOMAIN map |-> f[map[r]]]
    /\ UNCHANGED <<parent, size, next>>

(* merge_with: other[i] is what Index gives of the other map, which has no *)
(* more indices than this one.                                             *)
MergeWith(other) ==
    LET n == Cardinality(DOMAIN other)
        parents[k \in 0..n] ==
          IF k = 0 THEN parent ELSE Compressed(parents[k - 1], parents[k - 1][k - 1])
        maps[k \in 0..n] ==
          IF k = 0 THEN map
          ELSE [maps[k - 1] EXCEPT ![Root(parent, k - 1)] = Merge(@, other[k - 1])]
    IN  /\ map' = maps[n]
        /\ parent' = parents[n]
        /\ UNCHANGED <<size, next>>

Next ==
    \/ \E e \in Elems : Push(e)
    \/ \E i, j \in Indices : SameSet(i, j) \/ Union(i, j)
    \/ \E i \in Indices : Get(i) \/ \E e \in Elems : Update(i, e)
    \/ \E f \in [Elems -> Elems] : MapValues(f)
    \/ \E is \in IndexSets : is \subseteq Indices /\ \E other \in [is -> Elems] : MergeWith(other)

Spec == Init /\ [][Next]_vars

-----------------------------------------------------------------------------
(* Properties                                                              *)

(* The iterator Set: size[root] indices along next, from the root.         *)
SetFrom(root) ==
    LET walk[n \in Nat] == IF n = 0 THEN <<root>> ELSE Append(walk[n - 1], next[Last(walk[n - 1])])
    IN  walk[size[root] - 1]

Roots == {i \in Indices : parent[i] = i}
Members(root) == {i \in Indices : Root(parent, i) = root}

(* The roots, and only they, have elements: the unwraps of union and of    *)
(* Index never panic, and iter and values list each set once.              *)
TypeOK ==
    /\ Indices \in IndexSets
    /\ parent \in [Indices -> Indices]
    /\ next \in [Indices -> Indices]
    /\ size \in [Indices -> 1..MaxSize]
    /\ DOMAIN map = Roots /\ \A r \in DOMAIN map : map[r] \in Elems

(* Walking next from a root for as long as its size lists the members of   *)
(* its tree, each once: the three tables agree on what a set is, whatever  *)
(* the order of unions and compressions.                                   *)
CyclesAreTrees ==
    \A r \in Roots :
        /\ Len(SetFrom(r)) = Cardinality(Members(r))
        /\ ToSet(SetFrom(r)) = Members(r)

(* Union by size keeps the recursion of unchecked_find logarithmic: an     *)
(* index at depth d is in a set of at least 2^d.                           *)
PowerOfTwo[n \in Nat] == IF n = 0 THEN 1 ELSE 2 * PowerOfTwo[n - 1]
DepthLogarithmic ==
    \A i \in Indices :
        PowerOfTwo[Cardinality(Path(parent, i)) - 1] <= size[Root(parent, i)]

(* The sets the iterators list, and the element of each.                  *)
Classes == {ToSet(SetFrom(r)) : r \in Roots}
Value == [c \in Classes |-> map[CHOOSE r \in Roots : r \in c]]
P == INSTANCE Partition WITH classes <- Classes, value <- Value

(* The forest is a partition of the indices whose classes are what the     *)
(* iterator lists, and each operation changes it as Partition says.        *)
ImplementsPartition == P!Spec
=============================================================================
