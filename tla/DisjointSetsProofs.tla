------------------------- MODULE DisjointSetsProofs -------------------------
(***************************************************************************)
(* DisjointSetsMap for any number of indices, any elements and any merge:  *)
(* its tables keep their types, the sizes are those of the sets, a path to *)
(* a root is logarithmic, the cycles of next list the trees of parent, and *)
(* the operations are those of Partition.                                  *)
(*                                                                         *)
(* What makes the forest one is not that it has no cycle but that sizes at *)
(* least double towards the root, those of former roots included, which no *)
(* operation looks at again.                                               *)
(***************************************************************************)
EXTENDS DisjointSets, InductionProofs, SequenceTheorems, TLAPS

-----------------------------------------------------------------------------
(* Forests                                                                 *)

(* p over the indices I is a forest that s shows to be one.                *)
Forest(I, p, s) ==
    /\ p \in [I -> I]
    /\ s \in [I -> 1..MaxSize]
    /\ \A i \in I : p[i] # i => 2 * s[i] <= s[p[i]]

(* Induction from the roots.                                               *)
LEMMA UpInduction ==
  ASSUME NEW I, NEW p, NEW s, Forest(I, p, s),
         NEW G, \A i \in I : (p[i] = i \/ p[i] \in G) => i \in G
  PROVE  I \subseteq G
<1> DEFINE T == {n \in Nat : \A i \in I : MaxSize - s[i] < n => i \in G}
<1>1. /\ MaxSize \in Nat
      /\ \A i \in I : p[i] \in I /\ s[i] \in 1..MaxSize /\ (p[i] # i => 2 * s[i] <= s[p[i]])
  BY DisjointSetsAssumption DEF Forest
<1>2. 0 \in T
  BY <1>1
<1>3. ASSUME NEW n \in Nat, n \in T PROVE n + 1 \in T
  <2> SUFFICES ASSUME NEW i \in I, MaxSize - s[i] < n + 1 PROVE i \in G
    OBVIOUS
  <2>1. CASE p[i] = i
    BY <2>1
  <2>2. CASE p[i] # i
    <3>1. p[i] \in I /\ s[i] \in 1..MaxSize /\ s[p[i]] \in 1..MaxSize /\ 2 * s[i] <= s[p[i]]
      BY <1>1, <2>2
    <3>2. MaxSize - s[p[i]] < n
      BY <1>1, <3>1
    <3> QED
      BY <1>3, <3>1, <3>2
  <2> QED
    BY <2>1, <2>2
<1> HIDE DEF T
<1>4. Nat \subseteq T
  BY <1>2, <1>3, SetInduction
<1>5. MaxSize + 1 \in T
  BY <1>1, <1>4
<1> QED
  BY <1>1, <1>5 DEF T

(* What a path is, without recursion: all that i reaches.                  *)
Above(I, p, i) ==
    {k \in I : \A C \in SUBSET I : i \in C /\ (\A x \in C : p[x] \in C) => k \in C}

LEMMA AboveUnfolds ==
  ASSUME NEW I, NEW p \in [I -> I], NEW i \in I
  PROVE  Above(I, p, i) = IF p[i] = i THEN {i} ELSE {i} \union Above(I, p, p[i])
<1>1. i \in Above(I, p, i)
  BY DEF Above
<1>2. CASE p[i] = i
  <2>1. ASSUME NEW k \in Above(I, p, i) PROVE k = i
    <3>1. {i} \in SUBSET I /\ i \in {i} /\ \A x \in {i} : p[x] \in {i}
      BY <1>2
    <3> QED
      BY <3>1, Zenon DEF Above
  <2> QED
    BY <1>1, <1>2, <2>1
<1>3. CASE p[i] # i
  <2> DEFINE A == {i} \union Above(I, p, p[i])
  <2>1. ASSUME NEW k \in Above(I, p, p[i]) PROVE k \in Above(I, p, i)
    BY DEF Above
  <2>2. A \in SUBSET I /\ i \in A /\ \A x \in A : p[x] \in A
    <3>1. p[i] \in Above(I, p, p[i])
      BY DEF Above
    <3>2. ASSUME NEW x \in Above(I, p, p[i]) PROVE p[x] \in Above(I, p, p[i])
      BY DEF Above
    <3>3. Above(I, p, p[i]) \subseteq I
      BY DEF Above
    <3> QED
      BY <3>1, <3>2, <3>3
  <2>3. ASSUME NEW k \in Above(I, p, i) PROVE k \in A
    <3> HIDE DEF A
    <3> QED
      BY <2>2, Zenon DEF Above
  <2> QED
    BY <1>1, <1>3, <2>1, <2>3
<1> QED
  BY <1>2, <1>3

(* The function that Path takes a value of.                                *)
PathsIs(p, up) ==
    up = [j \in DOMAIN p |-> IF p[j] = j THEN {j} ELSE {j} \union up[p[j]]]
Paths(p) == CHOOSE up : PathsIs(p, up)

LEMMA PathUnfolds ==
  ASSUME NEW I, NEW p \in [I -> I], NEW i \in I
  PROVE  Path(p, i) = IF p[i] = i THEN {i} ELSE {i} \union Path(p, p[i])
<1> DEFINE up == [j \in I |-> Above(I, p, j)]
<1>1. PathsIs(p, up)
  <2>1. \A j \in I : up[j] = Above(I, p, j) /\ p[j] \in I /\ up[p[j]] = Above(I, p, p[j])
    OBVIOUS
  <2>2. ASSUME NEW j \in I
        PROVE  Above(I, p, j) = IF p[j] = j THEN {j} ELSE {j} \union up[p[j]]
    <3>1. up[p[j]] = Above(I, p, p[j])
      BY <2>1
    <3> HIDE DEF up
    <3> QED
      BY <3>1, AboveUnfolds
  <2>3. up = [j \in I |-> IF p[j] = j THEN {j} ELSE {j} \union up[p[j]]]
    BY <2>2
  <2>4. DOMAIN p = I
    OBVIOUS
  <2> HIDE DEF up
  <2> QED
    BY <2>3, <2>4 DEF PathsIs
<1>2. PathsIs(p, Paths(p))
  <2> HIDE DEF up
  <2> QED
    BY <1>1 DEF Paths
<1>3. \A j : Path(p, j) = Paths(p)[j]
  BY DEF Path, Paths, PathsIs
<1>4. Paths(p)[i] = IF p[i] = i THEN {i} ELSE {i} \union Paths(p)[p[i]]
  <2>1. DOMAIN p = I
    OBVIOUS
  <2> QED
    BY <1>2, <2>1 DEF PathsIs
<1> QED
  BY <1>3, <1>4

(* A path stays inside, climbs, and sizes at least double on the way.      *)
LEMMA PathFacts ==
  ASSUME NEW I, NEW p, NEW s, Forest(I, p, s), NEW i \in I
  PROVE  /\ Path(p, i) \subseteq I /\ i \in Path(p, i)
         /\ \A k \in Path(p, i) : k # i => 2 * s[i] <= s[k]
<1> DEFINE G == {j \in I : /\ Path(p, j) \subseteq I /\ j \in Path(p, j)
                           /\ \A k \in Path(p, j) : k # j => 2 * s[j] <= s[k]}
<1>1. ASSUME NEW j \in I, p[j] = j \/ p[j] \in G PROVE j \in G
  <2>1. p \in [I -> I] /\ p[j] \in I
        /\ \A x \in I : s[x] \in Nat /\ s[x] > 0
        /\ (p[j] # j => 2 * s[j] <= s[p[j]])
    BY DisjointSetsAssumption DEF Forest
  <2>2. Path(p, j) = IF p[j] = j THEN {j} ELSE {j} \union Path(p, p[j])
    BY <2>1, PathUnfolds
  <2>3. CASE p[j] = j
    BY <2>2, <2>3
  <2>4. CASE p[j] # j
    <3>1. /\ Path(p, p[j]) \subseteq I /\ p[j] \in Path(p, p[j])
          /\ \A k \in Path(p, p[j]) : k # p[j] => 2 * s[p[j]] <= s[k]
      BY <1>1, <2>4
    <3>2. ASSUME NEW k \in Path(p, j), k # j PROVE 2 * s[j] <= s[k]
      <4>1. k \in Path(p, p[j]) /\ k \in I
        BY <2>2, <2>4, <3>1, <3>2
      <4> QED
        BY <2>1, <2>4, <3>1, <4>1
    <3> QED
      BY <2>2, <2>4, <3>1, <3>2
  <2> QED
    BY <2>3, <2>4
<1> HIDE DEF G
<1>2. I \subseteq G
  BY <1>1, UpInduction
<1> QED
  BY <1>2 DEF G

(* Each path has one root, at its end.                                     *)
EndsAt(p, i, r) == \A x : (x \in Path(p, i) /\ p[x] = x) <=> x = r

LEMMA RootFacts ==
  ASSUME NEW I, NEW p, NEW s, Forest(I, p, s), NEW i \in I
  PROVE  /\ Root(p, i) \in I /\ EndsAt(p, i, Root(p, i))
         /\ p[Root(p, i)] = Root(p, i) /\ Root(p, i) \in Path(p, i)
         /\ p[i] \in I /\ Root(p, p[i]) = Root(p, i)
         /\ p[i] = i => Root(p, i) = i
<1> DEFINE G == {j \in I : \E r \in I : EndsAt(p, j, r)}
<1>1. p \in [I -> I]
  BY DEF Forest
<1>2. ASSUME NEW j \in I, p[j] = j \/ p[j] \in G PROVE j \in G
  <2>1. Path(p, j) = IF p[j] = j THEN {j} ELSE {j} \union Path(p, p[j])
    BY <1>1, PathUnfolds
  <2> QED
    BY <1>2, <2>1 DEF EndsAt
<1> HIDE DEF G
<1>3. I \subseteq G
  BY <1>2, UpInduction
<1>4. ASSUME NEW j \in I PROVE Root(p, j) \in I /\ EndsAt(p, j, Root(p, j))
  <2>1. PICK r \in I : EndsAt(p, j, r)
    BY <1>3 DEF G
  <2>2. Root(p, j) = r
    BY <2>1 DEF EndsAt, Root
  <2> QED
    BY <2>1, <2>2
<1>5. p[i] \in I
  BY <1>1
<1>6. Path(p, i) = IF p[i] = i THEN {i} ELSE {i} \union Path(p, p[i])
  BY <1>1, PathUnfolds
<1>7. EndsAt(p, i, Root(p, i)) /\ EndsAt(p, p[i], Root(p, p[i])) /\ Root(p, i) \in I
  BY <1>4, <1>5
<1>8. p[Root(p, i)] = Root(p, i) /\ Root(p, i) \in Path(p, i)
  BY <1>7 DEF EndsAt
<1>9. Root(p, p[i]) = Root(p, i)
  <2>1. Root(p, p[i]) \in Path(p, p[i]) /\ p[Root(p, p[i])] = Root(p, p[i])
    BY <1>7 DEF EndsAt
  <2>2. Root(p, p[i]) \in Path(p, i)
    BY <1>6, <2>1
  <2> QED
    BY <1>7, <2>1, <2>2 DEF EndsAt
<1>10. p[i] = i => Root(p, i) = i
  BY <1>6, <1>8
<1> QED
  BY <1>5, <1>7, <1>8, <1>9, <1>10

(* All that is on the path of i has its root, and a root is the largest.   *)
LEMMA RootOfPath ==
  ASSUME NEW I, NEW p, NEW s, Forest(I, p, s), NEW i \in I, NEW k \in Path(p, i)
  PROVE  k \in I /\ Root(p, k) = Root(p, i)
<1> DEFINE G == {j \in I : \A x \in Path(p, j) : Root(p, x) = Root(p, j)}
<1>1. ASSUME NEW j \in I, p[j] = j \/ p[j] \in G PROVE j \in G
  <2>1. Path(p, j) = IF p[j] = j THEN {j} ELSE {j} \union Path(p, p[j])
    BY PathUnfolds DEF Forest
  <2>2. Root(p, p[j]) = Root(p, j)
    BY RootFacts
  <2> QED
    BY <1>1, <2>1, <2>2
<1> HIDE DEF G
<1>2. I \subseteq G
  BY <1>1, UpInduction
<1> QED
  BY <1>2, PathFacts DEF G

(* Only a root is its own root.                                            *)
LEMMA RootUnique ==
  ASSUME NEW I, NEW p, NEW s, Forest(I, p, s), NEW i \in I
  PROVE  p[i] = i <=> Root(p, i) = i
BY RootFacts

LEMMA RootGrows ==
  ASSUME NEW I, NEW p, NEW s, Forest(I, p, s), NEW i \in I, Root(p, i) # i
  PROVE  2 * s[i] <= s[Root(p, i)]
BY RootFacts, PathFacts

-----------------------------------------------------------------------------
(* What the operations do to a forest                                      *)

(* The same trees, with some indices nearer to their roots.                *)
Shortened(I, p, s, q) ==
    /\ Forest(I, q, s)
    /\ \A k \in I : Root(q, k) = Root(p, k) /\ (q[k] = k <=> p[k] = k)

LEMMA ShortcutFacts ==
  ASSUME NEW I, NEW p, NEW s, Forest(I, p, s), NEW q \in [I -> I],
         \A k \in I : q[k] = p[k] \/ q[k] = Root(p, k)
  PROVE  Shortened(I, p, s, q)
<1>1. Forest(I, q, s)
  <2>1. ASSUME NEW k \in I, q[k] # k PROVE 2 * s[k] <= s[q[k]]
    <3>1. CASE q[k] = p[k]
      BY <2>1, <3>1 DEF Forest
    <3>2. CASE q[k] = Root(p, k)
      BY <2>1, <3>2, RootGrows
    <3> QED
      BY <3>1, <3>2
  <2> QED
    BY <2>1 DEF Forest
<1>2. \A k \in I : q[k] = k <=> p[k] = k
  BY RootUnique, RootFacts
<1> DEFINE G == {k \in I : Root(q, k) = Root(p, k)}
<1>3. ASSUME NEW k \in I, p[k] = k \/ p[k] \in G PROVE k \in G
  <2>1. CASE p[k] = k
    BY <1>1, <1>2, <2>1, RootFacts
  <2>2. CASE p[k] # k /\ q[k] = p[k]
    <3>1. Root(q, p[k]) = Root(p, p[k])
      BY <1>3, <2>2
    <3>2. Root(q, k) = Root(q, q[k]) /\ Root(p, k) = Root(p, p[k])
      BY <1>1, RootFacts
    <3> QED
      BY <2>2, <3>1, <3>2
  <2>3. CASE q[k] = Root(p, k)
    <3> DEFINE r == Root(p, k)
    <3>1. r \in I /\ p[r] = r
      BY RootFacts
    <3>2. Root(q, r) = r
      BY <1>1, <1>2, <3>1, RootFacts
    <3>3. Root(q, k) = Root(q, q[k])
      BY <1>1, RootFacts
    <3> QED
      BY <2>3, <3>2, <3>3
  <2> QED
    BY <2>1, <2>2, <2>3
<1> HIDE DEF G
<1>4. I \subseteq G
  BY <1>3, UpInduction
<1> QED
  BY <1>1, <1>2, <1>4 DEF G, Shortened

LEMMA CompressedFacts ==
  ASSUME NEW I, NEW p, NEW s, Forest(I, p, s), NEW i \in I
  PROVE  Shortened(I, p, s, Compressed(p, i))
<1>1. DOMAIN p = I
  BY DEF Forest
<1>2. \A k \in I : Compressed(p, i)[k] = IF k \in Path(p, i) THEN Root(p, i) ELSE p[k]
  BY <1>1 DEF Compressed
<1>3. \A k \in I : Compressed(p, i)[k] = p[k] \/ Compressed(p, i)[k] = Root(p, k)
  BY <1>2, RootOfPath
<1>4. Compressed(p, i) \in [I -> I]
  <2>1. \A k \in I : (IF k \in Path(p, i) THEN Root(p, i) ELSE p[k]) \in I
    BY RootFacts DEF Forest
  <2> QED
    BY <1>1, <2>1 DEF Compressed
<1> QED
  BY <1>3, <1>4, ShortcutFacts

LEMMA ShortenedTwice ==
  ASSUME NEW I, NEW p, NEW s, NEW q, NEW u,
         Shortened(I, p, s, q), Shortened(I, q, s, u)
  PROVE  Shortened(I, p, s, u)
BY DEF Shortened

LEMMA CompressedTwice ==
  ASSUME NEW I, NEW p, NEW s, Forest(I, p, s), NEW i \in I, NEW j \in I
  PROVE  Shortened(I, p, s, Compressed(Compressed(p, i), j))
<1>1. Shortened(I, p, s, Compressed(p, i))
  BY CompressedFacts
<1>2. Shortened(I, Compressed(p, i), s, Compressed(Compressed(p, i), j))
  BY <1>1, CompressedFacts DEF Shortened
<1> QED
  BY <1>1, <1>2, ShortenedTwice

(* The root other goes under root, which is no smaller.                    *)
Linked(I, q, s, root, other, u, t) ==
    /\ root \in I /\ other \in I /\ root # other
    /\ q[root] = root /\ q[other] = other /\ s[other] <= s[root]
    /\ u = [q EXCEPT ![other] = root]
    /\ t = [s EXCEPT ![root] = s[root] + s[other]]

LEMMA LinkFacts ==
  ASSUME NEW I, NEW q, NEW s, Forest(I, q, s), NEW root, NEW other, NEW u, NEW t,
         Linked(I, q, s, root, other, u, t), s[root] + s[other] <= MaxSize
  PROVE  /\ Forest(I, u, t)
         /\ \A k \in I : /\ Root(u, k) = IF Root(q, k) = other THEN root ELSE Root(q, k)
                         /\ u[k] = k <=> (q[k] = k /\ k # other)
<1>0. /\ root \in I /\ other \in I /\ root # other
      /\ q[root] = root /\ q[other] = other /\ s[other] <= s[root]
  BY DEF Linked
<1>1. /\ q \in [I -> I] /\ \A k \in I : q[k] \in I /\ s[k] \in 1..MaxSize
      /\ \A k \in I : q[k] # k => 2 * s[k] <= s[q[k]]
      /\ MaxSize \in Nat
  BY DisjointSetsAssumption DEF Forest
<1>2. /\ u \in [I -> I] /\ t \in [I -> 1..MaxSize]
      /\ \A k \in I : /\ u[k] = IF k = other THEN root ELSE q[k]
                      /\ t[k] = IF k = root THEN s[root] + s[other] ELSE s[k]
  <2>1. s[root] + s[other] \in 1..MaxSize
    BY <1>0, <1>1
  <2> QED
    BY <1>0, <1>1, <2>1 DEF Forest, Linked
<1>3. ASSUME NEW k \in I, u[k] # k PROVE 2 * t[k] <= t[u[k]]
  <2>1. CASE k = other
    BY <1>0, <1>1, <1>2, <2>1
  <2>2. CASE k # other
    <3>1. u[k] = q[k] /\ q[k] # k /\ k # root
      BY <1>0, <1>2, <1>3, <2>2
    <3>2. t[k] = s[k] /\ s[q[k]] <= t[q[k]] /\ 2 * s[k] <= s[q[k]]
      BY <1>0, <1>1, <1>2, <3>1
    <3>3. t[q[k]] \in Nat /\ s[q[k]] \in Nat /\ s[k] \in Nat
      BY <1>1, <1>2
    <3> QED
      BY <3>1, <3>2, <3>3
  <2> QED
    BY <2>1, <2>2
<1>4. Forest(I, u, t)
  BY <1>2, <1>3 DEF Forest
<1> DEFINE G == {k \in I : Root(u, k) = IF Root(q, k) = other THEN root ELSE Root(q, k)}
<1>5. ASSUME NEW k \in I, q[k] = k \/ q[k] \in G PROVE k \in G
  <2>1. CASE k = other
    <3>1. Root(q, k) = other /\ u[k] = root
      BY <1>0, <1>2, <2>1, RootFacts
    <3>2. Root(u, root) = root
      BY <1>0, <1>2, <1>4, RootFacts
    <3> QED
      BY <1>0, <1>4, <3>1, <3>2, RootFacts
  <2>2. CASE k # other /\ q[k] = k
    <3>1. Root(q, k) = k /\ u[k] = k
      BY <1>0, <1>2, <2>2, RootFacts
    <3>2. Root(u, k) = k
      BY <1>4, <3>1, RootFacts
    <3> QED
      BY <2>2, <3>1, <3>2
  <2>3. CASE k # other /\ q[k] # k
    <3>1. u[k] = q[k] /\ Root(u, q[k]) = IF Root(q, q[k]) = other THEN root ELSE Root(q, q[k])
      BY <1>2, <1>5, <2>3
    <3>2. Root(u, k) = Root(u, u[k]) /\ Root(q, k) = Root(q, q[k])
      BY <1>4, RootFacts
    <3> QED
      BY <3>1, <3>2
  <2> QED
    BY <2>1, <2>2, <2>3
<1> HIDE DEF G
<1>6. I \subseteq G
  BY <1>5, UpInduction
<1>7. \A k \in I : u[k] = k <=> (q[k] = k /\ k # other)
  BY <1>0, <1>2
<1> QED
  BY <1>4, <1>6, <1>7 DEF G

-----------------------------------------------------------------------------
(* The tables together                                                     *)

InTree(I, p, r) == {i \in I : Root(p, i) = r}

Sized(I, p, s) == \A r \in I : p[r] = r => s[r] = Cardinality(InTree(I, p, r))

(* n steps of nx from r pass all of M once and are back at r.              *)
Tours(nx, r, n, M, c) ==
    /\ c \in [0..(n - 1) -> M]
    /\ c[0] = r /\ nx[c[n - 1]] = r
    /\ \A k \in 1..(n - 1) : nx[c[k - 1]] = c[k] /\ c[k] # r
    /\ \A x \in M : \E k \in 0..(n - 1) : c[k] = x
Cycle(nx, r, n, M) == \E c : Tours(nx, r, n, M, c)

Tables(I, p, s, nx) ==
    /\ Forest(I, p, s)
    /\ Sized(I, p, s)
    /\ nx \in [I -> I]
    /\ \A r \in I : p[r] = r => Cycle(nx, r, s[r], InTree(I, p, r))

LEMMA TablesShortened ==
  ASSUME NEW I, NEW p, NEW s, NEW nx, NEW q, Tables(I, p, s, nx), Shortened(I, p, s, q)
  PROVE  Tables(I, q, s, nx)
<1>1. \A r : InTree(I, q, r) = InTree(I, p, r)
  BY DEF InTree, Shortened
<1> QED
  BY <1>1 DEF Tables, Sized, Shortened

LEMMA CycleKept ==
  ASSUME NEW nx, NEW my, NEW r, NEW n \in Nat \ {0}, NEW M, Cycle(nx, r, n, M),
         \A x \in M : my[x] = nx[x]
  PROVE  Cycle(my, r, n, M)
<1>1. PICK c : Tours(nx, r, n, M, c)
  BY DEF Cycle
<1>2. /\ c \in [0..(n - 1) -> M] /\ c[0] = r /\ nx[c[n - 1]] = r
      /\ \A k \in 1..(n - 1) : nx[c[k - 1]] = c[k] /\ c[k] # r
      /\ \A x \in M : \E k \in 0..(n - 1) : c[k] = x
  BY <1>1 DEF Tours
<1>3. n - 1 \in 0..(n - 1) /\ \A k \in 1..(n - 1) : k - 1 \in 0..(n - 1)
  OBVIOUS
<1>4. my[c[n - 1]] = r /\ \A k \in 1..(n - 1) : my[c[k - 1]] = c[k]
  BY <1>2, <1>3
<1>5. Tours(my, r, n, M, c)
  BY <1>2, <1>4 DEF Tours
<1> QED
  BY <1>5 DEF Cycle

(* Exchanging nx[a] and nx[b] makes one cycle of two.                      *)
Spliced(I, nx, my, a, b) ==
    /\ nx \in [I -> I] /\ my \in [I -> I] /\ a \in I /\ b \in I
    /\ my[a] = nx[b] /\ my[b] = nx[a]
    /\ \A x \in I : x # a /\ x # b => my[x] = nx[x]

LEMMA Splice ==
  ASSUME NEW I, NEW nx, NEW my, NEW a, NEW b, Spliced(I, nx, my, a, b),
         NEW m \in Nat \ {0}, NEW n \in Nat \ {0},
         NEW A \in SUBSET I, NEW B \in SUBSET I, A \intersect B = {},
         Cycle(nx, a, m, A), Cycle(nx, b, n, B)
  PROVE  Cycle(my, a, m + n, A \union B)
<1> /\ nx \in [I -> I] /\ my \in [I -> I] /\ a \in I /\ b \in I
    /\ my[a] = nx[b] /\ my[b] = nx[a]
    /\ \A x \in I : x # a /\ x # b => my[x] = nx[x]
  BY DEF Spliced
<1>1. PICK c : Tours(nx, a, m, A, c)
  BY DEF Cycle
<1>2. PICK d : Tours(nx, b, n, B, d)
  BY DEF Cycle
<1>3. /\ c \in [0..(m - 1) -> A] /\ c[0] = a /\ nx[c[m - 1]] = a
      /\ \A k \in 1..(m - 1) : nx[c[k - 1]] = c[k] /\ c[k] # a
      /\ \A x \in A : \E k \in 0..(m - 1) : c[k] = x
  BY <1>1 DEF Tours
<1>4. /\ d \in [0..(n - 1) -> B] /\ d[0] = b /\ nx[d[n - 1]] = b
      /\ \A k \in 1..(n - 1) : nx[d[k - 1]] = d[k] /\ d[k] # b
      /\ \A x \in B : \E k \in 0..(n - 1) : d[k] = x
  BY <1>2 DEF Tours
<1>5. /\ \A k \in 0..(m - 1) : c[k] \in A /\ c[k] \in I /\ c[k] \notin B
      /\ \A k \in 0..(n - 1) : d[k] \in B /\ d[k] \in I /\ d[k] \notin A
      /\ a \in A /\ b \in B
  <2>1. \A k \in 0..(m - 1) : c[k] \in A
    BY <1>3
  <2>2. \A k \in 0..(n - 1) : d[k] \in B
    BY <1>4
  <2>3. 0 \in 0..(m - 1) /\ 0 \in 0..(n - 1)
    OBVIOUS
  <2> QED
    BY <1>3, <1>4, <2>1, <2>2, <2>3
<1> DEFINE f == [k \in 0..(m + n - 1) |->
                   IF k = 0 THEN a ELSE IF k < n THEN d[k] ELSE IF k = n THEN b ELSE c[k - n]]
<1>6. /\ f[0] = a /\ f[n] = b
      /\ \A k \in 1..(n - 1) : f[k] = d[k]
      /\ \A k \in (n + 1)..(m + n - 1) : f[k] = c[k - n]
  OBVIOUS
<1>7. f \in [0..(m + n - 1) -> A \union B]
  <2> SUFFICES ASSUME NEW k \in 0..(m + n - 1) PROVE f[k] \in A \union B
    OBVIOUS
  <2> HIDE DEF f
  <2>1. k = 0 \/ k = n \/ k \in 1..(n - 1) \/ (k \in (n + 1)..(m + n - 1) /\ k - n \in 0..(m - 1))
    OBVIOUS
  <2>2. k \in 1..(n - 1) => k \in 0..(n - 1)
    OBVIOUS
  <2> QED
    BY <1>5, <1>6, <2>1, <2>2
<1> HIDE DEF f
<1>8. my[f[m + n - 1]] = a
  <2>1. CASE m = 1
    <3>1. f[m + n - 1] = b /\ nx[a] = a
      BY <1>3, <1>6, <2>1
    <3> QED
      BY <3>1
  <2>2. CASE m # 1
    <3>1. m + n - 1 \in (n + 1)..(m + n - 1) /\ (m + n - 1) - n = m - 1 /\ m - 1 \in 1..(m - 1)
          /\ m - 1 \in 0..(m - 1)
      BY <2>2
    <3>2. f[m + n - 1] = c[m - 1] /\ c[m - 1] # a /\ c[m - 1] # b /\ c[m - 1] \in I
      BY <1>3, <1>5, <1>6, <3>1
    <3> QED
      BY <1>3, <3>2
  <2> QED
    BY <2>1, <2>2
<1>9. ASSUME NEW k \in 1..(m + n - 1)
      PROVE  my[f[k - 1]] = f[k] /\ f[k] # a
  <2>1. CASE k = 1 /\ n = 1
    BY <1>4, <1>5, <1>6, <2>1
  <2>2. CASE k = 1 /\ n # 1
    <3>1. 1 \in 1..(n - 1) /\ 1 \in 0..(n - 1) /\ 1 - 1 = 0
      BY <2>2
    <3>2. nx[b] = d[1] /\ f[1] = d[1] /\ d[1] # a
      BY <1>4, <1>5, <1>6, <3>1
    <3> QED
      BY <1>6, <2>2, <3>2
  <2>3. CASE k # 1 /\ k < n
    <3>1. k \in 1..(n - 1) /\ k - 1 \in 1..(n - 1) /\ k \in 0..(n - 1) /\ k - 1 \in 0..(n - 1)
      BY <2>3
    <3>2. /\ f[k] = d[k] /\ f[k - 1] = d[k - 1] /\ nx[d[k - 1]] = d[k]
          /\ d[k - 1] # b /\ d[k - 1] # a /\ d[k] # a /\ d[k - 1] \in I
      BY <1>4, <1>5, <1>6, <3>1
    <3> QED
      BY <3>2
  <2>4. CASE k # 1 /\ k = n
    <3>1. k - 1 \in 1..(n - 1) /\ k - 1 \in 0..(n - 1) /\ k - 1 = n - 1
      BY <2>4
    <3>2. f[k - 1] = d[n - 1] /\ d[n - 1] # b /\ d[n - 1] # a /\ d[n - 1] \in I /\ f[k] = b
      BY <1>4, <1>5, <1>6, <2>4, <3>1
    <3> QED
      BY <1>4, <1>5, <3>2
  <2>5. CASE k = n + 1
    <3>1. k \in (n + 1)..(m + n - 1) /\ k - n = 1 /\ 1 \in 1..(m - 1) /\ k - 1 = n /\ 1 - 1 = 0
          /\ 1 \in 0..(m - 1)
      BY <2>5
    <3>2. f[k] = c[1] /\ f[k - 1] = b /\ nx[a] = c[1] /\ c[1] # a
      BY <1>3, <1>6, <3>1
    <3> QED
      BY <3>2
  <2>6. CASE k > n + 1
    <3>1. /\ k \in (n + 1)..(m + n - 1) /\ k - 1 \in (n + 1)..(m + n - 1)
          /\ k - n \in 1..(m - 1) /\ k - 1 - n = k - n - 1
          /\ k - n - 1 \in 1..(m - 1) /\ k - n - 1 \in 0..(m - 1) /\ k - n \in 0..(m - 1)
      BY <2>6
    <3>2. /\ f[k] = c[k - n] /\ f[k - 1] = c[k - n - 1] /\ nx[c[k - n - 1]] = c[k - n]
          /\ c[k - n - 1] # a /\ c[k - n - 1] # b /\ c[k - n] # a /\ c[k - n - 1] \in I
      BY <1>3, <1>5, <1>6, <3>1, SMTT(30)
    <3> QED
      BY <3>2
  <2> QED
    BY <2>1, <2>2, <2>3, <2>4, <2>5, <2>6
<1>10. ASSUME NEW x \in A \union B PROVE \E k \in 0..(m + n - 1) : f[k] = x
  <2>1. CASE x \in A
    <3>1. PICK k \in 0..(m - 1) : c[k] = x
      BY <1>3, <2>1
    <3>2. CASE k = 0
      BY <1>3, <1>6, <3>1, <3>2
    <3>3. CASE k # 0
      <4>1. k + n \in (n + 1)..(m + n - 1) /\ k + n \in 0..(m + n - 1) /\ k + n - n = k
        BY <3>3
      <4>2. f[k + n] = x
        BY <1>6, <3>1, <4>1
      <4> QED
        BY <4>1, <4>2
    <3> QED
      BY <3>2, <3>3
  <2>2. CASE x \in B
    <3>1. PICK k \in 0..(n - 1) : d[k] = x
      BY <1>4, <2>2
    <3>2. CASE k = 0
      <4>1. n \in 0..(m + n - 1)
        OBVIOUS
      <4> QED
        BY <1>4, <1>6, <3>1, <3>2, <4>1
    <3>3. CASE k # 0
      <4>1. k \in 1..(n - 1) /\ k \in 0..(m + n - 1)
        BY <3>3
      <4> QED
        BY <1>6, <3>1, <4>1
    <3> QED
      BY <3>2, <3>3
  <2> QED
    BY <2>1, <2>2
<1>11. Tours(my, a, m + n, A \union B, f)
  BY <1>6, <1>7, <1>8, <1>9, <1>10 DEF Tours
<1> QED
  BY <1>11 DEF Cycle

-----------------------------------------------------------------------------

LEMMA TablesUnion ==
  ASSUME NEW I, IsFiniteSet(I), Cardinality(I) <= MaxSize,
         NEW q, NEW s, NEW nx, Tables(I, q, s, nx),
         NEW root, NEW other, NEW u, NEW t, Linked(I, q, s, root, other, u, t),
         NEW my, Spliced(I, nx, my, root, other)
  PROVE  /\ Tables(I, u, t, my)
         /\ \A k \in I : /\ Root(u, k) = IF Root(q, k) = other THEN root ELSE Root(q, k)
                         /\ u[k] = k <=> (q[k] = k /\ k # other)
<1> DEFINE R == InTree(I, q, root)
           O == InTree(I, q, other)
<1>0. /\ root \in I /\ other \in I /\ root # other
      /\ q[root] = root /\ q[other] = other
      /\ t = [s EXCEPT ![root] = s[root] + s[other]]
      /\ my \in [I -> I] /\ \A x \in I : x # root /\ x # other => my[x] = nx[x]
  BY DEF Linked, Spliced
<1>1. /\ Forest(I, q, s) /\ nx \in [I -> I]
      /\ \A k \in I : q[k] = k => s[k] = Cardinality(InTree(I, q, k))
                                 /\ Cycle(nx, k, s[k], InTree(I, q, k))
      /\ \A k \in I : s[k] \in 1..MaxSize
  BY DEF Tables, Sized, Forest
<1>2. MaxSize \in Nat
  BY DisjointSetsAssumption
<1>3. R \subseteq I /\ O \subseteq I /\ R \intersect O = {}
  BY <1>0 DEF InTree
<1>4. /\ IsFiniteSet(R) /\ IsFiniteSet(O)
      /\ Cardinality(R \union O) = s[root] + s[other]
      /\ s[root] + s[other] <= MaxSize
  <2>1. IsFiniteSet(R) /\ IsFiniteSet(O)
    BY <1>3, FS_Subset
  <2>2. Cardinality(R \union O) = Cardinality(R) + Cardinality(O) - Cardinality(R \intersect O)
    BY <2>1, FS_Union
  <2>3. Cardinality(R \intersect O) = 0
    BY <1>3, FS_EmptySet
  <2>4. Cardinality(R) = s[root] /\ Cardinality(O) = s[other]
    BY <1>0, <1>1
  <2>5. Cardinality(R \union O) <= Cardinality(I)
    BY <1>3, FS_Subset
  <2>6. s[root] \in Nat /\ s[other] \in Nat /\ Cardinality(I) \in Nat
    BY <1>0, <1>1, <1>2, FS_CardinalityType
  <2> HIDE DEF R, O
  <2> QED
    BY <1>2, <2>1, <2>2, <2>3, <2>4, <2>5, <2>6
<1>5. /\ Forest(I, u, t)
      /\ \A k \in I : /\ Root(u, k) = IF Root(q, k) = other THEN root ELSE Root(q, k)
                      /\ u[k] = k <=> (q[k] = k /\ k # other)
  <2>1. Forest(I, q, s) /\ s[root] + s[other] <= MaxSize
    BY <1>1, <1>4
  <2> HIDE DEF R, O
  <2> QED
    BY <2>1, LinkFacts
<1>6. \A k \in I : t[k] = IF k = root THEN s[root] + s[other] ELSE s[k]
  BY <1>0, <1>1 DEF Forest
<1>7. InTree(I, u, root) = R \union O
  BY <1>0, <1>5 DEF InTree
<1>8. \A k \in I : k # root /\ k # other => InTree(I, u, k) = InTree(I, q, k)
  BY <1>0, <1>5 DEF InTree
<1>9. Sized(I, u, t)
  <2> SUFFICES ASSUME NEW r \in I, u[r] = r PROVE t[r] = Cardinality(InTree(I, u, r))
    BY DEF Sized
  <2>1. CASE r = root
    BY <1>0, <1>4, <1>6, <1>7, <2>1
  <2>2. CASE r # root
    BY <1>1, <1>5, <1>6, <1>8, <2>2
  <2> QED
    BY <2>1, <2>2
<1>10. ASSUME NEW r \in I, u[r] = r PROVE Cycle(my, r, t[r], InTree(I, u, r))
  <2>1. CASE r = root
    <3>1. s[root] \in Nat \ {0} /\ s[other] \in Nat \ {0}
      BY <1>0, <1>1, <1>2
    <3>2. Cycle(nx, root, s[root], R) /\ Cycle(nx, other, s[other], O)
      BY <1>0, <1>1
    <3> HIDE DEF R, O
    <3>3. R \in SUBSET I /\ O \in SUBSET I /\ R \intersect O = {}
      BY <1>3
    <3>4. Cycle(my, root, s[root] + s[other], R \union O)
      BY <3>1, <3>2, <3>3, Splice
    <3> QED
      BY <1>0, <1>6, <1>7, <2>1, <3>4
  <2>2. CASE r # root
    <3> HIDE DEF R, O
    <3>0. r # other /\ q[r] = r
      BY <1>5, <1>10
    <3>1. r # other /\ q[r] = r /\ t[r] = s[r] /\ InTree(I, u, r) = InTree(I, q, r)
      BY <1>6, <1>8, <2>2, <3>0
    <3>2. Cycle(nx, r, s[r], InTree(I, q, r))
      BY <1>1, <3>1
    <3>3. root \notin InTree(I, q, r) /\ other \notin InTree(I, q, r)
          /\ InTree(I, q, r) \subseteq I
      BY <1>0, <1>1, <2>2, <3>1, RootFacts DEF InTree
    <3>4. \A x \in InTree(I, q, r) : my[x] = nx[x]
      BY <1>0, <3>3
    <3>5. s[r] \in Nat \ {0}
      BY <1>1, <1>2
    <3> QED
      BY <3>1, <3>2, <3>4, <3>5, CycleKept
  <2> QED
    BY <2>1, <2>2
<1>11. Tables(I, u, t, my)
  BY <1>0, <1>5, <1>9, <1>10 DEF Tables
<1> QED
  BY <1>5, <1>11

(* Each index a set of its own.                                            *)
LEMMA TablesSingle ==
  ASSUME NEW I, I # {} => MaxSize > 0
  PROVE  Tables(I, [i \in I |-> i], [i \in I |-> 1], [i \in I |-> i])
<1> DEFINE p == [i \in I |-> i]
           s == [i \in I |-> 1]
<1>1. Forest(I, p, s)
  BY DisjointSetsAssumption DEF Forest
<1>2. \A i \in I : Root(p, i) = i
  BY <1>1, RootFacts
<1> HIDE DEF p, s
<1>3. \A i \in I : InTree(I, p, i) = {i}
  BY <1>2 DEF InTree
<1>4. \A i \in I : s[i] = 1 /\ p[i] = i
  BY DEF s, p
<1>5. Sized(I, p, s)
  BY <1>3, <1>4, FS_Singleton DEF Sized
<1>6. ASSUME NEW i \in I PROVE Cycle(p, i, 1, {i})
  <2> DEFINE c == [k \in 0..0 |-> i]
  <2>1. c \in [0..0 -> {i}] /\ c[0] = i
    OBVIOUS
  <2>2. 1 - 1 = 0 /\ 1..0 = {} /\ 0 \in 0..0
    OBVIOUS
  <2> HIDE DEF c
  <2>3. Tours(p, i, 1, {i}, c)
    BY <1>4, <2>1, <2>2 DEF Tours
  <2> QED
    BY <2>3 DEF Cycle
<1> QED
  BY <1>1, <1>3, <1>4, <1>5, <1>6 DEF Tables, p, s

(* A new index in a set of its own.                                        *)
Extended(I, new, f, v) == [i \in I \union {new} |-> IF i \in I THEN f[i] ELSE v]

LEMMA TablesPush ==
  ASSUME NEW I, NEW p, NEW s, NEW nx, Tables(I, p, s, nx), NEW new, new \notin I,
         MaxSize > 0, NEW q, NEW t, NEW my,
         q = Extended(I, new, p, new), t = Extended(I, new, s, 1), my = Extended(I, new, nx, new)
  PROVE  /\ Tables(I \union {new}, q, t, my)
         /\ \A k \in I : Root(q, k) = Root(p, k) /\ (q[k] = k <=> p[k] = k)
         /\ Root(q, new) = new /\ q[new] = new
<1> DEFINE J == I \union {new}
<1>1. /\ Forest(I, p, s) /\ nx \in [I -> I] /\ p \in [I -> I]
      /\ \A k \in I : p[k] = k => s[k] = Cardinality(InTree(I, p, k))
                                 /\ Cycle(nx, k, s[k], InTree(I, p, k))
      /\ \A k \in I : p[k] \in I /\ nx[k] \in I /\ s[k] \in 1..MaxSize
      /\ \A k \in I : p[k] # k => 2 * s[k] <= s[p[k]]
      /\ MaxSize \in Nat
  BY DisjointSetsAssumption DEF Tables, Sized, Forest
<1>2. /\ \A k \in I : q[k] = p[k] /\ t[k] = s[k] /\ my[k] = nx[k]
      /\ q[new] = new /\ t[new] = 1 /\ my[new] = new
  BY DEF Extended
<1>3. q \in [J -> J] /\ my \in [J -> J] /\ t \in [J -> 1..MaxSize]
  <2>1. 1 \in 1..MaxSize
    BY <1>1
  <2> QED
    BY <1>1, <2>1 DEF Extended
<1>4. Forest(J, q, t)
  <2>1. ASSUME NEW k \in J, q[k] # k PROVE 2 * t[k] <= t[q[k]]
    <3>1. k \in I /\ q[k] = p[k] /\ p[k] \in I
      BY <1>1, <1>2, <2>1
    <3> QED
      BY <1>1, <1>2, <2>1, <3>1
  <2> QED
    BY <1>3, <2>1 DEF Forest
<1> DEFINE G == {k \in I : Root(q, k) = Root(p, k)}
<1>5. ASSUME NEW k \in I, p[k] = k \/ p[k] \in G PROVE k \in G
  <2>1. k \in J /\ q[k] = p[k]
    BY <1>2
  <2>2. CASE p[k] = k
    BY <1>1, <1>4, <2>1, <2>2, RootFacts
  <2>3. CASE p[k] \in G
    <3>1. Root(q, p[k]) = Root(p, p[k])
      BY <2>3
    <3>2. Root(q, k) = Root(q, q[k]) /\ Root(p, k) = Root(p, p[k])
      BY <1>1, <1>4, <2>1, RootFacts
    <3> QED
      BY <2>1, <3>1, <3>2
  <2> QED
    BY <1>5, <2>2, <2>3
<1> HIDE DEF G
<1>6. I \subseteq G
  BY <1>1, <1>5, UpInduction
<1>7. (\A k \in I : Root(q, k) = Root(p, k)) /\ Root(q, new) = new
  BY <1>2, <1>4, <1>6, RootFacts DEF G
<1>8. \A r \in I : InTree(J, q, r) = InTree(I, p, r)
  BY <1>7 DEF InTree
<1>9. InTree(J, q, new) = {new}
  <2>1. \A k \in I : Root(p, k) \in I
    BY <1>1, RootFacts
  <2> QED
    BY <1>7, <2>1 DEF InTree
<1>10. Sized(J, q, t)
  <2>1. Cardinality({new}) = 1
    BY FS_Singleton
  <2>2. \A r \in I : q[r] = r => t[r] = Cardinality(InTree(J, q, r))
    BY <1>1, <1>2, <1>8
  <2>3. t[new] = Cardinality(InTree(J, q, new))
    BY <1>2, <1>9, <2>1
  <2> QED
    BY <2>2, <2>3 DEF Sized
<1>11. ASSUME NEW r \in J, q[r] = r PROVE Cycle(my, r, t[r], InTree(J, q, r))
  <2>1. CASE r = new
    <3> DEFINE c == [k \in 0..0 |-> new]
    <3>1. c \in [0..0 -> {new}] /\ c[0] = new
      OBVIOUS
    <3>2. 1 - 1 = 0 /\ 1..0 = {} /\ 0 \in 0..0
      OBVIOUS
    <3> HIDE DEF c
    <3>3. Tours(my, new, 1, {new}, c)
      BY <1>2, <3>1, <3>2 DEF Tours
    <3> QED
      BY <1>2, <1>9, <2>1, <3>3 DEF Cycle
  <2>2. CASE r \in I
    <3> DEFINE M == InTree(I, p, r)
               n == s[r]
    <3>1. Cycle(nx, r, n, M)
      BY <1>1, <1>2, <1>11, <2>2
    <3>2. n \in Nat \ {0} /\ M \subseteq I /\ t[r] = n /\ InTree(J, q, r) = M
      BY <1>1, <1>2, <1>8, <2>2, SMTT(30) DEF InTree
    <3>3. \A x \in M : my[x] = nx[x]
      BY <1>2, <3>2
    <3> HIDE DEF M, n
    <3> QED
      BY <3>1, <3>2, <3>3, CycleKept
  <2> QED
    BY <2>1, <2>2
<1>12. Tables(J, q, t, my)
  BY <1>3, <1>4, <1>10, <1>11 DEF Tables
<1> QED
  BY <1>2, <1>7, <1>12

-----------------------------------------------------------------------------
(* merge_with, index by index                                              *)

MergedParentsIs(p, n, f) ==
    f = [k \in 0..n |-> IF k = 0 THEN p ELSE Compressed(f[k - 1], f[k - 1][k - 1])]
MergedParents(p, n) == CHOOSE f : MergedParentsIs(p, n, f)

LEMMA MergedParentsFacts ==
  ASSUME NEW I, NEW p, NEW s, Forest(I, p, s), NEW n \in Nat, 0..(n - 1) \subseteq I
  PROVE  Shortened(I, p, s, MergedParents(p, n)[n])
<1> DEFINE V == {q \in [I -> I] : Shortened(I, p, s, q)}
           step == [x \in Nat \X V |-> IF x[1] \in I THEN Compressed(x[2], x[2][x[1]]) ELSE x[2]]
<1>1. p \in V
  BY DEF Shortened, Forest
<1>2. ASSUME NEW q \in V, NEW k \in I PROVE Compressed(q, q[k]) \in V
  <2>1. Forest(I, q, s) /\ Shortened(I, p, s, q) /\ q[k] \in I
    BY DEF Shortened
  <2>2. Shortened(I, q, s, Compressed(q, q[k]))
    BY <2>1, CompressedFacts
  <2>3. Shortened(I, p, s, Compressed(q, q[k]))
    BY <2>1, <2>2, ShortenedTwice
  <2> QED
    BY <2>3 DEF Shortened, Forest
<1> HIDE DEF V
<1>3. step \in [Nat \X V -> V]
  BY <1>2
<1>4. \A k \in Nat, q \in V : step[<<k, q>>] = IF k \in I THEN Compressed(q, q[k]) ELSE q
  OBVIOUS
<1> HIDE DEF step
<1>5. PICK f : f \in [Nat -> V] /\ f[0] = p /\ \A k \in Nat : f[k + 1] = step[<<k, f[k]>>]
  <2>1. PICK f : Follows(V, p, step, f)
    BY <1>1, <1>3, Recursion
  <2> QED
    BY <2>1 DEF Follows
<1> DEFINE g == [k \in 0..n |-> f[k]]
<1>6. MergedParentsIs(p, n, g)
  <2>1. ASSUME NEW k \in 0..n, k # 0 PROVE f[k] = Compressed(f[k - 1], f[k - 1][k - 1])
    <3>1. k - 1 \in Nat /\ (k - 1) + 1 = k /\ k - 1 \in I
      BY <2>1
    <3> QED
      BY <1>4, <1>5, <3>1
  <2>2. \A k \in 0..n : k # 0 => g[k - 1] = f[k - 1]
    OBVIOUS
  <2>3. \A k \in 0..n : f[k] = IF k = 0 THEN p ELSE Compressed(g[k - 1], g[k - 1][k - 1])
    <3> HIDE DEF g
    <3> QED
      BY <1>5, <2>1, <2>2
  <2>4. g = [k \in 0..n |-> IF k = 0 THEN p ELSE Compressed(g[k - 1], g[k - 1][k - 1])]
    BY <2>3
  <2> HIDE DEF g
  <2> QED
    BY <2>4 DEF MergedParentsIs
<1> HIDE DEF g
<1> DEFINE h == MergedParents(p, n)
<1>7. MergedParentsIs(p, n, h)
  BY <1>6 DEF MergedParents
<1> HIDE DEF h
<1> DEFINE T == {k \in Nat : k <= n => h[k] \in V}
<1>8. 0 \in T
  BY <1>1, <1>7 DEF MergedParentsIs
<1>9. ASSUME NEW k \in Nat, k \in T PROVE k + 1 \in T
  <2> SUFFICES ASSUME k + 1 <= n PROVE h[k + 1] \in V
    OBVIOUS
  <2>1. k + 1 \in 0..n /\ k + 1 # 0 /\ (k + 1) - 1 = k /\ k \in I /\ h[k] \in V
    BY <1>9
  <2>2. h[k + 1] = Compressed(h[k], h[k][k])
    BY <1>7, <2>1 DEF MergedParentsIs
  <2> QED
    BY <1>2, <2>1, <2>2
<1> HIDE DEF T
<1>10. Nat \subseteq T
  BY <1>8, <1>9, SetInduction
<1>11. h[n] \in V
  BY <1>10 DEF T
<1> QED
  BY <1>11 DEF V, h

(* Elements at places at[0], at[1], ... each merged with one of other's.   *)
MergedIs(m, at, other, n, f) ==
    f = [k \in 0..n |-> IF k = 0 THEN m
                        ELSE [f[k - 1] EXCEPT ![at[k - 1]] =
                                Merge(f[k - 1][at[k - 1]], other[k - 1])]]

LEMMA MergedExists ==
  ASSUME NEW R, NEW m \in [R -> Elems], NEW n \in Nat, NEW at \in [0..(n - 1) -> R],
         NEW other \in [0..(n - 1) -> Elems]
  PROVE  \E f : MergedIs(m, at, other, n, f)
<1> DEFINE V == [R -> Elems]
           one(v, k) == [v EXCEPT ![at[k]] = Merge(v[at[k]], other[k])]
           step == [x \in Nat \X V |-> IF x[1] < n THEN one(x[2], x[1]) ELSE x[2]]
<1>1. ASSUME NEW v \in V, NEW k \in 0..(n - 1) PROVE one(v, k) \in V
  <2>1. at[k] \in R /\ v[at[k]] \in Elems /\ other[k] \in Elems
    OBVIOUS
  <2>2. Merge(v[at[k]], other[k]) \in Elems
    BY <2>1, DisjointSetsAssumption
  <2> QED
    BY <2>1, <2>2
<1>2. \A v, k : one(v, k) = [v EXCEPT ![at[k]] = Merge(v[at[k]], other[k])]
  OBVIOUS
<1> HIDE DEF one, V
<1>3. step \in [Nat \X V -> V]
  BY <1>1
<1>4. \A k \in Nat, v \in V : step[<<k, v>>] = IF k < n THEN one(v, k) ELSE v
  OBVIOUS
<1> HIDE DEF step
<1>5. m \in V
  BY DEF V
<1>6. PICK f : f \in [Nat -> V] /\ f[0] = m /\ \A k \in Nat : f[k + 1] = step[<<k, f[k]>>]
  <2>1. PICK f : Follows(V, m, step, f)
    BY <1>3, <1>5, Recursion
  <2> QED
    BY <2>1 DEF Follows
<1> DEFINE Is(u) == u = [k \in 0..n |-> IF k = 0 THEN m ELSE one(u[k - 1], k - 1)]
<1>7. \A u : MergedIs(m, at, other, n, u) <=> Is(u)
  BY <1>2 DEF MergedIs
<1> DEFINE g == [k \in 0..n |-> f[k]]
<1>8. Is(g)
  <2>1. ASSUME NEW k \in 0..n, k # 0 PROVE f[k] = one(f[k - 1], k - 1)
    <3>1. k - 1 \in Nat /\ (k - 1) + 1 = k /\ k - 1 < n
      BY <2>1
    <3> QED
      BY <1>4, <1>6, <3>1
  <2>2. \A k \in 0..n : k # 0 => g[k - 1] = f[k - 1]
    OBVIOUS
  <2>3. \A k \in 0..n : f[k] = IF k = 0 THEN m ELSE one(g[k - 1], k - 1)
    <3> HIDE DEF g
    <3> QED
      BY <1>6, <2>1, <2>2
  <2>4. g = [k \in 0..n |-> IF k = 0 THEN m ELSE one(g[k - 1], k - 1)]
    BY <2>3
  <2> HIDE DEF g
  <2> QED
    BY <2>4
<1> HIDE DEF g, Is
<1> QED
  BY <1>7, <1>8

(* What such a sequence is, step by step.                                  *)
Merging(R, m, at, other, n, h) ==
    /\ h[0] = m /\ \A k \in 0..n : h[k] \in [R -> Elems]
    /\ \A k \in 0..(n - 1) :
         h[k + 1] = [h[k] EXCEPT ![at[k]] = Merge(h[k][at[k]], other[k])]

LEMMA MergedFacts ==
  ASSUME NEW R, NEW m \in [R -> Elems], NEW n \in Nat, NEW at \in [0..(n - 1) -> R],
         NEW other \in [0..(n - 1) -> Elems], NEW h, MergedIs(m, at, other, n, h)
  PROVE  Merging(R, m, at, other, n, h)
<1> DEFINE V == [R -> Elems]
           T == {k \in Nat : k <= n => h[k] \in V}
<1>1. h[0] = m
  BY DEF MergedIs
<1>2. ASSUME NEW k \in 0..(n - 1)
      PROVE  h[k + 1] = [h[k] EXCEPT ![at[k]] = Merge(h[k][at[k]], other[k])]
  <2>1. k + 1 \in 0..n /\ k + 1 # 0 /\ (k + 1) - 1 = k
    OBVIOUS
  <2> QED
    BY <2>1 DEF MergedIs
<1>3. ASSUME NEW k \in Nat, k \in T PROVE k + 1 \in T
  <2> SUFFICES ASSUME k + 1 <= n PROVE h[k + 1] \in V
    OBVIOUS
  <2>1. k \in 0..(n - 1) /\ h[k] \in V
    BY <1>3
  <2>2. at[k] \in R /\ h[k][at[k]] \in Elems /\ other[k] \in Elems
    BY <2>1
  <2>3. Merge(h[k][at[k]], other[k]) \in Elems
    BY <2>2, DisjointSetsAssumption
  <2> QED
    BY <1>2, <2>1, <2>2, <2>3
<1>4. 0 \in T
  BY <1>1
<1> HIDE DEF T
<1>5. Nat \subseteq T
  BY <1>3, <1>4, SetInduction
<1>6. \A k \in 0..n : h[k] \in V
  BY <1>5 DEF T
<1> QED
  BY <1>1, <1>2, <1>6 DEF Merging

MergedMapsIs(m, p, other, n, f) ==
    f = [k \in 0..n |-> IF k = 0 THEN m
                        ELSE [f[k - 1] EXCEPT ![Root(p, k - 1)] =
                                Merge(f[k - 1][Root(p, k - 1)], other[k - 1])]]
MergedMaps(m, p, other, n) == CHOOSE f : MergedMapsIs(m, p, other, n, f)

LEMMA MergedMapsFacts ==
  ASSUME NEW R, NEW m \in [R -> Elems], NEW p, NEW n \in Nat,
         NEW other \in [0..(n - 1) -> Elems], \A k \in 0..(n - 1) : Root(p, k) \in R
  PROVE  Merging(R, m, [k \in 0..(n - 1) |-> Root(p, k)], other, n, MergedMaps(m, p, other, n))
<1> DEFINE at == [k \in 0..(n - 1) |-> Root(p, k)]
<1>1. at \in [0..(n - 1) -> R]
  OBVIOUS
<1>2. \A k \in 0..n : k # 0 => at[k - 1] = Root(p, k - 1)
  OBVIOUS
<1> HIDE DEF at
<1>3. \A f : MergedMapsIs(m, p, other, n, f) <=> MergedIs(m, at, other, n, f)
  BY <1>2 DEF MergedMapsIs, MergedIs
<1>4. \E f : MergedIs(m, at, other, n, f)
  BY <1>1, MergedExists
<1>5. MergedIs(m, at, other, n, MergedMaps(m, p, other, n))
  BY <1>3, <1>4 DEF MergedMaps
<1>6. Merging(R, m, at, other, n, MergedMaps(m, p, other, n))
  BY <1>1, <1>5, MergedFacts
<1> QED
  BY <1>6 DEF at

-----------------------------------------------------------------------------
(* The inductive invariant                                                 *)

IInv ==
    /\ \E n \in 0..MaxSize : Indices = 0..(n - 1)
    /\ Tables(Indices, parent, size, next)
    /\ map \in [Roots -> Elems]

LEMMA IndicesFacts ==
  ASSUME NEW n \in 0..MaxSize
  PROVE  IsFiniteSet(0..(n - 1)) /\ Cardinality(0..(n - 1)) = n
<1>1. n \in Nat /\ n - 1 \in Int /\ 0 \in Int
  BY DisjointSetsAssumption
<1>2. IsFiniteSet(0..(n - 1))
      /\ Cardinality(0..(n - 1)) = IF 0 > n - 1 THEN 0 ELSE (n - 1) - 0 + 1
  BY <1>1, FS_Interval
<1> QED
  BY <1>1, <1>2

LEMMA InitInv ==
  ASSUME Init
  PROVE  IInv
<1>1. PICK is \in IndexSets :
         /\ map \in [is -> Elems] /\ parent = [i \in is |-> i]
         /\ size = [i \in is |-> 1] /\ next = [i \in is |-> i]
  BY DEF Init
<1>2. PICK n \in 0..MaxSize : is = 0..(n - 1)
  <2>1. CASE is = {}
    <3>1. is = 0..(0 - 1) /\ 0 \in 0..MaxSize
      BY <2>1, DisjointSetsAssumption
    <3> QED
      BY <3>1
  <2>2. CASE is # {}
    <3>1. PICK n \in 1..MaxSize : is = 0..(n - 1)
      BY <1>1, <2>2 DEF IndexSets
    <3> QED
      BY <3>1
  <2> QED
    BY <2>1, <2>2
<1>3. is # {} => MaxSize > 0
  BY <1>2, DisjointSetsAssumption
<1>4. Tables(is, parent, size, next)
  BY <1>1, <1>3, TablesSingle
<1>5. Indices = is /\ Roots = is
  BY <1>1 DEF Indices, Roots
<1> QED
  BY <1>1, <1>2, <1>4, <1>5 DEF IInv

(* Steps that shorten paths and change elements.                           *)
LEMMA QuietInv ==
  ASSUME IInv, Shortened(Indices, parent, size, parent'), map' \in [Roots -> Elems],
         UNCHANGED <<size, next>>
  PROVE  IInv' /\ Indices' = Indices /\ Roots' = Roots
<1>1. Indices' = Indices
  BY DEF Indices, Shortened, Forest
<1>2. Roots' = Roots
  BY <1>1 DEF Roots, Shortened
<1>3. Tables(Indices, parent', size, next)
  BY TablesShortened DEF IInv
<1>4. Tables(Indices', parent', size', next')
  BY <1>1, <1>3
<1> QED
  BY <1>1, <1>2, <1>4 DEF IInv

LEMMA ForestInv ==
  ASSUME IInv
  PROVE  /\ Forest(Indices, parent, size)
         /\ \A i \in Indices : /\ parent[i] \in Indices /\ Root(parent, i) \in Roots
                               /\ Root(parent, i) \in Indices
<1>1. Forest(Indices, parent, size)
  BY DEF IInv, Tables
<1> QED
  BY <1>1, RootFacts DEF Roots

(* A push adds the next index, alone in its tree.                          *)
LEMMA PushInv ==
  ASSUME IInv, NEW e \in Elems, Push(e)
  PROVE  /\ IInv'
         /\ \E n \in Nat :
              /\ Indices = 0..(n - 1) /\ n = Cardinality(Indices) /\ n \notin Indices
              /\ Indices' = Indices \union {n} /\ Roots' = Roots \union {n}
              /\ \A k \in Indices : Root(parent', k) = Root(parent, k)
              /\ Root(parent', n) = n
              /\ map' = [i \in Roots' |-> IF i = n THEN e ELSE map[i]]
<1> DEFINE I == Indices
           new == Cardinality(I)
<1>1. PICK n \in 0..MaxSize : I = 0..(n - 1)
  BY DEF IInv
<1>2. new = n /\ n < MaxSize /\ n \in Nat /\ MaxSize \in Nat
  <2>1. new = n
    BY <1>1, IndicesFacts
  <2> QED
    BY <2>1, DisjointSetsAssumption DEF Push
<1>3. n \notin I /\ I \union {n} = 0..n
  BY <1>1, <1>2
<1>4. /\ parent' = Extended(I, n, parent, n)
      /\ size' = Extended(I, n, size, 1)
      /\ next' = Extended(I, n, next, n)
  BY <1>2, <1>3 DEF Push, Extend, Extended
<1>5. Tables(I, parent, size, next) /\ MaxSize > 0
  BY <1>2 DEF IInv
<1> HIDE DEF I
<1>6. /\ Tables(I \union {n}, parent', size', next')
      /\ \A k \in I : Root(parent', k) = Root(parent, k) /\ (parent'[k] = k <=> parent[k] = k)
      /\ parent'[n] = n /\ Root(parent', n) = n
  BY <1>3, <1>4, <1>5, TablesPush
<1>7. Indices' = I \union {n}
  BY <1>4 DEF Indices, Extended
<1>8. Roots' = Roots \union {n}
  BY <1>6, <1>7 DEF Roots, I
<1>9. map' \in [Roots' -> Elems] /\ map' = [i \in Roots' |-> IF i = n THEN e ELSE map[i]]
  <2>1. map' = [i \in DOMAIN map \union {n} |-> IF i = n THEN e ELSE map[i]] /\ DOMAIN map = Roots
    BY <1>2 DEF Push, IInv, I
  <2> QED
    BY <1>8, <2>1 DEF IInv
<1>10. n + 1 \in 0..MaxSize /\ Indices' = 0..((n + 1) - 1)
  BY <1>2, <1>3, <1>7
<1>11. Tables(Indices', parent', size', next')
  BY <1>6, <1>7
<1>12. IInv'
  BY <1>9, <1>10, <1>11 DEF IInv
<1> QED
  BY <1>1, <1>2, <1>3, <1>6, <1>7, <1>8, <1>9, <1>12 DEF I

(* A union of two sets: the smaller root goes under the larger.            *)
LEMMA UnionLinks ==
  ASSUME IInv, NEW i \in Indices, NEW j \in Indices, Union(i, j),
         Root(parent, i) # Root(parent, j)
  PROVE  \E q, root, other :
           /\ Shortened(Indices, parent, size, q)
           /\ {root, other} = {Root(parent, i), Root(parent, j)}
           /\ Linked(Indices, q, size, root, other, parent', size')
           /\ Spliced(Indices, next, next', root, other)
           /\ map' = [r \in DOMAIN map \ {other} |->
                        IF r = root THEN Merge(map[Root(parent, i)], map[Root(parent, j)])
                        ELSE map[r]]
<1> DEFINE I == Indices
           q == Compressed(Compressed(parent, i), j)
           root1 == Root(parent, i)
           root2 == Root(parent, j)
           root == IF size[root1] <= size[root2] THEN root2 ELSE root1
           other == IF root = root2 THEN root1 ELSE root2
<1>1. /\ next' = [next EXCEPT ![root1] = next[root2], ![root2] = next[root1]]
      /\ parent' = [q EXCEPT ![other] = root]
      /\ size' = [size EXCEPT ![root] = size[root] + size[other]]
      /\ map' = [r \in DOMAIN map \ {other} |->
                   IF r = root THEN Merge(map[root1], map[root2]) ELSE map[r]]
  BY DEF Union
<1>2. Shortened(I, parent, size, q)
  BY ForestInv, CompressedTwice
<1> HIDE DEF q
<1>3. root1 \in I /\ root2 \in I /\ parent[root1] = root1 /\ parent[root2] = root2
      /\ root1 # root2
  BY ForestInv, RootFacts
<1> HIDE DEF root1, root2
<1>4. size[root1] \in Nat /\ size[root2] \in Nat /\ next \in [I -> I]
  <2>1. size \in [I -> 1..MaxSize] /\ next \in [I -> I]
    BY DEF Forest, IInv, Tables
  <2> HIDE DEF I
  <2>2. size[root1] \in 1..MaxSize /\ size[root2] \in 1..MaxSize
    BY <1>3, <2>1
  <2> QED
    BY <2>1, <2>2, DisjointSetsAssumption
<1>5. {root, other} = {root1, root2} /\ root # other /\ size[other] <= size[root]
  BY <1>3, <1>4
<1> HIDE DEF root, other
<1>6. root \in I /\ other \in I /\ q[root] = root /\ q[other] = other
  BY <1>2, <1>3, <1>5 DEF Shortened
<1>7. Linked(I, q, size, root, other, parent', size')
  BY <1>1, <1>5, <1>6 DEF Linked
<1>8. Spliced(I, next, next', root, other)
  <2>1. /\ next' \in [I -> I] /\ next'[root1] = next[root2] /\ next'[root2] = next[root1]
        /\ \A x \in I : x # root1 /\ x # root2 => next'[x] = next[x]
    BY <1>1, <1>3, <1>4
  <2>2. (root = root1 /\ other = root2) \/ (root = root2 /\ other = root1)
    BY <1>5
  <2> QED
    BY <1>4, <1>6, <2>1, <2>2 DEF Spliced
<1> QED
  BY <1>1, <1>2, <1>5, <1>7, <1>8 DEF root1, root2

(* The trees after it are the same but for these two, now one.             *)
LEMMA UnionJoins ==
  ASSUME IInv, NEW i \in Indices, NEW j \in Indices, Union(i, j),
         Root(parent, i) # Root(parent, j)
  PROVE  /\ IInv' /\ Indices' = Indices
         /\ \E root, other :
              /\ {root, other} = {Root(parent, i), Root(parent, j)}
              /\ Roots' = Roots \ {other}
              /\ \A k \in Indices :
                   Root(parent', k) = IF Root(parent, k) = other THEN root ELSE Root(parent, k)
              /\ map' = [r \in Roots' |->
                           IF r = root THEN Merge(map[Root(parent, i)], map[Root(parent, j)])
                           ELSE map[r]]
<1> DEFINE merged == Merge(map[Root(parent, i)], map[Root(parent, j)])
<1>1. PICK q, root, other :
        /\ Shortened(Indices, parent, size, q)
        /\ {root, other} = {Root(parent, i), Root(parent, j)}
        /\ Linked(Indices, q, size, root, other, parent', size')
        /\ Spliced(Indices, next, next', root, other)
        /\ map' = [r \in DOMAIN map \ {other} |-> IF r = root THEN merged ELSE map[r]]
  BY UnionLinks
<1>2. merged \in Elems
  <2>1. map[Root(parent, i)] \in Elems /\ map[Root(parent, j)] \in Elems
    BY ForestInv DEF IInv
  <2> QED
    BY <2>1, DisjointSetsAssumption
<1>3. PICK n \in 0..MaxSize : Indices = 0..(n - 1)
  BY DEF IInv
<1>4. IsFiniteSet(Indices) /\ Cardinality(Indices) <= MaxSize
  BY <1>3, IndicesFacts
<1>5. Tables(Indices, q, size, next)
  BY <1>1, TablesShortened DEF IInv
<1>6. /\ Tables(Indices, parent', size', next')
      /\ \A k \in Indices :
           /\ Root(parent', k) = IF Root(q, k) = other THEN root ELSE Root(q, k)
           /\ parent'[k] = k <=> (q[k] = k /\ k # other)
  BY <1>1, <1>4, <1>5, TablesUnion
<1>7. Indices' = Indices
  BY <1>6 DEF Tables, Forest, Indices
<1>8. Roots' = Roots \ {other}
  BY <1>1, <1>6, <1>7 DEF Roots, Shortened
<1>9. \A k \in Indices :
        Root(parent', k) = IF Root(parent, k) = other THEN root ELSE Root(parent, k)
  BY <1>1, <1>6 DEF Shortened
<1>10. map' = [r \in Roots' |-> IF r = root THEN merged ELSE map[r]]
  BY <1>1, <1>8 DEF IInv
<1>11. map' \in [Roots' -> Elems]
  <2> HIDE DEF merged
  <2>1. \A r \in Roots : map[r] \in Elems
    BY DEF IInv
  <2> QED
    BY <1>2, <1>8, <1>10, <2>1
<1>12. Tables(Indices', parent', size', next')
  BY <1>6, <1>7
<1>13. IInv'
  BY <1>3, <1>7, <1>11, <1>12 DEF IInv
<1> QED
  BY <1>1, <1>7, <1>8, <1>9, <1>10, <1>13

LEMMA UnionInv ==
  ASSUME IInv, NEW i \in Indices, NEW j \in Indices, Union(i, j)
  PROVE  /\ IInv'
         /\ Root(parent, i) = Root(parent, j) =>
              /\ Indices' = Indices /\ Roots' = Roots /\ map' = map
              /\ Shortened(Indices, parent, size, parent')
<1>1. CASE Root(parent, i) = Root(parent, j)
  <2>1. parent' = Compressed(Compressed(parent, i), j) /\ UNCHANGED <<map, size, next>>
    BY <1>1 DEF Union
  <2>2. Shortened(Indices, parent, size, parent')
    BY <2>1, ForestInv, CompressedTwice
  <2>3. map' \in [Roots -> Elems]
    BY <2>1 DEF IInv
  <2> QED
    BY <2>1, <2>2, <2>3, QuietInv
<1>2. CASE Root(parent, i) # Root(parent, j)
  BY <1>2, UnionJoins
<1> QED
  BY <1>1, <1>2

LEMMA IndexSetFacts ==
  ASSUME NEW is \in IndexSets
  PROVE  \E n \in 0..MaxSize : is = 0..(n - 1) /\ Cardinality(is) = n
<1>1. \E n \in 0..MaxSize : is = 0..(n - 1)
  <2>1. CASE is = {}
    <3>1. is = 0..(0 - 1) /\ 0 \in 0..MaxSize
      BY <2>1, DisjointSetsAssumption
    <3> QED
      BY <3>1
  <2>2. CASE is # {}
    <3>1. PICK n \in 1..MaxSize : is = 0..(n - 1)
      BY <2>2 DEF IndexSets
    <3> QED
      BY <3>1
  <2> QED
    BY <2>1, <2>2
<1> QED
  BY <1>1, IndicesFacts

LEMMA MergeWithSteps ==
  ASSUME IInv, NEW is \in IndexSets, is \subseteq Indices, NEW other \in [is -> Elems],
         MergeWith(other)
  PROVE  \E n \in Nat :
           /\ is = 0..(n - 1)
           /\ parent' = MergedParents(parent, n)[n]
           /\ map' = MergedMaps(map, parent, other, n)[n]
           /\ UNCHANGED <<size, next>>
<1>1. PICK n \in 0..MaxSize : is = 0..(n - 1) /\ Cardinality(is) = n
  BY IndexSetFacts
<1>2. Cardinality(DOMAIN other) = n /\ n \in Nat
  BY <1>1
<1>3. parent' = MergedParents(parent, n)[n] /\ UNCHANGED <<size, next>>
  BY <1>2 DEF MergeWith, MergedParents, MergedParentsIs
<1>4. map' = MergedMaps(map, parent, other, n)[n]
  BY <1>2 DEF MergeWith, MergedMaps, MergedMapsIs
<1> QED
  BY <1>1, <1>2, <1>3, <1>4

LEMMA MergeWithInv ==
  ASSUME IInv, NEW is \in IndexSets, is \subseteq Indices, NEW other \in [is -> Elems],
         MergeWith(other)
  PROVE  IInv' /\ Indices' = Indices /\ Roots' = Roots
         /\ Shortened(Indices, parent, size, parent')
<1>1. PICK n \in Nat :
         /\ is = 0..(n - 1)
         /\ parent' = MergedParents(parent, n)[n]
         /\ map' = MergedMaps(map, parent, other, n)[n]
         /\ UNCHANGED <<size, next>>
  BY MergeWithSteps
<1>2. Shortened(Indices, parent, size, parent')
  BY <1>1, ForestInv, MergedParentsFacts
<1>3. map \in [Roots -> Elems] /\ \A k \in 0..(n - 1) : Root(parent, k) \in Roots
  BY <1>1, ForestInv DEF IInv
<1>4. other \in [0..(n - 1) -> Elems]
  BY <1>1
<1>5. map' \in [Roots -> Elems]
  <2>1. \A k \in 0..n : MergedMaps(map, parent, other, n)[k] \in [Roots -> Elems]
    BY <1>3, <1>4, MergedMapsFacts DEF Merging
  <2> QED
    BY <1>1, <2>1
<1> QED
  BY <1>1, <1>2, <1>5, QuietInv

LEMMA SameSetInv ==
  ASSUME IInv, NEW i \in Indices, NEW j \in Indices, SameSet(i, j)
  PROVE  IInv' /\ Indices' = Indices /\ Roots' = Roots
         /\ Shortened(Indices, parent, size, parent')
<1>1. Shortened(Indices, parent, size, parent') /\ UNCHANGED <<map, size, next>>
  BY ForestInv, CompressedTwice DEF SameSet
<1>2. map' \in [Roots -> Elems]
  BY <1>1 DEF IInv
<1> QED
  BY <1>1, <1>2, QuietInv

LEMMA GetInv ==
  ASSUME IInv, NEW i \in Indices, Get(i)
  PROVE  IInv' /\ Indices' = Indices /\ Roots' = Roots
         /\ Shortened(Indices, parent, size, parent')
<1>1. Shortened(Indices, parent, size, parent') /\ UNCHANGED <<map, size, next>>
  BY ForestInv, CompressedFacts DEF Get
<1>2. map' \in [Roots -> Elems]
  BY <1>1 DEF IInv
<1> QED
  BY <1>1, <1>2, QuietInv

LEMMA UpdateInv ==
  ASSUME IInv, NEW i \in Indices, NEW e \in Elems, Update(i, e)
  PROVE  IInv' /\ Indices' = Indices /\ Roots' = Roots
         /\ Shortened(Indices, parent, size, parent')
<1>1. Shortened(Indices, parent, size, parent') /\ UNCHANGED <<size, next>>
  BY ForestInv, CompressedFacts DEF Update
<1>2. map' \in [Roots -> Elems]
  BY ForestInv DEF Update, IInv
<1> QED
  BY <1>1, <1>2, QuietInv

LEMMA MapValuesInv ==
  ASSUME IInv, NEW f \in [Elems -> Elems], MapValues(f)
  PROVE  IInv' /\ Indices' = Indices /\ Roots' = Roots
         /\ Shortened(Indices, parent, size, parent')
<1>1. UNCHANGED <<parent, size, next>>
  BY DEF MapValues
<1>2. Shortened(Indices, parent, size, parent')
  BY <1>1, ForestInv DEF Shortened
<1>3. map' \in [Roots -> Elems]
  BY DEF MapValues, IInv
<1> QED
  BY <1>1, <1>2, <1>3, QuietInv

LEMMA StutterInv ==
  ASSUME IInv, UNCHANGED vars
  PROVE  IInv'
BY DEF IInv, vars, Indices, Roots

LEMMA NextInv ==
  ASSUME IInv, [Next]_vars
  PROVE  IInv'
<1>1. CASE \E e \in Elems : Push(e)
  BY <1>1, PushInv
<1>2. CASE \E i, j \in Indices : SameSet(i, j)
  BY <1>2, SameSetInv
<1>3. CASE \E i, j \in Indices : Union(i, j)
  BY <1>3, UnionInv
<1>4. CASE \E i \in Indices : Get(i)
  BY <1>4, GetInv
<1>5. CASE \E i \in Indices : \E e \in Elems : Update(i, e)
  BY <1>5, UpdateInv
<1>6. CASE \E f \in [Elems -> Elems] : MapValues(f)
  BY <1>6, MapValuesInv
<1>7. CASE \E is \in IndexSets : is \subseteq Indices /\ \E other \in [is -> Elems] : MergeWith(other)
  BY <1>7, MergeWithInv
<1>8. CASE UNCHANGED vars
  BY <1>8, StutterInv
<1> QED
  BY <1>1, <1>2, <1>3, <1>4, <1>5, <1>6, <1>7, <1>8 DEF Next

(* The invariant holds of every table the operations build.                *)
THEOREM Invariance == Spec => []IInv
<1>1. Init => IInv
  BY InitInv
<1>2. IInv /\ [Next]_vars => IInv'
  BY NextInv
<1> QED
  BY <1>1, <1>2, PTL DEF Spec

(* The roots and only they have elements, so that no unwrap panics, and no *)
(* size exceeds the number of indices (property TypeOK).                   *)
THEOREM TypeCorrect == Spec => []TypeOK
<1>1. IInv => TypeOK
  <2> SUFFICES ASSUME IInv PROVE TypeOK
    OBVIOUS
  <2>1. Indices \in IndexSets
    <3>1. PICK n \in 0..MaxSize : Indices = 0..(n - 1)
      BY DEF IInv
    <3>2. n = 0 \/ n \in 1..MaxSize
      BY DisjointSetsAssumption
    <3> QED
      BY <3>1, <3>2 DEF IndexSets
  <2> QED
    BY <2>1 DEF IInv, Tables, Forest, TypeOK
<1> QED
  BY <1>1, Invariance, PTL

-----------------------------------------------------------------------------
(* The depth of the trees                                                  *)

PowersAre(f) == f = [n \in Nat |-> IF n = 0 THEN 1 ELSE 2 * f[n - 1]]

LEMMA PowerFacts == /\ PowerOfTwo[0] = 1
                    /\ \A n \in Nat : /\ PowerOfTwo[n] \in Nat
                                      /\ PowerOfTwo[n + 1] = 2 * PowerOfTwo[n]
<1> DEFINE step == [x \in Nat \X Nat |-> 2 * x[2]]
<1>1. step \in [Nat \X Nat -> Nat] /\ \A n, v \in Nat : step[<<n, v>>] = 2 * v
  OBVIOUS
<1> HIDE DEF step
<1>2. PICK f : f \in [Nat -> Nat] /\ f[0] = 1 /\ \A n \in Nat : f[n + 1] = step[<<n, f[n]>>]
  <2>1. PICK f : Follows(Nat, 1, step, f)
    BY <1>1, Recursion
  <2> QED
    BY <2>1 DEF Follows
<1>3. PowersAre(f)
  <2>1. ASSUME NEW n \in Nat, n # 0 PROVE f[n] = 2 * f[n - 1]
    <3>1. n - 1 \in Nat /\ (n - 1) + 1 = n
      BY <2>1
    <3> QED
      BY <1>1, <1>2, <3>1
  <2>2. f = [n \in Nat |-> f[n]]
    BY <1>2
  <2>3. \A n \in Nat : f[n] = IF n = 0 THEN 1 ELSE 2 * f[n - 1]
    BY <1>2, <2>1
  <2> QED
    BY <2>2, <2>3 DEF PowersAre
<1> DEFINE Pow == PowerOfTwo
<1>4. PowersAre(Pow)
  BY <1>3 DEF PowerOfTwo, PowersAre
<1> HIDE DEF Pow
<1>5. Pow[0] = 1 /\ \A n \in Nat : Pow[n + 1] = 2 * Pow[n]
  <2>1. \A n \in Nat : n + 1 \in Nat /\ n + 1 # 0 /\ (n + 1) - 1 = n
    OBVIOUS
  <2> QED
    BY <1>4, <2>1 DEF PowersAre
<1> DEFINE T == {n \in Nat : Pow[n] \in Nat}
<1>6. 0 \in T /\ \A n \in Nat : n \in T => n + 1 \in T
  BY <1>5
<1> HIDE DEF T
<1>7. Nat \subseteq T
  BY <1>6, SetInduction
<1> QED
  BY <1>5, <1>7 DEF T, Pow

LEMMA Scaled ==
  ASSUME NEW x \in Nat, NEW a \in Nat, NEW b \in Nat, 2 * a <= b
  PROVE  (2 * x) * a <= x * b
<1>1. x * (2 * a) <= x * b
  <2>1. \E d \in Nat : b = 2 * a + d
    <3>1. b - 2 * a \in Nat /\ b = 2 * a + (b - 2 * a)
      OBVIOUS
    <3> QED
      BY <3>1
  <2>2. PICK d \in Nat : b = 2 * a + d
    BY <2>1
  <2>3. x * b = x * (2 * a) + x * d /\ x * d >= 0
    BY <2>2
  <2> QED
    BY <2>3
<1>2. (2 * x) * a = x * (2 * a)
  OBVIOUS
<1> QED
  BY <1>1, <1>2

LEMMA DepthFacts ==
  ASSUME NEW I, NEW p, NEW s, Forest(I, p, s), IsFiniteSet(I), NEW i \in I
  PROVE  PowerOfTwo[Cardinality(Path(p, i)) - 1] * s[i] <= s[Root(p, i)]
<1> DEFINE C(j) == Cardinality(Path(p, j))
           G == {j \in I : /\ C(j) \in Nat \ {0}
                           /\ PowerOfTwo[C(j) - 1] * s[j] <= s[Root(p, j)]}
<1>1. /\ \A j \in I : p[j] \in I /\ s[j] \in Nat /\ s[j] > 0
      /\ \A j \in I : p[j] # j => 2 * s[j] <= s[p[j]]
      /\ p \in [I -> I]
  BY DisjointSetsAssumption DEF Forest
<1>2. ASSUME NEW j \in I, p[j] = j \/ p[j] \in G PROVE j \in G
  <2>1. Path(p, j) = IF p[j] = j THEN {j} ELSE {j} \union Path(p, p[j])
    BY <1>1, PathUnfolds
  <2>2. CASE p[j] = j
    <3>1. C(j) = 1 /\ Root(p, j) = j
      BY <2>1, <2>2, FS_Singleton, RootFacts
    <3> HIDE DEF C
    <3>2. PowerOfTwo[C(j) - 1] * s[j] <= s[Root(p, j)]
      <4>1. PowerOfTwo[C(j) - 1] = 1
        BY <3>1, PowerFacts
      <4> QED
        BY <1>1, <3>1, <4>1
    <3> QED
      BY <3>1, <3>2
  <2>3. CASE p[j] # j
    <3>1. j \notin Path(p, p[j])
      <4>1. j \in Path(p, p[j]) => 2 * s[p[j]] <= s[j]
        BY <1>1, <2>3, PathFacts
      <4> QED
        BY <1>1, <2>3, <4>1
    <3>2. IsFiniteSet(Path(p, p[j]))
      BY <1>1, PathFacts, FS_Subset
    <3>3. Cardinality(Path(p, p[j]) \union {j}) = C(p[j]) + 1
      BY <3>1, <3>2, FS_AddElement
    <3>4. C(j) = C(p[j]) + 1
      <4>1. Path(p, j) = Path(p, p[j]) \union {j}
        BY <2>1, <2>3
      <4> QED
        BY <3>3, <4>1
    <3>5. C(p[j]) \in Nat \ {0} /\ PowerOfTwo[C(p[j]) - 1] * s[p[j]] <= s[Root(p, p[j])]
      BY <1>2, <2>3
    <3> DEFINE x == PowerOfTwo[C(p[j]) - 1]
    <3> HIDE DEF C
    <3>6. C(p[j]) - 1 \in Nat /\ (C(p[j]) - 1) + 1 = C(j) - 1 /\ C(j) \in Nat \ {0}
      BY <3>4, <3>5
    <3>7. x \in Nat /\ PowerOfTwo[C(j) - 1] = 2 * x
      BY <3>6, PowerFacts
    <3>8. x * s[p[j]] <= s[Root(p, j)] /\ s[Root(p, j)] \in Nat /\ s[p[j]] \in Nat /\ s[j] \in Nat
          /\ 2 * s[j] <= s[p[j]]
      BY <1>1, <2>3, <3>5, RootFacts
    <3> HIDE DEF x
    <3>9. (2 * x) * s[j] <= x * s[p[j]]
      BY <3>7, <3>8, Scaled
    <3>10. (2 * x) * s[j] \in Nat /\ x * s[p[j]] \in Nat
      BY <3>7, <3>8
    <3>11. (2 * x) * s[j] <= s[Root(p, j)]
      BY <3>8, <3>9, <3>10
    <3> QED
      BY <3>6, <3>7, <3>11
  <2> QED
    BY <2>2, <2>3
<1> HIDE DEF G
<1>3. I \subseteq G
  BY <1>2, UpInduction
<1> QED
  BY <1>3 DEF G

(* The recursion of unchecked_find is logarithmic in the size of the set,  *)
(* after any unions and compressions (property DepthLogarithmic).          *)
THEOREM DepthsLogarithmic == Spec => []DepthLogarithmic
<1>1. IInv => DepthLogarithmic
  <2> SUFFICES ASSUME IInv, NEW i \in Indices
               PROVE  PowerOfTwo[Cardinality(Path(parent, i)) - 1] <= size[Root(parent, i)]
    BY DEF DepthLogarithmic
  <2> DEFINE c == Cardinality(Path(parent, i))
  <2>1. IsFiniteSet(Indices)
    BY IndicesFacts DEF IInv
  <2>2. PowerOfTwo[c - 1] * size[i] <= size[Root(parent, i)]
    BY <2>1, ForestInv, DepthFacts
  <2>3. c - 1 \in Nat
    <3>1. Path(parent, i) \subseteq Indices /\ i \in Path(parent, i)
      BY ForestInv, PathFacts
    <3>2. IsFiniteSet(Path(parent, i))
      BY <2>1, <3>1, FS_Subset
    <3>3. c # 0 /\ c \in Nat
      BY <3>1, <3>2, FS_EmptySet, FS_CardinalityType
    <3> QED
      BY <3>3
  <2> HIDE DEF c
  <2>4. PowerOfTwo[c - 1] \in Nat
    BY <2>3, PowerFacts
  <2>5. size[i] \in Nat /\ size[i] >= 1 /\ size[Root(parent, i)] \in Nat
    BY ForestInv, DisjointSetsAssumption DEF Forest
  <2> DEFINE x == PowerOfTwo[c - 1]
  <2> HIDE DEF x
  <2>6. x <= x * size[i]
    <3>1. PICK d \in Nat : size[i] = d + 1
      <4>1. size[i] - 1 \in Nat /\ size[i] = (size[i] - 1) + 1
        BY <2>5
      <4> QED
        BY <4>1
    <3>2. x \in Nat
      BY <2>4 DEF x
    <3>3. x * (d + 1) = x * d + x /\ x * d \in Nat
      BY <3>2
    <3> QED
      BY <3>1, <3>2, <3>3
  <2>7. x \in Nat /\ x * size[i] \in Nat
    BY <2>4, <2>5 DEF x
  <2>8. x <= size[Root(parent, i)]
    BY <2>2, <2>5, <2>6, <2>7 DEF x
  <2> QED
    BY <2>8 DEF x, c
<1> QED
  BY <1>1, Invariance, PTL

-----------------------------------------------------------------------------
(* The iterator of a set                                                   *)

WalkIs(nx, r, f) ==
    f = [n \in Nat |-> IF n = 0 THEN <<r>> ELSE Append(f[n - 1], nx[Last(f[n - 1])])]
SetWalk(nx, r) == CHOOSE f : WalkIs(nx, r, f)

LEMMA SetWalkExists ==
  ASSUME NEW I, NEW nx \in [I -> I], NEW r \in I
  PROVE  WalkIs(nx, r, SetWalk(nx, r))
<1> DEFINE V == {q \in Seq(I) : q # <<>>}
           step == [x \in Nat \X V |-> Append(x[2], nx[Last(x[2])])]
<1>1. ASSUME NEW q \in V PROVE Append(q, nx[Last(q)]) \in V
  <2>1. q \in Seq(I) /\ q # <<>> /\ Len(q) \in 1..Len(q)
    BY EmptySeq, LenProperties
  <2>2. Last(q) \in I
    BY <2>1, ElementOfSeq DEF Last
  <2>3. nx[Last(q)] \in I
    BY <2>2
  <2>4. Append(q, nx[Last(q)]) \in Seq(I) /\ Len(Append(q, nx[Last(q)])) = Len(q) + 1
    BY <2>1, <2>3, AppendProperties
  <2>5. Append(q, nx[Last(q)]) # <<>>
    BY <2>1, <2>4, LenProperties, EmptySeq
  <2> QED
    BY <2>4, <2>5
<1>2. <<r>> \in V
  OBVIOUS
<1> HIDE DEF V
<1>3. step \in [Nat \X V -> V] /\ \A k \in Nat, q \in V : step[<<k, q>>] = Append(q, nx[Last(q)])
  BY <1>1
<1> HIDE DEF step
<1>4. PICK f : f \in [Nat -> V] /\ f[0] = <<r>> /\ \A k \in Nat : f[k + 1] = step[<<k, f[k]>>]
  <2>1. PICK f : Follows(V, <<r>>, step, f)
    BY <1>2, <1>3, Recursion
  <2> QED
    BY <2>1 DEF Follows
<1>5. WalkIs(nx, r, f)
  <2>1. ASSUME NEW n \in Nat, n # 0 PROVE f[n] = Append(f[n - 1], nx[Last(f[n - 1])])
    <3>1. n - 1 \in Nat /\ (n - 1) + 1 = n /\ f[n - 1] \in V
      BY <1>4, <2>1
    <3> QED
      BY <1>3, <1>4, <3>1
  <2>2. f = [n \in Nat |-> f[n]]
    BY <1>4
  <2>3. \A n \in Nat : f[n] = IF n = 0 THEN <<r>> ELSE Append(f[n - 1], nx[Last(f[n - 1])])
    BY <1>4, <2>1
  <2> QED
    BY <2>2, <2>3 DEF WalkIs
<1> QED
  BY <1>5 DEF SetWalk

(* The walk of a cycle goes through it.                                    *)
LEMMA WalkOfCycle ==
  ASSUME NEW I, NEW nx \in [I -> I], NEW r \in I, NEW n \in Nat \ {0}, NEW M \in SUBSET I,
         Cycle(nx, r, n, M)
  PROVE  /\ Len(SetWalk(nx, r)[n - 1]) = n
         /\ ToSet(SetWalk(nx, r)[n - 1]) = M
<1>1. PICK c : Tours(nx, r, n, M, c)
  BY DEF Cycle
<1>2. /\ c \in [0..(n - 1) -> M] /\ c[0] = r
      /\ \A k \in 1..(n - 1) : nx[c[k - 1]] = c[k]
      /\ \A x \in M : \E k \in 0..(n - 1) : c[k] = x
  BY <1>1 DEF Tours
<1> DEFINE f == SetWalk(nx, r)
           Goes(q, k) == /\ q \in Seq(I) /\ Len(q) = k + 1
                         /\ \A j \in 1..(k + 1) : q[j] = c[j - 1]
           T == {k \in Nat : k <= n - 1 => Goes(f[k], k)}
<1>3. WalkIs(nx, r, f)
  BY SetWalkExists
<1> HIDE DEF f
<1>4. 0 \in T
  <2>1. f[0] = <<r>>
    BY <1>3 DEF WalkIs
  <2>2. f[0] \in Seq(I) /\ Len(f[0]) = 1 /\ f[0][1] = r
    BY <2>1
  <2>3. ASSUME NEW j \in 1..(0 + 1) PROVE f[0][j] = c[j - 1]
    <3>1. j = 1 /\ j - 1 = 0
      OBVIOUS
    <3> QED
      BY <1>2, <2>2, <3>1
  <2>4. Goes(f[0], 0)
    BY <2>2, <2>3
  <2> QED
    BY <2>4
<1>5. ASSUME NEW k \in Nat, k \in T PROVE k + 1 \in T
  <2> SUFFICES ASSUME k + 1 <= n - 1 PROVE Goes(f[k + 1], k + 1)
    OBVIOUS
  <2>1. f[k] \in Seq(I) /\ Len(f[k]) = k + 1 /\ \A j \in 1..(k + 1) : f[k][j] = c[j - 1]
    BY <1>5
  <2>2. k + 1 \in Nat /\ k + 1 # 0 /\ (k + 1) - 1 = k /\ k + 1 \in 1..(k + 1)
        /\ k + 1 \in 1..(n - 1)
    OBVIOUS
  <2>3. f[k + 1] = Append(f[k], nx[Last(f[k])])
    BY <1>3, <2>2 DEF WalkIs
  <2>4. Last(f[k]) = c[k]
    BY <2>1, <2>2 DEF Last
  <2>5. nx[c[k]] = c[k + 1] /\ c[k + 1] \in I
    BY <1>2, <2>2
  <2>6. f[k + 1] = Append(f[k], c[k + 1])
    BY <2>3, <2>4, <2>5
  <2>7. /\ f[k + 1] \in Seq(I) /\ Len(f[k + 1]) = (k + 1) + 1
        /\ \A j \in 1..(k + 1) : f[k + 1][j] = f[k][j]
        /\ f[k + 1][(k + 1) + 1] = c[k + 1]
    BY <2>1, <2>5, <2>6, AppendProperties
  <2>8. ASSUME NEW j \in 1..((k + 1) + 1) PROVE f[k + 1][j] = c[j - 1]
    <3>1. CASE j \in 1..(k + 1)
      BY <2>1, <2>7, <3>1
    <3>2. CASE j = (k + 1) + 1
      BY <2>7, <3>2
    <3> QED
      BY <3>1, <3>2
  <2> QED
    BY <2>7, <2>8
<1> HIDE DEF T
<1>6. Nat \subseteq T
  BY <1>4, <1>5, SetInduction
<1>7. f[n - 1] \in Seq(I) /\ Len(f[n - 1]) = n /\ \A j \in 1..n : f[n - 1][j] = c[j - 1]
  <2>1. n - 1 \in Nat /\ (n - 1) + 1 = n
    OBVIOUS
  <2>2. Goes(f[n - 1], n - 1)
    BY <1>6, <2>1 DEF T
  <2> QED
    BY <2>1, <2>2
<1>8. ToSet(f[n - 1]) = {f[n - 1][j] : j \in 1..n}
  BY <1>7, LenProperties DEF ToSet
<1>9. {f[n - 1][j] : j \in 1..n} = M
  <2>1. ASSUME NEW x \in M PROVE \E j \in 1..n : f[n - 1][j] = x
    <3>1. PICK k \in 0..(n - 1) : c[k] = x
      BY <1>2
    <3>2. k + 1 \in 1..n /\ (k + 1) - 1 = k
      BY <3>1
    <3> QED
      BY <1>7, <3>1, <3>2
  <2>2. ASSUME NEW j \in 1..n PROVE f[n - 1][j] \in M
    <3>1. j - 1 \in 0..(n - 1)
      OBVIOUS
    <3> QED
      BY <1>2, <1>7, <3>1
  <2> QED
    BY <2>1, <2>2
<1> QED
  BY <1>7, <1>8, <1>9 DEF f

LEMMA SetFromFacts ==
  ASSUME IInv, NEW r \in Roots
  PROVE  /\ Len(SetFrom(r)) = Cardinality(Members(r))
         /\ ToSet(SetFrom(r)) = Members(r)
<1>1. SetFrom(r) = SetWalk(next, r)[size[r] - 1]
  BY DEF SetFrom, SetWalk, WalkIs
<1>2. /\ r \in Indices /\ next \in [Indices -> Indices] /\ parent[r] = r
      /\ Cycle(next, r, size[r], InTree(Indices, parent, r))
      /\ size[r] = Cardinality(InTree(Indices, parent, r))
  BY DEF IInv, Tables, Sized, Roots
<1>3. size[r] \in Nat \ {0}
  BY <1>2, ForestInv, DisjointSetsAssumption DEF Forest
<1>4. Members(r) = InTree(Indices, parent, r) /\ Members(r) \in SUBSET Indices
  BY DEF Members, InTree
<1>5. /\ Len(SetWalk(next, r)[size[r] - 1]) = size[r]
      /\ ToSet(SetWalk(next, r)[size[r] - 1]) = Members(r)
  BY <1>2, <1>3, <1>4, WalkOfCycle
<1> QED
  BY <1>1, <1>2, <1>4, <1>5

(* The iterator of a set lists the members of its tree, each once: a union *)
(* that splices two cycles of next and one that links two trees of parent  *)
(* are the same union, however often the paths were compressed (property   *)
(* CyclesAreTrees).                                                        *)
THEOREM CyclesListTrees == Spec => []CyclesAreTrees
<1>1. IInv => CyclesAreTrees
  BY SetFromFacts DEF CyclesAreTrees
<1> QED
  BY <1>1, Invariance, PTL


-----------------------------------------------------------------------------
(* The partition                                                           *)

(* The trees are the classes, and the elements of the roots their elements.*)
Tree(r) == InTree(Indices, parent, r)

View ==
    /\ Classes = {Tree(r) : r \in Roots}
    /\ P!Indices = Indices
    /\ \A i \in Indices : P!ClassOf(i) = Tree(Root(parent, i))
    /\ \A q, r \in Roots : Tree(q) = Tree(r) => q = r
    /\ Value = [c \in Classes |-> Value[c]]
    /\ \A r \in Roots : Value[Tree(r)] = map[r]

LEMMA ViewHolds ==
  ASSUME IInv
  PROVE  View
<1>1. Forest(Indices, parent, size)
  BY ForestInv
<1>2. \A r \in Roots : r \in Indices /\ Root(parent, r) = r
  BY <1>1, RootFacts DEF Roots
<1>3. Classes = {Tree(r) : r \in Roots}
  <2>1. \A r \in Roots : ToSet(SetFrom(r)) = Tree(r)
    BY SetFromFacts DEF Members, Tree, InTree
  <2> QED
    BY <2>1 DEF Classes
<1>4. \A i \in Indices : Root(parent, i) \in Roots /\ i \in Tree(Root(parent, i))
  BY ForestInv DEF Tree, InTree
<1>5. \A r \in Roots : r \in Tree(r)
  BY <1>2 DEF Tree, InTree
<1>6. \A r \in Roots : \A i \in Tree(r) : i \in Indices /\ Root(parent, i) = r
  BY DEF Tree, InTree
<1>7. P!Indices = Indices
  <2>1. UNION Classes = Indices
    BY <1>3, <1>4, <1>6
  <2> QED
    BY <2>1 DEF P!Indices
<1>8. ASSUME NEW i \in Indices PROVE P!ClassOf(i) = Tree(Root(parent, i))
  <2>1. \A c \in Classes : i \in c <=> c = Tree(Root(parent, i))
    BY <1>3, <1>4, <1>6
  <2>2. Tree(Root(parent, i)) \in Classes
    BY <1>3, <1>4
  <2> QED
    BY <2>1, <2>2 DEF P!ClassOf
<1>9. \A q, r \in Roots : Tree(q) = Tree(r) => q = r
  BY <1>5, <1>6
<1>10. Value = [c \in Classes |-> Value[c]]
  BY DEF Value
<1>11. ASSUME NEW r \in Roots PROVE Value[Tree(r)] = map[r]
  <2>1. \A q \in Roots : q \in Tree(r) <=> q = r
    BY <1>2, <1>5, <1>6
  <2>2. (CHOOSE q \in Roots : q \in Tree(r)) = r
    BY <2>1
  <2>3. Tree(r) \in Classes
    BY <1>3
  <2> QED
    BY <2>2, <2>3 DEF Value
<1> QED
  BY <1>3, <1>7, <1>8, <1>9, <1>10, <1>11 DEF View

LEMMA SameCardinality == \A S : P!Cardinality(S) = Cardinality(S)
BY DEF P!Cardinality, Cardinality

LEMMA InitRefines ==
  ASSUME Init, IInv, View
  PROVE  P!Init
<1>1. \A i \in Indices : parent[i] = i
  BY DEF Init, Indices
<1>2. Roots = Indices /\ \A i \in Indices : Root(parent, i) = i
  BY <1>1, ForestInv, RootFacts DEF Roots
<1>3. \A i \in Indices : Tree(i) = {i}
  BY <1>2 DEF Tree, InTree
<1>4. Classes = {{i} : i \in P!Indices}
  BY <1>2, <1>3 DEF View
<1>5. PICK n \in 0..MaxSize : Indices = 0..(n - 1)
  BY DEF IInv
<1>6. \A i \in P!Indices : i \in Nat /\ i < Cardinality(P!Indices)
  <2>1. Cardinality(Indices) = n /\ n \in Nat
    BY <1>5, IndicesFacts, DisjointSetsAssumption
  <2> QED
    BY <1>5, <2>1 DEF View
<1>7. Value \in [Classes -> Elems]
  <2>1. \A r \in Roots : Value[Tree(r)] \in Elems
    BY DEF View, IInv
  <2>2. \A c \in Classes : Value[c] \in Elems
    BY <2>1 DEF View
  <2>3. Value = [c \in Classes |-> Value[c]]
    BY DEF View
  <2> QED
    BY <2>2, <2>3
<1> QED
  BY <1>4, <1>6, <1>7, SameCardinality DEF P!Init

(* Steps that shorten paths leave the classes alone.                       *)
Quiet ==
    /\ Indices' = Indices /\ Roots' = Roots
    /\ Shortened(Indices, parent, size, parent')

LEMMA QuietView ==
  ASSUME View, View', Quiet
  PROVE  /\ Classes' = Classes
         /\ Value' = [c \in Classes |-> Value'[c]]
         /\ \A r \in Roots : Value'[Tree(r)] = map'[r]
<1>1. \A r \in Roots : Tree(r)' = Tree(r)
  BY DEF Quiet, Tree, InTree, Shortened
<1> QED
  BY <1>1 DEF View, Quiet

LEMMA QuietStutters ==
  ASSUME View, View', Quiet, map' = map
  PROVE  UNCHANGED P!vars
<1>1. \A c \in Classes : Value'[c] = Value[c]
  BY QuietView DEF View
<1>2. Classes' = Classes /\ Value' = Value
  BY <1>1, QuietView DEF View
<1> QED
  BY <1>2 DEF P!vars

LEMMA UpdateRefines ==
  ASSUME IInv, View, View', NEW i \in Indices, NEW e \in Elems, Update(i, e)
  PROVE  P!Update(i, e)
<1> DEFINE at == Root(parent, i)
<1>1. Quiet /\ at \in Roots
  BY UpdateInv, ForestInv DEF Quiet
<1>2. map' = [map EXCEPT ![at] = e] /\ map \in [Roots -> Elems]
  BY DEF Update, IInv
<1>3. P!ClassOf(i) = Tree(at)
  BY DEF View
<1> HIDE DEF at
<1>4. \A r \in Roots : Value'[Tree(r)] = IF Tree(r) = Tree(at) THEN e ELSE Value[Tree(r)]
  BY <1>1, <1>2, QuietView DEF View
<1>5. \A c \in Classes : Value'[c] = IF c = Tree(at) THEN e ELSE Value[c]
  BY <1>4 DEF View
<1>6. Value' = [Value EXCEPT ![Tree(at)] = e] /\ Classes' = Classes
  BY <1>1, <1>5, QuietView DEF View
<1> QED
  BY <1>3, <1>6 DEF P!Update

LEMMA MapValuesRefines ==
  ASSUME IInv, View, View', NEW f \in [Elems -> Elems], MapValues(f)
  PROVE  P!MapValues(f)
<1>1. Quiet
  BY MapValuesInv DEF Quiet
<1>2. \A r \in Roots : map'[r] = f[map[r]]
  BY DEF MapValues, IInv
<1>3. \A r \in Roots : Value'[Tree(r)] = f[Value[Tree(r)]]
  BY <1>1, <1>2, QuietView, ZenonT(30) DEF View
<1>4. \A c \in Classes : Value'[c] = f[Value[c]]
  BY <1>3, ZenonT(60) DEF View
<1>5. Value' = [c \in Classes |-> f[Value[c]]] /\ Classes' = Classes
  BY <1>1, <1>4, QuietView
<1> QED
  BY <1>5 DEF P!MapValues


LEMMA PushRefines ==
  ASSUME IInv, View, View', NEW e \in Elems, Push(e)
  PROVE  P!Push(e)
<1>1. PICK n \in Nat :
        /\ Indices = 0..(n - 1) /\ n = Cardinality(Indices) /\ n \notin Indices
        /\ Indices' = Indices \union {n} /\ Roots' = Roots \union {n}
        /\ \A k \in Indices : Root(parent', k) = Root(parent, k)
        /\ Root(parent', n) = n
        /\ map' = [i \in Roots' |-> IF i = n THEN e ELSE map[i]]
  BY PushInv
<1>2. /\ \A k \in Indices : Root(parent, k) \in Indices
      /\ Roots \subseteq Indices
  BY ForestInv DEF Roots
<1>3. \A r \in Roots : Tree(r)' = Tree(r)
  BY <1>1, <1>2 DEF Tree, InTree
<1>4. Tree(n)' = {n}
  <2>1. \A k \in Indices : Root(parent', k) # n
    BY <1>1, <1>2
  <2>2. Tree(n)' = {k \in Indices \union {n} : Root(parent', k) = n}
    BY <1>1 DEF Tree, InTree
  <2> QED
    BY <1>1, <2>1, <2>2
<1>5. \A r \in Roots : Tree(r) # {n}
  <2>1. \A r \in Roots : n \notin Tree(r)
    BY <1>1 DEF Tree, InTree
  <2> QED
    BY <2>1
<1>6. Classes' = Classes \union {{n}}
  <2>1. Classes' = {Tree(r)' : r \in Roots'} /\ Classes = {Tree(r) : r \in Roots}
    BY DEF View
  <2>2. \A c \in Classes' : c \in Classes \union {{n}}
    BY <1>1, <1>3, <1>4, <2>1
  <2>3. \A c \in Classes : c \in Classes'
    BY <1>1, <1>3, <2>1
  <2>4. {n} \in Classes'
    BY <1>1, <1>4, <2>1
  <2> QED
    BY <2>2, <2>3, <2>4
<1>7. Value'[{n}] = e
  BY <1>1, <1>4 DEF View
<1>8. ASSUME NEW r \in Roots PROVE Value'[Tree(r)] = Value[Tree(r)]
  <2>1. r \in Roots' /\ r # n
    BY <1>1, <1>2
  <2>2. Value'[Tree(r)'] = map'[r] /\ map'[r] = map[r] /\ map[r] = Value[Tree(r)]
    BY <1>1, <2>1 DEF View
  <2> QED
    BY <1>3, <2>2
<1>9. \A c \in Classes' : Value'[c] = IF c = {n} THEN e ELSE Value[c]
  <2>1. \A c \in Classes : c # {n} /\ Value'[c] = Value[c]
    BY <1>5, <1>8, SMTT(30) DEF View
  <2> QED
    BY <1>6, <1>7, <2>1
<1>10. Value' = [c \in Classes' |-> IF c = {n} THEN e ELSE Value[c]]
  BY <1>9 DEF View
<1>11. P!Cardinality(P!Indices) = n
  BY <1>1, SameCardinality DEF View
<1> QED
  BY <1>6, <1>10, <1>11 DEF P!Push

LEMMA UnionRefines ==
  ASSUME IInv, View, View', NEW i \in Indices, NEW j \in Indices, Union(i, j),
         Root(parent, i) # Root(parent, j)
  PROVE  P!Union(i, j)
<1> DEFINE root1 == Root(parent, i)
           root2 == Root(parent, j)
           merged == Merge(map[root1], map[root2])
           both == Tree(root1) \union Tree(root2)
<1>1. PICK root, other :
        /\ {root, other} = {root1, root2}
        /\ Roots' = Roots \ {other}
        /\ \A k \in Indices :
             Root(parent', k) = IF Root(parent, k) = other THEN root ELSE Root(parent, k)
        /\ map' = [r \in Roots' |-> IF r = root THEN merged ELSE map[r]]
  BY UnionJoins
<1>2. Indices' = Indices
  BY UnionJoins
<1>3. root1 \in Roots /\ root2 \in Roots /\ root1 # root2
  BY ForestInv
<1>4. P!ClassOf(i) = Tree(root1) /\ P!ClassOf(j) = Tree(root2)
  BY DEF View
<1>5. merged = Merge(Value[Tree(root1)], Value[Tree(root2)])
  BY <1>3 DEF View
<1> HIDE DEF root1, root2, merged
<1>6. root \in Roots' /\ root \in Roots /\ other \in Roots /\ root # other
  BY <1>1, <1>3
<1>7. Tree(root)' = both
  <2>1. Tree(root)' = Tree(root) \union Tree(other)
    BY <1>1, <1>2 DEF Tree, InTree
  <2> QED
    BY <1>1, <1>3, <2>1
<1>8. \A r \in Roots' : r # root => Tree(r)' = Tree(r)
  BY <1>1, <1>2, <1>6 DEF Tree, InTree
<1>9. \A r \in Roots' : Tree(r)' = both <=> r = root
  BY <1>6, <1>7 DEF View
<1>10. Tree(root1) # Tree(root2)
  BY <1>3 DEF View
<1>11. \A r \in Roots : r \in Roots' /\ r # root <=> r # root1 /\ r # root2
  BY <1>1, <1>3
<1>12. Classes' = {both} \union {Tree(r) : r \in Roots \ {root1, root2}}
  <2>1. Classes' = {Tree(r)' : r \in Roots'}
    BY DEF View
  <2>2. ASSUME NEW r \in Roots'
        PROVE  Tree(r)' \in {both} \union {Tree(q) : q \in Roots \ {root1, root2}}
    <3>1. CASE r = root
      BY <1>7, <3>1
    <3>2. CASE r # root
      <4>1. r \in Roots \ {root1, root2}
        BY <1>1, <1>11, <3>2
      <4> QED
        BY <1>8, <3>2, <4>1
    <3> QED
      BY <3>1, <3>2
  <2>3. ASSUME NEW r \in Roots \ {root1, root2} PROVE Tree(r) \in {Tree(q)' : q \in Roots'}
    BY <1>8, <1>11
  <2> QED
    BY <1>6, <1>7, <2>1, <2>2, <2>3
<1>13. {Tree(r) : r \in Roots \ {root1, root2}} = Classes \ {Tree(root1), Tree(root2)}
  BY <1>3 DEF View
<1>14. Classes' = (Classes \ {Tree(root1), Tree(root2)}) \union {both}
  BY <1>12, <1>13
<1>15. ASSUME NEW r \in Roots'
       PROVE  Value'[Tree(r)'] = IF Tree(r)' = both THEN merged ELSE Value[Tree(r)']
  <2>1. Value'[Tree(r)'] = map'[r]
    BY DEF View
  <2>2. CASE r = root
    BY <1>1, <1>9, <2>1, <2>2
  <2>3. CASE r # root
    <3>1. map'[r] = map[r] /\ r \in Roots
      BY <1>1, <2>3
    <3>2. map[r] = Value[Tree(r)]
      BY <3>1 DEF View
    <3> QED
      BY <1>8, <1>9, <2>1, <2>3, <3>1, <3>2
  <2> QED
    BY <2>2, <2>3
<1>16. \A c \in Classes' : Value'[c] = IF c = both THEN merged ELSE Value[c]
  <2>1. Classes' = {Tree(r)' : r \in Roots'}
    BY DEF View
  <2> QED
    BY <1>15, <2>1
<1>17. Value' = [c \in Classes' |-> IF c = both THEN merged ELSE Value[c]]
  <2>1. Value' = [c \in Classes' |-> Value'[c]]
    BY DEF View
  <2> QED
    BY <1>16, <2>1
<1> QED
  BY <1>4, <1>5, <1>10, <1>14, <1>17 DEF P!Union


(* Merging into the roots, in order, is merging into the classes.          *)
MergedValuesIs(other, n, f) ==
    f = [k \in 0..n |-> IF k = 0 THEN Value
                        ELSE [f[k - 1] EXCEPT ![P!ClassOf(k - 1)] =
                                Merge(f[k - 1][P!ClassOf(k - 1)], other[k - 1])]]
MergedValues(other, n) == CHOOSE f : MergedValuesIs(other, n, f)

LEMMA MergedValuesFacts ==
  ASSUME Value \in [Classes -> Elems], NEW n \in Nat, NEW other \in [0..(n - 1) -> Elems],
         \A k \in 0..(n - 1) : P!ClassOf(k) \in Classes
  PROVE  Merging(Classes, Value, [k \in 0..(n - 1) |-> P!ClassOf(k)], other, n,
                 MergedValues(other, n))
<1> DEFINE at == [k \in 0..(n - 1) |-> P!ClassOf(k)]
<1>1. at \in [0..(n - 1) -> Classes]
  OBVIOUS
<1>2. \A k \in 0..n : k # 0 => at[k - 1] = P!ClassOf(k - 1)
  OBVIOUS
<1> HIDE DEF at
<1>3. \A f : MergedValuesIs(other, n, f) <=> MergedIs(Value, at, other, n, f)
  BY <1>2 DEF MergedValuesIs, MergedIs
<1>4. \E f : MergedIs(Value, at, other, n, f)
  BY <1>1, MergedExists
<1>5. MergedIs(Value, at, other, n, MergedValues(other, n))
  BY <1>3, <1>4 DEF MergedValues
<1>6. Merging(Classes, Value, at, other, n, MergedValues(other, n))
  BY <1>1, <1>5, MergedFacts
<1> QED
  BY <1>6 DEF at

LEMMA ValueTyped ==
  ASSUME IInv, View
  PROVE  Value \in [Classes -> Elems]
<1>1. \A r \in Roots : Value[Tree(r)] \in Elems
  BY DEF View, IInv
<1>2. \A c \in Classes : Value[c] \in Elems
  BY <1>1 DEF View
<1>3. Value = [c \in Classes |-> Value[c]]
  BY DEF View
<1> QED
  BY <1>2, <1>3

LEMMA MergeWithRefines ==
  ASSUME IInv, View, View', NEW is \in IndexSets, is \subseteq Indices,
         NEW other \in [is -> Elems], MergeWith(other)
  PROVE  \E n \in 0..P!Cardinality(P!Indices) : \E o \in [0..(n - 1) -> Elems] : P!MergeWith(o)
<1>1. PICK n \in Nat :
        /\ is = 0..(n - 1)
        /\ parent' = MergedParents(parent, n)[n]
        /\ map' = MergedMaps(map, parent, other, n)[n]
        /\ UNCHANGED <<size, next>>
  BY MergeWithSteps
<1>2. other \in [0..(n - 1) -> Elems] /\ 0..(n - 1) \subseteq Indices
  BY <1>1
<1> DEFINE root == [k \in 0..(n - 1) |-> Root(parent, k)]
           class == [k \in 0..(n - 1) |-> P!ClassOf(k)]
           M == MergedMaps(map, parent, other, n)
           V == MergedValues(other, n)
<1>3. \A k \in 0..(n - 1) : /\ root[k] \in Roots /\ class[k] = Tree(root[k])
                            /\ P!ClassOf(k) \in Classes /\ Root(parent, k) \in Roots
  BY <1>2, ForestInv DEF View
<1>4. Merging(Roots, map, root, other, n, M)
  BY <1>2, <1>3, MergedMapsFacts DEF IInv
<1>5. Merging(Classes, Value, class, other, n, V)
  BY <1>2, <1>3, ValueTyped, MergedValuesFacts
<1>6. n \in 0..P!Cardinality(P!Indices) /\ P!Cardinality(DOMAIN other) = n
  <2>1. PICK m \in 0..MaxSize : Indices = 0..(m - 1)
    BY DEF IInv
  <2>2. Cardinality(Indices) = m /\ m \in Nat
    BY <2>1, IndicesFacts, DisjointSetsAssumption
  <2>3. PICK l \in 0..MaxSize : is = 0..(l - 1) /\ Cardinality(is) = l
    BY IndexSetFacts
  <2>4. l \in Nat
    BY <2>3, DisjointSetsAssumption
  <2>5. l = n
    BY <1>1, <2>3, <2>4
  <2>6. n <= m
    BY <1>2, <2>1, <2>2
  <2> QED
    BY <1>1, <2>2, <2>3, <2>5, <2>6, SameCardinality DEF View
<1> HIDE DEF root, class, M, V
<1> DEFINE Same(k) == \A r \in Roots : V[k][Tree(r)] = M[k][r]
           T == {k \in Nat : k <= n => Same(k)}
<1>7. 0 \in T
  BY <1>4, <1>5 DEF Merging, View
<1>8. ASSUME NEW k \in Nat, k \in T PROVE k + 1 \in T
  <2> SUFFICES ASSUME k + 1 <= n, NEW r \in Roots
               PROVE  V[k + 1][Tree(r)] = M[k + 1][r]
    OBVIOUS
  <2>1. k \in 0..(n - 1) /\ k \in 0..n /\ Same(k)
    BY <1>8
  <2>2. /\ M[k] \in [Roots -> Elems] /\ V[k] \in [Classes -> Elems]
        /\ M[k + 1] = [M[k] EXCEPT ![root[k]] = Merge(M[k][root[k]], other[k])]
        /\ V[k + 1] = [V[k] EXCEPT ![class[k]] = Merge(V[k][class[k]], other[k])]
    BY <1>4, <1>5, <2>1 DEF Merging
  <2>3. root[k] \in Roots /\ class[k] = Tree(root[k])
    BY <1>3, <2>1
  <2>4. Tree(r) \in Classes /\ V[k][Tree(r)] = M[k][r] /\ V[k][class[k]] = M[k][root[k]]
    BY <2>1, <2>3 DEF View
  <2>5. CASE r = root[k]
    BY <2>2, <2>3, <2>4, <2>5
  <2>6. CASE r # root[k]
    <3>1. Tree(r) # class[k]
      BY <2>3, <2>6 DEF View
    <3> QED
      BY <2>2, <2>3, <2>4, <2>6, <3>1
  <2> QED
    BY <2>5, <2>6
<1> HIDE DEF T
<1>9. Nat \subseteq T
  BY <1>7, <1>8, SetInduction
<1>10. Quiet
  BY MergeWithInv DEF Quiet
<1>11. Classes' = Classes /\ Value' = V[n]
  <2>1. \A r \in Roots : V[n][Tree(r)] = M[n][r]
    BY <1>9 DEF T
  <2>2. \A r \in Roots : Value'[Tree(r)] = V[n][Tree(r)]
    BY <1>1, <1>10, <2>1, QuietView DEF M
  <2>3. \A c \in Classes : Value'[c] = V[n][c]
    BY <2>2 DEF View
  <2>4. V[n] \in [Classes -> Elems]
    BY <1>5 DEF Merging
  <2>5. Value' = [c \in Classes |-> Value'[c]] /\ Classes' = Classes
    BY <1>10, QuietView
  <2> QED
    BY <2>3, <2>4, <2>5
<1>12. P!MergeWith(other)
  BY <1>6, <1>11 DEF P!MergeWith, V, MergedValues, MergedValuesIs
<1> QED
  BY <1>2, <1>6, <1>12

LEMMA StepRefines ==
  ASSUME IInv, View, View', [Next]_vars
  PROVE  [P!Next]_(P!vars)
<1>1. P!Indices = Indices
  BY DEF View
<1>2. ASSUME NEW e \in Elems, Push(e) PROVE P!Next
  BY <1>2, PushRefines DEF P!Next
<1>3. ASSUME NEW i \in Indices, NEW j \in Indices, SameSet(i, j) PROVE UNCHANGED P!vars
  <2>1. Quiet /\ map' = map
    BY <1>3, SameSetInv DEF Quiet, SameSet
  <2> QED
    BY <2>1, QuietStutters
<1>4. ASSUME NEW i \in Indices, NEW j \in Indices, Union(i, j) PROVE [P!Next]_(P!vars)
  <2>1. CASE Root(parent, i) = Root(parent, j)
    <3>1. Quiet /\ map' = map
      BY <1>4, <2>1, UnionInv DEF Quiet
    <3> QED
      BY <3>1, QuietStutters
  <2>2. CASE Root(parent, i) # Root(parent, j)
    BY <1>1, <1>4, <2>2, UnionRefines DEF P!Next
  <2> QED
    BY <2>1, <2>2
<1>5. ASSUME NEW i \in Indices, Get(i) PROVE UNCHANGED P!vars
  <2>1. Quiet /\ map' = map
    BY <1>5, GetInv DEF Quiet, Get
  <2> QED
    BY <2>1, QuietStutters
<1>6. ASSUME NEW i \in Indices, NEW e \in Elems, Update(i, e) PROVE P!Next
  BY <1>1, <1>6, UpdateRefines DEF P!Next
<1>7. ASSUME NEW f \in [Elems -> Elems], MapValues(f) PROVE P!Next
  BY <1>7, MapValuesRefines DEF P!Next
<1>8. ASSUME NEW is \in IndexSets, is \subseteq Indices, NEW other \in [is -> Elems],
             MergeWith(other)
      PROVE  P!Next
  BY <1>8, MergeWithRefines DEF P!Next
<1>9. CASE UNCHANGED vars
  <2>1. UNCHANGED <<Classes, Value>>
    BY <1>9 DEF vars, Classes, Value, SetFrom, Roots, Indices
  <2> QED
    BY <2>1 DEF P!vars
<1> QED
  BY <1>2, <1>3, <1>4, <1>5, <1>6, <1>7, <1>8, <1>9 DEF Next

(* The forest implements the partition: whatever the order of the calls    *)
(* and whichever roots win, callers see classes that only a union changes, *)
(* by joining two, and one element for each (property                      *)
(* ImplementsPartition).                                                   *)
THEOREM PartitionImplemented == Spec => ImplementsPartition
<1>1. Init /\ IInv /\ View => P!Init
  BY InitRefines
<1>2. IInv => View
  BY ViewHolds
<1>3. IInv /\ View /\ View' /\ [Next]_vars => [P!Next]_(P!vars)
  BY StepRefines
<1>4. Spec => []IInv
  BY Invariance
<1> QED
  BY <1>1, <1>2, <1>3, <1>4, PTL DEF Spec, ImplementsPartition, P!Spec
=============================================================================
