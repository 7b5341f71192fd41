---------------------- MODULE ConstraintBuilderProofs ----------------------
(***************************************************************************)
(* The safety properties of ConstraintBuilder, proved for all bounds.  The *)
(* inductive invariant says that the live cursors are nested: one that is  *)
(* suspended has no more variables, scopes or depth than the one that      *)
(* borrowed it, so what the innermost writes lies above its counts.        *)
(***************************************************************************)
EXTENDS ConstraintBuilder, SequenceTheorems, TLAPS

IsList(s) == Len(s) \in Nat /\ s = [i \in 1..Len(s) |-> s[i]]

Fields == {"nodes", "kvars", "scopes", "vars", "next_name"}

(* The builder alone: a parent is older than its children, and no scope    *)
(* exceeds the stack of variables, not even one left by a dropped cursor.  *)
BuilderInv(b) ==
    /\ DOMAIN b = Fields
    /\ IsList(b.nodes)
    /\ IsBuilder(b)
    /\ \A i \in 1..Len(b.nodes) : b.nodes[i].parent < i
    /\ \A i \in 1..Len(b.scopes) : b.scopes[i] <= Len(b.vars)

(* The variables, the pointer and the scopes of a cursor c of builder b.   *)
VarsInv(b, c) ==
    /\ c.nvars = Len(b.nodes[c.node].binders)
    /\ c.nvars <= Len(b.vars)
    /\ \A i \in 1..c.nvars : b.vars[i] = b.nodes[c.node].binders[i]
PointerInv(b, c) ==
    /\ c.node \in 1..Len(b.nodes)
    /\ b.nodes[c.node].kind # "Head"
    /\ \A m \in (c.node + 1)..Len(b.nodes) : b.nodes[m].parent # b.nodes[c.node].parent
ScopesInv(b, c) ==
    /\ c.nscopes <= Len(b.scopes)
    /\ \A i \in 1..c.nscopes :
          /\ b.scopes[i] <= c.nvars
          /\ \A j \in 1..i : b.scopes[j] <= b.scopes[i]
CursorInv(b, c) == c \in Cursor /\ VarsInv(b, c) /\ PointerInv(b, c) /\ ScopesInv(b, c)

(* Cursor c can be one that d borrowed.                                    *)
Within(c, d) == c.node <= d.node /\ c.nvars <= d.nvars /\ c.nscopes <= d.nscopes

IInv ==
    /\ BuilderInv(builder)
    /\ cursors \in Seq(Cursor) /\ cursors # <<>>
    /\ \A k \in 1..Len(cursors) : CursorInv(builder, cursors[k])
    /\ \A l \in 1..Len(cursors) : \A k \in 1..l : Within(cursors[k], cursors[l])

(* Cursor s.c works on s.b.                                                *)
Works(s) ==
    /\ DOMAIN s = {"b", "c"}
    /\ BuilderInv(s.b)
    /\ CursorInv(s.b, s.c)

(* What an operation owes: the cursor only goes deeper, and every cursor it*)
(* may have borrowed, itself before the operation included, stays valid.   *)
Grows(s, t) ==
    /\ Works(t)
    /\ Within(s.c, t.c)
    /\ \A d \in Cursor : CursorInv(s.b, d) /\ Within(d, s.c) => CursorInv(t.b, d)
-----------------------------------------------------------------------------
(* Sequences.                                                              *)

(* Appending to a list whose elements have no common set.                  *)
LEMMA AppendList ==
    ASSUME NEW s, IsList(s), NEW e
    PROVE  /\ IsList(Append(s, e))
           /\ Len(Append(s, e)) = Len(s) + 1
           /\ \A i \in 1..Len(s) : Append(s, e)[i] = s[i]
           /\ Append(s, e)[Len(s) + 1] = e
<1> DEFINE S == {s[i] : i \in 1..Len(s)} \union {e}
           t == Append(s, e)
<1>1. s \in Seq(S)
  BY DEF IsList
<1>2. /\ t \in Seq(S) /\ Len(t) = Len(s) + 1
      /\ \A i \in 1..Len(s) : t[i] = s[i]
      /\ t[Len(s) + 1] = e
  BY <1>1, AppendProperties
<1>3. Len(t) \in Nat /\ t \in [1..Len(t) -> S]
  BY <1>2, LenProperties
<1>4. t = [i \in 1..Len(t) |-> t[i]]
  BY <1>3
<1> QED
  BY <1>2, <1>3, <1>4 DEF IsList

LEMMA ListDomain == ASSUME NEW s, IsList(s) PROVE DOMAIN s = 1..Len(s)
BY DEF IsList

(* A stack that is written at n keeps what is below, and does not shrink.  *)
Written(t, stack, n, v) ==
    /\ Len(t) \in Nat /\ Len(t) >= Len(stack) /\ Len(t) >= n + 1
    /\ t[n + 1] = v
    /\ \A i \in 1..n : t[i] = stack[i]
    /\ \A i \in 1..Len(t) : t[i] = v \/ (i \in 1..Len(stack) /\ t[i] = stack[i])

LEMMA SetOrPushProperties ==
    ASSUME NEW S, NEW stack \in Seq(S), NEW n \in Nat, n <= Len(stack), NEW v \in S
    PROVE  /\ SetOrPush(stack, n, v) \in Seq(S)
           /\ Written(SetOrPush(stack, n, v), stack, n, v)
<1> DEFINE t == SetOrPush(stack, n, v)
<1> SUFFICES t \in Seq(S) /\ Written(t, stack, n, v)
  OBVIOUS
<1> USE DEF Written
<1>1. CASE n < Len(stack)
  <2>1. t = [stack EXCEPT ![n + 1] = v] /\ n + 1 \in 1..Len(stack)
    BY <1>1 DEF SetOrPush
  <2> QED
    BY <2>1, <1>1, ExceptSeq, LenProperties
<1>2. CASE n = Len(stack)
  <2>1. t = Append(stack, v)
    BY <1>2 DEF SetOrPush
  <2> QED
    BY <2>1, <1>2, AppendProperties, LenProperties
<1> QED
  BY <1>1, <1>2, LenProperties

-----------------------------------------------------------------------------
(* The operations of a cursor, each of which grows the builder.            *)

LEMMA GrowsReflexive ==
    ASSUME NEW s, Works(s)
    PROVE  Grows(s, s)
BY DEF Grows, Works, Within, CursorInv, Cursor

(* The new node, in Constraint's terms, of a builder left as it is but for *)
(* its stack of variables and its names.                                   *)
NewNode(s, kind, bound, pred) ==
    [kind |-> kind, parent |-> s.c.node,
     binders |-> s.b.nodes[s.c.node].binders \o bound, pred |-> pred]

LEMMA NewNodeType ==
    ASSUME NEW s, Works(s), NEW kind \in {"Conj", "ForAll", "Guard", "Head"},
           NEW bound \in Seq(Name), NEW pred, PredVars(pred) \subseteq Name
    PROVE  LET binders == s.b.nodes[s.c.node].binders
           IN  /\ IsNode(NewNode(s, kind, bound, pred))
               /\ binders \in Seq(Name)
               /\ Len(binders \o bound) = Len(binders) + Len(bound)
               /\ \A i \in 1..Len(binders) + Len(bound) :
                     (binders \o bound)[i] =
                         IF i <= Len(binders) THEN binders[i] ELSE bound[i - Len(binders)]
<1>1. s.c.node \in 1..Len(s.b.nodes) /\ s.c.node \in Nat
  BY DEF Works, CursorInv, PointerInv, Cursor
<1>2. IsNode(s.b.nodes[s.c.node])
  BY <1>1, ListDomain DEF Works, BuilderInv, IsBuilder
<1> QED
  BY <1>1, <1>2, ConcatProperties DEF IsNode, NewNode

(* A node is added under the cursor; the stack of variables and the next   *)
(* name may change, but not in what a cursor within s.c relies on.         *)
AddsNode(s, node, b) ==
    /\ DOMAIN b = Fields
    /\ b.nodes = Append(s.b.nodes, node)
    /\ b.kvars = s.b.kvars /\ b.scopes = s.b.scopes
    /\ b.next_name \in Name
    /\ b.vars \in Seq(Name) /\ Len(b.vars) >= Len(s.b.vars)
    /\ \A i \in 1..s.c.nvars : b.vars[i] = s.b.vars[i]

LEMMA NodeGrows ==
    ASSUME NEW s, Works(s), NEW kind \in {"Conj", "ForAll", "Guard", "Head"},
           NEW bound \in Seq(Name), NEW pred, PredVars(pred) \subseteq Name,
           NEW b, AddsNode(s, NewNode(s, kind, bound, pred), b)
    PROVE  /\ BuilderInv(b)
           /\ \A d \in Cursor : CursorInv(s.b, d) /\ Within(d, s.c) => CursorInv(b, d)
<1> DEFINE node == NewNode(s, kind, bound, pred)
           nodes == Append(s.b.nodes, node)
<1>1. AddsNode(s, node, b)
  OBVIOUS
<1>2. /\ DOMAIN b = Fields
      /\ b.nodes = nodes /\ b.kvars = s.b.kvars /\ b.scopes = s.b.scopes
      /\ b.next_name \in Name /\ b.vars \in Seq(Name) /\ Len(b.vars) >= Len(s.b.vars)
      /\ \A i \in 1..s.c.nvars : b.vars[i] = s.b.vars[i]
  BY <1>1 DEF AddsNode
<1>3. /\ IsList(nodes) /\ Len(nodes) = Len(s.b.nodes) + 1
      /\ \A i \in 1..Len(s.b.nodes) : nodes[i] = s.b.nodes[i]
      /\ nodes[Len(s.b.nodes) + 1] = node
      /\ Len(s.b.nodes) \in Nat
      /\ DOMAIN s.b.nodes = 1..Len(s.b.nodes) /\ DOMAIN nodes = 1..Len(nodes)
  BY AppendList, ListDomain DEF Works, BuilderInv, IsList
<1>4. s.c.node \in 1..Len(s.b.nodes) /\ s.c.node \in Nat /\ s.c.nvars \in Nat
  BY DEF Works, CursorInv, PointerInv, Cursor
<1>5. IsNode(node) /\ node.parent = s.c.node
  BY NewNodeType DEF NewNode
<1> HIDE DEF node, nodes
<1>6. BuilderInv(b)
  <2>1. \A i \in 1..Len(nodes) : IsNode(nodes[i]) /\ nodes[i].parent < i
    <3> SUFFICES ASSUME NEW i \in 1..Len(nodes)
                 PROVE  IsNode(nodes[i]) /\ nodes[i].parent < i
      OBVIOUS
    <3>1. CASE i \in 1..Len(s.b.nodes)
      BY <3>1, <1>3 DEF Works, BuilderInv, IsBuilder
    <3>2. CASE i = Len(s.b.nodes) + 1
      BY <3>2, <1>3, <1>4, <1>5
    <3> QED
      BY <3>1, <3>2, <1>3
  <2>3. s.b.kvars \in Seq(Seq(Name)) /\ s.b.scopes \in Seq(Nat) /\ s.b.vars \in Seq(Name)
    BY DEF Works, BuilderInv, IsBuilder
  <2>2. \A i \in 1..Len(s.b.scopes) : s.b.scopes[i] <= Len(b.vars)
    <3>1. \A i \in 1..Len(s.b.scopes) : s.b.scopes[i] \in Nat /\ s.b.scopes[i] <= Len(s.b.vars)
      BY <2>3, ElementOfSeq DEF Works, BuilderInv
    <3>2. Len(s.b.vars) \in Nat /\ Len(b.vars) \in Nat
      BY <2>3, LenProperties
    <3> QED
      BY <1>2, <3>1, <3>2
  <2>4. IsBuilder(b)
    BY <2>1, <2>3, <1>2, <1>3 DEF IsBuilder
  <2> QED
    BY <2>1, <2>2, <2>4, <1>2, <1>3 DEF BuilderInv
<1>7. ASSUME NEW d \in Cursor, CursorInv(s.b, d), Within(d, s.c)
      PROVE  CursorInv(b, d)
  <2>1. /\ d.node \in 1..Len(s.b.nodes) /\ d.node \in Nat /\ d.nvars \in Nat
        /\ nodes[d.node] = s.b.nodes[d.node]
    BY <1>7, <1>3 DEF CursorInv, PointerInv, Cursor
  <2>2. VarsInv(b, d)
    <3>1. d.nvars <= s.c.nvars /\ Len(s.b.vars) \in Nat /\ Len(b.vars) \in Nat
      BY <1>7, LenProperties DEF Within, Works, BuilderInv, IsBuilder
    <3>2. b.nodes[d.node] = s.b.nodes[d.node] 
      BY <1>2, <2>1
    <3>3. \A i \in 1..d.nvars : b.vars[i] = s.b.vars[i]
      BY <1>2, <1>4, <2>1, <3>1
    <3>4. VarsInv(s.b, d)
      BY <1>7 DEF CursorInv
    <3>5. d.nvars <= Len(b.vars)
      <4>1. d.nvars <= Len(s.b.vars)
        BY <3>4 DEF VarsInv
      <4> QED
        BY <4>1, <1>2, <2>1, <3>1
    <3>6. \A i \in 1..d.nvars : b.vars[i] = b.nodes[d.node].binders[i]
      BY <3>2, <3>3, <3>4 DEF VarsInv
    <3> QED
      BY <3>2, <3>4, <3>5, <3>6 DEF VarsInv
  <2>3. PointerInv(b, d)
    <3>1. nodes[d.node].parent \in Nat /\ nodes[d.node].parent < d.node
      BY <2>1, <1>3 DEF Works, BuilderInv, IsBuilder, IsNode
    <3>2. node.parent # nodes[d.node].parent
      BY <3>1, <2>1, <1>4, <1>5, <1>7 DEF Within
    <3>3. ASSUME NEW m \in (d.node + 1)..Len(nodes)
          PROVE  nodes[m].parent # nodes[d.node].parent
      <4>1. CASE m \in (d.node + 1)..Len(s.b.nodes)
        <5>1. m \in 1..Len(s.b.nodes)
          BY <4>1, <2>1, <1>3
        <5>2. s.b.nodes[m].parent # s.b.nodes[d.node].parent
          BY <4>1, <1>7 DEF CursorInv, PointerInv
        <5> QED
          BY <5>1, <5>2, <2>1, <1>3
      <4>2. CASE m = Len(s.b.nodes) + 1
        BY <4>2, <3>2, <1>3
      <4> QED
        BY <4>1, <4>2, <1>3, <2>1, SMTT(30)
    <3> QED
      BY <3>3, <2>1, <1>2, <1>3, <1>7, SMTT(30) DEF CursorInv, PointerInv
  <2>4. ScopesInv(b, d)
    BY <1>2, <1>7 DEF CursorInv, ScopesInv
  <2> QED
    BY <2>2, <2>3, <2>4 DEF CursorInv
<1> QED
  BY <1>6, <1>7

(* The cursor moves into the new node: its variables are those of the node *)
(* it leaves and then the node's own, which the stack must hold.           *)
LEMMA NodeCursor ==
    ASSUME NEW s, Works(s), NEW kind \in {"Conj", "ForAll", "Guard"},
           NEW bound \in Seq(Name), NEW pred, PredVars(pred) \subseteq Name,
           NEW b, AddsNode(s, NewNode(s, kind, bound, pred), b),
           NEW c \in Cursor,
           c.node = Len(s.b.nodes) + 1, c.nscopes = s.c.nscopes,
           c.nvars = s.c.nvars + Len(bound), c.nvars <= Len(b.vars),
           \A i \in 1..Len(bound) : b.vars[s.c.nvars + i] = bound[i]
    PROVE  CursorInv(b, c) /\ Within(s.c, c)
<1> DEFINE node == NewNode(s, kind, bound, pred)
           binders == s.b.nodes[s.c.node].binders
<1>1. /\ b.nodes = Append(s.b.nodes, node) /\ b.scopes = s.b.scopes
      /\ \A i \in 1..s.c.nvars : b.vars[i] = s.b.vars[i]
  BY DEF AddsNode
<1>2. b.nodes[c.node] = node /\ Len(b.nodes) = c.node /\ Len(s.b.nodes) \in Nat
  BY <1>1, AppendList DEF Works, BuilderInv, IsList
<1>3. /\ node.kind = kind /\ node.binders = binders \o bound
      /\ binders \in Seq(Name)
      /\ Len(binders \o bound) = Len(binders) + Len(bound)
      /\ \A i \in 1..Len(binders) + Len(bound) :
            (binders \o bound)[i] =
                IF i <= Len(binders) THEN binders[i] ELSE bound[i - Len(binders)]
  BY NewNodeType DEF NewNode
<1>4. /\ s.c \in Cursor /\ s.c.nvars = Len(binders)
      /\ \A i \in 1..s.c.nvars : s.b.vars[i] = binders[i]
  BY DEF Works, CursorInv, VarsInv
<1>5. /\ s.c.nvars \in Nat /\ s.c.node \in Nat /\ s.c.nscopes \in Nat
      /\ s.c.node <= Len(s.b.nodes) /\ Len(bound) \in Nat
  <2>1. s.c.node \in 1..Len(s.b.nodes)
    BY DEF Works, CursorInv, PointerInv
  <2>2. Len(bound) \in Nat
    BY LenProperties
  <2>3. s.c.nvars \in Nat /\ s.c.node \in Nat /\ s.c.nscopes \in Nat
    BY <1>4 DEF Cursor
  <2>4. s.c.node <= Len(s.b.nodes)
    BY <2>1, <2>3
  <2> QED
    BY <2>2, <2>3, <2>4
<1> HIDE DEF node, binders
<1>6. VarsInv(b, c)
  <2>1. ASSUME NEW i \in 1..c.nvars
        PROVE  b.vars[i] = (binders \o bound)[i]
    <3>1. CASE i <= s.c.nvars
      BY <3>1, <1>1, <1>3, <1>4, <1>5
    <3>2. CASE ~(i <= s.c.nvars)
      <4>1. i - s.c.nvars \in 1..Len(bound) /\ i = s.c.nvars + (i - s.c.nvars)
        BY <3>2, <1>5, SMTT(30)
      <4>2. b.vars[i] = bound[i - s.c.nvars]
        BY <4>1
      <4> QED
        BY <4>2, <3>2, <1>3, <1>4, <1>5
    <3> QED
      BY <3>1, <3>2
  <2> QED
    BY <2>1, <1>1, <1>2, <1>3, <1>4 DEF VarsInv
<1>7. PointerInv(b, c)
  BY <1>2, <1>3 DEF PointerInv
<1>8. ScopesInv(b, c)
  <2>1. ScopesInv(s.b, s.c) /\ s.b.scopes \in Seq(Nat)
    BY DEF Works, CursorInv, BuilderInv, IsBuilder
  <2>2. \A i \in 1..s.c.nscopes : s.b.scopes[i] \in Nat
    <3>1. \A i \in 1..Len(s.b.scopes) : s.b.scopes[i] \in Nat
      BY <2>1, ElementOfSeq
    <3>2. Len(s.b.scopes) \in Nat /\ s.c.nscopes <= Len(s.b.scopes)
      BY <2>1, LenProperties DEF ScopesInv
    <3> QED
      BY <3>1, <3>2, <1>5
  <2>3. \A i \in 1..s.c.nscopes : s.b.scopes[i] <= c.nvars
    <3>1. \A i \in 1..s.c.nscopes : s.b.scopes[i] <= s.c.nvars
      BY <2>1 DEF ScopesInv
    <3>2. c.nvars \in Nat /\ s.c.nvars <= c.nvars
      BY <1>5
    <3> QED
      BY <3>1, <3>2, <2>2, <1>5
  <2> QED
    BY <2>1, <2>3, <1>1 DEF ScopesInv
<1>9. Within(s.c, c)
  BY <1>2, <1>5, SMTT(30) DEF Within
<1> QED
  BY <1>6, <1>7, <1>8, <1>9 DEF CursorInv

(* What of a working cursor the other lemmas ask for.                      *)
LEMMA WorksFacts ==
    ASSUME NEW s, Works(s)
    PROVE  /\ DOMAIN s.b = Fields
           /\ s.b.vars \in Seq(Name) /\ s.b.next_name \in Name
           /\ s.b.scopes \in Seq(Nat) /\ s.b.kvars \in Seq(Seq(Name))
           /\ Len(s.b.vars) \in Nat /\ Len(s.b.nodes) \in Nat /\ Len(s.b.scopes) \in Nat
           /\ s.c \in Cursor /\ s.c.nvars \in Nat /\ s.c.nscopes \in Nat
           /\ s.c.nvars <= Len(s.b.vars) /\ s.c.nscopes <= Len(s.b.scopes)
           /\ s.c.node \in 1..Len(s.b.nodes)
<1>1. BuilderInv(s.b) /\ CursorInv(s.b, s.c)
  BY DEF Works
<1>2. /\ s.b.vars \in Seq(Name) /\ s.b.next_name \in Name
      /\ s.b.scopes \in Seq(Nat) /\ s.b.kvars \in Seq(Seq(Name))
  BY <1>1 DEF BuilderInv, IsBuilder
<1>3. s.c \in Cursor /\ s.c.nvars \in Nat /\ s.c.nscopes \in Nat
  BY <1>1 DEF CursorInv, Cursor
<1>4. Len(s.b.vars) \in Nat /\ Len(s.b.nodes) \in Nat /\ Len(s.b.scopes) \in Nat
  BY <1>1, <1>2, LenProperties DEF BuilderInv, IsList
<1> QED
  BY <1>1, <1>2, <1>3, <1>4 DEF BuilderInv, CursorInv, VarsInv, PointerInv, ScopesInv

(* push_guard and push_head: a node that binds nothing.                    *)
LEMMA PushNodeGrows ==
    ASSUME NEW s, Works(s), NEW kind \in {"Guard", "Head"},
           NEW pred, PredVars(pred) \subseteq Name
    PROVE  LET t == PushNode(s, kind, <<>>, pred)
           IN  Grows(s, t) /\ t.b.kvars = s.b.kvars
<1> DEFINE none == <<>>
           t == PushNode(s, kind, none, pred)
           node == NewNode(s, kind, none, pred)
<1>1. /\ DOMAIN t = {"b", "c"}
      /\ t.b = [s.b EXCEPT !.nodes = Append(s.b.nodes, node)]
      /\ t.c = [s.c EXCEPT !.node = IF kind = "Head" THEN s.c.node ELSE Len(s.b.nodes) + 1]
  BY DEF PushNode, NewNode
<1> HIDE DEF t, node
<1>2. /\ DOMAIN s.b = Fields
      /\ s.b.vars \in Seq(Name) /\ s.b.next_name \in Name
      /\ Len(s.b.vars) \in Nat /\ Len(s.b.nodes) \in Nat
      /\ s.c \in Cursor /\ s.c.nvars \in Nat /\ s.c.nvars <= Len(s.b.vars)
  BY WorksFacts
<1>3. /\ DOMAIN t.b = Fields /\ t.b.nodes = Append(s.b.nodes, node)
      /\ t.b.kvars = s.b.kvars /\ t.b.scopes = s.b.scopes /\ t.b.vars = s.b.vars
      /\ t.b.next_name = s.b.next_name
  BY <1>1, <1>2 DEF Fields
<1>4. AddsNode(s, node, t.b)
  BY <1>2, <1>3 DEF AddsNode
<1>5. none \in Seq(Name) /\ Len(none) = 0
  BY EmptySeq
<1> HIDE DEF none
<1>6. /\ BuilderInv(t.b)
      /\ \A d \in Cursor : CursorInv(s.b, d) /\ Within(d, s.c) => CursorInv(t.b, d)
  BY <1>4, <1>5, NodeGrows DEF node
<1>7. CursorInv(t.b, t.c) /\ Within(s.c, t.c)
  <2>1. CASE kind = "Head"
    <3>1. t.c = s.c
      BY <2>1, <1>1, <1>2 DEF Cursor
    <3>2. Within(s.c, s.c) /\ CursorInv(s.b, s.c)
      BY <1>2 DEF Within, Works, Cursor
    <3> QED
      BY <3>1, <3>2, <1>2, <1>6
  <2>2. CASE kind = "Guard"
    <3>1. /\ t.c \in Cursor /\ t.c.node = Len(s.b.nodes) + 1
          /\ t.c.nscopes = s.c.nscopes /\ t.c.nvars = s.c.nvars
      BY <2>2, <1>1, <1>2 DEF Cursor
    <3>2. t.c.nvars = s.c.nvars + Len(none) /\ t.c.nvars <= Len(t.b.vars)
      BY <3>1, <1>2, <1>3, <1>5
    <3>3. \A i \in 1..Len(none) : t.b.vars[s.c.nvars + i] = none[i]
      BY <1>5
    <3>4. AddsNode(s, NewNode(s, kind, none, pred), t.b)
      BY <1>4 DEF node
    <3> QED
      <4>1. \A bound \in Seq(Name) : \A b, c :
               /\ AddsNode(s, NewNode(s, kind, bound, pred), b)
               /\ c \in Cursor
               /\ c.node = Len(s.b.nodes) + 1 /\ c.nscopes = s.c.nscopes
               /\ c.nvars = s.c.nvars + Len(bound) /\ c.nvars <= Len(b.vars)
               /\ \A i \in 1..Len(bound) : b.vars[s.c.nvars + i] = bound[i]
               => CursorInv(b, c) /\ Within(s.c, c)
        BY <2>2, NodeCursor
      <4> QED
        BY <3>1, <3>2, <3>3, <3>4, <1>5, <4>1
  <2> QED
    BY <2>1, <2>2
<1>8. Grows(s, t) /\ t.b.kvars = s.b.kvars
  BY <1>1, <1>3, <1>6, <1>7 DEF Grows, Works
<1> QED
  BY <1>8 DEF t, none

(* fresh_name and push_forall, as unpack and the callers combine them: the *)
(* variable goes on the stack above those of the cursor.                   *)
LEMMA PushForallGrows ==
    ASSUME NEW s, Works(s), NEW x \in Name, NEW pred, PredVars(pred) \subseteq Name
    PROVE  LET t == PushForall(TakeName(s), x, pred)
           IN  Grows(s, t) /\ t.b.kvars = s.b.kvars
<1> DEFINE bound == <<x>>
           t == PushForall(TakeName(s), x, pred)
           node == NewNode(s, "ForAll", bound, pred)
           named == TakeName(s)
           moved == PushNode(named, "ForAll", bound, pred)
<1>1. /\ DOMAIN s = {"b", "c"} /\ DOMAIN s.b = Fields
      /\ s.b.vars \in Seq(Name) /\ s.b.next_name \in Name
      /\ Len(s.b.vars) \in Nat /\ Len(s.b.nodes) \in Nat
      /\ s.c \in Cursor /\ s.c.nvars \in Nat /\ s.c.nvars <= Len(s.b.vars)
  BY WorksFacts DEF Works
<1>2. /\ DOMAIN named.b = Fields /\ named.c = s.c
      /\ named.b.nodes = s.b.nodes /\ named.b.kvars = s.b.kvars
      /\ named.b.scopes = s.b.scopes /\ named.b.vars = s.b.vars
      /\ named.b.next_name = s.b.next_name + 1
  BY <1>1 DEF TakeName, Fields
<1> HIDE DEF named, bound
<1>3. /\ moved.b = [named.b EXCEPT !.nodes = Append(named.b.nodes, node)]
      /\ moved.c = [named.c EXCEPT !.node = Len(named.b.nodes) + 1]
  BY <1>2 DEF PushNode, NewNode
<1>4. /\ DOMAIN t = {"b", "c"}
      /\ t.b = [moved.b EXCEPT !.vars = SetOrPush(moved.b.vars, moved.c.nvars, x)]
      /\ t.c = [moved.c EXCEPT !.nvars = moved.c.nvars + 1]
  BY DEF PushForall, PushVar, named, bound
<1> HIDE DEF t, moved, node
<1>5. /\ DOMAIN moved.b = Fields /\ moved.b.nodes = Append(s.b.nodes, node)
      /\ moved.b.kvars = s.b.kvars /\ moved.b.scopes = s.b.scopes
      /\ moved.b.vars = s.b.vars /\ moved.b.next_name = s.b.next_name + 1
      /\ moved.c \in Cursor /\ moved.c.node = Len(s.b.nodes) + 1
      /\ moved.c.nscopes = s.c.nscopes /\ moved.c.nvars = s.c.nvars
  BY <1>1, <1>2, <1>3 DEF Fields, Cursor
<1>6. /\ DOMAIN t.b = Fields /\ t.b.nodes = Append(s.b.nodes, node)
      /\ t.b.kvars = s.b.kvars /\ t.b.scopes = s.b.scopes
      /\ t.b.vars = SetOrPush(s.b.vars, s.c.nvars, x)
      /\ t.b.next_name = s.b.next_name + 1
      /\ t.c \in Cursor /\ t.c.node = Len(s.b.nodes) + 1
      /\ t.c.nscopes = s.c.nscopes /\ t.c.nvars = s.c.nvars + 1
  BY <1>1, <1>4, <1>5 DEF Fields, Cursor
<1>7. /\ t.b.vars \in Seq(Name) /\ Len(t.b.vars) \in Nat
      /\ Len(t.b.vars) >= Len(s.b.vars) /\ Len(t.b.vars) >= s.c.nvars + 1
      /\ t.b.vars[s.c.nvars + 1] = x
      /\ \A i \in 1..s.c.nvars : t.b.vars[i] = s.b.vars[i]
  <2>1. x \in Name /\ s.b.vars \in Seq(Name) /\ s.c.nvars \in Nat /\ s.c.nvars <= Len(s.b.vars)
    BY <1>1
  <2>2. t.b.vars = SetOrPush(s.b.vars, s.c.nvars, x)
    BY <1>6
  <2>3. t.b.vars \in Seq(Name) /\ Written(t.b.vars, s.b.vars, s.c.nvars, x)
    BY <2>1, <2>2, SetOrPushProperties
  <2> QED
    BY <2>3 DEF Written
<1>8. AddsNode(s, NewNode(s, "ForAll", bound, pred), t.b)
  <2>1. t.b.next_name \in Name
    BY <1>1, <1>6 DEF Name
  <2> QED
    BY <1>6, <1>7, <2>1 DEF AddsNode, node
<1>9. bound \in Seq(Name) /\ Len(bound) = 1 /\ bound[1] = x
  BY DEF bound
<1>10. /\ BuilderInv(t.b)
       /\ \A d \in Cursor : CursorInv(s.b, d) /\ Within(d, s.c) => CursorInv(t.b, d)
  BY <1>8, <1>9, NodeGrows
<1>11. CursorInv(t.b, t.c) /\ Within(s.c, t.c)
  <2>1. \A own \in Seq(Name) : \A b, c :
           /\ AddsNode(s, NewNode(s, "ForAll", own, pred), b)
           /\ c \in Cursor
           /\ c.node = Len(s.b.nodes) + 1 /\ c.nscopes = s.c.nscopes
           /\ c.nvars = s.c.nvars + Len(own) /\ c.nvars <= Len(b.vars)
           /\ \A i \in 1..Len(own) : b.vars[s.c.nvars + i] = own[i]
           => CursorInv(b, c) /\ Within(s.c, c)
    <3>1. "ForAll" \in {"Conj", "ForAll", "Guard"}
      OBVIOUS
    <3> QED
      BY <3>1, NodeCursor
  <2>2. t.c.nvars = s.c.nvars + Len(bound) /\ t.c.nvars <= Len(t.b.vars)
    BY <1>1, <1>6, <1>7, <1>9
  <2>3. \A i \in 1..Len(bound) : t.b.vars[s.c.nvars + i] = bound[i]
    BY <1>7, <1>9
  <2> QED
    BY <1>6, <1>8, <1>9, <2>1, <2>2, <2>3, ZenonT(30)
<1>12. Grows(s, t) /\ t.b.kvars = s.b.kvars
  BY <1>4, <1>6, <1>10, <1>11 DEF Grows, Works
<1> QED
  BY <1>12 DEF t

(* push_scope: the scopes of a cursor end with the number of its variables.*)
LEMMA PushScopeGrows ==
    ASSUME NEW s, Works(s)
    PROVE  LET t == PushScope(s)
           IN  Grows(s, t) /\ t.b.kvars = s.b.kvars
<1> DEFINE t == PushScope(s)
<1>1. /\ DOMAIN s.b = Fields
      /\ s.b.scopes \in Seq(Nat) /\ Len(s.b.scopes) \in Nat /\ Len(s.b.vars) \in Nat
      /\ s.c \in Cursor /\ s.c.nvars \in Nat /\ s.c.nscopes \in Nat
      /\ s.c.nvars <= Len(s.b.vars) /\ s.c.nscopes <= Len(s.b.scopes)
  BY WorksFacts
<1>2. /\ DOMAIN t = {"b", "c"}
      /\ t.b = [s.b EXCEPT !.scopes = SetOrPush(s.b.scopes, s.c.nscopes, s.c.nvars)]
      /\ t.c = [s.c EXCEPT !.nscopes = s.c.nscopes + 1]
  BY DEF PushScope
<1> HIDE DEF t
<1>3. /\ DOMAIN t.b = Fields /\ t.b.nodes = s.b.nodes /\ t.b.kvars = s.b.kvars
      /\ t.b.scopes = SetOrPush(s.b.scopes, s.c.nscopes, s.c.nvars)
      /\ t.b.vars = s.b.vars /\ t.b.next_name = s.b.next_name
      /\ t.c \in Cursor /\ t.c.node = s.c.node
      /\ t.c.nscopes = s.c.nscopes + 1 /\ t.c.nvars = s.c.nvars
  <2>1. /\ t.c \in Cursor /\ t.c.node = s.c.node
        /\ t.c.nscopes = s.c.nscopes + 1 /\ t.c.nvars = s.c.nvars
    BY <1>1, <1>2 DEF Cursor
  <2>2. t.b.scopes = SetOrPush(s.b.scopes, s.c.nscopes, s.c.nvars)
    BY <1>1, <1>2 DEF Fields
  <2>3. /\ DOMAIN t.b = Fields /\ t.b.nodes = s.b.nodes /\ t.b.kvars = s.b.kvars
        /\ t.b.vars = s.b.vars /\ t.b.next_name = s.b.next_name
    BY <1>1, <1>2 DEF Fields
  <2> QED
    BY <2>1, <2>2, <2>3
<1>4. /\ t.b.scopes \in Seq(Nat) /\ Len(t.b.scopes) \in Nat
      /\ Len(t.b.scopes) >= Len(s.b.scopes) /\ Len(t.b.scopes) >= s.c.nscopes + 1
      /\ t.b.scopes[s.c.nscopes + 1] = s.c.nvars
      /\ \A i \in 1..s.c.nscopes : t.b.scopes[i] = s.b.scopes[i]
      /\ \A i \in 1..Len(t.b.scopes) :
            \/ t.b.scopes[i] = s.c.nvars
            \/ i \in 1..Len(s.b.scopes) /\ t.b.scopes[i] = s.b.scopes[i]
  <2>1. /\ s.b.scopes \in Seq(Nat) /\ s.c.nvars \in Nat /\ s.c.nscopes \in Nat
        /\ s.c.nscopes <= Len(s.b.scopes)
    BY <1>1
  <2>2. t.b.scopes = SetOrPush(s.b.scopes, s.c.nscopes, s.c.nvars)
    BY <1>3
  <2>3. t.b.scopes \in Seq(Nat) /\ Written(t.b.scopes, s.b.scopes, s.c.nscopes, s.c.nvars)
    BY <2>1, <2>2, SetOrPushProperties
  <2> QED
    BY <2>3 DEF Written
<1>5. BuilderInv(t.b)
  <2>1. BuilderInv(s.b)
    BY DEF Works
  <2>2. \A i \in 1..Len(t.b.scopes) : t.b.scopes[i] <= Len(t.b.vars)
    BY <1>1, <1>3, <1>4, <2>1 DEF BuilderInv
  <2>3. IsBuilder(t.b)
    BY <1>3, <1>4, <2>1 DEF BuilderInv, IsBuilder
  <2> QED
    BY <1>3, <2>1, <2>2, <2>3 DEF BuilderInv
<1>6. ASSUME NEW d \in Cursor, CursorInv(s.b, d), Within(d, s.c)
      PROVE  CursorInv(t.b, d)
  <2>1. VarsInv(t.b, d) /\ PointerInv(t.b, d)
    BY <1>3, <1>6 DEF CursorInv, VarsInv, PointerInv
  <2>2. d.nscopes \in Nat /\ d.nscopes <= s.c.nscopes /\ d.nscopes <= Len(t.b.scopes)
    BY <1>1, <1>4, <1>6 DEF Within, Cursor
  <2>3. \A i \in 1..d.nscopes : t.b.scopes[i] = s.b.scopes[i]
    BY <1>1, <1>4, <2>2
  <2>4. ScopesInv(t.b, d)
    <3>1. ScopesInv(s.b, d)
      BY <1>6 DEF CursorInv
    <3>2. \A i \in 1..d.nscopes : \A j \in 1..i : t.b.scopes[j] = s.b.scopes[j]
      BY <2>2, <2>3
    <3> QED
      BY <3>1, <3>2, <2>2, <2>3 DEF ScopesInv
  <2> QED
    BY <2>1, <2>4 DEF CursorInv
<1>7. CursorInv(t.b, t.c)
  <2>1. CursorInv(s.b, s.c) /\ ScopesInv(s.b, s.c)
    BY DEF Works, CursorInv
  <2>2. VarsInv(t.b, t.c) /\ PointerInv(t.b, t.c)
    BY <1>3, <2>1 DEF CursorInv, VarsInv, PointerInv
  <2>3. \A i \in 1..s.c.nscopes : /\ t.b.scopes[i] <= s.c.nvars
                                  /\ \A j \in 1..i : t.b.scopes[j] <= t.b.scopes[i]
    <3> SUFFICES ASSUME NEW i \in 1..s.c.nscopes
                 PROVE  /\ t.b.scopes[i] <= s.c.nvars
                        /\ \A j \in 1..i : t.b.scopes[j] <= t.b.scopes[i]
      OBVIOUS
    <3>1. \A j \in 1..i : j \in 1..s.c.nscopes
      BY <1>1
    <3> QED
      BY <3>1, <1>4, <2>1 DEF ScopesInv
  <2>4. ScopesInv(t.b, t.c)
    <3>1. ASSUME NEW i \in 1..t.c.nscopes
          PROVE  /\ t.b.scopes[i] <= t.c.nvars
                 /\ \A j \in 1..i : t.b.scopes[j] <= t.b.scopes[i]
      <4>1. CASE i \in 1..s.c.nscopes
        BY <4>1, <2>3, <1>3
      <4>2. CASE i = s.c.nscopes + 1
        <5>1. \A j \in 1..i : j \in 1..s.c.nscopes \/ j = i
          BY <4>2, <1>1
        <5>2. t.b.scopes[i] = s.c.nvars /\ t.c.nvars = s.c.nvars
          BY <4>2, <1>3, <1>4
        <5> QED
          BY <5>1, <5>2, <2>3, <1>1
      <4> QED
        BY <4>1, <4>2, <1>1, <1>3
    <3> QED
      BY <3>1, <1>3, <1>4 DEF ScopesInv
  <2> QED
    BY <2>2, <2>4, <1>3 DEF CursorInv
<1>8. Within(s.c, t.c)
  BY <1>1, <1>3 DEF Within, Cursor
<1>9. Grows(s, t) /\ t.b.kvars = s.b.kvars
  BY <1>2, <1>3, <1>5, <1>6, <1>7, <1>8 DEF Grows, Works
<1> QED
  BY <1>9 DEF t

(* fresh_name alone, for an abstract location.                             *)
LEMMA TakeNameGrows ==
    ASSUME NEW s, Works(s)
    PROVE  Grows(s, TakeName(s)) /\ TakeName(s).b.kvars = s.b.kvars
<1> DEFINE t == TakeName(s)
<1>1. /\ DOMAIN s = {"b", "c"} /\ DOMAIN s.b = Fields
      /\ s.b.next_name \in Name /\ s.c \in Cursor
  BY WorksFacts DEF Works
<1>2. /\ DOMAIN t = {"b", "c"} /\ t.c = s.c /\ DOMAIN t.b = Fields
      /\ t.b.nodes = s.b.nodes /\ t.b.kvars = s.b.kvars
      /\ t.b.scopes = s.b.scopes /\ t.b.vars = s.b.vars
      /\ t.b.next_name = s.b.next_name + 1
  BY <1>1 DEF TakeName, Fields
<1> HIDE DEF t
<1>3. BuilderInv(t.b)
  <2>1. BuilderInv(s.b)
    BY DEF Works
  <2>2. IsBuilder(t.b)
    BY <1>1, <1>2, <2>1 DEF BuilderInv, IsBuilder, Name
  <2> QED
    BY <1>2, <2>1, <2>2 DEF BuilderInv
<1>4. \A d : CursorInv(s.b, d) => CursorInv(t.b, d)
  BY <1>2 DEF CursorInv, VarsInv, PointerInv, ScopesInv
<1>5. Within(s.c, t.c)
  BY <1>1, <1>2 DEF Within, Cursor
<1>6. Grows(s, t)
  BY <1>2, <1>3, <1>4, <1>5 DEF Grows, Works
<1> QED
  BY <1>2, <1>6 DEF t

(* fresh_kvar_at_scope, for a scope that the stack of variables has.       *)
LEMMA FreshKVarAtGrows ==
    ASSUME NEW s, Works(s), NEW scope \in Nat, scope <= Len(s.b.vars)
    PROVE  LET t == FreshKVarAt(s, scope)
           IN  Grows(s, t) /\ t.b.kvars = Append(s.b.kvars, KVarArgs(s.b, scope))
<1> DEFINE t == FreshKVarAt(s, scope)
           args == KVarArgs(s.b, scope)
<1>1. /\ DOMAIN s = {"b", "c"} /\ DOMAIN s.b = Fields
      /\ s.b.vars \in Seq(Name) /\ Len(s.b.vars) \in Nat
      /\ s.b.kvars \in Seq(Seq(Name)) /\ s.c \in Cursor
  BY WorksFacts DEF Works
<1>2. args \in Seq(Name)
  <2>1. \A i \in 1..Len(s.b.vars) : s.b.vars[i] \in Name
    BY <1>1, ElementOfSeq
  <2>2. \A i \in 1..scope : s.b.vars[i] \in Name
    BY <1>1, <2>1
  <2> QED
    BY <2>2, SubSeqProperties DEF KVarArgs
<1> HIDE DEF args
<1>3. /\ DOMAIN t = {"b", "c"} /\ t.c = s.c /\ DOMAIN t.b = Fields
      /\ t.b.nodes = s.b.nodes /\ t.b.kvars = Append(s.b.kvars, args)
      /\ t.b.scopes = s.b.scopes /\ t.b.vars = s.b.vars
      /\ t.b.next_name = s.b.next_name
  BY <1>1 DEF FreshKVarAt, Fields, args
<1> HIDE DEF t
<1>4. t.b.kvars \in Seq(Seq(Name))
  BY <1>1, <1>2, <1>3, AppendProperties
<1>5. BuilderInv(t.b)
  <2>1. BuilderInv(s.b)
    BY DEF Works
  <2>2. IsBuilder(t.b)
    BY <1>3, <1>4, <2>1 DEF BuilderInv, IsBuilder
  <2> QED
    BY <1>3, <2>1, <2>2 DEF BuilderInv
<1>6. \A d : CursorInv(s.b, d) => CursorInv(t.b, d)
  BY <1>3 DEF CursorInv, VarsInv, PointerInv, ScopesInv
<1>7. Within(s.c, t.c)
  BY <1>1, <1>3 DEF Within, Cursor
<1>8. Grows(s, t)
  BY <1>3, <1>5, <1>6, <1>7 DEF Grows, Works
<1> QED
  BY <1>3, <1>8 DEF t, args

(* Every scope on the builder's stack can be taken, the last one included. *)
LEMMA LastScopeInStack ==
    ASSUME NEW s, Works(s)
    PROVE  /\ LastScope(s.b) \in Nat /\ LastScope(s.b) <= Len(s.b.vars)
           /\ s.c.nscopes = Len(s.b.scopes) => LastScope(s.b) <= s.c.nvars
<1>1. /\ s.b.scopes \in Seq(Nat) /\ Len(s.b.scopes) \in Nat /\ Len(s.b.vars) \in Nat
      /\ s.c.nvars \in Nat
  BY WorksFacts
<1>2. CASE s.b.scopes = <<>>
  BY <1>1, <1>2 DEF LastScope
<1>3. CASE s.b.scopes # <<>>
  <2>1. Len(s.b.scopes) \in 1..Len(s.b.scopes)
    BY <1>1, <1>3, EmptySeq
  <2>2. LastScope(s.b) = s.b.scopes[Len(s.b.scopes)]
    BY <1>3 DEF LastScope, Last
  <2>3. s.b.scopes[Len(s.b.scopes)] \in Nat
    BY <1>1, <2>1, ElementOfSeq
  <2> QED
    BY <2>1, <2>2, <2>3 DEF Works, BuilderInv, CursorInv, ScopesInv
<1> QED
  BY <1>2, <1>3

(* The cursors of two operations in a row.                                 *)
LEMMA GrowsTransitive ==
    ASSUME NEW s, NEW t, NEW u, Works(s), Grows(s, t), Grows(t, u)
    PROVE  Grows(s, u)
<1>1. s.c \in Cursor /\ t.c \in Cursor /\ u.c \in Cursor
  BY DEF Grows, Works, CursorInv
<1>2. \A d \in Cursor : Within(d, s.c) => Within(d, t.c)
  BY <1>1 DEF Grows, Within, Cursor
<1>3. Within(s.c, u.c)
  BY <1>1 DEF Grows, Within, Cursor
<1> QED
  BY <1>2, <1>3 DEF Grows

(* subtyping drops the cursor that worked and goes on with its own.        *)
LEMMA GrowsDropped ==
    ASSUME NEW s, NEW t, NEW u, Works(s), Grows(s, t),
           DOMAIN u = {"b", "c"}, u.b = t.b, u.c = s.c
    PROVE  Grows(s, u)
<1>1. s.c \in Cursor /\ Within(s.c, s.c) /\ CursorInv(s.b, s.c)
  BY DEF Works, CursorInv, Within, Cursor
<1> QED
  BY <1>1 DEF Grows, Works

-----------------------------------------------------------------------------
(* Predicates and types over the variables in scope.                       *)

IsPred(pred) == PredVars(pred) \subseteq Name
IsType(ty) ==
    \/ ty = Uninit
    \/ \E e : ty = Refine(e) /\ e.fv \subseteq Name
    \/ \E pred : ty = Exists(pred) /\ \A e : e.fv \subseteq Name => IsPred(SubstPred(pred, e))

LEMMA ConstPred == ASSUME NEW e, e.fv \subseteq Name PROVE IsPred(ExprPred(e))
BY DEF IsPred, PredVars, ExprPred

LEMMA EqPred ==
    ASSUME NEW e1, e1.fv \subseteq Name, NEW e2, e2.fv \subseteq Name
    PROVE  IsPred(ExprPred(BinaryExpr("Eq", e1, e2)))
BY DEF IsPred, PredVars, ExprPred, BinaryExpr

(* A kvar of the builder, applied to any expression, mentions only names.  *)
LEMMA KVarPredType ==
    ASSUME NEW b, IsBuilder(b), NEW k \in DOMAIN b.kvars, NEW e, e.fv \subseteq Name
    PROVE  IsPred(SubstPred(KVarPred(b, k), e))
<1> DEFINE kvar == b.kvars[k]
           rest == [i \in DOMAIN kvar |-> VarExpr(kvar[i])]
           Arg == {BoundVar} \union {VarExpr(x) : x \in Name}
           args == <<BoundVar>> \o rest
<1>1. kvar \in Seq(Name)
  BY ElementOfSeq, LenProperties DEF IsBuilder
<1>2. rest \in Seq(Arg)
  <2>1. /\ DOMAIN kvar = 1..Len(kvar) /\ Len(kvar) \in Nat
        /\ \A i \in 1..Len(kvar) : kvar[i] \in Name
    BY <1>1, LenProperties, ElementOfSeq
  <2>2. rest \in [1..Len(kvar) -> Arg]
    BY <2>1
  <2> QED
    BY <2>1, <2>2, SeqDef
<1>3. <<BoundVar>> \in Seq(Arg)
  OBVIOUS
<1>4. args \in Seq(Arg)
  BY <1>2, <1>3, ConcatProperties
<1>5. \A i \in DOMAIN args : args[i].fv \subseteq Name
  <2>1. \A i \in DOMAIN args : args[i] \in Arg
    BY <1>4, ElementOfSeq, LenProperties
  <2>2. \A a \in Arg : a.fv \subseteq Name
    BY DEF BoundVar, VarExpr
  <2> QED
    BY <2>1, <2>2
<1> HIDE DEF args
<1>6. \A i \in DOMAIN args : SubstBoundVars(args[i], e).fv \subseteq Name
  BY <1>5 DEF SubstBoundVars
<1>7. SubstPred(KVar(k, args), e) =
          [KVar(k, args) EXCEPT !.args = [i \in DOMAIN args |-> SubstBoundVars(args[i], e)]]
  BY DEF SubstPred, KVar
<1>8. LET p == SubstPred(KVar(k, args), e)
      IN  p.kind = "KVar" /\ p.args = [i \in DOMAIN args |-> SubstBoundVars(args[i], e)]
  BY <1>7 DEF KVar
<1>9. PredVars(SubstPred(KVar(k, args), e)) =
          UNION {SubstBoundVars(args[i], e).fv : i \in DOMAIN args}
  BY <1>8 DEF PredVars
<1> QED
  BY <1>6, <1>9 DEF IsPred, KVarPred, args

-----------------------------------------------------------------------------
(* The operations that combine others.                                     *)

LEMMA PushGuardGrows ==
    ASSUME NEW s, Works(s), NEW e, e.fv \subseteq Name
    PROVE  Grows(s, PushGuard(s, e)) /\ PushGuard(s, e).b.kvars = s.b.kvars
<1>1. PredVars(ExprPred(e)) \subseteq Name
  BY ConstPred DEF IsPred
<1> QED
  BY <1>1, PushNodeGrows DEF PushGuard

LEMMA PushHeadGrows ==
    ASSUME NEW s, Works(s), NEW pred, IsPred(pred)
    PROVE  Grows(s, PushHead(s, pred)) /\ PushHead(s, pred).b.kvars = s.b.kvars
<1>1. CASE IsTrue(pred)
  BY <1>1, GrowsReflexive DEF PushHead
<1>2. CASE ~IsTrue(pred)
  BY <1>2, PushNodeGrows DEF PushHead, IsPred
<1> QED
  BY <1>1, <1>2

LEMMA UnpackGrows ==
    ASSUME NEW s, Works(s), NEW ty, IsType(ty)
    PROVE  Grows(s, Unpack(s, ty)) /\ Unpack(s, ty).b.kvars = s.b.kvars
<1>1. CASE ty.kind = "Exists"
  <2> DEFINE x == FreshName(s)
             pred == SubstPred(ty.pred, VarExpr(x))
  <2>1. x \in Name
    BY WorksFacts DEF FreshName
  <2>2. VarExpr(x).fv \subseteq Name
    BY <2>1 DEF VarExpr
  <2>3. PredVars(pred) \subseteq Name
    BY <1>1, <2>2 DEF IsType, Uninit, Refine, Exists, IsPred
  <2>4. Unpack(s, ty) = PushForall(TakeName(s), x, pred)
    BY <1>1 DEF Unpack
  <2> HIDE DEF x, pred
  <2> QED
    BY <2>1, <2>3, <2>4, PushForallGrows
<1>2. CASE ty.kind # "Exists"
  BY <1>2, GrowsReflexive DEF Unpack
<1> QED
  BY <1>1, <1>2

LEMMA SubtypingGrows ==
    ASSUME NEW s, Works(s), NEW ty1, IsType(ty1), NEW ty2, IsType(ty2),
           SubtypingDefined(ty1, ty2)
    PROVE  LET t == Subtyping(s, ty1, ty2)
           IN  Grows(s, t) /\ t.b.kvars = s.b.kvars
<1> DEFINE t == Subtyping(s, ty1, ty2)
           u == Unpack(s, ty1)
           value == UnpackedTy(s, ty1).expr
           pushed == CASE ty2.kind = "Refine" ->
                            PushHead(u, ExprPred(BinaryExpr("Eq", value, ty2.expr)))
                       [] ty2.kind = "Exists" -> PushHead(u, SubstPred(ty2.pred, value))
                       [] OTHER               -> u
<1>1. Grows(s, u) /\ Works(u) /\ u.b.kvars = s.b.kvars
  BY UnpackGrows DEF Grows
<1>2. ty2.kind \in Value => value.fv \subseteq Name
  <2> SUFFICES ASSUME ty2.kind \in Value
               PROVE  value.fv \subseteq Name
    OBVIOUS
  <2>1. ty1.kind \in Value
    BY DEF SubtypingDefined, Value, IsType, Uninit, Refine, Exists
  <2>2. CASE ty1.kind = "Exists"
    <3>1. value = VarExpr(s.b.next_name)
      BY <2>2 DEF UnpackedTy, Refine, FreshName
    <3>2. s.b.next_name \in Name
      BY WorksFacts
    <3> QED
      BY <3>1, <3>2 DEF VarExpr
  <2>3. CASE ty1.kind = "Refine"
    <3>1. value = ty1.expr
      BY <2>3 DEF UnpackedTy
    <3> QED
      BY <2>3, <3>1 DEF IsType, Uninit, Refine, Exists
  <2> QED
    BY <2>1, <2>2, <2>3 DEF Value
<1> HIDE DEF u, value
<1>3. Grows(u, pushed) /\ pushed.b.kvars = u.b.kvars
  <2>1. CASE ty2.kind = "Refine"
    <3>1. IsPred(ExprPred(BinaryExpr("Eq", value, ty2.expr)))
      <4>1. ty2.expr.fv \subseteq Name
        BY <2>1 DEF IsType, Uninit, Refine, Exists
      <4> QED
        BY <2>1, <4>1, <1>2, EqPred DEF Value
    <3>2. pushed = PushHead(u, ExprPred(BinaryExpr("Eq", value, ty2.expr)))
      BY <2>1
    <3> HIDE DEF pushed
    <3> QED
      BY <3>1, <3>2, <1>1, PushHeadGrows
  <2>2. CASE ty2.kind = "Exists"
    <3>1. IsPred(SubstPred(ty2.pred, value))
      BY <2>2, <1>2 DEF IsType, Uninit, Refine, Exists, Value
    <3>2. pushed = PushHead(u, SubstPred(ty2.pred, value))
      BY <2>2
    <3> HIDE DEF pushed
    <3> QED
      BY <3>1, <3>2, <1>1, PushHeadGrows
  <2>3. CASE ty2.kind \notin Value
    BY <2>3, <1>1, GrowsReflexive DEF Value
  <2> QED
    BY <2>1, <2>2, <2>3 DEF Value
<1>4. Grows(s, pushed)
  BY <1>1, <1>3, GrowsTransitive
<1>5. CASE ty1 = ty2
  BY <1>5, GrowsReflexive DEF Subtyping
<1>6. CASE ty1 # ty2
  <2>1. t = [b |-> pushed.b, c |-> s.c]
    BY <1>6 DEF Subtyping, u, value
  <2> HIDE DEF t, pushed
  <2>2. DOMAIN t = {"b", "c"} /\ t.b = pushed.b /\ t.c = s.c
    BY <2>1
  <2>3. Grows(s, t)
    BY <2>2, <1>4, GrowsDropped
  <2>4. t.b.kvars = s.b.kvars
    BY <2>2, <1>1, <1>3
  <2> QED
    BY <2>3, <2>4 DEF t
<1> QED
  BY <1>5, <1>6

-----------------------------------------------------------------------------
(* The state machine.                                                      *)

LEMMA ActiveFacts ==
    ASSUME IInv
    PROVE  /\ Len(cursors) \in Nat \ {0} /\ Active = cursors[Len(cursors)]
           /\ Works(Here) /\ Here.b = builder /\ Here.c = Active
<1>1. Len(cursors) \in Nat \ {0} /\ Active = cursors[Len(cursors)]
  BY EmptySeq DEF IInv, Active, Last
<1>2. CursorInv(builder, Active)
  BY <1>1 DEF IInv
<1>3. DOMAIN Here = {"b", "c"} /\ Here.b = builder /\ Here.c = Active
  BY DEF Here
<1> QED
  BY <1>1, <1>2, <1>3 DEF IInv, Works

(* What an operation owes is enough for the cursors it suspends.           *)
LEMMA BecomesInv ==
    ASSUME IInv, NEW s, Grows(Here, s), Becomes(s)
    PROVE  IInv'
<1> DEFINE n == Len(cursors)
<1>1. /\ n \in Nat \ {0} /\ cursors \in Seq(Cursor)
      /\ Active = cursors[n] /\ Here.b = builder /\ Here.c = Active
  BY ActiveFacts DEF IInv
<1>2. /\ builder' = s.b /\ BuilderInv(s.b) /\ CursorInv(s.b, s.c) /\ s.c \in Cursor
      /\ Within(Active, s.c)
      /\ \A d \in Cursor : CursorInv(builder, d) /\ Within(d, Active) => CursorInv(s.b, d)
  BY <1>1 DEF Becomes, Grows, Works, CursorInv
<1>3. /\ cursors' \in Seq(Cursor) /\ Len(cursors') = n
      /\ \A k \in 1..n : cursors'[k] = IF k = n THEN s.c ELSE cursors[k]
  <2>1. n \in 1..n
    BY <1>1
  <2>2. cursors' = [cursors EXCEPT ![n] = s.c]
    BY DEF Becomes
  <2> QED
    BY <1>1, <1>2, <2>1, <2>2, ExceptSeq
<1>4. \A k \in 1..n : cursors[k] \in Cursor /\ CursorInv(builder, cursors[k]) /\ Within(cursors[k], Active)
  BY <1>1, ElementOfSeq DEF IInv
<1>5. \A k \in 1..n : CursorInv(s.b, cursors'[k])
  BY <1>2, <1>3, <1>4
<1>6. \A l \in 1..n : \A k \in 1..l : Within(cursors'[k], cursors'[l])
  <2> SUFFICES ASSUME NEW l \in 1..n, NEW k \in 1..l
               PROVE  Within(cursors'[k], cursors'[l])
    OBVIOUS
  <2>1. k \in 1..n
    BY <1>1
  <2>2. CASE l < n
    BY <2>1, <2>2, <1>3 DEF IInv
  <2>3. CASE l = n /\ k < n
    <3>1. cursors[k] \in Cursor /\ Within(cursors[k], Active) /\ Active \in Cursor
      BY <2>1, <1>1, <1>4
    <3>2. Within(cursors[k], s.c)
      BY <3>1, <1>2, SMTT(30) DEF Within, Cursor
    <3> QED
      BY <2>1, <2>3, <3>2, <1>3
  <2>4. CASE l = n /\ k = n
    BY <2>1, <2>4, <1>2, <1>3 DEF Within, Cursor
  <2> QED
    BY <2>1, <2>2, <2>3, <2>4, <1>1
<1>7. cursors' # <<>>
  BY <1>1, <1>3, EmptySeq
<1> QED
  BY <1>2, <1>3, <1>5, <1>6, <1>7 DEF IInv

(* What the callers pass.                                                  *)
LEMMA ArgumentTypes ==
    ASSUME IInv
    PROVE  /\ \A ty \in InScope : IsType(ty)
           /\ \A e \in Exprs : e.fv \subseteq Name
           /\ \A e : e.fv \subseteq Name => \A pred \in Preds(e) : IsPred(pred)
<1>1. IsBuilder(builder) /\ Active.node \in 1..Len(builder.nodes) /\ IsList(builder.nodes)
  BY ActiveFacts DEF Works, BuilderInv, CursorInv, PointerInv
<1>2. Bound(Active) \subseteq Name
  <2>1. builder.nodes[Active.node].binders \in Seq(Name)
    BY <1>1, ListDomain DEF IsBuilder, IsNode
  <2> QED
    BY <2>1, ElementOfSeq, LenProperties DEF Bound, ToSet
<1>3. \A x \in Bound(Active) : VarExpr(x).fv \subseteq Name
  BY <1>2 DEF VarExpr
<1>4. ConstExpr(0).fv \subseteq Name
  BY DEF ConstExpr
<1>5. \A e \in Exprs : e.fv \subseteq Name
  BY <1>3, <1>4 DEF Exprs
<1>6. \A ty \in InScope : IsType(ty)
  <2> SUFFICES ASSUME NEW ty \in InScope
               PROVE  IsType(ty)
    OBVIOUS
  <2>1. CASE ty = Uninit
    BY <2>1 DEF IsType
  <2>2. CASE ty = Refine(ConstExpr(0))
    BY <2>2, <1>4 DEF IsType
  <2>3. ASSUME NEW x \in Bound(Active), ty = Refine(VarExpr(x))
        PROVE  IsType(ty)
    BY <2>3, <1>3 DEF IsType
  <2>4. ASSUME NEW k \in DOMAIN builder.kvars, ty = Exists(KVarPred(builder, k))
        PROVE  IsType(ty)
    BY <2>4, <1>1, KVarPredType DEF IsType
  <2> QED
    BY <2>1, <2>2, <2>3, <2>4 DEF InScope
<1>7. ASSUME NEW e, e.fv \subseteq Name, NEW pred \in Preds(e)
      PROVE  IsPred(pred)
  <2>1. CASE pred = ExprPred(e)
    BY <2>1, <1>7, ConstPred
  <2>2. ASSUME NEW ty \in InScope, ty.kind = "Exists", pred = SubstPred(ty.pred, e)
        PROVE  IsPred(pred)
    BY <2>2, <1>6, <1>7 DEF IsType, Uninit, Refine, Exists
  <2> QED
    BY <1>7, <2>1, <2>2 DEF Preds
<1> QED
  BY <1>5, <1>6, <1>7

(* A new builder, and its first cursor.                                    *)
LEMMA NewWorks ==
    BuilderInv(NewBuilder) /\ NewCursor \in Cursor /\ CursorInv(NewBuilder, NewCursor)
<1> DEFINE b == NewBuilder
<1>1. /\ DOMAIN b = Fields /\ b.kvars = <<>> /\ b.scopes = <<>>
      /\ b.vars = <<>> /\ b.next_name = 1
      /\ b.nodes = <<[kind |-> "Conj", parent |-> 0, binders |-> <<>>, pred |-> ExprPred(TT)]>>
  BY DEF NewBuilder, Fields
<1> HIDE DEF b
<1>2. /\ Len(b.nodes) = 1 /\ b.nodes[1].kind = "Conj"
      /\ b.nodes[1].parent = 0 /\ b.nodes[1].binders = <<>>
      /\ b.nodes[1].pred = ExprPred(TT)
      /\ b.nodes = [i \in 1..1 |-> b.nodes[i]]
  BY <1>1
<1>3. IsNode(b.nodes[1])
  <2>1. PredVars(ExprPred(TT)) \subseteq Name
    BY DEF PredVars, ExprPred, TT, ConstExpr
  <2> QED
    BY <1>2, <2>1 DEF IsNode
<1>4. IsList(b.nodes) /\ DOMAIN b.nodes = 1..1
  BY <1>2, ListDomain DEF IsList
<1>5. BuilderInv(b)
  <2>1. IsBuilder(b)
    BY <1>1, <1>3, <1>4 DEF IsBuilder, Name
  <2> QED
    BY <1>1, <1>2, <1>4, <2>1 DEF BuilderInv
<1>6. /\ NewCursor \in Cursor
      /\ NewCursor.node = 1 /\ NewCursor.nscopes = 0 /\ NewCursor.nvars = 0
  BY DEF NewCursor, Cursor
<1> HIDE DEF NewCursor
<1>7. CursorInv(b, NewCursor)
  BY <1>1, <1>2, <1>6 DEF CursorInv, VarsInv, PointerInv, ScopesInv
<1> QED
  BY <1>5, <1>6, <1>7 DEF b

LEMMA InitInv == Init => IInv
<1> SUFFICES ASSUME Init
             PROVE  IInv
  OBVIOUS
<1>1. builder = NewBuilder /\ cursors = <<NewCursor>>
  BY DEF Init
<1>2. Within(NewCursor, NewCursor)
  BY NewWorks DEF Within, Cursor
<1>3. /\ cursors \in Seq(Cursor) /\ Len(cursors) = 1 /\ cursors # <<>>
      /\ cursors[1] = NewCursor
  BY <1>1, NewWorks
<1> QED
  BY <1>1, <1>2, <1>3, NewWorks DEF IInv

LEMMA SnapshotInv == ASSUME IInv, DoSnapshot PROVE IInv'
<1> DEFINE n == Len(cursors)
<1>1. /\ n \in Nat \ {0} /\ cursors \in Seq(Cursor) /\ Active = cursors[n] /\ Active \in Cursor
      /\ CursorInv(builder, Active)
  BY ActiveFacts, ElementOfSeq DEF IInv
<1>2. /\ builder' = builder /\ cursors' \in Seq(Cursor) /\ cursors' # <<>>
      /\ Len(cursors') = n + 1
      /\ \A k \in 1..n : cursors'[k] = cursors[k]
      /\ cursors'[n + 1] = Active
  BY <1>1, AppendProperties DEF DoSnapshot
<1>3. \A l \in 1..n : \A k \in 1..l : k \in 1..n /\ Within(cursors[k], cursors[l])
  BY <1>1 DEF IInv
<1>4. \A k \in 1..(n + 1) : CursorInv(builder, cursors'[k])
  BY <1>1, <1>2 DEF IInv
<1>5. \A l \in 1..(n + 1) : \A k \in 1..l : Within(cursors'[k], cursors'[l])
  <2> SUFFICES ASSUME NEW l \in 1..(n + 1), NEW k \in 1..l
               PROVE  Within(cursors'[k], cursors'[l])
    OBVIOUS
  <2>1. CASE l \in 1..n
    BY <2>1, <1>2, <1>3
  <2>2. CASE l = n + 1 /\ k \in 1..n
    BY <2>2, <1>1, <1>2, <1>3
  <2>3. CASE l = n + 1 /\ k = n + 1
    <3>1. Within(Active, Active)
      BY <1>1 DEF Within, Cursor
    <3>2. cursors'[k] = Active /\ cursors'[l] = Active
      BY <2>3, <1>2
    <3> QED
      BY <3>1, <3>2
  <2> QED
    BY <2>1, <2>2, <2>3, <1>1
<1> QED
  BY <1>2, <1>4, <1>5 DEF IInv

LEMMA DropInv == ASSUME IInv, DoDrop PROVE IInv'
<1> DEFINE n == Len(cursors)
<1>1. n \in Nat \ {0} /\ n > 1 /\ cursors \in Seq(Cursor)
  BY ActiveFacts DEF IInv, DoDrop
<1>2. /\ builder' = builder /\ cursors' \in Seq(Cursor) /\ cursors' # <<>>
      /\ Len(cursors') = n - 1
      /\ \A k \in 1..(n - 1) : cursors'[k] = cursors[k]
  <2>1. \A i \in 1..(n - 1) : cursors[i] \in Cursor
    BY <1>1, ElementOfSeq
  <2>2. cursors' = SubSeq(cursors, 1, n - 1) /\ builder' = builder
    BY DEF DoDrop, Front
  <2>3. /\ cursors' \in Seq(Cursor) /\ Len(cursors') = n - 1
        /\ \A k \in 1..(n - 1) : cursors'[k] = cursors[k]
    BY <1>1, <2>1, <2>2, SubSeqProperties
  <2>4. cursors' = <<>> => Len(cursors') = 0
    OBVIOUS
  <2>5. cursors' # <<>>
    BY <1>1, <2>3, <2>4
  <2> QED
    BY <2>2, <2>3, <2>5
<1> QED
  BY <1>1, <1>2 DEF IInv

(* Every other action is an operation of the innermost cursor, and the two *)
(* that make a kvar make it over variables on the stack.                   *)
LEMMA OperationGrows ==
    ASSUME IInv, Next, ~DoSnapshot, ~DoDrop
    PROVE  \E s : /\ Becomes(s) /\ Grows(Here, s)
                  /\ \/ s.b.kvars = builder.kvars
                     \/ \E scope \in Nat :
                           /\ scope <= Len(builder.vars)
                           /\ Active.nscopes = Len(builder.scopes) => scope <= Active.nvars
                           /\ s.b.kvars = Append(builder.kvars, KVarArgs(builder, scope))
<1> DEFINE Goal == \E s :
                      /\ Becomes(s) /\ Grows(Here, s)
                      /\ \/ s.b.kvars = builder.kvars
                         \/ \E scope \in Nat :
                               /\ scope <= Len(builder.vars)
                               /\ Active.nscopes = Len(builder.scopes) => scope <= Active.nvars
                               /\ s.b.kvars = Append(builder.kvars, KVarArgs(builder, scope))
<1>1. Works(Here) /\ Here.b = builder /\ Here.c = Active
  BY ActiveFacts
<1>2. /\ Active.nvars \in Nat /\ Active.nvars <= Len(builder.vars)
      /\ builder.next_name \in Name
  BY <1>1, WorksFacts
<1>3. ASSUME DoPushScope PROVE Goal
  BY <1>1, <1>3, PushScopeGrows DEF DoPushScope
<1>4. ASSUME DoPushForall PROVE Goal
  <2> DEFINE x == FreshName(Here)
  <2>1. x \in Name /\ VarExpr(x).fv \subseteq Name
    BY <1>1, <1>2 DEF FreshName, VarExpr
  <2>2. PICK pred \in Preds(VarExpr(x)) : Becomes(PushForall(TakeName(Here), x, pred))
    BY <1>4 DEF DoPushForall
  <2>3. PredVars(pred) \subseteq Name
    BY <2>1, ArgumentTypes DEF IsPred
  <2> HIDE DEF x
  <2>4. LET t == PushForall(TakeName(Here), x, pred)
        IN  Grows(Here, t) /\ t.b.kvars = builder.kvars
    BY <1>1, <2>1, <2>3, PushForallGrows
  <2> QED
    BY <2>2, <2>4
<1>5. ASSUME DoPushGuard PROVE Goal
  <2>1. PICK e \in Exprs : Becomes(PushGuard(Here, e))
    BY <1>5 DEF DoPushGuard
  <2> QED
    BY <1>1, <2>1, ArgumentTypes, PushGuardGrows
<1>6. ASSUME DoPushHead PROVE Goal
  <2>1. PICK e \in Exprs : \E pred \in Preds(e) : Becomes(PushHead(Here, pred))
    BY <1>6 DEF DoPushHead
  <2>2. PICK pred \in Preds(e) : Becomes(PushHead(Here, pred))
    BY <2>1
  <2>3. IsPred(pred)
    BY ArgumentTypes
  <2> QED
    BY <1>1, <2>2, <2>3, PushHeadGrows
<1>7. ASSUME DoFreshKVar PROVE Goal
  <2>1. LET t == FreshKVarAt(Here, Active.nvars)
        IN  Grows(Here, t) /\ t.b.kvars = Append(builder.kvars, KVarArgs(builder, Active.nvars))
    BY <1>1, <1>2, FreshKVarAtGrows
  <2>2. Becomes(FreshKVarAt(Here, Active.nvars))
    BY <1>1, <1>7 DEF DoFreshKVar, FreshKVar
  <2> QED
    BY <1>2, <2>1, <2>2
<1>8. ASSUME DoFreshKVarAtLastScope PROVE Goal
  <2> DEFINE scope == LastScope(builder)
  <2>1. /\ scope \in Nat /\ scope <= Len(builder.vars)
        /\ Active.nscopes = Len(builder.scopes) => scope <= Active.nvars
    BY <1>1, LastScopeInStack
  <2>2. Becomes(FreshKVarAt(Here, scope))
    BY <1>1, <1>8 DEF DoFreshKVarAtLastScope, FreshKVarAtLastScope
  <2> HIDE DEF scope
  <2>3. LET t == FreshKVarAt(Here, scope)
        IN  Grows(Here, t) /\ t.b.kvars = Append(builder.kvars, KVarArgs(builder, scope))
    BY <1>1, <2>1, FreshKVarAtGrows
  <2> QED
    BY <2>1, <2>2, <2>3
<1>9. ASSUME DoUnpack PROVE Goal
  <2>1. PICK ty \in InScope : Becomes(Unpack(Here, ty))
    BY <1>9 DEF DoUnpack
  <2>2. IsType(ty)
    BY ArgumentTypes
  <2> QED
    BY <1>1, <2>1, <2>2, UnpackGrows
<1>10. ASSUME DoSubtyping PROVE Goal
  <2>1. PICK ty1 \in InScope, ty2 \in InScope :
           SubtypingDefined(ty1, ty2) /\ Becomes(Subtyping(Here, ty1, ty2))
    BY <1>10 DEF DoSubtyping
  <2>2. IsType(ty1) /\ IsType(ty2)
    BY ArgumentTypes
  <2>3. LET t == Subtyping(Here, ty1, ty2)
        IN  Grows(Here, t) /\ t.b.kvars = builder.kvars
    BY <1>1, <2>1, <2>2, SubtypingGrows
  <2> QED
    BY <2>1, <2>3
<1> QED
  BY <1>3, <1>4, <1>5, <1>6, <1>7, <1>8, <1>9, <1>10 DEF Next

LEMMA NextInv == IInv /\ [Next]_vars => IInv'
<1> SUFFICES ASSUME IInv, [Next]_vars
             PROVE  IInv'
  OBVIOUS
<1>1. CASE DoSnapshot
  BY <1>1, SnapshotInv
<1>2. CASE DoDrop
  BY <1>2, DropInv
<1>3. CASE Next /\ ~DoSnapshot /\ ~DoDrop
  BY <1>3, OperationGrows, BecomesInv
<1>4. CASE UNCHANGED vars
  BY <1>4 DEF vars, IInv
<1> QED
  BY <1>1, <1>2, <1>3, <1>4 DEF Next

THEOREM Invariance == Spec => []IInv
BY InitInv, NextInv, PTL DEF Spec

-----------------------------------------------------------------------------
(* What the invariant says of any state.                                   *)

LEMMA InvTypes == IInv => TypeOK
BY LenProperties DEF IInv, TypeOK, BuilderInv, CursorInv, PointerInv

LEMMA InvStack ==
    ASSUME IInv
    PROVE  VarsMatchPath
<1> SUFFICES ASSUME NEW k \in DOMAIN cursors
             PROVE  /\ cursors[k].nvars <= Len(builder.vars)
                    /\ SubSeq(builder.vars, 1, cursors[k].nvars)
                         = builder.nodes[cursors[k].node].binders
  BY DEF VarsMatchPath
<1> DEFINE c == cursors[k]
           binders == builder.nodes[c.node].binders
           prefix == SubSeq(builder.vars, 1, c.nvars)
<1>1. CursorInv(builder, c)
  BY LenProperties DEF IInv
<1>2. /\ builder.vars \in Seq(Name) /\ Len(builder.vars) \in Nat
      /\ c.nvars \in Nat /\ c.nvars <= Len(builder.vars)
      /\ binders \in Seq(Name)
  <2>1. /\ IsBuilder(builder) /\ IsList(builder.nodes) /\ c.node \in 1..Len(builder.nodes)
    BY <1>1 DEF IInv, BuilderInv, CursorInv, PointerInv
  <2>2. IsNode(builder.nodes[c.node])
    BY <2>1, ListDomain DEF IsBuilder
  <2> QED
    BY <1>1, <2>1, <2>2, LenProperties DEF CursorInv, VarsInv, IsBuilder, IsNode, Cursor
<1>3. c.nvars = Len(binders) /\ \A i \in 1..c.nvars : builder.vars[i] = binders[i]
  BY <1>1 DEF CursorInv, VarsInv
<1> HIDE DEF c, binders
<1>4. \A i \in 1..c.nvars : builder.vars[i] \in Name
  BY <1>2, ElementOfSeq
<1>5. /\ prefix \in Seq(Name) /\ Len(prefix) = c.nvars
      /\ \A i \in 1..c.nvars : prefix[i] = builder.vars[i]
  BY <1>2, <1>4, SubSeqProperties
<1>6. prefix = binders
  BY <1>2, <1>3, <1>5, SeqEqual
<1> QED
  BY <1>2, <1>6 DEF c, binders

LEMMA InvPointers == IInv => PointersValid
BY LenProperties DEF IInv, PointersValid, CursorInv, PointerInv

LEMMA InvScopes == IInv => ScopesNested
BY LenProperties DEF IInv, ScopesNested, CursorInv, ScopesInv

-----------------------------------------------------------------------------
(* Type correctness, with the bound on the nodes of the live cursors.      *)
THEOREM TypeCorrect == Spec => []TypeOK
BY InvTypes, Invariance, PTL

(* The first nvars entries of the builder's stack are the variables bound  *)
(* on the path to the cursor's node, for every live cursor (push_forall    *)
(* and the callers of snapshot share the stack).                           *)
THEOREM StackMatchesPath == Spec => []VarsMatchPath
<1>1. IInv => VarsMatchPath
  BY InvStack
<1> QED
  BY <1>1, Invariance, PTL

(* No live cursor points to a node that a new sibling may have moved.      *)
THEOREM CursorsNotDangling == Spec => []PointersValid
BY InvPointers, Invariance, PTL

(* The scopes of a live cursor are nested and within its variables.        *)
THEOREM CursorScopesNested == Spec => []ScopesNested
BY InvScopes, Invariance, PTL

(* fresh_kvar and fresh_kvar_at_last_scope: the new kvar ranges over       *)
(* variables the cursor has bound, unless a deeper cursor left its scope.  *)
THEOREM NewKVarsInScope == Spec => KVarInScope
<1> DEFINE InScopeStep ==
        Len(builder'.kvars) > Len(builder.kvars) /\ Active.nscopes = Len(builder.scopes)
          => IsPrefix(Last(builder'.kvars), builder.nodes[Active.node].binders)
<1>1. ASSUME IInv, [Next]_vars, Len(builder'.kvars) > Len(builder.kvars),
             Active.nscopes = Len(builder.scopes)
      PROVE  IsPrefix(Last(builder'.kvars), builder.nodes[Active.node].binders)
  <2> DEFINE binders == builder.nodes[Active.node].binders
  <2>1. /\ Works(Here) /\ Here.b = builder /\ Here.c = Active
    BY <1>1, ActiveFacts
  <2>2. /\ builder.kvars \in Seq(Seq(Name)) /\ Len(builder.kvars) \in Nat
        /\ builder.vars \in Seq(Name) /\ Active.nvars \in Nat
        /\ Active.nvars <= Len(builder.vars) /\ Len(builder.vars) \in Nat
    BY <2>1, WorksFacts, LenProperties
  <2>3. PICK s : /\ Becomes(s)
                 /\ \E scope \in Nat :
                       /\ scope <= Active.nvars
                       /\ s.b.kvars = Append(builder.kvars, KVarArgs(builder, scope))
    <3>1. builder'.kvars # builder.kvars
      BY <1>1, <2>2
    <3>2. Next /\ ~DoSnapshot /\ ~DoDrop
      BY <1>1, <3>1 DEF vars, DoSnapshot, DoDrop
    <3> QED
      BY <1>1, <3>1, <3>2, OperationGrows DEF Becomes
  <2>4. PICK scope \in Nat : /\ scope <= Active.nvars
                             /\ builder'.kvars = Append(builder.kvars, KVarArgs(builder, scope))
    BY <2>3 DEF Becomes
  <2> DEFINE args == KVarArgs(builder, scope)
  <2>5. \A i \in 1..scope : builder.vars[i] \in Name
    BY <2>2, <2>4, ElementOfSeq
  <2>6. /\ args \in Seq(Name) /\ Len(args) = scope
        /\ \A i \in 1..scope : args[i] = builder.vars[i]
    BY <2>5, SubSeqProperties DEF KVarArgs
  <2> HIDE DEF args
  <2>7. Last(builder'.kvars) = args
    BY <2>2, <2>4, <2>6, AppendProperties DEF Last, args
  <2>8. /\ Active.nvars = Len(binders)
        /\ \A i \in 1..Active.nvars : builder.vars[i] = binders[i]
    BY <2>1 DEF Works, CursorInv, VarsInv
  <2> HIDE DEF binders
  <2>9. \A i \in 1..scope : binders[i] = args[i]
    BY <2>2, <2>4, <2>6, <2>8
  <2>10. /\ SubSeq(args, 1, scope) \in Seq(Name) /\ Len(SubSeq(args, 1, scope)) = scope
         /\ \A i \in 1..scope : SubSeq(args, 1, scope)[i] = args[i]
    BY <2>5, <2>6, SubSeqProperties
  <2>11. /\ SubSeq(binders, 1, scope) \in Seq(Name) /\ Len(SubSeq(binders, 1, scope)) = scope
         /\ \A i \in 1..scope : SubSeq(binders, 1, scope)[i] = binders[i]
    BY <2>5, <2>6, <2>9, SubSeqProperties
  <2>12. SubSeq(args, 1, scope) = SubSeq(binders, 1, scope)
    BY <2>9, <2>10, <2>11, SeqEqual
  <2>13. IsPrefix(args, binders)
    BY <2>4, <2>6, <2>8, <2>12 DEF IsPrefix
  <2> QED
    BY <2>7, <2>13 DEF binders
<1>2. IInv /\ [Next]_vars => [InScopeStep]_vars
  BY <1>1
<1> QED
  BY <1>2, Invariance, PTL DEF Spec, KVarInScope
=============================================================================
