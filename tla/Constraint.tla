----------------------------- MODULE Constraint -----------------------------
(***************************************************************************)
(* The operations of a Cursor on the constraint under construction         *)
(* (src/liquid-rust-typeck/src/constraint_builder.rs), as functions of a   *)
(* builder b and a cursor c in one record s.                               *)
(*                                                                         *)
(* The constraint is a tree of Conj, ForAll, Guard and Head nodes.  A      *)
(* cursor is a raw pointer to the node whose children it extends, with     *)
(* how many entries of the builder's shared stacks vars and scopes belong  *)
(* to it.  The tree is a sequence of nodes in the order of their creation; *)
(* a node holds its parent, the variables bound on the path down to it     *)
(* (its own included) and its predicate.  Sorts are left out.              *)
(***************************************************************************)
EXTENDS Types

(* ConstraintBuilder::new and as_cursor: one Conj node, nothing bound.     *)
NewBuilder ==
    [nodes     |-> <<[kind |-> "Conj", parent |-> 0, binders |-> <<>>, pred |-> ExprPred(TT)]>>,
     kvars     |-> <<>>,
     scopes    |-> <<>>,
     vars      |-> <<>>,
     next_name |-> 1]
NewCursor == [node |-> 1, nscopes |-> 0, nvars |-> 0]

(* Mutant: an entry of another cursor is not overwritten.                  *)
AlwaysPush(stack, n, v) == Append(stack, v)

(* self.stack[n] = v, or push(v) when the stack has no more than n entries.*)
SetOrPush(stack, n, v) ==
    IF n < Len(stack) THEN [stack EXCEPT ![n + 1] = v] ELSE Append(stack, v)

(* Mutant: the cursor moves into a Head too.                               *)
PushNodeIntoHead(s, kind, bound, pred) ==
    [b |-> [s.b EXCEPT !.nodes = Append(@, [kind    |-> kind,
                                            parent  |-> s.c.node,
                                            binders |-> s.b.nodes[s.c.node].binders \o bound,
                                            pred    |-> pred])],
     c |-> [s.c EXCEPT !.node = Len(s.b.nodes) + 1]]

(* push_node: a new last child; the cursor moves into it unless it is a    *)
(* Head.                                                                   *)
PushNode(s, kind, bound, pred) ==
    LET node == [kind    |-> kind,
                 parent  |-> s.c.node,
                 binders |-> s.b.nodes[s.c.node].binders \o bound,
                 pred    |-> pred]
    IN  [b |-> [s.b EXCEPT !.nodes = Append(@, node)],
         c |-> [s.c EXCEPT !.node = IF kind = "Head" THEN @ ELSE Len(s.b.nodes) + 1]]

PushVar(s, x) ==
    [b |-> [s.b EXCEPT !.vars = SetOrPush(@, s.c.nvars, x)],
     c |-> [s.c EXCEPT !.nvars = @ + 1]]

(* Mutant: a scope goes on top of those of dropped cursors.                *)
PushScopeOnTop(s) ==
    [b |-> [s.b EXCEPT !.scopes = Append(@, s.c.nvars)],
     c |-> [s.c EXCEPT !.nscopes = @ + 1]]

PushScope(s) ==
    [b |-> [s.b EXCEPT !.scopes = SetOrPush(@, s.c.nscopes, s.c.nvars)],
     c |-> [s.c EXCEPT !.nscopes = @ + 1]]

PushForall(s, x, pred) == PushVar(PushNode(s, "ForAll", <<x>>, pred), x)

PushGuard(s, e) == PushNode(s, "Guard", <<>>, ExprPred(e))

PushHead(s, pred) == IF IsTrue(pred) THEN s ELSE PushNode(s, "Head", <<>>, pred)

(* The name fresh_name returns, and the builder after it.                  *)
FreshName(s) == s.b.next_name
TakeName(s) == [s EXCEPT !.b.next_name = @ + 1]

(* fresh_kvar_at_scope: the kvar ranges over the bound variable and the    *)
(* first `scope` variables of the builder's stack.                         *)
KVarArgs(b, scope) == SubSeq(b.vars, 1, scope)
FreshKVarAt(s, scope) == [s EXCEPT !.b.kvars = Append(@, KVarArgs(s.b, scope))]

(* fresh_kvar takes the cursor's own variables; fresh_kvar_at_last_scope   *)
(* the last scope of the BUILDER, whichever cursor pushed it.              *)
WholeStack(b) == Len(b.vars)    \* mutant: no scope at all
LastScope(b) == IF b.scopes = <<>> THEN 0 ELSE Last(b.scopes)
(* Mutant: the variables of dropped cursors are taken along.               *)
FreshKVarOverStack(s) == FreshKVarAt(s, Len(s.b.vars))
FreshKVar(s) == FreshKVarAt(s, s.c.nvars)
FreshKVarAtLastScope(s) == FreshKVarAt(s, LastScope(s.b))

(* The predicate of kvar k.                                                *)
KVarPred(b, k) ==
    KVar(k, <<BoundVar>> \o [i \in DOMAIN b.kvars[k] |-> VarExpr(b.kvars[k][i])])
LastKVar(s) == Exists(KVarPred(s.b, Len(s.b.kvars)))

(* unpack: an existential becomes a fresh variable under a ForAll.         *)
Unpack(s, ty) ==
    IF ty.kind = "Exists"
    THEN LET x == FreshName(s)
         IN  PushForall(TakeName(s), x, SubstPred(ty.pred, VarExpr(x)))
    ELSE s
UnpackedTy(s, ty) ==
    IF ty.kind = "Exists" THEN Refine(VarExpr(FreshName(s))) ELSE ty

Value == {"Refine", "Exists"}

(* The pairs of types subtyping has a case for; any other is unreachable!, *)
(* or two references to different locations, which are not assert_eq.      *)
SubtypingDefined(ty1, ty2) ==
    \/ ty2.kind = "Uninit"
    \/ ty1.kind \in Value /\ ty2.kind \in Value
    \/ ty1.kind = "StrgRef" /\ ty1 = ty2

(* subtyping: the nodes go under a snapshot of the cursor, which is dropped*)
(* at the end, so only the builder changes.                                *)
Subtyping(s, ty1, ty2) ==
    LET unpacked == Unpack(s, ty1)
        value    == UnpackedTy(s, ty1).expr
        pushed   == CASE ty2.kind = "Refine" ->
                           PushHead(unpacked, ExprPred(BinaryExpr("Eq", value, ty2.expr)))
                      [] ty2.kind = "Exists" -> PushHead(unpacked, SubstPred(ty2.pred, value))
                      [] OTHER               -> unpacked
    IN  IF ty1 = ty2 THEN s ELSE [b |-> pushed.b, c |-> s.c]
=============================================================================
