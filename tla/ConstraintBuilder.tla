------------------------- MODULE ConstraintBuilder -------------------------
(***************************************************************************)
(* The cursors of one ConstraintBuilder, which write into it in turn       *)
(* (src/liquid-rust-typeck/src/constraint_builder.rs).  snapshot borrows a *)
(* cursor: the new one works on the same stacks and overwrites what lies   *)
(* above its own counts, and the old one goes on when the new one is       *)
(* dropped.  Constraint has what a cursor can do.                          *)
(***************************************************************************)
EXTENDS Constraint

CONSTANTS
    MaxNodes,   \* bounds of the machine: nodes,
    MaxKVars,   \* kvars,
    MaxCursors, \* nested snapshots
    MaxScopes   \* and scopes of a cursor

ASSUME BuilderAssumption ==
    /\ MaxNodes \in Nat /\ MaxKVars \in Nat
    /\ MaxCursors \in Nat /\ MaxScopes \in Nat

-----------------------------------------------------------------------------
(* Any sequence of operations on the innermost cursor, with predicates over*)
(* the variables that cursor has bound.                                    *)

VARIABLES
    builder,    \* ConstraintBuilder
    cursors     \* the live cursors, each borrowing the one before it

vars == <<builder, cursors>>

Active == Last(cursors)
Here == [b |-> builder, c |-> Active]
Bound(c) == ToSet(builder.nodes[c.node].binders)

(* What the callers pass: types over the variables in scope.               *)
InScope ==
    {Uninit, Refine(ConstExpr(0))}
    \union {Refine(VarExpr(x)) : x \in Bound(Active)}
    \union {Exists(KVarPred(builder, k)) :
              k \in {j \in DOMAIN builder.kvars : ToSet(builder.kvars[j]) \subseteq Bound(Active)}}
Exprs == {ConstExpr(0)} \union {VarExpr(x) : x \in Bound(Active)}
Preds(e) == {ExprPred(e)} \union {SubstPred(ty.pred, e) : ty \in {t \in InScope : t.kind = "Exists"}}

Init ==
    /\ builder = NewBuilder
    /\ cursors = <<NewCursor>>

(* The innermost cursor did an operation.                                  *)
Becomes(s) ==
    /\ builder' = s.b
    /\ cursors' = [cursors EXCEPT ![Len(cursors)] = s.c]

RoomForNodes(n) == Len(builder.nodes) + n <= MaxNodes
RoomForKVar == Len(builder.kvars) < MaxKVars

DoSnapshot ==
    /\ Len(cursors) < MaxCursors
    /\ cursors' = Append(cursors, Active)
    /\ UNCHANGED builder

DoDrop ==
    /\ Len(cursors) > 1
    /\ cursors' = Front(cursors)
    /\ UNCHANGED builder

DoPushScope == Active.nscopes < MaxScopes /\ Becomes(PushScope(Here))
DoPushForall ==
    /\ RoomForNodes(1)
    /\ LET x == FreshName(Here)
       IN  \E pred \in Preds(VarExpr(x)) : Becomes(PushForall(TakeName(Here), x, pred))
DoPushGuard == RoomForNodes(1) /\ \E e \in Exprs : Becomes(PushGuard(Here, e))
DoPushHead ==
    /\ RoomForNodes(1)
    /\ \E e \in Exprs : \E pred \in Preds(e) : Becomes(PushHead(Here, pred))
DoFreshKVar == RoomForKVar /\ Becomes(FreshKVar(Here))
DoFreshKVarAtLastScope == RoomForKVar /\ Becomes(FreshKVarAtLastScope(Here))
DoUnpack == RoomForNodes(1) /\ \E ty \in InScope : Becomes(Unpack(Here, ty))
DoSubtyping ==
    /\ RoomForNodes(2)
    /\ \E ty1, ty2 \in InScope : SubtypingDefined(ty1, ty2) /\ Becomes(Subtyping(Here, ty1, ty2))

Next ==
    \/ DoSnapshot \/ DoDrop \/ DoPushScope
    \/ DoPushForall \/ DoPushGuard \/ DoPushHead
    \/ DoFreshKVar \/ DoFreshKVarAtLastScope
    \/ DoUnpack \/ DoSubtyping

Spec == Init /\ [][Next]_vars

-----------------------------------------------------------------------------
(* Properties                                                              *)

Name == Nat \ {0}
Cursor == [node : Nat \ {0}, nscopes : Nat, nvars : Nat]
IsNode(n) ==
    /\ n.kind \in {"Conj", "ForAll", "Guard", "Head"} /\ n.parent \in Nat
    /\ n.binders \in Seq(Name) /\ PredVars(n.pred) \subseteq Name
IsBuilder(b) ==
    /\ \A i \in DOMAIN b.nodes : IsNode(b.nodes[i])
    /\ b.kvars \in Seq(Seq(Name)) /\ b.scopes \in Seq(Nat)
    /\ b.vars \in Seq(Name) /\ b.next_name \in Name

TypeOK ==
    /\ IsBuilder(builder)
    /\ cursors \in Seq(Cursor) /\ cursors # <<>>
    /\ \A k \in DOMAIN cursors : cursors[k].node <= Len(builder.nodes)

(* The shared stack of variables serves every live cursor: its first nvars *)
(* entries are the variables bound on the path to the cursor's node, for   *)
(* the suspended cursors too, though the ones after them overwrite it.     *)
VarsMatchPath ==
    \A k \in DOMAIN cursors :
        /\ cursors[k].nvars <= Len(builder.vars)
        /\ SubSeq(builder.vars, 1, cursors[k].nvars)
             = builder.nodes[cursors[k].node].binders

(* The unsafe node pointer of a live cursor is never dangling: pushing a   *)
(* child may move its elder siblings (the children are a Vec), and no live *)
(* cursor is at one of those.  Nor is it at a Head, where push_node stops. *)
PointersValid ==
    \A k \in DOMAIN cursors :
        LET n == cursors[k].node
        IN  /\ builder.nodes[n].kind # "Head"
            /\ \A m \in (n + 1)..Len(builder.nodes) :
                  builder.nodes[m].parent # builder.nodes[n].parent

(* The scopes of a live cursor are nested and within its variables, so a   *)
(* kvar over one of them mentions no variable of a dropped cursor.         *)
ScopesNested ==
    \A k \in DOMAIN cursors :
        LET c == cursors[k]
        IN  /\ c.nscopes <= Len(builder.scopes)
            /\ \A i \in 1..c.nscopes :
                  /\ builder.scopes[i] <= c.nvars
                  /\ \A j \in 1..i : builder.scopes[j] <= builder.scopes[i]

(* A new kvar mentions only variables the cursor that made it has bound,   *)
(* if no scope is left over on the stack from a deeper cursor.             *)
KVarInScope ==
    [][Len(builder'.kvars) > Len(builder.kvars)
         /\ Active.nscopes = Len(builder.scopes) =>
            IsPrefix(Last(builder'.kvars), builder.nodes[Active.node].binders)]_vars
=============================================================================
