------------------------------- MODULE Types -------------------------------
(***************************************************************************)
(* Expressions, predicates, types and locations of the checker             *)
(* (src/liquid-rust-typeck/src/ty.rs).  Interning makes equal ones the     *)
(* same object, so they are compared by value here.                        *)
(*                                                                         *)
(* An expression is a term, which tells it from any other, and the free    *)
(* variables of the term.  Base types and sorts are left out: the values   *)
(* are 0 and 1, and 1 is also the constant true.  A reference refers to a  *)
(* value and never to another reference.                                   *)
(***************************************************************************)
EXTENDS Naturals, Sequences, FiniteSets, SequencesExt

ConstExpr(c) == [term |-> <<"Constant", c>>, fv |-> {}]
VarExpr(x) == [term |-> <<"Var", x>>, fv |-> {x}]
UnaryExpr(op, e) == [term |-> <<op, e.term>>, fv |-> e.fv]
BinaryExpr(op, e1, e2) == [term |-> <<op, e1.term, e2.term>>, fv |-> e1.fv \union e2.fv]

TT == ConstExpr(1)

(* Var::Bound, the value that an existential ranges over.  It occurs as an *)
(* argument of a kvar or on the left of an operator, and not deeper.       *)
BoundVar == [term |-> <<"Bound">>, fv |-> {}]

SubstBoundVars(e, to) ==
    IF e = BoundVar THEN to
    ELSE IF Len(e.term) = 3 /\ e.term[2] = BoundVar.term
    THEN [term |-> [e.term EXCEPT ![2] = to.term], fv |-> e.fv \union to.fv]
    ELSE e

(* Pred                                                                    *)
KVar(kvid, args) == [kind |-> "KVar", kvid |-> kvid, args |-> args]
ExprPred(e) == [kind |-> "Expr", expr |-> e]
IsTrue(p) == p = ExprPred(TT)

PredVars(p) ==
    IF p.kind = "KVar" THEN UNION {p.args[i].fv : i \in DOMAIN p.args} ELSE p.expr.fv

SubstPred(p, to) ==
    IF p.kind = "KVar"
    THEN [p EXCEPT !.args = [i \in DOMAIN p.args |-> SubstBoundVars(p.args[i], to)]]
    ELSE ExprPred(SubstBoundVars(p.expr, to))

(* TyKind, without Param                                                   *)
Uninit == [kind |-> "Uninit"]
Refine(e) == [kind |-> "Refine", expr |-> e]
Exists(p) == [kind |-> "Exists", pred |-> p]
StrgRef(loc) == [kind |-> "StrgRef", loc |-> loc]
Ref(ty) == [kind |-> "Ref", ty |-> ty]

(* What ty.walk visits: the type and what it refers to.                    *)
Referred(ty) == IF ty.kind = "Ref" THEN ty.ty ELSE ty

(* The names a type mentions.                                              *)
FreeVars(ty) ==
    LET t == Referred(ty)
    IN  CASE t.kind = "Refine" -> t.expr.fv
          [] t.kind = "Exists" -> PredVars(t.pred)
          [] OTHER             -> {}

(* Loc, and its order: locals come before abstract locations.              *)
Local(x) == <<"Local", x>>
Abstract(name) == <<"Abstract", name>>
IsLocal(loc) == loc[1] = "Local"
Before(loc1, loc2) ==
    IF loc1[1] = loc2[1] THEN loc1[2] < loc2[2] ELSE IsLocal(loc1)

Sorted(locs) ==
    [i \in 1..Cardinality(locs) |->
        CHOOSE loc \in locs : Cardinality({l \in locs : Before(l, loc)}) = i - 1]
=============================================================================
