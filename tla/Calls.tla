------------------------------- MODULE Calls -------------------------------
(***************************************************************************)
(* Function signatures (core::ty::FnSig) as the checker uses them: its own *)
(* at the start and at each return (checker.rs), those of the callees at a *)
(* call, where Subst (lowering.rs) instantiates them.                      *)
(*                                                                         *)
(* An expression of core::ty is a tuple: <<"Free", name>>, <<"Bound">>,    *)
(* <<"Literal", value>> or <<operator, e1, e2>> over those.  Signature has *)
(* how signatures come about, that the accepted ones name nothing that is  *)
(* not in scope, and expressions and type arguments of any depth.          *)
(***************************************************************************)
EXTENDS TypeEnv, TLC

-----------------------------------------------------------------------------
(* The signatures that Signature accepts                                   *)

IsCoreAtom(e, names) == e[1] \in {"Bound", "Literal"} \/ (e[1] = "Free" /\ e[2] \in names)
IsCoreExpr(e, names) ==
    IF Len(e) = 3 THEN IsCoreAtom(e[2], names) /\ IsCoreAtom(e[3], names) ELSE IsCoreAtom(e, names)
IsCoreTy(ty, names) ==
    \/ ty.kind = "Refine" /\ IsCoreExpr(ty.expr, names)
    \/ ty.kind = "Exists" /\ IsCoreExpr(ty.pred, names)
    \/ ty.kind = "MutRef"

ParamNames(sig, n) == {sig.params[i].name : i \in 1..n}

(* A parameter is in scope from its own predicate on.                      *)
IsFnSig(sig) ==
    LET isTy(ty) == IsCoreTy(ty, ParamNames(sig, Len(sig.params)))
    IN  /\ IsSequence(sig.params) /\ IsSequence(sig.requires) /\ IsSequence(sig.args) /\ IsSequence(sig.ensures)
        /\ \A i \in DOMAIN sig.params : IsCoreExpr(sig.params[i].pred, ParamNames(sig, i))
        /\ \A i \in DOMAIN sig.requires : isTy(sig.requires[i].ty)
        /\ \A i \in DOMAIN sig.args : isTy(sig.args[i])
        /\ \A i \in DOMAIN sig.ensures : isTy(sig.ensures[i].ty)
        /\ isTy(sig.ret)

-----------------------------------------------------------------------------
(* Subst                                                                   *)

NoSubst == [exprs |-> <<>>, locs |-> <<>>]

LowerAtom(subst, e) ==
    CASE e[1] = "Free"    -> subst.exprs[e[2]]
      [] e[1] = "Bound"   -> BoundVar
      [] e[1] = "Literal" -> ConstExpr(e[2])
LowerExpr(subst, e) ==
    IF Len(e) = 3 THEN BinaryExpr(e[1], LowerAtom(subst, e[2]), LowerAtom(subst, e[3]))
    ELSE LowerAtom(subst, e)

LowerTy(subst, ty) ==
    CASE ty.kind = "Refine" -> Refine(LowerExpr(subst, ty.expr))
      [] ty.kind = "Exists" -> Exists(ExprPred(LowerExpr(subst, ty.pred)))
      [] ty.kind = "MutRef" -> StrgRef(subst.locs[ty.loc])

(* Whether key had another value, which insert returns.                    *)
Ambiguous(map, key, value) == key \in DOMAIN map /\ map[key] # value

(* infer_from_tys, on a record of a state and a substitution.              *)
InferFromTys(acc, actual, formal) ==
    CASE actual.kind = "Refine" /\ formal.kind = "Refine" /\ formal.expr[1] = "Free" ->
           [st    |-> IF Ambiguous(acc.subst.exprs, formal.expr[2], actual.expr)
                      THEN Panic(acc.st, "ambiguous instantiation") ELSE acc.st,
            subst |-> [acc.subst EXCEPT !.exprs = Put(@, formal.expr[2], actual.expr)]]
      [] actual.kind = "StrgRef" /\ formal.kind = "MutRef" ->
           [st    |-> IF Ambiguous(acc.subst.locs, formal.loc, actual.loc)
                      THEN Panic(acc.st, "ambiguous instantiation") ELSE acc.st,
            subst |-> [acc.subst EXCEPT !.locs = Put(@, formal.loc, actual.loc)]]
      [] OTHER -> acc

(* The location a name stands for, which is unwrapped, and must be bound.  *)
Known(acc, name) == name \in DOMAIN acc.subst.locs /\ Bound(acc.st, acc.subst.locs[name])
TyAt(acc, name) == acc.st.env[acc.subst.locs[name]].ty

(* infer_from_fn_call                                                      *)
InferRequired(acc, required) ==
    IF Known(acc, required.loc) THEN InferFromTys(acc, TyAt(acc, required.loc), required.ty)
    ELSE [acc EXCEPT !.st = Panic(@, "unwrap of None")]
InferFromFnCall(st, actuals, sig) ==
    Fold(InferRequired,
        Fold(LAMBDA acc, i : InferFromTys(acc, actuals[i], sig.args[i]),
                 [st |-> st, subst |-> NoSubst], [i \in DOMAIN actuals |-> i]),
        sig.requires)

(* check_inference                                                         *)
Determined(subst, sig) ==
    /\ \A i \in DOMAIN sig.params : sig.params[i].name \in DOMAIN subst.exprs
    /\ \A i \in DOMAIN sig.requires : sig.requires[i].loc \in DOMAIN subst.locs

-----------------------------------------------------------------------------
(* A call, after its operands (check_call)                                 *)

RequirePred(acc, param) ==
    [acc EXCEPT !.st = With(@, PushHead(S(@), ExprPred(LowerExpr(acc.subst, param.pred))))]
RequireTy(acc, required) ==
    [acc EXCEPT !.st = IF Known(acc, required.loc)
                       THEN Sub(@, TyAt(acc, required.loc), LowerTy(acc.subst, required.ty))
                       ELSE Panic(@, "unwrap of None")]

(* Mutant: a location that is ensured and was there keeps its type.        *)
EnsureNothing(acc, ensured) ==
    LET ty       == LowerTy(acc.subst, ensured.ty)
        unpacked == With(acc.st, Unpack(S(acc.st), ty))
        fresh    == Abstract(FreshName(S(unpacked)))
    IN  IF ~Ok(acc.st) \/ ensured.loc \in DOMAIN acc.subst.locs THEN acc
        ELSE [st    |-> Insert(With(unpacked, TakeName(S(unpacked))), fresh,
                               UnpackedTy(S(acc.st), ty)),
              subst |-> [acc.subst EXCEPT !.locs = Put(@, ensured.loc, fresh)]]

(* An ensured location is updated, or made up when no argument names it.   *)
Ensure(acc, ensured) ==
    LET ty       == LowerTy(acc.subst, ensured.ty)
        unpacked == With(acc.st, Unpack(S(acc.st), ty))
        fresh    == Abstract(FreshName(S(unpacked)))
    IN  IF ~Ok(acc.st) THEN acc
        ELSE IF ensured.loc \in DOMAIN acc.subst.locs
        THEN [acc EXCEPT !.st = UpdateLoc(unpacked, acc.subst.locs[ensured.loc],
                                          UnpackedTy(S(acc.st), ty))]
        ELSE [st    |-> Insert(With(unpacked, TakeName(S(unpacked))), fresh,
                               UnpackedTy(S(acc.st), ty)),
              subst |-> [acc.subst EXCEPT !.locs = Put(@, ensured.loc, fresh)]]

Apply(acc0, actuals, sig) ==
    LET params == Fold(RequirePred, acc0, sig.params)
        args   == Fold(LAMBDA acc, i :
                             [acc EXCEPT !.st = Sub(@, actuals[i], LowerTy(acc.subst, sig.args[i]))],
                           params, [i \in DOMAIN actuals |-> i])
    IN  Fold(Ensure, Fold(RequireTy, args, sig.requires), sig.ensures)

(* The result, unpacked and written to the destination.                    *)
WriteDestination(acc, sig, place) ==
    LET ret == LowerTy(acc.subst, sig.ret)
    IN  IF ~Ok(acc.st) THEN acc.st
        ELSE WritePlace(With(acc.st, Unpack(S(acc.st), ret)), place, UnpackedTy(S(acc.st), ret))

-----------------------------------------------------------------------------
(* The function itself: check_or_infer up to the checker's run             *)

AssumeParam(acc, param) ==
    LET x     == FreshName(S(acc.st))
        subst == [acc.subst EXCEPT !.exprs = Put(@, param.name, VarExpr(x))]
    IN  [st    |-> With(acc.st, PushForall(TakeName(S(acc.st)), x,
                                           ExprPred(LowerExpr(subst, param.pred)))),
         subst |-> subst]

AssumeRequired(acc, required) ==
    LET fresh == Abstract(FreshName(S(acc.st)))
        named == With(acc.st, TakeName(S(acc.st)))
    IN  [st    |-> InsertUnpacked(named, fresh, LowerTy(acc.subst, required.ty)),
         subst |-> [acc.subst EXCEPT !.locs = Put(@, required.loc, fresh)]]

(* The state and the substitution with which the body is checked.  A       *)
(* location that only ensures names panics.                                *)
Enter(order, sig, nlocals) ==
    LET st0 == [b |-> NewBuilder, c |-> NewCursor, env |-> <<>>, order |-> order,
                panic |-> NoPanic]
        acc == Fold(AssumeRequired,
                  Fold(AssumeParam, [st |-> st0, subst |-> NoSubst], sig.params),
                  sig.requires)
        args == Fold(LAMBDA st, i : InsertUnpacked(st, Local(i), LowerTy(acc.subst, sig.args[i])),
                         acc.st, [i \in DOMAIN sig.args |-> i])
        rest == Fold(LAMBDA st, x : Insert(st, Local(x), Uninit), args,
                         Append([i \in 1..(nlocals - 1 - Len(sig.args)) |-> Len(sig.args) + i], 0))
        named == \A i \in DOMAIN sig.ensures : sig.ensures[i].loc \in DOMAIN acc.subst.locs
    IN  [st    |-> IF named THEN rest ELSE Panic(rest, "unwrap of None"),
         subst |-> acc.subst]

(* What a return has to show (checker.rs, TerminatorKind::Return).         *)
Show(st, loc, ty) ==
    IF Bound(st, loc) THEN Sub(st, st.env[loc].ty, ty) ELSE Panic(st, "unwrap of None")
Leave(st, subst, sig) ==
    LET ensure(acc, ensured) ==
          IF ensured.loc \in DOMAIN subst.locs
          THEN Show(acc, subst.locs[ensured.loc], LowerTy(subst, ensured.ty))
          ELSE Panic(acc, "unwrap of None")
    IN  Fold(ensure, Show(st, Local(0), LowerTy(subst, sig.ret)), sig.ensures)
=============================================================================
