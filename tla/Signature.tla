------------------------------ MODULE Signature -----------------------------
(***************************************************************************)
(* The way of a refined function signature: its names are resolved         *)
(* (liquid-rust-driver/src/resolve.rs), its refinements are sorted         *)
(* (liquid-rust-core/src/wf.rs), and a call of the function instantiates   *)
(* it in the environment of the caller (Subst in                           *)
(* liquid-rust-typeck/src/lowering.rs and check_call in checker.rs).       *)
(*                                                                         *)
(* The signature is chosen item by item, as the resolver reads it.  Spans  *)
(* and the wording of errors are left out: Err is any reported error.      *)
(***************************************************************************)
EXTENDS Naturals, Sequences

CONSTANTS
    Res,          \* name_res_table: what an identifier of a path stands for
    Params,       \* the items <<name, sort, pred>> a signature may have
    Requires,     \* <<region, type>>
    Args,         \* types
    Ensures,      \* <<region, type>>
    Rets,         \* types
    MaxItems,     \* how many items a signature has besides its return type
    MaxDepth,     \* how deep its expressions and types are
    CallerEnv,    \* TypeEnv of a caller: types of its locations, all strong
    Actuals,      \* types of the operands of the caller
    Destination,  \* the location of the caller that the call writes
    Err           \* Err(ErrorReported)

VARIABLES
    at,           \* the next step
    exprs,        \* resolve::Subst: variables in scope
    regions,      \* and regions
    next_name,    \* IndexGen
    sig,          \* core::FnSig, a section that has failed being Err
    inst,         \* lowering::Subst of a call: exprs and locations
    actuals,      \* types of the arguments of the call
    env           \* TypeEnv of the caller

vars == <<at, exprs, regions, next_name, sig, inst, actuals, env>>

-----------------------------------------------------------------------------
(* Syntax.  The resolver replaces symbols by Bound or Free(n), regions by   *)
(* names, and paths by base types; types keep their form.                  *)

\* "lt" stands for the comparisons, "add" for + and -, "and" for the connectives.
Var(v) == [form |-> "var", var |-> v]
Lit(s) == [form |-> "lit", sort |-> s]
Op(o, e, f) == [form |-> "op", op |-> o, left |-> e, right |-> f]
TrueExpr == Lit("Bool")

Path(i, as) == [ident |-> i, args |-> as]
BaseTy(p) == [form |-> "base", path |-> p]
Refine(p, e) == [form |-> "refine", path |-> p, expr |-> e]
Exists(p, b, e) == [form |-> "exists", path |-> p, bind |-> b, expr |-> e]
MutRef(r) == [form |-> "ref", loc |-> r]
ParamTy(i) == [form |-> "param", ident |-> i]

Bound == [var |-> "bound"]
Free(n) == [var |-> "free", name |-> n]

\* The expressions over vars, and the types over leaves, that are so deep.
Exprs(vs, depth) ==
    LET upTo[d \in 0..depth] ==
            [form : {"var"}, var : vs] \union [form : {"lit"}, sort : {"Int", "Bool", "Other"}]
            \union IF d = 0 THEN {}
                   ELSE [form : {"op"}, op : {"eq", "lt", "add", "and"},
                         left : upTo[d - 1], right : upTo[d - 1]]
    IN  upTo[depth]

Types(leaves, plain, binds, vs, depth) ==
    LET exprsOf == Exprs(vs, depth)
        under   == Exprs(vs \union binds, depth)
        upTo[d \in 0..depth] ==
            LET paths == [ident : STRING, args : IF d = 0 THEN {<<>>} ELSE Seq(upTo[d - 1])]
            IN  leaves \union [form : plain, path : paths]
                \union [form : {"refine"}, path : paths, expr : exprsOf]
                \union [form : {"exists"}, path : paths, bind : binds, expr : under]
    IN  upTo[depth]

SurfaceExprs == Exprs(STRING, MaxDepth)
SurfaceTypes == Types([form : {"ref"}, loc : STRING], {"base"}, STRING, STRING, MaxDepth)

CoreVars == {Bound} \union [var : {"free"}, name : Nat]
CoreExprs == Exprs(CoreVars, MaxDepth)
RefsAndParams(locs) == [form : {"ref"}, loc : locs] \union [form : {"param"}, ident : STRING]
CoreTypesOver(locs, vs) == Types(RefsAndParams(locs), {}, {Bound}, vs, MaxDepth)
CoreTypes == CoreTypesOver(Nat, CoreVars)

\* Loc
Local(l) == [local |-> l]
Abstract(n) == [abstract |-> n]

\* The types of a caller, whose indices are values of the caller.
CallerVars == {Bound} \union [caller : STRING] \union [fresh : {"caller"}]
CallerLocs == [local : STRING] \union [abstract : Nat]
Weak == [form |-> "weak"]
CallerTypesOver(locs, depth) ==
    Types(RefsAndParams(locs) \union {Weak}, {}, {Bound}, CallerVars, depth)
CallerTypes == CallerTypesOver(CallerLocs, 2 * MaxDepth)

\* The caller's environment is closed, and its operands have types of it.
ASSUME SignatureAssumption ==
    /\ MaxItems \in Nat /\ MaxDepth \in Nat
    /\ \A i \in DOMAIN Res : Res[i] \in {"Int", "Bool", "Struct", "Param", "Unsupported"}
    /\ Params \subseteq STRING \X STRING \X SurfaceExprs
    /\ Requires \union Ensures \subseteq STRING \X SurfaceTypes
    /\ Args \union Rets \subseteq SurfaceTypes
    /\ DOMAIN CallerEnv \subseteq CallerLocs
    /\ \A l \in DOMAIN CallerEnv : CallerEnv[l] \in CallerTypesOver(DOMAIN CallerEnv, MaxDepth)
    /\ Actuals \subseteq CallerTypesOver(DOMAIN CallerEnv, MaxDepth)
    /\ Destination \in CallerLocs
    /\ Err \notin CallerTypes \union Exprs(CallerVars, 2 * MaxDepth)

\* HashMap::insert
Put(f, k, v) == [x \in DOMAIN f \union {k} |-> IF x = k THEN v ELSE f[x]]

Sort(bty) == IF Res[bty.ident] = "Bool" THEN "Bool" ELSE "Int"

-----------------------------------------------------------------------------
(* Resolver *)

\* resolve::Subst: a layer for the binder of an existential, and insert_region,
\* which takes a name it already has for the new one.
Layer(scope, bind) == Put(scope, bind, Bound)
InsertRegion(locs, region, name) == Put(locs, region, name)

ResolveExpr(e, scope) ==
    LET resolve[x \in SurfaceExprs] ==
            CASE x.form = "var" -> IF x.var \in DOMAIN scope THEN Var(scope[x.var]) ELSE Err
              [] x.form = "lit" -> IF x.sort = "Other" THEN Err ELSE x
              [] OTHER -> IF Err \in {resolve[x.left], resolve[x.right]} THEN Err
                          ELSE Op(x.op, resolve[x.left], resolve[x.right])
    IN  resolve[e]

\* A base type, a type parameter, or Err, from what its arguments resolve to.
ResolvePath(ident, args) ==
    IF ident \notin DOMAIN Res THEN Err
    ELSE CASE Res[ident] = "Unsupported" -> Err
           [] Res[ident] = "Param" -> ParamTy(ident)
           [] Res[ident] \in {"Int", "Bool"} -> Path(ident, <<>>)
           [] Res[ident] = "Struct" ->
                IF \E k \in DOMAIN args : args[k] = Err THEN Err ELSE Path(ident, args)

\* The binder of an existential is Bound, and a type without a predicate has
\* the one that is true.
ResolveTy(ty, scope, locs) ==
    LET resolve[t \in SurfaceTypes] ==
            IF t.form = "ref" THEN IF t.loc \in DOMAIN locs THEN MutRef(locs[t.loc]) ELSE Err
            ELSE LET bty == ResolvePath(t.path.ident,
                                [k \in DOMAIN t.path.args |-> resolve[t.path.args[k]]])
                     e == IF t.form = "base" THEN TrueExpr
                          ELSE ResolveExpr(t.expr,
                                  IF t.form = "exists" THEN Layer(scope, t.bind) ELSE scope)
                 IN  IF bty = Err THEN Err
                     ELSE IF Res[t.path.ident] = "Param"
                     THEN IF t.form = "base" THEN bty ELSE Err
                     ELSE IF e = Err THEN Err
                     ELSE IF t.form = "refine" THEN Refine(bty, e) ELSE Exists(bty, Bound, e)
    IN  resolve[ty]

\* try_collect_exhaust: one Err makes the section an Err, and the rest goes on.
Collect(section, item) == IF section = Err \/ item = Err THEN Err ELSE Append(section, item)

Items == sig.items
Reading(section) == at = section /\ Items < MaxItems
Resolved(section, item) ==
    sig' = [sig EXCEPT ![section] = Collect(@, item), !.items = @ + 1]

Sorts == {"Int", "Bool"}

\* resolve_generics: the name is in scope of its own predicate.
ResolveParam(name, sort, pred) ==
    LET scope == IF name \in DOMAIN exprs THEN exprs ELSE Put(exprs, name, Free(next_name))
        e     == ResolveExpr(pred, scope)
        item  == [name |-> next_name, sort |-> sort, pred |-> e]
    IN  /\ Reading("params")
        /\ next_name' = next_name + 1
        /\ exprs' = scope
        /\ Resolved("params",
              IF name \in DOMAIN exprs \/ sort \notin Sorts \/ e = Err THEN Err ELSE item)
        /\ UNCHANGED <<at, regions, inst, actuals, env>>

\* The region is in scope of its own type; one with the same name is shadowed.
ResolveRequires(region, ty) ==
    LET locs == InsertRegion(regions, region, next_name)
        t    == ResolveTy(ty, exprs, locs)
    IN  /\ Reading("requires")
        /\ next_name' = next_name + 1
        /\ regions' = locs
        /\ Resolved("requires", IF t = Err THEN Err ELSE [loc |-> next_name, ty |-> t])
        /\ UNCHANGED <<at, exprs, inst, actuals, env>>

ResolveArg(ty) ==
    /\ Reading("args")
    /\ Resolved("args", ResolveTy(ty, exprs, regions))
    /\ UNCHANGED <<at, exprs, regions, next_name, inst, actuals, env>>

\* Mutant: the fresh name is not taken from the generator.
ResolveEnsuresSameName(region, ty) ==
    LET known == region \in DOMAIN regions
        locs  == IF known THEN regions ELSE InsertRegion(regions, region, next_name)
        t     == ResolveTy(ty, exprs, locs)
    IN  /\ Reading("ensures")
        /\ regions' = locs
        /\ Resolved("ensures", IF t = Err THEN Err ELSE [loc |-> locs[region], ty |-> t])
        /\ UNCHANGED <<at, exprs, next_name, inst, actuals, env>>

\* A region that requires does not have is a new one.
ResolveEnsures(region, ty) ==
    LET known == region \in DOMAIN regions
        locs  == IF known THEN regions ELSE InsertRegion(regions, region, next_name)
        t     == ResolveTy(ty, exprs, locs)
    IN  /\ Reading("ensures")
        /\ next_name' = IF known THEN next_name ELSE next_name + 1
        /\ regions' = locs
        /\ Resolved("ensures", IF t = Err THEN Err ELSE [loc |-> locs[region], ty |-> t])
        /\ UNCHANGED <<at, exprs, inst, actuals, env>>

Following == [params |-> "requires", requires |-> "args", args |-> "ensures", ensures |-> "ret"]

\* The end of an iterator.
NextSection ==
    /\ at \in DOMAIN Following
    /\ at' = Following[at]
    /\ UNCHANGED <<exprs, regions, next_name, sig, inst, actuals, env>>

\* The return type, and the question marks of the FnSig.
ResolveRet(ty) ==
    LET t == ResolveTy(ty, exprs, regions)
    IN  /\ at = "ret"
        /\ sig' = [sig EXCEPT !.ret = t]
        /\ at' = IF t = Err \/ \E s \in DOMAIN Following : sig[s] = Err
                 THEN "rejected" ELSE "wf"
        /\ UNCHANGED <<exprs, regions, next_name, inst, actuals, env>>

-----------------------------------------------------------------------------
(* Wf: senv is a map from variables to sorts that the whole signature       *)
(* shares.  A sort is "Int", "Bool", "none" for an Err, or "panic" for an   *)
(* index that senv does not have.                                          *)

\* A sort that is not the expected one is an Err.
Expecting(sort, expected) == IF sort \in {"panic", expected} THEN sort ELSE "none"

\* synth_binary_op, from the sorts of the operands.
SynthOp(op, left, right) ==
    LET operand == IF op = "eq" THEN left
                   ELSE Expecting(left, IF op = "and" THEN "Bool" ELSE "Int")
        other   == Expecting(right, operand)
    IN  IF operand \in {"none", "panic"} THEN operand
        ELSE IF other \in {"none", "panic"} THEN other
        ELSE IF op = "add" THEN "Int" ELSE "Bool"

SynthExpr(e, senv) ==
    LET synth[x \in CoreExprs] ==
            CASE x.form = "var" -> IF x.var \in DOMAIN senv THEN senv[x.var] ELSE "panic"
              [] x.form = "lit" -> x.sort
              [] OTHER -> SynthOp(x.op, synth[x.left], synth[x.right])
    IN  synth[e]

CheckExpr(e, senv, expected) == Expecting(SynthExpr(e, senv), expected)

\* Mutant: the first binder of the signature keeps the entry.
BindingOnce(senv, ty) ==
    IF ty.form = "exists" /\ Bound \notin DOMAIN senv THEN Put(senv, Bound, Sort(ty.path)) ELSE senv

\* The binder of an existential stays in senv for the rest of the signature.
Binding(senv, ty) ==
    IF ty.form = "exists" THEN Put(senv, Bound, Sort(ty.path)) ELSE senv

CheckType(ty, senv) ==
    CASE ty.form = "refine" -> CheckExpr(ty.expr, senv, Sort(ty.path))
      [] ty.form = "exists" -> CheckExpr(ty.expr, Binding(senv, ty), "Bool")
      [] OTHER -> "Int"

\* senv after n parameters: each is in scope of its own predicate.
ParamSenv(params, n) ==
    LET after[k \in 0..Len(params)] ==
            IF k = 0 THEN <<>> ELSE Put(after[k - 1], Free(params[k].name), params[k].sort)
    IN  after[n]

\* senv after n types.
TypeSenv(from, tys, n) ==
    LET after[k \in 0..Len(tys)] == IF k = 0 THEN from ELSE Binding(after[k - 1], tys[k])
    IN  after[n]

\* The types of args, ensures and the return type; those of requires are not
\* looked at.
CheckedTypes == sig.args \o [k \in DOMAIN sig.ensures |-> sig.ensures[k].ty] \o <<sig.ret>>

CheckFnSig ==
    LET params == {CheckExpr(sig.params[k].pred, ParamSenv(sig.params, k), "Bool") :
                      k \in DOMAIN sig.params}
        senv   == ParamSenv(sig.params, Len(sig.params))
        types  == {CheckType(CheckedTypes[k], TypeSenv(senv, CheckedTypes, k - 1)) :
                      k \in DOMAIN CheckedTypes}
        sorts  == params \union types
    IN  /\ at = "wf"
        /\ at' = IF "panic" \in sorts THEN "panicked"
                 ELSE IF "none" \in sorts THEN "rejected" ELSE "accepted"
        /\ UNCHANGED <<exprs, regions, next_name, sig, inst, actuals, env>>

-----------------------------------------------------------------------------
(* A call.  The types of the caller are Refine, whose index is a value of   *)
(* the caller, MutRef to a location of the caller, Weak, and parameters.    *)

NoSubst == [exprs |-> <<>>, locs |-> <<>>]

\* rustc has checked the call: the argument is of the formal's base type, or is
\* a reference to what the formal refers to.
Fits(actual, formal) ==
    LET fits[p \in CallerTypes \X CoreTypes] ==
            LET t == p[1]  f == p[2] IN
            \/ f.form = "param" /\ t.form = "refine"
            \/ f.form \in {"refine", "exists"} /\ t.form = "refine" /\ t.path.ident = f.path.ident
            \/ f.form = "ref" /\ t.form = "weak"
            \/ /\ f.form = "ref" /\ t.form = "ref"
               /\ \A k \in DOMAIN sig.requires :
                     sig.requires[k].loc = f.loc => fits[<<env[t.loc], sig.requires[k].ty>>]
    IN  fits[<<actual, formal>>]

\* The call of a signature that is accepted, with arguments as.
Call(as) ==
    /\ at = "accepted"
    /\ \A k \in DOMAIN as : Fits(as[k], sig.args[k])
    /\ actuals' = as
    /\ at' = "infer"
    /\ UNCHANGED <<exprs, regions, next_name, sig, inst, env>>

IsVar(e) == e.form = "var" /\ e.var # Bound

\* infer_from_tys: what is inferred is ambiguous when the same name is inferred
\* twice, and not alike.
Infer(acc, t, f) ==
    CASE t.form = "refine" /\ f.form = "refine" /\ IsVar(f.expr) ->
            LET name == f.expr.var.name
            IN  [acc EXCEPT !.exprs = Put(@, name, t.expr),
                            !.clash = @ \/ (name \in DOMAIN acc.exprs /\ acc.exprs[name] # t.expr)]
      [] t.form = "ref" /\ f.form = "ref" ->
            [acc EXCEPT !.locs = Put(@, f.loc, t.loc),
                        !.clash = @ \/ (f.loc \in DOMAIN acc.locs /\ acc.locs[f.loc] # t.loc)]
      [] OTHER -> acc

InferArgs ==
    LET upTo[k \in 0..Len(actuals)] ==
            IF k = 0 THEN [exprs |-> <<>>, locs |-> <<>>, clash |-> FALSE, lost |-> FALSE]
            ELSE Infer(upTo[k - 1], actuals[k], sig.args[k])
    IN  upTo[Len(actuals)]

\* The required locations, each looked up before the next is inferred.
InferRequired(acc, r) ==
    IF acc.clash \/ acc.lost THEN acc
    ELSE IF r.loc \notin DOMAIN acc.locs \/ acc.locs[r.loc] \notin DOMAIN env
         THEN [acc EXCEPT !.lost = TRUE]
    ELSE Infer(acc, env[acc.locs[r.loc]], r.ty)

InferRequires(from) ==
    LET upTo[k \in 0..Len(sig.requires)] ==
            IF k = 0 THEN from ELSE InferRequired(upTo[k - 1], sig.requires[k])
    IN  upTo[Len(sig.requires)]

\* check_inference
Inferred(acc) ==
    /\ \A k \in DOMAIN sig.params : sig.params[k].name \in DOMAIN acc.exprs
    /\ \A k \in DOMAIN sig.requires : sig.requires[k].loc \in DOMAIN acc.locs

\* infer_from_fn_call: a clash is a todo!, and a location that is not known, or
\* not in env, fails an unwrap.
InferFromFnCall ==
    LET all == InferRequires(InferArgs)
    IN  /\ at = "infer"
        /\ inst' = [exprs |-> all.exprs, locs |-> all.locs]
        /\ at' = IF all.clash THEN "ambiguous"
                 ELSE IF all.lost THEN "undetermined"
                 ELSE IF Inferred(all) THEN "lower" ELSE "inference error"
        /\ UNCHANGED <<exprs, regions, next_name, sig, actuals, env>>

\* lower_expr and lower_ty, Err where an index or a key is missing.
LowerExpr(e, s) ==
    LET lower[x \in CoreExprs] ==
            CASE x.form = "var" -> IF x.var = Bound THEN x
                                   ELSE IF x.var.name \in DOMAIN s.exprs THEN s.exprs[x.var.name]
                                   ELSE Err
              [] x.form = "lit" -> x
              [] OTHER -> IF Err \in {lower[x.left], lower[x.right]} THEN Err
                          ELSE Op(x.op, lower[x.left], lower[x.right])
    IN  lower[e]

LowerTy(ty, s) ==
    LET lower[t \in CoreTypes] ==
            CASE t.form = "ref" -> IF t.loc \in DOMAIN s.locs THEN MutRef(s.locs[t.loc]) ELSE Err
              [] t.form = "param" -> t
              [] OTHER ->
                    LET args == [k \in DOMAIN t.path.args |-> lower[t.path.args[k]]]
                        bty  == Path(t.path.ident, args)
                        e    == LowerExpr(t.expr, s)
                    IN  IF e = Err \/ \E k \in DOMAIN args : args[k] = Err THEN Err
                        ELSE IF t.form = "refine" THEN Refine(bty, e) ELSE Exists(bty, Bound, e)
    IN  lower[ty]

\* The heads, the arguments and the requires of check_call, up to subtyping,
\* which ConstraintBuilder models.
LowerCall ==
    /\ at = "lower"
    /\ at' = IF /\ \A k \in DOMAIN sig.params : LowerExpr(sig.params[k].pred, inst) # Err
                /\ \A k \in DOMAIN sig.args : LowerTy(sig.args[k], inst) # Err
                /\ \A k \in DOMAIN sig.requires :
                      /\ inst.locs[sig.requires[k].loc] \in DOMAIN env
                      /\ LowerTy(sig.requires[k].ty, inst) # Err
             THEN "update" ELSE "panicked"
    /\ UNCHANGED <<exprs, regions, next_name, sig, inst, actuals, env>>

\* unpack: a fresh variable of the caller stands for the binder.
Unpacked(ty) ==
    IF ty.form = "exists" THEN Refine(ty.path, Var([fresh |-> "caller"])) ELSE ty

\* Mutants: the new location is not kept in the Subst, or not bound in env.
EnsureOneForgotten(acc, en) ==
    LET t   == LowerTy(en.ty, acc.inst)
        new == en.loc \notin DOMAIN acc.inst.locs
        loc == IF new THEN Abstract(en.loc) ELSE acc.inst.locs[en.loc]
    IN  IF acc.lost \/ t = Err THEN [acc EXCEPT !.lost = TRUE]
        ELSE [acc EXCEPT !.env = Put(@, loc, Unpacked(t))]

EnsureOneUnbound(acc, en) ==
    LET t   == LowerTy(en.ty, acc.inst)
        new == en.loc \notin DOMAIN acc.inst.locs
        loc == IF new THEN Abstract(en.loc) ELSE acc.inst.locs[en.loc]
    IN  IF acc.lost \/ t = Err THEN [acc EXCEPT !.lost = TRUE]
        ELSE [acc EXCEPT !.inst.locs = Put(@, en.loc, loc),
                         !.env = IF new THEN @ ELSE Put(@, loc, Unpacked(t))]

\* The ensures of check_call, one after the other: the type first, then the
\* location, which is updated or new.
EnsureOne(acc, en) ==
    LET t   == LowerTy(en.ty, acc.inst)
        new == en.loc \notin DOMAIN acc.inst.locs
        loc == IF new THEN Abstract(en.loc) ELSE acc.inst.locs[en.loc]
    IN  IF acc.lost \/ t = Err THEN [acc EXCEPT !.lost = TRUE]
        ELSE [acc EXCEPT !.inst.locs = Put(@, en.loc, loc),
                         !.env = Put(@, loc, Unpacked(t))]

EnsuredAll ==
    LET upTo[k \in 0..Len(sig.ensures)] ==
            IF k = 0 THEN [inst |-> inst, env |-> env, lost |-> FALSE]
            ELSE EnsureOne(upTo[k - 1], sig.ensures[k])
    IN  upTo[Len(sig.ensures)]

Ensure ==
    /\ at = "update"
    /\ IF EnsuredAll.lost
       THEN at' = "panicked" /\ UNCHANGED <<inst, env>>
       ELSE at' = "destination" /\ inst' = EnsuredAll.inst /\ env' = EnsuredAll.env
    /\ UNCHANGED <<exprs, regions, next_name, sig, actuals>>

\* The return type goes to the destination; a call without one diverges.
WriteDestination ==
    LET ret == LowerTy(sig.ret, inst)
    IN  /\ at = "destination"
        /\ IF ret = Err
           THEN at' = "panicked" /\ UNCHANGED env
           ELSE at' = "returned" /\ env' = Put(env, Destination, Unpacked(ret))
        /\ UNCHANGED <<exprs, regions, next_name, sig, inst, actuals>>

-----------------------------------------------------------------------------

Init ==
    /\ at = "params"
    /\ exprs = <<>> /\ regions = <<>> /\ next_name = 0
    /\ sig = [params |-> <<>>, requires |-> <<>>, args |-> <<>>, ensures |-> <<>>,
              ret |-> Err, items |-> 0]
    /\ inst = NoSubst /\ actuals = <<>> /\ env = CallerEnv

Resolve ==
    \/ \E p \in Params : ResolveParam(p[1], p[2], p[3])
    \/ \E r \in Requires : ResolveRequires(r[1], r[2])
    \/ \E ty \in Args : ResolveArg(ty)
    \/ \E e \in Ensures : ResolveEnsures(e[1], e[2])
    \/ NextSection
    \/ \E ty \in Rets : ResolveRet(ty)

CheckCall ==
    \/ at = "accepted" /\ \E as \in [DOMAIN sig.args -> Actuals] : Call(as)
    \/ InferFromFnCall
    \/ LowerCall
    \/ Ensure
    \/ WriteDestination

Next == Resolve \/ CheckFnSig \/ CheckCall

Spec == Init /\ [][Next]_vars

-----------------------------------------------------------------------------
(* Properties *)

Sections == {"params", "requires", "args", "ensures"}

\* Names are made by one generator: what is in scope, and what the signature
\* declares, has a name below the next one.
TypeOK ==
    /\ at \in Sections \union {"ret", "wf", "rejected", "accepted", "panicked",
                "infer", "ambiguous", "undetermined", "inference error",
                "lower", "update", "destination", "returned"}
    /\ next_name \in Nat
    /\ sig.items \in 0..MaxItems
    /\ \A s \in DOMAIN exprs : exprs[s] \in {Free(n) : n \in 0..(next_name - 1)}
    /\ \A r \in DOMAIN regions : regions[r] \in 0..(next_name - 1)
    /\ \A p \in DOMAIN exprs, r \in DOMAIN regions : exprs[p].name # regions[r]
    /\ DOMAIN actuals # {} => DOMAIN actuals = DOMAIN sig.args

Accepted == at \notin Sections \union {"ret", "wf", "rejected"}

\* The sort of an expression where the variables of sorts are in scope, or
\* "none": what sort checking means, without an environment that changes.
SortOfOp(op, l, r) ==
    CASE op = "eq"  -> IF l = r /\ l # "none" THEN "Bool" ELSE "none"
      [] op = "and" -> IF l = "Bool" /\ r = "Bool" THEN "Bool" ELSE "none"
      [] op = "lt"  -> IF l = "Int" /\ r = "Int" THEN "Bool" ELSE "none"
      [] op = "add" -> IF l = "Int" /\ r = "Int" THEN "Int" ELSE "none"

SortOf(e, sorts) ==
    LET sort[x \in CoreExprs] ==
            CASE x.form = "var" -> IF x.var \in DOMAIN sorts THEN sorts[x.var] ELSE "none"
              [] x.form = "lit" -> x.sort
              [] OTHER -> SortOfOp(x.op, sort[x.left], sort[x.right])
    IN  sort[e]

ParamSorts(n) ==
    [v \in {Free(sig.params[k].name) : k \in 1..n} |->
        sig.params[CHOOSE k \in 1..n : Free(sig.params[k].name) = v].sort]

WellSorted(ty, sorts) ==
    CASE ty.form = "refine" -> SortOf(ty.expr, sorts) = Sort(ty.path)
      [] ty.form = "exists" -> SortOf(ty.expr, Put(sorts, Bound, Sort(ty.path))) = "Bool"
      [] OTHER -> TRUE

UnionOf(sets) == UNION {sets[k] : k \in DOMAIN sets}

LocsOf(tys, ty) ==
    LET locs[t \in tys] ==
            IF t.form = "ref" THEN {t.loc}
            ELSE IF t.form \in {"refine", "exists"}
            THEN UnionOf([k \in DOMAIN t.path.args |-> locs[t.path.args[k]]])
            ELSE {}
    IN  locs[ty]

RequiredUpTo(n) == {sig.requires[k].loc : k \in 1..n}
EnsuredUpTo(n) == {sig.ensures[k].loc : k \in 1..n}

\* A signature that passes the resolver and the sort checker is closed and well
\* sorted: every variable is a parameter declared before or the binder of the
\* very predicate it occurs in, with the sort it is used at, and every region is
\* declared no later than its use.  This must hold across the resolver's scopes
\* and the one map of sorts that wf.rs overwrites for every binder.  It is not
\* so for the sorts in requires and in the arguments of a path.
AcceptedIsWellFormed ==
    Accepted =>
        LET sorts == ParamSorts(Len(sig.params))
            required == RequiredUpTo(Len(sig.requires))
        IN  /\ \A k \in DOMAIN sig.params :
                  SortOf(sig.params[k].pred, ParamSorts(k)) = "Bool"
            /\ \A k \in DOMAIN sig.args :
                  WellSorted(sig.args[k], sorts) /\ LocsOf(CoreTypes, sig.args[k]) \subseteq required
            /\ \A k \in DOMAIN sig.requires : LocsOf(CoreTypes, sig.requires[k].ty) \subseteq RequiredUpTo(k)
            /\ \A k \in DOMAIN sig.ensures :
                  /\ WellSorted(sig.ensures[k].ty, sorts)
                  /\ LocsOf(CoreTypes, sig.ensures[k].ty) \subseteq required \union EnsuredUpTo(k)
            /\ WellSorted(sig.ret, sorts)
            /\ LocsOf(CoreTypes, sig.ret) \subseteq required \union EnsuredUpTo(Len(sig.ensures))

\* A location that ensures introduces is in scope of its own type, which
\* check_call lowers before it knows the location.
EnsuresItself ==
    \E k \in DOMAIN sig.ensures :
        /\ sig.ensures[k].loc \in LocsOf(CoreTypes, sig.ensures[k].ty)
        /\ sig.ensures[k].loc \notin RequiredUpTo(Len(sig.requires)) \union EnsuredUpTo(k - 1)

\* Once the parameters of a call are inferred, the rest of the call does not
\* panic: every name that the predicates and types of the signature mention has
\* an instance by the time it is lowered (lower_var, lower_ty, the unwraps of
\* check_call), and the index of wf.rs into its map is there too.  The one
\* exception is a signature that ensures a reference to itself.
CallsLower == at = "panicked" => EnsuresItself

\* After a call the caller's environment has a binding for every location that
\* one of its types mentions.
EnvClosed ==
    at = "returned" => \A l \in DOMAIN env : LocsOf(CallerTypes, env[l]) \subseteq DOMAIN env

\* report_inference_error says "inference error at function call": check_inference
\* turns a location of requires that no argument determines into an error.
UndeterminedIsReported == at # "undetermined"

=============================================================================
