------------------------------ MODULE TypeEnv ------------------------------
(***************************************************************************)
(* Type environments with strong and weak references                       *)
(* (src/liquid-rust-typeck/src/type_env.rs), as functions of a record st:  *)
(* builder b, cursor c, the environment env, a function from locations to  *)
(* bindings, the iteration order of its hash map and the panic that ended  *)
(* the program, or "".  An operation on a program that has panicked does   *)
(* nothing.                                                                *)
(*                                                                         *)
(* The iteration order is either order of the locations; any other renames *)
(* what one of the two makes.  References refer to values, so ref_weak and *)
(* ref_weak_join do not recurse: references to references end in the       *)
(* todo!s of write_place and walk_place.  ADTs and parameters are left out.*)
(***************************************************************************)
EXTENDS Constraint

(* FoldLeft as a recursive function, which proofs can unfold.              *)
Fold(Op(_, _), base, s) ==
    LET acc[i \in 0..Len(s)] == IF i = 0 THEN base ELSE Op(acc[i - 1], s[i])
    IN  acc[Len(s)]

IsSequence(s) == s \in Seq({s[i] : i \in DOMAIN s})

(* The map with key bound to value, which replaces a value it had.         *)
Put(map, key, value) ==
    [k \in DOMAIN map \union {key} |-> IF k = key THEN value ELSE map[k]]

NoPanic == ""
Ok(st) == st.panic = NoPanic
Panic(st, message) == IF Ok(st) THEN [st EXCEPT !.panic = message] ELSE st

(* The operation Op of the cursor, under the environment of st.            *)
S(st) == [b |-> st.b, c |-> st.c]
With(st, s) == [st EXCEPT !.b = s.b, !.c = s.c]
Sub(st, ty1, ty2) ==
    IF ~Ok(st) THEN st
    ELSE IF SubtypingDefined(ty1, ty2) THEN With(st, Subtyping(S(st), ty1, ty2))
    ELSE Panic(st, "unexpected types")

AllOrders == {"ascending", "descending"}
InOrder(st, locs) ==
    IF st.order = "ascending" THEN Sorted(locs) ELSE Reverse(Sorted(locs))

-----------------------------------------------------------------------------
(* Bindings                                                                *)

Strong(ty) == [kind |-> "Strong", ty |-> ty]
Weak(bound, ty) == [kind |-> "Weak", bound |-> bound, ty |-> ty]

Bound(st, loc) == loc \in DOMAIN st.env
Bind(st, loc, binding) ==
    IF Ok(st) THEN [st EXCEPT !.env = Put(@, loc, binding)] ELSE st

(* insert_loc                                                              *)
Insert(st, loc, ty) == Bind(st, loc, Strong(ty))

(* insert_loc of what is left of ty after unpacking it.                    *)
InsertUnpacked(st, loc, ty) ==
    IF Ok(st) THEN Insert(With(st, Unpack(S(st), ty)), loc, UnpackedTy(S(st), ty)) ELSE st

(* move_place of a local.                                                  *)
MoveLocal(st, x) ==
    IF Bound(st, Local(x)) THEN Insert(st, Local(x), Uninit) ELSE Panic(st, "unwrap of None")

(* update_loc: a weak location keeps the type it was unpacked to; what is  *)
(* written only has to satisfy its bound.                                  *)
UpdateLoc(st, loc, ty) ==
    IF ~Bound(st, loc) THEN Panic(st, "unwrap of None")
    ELSE IF st.env[loc].kind = "Strong" THEN Insert(st, loc, ty)
    ELSE Sub(st, ty, st.env[loc].bound)

-----------------------------------------------------------------------------
(* Places: a local, or what it refers to                                   *)

(* The locations walk_place gets an answer for.                            *)
Walks(env, place) ==
    /\ Local(place.local) \in DOMAIN env
    /\ place.deref => LET ty == env[Local(place.local)].ty
                      IN  ty.kind = "StrgRef" /\ ty.loc \in DOMAIN env

(* get_loc and lookup_place                                                *)
GetLoc(env, place) ==
    IF place.deref THEN env[Local(place.local)].ty.loc ELSE Local(place.local)
LookupPlace(env, place) == env[GetLoc(env, place)].ty

WalkPlace(st, place) ==
    IF Ok(st) /\ ~Walks(st.env, place) THEN Panic(st, "walk_place") ELSE st

(* write_place: the old type tells a location that can be written.         *)
WritePlace(st0, place, ty) ==
    LET st == WalkPlace(st0, place)
    IN  IF ~Ok(st) THEN st
        ELSE IF LookupPlace(st.env, place).kind \in {"Ref", "Exists"}
        THEN Panic(st, "write_place")
        ELSE UpdateLoc(st, GetLoc(st.env, place), ty)

-----------------------------------------------------------------------------
(* unpack                                                                  *)

(* An existential becomes a fresh variable; a weak reference becomes a     *)
(* strong one, to a fresh location that is bound by what it referred to.   *)
UnpackLoc(st, loc) ==
    LET binding == st.env[loc]
        fresh   == Abstract(FreshName(S(st)))
        named   == With(st, TakeName(S(st)))
        inner   == UnpackedTy(S(named), binding.ty.ty)
    IN  CASE binding.ty.kind = "Exists" ->
               Bind(With(st, Unpack(S(st), binding.ty)), loc,
                    [binding EXCEPT !.ty = UnpackedTy(S(st), binding.ty)])
          [] binding.ty.kind = "Ref" ->
               Bind(Bind(With(named, Unpack(S(named), binding.ty.ty)), loc,
                         [binding EXCEPT !.ty = StrgRef(fresh)]),
                    fresh, Weak(binding.ty.ty, inner))
          [] OTHER -> st

UnpackEnv(st) == Fold(UnpackLoc, st, InOrder(st, DOMAIN st.env))

-----------------------------------------------------------------------------
(* weakening and levels                                                    *)

(* weakening: env1 keeps the locations of env2; one that is uninitialized  *)
(* there is uninitialized here.                                            *)
Weakening(env1, env2) ==
    [loc \in DOMAIN env1 \intersect DOMAIN env2 |->
        IF env2[loc].ty = Uninit THEN Strong(Uninit) ELSE env1[loc]]

(* levels indexes the environment with every location referred to.         *)
HasLevels(env) ==
    \A loc \in DOMAIN env : env[loc].ty.kind = "StrgRef" => env[loc].ty.loc \in DOMAIN env
Level(env, loc) == IF env[loc].ty.kind = "StrgRef" THEN 1 ELSE 0

-----------------------------------------------------------------------------
(* Joins                                                                   *)

(* ref_weak: the location a reference no longer knows exactly gets the type*)
(* the reference has of it.                                                *)
RefWeak(st, loc, bound) ==
    IF ~Ok(st) THEN st
    ELSE IF ~Bound(st, loc) THEN Panic(st, "index of a missing location")
    ELSE IF st.env[loc].kind = "Weak" THEN Panic(st, "expected strong binding")
    ELSE IF bound.kind # "Exists" THEN Panic(st, "todo")
    ELSE Insert(Sub(st, st.env[loc].ty, bound), loc, bound)

(* The join of two different types of values, at the cursor.               *)
FreshJoin(st) == With(st, FreshKVar(S(st)))
ValueJoin(st, ty1, ty2) ==
    IF ty1 = ty2 THEN [st |-> st, ty |-> ty1]
    ELSE [st |-> FreshJoin(st), ty |-> LastKVar(S(FreshJoin(st)))]

(* ref_weak_join: two locations a reference may refer to get one type.     *)
RefWeakJoin(st, loc1, loc2) ==
    LET binding1 == st.env[loc1]
        binding2 == st.env[loc2]
        join     == ValueJoin(st, binding1.ty, binding2.ty)
    IN  IF ~(Bound(st, loc1) /\ Bound(st, loc2))
        THEN [st |-> Panic(st, "index of a missing location"), ty |-> Uninit]
        ELSE IF "Weak" \in {binding1.kind, binding2.kind}
        THEN [st |-> Panic(st, "expected strong binding"), ty |-> Uninit]
        ELSE IF ~({binding1.ty.kind, binding2.ty.kind} \subseteq Value)
        THEN [st |-> Panic(st, "todo"), ty |-> Uninit]
        ELSE [st |-> Insert(Insert(join.st, loc1, join.ty), loc2, join.ty), ty |-> join.ty]

(* strg_ty_join, giving a state and a type                                 *)
StrgTyJoin(st, ty1, ty2) ==
    LET kinds == {ty1.kind, ty2.kind}
        weak  == RefWeakJoin(st, ty1.loc, ty2.loc)
        strg  == IF ty1.kind = "StrgRef" THEN ty1 ELSE ty2
        ref   == IF ty1.kind = "StrgRef" THEN ty2 ELSE ty1
    IN  CASE ty1 = ty2                  -> [st |-> st, ty |-> ty1]
          [] ty1 # ty2 /\ "Uninit" \in kinds -> [st |-> st, ty |-> Uninit]
          [] ty1 # ty2 /\ kinds \subseteq Value -> ValueJoin(st, ty1, ty2)
          [] ty1 # ty2 /\ kinds = {"StrgRef"} -> [st |-> weak.st, ty |-> Ref(weak.ty)]
          [] ty1 # ty2 /\ kinds = {"StrgRef", "Ref"} ->
               [st |-> RefWeak(st, strg.loc, ref.ty), ty |-> ref.ty]
          [] OTHER -> [st |-> Panic(st, "todo"), ty |-> Uninit]

(* The types of one location; a weak binding stays as it is.               *)
JoinLoc(st, other, loc) ==
    LET join == StrgTyJoin(st, st.env[loc].ty, other[loc].ty)
    IN  IF Ok(st) /\ st.env[loc].kind = "Strong" /\ other[loc].kind = "Strong"
        THEN Insert(join.st, loc, join.ty) ELSE st

(* The locations of one level, in order.                                   *)
JoinLocs(st, other, level, locs) ==
    Fold(LAMBDA acc, loc : IF loc \in level THEN JoinLoc(acc, other, loc) ELSE acc, st, locs)

(* join_with: the environment self becomes the join of self and other, in  *)
(* the order of the levels: values before the references to them.          *)
JoinWith(st0, self, other) ==
    LET st   == [st0 EXCEPT !.env = Weakening(self, other)]
        locs == InOrder(st, DOMAIN st.env)
        low  == {loc \in DOMAIN st.env : Level(st.env, loc) = 0 /\ Level(other, loc) = 0}
    IN  IF HasLevels(st.env) /\ HasLevels(other)
        THEN JoinLocs(JoinLocs(st, other, low, locs), other, DOMAIN st.env \ low, locs)
        ELSE Panic(st, "dangling reference")

-----------------------------------------------------------------------------
(* infer_bb_env and transform_into                                         *)

(* into_shape                                                              *)
Shape(env) == [loc \in DOMAIN env |-> env[loc].ty]

IsKVar(ty) == ty.kind = "Exists" /\ ty.pred.kind = "KVar"

(* One new kvar for each kvar of a shape, at its first occurrence: s is a  *)
(* builder and a cursor, new maps the old kvars to the new ones.           *)
RefreshKVar(acc, ty) ==
    LET s == FreshKVarAtLastScope(acc.s)
    IN  IF IsKVar(Referred(ty)) /\ Referred(ty).pred.kvid \notin DOMAIN acc.new
        THEN [s |-> s, new |-> Put(acc.new, Referred(ty).pred.kvid, LastKVar(s).pred)]
        ELSE acc

(* replace_kvars                                                           *)
ReplaceKVars(ty, new) ==
    LET inner == IF IsKVar(Referred(ty)) THEN Exists(new[Referred(ty).pred.kvid]) ELSE Referred(ty)
    IN  IF ty.kind = "Ref" THEN Ref(inner) ELSE inner

(* Mutant: the shape is taken by the names of the Inference phase.         *)
NotRenamed(st, shape, loc) == loc

(* The abstract locations of the shape by the names they have in env: those*)
(* that the same location refers to.  The last reference in order counts.  *)
Renamed(st, shape, loc) ==
    LET refs == SelectSeq(InOrder(st, DOMAIN shape),
                  LAMBDA l : /\ shape[l] = StrgRef(loc) /\ l \in DOMAIN st.env
                             /\ st.env[l].ty.kind = "StrgRef")
    IN  IF refs = <<>> THEN loc ELSE st.env[Last(refs)].ty.loc

InferLoc(acc, st, shape, new, loc) ==
    LET here == Renamed(st, shape, loc)
        ty1  == shape[loc]
        ty2  == st.env[here].ty
    IN  IF ~Bound(st, here) THEN Panic(acc, "index of a missing location")
        ELSE Insert(acc, here,
                    IF \/ ty2 = Uninit
                       \/ ty1.kind = ty2.kind /\ ty1.kind \in {"Refine", "StrgRef"}
                    THEN ty2 ELSE ReplaceKVars(ty1, new))

(* infer_bb_env: the new kvars, then the environment the shape describes.  *)
InferBbEnv(st, shape) ==
    LET locs      == InOrder(st, DOMAIN shape)
        fresh(acc, loc) == RefreshKVar(acc, shape[loc])
        refreshed == Fold(fresh, [s |-> S(st), new |-> <<>>], locs)
        infer(acc, loc) == InferLoc(acc, st, shape, refreshed.new, loc)
    IN  Fold(infer, [With(st, refreshed.s) EXCEPT !.env = <<>>], locs)

TransformLoc(st, other, loc) ==
    LET ty1 == st.env[loc].ty
        ty2 == other[loc].ty
    IN  IF ~Ok(st) THEN st
        ELSE IF "Weak" \in {st.env[loc].kind, other[loc].kind}
        THEN Panic(st, "expected strong binding")
        ELSE Insert(IF ty1.kind = "StrgRef" /\ ty2.kind = "Ref"
                    THEN RefWeak(st, ty1.loc, ty2.ty)
                    ELSE Sub(st, ty1, ty2),
                    loc, ty2)

TransformLocs(st, other, level, locs) ==
    Fold(LAMBDA acc, loc : IF loc \in level THEN TransformLoc(acc, other, loc) ELSE acc, st, locs)

(* transform_into: st.env becomes other, references before the values they *)
(* refer to; what it had must be a subtype of what it gets.                *)
TransformInto(st0, other) ==
    LET st   == [st0 EXCEPT !.env = Weakening(st0.env, other)]
        locs == Reverse(InOrder(st, DOMAIN st.env))
        high == {loc \in DOMAIN st.env : Level(st.env, loc) = 1}
    IN  IF ~Ok(st0) THEN st0
        ELSE IF HasLevels(st.env)
        THEN TransformLocs(TransformLocs(st, other, high, locs), other, DOMAIN st.env \ high, locs)
        ELSE Panic(st, "dangling reference")
=============================================================================
