----------------------------- MODULE MCSignature -----------------------------
(* One integer type, one struct and one type parameter; variables x and y,   *)
(* regions k and l, and a caller with two integers and references to them.   *)
EXTENDS Signature, TLC

MCRes == [i32 |-> "Int", bool |-> "Bool", RVec |-> "Struct", T |-> "Param", f32 |-> "Unsupported"]

I32 == Path("i32", <<>>)
BOOL == Path("bool", <<>>)
TPath == Path("T", <<>>)
RVec(ty) == Path("RVec", <<ty>>)
One == Lit("Int")
Less(s) == Op("lt", Var(s), One)
Plus(s) == Op("add", Var(s), One)

MCParams == {<<"x", "Int", TrueExpr>>, <<"x", "Bool", TrueExpr>>, <<"x", "Int", Less("x")>>,
             <<"y", "Int", Op("eq", Var("y"), Var("x"))>>, <<"x", "Char", TrueExpr>>}

Values == {BaseTy(I32), Refine(I32, Var("x")), Exists(BOOL, "y", Var("y")),
           Exists(I32, "x", Less("x")), BaseTy(TPath)}
MCRequires == {"k", "l"} \X (Values \union {MutRef("k"), MutRef("l")})
MCArgs == Values \union {MutRef("k"), MutRef("l"), Refine(I32, Plus("x")), Refine(BOOL, Var("x")),
           Refine(TPath, Var("x")), BaseTy(Path("f32", <<>>)), BaseTy(Path("Unknown", <<>>))}
MCEnsures == {"k", "l"} \X {Refine(I32, Plus("x")), Exists(I32, "y", Less("y")), Exists(BOOL, "y", Var("y")),
           MutRef("k"), MutRef("l")}
MCRets == {BaseTy(I32), Exists(I32, "y", Op("eq", Var("y"), Var("x"))), MutRef("l"),
           BaseTy(RVec(MutRef("k"))), Refine(I32, Lit("Other"))}

Value(s) == Refine(I32, Var([caller |-> s]))
MCCallerEnv == Local("a") :> Value("va") @@ Local("b") :> Value("vb") @@ Local("p") :> MutRef(Local("a"))
MCDestination == Local("dest")
MCActuals == {Value("va"), Value("vb"), Refine(BOOL, Var([caller |-> "vc"])), Weak,
              MutRef(Local("a")), MutRef(Local("b")), MutRef(Local("p"))}
=============================================================================
