--------------------------- MODULE SignatureProofs ---------------------------
(***************************************************************************)
(* A signature that is accepted is closed and well sorted, and its calls   *)
(* lower without a panic and leave the environment of the caller closed:   *)
(* for any set of parameters, regions, types and predicates, any caller,   *)
(* and expressions and types of any depth.                                 *)
(***************************************************************************)
EXTENDS Signature, InductionProofs, SequenceTheorems, TLAPS

-----------------------------------------------------------------------------
(* Expressions by depth                                                    *)

BinOps == {"eq", "lt", "add", "and"}
VarExprs(vs) == [form : {"var"}, var : vs]
LitExprs == [form : {"lit"}, sort : {"Int", "Bool", "Other"}]
OpExprs(operands) == [form : {"op"}, op : BinOps, left : operands, right : operands]

(* The function that Exprs takes a value of.                               *)
ExprsIs(vs, depth, upTo) ==
    upTo = [d \in 0..depth |->
              [form : {"var"}, var : vs] \union [form : {"lit"}, sort : {"Int", "Bool", "Other"}]
              \union IF d = 0 THEN {}
                     ELSE [form : {"op"}, op : {"eq", "lt", "add", "and"},
                           left : upTo[d - 1], right : upTo[d - 1]]]
ExprLevels(vs, depth) == CHOOSE upTo : ExprsIs(vs, depth, upTo)

LEMMA ExprsAreLevels ==
  ASSUME NEW vs, NEW depth
  PROVE  Exprs(vs, depth) = ExprLevels(vs, depth)[depth]
BY DEF Exprs, ExprLevels, ExprsIs

(* What the levels are, without the domain.                                *)
ExprLevelsAre(vs, depth, f) ==
    /\ f[0] = VarExprs(vs) \union LitExprs
    /\ \A k \in 0 .. depth - 1 :
          f[k + 1] = VarExprs(vs) \union LitExprs \union OpExprs(f[k])

LEMMA ExprLevelsExist ==
  ASSUME NEW vs
  PROVE  \A n \in Nat : \E f : ExprsIs(vs, n, f)
<1> DEFINE T == {n \in Nat : \E f : ExprsIs(vs, n, f)}
           leaf == VarExprs(vs) \union LitExprs
<1>1. 0 \in T
  <2> DEFINE f == [d \in 0..0 |-> VarExprs(vs) \union LitExprs \union {}]
  <2>1. ExprsIs(vs, 0, f)
    BY DEF ExprsIs, VarExprs, LitExprs
  <2> QED
    BY <2>1
<1>2. ASSUME NEW n \in Nat, n \in T
      PROVE  n + 1 \in T
  <2>1. PICK f : ExprsIs(vs, n, f)
    BY <1>2
  <2> DEFINE h == [d \in 0 .. n + 1 |-> VarExprs(vs) \union LitExprs \union
                     IF d = 0 THEN {} ELSE OpExprs(f[d - 1])]
  <2>2. ASSUME NEW d \in 0 .. n + 1, d # 0
        PROVE  f[d - 1] = h[d - 1]
    <3>1. d - 1 \in 0 .. n /\ d - 1 \in 0 .. n + 1
      BY <2>2
    <3>2. f[d - 1] = VarExprs(vs) \union LitExprs \union
                     IF d - 1 = 0 THEN {} ELSE OpExprs(f[d - 1 - 1])
      BY <2>1, <3>1 DEF ExprsIs, VarExprs, LitExprs, OpExprs, BinOps
    <3> QED
      BY <3>1, <3>2
  <2>3. h = [d \in 0 .. n + 1 |-> VarExprs(vs) \union LitExprs \union
                     IF d = 0 THEN {} ELSE OpExprs(h[d - 1])]
    <3>1. h = [d \in 0 .. n + 1 |-> h[d]]
      OBVIOUS
    <3>2. \A d \in 0 .. n + 1 : h[d] = VarExprs(vs) \union LitExprs \union
                     IF d = 0 THEN {} ELSE OpExprs(f[d - 1])
      OBVIOUS
    <3> HIDE DEF h
    <3>3. \A d \in 0 .. n + 1 : h[d] = VarExprs(vs) \union LitExprs \union
                     IF d = 0 THEN {} ELSE OpExprs(h[d - 1])
      BY <2>2, <3>2
    <3> QED
      BY <3>1, <3>3
  <2>4. ExprsIs(vs, n + 1, h)
    <3> HIDE DEF h
    <3> QED
      BY <2>3 DEF ExprsIs, VarExprs, LitExprs, OpExprs, BinOps
  <2> HIDE DEF h
  <2> QED
    BY <2>4
<1> HIDE DEF T
<1>3. Nat \subseteq T
  BY <1>1, <1>2, SetInduction
<1> QED
  BY <1>3 DEF T

LEMMA ExprLevelsUnfold ==
  ASSUME NEW vs, NEW n \in Nat
  PROVE  ExprLevelsAre(vs, n, ExprLevels(vs, n))
<1> DEFINE f == ExprLevels(vs, n)
<1>1. ExprsIs(vs, n, f)
  BY ExprLevelsExist DEF ExprLevels
<1> HIDE DEF f
<1>2. ASSUME NEW d \in 0 .. n
      PROVE  f[d] = VarExprs(vs) \union LitExprs \union IF d = 0 THEN {} ELSE OpExprs(f[d - 1])
  BY <1>1 DEF ExprsIs, VarExprs, LitExprs, OpExprs, BinOps
<1>3. f[0] = VarExprs(vs) \union LitExprs
  BY <1>2
<1>4. ASSUME NEW k \in 0 .. n - 1
      PROVE  f[k + 1] = VarExprs(vs) \union LitExprs \union OpExprs(f[k])
  <2>1. k + 1 \in 0 .. n /\ k + 1 # 0 /\ k + 1 - 1 = k
    OBVIOUS
  <2> QED
    BY <1>2, <2>1
<1>5. ExprLevelsAre(vs, n, f)
  BY <1>3, <1>4 DEF ExprLevelsAre
<1> QED
  BY <1>5 DEF f

(* The expressions of a depth are the variables, the literals, and the     *)
(* operations on the expressions that are less deep.                       *)
LEMMA ExprsUnfold ==
  ASSUME NEW vs
  PROVE  /\ Exprs(vs, 0) = VarExprs(vs) \union LitExprs
         /\ \A n \in Nat : Exprs(vs, n + 1) =
               VarExprs(vs) \union LitExprs \union OpExprs(Exprs(vs, n))
<1>1. Exprs(vs, 0) = VarExprs(vs) \union LitExprs
  BY ExprsAreLevels, ExprLevelsUnfold DEF ExprLevelsAre
<1>2. ASSUME NEW n \in Nat
      PROVE  Exprs(vs, n + 1) = VarExprs(vs) \union LitExprs \union OpExprs(Exprs(vs, n))
  <2> DEFINE f == ExprLevels(vs, n)
             g == ExprLevels(vs, n + 1)
             T == {k \in Nat : k <= n => f[k] = g[k]}
  <2>1. ExprLevelsAre(vs, n, f) /\ ExprLevelsAre(vs, n + 1, g)
    BY ExprLevelsUnfold
  <2> HIDE DEF f, g
  <2>2. 0 \in T
    BY <2>1 DEF ExprLevelsAre
  <2>3. ASSUME NEW k \in Nat, k \in T PROVE k + 1 \in T
    <3> SUFFICES ASSUME k + 1 <= n PROVE f[k + 1] = g[k + 1]
      OBVIOUS
    <3>1. k \in 0 .. n - 1 /\ k \in 0 .. n + 1 - 1 /\ f[k] = g[k]
      BY <2>3
    <3>2. f[k + 1] = VarExprs(vs) \union LitExprs \union OpExprs(f[k])
      BY <2>1, <3>1 DEF ExprLevelsAre
    <3>3. g[k + 1] = VarExprs(vs) \union LitExprs \union OpExprs(g[k])
      BY <2>1, <3>1 DEF ExprLevelsAre
    <3> QED
      BY <3>1, <3>2, <3>3
  <2>4. f[n] = g[n]
    <3> HIDE DEF T
    <3>1. Nat \subseteq T
      BY <2>2, <2>3, SetInduction
    <3> QED
      BY <3>1 DEF T
  <2>5. n \in 0 .. n + 1 - 1
    OBVIOUS
  <2>6. g[n + 1] = VarExprs(vs) \union LitExprs \union OpExprs(g[n])
    BY <2>1, <2>5 DEF ExprLevelsAre
  <2> QED
    BY <2>4, <2>6, ExprsAreLevels DEF f, g
<1> QED
  BY <1>1, <1>2

(* An expression of depth n is a variable, a literal, or an operation on   *)
(* expressions of depth n - 1.                                             *)
VarShape(vs, e) == e.form = "var" /\ e.var \in vs /\ e = Var(e.var)
LitShape(e) == e.form = "lit" /\ e.sort \in {"Int", "Bool", "Other"} /\ e = Lit(e.sort)
OpShape(operands, e) ==
    /\ e.form = "op" /\ e.op \in BinOps /\ e = Op(e.op, e.left, e.right)
    /\ e.left \in operands /\ e.right \in operands
ExprShape(vs, n, e) ==
    VarShape(vs, e) \/ LitShape(e) \/ (n > 0 /\ OpShape(Exprs(vs, n - 1), e))

LEMMA ExprCases ==
  ASSUME NEW vs, NEW n \in Nat, NEW e \in Exprs(vs, n)
  PROVE  ExprShape(vs, n, e)
<1>1. ASSUME e \in VarExprs(vs) PROVE VarShape(vs, e)
  BY <1>1 DEF VarExprs, VarShape, Var
<1>2. ASSUME e \in LitExprs PROVE LitShape(e)
  BY <1>2 DEF LitExprs, LitShape, Lit
<1>3. ASSUME NEW operands, e \in OpExprs(operands) PROVE OpShape(operands, e)
  BY <1>3 DEF OpExprs, OpShape, Op
<1>4. CASE n = 0
  BY <1>1, <1>2, <1>4, ExprsUnfold DEF ExprShape
<1>5. CASE n > 0
  <2>1. n - 1 \in Nat /\ (n - 1) + 1 = n
    BY <1>5
  <2>2. Exprs(vs, n) = VarExprs(vs) \union LitExprs \union OpExprs(Exprs(vs, n - 1))
    BY <2>1, ExprsUnfold
  <2> QED
    BY <1>1, <1>2, <1>3, <1>5, <2>2 DEF ExprShape
<1> QED
  BY <1>4, <1>5

LEMMA ExprMembers ==
  ASSUME NEW vs, NEW n \in Nat
  PROVE  /\ \A v \in vs : Var(v) \in Exprs(vs, n)
         /\ \A s \in {"Int", "Bool", "Other"} : Lit(s) \in Exprs(vs, n)
         /\ \A o \in BinOps, l \in Exprs(vs, n), r \in Exprs(vs, n) :
               Op(o, l, r) \in Exprs(vs, n + 1)
<1>1. VarExprs(vs) \union LitExprs \subseteq Exprs(vs, n)
  <2>1. CASE n = 0
    BY <2>1, ExprsUnfold
  <2>2. CASE n > 0
    <3>1. n - 1 \in Nat /\ (n - 1) + 1 = n
      BY <2>2
    <3>2. Exprs(vs, n) = VarExprs(vs) \union LitExprs \union OpExprs(Exprs(vs, n - 1))
      BY <3>1, ExprsUnfold
    <3> QED
      BY <3>2
  <2> QED
    BY <2>1, <2>2
<1>2. \A v \in vs : Var(v) \in VarExprs(vs)
  BY DEF Var, VarExprs
<1>3. \A s \in {"Int", "Bool", "Other"} : Lit(s) \in LitExprs
  BY DEF Lit, LitExprs
<1>4. ASSUME NEW o \in BinOps, NEW l \in Exprs(vs, n), NEW r \in Exprs(vs, n)
      PROVE  Op(o, l, r) \in Exprs(vs, n + 1)
  <2>1. Op(o, l, r) \in OpExprs(Exprs(vs, n))
    BY DEF Op, OpExprs
  <2> QED
    BY <2>1, ExprsUnfold
<1> QED
  BY <1>1, <1>2, <1>3, <1>4

(* More variables and more depth are more expressions.                     *)
LEMMA ExprsGrow ==
  ASSUME NEW vs, NEW ws, vs \subseteq ws, NEW m \in Nat
  PROVE  \A n \in Nat : n <= m => Exprs(vs, n) \subseteq Exprs(ws, m)
<1> DEFINE T == {n \in Nat : \A k \in Nat : n <= k => Exprs(vs, n) \subseteq Exprs(ws, k)}
<1>1. 0 \in T
  <2> SUFFICES ASSUME NEW k \in Nat, NEW e \in Exprs(vs, 0)
               PROVE  e \in Exprs(ws, k)
    OBVIOUS
  <2>1. VarShape(vs, e) \/ LitShape(e)
    BY ExprCases DEF ExprShape
  <2> QED
    BY <2>1, ExprMembers DEF VarShape, LitShape
<1>2. ASSUME NEW n \in Nat, n \in T
      PROVE  n + 1 \in T
  <2> SUFFICES ASSUME NEW k \in Nat, n + 1 <= k, NEW e \in Exprs(vs, n + 1)
               PROVE  e \in Exprs(ws, k)
    OBVIOUS
  <2>1. k - 1 \in Nat /\ n <= k - 1 /\ (k - 1) + 1 = k /\ (n + 1) - 1 = n /\ n + 1 \in Nat
    OBVIOUS
  <2>2. VarShape(vs, e) \/ LitShape(e) \/ OpShape(Exprs(vs, n), e)
    BY <2>1, ExprCases DEF ExprShape
  <2>3. CASE VarShape(vs, e) \/ LitShape(e)
    BY <2>3, ExprMembers DEF VarShape, LitShape
  <2>4. CASE OpShape(Exprs(vs, n), e)
    <3>1. Exprs(vs, n) \subseteq Exprs(ws, k - 1)
      BY <1>2, <2>1
    <3>2. Op(e.op, e.left, e.right) \in Exprs(ws, (k - 1) + 1)
      BY <2>1, <2>4, <3>1, ExprMembers DEF OpShape
    <3> QED
      BY <2>1, <2>4, <3>2 DEF OpShape
  <2> QED
    BY <2>2, <2>3, <2>4
<1> HIDE DEF T
<1>3. Nat \subseteq T
  BY <1>1, <1>2, SetInduction
<1> QED
  BY <1>3 DEF T

-----------------------------------------------------------------------------
(* The resolver on expressions                                             *)

ResolveExprStep(scope, f, x) ==
    CASE x.form = "var" -> IF x.var \in DOMAIN scope THEN Var(scope[x.var]) ELSE Err
      [] x.form = "lit" -> IF x.sort = "Other" THEN Err ELSE x
      [] OTHER -> IF Err \in {f[x.left], f[x.right]} THEN Err
                  ELSE Op(x.op, f[x.left], f[x.right])
ResolveExprIs(scope, n, f) == f = [x \in Exprs(STRING, n) |-> ResolveExprStep(scope, f, x)]
ResolveExprFcn(scope) == CHOOSE f : ResolveExprIs(scope, MaxDepth, f)

LEMMA ResolveExprStepFromOperands ==
  ASSUME NEW scope, NEW f, NEW g, NEW n, NEW x, ExprShape(STRING, n, x),
         n > 0 /\ OpShape(Exprs(STRING, n - 1), x) => f[x.left] = g[x.left] /\ f[x.right] = g[x.right]
  PROVE  ResolveExprStep(scope, f, x) = ResolveExprStep(scope, g, x)
<1>1. CASE VarShape(STRING, x)
  BY <1>1 DEF ResolveExprStep, VarShape
<1>2. CASE LitShape(x)
  BY <1>2 DEF ResolveExprStep, LitShape
<1>3. CASE n > 0 /\ OpShape(Exprs(STRING, n - 1), x)
  BY <1>3 DEF ResolveExprStep, OpShape, BinOps
<1> QED
  BY <1>1, <1>2, <1>3 DEF ExprShape

LEMMA ResolveExprExists ==
  ASSUME NEW scope
  PROVE  ResolveExprIs(scope, MaxDepth, ResolveExprFcn(scope))
<1> DEFINE T == {n \in Nat : \E f : ResolveExprIs(scope, n, f)}
           Next_(n, g) == [x \in Exprs(STRING, n) |-> ResolveExprStep(scope, g, x)]
<1>1. 0 \in T
  <2> DEFINE h == Next_(0, <<>>)
  <2>1. ASSUME NEW x \in Exprs(STRING, 0)
        PROVE  ResolveExprStep(scope, <<>>, x) = ResolveExprStep(scope, h, x)
    <3>1. ExprShape(STRING, 0, x)
      BY ExprCases
    <3> HIDE DEF h
    <3> QED
      BY <3>1, ResolveExprStepFromOperands
  <2>2. h = [x \in Exprs(STRING, 0) |-> ResolveExprStep(scope, h, x)]
    <3>1. h = [x \in Exprs(STRING, 0) |-> h[x]] /\ \A x \in Exprs(STRING, 0) : h[x] = ResolveExprStep(scope, <<>>, x)
      OBVIOUS
    <3> HIDE DEF h
    <3> QED
      BY <2>1, <3>1
  <2> HIDE DEF h
  <2> QED
    BY <2>2 DEF ResolveExprIs
<1>2. ASSUME NEW n \in Nat, n \in T
      PROVE  n + 1 \in T
  <2>1. PICK g : ResolveExprIs(scope, n, g)
    BY <1>2
  <2> DEFINE h == Next_(n + 1, g)
  <2>2. ASSUME NEW y \in Exprs(STRING, n) PROVE h[y] = g[y]
    <3>1. y \in Exprs(STRING, n + 1)
      BY ExprsGrow
    <3> QED
      BY <2>1, <3>1 DEF ResolveExprIs
  <2>3. h = [x \in Exprs(STRING, n + 1) |-> h[x]]
        /\ \A x \in Exprs(STRING, n + 1) : h[x] = ResolveExprStep(scope, g, x)
    OBVIOUS
  <2> HIDE DEF h
  <2>4. ASSUME NEW x \in Exprs(STRING, n + 1)
        PROVE  ResolveExprStep(scope, g, x) = ResolveExprStep(scope, h, x)
    <3>1. ExprShape(STRING, n + 1, x) /\ (n + 1) - 1 = n
      BY ExprCases
    <3>2. OpShape(Exprs(STRING, n + 1 - 1), x) => g[x.left] = h[x.left] /\ g[x.right] = h[x.right]
      BY <2>2, <3>1 DEF OpShape
    <3> QED
      BY <3>1, <3>2, ResolveExprStepFromOperands
  <2>5. ResolveExprIs(scope, n + 1, h)
    BY <2>3, <2>4 DEF ResolveExprIs
  <2> QED
    BY <2>5
<1> HIDE DEF T
<1>3. Nat \subseteq T
  BY <1>1, <1>2, SetInduction
<1> QED
  BY <1>3, SignatureAssumption DEF T, ResolveExprFcn

LEMMA ResolveExprUnfold ==
  ASSUME NEW scope, NEW x \in Exprs(STRING, MaxDepth)
  PROVE
    /\ x.form = "var" => ResolveExpr(x, scope) =
            IF x.var \in DOMAIN scope THEN Var(scope[x.var]) ELSE Err
    /\ x.form = "lit" => ResolveExpr(x, scope) = IF x.sort = "Other" THEN Err ELSE x
    /\ x.form = "op" => ResolveExpr(x, scope) =
            IF Err \in {ResolveExpr(x.left, scope), ResolveExpr(x.right, scope)} THEN Err
            ELSE Op(x.op, ResolveExpr(x.left, scope), ResolveExpr(x.right, scope))
<1> DEFINE f == ResolveExprFcn(scope)
<1>1. \A e : ResolveExpr(e, scope) = f[e]
  BY DEF ResolveExpr, ResolveExprFcn, ResolveExprIs, ResolveExprStep, SurfaceExprs
<1>2. ResolveExprIs(scope, MaxDepth, f)
  BY ResolveExprExists
<1> HIDE DEF f
<1>3. f[x] = ResolveExprStep(scope, f, x)
  BY <1>2 DEF ResolveExprIs
<1>4. ExprShape(STRING, MaxDepth, x)
  BY ExprCases, SignatureAssumption
<1> QED
  BY <1>1, <1>3, <1>4 DEF ResolveExprStep, ExprShape, VarShape, LitShape, OpShape, BinOps


-----------------------------------------------------------------------------
(* The sorts of wf.rs                                                      *)

SynthStep(senv, f, x) ==
    CASE x.form = "var" -> IF x.var \in DOMAIN senv THEN senv[x.var] ELSE "panic"
      [] x.form = "lit" -> x.sort
      [] OTHER -> SynthOp(x.op, f[x.left], f[x.right])
SynthIs(senv, n, f) == f = [x \in Exprs(CoreVars, n) |-> SynthStep(senv, f, x)]
SynthFcn(senv) == CHOOSE f : SynthIs(senv, MaxDepth, f)

LEMMA SynthStepFromOperands ==
  ASSUME NEW senv, NEW f, NEW g, NEW n, NEW x, ExprShape(CoreVars, n, x),
         n > 0 /\ OpShape(Exprs(CoreVars, n - 1), x) => f[x.left] = g[x.left] /\ f[x.right] = g[x.right]
  PROVE  SynthStep(senv, f, x) = SynthStep(senv, g, x)
<1>1. CASE VarShape(CoreVars, x)
  BY <1>1 DEF SynthStep, VarShape
<1>2. CASE LitShape(x)
  BY <1>2 DEF SynthStep, LitShape
<1>3. CASE n > 0 /\ OpShape(Exprs(CoreVars, n - 1), x)
  BY <1>3 DEF SynthStep, OpShape, BinOps
<1> QED
  BY <1>1, <1>2, <1>3 DEF ExprShape

LEMMA SynthExists ==
  ASSUME NEW senv
  PROVE  SynthIs(senv, MaxDepth, SynthFcn(senv))
<1> DEFINE T == {n \in Nat : \E f : SynthIs(senv, n, f)}
           Next_(n, g) == [x \in Exprs(CoreVars, n) |-> SynthStep(senv, g, x)]
<1>1. 0 \in T
  <2> DEFINE h == Next_(0, <<>>)
  <2>1. ASSUME NEW x \in Exprs(CoreVars, 0)
        PROVE  SynthStep(senv, <<>>, x) = SynthStep(senv, h, x)
    <3>1. ExprShape(CoreVars, 0, x)
      BY ExprCases
    <3> HIDE DEF h
    <3> QED
      BY <3>1, SynthStepFromOperands
  <2>2. h = [x \in Exprs(CoreVars, 0) |-> SynthStep(senv, h, x)]
    <3>1. h = [x \in Exprs(CoreVars, 0) |-> h[x]] /\ \A x \in Exprs(CoreVars, 0) : h[x] = SynthStep(senv, <<>>, x)
      OBVIOUS
    <3> HIDE DEF h
    <3> QED
      BY <2>1, <3>1
  <2> HIDE DEF h
  <2> QED
    BY <2>2 DEF SynthIs
<1>2. ASSUME NEW n \in Nat, n \in T
      PROVE  n + 1 \in T
  <2>1. PICK g : SynthIs(senv, n, g)
    BY <1>2
  <2> DEFINE h == Next_(n + 1, g)
  <2>2. ASSUME NEW y \in Exprs(CoreVars, n) PROVE h[y] = g[y]
    <3>1. y \in Exprs(CoreVars, n + 1)
      BY ExprsGrow
    <3> QED
      BY <2>1, <3>1 DEF SynthIs
  <2>3. h = [x \in Exprs(CoreVars, n + 1) |-> h[x]]
        /\ \A x \in Exprs(CoreVars, n + 1) : h[x] = SynthStep(senv, g, x)
    OBVIOUS
  <2> HIDE DEF h
  <2>4. ASSUME NEW x \in Exprs(CoreVars, n + 1)
        PROVE  SynthStep(senv, g, x) = SynthStep(senv, h, x)
    <3>1. ExprShape(CoreVars, n + 1, x) /\ (n + 1) - 1 = n
      BY ExprCases
    <3>2. OpShape(Exprs(CoreVars, n + 1 - 1), x) => g[x.left] = h[x.left] /\ g[x.right] = h[x.right]
      BY <2>2, <3>1 DEF OpShape
    <3> QED
      BY <3>1, <3>2, SynthStepFromOperands
  <2>5. SynthIs(senv, n + 1, h)
    BY <2>3, <2>4 DEF SynthIs
  <2> QED
    BY <2>5
<1> HIDE DEF T
<1>3. Nat \subseteq T
  BY <1>1, <1>2, SetInduction
<1> QED
  BY <1>3, SignatureAssumption DEF T, SynthFcn

LEMMA SynthUnfold ==
  ASSUME NEW senv, NEW x \in Exprs(CoreVars, MaxDepth)
  PROVE
    /\ x.form = "var" => SynthExpr(x, senv) = IF x.var \in DOMAIN senv THEN senv[x.var] ELSE "panic"
    /\ x.form = "lit" => SynthExpr(x, senv) = x.sort
    /\ x.form = "op" => SynthExpr(x, senv) =
            SynthOp(x.op, SynthExpr(x.left, senv), SynthExpr(x.right, senv))
<1> DEFINE f == SynthFcn(senv)
<1>1. \A e : SynthExpr(e, senv) = f[e]
  BY DEF SynthExpr, SynthFcn, SynthIs, SynthStep, CoreExprs
<1>2. SynthIs(senv, MaxDepth, f)
  BY SynthExists
<1> HIDE DEF f
<1>3. f[x] = SynthStep(senv, f, x)
  BY <1>2 DEF SynthIs
<1>4. ExprShape(CoreVars, MaxDepth, x)
  BY ExprCases, SignatureAssumption
<1> QED
  BY <1>1, <1>3, <1>4 DEF SynthStep, ExprShape, VarShape, LitShape, OpShape, BinOps


-----------------------------------------------------------------------------
(* The sorts an expression should have                                     *)

SortOfStep(sorts, f, x) ==
    CASE x.form = "var" -> IF x.var \in DOMAIN sorts THEN sorts[x.var] ELSE "none"
      [] x.form = "lit" -> x.sort
      [] OTHER -> SortOfOp(x.op, f[x.left], f[x.right])
SortOfIs(sorts, n, f) == f = [x \in Exprs(CoreVars, n) |-> SortOfStep(sorts, f, x)]
SortOfFcn(sorts) == CHOOSE f : SortOfIs(sorts, MaxDepth, f)

LEMMA SortOfStepFromOperands ==
  ASSUME NEW sorts, NEW f, NEW g, NEW n, NEW x, ExprShape(CoreVars, n, x),
         n > 0 /\ OpShape(Exprs(CoreVars, n - 1), x) => f[x.left] = g[x.left] /\ f[x.right] = g[x.right]
  PROVE  SortOfStep(sorts, f, x) = SortOfStep(sorts, g, x)
<1>1. CASE VarShape(CoreVars, x)
  BY <1>1 DEF SortOfStep, VarShape
<1>2. CASE LitShape(x)
  BY <1>2 DEF SortOfStep, LitShape
<1>3. CASE n > 0 /\ OpShape(Exprs(CoreVars, n - 1), x)
  BY <1>3 DEF SortOfStep, OpShape, BinOps
<1> QED
  BY <1>1, <1>2, <1>3 DEF ExprShape

LEMMA SortOfExists ==
  ASSUME NEW sorts
  PROVE  SortOfIs(sorts, MaxDepth, SortOfFcn(sorts))
<1> DEFINE T == {n \in Nat : \E f : SortOfIs(sorts, n, f)}
           Next_(n, g) == [x \in Exprs(CoreVars, n) |-> SortOfStep(sorts, g, x)]
<1>1. 0 \in T
  <2> DEFINE h == Next_(0, <<>>)
  <2>1. ASSUME NEW x \in Exprs(CoreVars, 0)
        PROVE  SortOfStep(sorts, <<>>, x) = SortOfStep(sorts, h, x)
    <3>1. ExprShape(CoreVars, 0, x)
      BY ExprCases
    <3> HIDE DEF h
    <3> QED
      BY <3>1, SortOfStepFromOperands
  <2>2. h = [x \in Exprs(CoreVars, 0) |-> SortOfStep(sorts, h, x)]
    <3>1. h = [x \in Exprs(CoreVars, 0) |-> h[x]] /\ \A x \in Exprs(CoreVars, 0) : h[x] = SortOfStep(sorts, <<>>, x)
      OBVIOUS
    <3> HIDE DEF h
    <3> QED
      BY <2>1, <3>1
  <2> HIDE DEF h
  <2> QED
    BY <2>2 DEF SortOfIs
<1>2. ASSUME NEW n \in Nat, n \in T
      PROVE  n + 1 \in T
  <2>1. PICK g : SortOfIs(sorts, n, g)
    BY <1>2
  <2> DEFINE h == Next_(n + 1, g)
  <2>2. ASSUME NEW y \in Exprs(CoreVars, n) PROVE h[y] = g[y]
    <3>1. y \in Exprs(CoreVars, n + 1)
      BY ExprsGrow
    <3> QED
      BY <2>1, <3>1 DEF SortOfIs
  <2>3. h = [x \in Exprs(CoreVars, n + 1) |-> h[x]]
        /\ \A x \in Exprs(CoreVars, n + 1) : h[x] = SortOfStep(sorts, g, x)
    OBVIOUS
  <2> HIDE DEF h
  <2>4. ASSUME NEW x \in Exprs(CoreVars, n + 1)
        PROVE  SortOfStep(sorts, g, x) = SortOfStep(sorts, h, x)
    <3>1. ExprShape(CoreVars, n + 1, x) /\ (n + 1) - 1 = n
      BY ExprCases
    <3>2. OpShape(Exprs(CoreVars, n + 1 - 1), x) => g[x.left] = h[x.left] /\ g[x.right] = h[x.right]
      BY <2>2, <3>1 DEF OpShape
    <3> QED
      BY <3>1, <3>2, SortOfStepFromOperands
  <2>5. SortOfIs(sorts, n + 1, h)
    BY <2>3, <2>4 DEF SortOfIs
  <2> QED
    BY <2>5
<1> HIDE DEF T
<1>3. Nat \subseteq T
  BY <1>1, <1>2, SetInduction
<1> QED
  BY <1>3, SignatureAssumption DEF T, SortOfFcn

LEMMA SortOfUnfold ==
  ASSUME NEW sorts, NEW x \in Exprs(CoreVars, MaxDepth)
  PROVE
    /\ x.form = "var" => SortOf(x, sorts) = IF x.var \in DOMAIN sorts THEN sorts[x.var] ELSE "none"
    /\ x.form = "lit" => SortOf(x, sorts) = x.sort
    /\ x.form = "op" => SortOf(x, sorts) =
            SortOfOp(x.op, SortOf(x.left, sorts), SortOf(x.right, sorts))
<1> DEFINE f == SortOfFcn(sorts)
<1>1. \A e : SortOf(e, sorts) = f[e]
  BY DEF SortOf, SortOfFcn, SortOfIs, SortOfStep, CoreExprs
<1>2. SortOfIs(sorts, MaxDepth, f)
  BY SortOfExists
<1> HIDE DEF f
<1>3. f[x] = SortOfStep(sorts, f, x)
  BY <1>2 DEF SortOfIs
<1>4. ExprShape(CoreVars, MaxDepth, x)
  BY ExprCases, SignatureAssumption
<1> QED
  BY <1>1, <1>3, <1>4 DEF SortOfStep, ExprShape, VarShape, LitShape, OpShape, BinOps


-----------------------------------------------------------------------------
(* Lowering of expressions                                                 *)

LowerExprStep(s, f, x) ==
    CASE x.form = "var" -> IF x.var = Bound THEN x
                           ELSE IF x.var.name \in DOMAIN s.exprs THEN s.exprs[x.var.name]
                           ELSE Err
      [] x.form = "lit" -> x
      [] OTHER -> IF Err \in {f[x.left], f[x.right]} THEN Err
                  ELSE Op(x.op, f[x.left], f[x.right])
LowerExprIs(s, n, f) == f = [x \in Exprs(CoreVars, n) |-> LowerExprStep(s, f, x)]
LowerExprFcn(s) == CHOOSE f : LowerExprIs(s, MaxDepth, f)

LEMMA LowerExprStepFromOperands ==
  ASSUME NEW s, NEW f, NEW g, NEW n, NEW x, ExprShape(CoreVars, n, x),
         n > 0 /\ OpShape(Exprs(CoreVars, n - 1), x) => f[x.left] = g[x.left] /\ f[x.right] = g[x.right]
  PROVE  LowerExprStep(s, f, x) = LowerExprStep(s, g, x)
<1>1. CASE VarShape(CoreVars, x)
  BY <1>1 DEF LowerExprStep, VarShape
<1>2. CASE LitShape(x)
  BY <1>2 DEF LowerExprStep, LitShape
<1>3. CASE n > 0 /\ OpShape(Exprs(CoreVars, n - 1), x)
  BY <1>3 DEF LowerExprStep, OpShape, BinOps
<1> QED
  BY <1>1, <1>2, <1>3 DEF ExprShape

LEMMA LowerExprExists ==
  ASSUME NEW s
  PROVE  LowerExprIs(s, MaxDepth, LowerExprFcn(s))
<1> DEFINE T == {n \in Nat : \E f : LowerExprIs(s, n, f)}
           Next_(n, g) == [x \in Exprs(CoreVars, n) |-> LowerExprStep(s, g, x)]
<1>1. 0 \in T
  <2> DEFINE h == Next_(0, <<>>)
  <2>1. ASSUME NEW x \in Exprs(CoreVars, 0)
        PROVE  LowerExprStep(s, <<>>, x) = LowerExprStep(s, h, x)
    <3>1. ExprShape(CoreVars, 0, x)
      BY ExprCases
    <3> HIDE DEF h
    <3> QED
      BY <3>1, LowerExprStepFromOperands
  <2>2. h = [x \in Exprs(CoreVars, 0) |-> LowerExprStep(s, h, x)]
    <3>1. h = [x \in Exprs(CoreVars, 0) |-> h[x]] /\ \A x \in Exprs(CoreVars, 0) : h[x] = LowerExprStep(s, <<>>, x)
      OBVIOUS
    <3> HIDE DEF h
    <3> QED
      BY <2>1, <3>1
  <2> HIDE DEF h
  <2> QED
    BY <2>2 DEF LowerExprIs
<1>2. ASSUME NEW n \in Nat, n \in T
      PROVE  n + 1 \in T
  <2>1. PICK g : LowerExprIs(s, n, g)
    BY <1>2
  <2> DEFINE h == Next_(n + 1, g)
  <2>2. ASSUME NEW y \in Exprs(CoreVars, n) PROVE h[y] = g[y]
    <3>1. y \in Exprs(CoreVars, n + 1)
      BY ExprsGrow
    <3> QED
      BY <2>1, <3>1 DEF LowerExprIs
  <2>3. h = [x \in Exprs(CoreVars, n + 1) |-> h[x]]
        /\ \A x \in Exprs(CoreVars, n + 1) : h[x] = LowerExprStep(s, g, x)
    OBVIOUS
  <2> HIDE DEF h
  <2>4. ASSUME NEW x \in Exprs(CoreVars, n + 1)
        PROVE  LowerExprStep(s, g, x) = LowerExprStep(s, h, x)
    <3>1. ExprShape(CoreVars, n + 1, x) /\ (n + 1) - 1 = n
      BY ExprCases
    <3>2. OpShape(Exprs(CoreVars, n + 1 - 1), x) => g[x.left] = h[x.left] /\ g[x.right] = h[x.right]
      BY <2>2, <3>1 DEF OpShape
    <3> QED
      BY <3>1, <3>2, LowerExprStepFromOperands
  <2>5. LowerExprIs(s, n + 1, h)
    BY <2>3, <2>4 DEF LowerExprIs
  <2> QED
    BY <2>5
<1> HIDE DEF T
<1>3. Nat \subseteq T
  BY <1>1, <1>2, SetInduction
<1> QED
  BY <1>3, SignatureAssumption DEF T, LowerExprFcn

LEMMA LowerExprUnfold ==
  ASSUME NEW s, NEW x \in Exprs(CoreVars, MaxDepth)
  PROVE
    /\ x.form = "var" => LowerExpr(x, s) =
            IF x.var = Bound THEN x
            ELSE IF x.var.name \in DOMAIN s.exprs THEN s.exprs[x.var.name] ELSE Err
    /\ x.form = "lit" => LowerExpr(x, s) = x
    /\ x.form = "op" => LowerExpr(x, s) =
            IF Err \in {LowerExpr(x.left, s), LowerExpr(x.right, s)} THEN Err
            ELSE Op(x.op, LowerExpr(x.left, s), LowerExpr(x.right, s))
<1> DEFINE f == LowerExprFcn(s)
<1>1. \A e : LowerExpr(e, s) = f[e]
  BY DEF LowerExpr, LowerExprFcn, LowerExprIs, LowerExprStep, CoreExprs
<1>2. LowerExprIs(s, MaxDepth, f)
  BY LowerExprExists
<1> HIDE DEF f
<1>3. f[x] = LowerExprStep(s, f, x)
  BY <1>2 DEF LowerExprIs
<1>4. ExprShape(CoreVars, MaxDepth, x)
  BY ExprCases, SignatureAssumption
<1> QED
  BY <1>1, <1>3, <1>4 DEF LowerExprStep, ExprShape, VarShape, LitShape, OpShape, BinOps


-----------------------------------------------------------------------------
(* Types by depth: of leaves, and of paths whose arguments are types that  *)
(* are less deep, alone in the forms of plain, or with an expression of ex *)
(* or, under a binder, of un.                                              *)

Paths(args) == [ident : STRING, args : args]
TypeLevel(leaves, plain, binds, ex, un, args) ==
    leaves \union [form : plain, path : Paths(args)]
    \union [form : {"refine"}, path : Paths(args), expr : ex]
    \union [form : {"exists"}, path : Paths(args), bind : binds, expr : un]

(* The function that Types takes a value of.                               *)
TypesIs(leaves, plain, binds, ex, un, depth, upTo) ==
    upTo = [d \in 0..depth |->
              TypeLevel(leaves, plain, binds, ex, un, IF d = 0 THEN {<<>>} ELSE Seq(upTo[d - 1]))]
TypeLevels(leaves, plain, binds, ex, un, depth) ==
    CHOOSE upTo : TypesIs(leaves, plain, binds, ex, un, depth, upTo)

(* The types of depth n.                                                   *)
TypesTo(leaves, plain, binds, ex, un, n) == TypeLevels(leaves, plain, binds, ex, un, n)[n]
ArgsTo(leaves, plain, binds, ex, un, n) ==
    IF n = 0 THEN {<<>>} ELSE Seq(TypesTo(leaves, plain, binds, ex, un, n - 1))

LEMMA TypesAreLevels ==
  ASSUME NEW leaves, NEW plain, NEW binds, NEW vs, NEW depth
  PROVE  Types(leaves, plain, binds, vs, depth) =
            TypesTo(leaves, plain, binds, Exprs(vs, depth), Exprs(vs \union binds, depth), depth)
BY DEF Types, TypesTo, TypeLevels, TypesIs, TypeLevel, Paths

TypeLevelsAre(leaves, plain, binds, ex, un, depth, f) ==
    /\ f[0] = TypeLevel(leaves, plain, binds, ex, un, {<<>>})
    /\ \A k \in 0 .. depth - 1 : f[k + 1] = TypeLevel(leaves, plain, binds, ex, un, Seq(f[k]))

LEMMA TypeLevelsExist ==
  ASSUME NEW leaves, NEW plain, NEW binds, NEW ex, NEW un
  PROVE  \A n \in Nat : \E f : TypesIs(leaves, plain, binds, ex, un, n, f)
<1> DEFINE T == {n \in Nat : \E f : TypesIs(leaves, plain, binds, ex, un, n, f)}
           Level(args) == TypeLevel(leaves, plain, binds, ex, un, args)
<1> HIDE DEF Level
<1>0. \A n, f : TypesIs(leaves, plain, binds, ex, un, n, f) <=>
                  f = [d \in 0..n |-> Level(IF d = 0 THEN {<<>>} ELSE Seq(f[d - 1]))]
  BY DEF TypesIs, Level
<1>1. 0 \in T
  <2> DEFINE f == [d \in 0..0 |-> Level({<<>>})]
  <2>1. f = [d \in 0..0 |-> Level(IF d = 0 THEN {<<>>} ELSE Seq(f[d - 1]))]
    OBVIOUS
  <2> HIDE DEF f
  <2> QED
    BY <1>0, <2>1
<1>2. ASSUME NEW n \in Nat, n \in T
      PROVE  n + 1 \in T
  <2>1. PICK f : f = [d \in 0..n |-> Level(IF d = 0 THEN {<<>>} ELSE Seq(f[d - 1]))]
    BY <1>0, <1>2
  <2> DEFINE h == [d \in 0 .. n + 1 |-> Level(IF d = 0 THEN {<<>>} ELSE Seq(f[d - 1]))]
  <2>2. ASSUME NEW d \in 0 .. n + 1, d # 0
        PROVE  f[d - 1] = h[d - 1]
    <3>1. d - 1 \in 0 .. n /\ d - 1 \in 0 .. n + 1
      BY <2>2
    <3>2. f[d - 1] = Level(IF d - 1 = 0 THEN {<<>>} ELSE Seq(f[d - 1 - 1]))
      BY <2>1, <3>1
    <3> QED
      BY <3>1, <3>2
  <2>3. h = [d \in 0 .. n + 1 |-> Level(IF d = 0 THEN {<<>>} ELSE Seq(h[d - 1]))]
    <3>1. h = [d \in 0 .. n + 1 |-> h[d]]
      OBVIOUS
    <3>2. \A d \in 0 .. n + 1 : h[d] = Level(IF d = 0 THEN {<<>>} ELSE Seq(f[d - 1]))
      OBVIOUS
    <3> HIDE DEF h
    <3>3. \A d \in 0 .. n + 1 : h[d] = Level(IF d = 0 THEN {<<>>} ELSE Seq(h[d - 1]))
      BY <2>2, <3>2
    <3> QED
      BY <3>1, <3>3
  <2> HIDE DEF h, T
  <2>4. TypesIs(leaves, plain, binds, ex, un, n + 1, h)
    BY <1>0, <2>3
  <2> QED
    BY <2>4 DEF T
<1> HIDE DEF T
<1>3. Nat \subseteq T
  BY <1>1, <1>2, SetInduction
<1> QED
  BY <1>3 DEF T

LEMMA TypeLevelsUnfold ==
  ASSUME NEW leaves, NEW plain, NEW binds, NEW ex, NEW un, NEW n \in Nat
  PROVE  TypeLevelsAre(leaves, plain, binds, ex, un, n, TypeLevels(leaves, plain, binds, ex, un, n))
<1> DEFINE f == TypeLevels(leaves, plain, binds, ex, un, n)
           Level(args) == TypeLevel(leaves, plain, binds, ex, un, args)
<1>1. TypesIs(leaves, plain, binds, ex, un, n, f)
  BY TypeLevelsExist DEF TypeLevels
<1> HIDE DEF f, Level
<1>2. ASSUME NEW d \in 0 .. n
      PROVE  f[d] = Level(IF d = 0 THEN {<<>>} ELSE Seq(f[d - 1]))
  BY <1>1 DEF TypesIs, Level
<1>3. f[0] = Level({<<>>})
  BY <1>2
<1>4. ASSUME NEW k \in 0 .. n - 1
      PROVE  f[k + 1] = Level(Seq(f[k]))
  <2>1. k + 1 \in 0 .. n /\ k + 1 # 0 /\ k + 1 - 1 = k
    OBVIOUS
  <2> QED
    BY <1>2, <2>1
<1>5. TypeLevelsAre(leaves, plain, binds, ex, un, n, f)
  BY <1>3, <1>4 DEF TypeLevelsAre, Level
<1> QED
  BY <1>5 DEF f

LEMMA TypesUnfold ==
  ASSUME NEW leaves, NEW plain, NEW binds, NEW ex, NEW un, NEW n \in Nat
  PROVE  TypesTo(leaves, plain, binds, ex, un, n) =
            TypeLevel(leaves, plain, binds, ex, un, ArgsTo(leaves, plain, binds, ex, un, n))
<1> DEFINE Level(args) == TypeLevel(leaves, plain, binds, ex, un, args)
           Fn(m) == TypeLevels(leaves, plain, binds, ex, un, m)
<1>1. \A m \in Nat : Fn(m)[0] = Level({<<>>})
                     /\ \A k \in 0 .. m - 1 : Fn(m)[k + 1] = Level(Seq(Fn(m)[k]))
  BY TypeLevelsUnfold DEF TypeLevelsAre
<1>2. \A m : TypesTo(leaves, plain, binds, ex, un, m) = Fn(m)[m]
  BY DEF TypesTo
<1> HIDE DEF Level, Fn
<1>3. CASE n = 0
  BY <1>1, <1>2, <1>3 DEF ArgsTo, Level
<1>4. CASE n > 0
  <2> DEFINE T == {k \in Nat : k <= n - 1 => Fn(n - 1)[k] = Fn(n)[k]}
  <2>0. n - 1 \in Nat
    BY <1>4
  <2>1. 0 \in T
    BY <1>1, <2>0
  <2>2. ASSUME NEW k \in Nat, k \in T PROVE k + 1 \in T
    <3> SUFFICES ASSUME k + 1 <= n - 1 PROVE Fn(n - 1)[k + 1] = Fn(n)[k + 1]
      OBVIOUS
    <3>1. k \in 0 .. n - 1 /\ k \in 0 .. (n - 1) - 1 /\ Fn(n - 1)[k] = Fn(n)[k]
      BY <2>2
    <3>2. Fn(n - 1)[k + 1] = Level(Seq(Fn(n - 1)[k]))
      BY <1>1, <2>0, <3>1
    <3>3. Fn(n)[k + 1] = Level(Seq(Fn(n)[k]))
      BY <1>1, <3>1
    <3> QED
      BY <3>1, <3>2, <3>3
  <2>3. Fn(n - 1)[n - 1] = Fn(n)[n - 1]
    <3> HIDE DEF T
    <3>1. Nat \subseteq T
      BY <2>1, <2>2, SetInduction
    <3> QED
      BY <2>0, <3>1 DEF T
  <2>4. Fn(n)[(n - 1) + 1] = Level(Seq(Fn(n)[n - 1]))
    <3>1. n - 1 \in 0 .. n - 1
      BY <2>0
    <3> QED
      BY <1>1, <3>1
  <2>5. (n - 1) + 1 = n /\ n # 0
    BY <1>4
  <2>6. Fn(n)[n] = Level(Seq(Fn(n - 1)[n - 1]))
    BY <2>3, <2>4, <2>5
  <2> QED
    BY <1>2, <2>5, <2>6 DEF ArgsTo, Level
<1> QED
  BY <1>3, <1>4

(* A type of depth n is a leaf, or has a path with arguments of depth      *)
(* n - 1.                                                                  *)
PathShape(args, p) == p.ident \in STRING /\ p.args \in args /\ p = Path(p.ident, p.args)
PlainShape(plain, args, t) ==
    t.form \in plain /\ PathShape(args, t.path) /\ t = [form |-> t.form, path |-> t.path]
RefineShape(ex, args, t) ==
    /\ t.form = "refine" /\ PathShape(args, t.path) /\ t.expr \in ex
    /\ t = Refine(t.path, t.expr)
ExistsShape(binds, un, args, t) ==
    /\ t.form = "exists" /\ PathShape(args, t.path) /\ t.bind \in binds /\ t.expr \in un
    /\ t = Exists(t.path, t.bind, t.expr)
TypeShape(leaves, plain, binds, ex, un, args, t) ==
    t \in leaves \/ PlainShape(plain, args, t) \/ RefineShape(ex, args, t)
    \/ ExistsShape(binds, un, args, t)

LEMMA TypeCases ==
  ASSUME NEW leaves, NEW plain, NEW binds, NEW ex, NEW un, NEW n \in Nat, NEW t
  PROVE  t \in TypesTo(leaves, plain, binds, ex, un, n) <=>
         TypeShape(leaves, plain, binds, ex, un, ArgsTo(leaves, plain, binds, ex, un, n), t)
<1> DEFINE args == ArgsTo(leaves, plain, binds, ex, un, n)
<1> HIDE DEF args
<1>1. \A p : p \in Paths(args) <=> PathShape(args, p)
  BY DEF Paths, PathShape, Path
<1>2. t \in [form : plain, path : Paths(args)] <=> PlainShape(plain, args, t)
  BY <1>1 DEF PlainShape
<1>3. t \in [form : {"refine"}, path : Paths(args), expr : ex] <=> RefineShape(ex, args, t)
  BY <1>1 DEF RefineShape, Refine
<1>4. t \in [form : {"exists"}, path : Paths(args), bind : binds, expr : un]
         <=> ExistsShape(binds, un, args, t)
  BY <1>1 DEF ExistsShape, Exists
<1>5. TypesTo(leaves, plain, binds, ex, un, n) = TypeLevel(leaves, plain, binds, ex, un, args)
  BY TypesUnfold DEF args
<1>6. t \in TypeLevel(leaves, plain, binds, ex, un, args)
         <=> TypeShape(leaves, plain, binds, ex, un, args, t)
  BY <1>2, <1>3, <1>4 DEF TypeLevel, TypeShape
<1> QED
  BY <1>5, <1>6 DEF args

(* More leaves, more expressions and more depth are more types.            *)
LEMMA TypesGrow ==
  ASSUME NEW leaves, NEW leaves2, leaves \subseteq leaves2, NEW plain, NEW binds,
         NEW ex, NEW ex2, ex \subseteq ex2, NEW un, NEW un2, un \subseteq un2, NEW m \in Nat
  PROVE  \A n \in Nat : n <= m =>
            TypesTo(leaves, plain, binds, ex, un, n) \subseteq
            TypesTo(leaves2, plain, binds, ex2, un2, m)
<1> DEFINE To(n) == TypesTo(leaves, plain, binds, ex, un, n)
           To2(n) == TypesTo(leaves2, plain, binds, ex2, un2, n)
           ArgsOf(n) == ArgsTo(leaves, plain, binds, ex, un, n)
           ArgsOf2(n) == ArgsTo(leaves2, plain, binds, ex2, un2, n)
           T == {n \in Nat : \A k \in Nat : n <= k => To(n) \subseteq To2(k)}
<1>1. \A n \in Nat : \A t : t \in To(n) <=> TypeShape(leaves, plain, binds, ex, un, ArgsOf(n), t)
  BY TypeCases
<1>2. \A n \in Nat : \A t : t \in To2(n) <=> TypeShape(leaves2, plain, binds, ex2, un2, ArgsOf2(n), t)
  BY TypeCases
<1>3. \A n \in Nat : /\ ArgsOf(n) = IF n = 0 THEN {<<>>} ELSE Seq(To(n - 1))
                     /\ ArgsOf2(n) = IF n = 0 THEN {<<>>} ELSE Seq(To2(n - 1))
  BY DEF ArgsTo
<1> HIDE DEF To, To2, ArgsOf, ArgsOf2
<1>4. ASSUME NEW n \in Nat, NEW k \in Nat, ArgsOf(n) \subseteq ArgsOf2(k)
      PROVE  To(n) \subseteq To2(k)
  <2> SUFFICES ASSUME NEW t, TypeShape(leaves, plain, binds, ex, un, ArgsOf(n), t)
               PROVE  TypeShape(leaves2, plain, binds, ex2, un2, ArgsOf2(k), t)
    BY <1>1, <1>2
  <2>1. \A p : PathShape(ArgsOf(n), p) => PathShape(ArgsOf2(k), p)
    BY <1>4 DEF PathShape
  <2> QED
    BY <2>1 DEF TypeShape, PlainShape, RefineShape, ExistsShape
<1>5. 0 \in T
  <2> SUFFICES ASSUME NEW k \in Nat PROVE ArgsOf(0) \subseteq ArgsOf2(k)
    BY <1>4
  <2>1. ArgsOf(0) = {<<>>}
    BY <1>3
  <2>2. CASE k = 0
    BY <1>3, <2>2
  <2>3. CASE k # 0
    <3>1. ArgsOf2(k) = Seq(To2(k - 1))
      BY <1>3, <2>3
    <3>2. <<>> \in Seq(To2(k - 1))
      OBVIOUS
    <3> QED
      BY <2>1, <3>1, <3>2
  <2> QED
    BY <2>2, <2>3
<1>6. ASSUME NEW n \in Nat, n \in T
      PROVE  n + 1 \in T
  <2> SUFFICES ASSUME NEW k \in Nat, n + 1 <= k PROVE ArgsOf(n + 1) \subseteq ArgsOf2(k)
    BY <1>4
  <2>1. k - 1 \in Nat /\ n <= k - 1 /\ (n + 1) - 1 = n /\ n + 1 # 0 /\ k # 0 /\ n + 1 \in Nat
    OBVIOUS
  <2>2. To(n) \subseteq To2(k - 1)
    BY <1>6, <2>1
  <2>3. Seq(To(n)) \subseteq Seq(To2(k - 1))
    BY <2>2
  <2> QED
    BY <1>3, <2>1, <2>3
<1> HIDE DEF T
<1>7. Nat \subseteq T
  BY <1>5, <1>6, SetInduction
<1> QED
  BY <1>7 DEF T, To, To2

(* The arguments of the path of a type are less deep.                      *)
LEMMA ArgsAreLessDeep ==
  ASSUME NEW leaves, NEW plain, NEW binds, NEW ex, NEW un, NEW n \in Nat,
         NEW t \in TypesTo(leaves, plain, binds, ex, un, n), t \notin leaves
  PROVE  /\ t.path.args \in Seq(TypesTo(leaves, plain, binds, ex, un, n))
         /\ \A k \in DOMAIN t.path.args :
               n > 0 /\ t.path.args[k] \in TypesTo(leaves, plain, binds, ex, un, n - 1)
<1> DEFINE args == ArgsTo(leaves, plain, binds, ex, un, n)
           to   == TypesTo(leaves, plain, binds, ex, un, n)
           less == TypesTo(leaves, plain, binds, ex, un, n - 1)
<1>1. PathShape(args, t.path)
  BY TypeCases DEF TypeShape, PlainShape, RefineShape, ExistsShape
<1>2. args = IF n = 0 THEN {<<>>} ELSE Seq(less)
  BY DEF ArgsTo
<1>3. n > 0 => less \subseteq to
  BY TypesGrow
<1> HIDE DEF args, to, less
<1>4. t.path.args \in IF n = 0 THEN {<<>>} ELSE Seq(less)
  BY <1>1, <1>2 DEF PathShape
<1>5. CASE n = 0
  <2>1. t.path.args = <<>>
    BY <1>4, <1>5
  <2>2. <<>> \in Seq(to) /\ DOMAIN <<>> = {}
    OBVIOUS
  <2> QED
    BY <2>1, <2>2 DEF to
<1>6. CASE n # 0
  <2>1. t.path.args \in Seq(less) /\ less \subseteq to /\ n > 0
    BY <1>3, <1>4, <1>6
  <2> QED
    BY <2>1 DEF to, less
<1> QED
  BY <1>5, <1>6

-----------------------------------------------------------------------------
(* The resolver on types                                                   *)

ResolveTyStep(scope, locs, f, t) ==
    IF t.form = "ref" THEN IF t.loc \in DOMAIN locs THEN MutRef(locs[t.loc]) ELSE Err
    ELSE LET bty == ResolvePath(t.path.ident, [k \in DOMAIN t.path.args |-> f[t.path.args[k]]])
             e == IF t.form = "base" THEN TrueExpr
                  ELSE ResolveExpr(t.expr,
                          IF t.form = "exists" THEN Layer(scope, t.bind) ELSE scope)
         IN  IF bty = Err THEN Err
             ELSE IF Res[t.path.ident] = "Param"
             THEN IF t.form = "base" THEN bty ELSE Err
             ELSE IF e = Err THEN Err
             ELSE IF t.form = "refine" THEN Refine(bty, e) ELSE Exists(bty, Bound, e)
ResolveTyIs(scope, locs, D, f) == f = [t \in D |-> ResolveTyStep(scope, locs, f, t)]
ResolveTyFcn(scope, locs, D) == CHOOSE f : ResolveTyIs(scope, locs, D, f)

LEMMA ResolveTyStepFromArgs ==
  ASSUME NEW scope, NEW locs, NEW f, NEW g, NEW t,
         t.form = "ref" \/ \A k \in DOMAIN t.path.args : f[t.path.args[k]] = g[t.path.args[k]]
  PROVE  ResolveTyStep(scope, locs, f, t) = ResolveTyStep(scope, locs, g, t)
<1>1. CASE t.form = "ref"
  BY <1>1 DEF ResolveTyStep
<1>2. CASE \A k \in DOMAIN t.path.args : f[t.path.args[k]] = g[t.path.args[k]]
  <2>1. [k \in DOMAIN t.path.args |-> f[t.path.args[k]]] = [k \in DOMAIN t.path.args |-> g[t.path.args[k]]]
        /\ {f[t.path.args[k]] : k \in DOMAIN t.path.args} = {g[t.path.args[k]] : k \in DOMAIN t.path.args}
    BY <1>2
  <2> QED
    BY <2>1 DEF ResolveTyStep
<1> QED
  BY <1>1, <1>2

LEMMA ResolveTyExists ==
  ASSUME NEW scope, NEW locs, NEW leaves, NEW plain, NEW binds, NEW ex, NEW un,
         \A t \in leaves : t.form = "ref"
  PROVE  \A n \in Nat : ResolveTyIs(scope, locs, TypesTo(leaves, plain, binds, ex, un, n), ResolveTyFcn(scope, locs, TypesTo(leaves, plain, binds, ex, un, n)))
<1> DEFINE To(n) == TypesTo(leaves, plain, binds, ex, un, n)
           T == {n \in Nat : \E f : ResolveTyIs(scope, locs, To(n), f)}
           Next_(n, g) == [t \in To(n) |-> ResolveTyStep(scope, locs, g, t)]
<1>1. ASSUME NEW n \in Nat, NEW t \in To(n), NEW f, NEW g,
             n > 0 => \A y \in To(n - 1) : f[y] = g[y]
      PROVE  ResolveTyStep(scope, locs, f, t) = ResolveTyStep(scope, locs, g, t)
  <2>1. CASE t \in leaves
    BY <2>1, ResolveTyStepFromArgs
  <2>2. CASE t \notin leaves
    <3>1. \A k \in DOMAIN t.path.args : n > 0 /\ t.path.args[k] \in To(n - 1)
      BY <2>2, ArgsAreLessDeep
    <3>2. \A k \in DOMAIN t.path.args : f[t.path.args[k]] = g[t.path.args[k]]
      BY <1>1, <3>1
    <3> QED
      BY <3>2, ResolveTyStepFromArgs
  <2> QED
    BY <2>1, <2>2
<1>2. \A n \in Nat : To(n) \subseteq To(n + 1)
  BY TypesGrow
<1> HIDE DEF To
<1>3. 0 \in T
  <2> DEFINE h == Next_(0, <<>>)
  <2>1. h = [t \in To(0) |-> h[t]] /\ \A t \in To(0) : h[t] = ResolveTyStep(scope, locs, <<>>, t)
    OBVIOUS
  <2> HIDE DEF h
  <2>2. ASSUME NEW t \in To(0) PROVE ResolveTyStep(scope, locs, <<>>, t) = ResolveTyStep(scope, locs, h, t)
    <3>1. 0 \in Nat /\ ~ (0 > 0)
      OBVIOUS
    <3> QED
      BY <1>1, <3>1
  <2>3. ResolveTyIs(scope, locs, To(0), h)
    BY <2>1, <2>2 DEF ResolveTyIs
  <2> QED
    BY <2>3
<1>4. ASSUME NEW n \in Nat, n \in T
      PROVE  n + 1 \in T
  <2>1. PICK g : ResolveTyIs(scope, locs, To(n), g)
    BY <1>4
  <2> DEFINE h == Next_(n + 1, g)
  <2>2. \A y \in To(n) : h[y] = g[y]
    BY <1>2, <2>1 DEF ResolveTyIs
  <2>3. h = [t \in To(n + 1) |-> h[t]] /\ \A t \in To(n + 1) : h[t] = ResolveTyStep(scope, locs, g, t)
    OBVIOUS
  <2> HIDE DEF h
  <2>4. n + 1 \in Nat /\ (n + 1) - 1 = n
    OBVIOUS
  <2>5. \A t \in To(n + 1) : ResolveTyStep(scope, locs, g, t) = ResolveTyStep(scope, locs, h, t)
    BY <1>1, <2>2, <2>4
  <2>6. ResolveTyIs(scope, locs, To(n + 1), h)
    BY <2>3, <2>5 DEF ResolveTyIs
  <2> QED
    BY <2>6
<1> HIDE DEF T
<1>5. Nat \subseteq T
  BY <1>3, <1>4, SetInduction
<1> QED
  BY <1>5 DEF T, To, ResolveTyFcn

SurfaceRefs == [form : {"ref"}, loc : STRING]
SurfaceTo(n) ==
    TypesTo(SurfaceRefs, {"base"}, STRING, Exprs(STRING, MaxDepth), Exprs(STRING, MaxDepth), n)

LEMMA SurfaceTypesTo == SurfaceTypes = SurfaceTo(MaxDepth)
<1>1. STRING \union STRING = STRING
  OBVIOUS
<1> QED
  BY <1>1, TypesAreLevels DEF SurfaceTypes, SurfaceTo, SurfaceRefs

LEMMA ResolveTyUnfold ==
  ASSUME NEW scope, NEW locs, NEW x \in SurfaceTypes
  PROVE
    /\ x.form = "ref" => ResolveTy(x, scope, locs) =
            IF x.loc \in DOMAIN locs THEN MutRef(locs[x.loc]) ELSE Err
    /\ x.form # "ref" => \E bty, e :
          /\ bty = ResolvePath(x.path.ident,
                      [k \in DOMAIN x.path.args |-> ResolveTy(x.path.args[k], scope, locs)])
          /\ e = IF x.form = "base" THEN TrueExpr
                 ELSE ResolveExpr(x.expr, IF x.form = "exists" THEN Layer(scope, x.bind) ELSE scope)
          /\ ResolveTy(x, scope, locs) =
                IF bty = Err THEN Err
                ELSE IF Res[x.path.ident] = "Param" THEN IF x.form = "base" THEN bty ELSE Err
                ELSE IF e = Err THEN Err
                ELSE IF x.form = "refine" THEN Refine(bty, e) ELSE Exists(bty, Bound, e)
<1> DEFINE f == ResolveTyFcn(scope, locs, SurfaceTypes)
<1>1. \A ty : ResolveTy(ty, scope, locs) = f[ty]
  BY DEF ResolveTy, ResolveTyFcn, ResolveTyIs, ResolveTyStep
<1>2. ResolveTyIs(scope, locs, SurfaceTypes, f)
  <2>1. \A t \in SurfaceRefs : t.form = "ref"
    BY DEF SurfaceRefs
  <2> QED
    BY <2>1, ResolveTyExists, SurfaceTypesTo, SignatureAssumption DEF SurfaceTo
<1> HIDE DEF f
<1>3. f[x] = ResolveTyStep(scope, locs, f, x)
  BY <1>2 DEF ResolveTyIs
<1>4. [k \in DOMAIN x.path.args |-> ResolveTy(x.path.args[k], scope, locs)] =
      [k \in DOMAIN x.path.args |-> f[x.path.args[k]]]
  BY <1>1
<1> QED
  BY <1>1, <1>3, <1>4 DEF ResolveTyStep


-----------------------------------------------------------------------------
(* Lowering of types                                                       *)

LowerTyStep(s, f, t) ==
    CASE t.form = "ref" -> IF t.loc \in DOMAIN s.locs THEN MutRef(s.locs[t.loc]) ELSE Err
      [] t.form = "param" -> t
      [] OTHER ->
            LET args == [k \in DOMAIN t.path.args |-> f[t.path.args[k]]]
                bty  == Path(t.path.ident, args)
                e    == LowerExpr(t.expr, s)
            IN  IF e = Err \/ \E k \in DOMAIN args : args[k] = Err THEN Err
                ELSE IF t.form = "refine" THEN Refine(bty, e) ELSE Exists(bty, Bound, e)
LowerTyIs(s, D, f) == f = [t \in D |-> LowerTyStep(s, f, t)]
LowerTyFcn(s, D) == CHOOSE f : LowerTyIs(s, D, f)

LEMMA LowerTyStepFromArgs ==
  ASSUME NEW s, NEW f, NEW g, NEW t,
         t.form \in {"ref", "param"} \/ \A k \in DOMAIN t.path.args : f[t.path.args[k]] = g[t.path.args[k]]
  PROVE  LowerTyStep(s, f, t) = LowerTyStep(s, g, t)
<1>1. CASE t.form \in {"ref", "param"}
  BY <1>1 DEF LowerTyStep
<1>2. CASE \A k \in DOMAIN t.path.args : f[t.path.args[k]] = g[t.path.args[k]]
  <2>1. [k \in DOMAIN t.path.args |-> f[t.path.args[k]]] = [k \in DOMAIN t.path.args |-> g[t.path.args[k]]]
        /\ {f[t.path.args[k]] : k \in DOMAIN t.path.args} = {g[t.path.args[k]] : k \in DOMAIN t.path.args}
    BY <1>2
  <2> QED
    BY <2>1 DEF LowerTyStep
<1> QED
  BY <1>1, <1>2

LEMMA LowerTyExists ==
  ASSUME NEW s, NEW leaves, NEW plain, NEW binds, NEW ex, NEW un,
         \A t \in leaves : t.form \in {"ref", "param"}
  PROVE  \A n \in Nat : LowerTyIs(s, TypesTo(leaves, plain, binds, ex, un, n), LowerTyFcn(s, TypesTo(leaves, plain, binds, ex, un, n)))
<1> DEFINE To(n) == TypesTo(leaves, plain, binds, ex, un, n)
           T == {n \in Nat : \E f : LowerTyIs(s, To(n), f)}
           Next_(n, g) == [t \in To(n) |-> LowerTyStep(s, g, t)]
<1>1. ASSUME NEW n \in Nat, NEW t \in To(n), NEW f, NEW g,
             n > 0 => \A y \in To(n - 1) : f[y] = g[y]
      PROVE  LowerTyStep(s, f, t) = LowerTyStep(s, g, t)
  <2>1. CASE t \in leaves
    BY <2>1, LowerTyStepFromArgs
  <2>2. CASE t \notin leaves
    <3>1. \A k \in DOMAIN t.path.args : n > 0 /\ t.path.args[k] \in To(n - 1)
      BY <2>2, ArgsAreLessDeep
    <3>2. \A k \in DOMAIN t.path.args : f[t.path.args[k]] = g[t.path.args[k]]
      BY <1>1, <3>1
    <3> QED
      BY <3>2, LowerTyStepFromArgs
  <2> QED
    BY <2>1, <2>2
<1>2. \A n \in Nat : To(n) \subseteq To(n + 1)
  BY TypesGrow
<1> HIDE DEF To
<1>3. 0 \in T
  <2> DEFINE h == Next_(0, <<>>)
  <2>1. h = [t \in To(0) |-> h[t]] /\ \A t \in To(0) : h[t] = LowerTyStep(s, <<>>, t)
    OBVIOUS
  <2> HIDE DEF h
  <2>2. ASSUME NEW t \in To(0) PROVE LowerTyStep(s, <<>>, t) = LowerTyStep(s, h, t)
    <3>1. 0 \in Nat /\ ~ (0 > 0)
      OBVIOUS
    <3> QED
      BY <1>1, <3>1
  <2>3. LowerTyIs(s, To(0), h)
    BY <2>1, <2>2 DEF LowerTyIs
  <2> QED
    BY <2>3
<1>4. ASSUME NEW n \in Nat, n \in T
      PROVE  n + 1 \in T
  <2>1. PICK g : LowerTyIs(s, To(n), g)
    BY <1>4
  <2> DEFINE h == Next_(n + 1, g)
  <2>2. \A y \in To(n) : h[y] = g[y]
    BY <1>2, <2>1 DEF LowerTyIs
  <2>3. h = [t \in To(n + 1) |-> h[t]] /\ \A t \in To(n + 1) : h[t] = LowerTyStep(s, g, t)
    OBVIOUS
  <2> HIDE DEF h
  <2>4. n + 1 \in Nat /\ (n + 1) - 1 = n
    OBVIOUS
  <2>5. \A t \in To(n + 1) : LowerTyStep(s, g, t) = LowerTyStep(s, h, t)
    BY <1>1, <2>2, <2>4
  <2>6. LowerTyIs(s, To(n + 1), h)
    BY <2>3, <2>5 DEF LowerTyIs
  <2> QED
    BY <2>6
<1> HIDE DEF T
<1>5. Nat \subseteq T
  BY <1>3, <1>4, SetInduction
<1> QED
  BY <1>5 DEF T, To, LowerTyFcn

CoreTo(locs, vs, n) ==
    TypesTo(RefsAndParams(locs), {}, {Bound}, Exprs(vs, MaxDepth),
            Exprs(vs \union {Bound}, MaxDepth), n)

LEMMA CoreTypesTo ==
  /\ CoreTypes = CoreTo(Nat, CoreVars, MaxDepth)
  /\ \A locs, vs : CoreTypesOver(locs, vs) = CoreTo(locs, vs, MaxDepth)
  /\ CoreVars \union {Bound} = CoreVars
<1>1. CoreVars \union {Bound} = CoreVars
  BY DEF CoreVars
<1> QED
  BY <1>1, TypesAreLevels DEF CoreTypes, CoreTypesOver, CoreTo

LoweredArgs(t, s) == [k \in DOMAIN t.path.args |-> LowerTy(t.path.args[k], s)]
Lowered(t, args, e) ==
    IF e = Err \/ \E k \in DOMAIN args : args[k] = Err THEN Err
    ELSE IF t.form = "refine" THEN Refine(Path(t.path.ident, args), e)
    ELSE Exists(Path(t.path.ident, args), Bound, e)

LEMMA LowerTyUnfold ==
  ASSUME NEW s, NEW x \in CoreTypes
  PROVE
    /\ x.form = "ref" => LowerTy(x, s) = IF x.loc \in DOMAIN s.locs THEN MutRef(s.locs[x.loc]) ELSE Err
    /\ x.form = "param" => LowerTy(x, s) = x
    /\ x.form \notin {"ref", "param"} =>
            LowerTy(x, s) = Lowered(x, LoweredArgs(x, s), LowerExpr(x.expr, s))
<1> DEFINE f == LowerTyFcn(s, CoreTypes)
<1>1. \A ty : LowerTy(ty, s) = f[ty]
  BY DEF LowerTy, LowerTyFcn, LowerTyIs, LowerTyStep
<1>2. LowerTyIs(s, CoreTypes, f)
  <2>1. \A t \in RefsAndParams(Nat) : t.form \in {"ref", "param"}
    BY DEF RefsAndParams
  <2> QED
    BY <2>1, LowerTyExists, CoreTypesTo, SignatureAssumption DEF CoreTo
<1> HIDE DEF f
<1>3. f[x] = LowerTyStep(s, f, x)
  BY <1>2 DEF LowerTyIs
<1> DEFINE args == [k \in DOMAIN x.path.args |-> f[x.path.args[k]]]
<1>4. LoweredArgs(x, s) = args
  BY <1>1 DEF LoweredArgs
<1>5. x.form \notin {"ref", "param"} => LowerTyStep(s, f, x) = Lowered(x, args, LowerExpr(x.expr, s))
  BY DEF LowerTyStep, Lowered
<1> HIDE DEF args
<1> QED
  BY <1>1, <1>3, <1>4, <1>5 DEF LowerTyStep


-----------------------------------------------------------------------------
(* The locations of a type                                                 *)

LocsOfStep(f, t) ==
    IF t.form = "ref" THEN {t.loc}
    ELSE IF t.form \in {"refine", "exists"}
    THEN UnionOf([k \in DOMAIN t.path.args |-> f[t.path.args[k]]])
    ELSE {}
LocsOfIs(D, f) == f = [t \in D |-> LocsOfStep(f, t)]
LocsOfFcn(D) == CHOOSE f : LocsOfIs(D, f)

LEMMA LocsOfStepFromArgs ==
  ASSUME NEW f, NEW g, NEW t,
         t.form \notin {"refine", "exists"} \/ \A k \in DOMAIN t.path.args : f[t.path.args[k]] = g[t.path.args[k]]
  PROVE  LocsOfStep(f, t) = LocsOfStep(g, t)
<1>1. CASE t.form \notin {"refine", "exists"}
  BY <1>1 DEF LocsOfStep
<1>2. CASE \A k \in DOMAIN t.path.args : f[t.path.args[k]] = g[t.path.args[k]]
  <2>1. [k \in DOMAIN t.path.args |-> f[t.path.args[k]]] = [k \in DOMAIN t.path.args |-> g[t.path.args[k]]]
        /\ {f[t.path.args[k]] : k \in DOMAIN t.path.args} = {g[t.path.args[k]] : k \in DOMAIN t.path.args}
    BY <1>2
  <2> QED
    BY <2>1 DEF LocsOfStep
<1> QED
  BY <1>1, <1>2

LEMMA LocsOfExists ==
  ASSUME NEW leaves, NEW plain, NEW binds, NEW ex, NEW un,
         \A t \in leaves : t.form \notin {"refine", "exists"}
  PROVE  \A n \in Nat : LocsOfIs(TypesTo(leaves, plain, binds, ex, un, n), LocsOfFcn(TypesTo(leaves, plain, binds, ex, un, n)))
<1> DEFINE To(n) == TypesTo(leaves, plain, binds, ex, un, n)
           T == {n \in Nat : \E f : LocsOfIs(To(n), f)}
           Next_(n, g) == [t \in To(n) |-> LocsOfStep(g, t)]
<1>1. ASSUME NEW n \in Nat, NEW t \in To(n), NEW f, NEW g,
             n > 0 => \A y \in To(n - 1) : f[y] = g[y]
      PROVE  LocsOfStep(f, t) = LocsOfStep(g, t)
  <2>1. CASE t \in leaves
    BY <2>1, LocsOfStepFromArgs
  <2>2. CASE t \notin leaves
    <3>1. \A k \in DOMAIN t.path.args : n > 0 /\ t.path.args[k] \in To(n - 1)
      BY <2>2, ArgsAreLessDeep
    <3>2. \A k \in DOMAIN t.path.args : f[t.path.args[k]] = g[t.path.args[k]]
      BY <1>1, <3>1
    <3> QED
      BY <3>2, LocsOfStepFromArgs
  <2> QED
    BY <2>1, <2>2
<1>2. \A n \in Nat : To(n) \subseteq To(n + 1)
  BY TypesGrow
<1> HIDE DEF To
<1>3. 0 \in T
  <2> DEFINE h == Next_(0, <<>>)
  <2>1. h = [t \in To(0) |-> h[t]] /\ \A t \in To(0) : h[t] = LocsOfStep(<<>>, t)
    OBVIOUS
  <2> HIDE DEF h
  <2>2. ASSUME NEW t \in To(0) PROVE LocsOfStep(<<>>, t) = LocsOfStep(h, t)
    <3>1. 0 \in Nat /\ ~ (0 > 0)
      OBVIOUS
    <3> QED
      BY <1>1, <3>1
  <2>3. LocsOfIs(To(0), h)
    BY <2>1, <2>2 DEF LocsOfIs
  <2> QED
    BY <2>3
<1>4. ASSUME NEW n \in Nat, n \in T
      PROVE  n + 1 \in T
  <2>1. PICK g : LocsOfIs(To(n), g)
    BY <1>4
  <2> DEFINE h == Next_(n + 1, g)
  <2>2. \A y \in To(n) : h[y] = g[y]
    BY <1>2, <2>1 DEF LocsOfIs
  <2>3. h = [t \in To(n + 1) |-> h[t]] /\ \A t \in To(n + 1) : h[t] = LocsOfStep(g, t)
    OBVIOUS
  <2> HIDE DEF h
  <2>4. n + 1 \in Nat /\ (n + 1) - 1 = n
    OBVIOUS
  <2>5. \A t \in To(n + 1) : LocsOfStep(g, t) = LocsOfStep(h, t)
    BY <1>1, <2>2, <2>4
  <2>6. LocsOfIs(To(n + 1), h)
    BY <2>3, <2>5 DEF LocsOfIs
  <2> QED
    BY <2>6
<1> HIDE DEF T
<1>5. Nat \subseteq T
  BY <1>3, <1>4, SetInduction
<1> QED
  BY <1>5 DEF T, To, LocsOfFcn

LocsOfArgs(tys, t) == UnionOf([k \in DOMAIN t.path.args |-> LocsOf(tys, t.path.args[k])])

LEMMA LocsOfUnfold ==
  ASSUME NEW leaves, NEW plain, NEW binds, NEW ex, NEW un, NEW n \in Nat,
         \A t \in leaves : t.form \notin {"refine", "exists"},
         NEW tys, tys = TypesTo(leaves, plain, binds, ex, un, n),
         NEW x \in tys
  PROVE  /\ x.form = "ref" => LocsOf(tys, x) = {x.loc}
         /\ x.form \in {"refine", "exists"} =>
              LocsOf(tys, x) = LocsOfArgs(tys, x)
         /\ x.form \notin {"ref", "refine", "exists"} => LocsOf(tys, x) = {}
<1> DEFINE f == LocsOfFcn(tys)
<1>2. LocsOfIs(tys, f)
  BY LocsOfExists
<1>1. \A ty : LocsOf(tys, ty) = f[ty]
  BY DEF LocsOf, LocsOfFcn, LocsOfIs, LocsOfStep
<1> HIDE DEF f
<1>3. f[x] = LocsOfStep(f, x)
  BY <1>2 DEF LocsOfIs
<1>4. [k \in DOMAIN x.path.args |-> LocsOf(tys, x.path.args[k])] =
      [k \in DOMAIN x.path.args |-> f[x.path.args[k]]]
  BY <1>1
<1> QED
  BY <1>1, <1>3, <1>4 DEF LocsOfStep, LocsOfArgs

LEMMA CoreLocsUnfold ==
  ASSUME NEW x \in CoreTypes
  PROVE  /\ x.form = "ref" => LocsOf(CoreTypes, x) = {x.loc}
         /\ x.form \in {"refine", "exists"} =>
              LocsOf(CoreTypes, x) =
                  LocsOfArgs(CoreTypes, x)
         /\ x.form \notin {"ref", "refine", "exists"} => LocsOf(CoreTypes, x) = {}
<1> DEFINE leaves == RefsAndParams(Nat)
           ex == Exprs(CoreVars, MaxDepth)
           un == Exprs(CoreVars \union {Bound}, MaxDepth)
           none == {}
           bound == {Bound}
           n == MaxDepth
           tys == CoreTypes
<1>1. \A c \in leaves : c.form \notin {"refine", "exists"}
  BY DEF RefsAndParams
<1>2. tys = TypesTo(leaves, none, bound, ex, un, n) /\ n \in Nat
  BY CoreTypesTo, SignatureAssumption DEF CoreTo
<1>3. x \in tys
  OBVIOUS
<1> HIDE DEF leaves, none, bound, ex, un, n, tys
<1>4. /\ x.form = "ref" => LocsOf(tys, x) = {x.loc}
      /\ x.form \in {"refine", "exists"} =>
           LocsOf(tys, x) = LocsOfArgs(tys, x)
      /\ x.form \notin {"ref", "refine", "exists"} => LocsOf(tys, x) = {}
  BY ONLY <1>1, <1>2, <1>3, LocsOfUnfold
<1> QED
  BY <1>4 DEF tys


-----------------------------------------------------------------------------
(* What the recursive functions do, on expressions                         *)

LEMMA MaxDepthIsNat == MaxDepth \in Nat /\ 2 * MaxDepth \in Nat /\ MaxDepth <= 2 * MaxDepth
BY SignatureAssumption

(* A depth up to which expressions are in the domain of the functions.     *)
LEMMA InDomain ==
  ASSUME NEW vs, NEW ws, vs \subseteq ws, NEW n \in Nat, n <= MaxDepth
  PROVE  Exprs(vs, n) \subseteq Exprs(ws, MaxDepth)
BY ExprsGrow, MaxDepthIsNat

(* The resolver maps the variables of an expression into the scope.        *)
LEMMA ResolveExprTyped ==
  ASSUME NEW scope, NEW W, \A v \in DOMAIN scope : scope[v] \in W, NEW e \in SurfaceExprs
  PROVE  ResolveExpr(e, scope) \in Exprs(W, MaxDepth) \union {Err}
<1> DEFINE R(x) == ResolveExpr(x, scope)
           T == {n \in Nat : n <= MaxDepth => \A x \in Exprs(STRING, n) : R(x) \in Exprs(W, n) \union {Err}}
<1>1. ASSUME NEW n \in Nat, n <= MaxDepth, NEW x \in Exprs(STRING, n)
      PROVE  /\ VarShape(STRING, x) => R(x) \in Exprs(W, n) \union {Err}
             /\ LitShape(x) => R(x) \in Exprs(W, n) \union {Err}
             /\ x.form = "op" => R(x) = IF Err \in {R(x.left), R(x.right)} THEN Err
                                        ELSE Op(x.op, R(x.left), R(x.right))
  <2>1. x \in Exprs(STRING, MaxDepth)
    BY <1>1, InDomain
  <2>2. CASE VarShape(STRING, x)
    <3>1. R(x) = IF x.var \in DOMAIN scope THEN Var(scope[x.var]) ELSE Err
      BY <2>1, <2>2, ResolveExprUnfold DEF VarShape
    <3> QED
      BY <2>2, <3>1, ExprMembers DEF VarShape
  <2>3. CASE LitShape(x)
    <3>1. R(x) = IF x.sort = "Other" THEN Err ELSE x
      BY <2>1, <2>3, ResolveExprUnfold DEF LitShape
    <3>2. x \in Exprs(W, n)
      BY <2>3, ExprMembers DEF LitShape
    <3> QED
      BY <2>3, <3>1, <3>2 DEF LitShape
  <2>4. CASE x.form = "op"
    BY <2>1, <2>4, ResolveExprUnfold DEF VarShape, LitShape
  <2> QED
    BY <2>2, <2>3, <2>4
<1> HIDE DEF R
<1>2. 0 \in T
  <2> SUFFICES ASSUME NEW x \in Exprs(STRING, 0) PROVE R(x) \in Exprs(W, 0) \union {Err}
    OBVIOUS
  <2>1. VarShape(STRING, x) \/ LitShape(x)
    BY ExprCases DEF ExprShape
  <2> QED
    BY <1>1, <2>1, MaxDepthIsNat
<1>3. ASSUME NEW n \in Nat, n \in T PROVE n + 1 \in T
  <2> SUFFICES ASSUME n + 1 <= MaxDepth, NEW x \in Exprs(STRING, n + 1)
               PROVE  R(x) \in Exprs(W, n + 1) \union {Err}
    OBVIOUS
  <2>1. n + 1 \in Nat /\ (n + 1) - 1 = n /\ n <= MaxDepth
    BY MaxDepthIsNat
  <2>2. VarShape(STRING, x) \/ LitShape(x) \/ OpShape(Exprs(STRING, n), x)
    BY <2>1, ExprCases DEF ExprShape
  <2>3. CASE OpShape(Exprs(STRING, n), x)
    <3>1. R(x.left) \in Exprs(W, n) \union {Err} /\ R(x.right) \in Exprs(W, n) \union {Err}
      BY <1>3, <2>1, <2>3 DEF OpShape
    <3>2. R(x) = IF Err \in {R(x.left), R(x.right)} THEN Err ELSE Op(x.op, R(x.left), R(x.right))
      BY <1>1, <2>1, <2>3 DEF OpShape
    <3> QED
      BY <2>3, <3>1, <3>2, ExprMembers DEF OpShape
  <2> QED
    BY <1>1, <2>1, <2>2, <2>3
<1> HIDE DEF T
<1>4. Nat \subseteq T
  BY <1>2, <1>3, SetInduction
<1> QED
  BY <1>4, MaxDepthIsNat DEF T, R, SurfaceExprs

(* Where the variables of an expression have a sort, the sort that wf.rs   *)
(* computes is the one it should have, and its map is not missing one.     *)
SynthSorts == {"Int", "Bool", "Other", "none"}

LEMMA SynthOpIsSortOfOp ==
  ASSUME NEW o \in BinOps, NEW l \in SynthSorts, NEW r \in SynthSorts
  PROVE  SynthOp(o, l, r) = SortOfOp(o, l, r) /\ SortOfOp(o, l, r) \in SynthSorts
BY DEF BinOps, SynthSorts, SynthOp, SortOfOp, Expecting

LEMMA SynthIsSortOf ==
  ASSUME NEW W, W \subseteq CoreVars, NEW senv, NEW sorts,
         \A v \in W : /\ v \in DOMAIN senv /\ v \in DOMAIN sorts
                      /\ senv[v] = sorts[v] /\ senv[v] \in Sorts,
         NEW e \in Exprs(W, MaxDepth)
  PROVE  SynthExpr(e, senv) = SortOf(e, sorts) /\ SynthExpr(e, senv) \in SynthSorts
<1> DEFINE R(x) == SynthExpr(x, senv)
           Q(x) == SortOf(x, sorts)
           T == {n \in Nat : n <= MaxDepth => \A x \in Exprs(W, n) : R(x) = Q(x) /\ R(x) \in SynthSorts}
<1>1. ASSUME NEW n \in Nat, n <= MaxDepth, NEW x \in Exprs(W, n)
      PROVE  /\ VarShape(W, x) => R(x) = Q(x) /\ R(x) \in SynthSorts
             /\ LitShape(x) => R(x) = Q(x) /\ R(x) \in SynthSorts
             /\ x.form = "op" => R(x) = SynthOp(x.op, R(x.left), R(x.right))
                                 /\ Q(x) = SortOfOp(x.op, Q(x.left), Q(x.right))
  <2>1. x \in Exprs(CoreVars, MaxDepth)
    BY <1>1, InDomain
  <2>2. CASE VarShape(W, x)
    <3>1. R(x) = IF x.var \in DOMAIN senv THEN senv[x.var] ELSE "panic"
      BY <2>1, <2>2, SynthUnfold DEF VarShape
    <3>2. Q(x) = IF x.var \in DOMAIN sorts THEN sorts[x.var] ELSE "none"
      BY <2>1, <2>2, SortOfUnfold DEF VarShape
    <3> QED
      BY <2>2, <3>1, <3>2 DEF VarShape, LitShape, SynthSorts, Sorts
  <2>3. CASE LitShape(x)
    BY <2>1, <2>3, SynthUnfold, SortOfUnfold DEF LitShape, VarShape, SynthSorts
  <2>4. CASE x.form = "op"
    BY <2>1, <2>4, SynthUnfold, SortOfUnfold DEF VarShape, LitShape
  <2> QED
    BY <2>2, <2>3, <2>4
<1> HIDE DEF R, Q
<1>2. 0 \in T
  <2> SUFFICES ASSUME NEW x \in Exprs(W, 0) PROVE R(x) = Q(x) /\ R(x) \in SynthSorts
    OBVIOUS
  <2>1. VarShape(W, x) \/ LitShape(x)
    BY ExprCases DEF ExprShape
  <2> QED
    BY <1>1, <2>1, MaxDepthIsNat
<1>3. ASSUME NEW n \in Nat, n \in T PROVE n + 1 \in T
  <2> SUFFICES ASSUME n + 1 <= MaxDepth, NEW x \in Exprs(W, n + 1)
               PROVE  R(x) = Q(x) /\ R(x) \in SynthSorts
    OBVIOUS
  <2>1. n + 1 \in Nat /\ (n + 1) - 1 = n /\ n <= MaxDepth
    BY MaxDepthIsNat
  <2>2. VarShape(W, x) \/ LitShape(x) \/ OpShape(Exprs(W, n), x)
    BY <2>1, ExprCases DEF ExprShape
  <2>3. CASE OpShape(Exprs(W, n), x)
    <3>1. /\ R(x.left) = Q(x.left) /\ R(x.left) \in SynthSorts
          /\ R(x.right) = Q(x.right) /\ R(x.right) \in SynthSorts
      BY <1>3, <2>1, <2>3 DEF OpShape
    <3>2. R(x) = SynthOp(x.op, R(x.left), R(x.right)) /\ Q(x) = SortOfOp(x.op, Q(x.left), Q(x.right))
      BY <1>1, <2>1, <2>3 DEF OpShape
    <3> QED
      BY <2>3, <3>1, <3>2, SynthOpIsSortOfOp DEF OpShape
  <2> QED
    BY <1>1, <2>1, <2>2, <2>3
<1> HIDE DEF T
<1>4. Nat \subseteq T
  BY <1>2, <1>3, SetInduction
<1> QED
  BY <1>4, MaxDepthIsNat DEF T, R, Q

(* An expression whose variables have instances is lowered, to one that is *)
(* no deeper than it and the instances together.                           *)
InstOfExprs(s) == \A n \in DOMAIN s.exprs : s.exprs[n] \in Exprs(CallerVars, MaxDepth)
Covered(s, W) == \A v \in W : v = Bound \/ v.name \in DOMAIN s.exprs

LEMMA ErrIsNoTerm ==
  ASSUME NEW n \in Nat, n <= MaxDepth
  PROVE  Err \notin Exprs(CallerVars, MaxDepth + n)
<1>1. MaxDepth + n \in Nat /\ MaxDepth + n <= 2 * MaxDepth
  BY MaxDepthIsNat
<1>2. Exprs(CallerVars, MaxDepth + n) \subseteq Exprs(CallerVars, 2 * MaxDepth)
  BY <1>1, ExprsGrow, MaxDepthIsNat
<1> QED
  BY <1>2, SignatureAssumption

LEMMA LowerExprTyped ==
  ASSUME NEW W, W \subseteq CoreVars, NEW s, InstOfExprs(s), NEW e \in Exprs(W, MaxDepth)
  PROVE  /\ LowerExpr(e, s) \in Exprs(CallerVars, 2 * MaxDepth) \union {Err}
         /\ Covered(s, W) => LowerExpr(e, s) # Err
<1> DEFINE R(x) == LowerExpr(x, s)
           E(n) == Exprs(CallerVars, MaxDepth + n)
           OK(x, n) == R(x) \in E(n) \union {Err} /\ (Covered(s, W) => R(x) # Err)
           T == {n \in Nat : n <= MaxDepth => \A x \in Exprs(W, n) : OK(x, n)}
<1>0. ASSUME NEW n \in Nat, n <= MaxDepth
      PROVE  /\ Err \notin E(n) /\ Exprs(CallerVars, MaxDepth) \subseteq E(n)
             /\ \A v \in CallerVars : Var(v) \in E(n)
             /\ \A t \in {"Int", "Bool", "Other"} : Lit(t) \in E(n)
             /\ \A o \in BinOps, l \in E(n), r \in E(n) : Op(o, l, r) \in E(n + 1)
  <2>1. MaxDepth + n \in Nat /\ MaxDepth <= MaxDepth + n /\ (MaxDepth + n) + 1 = MaxDepth + (n + 1)
    BY MaxDepthIsNat
  <2>2. Exprs(CallerVars, MaxDepth) \subseteq E(n)
    BY <2>1, ExprsGrow, MaxDepthIsNat
  <2> QED
    BY <1>0, <2>1, <2>2, ExprMembers, ErrIsNoTerm
<1>1. ASSUME NEW n \in Nat, n <= MaxDepth, NEW x \in Exprs(W, n)
      PROVE  /\ VarShape(W, x) => OK(x, n)
             /\ LitShape(x) => OK(x, n)
             /\ x.form = "op" => R(x) = IF Err \in {R(x.left), R(x.right)} THEN Err
                                        ELSE Op(x.op, R(x.left), R(x.right))
  <2>1. x \in Exprs(CoreVars, MaxDepth)
    BY <1>1, InDomain
  <2> HIDE DEF E
  <2>2. CASE VarShape(W, x)
    <3>1. R(x) = IF x.var = Bound THEN x
                 ELSE IF x.var.name \in DOMAIN s.exprs THEN s.exprs[x.var.name] ELSE Err
      BY <2>1, <2>2, LowerExprUnfold DEF VarShape
    <3> HIDE DEF R
    <3>2. CASE x.var = Bound
      <4>1. Bound \in CallerVars
        BY DEF CallerVars
      <4> QED
        BY <1>0, <1>1, <2>2, <3>1, <3>2, <4>1 DEF VarShape
    <3>3. CASE x.var # Bound
      BY <1>0, <1>1, <2>2, <3>1, <3>3 DEF VarShape, LitShape, Covered, InstOfExprs
    <3> QED
      BY <3>2, <3>3 DEF VarShape, LitShape
  <2>3. CASE LitShape(x)
    <3>1. R(x) = x
      BY <2>1, <2>3, LowerExprUnfold DEF LitShape
    <3> HIDE DEF R
    <3>2. x \in E(n) /\ x # Err
      BY <1>0, <1>1, <2>3 DEF LitShape
    <3> QED
      BY <2>3, <3>1, <3>2 DEF LitShape, VarShape
  <2>4. CASE x.form = "op"
    BY <2>1, <2>4, LowerExprUnfold DEF VarShape, LitShape
  <2> QED
    BY <2>2, <2>3, <2>4
<1> HIDE DEF R, E
<1>2. 0 \in T
  <2> SUFFICES ASSUME NEW x \in Exprs(W, 0) PROVE OK(x, 0)
    OBVIOUS
  <2>1. VarShape(W, x) \/ LitShape(x)
    BY ExprCases DEF ExprShape
  <2> QED
    BY <1>1, <2>1, MaxDepthIsNat
<1>3. ASSUME NEW n \in Nat, n \in T PROVE n + 1 \in T
  <2> SUFFICES ASSUME n + 1 <= MaxDepth, NEW x \in Exprs(W, n + 1)
               PROVE  OK(x, n + 1)
    OBVIOUS
  <2>1. n + 1 \in Nat /\ (n + 1) - 1 = n /\ n <= MaxDepth
    BY MaxDepthIsNat
  <2>2. VarShape(W, x) \/ LitShape(x) \/ OpShape(Exprs(W, n), x)
    BY <2>1, ExprCases DEF ExprShape
  <2>3. CASE OpShape(Exprs(W, n), x)
    <3>1. OK(x.left, n) /\ OK(x.right, n)
      BY <1>3, <2>1, <2>3 DEF OpShape
    <3>2. R(x) = IF Err \in {R(x.left), R(x.right)} THEN Err ELSE Op(x.op, R(x.left), R(x.right))
      BY <1>1, <2>1, <2>3 DEF OpShape
    <3>3. CASE Err \in {R(x.left), R(x.right)}
      BY <3>1, <3>2, <3>3
    <3>4. CASE Err \notin {R(x.left), R(x.right)}
      <4>1. R(x.left) \in E(n) /\ R(x.right) \in E(n) /\ x.op \in BinOps
        BY <2>3, <3>1, <3>4 DEF OpShape
      <4>2. R(x) \in E(n + 1)
        BY <1>0, <2>1, <3>2, <3>4, <4>1
      <4>3. R(x) # Err
        BY <1>0, <2>1, <4>2
      <4> QED
        BY <4>2, <4>3
    <3> QED
      BY <3>3, <3>4
  <2> QED
    BY <1>1, <2>1, <2>2, <2>3
<1> HIDE DEF T
<1>4. Nat \subseteq T
  BY <1>2, <1>3, SetInduction
<1>5. OK(e, MaxDepth)
  BY <1>4, MaxDepthIsNat DEF T
<1>6. MaxDepth + MaxDepth = 2 * MaxDepth
  BY MaxDepthIsNat
<1> QED
  BY <1>5, <1>6 DEF R, E


-----------------------------------------------------------------------------
(* What the recursive functions do, on types                               *)

CoreArgs(locs, vs, n) ==
    ArgsTo(RefsAndParams(locs), {}, {Bound}, Exprs(vs, MaxDepth), Exprs(vs \union {Bound}, MaxDepth), n)

LEMMA CoreCases ==
  ASSUME NEW locs, NEW vs, NEW n \in Nat, NEW t
  PROVE  /\ t \in CoreTo(locs, vs, n) <=>
              \/ t \in RefsAndParams(locs)
              \/ RefineShape(Exprs(vs, MaxDepth), CoreArgs(locs, vs, n), t)
              \/ ExistsShape({Bound}, Exprs(vs \union {Bound}, MaxDepth), CoreArgs(locs, vs, n), t)
         /\ CoreArgs(locs, vs, n) = IF n = 0 THEN {<<>>} ELSE Seq(CoreTo(locs, vs, n - 1))
         /\ <<>> \in CoreArgs(locs, vs, n)
<1>1. CoreArgs(locs, vs, n) = IF n = 0 THEN {<<>>} ELSE Seq(CoreTo(locs, vs, n - 1))
  BY DEF CoreArgs, ArgsTo, CoreTo
<1>2. <<>> \in CoreArgs(locs, vs, n)
  <2>1. CASE n = 0
    BY <1>1, <2>1
  <2>2. CASE n # 0
    <3>1. <<>> \in Seq(CoreTo(locs, vs, n - 1))
      OBVIOUS
    <3> QED
      BY <1>1, <2>2, <3>1
  <2> QED
    BY <2>1, <2>2
<1> QED
  BY <1>1, <1>2, TypeCases DEF CoreTo, CoreArgs, TypeShape, PlainShape

LEMMA CoreGrow ==
  ASSUME NEW locs, NEW locs2, locs \subseteq locs2, NEW vs, NEW vs2, vs \subseteq vs2,
         NEW n \in Nat, NEW m \in Nat, n <= m
  PROVE  CoreTo(locs, vs, n) \subseteq CoreTo(locs2, vs2, m)
<1>1. RefsAndParams(locs) \subseteq RefsAndParams(locs2)
  BY DEF RefsAndParams
<1>2. /\ Exprs(vs, MaxDepth) \subseteq Exprs(vs2, MaxDepth)
      /\ Exprs(vs \union {Bound}, MaxDepth) \subseteq Exprs(vs2 \union {Bound}, MaxDepth)
  <2>1. vs \union {Bound} \subseteq vs2 \union {Bound}
    OBVIOUS
  <2> QED
    BY <2>1, ExprsGrow, MaxDepthIsNat
<1> DEFINE ex == Exprs(vs, MaxDepth)
           un == Exprs(vs \union {Bound}, MaxDepth)
           ex2 == Exprs(vs2, MaxDepth)
           un2 == Exprs(vs2 \union {Bound}, MaxDepth)
           leaves == RefsAndParams(locs)
           leaves2 == RefsAndParams(locs2)
<1>3. CoreTo(locs, vs, n) = TypesTo(leaves, {}, {Bound}, ex, un, n)
      /\ CoreTo(locs2, vs2, m) = TypesTo(leaves2, {}, {Bound}, ex2, un2, m)
  BY DEF CoreTo
<1> HIDE DEF ex, un, ex2, un2, leaves, leaves2
<1>4. leaves \subseteq leaves2 /\ ex \subseteq ex2 /\ un \subseteq un2
  BY <1>1, <1>2 DEF ex, un, ex2, un2, leaves, leaves2
<1> QED
  BY <1>3, <1>4, TypesGrow

LEMMA RefsAndParamsShape ==
  ASSUME NEW locs
  PROVE  /\ \A t \in RefsAndParams(locs) :
              \/ t.form = "ref" /\ t.loc \in locs /\ t = MutRef(t.loc)
              \/ t.form = "param"
         /\ \A l \in locs : MutRef(l) \in RefsAndParams(locs)
         /\ \A i \in STRING : ParamTy(i) \in RefsAndParams(locs)
BY DEF RefsAndParams, MutRef, ParamTy

(* A path resolves to a parameter, or to a path of what its arguments      *)
(* resolve to.                                                             *)
LEMMA ResolvePathTyped ==
  ASSUME NEW locs, NEW vs, NEW n \in Nat, NEW ident \in STRING, NEW args,
         n = 0 => args = <<>>,
         n # 0 => args \in Seq(CoreTo(locs, vs, n - 1) \union {Err})
  PROVE  LET bty == ResolvePath(ident, args)
         IN  \/ bty = Err
             \/ Res[ident] = "Param" /\ bty = ParamTy(ident)
             \/ Res[ident] # "Param" /\ PathShape(CoreArgs(locs, vs, n), bty)
<1> DEFINE to == CoreTo(locs, vs, n - 1)
           cargs == CoreArgs(locs, vs, n)
<1>1. <<>> \in cargs /\ cargs = IF n = 0 THEN {<<>>} ELSE Seq(to)
  BY CoreCases
<1> HIDE DEF to, cargs
<1>2. (\A k \in DOMAIN args : args[k] # Err) => args \in cargs
  <2> SUFFICES ASSUME \A k \in DOMAIN args : args[k] # Err, n # 0
               PROVE  args \in Seq(to)
    BY <1>1
  <2>1. args \in Seq(to \union {Err})
    BY DEF to
  <2>2. Len(args) \in Nat /\ DOMAIN args = 1..Len(args) /\ args = [k \in 1..Len(args) |-> args[k]]
    BY <2>1, LenProperties
  <2>3. \A k \in 1..Len(args) : args[k] \in to
    BY <2>1, <2>2
  <2> QED
    BY <2>2, <2>3
<1>3. PathShape(cargs, Path(ident, <<>>))
  BY <1>1 DEF PathShape, Path
<1>4. args \in cargs => PathShape(cargs, Path(ident, args))
  BY DEF PathShape, Path
<1>5. ident \in DOMAIN Res => Res[ident] \in {"Int", "Bool", "Struct", "Param", "Unsupported"}
  BY SignatureAssumption
<1> DEFINE bty == ResolvePath(ident, args)
<1>6. CASE ident \notin DOMAIN Res
  BY <1>6 DEF ResolvePath
<1>7. CASE ident \in DOMAIN Res /\ Res[ident] = "Struct"
  <2>1. bty = IF \E k \in DOMAIN args : args[k] = Err THEN Err ELSE Path(ident, args)
    BY <1>7 DEF ResolvePath
  <2> HIDE DEF bty
  <2>2. bty = Err \/ PathShape(cargs, bty)
    BY <1>2, <1>4, <2>1
  <2> QED
    BY <1>7, <2>2 DEF bty, cargs
<1>8. CASE ident \in DOMAIN Res /\ Res[ident] \in {"Int", "Bool"}
  BY <1>3, <1>8 DEF ResolvePath, cargs
<1>9. CASE ident \in DOMAIN Res /\ Res[ident] = "Param"
  BY <1>9 DEF ResolvePath
<1>10. CASE ident \in DOMAIN Res /\ Res[ident] = "Unsupported"
  BY <1>10 DEF ResolvePath
<1> QED
  BY <1>5, <1>6, <1>7, <1>8, <1>9, <1>10


LEMMA SurfaceCases ==
  ASSUME NEW n \in Nat, n <= MaxDepth, NEW t \in SurfaceTo(n)
  PROVE  /\ t \in SurfaceTypes
         /\ \/ t.form = "ref"
            \/ /\ t.form \in {"base", "refine", "exists"} /\ t.path.ident \in STRING
               /\ (t.form # "base" => t.expr \in SurfaceExprs)
               /\ t.path.args \in Seq(SurfaceTypes)
               /\ n = 0 => t.path.args = <<>>
               /\ \A k \in DOMAIN t.path.args : n > 0 /\ t.path.args[k] \in SurfaceTo(n - 1)
<1> DEFINE args == ArgsTo(SurfaceRefs, {"base"}, STRING, Exprs(STRING, MaxDepth), Exprs(STRING, MaxDepth), n)
           ex == Exprs(STRING, MaxDepth)
<1>1. SurfaceTo(n) \subseteq SurfaceTypes
  BY TypesGrow, SurfaceTypesTo, MaxDepthIsNat DEF SurfaceTo
<1>2. TypeShape(SurfaceRefs, {"base"}, STRING, ex, ex, args, t)
  BY TypeCases DEF SurfaceTo
<1>3. n = 0 => args = {<<>>}
  BY DEF ArgsTo
<1> HIDE DEF args
<1>4. CASE t \in SurfaceRefs
  BY <1>1, <1>4 DEF SurfaceRefs
<1>5. CASE t \notin SurfaceRefs
  <2>1. /\ t.path.args \in Seq(SurfaceTo(n))
        /\ \A k \in DOMAIN t.path.args : n > 0 /\ t.path.args[k] \in SurfaceTo(n - 1)
    BY <1>5, ArgsAreLessDeep DEF SurfaceTo
  <2>2. t.path.args \in Seq(SurfaceTypes)
    BY <1>1, <2>1
  <2>3. PlainShape({"base"}, args, t) \/ RefineShape(ex, args, t) \/ ExistsShape(STRING, ex, args, t)
    BY <1>2, <1>5 DEF TypeShape
  <2>4. PathShape(args, t.path) /\ t.form \in {"base", "refine", "exists"}
        /\ (t.form # "base" => t.expr \in SurfaceExprs)
    BY <2>3 DEF PlainShape, RefineShape, ExistsShape, SurfaceExprs
  <2>5. t.path.ident \in STRING /\ (n = 0 => t.path.args = <<>>)
    BY <1>3, <2>4 DEF PathShape
  <2> QED
    BY <1>1, <2>1, <2>2, <2>4, <2>5
<1> QED
  BY <1>4, <1>5

(* The resolver maps the regions of a type into the regions in scope, and  *)
(* the variables of its predicates into those in scope and its binders.    *)
LEMMA ResolveTyTyped ==
  ASSUME NEW scope, NEW W, \A v \in DOMAIN scope : scope[v] \in W,
         NEW locs, NEW L, \A r \in DOMAIN locs : locs[r] \in L,
         NEW ty \in SurfaceTypes
  PROVE  ResolveTy(ty, scope, locs) \in CoreTypesOver(L, W) \union {Err}
<1> DEFINE R(t) == ResolveTy(t, scope, locs)
           To(n) == CoreTo(L, W, n)
           T == {n \in Nat : n <= MaxDepth => \A t \in SurfaceTo(n) : R(t) \in To(n) \union {Err}}
           ex == Exprs(W, MaxDepth)
           un == Exprs(W \union {Bound}, MaxDepth)
<1>1. ASSUME NEW n \in Nat, n <= MaxDepth, NEW t \in SurfaceTo(n),
             n > 0 => \A y \in SurfaceTo(n - 1) : R(y) \in To(n - 1) \union {Err}
      PROVE  R(t) \in To(n) \union {Err}
  <2> DEFINE cargs == CoreArgs(L, W, n)
             args == [k \in DOMAIN t.path.args |-> R(t.path.args[k])]
             under == IF t.form = "exists" THEN Layer(scope, t.bind) ELSE scope
  <2>0. \A c : c \in To(n) <=>
           c \in RefsAndParams(L) \/ RefineShape(ex, cargs, c) \/ ExistsShape({Bound}, un, cargs, c)
    BY CoreCases
  <2>1. t \in SurfaceTypes
    BY <1>1, SurfaceCases
  <2>2. CASE t.form = "ref"
    <3>1. R(t) = IF t.loc \in DOMAIN locs THEN MutRef(locs[t.loc]) ELSE Err
      BY <2>1, <2>2, ResolveTyUnfold
    <3> HIDE DEF R, To
    <3> QED
      BY <2>0, <3>1, RefsAndParamsShape
  <2>3. CASE t.form # "ref"
    <3>1. PICK bty, e :
             /\ bty = ResolvePath(t.path.ident, args)
             /\ e = IF t.form = "base" THEN TrueExpr ELSE ResolveExpr(t.expr, under)
             /\ R(t) = IF bty = Err THEN Err
                       ELSE IF Res[t.path.ident] = "Param" THEN IF t.form = "base" THEN bty ELSE Err
                       ELSE IF e = Err THEN Err
                       ELSE IF t.form = "refine" THEN Refine(bty, e) ELSE Exists(bty, Bound, e)
      BY <2>1, <2>3, ResolveTyUnfold
    <3>2. /\ t.form \in {"base", "refine", "exists"} /\ t.path.ident \in STRING
          /\ (t.form # "base" => t.expr \in SurfaceExprs)
          /\ t.path.args \in Seq(SurfaceTypes)
          /\ n = 0 => t.path.args = <<>>
          /\ \A k \in DOMAIN t.path.args : n > 0 /\ t.path.args[k] \in SurfaceTo(n - 1)
      BY <1>1, <2>3, SurfaceCases
    <3> HIDE DEF R, To, under, ex, un
    <3>3. Len(t.path.args) \in Nat /\ DOMAIN t.path.args = 1..Len(t.path.args)
      BY <3>2, LenProperties
    <3>4. n = 0 => args = <<>>
      BY <3>2
    <3>5. n # 0 => args \in Seq(To(n - 1) \union {Err})
      BY <1>1, <3>2, <3>3
    <3> HIDE DEF args
    <3>6. \/ bty = Err
          \/ Res[t.path.ident] = "Param" /\ bty = ParamTy(t.path.ident)
          \/ Res[t.path.ident] # "Param" /\ PathShape(cargs, bty)
      BY <3>1, <3>2, <3>4, <3>5, ResolvePathTyped DEF To
    <3> HIDE DEF cargs
    <3>7. e \in un \union {Err} /\ (t.form = "refine" => e \in ex \union {Err})
      <4>1. CASE t.form = "base"
        BY <3>1, <4>1, ExprMembers, MaxDepthIsNat DEF TrueExpr, un
      <4>2. CASE t.form = "refine"
        <5>1. e \in ex \union {Err}
          BY <3>1, <3>2, <4>2, ResolveExprTyped DEF under, ex
        <5>2. ex \subseteq un
          BY ExprsGrow, MaxDepthIsNat DEF ex, un
        <5> QED
          BY <5>1, <5>2
      <4>3. CASE t.form = "exists"
        <5>1. under = Layer(scope, t.bind) /\ \A v \in DOMAIN under : under[v] \in W \union {Bound}
          BY <4>3 DEF under, Layer, Put
        <5> QED
          BY <3>1, <3>2, <4>3, <5>1, ResolveExprTyped DEF un
      <4> QED
        BY <3>2, <4>1, <4>2, <4>3
    <3>8. \A p \in {bty} : PathShape(cargs, p) =>
             /\ e \in ex => RefineShape(ex, cargs, Refine(p, e))
             /\ e \in un => ExistsShape({Bound}, un, cargs, Exists(p, Bound, e))
      BY DEF RefineShape, ExistsShape, Refine, Exists
    <3>9. CASE Res[t.path.ident] = "Param"
      BY <2>0, <3>1, <3>2, <3>6, <3>9, RefsAndParamsShape
    <3>10. CASE Res[t.path.ident] # "Param" /\ bty # Err /\ e # Err
      BY <2>0, <3>1, <3>6, <3>7, <3>8, <3>10
    <3> QED
      BY <3>1, <3>9, <3>10
  <2> QED
    BY <2>2, <2>3
<1> HIDE DEF R, To, ex, un
<1>2. 0 \in T
  <2>1. 0 \in Nat /\ 0 <= MaxDepth /\ ~ (0 > 0)
    BY MaxDepthIsNat
  <2> QED
    BY <1>1, <2>1
<1>3. ASSUME NEW n \in Nat, n \in T PROVE n + 1 \in T
  <2>1. n + 1 \in Nat /\ (n + 1) - 1 = n /\ (n + 1 <= MaxDepth => n <= MaxDepth)
    BY MaxDepthIsNat
  <2> QED
    BY <1>1, <1>3, <2>1
<1> HIDE DEF T
<1>4. Nat \subseteq T
  BY <1>2, <1>3, SetInduction
<1>5. R(ty) \in To(MaxDepth) \union {Err}
  BY <1>4, MaxDepthIsNat, SurfaceTypesTo DEF T
<1> QED
  BY <1>5, CoreTypesTo DEF R, To


(* The types of a caller by the depth of their paths.                      *)
CallerTo(locs, n) ==
    TypesTo(RefsAndParams(locs) \union {Weak}, {}, {Bound}, Exprs(CallerVars, 2 * MaxDepth),
            Exprs(CallerVars \union {Bound}, 2 * MaxDepth), n)
CallerArgs(locs, n) ==
    ArgsTo(RefsAndParams(locs) \union {Weak}, {}, {Bound}, Exprs(CallerVars, 2 * MaxDepth),
           Exprs(CallerVars \union {Bound}, 2 * MaxDepth), n)

LEMMA CallerCases ==
  ASSUME NEW locs, NEW n \in Nat, NEW t
  PROVE  /\ t \in CallerTo(locs, n) <=>
              \/ t \in RefsAndParams(locs) \union {Weak}
              \/ RefineShape(Exprs(CallerVars, 2 * MaxDepth), CallerArgs(locs, n), t)
              \/ ExistsShape({Bound}, Exprs(CallerVars, 2 * MaxDepth), CallerArgs(locs, n), t)
         /\ CallerArgs(locs, n) = IF n = 0 THEN {<<>>} ELSE Seq(CallerTo(locs, n - 1))
<1>1. CallerVars \union {Bound} = CallerVars
  BY DEF CallerVars
<1>2. CallerArgs(locs, n) = IF n = 0 THEN {<<>>} ELSE Seq(CallerTo(locs, n - 1))
  BY DEF CallerArgs, ArgsTo, CallerTo
<1> QED
  BY <1>1, <1>2, TypeCases DEF CallerTo, CallerArgs, TypeShape, PlainShape

LEMMA CallerGrow ==
  ASSUME NEW locs, NEW locs2, locs \subseteq locs2, NEW n \in Nat, NEW m \in Nat, n <= m
  PROVE  CallerTo(locs, n) \subseteq CallerTo(locs2, m)
<1> DEFINE ex == Exprs(CallerVars, 2 * MaxDepth)
           un == Exprs(CallerVars \union {Bound}, 2 * MaxDepth)
           leaves == RefsAndParams(locs) \union {Weak}
           leaves2 == RefsAndParams(locs2) \union {Weak}
<1>1. CallerTo(locs, n) = TypesTo(leaves, {}, {Bound}, ex, un, n)
      /\ CallerTo(locs2, m) = TypesTo(leaves2, {}, {Bound}, ex, un, m)
  BY DEF CallerTo
<1>2. leaves \subseteq leaves2
  BY DEF RefsAndParams
<1> HIDE DEF ex, un, leaves, leaves2
<1> QED
  BY <1>1, <1>2, TypesGrow

(* The types over locations of a caller.                                   *)
OverLocs(locs) == CallerTo(locs, 2 * MaxDepth)

LEMMA OverLocsFacts ==
  ASSUME NEW locs, NEW locs2, locs \subseteq locs2
  PROVE  /\ CallerTypesOver(locs, 2 * MaxDepth) = OverLocs(locs)
         /\ CallerTypes = OverLocs(CallerLocs)
         /\ CallerTypesOver(locs, MaxDepth) \subseteq OverLocs(locs)
         /\ OverLocs(locs) \subseteq OverLocs(locs2)
         /\ \A n \in Nat : n <= MaxDepth => CallerTo(locs, n) \subseteq OverLocs(locs2)
<1>1. \A l : CallerTypesOver(l, 2 * MaxDepth) = OverLocs(l)
  BY TypesAreLevels DEF CallerTypesOver, OverLocs, CallerTo
<1>2. CallerTypesOver(locs, MaxDepth) \subseteq OverLocs(locs)
  <2> DEFINE leaves == RefsAndParams(locs) \union {Weak}
             ex == Exprs(CallerVars, MaxDepth)
             un == Exprs(CallerVars \union {Bound}, MaxDepth)
             ex2 == Exprs(CallerVars, 2 * MaxDepth)
             un2 == Exprs(CallerVars \union {Bound}, 2 * MaxDepth)
  <2>1. /\ CallerTypesOver(locs, MaxDepth) = TypesTo(leaves, {}, {Bound}, ex, un, MaxDepth)
        /\ OverLocs(locs) = TypesTo(leaves, {}, {Bound}, ex2, un2, 2 * MaxDepth)
    BY TypesAreLevels DEF CallerTypesOver, OverLocs, CallerTo
  <2>2. ex \subseteq ex2 /\ un \subseteq un2
    BY ExprsGrow, MaxDepthIsNat
  <2> HIDE DEF leaves, ex, ex2, un, un2
  <2> QED
    BY <2>1, <2>2, TypesGrow, MaxDepthIsNat
<1>3. OverLocs(locs) \subseteq OverLocs(locs2)
  BY CallerGrow, MaxDepthIsNat DEF OverLocs
<1>4. \A n \in Nat : n <= MaxDepth => CallerTo(locs, n) \subseteq OverLocs(locs2)
  <2> SUFFICES ASSUME NEW n \in Nat, n <= MaxDepth PROVE CallerTo(locs, n) \subseteq OverLocs(locs2)
    OBVIOUS
  <2>1. n <= 2 * MaxDepth
    BY MaxDepthIsNat
  <2> QED
    BY <2>1, CallerGrow, MaxDepthIsNat DEF OverLocs
<1> QED
  BY <1>1, <1>2, <1>3, <1>4 DEF CallerTypes

(* A type whose variables and locations have instances is lowered, to one  *)
(* over the locations of the instances.                                    *)
InstOfLocs(s, locs) == \A l \in DOMAIN s.locs : s.locs[l] \in locs

LEMMA LowerTyTyped ==
  ASSUME NEW W, W \subseteq CoreVars, NEW L, L \subseteq Nat, NEW LL, LL \subseteq CallerLocs,
         NEW s, InstOfExprs(s), InstOfLocs(s, LL), NEW ty \in CoreTypesOver(L, W)
  PROVE  /\ LowerTy(ty, s) \in OverLocs(LL) \union {Err}
         /\ Covered(s, W) /\ L \subseteq DOMAIN s.locs => LowerTy(ty, s) # Err
<1> DEFINE R(t) == LowerTy(t, s)
           From(n) == CoreTo(L, W, n)
           To(n) == CallerTo(LL, n)
           complete == Covered(s, W) /\ L \subseteq DOMAIN s.locs
           OK(t, n) == R(t) \in To(n) \union {Err} /\ (complete => R(t) # Err)
           T == {n \in Nat : n <= MaxDepth => \A t \in From(n) : OK(t, n)}
           ex == Exprs(CallerVars, 2 * MaxDepth)
<1>1. ASSUME NEW n \in Nat, n <= MaxDepth, NEW t \in From(n),
             n > 0 => \A y \in From(n - 1) : OK(y, n - 1)
      PROVE  OK(t, n)
  <2> DEFINE cargs == CallerArgs(LL, n)
             args == LoweredArgs(t, s)
             e == LowerExpr(t.expr, s)
  <2>0. \A c : c \in To(n) <=>
           c \in RefsAndParams(LL) \union {Weak} \/ RefineShape(ex, cargs, c) \/ ExistsShape({Bound}, ex, cargs, c)
    BY CallerCases
  <2>1. t \in CoreTypes
    BY <1>1, CoreGrow, CoreTypesTo, MaxDepthIsNat
  <2>2. Err \notin To(n)
    <3>0. LL \subseteq CallerLocs /\ n \in Nat /\ n <= MaxDepth
      BY <1>1
    <3>1. CallerTo(LL, n) \subseteq OverLocs(CallerLocs) /\ CallerTypes = OverLocs(CallerLocs)
      BY ONLY <3>0, OverLocsFacts
    <3> QED
      BY <3>1, SignatureAssumption
  <2>3. CASE t \in RefsAndParams(L)
    <3>1. CASE t.form = "ref"
      <4>1. R(t) = IF t.loc \in DOMAIN s.locs THEN MutRef(s.locs[t.loc]) ELSE Err
        BY <2>1, <3>1, LowerTyUnfold
      <4>2. t.loc \in L
        BY <2>3, <3>1, RefsAndParamsShape
      <4>3. t.loc \in DOMAIN s.locs => MutRef(s.locs[t.loc]) \in To(n)
        <5> HIDE DEF To
        <5> QED
          BY <2>0, RefsAndParamsShape DEF InstOfLocs
      <4> HIDE DEF R, To
      <4> QED
        BY <2>2, <4>1, <4>2, <4>3
    <3>2. CASE t.form # "ref"
      <4>1. t.form = "param" /\ t \in RefsAndParams(LL)
        BY <2>3, <3>2 DEF RefsAndParams
      <4>2. R(t) = t
        BY <2>1, <4>1, LowerTyUnfold
      <4> HIDE DEF R, To
      <4> QED
        BY <2>0, <2>2, <4>1, <4>2
    <3> QED
      BY <3>1, <3>2
  <2>4. CASE t \notin RefsAndParams(L)
    <3>1. RefineShape(Exprs(W, MaxDepth), CoreArgs(L, W, n), t)
          \/ ExistsShape({Bound}, Exprs(W \union {Bound}, MaxDepth), CoreArgs(L, W, n), t)
      BY <2>4, CoreCases
    <3>2. t.form \in {"refine", "exists"} /\ PathShape(CoreArgs(L, W, n), t.path)
      BY <3>1 DEF RefineShape, ExistsShape
    <3>3. R(t) = Lowered(t, args, e)
      BY <2>1, <3>2, LowerTyUnfold
    <3>4. e \in ex \union {Err} /\ (complete => e # Err)
      <4>1. CASE RefineShape(Exprs(W, MaxDepth), CoreArgs(L, W, n), t)
        BY <4>1, LowerExprTyped DEF RefineShape
      <4>2. CASE ExistsShape({Bound}, Exprs(W \union {Bound}, MaxDepth), CoreArgs(L, W, n), t)
        <5>1. W \union {Bound} \subseteq CoreVars
          BY DEF CoreVars
        <5>2. Covered(s, W) => Covered(s, W \union {Bound})
          BY DEF Covered
        <5>3. t.expr \in Exprs(W \union {Bound}, MaxDepth)
          BY <4>2 DEF ExistsShape
        <5> QED
          BY <5>1, <5>2, <5>3, LowerExprTyped
      <4> QED
        BY <3>1, <4>1, <4>2
    <3>5. t.path.ident \in STRING /\ t.path.args \in CoreArgs(L, W, n)
      BY <3>2 DEF PathShape
    <3> HIDE DEF R, To, ex, complete, e
    <3>6. args \in CallerArgs(LL, n) \/ \E k \in DOMAIN args : args[k] = Err
      <4>1. CASE n = 0
        <5>1. t.path.args = <<>> /\ cargs = {<<>>}
          BY <3>5, <4>1, CoreCases, CallerCases
        <5> QED
          BY <5>1 DEF LoweredArgs
      <4>2. CASE n # 0
        <5>1. t.path.args \in Seq(From(n - 1)) /\ cargs = Seq(To(n - 1))
          BY <3>5, <4>2, CoreCases, CallerCases DEF To
        <5> HIDE DEF From
        <5>2. Len(t.path.args) \in Nat /\ DOMAIN t.path.args = 1..Len(t.path.args)
          BY <5>1, LenProperties
        <5>3. \A k \in 1..Len(t.path.args) : R(t.path.args[k]) \in To(n - 1) \union {Err}
          BY <1>1, <4>2, <5>1, <5>2
        <5>4. args = [k \in 1..Len(t.path.args) |-> R(t.path.args[k])]
          BY <5>2 DEF LoweredArgs, R
        <5> HIDE DEF args
        <5>5. (\A k \in DOMAIN args : args[k] # Err) => args \in Seq(To(n - 1))
          BY <5>2, <5>3, <5>4, SMTT(60)
        <5> HIDE DEF cargs
        <5> QED
          BY <5>1, <5>5 DEF cargs
      <4> QED
        BY <4>1, <4>2
    <3>7. complete => \A k \in DOMAIN args : args[k] # Err
      <4> SUFFICES ASSUME complete, NEW k \in DOMAIN t.path.args PROVE R(t.path.args[k]) # Err
        BY DEF LoweredArgs, R
      <4>1. CASE n = 0
        <5>1. t.path.args = <<>>
          BY <3>5, <4>1, CoreCases
        <5> QED
          BY <5>1
      <4>2. CASE n # 0
        <5>1. t.path.args \in Seq(From(n - 1))
          BY <3>5, <4>2, CoreCases
        <5> HIDE DEF From
        <5>2. t.path.args[k] \in From(n - 1)
          BY <5>1
        <5> QED
          BY <1>1, <4>2, <5>2
      <4> QED
        BY <4>1, <4>2
    <3> HIDE DEF args
    <3>8. args \in cargs /\ e \in ex =>
             /\ RefineShape(ex, cargs, Refine(Path(t.path.ident, args), e))
             /\ ExistsShape({Bound}, ex, cargs, Exists(Path(t.path.ident, args), Bound, e))
      BY <3>5 DEF RefineShape, ExistsShape, Refine, Exists, PathShape, Path
    <3>9. CASE e = Err \/ \E k \in DOMAIN args : args[k] = Err
      BY <3>3, <3>4, <3>7, <3>9 DEF Lowered
    <3>10. CASE e # Err /\ \A k \in DOMAIN args : args[k] # Err
      <4>1. R(t) \in To(n)
        BY <2>0, <3>3, <3>4, <3>6, <3>8, <3>10 DEF Lowered
      <4> QED
        BY <2>2, <4>1
    <3> QED
      BY <3>9, <3>10
  <2> QED
    BY <2>3, <2>4
<1> HIDE DEF R, To, From, ex, complete
<1>2. 0 \in T
  <2>1. 0 \in Nat /\ 0 <= MaxDepth /\ ~ (0 > 0)
    BY MaxDepthIsNat
  <2> QED
    BY <1>1, <2>1
<1>3. ASSUME NEW n \in Nat, n \in T PROVE n + 1 \in T
  <2>1. n + 1 \in Nat /\ (n + 1) - 1 = n /\ (n + 1 <= MaxDepth => n <= MaxDepth)
    BY MaxDepthIsNat
  <2> QED
    BY <1>1, <1>3, <2>1
<1> HIDE DEF T
<1>4. Nat \subseteq T
  BY <1>2, <1>3, SetInduction
<1>5. ty \in From(MaxDepth)
  BY CoreTypesTo DEF From
<1>6. OK(ty, MaxDepth)
  BY <1>4, <1>5, MaxDepthIsNat DEF T
<1>7. To(MaxDepth) \subseteq OverLocs(LL)
  BY OverLocsFacts, MaxDepthIsNat DEF To
<1> QED
  BY <1>6, <1>7 DEF R, complete


(* The locations of a type are those it is over, and it is one over its    *)
(* locations.                                                              *)
LEMMA CoreLocs ==
  ASSUME NEW W, W \subseteq CoreVars, NEW L, L \subseteq Nat, NEW L2,
         NEW ty \in CoreTypesOver(L, W)
  PROVE  /\ LocsOf(CoreTypes, ty) \subseteq L
         /\ LocsOf(CoreTypes, ty) \subseteq L2 => ty \in CoreTypesOver(L2, W)
<1> DEFINE R(t) == LocsOf(CoreTypes, t)
           From(n) == CoreTo(L, W, n)
           To(n) == CoreTo(L2, W, n)
           OK(t, n) == R(t) \subseteq L /\ (R(t) \subseteq L2 => t \in To(n))
           T == {n \in Nat : n <= MaxDepth => \A t \in From(n) : OK(t, n)}
           ex == Exprs(W, MaxDepth)
           un == Exprs(W \union {Bound}, MaxDepth)
<1>1. ASSUME NEW n \in Nat, n <= MaxDepth, NEW t \in From(n),
             n > 0 => \A y \in From(n - 1) : OK(y, n - 1)
      PROVE  OK(t, n)
  <2> DEFINE fargs == CoreArgs(L, W, n)
             targs == CoreArgs(L2, W, n)
             inner == [k \in DOMAIN t.path.args |-> R(t.path.args[k])]
  <2>0. \A c : c \in To(n) <=>
           c \in RefsAndParams(L2) \/ RefineShape(ex, targs, c) \/ ExistsShape({Bound}, un, targs, c)
    BY CoreCases
  <2>1. t \in CoreTypes
    BY <1>1, CoreGrow, CoreTypesTo, MaxDepthIsNat
  <2>2. /\ t.form = "ref" => R(t) = {t.loc}
        /\ t.form \in {"refine", "exists"} => R(t) = UnionOf(inner)
        /\ t.form \notin {"ref", "refine", "exists"} => R(t) = {}
    BY <2>1, CoreLocsUnfold DEF LocsOfArgs
  <2>3. CASE t \in RefsAndParams(L)
    <3>1. CASE t.form = "ref"
      <4>1. t.loc \in L /\ t = MutRef(t.loc) /\ R(t) = {t.loc}
        BY <2>2, <2>3, <3>1, RefsAndParamsShape
      <4> HIDE DEF R, To
      <4> QED
        BY <2>0, <4>1, RefsAndParamsShape
    <3>2. CASE t.form # "ref"
      <4>1. t.form = "param" /\ t \in RefsAndParams(L2)
        BY <2>3, <3>2 DEF RefsAndParams
      <4>2. R(t) = {}
        BY <2>2, <4>1
      <4> HIDE DEF R, To
      <4> QED
        BY <2>0, <4>1, <4>2
    <3> QED
      BY <3>1, <3>2
  <2>4. CASE t \notin RefsAndParams(L)
    <3>1. RefineShape(ex, fargs, t) \/ ExistsShape({Bound}, un, fargs, t)
      BY <2>4, CoreCases
    <3>2. t.form \in {"refine", "exists"} /\ PathShape(fargs, t.path)
      BY <3>1 DEF RefineShape, ExistsShape
    <3>3. t.path.ident \in STRING /\ t.path.args \in fargs /\ t.path = Path(t.path.ident, t.path.args)
      BY <3>2 DEF PathShape
    <3>4. R(t) = UnionOf(inner)
      BY <2>2, <3>2
    <3>5. \A k \in DOMAIN t.path.args : R(t.path.args[k]) \subseteq R(t)
      BY <3>4 DEF UnionOf
    <3>6. \A l \in R(t) : \E k \in DOMAIN t.path.args : l \in R(t.path.args[k])
      BY <3>4 DEF UnionOf
    <3>7. targs \in {targs} /\ (t.path.args \in targs => t \in To(n))
      <4>1. t.path.args \in targs => PathShape(targs, t.path)
        BY <3>3 DEF PathShape
      <4> HIDE DEF To
      <4> QED
        BY <2>0, <3>1, <4>1 DEF RefineShape, ExistsShape
    <3>8. CASE n = 0
      <4>1. t.path.args = <<>> /\ targs = {<<>>}
        BY <3>3, <3>8, CoreCases
      <4>2. R(t) = {}
        BY <3>6, <4>1
      <4> QED
        BY <3>7, <4>1, <4>2
    <3>9. CASE n # 0
      <4>1. t.path.args \in Seq(From(n - 1)) /\ targs = Seq(To(n - 1))
        BY <3>3, <3>9, CoreCases
      <4> HIDE DEF From, To, R, targs
      <4>2. Len(t.path.args) \in Nat /\ DOMAIN t.path.args = 1..Len(t.path.args)
            /\ t.path.args = [k \in 1..Len(t.path.args) |-> t.path.args[k]]
        BY <4>1, LenProperties
      <4>3. \A k \in DOMAIN t.path.args : OK(t.path.args[k], n - 1)
        BY <1>1, <3>9, <4>1, <4>2
      <4>4. R(t) \subseteq L
        BY <3>6, <4>3
      <4>5. ASSUME R(t) \subseteq L2 PROVE t.path.args \in targs
        <5>1. \A k \in 1..Len(t.path.args) : t.path.args[k] \in To(n - 1)
          BY <3>5, <4>2, <4>3, <4>5
        <5> DEFINE args == t.path.args
        <5>2. args = [k \in 1..Len(args) |-> args[k]] /\ Len(args) \in Nat
              /\ \A k \in 1..Len(args) : args[k] \in To(n - 1)
          BY <4>2, <5>1
        <5> HIDE DEF args
        <5>3. args \in Seq(To(n - 1))
          BY <5>2
        <5> QED
          BY <4>1, <5>3 DEF args
      <4> QED
        BY <3>7, <4>4, <4>5
    <3> QED
      BY <3>8, <3>9
  <2> QED
    BY <2>3, <2>4
<1> HIDE DEF R, To, From, ex, un
<1>2. 0 \in T
  <2>1. 0 \in Nat /\ 0 <= MaxDepth /\ ~ (0 > 0)
    BY MaxDepthIsNat
  <2> QED
    BY <1>1, <2>1
<1>3. ASSUME NEW n \in Nat, n \in T PROVE n + 1 \in T
  <2>1. n + 1 \in Nat /\ (n + 1) - 1 = n /\ (n + 1 <= MaxDepth => n <= MaxDepth)
    BY MaxDepthIsNat
  <2> QED
    BY <1>1, <1>3, <2>1
<1> HIDE DEF T
<1>4. Nat \subseteq T
  BY <1>2, <1>3, SetInduction
<1>5. ty \in From(MaxDepth)
  BY CoreTypesTo DEF From
<1>6. OK(ty, MaxDepth)
  BY <1>4, <1>5, MaxDepthIsNat DEF T
<1> QED
  BY <1>6, CoreTypesTo DEF R, To

LEMMA CallerLocsUnfold ==
  ASSUME NEW x \in CallerTypes
  PROVE  /\ x.form = "ref" => LocsOf(CallerTypes, x) = {x.loc}
         /\ x.form \in {"refine", "exists"} =>
              LocsOf(CallerTypes, x) =
                  LocsOfArgs(CallerTypes, x)
         /\ x.form \notin {"ref", "refine", "exists"} => LocsOf(CallerTypes, x) = {}
<1> DEFINE leaves == RefsAndParams(CallerLocs) \union {Weak}
           ex == Exprs(CallerVars, 2 * MaxDepth)
           un == Exprs(CallerVars \union {Bound}, 2 * MaxDepth)
           none == {}
           bound == {Bound}
           n == 2 * MaxDepth
           tys == CallerTypes
<1>1. \A c \in leaves : c.form \notin {"refine", "exists"}
  BY DEF RefsAndParams, Weak
<1>2. tys = TypesTo(leaves, none, bound, ex, un, n) /\ n \in Nat
  BY OverLocsFacts, MaxDepthIsNat DEF OverLocs, CallerTo
<1>3. x \in tys
  OBVIOUS
<1> HIDE DEF leaves, none, bound, ex, un, n, tys
<1>4. /\ x.form = "ref" => LocsOf(tys, x) = {x.loc}
      /\ x.form \in {"refine", "exists"} =>
           LocsOf(tys, x) = LocsOfArgs(tys, x)
      /\ x.form \notin {"ref", "refine", "exists"} => LocsOf(tys, x) = {}
  BY ONLY <1>1, <1>2, <1>3, LocsOfUnfold
<1> QED
  BY <1>4 DEF tys

LEMMA CallerLocsOf ==
  ASSUME NEW L, L \subseteq CallerLocs, NEW ty \in OverLocs(L)
  PROVE  LocsOf(CallerTypes, ty) \subseteq L
<1> DEFINE R(t) == LocsOf(CallerTypes, t)
           From(n) == CallerTo(L, n)
           D == 2 * MaxDepth
           T == {n \in Nat : n <= D => \A t \in From(n) : R(t) \subseteq L}
           ex == Exprs(CallerVars, D)
<1>0. D \in Nat
  BY MaxDepthIsNat
<1>1. ASSUME NEW n \in Nat, n <= D, NEW t \in From(n),
             n > 0 => \A y \in From(n - 1) : R(y) \subseteq L
      PROVE  R(t) \subseteq L
  <2> DEFINE fargs == CallerArgs(L, n)
             inner == [k \in DOMAIN t.path.args |-> R(t.path.args[k])]
  <2>1. t \in CallerTypes
    <3>1. From(n) \subseteq OverLocs(CallerLocs)
      BY <1>0, <1>1, CallerGrow DEF OverLocs
    <3> QED
      BY <1>1, <3>1, OverLocsFacts
  <2>2. /\ t.form = "ref" => R(t) = {t.loc}
        /\ t.form \in {"refine", "exists"} => R(t) = UnionOf(inner)
        /\ t.form \notin {"ref", "refine", "exists"} => R(t) = {}
    BY <2>1, CallerLocsUnfold DEF LocsOfArgs
  <2>3. CASE t \in RefsAndParams(L) \union {Weak}
    BY <2>2, <2>3, RefsAndParamsShape DEF Weak
  <2>4. CASE t \notin RefsAndParams(L) \union {Weak}
    <3>1. RefineShape(ex, fargs, t) \/ ExistsShape({Bound}, ex, fargs, t)
      BY <2>4, CallerCases
    <3>2. t.form \in {"refine", "exists"} /\ PathShape(fargs, t.path)
      BY <3>1 DEF RefineShape, ExistsShape
    <3>3. t.path.args \in fargs
      BY <3>2 DEF PathShape
    <3>4. R(t) = UnionOf(inner)
      BY <2>2, <3>2
    <3>6. \A l \in R(t) : \E k \in DOMAIN t.path.args : l \in R(t.path.args[k])
      BY <3>4 DEF UnionOf
    <3>8. CASE n = 0
      <4>1. t.path.args = <<>>
        BY <3>3, <3>8, CallerCases
      <4> QED
        BY <3>6, <4>1
    <3>9. CASE n # 0
      <4>1. t.path.args \in Seq(From(n - 1))
        BY <3>3, <3>9, CallerCases
      <4> HIDE DEF From, R
      <4>2. \A k \in DOMAIN t.path.args : t.path.args[k] \in From(n - 1)
        BY <4>1
      <4> QED
        BY <1>1, <3>6, <3>9, <4>2
    <3> QED
      BY <3>8, <3>9
  <2> QED
    BY <2>3, <2>4
<1> HIDE DEF R, From, ex, D
<1>2. 0 \in T
  BY <1>1
<1>3. ASSUME NEW n \in Nat, n \in T PROVE n + 1 \in T
  <2>1. n + 1 \in Nat /\ (n + 1) - 1 = n /\ (n + 1 <= D => n <= D)
    BY <1>0
  <2> QED
    BY <1>1, <1>3, <2>1
<1> HIDE DEF T
<1>4. Nat \subseteq T
  BY <1>2, <1>3, SetInduction
<1> QED
  BY <1>0, <1>4 DEF T, R, From, D, OverLocs


-----------------------------------------------------------------------------
(* What the resolver makes of a signature                                  *)

ParamItems == [name : Nat, sort : Sorts, pred : CoreExprs]
Located == [loc : Nat, ty : CoreTypes]
Signatures ==
    [params : Seq(ParamItems) \union {Err}, requires : Seq(Located) \union {Err},
     args : Seq(CoreTypes) \union {Err}, ensures : Seq(Located) \union {Err},
     ret : CoreTypes \union {Err}, items : 0..MaxItems]

(* No section has failed.                                                  *)
Clean(s) == s.params # Err /\ s.requires # Err /\ s.args # Err /\ s.ensures # Err

VarsOf(s, n) == {Free(s.params[k].name) : k \in 1..n}
ReqOf(s, n) == {s.requires[k].loc : k \in 1..n}
EnsOf(s, n) == {s.ensures[k].loc : k \in 1..n}
AllVars(s) == VarsOf(s, Len(s.params))
AllReq(s) == ReqOf(s, Len(s.requires))
AllLocs(s) == AllReq(s) \union EnsOf(s, Len(s.ensures))

(* Every variable and every region is declared no later than its use, and  *)
(* no variable twice.                                                      *)
ParamsClosed(s) ==
    /\ \A k \in 1..Len(s.params) : s.params[k].pred \in Exprs(VarsOf(s, k), MaxDepth)
    /\ \A k \in 1..Len(s.params), i \in 1..Len(s.params) :
          i # k => s.params[i].name # s.params[k].name
RequiresClosed(s) ==
    \A k \in 1..Len(s.requires) : s.requires[k].ty \in CoreTypesOver(ReqOf(s, k), AllVars(s))
ArgsClosed(s) ==
    \A k \in 1..Len(s.args) : s.args[k] \in CoreTypesOver(AllReq(s), AllVars(s))
EnsuresClosed(s) ==
    \A k \in 1..Len(s.ensures) :
        s.ensures[k].ty \in CoreTypesOver(AllReq(s) \union EnsOf(s, k), AllVars(s))
Closed(s) == ParamsClosed(s) /\ RequiresClosed(s) /\ ArgsClosed(s) /\ EnsuresClosed(s)

(* What is in scope is declared, and the parameters have names below n.    *)
InScope(s, xs, locs, n) ==
    /\ \A x \in DOMAIN xs : xs[x] \in AllVars(s)
    /\ \A r \in DOMAIN locs : locs[r] \in AllLocs(s)
    /\ \A k \in 1..Len(s.params) : s.params[k].name < n

LEMMA CoreOverGrow ==
  ASSUME NEW locs, NEW locs2, locs \subseteq locs2, NEW vs, NEW vs2, vs \subseteq vs2
  PROVE  CoreTypesOver(locs, vs) \subseteq CoreTypesOver(locs2, vs2)
<1>1. MaxDepth <= MaxDepth
  BY MaxDepthIsNat
<1>2. CoreTo(locs, vs, MaxDepth) \subseteq CoreTo(locs2, vs2, MaxDepth)
  BY <1>1, CoreGrow, MaxDepthIsNat
<1> QED
  BY <1>2, CoreTypesTo

LEMMA CleanSections ==
  ASSUME NEW s \in Signatures, Clean(s)
  PROVE  /\ s.params \in Seq(ParamItems) /\ s.requires \in Seq(Located)
         /\ s.args \in Seq(CoreTypes) /\ s.ensures \in Seq(Located)
         /\ Len(s.params) \in Nat /\ Len(s.requires) \in Nat
         /\ Len(s.args) \in Nat /\ Len(s.ensures) \in Nat
         /\ DOMAIN s.params = 1..Len(s.params) /\ DOMAIN s.requires = 1..Len(s.requires)
         /\ DOMAIN s.args = 1..Len(s.args) /\ DOMAIN s.ensures = 1..Len(s.ensures)
<1>1. /\ s.params \in Seq(ParamItems) /\ s.requires \in Seq(Located)
      /\ s.args \in Seq(CoreTypes) /\ s.ensures \in Seq(Located)
  BY DEF Signatures, Clean
<1> QED
  BY <1>1, LenProperties

LEMMA Appended ==
  ASSUME NEW X, NEW q \in Seq(X), NEW x \in X
  PROVE  /\ Append(q, x) \in Seq(X)
         /\ Len(q) \in Nat /\ Len(Append(q, x)) = Len(q) + 1
         /\ \A k \in 1..Len(q) : Append(q, x)[k] = q[k]
         /\ Append(q, x)[Len(q) + 1] = x
OBVIOUS

(* A parameter, whose name no other has, and whose predicate is over it    *)
(* and those before it.                                                    *)
LEMMA ParamAppended ==
  ASSUME NEW s \in Signatures, Clean(s), Closed(s), NEW t, NEW item \in ParamItems,
         t.params = Append(s.params, item), t.requires = s.requires,
         t.args = s.args, t.ensures = s.ensures,
         item.pred \in Exprs(AllVars(s) \union {Free(item.name)}, MaxDepth),
         \A k \in 1..Len(s.params) : s.params[k].name # item.name
  PROVE  /\ Closed(t) /\ AllVars(t) = AllVars(s) \union {Free(item.name)}
         /\ AllLocs(t) = AllLocs(s)
<1> DEFINE n == Len(s.params)
<1>1. /\ s.params \in Seq(ParamItems) /\ n \in Nat /\ Len(t.params) = n + 1
      /\ \A k \in 1..n : t.params[k] = s.params[k]
      /\ t.params[n + 1] = item
  BY CleanSections, Appended
<1> HIDE DEF n
<1>2. \A k \in 1..n : VarsOf(t, k) = VarsOf(s, k)
  BY <1>1 DEF VarsOf
<1>3. VarsOf(t, n + 1) = VarsOf(s, n) \union {Free(item.name)}
  <2>1. \A k : k \in 1..(n + 1) <=> k \in 1..n \/ k = n + 1
    BY <1>1
  <2> QED
    BY <1>1, <2>1 DEF VarsOf
<1>4. AllVars(t) = AllVars(s) \union {Free(item.name)}
  BY <1>1, <1>3 DEF AllVars, n
<1>5. ParamsClosed(t)
  <2>1. ASSUME NEW k \in 1..Len(t.params)
        PROVE  t.params[k].pred \in Exprs(VarsOf(t, k), MaxDepth)
    <3>1. CASE k = n + 1
      BY <1>1, <1>3, <3>1 DEF AllVars, n
    <3>2. CASE k # n + 1
      <4>1. k \in 1..n
        BY <1>1, <3>2
      <4> QED
        BY <1>1, <1>2, <4>1 DEF Closed, ParamsClosed, n
    <3> QED
      BY <3>1, <3>2
  <2>2. ASSUME NEW k \in 1..Len(t.params), NEW i \in 1..Len(t.params), i # k
        PROVE  t.params[i].name # t.params[k].name
    <3>1. \A m \in 1..Len(t.params) : m \in 1..n \/ m = n + 1
      BY <1>1
    <3>2. CASE i \in 1..n /\ k \in 1..n
      BY <1>1, <2>2, <3>2 DEF Closed, ParamsClosed, n
    <3>3. CASE ~ (i \in 1..n /\ k \in 1..n)
      BY <1>1, <2>2, <3>1, <3>3 DEF n
    <3> QED
      BY <3>2, <3>3
  <2> QED
    BY <2>1, <2>2 DEF ParamsClosed
<1>6. /\ \A k : ReqOf(t, k) = ReqOf(s, k) /\ EnsOf(t, k) = EnsOf(s, k)
      /\ AllReq(t) = AllReq(s) /\ AllLocs(t) = AllLocs(s)
  BY DEF ReqOf, EnsOf, AllReq, AllLocs
<1>7. \A locs : CoreTypesOver(locs, AllVars(s)) \subseteq CoreTypesOver(locs, AllVars(t))
  BY <1>4, CoreOverGrow
<1>8. RequiresClosed(t)
  BY <1>6, <1>7 DEF Closed, RequiresClosed
<1>9. ArgsClosed(t)
  BY <1>6, <1>7 DEF Closed, ArgsClosed
<1>10. EnsuresClosed(t)
  BY <1>6, <1>7 DEF Closed, EnsuresClosed
<1> QED
  BY <1>4, <1>5, <1>6, <1>8, <1>9, <1>10 DEF Closed


(* A required region, in scope of its own type.                            *)
LEMMA RequiredAppended ==
  ASSUME NEW s \in Signatures, Clean(s), Closed(s), NEW t, NEW item \in Located,
         t.requires = Append(s.requires, item), t.params = s.params,
         t.args = s.args, t.ensures = s.ensures,
         item.ty \in CoreTypesOver(AllReq(s) \union {item.loc}, AllVars(s))
  PROVE  /\ Closed(t) /\ AllVars(t) = AllVars(s)
         /\ AllLocs(t) = AllLocs(s) \union {item.loc}
<1> DEFINE n == Len(s.requires)
<1>1. /\ s.requires \in Seq(Located) /\ n \in Nat /\ Len(t.requires) = n + 1
      /\ \A k \in 1..n : t.requires[k] = s.requires[k]
      /\ t.requires[n + 1] = item
  BY CleanSections, Appended
<1> HIDE DEF n
<1>2. \A k \in 1..n : ReqOf(t, k) = ReqOf(s, k)
  BY <1>1 DEF ReqOf
<1>3. ReqOf(t, n + 1) = ReqOf(s, n) \union {item.loc}
  <2>1. \A k : k \in 1..(n + 1) <=> k \in 1..n \/ k = n + 1
    BY <1>1
  <2> QED
    BY <1>1, <2>1 DEF ReqOf
<1>4. AllReq(t) = AllReq(s) \union {item.loc}
  BY <1>1, <1>3 DEF AllReq, n
<1>5. /\ \A k : VarsOf(t, k) = VarsOf(s, k) /\ EnsOf(t, k) = EnsOf(s, k)
      /\ AllVars(t) = AllVars(s)
  BY DEF VarsOf, EnsOf, AllVars
<1>6. RequiresClosed(t)
  <2>1. ASSUME NEW k \in 1..Len(t.requires)
        PROVE  t.requires[k].ty \in CoreTypesOver(ReqOf(t, k), AllVars(t))
    <3>1. CASE k = n + 1
      BY <1>1, <1>3, <1>5, <3>1 DEF AllReq, n
    <3>2. CASE k # n + 1
      <4>1. k \in 1..n
        BY <1>1, <3>2
      <4> QED
        BY <1>1, <1>2, <1>5, <4>1 DEF Closed, RequiresClosed, n
    <3> QED
      BY <3>1, <3>2
  <2> QED
    BY <2>1 DEF RequiresClosed
<1>7. \A locs : CoreTypesOver(AllReq(s) \union locs, AllVars(s)) \subseteq
                CoreTypesOver(AllReq(t) \union locs, AllVars(t))
  <2> SUFFICES ASSUME NEW locs
               PROVE  CoreTypesOver(AllReq(s) \union locs, AllVars(s)) \subseteq
                      CoreTypesOver(AllReq(t) \union locs, AllVars(t))
    OBVIOUS
  <2>1. AllReq(s) \union locs \subseteq AllReq(t) \union locs
    BY <1>4
  <2> QED
    BY <1>5, <2>1, CoreOverGrow
<1>8. ArgsClosed(t)
  <2>1. CoreTypesOver(AllReq(s), AllVars(s)) \subseteq CoreTypesOver(AllReq(t), AllVars(t))
    BY <1>4, <1>5, CoreOverGrow
  <2> QED
    BY <2>1 DEF Closed, ArgsClosed
<1>9. EnsuresClosed(t)
  BY <1>5, <1>7 DEF Closed, EnsuresClosed
<1>10. ParamsClosed(t)
  BY <1>5 DEF Closed, ParamsClosed
<1> QED
  BY <1>4, <1>5, <1>6, <1>8, <1>9, <1>10 DEF Closed, AllLocs, EnsOf

LEMMA ArgAppended ==
  ASSUME NEW s \in Signatures, Clean(s), Closed(s), NEW t, NEW item \in CoreTypes,
         t.args = Append(s.args, item), t.params = s.params,
         t.requires = s.requires, t.ensures = s.ensures,
         item \in CoreTypesOver(AllReq(s), AllVars(s))
  PROVE  Closed(t) /\ AllVars(t) = AllVars(s) /\ AllLocs(t) = AllLocs(s)
<1> DEFINE n == Len(s.args)
<1>1. /\ s.args \in Seq(CoreTypes) /\ n \in Nat /\ Len(t.args) = n + 1
      /\ \A k \in 1..n : t.args[k] = s.args[k]
      /\ t.args[n + 1] = item
  BY CleanSections, Appended
<1> HIDE DEF n
<1>2. /\ \A k : VarsOf(t, k) = VarsOf(s, k) /\ EnsOf(t, k) = EnsOf(s, k) /\ ReqOf(t, k) = ReqOf(s, k)
      /\ AllVars(t) = AllVars(s) /\ AllReq(t) = AllReq(s) /\ AllLocs(t) = AllLocs(s)
  BY DEF VarsOf, EnsOf, ReqOf, AllVars, AllReq, AllLocs
<1>3. ArgsClosed(t)
  <2>1. ASSUME NEW k \in 1..Len(t.args)
        PROVE  t.args[k] \in CoreTypesOver(AllReq(t), AllVars(t))
    <3>1. CASE k = n + 1
      BY <1>1, <1>2, <3>1
    <3>2. CASE k # n + 1
      <4>1. k \in 1..n
        BY <1>1, <3>2
      <4> QED
        BY <1>1, <1>2, <4>1 DEF Closed, ArgsClosed, n
    <3> QED
      BY <3>1, <3>2
  <2> QED
    BY <2>1 DEF ArgsClosed
<1> QED
  BY <1>2, <1>3 DEF Closed, ParamsClosed, RequiresClosed, EnsuresClosed

(* A location of ensures, required or not, in scope of its own type.       *)
LEMMA EnsuredAppended ==
  ASSUME NEW s \in Signatures, Clean(s), Closed(s), NEW t, NEW item \in Located,
         t.ensures = Append(s.ensures, item), t.params = s.params,
         t.requires = s.requires, t.args = s.args,
         item.ty \in CoreTypesOver(AllLocs(s) \union {item.loc}, AllVars(s))
  PROVE  /\ Closed(t) /\ AllVars(t) = AllVars(s)
         /\ AllLocs(t) = AllLocs(s) \union {item.loc}
<1> DEFINE n == Len(s.ensures)
<1>1. /\ s.ensures \in Seq(Located) /\ n \in Nat /\ Len(t.ensures) = n + 1
      /\ \A k \in 1..n : t.ensures[k] = s.ensures[k]
      /\ t.ensures[n + 1] = item
  BY CleanSections, Appended
<1> HIDE DEF n
<1>2. \A k \in 1..n : EnsOf(t, k) = EnsOf(s, k)
  BY <1>1 DEF EnsOf
<1>3. EnsOf(t, n + 1) = EnsOf(s, n) \union {item.loc}
  <2>1. \A k : k \in 1..(n + 1) <=> k \in 1..n \/ k = n + 1
    BY <1>1
  <2> QED
    BY <1>1, <2>1 DEF EnsOf
<1>4. /\ \A k : VarsOf(t, k) = VarsOf(s, k) /\ ReqOf(t, k) = ReqOf(s, k)
      /\ AllVars(t) = AllVars(s) /\ AllReq(t) = AllReq(s)
  BY DEF VarsOf, ReqOf, AllVars, AllReq
<1>5. AllLocs(t) = AllLocs(s) \union {item.loc}
  BY <1>1, <1>3, <1>4 DEF AllLocs, n
<1>6. EnsuresClosed(t)
  <2>1. ASSUME NEW k \in 1..Len(t.ensures)
        PROVE  t.ensures[k].ty \in CoreTypesOver(AllReq(t) \union EnsOf(t, k), AllVars(t))
    <3>1. CASE k = n + 1
      <4>1. AllReq(t) \union EnsOf(t, n + 1) = AllLocs(s) \union {item.loc}
        BY <1>3, <1>4 DEF AllLocs, n
      <4> QED
        BY <1>1, <1>4, <3>1, <4>1
    <3>2. CASE k # n + 1
      <4>1. k \in 1..n
        BY <1>1, <3>2
      <4> QED
        BY <1>1, <1>2, <1>4, <4>1 DEF Closed, EnsuresClosed, n
    <3> QED
      BY <3>1, <3>2
  <2> QED
    BY <2>1 DEF EnsuresClosed
<1> QED
  BY <1>4, <1>5, <1>6 DEF Closed, ParamsClosed, RequiresClosed, ArgsClosed


-----------------------------------------------------------------------------
(* The inductive invariant                                                 *)

(* Past the resolver.                                                      *)
Passed == at \notin Sections \union {"ret", "rejected"}

(* While no section has failed, what is read is closed, and so is the      *)
(* return type once it is read.                                            *)
ResolvedOK ==
    /\ sig \in Signatures
    /\ Clean(sig) => Closed(sig) /\ InScope(sig, exprs, regions, next_name)
    /\ at \in {"params", "requires", "args"} => sig.ensures = <<>>
    /\ at \in Sections \union {"ret"} => actuals = <<>>
    /\ Passed => Clean(sig) /\ sig.ret \in CoreTypesOver(AllLocs(sig), AllVars(sig))

Reads(s, t, section, item) ==
    t = [s EXCEPT ![section] = Collect(@, item), !.items = @ + 1]

LEMMA ReadParam ==
  ASSUME NEW s \in Signatures, NEW t, NEW item \in ParamItems \union {Err},
         s.items < MaxItems, Reads(s, t, "params", item)
  PROVE  /\ t \in Signatures /\ t.params = Collect(s.params, item) /\ t.requires = s.requires
         /\ t.args = s.args /\ t.ensures = s.ensures /\ t.ret = s.ret
<1>1. /\ t.params = Collect(s.params, item) /\ t.requires = s.requires
      /\ t.args = s.args /\ t.ensures = s.ensures /\ t.ret = s.ret /\ t.items = s.items + 1
  BY DEF Signatures, Reads
<1>2. Collect(s.params, item) \in Seq(ParamItems) \union {Err}
  BY Appended DEF Signatures, Collect
<1>3. s.items + 1 \in 0..MaxItems
  BY SignatureAssumption DEF Signatures
<1> QED
  BY <1>1, <1>2, <1>3 DEF Signatures, Reads

LEMMA ReadRequires ==
  ASSUME NEW s \in Signatures, NEW t, NEW item \in Located \union {Err},
         s.items < MaxItems, Reads(s, t, "requires", item)
  PROVE  /\ t \in Signatures /\ t.requires = Collect(s.requires, item) /\ t.params = s.params
         /\ t.args = s.args /\ t.ensures = s.ensures /\ t.ret = s.ret
<1>1. /\ t.requires = Collect(s.requires, item) /\ t.params = s.params
      /\ t.args = s.args /\ t.ensures = s.ensures /\ t.ret = s.ret /\ t.items = s.items + 1
  BY DEF Signatures, Reads
<1>2. Collect(s.requires, item) \in Seq(Located) \union {Err}
  BY Appended DEF Signatures, Collect
<1>3. s.items + 1 \in 0..MaxItems
  BY SignatureAssumption DEF Signatures
<1> QED
  BY <1>1, <1>2, <1>3 DEF Signatures, Reads

LEMMA ReadArg ==
  ASSUME NEW s \in Signatures, NEW t, NEW item \in CoreTypes \union {Err},
         s.items < MaxItems, Reads(s, t, "args", item)
  PROVE  /\ t \in Signatures /\ t.args = Collect(s.args, item) /\ t.params = s.params
         /\ t.requires = s.requires /\ t.ensures = s.ensures /\ t.ret = s.ret
<1>1. /\ t.args = Collect(s.args, item) /\ t.params = s.params
      /\ t.requires = s.requires /\ t.ensures = s.ensures /\ t.ret = s.ret /\ t.items = s.items + 1
  BY DEF Signatures, Reads
<1>2. Collect(s.args, item) \in Seq(CoreTypes) \union {Err}
  BY Appended DEF Signatures, Collect
<1>3. s.items + 1 \in 0..MaxItems
  BY SignatureAssumption DEF Signatures
<1> QED
  BY <1>1, <1>2, <1>3 DEF Signatures, Reads

LEMMA ReadEnsures ==
  ASSUME NEW s \in Signatures, NEW t, NEW item \in Located \union {Err},
         s.items < MaxItems, Reads(s, t, "ensures", item)
  PROVE  /\ t \in Signatures /\ t.ensures = Collect(s.ensures, item) /\ t.params = s.params
         /\ t.requires = s.requires /\ t.args = s.args /\ t.ret = s.ret
<1>1. /\ t.ensures = Collect(s.ensures, item) /\ t.params = s.params
      /\ t.requires = s.requires /\ t.args = s.args /\ t.ret = s.ret /\ t.items = s.items + 1
  BY DEF Signatures, Reads
<1>2. Collect(s.ensures, item) \in Seq(Located) \union {Err}
  BY Appended DEF Signatures, Collect
<1>3. s.items + 1 \in 0..MaxItems
  BY SignatureAssumption DEF Signatures
<1> QED
  BY <1>1, <1>2, <1>3 DEF Signatures, Reads


(* The part of TypeOK that is about names.                                 *)
NamesApart(xs, locs, n) ==
    /\ n \in Nat
    /\ \A x \in DOMAIN xs : xs[x] \in {Free(i) : i \in 0..(n - 1)}
    /\ \A r \in DOMAIN locs : locs[r] \in 0..(n - 1)
    /\ \A x \in DOMAIN xs, r \in DOMAIN locs : xs[x].name # locs[r]

PutIs(f, k, v, g) ==
    /\ DOMAIN g = DOMAIN f \union {k} /\ g[k] = v
    /\ \A x \in DOMAIN f : x # k => g[x] = f[x]

LEMMA PutFacts ==
  ASSUME NEW f, NEW k, NEW v
  PROVE  PutIs(f, k, v, Put(f, k, v))
BY DEF Put, PutIs

LEMMA NamesStayApart ==
  ASSUME NEW xs, NEW locs, NEW n, NamesApart(xs, locs, n), NEW k
  PROVE  /\ NamesApart(xs, locs, n + 1)
         /\ NamesApart(Put(xs, k, Free(n)), locs, n + 1)
         /\ NamesApart(xs, Put(locs, k, n), n + 1)
<1>1. /\ n \in Nat /\ n + 1 \in Nat /\ (n + 1) - 1 = n /\ n \in 0..n
      /\ \A i \in 0..(n - 1) : i \in 0..n /\ i # n
  BY DEF NamesApart
<1>2. /\ \A x \in DOMAIN xs : \E i \in 0..(n - 1) : xs[x] = Free(i)
      /\ \A r \in DOMAIN locs : locs[r] \in 0..(n - 1)
      /\ \A x \in DOMAIN xs, r \in DOMAIN locs : xs[x].name # locs[r]
  BY DEF NamesApart
<1>3. \A i : Free(i).name = i
  BY DEF Free
<1>4. NamesApart(xs, locs, n + 1)
  BY <1>1, <1>2 DEF NamesApart
<1>5. NamesApart(Put(xs, k, Free(n)), locs, n + 1)
  <2> DEFINE ys == Put(xs, k, Free(n))
  <2>1. \A x \in DOMAIN ys : ys[x] = Free(n) \/ (x \in DOMAIN xs /\ ys[x] = xs[x])
    <3>1. DOMAIN ys = DOMAIN xs \union {k} /\ ys[k] = Free(n)
          /\ \A x \in DOMAIN xs : x # k => ys[x] = xs[x]
      <4>1. PutIs(xs, k, Free(n), ys)
        BY PutFacts
      <4> HIDE DEF ys
      <4> QED
        BY <4>1 DEF PutIs
    <3> HIDE DEF ys
    <3> QED
      BY <3>1
  <2> HIDE DEF ys
  <2>2. \A x \in DOMAIN ys : \E i \in 0..n : ys[x] = Free(i)
    BY <1>1, <1>2, <2>1
  <2>3. \A x \in DOMAIN ys, r \in DOMAIN locs : ys[x].name # locs[r]
    BY <1>1, <1>2, <1>3, <2>1
  <2>4. NamesApart(ys, locs, n + 1)
    BY <1>1, <1>2, <2>2, <2>3 DEF NamesApart
  <2> QED
    BY <2>4 DEF ys
<1>6. NamesApart(xs, Put(locs, k, n), n + 1)
  <2> DEFINE ls == Put(locs, k, n)
  <2>1. \A r \in DOMAIN ls : ls[r] = n \/ (r \in DOMAIN locs /\ ls[r] = locs[r])
    <3>1. DOMAIN ls = DOMAIN locs \union {k} /\ ls[k] = n
          /\ \A r \in DOMAIN locs : r # k => ls[r] = locs[r]
      <4>1. PutIs(locs, k, n, ls)
        BY PutFacts
      <4> HIDE DEF ls
      <4> QED
        BY <4>1 DEF PutIs
    <3> HIDE DEF ls
    <3> QED
      BY <3>1
  <2> HIDE DEF ls
  <2>2. \A r \in DOMAIN ls : ls[r] \in 0..n
    BY <1>1, <1>2, <2>1
  <2>3. \A x \in DOMAIN xs, r \in DOMAIN ls : xs[x].name # ls[r]
    BY <1>1, <1>2, <1>3, <2>1
  <2>4. NamesApart(xs, ls, n + 1)
    BY <1>1, <1>2, <2>2, <2>3 DEF NamesApart
  <2> QED
    BY <2>4 DEF ls
<1> QED
  BY <1>4, <1>5, <1>6

Steps_ == Sections \union {"ret", "wf", "rejected", "accepted", "panicked",
                "infer", "ambiguous", "undetermined", "inference error",
                "lower", "update", "destination", "returned"}

LEMMA TypeOKParts ==
  TypeOK <=> /\ at \in Steps_
             /\ NamesApart(exprs, regions, next_name)
             /\ sig.items \in 0..MaxItems
             /\ DOMAIN actuals # {} => DOMAIN actuals = DOMAIN sig.args
BY DEF TypeOK, Steps_, NamesApart

LEMMA TypeOKNext ==
  ASSUME at' \in Steps_, NamesApart(exprs', regions', next_name'), sig'.items \in 0..MaxItems,
         DOMAIN actuals' = {} \/ DOMAIN actuals' = DOMAIN sig'.args
  PROVE  TypeOK'
BY DEF TypeOK, Steps_, NamesApart

LEMMA NamesOfSignature ==
  ASSUME NEW s \in Signatures, Clean(s)
  PROVE  AllVars(s) \subseteq CoreVars /\ AllLocs(s) \subseteq Nat /\ AllReq(s) \subseteq AllLocs(s)
<1>1. \A k \in 1..Len(s.params) : s.params[k].name \in Nat
  <2>1. \A k \in 1..Len(s.params) : s.params[k] \in ParamItems
    BY CleanSections
  <2> QED
    BY <2>1 DEF ParamItems
<1>2. \A k \in 1..Len(s.requires) : s.requires[k].loc \in Nat
  <2>1. \A k \in 1..Len(s.requires) : s.requires[k] \in Located
    BY CleanSections
  <2> QED
    BY <2>1 DEF Located
<1>3. \A k \in 1..Len(s.ensures) : s.ensures[k].loc \in Nat
  <2>1. \A k \in 1..Len(s.ensures) : s.ensures[k] \in Located
    BY CleanSections
  <2> QED
    BY <2>1 DEF Located
<1>4. \A n \in Nat : Free(n) \in CoreVars
  BY DEF Free, CoreVars
<1>5. AllVars(s) \subseteq CoreVars
  BY <1>1, <1>4 DEF AllVars, VarsOf
<1> QED
  BY <1>2, <1>3, <1>5 DEF AllLocs, AllReq, ReqOf, EnsOf

LEMMA ParamStep ==
  ASSUME TypeOK, ResolvedOK, NEW name \in STRING, NEW sort, NEW pred \in SurfaceExprs,
         ResolveParam(name, sort, pred)
  PROVE  TypeOK' /\ ResolvedOK'
<1> DEFINE scope == IF name \in DOMAIN exprs THEN exprs ELSE Put(exprs, name, Free(next_name))
           e == ResolveExpr(pred, scope)
           item == [name |-> next_name, sort |-> sort, pred |-> e]
           read == IF name \in DOMAIN exprs \/ sort \notin Sorts \/ e = Err THEN Err ELSE item
<1>1. /\ at = "params" /\ at' = at /\ sig.items < MaxItems
      /\ next_name' = next_name + 1 /\ exprs' = scope /\ regions' = regions
      /\ actuals' = actuals /\ Reads(sig, sig', "params", read)
  BY DEF ResolveParam, Reading, Items, Resolved, Reads
<1>2. NamesApart(exprs, regions, next_name) /\ next_name \in Nat /\ sig \in Signatures
  BY TypeOKParts DEF NamesApart, ResolvedOK
<1>3. \A x \in DOMAIN scope : scope[x] \in CoreVars
  <2>1. \A n \in Nat : Free(n) \in CoreVars
    BY DEF Free, CoreVars
  <2>2. \A x \in DOMAIN exprs : exprs[x] \in CoreVars
    BY <1>2, <2>1 DEF NamesApart
  <2> QED
    BY <1>2, <2>1, <2>2 DEF Put
<1>4. e \in CoreExprs \union {Err}
  BY <1>3, ResolveExprTyped DEF CoreExprs
<1>5. read \in ParamItems \union {Err}
  BY <1>2, <1>4 DEF ParamItems
<1>6. NamesApart(scope, regions, next_name + 1)
  BY <1>2, NamesStayApart
<1>7. (Clean(sig) /\ name \notin DOMAIN exprs) =>
         InScope(sig, exprs, regions, next_name) /\ e \in Exprs(AllVars(sig) \union {Free(next_name)}, MaxDepth) \union {Err}
  <2> SUFFICES ASSUME Clean(sig), name \notin DOMAIN exprs
               PROVE  InScope(sig, exprs, regions, next_name)
                      /\ e \in Exprs(AllVars(sig) \union {Free(next_name)}, MaxDepth) \union {Err}
    OBVIOUS
  <2>1. InScope(sig, exprs, regions, next_name)
    BY DEF ResolvedOK
  <2>2. \A x \in DOMAIN scope : scope[x] \in AllVars(sig) \union {Free(next_name)}
    BY <2>1 DEF InScope, Put
  <2> HIDE DEF scope
  <2> QED
    BY <2>1, <2>2, ResolveExprTyped
<1> HIDE DEF e
<1>8. /\ sig' \in Signatures /\ sig'.params = Collect(sig.params, read)
      /\ sig'.requires = sig.requires /\ sig'.args = sig.args
      /\ sig'.ensures = sig.ensures /\ sig'.ret = sig.ret
  <2> HIDE DEF read
  <2> QED
    BY <1>1, <1>2, <1>5, ReadParam
<1>9. TypeOK'
  <2>1. sig'.items \in 0..MaxItems
    BY <1>8 DEF Signatures
  <2>2. NamesApart(exprs', regions', next_name')
    BY <1>1, <1>6
  <2>3. actuals' = <<>>
    BY <1>1 DEF ResolvedOK, Sections
  <2>4. DOMAIN actuals' = {}
    BY <2>3
  <2>5. at' \in Steps_
    BY <1>1 DEF Steps_, Sections
  <2> QED
    BY <2>1, <2>2, <2>4, <2>5, TypeOKNext
<1>10. ASSUME Clean(sig')
       PROVE  Closed(sig') /\ InScope(sig', exprs', regions', next_name')
  <2>1. /\ Clean(sig) /\ read # Err /\ sig'.params = Append(sig.params, read)
    BY <1>8, <1>10 DEF Clean, Collect
  <2>2. read = item /\ name \notin DOMAIN exprs /\ sort \in Sorts /\ e # Err /\ item \in ParamItems
    BY <1>5, <2>1
  <2>3. InScope(sig, exprs, regions, next_name) /\ Closed(sig)
    BY <2>1 DEF ResolvedOK
  <2>4. e \in Exprs(AllVars(sig) \union {Free(next_name)}, MaxDepth)
    BY <1>7, <2>1, <2>2
  <2>5. \A k \in 1..Len(sig.params) : sig.params[k].name < next_name
    BY <2>3 DEF InScope
  <2>6. \A k \in 1..Len(sig.params) : sig.params[k].name \in Nat /\ sig.params[k].name # next_name
    <3>1. \A k \in 1..Len(sig.params) : sig.params[k] \in ParamItems
      BY <1>2, <2>1, CleanSections
    <3> QED
      BY <1>2, <2>5, <3>1 DEF ParamItems
  <2>7. item.name = next_name /\ item.pred = e
    OBVIOUS
  <2>8. sig'.params = Append(sig.params, item)
    BY <2>1, <2>2
  <2> HIDE DEF item, read
  <2>9. /\ Closed(sig') /\ AllVars(sig') = AllVars(sig) \union {Free(next_name)}
        /\ AllLocs(sig') = AllLocs(sig)
    BY <1>2, <1>8, <2>1, <2>2, <2>3, <2>4, <2>6, <2>7, <2>8, ParamAppended, ZenonT(60)
  <2>10. InScope(sig', exprs', regions', next_name')
    <3>1. \A x \in DOMAIN scope : scope[x] \in AllVars(sig')
      BY <2>3, <2>9 DEF InScope, Put
    <3>2. \A r \in DOMAIN regions : regions[r] \in AllLocs(sig')
      BY <2>3, <2>9 DEF InScope
    <3>3. ASSUME NEW k \in 1..Len(sig'.params) PROVE sig'.params[k].name < next_name + 1
      <4>1. sig.params \in Seq(ParamItems)
        BY <1>2, <2>1, CleanSections
      <4>2. Len(sig.params) \in Nat /\ Len(sig'.params) = Len(sig.params) + 1
            /\ (\A i \in 1..Len(sig.params) : sig'.params[i] = sig.params[i])
            /\ sig'.params[Len(sig.params) + 1] = item
        BY <2>2, <2>8, <4>1, Appended
      <4>3. CASE k \in 1..Len(sig.params)
        <5>1. sig.params[k].name \in Nat /\ sig.params[k].name < next_name
          BY <2>5, <2>6, <4>3
        <5>2. sig.params[k].name < next_name + 1
          BY <1>2, <5>1
        <5> QED
          BY <4>2, <4>3, <5>2
      <4>4. CASE k = Len(sig.params) + 1
        BY <1>2, <2>7, <4>2, <4>4
      <4> QED
        BY <4>2, <4>3, <4>4
    <3> QED
      BY <1>1, <3>1, <3>2, <3>3 DEF InScope
  <2> QED
    BY <2>9, <2>10
<1> QED
  BY <1>1, <1>8, <1>9, <1>10 DEF ResolvedOK, Passed, Sections


LEMMA RequiresStep ==
  ASSUME TypeOK, ResolvedOK, NEW region \in STRING, NEW ty \in SurfaceTypes,
         ResolveRequires(region, ty)
  PROVE  TypeOK' /\ ResolvedOK'
<1> DEFINE locs == InsertRegion(regions, region, next_name)
           t == ResolveTy(ty, exprs, locs)
           item == [loc |-> next_name, ty |-> t]
           read == IF t = Err THEN Err ELSE item
<1>1. /\ at = "requires" /\ at' = at /\ sig.items < MaxItems
      /\ next_name' = next_name + 1 /\ exprs' = exprs /\ regions' = locs
      /\ actuals' = actuals /\ Reads(sig, sig', "requires", read)
  BY DEF ResolveRequires, Reading, Items, Resolved, Reads
<1>2. NamesApart(exprs, regions, next_name) /\ next_name \in Nat /\ sig \in Signatures
  BY TypeOKParts DEF NamesApart, ResolvedOK
<1>3. /\ \A x \in DOMAIN exprs : exprs[x] \in CoreVars
      /\ \A r \in DOMAIN regions : regions[r] \in Nat
  <2>1. \A n \in Nat : Free(n) \in CoreVars
    BY DEF Free, CoreVars
  <2> QED
    BY <1>2, <2>1 DEF NamesApart
<1>4. PutIs(regions, region, next_name, locs)
  BY PutFacts DEF InsertRegion
<1>5. NamesApart(exprs, locs, next_name + 1)
  BY <1>2, NamesStayApart DEF InsertRegion
<1> HIDE DEF locs
<1>6. t \in CoreTypes \union {Err}
  <2>1. \A r \in DOMAIN locs : locs[r] \in Nat
    BY <1>2, <1>3, <1>4 DEF PutIs
  <2> QED
    BY <1>3, <2>1, ResolveTyTyped DEF CoreTypes
<1>7. read \in Located \union {Err}
  BY <1>2, <1>6 DEF Located
<1>8. ASSUME Clean(sig)
      PROVE  /\ InScope(sig, exprs, regions, next_name) /\ Closed(sig)
             /\ t \in CoreTypesOver(AllReq(sig) \union {next_name}, AllVars(sig)) \union {Err}
  <2>1. InScope(sig, exprs, regions, next_name) /\ Closed(sig)
    BY <1>8 DEF ResolvedOK
  <2>2. sig.ensures = <<>>
    BY <1>1 DEF ResolvedOK
  <2>3. AllLocs(sig) = AllReq(sig)
    <3>1. Len(sig.ensures) = 0
      BY <2>2
    <3> QED
      BY <3>1 DEF AllLocs, EnsOf
  <2>4. \A x \in DOMAIN exprs : exprs[x] \in AllVars(sig)
    BY <2>1 DEF InScope
  <2>5. \A r \in DOMAIN locs : locs[r] \in AllReq(sig) \union {next_name}
    BY <1>4, <2>1, <2>3 DEF InScope, PutIs
  <2> QED
    BY <2>1, <2>4, <2>5, ResolveTyTyped
<1> HIDE DEF t
<1>9. /\ sig' \in Signatures /\ sig'.requires = Collect(sig.requires, read)
      /\ sig'.params = sig.params /\ sig'.args = sig.args
      /\ sig'.ensures = sig.ensures /\ sig'.ret = sig.ret
  <2> HIDE DEF read
  <2> QED
    BY <1>1, <1>2, <1>7, ReadRequires
<1>10. TypeOK'
  <2>1. sig'.items \in 0..MaxItems
    BY <1>9 DEF Signatures
  <2>2. NamesApart(exprs', regions', next_name')
    BY <1>1, <1>5
  <2>3. actuals' = <<>>
    BY <1>1 DEF ResolvedOK, Sections
  <2>4. DOMAIN actuals' = {}
    BY <2>3
  <2>5. at' \in Steps_
    BY <1>1 DEF Steps_, Sections
  <2> QED
    BY <2>1, <2>2, <2>4, <2>5, TypeOKNext
<1>11. ASSUME Clean(sig')
       PROVE  Closed(sig') /\ InScope(sig', exprs', regions', next_name')
  <2>1. /\ Clean(sig) /\ read # Err /\ sig'.requires = Append(sig.requires, read)
    BY <1>9, <1>11 DEF Clean, Collect
  <2>2. read = item /\ t # Err /\ item \in Located
    BY <1>7, <2>1
  <2>3. InScope(sig, exprs, regions, next_name) /\ Closed(sig)
        /\ t \in CoreTypesOver(AllReq(sig) \union {next_name}, AllVars(sig))
    BY <1>8, <2>1, <2>2
  <2>4. item.loc = next_name /\ item.ty = t
    OBVIOUS
  <2>5. sig'.requires = Append(sig.requires, item)
    BY <2>1, <2>2
  <2> HIDE DEF item, read
  <2>6. /\ Closed(sig') /\ AllVars(sig') = AllVars(sig)
        /\ AllLocs(sig') = AllLocs(sig) \union {next_name}
    BY <1>2, <1>9, <2>1, <2>2, <2>3, <2>4, <2>5, RequiredAppended, ZenonT(60)
  <2>7. \A r \in DOMAIN locs : locs[r] \in AllLocs(sig')
    BY <1>4, <2>3, <2>6 DEF InScope, PutIs
  <2>8. \A k \in 1..Len(sig'.params) : sig'.params[k].name < next_name + 1
    <3>1. \A k \in 1..Len(sig.params) : sig.params[k] \in ParamItems
      BY <1>2, <2>1, CleanSections
    <3> QED
      BY <1>2, <1>9, <2>3, <3>1 DEF InScope, ParamItems
  <2> QED
    BY <1>1, <2>3, <2>6, <2>7, <2>8 DEF InScope
<1> QED
  BY <1>1, <1>9, <1>10, <1>11 DEF ResolvedOK, Passed, Sections

LEMMA ArgStep ==
  ASSUME TypeOK, ResolvedOK, NEW ty \in SurfaceTypes, ResolveArg(ty)
  PROVE  TypeOK' /\ ResolvedOK'
<1> DEFINE t == ResolveTy(ty, exprs, regions)
<1>1. /\ at = "args" /\ at' = at /\ sig.items < MaxItems
      /\ next_name' = next_name /\ exprs' = exprs /\ regions' = regions
      /\ actuals' = actuals /\ Reads(sig, sig', "args", t)
  BY DEF ResolveArg, Reading, Items, Resolved, Reads
<1>2. NamesApart(exprs, regions, next_name) /\ next_name \in Nat /\ sig \in Signatures
  BY TypeOKParts DEF NamesApart, ResolvedOK
<1>3. t \in CoreTypes \union {Err}
  <2>1. \A n \in Nat : Free(n) \in CoreVars
    BY DEF Free, CoreVars
  <2>2. /\ \A x \in DOMAIN exprs : exprs[x] \in CoreVars
        /\ \A r \in DOMAIN regions : regions[r] \in Nat
    BY <1>2, <2>1 DEF NamesApart
  <2> QED
    BY <2>2, ResolveTyTyped DEF CoreTypes
<1>4. ASSUME Clean(sig)
      PROVE  /\ InScope(sig, exprs, regions, next_name) /\ Closed(sig)
             /\ t \in CoreTypesOver(AllReq(sig), AllVars(sig)) \union {Err}
  <2>1. InScope(sig, exprs, regions, next_name) /\ Closed(sig)
    BY <1>4 DEF ResolvedOK
  <2>2. sig.ensures = <<>>
    BY <1>1 DEF ResolvedOK
  <2>3. AllLocs(sig) = AllReq(sig)
    <3>1. Len(sig.ensures) = 0
      BY <2>2
    <3> QED
      BY <3>1 DEF AllLocs, EnsOf
  <2>4. /\ \A x \in DOMAIN exprs : exprs[x] \in AllVars(sig)
        /\ \A r \in DOMAIN regions : regions[r] \in AllReq(sig)
    BY <2>1, <2>3 DEF InScope
  <2> QED
    BY <2>1, <2>4, ResolveTyTyped
<1> HIDE DEF t
<1>5. /\ sig' \in Signatures /\ sig'.args = Collect(sig.args, t)
      /\ sig'.params = sig.params /\ sig'.requires = sig.requires
      /\ sig'.ensures = sig.ensures /\ sig'.ret = sig.ret
  BY <1>1, <1>2, <1>3, ReadArg
<1>6. TypeOK'
  <2>1. sig'.items \in 0..MaxItems
    BY <1>5 DEF Signatures
  <2>2. NamesApart(exprs', regions', next_name')
    BY <1>1, <1>2
  <2>3. actuals' = <<>>
    BY <1>1 DEF ResolvedOK, Sections
  <2>4. DOMAIN actuals' = {}
    BY <2>3
  <2>5. at' \in Steps_
    BY <1>1 DEF Steps_, Sections
  <2> QED
    BY <2>1, <2>2, <2>4, <2>5, TypeOKNext
<1>7. ASSUME Clean(sig')
      PROVE  Closed(sig') /\ InScope(sig', exprs', regions', next_name')
  <2>1. /\ Clean(sig) /\ t # Err /\ sig'.args = Append(sig.args, t)
    BY <1>5, <1>7 DEF Clean, Collect
  <2>2. InScope(sig, exprs, regions, next_name) /\ Closed(sig)
        /\ t \in CoreTypesOver(AllReq(sig), AllVars(sig))
    BY <1>4, <2>1
  <2>3. Closed(sig') /\ AllVars(sig') = AllVars(sig) /\ AllLocs(sig') = AllLocs(sig)
    BY <1>2, <1>3, <1>5, <2>1, <2>2, ArgAppended
  <2> QED
    BY <1>1, <1>5, <2>2, <2>3 DEF InScope
<1> QED
  BY <1>1, <1>5, <1>6, <1>7 DEF ResolvedOK, Passed, Sections

LEMMA EnsuresStep ==
  ASSUME TypeOK, ResolvedOK, NEW region \in STRING, NEW ty \in SurfaceTypes,
         ResolveEnsures(region, ty)
  PROVE  TypeOK' /\ ResolvedOK'
<1> DEFINE known == region \in DOMAIN regions
           locs == IF known THEN regions ELSE InsertRegion(regions, region, next_name)
           t == ResolveTy(ty, exprs, locs)
           name == locs[region]
           item == [loc |-> name, ty |-> t]
           read == IF t = Err THEN Err ELSE item
<1>1. /\ at = "ensures" /\ at' = at /\ sig.items < MaxItems
      /\ next_name' = IF known THEN next_name ELSE next_name + 1
      /\ exprs' = exprs /\ regions' = locs
      /\ actuals' = actuals /\ Reads(sig, sig', "ensures", read)
  BY DEF ResolveEnsures, Reading, Items, Resolved, Reads
<1>2. NamesApart(exprs, regions, next_name) /\ next_name \in Nat /\ sig \in Signatures
  BY TypeOKParts DEF NamesApart, ResolvedOK
<1>3. /\ \A x \in DOMAIN exprs : exprs[x] \in CoreVars
      /\ \A r \in DOMAIN regions : regions[r] \in Nat
  <2>1. \A n \in Nat : Free(n) \in CoreVars
    BY DEF Free, CoreVars
  <2> QED
    BY <1>2, <2>1 DEF NamesApart
<1>4. /\ region \in DOMAIN locs
      /\ \A r \in DOMAIN locs : locs[r] = name \/ (r \in DOMAIN regions /\ locs[r] = regions[r])
      /\ name \in Nat
  <2>1. CASE known
    BY <1>3, <2>1
  <2>2. CASE ~ known
    <3>1. PutIs(regions, region, next_name, locs)
      BY <2>2, PutFacts DEF InsertRegion
    <3> HIDE DEF locs
    <3> QED
      BY <1>2, <3>1 DEF PutIs
  <2> QED
    BY <2>1, <2>2
<1>5. NamesApart(exprs, locs, next_name')
  BY <1>1, <1>2, NamesStayApart DEF InsertRegion
<1>6. next_name' \in Nat /\ next_name <= next_name'
  BY <1>1, <1>2
<1> HIDE DEF locs, name
<1>7. t \in CoreTypes \union {Err}
  <2>1. \A r \in DOMAIN locs : locs[r] \in Nat
    BY <1>3, <1>4
  <2> QED
    BY <1>3, <2>1, ResolveTyTyped DEF CoreTypes
<1>8. read \in Located \union {Err}
  BY <1>4, <1>7 DEF Located
<1>9. ASSUME Clean(sig)
      PROVE  /\ InScope(sig, exprs, regions, next_name) /\ Closed(sig)
             /\ t \in CoreTypesOver(AllLocs(sig) \union {name}, AllVars(sig)) \union {Err}
  <2>1. InScope(sig, exprs, regions, next_name) /\ Closed(sig)
    BY <1>9 DEF ResolvedOK
  <2>2. \A x \in DOMAIN exprs : exprs[x] \in AllVars(sig)
    BY <2>1 DEF InScope
  <2>3. \A r \in DOMAIN locs : locs[r] \in AllLocs(sig) \union {name}
    BY <1>4, <2>1 DEF InScope
  <2> QED
    BY <2>1, <2>2, <2>3, ResolveTyTyped
<1> HIDE DEF t
<1>10. /\ sig' \in Signatures /\ sig'.ensures = Collect(sig.ensures, read)
       /\ sig'.params = sig.params /\ sig'.requires = sig.requires
       /\ sig'.args = sig.args /\ sig'.ret = sig.ret
  <2> HIDE DEF read
  <2> QED
    BY <1>1, <1>2, <1>8, ReadEnsures
<1>11. TypeOK'
  <2>1. sig'.items \in 0..MaxItems
    BY <1>10 DEF Signatures
  <2>2. NamesApart(exprs', regions', next_name')
    BY <1>1, <1>5
  <2>3. actuals' = <<>>
    BY <1>1 DEF ResolvedOK, Sections
  <2>4. DOMAIN actuals' = {}
    BY <2>3
  <2>5. at' \in Steps_
    BY <1>1 DEF Steps_, Sections
  <2> QED
    BY <2>1, <2>2, <2>4, <2>5, TypeOKNext
<1>12. ASSUME Clean(sig')
       PROVE  Closed(sig') /\ InScope(sig', exprs', regions', next_name')
  <2>1. /\ Clean(sig) /\ read # Err /\ sig'.ensures = Append(sig.ensures, read)
    BY <1>10, <1>12 DEF Clean, Collect
  <2>2. read = item /\ t # Err /\ item \in Located
    BY <1>8, <2>1
  <2>3. InScope(sig, exprs, regions, next_name) /\ Closed(sig)
        /\ t \in CoreTypesOver(AllLocs(sig) \union {name}, AllVars(sig))
    BY <1>9, <2>1, <2>2
  <2>4. item.loc = name /\ item.ty = t
    OBVIOUS
  <2>5. sig'.ensures = Append(sig.ensures, item)
    BY <2>1, <2>2
  <2> HIDE DEF item, read
  <2>6. /\ Closed(sig') /\ AllVars(sig') = AllVars(sig)
        /\ AllLocs(sig') = AllLocs(sig) \union {name}
    BY <1>2, <1>10, <2>1, <2>2, <2>3, <2>4, <2>5, EnsuredAppended, ZenonT(60)
  <2>7. \A r \in DOMAIN locs : locs[r] \in AllLocs(sig')
    BY <1>4, <2>3, <2>6 DEF InScope
  <2>8. \A k \in 1..Len(sig'.params) : sig'.params[k].name < next_name'
    <3>1. \A k \in 1..Len(sig.params) : sig.params[k] \in ParamItems
      BY <1>2, <2>1, CleanSections
    <3> QED
      BY <1>2, <1>6, <1>10, <2>3, <3>1 DEF InScope, ParamItems
  <2> QED
    BY <1>1, <2>3, <2>6, <2>7, <2>8 DEF InScope
<1> QED
  BY <1>1, <1>10, <1>11, <1>12 DEF ResolvedOK, Passed, Sections


LEMMA FollowingIs ==
  /\ DOMAIN Following = Sections
  /\ Following["params"] = "requires" /\ Following["requires"] = "args"
  /\ Following["args"] = "ensures" /\ Following["ensures"] = "ret"
BY DEF Following, Sections

LEMMA SectionStep ==
  ASSUME TypeOK, ResolvedOK, NextSection
  PROVE  TypeOK' /\ ResolvedOK'
<1>1. /\ at \in Sections /\ at' = Following[at]
      /\ exprs' = exprs /\ regions' = regions /\ next_name' = next_name
      /\ sig' = sig /\ actuals' = actuals
  BY FollowingIs DEF NextSection
<1>2. /\ at' \in {"requires", "args", "ensures", "ret"}
      /\ at' \in {"requires", "args"} => at \in {"params", "requires", "args"}
  BY <1>1, FollowingIs DEF Sections
<1>3. TypeOK'
  <2>1. at' \in Steps_
    BY <1>2 DEF Steps_, Sections
  <2> QED
    BY <1>1, <2>1 DEF TypeOK, Steps_
<1>4. ResolvedOK'
  <2>1. ~ Passed' /\ (at' \in {"params", "requires", "args"} => at \in {"params", "requires", "args"})
    BY <1>2 DEF Passed, Sections
  <2>2. actuals = <<>>
    BY <1>1 DEF ResolvedOK
  <2> QED
    BY <1>1, <2>1, <2>2 DEF ResolvedOK
<1> QED
  BY <1>3, <1>4

LEMMA RetStep ==
  ASSUME TypeOK, ResolvedOK, NEW ty \in SurfaceTypes, ResolveRet(ty)
  PROVE  TypeOK' /\ ResolvedOK'
<1> DEFINE t == ResolveTy(ty, exprs, regions)
           failed == t = Err \/ \E s \in DOMAIN Following : sig[s] = Err
<1>1. /\ at = "ret" /\ sig' = [sig EXCEPT !.ret = t]
      /\ at' = IF failed THEN "rejected" ELSE "wf"
      /\ exprs' = exprs /\ regions' = regions /\ next_name' = next_name /\ actuals' = actuals
  BY DEF ResolveRet
<1>2. NamesApart(exprs, regions, next_name) /\ next_name \in Nat /\ sig \in Signatures
  BY TypeOKParts DEF NamesApart, ResolvedOK
<1>3. t \in CoreTypes \union {Err}
  <2>1. \A n \in Nat : Free(n) \in CoreVars
    BY DEF Free, CoreVars
  <2>2. /\ \A x \in DOMAIN exprs : exprs[x] \in CoreVars
        /\ \A r \in DOMAIN regions : regions[r] \in Nat
    BY <1>2, <2>1 DEF NamesApart
  <2> QED
    BY <2>2, ResolveTyTyped DEF CoreTypes
<1>4. ASSUME Clean(sig)
      PROVE  /\ InScope(sig, exprs, regions, next_name) /\ Closed(sig)
             /\ t \in CoreTypesOver(AllLocs(sig), AllVars(sig)) \union {Err}
  <2>1. InScope(sig, exprs, regions, next_name) /\ Closed(sig)
    BY <1>4 DEF ResolvedOK
  <2>2. /\ \A x \in DOMAIN exprs : exprs[x] \in AllVars(sig)
        /\ \A r \in DOMAIN regions : regions[r] \in AllLocs(sig)
    BY <2>1 DEF InScope
  <2> QED
    BY <2>1, <2>2, ResolveTyTyped
<1>5. ~ failed => Clean(sig) /\ t # Err
  <2>1. /\ sig["params"] = sig.params /\ sig["requires"] = sig.requires
        /\ sig["args"] = sig.args /\ sig["ensures"] = sig.ensures
    OBVIOUS
  <2>2. \A s \in Sections : s \in DOMAIN Following
    BY FollowingIs
  <2> HIDE DEF t
  <2> QED
    BY <2>1, <2>2 DEF Clean, Sections
<1> HIDE DEF t
<1>6. /\ sig' \in Signatures /\ sig'.ret = t /\ sig'.params = sig.params
      /\ sig'.requires = sig.requires /\ sig'.args = sig.args /\ sig'.ensures = sig.ensures
      /\ sig'.items = sig.items
  BY <1>1, <1>2, <1>3 DEF Signatures
<1>7. /\ Clean(sig') <=> Clean(sig)
      /\ Closed(sig') <=> Closed(sig)
      /\ AllVars(sig') = AllVars(sig) /\ AllLocs(sig') = AllLocs(sig)
      /\ \A n : InScope(sig', exprs, regions, n) <=> InScope(sig, exprs, regions, n)
  <2>1. /\ \A n : VarsOf(sig', n) = VarsOf(sig, n) /\ ReqOf(sig', n) = ReqOf(sig, n)
                  /\ EnsOf(sig', n) = EnsOf(sig, n)
        /\ AllVars(sig') = AllVars(sig) /\ AllReq(sig') = AllReq(sig) /\ AllLocs(sig') = AllLocs(sig)
    BY <1>6 DEF VarsOf, ReqOf, EnsOf, AllVars, AllReq, AllLocs
  <2>2. Closed(sig') <=> Closed(sig)
    BY <1>6, <2>1 DEF Closed, ParamsClosed, RequiresClosed, ArgsClosed, EnsuresClosed
  <2> QED
    BY <1>6, <2>1, <2>2 DEF Clean, InScope
<1> HIDE DEF failed
<1>8. at' \in {"rejected", "wf"} /\ (Passed' => ~ failed)
  BY <1>1 DEF Passed, Sections
<1>9. TypeOK'
  <2>1. sig'.items \in 0..MaxItems
    BY <1>6 DEF Signatures
  <2>2. NamesApart(exprs', regions', next_name')
    BY <1>1, <1>2
  <2>3. actuals' = <<>>
    BY <1>1 DEF ResolvedOK
  <2>4. DOMAIN actuals' = {}
    BY <2>3
  <2>5. at' \in Steps_
    BY <1>8 DEF Steps_
  <2> QED
    BY <2>1, <2>2, <2>4, <2>5, TypeOKNext
<1>10. ResolvedOK'
  <2>1. at' \notin Sections \union {"ret"}
    BY <1>8 DEF Sections
  <2>2. at' \notin {"params", "requires", "args"}
    BY <1>8
  <2>3. Clean(sig') => Closed(sig') /\ InScope(sig', exprs', regions', next_name')
    BY <1>1, <1>4, <1>7
  <2>4. Passed' => Clean(sig') /\ sig'.ret \in CoreTypesOver(AllLocs(sig'), AllVars(sig'))
    BY <1>4, <1>5, <1>6, <1>7, <1>8
  <2> QED
    BY <1>6, <2>1, <2>2, <2>3, <2>4 DEF ResolvedOK
<1> QED
  BY <1>9, <1>10

(* What follows the resolver leaves the signature alone.                   *)
AfterResolver == {"rejected", "accepted", "panicked", "infer", "ambiguous", "undetermined",
                  "inference error", "lower", "update", "destination", "returned"}

LEMMA SignatureKept ==
  ASSUME TypeOK, ResolvedOK, Passed, at' \in AfterResolver,
         exprs' = exprs, regions' = regions, next_name' = next_name, sig' = sig,
         actuals' = actuals \/ DOMAIN actuals' = DOMAIN sig.args
  PROVE  TypeOK' /\ ResolvedOK'
<1>1. at' \in Steps_ /\ at' \notin Sections \union {"ret"} /\ at' \notin {"params", "requires", "args"}
  BY DEF AfterResolver, Steps_, Sections
<1>2. TypeOK'
  <2>1. NamesApart(exprs', regions', next_name')
    BY TypeOKParts
  <2>2. sig'.items \in 0..MaxItems
    BY TypeOKParts
  <2>3. DOMAIN actuals' = {} \/ DOMAIN actuals' = DOMAIN sig'.args
    BY TypeOKParts
  <2> QED
    BY <1>1, <2>1, <2>2, <2>3, TypeOKNext
<1>3. ResolvedOK'
  BY <1>1 DEF ResolvedOK
<1> QED
  BY <1>2, <1>3

LEMMA AfterResolverStep ==
  ASSUME TypeOK, ResolvedOK, CheckFnSig \/ CheckCall
  PROVE  TypeOK' /\ ResolvedOK'
<1>1. CASE CheckFnSig
  <2>1. at = "wf" /\ at' \in {"panicked", "rejected", "accepted"} /\ actuals' = actuals
        /\ exprs' = exprs /\ regions' = regions /\ next_name' = next_name /\ sig' = sig
    BY <1>1 DEF CheckFnSig
  <2>2. Passed /\ at' \in AfterResolver
    BY <2>1 DEF Passed, Sections, AfterResolver
  <2> QED
    BY <2>1, <2>2, SignatureKept
<1>2. ASSUME NEW as \in [DOMAIN sig.args -> Actuals], Call(as)
      PROVE  TypeOK' /\ ResolvedOK'
  <2>1. at = "accepted" /\ at' = "infer" /\ actuals' = as
        /\ exprs' = exprs /\ regions' = regions /\ next_name' = next_name /\ sig' = sig
    BY <1>2 DEF Call
  <2>2. Passed /\ at' \in AfterResolver
    BY <2>1 DEF Passed, Sections, AfterResolver
  <2>3. DOMAIN as = DOMAIN sig.args
    OBVIOUS
  <2> QED
    BY <2>1, <2>2, <2>3, SignatureKept
<1>3. CASE InferFromFnCall
  <2>1. at = "infer" /\ actuals' = actuals
        /\ at' \in {"ambiguous", "undetermined", "lower", "inference error"}
        /\ exprs' = exprs /\ regions' = regions /\ next_name' = next_name /\ sig' = sig
    BY <1>3 DEF InferFromFnCall
  <2>2. Passed /\ at' \in AfterResolver
    BY <2>1 DEF Passed, Sections, AfterResolver
  <2> QED
    BY <2>1, <2>2, SignatureKept
<1>4. CASE LowerCall
  <2>1. at = "lower" /\ actuals' = actuals /\ at' \in {"update", "panicked"}
        /\ exprs' = exprs /\ regions' = regions /\ next_name' = next_name /\ sig' = sig
    BY <1>4 DEF LowerCall
  <2>2. Passed /\ at' \in AfterResolver
    BY <2>1 DEF Passed, Sections, AfterResolver
  <2> QED
    BY <2>1, <2>2, SignatureKept
<1>5. CASE Ensure
  <2>1. at = "update" /\ actuals' = actuals /\ at' \in {"destination", "panicked"}
        /\ exprs' = exprs /\ regions' = regions /\ next_name' = next_name /\ sig' = sig
    BY <1>5 DEF Ensure
  <2>2. Passed /\ at' \in AfterResolver
    BY <2>1 DEF Passed, Sections, AfterResolver
  <2> QED
    BY <2>1, <2>2, SignatureKept
<1>6. CASE WriteDestination
  <2>1. at = "destination" /\ actuals' = actuals /\ at' \in {"returned", "panicked"}
        /\ exprs' = exprs /\ regions' = regions /\ next_name' = next_name /\ sig' = sig
    BY <1>6 DEF WriteDestination
  <2>2. Passed /\ at' \in AfterResolver
    BY <2>1 DEF Passed, Sections, AfterResolver
  <2> QED
    BY <2>1, <2>2, SignatureKept
<1> QED
  BY <1>1, <1>2, <1>3, <1>4, <1>5, <1>6 DEF CheckCall


LEMMA ResolverInit ==
  ASSUME Init
  PROVE  TypeOK /\ ResolvedOK
<1>1. /\ at = "params" /\ exprs = <<>> /\ regions = <<>> /\ next_name = 0 /\ actuals = <<>>
      /\ sig.params = <<>> /\ sig.requires = <<>> /\ sig.args = <<>> /\ sig.ensures = <<>>
      /\ sig \in Signatures
  BY SignatureAssumption DEF Init, Signatures
<1>2. /\ DOMAIN exprs = {} /\ DOMAIN regions = {} /\ DOMAIN actuals = {}
      /\ Len(sig.params) = 0 /\ Len(sig.requires) = 0 /\ Len(sig.args) = 0 /\ Len(sig.ensures) = 0
  BY <1>1
<1>3. \A k : k \notin 1..0
  OBVIOUS
<1>4. Closed(sig) /\ InScope(sig, exprs, regions, next_name)
  BY <1>2, <1>3 DEF Closed, ParamsClosed, RequiresClosed, ArgsClosed, EnsuresClosed, InScope
<1>5. TypeOK
  <2>1. NamesApart(exprs, regions, next_name)
    BY <1>1, <1>2 DEF NamesApart
  <2>2. sig.items \in 0..MaxItems
    BY <1>1 DEF Signatures
  <2>3. at \in Steps_
    BY <1>1 DEF Steps_, Sections
  <2> QED
    BY <1>2, <2>1, <2>2, <2>3, TypeOKParts
<1>6. ResolvedOK
  BY <1>1, <1>4 DEF ResolvedOK, Passed, Sections
<1> QED
  BY <1>5, <1>6

LEMMA ResolveStep ==
  ASSUME TypeOK, ResolvedOK, Resolve
  PROVE  TypeOK' /\ ResolvedOK'
<1>1. /\ \A p \in Params : p[1] \in STRING /\ p[3] \in SurfaceExprs
      /\ \A r \in Requires \union Ensures : r[1] \in STRING /\ r[2] \in SurfaceTypes
      /\ \A ty \in Args \union Rets : ty \in SurfaceTypes
  BY SignatureAssumption
<1>2. ASSUME NEW p \in Params, ResolveParam(p[1], p[2], p[3]) PROVE TypeOK' /\ ResolvedOK'
  BY <1>1, <1>2, ParamStep
<1>3. ASSUME NEW r \in Requires, ResolveRequires(r[1], r[2]) PROVE TypeOK' /\ ResolvedOK'
  BY <1>1, <1>3, RequiresStep
<1>4. ASSUME NEW ty \in Args, ResolveArg(ty) PROVE TypeOK' /\ ResolvedOK'
  BY <1>1, <1>4, ArgStep
<1>5. ASSUME NEW e \in Ensures, ResolveEnsures(e[1], e[2]) PROVE TypeOK' /\ ResolvedOK'
  BY <1>1, <1>5, EnsuresStep
<1>6. ASSUME NEW ty \in Rets, ResolveRet(ty) PROVE TypeOK' /\ ResolvedOK'
  BY <1>1, <1>6, RetStep
<1> QED
  BY <1>2, <1>3, <1>4, <1>5, <1>6, SectionStep DEF Resolve

LEMMA ResolverStep ==
  ASSUME TypeOK, ResolvedOK, [Next]_vars
  PROVE  TypeOK' /\ ResolvedOK'
<1>1. CASE Next
  BY <1>1, ResolveStep, AfterResolverStep DEF Next
<1>2. CASE UNCHANGED vars
  BY <1>2 DEF vars, TypeOK, ResolvedOK, Passed
<1> QED
  BY <1>1, <1>2

(* What the resolver has read is closed as long as no section has failed:  *)
(* resolve_fn_sig, whose two maps of names are shared by all sections.     *)
THEOREM ResolverClosed == Spec => [](TypeOK /\ ResolvedOK)
<1>1. Init => TypeOK /\ ResolvedOK
  BY ResolverInit
<1>2. TypeOK /\ ResolvedOK /\ [Next]_vars => (TypeOK /\ ResolvedOK)'
  BY ResolverStep
<1> QED
  BY <1>1, <1>2, PTL DEF Spec

(* Names come from one generator, below the next one: TypeOK.              *)
THEOREM TypeCorrect == Spec => []TypeOK
BY ResolverClosed, PTL


-----------------------------------------------------------------------------
(* The maps and substitutions that are built one item after the other      *)

(* One step of each, c being what it goes over.                            *)
FoldStep(kind, c, acc, k) ==
    IF kind = "params" THEN Put(acc, Free(c[k].name), c[k].sort)
    ELSE IF kind = "types" THEN Binding(acc, c[k])
    ELSE IF kind = "args" THEN Infer(acc, actuals[k], c[k])
    ELSE IF kind = "requires" THEN InferRequired(acc, c[k])
    ELSE EnsureOne(acc, c[k])
FoldIs(kind, c, v0, n, f) ==
    f = [k \in 0..n |-> IF k = 0 THEN v0 ELSE FoldStep(kind, c, f[k - 1], k)]
FoldSteps(kind, c, v0, n, f) ==
    f[0] = v0 /\ \A k \in 0 .. n - 1 : f[k + 1] = FoldStep(kind, c, f[k], k + 1)

LEMMA FoldExists ==
  ASSUME NEW kind, NEW c, NEW v0
  PROVE  \A n \in Nat : \E f : FoldIs(kind, c, v0, n, f)
<1> DEFINE T == {n \in Nat : \E f : FoldIs(kind, c, v0, n, f)}
           Step(acc, k) == FoldStep(kind, c, acc, k)
<1> HIDE DEF Step
<1>0. \A n, f : FoldIs(kind, c, v0, n, f) <=>
          f = [k \in 0..n |-> IF k = 0 THEN v0 ELSE Step(f[k - 1], k)]
  BY DEF FoldIs, Step
<1>1. 0 \in T
  <2> DEFINE f == [k \in 0..0 |-> v0]
  <2>1. f = [k \in 0..0 |-> IF k = 0 THEN v0 ELSE Step(f[k - 1], k)]
    OBVIOUS
  <2> HIDE DEF f
  <2> QED
    BY <1>0, <2>1
<1>2. ASSUME NEW n \in Nat, n \in T
      PROVE  n + 1 \in T
  <2>1. PICK f : f = [k \in 0..n |-> IF k = 0 THEN v0 ELSE Step(f[k - 1], k)]
    BY <1>0, <1>2
  <2> DEFINE h == [k \in 0 .. n + 1 |-> IF k = 0 THEN v0 ELSE Step(f[k - 1], k)]
  <2>2. ASSUME NEW k \in 0 .. n + 1, k # 0
        PROVE  f[k - 1] = h[k - 1]
    <3>1. k - 1 \in 0 .. n /\ k - 1 \in 0 .. n + 1
      BY <2>2
    <3>2. f[k - 1] = IF k - 1 = 0 THEN v0 ELSE Step(f[k - 1 - 1], k - 1)
      BY <2>1, <3>1
    <3> QED
      BY <3>1, <3>2
  <2>3. h = [k \in 0 .. n + 1 |-> IF k = 0 THEN v0 ELSE Step(h[k - 1], k)]
    <3>1. h = [k \in 0 .. n + 1 |-> h[k]]
      OBVIOUS
    <3>2. \A k \in 0 .. n + 1 : h[k] = IF k = 0 THEN v0 ELSE Step(f[k - 1], k)
      OBVIOUS
    <3> HIDE DEF h
    <3>3. \A k \in 0 .. n + 1 : h[k] = IF k = 0 THEN v0 ELSE Step(h[k - 1], k)
      BY <2>2, <3>2
    <3> QED
      BY <3>1, <3>3
  <2> HIDE DEF h
  <2>4. FoldIs(kind, c, v0, n + 1, h)
    BY <2>3 DEF FoldIs, Step
  <2>5. n + 1 \in Nat
    OBVIOUS
  <2> QED
    BY <2>4, <2>5
<1> HIDE DEF T
<1>3. Nat \subseteq T
  BY <1>1, <1>2, SetInduction
<1> QED
  BY <1>3 DEF T

LEMMA FoldUnfold ==
  ASSUME NEW kind, NEW c, NEW v0, NEW n \in Nat, NEW f, FoldIs(kind, c, v0, n, f)
  PROVE  FoldSteps(kind, c, v0, n, f)
<1> DEFINE Step(acc, k) == FoldStep(kind, c, acc, k)
<1> HIDE DEF Step
<1>1. f = [k \in 0..n |-> IF k = 0 THEN v0 ELSE Step(f[k - 1], k)]
  BY DEF FoldIs, Step
<1>2. f[0] = v0
  BY <1>1
<1>3. ASSUME NEW k \in 0 .. n - 1
      PROVE  f[k + 1] = Step(f[k], k + 1)
  <2>1. k + 1 \in 0..n /\ k + 1 # 0 /\ k + 1 - 1 = k
    OBVIOUS
  <2> QED
    BY <1>1, <2>1
<1> QED
  BY <1>2, <1>3 DEF FoldSteps, Step

ParamSenvIs(params, f) ==
    f = [k \in 0..Len(params) |->
            IF k = 0 THEN <<>> ELSE Put(f[k - 1], Free(params[k].name), params[k].sort)]
ParamSenvFcn(params) == CHOOSE f : ParamSenvIs(params, f)

LEMMA ParamSenvUnfold ==
  ASSUME NEW params, Len(params) \in Nat
  PROVE  /\ ParamSenv(params, 0) = <<>>
         /\ \A k \in 0 .. Len(params) - 1 : ParamSenv(params, k + 1) =
               Put(ParamSenv(params, k), Free(params[k + 1].name), params[k + 1].sort)
<1> DEFINE f == ParamSenvFcn(params)
<1>1. \A n : ParamSenv(params, n) = f[n]
  BY DEF ParamSenv, ParamSenvFcn, ParamSenvIs
<1>2. \A g : ParamSenvIs(params, g) <=> FoldIs("params", params, <<>>, Len(params), g)
  BY DEF ParamSenvIs, FoldIs, FoldStep
<1>3. ParamSenvIs(params, f)
  <2>1. PICK g : FoldIs("params", params, <<>>, Len(params), g)
    BY FoldExists
  <2>2. ParamSenvIs(params, g)
    BY <1>2, <2>1
  <2> QED
    BY <2>2 DEF ParamSenvFcn
<1> HIDE DEF f
<1>4. FoldSteps("params", params, <<>>, Len(params), f)
  BY <1>2, <1>3, FoldUnfold
<1> QED
  BY <1>1, <1>4 DEF FoldSteps, FoldStep

TypeSenvIs(from, tys, f) ==
    f = [k \in 0..Len(tys) |-> IF k = 0 THEN from ELSE Binding(f[k - 1], tys[k])]
TypeSenvFcn(from, tys) == CHOOSE f : TypeSenvIs(from, tys, f)

LEMMA TypeSenvUnfold ==
  ASSUME NEW from, NEW tys, Len(tys) \in Nat
  PROVE  /\ TypeSenv(from, tys, 0) = from
         /\ \A k \in 0 .. Len(tys) - 1 :
               TypeSenv(from, tys, k + 1) = Binding(TypeSenv(from, tys, k), tys[k + 1])
<1> DEFINE f == TypeSenvFcn(from, tys)
<1>1. \A n : TypeSenv(from, tys, n) = f[n]
  BY DEF TypeSenv, TypeSenvFcn, TypeSenvIs
<1>2. \A g : TypeSenvIs(from, tys, g) <=> FoldIs("types", tys, from, Len(tys), g)
  BY DEF TypeSenvIs, FoldIs, FoldStep
<1>3. TypeSenvIs(from, tys, f)
  <2>1. PICK g : FoldIs("types", tys, from, Len(tys), g)
    BY FoldExists
  <2>2. TypeSenvIs(from, tys, g)
    BY <1>2, <2>1
  <2> QED
    BY <2>2 DEF TypeSenvFcn
<1> HIDE DEF f
<1>4. FoldSteps("types", tys, from, Len(tys), f)
  BY <1>2, <1>3, FoldUnfold
<1> QED
  BY <1>1, <1>4 DEF FoldSteps, FoldStep


-----------------------------------------------------------------------------
(* A signature that passes the sort checker is well sorted                 *)

Agree(senv, sorts, W) ==
    \A v \in W : /\ v \in DOMAIN senv /\ v \in DOMAIN sorts
                 /\ senv[v] = sorts[v] /\ senv[v] \in Sorts

LEMMA VarsAreNotBound ==
  ASSUME NEW s, NEW n
  PROVE  Bound \notin VarsOf(s, n)
<1>1. \A m : Free(m) # Bound
  BY DEF Free, Bound
<1> QED
  BY <1>1 DEF VarsOf

LEMMA FreeIsInjective ==
  ASSUME NEW m, NEW n
  PROVE  Free(m) = Free(n) => m = n
BY DEF Free

(* The map after n parameters has their sorts.                             *)
LEMMA ParamSenvHas ==
  ASSUME NEW s \in Signatures, Clean(s), ParamsClosed(s)
  PROVE  \A n \in 0..Len(s.params) : \A i \in 1..n :
            /\ Free(s.params[i].name) \in DOMAIN ParamSenv(s.params, n)
            /\ ParamSenv(s.params, n)[Free(s.params[i].name)] = s.params[i].sort
<1> DEFINE N == Len(s.params)
           E(n) == ParamSenv(s.params, n)
           v(i) == Free(s.params[i].name)
           Has(n) == \A i \in 1..n : v(i) \in DOMAIN E(n) /\ E(n)[v(i)] = s.params[i].sort
           T == {n \in Nat : n <= N => Has(n)}
<1>1. N \in Nat /\ \A k \in 0 .. N - 1 : E(k + 1) = Put(E(k), v(k + 1), s.params[k + 1].sort)
  BY CleanSections, ParamSenvUnfold
<1>2. \A k \in 1..N, i \in 1..N : i # k => v(i) # v(k)
  BY FreeIsInjective DEF ParamsClosed
<1> HIDE DEF E, v, N
<1>3. 0 \in T
  OBVIOUS
<1>4. ASSUME NEW n \in Nat, n \in T, n + 1 <= N
      PROVE  Has(n + 1)
  <2>1. Has(n) /\ n \in 0 .. N - 1 /\ n + 1 \in 1..N
    BY <1>1, <1>4
  <2>2. PutIs(E(n), v(n + 1), s.params[n + 1].sort, E(n + 1))
    BY <1>1, <2>1, PutFacts
  <2>3. DOMAIN E(n + 1) = DOMAIN E(n) \union {v(n + 1)} /\ E(n + 1)[v(n + 1)] = s.params[n + 1].sort
        /\ \A x \in DOMAIN E(n) : x # v(n + 1) => E(n + 1)[x] = E(n)[x]
    BY <2>2 DEF PutIs
  <2>4. ASSUME NEW i \in 1 .. n + 1
        PROVE  v(i) \in DOMAIN E(n + 1) /\ E(n + 1)[v(i)] = s.params[i].sort
    <3>1. CASE i = n + 1
      BY <2>3, <3>1
    <3>2. CASE i # n + 1
      <4>1. i \in 1..n /\ i \in 1..N
        BY <1>1, <1>4, <3>2
      <4>2. v(i) # v(n + 1)
        BY <1>2, <2>1, <3>2, <4>1
      <4> QED
        BY <2>1, <2>3, <4>1, <4>2
    <3> QED
      BY <3>1, <3>2
  <2> QED
    BY <2>4
<1>5. ASSUME NEW n \in Nat, n \in T PROVE n + 1 \in T
  BY <1>4, <1>5
<1> HIDE DEF T, Has
<1>6. Nat \subseteq T
  BY <1>3, <1>5, SetInduction
<1>7. \A n \in 0..N : Has(n)
  BY <1>1, <1>6 DEF T
<1> QED
  BY <1>7 DEF Has, E, v, N

(* It agrees with the sorts of the parameters.                             *)
LEMMA ParamSenvAgrees ==
  ASSUME sig \in Signatures, Clean(sig), ParamsClosed(sig), NEW n \in 0..Len(sig.params)
  PROVE  Agree(ParamSenv(sig.params, n), ParamSorts(n), VarsOf(sig, n))
<1> DEFINE v(i) == Free(sig.params[i].name)
           P == ParamSorts(n)
           pick(x) == CHOOSE k \in 1..n : v(k) = x
<1>1. Len(sig.params) \in Nat /\ \A i \in 1..n : i \in 1..Len(sig.params)
  BY CleanSections
<1>2. \A i \in 1..n : sig.params[i].sort \in Sorts
  <2>1. \A i \in 1..n : sig.params[i] \in ParamItems
    BY <1>1, CleanSections
  <2> QED
    BY <2>1 DEF ParamItems
<1>3. \A k \in 1..n, i \in 1..n : i # k => v(i) # v(k)
  BY <1>1, FreeIsInjective DEF ParamsClosed
<1>4. /\ DOMAIN P = {v(k) : k \in 1..n}
      /\ \A x \in DOMAIN P : P[x] = sig.params[pick(x)].sort
  BY DEF ParamSorts
<1> HIDE DEF v, P
<1>5. ASSUME NEW i \in 1..n
      PROVE  v(i) \in DOMAIN P /\ P[v(i)] = sig.params[i].sort
  <2>1. pick(v(i)) \in 1..n /\ v(pick(v(i))) = v(i)
    OBVIOUS
  <2>2. pick(v(i)) = i
    BY <1>3, <2>1
  <2> QED
    BY <1>4, <2>2
<1>6. ASSUME NEW i \in 1..n
      PROVE  v(i) \in DOMAIN ParamSenv(sig.params, n)
             /\ ParamSenv(sig.params, n)[v(i)] = sig.params[i].sort
  BY ParamSenvHas DEF v
<1>7. VarsOf(sig, n) = {v(i) : i \in 1..n}
  BY DEF VarsOf, v
<1> QED
  BY <1>2, <1>5, <1>6, <1>7 DEF Agree, P

(* The binders that earlier types leave in the map are not parameters.     *)
LEMMA TypeSenvAgrees ==
  ASSUME NEW from, NEW sorts, NEW W, Bound \notin W, Agree(from, sorts, W),
         NEW tys, Len(tys) \in Nat
  PROVE  \A n \in 0..Len(tys) : Agree(TypeSenv(from, tys, n), sorts, W)
<1> DEFINE N == Len(tys)
           E(n) == TypeSenv(from, tys, n)
           T == {n \in Nat : n <= N => Agree(E(n), sorts, W)}
<1>1. /\ N \in Nat /\ E(0) = from
      /\ \A k \in 0 .. N - 1 : E(k + 1) = Binding(E(k), tys[k + 1])
  BY TypeSenvUnfold, ZenonT(60)
<1> HIDE DEF E, N
<1>2. 0 \in T
  BY <1>1
<1>3. ASSUME NEW n \in Nat, n \in T, n + 1 <= N
      PROVE  Agree(E(n + 1), sorts, W)
  <2>1. Agree(E(n), sorts, W) /\ n \in 0 .. N - 1
    BY <1>1, <1>3
  <2>2. E(n + 1) = E(n) \/ E(n + 1) = Put(E(n), Bound, Sort(tys[n + 1].path))
    BY <1>1, <2>1 DEF Binding
  <2>3. E(n + 1) = E(n) \/ PutIs(E(n), Bound, Sort(tys[n + 1].path), E(n + 1))
    BY <2>2, PutFacts
  <2> QED
    BY <2>1, <2>3 DEF PutIs, Agree
<1>4. ASSUME NEW n \in Nat, n \in T PROVE n + 1 \in T
  BY <1>3, <1>4
<1> HIDE DEF T
<1>5. Nat \subseteq T
  BY <1>2, <1>4, SetInduction
<1>6. \A n \in 0..N : Agree(E(n), sorts, W)
  BY <1>1, <1>5 DEF T
<1> QED
  BY <1>6 DEF E, N

(* A sort is found, and what is found is what is expected, only if an      *)
(* expression has it.                                                      *)
LEMMA CheckExprIsSortOf ==
  ASSUME NEW W, W \subseteq CoreVars, NEW senv, NEW sorts, Agree(senv, sorts, W),
         NEW e \in Exprs(W, MaxDepth), NEW expected \in Sorts
  PROVE  /\ CheckExpr(e, senv, expected) # "panic"
         /\ CheckExpr(e, senv, expected) # "none" => SortOf(e, sorts) = expected
<1>1. SynthExpr(e, senv) = SortOf(e, sorts) /\ SynthExpr(e, senv) \in SynthSorts
  BY SynthIsSortOf DEF Agree
<1> QED
  BY <1>1 DEF CheckExpr, Expecting, SynthSorts, Sorts

LEMMA CheckTypeIsWellSorted ==
  ASSUME NEW W, W \subseteq CoreVars, Bound \notin W, NEW senv, NEW sorts, Agree(senv, sorts, W),
         NEW L, NEW ty \in CoreTypesOver(L, W)
  PROVE  /\ CheckType(ty, senv) # "panic"
         /\ CheckType(ty, senv) # "none" => WellSorted(ty, sorts)
<1> DEFINE sort == Sort(ty.path)
           under == Put(senv, Bound, sort)
           sorts2 == Put(sorts, Bound, sort)
<1>1. sort \in Sorts /\ "Bool" \in Sorts
  BY DEF Sort, Sorts
<1>2. \/ ty \in RefsAndParams(L)
      \/ ty.form = "refine" /\ ty.expr \in Exprs(W, MaxDepth)
      \/ ty.form = "exists" /\ ty.expr \in Exprs(W \union {Bound}, MaxDepth)
  BY CoreTypesTo, CoreCases, MaxDepthIsNat, SMTT(60) DEF RefineShape, ExistsShape
<1>3. CASE ty \in RefsAndParams(L)
  <2>1. ty.form \notin {"refine", "exists"}
    BY <1>3 DEF RefsAndParams
  <2> QED
    BY <2>1 DEF CheckType, WellSorted
<1>4. CASE ty.form = "refine" /\ ty.expr \in Exprs(W, MaxDepth)
  BY <1>1, <1>4, CheckExprIsSortOf DEF CheckType, WellSorted
<1>5. CASE ty.form = "exists" /\ ty.expr \in Exprs(W \union {Bound}, MaxDepth)
  <2>1. PutIs(senv, Bound, sort, under) /\ PutIs(sorts, Bound, sort, sorts2)
    BY PutFacts
  <2>2. CheckType(ty, senv) = CheckExpr(ty.expr, under, "Bool")
        /\ WellSorted(ty, sorts) = (SortOf(ty.expr, sorts2) = "Bool")
    BY <1>5 DEF CheckType, WellSorted, Binding
  <2> HIDE DEF under, sorts2, sort
  <2>3. Agree(under, sorts2, W \union {Bound})
    BY <1>1, <2>1 DEF Agree, PutIs
  <2> DEFINE V == W \union {Bound}
             b == "Bool"
             e == ty.expr
  <2>4. V \subseteq CoreVars /\ Agree(under, sorts2, V) /\ e \in Exprs(V, MaxDepth) /\ b \in Sorts
    BY <1>1, <1>5, <2>3 DEF CoreVars
  <2> HIDE DEF V, b, e
  <2>5. /\ CheckExpr(e, under, b) # "panic"
        /\ CheckExpr(e, under, b) # "none" => SortOf(e, sorts2) = b
    BY ONLY <2>4, CheckExprIsSortOf
  <2> QED
    BY <2>2, <2>5 DEF b, e
<1> QED
  BY <1>2, <1>3, <1>4, <1>5


CheckedType(k) ==
    IF k <= Len(sig.args) THEN sig.args[k]
    ELSE IF k <= Len(sig.args) + Len(sig.ensures) THEN sig.ensures[k - Len(sig.args)].ty
    ELSE sig.ret

Joined(q, r, t) ==
    /\ Len(t) = Len(q) + Len(r)
    /\ \A i \in 1 .. Len(q) + Len(r) : t[i] = IF i <= Len(q) THEN q[i] ELSE r[i - Len(q)]

LEMMA ConcatIsJoined ==
  ASSUME NEW S, NEW q \in Seq(S), NEW r \in Seq(S)
  PROVE  q \o r \in Seq(S) /\ Joined(q, r, q \o r)
BY ConcatProperties DEF Joined

LEMMA CheckedTypesAre ==
  ASSUME sig \in Signatures, Clean(sig), sig.ret \in CoreTypes
  PROVE  /\ Len(CheckedTypes) = Len(sig.args) + Len(sig.ensures) + 1
         /\ DOMAIN CheckedTypes = 1 .. (Len(sig.args) + Len(sig.ensures) + 1)
         /\ \A k \in DOMAIN CheckedTypes : CheckedTypes[k] = CheckedType(k)
<1> DEFINE A == sig.args
           E == [k \in DOMAIN sig.ensures |-> sig.ensures[k].ty]
           R == <<sig.ret>>
           m == Len(sig.args)
           n == Len(sig.ensures)
<1>1. /\ A \in Seq(CoreTypes) /\ m \in Nat /\ n \in Nat /\ m = Len(A)
      /\ DOMAIN sig.ensures = 1..n /\ \A k \in 1..n : sig.ensures[k] \in Located
  BY CleanSections
<1>2. E \in Seq(CoreTypes) /\ Len(E) = n
  <2>1. E = [k \in 1..n |-> sig.ensures[k].ty] /\ \A k \in 1..n : sig.ensures[k].ty \in CoreTypes
    BY <1>1 DEF Located
  <2> HIDE DEF n
  <2> QED
    BY <1>1, <2>1
<1>3. \A k \in 1..n : E[k] = sig.ensures[k].ty
  BY <1>1
<1>4. R \in Seq(CoreTypes) /\ Len(R) = 1 /\ R[1] = sig.ret
  OBVIOUS
<1>5. CheckedTypes = (A \o E) \o R
  BY DEF CheckedTypes
<1> HIDE DEF A, E, R
<1> DEFINE AE == A \o E
<1>10. AE \in Seq(CoreTypes) /\ Joined(A, E, AE)
  BY <1>1, <1>2, ConcatIsJoined
<1> HIDE DEF AE
<1>11. CheckedTypes \in Seq(CoreTypes) /\ Joined(AE, R, CheckedTypes)
  BY <1>4, <1>5, <1>10, ConcatIsJoined DEF AE
<1> HIDE DEF m, n
<1>6. /\ A \o E \in Seq(CoreTypes) /\ Len(A \o E) = m + n
      /\ \A i \in 1 .. m + n : (A \o E)[i] = IF i <= m THEN A[i] ELSE E[i - m]
  BY <1>1, <1>2, <1>10 DEF Joined, AE
<1>7. /\ CheckedTypes \in Seq(CoreTypes) /\ Len(CheckedTypes) = m + n + 1
      /\ \A i \in 1 .. m + n + 1 : CheckedTypes[i] = IF i <= m + n THEN (A \o E)[i] ELSE R[i - (m + n)]
  BY <1>1, <1>4, <1>6, <1>11 DEF Joined, AE
<1>8. DOMAIN CheckedTypes = 1 .. m + n + 1
  BY <1>7, LenProperties
<1>9. ASSUME NEW i \in 1 .. m + n + 1
      PROVE  CheckedTypes[i] = CheckedType(i)
  <2>1. CASE i <= m
    <3>1. i \in 1 .. m + n /\ i <= m + n
      BY <1>1, <2>1
    <3> QED
      BY <1>6, <1>7, <2>1, <3>1 DEF CheckedType, A, m
  <2>2. CASE ~ (i <= m) /\ i <= m + n
    <3>1. i \in 1 .. m + n /\ i - m \in 1..n
      BY <1>1, <2>2
    <3> QED
      BY <1>3, <1>6, <1>7, <2>2, <3>1 DEF CheckedType, m, n
  <2>3. CASE ~ (i <= m + n)
    <3>1. i - (m + n) = 1 /\ ~ (i <= m)
      BY <1>1, <2>3
    <3> QED
      BY <1>4, <1>7, <2>3, <3>1 DEF CheckedType, m, n
  <2> QED
    BY <2>1, <2>2, <2>3
<1> QED
  BY <1>7, <1>8, <1>9 DEF m, n

WellSortedSig ==
    LET sorts == ParamSorts(Len(sig.params))
    IN  /\ \A k \in DOMAIN sig.params : SortOf(sig.params[k].pred, ParamSorts(k)) = "Bool"
        /\ \A k \in DOMAIN sig.args : WellSorted(sig.args[k], sorts)
        /\ \A k \in DOMAIN sig.ensures : WellSorted(sig.ensures[k].ty, sorts)
        /\ WellSorted(sig.ret, sorts)

LEMMA PassedIsClosed ==
  ASSUME ResolvedOK, Passed
  PROVE  /\ sig \in Signatures /\ Clean(sig) /\ Closed(sig)
         /\ AllVars(sig) \subseteq CoreVars /\ AllLocs(sig) \subseteq Nat
         /\ AllReq(sig) \subseteq AllLocs(sig)
         /\ sig.ret \in CoreTypesOver(AllLocs(sig), AllVars(sig)) /\ sig.ret \in CoreTypes
<1>1. /\ sig \in Signatures /\ Clean(sig) /\ Closed(sig)
      /\ sig.ret \in CoreTypesOver(AllLocs(sig), AllVars(sig))
  BY DEF ResolvedOK
<1>2. AllVars(sig) \subseteq CoreVars /\ AllLocs(sig) \subseteq Nat /\ AllReq(sig) \subseteq AllLocs(sig)
  BY <1>1, NamesOfSignature
<1>3. CoreTypesOver(AllLocs(sig), AllVars(sig)) \subseteq CoreTypes
  BY <1>2, CoreOverGrow DEF CoreTypes
<1> QED
  BY <1>1, <1>2, <1>3

(* Every type of the signature is over its regions and parameters.         *)
LEMMA CheckedTypesClosed ==
  ASSUME ResolvedOK, Passed, NEW k \in DOMAIN CheckedTypes
  PROVE  CheckedTypes[k] \in CoreTypesOver(AllLocs(sig), AllVars(sig))
<1> DEFINE m == Len(sig.args)
           n == Len(sig.ensures)
           All == CoreTypesOver(AllLocs(sig), AllVars(sig))
<1>1. /\ sig \in Signatures /\ Clean(sig) /\ Closed(sig) /\ AllReq(sig) \subseteq AllLocs(sig)
      /\ sig.ret \in All /\ sig.ret \in CoreTypes
  BY PassedIsClosed
<1>2. m \in Nat /\ n \in Nat /\ k \in 1 .. m + n + 1 /\ CheckedTypes[k] = CheckedType(k)
  BY <1>1, CleanSections, CheckedTypesAre
<1>3. \A i \in 1..m : sig.args[i] \in All
  <2>1. CoreTypesOver(AllReq(sig), AllVars(sig)) \subseteq All
    BY <1>1, CoreOverGrow
  <2> HIDE DEF All
  <2> QED
    BY <1>1, <2>1 DEF Closed, ArgsClosed
<1>4. ASSUME NEW i \in 1..n
      PROVE  sig.ensures[i].ty \in All
  <2>1. AllReq(sig) \union EnsOf(sig, i) \subseteq AllLocs(sig)
    BY <1>2 DEF AllLocs, EnsOf
  <2>2. CoreTypesOver(AllReq(sig) \union EnsOf(sig, i), AllVars(sig)) \subseteq All
    BY <2>1, CoreOverGrow
  <2> HIDE DEF All
  <2> QED
    BY <1>1, <2>2 DEF Closed, EnsuresClosed
<1>8. /\ k <= m => CheckedTypes[k] = sig.args[k]
      /\ ~ (k <= m) /\ k <= m + n => CheckedTypes[k] = sig.ensures[k - m].ty
      /\ ~ (k <= m) /\ ~ (k <= m + n) => CheckedTypes[k] = sig.ret
  BY <1>2 DEF CheckedType
<1> HIDE DEF All, m, n
<1>5. CASE k <= m
  BY <1>2, <1>3, <1>5, <1>8 DEF All
<1>6. CASE ~ (k <= m) /\ k <= m + n
  <2>1. k - m \in 1..n
    BY <1>2, <1>6
  <2> QED
    BY <1>4, <1>6, <1>8, <2>1 DEF All
<1>7. CASE ~ (k <= m) /\ ~ (k <= m + n)
  BY <1>1, <1>7, <1>8 DEF All
<1> QED
  BY <1>5, <1>6, <1>7 DEF All

(* Wf finds a sort for every expression, and accepts only what is sorted.  *)
LEMMA CheckFnSigSorts ==
  ASSUME ResolvedOK, CheckFnSig
  PROVE  at' # "panicked" /\ (at' = "accepted" => WellSortedSig)
<1> DEFINE senv == ParamSenv(sig.params, Len(sig.params))
           sorts == ParamSorts(Len(sig.params))
           inParam(k) == CheckExpr(sig.params[k].pred, ParamSenv(sig.params, k), "Bool")
           inType(k) == CheckType(CheckedTypes[k], TypeSenv(senv, CheckedTypes, k - 1))
           found == {inParam(k) : k \in DOMAIN sig.params} \union {inType(k) : k \in DOMAIN CheckedTypes}
<1>1. /\ at = "wf"
      /\ at' = IF "panic" \in found THEN "panicked"
               ELSE IF "none" \in found THEN "rejected" ELSE "accepted"
  BY DEF CheckFnSig
<1>2. Passed
  BY <1>1 DEF Passed, Sections
<1>3. /\ sig \in Signatures /\ Clean(sig) /\ Closed(sig) /\ ParamsClosed(sig)
      /\ AllVars(sig) \subseteq CoreVars /\ sig.ret \in CoreTypes
  BY <1>2, PassedIsClosed DEF Closed
<1>4. ASSUME NEW k \in DOMAIN sig.params
      PROVE  /\ inParam(k) # "panic"
             /\ inParam(k) # "none" => SortOf(sig.params[k].pred, ParamSorts(k)) = "Bool"
  <2>1. k \in 1..Len(sig.params) /\ k \in 0..Len(sig.params)
    BY <1>3, CleanSections
  <2>2. /\ Agree(ParamSenv(sig.params, k), ParamSorts(k), VarsOf(sig, k))
        /\ sig.params[k].pred \in Exprs(VarsOf(sig, k), MaxDepth)
    BY <1>3, <2>1, ParamSenvAgrees DEF ParamsClosed
  <2>3. VarsOf(sig, k) \subseteq CoreVars
    <3>1. VarsOf(sig, k) \subseteq AllVars(sig)
      BY <2>1 DEF VarsOf, AllVars
    <3> QED
      BY <1>3, <3>1
  <2> DEFINE W == VarsOf(sig, k)
             s1 == ParamSenv(sig.params, k)
             s2 == ParamSorts(k)
             e == sig.params[k].pred
             b == "Bool"
  <2>4. W \subseteq CoreVars /\ Agree(s1, s2, W) /\ e \in Exprs(W, MaxDepth) /\ b \in Sorts
    BY <2>2, <2>3 DEF Sorts
  <2> HIDE DEF W, s1, s2, e, b
  <2>5. CheckExpr(e, s1, b) # "panic" /\ (CheckExpr(e, s1, b) # "none" => SortOf(e, s2) = b)
    BY ONLY <2>4, CheckExprIsSortOf
  <2> QED
    BY <2>5 DEF s1, s2, e, b
<1>5. ASSUME NEW k \in DOMAIN CheckedTypes
      PROVE  inType(k) # "panic" /\ (inType(k) # "none" => WellSorted(CheckedTypes[k], sorts))
  <2>1. Len(CheckedTypes) \in Nat /\ k - 1 \in 0..Len(CheckedTypes)
    BY <1>3, CheckedTypesAre, CleanSections
  <2>2. Len(sig.params) \in 0..Len(sig.params)
    BY <1>3, CleanSections
  <2> DEFINE W == AllVars(sig)
             L == AllLocs(sig)
             tys == CheckedTypes
             s1 == TypeSenv(senv, tys, k - 1)
             ty == tys[k]
  <2>3. Agree(senv, sorts, W) /\ Bound \notin W
    BY <1>3, <2>2, ParamSenvAgrees, VarsAreNotBound DEF AllVars
  <2>4. ty \in CoreTypesOver(L, W)
    BY <1>2, CheckedTypesClosed
  <2> HIDE DEF senv, sorts, W, L, tys
  <2>5. Agree(s1, sorts, W)
    BY <2>1, <2>3, TypeSenvAgrees DEF tys
  <2>6. W \subseteq CoreVars
    BY <1>3 DEF W
  <2> HIDE DEF s1, ty
  <2>7. CheckType(ty, s1) # "panic" /\ (CheckType(ty, s1) # "none" => WellSorted(ty, sorts))
    BY ONLY <2>3, <2>4, <2>5, <2>6, CheckTypeIsWellSorted
  <2> QED
    BY <2>7 DEF ty, s1, tys
<1>6. "panic" \notin found
  <2> HIDE DEF inParam, inType
  <2> QED
    BY <1>4, <1>5
<1>7. ASSUME at' = "accepted" PROVE WellSortedSig
  <2>1. "none" \notin found
    BY <1>1, <1>6, <1>7
  <2>2. /\ \A k \in DOMAIN sig.params : inParam(k) # "none"
        /\ \A k \in DOMAIN CheckedTypes : inType(k) # "none"
    <3> HIDE DEF inParam, inType
    <3> QED
      BY <2>1
  <2>3. /\ \A k \in DOMAIN sig.params : SortOf(sig.params[k].pred, ParamSorts(k)) = "Bool"
        /\ \A k \in DOMAIN CheckedTypes : WellSorted(CheckedTypes[k], sorts)
    <3> HIDE DEF inParam, inType, sorts
    <3> QED
      BY <1>4, <1>5, <2>2
  <2> HIDE DEF sorts
  <2> DEFINE m == Len(sig.args)
             n == Len(sig.ensures)
  <2>4. /\ m \in Nat /\ n \in Nat /\ DOMAIN sig.args = 1..m /\ DOMAIN sig.ensures = 1..n
        /\ DOMAIN CheckedTypes = 1 .. m + n + 1
        /\ \A k \in DOMAIN CheckedTypes : CheckedTypes[k] = CheckedType(k)
    BY <1>3, CleanSections, CheckedTypesAre
  <2>5. \A k \in 1 .. m + n + 1 : WellSorted(CheckedType(k), sorts)
    BY <2>3, <2>4
  <2>6. ASSUME NEW k \in 1..m PROVE WellSorted(sig.args[k], sorts)
    <3>0. k <= m => CheckedType(k) = sig.args[k]
      BY DEF CheckedType
    <3> HIDE DEF m, n
    <3>1. k \in 1 .. m + n + 1 /\ k <= m
      BY <2>4
    <3> QED
      BY <2>5, <3>0, <3>1
  <2>7. ASSUME NEW k \in 1..n PROVE WellSorted(sig.ensures[k].ty, sorts)
    <3>0. ~ (m + k <= m) /\ m + k <= m + n => CheckedType(m + k) = sig.ensures[(m + k) - m].ty
      BY DEF CheckedType
    <3> HIDE DEF m, n
    <3>1. m + k \in 1 .. m + n + 1 /\ ~ (m + k <= m) /\ m + k <= m + n /\ (m + k) - m = k
      BY <2>4
    <3>2. CheckedType(m + k) = sig.ensures[k].ty
      BY <3>0, <3>1
    <3> QED
      BY <2>5, <3>1, <3>2
  <2>8. WellSorted(sig.ret, sorts)
    <3>0. ~ (m + n + 1 <= m) /\ ~ (m + n + 1 <= m + n) => CheckedType(m + n + 1) = sig.ret
      BY DEF CheckedType
    <3> HIDE DEF m, n
    <3>1. m + n + 1 \in 1 .. m + n + 1 /\ ~ (m + n + 1 <= m) /\ ~ (m + n + 1 <= m + n)
      BY <2>4
    <3>2. CheckedType(m + n + 1) = sig.ret
      BY <3>0, <3>1
    <3> QED
      BY <2>5, <3>1, <3>2
  <2> QED
    BY <2>3, <2>4, <2>6, <2>7, <2>8 DEF WellSortedSig, sorts
<1> HIDE DEF found
<1> QED
  BY <1>1, <1>6, <1>7


SortsIn(s, n) ==
    [v \in {Free(s.params[k].name) : k \in 1..n} |->
        s.params[CHOOSE k \in 1..n : Free(s.params[k].name) = v].sort]
WellSortedIn(s) ==
    /\ \A k \in DOMAIN s.params : SortOf(s.params[k].pred, SortsIn(s, k)) = "Bool"
    /\ \A k \in DOMAIN s.args : WellSorted(s.args[k], SortsIn(s, Len(s.params)))
    /\ \A k \in DOMAIN s.ensures : WellSorted(s.ensures[k].ty, SortsIn(s, Len(s.params)))
    /\ WellSorted(s.ret, SortsIn(s, Len(s.params)))

LEMMA WellSortedInSig == WellSortedIn(sig) <=> WellSortedSig
<1>1. \A n : ParamSorts(n) = SortsIn(sig, n)
  BY DEF ParamSorts, SortsIn
<1> QED
  BY <1>1 DEF WellSortedIn, WellSortedSig

SortedOK == Accepted => WellSortedIn(sig)

(* The resolver does not touch the caller.                                 *)
LEMMA ResolveStays ==
  ASSUME Resolve
  PROVE  /\ at \in Sections \union {"ret"} /\ at' \in Sections \union {"ret", "wf", "rejected"}
         /\ env' = env
<1>1. ASSUME NEW p \in Params, ResolveParam(p[1], p[2], p[3])
      PROVE  at = "params" /\ at' = "params" /\ env' = env
  BY <1>1 DEF ResolveParam, Reading
<1>2. ASSUME NEW r \in Requires, ResolveRequires(r[1], r[2])
      PROVE  at = "requires" /\ at' = "requires" /\ env' = env
  BY <1>2 DEF ResolveRequires, Reading
<1>3. ASSUME NEW ty \in Args, ResolveArg(ty)
      PROVE  at = "args" /\ at' = "args" /\ env' = env
  BY <1>3 DEF ResolveArg, Reading
<1>4. ASSUME NEW e \in Ensures, ResolveEnsures(e[1], e[2])
      PROVE  at = "ensures" /\ at' = "ensures" /\ env' = env
  BY <1>4 DEF ResolveEnsures, Reading
<1>5. ASSUME NextSection
      PROVE  at \in Sections /\ at' \in Sections \union {"ret"} /\ env' = env
  BY <1>5, FollowingIs DEF NextSection, Sections
<1>6. ASSUME NEW ty \in Rets, ResolveRet(ty)
      PROVE  at = "ret" /\ at' \in {"rejected", "wf"} /\ env' = env
  BY <1>6 DEF ResolveRet
<1> QED
  BY <1>1, <1>2, <1>3, <1>4, <1>5, <1>6 DEF Resolve, Sections

LEMMA SortedStep ==
  ASSUME TypeOK, ResolvedOK, SortedOK, [Next]_vars
  PROVE  SortedOK'
<1>1. CASE Resolve
  <2>1. at' \in Sections \union {"ret", "wf", "rejected"}
    BY <1>1, ResolveStays
  <2> QED
    BY <2>1 DEF SortedOK, Accepted
<1>2. CASE CheckFnSig
  <2>1. at' \in {"panicked", "rejected", "accepted"} /\ sig' = sig
    BY <1>2 DEF CheckFnSig
  <2>2. at' # "panicked" /\ (at' = "accepted" => WellSortedIn(sig))
    BY <1>2, CheckFnSigSorts, WellSortedInSig
  <2> QED
    BY <2>1, <2>2 DEF SortedOK, Accepted
<1>3. CASE CheckCall
  <2>1. at \in {"accepted", "infer", "lower", "update", "destination"} /\ sig' = sig
    BY <1>3 DEF CheckCall, Call, InferFromFnCall, LowerCall, Ensure, WriteDestination
  <2>2. Accepted
    BY <2>1 DEF Accepted, Sections
  <2> QED
    BY <2>1, <2>2 DEF SortedOK
<1>4. CASE UNCHANGED vars
  BY <1>4 DEF vars, SortedOK, Accepted
<1> QED
  BY <1>1, <1>2, <1>3, <1>4 DEF Next

LEMMA ClosedIsWellFormed ==
  ASSUME ResolvedOK, SortedOK
  PROVE  AcceptedIsWellFormed
<1> SUFFICES ASSUME Accepted
             PROVE  LET sorts == ParamSorts(Len(sig.params))
                        required == RequiredUpTo(Len(sig.requires))
                    IN  /\ \A k \in DOMAIN sig.params :
                              SortOf(sig.params[k].pred, ParamSorts(k)) = "Bool"
                        /\ \A k \in DOMAIN sig.args :
                              WellSorted(sig.args[k], sorts)
                              /\ LocsOf(CoreTypes, sig.args[k]) \subseteq required
                        /\ \A k \in DOMAIN sig.requires :
                              LocsOf(CoreTypes, sig.requires[k].ty) \subseteq RequiredUpTo(k)
                        /\ \A k \in DOMAIN sig.ensures :
                              /\ WellSorted(sig.ensures[k].ty, sorts)
                              /\ LocsOf(CoreTypes, sig.ensures[k].ty)
                                    \subseteq required \union EnsuredUpTo(k)
                        /\ WellSorted(sig.ret, sorts)
                        /\ LocsOf(CoreTypes, sig.ret)
                              \subseteq required \union EnsuredUpTo(Len(sig.ensures))
  BY DEF AcceptedIsWellFormed
<1>1. Passed
  BY DEF Accepted, Passed
<1>2. /\ sig \in Signatures /\ Clean(sig) /\ Closed(sig)
      /\ AllVars(sig) \subseteq CoreVars /\ AllLocs(sig) \subseteq Nat
      /\ AllReq(sig) \subseteq AllLocs(sig)
      /\ sig.ret \in CoreTypesOver(AllLocs(sig), AllVars(sig))
  BY <1>1, PassedIsClosed
<1>3. /\ \A n : RequiredUpTo(n) = ReqOf(sig, n) /\ EnsuredUpTo(n) = EnsOf(sig, n)
      /\ DOMAIN sig.args = 1..Len(sig.args) /\ DOMAIN sig.requires = 1..Len(sig.requires)
      /\ DOMAIN sig.ensures = 1..Len(sig.ensures)
      /\ Len(sig.requires) \in Nat /\ Len(sig.ensures) \in Nat
  BY <1>2, CleanSections DEF RequiredUpTo, EnsuredUpTo, ReqOf, EnsOf
<1>4. WellSortedSig
  BY WellSortedInSig DEF SortedOK
<1>5. \A L \in SUBSET Nat : \A ty \in CoreTypesOver(L, AllVars(sig)) :
         LocsOf(CoreTypes, ty) \subseteq L
  BY <1>2, CoreLocs
<1>6. ASSUME NEW k \in DOMAIN sig.args
      PROVE  LocsOf(CoreTypes, sig.args[k]) \subseteq RequiredUpTo(Len(sig.requires))
  <2>1. sig.args[k] \in CoreTypesOver(AllReq(sig), AllVars(sig))
    BY <1>2, <1>3 DEF Closed, ArgsClosed
  <2> QED
    BY <1>2, <1>3, <1>5, <2>1 DEF AllReq
<1>7. ASSUME NEW k \in DOMAIN sig.requires
      PROVE  LocsOf(CoreTypes, sig.requires[k].ty) \subseteq RequiredUpTo(k)
  <2>1. sig.requires[k].ty \in CoreTypesOver(ReqOf(sig, k), AllVars(sig))
    BY <1>2, <1>3 DEF Closed, RequiresClosed
  <2>2. ReqOf(sig, k) \subseteq AllReq(sig)
    BY <1>3 DEF ReqOf, AllReq
  <2> QED
    BY <1>2, <1>3, <1>5, <2>1, <2>2
<1>8. ASSUME NEW k \in DOMAIN sig.ensures
      PROVE  LocsOf(CoreTypes, sig.ensures[k].ty)
                \subseteq RequiredUpTo(Len(sig.requires)) \union EnsuredUpTo(k)
  <2> DEFINE L == AllReq(sig) \union EnsOf(sig, k)
  <2>1. sig.ensures[k].ty \in CoreTypesOver(L, AllVars(sig))
    BY <1>2, <1>3 DEF Closed, EnsuresClosed
  <2>2. L \subseteq AllLocs(sig)
    BY <1>3 DEF EnsOf, AllLocs
  <2>3. L = RequiredUpTo(Len(sig.requires)) \union EnsuredUpTo(k)
    BY <1>3 DEF AllReq
  <2> HIDE DEF L
  <2>4. LocsOf(CoreTypes, sig.ensures[k].ty) \subseteq L
    BY <1>2, <1>5, <2>1, <2>2
  <2> QED
    BY <2>3, <2>4
<1>9. LocsOf(CoreTypes, sig.ret)
         \subseteq RequiredUpTo(Len(sig.requires)) \union EnsuredUpTo(Len(sig.ensures))
  <2>1. LocsOf(CoreTypes, sig.ret) \subseteq AllLocs(sig)
    BY <1>2, <1>5
  <2> QED
    BY <1>3, <2>1 DEF AllLocs, AllReq
<1> QED
  BY <1>4, <1>6, <1>7, <1>8, <1>9 DEF WellSortedSig

(* What the resolver and Wf accept is closed and well sorted, although     *)
(* the map of sorts keeps the binders of earlier types: AcceptedIsWell-    *)
(* Formed, of resolve_fn_sig and check_fn_sig.                             *)
THEOREM AcceptedWellFormed == Spec => []AcceptedIsWellFormed
<1>1. Init => SortedOK
  BY DEF Init, SortedOK, Accepted, Sections
<1>2. TypeOK /\ ResolvedOK /\ SortedOK /\ [Next]_vars => SortedOK'
  BY SortedStep
<1>3. ResolvedOK /\ SortedOK => AcceptedIsWellFormed
  BY ClosedIsWellFormed
<1> QED
  BY <1>1, <1>2, <1>3, ResolverClosed, PTL DEF Spec


-----------------------------------------------------------------------------
(* What a call infers                                                      *)

LEMMA CallerTypeParts ==
  ASSUME NEW L, NEW t \in CallerTypesOver(L, MaxDepth)
  PROVE  /\ t.form = "refine" => t.expr \in Exprs(CallerVars, MaxDepth)
         /\ t.form = "ref" => t.loc \in L
<1> DEFINE leaves == RefsAndParams(L) \union {Weak}
           none == {}
           bound == {Bound}
           ex == Exprs(CallerVars, MaxDepth)
           un == Exprs(CallerVars \union {Bound}, MaxDepth)
           n == MaxDepth
           args == ArgsTo(leaves, none, bound, ex, un, n)
<1>1. t \in TypesTo(leaves, none, bound, ex, un, n) /\ n \in Nat
  BY TypesAreLevels, MaxDepthIsNat DEF CallerTypesOver
<1>2. \A c \in leaves : /\ c.form # "refine"
                        /\ c.form = "ref" => c.loc \in L
  BY DEF RefsAndParams, Weak
<1>3. none = {}
  OBVIOUS
<1> HIDE DEF leaves, none, bound, ex, un, n
<1>4. t \in leaves \/ TypeShape(leaves, none, bound, ex, un, args, t)
  BY <1>1, TypeCases
<1>5. t \in leaves \/ RefineShape(ex, args, t) \/ ExistsShape(bound, un, args, t)
  BY <1>3, <1>4 DEF TypeShape, PlainShape
<1> QED
  BY <1>2, <1>5 DEF RefineShape, ExistsShape, ex

AccOK(acc, locs) ==
    /\ DOMAIN acc = {"exprs", "locs", "clash", "lost"}
    /\ InstOfExprs(acc) /\ InstOfLocs(acc, locs)

LEMMA InferKeeps ==
  ASSUME NEW locs, NEW acc, AccOK(acc, locs), NEW t \in CallerTypesOver(locs, MaxDepth), NEW f
  PROVE  AccOK(Infer(acc, t, f), locs)
<1> DEFINE new == Infer(acc, t, f)
           name == f.expr.var.name
           es == Put(acc.exprs, name, t.expr)
           ls == Put(acc.locs, f.loc, t.loc)
<1>1. CASE t.form = "refine" /\ f.form = "refine" /\ IsVar(f.expr)
  <2>1. new = [acc EXCEPT !.exprs = Put(@, name, t.expr),
                         !.clash = @ \/ (name \in DOMAIN acc.exprs /\ acc.exprs[name] # t.expr)]
    BY <1>1 DEF Infer
  <2>2. DOMAIN new = DOMAIN acc /\ new.exprs = es /\ new.locs = acc.locs
    BY <2>1 DEF AccOK
  <2>3. t.expr \in Exprs(CallerVars, MaxDepth)
    BY <1>1, CallerTypeParts
  <2>4. PutIs(acc.exprs, name, t.expr, es)
    BY PutFacts
  <2> HIDE DEF new, es, name
  <2>5. \A n \in DOMAIN es : es[n] \in Exprs(CallerVars, MaxDepth)
    BY <2>3, <2>4 DEF PutIs, AccOK, InstOfExprs
  <2>6. AccOK(new, locs)
    BY <2>2, <2>5 DEF AccOK, InstOfExprs, InstOfLocs
  <2> QED
    BY <2>6 DEF new
<1>2. CASE t.form = "ref" /\ f.form = "ref"
  <2>1. new = [acc EXCEPT !.locs = Put(@, f.loc, t.loc),
                         !.clash = @ \/ (f.loc \in DOMAIN acc.locs /\ acc.locs[f.loc] # t.loc)]
    BY <1>2 DEF Infer
  <2>2. DOMAIN new = DOMAIN acc /\ new.locs = ls /\ new.exprs = acc.exprs
    BY <2>1 DEF AccOK
  <2>3. t.loc \in locs
    BY <1>2, CallerTypeParts
  <2>4. PutIs(acc.locs, f.loc, t.loc, ls)
    BY PutFacts
  <2> HIDE DEF new, ls
  <2>5. \A l \in DOMAIN ls : ls[l] \in locs
    BY <2>3, <2>4 DEF PutIs, AccOK, InstOfLocs
  <2>6. AccOK(new, locs)
    BY <2>2, <2>5 DEF AccOK, InstOfExprs, InstOfLocs
  <2> QED
    BY <2>6 DEF new
<1>3. CASE ~ (t.form = "refine" /\ f.form = "refine" /\ IsVar(f.expr)) /\ ~ (t.form = "ref" /\ f.form = "ref")
  BY <1>3 DEF Infer
<1> QED
  BY <1>1, <1>2, <1>3

LEMMA InferRequiredKeeps ==
  ASSUME env = CallerEnv, NEW acc, AccOK(acc, DOMAIN CallerEnv), NEW r
  PROVE  AccOK(InferRequired(acc, r), DOMAIN CallerEnv)
<1>1. CASE acc.clash \/ acc.lost
  BY <1>1 DEF InferRequired
<1>2. CASE ~ (acc.clash \/ acc.lost) /\ (r.loc \notin DOMAIN acc.locs \/ acc.locs[r.loc] \notin DOMAIN env)
  <2> DEFINE new == [acc EXCEPT !.lost = TRUE]
  <2>1. DOMAIN new = DOMAIN acc /\ new.exprs = acc.exprs /\ new.locs = acc.locs
    OBVIOUS
  <2>2. InferRequired(acc, r) = new
    BY <1>2 DEF InferRequired
  <2> HIDE DEF new
  <2> QED
    BY <2>1, <2>2 DEF AccOK, InstOfExprs, InstOfLocs
<1>3. CASE ~ (acc.clash \/ acc.lost) /\ r.loc \in DOMAIN acc.locs /\ acc.locs[r.loc] \in DOMAIN env
  <2>1. InferRequired(acc, r) = Infer(acc, env[acc.locs[r.loc]], r.ty)
    BY <1>3 DEF InferRequired
  <2>2. env[acc.locs[r.loc]] \in CallerTypesOver(DOMAIN CallerEnv, MaxDepth)
    BY <1>3, SignatureAssumption
  <2> QED
    BY <2>1, <2>2, InferKeeps
<1> QED
  BY <1>1, <1>2, <1>3

InferArgsIs(f) ==
    f = [k \in 0..Len(actuals) |->
            IF k = 0 THEN [exprs |-> <<>>, locs |-> <<>>, clash |-> FALSE, lost |-> FALSE]
            ELSE Infer(f[k - 1], actuals[k], sig.args[k])]
InferArgsFcn == CHOOSE f : InferArgsIs(f)
InferStart == [exprs |-> <<>>, locs |-> <<>>, clash |-> FALSE, lost |-> FALSE]

LEMMA InferArgsTyped ==
  ASSUME Len(actuals) \in Nat, \A k \in 1..Len(actuals) : actuals[k] \in Actuals
  PROVE  AccOK(InferArgs, DOMAIN CallerEnv)
<1> DEFINE f == InferArgsFcn
           N == Len(actuals)
           T == {k \in Nat : k <= N => AccOK(f[k], DOMAIN CallerEnv)}
<1>1. InferArgs = f[N]
  BY DEF InferArgs, InferArgsFcn, InferArgsIs
<1>2. \A g : InferArgsIs(g) <=> FoldIs("args", sig.args, InferStart, N, g)
  BY DEF InferArgsIs, FoldIs, FoldStep, InferStart
<1>3. InferArgsIs(f)
  <2>1. PICK g : FoldIs("args", sig.args, InferStart, N, g)
    BY FoldExists
  <2>2. InferArgsIs(g)
    BY <1>2, <2>1
  <2> QED
    BY <2>2 DEF InferArgsFcn
<1>4. FoldSteps("args", sig.args, InferStart, N, f)
  BY <1>2, <1>3, FoldUnfold
<1> HIDE DEF f
<1>5. f[0] = InferStart /\ \A k \in 0 .. N - 1 : f[k + 1] = Infer(f[k], actuals[k + 1], sig.args[k + 1])
  BY <1>4 DEF FoldSteps, FoldStep
<1>6. 0 \in T
  <2>1. DOMAIN InferStart.exprs = {} /\ DOMAIN InferStart.locs = {}
        /\ DOMAIN InferStart = {"exprs", "locs", "clash", "lost"}
    BY DEF InferStart
  <2>2. AccOK(InferStart, DOMAIN CallerEnv)
    BY <2>1 DEF AccOK, InstOfExprs, InstOfLocs
  <2> QED
    BY <1>5, <2>2
<1>7. ASSUME NEW k \in Nat, k \in T PROVE k + 1 \in T
  <2> SUFFICES ASSUME k + 1 <= N PROVE AccOK(f[k + 1], DOMAIN CallerEnv)
    OBVIOUS
  <2>1. k \in 0 .. N - 1 /\ k + 1 \in 1..N /\ AccOK(f[k], DOMAIN CallerEnv)
    BY <1>7
  <2>2. actuals[k + 1] \in CallerTypesOver(DOMAIN CallerEnv, MaxDepth)
    BY <2>1, SignatureAssumption
  <2> QED
    BY <1>5, <2>1, <2>2, InferKeeps
<1> HIDE DEF T
<1>8. Nat \subseteq T
  BY <1>6, <1>7, SetInduction
<1> QED
  BY <1>1, <1>8 DEF T

InferRequiresIs(from, f) ==
    f = [k \in 0..Len(sig.requires) |->
            IF k = 0 THEN from ELSE InferRequired(f[k - 1], sig.requires[k])]
InferRequiresFcn(from) == CHOOSE f : InferRequiresIs(from, f)

LEMMA InferRequiresTyped ==
  ASSUME env = CallerEnv, Len(sig.requires) \in Nat, NEW from, AccOK(from, DOMAIN CallerEnv)
  PROVE  AccOK(InferRequires(from), DOMAIN CallerEnv)
<1> DEFINE f == InferRequiresFcn(from)
           N == Len(sig.requires)
           T == {k \in Nat : k <= N => AccOK(f[k], DOMAIN CallerEnv)}
<1>1. InferRequires(from) = f[N]
  BY DEF InferRequires, InferRequiresFcn, InferRequiresIs
<1>2. \A g : InferRequiresIs(from, g) <=> FoldIs("requires", sig.requires, from, N, g)
  BY DEF InferRequiresIs, FoldIs, FoldStep
<1>3. InferRequiresIs(from, f)
  <2>1. PICK g : FoldIs("requires", sig.requires, from, N, g)
    BY FoldExists
  <2>2. InferRequiresIs(from, g)
    BY <1>2, <2>1
  <2> QED
    BY <2>2 DEF InferRequiresFcn
<1>4. FoldSteps("requires", sig.requires, from, N, f)
  BY <1>2, <1>3, FoldUnfold
<1> HIDE DEF f
<1>5. f[0] = from /\ \A k \in 0 .. N - 1 : f[k + 1] = InferRequired(f[k], sig.requires[k + 1])
  BY <1>4 DEF FoldSteps, FoldStep
<1>6. 0 \in T
  BY <1>5
<1>7. ASSUME NEW k \in Nat, k \in T PROVE k + 1 \in T
  <2> SUFFICES ASSUME k + 1 <= N PROVE AccOK(f[k + 1], DOMAIN CallerEnv)
    OBVIOUS
  <2>1. k \in 0 .. N - 1 /\ AccOK(f[k], DOMAIN CallerEnv)
    BY <1>7
  <2> QED
    BY <1>5, <2>1, InferRequiredKeeps
<1> HIDE DEF T
<1>8. Nat \subseteq T
  BY <1>6, <1>7, SetInduction
<1> QED
  BY <1>1, <1>8 DEF T


-----------------------------------------------------------------------------
(* What a call leaves in the environment of the caller                     *)

EnvTyped(e) ==
    DOMAIN e \subseteq CallerLocs /\ \A l \in DOMAIN e : e[l] \in OverLocs(DOMAIN e)

InstOK(s, e, vs, locs) ==
    /\ DOMAIN s = {"exprs", "locs"}
    /\ InstOfExprs(s) /\ InstOfLocs(s, DOMAIN e)
    /\ Covered(s, vs) /\ locs \subseteq DOMAIN s.locs

LEMMA CallerEnvTyped == EnvTyped(CallerEnv)
<1>1. \A l \in DOMAIN CallerEnv : CallerEnv[l] \in CallerTypesOver(DOMAIN CallerEnv, MaxDepth)
  BY SignatureAssumption
<1>2. CallerTypesOver(DOMAIN CallerEnv, MaxDepth) \subseteq OverLocs(DOMAIN CallerEnv)
  BY OverLocsFacts
<1> QED
  BY <1>1, <1>2, SignatureAssumption DEF EnvTyped

LEMMA UnpackedTyped ==
  ASSUME NEW locs, NEW ty \in OverLocs(locs)
  PROVE  Unpacked(ty) \in OverLocs(locs)
<1> DEFINE ex == Exprs(CallerVars, 2 * MaxDepth)
           args == CallerArgs(locs, 2 * MaxDepth)
           x == Var([fresh |-> "caller"])
<1>1. \A c : c \in OverLocs(locs) <=>
         c \in RefsAndParams(locs) \union {Weak} \/ RefineShape(ex, args, c) \/ ExistsShape({Bound}, ex, args, c)
  BY CallerCases, MaxDepthIsNat DEF OverLocs
<1>2. x \in ex
  <2>1. [fresh |-> "caller"] \in CallerVars
    BY DEF CallerVars
  <2> QED
    BY <2>1, ExprMembers, MaxDepthIsNat
<1> HIDE DEF ex, args, x
<1>3. CASE ty.form = "exists"
  <2>1. \A c \in RefsAndParams(locs) \union {Weak} : c.form # "exists"
    BY DEF RefsAndParams, Weak
  <2>2. ExistsShape({Bound}, ex, args, ty)
    BY <1>1, <1>3, <2>1 DEF RefineShape
  <2>3. RefineShape(ex, args, Refine(ty.path, x))
    BY <1>2, <2>2 DEF ExistsShape, RefineShape, Refine
  <2>4. Unpacked(ty) = Refine(ty.path, x)
    BY <1>3 DEF Unpacked, x
  <2> QED
    BY <1>1, <2>3, <2>4
<1>4. CASE ty.form # "exists"
  BY <1>4 DEF Unpacked
<1> QED
  BY <1>3, <1>4

(* A binding for a location, of a type over the locations there are.       *)
LEMMA EnvTypedPut ==
  ASSUME NEW e, EnvTyped(e), NEW l \in CallerLocs, NEW ty \in OverLocs(DOMAIN e), NEW e2,
         PutIs(e, l, ty, e2)
  PROVE  EnvTyped(e2) /\ DOMAIN e \subseteq DOMAIN e2
<1>1. /\ DOMAIN e2 = DOMAIN e \union {l} /\ e2[l] = ty
      /\ \A m \in DOMAIN e : m # l => e2[m] = e[m]
  BY DEF PutIs
<1>2. OverLocs(DOMAIN e) \subseteq OverLocs(DOMAIN e2)
  BY <1>1, OverLocsFacts
<1>3. \A m \in DOMAIN e2 : e2[m] \in OverLocs(DOMAIN e)
  BY <1>1 DEF EnvTyped
<1> QED
  BY <1>1, <1>2, <1>3 DEF EnvTyped

(* The ensures of a call up to the k-th.                                   *)
EnsOK(acc, k) ==
    /\ DOMAIN acc = {"inst", "env", "lost"} /\ acc.lost \in BOOLEAN
    /\ acc.lost => EnsuresItself
    /\ ~ acc.lost => EnvTyped(acc.env)
                     /\ InstOK(acc.inst, acc.env, AllVars(sig), AllReq(sig) \union EnsOf(sig, k))

LEMMA EnsureKeeps ==
  ASSUME ResolvedOK, Passed, NEW k \in 0 .. Len(sig.ensures) - 1, NEW acc, EnsOK(acc, k)
  PROVE  EnsOK(EnsureOne(acc, sig.ensures[k + 1]), k + 1)
<1> DEFINE en == sig.ensures[k + 1]
           W == AllVars(sig)
           L == AllReq(sig) \union EnsOf(sig, k)
           L2 == AllReq(sig) \union EnsOf(sig, k + 1)
           t == LowerTy(en.ty, acc.inst)
           new == en.loc \notin DOMAIN acc.inst.locs
           loc == IF new THEN Abstract(en.loc) ELSE acc.inst.locs[en.loc]
           lost == [acc EXCEPT !.lost = TRUE]
           went == [acc EXCEPT !.inst.locs = Put(@, en.loc, loc), !.env = Put(@, loc, Unpacked(t))]
<1>1. /\ sig \in Signatures /\ Clean(sig) /\ Closed(sig)
      /\ AllVars(sig) \subseteq CoreVars /\ AllLocs(sig) \subseteq Nat
  BY PassedIsClosed
<1>2. Len(sig.ensures) \in Nat /\ k \in Nat /\ k + 1 \in 1..Len(sig.ensures) /\ en.loc \in Nat
  <2>1. Len(sig.ensures) \in Nat /\ \A i \in 1..Len(sig.ensures) : sig.ensures[i] \in Located
    BY <1>1, CleanSections
  <2>2. k \in Nat /\ k + 1 \in 1..Len(sig.ensures)
    BY <2>1
  <2> QED
    BY <2>1, <2>2 DEF Located
<1>3. L2 = L \union {en.loc} /\ L2 \subseteq AllLocs(sig)
  <2>1. \A i : i \in 1 .. k + 1 <=> i \in 1..k \/ i = k + 1
    BY <1>2
  <2>2. EnsOf(sig, k + 1) = EnsOf(sig, k) \union {en.loc}
    BY <2>1 DEF EnsOf
  <2>3. EnsOf(sig, k + 1) \subseteq EnsOf(sig, Len(sig.ensures))
    BY <1>2 DEF EnsOf
  <2> QED
    BY <2>2, <2>3 DEF AllLocs
<1>4. en.ty \in CoreTypesOver(L2, W)
  BY <1>1, <1>2 DEF Closed, EnsuresClosed
<1>5. EnsureOne(acc, en) = IF acc.lost \/ t = Err THEN lost ELSE went
  BY DEF EnsureOne
<1>6. EnsuresItself => EnsOK(lost, k + 1)
  <2>1. DOMAIN lost = {"inst", "env", "lost"} /\ lost.lost = TRUE
    BY DEF EnsOK
  <2> HIDE DEF lost
  <2> QED
    BY <2>1 DEF EnsOK
<1>7. CASE acc.lost
  <2>1. EnsuresItself
    BY <1>7 DEF EnsOK
  <2> HIDE DEF lost, went
  <2> QED
    BY <1>5, <1>6, <1>7, <2>1
<1>8. CASE ~ acc.lost
  <2>1. EnvTyped(acc.env) /\ InstOK(acc.inst, acc.env, W, L)
    BY <1>8 DEF EnsOK
  <2>2. /\ DOMAIN acc.env \subseteq CallerLocs /\ InstOfExprs(acc.inst)
        /\ InstOfLocs(acc.inst, DOMAIN acc.env) /\ Covered(acc.inst, W)
        /\ L \subseteq DOMAIN acc.inst.locs
    BY <2>1 DEF EnvTyped, InstOK
  <2>3. L \subseteq Nat /\ L2 \subseteq Nat /\ W \subseteq CoreVars
    BY <1>1, <1>3
  <2> HIDE DEF en, W, L, L2, lost, went
  <2>4. t \in OverLocs(DOMAIN acc.env) \union {Err}
    BY <1>4, <2>2, <2>3, LowerTyTyped
  <2>5. CASE t = Err
    <3>1. ~ (LocsOf(CoreTypes, en.ty) \subseteq L)
      <4> SUFFICES ASSUME LocsOf(CoreTypes, en.ty) \subseteq L PROVE FALSE
        OBVIOUS
      <4>1. en.ty \in CoreTypesOver(L, W)
        BY <1>4, <2>3, CoreLocs
      <4> QED
        BY <2>2, <2>3, <2>5, <4>1, LowerTyTyped
    <3>2. LocsOf(CoreTypes, en.ty) \subseteq L2
      BY <1>4, <2>3, CoreLocs
    <3>3. en.loc \in LocsOf(CoreTypes, en.ty) /\ en.loc \notin L
      BY <1>3, <3>1, <3>2
    <3>4. L = RequiredUpTo(Len(sig.requires)) \union EnsuredUpTo(k)
      BY DEF L, AllReq, ReqOf, EnsOf, RequiredUpTo, EnsuredUpTo
    <3>5. k + 1 \in DOMAIN sig.ensures /\ (k + 1) - 1 = k
      BY <1>1, <1>2, CleanSections
    <3>6. EnsuresItself
      BY <3>3, <3>4, <3>5 DEF EnsuresItself, en
    <3>7. EnsureOne(acc, en) = lost
      BY <1>5, <2>5
    <3> QED
      BY <1>6, <3>6, <3>7 DEF en
  <2>6. CASE t # Err
    <3>1. t \in OverLocs(DOMAIN acc.env)
      BY <2>4, <2>6
    <3>2. EnsureOne(acc, en) = went
      BY <1>5, <1>8, <2>6
    <3> HIDE DEF t
    <3>4. loc \in CallerLocs /\ (en.loc \in DOMAIN acc.inst.locs => loc \in DOMAIN acc.env)
      <4>1. CASE new
        BY <1>2, <4>1 DEF Abstract, CallerLocs, en
      <4>2. CASE ~ new
        BY <2>2, <4>2 DEF InstOfLocs
      <4> QED
        BY <4>1, <4>2
    <3> DEFINE ls == Put(acc.inst.locs, en.loc, loc)
               e2 == Put(acc.env, loc, Unpacked(t))
    <3>5. /\ DOMAIN went = {"inst", "env", "lost"} /\ went.lost = acc.lost /\ went.env = e2
          /\ DOMAIN went.inst = {"exprs", "locs"} /\ went.inst.exprs = acc.inst.exprs
          /\ went.inst.locs = ls
      <4>1. DOMAIN acc = {"inst", "env", "lost"} /\ DOMAIN acc.inst = {"exprs", "locs"}
        BY <2>1 DEF EnsOK, InstOK
      <4> HIDE DEF loc
      <4> QED
        BY <4>1 DEF went
    <3>6. PutIs(acc.inst.locs, en.loc, loc, ls) /\ PutIs(acc.env, loc, Unpacked(t), e2)
      BY PutFacts
    <3> HIDE DEF loc, ls, e2
    <3>7. EnvTyped(e2) /\ DOMAIN acc.env \subseteq DOMAIN e2
      BY <2>1, <3>1, <3>4, <3>6, UnpackedTyped, EnvTypedPut
    <3>8. loc \in DOMAIN e2
      BY <3>6 DEF PutIs
    <3>9. \A l \in DOMAIN ls : ls[l] \in DOMAIN e2
      BY <2>2, <3>6, <3>7, <3>8 DEF PutIs, InstOfLocs
    <3>10. L2 \subseteq DOMAIN ls
      BY <1>3, <2>2, <3>6 DEF PutIs
    <3>11. InstOK(went.inst, went.env, W, L2)
      <4>1. InstOfExprs(went.inst) /\ Covered(went.inst, W)
        BY <2>2, <3>5 DEF InstOfExprs, Covered
      <4> QED
        BY <3>5, <3>9, <3>10, <4>1 DEF InstOK, InstOfLocs
    <3>12. EnsOK(went, k + 1)
      <4>1. went.lost = FALSE
        BY <1>8, <3>5 DEF EnsOK
      <4>2. EnvTyped(went.env)
        BY <3>5, <3>7
      <4> QED
        BY <3>5, <3>11, <4>1, <4>2 DEF EnsOK, W, L2
    <3> QED
      BY <3>2, <3>12 DEF en
  <2> QED
    BY <2>5, <2>6
<1> QED
  BY <1>7, <1>8


EnsuredAllIs(f) ==
    f = [k \in 0..Len(sig.ensures) |->
            IF k = 0 THEN [inst |-> inst, env |-> env, lost |-> FALSE]
            ELSE EnsureOne(f[k - 1], sig.ensures[k])]
EnsuredAllFcn == CHOOSE f : EnsuredAllIs(f)

LEMMA EnsuredAllOK ==
  ASSUME ResolvedOK, Passed, EnvTyped(env), InstOK(inst, env, AllVars(sig), AllReq(sig))
  PROVE  EnsOK(EnsuredAll, Len(sig.ensures))
<1> DEFINE f == EnsuredAllFcn
           N == Len(sig.ensures)
           start == [inst |-> inst, env |-> env, lost |-> FALSE]
           T == {k \in Nat : k <= N => EnsOK(f[k], k)}
<1>1. EnsuredAll = f[N]
  BY DEF EnsuredAll, EnsuredAllFcn, EnsuredAllIs
<1>2. \A g : EnsuredAllIs(g) <=> FoldIs("ensures", sig.ensures, start, N, g)
  BY DEF EnsuredAllIs, FoldIs, FoldStep
<1>3. N \in Nat
  BY PassedIsClosed, CleanSections
<1> HIDE DEF start
<1>4. EnsuredAllIs(f)
  <2>1. PICK g : FoldIs("ensures", sig.ensures, start, N, g)
    BY <1>3, FoldExists
  <2>2. EnsuredAllIs(g)
    BY <1>2, <2>1
  <2> QED
    BY <2>2 DEF EnsuredAllFcn
<1>5. FoldSteps("ensures", sig.ensures, start, N, f)
  BY <1>2, <1>3, <1>4, FoldUnfold
<1> HIDE DEF f
<1>6. f[0] = start /\ \A k \in 0 .. N - 1 : f[k + 1] = EnsureOne(f[k], sig.ensures[k + 1])
  BY <1>5 DEF FoldSteps, FoldStep
<1>7. 0 \in T
  <2>1. /\ DOMAIN start = {"inst", "env", "lost"} /\ start.lost = FALSE
        /\ start.inst = inst /\ start.env = env
    BY DEF start
  <2>2. AllReq(sig) \union EnsOf(sig, 0) = AllReq(sig)
    BY DEF EnsOf
  <2>3. EnsOK(start, 0)
    BY <2>1, <2>2 DEF EnsOK
  <2> QED
    BY <1>6, <2>3
<1>8. ASSUME NEW k \in Nat, k \in T PROVE k + 1 \in T
  <2> SUFFICES ASSUME k + 1 <= N PROVE EnsOK(f[k + 1], k + 1)
    OBVIOUS
  <2>1. k \in 0 .. N - 1 /\ EnsOK(f[k], k)
    BY <1>3, <1>8
  <2> QED
    BY <1>6, <2>1, EnsureKeeps
<1> HIDE DEF T
<1>9. Nat \subseteq T
  BY <1>7, <1>8, SetInduction
<1> QED
  BY <1>1, <1>3, <1>9 DEF T

(* Until the ensures, the environment is the one of the caller.            *)
CallOK ==
    /\ at \notin {"destination", "returned", "panicked"} => env = CallerEnv
    /\ at = "infer" => /\ Len(actuals) \in Nat
                       /\ \A k \in 1..Len(actuals) : actuals[k] \in Actuals
    /\ at \in {"lower", "update"} => InstOK(inst, env, AllVars(sig), AllReq(sig))
    /\ at = "destination" => InstOK(inst, env, AllVars(sig), AllLocs(sig))
    /\ at \in {"destination", "returned"} => EnvTyped(env)
    /\ at = "panicked" => EnsuresItself

LEMMA CallBegins ==
  ASSUME ResolvedOK, CallOK, NEW as \in [DOMAIN sig.args -> Actuals], Call(as)
  PROVE  CallOK'
<1>1. at = "accepted" /\ at' = "infer" /\ actuals' = as /\ env' = env
  BY DEF Call
<1>2. Passed
  BY <1>1 DEF Passed, Sections
<1>3. DOMAIN sig.args = 1..Len(sig.args) /\ Len(sig.args) \in Nat
  BY <1>2, PassedIsClosed, CleanSections
<1>4. Len(as) = Len(sig.args)
  <2> DEFINE n == Len(sig.args)
  <2>1. as = [k \in 1..n |-> as[k]] /\ n \in Nat
    BY <1>3
  <2> HIDE DEF n
  <2>2. Len(as) = n
    BY <2>1
  <2> QED
    BY <2>2 DEF n
<1>5. \A k \in 1..Len(as) : as[k] \in Actuals
  <2>1. \A k \in DOMAIN sig.args : as[k] \in Actuals
    OBVIOUS
  <2> QED
    BY <1>3, <1>4, <2>1
<1> QED
  BY <1>1, <1>3, <1>4, <1>5 DEF CallOK

LEMMA CallInfers ==
  ASSUME ResolvedOK, CallOK, InferFromFnCall
  PROVE  CallOK'
<1> DEFINE all == InferRequires(InferArgs)
<1>1. /\ at = "infer" /\ inst' = [exprs |-> all.exprs, locs |-> all.locs]
      /\ at' = IF all.clash THEN "ambiguous"
               ELSE IF all.lost THEN "undetermined"
               ELSE IF Inferred(all) THEN "lower" ELSE "inference error"
      /\ sig' = sig /\ env' = env
  BY DEF InferFromFnCall
<1>2. Passed
  BY <1>1 DEF Passed, Sections
<1>3. sig \in Signatures /\ Clean(sig) /\ env = CallerEnv
      /\ Len(actuals) \in Nat /\ \A k \in 1..Len(actuals) : actuals[k] \in Actuals
  BY <1>1, <1>2, PassedIsClosed DEF CallOK
<1>4. /\ Len(sig.requires) \in Nat /\ DOMAIN sig.params = 1..Len(sig.params)
      /\ DOMAIN sig.requires = 1..Len(sig.requires)
  BY <1>3, CleanSections
<1>5. AccOK(all, DOMAIN CallerEnv)
  BY <1>3, <1>4, InferArgsTyped, InferRequiresTyped
<1> HIDE DEF all
<1>6. DOMAIN inst' = {"exprs", "locs"} /\ inst'.exprs = all.exprs /\ inst'.locs = all.locs
  BY <1>1
<1>7. ASSUME Inferred(all)
      PROVE  InstOK(inst', env, AllVars(sig), AllReq(sig))
  <2>1. \A k \in 1..Len(sig.params) : Free(sig.params[k].name).name \in DOMAIN all.exprs
    BY <1>4, <1>7 DEF Inferred, Free
  <2>2. Covered(inst', AllVars(sig))
    BY <1>6, <2>1 DEF Covered, AllVars, VarsOf
  <2>3. AllReq(sig) \subseteq DOMAIN all.locs
    BY <1>4, <1>7 DEF Inferred, AllReq, ReqOf
  <2>4. InstOfExprs(inst') /\ InstOfLocs(inst', DOMAIN env)
    BY <1>3, <1>5, <1>6 DEF AccOK, InstOfExprs, InstOfLocs
  <2> QED
    BY <1>6, <2>2, <2>3, <2>4 DEF InstOK
<1>8. at' \in {"ambiguous", "undetermined", "lower", "inference error"}
      /\ (at' = "lower" => Inferred(all))
  BY <1>1
<1> QED
  BY <1>1, <1>3, <1>7, <1>8 DEF CallOK

LEMMA CallLowers ==
  ASSUME ResolvedOK, CallOK, LowerCall
  PROVE  CallOK'
<1>1. at = "lower" /\ at' \in {"update", "panicked"} /\ sig' = sig /\ inst' = inst /\ env' = env
  BY DEF LowerCall
<1>2. Passed
  BY <1>1 DEF Passed, Sections
<1> DEFINE W == AllVars(sig)
           L == AllReq(sig)
<1>3. /\ sig \in Signatures /\ Clean(sig) /\ Closed(sig) /\ W \subseteq CoreVars
      /\ L \subseteq Nat
  BY <1>2, PassedIsClosed
<1>4. /\ Len(sig.params) \in Nat /\ Len(sig.requires) \in Nat
      /\ DOMAIN sig.params = 1..Len(sig.params) /\ DOMAIN sig.requires = 1..Len(sig.requires)
      /\ DOMAIN sig.args = 1..Len(sig.args)
  BY <1>3, CleanSections
<1>5. env = CallerEnv /\ InstOK(inst, env, W, L) /\ DOMAIN env \subseteq CallerLocs
  BY <1>1, SignatureAssumption DEF CallOK
<1>6. /\ InstOfExprs(inst) /\ InstOfLocs(inst, DOMAIN env) /\ Covered(inst, W)
      /\ L \subseteq DOMAIN inst.locs
  BY <1>5 DEF InstOK
<1>7. ASSUME NEW k \in DOMAIN sig.params
      PROVE  LowerExpr(sig.params[k].pred, inst) # Err
  <2> DEFINE V == VarsOf(sig, k)
             e == sig.params[k].pred
  <2>1. e \in Exprs(V, MaxDepth)
    BY <1>3, <1>4 DEF Closed, ParamsClosed
  <2>2. V \subseteq W
    BY <1>4 DEF VarsOf, AllVars
  <2> HIDE DEF V, W, e
  <2>3. V \subseteq CoreVars /\ Covered(inst, V)
    BY <1>3, <1>6, <2>2 DEF Covered
  <2>4. LowerExpr(e, inst) # Err
    BY <1>6, <2>1, <2>3, LowerExprTyped
  <2> QED
    BY <2>4 DEF e
<1>8. ASSUME NEW k \in DOMAIN sig.args
      PROVE  LowerTy(sig.args[k], inst) # Err
  <2>1. sig.args[k] \in CoreTypesOver(L, W)
    BY <1>3, <1>4 DEF Closed, ArgsClosed
  <2> HIDE DEF L, W
  <2> QED
    BY <1>3, <1>5, <1>6, <2>1, LowerTyTyped
<1>9. ASSUME NEW k \in DOMAIN sig.requires
      PROVE  /\ inst.locs[sig.requires[k].loc] \in DOMAIN env
             /\ LowerTy(sig.requires[k].ty, inst) # Err
  <2> DEFINE R == ReqOf(sig, k)
  <2>1. sig.requires[k].ty \in CoreTypesOver(R, W)
    BY <1>3, <1>4 DEF Closed, RequiresClosed
  <2>2. R \subseteq L /\ sig.requires[k].loc \in L
    BY <1>4 DEF ReqOf, AllReq
  <2> HIDE DEF R, L, W
  <2>3. R \subseteq Nat /\ R \subseteq DOMAIN inst.locs
    BY <1>3, <1>6, <2>2
  <2>4. LowerTy(sig.requires[k].ty, inst) # Err
    BY <1>3, <1>5, <1>6, <2>1, <2>3, LowerTyTyped
  <2>5. inst.locs[sig.requires[k].loc] \in DOMAIN env
    BY <1>6, <2>2 DEF InstOfLocs
  <2> QED
    BY <2>4, <2>5
<1>10. at' = "update"
  BY <1>7, <1>8, <1>9 DEF LowerCall
<1> QED
  BY <1>1, <1>5, <1>10 DEF CallOK

LEMMA CallEnsures ==
  ASSUME ResolvedOK, CallOK, Ensure
  PROVE  CallOK'
<1> DEFINE all == EnsuredAll
           N == Len(sig.ensures)
<1>1. /\ at = "update" /\ sig' = sig
      /\ all.lost => at' = "panicked"
      /\ ~ all.lost => at' = "destination" /\ inst' = all.inst /\ env' = all.env
  BY DEF Ensure
<1>2. Passed
  BY <1>1 DEF Passed, Sections
<1>3. EnvTyped(env) /\ InstOK(inst, env, AllVars(sig), AllReq(sig))
  BY <1>1, CallerEnvTyped DEF CallOK
<1>4. EnsOK(all, N)
  BY <1>2, <1>3, EnsuredAllOK
<1> HIDE DEF all
<1>5. CASE all.lost
  <2>1. at' = "panicked" /\ EnsuresItself
    BY <1>1, <1>4, <1>5 DEF EnsOK
  <2>2. EnsuresItself'
    BY <1>1, <2>1 DEF EnsuresItself, RequiredUpTo, EnsuredUpTo
  <2> QED
    BY <2>1, <2>2 DEF CallOK
<1>6. CASE ~ all.lost
  <2>1. EnvTyped(all.env) /\ InstOK(all.inst, all.env, AllVars(sig), AllLocs(sig))
    BY <1>4, <1>6 DEF EnsOK, AllLocs
  <2>2. at' = "destination" /\ EnvTyped(env') /\ InstOK(inst', env', AllVars(sig'), AllLocs(sig'))
    BY <1>1, <1>6, <2>1
  <2> QED
    BY <2>2 DEF CallOK
<1> QED
  BY <1>5, <1>6

LEMMA CallReturns ==
  ASSUME ResolvedOK, CallOK, WriteDestination
  PROVE  CallOK'
<1> DEFINE ret == LowerTy(sig.ret, inst)
           dest == Destination
           W == AllVars(sig)
           L == AllLocs(sig)
<1>1. /\ at = "destination" /\ sig' = sig
      /\ ret # Err => at' = "returned" /\ env' = Put(env, dest, Unpacked(ret))
  BY DEF WriteDestination
<1>2. Passed
  BY <1>1 DEF Passed, Sections
<1>3. sig.ret \in CoreTypesOver(L, W) /\ L \subseteq Nat /\ W \subseteq CoreVars
  BY <1>2, PassedIsClosed
<1>4. EnvTyped(env) /\ DOMAIN env \subseteq CallerLocs /\ InstOK(inst, env, W, L)
  BY <1>1 DEF CallOK, EnvTyped
<1>5. /\ InstOfExprs(inst) /\ InstOfLocs(inst, DOMAIN env) /\ Covered(inst, W)
      /\ L \subseteq DOMAIN inst.locs
  BY <1>4 DEF InstOK
<1> DEFINE ty == sig.ret
<1>10. ty \in CoreTypesOver(L, W)
  BY <1>3
<1> HIDE DEF L, W, ty
<1>11. LowerTy(ty, inst) \in OverLocs(DOMAIN env) \union {Err} /\ LowerTy(ty, inst) # Err
  BY <1>3, <1>4, <1>5, <1>10, LowerTyTyped
<1>12. LowerTy(ty, inst) = ret
  BY DEF ty
<1> HIDE DEF ret
<1>6. ret \in OverLocs(DOMAIN env) /\ ret # Err
  BY <1>11, <1>12
<1>7. dest \in CallerLocs
  BY SignatureAssumption
<1> HIDE DEF dest
<1>8. PutIs(env, dest, Unpacked(ret), env')
  BY <1>1, <1>6, PutFacts
<1>9. EnvTyped(env')
  BY <1>4, <1>6, <1>7, <1>8, UnpackedTyped, EnvTypedPut
<1> QED
  BY <1>1, <1>6, <1>9 DEF CallOK

LEMMA CallStep ==
  ASSUME ResolvedOK, CallOK, [Next]_vars
  PROVE  CallOK'
<1>1. CASE Resolve
  <2>1. /\ at \in Sections \union {"ret"} /\ at' \in Sections \union {"ret", "wf", "rejected"}
        /\ env' = env
    BY <1>1, ResolveStays
  <2> QED
    BY <2>1 DEF CallOK, Sections
<1>2. CASE CheckFnSig
  <2>1. at = "wf" /\ at' \in {"panicked", "rejected", "accepted"} /\ env' = env
    BY <1>2 DEF CheckFnSig
  <2>2. at' # "panicked"
    BY <1>2, CheckFnSigSorts
  <2> QED
    BY <2>1, <2>2 DEF CallOK
<1>3. CASE CheckCall
  BY <1>3, CallBegins, CallInfers, CallLowers, CallEnsures, CallReturns DEF CheckCall
<1>4. CASE UNCHANGED vars
  <2>1. /\ at' = at /\ sig' = sig /\ inst' = inst /\ env' = env /\ actuals' = actuals
    BY <1>4 DEF vars
  <2>2. EnsuresItself' <=> EnsuresItself
    BY <2>1 DEF EnsuresItself, RequiredUpTo, EnsuredUpTo
  <2>3. InstOK(inst, env, AllVars(sig), AllReq(sig))' <=> InstOK(inst, env, AllVars(sig), AllReq(sig))
    BY <2>1
  <2>4. InstOK(inst, env, AllVars(sig), AllLocs(sig))' <=> InstOK(inst, env, AllVars(sig), AllLocs(sig))
    BY <2>1
  <2>5. EnvTyped(env)' <=> EnvTyped(env)
    BY <2>1
  <2> QED
    BY <2>1, <2>2, <2>3, <2>4, <2>5 DEF CallOK
<1> QED
  BY <1>1, <1>2, <1>3, <1>4 DEF Next

(* From its inference on, a call has an instance of every name of the      *)
(* signature that it lowers: CallOK, of infer_from_fn_call and check_call. *)
THEOREM CallClosed == Spec => []CallOK
<1>1. Init => CallOK
  BY DEF Init, CallOK
<1>2. ResolvedOK /\ CallOK /\ [Next]_vars => CallOK'
  BY CallStep
<1> QED
  BY <1>1, <1>2, ResolverClosed, PTL DEF Spec

(* The call of an accepted signature panics for none but a signature that  *)
(* ensures a reference to itself, and nor does Wf: CallsLower, of          *)
(* lower_expr, lower_ty and the unwraps of check_call.                     *)
THEOREM CallsOnlyLower == Spec => []CallsLower
<1>1. CallOK => CallsLower
  BY DEF CallOK, CallsLower
<1> QED
  BY <1>1, CallClosed, PTL

(* A call leaves the caller with a binding for every location that one of  *)
(* its types mentions: EnvClosed, of the updates of check_call.            *)
THEOREM CallerStaysClosed == Spec => []EnvClosed
<1>1. ASSUME CallOK, at = "returned", NEW l \in DOMAIN env
      PROVE  LocsOf(CallerTypes, env[l]) \subseteq DOMAIN env
  <2>1. EnvTyped(env)
    BY <1>1 DEF CallOK
  <2> DEFINE L == DOMAIN env
             ty == env[l]
  <2>2. L \subseteq CallerLocs /\ ty \in OverLocs(L)
    BY <2>1 DEF EnvTyped
  <2> HIDE DEF L, ty
  <2>3. LocsOf(CallerTypes, ty) \subseteq L
    BY <2>2, CallerLocsOf
  <2> QED
    BY <2>3 DEF L, ty
<1>2. CallOK => EnvClosed
  BY <1>1 DEF EnvClosed
<1> QED
  BY <1>2, CallClosed, PTL
=============================================================================
