------------------------------ MODULE Checker ------------------------------
(***************************************************************************)
(* The checker of one function (src/liquid-rust-typeck/src/checker.rs) as  *)
(* it builds a constraint: the walk of BlockWalk together with the type    *)
(* environments and the cursors of ConstraintBuilder.                      *)
(*                                                                         *)
(* A body has a signature, how many locals it has, and for each block its  *)
(* statements and its terminator.  Locals hold one of two values, as ints  *)
(* or booleans, or a reference to a value.  ADTs, type parameters and the  *)
(* arithmetic and comparisons other than the ones here, which make types   *)
(* in the same way, are left out.                                          *)
(***************************************************************************)
EXTENDS Initialized, Calls

CONSTANTS
    Bodies,     \* the lowered bodies considered, of which rustc accepts some
    Orders      \* the iteration orders of the environments considered

(* What BlockWalk sees of a body.                                          *)
Skeleton(b) ==
    [term |-> [bb \in Blocks |-> [kind    |-> b.term[bb].kind,
                                  targets |-> b.term[bb].targets]],
     rpo  |-> b.rpo]

(* What core::ir guarantees of the statements and terminators of a body.   *)
IsOperand(operand) ==
    \/ operand.kind = "Constant"
    \/ operand.kind \in {"Copy", "Move"} /\ operand.place.local \in Nat
IsRvalue(rv) ==
    /\ IsSequence(rv.args) /\ \A i \in DOMAIN rv.args : IsOperand(rv.args[i])
    /\ CASE rv.op = "Use"    -> Len(rv.args) = 1
         [] rv.op = "MutRef" -> rv.place.local \in Nat
         [] rv.op = "Div"    -> Len(rv.args) = 2
         [] OTHER            -> Len(rv.args) \in {1, 2}
IsStatements(stmts) ==
    IsSequence(stmts) /\ \A i \in DOMAIN stmts : IsRvalue(stmts[i].rv) /\ stmts[i].dst.local \in Nat
IsTerminator(term) ==
    /\ term.kind = "Drop" => term.local \in Nat
    /\ term.kind = "SwitchInt" => IsOperand(term.discr) /\ IsSequence(term.bits)
    /\ term.kind = "Call" =>
          /\ IsSequence(term.args) /\ \A i \in DOMAIN term.args : IsOperand(term.args[i])
          /\ IsFnSig(term.sig) /\ Len(term.args) = Len(term.sig.args)
          /\ term.dst.local \in Nat
IsBody(b) ==
    /\ IsFnSig(b.sig) /\ b.nlocals \in Nat /\ b.nlocals > Len(b.sig.args)
    /\ \A bb \in Blocks : IsStatements(b.stmts[bb]) /\ IsTerminator(b.term[bb])

ASSUME CheckerAssumption ==
    /\ START \in Blocks /\ Orders \subseteq AllOrders
    /\ \A b \in Bodies : WellFormed(Skeleton(b)) /\ IsBody(b)

VARIABLES
    body, mode, visited, frames, pos, pc, cur, target,  \* as in BlockWalk
    bb_envs,    \* Checker.bb_envs: environments of join points
    shapes,     \* the shapes of Mode::Check
    env,        \* the environment of the running check_basic_block
    cursor,     \* its cursor
    builder,    \* the ConstraintBuilder of the phase
    order,      \* the iteration order of the environments
    panic       \* the panic that ended the program, or NoPanic

vars == <<body, mode, visited, frames, pos, pc, cur, target,
          bb_envs, shapes, env, cursor, builder, order, panic>>

(* The cursor of each switch that is running is suspended under the one of *)
(* its branch.                                                             *)
LiveCursors == Append([k \in 1..Len(frames) |-> frames[k].cursor], cursor)

CB == INSTANCE ConstraintBuilder
        WITH cursors <- LiveCursors,
             MaxNodes <- 0, MaxKVars <- 0, MaxCursors <- 0, MaxScopes <- 0

-----------------------------------------------------------------------------
(* The body                                                                *)

HasBranchLeft(b, frame) == frame.next <= Len(b.term[frame.bb].targets)

(* What BlockWalk sees of the frames: those with a branch left.            *)
WalkFrames(b, fs) ==
    LET seen[k \in 0..Len(fs)] ==
          IF k = 0 THEN <<>>
          ELSE IF HasBranchLeft(b, fs[k])
          THEN Append(seen[k - 1], [bb |-> fs[k].bb, next |-> fs[k].next])
          ELSE seen[k - 1]
    IN  seen[Len(fs)]

BW == INSTANCE BlockWalk
        WITH Bodies  <- {b \in BodyType : WellFormed(b)},
             body    <- Skeleton(body),
             bb_envs <- DOMAIN bb_envs,
             shapes  <- DOMAIN shapes,
             frames  <- WalkFrames(body, frames)

Join(bb) == IsJoinPoint(body, bb)
Term(bb) == body.term[bb]

JoinPoints(b) == {bb \in Blocks : IsJoinPoint(b, bb)}
DominatesJoinPoint(b) == {ImmediateDominator(b, bb) : bb \in JoinPoints(b)}

-----------------------------------------------------------------------------
(* Operands, rvalues and statements                                        *)

(* check_operand: the type, and the state after it.  A move leaves its     *)
(* local uninitialized and asserts that it is one.                         *)
OperandTy(st, operand) ==
    IF operand.kind = "Constant" THEN Refine(ConstExpr(operand.value))
    ELSE IF Walks(st.env, operand.place) THEN LookupPlace(st.env, operand.place)
    ELSE Uninit
AfterOperand(st, operand) ==
    CASE operand.kind = "Constant" -> st
      [] operand.kind = "Copy"     -> WalkPlace(st, operand.place)
      [] operand.kind = "Move"     -> IF operand.place.deref THEN Panic(st, "assertion failed")
                                      ELSE MoveLocal(st, operand.place.local)

(* The operands in order: a state and their types.                         *)
CheckOperands(st, operands) ==
    Fold(LAMBDA acc, operand : [st  |-> AfterOperand(acc.st, operand),
                                tys |-> Append(acc.tys, OperandTy(acc.st, operand))],
         [st |-> st, tys |-> <<>>], operands)

(* Mutant: a divisor may be zero.                                          *)
OperationUnchecked(st, op, tys) ==
    IF \E i \in DOMAIN tys : tys[i].kind # "Refine"
    THEN [st |-> Panic(st, "incompatible types"), ty |-> Uninit]
    ELSE [st |-> st,
          ty |-> Refine(IF Len(tys) = 1 THEN UnaryExpr(op, tys[1].expr)
                        ELSE BinaryExpr(op, tys[1].expr, tys[2].expr))]

(* check_arith_op, check_eq and check_unary_op; division asks for a divisor*)
(* that is not zero.                                                       *)
Operation(st, op, tys) ==
    IF \E i \in DOMAIN tys : tys[i].kind # "Refine"
    THEN [st |-> Panic(st, "incompatible types"), ty |-> Uninit]
    ELSE [st |-> IF op = "Div"
                 THEN With(st, PushHead(S(st), ExprPred(BinaryExpr("Ne", tys[2].expr, ConstExpr(0)))))
                 ELSE st,
          ty |-> Refine(IF Len(tys) = 1 THEN UnaryExpr(op, tys[1].expr)
                        ELSE BinaryExpr(op, tys[1].expr, tys[2].expr))]

CheckRvalue(st, rv) ==
    LET checked == CheckOperands(st, rv.args)
    IN  CASE rv.op = "Use"    -> [st |-> checked.st, ty |-> checked.tys[1]]
          [] rv.op = "MutRef" -> [st |-> WalkPlace(st, rv.place),
                                  ty |-> IF Walks(st.env, rv.place)
                                         THEN StrgRef(GetLoc(st.env, rv.place)) ELSE Uninit]
          [] OTHER            -> Operation(checked.st, rv.op, checked.tys)

CheckStatement(st, stmt) ==
    LET checked == CheckRvalue(st, stmt.rv)
    IN  IF Ok(st) THEN WritePlace(checked.st, stmt.dst, checked.ty) ELSE st

CheckStatements(st, bb) == Fold(CheckStatement, st, body.stmts[bb])

-----------------------------------------------------------------------------
(* check_or_infer: the start of a phase                                    *)

Start == Enter(order, body.sig, body.nlocals)

Running == mode \in {"Inference", "Check"} /\ panic = NoPanic
St == [b |-> builder, c |-> cursor, env |-> env, order |-> order, panic |-> panic]

Becomes(st) ==
    /\ builder' = st.b
    /\ cursor' = st.c
    /\ env' = st.env
    /\ panic' = st.panic

Init ==
    /\ body \in {b \in Bodies : Accepted(b)} /\ order \in Orders
    /\ mode = "Inference"
    /\ visited = {} /\ frames = <<>> /\ pos = 0
    /\ bb_envs = <<>> /\ shapes = <<>>
    /\ pc = "goto" /\ cur = START /\ target = START
    /\ builder = Start.st.b /\ cursor = Start.st.c /\ env = Start.st.env
    /\ panic = Start.st.panic

(* check_basic_block up to its terminator: the scope of a block that       *)
(* immediately dominates a join point, then the statements.                *)
CheckBasicBlock(st, bb) ==
    /\ visited' = visited \union {bb}
    /\ pc' = "terminator" /\ cur' = bb
    /\ LET scoped == IF bb \in DominatesJoinPoint(body)
                     THEN With(st, PushScope(S(st))) ELSE st
       IN  Becomes(CheckStatements(scoped, bb))

-----------------------------------------------------------------------------
(* check_goto                                                              *)

GotoBlock ==
    /\ Running /\ pc = "goto" /\ ~Join(target)
    /\ CheckBasicBlock(St, target)
    /\ UNCHANGED <<body, order, mode, frames, pos, target, bb_envs, shapes>>

GotoJoinInferFirst ==
    /\ Running /\ mode = "Inference" /\ pc = "goto" /\ Join(target)
    /\ target \notin DOMAIN bb_envs
    /\ bb_envs' = Put(bb_envs, target, env)
    /\ pc' = "return"
    /\ UNCHANGED <<body, mode, visited, frames, pos, cur, target, shapes, env, cursor, builder, order, panic>>

(* Mutant: the join of the environments is not stored.                     *)
GotoJoinInferDiscarded ==
    /\ Running /\ mode = "Inference" /\ pc = "goto" /\ Join(target)
    /\ target \in DOMAIN bb_envs
    /\ Becomes([JoinWith(St, bb_envs[target], env) EXCEPT !.env = env])
    /\ pc' = "return"
    /\ UNCHANGED <<body, order, mode, visited, frames, pos, cur, target, bb_envs, shapes>>

GotoJoinInferAgain ==
    /\ Running /\ mode = "Inference" /\ pc = "goto" /\ Join(target)
    /\ target \in DOMAIN bb_envs
    /\ LET st == JoinWith(St, bb_envs[target], env)
       IN  /\ bb_envs' = [bb_envs EXCEPT ![target] = st.env]
           /\ Becomes([st EXCEPT !.env = env])
    /\ pc' = "return"
    /\ UNCHANGED <<body, order, mode, visited, frames, pos, cur, target, shapes>>

GotoJoinCheckFirst ==
    /\ Running /\ mode = "Check" /\ pc = "goto" /\ Join(target)
    /\ target \notin DOMAIN bb_envs /\ target \in DOMAIN shapes
    /\ LET inferred == InferBbEnv(St, shapes[target])
       IN  /\ bb_envs' = Put(bb_envs, target, inferred.env)
           /\ Becomes(TransformInto([inferred EXCEPT !.env = env], inferred.env))
    /\ shapes' = [bb \in DOMAIN shapes \ {target} |-> shapes[bb]]
    /\ pc' = "return"
    /\ UNCHANGED <<body, order, mode, visited, frames, pos, cur, target>>

GotoJoinCheckAgain ==
    /\ Running /\ mode = "Check" /\ pc = "goto" /\ Join(target)
    /\ target \in DOMAIN bb_envs
    /\ Becomes(TransformInto(St, bb_envs[target]))
    /\ pc' = "return"
    /\ UNCHANGED <<body, order, mode, visited, frames, pos, cur, target, bb_envs, shapes>>

-----------------------------------------------------------------------------
(* check_terminator                                                        *)

CheckReturn ==
    /\ Running /\ pc = "terminator" /\ Term(cur).kind = "Return"
    /\ Becomes(Leave(St, Start.subst, body.sig))
    /\ pc' = "return"
    /\ UNCHANGED <<body, order, mode, visited, frames, pos, cur, target, bb_envs, shapes>>

CheckGoto ==
    /\ Running /\ pc = "terminator" /\ Term(cur).kind = "Goto"
    /\ target' = Term(cur).targets[1]
    /\ pc' = "goto"
    /\ UNCHANGED <<body, mode, visited, frames, pos, cur, bb_envs, shapes, env, cursor, builder, order, panic>>

CheckDrop ==
    /\ Running /\ pc = "terminator" /\ Term(cur).kind = "Drop"
    /\ Becomes(MoveLocal(St, Term(cur).local))
    /\ target' = Term(cur).targets[1]
    /\ pc' = "goto"
    /\ UNCHANGED <<body, order, mode, visited, frames, pos, cur, bb_envs, shapes>>

(* check_call up to the instantiation of the callee's signature.           *)
Actuals == CheckOperands(St, Term(cur).args)
Callee == Term(cur).sig
Inferred == InferFromFnCall(Actuals.st, Actuals.tys, Callee)

CheckCall ==
    /\ Running /\ pc = "terminator" /\ Term(cur).kind = "Call"
    /\ Ok(Inferred.st) => Determined(Inferred.subst, Callee)
    /\ LET applied == Apply(Inferred, Actuals.tys, Callee)
       IN  IF ~Ok(Inferred.st) THEN Becomes(Inferred.st) /\ UNCHANGED <<pc, target>>
           ELSE IF Term(cur).targets = <<>>
           THEN Becomes(applied.st) /\ pc' = "return" /\ UNCHANGED target
           ELSE /\ Becomes(WriteDestination(applied, Callee, Term(cur).dst))
                /\ pc' = "goto" /\ target' = Term(cur).targets[1]
    /\ UNCHANGED <<body, order, mode, visited, frames, pos, cur, bb_envs, shapes>>

(* A callee with a parameter that no argument determines.                  *)
CallError ==
    /\ Running /\ pc = "terminator" /\ Term(cur).kind = "Call"
    /\ Ok(Inferred.st) /\ ~Determined(Inferred.subst, Callee)
    /\ mode' = "Err" /\ pc' = "end"
    /\ UNCHANGED <<body, visited, frames, pos, cur, target, bb_envs, shapes, env, cursor, builder, order, panic>>

(* The guard of branch i of a switch on the discriminant e, whose last     *)
(* branch is for what no other one takes.                                  *)
MakeGuard(term, e, i) ==
    IF ~term.bool THEN BinaryExpr("Eq", e, ConstExpr(term.bits[i]))
    ELSE IF term.bits[i] = 0 THEN UnaryExpr("Not", e) ELSE e
SwitchGuard(term, e, i) ==
    LET nots == [j \in DOMAIN term.bits |-> UnaryExpr("Not", MakeGuard(term, e, j))]
    IN  IF i <= Len(term.bits) THEN MakeGuard(term, e, i)
        ELSE Fold(LAMBDA e1, e2 : BinaryExpr("And", e1, e2), Head(nots), Tail(nots))

(* Going to branch frame.next with cursor and environment of st.           *)
Branch(st, frame, rest) ==
    /\ Becomes(st)
    /\ frames' = Append(rest, [frame EXCEPT !.next = @ + 1])
    /\ cur' = frame.bb
    /\ target' = Term(frame.bb).targets[frame.next]
    /\ pc' = "goto"

(* Mutant: a branch goes on with the environment of the one before.      *)
TakeBranchKeepingEnv(st, frame, rest) ==
    LET snapshot == [st EXCEPT !.c = frame.cursor]
    IN  Branch(With(snapshot, PushGuard(S(snapshot),
                 SwitchGuard(Term(frame.bb), frame.discr, frame.next))), frame, rest)

(* Branch frame.next of a switch: a snapshot of the suspended cursor, under*)
(* a guard on the discriminant, with a clone of the environment.  With only*)
(* an otherwise branch there is no guard.                                  *)
TakeBranch(st, frame, rest) ==
    LET snapshot == [st EXCEPT !.c = frame.cursor, !.env = frame.env]
        guarded  == With(snapshot, PushGuard(S(snapshot),
                      SwitchGuard(Term(frame.bb), frame.discr, frame.next)))
    IN  Branch(IF Term(frame.bb).bits = <<>> THEN snapshot ELSE guarded, frame, rest)

CheckSwitchInt ==
    /\ Running /\ pc = "terminator" /\ Term(cur).kind = "SwitchInt"
    /\ LET operand == Term(cur).discr
           ty      == OperandTy(St, operand)
           after   == AfterOperand(St, operand)
           usable  == Ok(after) /\ ty.kind = "Refine"
       IN  TakeBranch(IF usable THEN after ELSE Panic(after, "unexpected discr_ty"),
                      [bb |-> cur, next |-> 1, cursor |-> cursor, env |-> after.env,
                       discr |-> IF usable THEN ty.expr ELSE TT],
                      frames)
    /\ UNCHANGED <<body, order, mode, visited, pos, bb_envs, shapes>>

-----------------------------------------------------------------------------
(* Returning                                                               *)

NextBranch ==
    /\ Running /\ pc = "return" /\ frames # <<>> /\ HasBranchLeft(body, Last(frames))
    /\ TakeBranch(St, Last(frames), Front(frames))
    /\ UNCHANGED <<body, order, mode, visited, pos, bb_envs, shapes>>

(* The last branch is done: the suspended cursor is used again.            *)
EndSwitch ==
    /\ Running /\ pc = "return" /\ frames # <<>> /\ ~HasBranchLeft(body, Last(frames))
    /\ cursor' = Last(frames).cursor
    /\ frames' = Front(frames)
    /\ UNCHANGED <<body, order, mode, visited, pos, pc, cur, target, bb_envs, shapes, env, builder, panic>>

ReturnToRun ==
    /\ Running /\ pc = "return" /\ frames = <<>>
    /\ pc' = "loop"
    /\ UNCHANGED <<body, mode, visited, frames, pos, cur, target, bb_envs, shapes, env, cursor, builder, order, panic>>

RunSkip ==
    /\ Running /\ pc = "loop" /\ pos < Len(body.rpo)
    /\ body.rpo[pos + 1] \in visited
    /\ pos' = pos + 1
    /\ UNCHANGED <<body, mode, visited, frames, pc, cur, target, bb_envs, shapes, env, cursor, builder, order, panic>>

(* Mutant: the existentials of the environment are not unpacked.           *)
RunBlockPacked ==
    /\ Running /\ pc = "loop" /\ pos < Len(body.rpo)
    /\ LET bb == body.rpo[pos + 1]
       IN  /\ bb \notin visited /\ bb \in DOMAIN bb_envs
           /\ visited' = visited \union {bb}
           /\ pc' = "terminator" /\ cur' = bb
           /\ Becomes([St EXCEPT !.env = bb_envs[bb]])
    /\ pos' = pos + 1
    /\ UNCHANGED <<body, order, mode, frames, target, bb_envs, shapes>>

(* The body of a join point is checked with the cursor run was given, which*)
(* is wherever the blocks checked outside any switch have left it.         *)
RunBlock ==
    /\ Running /\ pc = "loop" /\ pos < Len(body.rpo)
    /\ LET bb == body.rpo[pos + 1]
       IN  /\ bb \notin visited /\ bb \in DOMAIN bb_envs
           /\ CheckBasicBlock(UnpackEnv([St EXCEPT !.env = bb_envs[bb]]), bb)
    /\ pos' = pos + 1
    /\ UNCHANGED <<body, order, mode, frames, target, bb_envs, shapes>>

(* Mutants: the Check phase starts with the cursor of the other, or with   *)
(* its visited blocks.                                                     *)
EndInferenceSameCursor ==
    /\ Running /\ mode = "Inference" /\ pc = "loop" /\ pos = Len(body.rpo)
    /\ mode' = "Check" /\ shapes' = [bb \in DOMAIN bb_envs |-> Shape(bb_envs[bb])]
    /\ visited' = {} /\ bb_envs' = <<>> /\ frames' = <<>> /\ pos' = 0
    /\ pc' = "goto" /\ cur' = START /\ target' = START
    /\ Becomes([Start.st EXCEPT !.c = cursor])
    /\ UNCHANGED <<body, order>>
EndInferenceSameVisited ==
    /\ Running /\ mode = "Inference" /\ pc = "loop" /\ pos = Len(body.rpo)
    /\ mode' = "Check" /\ shapes' = [bb \in DOMAIN bb_envs |-> Shape(bb_envs[bb])]
    /\ bb_envs' = <<>> /\ frames' = <<>> /\ pos' = 0
    /\ pc' = "goto" /\ cur' = START /\ target' = START
    /\ Becomes(Start.st)
    /\ UNCHANGED <<body, order, visited>>

EndInference ==
    /\ Running /\ mode = "Inference" /\ pc = "loop" /\ pos = Len(body.rpo)
    /\ mode' = "Check" /\ shapes' = [bb \in DOMAIN bb_envs |-> Shape(bb_envs[bb])]
    /\ visited' = {} /\ bb_envs' = <<>> /\ frames' = <<>> /\ pos' = 0
    /\ pc' = "goto" /\ cur' = START /\ target' = START
    /\ Becomes(Start.st)
    /\ UNCHANGED <<body, order>>

EndCheck ==
    /\ Running /\ mode = "Check" /\ pc = "loop" /\ pos = Len(body.rpo)
    /\ mode' = "Done" /\ pc' = "end"
    /\ UNCHANGED <<body, visited, frames, pos, cur, target, bb_envs, shapes, env, cursor, builder, order, panic>>

Terminated == ~Running /\ UNCHANGED vars

Next ==
    \/ GotoBlock \/ GotoJoinInferFirst \/ GotoJoinInferAgain
    \/ GotoJoinCheckFirst \/ GotoJoinCheckAgain
    \/ CheckReturn \/ CheckGoto \/ CheckDrop \/ CheckCall \/ CallError \/ CheckSwitchInt
    \/ NextBranch \/ EndSwitch \/ ReturnToRun
    \/ RunSkip \/ RunBlock \/ EndInference \/ EndCheck
    \/ Terminated

Spec == Init /\ [][Next]_vars

-----------------------------------------------------------------------------
(* Properties                                                              *)

TyKind == {"Uninit", "Refine", "Exists", "StrgRef", "Ref"}
IsBinding(b) == b.kind \in {"Strong", "Weak"} /\ b.ty.kind \in TyKind
IsShape(s) == \A loc \in DOMAIN s : s[loc].kind \in TyKind
IsEnv(e) == \A loc \in DOMAIN e : IsBinding(e[loc])

TypeOK ==
    /\ mode \in {"Inference", "Check", "Done", "Err"}
    /\ pc \in {"goto", "terminator", "return", "loop", "end"}
    /\ visited \subseteq Blocks /\ cur \in Blocks /\ target \in Blocks
    /\ pos \in 0..Len(body.rpo) /\ order \in Orders
    /\ IsEnv(env)
    /\ DOMAIN bb_envs \subseteq Blocks /\ \A bb \in DOMAIN bb_envs : IsEnv(bb_envs[bb])
    /\ DOMAIN shapes \subseteq Blocks /\ \A bb \in DOMAIN shapes : IsShape(shapes[bb])
    /\ \A k \in DOMAIN frames :
          frames[k].bb \in Blocks /\ frames[k].next \in Nat \ {0} /\ IsEnv(frames[k].env)
    /\ CB!TypeOK

BoundHere == ToSet(builder.nodes[cursor.node].binders)
EnvVars(e) == UNION {FreeVars(e[loc].ty) : loc \in DOMAIN e}

(* No index, unwrap, assertion, unreachable! or todo! of the environments, *)
(* of subtyping or of the rules panics: what the Inference phase leaves    *)
(* fits what the Check phase finds, though the two name the abstract       *)
(* locations apart; no existential is used packed; no location dangles.    *)
NeverPanics == panic = NoPanic

(* The constraint is closed: every name a node mentions is bound by a      *)
(* ForAll on the path to it.  fixpoint crashes on a constraint that is not.*)
ConstraintClosed ==
    mode \in {"Check", "Done"} =>
        \A n \in DOMAIN builder.nodes :
            PredVars(builder.nodes[n].pred) \subseteq ToSet(builder.nodes[n].binders)

(* "Collect all kvars and generate fresh ones in the right scope"          *)
(* (type_env.rs:191): when a goto reaches a join point, the environment of *)
(* the join point mentions only variables the cursor of the goto has bound.*)
RightScope ==
    mode = "Check" /\ pc = "goto" /\ target \in DOMAIN bb_envs =>
        EnvVars(bb_envs[target]) \subseteq BoundHere

(* Every edge goes forward in the order of the walk.                       *)
Loopless ==
    \A e \in Edges(body) :
        \E i, j \in DOMAIN body.rpo :
            i < j /\ body.rpo[i] = e[1] /\ body.rpo[j] = Target(body, e)

(* Without loops, the Inference phase has found every location on which the*)
(* gotos to a join point differ: none of the later gotos of the Check phase*)
(* has to prove two different expressions equal, for it has a kvar instead.*)
(* (Around a loop it may have to: the phase does not check a block again   *)
(* when a back edge changes its environment.)                              *)
DifferencesInferred ==
    mode = "Check" /\ pc = "goto" /\ target \in DOMAIN bb_envs /\ Loopless =>
        \A loc \in DOMAIN env \intersect DOMAIN bb_envs[target] :
            env[loc].ty.kind = "Refine" /\ bb_envs[target][loc].ty.kind = "Refine" =>
                env[loc] = bb_envs[target][loc]

(* Types, constraints and cursors do not change the walk: every step is a  *)
(* step of BlockWalk or none.                                              *)
ImplementsWalk == BW!Spec
=============================================================================
