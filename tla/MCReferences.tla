---------------------------- MODULE MCReferences ----------------------------
(***************************************************************************)
(* Functions with references: local 1 chooses the branches, p refers to x, *)
(* to y or to what a call has made, and is used where the branches meet.   *)
(***************************************************************************)
EXTENDS MCFunctions

flag == 1
x == 2
y == 3
p == 4
q == 5

Refer(local) == Borrow(p, Place(local))
Write(c) == AssignTo(p, "Use", <<Const(c)>>)
Increase == AssignTo(p, "Add", <<CopyFrom(p), Const(1)>>)
Reborrow == Borrow(q, Deref(p))
Result(operand) == Assign(0, "Use", <<operand>>)

NotZero == Some(BoundIs("Ne", Literal(0)))
Unchanged == Some(BoundIs("Eq", Free("n")))

(* fn<n>(i32, i32@n, i32) -> i32{v: v == n} and                            *)
(* fn<n: n /= 0>(i32, i32@n, i32{v: v /= 0}) -> i32{v: v /= 0}             *)
Keeps == FnSig(<<Param("n")>>, <<>>, <<AnyValue, At(Free("n")), AnyValue>>, <<>>, Unchanged)
StaysNotZero ==
    FnSig(<<[name |-> "n", pred |-> <<"Ne", Free("n"), Literal(0)>>]>>, <<>>,
          <<AnyValue, At(Free("n")), NotZero>>, <<>>, NotZero)
(* fn<n, m>(l: i32@m; i32, i32@n, i32, ref<l>) -> i32; l: ty               *)
Changes(ty) ==
    FnSig(<<Param("n"), Param("m")>>, With1("l", At(Free("m"))),
          <<AnyValue, At(Free("n")), AnyValue, MutRef("l")>>, With1("l", ty), AnyValue)

(* fn<m>(l: i32@m; ref<l>) -> i32; l: i32@{m + 1}                          *)
Inc == FnSig(<<Param("m")>>, With1("l", At(Free("m"))), <<MutRef("l")>>,
             With1("l", At(<<"Add", Free("m"), Literal(1)>>)), AnyValue)
(* fn(l: i32; ref<l>) -> i32; l: i32{v: v /= 0}                            *)
Fill == FnSig(<<>>, With1("l", AnyValue), <<MutRef("l")>>, With1("l", NotZero), AnyValue)
(* fn<m>(i32@m) -> ref<k>; k: i32{v: v == m}                               *)
Make == FnSig(<<Param("m")>>, <<>>, <<At(Free("m"))>>,
              With1("k", Some(BoundIs("Eq", Free("m")))), MutRef("k"))
(* fn<m>(i32) -> i32                                                       *)
Undetermined == FnSig(<<Param("m")>>, <<>>, <<AnyValue>>, <<>>, AnyValue)

-----------------------------------------------------------------------------
(* The families: for each block its terminator and its choices of          *)
(* statements.                                                             *)
Block(term, stmts) == [term |-> term, stmts |-> stmts]
Family(sigs, nlocals, blocks) ==
    {Function(sig, nlocals, [bb \in Blocks |-> blocks[bb + 1].term], s) :
        sig \in sigs, s \in PerBlock([bb \in Blocks |-> blocks[bb + 1].stmts])}

(* Two branches that meet, twice; p refers to x at the first meeting.      *)
Diamonds == Family({Keeps, StaysNotZero}, 5, <<
    Block(SwitchInt(flag, 1, 2), {<<>>, <<Refer(x)>>}),
    Block(Goto(3), {<<>>, <<Refer(x), Write(1)>>}),
    Block(Goto(3), {<<Refer(x)>>}),
    Block(SwitchInt(flag, 4, 5), {<<>>, <<Increase>>}),
    Block(Goto(6), {<<>>, <<Refer(y), Write(1)>>}),
    Block(Goto(6), {<<>>, <<Refer(y)>>}),
    Block(Return, {<<Result(CopyFrom(p))>>, <<Result(Copy(x))>>,
                   <<Write(1), Result(Copy(x))>>, <<Write(0), Result(Copy(x))>>})>>)

(* A callee changes what p refers to, before and after two branches meet.  *)
CallWith(f, to) == Call(f, <<Move(q)>>, 0, <<to>>)
Calls(f, g) == Family({Keeps, StaysNotZero}, 6, <<
    Block(SwitchInt(flag, 1, 2), {<<Refer(x)>>}),
    Block(Goto(3), {<<Refer(y), Reborrow>>}),
    Block(CallWith(f, 3), {<<Reborrow>>}),
    Block(Goto(4), {<<Reborrow>>}),
    Block(CallWith(g, 5), {<<>>, <<Refer(x), Reborrow>>}),
    Block(Goto(6), {<<>>}),
    Block(Return, {<<Result(CopyFrom(p))>>, <<Result(Copy(x))>>})>>)

(* The definition of a function that changes what it is given.             *)
Definitions == Family({Changes(At(<<"Add", Free("m"), Literal(1)>>)), Changes(NotZero)}, 5, <<
    Block(SwitchInt(flag, 1, 2), {<<>>, <<Increase>>}),
    Block(Goto(3), {<<>>, <<Write(1)>>}),
    Block(Goto(3), {<<>>, <<Increase>>}),
    Block(SwitchInt(flag, 4, 5), {<<>>, <<Increase>>}),
    Block(Goto(6), {<<>>, <<Refer(x)>>}),
    Block(Goto(6), {<<>>, <<Write(0)>>}),
    Block(Return, {<<Result(Const(0))>>, <<Write(1), Result(Const(0))>>})>>)

(* A loop, then a location that only the check of the block names as it is *)
(* named when branches meet after it.                                      *)
Made1 == Family({Keeps, StaysNotZero}, 5, <<
    Block(Goto(1), {<<>>}),
    Block(SwitchInt(flag, 2, 3), {<<>>}),
    Block(SwitchInt(flag, 1, 3), {<<>>, <<Assign(y, "Use", <<Const(1)>>)>>}),
    Block(Call(Make, <<Copy(y)>>, p, <<4>>), {<<>>, <<Assign(y, "Use", <<Copy(x)>>)>>}),
    Block(SwitchInt(flag, 5, 6), {<<>>}),
    Block(Goto(6), {<<>>, <<Write(1)>>, <<Increase, Increase>>}),
    Block(Return, {<<Result(CopyFrom(p))>>})>>)

(* A loop that changes what p refers to, and maybe p.                      *)
Loops == Family({Keeps, StaysNotZero}, 6, <<
    Block(Goto(1), {<<Refer(x)>>}),
    Block(SwitchInt(flag, 2, 4), {<<>>, <<Write(1)>>}),
    Block(CallWith(Fill, 3), {<<Reborrow>>}),
    Block(Goto(1), {<<>>, <<Refer(y)>>, <<Refer(x), Increase>>}),
    Block(Goto(5), {<<>>}),
    Block(Goto(6), {<<>>}),
    Block(Return, {<<Result(CopyFrom(p))>>, <<Result(Copy(x))>>})>>)

(* Branches on a comparison, negated maybe between the two of them.        *)
Compare(op) == Assign(q, op, <<Copy(x), Const(0)>>)
Booleans == Family({Keeps, StaysNotZero}, 6, <<
    Block(If(q, 1, 2), {<<Compare("Eq")>>, <<Compare("Ne")>>}),
    Block(Goto(3), {<<Assign(y, "Use", <<Copy(x)>>)>>}),
    Block(Goto(3), {<<>>, <<Assign(y, "Use", <<Const(1)>>)>>}),
    Block(If(q, 4, 5), {<<>>, <<Assign(q, "Not", <<Copy(q)>>)>>}),
    Block(Goto(6), {<<Result(Const(1))>>, <<Result(Copy(x))>>}),
    Block(Goto(6), {<<Result(Copy(y))>>}),
    Block(Return, {<<>>})>>)

Rejected == Family({Keeps}, 5, <<
    Block(Call(Undetermined, <<Const(1)>>, 0, <<1>>), {<<>>}),
    Block(Goto(2), {<<>>}), Block(Goto(3), {<<>>}), Block(Goto(4), {<<>>}),
    Block(Goto(5), {<<>>}), Block(Goto(6), {<<>>}), Block(Return, {<<>>})>>)

MCBodies ==
    Diamonds \union UNION {Calls(f, g) : f, g \in {Inc, Fill}} \union Definitions
    \union Made1 \union Loops \union Booleans \union Rejected
=============================================================================
