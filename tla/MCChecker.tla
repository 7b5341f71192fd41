----------------------------- MODULE MCChecker -----------------------------
(***************************************************************************)
(* The functions of NBlocks blocks without loops, and those with a loop    *)
(* around which every local is initialized alike.                          *)
(***************************************************************************)
EXTENDS MCFunctions

(* fn(x: i32@n) -> i32{v: v /= 0}                                          *)
IntSig == FromInt(Some(BoundIs("Ne", Literal(0))))
Same == FromInt(Some(BoundIs("Eq", Free("n"))))

(* Without loops: every edge goes forward.                                 *)
ForwardTerms(bb) ==
    LET later == (bb + 1)..(NBlocks - 1)
    IN  {Return, Call(Same, <<Copy(0)>>, 1, <<>>)}
        \union UNION {{Goto(t), Drop(1, t), Call(Same, <<Copy(0)>>, 1, <<t>>)} : t \in later}
        \union {SwitchInt(0, t, u) : t, u \in later}
AcyclicGraphs == PerBlock([bb \in Blocks |-> ForwardTerms(bb)])

(* With loops: the last block returns.                                     *)
LoopTerms(bb) ==
    CASE bb = 0           -> {Goto(1), Call(Same, <<Copy(0)>>, 1, <<1>>), SwitchInt(0, 1, 2)}
      [] bb = NBlocks - 1 -> {Return}
      [] OTHER            -> {Goto(t) : t \in Blocks \ {0}} \union
                             {SwitchInt(0, t, u) : t \in Blocks \ {0}, u \in Blocks \ {0, bb}}
HasLoop(t) == \E bb \in Blocks : \E u \in ToSet(t[bb].targets) : u <= bb
LoopGraphs == {t \in PerBlock([bb \in Blocks |-> LoopTerms(bb)]) : HasLoop(t)}

First == <<Assign(0, "Add", <<Copy(1), Const(1)>>)>>
LastStmts == <<Assign(0, "Add", <<Copy(0), Copy(1)>>)>>
Take == Assign(0, "Use", <<Move(1)>>)
Remake == Assign(1, "Div", <<Const(1), Copy(0)>>)

(* The blocks between the first and the last have one of the choices.      *)
Stmts(choices) ==
    [bb \in Blocks |-> IF bb = 0 THEN {First} ELSE IF bb = NBlocks - 1 THEN {LastStmts} ELSE choices]

MCBodies ==
    FunctionsOver({IntSig}, 2, AcyclicGraphs, Stmts({<<>>, <<Take>>, <<Take, Remake>>}))
    \union FunctionsOver({IntSig}, 2, LoopGraphs,
                         Stmts({<<>>, <<Assign(0, "Use", <<Copy(1)>>)>>, <<Take, Remake>>}))
=============================================================================
