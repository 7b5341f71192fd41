---------------------------- MODULE MCNestedJoin ----------------------------
(***************************************************************************)
(* A function with a join point that a block inside a branch dominates.    *)
(***************************************************************************)
EXTENDS MCFunctions

(* fn f(x: i32) -> i32 {                                                   *)
(*     let mut r = 0;                                                      *)
(*     if r == 0 { x = g(r); if r == 0 { r = x } else { r = 1 }; r = r + x *)
(*     } else { r = 1 }                                                    *)
(*     r                                                                   *)
(* }                                                                       *)
(* Block 3, which dominates the inner join point 6, is inside a branch.    *)
AnyInt == FromInt(AnyValue)
NestedJoin ==
    {[sig    |-> AnyInt,
      nlocals |-> 2,
      rpo    |-> <<0, 1, 3, 4, 5, 6, 2, 7>>,
      term   |-> (0 :> SwitchInt(0, 1, 2)) @@ (1 :> Call(AnyInt, <<Copy(0)>>, 1, <<3>>))
                 @@ (2 :> Goto(7)) @@ (3 :> SwitchInt(0, 4, 5)) @@ (4 :> Goto(6))
                 @@ (5 :> Goto(6)) @@ (6 :> Goto(7)) @@ (7 :> Return),
      stmts  |-> [bb \in Blocks |->
                    CASE bb = 0 -> <<Assign(0, "Use", <<Const(0)>>)>>
                      [] bb = 2 -> <<Assign(0, "Use", <<Const(1)>>)>>
                      [] bb = 4 -> <<Assign(0, "Use", <<Copy(1)>>)>>
                      [] bb = 5 -> <<Assign(0, "Use", <<Const(1)>>)>>
                      [] bb = 6 -> <<Assign(0, "Add", <<Copy(0), Copy(1)>>)>>
                      [] OTHER  -> <<>>]]}
=============================================================================
