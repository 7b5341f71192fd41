--------------------------- MODULE MCWeakReference ---------------------------
(***************************************************************************)
(* A function that reads through a reference of which the checker no longer*)
(* knows the target, writes through it, and reads again.                   *)
(***************************************************************************)
EXTENDS MCFunctions

(* fn f(flag: i32, x: i32, y: i32) -> i32{v: v == 0} {                     *)
(*     let r = if flag == 0 { &mut x } else { &mut y };                    *)
(*     let before = *r;                                                    *)
(*     *r = 1;                                                             *)
(*     *r - before                                                         *)
(* }                                                                       *)
Zero == FnSig(<<>>, <<>>, <<AnyValue, AnyValue, AnyValue>>, <<>>, Some(BoundIs("Eq", Literal(0))))
Refer(local) == <<Borrow(4, Place(local))>>

WeakReference ==
    {[sig     |-> Zero,
      nlocals |-> 6,
      rpo     |-> Order,
      term    |-> (0 :> SwitchInt(1, 1, 2)) @@ (1 :> Goto(3)) @@ (2 :> Goto(3)) @@ (3 :> Return),
      stmts   |-> (0 :> <<>>) @@ (1 :> Refer(2)) @@ (2 :> Refer(3))
                  @@ (3 :> <<Assign(5, "Use", <<CopyFrom(4)>>),
                             AssignTo(4, "Use", <<Const(1)>>),
                             Assign(0, "Sub", <<CopyFrom(4), Copy(5)>>)>>)]}
=============================================================================
