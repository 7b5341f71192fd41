---------------------------- MODULE MCFunctions ----------------------------
(***************************************************************************)
(* Families of small functions for Checker and Soundness.  Local 0 is the  *)
(* return place, then come the arguments.  The blocks are named by their   *)
(* place in the order of the walk.                                         *)
(***************************************************************************)
EXTENDS Soundness

CONSTANT NBlocks

MCBlocks == 0..(NBlocks - 1)
Order == [i \in 1..NBlocks |-> i - 1]

Place(x) == [local |-> x, deref |-> FALSE]
Deref(x) == [local |-> x, deref |-> TRUE]
Copy(x) == [kind |-> "Copy", place |-> Place(x)]
CopyFrom(x) == [kind |-> "Copy", place |-> Deref(x)]
Move(x) == [kind |-> "Move", place |-> Place(x)]
Const(c) == [kind |-> "Constant", value |-> c]
Assign(x, op, args) == [dst |-> Place(x), rv |-> [op |-> op, args |-> args]]
AssignTo(x, op, args) == [dst |-> Deref(x), rv |-> [op |-> op, args |-> args]]
Borrow(x, place) == [dst |-> Place(x), rv |-> [op |-> "MutRef", args |-> <<>>, place |-> place]]

Return == [kind |-> "Return", targets |-> <<>>]
Goto(bb) == [kind |-> "Goto", targets |-> <<bb>>]
Drop(x, bb) == [kind |-> "Drop", targets |-> <<bb>>, local |-> x]
SwitchInt(x, bb1, bb2) ==
    [kind |-> "SwitchInt", targets |-> <<bb1, bb2>>, discr |-> Copy(x), bool |-> FALSE,
     bits |-> <<0>>]
If(x, bb1, bb2) == [SwitchInt(x, bb1, bb2) EXCEPT !.bool = TRUE]
Call(sig, args, x, targets) ==
    [kind |-> "Call", targets |-> targets, sig |-> sig, args |-> args, dst |-> Place(x)]

(* Signatures                                                              *)
Free(name) == <<"Free", name>>
BoundIs(op, e) == <<op, <<"Bound">>, e>>
Literal(c) == <<"Literal", c>>
At(e) == [kind |-> "Refine", expr |-> e]
Some(pred) == [kind |-> "Exists", pred |-> pred]
AnyValue == Some(Literal(1))
MutRef(loc) == [kind |-> "MutRef", loc |-> loc]
Param(name) == [name |-> name, pred |-> Literal(1)]
With1(loc, ty) == <<[loc |-> loc, ty |-> ty]>>
FnSig(params, requires, args, ensures, ret) ==
    [params |-> params, requires |-> requires, args |-> args, ensures |-> ensures, ret |-> ret]

(* fn(i32@n) -> ret                                                        *)
FromInt(ret) == FnSig(<<Param("n")>>, <<>>, <<At(Free("n"))>>, <<>>, ret)

-----------------------------------------------------------------------------
(* Every join point is immediately dominated by a block that is checked    *)
(* outside any switch: a join point, the start, or what follows one of     *)
(* them without a switch.                                                  *)
Unbranched(b) ==
    LET next[n \in Nat] ==
          IF n = 0 THEN {START} \union JoinPoints(b)
          ELSE LET prev == next[n - 1]
               IN  prev \union {b.term[bb].targets[1] :
                                  bb \in {c \in prev : Len(b.term[c].targets) = 1}}
    IN  next[Cardinality(Blocks)]
JoinsOutsideSwitches(b) == DominatesJoinPoint(b) \subseteq Unbranched(b)

-----------------------------------------------------------------------------
(* Families                                                                *)

(* The functions f on the blocks with f[bb] in choices[bb].                *)
PerBlock(choices) ==
    LET upTo[n \in Nat] ==
          IF n = 0 THEN {<<>>} ELSE {Append(f, c) : f \in upTo[n - 1], c \in choices[n - 1]}
    IN  {[bb \in Blocks |-> f[bb + 1]] : f \in upTo[NBlocks]}

Discovered(t) ==
    \A bb \in Blocks \ {0} : \E p \in 0..(bb - 1) : bb \in ToSet(t[p].targets)

Graph(t) == [term |-> t, rpo |-> Order]
Function(sig, nlocals, t, s) ==
    [sig |-> sig, nlocals |-> nlocals, term |-> t, rpo |-> Order, stmts |-> s]

(* The functions over the control-flow graphs in terms.                    *)
FunctionsOver(sigs, nlocals, terms, stmts) ==
    LET graphs == {t \in terms : Discovered(t) /\ JoinsOutsideSwitches(Graph(t))}
    IN  {Function(sig, nlocals, t, s) : sig \in sigs, t \in graphs, s \in PerBlock(stmts)}
=============================================================================
