----------------------------- MODULE BlockWalk -----------------------------
(***************************************************************************)
(* The order in which the checker of liquid-rust-typeck visits the basic   *)
(* blocks of one function (src/liquid-rust-typeck/src/checker.rs), in its  *)
(* two phases.  A block with one incoming edge is checked in the recursion *)
(* that reaches it (check_goto); a join point is not: each goto to it only *)
(* records or joins an environment in bb_envs, and the loop of `run` checks*)
(* its body later, in reverse postorder.  The second phase consumes the    *)
(* shapes the first one left.                                              *)
(*                                                                         *)
(* Types, constraints and cursors are left out here (module Checker has    *)
(* them): what matters is which blocks have an environment and when.  The  *)
(* recursion of the code is the variable frames: one entry for each        *)
(* check_switch_int that still has a branch to take.  Every other call of  *)
(* check_goto is the last thing its caller does and needs no frame.        *)
(***************************************************************************)
EXTENDS MirBody, Naturals, Sequences, FiniteSets

CONSTANT Bodies     \* the lowered MIR bodies considered

ASSUME BlockWalkAssumption ==
    /\ START \in Blocks
    /\ \A body \in Bodies : WellFormed(body)

VARIABLES
    body,       \* Checker.body
    mode,       \* Checker.mode, "Done" after Checker::check, "Err" after an Err
    visited,    \* Checker.visited
    bb_envs,    \* the blocks with an entry in Checker.bb_envs
    shapes,     \* the blocks with an entry in the map of Mode::Check
    frames,     \* the check_switch_int calls with branches left, innermost last
    pos,        \* how many blocks the loop of run has drawn from the order
    pc,         \* what runs next: a goto, a terminator, a return or the loop
    cur,        \* the block of the innermost running check_terminator
    target      \* the target of the goto about to run

vars == <<body, mode, visited, bb_envs, shapes, frames, pos, pc, cur, target>>

Modes == {"Inference", "Check", "Done", "Err"}
Frame == [bb : Blocks, next : Nat \ {0}]

TypeOK ==
    /\ WellFormed(body)
    /\ mode \in Modes
    /\ visited \subseteq Blocks
    /\ bb_envs \subseteq Blocks
    /\ shapes \subseteq Blocks
    /\ frames \in Seq(Frame)
    /\ pos \in Nat
    /\ pc \in {"goto", "terminator", "return", "loop", "end"}
    /\ cur \in Blocks
    /\ target \in Blocks

Term(bb) == body.term[bb]
Join(bb) == IsJoinPoint(body, bb)
Running == mode \in {"Inference", "Check"}

Init ==
    /\ body \in Bodies
    /\ mode = "Inference"
    /\ visited = {} /\ bb_envs = {} /\ shapes = {} /\ frames = <<>>
    /\ pos = 0
    /\ pc = "goto" /\ cur = START /\ target = START

-----------------------------------------------------------------------------
(* check_goto                                                              *)

(* check_basic_block: the block is marked before its statements and its    *)
(* terminator run.                                                         *)
CheckBasicBlock(bb) ==
    /\ visited' = visited \union {bb}
    /\ pc' = "terminator"
    /\ cur' = bb

GotoBlock ==
    /\ Running /\ pc = "goto" /\ ~Join(target)
    /\ CheckBasicBlock(target)
    /\ UNCHANGED <<body, mode, bb_envs, shapes, frames, pos, target>>

(* check_goto_join_point, Mode::Inference: insert or join.                 *)
GotoJoinInfer ==
    /\ mode = "Inference" /\ pc = "goto" /\ Join(target)
    /\ bb_envs' = bb_envs \union {target}
    /\ pc' = "return"
    /\ UNCHANGED <<body, mode, visited, shapes, frames, pos, cur, target>>

(* check_goto_join_point, Mode::Check: the first goto takes the shape out  *)
(* of the map (and unwraps it) to build the environment of the block; the  *)
(* later ones find that environment.                                       *)
GotoJoinCheckFirst ==
    /\ mode = "Check" /\ pc = "goto" /\ Join(target)
    /\ target \notin bb_envs
    /\ target \in shapes
    /\ shapes' = shapes \ {target}
    /\ bb_envs' = bb_envs \union {target}
    /\ pc' = "return"
    /\ UNCHANGED <<body, mode, visited, frames, pos, cur, target>>

GotoJoinCheckAgain ==
    /\ mode = "Check" /\ pc = "goto" /\ Join(target)
    /\ target \in bb_envs
    /\ pc' = "return"
    /\ UNCHANGED <<body, mode, visited, bb_envs, shapes, frames, pos, cur, target>>

-----------------------------------------------------------------------------
(* check_terminator                                                        *)

(* Return, and a Call whose destination is None.                           *)
NoSuccessor ==
    /\ Running /\ pc = "terminator" /\ Len(Term(cur).targets) = 0
    /\ pc' = "return"
    /\ UNCHANGED <<body, mode, visited, bb_envs, shapes, frames, pos, cur, target>>

(* Goto, Drop, and a Call with a destination.                              *)
OneSuccessor ==
    /\ Running /\ pc = "terminator" /\ Term(cur).kind \in {"Goto", "Drop", "Call"}
    /\ Len(Term(cur).targets) = 1
    /\ target' = Term(cur).targets[1]
    /\ pc' = "goto"
    /\ UNCHANGED <<body, mode, visited, bb_envs, shapes, frames, pos, cur>>

(* A call whose type arguments cannot be inferred ends the whole check:    *)
(* the Err is returned through every frame by `?`.                         *)
CallError ==
    /\ Running /\ pc = "terminator" /\ Term(cur).kind = "Call"
    /\ mode' = "Err"
    /\ pc' = "end"
    /\ UNCHANGED <<body, visited, bb_envs, shapes, frames, pos, cur, target>>

(* Mutants of TakeBranch: the last branch forgotten, and the frame left at *)
(* the branch before.                                                      *)
TakeBranchButLast(bb, i, rest) ==
    /\ target' = Term(bb).targets[i]
    /\ cur' = bb
    /\ pc' = "goto"
    /\ frames' = IF i + 1 < Len(Term(bb).targets)
                 THEN Append(rest, [bb |-> bb, next |-> i + 1])
                 ELSE rest
TakeBranchBefore(bb, i, rest) ==
    /\ target' = Term(bb).targets[i]
    /\ cur' = bb
    /\ pc' = "goto"
    /\ frames' = Append(rest, [bb |-> bb, next |-> i - 1])

(* Going to branch i of the switch at bb.  The frame stays while there are *)
(* branches after it.                                                      *)
TakeBranch(bb, i, rest) ==
    /\ target' = Term(bb).targets[i]
    /\ cur' = bb
    /\ pc' = "goto"
    /\ frames' = IF i < Len(Term(bb).targets)
                 THEN Append(rest, [bb |-> bb, next |-> i + 1])
                 ELSE rest

CheckSwitchInt ==
    /\ Running /\ pc = "terminator" /\ Term(cur).kind = "SwitchInt"
    /\ TakeBranch(cur, 1, frames)
    /\ UNCHANGED <<body, mode, visited, bb_envs, shapes, pos>>

-----------------------------------------------------------------------------
(* Returning: into the innermost switch, or into the loop of run           *)

NextBranch ==
    /\ Running /\ pc = "return" /\ frames # <<>>
    /\ LET top == frames[Len(frames)]
       IN  TakeBranch(top.bb, top.next, SubSeq(frames, 1, Len(frames) - 1))
    /\ UNCHANGED <<body, mode, visited, bb_envs, shapes, pos>>

ReturnToRun ==
    /\ Running /\ pc = "return" /\ frames = <<>>
    /\ pc' = "loop"
    /\ UNCHANGED <<body, mode, visited, bb_envs, shapes, frames, pos, cur, target>>

(* Mutant: blocks that were not checked are passed over too.               *)
RunSkipAny ==
    /\ Running /\ pc = "loop" /\ pos < Len(body.rpo)
    /\ pos' = pos + 1
    /\ UNCHANGED <<body, mode, visited, bb_envs, shapes, frames, pc, cur, target>>

RunSkip ==
    /\ Running /\ pc = "loop" /\ pos < Len(body.rpo)
    /\ body.rpo[pos + 1] \in visited
    /\ pos' = pos + 1
    /\ UNCHANGED <<body, mode, visited, bb_envs, shapes, frames, pc, cur, target>>

(* Mutant: the join points are drawn from bb_envs and not from the order.  *)
RunAnyBlock ==
    /\ Running /\ pc = "loop" /\ pos < Len(body.rpo)
    /\ \E bb \in bb_envs \ visited : CheckBasicBlock(bb)
    /\ UNCHANGED <<body, mode, bb_envs, shapes, frames, pos, target>>

(* self.bb_envs[&bb] panics when the block has no environment.             *)
RunBlock ==
    /\ Running /\ pc = "loop" /\ pos < Len(body.rpo)
    /\ LET bb == body.rpo[pos + 1]
       IN  /\ bb \notin visited
           /\ bb \in bb_envs
           /\ CheckBasicBlock(bb)
    /\ pos' = pos + 1
    /\ UNCHANGED <<body, mode, bb_envs, shapes, frames, target>>

(* Mutant: the shapes are not handed over.                                 *)
EndInferenceWithoutShapes ==
    /\ mode = "Inference" /\ pc = "loop" /\ pos = Len(body.rpo)
    /\ mode' = "Check"
    /\ visited' = {} /\ bb_envs' = {} /\ frames' = <<>> /\ pos' = 0
    /\ pc' = "goto" /\ cur' = START /\ target' = START
    /\ UNCHANGED <<body, shapes>>

(* Checker::infer turns bb_envs into shapes, and Checker::check starts     *)
(* over with a new Checker.                                                *)
EndInference ==
    /\ mode = "Inference" /\ pc = "loop" /\ pos = Len(body.rpo)
    /\ mode' = "Check"
    /\ shapes' = bb_envs
    /\ visited' = {} /\ bb_envs' = {} /\ frames' = <<>> /\ pos' = 0
    /\ pc' = "goto" /\ cur' = START /\ target' = START
    /\ UNCHANGED body

EndCheck ==
    /\ mode = "Check" /\ pc = "loop" /\ pos = Len(body.rpo)
    /\ mode' = "Done"
    /\ pc' = "end"
    /\ UNCHANGED <<body, visited, bb_envs, shapes, frames, pos, cur, target>>

Terminated ==
    /\ ~Running
    /\ UNCHANGED vars

Goto == GotoBlock \/ GotoJoinInfer \/ GotoJoinCheckFirst \/ GotoJoinCheckAgain
CheckTerminator == NoSuccessor \/ OneSuccessor \/ CallError \/ CheckSwitchInt
Return == NextBranch \/ ReturnToRun
Loop == RunSkip \/ RunBlock \/ EndInference \/ EndCheck

Step == Goto \/ CheckTerminator \/ Return \/ Loop
Next == Step \/ Terminated

Spec == Init /\ [][Next]_vars
(* The walk is one sequential computation that nothing suspends.           *)
FairSpec == Spec /\ WF_vars(Step)
-----------------------------------------------------------------------------
(* Properties                                                              *)

(* When the loop of run reaches a block that was not checked yet, some     *)
(* goto has left an environment for it: the index self.bb_envs[&bb] of     *)
(* checker.rs:164 never panics.  Every such block is a join point, and one *)
(* of its predecessors comes before it in the order.                       *)
BbEnvPresent ==
    Running /\ pc = "loop" /\ pos < Len(body.rpo) =>
        body.rpo[pos + 1] \in visited \union bb_envs

(* The first goto of the Check phase to a join point finds the shape that  *)
(* the Inference phase left: the unwrap of shapes.remove(&target) at       *)
(* checker.rs:383 never panics, though the two phases share nothing else.  *)
ShapePresent ==
    mode = "Check" /\ pc = "goto" /\ Join(target) =>
        target \in bb_envs \union shapes

(* A block is checked at most once in a phase: the recursion of check_goto *)
(* never enters a block twice, so it ends and adds no constraint twice,    *)
(* although check_goto itself does not look at visited.                    *)
CheckedOnce ==
    pc = "goto" /\ ~Join(target) => target \notin visited

(* A phase that ends without an error has checked every block, and has     *)
(* used up every shape: no block of the function escapes the check.        *)
AllChecked ==
    (mode = "Done" \/ (Running /\ pc = "loop" /\ pos = Len(body.rpo))) =>
        /\ visited = Blocks
        /\ bb_envs = {bb \in Blocks : Join(bb)}
        /\ shapes = {}

(* bb comes no later than other in the order of the walk.                  *)
NotAfter(bb, other) ==
    \E i, j \in 1..Len(body.rpo) :
        /\ i <= j
        /\ body.rpo[i] = bb
        /\ body.rpo[j] = other

(* An environment is joined with another after its block was checked only  *)
(* across a retreating edge (a loop): every forward edge to a join point   *)
(* is seen before its body.  In the Inference phase what a retreating edge *)
(* adds to the environment is not propagated through the body again.       *)
LateJoinRetreats ==
    pc = "goto" /\ Join(target) /\ target \in visited => NotAfter(target, cur)

(* The walk ends: neither a loop of the body nor a block that switches to  *)
(* itself makes the recursion go round.                                    *)
Termination == <>(mode \in {"Done", "Err"})
=============================================================================
