------------------------------ MODULE MirBody ------------------------------
(***************************************************************************)
(* The control-flow graph of a lowered body (ir::Body) and what the checker*)
(* asks of it.  The traversals and the dominators are rustc's; they are    *)
(* modelled by what the checker relies on.                                 *)
(***************************************************************************)
EXTENDS Naturals, Sequences, FiniteSets

CONSTANTS
    Blocks,     \* BasicBlock
    START       \* START_BLOCK

(* What a terminator of core::ir can be, with its successors in the order  *)
(* mir::Terminator::successors lists them; for SwitchInt the last one is   *)
(* targets.otherwise().                                                    *)
TerminatorKind == {"Return", "Goto", "SwitchInt", "Call", "Drop"}

BodyType == [term : [Blocks -> [kind : TerminatorKind, targets : Seq(Blocks)]],
             rpo  : Seq(Blocks)]

(* mir::Body::predecessors, one entry for each edge: a block that names    *)
(* the same target twice is its predecessor twice.                         *)
Edges(body) ==
    UNION {{<<bb, i>> : i \in DOMAIN body.term[bb].targets} : bb \in Blocks}
Target(body, edge) == body.term[edge[1]].targets[edge[2]]
Predecessors(body, bb) == {e \in Edges(body) : Target(body, e) = bb}

(* Mutants: predecessors counted as blocks and not as edges, and the entry *)
(* of the function not counted.                                            *)
IsJoinPointByBlocks(body, bb) ==
    \E e, f \in Predecessors(body, bb) : bb = START \/ e[1] # f[1]
IsJoinPointWithoutEntry(body, bb) ==
    \E e, f \in Predecessors(body, bb) : e # f

IsJoinPoint(body, bb) ==
    \E e, f \in Predecessors(body, bb) : bb = START \/ e # f

(* mir::traversal::reverse_postorder, by the facts the walk relies on: it  *)
(* lists every block once (optimized MIR has no unreachable block), starts *)
(* at START_BLOCK, and puts a block after the block that discovered it.    *)
IsWalkOrder(body, rpo) ==
    /\ \A bb \in Blocks : \E i \in 1..Len(rpo) : rpo[i] = bb
    /\ \A i, j \in 1..Len(rpo) : rpo[i] = rpo[j] => i = j
    /\ Len(rpo) > 0 /\ rpo[1] = START
    /\ \A j \in 2..Len(rpo) : \E i \in 1..(j - 1) :
          \E e \in Predecessors(body, rpo[j]) : e[1] = rpo[i]

WellFormed(body) ==
    /\ body \in BodyType
    /\ \A bb \in Blocks :
          LET kind == body.term[bb].kind
              n    == Len(body.term[bb].targets)
          IN  /\ kind = "Return" => n = 0
              /\ kind \in {"Goto", "Drop"} => n = 1
              /\ kind = "Call" => n \in {0, 1}
              /\ kind = "SwitchInt" => n > 0
    /\ IsWalkOrder(body, body.rpo)

-----------------------------------------------------------------------------
(* Dominators                                                              *)

Successors(b, bb) == {b.term[bb].targets[i] : i \in DOMAIN b.term[bb].targets}

(* The blocks a path from START_BLOCK reaches without passing d.           *)
ReachableAvoiding(b, d) ==
    LET reach[n \in Nat] ==
          IF n = 0 THEN {START} \ {d}
          ELSE LET prev == reach[n - 1]
               IN  prev \union (UNION {Successors(b, bb) : bb \in prev} \ {d})
    IN  reach[Cardinality(Blocks)]

Dominates(b, d, bb) == d = bb \/ bb \notin ReachableAvoiding(b, d)

(* Dominators::immediate_dominator; that of the start block is itself.     *)
ImmediateDominator(b, bb) ==
    IF bb = START THEN START
    ELSE CHOOSE d \in Blocks \ {bb} :
            /\ Dominates(b, d, bb)
            /\ \A e \in Blocks \ {bb} : Dominates(b, e, bb) => Dominates(b, e, d)
=============================================================================
