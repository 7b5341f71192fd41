---------------------------- MODULE MCBlockWalk ----------------------------
(***************************************************************************)
(* Every control-flow graph of four blocks whose terminators have at most  *)
(* two targets, up to the naming of the blocks: they are named by their    *)
(* place in the order, so the order is <<0, 1, 2, 3>>.                     *)
(***************************************************************************)
EXTENDS BlockWalk

CONSTANT NBlocks

MCBlocks == 0..(NBlocks - 1)

Order == [i \in 1..NBlocks |-> i - 1]

Terminators ==
    {[kind |-> k, targets |-> <<>>] : k \in {"Return", "Call"}}
    \union {[kind |-> "Goto", targets |-> <<t>>] : t \in MCBlocks}
    \union {[kind |-> "SwitchInt", targets |-> <<t, u>>] : t, u \in MCBlocks}

MCBodies ==
    {[term |-> t, rpo |-> Order] :
        t \in {f \in [MCBlocks -> Terminators] :
                 \A bb \in MCBlocks \ {0} : \E p \in 0..(bb - 1) :
                    \E i \in DOMAIN f[p].targets : f[p].targets[i] = bb}}
=============================================================================
