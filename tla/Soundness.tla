----------------------------- MODULE Soundness -----------------------------
(***************************************************************************)
(* The finished constraint judged against what the function does.          *)
(***************************************************************************)
EXTENDS Checker, Execution, Query

Finished == mode = "Done" /\ panic = NoPanic

(* A join point dominates those after it.                                  *)
JoinsInSequence(b) ==
    \A i, j \in DOMAIN b.rpo :
        i < j /\ Join(b.rpo[i]) /\ Join(b.rpo[j]) => Dominates(b, b.rpo[i], b.rpo[j])

(* The promise of the tool: when the constraint is safe, no run of the     *)
(* function divides by zero, calls another with arguments its signature    *)
(* does not allow, or returns what its own does not say.  Of two join      *)
(* points neither of which dominates the other, the second is checked under*)
(* the environment of the first, which says nothing of the runs that       *)
(* bypass the first; so the promise is stated for join points in sequence. *)
Sound ==
    Finished /\ JoinsInSequence(body) /\ Safe(NodeTree(builder, 1)) =>
        \A s \in Reached(body) : ~s.wrong

(* What the environment of a join point says of references: one that is    *)
(* strong refers to the local it names whichever way the block was reached,*)
(* and two to the same location are the same.                              *)
AliasesTrue ==
    Finished =>
        \A bb \in DOMAIN bb_envs : \A s \in {r \in Reached(body) : r.bb = bb /\ ~r.wrong} :
            LET types == bb_envs[bb]
                strong == {x \in Locals(body) : types[Local(x)].ty.kind = "StrgRef"}
                loc(x) == types[Local(x)].ty.loc
            IN  /\ \A x \in strong : IsLocal(loc(x)) => s.mem[Local(x)] = <<"Ref", loc(x)>>
                /\ \A x, y \in strong : loc(x) = loc(y) => s.mem[Local(x)] = s.mem[Local(y)]

(* The query fixpoint reads says what the constraint does, and is one it   *)
(* can take.                                                               *)
QueryFaithful ==
    Finished =>
        LET query == IntoFixpoint(builder)
        IN  /\ Scoped(builder, query, {})
            /\ Safe(ReadQuery(query)) <=> Safe(NodeTree(builder, 1))
=============================================================================
