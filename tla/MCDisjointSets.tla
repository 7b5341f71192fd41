--------------------------- MODULE MCDisjointSets ---------------------------
(* A merge that tells its arguments apart: implication.                    *)
EXTENDS DisjointSets

MCElems == {0, 1}
MCMerge(a, b) == IF a = 1 THEN b ELSE 1
=============================================================================
