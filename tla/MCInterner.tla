----------------------------- MODULE MCInterner -----------------------------
(* Two labels of two shards; the threads and the addresses are symmetric.  *)
EXTENDS Interner, TLC

CONSTANTS L1, L2, S1, S2

MCShardOf == (L1 :> S1) @@ (L2 :> S2)
Symmetry == Permutations(Threads) \union Permutations(Addrs)
=============================================================================
