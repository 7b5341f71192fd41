CONSTANTS
    Threads = {t1, t2}
    Addrs = {a1, a2, a3}
    L1 = L1
    L2 = L2
    S1 = S1
    S2 = S2
    Labels = {L1, L2}
    Shards = {S1, S2}
    ShardOf <- MCShardOf
    NoThread = NoThread
    Nil = Nil
    MaxHandles = 2
SYMMETRY Symmetry
SPECIFICATION Spec
INVARIANTS
    TypeOK
    CountsExact
    Canonical
    NotRemovedPrematurely
    RemovesUnused
