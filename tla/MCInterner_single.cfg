CONSTANTS
    Threads = {t1}
    Addrs = {a1, a2, a3, a4}
    L1 = L1
    L2 = L2
    S1 = S1
    S2 = S2
    Labels = {L1, L2}
    Shards = {S1, S2}
    ShardOf <- MCShardOf
    NoThread = NoThread
    Nil = Nil
    MaxHandles = 3
SPECIFICATION FairSpec
INVARIANT
    LastDropRemoves
PROPERTY
    LocksReleased
