SPECIFICATION ConnectionsSpec
CONSTANTS
    Requests = {r1, r2, k}
    MaxStreams = 2
    SubmitCapacity = 1
    OrphanThreshold = 0
    Coalescing = TRUE
    KeepaliveId = k
    Nil = Nil
    MaxConns = 5
    NodeShards = {1, 2}
    PoolSizes <- OnePerShard
    ShardAwarePort = TRUE
    ExcessMultiplier = 1
    LeastLoaded = TRUE
    Bias = 2
    Keyspaces = {}
    MaxEvents = 2
    None = None
INVARIANT NoMisdelivery
INVARIANT StreamsExclusive
INVARIANT MapConsistent
INVARIANT WaiterHasAnswerer
PROPERTY EveryWaiterAnswered
PROPERTY StuckOrphansShutDown
PROPERTY PoolServes
