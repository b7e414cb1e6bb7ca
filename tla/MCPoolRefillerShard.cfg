SPECIFICATION PoolSpec
CONSTANTS
    MaxConns = 5
    NodeShards = {1, 3}
    PoolSizes <- OnePerShard
    ShardAwarePort = TRUE
    ExcessMultiplier = 1
    LeastLoaded = FALSE
    Bias = 0
    Keyspaces = {k1}
    MaxEvents = 2
    None = None
INVARIANT NoPanicForAnyShard
