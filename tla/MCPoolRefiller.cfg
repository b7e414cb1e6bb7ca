SPECIFICATION PoolSpec
CONSTANTS
    MaxConns = 5
    NodeShards = {0, 2}
    PoolSizes <- Either
    ShardAwarePort = TRUE
    ExcessMultiplier = 1
    LeastLoaded = FALSE
    Bias = 0
    Keyspaces = {k1, k2}
    MaxEvents = 2
    None = None
SYMMETRY KeyspaceSymmetry
INVARIANT WithinLimits
INVARIANT ReadyIsUsable
 
INVARIANT SharedUpToDate
 
