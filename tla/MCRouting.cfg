SPECIFICATION RoutingSpec
CHECK_DEADLOCK FALSE
CONSTANTS
  None = None
  NoTablets = NoTablets
  n1 = n1
  n2 = n2
  n3 = n3
  n4 = n4
  dc1 = dc1
  dc2 = dc2
  dc9 = dc9
  rA = rA
  rB = rB
  r1 = r1
  r2 = r2
  TokenBits = 3
  MinPort = 20
  Hosts <- MCHosts
  Reporters = {r1, r2}
  Latencies = {0, 1, 4}
  ExclusionThreshold = 2
  MinimumMeasurements = 2
  MaxReports = 4
  Queries <- MCQueries
  MaxFlips = 1
  BufCapacity = 4
  CdcCapacity = 3
  MaxKeyLen = 2
  LenBase = 2
  Pieces <- MCPieces
  MaxTotal = 12
  Threads = {r1, r2}
  ClockReadings <- MCClockReadings
  MaxStamps = 3
  Lookups <- MCLookups
  PortSamples <- MCPortSamples
  ShardSamples <- MCShardSamples
  KeySamples <- MCKeySamples
  KeyIndexes <- MCKeyIndexes
  LatencyStates <- MCLatencyStates
  IdleQuery <- MCIdleQuery
  HostIds = {h1, h2}
  DCs = {"dc1", "dc2"}
  NoDC = "unknown"
  Tables = {b1}
  PeerData <- MCPeerData
  MaxToken = 3
  MaxRefreshes = 2
SYMMETRY HostSymmetry
INVARIANT TabletsSound
 
INVARIANT LatenciesSound
INVARIANT StampsIncrease
 
PROPERTY ImplementsTabletMap
