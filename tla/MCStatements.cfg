SPECIFICATION Spec
CONSTANTS
  Replicas = 3
  ErrorKinds = {"BrokenConnection", "Unavailable", "ReadTimeout", "WriteTimeout"}
  None = None
  PageRows <- MCPageRows
  MaxTargets = 2
  PagerLevels = {"Quorum"}
  PagerPolicies = {"default", "downgrading", "fallthrough"}
  Hosts <- MCHosts
  Texts = {"a", "b"}
  Spaces = {"k1", "k2"}
  ServerCapacity = 2
  Batches <- MCBatches
  MaxEvents = 2
  MaxOperations = 2
  Callers = {c1, c2}
  Queries = {"a", "b", "c"}
  Capacities = {0, 1, 2}
  MaxExecutions = 5
  Compressions = {"lz4", "snappy"}
  Extensions = {"lwt"}
  NoCompression = NoCompression
  MaxPorts = 2
  MaxChallenges = 1
CHECK_DEADLOCK FALSE
INVARIANT PagingFaithful
INVARIANT PreparedFaithful
 
INVARIANT SetupAgreed
PROPERTY StatementsEnd
