SPECIFICATION Spec
CHECK_DEADLOCK FALSE
CONSTANTS
  CustomNames <- MCCustomNames
  MaxValues = 3
  MaxStatements = 2
  EpochDay = 8
  NanosPerSecond = 20
  DateRange <- MCDateRange
  Inputs <- MCInputs
  Bindable <- MCBindable
  MaxAttempts = 5
  Setups <- MCSetups
  MaxConnections = 2
  RuleSets <- MCRuleSets
  MaxRequests = 3
  Algorithms = {"none", "lz4"}
  Patterns <- MCPatterns
  ConnectionNo = 0
 
INVARIANT FramesUnderstood
 
PROPERTY ProxySettles
