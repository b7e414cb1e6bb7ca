SPECIFICATION Spec
CONSTANTS
  None = None
  Replicas = 5
  MaxPlan = 2
  MaxRetryCount = 2
  ErrorKinds = {"BrokenConnection", "TruncateError", "IsBootstrapping", "Invalid", "Unavailable", "ReadTimeout", "WriteTimeout"}
  Levels = {"Quorum", "EachQuorum", "Serial"}
INVARIANT NoDoubleApply
INVARIANT ErrorsAreFinal
INVARIANT AttemptsBounded
PROPERTY ConsistencyOnlyLowered
PROPERTY EveryRequestEnds
