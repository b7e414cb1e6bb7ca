SPECIFICATION CodecSpec
CHECK_DEADLOCK FALSE
CONSTANTS
  CustomNames <- MCCustomNames
  MaxValues = 3
  MaxStatements = 2
  EpochDay = 8
  NanosPerSecond = 20
  DateRange <- MCDateRange
  Inputs <- MCInputs
  Bindable <- MCBindable
  MaxAttempts = 5
INVARIANT VectorsReadBack
