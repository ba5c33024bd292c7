SPECIFICATION Spec
CONSTANTS
  Workers <- const_Workers
  Loaded = 2
  TidShift = 2
  TidBits = 4
  OidShift = 2
  OidBits = 5
  Slots = 3
  Durations <- const_Durations
  WarmUp = 1
  Longest <- const_Longest
  MaxTxns = 2
  MaxAborts = 1
  MaxPanics = 1
INVARIANTS TypeOK IdsUnique WarmUpExcluded ReportInBounds
PROPERTY EventuallyReported
CHECK_DEADLOCK FALSE
