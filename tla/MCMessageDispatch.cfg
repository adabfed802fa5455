SPECIFICATION DispatchSpec
CONSTANTS
  MaxLength = 6
  Messages <- PoolMessages
  LaterLines <- TwoLines
  MaxLog = 3
  MaxConns = 2
INVARIANTS
  DispatchTypeOK
  SplitsPlainObjects
  StateFollowsLog
  NeverLeftIdle
  RightTypesNeverAbort
