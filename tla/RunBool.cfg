SPECIFICATION Spec
CONSTANTS
  ResCap = 3
  Eps = 2
  LoopDims = 3
  ArrDims = 4
  Requests <- MCRequests
  Kind = "bool"
  Holds <- MCHolds
  Val <- MCVal
  Garbage <- MCGarbage
  NoTarget = 0
INVARIANTS
  WithinBox
  Complete
  ZeroMeansNone
  ExactCount
  NearestFirst
PROPERTIES
  Terminates
  Implements
CHECK_DEADLOCK FALSE
