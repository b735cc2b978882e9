SPECIFICATION Spec
CONSTANTS
  ResCap = 3
  Eps = 2
  LoopDims = 3
  ArrDims = 4
  Requests <- MCTargetRequests
  Kind = "target"
  Holds <- MCHoldsTarget
  Val <- MCVal
  Garbage <- MCGarbage
  NoTarget = 0
INVARIANT TargetReaches
CHECK_DEADLOCK FALSE
