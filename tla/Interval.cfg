SPECIFICATION ISpec
CONSTANTS
  ResCap = 4
  Eps = 2
  LoopDims = 2
  ArrDims = 3
  Requests <- MCRequests
  Kind = "unique"
  Holds <- MCHolds
  Val <- MCVal
  Garbage = {0}
  NoTarget = 0
  ValFrom = 1
  ValTo = 3
INVARIANTS
  TypeOK
  ShownUntilFound
  OffsetLeak
  ReportedOnce
  NothingNewLeft
PROPERTY IntervalEnds
CHECK_DEADLOCK FALSE
