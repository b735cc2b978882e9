SPECIFICATION Spec
CONSTANTS
  Suites <- MCSuites
  MaskSaved = FALSE
  Handlers = {}
  MaxActs = 2
  MaxRaises = 1
INVARIANT NeverSeen
CHECK_DEADLOCK FALSE
