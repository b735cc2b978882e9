SPECIFICATION Spec
CONSTANTS
  Suites <- MCSuites
  MaskSaved = TRUE
  Handlers = {"other"}
  MaxActs = 2
  MaxRaises = 1
INVARIANTS
  TypeOK
  SummaryTallies
  ExceptionsRaised
  OffsetRestored
  MandatoryStops
  NeverSeen
PROPERTY EngineEnds
CHECK_DEADLOCK FALSE
