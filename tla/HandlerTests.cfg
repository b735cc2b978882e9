SPECIFICATION PSpec
CONSTANTS
  Suites <- MCSuites
  MaskSaved = FALSE
  Handlers = {"other"}
  MaxActs = 9
  MaxRaises = 9
  InitCount = 3
  Increment = 2
  Entries <- MCEntries
  Junk = Junk
  Mallocs = {TRUE, FALSE}
  Many = 8
  Opens = {FALSE, TRUE}
INVARIANT HandlerTestsWork
CHECK_DEADLOCK FALSE
