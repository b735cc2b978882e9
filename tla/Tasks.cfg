SPECIFICATION MCSpec
CONSTANTS
  Jobs <- MCJobs
  Err = 1
  IntMax = 3
  MaxAsked = 9
  Undefined = Undefined
  Fpe = Fpe
  Senseless = Senseless
  Puzzles <- MCPuzzles
  Texts <- MCTexts
  Upper <- MCUpper
  Space = {" "}
  MaxSz = 3
  MaxFile = 4
INVARIANTS
  ReportsRuns
  AsksTheRange
  CalcMeans
  CheckedExactly
  EachOnce
  ComparesText
  AppendsNext
PROPERTY SweepEnds
CHECK_DEADLOCK FALSE
