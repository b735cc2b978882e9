SPECIFICATION CSpec
CONSTANTS
  Texts <- MCTexts
  Upper <- MCUpper
  Space = {" "}
  MaxSz = 3
  MaxFile = 4
INVARIANT WholeFileCompared
CHECK_DEADLOCK FALSE
