SPECIFICATION Spec
CONSTANTS
  Modules <- MCModules
  DefaultMod = "DEFAULT_MOD"
  Tables <- MCTables
  Inc = 4
  OpenMayFail = FALSE
  MaxDepth = 3
  MaxOffset = 24
INVARIANTS
  Nesting
  Balanced
  AssertHolds
PROPERTY BracesAlign
CHECK_DEADLOCK FALSE
