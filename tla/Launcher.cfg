SPECIFICATION Spec
CONSTANTS
  Files <- MCFiles
  Hash <- MCHash
  Equals <- MCEquals
  Behind <- MCBehind
  Number <- MCNumber
  Leftover = {"2"}
  Strict = FALSE
INVARIANTS
  SettingsAsWritten
  FlagsAsWritten
PROPERTY LauncherEnds
CHECK_DEADLOCK FALSE
