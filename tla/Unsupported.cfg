SPECIFICATION Spec
CONSTANTS
  Files <- MCFiles
  Hash <- MCHash
  Equals <- MCEquals
  Behind <- MCBehind
  Number <- MCNumber
  Leftover = {"2"}
  Strict = FALSE
INVARIANT UnsupportedRefused
CHECK_DEADLOCK FALSE
