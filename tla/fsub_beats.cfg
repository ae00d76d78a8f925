SPECIFICATION Spec
CONSTANTS
  Topics <- WithLosses
  Beats <- FirstBeats
  InitSlots = 4
  ShrinkMin = 9
  FormatSep = "slash"
  ParseSep = "slash"
  Timeouts = {"infinite"}
  Failures = {}
  AppCalls = {}
  QuietRotation = TRUE
  SlowHead = FALSE
  MaxMsg <- ThreeAndTwo
  MaxCuts = 0
  MaxSlots = 2
  MaxLeaks = 1
INVARIANTS ReadFileValid
CHECK_DEADLOCK FALSE
