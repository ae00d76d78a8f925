SPECIFICATION Spec
CONSTANTS
  Topics <- ThreeTopics
  Beats <- NoBeats
  InitSlots = 1
  ShrinkMin = 4
  FormatSep = "slash"
  ParseSep = "slash"
  Timeouts = {"infinite"}
  Failures = {}
  AppCalls = {"cancel"}
  QuietRotation = TRUE
  SlowHead = FALSE
  MaxMsg <- TwoAndOne
  MaxCuts = 0
  MaxSlots = 3
  MaxLeaks = 1
INVARIANTS ReadFileValid
CHECK_DEADLOCK FALSE
