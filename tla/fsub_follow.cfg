SPECIFICATION FairSpec
CONSTANTS
  Topics <- TwoOthers
  Beats <- NoBeats
  InitSlots = 1
  ShrinkMin = 9
  FormatSep = "slash"
  ParseSep = "slash"
  Timeouts = {"finite"}
  Failures = {"drop"}
  AppCalls = {}
  QuietRotation = TRUE
  SlowHead = FALSE
  MaxMsg <- ThreeAndTwo
  MaxCuts = 1
  MaxSlots = 2
  MaxLeaks = 1
INVARIANTS NoProtoError
PROPERTIES NoRepeat CatchesUpOrStops
CHECK_DEADLOCK TRUE
