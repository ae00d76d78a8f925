SPECIFICATION Spec
CONSTANTS
  Topics <- OneTopic
  Beats <- NoBeats
  InitSlots = 4
  ShrinkMin = 9
  FormatSep = "slash"
  ParseSep = "slash"
  Timeouts = {"infinite"}
  Failures = {}
  AppCalls = {}
  QuietRotation = FALSE
  SlowHead = FALSE
  MaxMsg <- Four
  MaxCuts = 1
  MaxSlots = 2
  MaxLeaks = 1
INVARIANTS NoProtoError
CHECK_DEADLOCK FALSE
