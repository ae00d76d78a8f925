SPECIFICATION Spec
CONSTANTS
  Topics <- TwoTopics
  Beats <- NoBeats
  InitSlots = 1
  ShrinkMin = 9
  FormatSep = "slash"
  ParseSep = "slash"
  Timeouts = {"finite"}
  Failures = {"calloc", "zmq_setsockopt", "zmq_recv"}
  AppCalls = {"cancel", "close"}
  QuietRotation = FALSE
  SlowHead = TRUE
  MaxMsg <- ThreeAndOne
  MaxCuts = 1
  MaxSlots = 2
  MaxLeaks = 1
INVARIANTS TypeOK SubscribedIsFound ReadFileValid CountIsShort FilesClosed
PROPERTIES NoGap
CHECK_DEADLOCK TRUE
