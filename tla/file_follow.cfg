SPECIFICATION FairSpec
CONSTANTS
  MaxBatches = 3
  MaxBatch = 2
  NewCap = 8
  Timeouts = {"finite", "infinite"}
  Faults = {}
  Failures = {}
  AppCalls = {}
  TornRename = FALSE
INVARIANTS EofComplete
PROPERTIES AllDelivered
CHECK_DEADLOCK TRUE
