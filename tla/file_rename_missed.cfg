SPECIFICATION FairRecorderSpec
CONSTANTS
  MaxBatches = 1
  MaxBatch = 1
  NewCap = 6
  Timeouts = {"infinite"}
  Faults = {}
  Failures = {}
  AppCalls = {}
  TornRename = FALSE
PROPERTIES RenameNoticed
CHECK_DEADLOCK TRUE
