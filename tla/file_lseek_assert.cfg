SPECIFICATION Spec
CONSTANTS
  MaxBatches = 2
  MaxBatch = 2
  NewCap = 0
  Timeouts = {"zero"}
  Faults = {}
  Failures = {"ENOMEM"}
  AppCalls = {"lseek"}
  TornRename = FALSE
INVARIANTS CountedIsQueued
CHECK_DEADLOCK FALSE
