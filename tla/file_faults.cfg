SPECIFICATION Spec
CONSTANTS
  MaxBatches = 2
  MaxBatch = 2
  NewCap = 2
  Timeouts = {"zero", "infinite"}
  Faults = {"hdr", "type", "length", "body"}
  Failures = {"ENOMEM", "EIO"}
  AppCalls = {"lseek", "close"}
  TornRename = TRUE
INVARIANTS TypeOK BufferIsNext FdAtBatch NoFalseAlarm SeeksToNewest
PROPERTIES ImplementsMsgFile
CHECK_DEADLOCK FALSE
