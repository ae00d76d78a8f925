SPECIFICATION FairSpec
CONSTANTS
  Topics = {t1, t2}
  NR_CACHE = 2
  Faults = {"topic", "short", "head", "nobody", "body", "extra"}
  Failures = {"ENOMEM", "zmq_setsockopt"}
  Timeouts = {"zero", "finite"}
  AppCalls = {"cancel", "close"}
  MaxSent = 3
  MaxSubs = 1
INVARIANTS TypeOK InStep CancelledIsSilent ProtoExplained
PROPERTIES ImplementsMsgQueue CacheRespected Drained
CHECK_DEADLOCK TRUE
