SPECIFICATION FairSpec
CONSTANTS
  Threads = {main, t1, t2}
  Main = main
  NoThread = nobody
  Contexts = {c1, c2}
  NULL = null
  Failures = {"zmq_ctx_new", "malloc", "zmq_socket", "zmq_connect"}
  MaxHandles = 2
INVARIANTS TypeOK OneContext LiveUntilExit WaitersHoldNothing EndsOnlyClosed
PROPERTIES ExitEnds OpenEnds
CHECK_DEADLOCK FALSE
