\* Two workers, batches of up to two tasks submitted when both are idle, the
\* counter pointer null as in the code or stored as TaskQueue declares it,
\* fair threads.  A fault ends the process.
SPECIFICATION LiveSpec
CONSTANTS
  WorkerCount = 2
  Items = {a, b, c, d}
  NULL = NULL
  QueueSize = 4
  PtrSize = 2
  BatchLengths = {1, 2}
  CautiousClient = TRUE
  CounterLinks = {FALSE, TRUE}
  CounterModulus = 16
INVARIANTS
  TypeOK
  HandedOutWhole
  AtMostOnce
  SyncLeavesNothingQueued
  CounterCoversBatch
PROPERTIES
  SleeperIsWoken
  SyncRunsAll
CHECK_DEADLOCK FALSE
