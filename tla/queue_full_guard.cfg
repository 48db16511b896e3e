\* Is an entry written only while there is a free slot?
SPECIFICATION Spec
CONSTANTS
  q1 = q1
  worker = worker
  main = main
  thief = thief
  Queues = {q1}
  Threads = {worker, main}
  Items = {a, b, c, d}
  NULL = NULL
  QueueSize = 2
  PtrSize = 2
  MaxQueued = 9
  MayPush <- OwnerOnly
  MayPop <- OwnerOnly
  MaySteal <- ThievesOnly
PROPERTIES
  FullQueueRunsAtOnce
CHECK_DEADLOCK FALSE
