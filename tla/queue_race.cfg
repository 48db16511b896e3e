\* The engine's use: is each task still taken by one thread?
SPECIFICATION Spec
CONSTANTS
  q1 = q1
  worker = worker
  main = main
  thief = thief
  Queues = {q1}
  Threads = {worker, main}
  Items = {a, b, c}
  NULL = NULL
  QueueSize = 4
  PtrSize = 2
  MaxQueued = 2
  MayPush <- MainOnly
  MayPop <- OwnerOnly
  MaySteal <- MainOnly
SYMMETRY ItemSymmetry
INVARIANTS
  AtMostOnce
CHECK_DEADLOCK FALSE
