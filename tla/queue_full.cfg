\* Chase-Lev discipline, a client that overfills the queue.
SPECIFICATION Spec
CONSTANTS
  q1 = q1
  worker = worker
  main = main
  thief = thief
  Queues = {q1}
  Threads = {worker, main}
  Items = {a, b, c, d, e}
  NULL = NULL
  QueueSize = 2
  PtrSize = 2
  MaxQueued = 9
  MayPush <- OwnerOnly
  MayPop <- OwnerOnly
  MaySteal <- ThievesOnly
SYMMETRY ItemSymmetry
INVARIANTS
  QueueBounded
CHECK_DEADLOCK FALSE
