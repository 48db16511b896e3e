\* Chase-Lev discipline, as many entries as the queue has slots.
SPECIFICATION Spec
CONSTANTS
  q1 = q1
  worker = worker
  main = main
  thief = thief
  Queues = {q1}
  Threads = {worker, main}
  Items = {a, b, c, d}
  NULL = NULL
  QueueSize = 4
  PtrSize = 2
  MaxQueued = 4
  MayPush <- OwnerOnly
  MayPop <- OwnerOnly
  MaySteal <- ThievesOnly
SYMMETRY ItemSymmetry
INVARIANTS
  HandedOutWhole
CHECK_DEADLOCK FALSE
