\* Chase-Lev discipline: the queue implements a bag of tasks, and empties.
SPECIFICATION LiveSpec
CONSTANTS
  q1 = q1
  worker = worker
  main = main
  thief = thief
  Queues = {q1}
  Threads = {worker, main, thief}
  Items = {a, b, c}
  NULL = NULL
  QueueSize = 4
  PtrSize = 2
  MaxQueued = 2
  MayPush <- OwnerOnly
  MayPop <- OwnerOnly
  MaySteal <- ThievesOnly
PROPERTIES
  ImplementsFairBag
  EveryTaskRuns
