\* Chase-Lev discipline, two thieves, no more entries than the layout bears.
SPECIFICATION Spec
CONSTANTS
  q1 = q1
  worker = worker
  main = main
  thief = thief
  Queues = {q1}
  Threads = {worker, main, thief}
  Items = {a, b, c, d, e}
  NULL = NULL
  QueueSize = 4
  PtrSize = 2
  MaxQueued = 2
  MayPush <- OwnerOnly
  MayPop <- OwnerOnly
  MaySteal <- ThievesOnly
SYMMETRY ItemThiefSymmetry
INVARIANTS
  TypeOK
  HandedOutWhole
  AtMostOnce
  NothingLost
  ClaimedEntryIsSafe
  IndexInv
