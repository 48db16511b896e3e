\* A build with assertions: main and one worker, nested tasks, two blocks in use.
SPECIFICATION Spec
CONSTANTS
  Workers = {w}
  Main = main
  Ids = {x, y}
  PageSize = 2
  Baseline = 4
  ZoneSize = 6
  PersistentZone = 5
  Sizes = {1, 5}
  Alignments = {2}
  MaxDepth = 2
  CommitCanFail = TRUE
  AssertsOn = TRUE
SYMMETRY IdSymmetry
CHECK_DEADLOCK FALSE
INVARIANTS
  TypeOK
  LiveBlocksDisjoint
  BlocksInZone
  SnapshotsNest
  ArenaInv
