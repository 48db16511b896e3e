\* Is every block backed by committed pages?
SPECIFICATION Spec
CONSTANTS
  Workers = {w}
  Main = main
  Ids = {x, y}
  PageSize = 2
  Baseline = 4
  ZoneSize = 8
  PersistentZone = 8
  Sizes = {1, 3}
  Alignments = {1, 2}
  MaxDepth = 2
  CommitCanFail = FALSE
  AssertsOn = TRUE
SYMMETRY IdSymmetry
CHECK_DEADLOCK FALSE
INVARIANTS
  BlocksCommitted
