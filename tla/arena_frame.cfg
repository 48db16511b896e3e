\* Does a worker's transient storage last until the frame ends?
SPECIFICATION Spec
CONSTANTS
  Workers = {w}
  Main = main
  Ids = {x}
  PageSize = 2
  Baseline = 4
  ZoneSize = 8
  PersistentZone = 8
  Sizes = {1}
  Alignments = {1, 2}
  MaxDepth = 2
  CommitCanFail = FALSE
  AssertsOn = TRUE
CHECK_DEADLOCK FALSE
PROPERTIES
  WorkerStorageLastsFrame
