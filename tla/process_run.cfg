\* The launcher, the engine and its workers in one process.
SPECIFICATION LiveSpec
CONSTANTS
  MaxBuilds = 2
  MaxSignals = 1
  BufferSize = 1
  FileLocked = FALSE
  WorkerCount = 2
  SystemMayFail = TRUE
INVARIANTS
  TypeOK
  OneThreadPerContext
  GameSeesEngine
PROPERTIES
  EveryWorkerStarts
  GameCanQuit
  FramesGoOn
CHECK_DEADLOCK FALSE
