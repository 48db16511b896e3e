\* Windows: can the next build be written while the game runs?
SPECIFICATION BuilderSpec
CONSTANTS
  MaxBuilds = 2
  MaxSignals = 0
  BufferSize = 1
  FileLocked = TRUE
PROPERTIES
  NextBuildGetsIn
CHECK_DEADLOCK FALSE
