\* Does a signal that comes too early leave the launcher running?
SPECIFICATION Spec
CONSTANTS
  MaxBuilds = 3
  MaxSignals = 3
  BufferSize = 2
  FileLocked = FALSE
INVARIANTS
  StaysUp
CHECK_DEADLOCK FALSE
