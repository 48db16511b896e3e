\* A module file that can be replaced while loaded.  The developer signals
\* after each build and may signal at any other time too; the socket's buffer
\* is small enough to drop datagrams.
SPECIFICATION LiveSpec
CONSTANTS
  MaxBuilds = 3
  MaxSignals = 2
  BufferSize = 2
  FileLocked = FALSE
INVARIANTS
  TypeOK
  PointersOfLoadedModule
  LoopHasGame
  NoStaleFrame
PROPERTIES
  BuildsAreLoaded
CHECK_DEADLOCK FALSE
