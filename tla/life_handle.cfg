\* Is the handle in the context when the worker runs?
SPECIFICATION Spec
CONSTANTS
  WorkerCount = 3
  SystemMayFail = FALSE
INVARIANTS
  HandleSetWhenRunning
CHECK_DEADLOCK FALSE
