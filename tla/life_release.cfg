\* Is the pool released only after the workers have ended?
SPECIFICATION Spec
CONSTANTS
  WorkerCount = 3
  SystemMayFail = FALSE
INVARIANTS
  ReleasedAfterJoin
CHECK_DEADLOCK FALSE
