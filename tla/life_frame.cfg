\* Is a thread's information read in the frame it was allocated in?
SPECIFICATION Spec
CONSTANTS
  WorkerCount = 3
  SystemMayFail = FALSE
INVARIANTS
  TransientReadWithinFrame
CHECK_DEADLOCK FALSE
