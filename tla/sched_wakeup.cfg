\* Can a worker go to sleep on a task that was pushed to its queue?
SPECIFICATION Spec
CONSTANTS
  WorkerCount = 2
  Items = {a, b, c}
  NULL = NULL
  QueueSize = 4
  PtrSize = 2
  BatchLengths = {1, 2}
  CautiousClient = TRUE
  CounterLinks = {FALSE}
  CounterModulus = 16
INVARIANTS
  NoLostWakeup
CHECK_DEADLOCK FALSE
