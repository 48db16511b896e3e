\* Do the workers outlive their first task?
SPECIFICATION Spec
CONSTANTS
  WorkerCount = 2
  Items = {a, b, c}
  NULL = NULL
  QueueSize = 4
  PtrSize = 2
  BatchLengths = {1, 2}
  CautiousClient = TRUE
  CounterLinks = {FALSE}
  CounterModulus = 16
INVARIANTS
  WorkersSurvive
CHECK_DEADLOCK FALSE
