\* Does the budget of a machine with 8 GB and 8 cores pass the assertion of MemoryConfig_Initialize?
SPECIFICATION Spec
CONSTANTS
  InstalledRam <- EightGB
  Topologies <- EightCores
  PageSizes = {8, 128}
  SizeModulus <- TwoTo30
  CountModulus = 65536
  MaskBits = 16
  AssertsOn = TRUE
INVARIANTS
  AssertionHolds
CHECK_DEADLOCK FALSE
