\* Does what passes the assertion stay within 70% of the memory?
SPECIFICATION Spec
CONSTANTS
  InstalledRam <- Machines
  Topologies <- EightCores
  PageSizes = {8, 128}
  SizeModulus <- TwoTo30
  CountModulus = 65536
  MaskBits = 16
  AssertsOn = TRUE
INVARIANTS
  BudgetWithinAllowed
CHECK_DEADLOCK FALSE
