\* Are any two bound threads on different cores?
SPECIFICATION Spec
CONSTANTS
  InstalledRam <- Machines
  Topologies <- AllMachines
  PageSizes = {8, 128}
  SizeModulus <- TwoTo30
  CountModulus = 65536
  MaskBits = 16
  AssertsOn = FALSE
INVARIANTS
  BoundApart
CHECK_DEADLOCK FALSE
