\* Is every thread bound to a processor?
SPECIFICATION Spec
CONSTANTS
  InstalledRam <- Machines
  Topologies <- AllMachines
  PageSizes = {8, 128}
  SizeModulus <- TwoTo30
  CountModulus = 65536
  MaskBits = 16
  AssertsOn = FALSE
INVARIANTS
  AllBound
CHECK_DEADLOCK FALSE
