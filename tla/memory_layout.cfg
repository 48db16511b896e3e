\* Start-up on machines of 2 to 64 GB and 1 to 12 cores with one or two
\* logical processors each, 4 KB and 64 KB pages.
SPECIFICATION Spec
CONSTANTS
  InstalledRam <- Machines
  Topologies <- AllMachines
  PageSizes = {8, 128}
  SizeModulus <- TwoTo30
  CountModulus = 65536
  MaskBits = 16
  AssertsOn = FALSE
INVARIANTS
  ZonesApart
  BudgetCoversCommits
  EveryThreadHasContext
  BoundApartWithinMask
CHECK_DEADLOCK FALSE
