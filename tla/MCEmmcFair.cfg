SPECIFICATION FairSpec
CONSTANTS
  Reqs = {r1, r2}
  NoReq = NoReq
  CountMod = 8
  Entries = 3
  Drivers <- ChainDrivers
  BlockLists <- TwoSectors
  MaxPolls = 2
  HasCache = TRUE
  UnmappedWhen = "never"
  OversizedWhen = "never"
  FlushWhen = "idle"
  IrqLate = FALSE
CHECK_DEADLOCK FALSE
PROPERTIES ImplementsBlockDevice ServerReturns
