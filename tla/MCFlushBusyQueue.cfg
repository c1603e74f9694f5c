SPECIFICATION Spec
CONSTANTS
  Reqs = {r1}
  NoReq = NoReq
  CountMod = 8
  Entries = 3
  Drivers <- AutoDrivers
  BlockLists <- TwoSectors
  MaxPolls = 2
  HasCache = TRUE
  UnmappedWhen = "never"
  OversizedWhen = "never"
  FlushWhen = "any"
  IrqLate = FALSE
CHECK_DEADLOCK FALSE
INVARIANT NoEscape
