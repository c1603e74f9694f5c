SPECIFICATION Spec
CONSTANTS
  Reqs = {r1, r2}
  NoReq = NoReq
  CountMod = 8
  Entries = 3
  Drivers <- AllDrivers
  BlockLists <- TwoSectors
  MaxPolls = 2
  HasCache = TRUE
  UnmappedWhen = "any"
  OversizedWhen = "any"
  FlushWhen = "idle"
  IrqLate = TRUE
CHECK_DEADLOCK FALSE
INVARIANTS TypeOK RingSound OnlyHeadInProgress HeadIsSubmitted InterruptArmed CompletionPending
PROPERTIES AnswersMatchTransfers FlushReachesCard StopBeforeNext
SYMMETRY Symmetry
