SPECIFICATION FairSpec
CONSTANTS
  Children = {d1, d2, d3}
  NoDevice = NoDevice
INVARIANTS OfferedWhenReported HandedOverClean
PROPERTIES ErrandRuns ServiceOffered
CHECK_DEADLOCK FALSE
