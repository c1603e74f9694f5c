SPECIFICATION FairSpec
CONSTANTS
  Children = {d1, d2, d3}
  NoDevice = NoDevice
PROPERTY SkipsUnusable
CHECK_DEADLOCK FALSE
