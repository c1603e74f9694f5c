\* Every block list of up to three blocks and of as many sectors as the controller
\* moves at once, for every driver and every way its memory may lie.
CONSTANTS
  CountMod = 8
  MaxBlocks = 7
  MaxLength = 2
  DescsPerPage = 4
  MinSegment = 2
  NoReq = NoReq
  FirstSector = 5
  Drivers <- MCDrivers
  Hosts <- MCHosts
  Requests <- MCRequests
  Places <- MCPlaces
  Memory <- MCMemory
SPECIFICATION Spec
INVARIANTS DataArrives DmaStaysInside AdmittedFits MovesPrefix SdmaReportsMoved CountMatchesTransfer StopFollowsOpenTransfer
PROPERTY EventuallyAnswered
CHECK_DEADLOCK FALSE
