SPECIFICATION FairSpec
CONSTANTS
  MaxTries = 2
  MaxVoltTries = 2
  MaxTunings = 2
  MaxPolls = 2
  Boards <- MCBoards
  Voltages = {180, 330}
INVARIANTS TypeOK AgreeWhenUp TunedWhenUp ReadsWithinClock NoModeSkipped FailsOnlyOnFault
PROPERTIES EventuallyEnds
CHECK_DEADLOCK FALSE
