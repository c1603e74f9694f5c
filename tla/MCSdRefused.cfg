SPECIFICATION Spec
CONSTANTS
  MaxTries = 2
  MaxVoltTries = 2
  MaxTunings = 2
  MaxPolls = 2
  Boards <- MCBoards
  Voltages = {180, 330}
INVARIANT SdModeIsSet
CHECK_DEADLOCK FALSE
