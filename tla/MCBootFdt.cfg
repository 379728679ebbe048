CONSTANTS
  Dtbs <- MCDtbs
  Cmdlines <- MCCmdlines
  RamdiskStart = 5
  RamdiskEnd = 6
  ArgLengths = {0, 30, 900}
  CmdLengths = {0, 9, 511}
SPECIFICATION Spec
INVARIANTS RoomSuffices ChosenStays HandedOver
CHECK_DEADLOCK FALSE
