CONSTANTS
  Options <- MCOptions
  HoldLimit = 3
  SampleTicks = 3
  SettleTicks = 1
  CountdownTicks = 7
  Countdown = 2
  WdtTicks = 2
  KeyHold = 4
SPECIFICATION Spec
INVARIANT EntryPressChoosesNothing
CHECK_DEADLOCK FALSE
