CONSTANTS
  Options <- MCOptions
  HoldLimit = 3
  SampleTicks = 3
  SettleTicks = 1
  CountdownTicks = 7
  Countdown = 2
  WdtTicks = 2
  KeyHold = 4
  XRES = 12
  YRES = 26
  FbSize = 320
  FONTW = 2
  FONTH = 2
  Glyph <- MCGlyph
  Newline = "newline"
  Titles <- MCTitles
  Logo <- MCLogo
  LogoWidth = 4
  MenuX = 4
  MenuY = 8
  MenuPitch = 3
  LogoY = 3
  PromptLogoY = 18
  ConX = 2
  ConY = 2
  ConPitch = 2
  Prompt <- MCPrompt
  Messages <- MCMessages
  MaxMessages = 4
  LowMod = 4
  multiple = 2
  Delays = {0, 1, 3}
  Counts = {0, 3}
  MaxCount = 14
SPECIFICATION AllSpec
INVARIANTS PressHasOneEffect AtMostOneCommand RestartKeepsPromise
INVARIANTS ScreenAgrees MessagesReadable
PROPERTIES RunsWhatIsShown OnlyLongPressRuns NeverEarly
PROPERTIES HoldRunsCommand WaitsEnd
CHECK_DEADLOCK FALSE
