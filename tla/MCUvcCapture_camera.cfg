SPECIFICATION CaptureSpec
CONSTANTS
  Sizes <- MCSizes
  Spare = 24
  Modes <- MCModes
  Rates = {5, 7}
  StillSize <- MCStill
  Cameras = 1
  Grid = 4
  Lengths = {0, 1, 28, 29, 30, 58, 59}
  MaxOpens = 2
INVARIANTS ConversionsSound ObjectSound SettingsAsAsked ReadFits
PROPERTIES VideoReadReturns
CHECK_DEADLOCK FALSE
