SPECIFICATION PollSpec
CONSTANTS
  MaxFrames = 4
  Packets = 3
  Styles <- Style
  StillStyles <- EofStyle
  PollFrames = 2
  LossyStills = FALSE
INVARIANTS FramesRight StillReportedOnce
PROPERTIES StillReported PollGetsFrame EventsGoOn
CHECK_DEADLOCK FALSE
