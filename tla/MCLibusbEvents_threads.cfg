SPECIFICATION FairSpec
CONSTANTS
  u1 = u1
  Users <- OneUser
  EventThread = evt
  Closer = closer
  None = none
  NumFds = 2
  MaxWait = 2
  MaxCloses = 3
INVARIANTS PipeMatchesPending DescriptorsSound
PROPERTIES EventCallsReturn
CHECK_DEADLOCK FALSE
