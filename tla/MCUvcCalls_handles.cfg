SPECIFICATION CallsSpec
CONSTANTS
  d1 = d1
  d2 = d2
  h1 = h1
  h2 = h2
  h3 = h3
  NoHandle = NoHandle
  Devices <- TwoDevices
  Handles <- ThreeHandles
  MaxHeld = 1
  Cameras <- MCCameras
  Asks <- MCAsks
  Stills <- MCStills
  Texts <- MCTexts
  MaxCalls = 3
INVARIANTS ContextSound RefCountExact ExitClosesAll DescriptorsRead NegotiatedAsAsked StreamsSound
PROPERTIES CallsReturn
CHECK_DEADLOCK FALSE
