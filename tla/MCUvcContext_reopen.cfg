SPECIFICATION Spec
CONSTANTS
  d1 = d1
  d2 = d2
  h1 = h1
  h2 = h2
  h3 = h3
  NoHandle = NoHandle
  Devices <- TwoDevices
  Handles <- ThreeHandles
  MaxHeld = 1
INVARIANTS OpenDevicesHandled
CHECK_DEADLOCK FALSE
