SPECIFICATION Spec
CONSTANTS
  HtabSize = 3
  Hash <- MCHash
  NumConfigs <- MCNumConfigs
  Contexts = {c1, c2}
  Handles = {h1, h2}
  Transfers = {t1, t2}
  Endings = {"ok", "gone"}
  ListStep = 1
  Plugged = {1, 2}
  MaxPlugged = 2
  MaxDevices = 4
  MaxCalls = 6
  MaxFailures = 1
SYMMETRY MCSymmetry
INVARIANTS SharedSound NothingKept TransfersSound
CHECK_DEADLOCK FALSE
