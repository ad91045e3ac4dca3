SPECIFICATION Spec
CONSTANTS
  NumTransfers = 2
  MaxSeq = 2
  FaultSets <- CancelFault
  Reuse = FALSE
INVARIANTS NeverFreedActive
CHECK_DEADLOCK FALSE
