SPECIFICATION FairSpec
CONSTANTS
  NumTransfers = 2
  MaxSeq = 2
  FaultSets <- MoreFaults
  Reuse = TRUE
INVARIANTS TypeOK Quiesced FreedOnlyWhenInactive
PROPERTIES SequenceIncreases FrameDelivered StopReturns
