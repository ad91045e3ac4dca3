SPECIFICATION FairSpec
CONSTANTS
  Transfers = {t1, t2}
  None = none
  Devices <- AnyDevice
  Timeouts <- NoneOrOne
  MaxTime = 1
INVARIANTS FlagsSound
PROPERTIES ImplementsPromise TimeoutEnds
CHECK_DEADLOCK FALSE
