SPECIFICATION FairSpec
CONSTANTS
  QueueSize = 2
  Levels = 2
  MaxEvents = 4
  NODATA = NODATA
  CriticalMasks = TRUE
CHECK_DEADLOCK FALSE
INVARIANTS TypeOK RunningSlotIsNotReused ExecutesAllScheduled
PROPERTIES RefusedOnlyWhenFull PromiseKept EventuallyExecuted
