SPECIFICATION Spec
CONSTANTS
  QueueSize = 2
  Levels = 2
  MaxEvents = 3
  NODATA = NODATA
  CriticalMasks = FALSE
CHECK_DEADLOCK FALSE
INVARIANT ExecutesAllScheduled
