SPECIFICATION Spec
CONSTANTS
  t1 = t1
  t2 = t2
  x1 = x1
  x2 = x2
  NONE = NONE
  TIMEOUT = TIMEOUT
  OK = OK
  BUSY = BUSY
  W = 6
  ResponseTimeout = 2
  Threads <- TwoThreads
  Indexes <- TwoIndexes
  MaxRequests = 2
  Prompt = FALSE
INVARIANTS TypeOK ReadAnswersItsIndex AckUsedOnce
PROPERTY EveryRequestEnds
