SPECIFICATION Spec
CONSTANTS
  t1 = t1
  t2 = t2
  x1 = x1
  x2 = x2
  NONE = NONE
  TIMEOUT = TIMEOUT
  OK = OK
  BUSY = BUSY
  W = 4
  ResponseTimeout = 1
  Threads <- OneThread
  Indexes <- TwoIndexes
  MaxRequests = 3
  Prompt = TRUE
INVARIANT AnswersItsRequest
