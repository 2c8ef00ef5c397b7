SPECIFICATION AtSpec
CONSTANTS
  u1 = u1
  Urcs <- SmallUrcs
  URC_LIST = URC_LIST
  NONE = NONE
  UartLines = 3
  RespLines = 1
  LineNums = {0, 1}
  Retry = 1
  Timeout = 1
  Interval = 1
  Answers <- SmallAnswers
  MaxCalls <- SmallMaxCalls
  MaxUrcs = 1
  W = 4
  Int16Max = 3
INVARIANTS AtOutcomeIsOwn AtResponseIsOneAnswer AtSendsAtMost
PROPERTY AtCallEnds
CHECK_DEADLOCK FALSE
