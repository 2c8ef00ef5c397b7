SPECIFICATION Spec
CONSTANTS
  p1 = p1
  p2 = p2
  NONE = NONE
  Ports <- MCTwoPorts
  Streams <- MCShortStreams
  MsgLen = 6
  ResponseTimeout = 6
CHECK_DEADLOCK FALSE
PROPERTY EveryFrameDelivered
