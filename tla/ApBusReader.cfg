SPECIFICATION Spec
CONSTANTS
  p1 = p1
  p2 = p2
  NONE = NONE
  Ports <- MCOnePort
  Streams <- MCStreams
  MsgLen = 8
  ResponseTimeout = 11
CHECK_DEADLOCK FALSE
INVARIANTS TypeOK DeliversFramesSent
PROPERTY EveryFrameDelivered
