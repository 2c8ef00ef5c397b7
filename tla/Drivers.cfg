SPECIFICATION Spec
CONSTANTS
  n1 = n1
  n2 = n2
  n3 = n3
  c1 = c1
  c2 = c2
  e1 = e1
  e2 = e2
  e3 = e3
  e4 = e4
  FifoLen = 3
  RxBytes = 6
  BufSize = 2
  RbBytes = 6
  NONE = NONE
  Cans = {c1, c2}
  CanTables <- SmallTables
  TableOf <- SmallTableOf
  CanId <- SmallCanId
  MqLen = 3
  MaxMessages <- SmallMaxMessages
  MaxOpens = 1
  EventNodes = {n1, n2, n3}
  HEAD = HEAD
  ByteBits = 2
  Retries = 1
  MaxCount = 2
  Speeds = {42, 120}
  Percents = {0, 16, 44, 45, 74, 75}
  AppIcons = {64}
  Brightnesses = {9}
  BLANK = BLANK
  MbRegs = {0, 256, 770, 1030, 1793}
  MbNums = {1, 2}
  NOTHING = NOTHING
  UniStreams <- SmallStreams
  FrameMeta <- SmallFrameMeta
  UniTimeout = 2
  UniMsgLen = 7
  FifoRoom = 9
  TrxMaxLen = 4
  HOST = 9
  SubIds <- SmallSubIds
  Indices = {1}
  Bursts = {3, 4, 5}
  MaxAsks = 2
  MaxToggles = 2
  NOBODY = NOBODY
INVARIANTS RxKeepsNewest RbTakesInOrder ListIsWhatWasRegistered MessagesInOrder DlistWellFormed ExecutesWhatWasQueued BytesAreFramed OkMeansAcked BusFreeAfterCall IconsAsLastPrinted  UniDeliversFramesSent UniAnswerOnce NotifiedWhole
PROPERTIES RxIsFifo RbIsFifo SdaMovesOnlyToStartOrStop
CHECK_DEADLOCK FALSE
