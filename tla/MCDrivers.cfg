SPECIFICATION DriversSpec
CONSTANTS
  MEAN_NUM = 4
  Readings <- MCReadings
  ByteCount = 2
  Fields <- MCFields
  Packed <- MCPacked
  MaxFields = 3
  Confs <- MCConfs
  ChipSize = 128
  ChunkBytes = 32
  Reads = {0, 33, 67, 97}
  Data = {0, 1, 128, 165}
  Words = 2
  Frames = {1, 2}
  Lengths = {0, 2, 31, 32, 33}
  Addresses <- MCAddresses
  Own <- MCOwn
  Payloads <- MCPayloads
  Colours <- MCColours
  Speeds <- MCSpeeds
  WORD = 90
  LOAD = 64
  MICROS = 4
  CLOCK = 8
  THRESHOLD = 11
  DelaysUs = {1, 2, 11, 12, 13, 30, 40}
  Wrap = 30
  Milli = 4
  MaxSince = 20
  Chars <- MCChars
  Children <- MCChildren
  Root = "root"
  Leaves <- MCLeaves
  Paths <- MCPaths
  JSONTREE_MAX_DEPTH = 3
  JsonSize = 3
  TextLen = 5
  Bytes = {b1, b2}
  Other = other
  UartBuffSize = 4
  FifoLen = 3
  FIFO_LEN = 3
  FULL_AT = 2
  EMPTY_BELOW = 1
  BUFFER_SIZE = 4
  MaxLen = 1
  Masks <- MCMasks
  Builds = {TRUE, FALSE}
  BaudRates = {9600}
  Thresholds = {110, 255}
  EventLists <- MCLists
  DataValues <- MCData
  EntryColours <- MCDark
  REPORT_TIME_MAX = 1
  TickMod = 2
INVARIANTS
  RoundTrip
  DrivenAsMeant
  BuffersPassed
  LightShows
  MotorFollows
  OnTime
  TextOfNamed
  TxArmed
  SpaceExact
  NeverDeaf
  LineAsAsked
  LoopMeetsClosedForm
PROPERTIES
  GivesMeanOfWindow
  FlashRead
  FramesAsMeant
  BusRight
  IntervalRight
  RingIsQueue
  CharsKept
  FinishedIsFinished
  AllSent
CHECK_DEADLOCK FALSE
