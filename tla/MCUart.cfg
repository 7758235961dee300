SPECIFICATION UartSpec
CHECK_DEADLOCK FALSE
CONSTANTS
  FifoDepth = 2
  Threshold = 1
  MaxRx = 4
  MaxTx = 5
  BUF_LEN = 3
  INT_MAX = 4
  DEFAULT_TIMEOUT = 2
  Counts = {1, 3, 5}
  Timeouts = {1, 2}
  SmallCounts = {0, 1, 3}
INVARIANTS
  RingsSound
  InterruptsArmed
  NeverMeansNever
  StreamsConserved
PROPERTIES
  CallsReturn
