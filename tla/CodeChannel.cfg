SPECIFICATION FairSpec
CONSTANTS
  Mss = 3
  Capacity = 6
  SndWnd = 2
  RcvWnd = 2
  Prefix = 1
  CodeSizes <- SmallCodes
  MaxBytes = 13
INVARIANTS
  TypeOK
  OneStream
  SegmentsPacked
  SendQueueBounded
PROPERTIES
  ExitsUnderPressure
  ZeroMeansNone
  AllReceived
CHECK_DEADLOCK FALSE
