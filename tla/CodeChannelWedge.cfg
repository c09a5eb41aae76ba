SPECIFICATION FairSpec
CONSTANTS
  Mss = 3
  Capacity = 6
  SndWnd = 2
  RcvWnd = 2
  Prefix = 1
  CodeSizes <- LargeCodes
  MaxBytes = 16
PROPERTIES
  AllReceived
CHECK_DEADLOCK FALSE
