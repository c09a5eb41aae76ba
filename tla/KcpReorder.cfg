\* Only A sends; windows of two, so that segments arrive ahead of rcv_nxt.
CONSTANTS
  A = A
  B = B
  Mss = 1
  SndWnd = 2
  RcvWnd = 2
  FirstRmtWnd = 1
  MaxSend = 2
  LimitA = 3
  LimitB = 0
  StreamLimit <- MCStreamLimit
  MaxNet = 2
  MaxAcks = 1
  MayDuplicate = TRUE
  MayRefuse = FALSE

SPECIFICATION Spec

INVARIANTS
  TypeOK
  InOrder
  NothingLost
  WindowsKept
  NumbersStayClose
  IInv

PROPERTIES
  NeverGoesBack
  ImplementsStream
