\* Liveness, with the fairness that MCKcp states.
CONSTANTS
  A = A
  B = B
  Mss = 1
  SndWnd = 2
  RcvWnd = 1
  FirstRmtWnd = 1
  MaxSend = 2
  LimitA = 2
  LimitB = 0
  StreamLimit <- MCStreamLimit
  MaxNet = 2
  MaxAcks = 1
  MayDuplicate = FALSE
  MayRefuse = TRUE

SPECIFICATION FairSpec

PROPERTIES
  AllDelivered
  WindowReopens
