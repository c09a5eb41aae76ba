SPECIFICATION Spec
CONSTANTS
  Capacity = 6
  Mtu = 3
  Overhead = 1
  Segs = 2
  Size <- MCSize
  MaxGiven = 5
  MaxXmit = 2
INVARIANTS
  TypeOK
  NeverExits
  AcksAccounted
  XmitTrue
  AnswerKept
