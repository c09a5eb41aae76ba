SPECIFICATION Spec
CONSTANTS
  ClockSize = 20
  Interval = 2
  Slack = 3
  MinRto = 1
  MaxRto = 4
  FirstRto = 2
  Starts <- SmallStarts
  Steps = {1, 3}
  Jumps <- SmallJumps
  MaxNow = 9
  MaxJumps = 1
INVARIANTS
  TypeOK
  FlushesInTime
  NeverOverdue
  RttHonest
  DistanceTrue
CHECK_DEADLOCK FALSE
