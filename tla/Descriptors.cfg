\* Six descriptors, of which a select can watch five.
CONSTANTS
  MaxFd = 5
  FdSetMax = 5

SPECIFICATION Spec

INVARIANTS
  NoLeak
  HoldsItsSocket
  HarmConfined
