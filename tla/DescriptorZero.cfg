\* What a failed reconnection leaves in m_sockfd.
CONSTANTS
  MaxFd = 5
  FdSetMax = 5

SPECIFICATION Spec

INVARIANTS
  OthersUntouched
