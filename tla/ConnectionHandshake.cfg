\* Liveness, with the fairness that MCConnection states.
CONSTANTS
  Invalid = Invalid
  Server = {s1}
  Protocols <- MCConnecting
  MaxUnSend = 2

SPECIFICATION FairSpec

PROPERTIES
  HandshakeCompletes
