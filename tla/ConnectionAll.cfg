\* Any mix of protocols, changed at any time.
CONSTANTS
  Invalid = Invalid
  Server = {s1, s2}
  Protocols <- MCEverything
  MaxUnSend = 2

SPECIFICATION Spec

SYMMETRY Servers

INVARIANTS
  TypeOK
  TcpOnlyInUse
  SuccessHasSocket
  FramesAligned
  KeyFirst

PROPERTIES
  SessionOfTarget
