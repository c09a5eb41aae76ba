\* TCP alone: reconnecting keeps the socket.
CONSTANTS
  Invalid = Invalid
  Server = {s1}
  Protocols <- MCTcpAlone
  MaxUnSend = 2

SPECIFICATION Spec

INVARIANTS
  PacketsIntact
