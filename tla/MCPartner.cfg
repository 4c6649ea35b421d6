CONSTANTS
  a = a
  b = b
  x = x
  y = y
  z = z
  len = len
  None = None
  Peer = {a, b}
  Active = a
  Message <- MCMessage
  MaxSlice = 2
  LengthBytes <- MCLengthBytes
  TakeTurns = TRUE
  MaxSend = 2
SPECIFICATION FairSpec
PROPERTIES
  HandshakeEnds
  Implements
  BSendReturns
CHECK_DEADLOCK FALSE
