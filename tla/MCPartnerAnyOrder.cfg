CONSTANTS
  a = a
  b = b
  x = x
  y = y
  z = z
  len = len
  None = None
  Peer = {a, b}
  Active = a
  Message <- MCMessage
  MaxSlice = 2
  LengthBytes <- MCLengthBytes
  TakeTurns = FALSE
  MaxSend = 1
SPECIFICATION Spec
INVARIANT ConfirmedWasDelivered
CHECK_DEADLOCK FALSE
