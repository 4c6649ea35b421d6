CONSTANTS
  c1 = c1
  c2 = c2
  c3 = c3
  ProtoError = ProtoError
  Client = {c1, c2, c3}
  Foreign = {c3}
  MaxConnections = 1
  Messages <- MCMessages
  AskedSizes = {240, 960}
  MaxPduSize = 480
  MaxFrame = 40
SPECIFICATION HandshakeSpec
INVARIANTS
  PermitsAddUp
  ClientCountExact
  PduSizeAgreed
  EnvelopesRoundTrip
PROPERTIES
  ConnectReturns
CHECK_DEADLOCK FALSE
