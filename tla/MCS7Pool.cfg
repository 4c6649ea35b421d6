CONSTANTS
  Task = {t1, t2, t3, t4}
  Conn = {c1, c2, c3}
  MaxSize = 2
  NoConn = NoConn
SPECIFICATION FairSpec
INVARIANTS
  BoundedConnections
  PermitsConserved
PROPERTIES
  AcquireCompletes
