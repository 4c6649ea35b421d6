CONSTANTS
  Task = {t1, t2}
  MaxReq = 3
  MaxLink = 3
  RefMod = 3
  None = None
SPECIFICATION FairSpec
INVARIANTS
  TrustWhileConnected
  NothingFromOldTransport
  RefTellsAnswersApart
PROPERTY
  OperationsEnd
CHECK_DEADLOCK FALSE
