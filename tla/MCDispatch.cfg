CONSTANTS
  c1 = c1
  c2 = c2
  app = app
  db = db
  cb1 = cb1
  None = None
  Unexpected = Unexpected
  PlcError = PlcError
  Panic = Panic
  Guess = Guess
  Conn = {c1, c2}
  Thread = {c1, c2, app}
  Area <- MCArea
  Offset <- MCOffset
  Byte = {0, 1}
  Clock = {0}
  Callback = {cb1}
  Request <- MCRequest
  MaxAsk <- MCMaxAsk
  MaxBody = 3
SPECIFICATION FairSpec
INVARIANTS
  AnswersInOrder
  NoTornItem
  ClockReadsBack
  TablesUnderstood
  QueriesReturn
PROPERTIES
  LockedAreaFrozen
  RequestsAnswered
CHECK_DEADLOCK FALSE
