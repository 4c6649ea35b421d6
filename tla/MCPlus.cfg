CONSTANTS
  t1 = t1
  t2 = t2
  Tasks = {t1, t2}
  Calls <- MCCalls
  SpecLists <- MCSpecLists
  WriteLists <- MCWriteLists
  LidOffsets = 2
  LidDbs = 2
  VarLen = 1
  SeqSize = 2
  SessionIds = {7}
  PlcVersions = {"V2"}
  KeepAliveAnswered = {TRUE, FALSE}
  GroupSize = 4
  MaxGroups = 3
  MaxU32 = 31
  MaxLen = 21
  CountSize = 3
  Error = Error
  MaxStream = 2
SPECIFICATION Spec
INVARIANTS
  AnswersAreOwn
  EncodingsRoundTrip
PROPERTY
  PlusCallsReturn
CHECK_DEADLOCK FALSE
