CONSTANTS
  r = r
  w = w
  None = None
  Tasks = {r, w}
  Programs <- MCPrograms
  BlockTypes <- MCBlockTypes
  Keys <- MCKeys
  Contents <- MCContents
  AtStart <- MCAtStart
  NewDbs <- MCNewDbs
  Locals <- MCLocals
  Chunk = 4
  PageSize = 1
  MaxBlock = 7
  HeaderLen = 3
  FillChunk = 3
  FillValues = {1}
  ForceBytes = {1}
  Bits = {0, 1}
  Functions1F = {"delete", "upload"}
  Bare <- MCBare
  StartLens = {8, 10}
  MaxStray = 1
SPECIFICATION FairSpec
INVARIANTS
  ListIsPlausible
  UndisturbedCallsAreExact
PROPERTIES
  TransfersAreWhole
  ForceTouchesOneBit
  CallsReturn
CHECK_DEADLOCK FALSE
