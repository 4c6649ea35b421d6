CONSTANTS
  VarError = VarError
  Inputs <- MCInputs
  PduSizes <- MCPduSizes
  MaxItems = 20
SPECIFICATION Spec
INVARIANTS
  BatchesPartition
  RequestsFit
  OkMeansAllAcked
  FewestExchanges
  ResponsesNearlyFit
  EncodedAsCounted
CHECK_DEADLOCK FALSE
