CONSTANTS
  p1 = p1
  p2 = p2
  Junk = Junk
  Empty = Empty
  Plcs = {p1, p2}
  Configs <- MCConfigs
  Cells <- MCCells
  Bytes = {0, 8}
  Names = {"a", "b", "c"}
  QueueCap = 1
  MaxLate = 1
SPECIFICATION Spec
PROPERTIES
  WritesStayInTag
  SubscribersCatchUp
  PollersEnd
CHECK_DEADLOCK FALSE
