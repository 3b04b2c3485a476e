SPECIFICATION Spec
CONSTANTS
  W = 10
  Requests <- SmallRequests
  FirstId = 2
  MaxStray = 1
INVARIANTS
  LaidOut
  BasesHaveRoom
  TerrainAsAsked
CHECK_DEADLOCK FALSE
