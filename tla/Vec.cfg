SPECIFICATION FairSpec
CONSTANTS
  NumWorkers = 2
  MaxState = 2
INVARIANTS
  NoStragglers
PROPERTIES
  Sequential
  CallsReturn
  PoolCloses
