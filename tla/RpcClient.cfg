SPECIFICATION FairSpec
CONSTANTS
  MaxConnections = 2
  MaxCommands = 2
INVARIANTS
  CommandsArrive
  NothingUnseen
PROPERTIES
  CommandReturns
  ConnectionEnds
CHECK_DEADLOCK FALSE
