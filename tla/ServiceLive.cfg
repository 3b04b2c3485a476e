SPECIFICATION FairSpec
CONSTANTS
  o1 = o1
  p1 = p1
  Main = Main
  NoOne = NoOne
  Observers <- OneObserver
  Players <- OnePlayer
  Side <- SideOf
  Leaving <- OnePlayer
  BoardSize = 1
  MaxRequests = 1
  MaxUnits = 0
  MaxVersion = 1
  Window = 1
PROPERTIES
  Delivery
  HandlerEnds
