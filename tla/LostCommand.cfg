SPECIFICATION FairSpec
CONSTANTS
  o1 = o1
  p1 = p1
  Main = Main
  NoOne = NoOne
  Observers <- OneObserver
  Players <- NoPlayer
  Side <- SideOf
  Leaving = {}
  BoardSize = 1
  MaxRequests = 6
  MaxUnits = 0
  MaxVersion = 2
  Window = 1
PROPERTY
  CommandsHonoured
