SPECIFICATION Spec
CONSTANTS
  o1 = o1
  p1 = p1
  Main = Main
  NoOne = NoOne
  Observers <- OneObserver
  Players <- OnePlayer
  Side <- SideOf
  Leaving = {}
  BoardSize = 1
  MaxRequests = 2
  MaxUnits = 2
  MaxVersion = 2
  Window = 1
INVARIANTS
  OrdersMatchGame
  OncePerOrder
  NoTornView
  TickingStops
  ServedOnce
