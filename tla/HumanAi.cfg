SPECIFICATION FairHandSpec
CONSTANTS
  W = 3
  Boards <- OpenBoards
  InitResource = 1
  MineralRes = 2
  Hp <- FrailHp
  AttackPoint <- OBJ_ATTACK_MAP
  AttackInterval <- OBJ_ATTACK_INTERVAL_MAP
  AttackRange <- OBJ_ATTACK_RANGE_MAP
  Cost <- CheapWorkers
  ObjTime <- SmallTime
  MoveInterval <- OBJ_MOVE_INTERVAL_MAP
  RehashSizes = {}
  TimeCap = 0
  Player <- PlayerA
  MaxClicks = 4
PROPERTIES
  StepsAreTaken
  OrdersAreDone
