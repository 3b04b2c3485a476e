SPECIFICATION Spec
CONSTANTS
  W = 3
  Boards <- BarrenBoards
  InitResource = 2
  MineralRes = 1
  Hp <- FrailHp
  AttackPoint <- OBJ_ATTACK_MAP
  AttackInterval <- OBJ_ATTACK_INTERVAL_MAP
  AttackRange <- OBJ_ATTACK_RANGE_MAP
  Cost <- BuilderCost
  ObjTime <- SmallTime
  MoveInterval <- OBJ_MOVE_INTERVAL_MAP
  RehashSizes = {7}
  TimeCap = 0
INVARIANT
  DrawMeansBothLost
