SPECIFICATION TrainingSpec
CONSTANTS
  W = 3
  Boards <- SharedBoards
  InitResource = 1
  MineralRes = 1
  Hp <- FrailHp
  AttackPoint <- OBJ_ATTACK_MAP
  AttackInterval <- OBJ_ATTACK_INTERVAL_MAP
  AttackRange <- OBJ_ATTACK_RANGE_MAP
  Cost <- BuilderCost
  ObjTime <- SmallTime
  MoveInterval <- OBJ_MOVE_INTERVAL_MAP
  RehashSizes = {}
  TimeCap = 0
  MaxAttackRange = 3
INVARIANTS
  MaskIsObeyed
  GainsAreRewarded
  LossesAreRewarded
  EndIsTold
PROPERTY
  MaskIsComplete
