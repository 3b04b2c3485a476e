SPECIFICATION Spec
CONSTANTS
  W = 3
  Boards <- SharedBoards
  InitResource = 2
  MineralRes = 2
  Hp <- FrailHp
  AttackPoint <- OBJ_ATTACK_MAP
  AttackInterval <- OBJ_ATTACK_INTERVAL_MAP
  AttackRange <- OBJ_ATTACK_RANGE_MAP
  Cost <- WorkersCost
  ObjTime <- SmallTime
  MoveInterval <- OBJ_MOVE_INTERVAL_MAP
  RehashSizes = {7}
  TimeCap = 0
INVARIANTS
  TypeOK
  GatherTargetsExist
  GatheringPays
  NoFrozenUnit
  BaseShowsBank
PROPERTY
  WorthConserved
