------------------------------ MODULE GameTypes ------------------------------
(***************************************************************************)
(* The value types and the rule tables of game_types.h: kinds of objects,  *)
(* what each kind can do, and the geometry of the board.  A coordinate is  *)
(* the pair <<y, x>>, as Coord{y, x} in the code, and a side is the owner  *)
(* field of an object: -1 for player A, 1 for player B, 0 for neutral.     *)
(***************************************************************************)
EXTENDS Integers, FiniteSets

Sides == {-1, 1}

Owners == {-1, 0, 1}

\* The combat and harvesting units of GameObjType.
MobileTypes == {"WORKER", "LIGHT", "HEAVY", "RANGED"}

\* OBJ_BUILDING_SET
Buildings == {"BASE", "BARRACK"}

\* Everything a player can own; the keys of OBJ_HP_MAP and OBJ_COST_MAP.
OwnedTypes == MobileTypes \cup Buildings

GameObjType == OwnedTypes \cup {"TERRAIN", "MINERAL"}

\* OBJ_PRODUCE_MAP.  An order to PRODUCE given to a type without an entry makes
\* the lookup throw; the table is written over its keys only, so that the model
\* can tell a missing key from an empty list.
OBJ_PRODUCE_MAP ==
  [t \in {"BASE", "BARRACK", "WORKER"} |->
     CASE t = "BASE"    -> {"WORKER"}
       [] t = "BARRACK" -> {"LIGHT", "HEAVY", "RANGED"}
       [] t = "WORKER"  -> {"BASE", "BARRACK"}]

\* The columns of OBJ_ACTION_MASK_MAP, each as the set of types it is true of.
CanMove       == MobileTypes
CanAttack     == MobileTypes
CanGather     == {"WORKER"}
CanBeStored   == {"BASE"}
CanBeAttacked == OwnedTypes
CanBeGathered == {"MINERAL"}

\* The numbers of the game as it ships.
OBJ_HP_MAP ==
  [t \in OwnedTypes |-> CASE t = "BASE"    -> 60
                          [] t = "BARRACK" -> 40
                          [] t = "HEAVY"   -> 12
                          [] OTHER         -> 4]

OBJ_ATTACK_MAP ==
  [t \in MobileTypes |-> IF t = "HEAVY" THEN 4 ELSE 1]

OBJ_ATTACK_INTERVAL_MAP ==
  [t \in MobileTypes |-> IF t \in {"WORKER", "HEAVY"} THEN 2 ELSE 1]

OBJ_ATTACK_RANGE_MAP ==
  [t \in MobileTypes |-> IF t = "RANGED" THEN 3 ELSE 1]

OBJ_COST_MAP ==
  [t \in OwnedTypes |-> CASE t = "BASE"    -> 16
                          [] t = "BARRACK" -> 6
                          [] t = "LIGHT"   -> 1
                          [] t = "HEAVY"   -> 4
                          [] OTHER         -> 2]

OBJ_TIME_MAP ==
  [t \in OwnedTypes |-> CASE t = "BASE"    -> 25
                          [] t = "BARRACK" -> 16
                          [] t = "WORKER"  -> 4
                          [] t = "LIGHT"   -> 3
                          [] t = "HEAVY"   -> 7
                          [] t = "RANGED"  -> 6]

OBJ_MOVE_INTERVAL_MAP ==
  [t \in MobileTypes |-> IF t = "LIGHT" THEN 0 ELSE 1]

RES_PER_GATHER == 1
GATHER_TIME    == 1

-----------------------------------------------------------------------------
(* Geometry *)

Distance(a, b) == IF a > b THEN a - b ELSE b - a

\* abs(x - x') + abs(y - y') <= 1: the tile itself or one of its four neighbours.
Adjacent(c, d) == Distance(c[1], d[1]) + Distance(c[2], d[2]) <= 1

\* ! (range < sqrt(dy^2 + dx^2)), compared as squares.
InRange(range, c, d) ==
  (c[1] - d[1]) * (c[1] - d[1]) + (c[2] - d[2]) * (c[2] - d[2]) <= range * range

-----------------------------------------------------------------------------
(* A board before the first tick *)

\* What the engine takes for granted of the board that GameReset lays out: terrain
\* and minerals are neutral, each side has one base, and no two objects share a tile.
IsLayout(b, tiles) ==
  LET ids == DOMAIN b IN
  /\ IsFiniteSet(ids) /\ ids = 0 .. Cardinality(ids) - 1
  /\ b \in [ids -> [type : {"TERRAIN", "MINERAL", "BASE"},
                    coord : tiles, owner : Owners]]
  /\ \A i, j \in ids : b[i].coord = b[j].coord => i = j
  /\ \A i \in ids : b[i].type = "BASE" <=> b[i].owner \in Sides
  /\ \A s \in Sides : \E i \in ids : \A j \in ids : b[j].owner = s <=> i = j

==============================================================================
