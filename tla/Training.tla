------------------------------ MODULE Training ------------------------------
(***************************************************************************)
(* What a player that learns sees of a game and says to it: the planes and *)
(* masks of StateToObservation (state_to_observation.cpp), its rewards,    *)
(* and the decoding of flat orders in GameStep (game_engine.cpp).          *)
(*                                                                         *)
(* Planes and masks are arrays of bytes, one for each plane and tile; the  *)
(* model has the set of the bytes that are true.                           *)
(***************************************************************************)
EXTENDS GameEngine, Sequences, FiniteSetsExt

CONSTANT MaxAttackRange   \* MAX_ATTACK_RANGE

ASSUME Offsets ==
  MaxAttackRange \in Nat /\ \A t \in MobileTypes : AttackRange[t] <= MaxAttackRange

\* The mask of a unit's products begins with the one that costs least.
ASSUME CheapestFirst ==
  Cost["BARRACK"] <= Cost["BASE"] /\ \A t \in {"RANGED", "HEAVY"} : Cost["LIGHT"] <= Cost[t]

\* A production is not over in the tick in which it begins: the sizes at which an
\* unordered_map is rehashed more than double, so that one tick meets with one of them.
ASSUME ProductionOutlasts ==
  \/ RehashSizes = {} /\ \A t \in OwnedTypes : ObjTime[t] >= 1
  \/ /\ \A a, b \in RehashSizes : a < b => 2 * a <= b
     /\ \A t \in OwnedTypes : ObjTime[t] >= 2

VARIABLE last   \* lastGameStateVec: the game as Step found it

trainingVars == <<vars, last>>

Game == [objs |-> objs, resource |-> resource, buildingCnt |-> buildingCnt]

\* Reset compares the game with itself.
TrainingInit == Init /\ last = Game

\* Step copies the states, and then makes the jobs that tick.
Copy == last' = IF phase = "idle" THEN Game ELSE last

TrainingNext == Next /\ Copy

TrainingSpec == TrainingInit /\ [][TrainingNext]_trainingVars

-----------------------------------------------------------------------------
(* Observation planes *)

\* Plane numbers, of which the others count on.
HP_1           == 0
HP_6_PLUS      == 5
RES_1          == 6
RES_6_PLUS     == 11
OWNER_NONE     == 13
OBSTACLE       == 15
GATHERING      == 16
OBJ_TYPE       == 17
CURRENT_ACTION == 25

TypeNumber == [t \in GameObjType |->
  CASE t = "TERRAIN" -> 0 [] t = "MINERAL" -> 1 [] t = "BASE"  -> 2 [] t = "BARRACK" -> 3
    [] t = "WORKER"  -> 4 [] t = "LIGHT"   -> 5 [] t = "HEAVY" -> 6 [] t = "RANGED"  -> 7]

ActionNumber == [NOOP |-> 0, MOVE |-> 1, GATHER |-> 2, PRODUCE |-> 4]

\* The byte for tile c of a plane.  A c off the board is that of another tile, or plane.
Byte(plane, c) == plane * W * W + c[1] * W + c[2]

Capped(n, top) == IF n < top THEN n ELSE top

\* The bytes that one object sets in ob[0].
Shows(o) ==
  (IF o.type \in OwnedTypes
     THEN {Byte(Capped(HP_1 + o.hp - 1, HP_6_PLUS), o.coord),
           Byte(CURRENT_ACTION + ActionNumber[o.act], o.coord)} ELSE {})
  \cup (IF o.type \in {"BASE", "WORKER", "MINERAL"}
          THEN {Byte(Capped(RES_1 + o.res - 1, RES_6_PLUS), o.coord)} ELSE {})
  \cup (IF o.act \in {"MOVE", "PRODUCE"} THEN {Byte(OBSTACLE, o.target)} ELSE {})
  \cup (IF o.act = "GATHER" THEN {Byte(GATHERING, o.target)} ELSE {})
  \cup {Byte(OBSTACLE, o.coord), Byte(OWNER_NONE + o.owner, o.coord),
        Byte(OBJ_TYPE + TypeNumber[o.type], o.coord)}

\* Mutant: where objects go to is not shown.
ShowsAtRest(g) == UNION {Shows([g.objs[i] EXCEPT !.act = "NOOP"]) : i \in DOMAIN g.objs}

\* ob[0] of game g, of which ob[1] is a copy.
Observed(g) == UNION {Shows(g.objs[i]) : i \in DOMAIN g.objs}

-----------------------------------------------------------------------------
(* Orders, flat and decoded *)

DIRECTION_TARGET_MAP == << <<-1, 0>>, <<0, 1>>, <<1, 0>>, <<0, -1>> >>

Plus(c, d) == <<c[1] + d[1], c[2] + d[2]>>

\* The tiles that the parameter of a MOVE, GATHER, RETURN or PRODUCE can name.
Around(c) == {Plus(c, d) : d \in Range(DIRECTION_TARGET_MAP)}

\* The difference that RELATIVE_ATTACK_POSITION k stands for.
AttackOffset(k) == LET n == MaxAttackRange * 2 + 1 IN
                   <<(k \div n) - MaxAttackRange, (k % n) - MaxAttackRange>>

AttackPositions == 0 .. (MaxAttackRange * 2 + 1) * (MaxAttackRange * 2 + 1) - 1

Decoded(action, target, ptype) == [action |-> action, target |-> target, ptype |-> ptype]

-----------------------------------------------------------------------------
(* Masks.  Each is that of one unit u of game g, with the planes ob of g.  *)
(* GameStep decodes a flat order with the same tables, so that a mask is   *)
(* written as the orders it allows.                                        *)

\* The unit has bits of its own in the mask of its player.
HasMask(g, u) ==
  LET o == g.objs[u] IN
  o.owner \in Sides /\ o.cd = 0 /\ o.progress = 0 /\ o.act = "NOOP"

\* target.y is compared with the width, too.
OnBoard(c) == c[1] \in 0 .. W - 1 /\ c[2] \in 0 .. W - 1

FreeAround(g, ob, u) ==
  {c \in Around(g.objs[u].coord) : OnBoard(c) /\ Byte(OBSTACLE, c) \notin ob}

MoveMask(g, ob, u) ==
  IF g.objs[u].type \in CanMove
    THEN {Decoded("MOVE", c, "TERRAIN") : c \in FreeAround(g, ob, u)} ELSE {}

\* Mutant: the last unit of money is not spent.
RichFor(g, u, p) == g.resource[g.objs[u].owner] > Cost[p]

Affords(g, u, p) == g.resource[g.objs[u].owner] >= Cost[p]

\* The types that the mask allows u to make: the first in each line decides for all.
ProduceTypes(g, u) ==
  CASE g.objs[u].type = "BASE"    /\ Affords(g, u, "WORKER") -> {"WORKER"}
    [] g.objs[u].type = "WORKER"  /\ Affords(g, u, "BARRACK") ->
         {"BARRACK"} \cup {p \in {"BASE"} : Affords(g, u, p)}
    [] g.objs[u].type = "BARRACK" /\ Affords(g, u, "LIGHT") ->
         {"LIGHT"} \cup {p \in {"RANGED", "HEAVY"} : Affords(g, u, p)}
    [] OTHER -> {}

ProduceMask(g, ob, u) ==
  {Decoded("PRODUCE", c, p) : c \in FreeAround(g, ob, u), p \in ProduceTypes(g, u)}

GatherMask(g, ob, u) ==
  IF g.objs[u].type \in CanGather /\ g.objs[u].res = 0
    THEN {Decoded("GATHER", c, "TERRAIN") :
            c \in {d \in Around(g.objs[u].coord) :
                     OnBoard(d) /\ Byte(OBJ_TYPE + TypeNumber["MINERAL"], d) \in ob}}
    ELSE {}

ReturnMask(g, ob, u) ==
  IF g.objs[u].type \in CanGather /\ g.objs[u].res > 0
    THEN {Decoded("RETURN", c, "TERRAIN") :
            c \in {d \in Around(g.objs[u].coord) :
                     /\ OnBoard(d)
                     /\ Byte(OBJ_TYPE + TypeNumber["BASE"], d) \in ob
                     /\ Byte(OWNER_NONE + g.objs[u].owner, d) \in ob}}
    ELSE {}

\* Mutant: the corners of the square of offsets are allowed.
ReachesCorners(range, d) ==
  d[1] * d[1] <= range * range /\ d[2] * d[2] <= range * range

Reaches(range, d) == d[1] * d[1] + d[2] * d[2] <= range * range

InReach(o) ==
  {Plus(o.coord, AttackOffset(k)) :
     k \in {j \in AttackPositions : Reaches(AttackRange[o.type], AttackOffset(j))}}

\* Nothing is asked here of whether the target is on the board.
AttackMask(g, ob, u) ==
  IF g.objs[u].type \in CanAttack
    THEN {Decoded("ATTACK", c, "TERRAIN") :
            c \in {d \in InReach(g.objs[u]) :
                     Byte(OWNER_NONE - g.objs[u].owner, d) \in ob}}
    ELSE {}

\* The orders other than NOOP that GameStep makes of what u's mask allows.
Masked(g, u) ==
  LET ob == Observed(g) IN
  IF HasMask(g, u)
    THEN UNION {MoveMask(g, ob, u), ProduceMask(g, ob, u), GatherMask(g, ob, u),
                ReturnMask(g, ob, u), AttackMask(g, ob, u)}
    ELSE {}

-----------------------------------------------------------------------------
(* Rewards of the tick that led from last to the game *)

\* Mutant: objects are told apart by their tiles.
NewByTile == {i \in DOMAIN objs :
                \A j \in DOMAIN last.objs : last.objs[j].coord # objs[i].coord}

\* The objects that the game before did not have.
New == DOMAIN objs \ DOMAIN last.objs

\* NEW_*_CNT
NewCnt(s, t) == Cardinality({i \in New : objs[i].owner = s /\ objs[i].type = t})

\* The objects of s that the game has no longer.
Gone(s) == {i \in DOMAIN last.objs \ Ids : last.objs[i].owner = s}

OfType(ids, t) == Cardinality({i \in ids : last.objs[i].type = t})

\* DEAD_*_CNT and NEW_*_KILLED
DeadCnt(s, t)   == OfType(Gone(s), t)
KilledCnt(s, t) == OfType(Gone(-s), t)

\* Mutant: what is hit and destroyed does not count.
HpOfSurvivors(i) == IF i \in Ids THEN objs[i].hp ELSE last.objs[i].hp

\* newHp: of an object that is gone, nothing.
NewHp(i) == IF i \in Ids THEN objs[i].hp ELSE 0

\* NEW_HIT_CNT
HitCnt(s) ==
  LET theirs == {i \in DOMAIN last.objs : last.objs[i].owner = -s} IN
  SumFunction([i \in theirs |-> last.objs[i].hp - NewHp(i)])

\* NEW_NET_INCOME
NetIncome(s) == resource[s] - last.resource[s]

\* Mutant: the game goes on until nobody has a building.
EndForBoth == \A s \in Sides : buildingCnt[s] = 0

\* IS_END
IsEnd == \E s \in Sides : buildingCnt[s] = 0

\* VICTORY_SIDE
VictorySide == IF buildingCnt[-1] > 0 THEN -1 ELSE IF buildingCnt[1] > 0 THEN 1 ELSE 0

=============================================================================
