------------------------------ MODULE GameEngine ------------------------------
(***************************************************************************)
(* One game of MicroStarCraft, tick by tick: GameStepSingle of             *)
(* game_engine.cpp and every function it calls.  A tick is a fixed         *)
(* sequence of loops; `phase' names the loop that runs, and each iteration *)
(* that changes something is an action.  The loops go over unordered maps, *)
(* so the iterations of one loop happen in any order.                      *)
(*                                                                         *)
(* A player's orders of the tick are a map from object to one order.  An   *)
(* order that a handler skips leaves no trace, so the model picks an       *)
(* object's order when a handler lets it pass.  A claim to PRODUCE, MOVE   *)
(* or GATHER that is turned down later does leave one, its count on the    *)
(* tile.  `spent' holds the objects whose order is used up: they attacked, *)
(* or their claim was turned down.  A loop with nothing left to visit      *)
(* takes no step of its own.                                               *)
(***************************************************************************)
EXTENDS GameTypes, FiniteSets, Functions

CONSTANTS
  W,               \* game.w = game.h: every board the program makes is square
  Boards,          \* what GameReset can lay out: id -> [type, coord, owner]
  InitResource,    \* INIT_RESOURCE
  MineralRes,      \* mineralPerCluster
  Hp, AttackPoint, AttackInterval, AttackRange, Cost, ObjTime, MoveInterval,
                   \* the rule tables OBJ_*_MAP
  RehashSizes,     \* sizes of objMap at which an emplace rehashes it
  TimeCap          \* game.time saturates here (a bound of the model only)

Tiles == (0 .. W - 1) \X (0 .. W - 1)

ASSUME BoardSize == W \in Nat \ {0}

ASSUME Rules ==
  /\ InitResource \in Nat
  /\ MineralRes \in Nat \ {0}
  /\ Hp \in [OwnedTypes -> Nat \ {0}]
  /\ AttackPoint \in [MobileTypes -> Nat]
  /\ AttackInterval \in [MobileTypes -> Nat \ {0}]
  /\ AttackRange \in [MobileTypes -> Nat]
  /\ Cost \in [OwnedTypes -> Nat \ {0}]
  /\ ObjTime \in [OwnedTypes -> Nat]
  /\ MoveInterval \in [MobileTypes -> Nat]
  /\ RehashSizes \subseteq Nat
  /\ TimeCap \in Nat

\* MapGenerator shows of GameReset that it lays out such boards.
ASSUME BoardLayout == \A b \in Boards : IsLayout(b, Tiles)

VARIABLES
  objs,         \* game.objMap: id -> object
  resource,     \* game.resource, by side
  buildingCnt,  \* game.buildingCnt, by side
  time,         \* game.time
  objCnt,       \* game.objCnt, the next fresh id
  phase,        \* the loop of GameStepSingle that runs
  spent,        \* objects whose order of this tick is used up
  coordIdx,     \* coordIdxMap: tile -> id, as the tick began
  damage,       \* unitDamageMap: id -> damage taken in this tick
  occ,          \* coordOccupationCount
  claims,       \* PRODUCE, MOVE or GATHER orders that passed the Step loop
  gatherCnt,    \* coordGatherCount
  todo          \* objects the running Settle loop has still to visit

gameVars == <<objs, resource, buildingCnt, time, objCnt>>
vars == <<objs, resource, buildingCnt, time, objCnt, phase, spent, coordIdx,
          damage, occ, claims, gatherCnt, todo>>

Phases == {"idle", "attack", "hurt", "produce", "execProduce", "move",
           "settleMove", "gather", "settleGather", "return", "threw"}

-----------------------------------------------------------------------------
(* Objects *)

Ids == DOMAIN objs

Put(f, k, v) == [x \in DOMAIN f \cup {k} |-> IF x = k THEN v ELSE f[x]]

EmptyMap == [x \in {} |-> 0]

\* A GameObj with nothing in progress.
Resting(type, coord, owner, hp, res) ==
  [type |-> type, coord |-> coord, owner |-> owner, hp |-> hp, res |-> res,
   act |-> "NOOP", target |-> coord, progress |-> 0, cd |-> 0,
   ptype |-> "TERRAIN"]

\* An object as GameReset lays it out.
Placed(o) ==
  Resting(o.type, o.coord, o.owner,
          IF o.type = "BASE" THEN Hp["BASE"] ELSE 0,
          CASE o.type = "BASE"    -> InitResource
            [] o.type = "MINERAL" -> MineralRes
            [] OTHER              -> 0)

\* Mutant: a handler forgets to test obj.currentAction.
FreeByProgress(i) == objs[i].cd = 0 /\ objs[i].progress = 0

\* obj.attackCD == 0 and nothing in progress: the object can take an order.
Free(i) == objs[i].cd = 0 /\ objs[i].progress = 0 /\ objs[i].act = "NOOP"

\* Live objects of the players that have their order of this tick left.
Ready == {u \in Ids \ (spent \cup DOMAIN claims) : objs[u].owner \in Sides}

\* The loop over player A's orders runs before the loop over player B's.
AfterPlayerA(u, used) == \A v \in used : objs[v].owner <= objs[u].owner

\* The objects of a map that are gathering.
Gathering(f) == {i \in DOMAIN f : f[i].act = "GATHER"}

\* An object on its way to a tile, or building there.
InTransit(i) == objs[i].act \in {"MOVE", "PRODUCE"}

\* The counters coordOccupationCount and coordGatherCount are only asked whether
\* they exceed 1, and only of a tile that the asking claim has counted itself.  So
\* a count is 0, 1 or Many, and a tile in use counts as Many before any claim.
Many == 2

Counted(tiles) == [c \in Tiles |-> IF c \in tiles THEN Many ELSE 0]

\* Mutant: claims on the same tile do not add up.
WithOneClaim(count, t) == [count EXCEPT ![t] = IF @ = 0 THEN 1 ELSE @]

\* A claim on t is counted.  (One on a tile with Many changes nothing: it is among
\* the orders that leave no trace.)
WithClaim(count, t) == [count EXCEPT ![t] = IF @ = 0 THEN 1 ELSE Many]

\* Mutant: an Execute loop does not look at the counts.
AllClaims(count) == DOMAIN claims

\* The claims that their Execute loop takes: nothing else is on the tile, or
\* comes to it, or claims it.
Unopposed(count) == {u \in DOMAIN claims : count[claims[u].target] < Many}

\* Mutant: gathering under way is not counted.
NoneGathered == {}

\* The minerals that are being gathered.
BeingGathered == {objs[i].target : i \in Gathering(objs)}

\* Mutant: only bases count as buildings.
IsBase(type) == type = "BASE"

IsBuilding(type) == type \in Buildings

\* Mutant: a side without buildings is not yet defeated.
NegativeCount == {s \in Sides : buildingCnt[s] < 0}

\* The sides that lose their objects when the game is over.
Defeated == {s \in Sides : buildingCnt[s] <= 0}

BuildingsOf(s) == {i \in Ids : objs[i].owner = s /\ objs[i].type \in Buildings}

GameOver == \E s \in Sides : buildingCnt[s] = 0

-----------------------------------------------------------------------------
Init ==
  /\ \E b \in Boards :
       /\ objs = [i \in DOMAIN b |-> Placed(b[i])]
       /\ objCnt = Cardinality(DOMAIN b)
  /\ resource = [s \in Sides |-> InitResource]
  /\ buildingCnt = [s \in Sides |-> 1]
  /\ time = 0
  /\ phase = "idle"
  /\ spent = {}
  /\ coordIdx = EmptyMap
  /\ damage = EmptyMap
  /\ occ = EmptyMap
  /\ claims = EmptyMap
  /\ gatherCnt = EmptyMap
  /\ todo = {}

\* The start of GameStepSingle: index the objects by tile.
BeginStep ==
  /\ phase = "idle"
  /\ coordIdx' = [c \in {objs[i].coord : i \in Ids} |->
                    CHOOSE i \in Ids : objs[i].coord = c]
  /\ phase' = "attack"
  /\ UNCHANGED <<gameVars, spent, damage, occ, claims, gatherCnt, todo>>

-----------------------------------------------------------------------------
(* ATTACK *)

\* GameStepAttack lets u's order to attack tile t pass.
PassesAttack(u, t) ==
  /\ phase = "attack"
  /\ u \in Ready
  /\ objs[u].type \in CanAttack
  /\ t \in DOMAIN coordIdx
  /\ objs[coordIdx[t]].type \in CanBeAttacked
  /\ objs[coordIdx[t]].owner = -objs[u].owner
  /\ Free(u)
  /\ InRange(AttackRange[objs[u].type], objs[u].coord, t)

\* u shoots.
StepAttack(u, t) ==
  /\ PassesAttack(u, t)
  /\ objs' = [objs EXCEPT ![u].target = t,
                          ![u].cd = AttackInterval[objs[u].type]]
  /\ damage' = LET k == coordIdx[t] IN
               Put(damage, k, AttackPoint[objs[u].type] +
                              (IF k \in DOMAIN damage THEN damage[k] ELSE 0))
  /\ spent' = spent \cup {u}
  /\ UNCHANGED <<resource, buildingCnt, time, objCnt, phase, coordIdx, occ, claims,
                 gatherCnt, todo>>

EndAttack ==
  /\ phase = "attack"
  /\ damage # EmptyMap
  /\ phase' = "hurt"
  /\ UNCHANGED <<gameVars, spent, coordIdx, damage, occ, claims, gatherCnt, todo>>

\* GameExecuteAttack: object i takes the damage of the tick and may be removed.
ExecuteAttack(i) ==
  LET dies == objs[i].hp - damage[i] <= 0 IN
  /\ phase = "hurt"
  /\ i \in DOMAIN damage
  /\ objs' = IF dies THEN Restrict(objs, Ids \ {i})
                     ELSE [objs EXCEPT ![i].hp = @ - damage[i]]
  /\ buildingCnt' = IF dies /\ IsBuilding(objs[i].type)
                      THEN [buildingCnt EXCEPT ![objs[i].owner] = @ - 1]
                      ELSE buildingCnt
  /\ damage' = Restrict(damage, DOMAIN damage \ {i})
  /\ UNCHANGED <<resource, time, objCnt, phase, spent, coordIdx, occ, claims,
                 gatherCnt, todo>>

\* coordOccupationCount: where objects are, and where MOVE and PRODUCE lead.
CountOccupation ==
  /\ phase \in {"attack", "hurt"}
  /\ damage = EmptyMap
  /\ occ' = Counted({objs[i].coord : i \in Ids} \cup
                    {objs[i].target : i \in {k \in Ids : InTransit(k)}})
  /\ phase' = "produce"
  /\ UNCHANGED <<gameVars, spent, coordIdx, damage, claims, gatherCnt, todo>>

-----------------------------------------------------------------------------
(* PRODUCE *)

\* GameStepProduce lets u's order to make a p on tile t pass.
PassesProduce(u, t, p) ==
  /\ phase = "produce"
  /\ u \in Ready /\ AfterPlayerA(u, DOMAIN claims)
  /\ objs[u].type \in DOMAIN OBJ_PRODUCE_MAP
  /\ p \in OBJ_PRODUCE_MAP[objs[u].type]
  /\ Free(u)
  /\ t \in Tiles /\ Adjacent(objs[u].coord, t)
  /\ resource[objs[u].owner] >= Cost[p]
  /\ occ[t] < Many

\* It counts on its target tile.
StepProduce(u, t, p) ==
  /\ PassesProduce(u, t, p)
  /\ claims' = Put(claims, u, [target |-> t, ptype |-> p])
  /\ occ' = WithClaim(occ, t)
  /\ UNCHANGED <<gameVars, phase, spent, coordIdx, damage, gatherCnt, todo>>

\* OBJ_PRODUCE_MAP.at throws for a unit that produces nothing, before any other
\* check of the order; nothing on the way up to the loop that ticks catches it.
ProduceThrows(u) ==
  /\ phase = "produce"
  /\ u \in Ready
  /\ objs[u].type \notin DOMAIN OBJ_PRODUCE_MAP
  /\ phase' = "threw"
  /\ UNCHANGED <<gameVars, spent, coordIdx, damage, occ, claims, gatherCnt, todo>>

\* GameExecuteProduce turns down the claims on contested tiles.  The counts do not
\* change any more, so all of these at once.
ExecuteCollisions ==
  /\ phase = "produce"
  /\ claims # EmptyMap
  /\ claims' = Restrict(claims, Unopposed(occ))
  /\ spent' = spent \cup (DOMAIN claims \ Unopposed(occ))
  /\ phase' = "execProduce"
  /\ UNCHANGED <<gameVars, coordIdx, damage, occ, gatherCnt, todo>>

\* u pays for its claim and begins.
StartProduce(u) ==
  LET s == objs[u].owner
      c == claims[u] IN
  /\ resource' = [resource EXCEPT ![s] = @ - Cost[c.ptype]]
  /\ objs' = [objs EXCEPT ![u].act = "PRODUCE",
                          ![u].target = c.target,
                          ![u].progress = ObjTime[c.ptype],
                          ![u].ptype = c.ptype]

\* The loop over player A's claims runs before the one over player B's.
NextClaim(u) ==
  /\ claims' = Restrict(claims, DOMAIN claims \ {u})
  /\ \A v \in DOMAIN claims : objs[u].owner <= objs[v].owner
  /\ UNCHANGED <<buildingCnt, time, objCnt, phase, coordIdx, damage, occ, gatherCnt,
                 todo>>

\* Mutant: the price is checked only when the order is claimed.
ExecuteUnchecked(u) ==
  /\ phase = "execProduce"
  /\ StartProduce(u)
  /\ NextClaim(u)
  /\ UNCHANGED spent

\* The other iterations of GameExecuteProduce: a claim is paid, unless the bank has
\* run short since it was made.
ExecuteProduce(u) ==
  /\ phase = "execProduce"
  /\ IF resource[objs[u].owner] >= Cost[claims[u].ptype]
       THEN StartProduce(u) /\ UNCHANGED spent
       ELSE spent' = spent \cup {u} /\ UNCHANGED <<objs, resource>>
  /\ NextClaim(u)

Producers == {i \in Ids : objs[i].act = "PRODUCE"}

BeginSettleProduce ==
  /\ phase \in {"produce", "execProduce"}
  /\ claims = EmptyMap
  /\ todo' = Producers
  /\ phase' = "move"
  /\ UNCHANGED <<gameVars, spent, coordIdx, damage, occ, claims, gatherCnt>>

\* One visit of GameSettleProduce.  At the end of its time a PRODUCE puts the new
\* object on the target tile.  The loop inserts into the map it iterates over:
\* when that rehashes the map, what the loop still visits is unspecified.
SettleProduce(i) ==
  /\ phase = "move"
  /\ i \in todo
  /\ IF objs[i].progress = 0
       THEN LET o == objs[i] IN
            /\ objs' = Put([objs EXCEPT ![i].act = "NOOP", ![i].progress = -1],
                           objCnt,
                           Resting(o.ptype, o.target, o.owner, Hp[o.ptype], 0))
            /\ objCnt' = objCnt + 1
            /\ buildingCnt' = IF IsBuilding(o.ptype)
                                THEN [buildingCnt EXCEPT ![o.owner] = @ + 1]
                                ELSE buildingCnt
            /\ IF Cardinality(Ids) \in RehashSizes
                 THEN todo' \in SUBSET (Producers \ {i})
                 ELSE todo' = todo \ {i}
       ELSE /\ objs' = [objs EXCEPT ![i].progress = @ - 1]
            /\ todo' = todo \ {i}
            /\ UNCHANGED <<objCnt, buildingCnt>>
  /\ UNCHANGED <<resource, time, phase, spent, coordIdx, damage, occ, claims,
                 gatherCnt>>

-----------------------------------------------------------------------------
(* MOVE *)

\* GameStepMove lets u's order to go to tile t pass.
PassesMove(u, t) ==
  /\ phase = "move" /\ todo = {}
  /\ u \in Ready /\ AfterPlayerA(u, DOMAIN claims)
  /\ t \in Tiles /\ Adjacent(objs[u].coord, t)
  /\ Free(u)
  /\ objs[u].type \in CanMove
  /\ occ[t] < Many

\* It counts on its target tile.
StepMove(u, t) ==
  /\ PassesMove(u, t)
  /\ claims' = Put(claims, u, [target |-> t, ptype |-> "TERRAIN"])
  /\ occ' = WithClaim(occ, t)
  /\ UNCHANGED <<gameVars, phase, spent, coordIdx, damage, gatherCnt, todo>>

\* GameExecuteMove: set out, unless something else is or comes there.
ExecuteMove ==
  /\ phase = "move" /\ todo = {}
  /\ objs' = [i \in Ids |->
                IF i \in Unopposed(occ)
                  THEN [objs[i] EXCEPT !.act = "MOVE",
                                       !.target = claims[i].target,
                                       !.progress = MoveInterval[objs[i].type]]
                  ELSE objs[i]]
  /\ claims' = EmptyMap
  /\ phase' = "settleMove"
  /\ spent' = spent \cup (DOMAIN claims \ Unopposed(occ))
  /\ UNCHANGED <<resource, buildingCnt, time, objCnt, coordIdx, damage, occ,
                 gatherCnt, todo>>

\* Mutant: nobody arrives.
NeverArrived(o) ==
  IF o.act # "MOVE" \/ o.progress = 0 THEN o ELSE [o EXCEPT !.progress = @ - 1]

Moved(o) ==
  IF o.act # "MOVE" THEN o
  ELSE IF o.progress = 0
       THEN [o EXCEPT !.act = "NOOP", !.coord = o.target, !.progress = -1]
       ELSE [o EXCEPT !.progress = @ - 1]

\* GameSettleMove, and then coordGatherCount of the gathering under way.
SettleMove ==
  /\ phase = "settleMove"
  /\ objs' = [i \in Ids |-> Moved(objs[i])]
  /\ gatherCnt' = Counted(BeingGathered)
  /\ occ' = EmptyMap
  /\ phase' = "gather"
  /\ UNCHANGED <<resource, buildingCnt, time, objCnt, spent, coordIdx, damage,
                 claims, todo>>

-----------------------------------------------------------------------------
(* GATHER *)

\* What GameStepGather and GameStepReturn check before they look t up in the
\* index made when the tick began.
ReachesFor(u, t) ==
  /\ u \in Ready
  /\ Free(u)
  /\ objs[u].type \in CanGather
  /\ t \in DOMAIN coordIdx
  /\ Adjacent(objs[u].coord, t)

\* GameStepGather lets u's order to gather from tile t pass.
PassesGather(u, t) ==
  /\ phase = "gather"
  /\ ReachesFor(u, t) /\ AfterPlayerA(u, DOMAIN claims)
  /\ objs[u].res = 0
  /\ coordIdx[t] \in Ids
  /\ objs[coordIdx[t]].type \in CanBeGathered
  /\ gatherCnt[t] < Many

\* It counts on its mineral.
StepGather(u, t) ==
  /\ PassesGather(u, t)
  /\ claims' = Put(claims, u, [target |-> t, ptype |-> "TERRAIN"])
  /\ gatherCnt' = WithClaim(gatherCnt, t)
  /\ UNCHANGED <<gameVars, phase, spent, coordIdx, damage, occ, todo>>

\* objMap.at throws: what stood on t as the tick began has been destroyed.
GatherThrows(u, t) ==
  /\ phase = "gather"
  /\ ReachesFor(u, t)
  /\ objs[u].res = 0
  /\ coordIdx[t] \notin Ids
  /\ phase' = "threw"
  /\ UNCHANGED <<gameVars, spent, coordIdx, damage, occ, claims, gatherCnt, todo>>

\* GameExecuteGather: begin, unless the mineral has another gatherer or claim.
\* GameSettleGather then visits all that gather.
ExecuteGather ==
  /\ phase = "gather"
  /\ objs' = [i \in Ids |->
                IF i \in Unopposed(gatherCnt)
                  THEN [objs[i] EXCEPT !.act = "GATHER",
                                       !.target = claims[i].target,
                                       !.progress = GATHER_TIME]
                  ELSE objs[i]]
  /\ todo' = Gathering(objs')
  /\ claims' = EmptyMap
  /\ gatherCnt' = EmptyMap
  /\ phase' = "settleGather"
  /\ spent' = spent \cup (DOMAIN claims \ Unopposed(gatherCnt))
  /\ UNCHANGED <<resource, buildingCnt, time, objCnt, coordIdx, damage, occ>>

\* One visit of GameSettleGather: count down, or take one unit out of the mineral.
SettleGather(i) ==
  LET m == coordIdx[objs[i].target] IN
  /\ phase = "settleGather"
  /\ i \in todo
  /\ objs' = IF objs[i].progress = 0
               THEN [objs EXCEPT
                       ![i].act = "NOOP", ![i].progress = -1,
                       ![i].res = IF objs[m].res < RES_PER_GATHER
                                    THEN objs[m].res ELSE RES_PER_GATHER,
                       ![m].res = @ - RES_PER_GATHER]
               ELSE [objs EXCEPT ![i].progress = @ - 1]
  /\ todo' = todo \ {i}
  /\ UNCHANGED <<resource, buildingCnt, time, objCnt, phase, spent, coordIdx,
                 damage, occ, claims, gatherCnt>>

\* The second loop of GameSettleGather erases the minerals that are used up.
EraseMinerals ==
  /\ phase = "settleGather"
  /\ todo = {}
  /\ objs' = Restrict(objs, {i \in Ids : ~ /\ objs[i].type = "MINERAL"
                                           /\ objs[i].res <= 0})
  /\ phase' = "return"
  /\ UNCHANGED <<resource, buildingCnt, time, objCnt, spent, coordIdx, damage,
                 occ, claims, gatherCnt, todo>>

-----------------------------------------------------------------------------
(* RETURN *)

\* GameStepReturn lets u's order to bank its load in tile t pass.
PassesReturn(u, t) ==
  /\ phase = "return"
  /\ ReachesFor(u, t)
  /\ objs[u].res # 0
  /\ coordIdx[t] \in Ids
  /\ objs[coordIdx[t]].type \in CanBeStored
  /\ objs[coordIdx[t]].owner = objs[u].owner

\* Mutant: the load is banked and kept.
ReturnKeeping(u, t) ==
  /\ PassesReturn(u, t)
  /\ resource' = [resource EXCEPT ![objs[u].owner] = @ + objs[u].res]
  /\ UNCHANGED <<objs, buildingCnt, time, objCnt, phase, spent, coordIdx, damage,
                 occ, claims, gatherCnt, todo>>

\* u's load goes to its player's bank.
StepReturn(u, t) ==
  /\ PassesReturn(u, t)
  /\ resource' = [resource EXCEPT ![objs[u].owner] = @ + objs[u].res]
  /\ objs' = [objs EXCEPT ![u].res = 0]
  /\ UNCHANGED <<buildingCnt, time, objCnt, phase, spent, coordIdx, damage, occ,
                 claims, gatherCnt, todo>>

ReturnThrows(u, t) ==
  /\ phase = "return"
  /\ ReachesFor(u, t)
  /\ objs[u].res # 0
  /\ coordIdx[t] \notin Ids
  /\ phase' = "threw"
  /\ UNCHANGED <<gameVars, spent, coordIdx, damage, occ, claims, gatherCnt, todo>>

-----------------------------------------------------------------------------
(* The end of the tick *)

Rested(o) == [o EXCEPT !.target = o.coord, !.progress = 0, !.ptype = "TERRAIN"]

Banked(o) == [o EXCEPT !.res = IF o.type = "BASE" THEN resource[o.owner] ELSE @]

IsAtRest(o) == o.act = "NOOP" /\ o.cd = 0

\* Mutant: attackCD goes below zero.
RefreshedBelowZero(o) ==
  [Banked(IF IsAtRest(o) THEN Rested(o) ELSE o) EXCEPT !.cd = @ - 1]

\* Mutant: the progress of an action that has ended stays.
RefreshedUnrested(o) == [Banked(o) EXCEPT !.cd = IF @ > 0 THEN @ - 1 ELSE 0]

\* Mutant: bases keep the bank they were shown with.
RefreshedUnbanked(o) ==
  [IF IsAtRest(o) THEN Rested(o) ELSE o EXCEPT !.cd = IF @ > 0 THEN @ - 1 ELSE 0]

\* The first loop of GameRefresh.
Refreshed(o) ==
  [Banked(IF IsAtRest(o) THEN Rested(o) ELSE o)
     EXCEPT !.cd = IF @ > 0 THEN @ - 1 ELSE 0]

\* GameRefresh: when a side has no building left all its objects are removed;
\* as long as both have one, the clock goes on.  The locals of the tick die.
GameRefresh ==
  /\ phase = "return"
  /\ objs' = [i \in {k \in Ids : GameOver => objs[k].owner \notin Defeated} |->
                Refreshed(objs[i])]
  /\ time' = IF GameOver \/ time = TimeCap THEN time ELSE time + 1
  /\ phase' = "idle"
  /\ spent' = {}
  /\ coordIdx' = EmptyMap
  /\ UNCHANGED <<resource, buildingCnt, objCnt, damage, occ, claims, gatherCnt,
                 todo>>

\* After a throw no tick is run any more.
Threw == phase = "threw" /\ UNCHANGED vars

\* What GameRefresh logs of a finished game.
LogVerdict ==
  CASE buildingCnt[-1] = 0 /\ buildingCnt[1] = 1 -> "Draw"
    [] buildingCnt[1] = 0                        -> "Player A Win"
    [] OTHER                                     -> "Player B Win"

-----------------------------------------------------------------------------
\* The handler of order o, given to u, lets it pass.
Passes(u, o) ==
  \/ o.action = "ATTACK"  /\ PassesAttack(u, o.target)
  \/ o.action = "PRODUCE" /\ PassesProduce(u, o.target, o.ptype)
  \/ o.action = "MOVE"    /\ PassesMove(u, o.target)
  \/ o.action = "GATHER"  /\ PassesGather(u, o.target)
  \/ o.action = "RETURN"  /\ PassesReturn(u, o.target)

Order ==
  \E u \in Ready :
    \/ ProduceThrows(u)
    \/ \E t \in Tiles : StepMove(u, t)
    \/ \E t \in Tiles, p \in OwnedTypes : StepProduce(u, t, p)
    \/ \E t \in DOMAIN coordIdx :
         \/ StepAttack(u, t) \/ StepGather(u, t) \/ GatherThrows(u, t)
         \/ StepReturn(u, t) \/ ReturnThrows(u, t)

Execute ==
  \/ \E i \in DOMAIN damage : ExecuteAttack(i)
  \/ \E u \in DOMAIN claims : ExecuteProduce(u)
  \/ ExecuteMove \/ ExecuteGather

Settle ==
  \/ \E i \in todo : SettleProduce(i) \/ SettleGather(i)
  \/ SettleMove \/ EraseMinerals \/ GameRefresh

Advance ==
  \/ BeginStep \/ EndAttack \/ CountOccupation
  \/ ExecuteCollisions \/ BeginSettleProduce

Next == Order \/ Execute \/ Settle \/ Advance \/ Threw

Spec == Init /\ [][Next]_vars

\* A game that is being played: the main loop (or the client that drives the
\* engine) keeps calling for ticks, and a tick that has begun runs on.
FairSpec == Spec /\ WF_vars(Next)

==============================================================================
