-------------------------- MODULE GameEngineProps --------------------------
(***************************************************************************)
(* What is claimed of GameEngine: the invariants and action properties its *)
(* runs check.                                                             *)
(***************************************************************************)
EXTENDS GameEngine, FiniteSetsExt

Object == [type : GameObjType, coord : Tiles, owner : Owners, hp : Int, res : Int,
           act : {"NOOP", "MOVE", "GATHER", "PRODUCE"}, target : Tiles,
           progress : Int, cd : Nat, ptype : GameObjType]

Claim == [target : Tiles, ptype : GameObjType]

IsMap(f, keys, values) == DOMAIN f \subseteq keys /\ \A k \in DOMAIN f : f[k] \in values

\* The variables of GameStepSingle and of the GameState it works on have the
\* values the code gives them: what is accepted belongs to a player, and what a
\* loop has still to visit exists.
TypeOK ==
  /\ IsMap(objs, Nat, Object)
  /\ \A i \in Ids : objs[i].owner = 0 <=> objs[i].type \in {"TERRAIN", "MINERAL"}
  /\ resource \in [Sides -> Int]
  /\ buildingCnt \in [Sides -> Int]
  /\ time \in 0 .. TimeCap
  /\ objCnt \in Nat
  /\ phase \in Phases
  /\ spent \subseteq Nat
  /\ IsMap(coordIdx, Tiles, Nat)
  /\ IsMap(damage, Ids, Nat)
  /\ occ = EmptyMap \/ occ \in [Tiles -> 0 .. Many]
  /\ gatherCnt = EmptyMap \/ gatherCnt \in [Tiles -> 0 .. Many]
  /\ IsMap(claims, Ids, Claim)
  /\ todo \subseteq Ids

-----------------------------------------------------------------------------
(* Tiles *)

\* The tiles an object keeps for itself: where it is, and where its MOVE or its
\* PRODUCE leads to.
Held(i) == {objs[i].coord} \cup (IF InTransit(i) THEN {objs[i].target} ELSE {})

\* No two objects ever stand on, move to or build on the same tile, through every
\* interleaving of claims, arrivals, births and deaths (coordOccupationCount of
\* GameStepSingle, GameStepProduce, GameStepMove and their Execute loops).
TileExclusive ==
  /\ \A i, j \in Ids : i # j => Held(i) \cap Held(j) = {}
  /\ \A i \in Ids : InTransit(i) => objs[i].target # objs[i].coord

-----------------------------------------------------------------------------
(* Minerals *)

\* While GameSettleGather runs, both its lookups, coordIdxMap.at(actionTarget) and
\* objMap.at of what that yields, find the mineral the object set out to gather
\* ticks ago: they cannot throw, and cannot take from something else.
GatherTargetsExist ==
  phase = "settleGather" =>
    \A i \in Gathering(objs) :
      /\ objs[i].target \in DOMAIN coordIdx
      /\ coordIdx[objs[i].target] \in Ids
      /\ LET m == objs[coordIdx[objs[i].target]] IN
           m.type = "MINERAL" /\ m.coord = objs[i].target

\* One object at a time gathers from a mineral (coordGatherCount), and a mineral
\* that is used up is gone before the loop ends, so that every GATHER that runs
\* to its end brings RES_PER_GATHER.
GatheringPays ==
  /\ \A i, j \in Gathering(objs) : objs[i].target = objs[j].target => i = j
  /\ phase # "settleGather" =>
       \A i \in Ids : objs[i].type = "MINERAL" => objs[i].res > 0

-----------------------------------------------------------------------------
(* Money *)

\* No player's bank is overdrawn: GameStepProduce checks the price of each order
\* against the whole bank, so several orders of one tick may pass it together.
Solvent == \A s \in Sides : resource[s] >= 0

\* An object's share of what the game is worth.
WorthOf(o) ==
  (IF o.type \in OwnedTypes THEN Cost[o.type] ELSE 0)
  + (IF o.type = "BASE" THEN 0 ELSE o.res)
  + (IF o.act = "PRODUCE" THEN Cost[o.ptype] ELSE 0)

\* What the game is worth: the banks, the minerals left, what workers carry, what
\* is paid for objects in production, and the price of all that exists.
Worth == SumFunction([i \in Ids |-> WorthOf(objs[i])]) + SumFunction(resource)

\* Nothing is created or lost: every step that removes no object of a player keeps
\* the worth of the game, across the ticks that a PRODUCE or a GATHER takes and the
\* banks it moves through; a removal can only lower it.
WorthConserved ==
  [][/\ Worth' <= Worth
     /\ (\A i \in Ids : objs[i].type # "MINERAL" => i \in Ids') => Worth' = Worth]_vars

-----------------------------------------------------------------------------
(* Actions that take time *)

\* An action under way is not interrupted or redirected by a later order: until it
\* has counted down to its end or its object is removed, it stays what it is, and
\* the object neither attacks nor is given anything else to do.
RunsToCompletion ==
  [][\A i \in Ids \cap DOMAIN objs' :
       LET o == objs[i]  p == objs'[i] IN
         o.act # "NOOP" =>
           /\ p.cd = 0
           /\ \/ /\ <<p.act, p.target, p.ptype>> = <<o.act, o.target, o.ptype>>
                 /\ p.progress \in {o.progress, o.progress - 1}
                 /\ p.coord = o.coord
              \/ p.act = "NOOP" /\ o.progress = 0]_vars

\* Between two ticks an object without an action can take an order as soon as its
\* cooldown is over, and one with an action has time left: no object is stuck with
\* a progress that no loop counts down.
NoFrozenUnit ==
  phase = "idle" =>
    \A i \in Ids : IF objs[i].act = "NOOP" THEN objs[i].progress = 0
                                           ELSE objs[i].progress >= 0

-----------------------------------------------------------------------------
(* The end of the game *)

\* buildingCnt, which decides the game, is the number of buildings each player has
\* on the board, although three functions update it one building at a time.
BuildingCount == \A s \in Sides : buildingCnt[s] = Cardinality(BuildingsOf(s))

\* Between two ticks a player without a building has nothing on the board, and a
\* player who has something on the board has a building.
DefeatIsTotal ==
  phase = "idle" =>
    \A s \in Sides : buildingCnt[s] = 0 => \A i \in Ids : objs[i].owner # s

\* A player who has lost, has lost: the building count never leaves zero again once
\* the tick that brought it there has ended.
DefeatIsFinal ==
  \A s \in Sides :
    []((phase = "idle" /\ buildingCnt[s] = 0) => [](buildingCnt[s] = 0))

\* The log and the observer's window, which tells a draw by both counts being zero
\* (rts_map.cpp), announce a draw for the same games.
DrawMeansBothLost ==
  phase = "idle" /\ GameOver =>
    (LogVerdict = "Draw" <=> \A s \in Sides : buildingCnt[s] = 0)

\* Between two ticks a BASE shows the bank of its player (the UI and the
\* observation encoder read the bank there).
BaseShowsBank ==
  phase = "idle" =>
    \A i \in Ids : objs[i].type = "BASE" => objs[i].res = resource[objs[i].owner]

-----------------------------------------------------------------------------
(* Progress *)

\* The action that object i has under way ends: it completes or the object is
\* removed, unless a throw has ended the game.
Completes(i) ==
  (i \in Ids /\ objs[i].act # "NOOP") ~>
    (phase = "threw" \/ i \notin Ids \/ objs[i].act = "NOOP")

-----------------------------------------------------------------------------
(* Why the above holds: an inductive invariant *)

\* What the rules allow an object that has an action under way to be.
ActionOK ==
  \A i \in Ids :
    LET o == objs[i] IN
      /\ o.act = "MOVE"    => o.type \in CanMove
      /\ o.act = "GATHER"  => o.type \in CanGather
      /\ o.act = "PRODUCE" => o.type \in DOMAIN OBJ_PRODUCE_MAP /\ o.ptype \in OwnedTypes

\* Which local variables of GameStepSingle are in use in which loop.
LocalsOK ==
  /\ phase \notin {"attack", "hurt"} => damage = EmptyMap
  /\ \A i \in DOMAIN damage : objs[i].type \in CanBeAttacked
  /\ phase \notin {"produce", "execProduce", "move", "gather", "threw"} => claims = EmptyMap
  /\ phase \notin {"move", "settleGather"} => todo = {}
  /\ todo # {} => claims = EmptyMap
  /\ phase = "move" => todo \subseteq Producers
  /\ phase = "settleGather" => todo \subseteq Gathering(objs)
  /\ phase \in {"produce", "execProduce", "move", "settleMove"} =>
       occ \in [Tiles -> 0 .. Many]
  /\ phase = "gather" => gatherCnt \in [Tiles -> 0 .. Many]
  /\ \A u \in DOMAIN claims : objs[u].owner \in Sides

\* Ids are fresh when they are given out.
IdsFresh == \A i \in Ids : i < objCnt

\* coordIdxMap: what it says of the minerals stays true for the whole tick, and
\* while attacks are collected it is true of everything.
IndexOK ==
  /\ \A t \in DOMAIN coordIdx :
       /\ coordIdx[t] < objCnt
       /\ phase = "attack" => coordIdx[t] \in Ids
       /\ (coordIdx[t] \in Ids /\ objs[coordIdx[t]].type = "MINERAL") =>
            objs[coordIdx[t]].coord = t
  /\ phase # "idle" =>
       \A m \in Ids : objs[m].type = "MINERAL" =>
         objs[m].coord \in DOMAIN coordIdx /\ coordIdx[objs[m].coord] = m

\* A count on the tile of every claim, and Many where two claims meet.
ClaimsCounted(count) ==
  /\ \A u \in DOMAIN claims : count[claims[u].target] >= 1
  /\ \A u, v \in DOMAIN claims :
       u # v /\ claims[u].target = claims[v].target => count[claims[u].target] = Many

\* coordOccupationCount knows every tile that is held, and a claim on such a tile
\* is opposed.
OccupationOK ==
  /\ phase \in {"produce", "execProduce", "move"} =>
       /\ ClaimsCounted(occ)
       /\ \A i \in Ids : \A c \in Held(i) : occ[c] >= 1
       /\ \A u \in DOMAIN claims, i \in Ids :
            claims[u].target \in Held(i) => occ[claims[u].target] = Many
  /\ phase = "execProduce" => \A u \in DOMAIN claims : occ[claims[u].target] < Many
  /\ phase \in {"produce", "execProduce"} =>
       \A u \in DOMAIN claims : /\ objs[u].type \in DOMAIN OBJ_PRODUCE_MAP
                                 /\ claims[u].ptype \in OwnedTypes
  /\ phase = "move" => \A u \in DOMAIN claims : objs[u].type \in CanMove

MineralAt(t) == \E m \in Ids : /\ objs[m].type = "MINERAL"
                               /\ objs[m].coord = t
                               /\ objs[m].res > 0

\* Whoever gathers, or claims to, does so from a mineral that is there, alone.
GatheringOK ==
  /\ \A i \in Gathering(objs) : MineralAt(objs[i].target)
  /\ phase = "gather" =>
       /\ ClaimsCounted(gatherCnt)
       /\ \A i \in Gathering(objs) : gatherCnt[objs[i].target] = Many
       /\ \A u \in DOMAIN claims : /\ objs[u].type \in CanGather
                                   /\ MineralAt(claims[u].target)

IInv ==
  /\ TypeOK
  /\ ActionOK
  /\ LocalsOK
  /\ IdsFresh
  /\ IndexOK
  /\ TileExclusive
  /\ OccupationOK
  /\ GatheringOK
  /\ GatheringPays

\* Whoever has claimed something can still take the order; a cooldown runs only between
\* actions, and the progress -1 of one that has just ended is gone before the next tick.
TimingOK ==
  /\ \A i \in Ids : IF objs[i].act = "NOOP" THEN objs[i].cd > 0 => objs[i].progress = 0
                                            ELSE objs[i].cd = 0 /\ objs[i].progress >= 0
  /\ \A u \in DOMAIN claims : Free(u)
  /\ NoFrozenUnit

\* The buildings can be counted, and are.
CountOK == IsFiniteSet(Ids) /\ BuildingCount

\* Side s has nothing on the board, and so nothing that could build.
WipedOut(s) == buildingCnt[s] = 0 /\ \A i \in Ids : objs[i].owner # s

\* Whoever gathers has nothing else to carry.
HandsFree ==
  /\ \A i \in Gathering(objs) : objs[i].res = 0
  /\ phase = "gather" => \A u \in DOMAIN claims : objs[u].res = 0

\* Nobody owes anything: neither a bank nor a mineral nor a load is below zero.
NoDebt == Solvent /\ \A i \in Ids : objs[i].res >= 0

==============================================================================
