-------------------------- MODULE GameEngineProofs --------------------------
(***************************************************************************)
(* Proofs about GameEngine, for every board and every choice of the rule   *)
(* tables: IInv is an inductive invariant, and with it the type invariant  *)
(* and the invariants on tiles and minerals.  On top of it: what becomes   *)
(* of one object, of the buildings of a side, of a side that has lost      *)
(* them, and of what the game is worth.                                    *)
(***************************************************************************)
EXTENDS GameEngineProps, FiniteSetTheorems, TLAPS

\* The facts about the constants that steps use.
LEMMA Constants ==
  /\ Hp \in [OwnedTypes -> Nat \ {0}]
  /\ AttackPoint \in [MobileTypes -> Nat]
  /\ AttackInterval \in [MobileTypes -> Nat \ {0}]
  /\ Cost \in [OwnedTypes -> Nat \ {0}]
  /\ ObjTime \in [OwnedTypes -> Nat]
  /\ MoveInterval \in [MobileTypes -> Nat]
  /\ InitResource \in Nat /\ MineralRes \in Nat \ {0} /\ TimeCap \in Nat
BY Rules DEF Rules

USE DEF Ids

\* Restricting a map to some of its keys.
LEMMA RestrictMap ==
  ASSUME NEW f, NEW S
  PROVE  DOMAIN Restrict(f, S) = S /\ \A x \in S : Restrict(f, S)[x] = f[x]
BY DEF Restrict

\* Adding a key to a map, or changing the value it has.
LEMMA PutMap ==
  ASSUME NEW f, NEW k, NEW v
  PROVE  /\ DOMAIN Put(f, k, v) = DOMAIN f \cup {k}
         /\ Put(f, k, v)[k] = v
         /\ \A x \in DOMAIN f : x # k => Put(f, k, v)[x] = f[x]
BY DEF Put

\* Adding a key to a map, and dropping keys from it, keep the type of the map.
LEMMA PutIsMap ==
  ASSUME NEW f, NEW K, NEW V, IsMap(f, K, V), NEW k \in K, NEW v \in V
  PROVE  IsMap(Put(f, k, v), K, V)
BY DEF Put, IsMap

\* What is left of a map is a map of the same type.
LEMMA RestrictIsMap ==
  ASSUME NEW f, NEW K, NEW V, IsMap(f, K, V), NEW S \in SUBSET DOMAIN f
  PROVE  IsMap(Restrict(f, S), K, V)
BY DEF Restrict, IsMap

\* One more claim on a tile is counted, and a second one makes it Many.
LEMMA WithClaimCounts ==
  ASSUME NEW count \in [Tiles -> 0 .. Many], NEW t \in Tiles
  PROVE  /\ WithClaim(count, t) \in [Tiles -> 0 .. Many]
         /\ WithClaim(count, t)[t] >= 1
         /\ count[t] >= 1 => WithClaim(count, t)[t] = Many
         /\ \A c \in Tiles : WithClaim(count, t)[c] >= count[c]
         /\ \A c \in Tiles : c # t => WithClaim(count, t)[c] = count[c]
BY DEF WithClaim, Many

\* One more claim keeps the claims counted.
LEMMA ClaimIsCounted ==
  ASSUME NEW count \in [Tiles -> 0 .. Many], NEW u \in Ids, u \notin DOMAIN claims,
         IsMap(claims, Ids, Claim), ClaimsCounted(count), NEW c \in Claim,
         NEW claims2, claims2 = Put(claims, u, c),
         NEW count2, count2 = WithClaim(count, c.target)
  PROVE  /\ \A v \in DOMAIN claims2 : count2[claims2[v].target] >= 1
         /\ \A v, w \in DOMAIN claims2 :
              v # w /\ claims2[v].target = claims2[w].target =>
                count2[claims2[v].target] = Many
<1> DEFINE t == c.target
<1>0. t \in Tiles
  BY DEF Claim
<1>1. /\ DOMAIN claims2 = DOMAIN claims \cup {u} /\ claims2[u].target = t
      /\ \A v \in DOMAIN claims : claims2[v] = claims[v] /\ claims[v].target \in Tiles
  <2>1. DOMAIN claims2 = DOMAIN claims \cup {u} /\ claims2[u] = c
    BY DEF Put
  <2>2. \A v \in DOMAIN claims : claims2[v] = claims[v] /\ claims[v].target \in Tiles
    BY DEF Put, IsMap, Claim
  <2> QED
    BY <2>1, <2>2
<1> HIDE DEF t
<1>2. /\ \A d \in Tiles : count2[d] >= count[d] /\ count2[d] \in 0 .. Many
      /\ count2[t] >= 1 /\ (count[t] >= 1 => count2[t] = Many)
  BY <1>0, WithClaimCounts DEF t
<1>3. \A v \in DOMAIN claims2 : count2[claims2[v].target] >= 1
  BY <1>1, <1>2 DEF ClaimsCounted, Many
<1>4. ASSUME NEW v \in DOMAIN claims2, NEW w \in DOMAIN claims2, v # w,
             claims2[v].target = claims2[w].target
      PROVE  count2[claims2[v].target] = Many
  <2>1. CASE v # u /\ w # u
    BY <1>1, <1>2, <1>4, <2>1 DEF ClaimsCounted, Many
  <2>2. CASE v = u \/ w = u
    BY <1>1, <1>2, <1>4, <2>2 DEF ClaimsCounted, Many
  <2> QED
    BY <2>1, <2>2
<1> QED
  BY <1>3, <1>4

\* An object is the record of its fields.
LEMMA Fields ==
  ASSUME NEW o \in Object
  PROVE  o = [type |-> o.type, coord |-> o.coord, owner |-> o.owner, hp |-> o.hp,
              res |-> o.res, act |-> o.act, target |-> o.target,
              progress |-> o.progress, cd |-> o.cd, ptype |-> o.ptype]
BY DEF Object

\* The count GameStepSingle starts from has Many on every tile in use.
LEMMA CountedCounts ==
  ASSUME NEW S
  PROVE  /\ Counted(S) \in [Tiles -> 0 .. Many]
         /\ \A c \in Tiles : c \in S => Counted(S)[c] = Many
BY DEF Counted, Many

\* A tick begins: nothing changes but coordIdxMap, which is built anew.
LEMMA BeginStepInv == IInv /\ BeginStep => IInv'
<1> SUFFICES ASSUME IInv, BeginStep PROVE IInv'
  OBVIOUS
<1> USE DEF BeginStep, gameVars
<1>1. TypeOK'
  <2>1. IsMap(coordIdx', Tiles, Nat)
    BY DEF IInv, TypeOK, IsMap, Object
  <2> QED
    BY <2>1 DEF IInv, TypeOK, IsMap, Phases
<1>2. ActionOK'
  BY DEF IInv, ActionOK
<1>3. LocalsOK'
  BY DEF IInv, LocalsOK, Producers, Gathering
<1>4. IdsFresh'
  BY DEF IInv, IdsFresh
<1>5. IndexOK'
  BY DEF IInv, IndexOK, TileExclusive, Held, IdsFresh, TypeOK, IsMap
<1>6. TileExclusive'
  BY DEF IInv, TileExclusive, Held, InTransit
<1>7. OccupationOK'
  BY DEF IInv, OccupationOK
<1>8. GatheringOK'
  BY DEF IInv, GatheringOK, Gathering, MineralAt
<1>9. GatheringPays'
  BY DEF IInv, GatheringPays, Gathering
<1> QED
  BY <1>1, <1>2, <1>3, <1>4, <1>5, <1>6, <1>7, <1>8, <1>9 DEF IInv

\* The end of GameStepAttack: the loop over the collected damage comes next.
LEMMA EndAttackInv ==
  ASSUME IInv, EndAttack PROVE IInv'
<1> USE DEF EndAttack, gameVars
<1>1. TypeOK'
  BY DEF IInv, TypeOK, IsMap, Object, Phases, Claim
<1>2. ActionOK'
  BY DEF IInv, ActionOK
<1>3. LocalsOK'
  BY DEF IInv, LocalsOK, Producers, Gathering
<1>4. IdsFresh'
  BY DEF IInv, IdsFresh
<1>5. IndexOK'
  BY DEF IInv, IndexOK
<1>6. TileExclusive'
  BY DEF IInv, TileExclusive, Held, InTransit
<1>7. OccupationOK'
  BY DEF IInv, OccupationOK, ClaimsCounted, Held, InTransit
<1>8. GatheringOK'
  BY DEF IInv, GatheringOK, Gathering, MineralAt, ClaimsCounted
<1>9. GatheringPays'
  BY DEF IInv, GatheringPays, Gathering
<1> QED
  BY <1>1, <1>2, <1>3, <1>4, <1>5, <1>6, <1>7, <1>8, <1>9 DEF IInv

\* coordOccupationCount is built from the tiles that are held.
LEMMA CountOccupationInv ==
  ASSUME IInv, CountOccupation PROVE IInv'
<1> DEFINE S == {objs[i].coord : i \in Ids} \cup
                {objs[i].target : i \in {k \in Ids : InTransit(k)}}
<1>1. /\ phase \in {"attack", "hurt"} /\ damage = EmptyMap /\ claims = EmptyMap
      /\ occ' = Counted(S) /\ phase' = "produce"
      /\ UNCHANGED <<gameVars, spent, coordIdx, damage, claims, gatherCnt, todo>>
  BY DEF CountOccupation, IInv, LocalsOK
<1>2. DOMAIN claims = {}
  BY <1>1 DEF EmptyMap
<1>3. \A i \in Ids : \A c \in Held(i) : c \in S /\ c \in Tiles
  BY DEF Held, IInv, TypeOK, IsMap, Object
<1> HIDE DEF S
<1>4. occ' \in [Tiles -> 0 .. Many] /\ \A i \in Ids : \A c \in Held(i) : occ'[c] = Many
  BY <1>1, <1>3, CountedCounts
<1>5. TypeOK'
  BY <1>1, <1>4 DEF IInv, TypeOK, Phases, gameVars
<1>6. LocalsOK'
  BY <1>1, <1>2, <1>4 DEF IInv, LocalsOK, Producers, Gathering, gameVars
<1>7. OccupationOK'
  <2>1. \A i \in Ids : Held(i)' = Held(i)
    BY <1>1 DEF Held, InTransit, gameVars
  <2> QED
    BY <1>1, <1>2, <1>4, <2>1 DEF OccupationOK, ClaimsCounted, Many, gameVars
<1>8. ActionOK' /\ IdsFresh' /\ IndexOK' /\ TileExclusive'
  BY <1>1 DEF IInv, ActionOK, IdsFresh, IndexOK, TileExclusive, Held, InTransit, gameVars
<1>9. GatheringOK' /\ GatheringPays'
  BY <1>1 DEF IInv, GatheringOK, GatheringPays, Gathering, MineralAt, gameVars
<1> QED
  BY <1>5, <1>6, <1>7, <1>8, <1>9 DEF IInv

\* Orders to PRODUCE whose tile has another claim are dropped.
LEMMA ExecuteCollisionsInv ==
  ASSUME IInv, ExecuteCollisions PROVE IInv'
<1>1. /\ phase = "produce" /\ phase' = "execProduce"
      /\ claims' = Restrict(claims, Unopposed(occ))
      /\ spent' = spent \cup (DOMAIN claims \ Unopposed(occ))
      /\ UNCHANGED <<gameVars, coordIdx, damage, occ, gatherCnt, todo>>
  BY DEF ExecuteCollisions
<1>2. /\ Unopposed(occ) \subseteq DOMAIN claims
      /\ \A u \in Unopposed(occ) : occ[claims[u].target] < Many
  BY DEF Unopposed
<1>3. /\ DOMAIN claims' = Unopposed(occ)
      /\ \A u \in DOMAIN claims' : claims'[u] = claims[u]
  BY <1>1, RestrictMap
<1>4. TypeOK'
  <2>1. IsMap(claims', Ids, Claim)
    BY <1>2, <1>3 DEF IInv, TypeOK, IsMap
  <2>2. spent' \subseteq Nat
    BY <1>1 DEF IInv, TypeOK, IsMap
  <2> QED
    BY <1>1, <2>1, <2>2 DEF IInv, TypeOK, Phases, gameVars
<1>5. LocalsOK'
  BY <1>1, <1>2, <1>3 DEF IInv, LocalsOK, Producers, Gathering, gameVars
<1>6. OccupationOK'
  <2>1. \A i \in Ids : Held(i)' = Held(i)
    BY <1>1 DEF Held, InTransit, gameVars
  <2> QED
    BY <1>1, <1>2, <1>3, <2>1 DEF IInv, OccupationOK, ClaimsCounted, gameVars
<1>7. ActionOK' /\ IdsFresh' /\ IndexOK' /\ TileExclusive'
  BY <1>1 DEF IInv, ActionOK, IdsFresh, IndexOK, TileExclusive, Held, InTransit, gameVars
<1>8. GatheringOK' /\ GatheringPays'
  BY <1>1 DEF IInv, GatheringOK, GatheringPays, Gathering, MineralAt, gameVars
<1> QED
  BY <1>4, <1>5, <1>6, <1>7, <1>8 DEF IInv

\* GameSettleProduce sets out to visit the producers there are.
LEMMA BeginSettleProduceInv ==
  ASSUME IInv, BeginSettleProduce PROVE IInv'
<1>1. /\ phase \in {"produce", "execProduce"} /\ phase' = "move"
      /\ claims = EmptyMap /\ todo' = Producers
      /\ UNCHANGED <<gameVars, spent, coordIdx, damage, occ, claims, gatherCnt>>
  BY DEF BeginSettleProduce
<1>2. DOMAIN claims = {} /\ Producers \subseteq Ids
  BY <1>1 DEF EmptyMap, Producers
<1>3. TypeOK'
  BY <1>1, <1>2 DEF IInv, TypeOK, Phases, gameVars
<1>4. LocalsOK'
  BY <1>1, <1>2 DEF IInv, LocalsOK, Producers, Gathering, gameVars
<1>5. OccupationOK'
  <2>1. \A i \in Ids : Held(i)' = Held(i)
    BY <1>1 DEF Held, InTransit, gameVars
  <2> QED
    BY <1>1, <1>2, <2>1 DEF IInv, OccupationOK, ClaimsCounted, gameVars
<1>6. ActionOK' /\ IdsFresh' /\ IndexOK' /\ TileExclusive'
  BY <1>1 DEF IInv, ActionOK, IdsFresh, IndexOK, TileExclusive, Held, InTransit, gameVars
<1>7. GatheringOK' /\ GatheringPays'
  BY <1>1 DEF IInv, GatheringOK, GatheringPays, Gathering, MineralAt, gameVars
<1> QED
  BY <1>3, <1>4, <1>5, <1>6, <1>7 DEF IInv

\* GameExecuteMove: only unopposed claims become a MOVE, so no two meet.
LEMMA ExecuteMoveInv ==
  ASSUME IInv, ExecuteMove PROVE IInv'
<1> DEFINE U == Unopposed(occ)
<1>1. /\ phase = "move" /\ todo = {} /\ phase' = "settleMove"
      /\ claims' = EmptyMap
      /\ spent' = spent \cup (DOMAIN claims \ U)
      /\ UNCHANGED <<resource, buildingCnt, time, objCnt, coordIdx, damage, occ,
                     gatherCnt, todo>>
  BY DEF ExecuteMove
<1>2. /\ U \subseteq DOMAIN claims /\ DOMAIN claims \subseteq Ids
      /\ \A u \in U : occ[claims[u].target] < Many /\ claims[u].target \in Tiles
  BY DEF Unopposed, IInv, TypeOK, IsMap, Claim
<1>3. /\ \A u, v \in U : claims[u].target = claims[v].target => u = v
      /\ \A u \in U, i \in Ids : claims[u].target \notin Held(i)
      /\ \A u \in U : objs[u].type \in MobileTypes
  BY <1>1, <1>2 DEF IInv, OccupationOK, ClaimsCounted, Many, CanMove
<1>4. /\ Ids' = Ids
      /\ \A i \in Ids \ U : objs'[i] = objs[i]
      /\ \A i \in U : objs'[i] = [objs[i] EXCEPT !.act = "MOVE",
                                                 !.target = claims[i].target,
                                                 !.progress = MoveInterval[objs[i].type]]
  BY <1>2 DEF ExecuteMove
<1>5. \A i \in Ids :
        /\ objs'[i] \in Object
        /\ objs'[i].type = objs[i].type /\ objs'[i].owner = objs[i].owner
        /\ objs'[i].coord = objs[i].coord /\ objs'[i].res = objs[i].res
        /\ objs'[i].ptype = objs[i].ptype
        /\ i \in U => objs'[i].act = "MOVE" /\ objs'[i].target = claims[i].target
  <2>1. \A i \in U : MoveInterval[objs[i].type] \in Int
    BY <1>3, Constants
  <2>2. \A i \in Ids : objs[i] \in Object
    BY DEF IInv, TypeOK, IsMap
  <2> SUFFICES ASSUME NEW i \in Ids
               PROVE
        /\ objs'[i] \in Object
        /\ objs'[i].type = objs[i].type /\ objs'[i].owner = objs[i].owner
        /\ objs'[i].coord = objs[i].coord /\ objs'[i].res = objs[i].res
        /\ objs'[i].ptype = objs[i].ptype
        /\ i \in U => objs'[i].act = "MOVE" /\ objs'[i].target = claims[i].target
    OBVIOUS
  <2>3. CASE i \notin U
    BY <1>4, <2>2, <2>3
  <2>4. CASE i \in U
    <3>1. claims[i].target \in Tiles /\ MoveInterval[objs[i].type] \in Int
      BY <1>2, <2>1, <2>4
    <3>2. objs'[i] = [objs[i] EXCEPT !.act = "MOVE", !.target = claims[i].target,
                                     !.progress = MoveInterval[objs[i].type]]
      BY <1>4, <2>4
    <3> QED
      BY <2>2, <3>1, <3>2 DEF Object
  <2> QED
    BY <2>3, <2>4
<1> HIDE DEF U
<1>6. DOMAIN claims' = {}
  BY <1>1 DEF EmptyMap
<1>7. Gathering(objs)' \subseteq Gathering(objs) /\ Gathering(objs)' \cap U = {}
  BY <1>2, <1>4, <1>5 DEF Gathering
<1>8. TypeOK'
  BY <1>1, <1>2, <1>4, <1>5, <1>6 DEF IInv, TypeOK, IsMap, Phases
<1>9. ActionOK'
  BY <1>3, <1>4, <1>5 DEF IInv, ActionOK, CanMove
<1>10. LocalsOK'
  BY <1>1, <1>4, <1>5, <1>6 DEF IInv, LocalsOK, TypeOK, IsMap
<1>11. IdsFresh' /\ IndexOK'
  <2>1. \A i \in Ids : objs'[i].type = objs[i].type /\ objs'[i].coord = objs[i].coord
    BY <1>5
  <2>2. Ids' = Ids
    BY <1>4
  <2> QED
    BY <1>1, <2>1, <2>2 DEF IInv, IdsFresh, IndexOK
<1>12. TileExclusive'
  <2>1. \A i \in Ids \ U : Held(i)' = Held(i)
    BY <1>4 DEF Held, InTransit
  <2>2. \A i \in U : Held(i)' = {objs[i].coord, claims[i].target}
    BY <1>2, <1>5 DEF Held, InTransit
  <2>3. \A i \in Ids : objs[i].coord \in Held(i)
    BY DEF Held
  <2>4. \A i, j \in Ids : i # j => Held(i)' \cap Held(j)' = {}
    BY <1>2, <1>3, <2>1, <2>2, <2>3 DEF IInv, TileExclusive
  <2>5. \A i \in Ids : InTransit(i)' => objs'[i].target # objs'[i].coord
    <3>1. \A i \in U : objs'[i].target # objs'[i].coord
      BY <1>2, <1>3, <1>5, <2>3
    <3>2. \A i \in Ids \ U : InTransit(i)' => objs'[i].target # objs'[i].coord
      BY <1>4 DEF IInv, TileExclusive, InTransit
    <3> QED
      BY <3>1, <3>2
  <2> QED
    BY <1>4, <2>4, <2>5 DEF TileExclusive
<1>13. OccupationOK'
  BY <1>1 DEF OccupationOK
<1>14. GatheringOK'
  <2>1. \A i \in Gathering(objs)' : objs'[i].target = objs[i].target
    BY <1>4, <1>7 DEF Gathering
  <2>2. \A i \in Ids : /\ objs'[i].type = objs[i].type /\ objs'[i].coord = objs[i].coord
                       /\ objs'[i].res = objs[i].res
    BY <1>5
  <2>3. \A t : MineralAt(t) => MineralAt(t)'
    BY <1>4, <2>2 DEF MineralAt
  <2> QED
    BY <1>1, <1>7, <2>1, <2>3 DEF IInv, GatheringOK
<1>15. GatheringPays'
  <2>1. \A i \in Gathering(objs)' : objs'[i].target = objs[i].target
    BY <1>4, <1>7 DEF Gathering
  <2> QED
    BY <1>1, <1>4, <1>5, <1>7, <2>1 DEF IInv, GatheringPays
<1> QED
  BY <1>8, <1>9, <1>10, <1>11, <1>12, <1>13, <1>14, <1>15 DEF IInv

\* GameSettleMove: an arrival frees the tile behind it and keeps its own.
LEMMA SettleMoveInv ==
  ASSUME IInv, SettleMove PROVE IInv'
<1>1. /\ phase = "settleMove" /\ phase' = "gather"
      /\ DOMAIN objs' = Ids /\ \A i \in Ids : objs'[i] = Moved(objs[i])
      /\ gatherCnt' = Counted(BeingGathered) /\ occ' = EmptyMap
      /\ UNCHANGED <<resource, buildingCnt, time, objCnt, spent, coordIdx, damage,
                     claims, todo>>
  BY DEF SettleMove
<1>2. DOMAIN claims = {} /\ todo = {} /\ damage = EmptyMap
  BY <1>1 DEF IInv, LocalsOK, EmptyMap
<1>3. \A i \in Ids :
        /\ objs'[i] \in Object
        /\ objs'[i].type = objs[i].type /\ objs'[i].owner = objs[i].owner
        /\ objs'[i].res = objs[i].res /\ objs'[i].ptype = objs[i].ptype
        /\ objs'[i].target = objs[i].target
        /\ \/ objs[i].act # "MOVE" /\ objs'[i] = objs[i]
           \/ /\ objs[i].act = "MOVE" /\ objs'[i].act = "NOOP"
              /\ objs'[i].coord = objs[i].target
           \/ /\ objs[i].act = "MOVE" /\ objs'[i].act = "MOVE"
              /\ objs'[i].coord = objs[i].coord
  <2> SUFFICES ASSUME NEW i \in Ids
               PROVE
        /\ objs'[i] \in Object
        /\ objs'[i].type = objs[i].type /\ objs'[i].owner = objs[i].owner
        /\ objs'[i].res = objs[i].res /\ objs'[i].ptype = objs[i].ptype
        /\ objs'[i].target = objs[i].target
        /\ \/ objs[i].act # "MOVE" /\ objs'[i] = objs[i]
           \/ /\ objs[i].act = "MOVE" /\ objs'[i].act = "NOOP"
              /\ objs'[i].coord = objs[i].target
           \/ /\ objs[i].act = "MOVE" /\ objs'[i].act = "MOVE"
              /\ objs'[i].coord = objs[i].coord
    OBVIOUS
  <2>1. objs[i] \in Object /\ objs'[i] = Moved(objs[i])
    BY <1>1 DEF IInv, TypeOK, IsMap
  <2>2. CASE objs[i].act # "MOVE"
    BY <2>1, <2>2 DEF Moved
  <2>3. CASE objs[i].act = "MOVE" /\ objs[i].progress = 0
    <3>1. objs'[i] = [objs[i] EXCEPT !.act = "NOOP", !.coord = objs[i].target,
                                     !.progress = -1]
      BY <2>1, <2>3 DEF Moved
    <3>2. objs[i].target \in Tiles
      BY <2>1 DEF Object
    <3>3. objs'[i] \in Object
      <4> DEFINE o == objs[i]
      <4>1. o = [type |-> o.type, coord |-> o.coord, owner |-> o.owner, hp |-> o.hp,
                 res |-> o.res, act |-> o.act, target |-> o.target,
                 progress |-> o.progress, cd |-> o.cd, ptype |-> o.ptype]
        BY <2>1, Fields
      <4>2. objs'[i] =
              [type |-> o.type, coord |-> o.target, owner |-> o.owner, hp |-> o.hp,
               res |-> o.res, act |-> "NOOP", target |-> o.target,
               progress |-> -1, cd |-> o.cd, ptype |-> o.ptype]
        BY <3>1, <4>1
      <4> QED
        BY <2>1, <4>2 DEF Object
    <3>4. /\ objs'[i].type = objs[i].type /\ objs'[i].owner = objs[i].owner
          /\ objs'[i].res = objs[i].res /\ objs'[i].ptype = objs[i].ptype
          /\ objs'[i].target = objs[i].target /\ objs'[i].act = "NOOP"
          /\ objs'[i].coord = objs[i].target
      BY <2>1, <3>1 DEF Object
    <3> QED
      BY <2>3, <3>3, <3>4
  <2>4. CASE objs[i].act = "MOVE" /\ objs[i].progress # 0
    BY <2>1, <2>4 DEF Moved, Object
  <2> QED
    BY <2>2, <2>3, <2>4
<1>4. \A i \in Ids : objs[i].type = "MINERAL" => objs'[i] = objs[i]
  BY <1>3 DEF IInv, ActionOK, CanMove, MobileTypes
<1>5. Gathering(objs)' = Gathering(objs)
  BY <1>1, <1>3 DEF Gathering
<1>6. /\ gatherCnt' \in [Tiles -> 0 .. Many]
      /\ \A i \in Gathering(objs) : gatherCnt'[objs[i].target] = Many
  <2>1. \A i \in Gathering(objs) : objs[i].target \in BeingGathered /\ objs[i].target \in Tiles
    BY DEF BeingGathered, Gathering, IInv, TypeOK, IsMap, Object
  <2> QED
    BY <1>1, <2>1, CountedCounts
<1>7. TypeOK'
  BY <1>1, <1>2, <1>3, <1>6 DEF IInv, TypeOK, IsMap, Phases, EmptyMap
<1>8. ActionOK'
  BY <1>1, <1>3 DEF IInv, ActionOK
<1>9. LocalsOK'
  BY <1>1, <1>2, <1>3, <1>6 DEF IInv, LocalsOK, EmptyMap
<1>10. IdsFresh' /\ IndexOK'
  BY <1>1, <1>3, <1>4 DEF IInv, IdsFresh, IndexOK
<1>11. TileExclusive'
  <2>1. \A i \in Ids : Held(i)' \subseteq Held(i)
    BY <1>3 DEF Held, InTransit
  <2>2. \A i, j \in Ids : i # j => Held(i)' \cap Held(j)' = {}
    BY <2>1 DEF IInv, TileExclusive
  <2>3. \A i \in Ids : InTransit(i)' => objs'[i].target # objs'[i].coord
    BY <1>3 DEF IInv, TileExclusive, InTransit
  <2> QED
    BY <1>1, <2>2, <2>3 DEF TileExclusive
<1>12. OccupationOK'
  BY <1>1 DEF OccupationOK
<1>13. GatheringOK' /\ GatheringPays'
  <2>1. \A i \in Gathering(objs)' : objs'[i].target = objs[i].target
    BY <1>1, <1>3 DEF Gathering
  <2>2. \A t : MineralAt(t) => MineralAt(t)'
    BY <1>1, <1>4 DEF MineralAt
  <2>3. GatheringOK'
    BY <1>1, <1>2, <1>5, <1>6, <2>1, <2>2 DEF IInv, GatheringOK, ClaimsCounted
  <2>4. \A m \in Ids : objs'[m].type = objs[m].type /\ objs'[m].res = objs[m].res
    BY <1>3
  <2>5. GatheringPays'
    BY <1>1, <1>5, <2>1, <2>4 DEF IInv, GatheringPays
  <2> QED
    BY <2>3, <2>5
<1> QED
  BY <1>7, <1>8, <1>9, <1>10, <1>11, <1>12, <1>13 DEF IInv

\* GameExecuteGather: only unopposed claims become a GATHER.
LEMMA ExecuteGatherInv ==
  ASSUME IInv, ExecuteGather PROVE IInv'
<1> DEFINE U == Unopposed(gatherCnt)
<1>1. /\ phase = "gather" /\ phase' = "settleGather"
      /\ claims' = EmptyMap /\ gatherCnt' = EmptyMap /\ todo' = Gathering(objs)'
      /\ spent' = spent \cup (DOMAIN claims \ U)
      /\ UNCHANGED <<resource, buildingCnt, time, objCnt, coordIdx, damage, occ>>
  BY DEF ExecuteGather, Gathering
<1>2. /\ U \subseteq DOMAIN claims /\ DOMAIN claims \subseteq Ids
      /\ \A u \in U : gatherCnt[claims[u].target] < Many /\ claims[u].target \in Tiles
  BY DEF Unopposed, IInv, TypeOK, IsMap, Claim
<1>3. /\ \A u, v \in U : claims[u].target = claims[v].target => u = v
      /\ \A u \in U, i \in Gathering(objs) : claims[u].target # objs[i].target
      /\ \A u \in U : MineralAt(claims[u].target) /\ objs[u].type \in CanGather
  BY <1>1, <1>2 DEF IInv, GatheringOK, ClaimsCounted, Many
<1>4. /\ Ids' = Ids
      /\ \A i \in Ids \ U : objs'[i] = objs[i]
      /\ \A i \in U : objs'[i] = [objs[i] EXCEPT !.act = "GATHER",
                                                 !.target = claims[i].target,
                                                 !.progress = GATHER_TIME]
  BY <1>2 DEF ExecuteGather
<1>5. \A i \in Ids :
        /\ objs'[i] \in Object
        /\ objs'[i].type = objs[i].type /\ objs'[i].owner = objs[i].owner
        /\ objs'[i].coord = objs[i].coord /\ objs'[i].res = objs[i].res
        /\ objs'[i].ptype = objs[i].ptype
        /\ i \in U => objs'[i].act = "GATHER" /\ objs'[i].target = claims[i].target
  <2> SUFFICES ASSUME NEW i \in Ids
               PROVE
        /\ objs'[i] \in Object
        /\ objs'[i].type = objs[i].type /\ objs'[i].owner = objs[i].owner
        /\ objs'[i].coord = objs[i].coord /\ objs'[i].res = objs[i].res
        /\ objs'[i].ptype = objs[i].ptype
        /\ i \in U => objs'[i].act = "GATHER" /\ objs'[i].target = claims[i].target
    OBVIOUS
  <2>1. objs[i] \in Object
    BY DEF IInv, TypeOK, IsMap
  <2>2. CASE i \notin U
    BY <1>4, <2>1, <2>2
  <2>3. CASE i \in U
    <3>1. claims[i].target \in Tiles
      BY <1>2, <2>3
    <3>2. objs'[i] = [objs[i] EXCEPT !.act = "GATHER", !.target = claims[i].target,
                                     !.progress = 1]
      BY <1>4, <2>3 DEF GATHER_TIME
    <3> DEFINE o == objs[i]
    <3>3. o = [type |-> o.type, coord |-> o.coord, owner |-> o.owner, hp |-> o.hp,
               res |-> o.res, act |-> o.act, target |-> o.target,
               progress |-> o.progress, cd |-> o.cd, ptype |-> o.ptype]
      BY <2>1, Fields
    <3>4. objs'[i] =
            [type |-> o.type, coord |-> o.coord, owner |-> o.owner, hp |-> o.hp,
             res |-> o.res, act |-> "GATHER", target |-> claims[i].target,
             progress |-> 1, cd |-> o.cd, ptype |-> o.ptype]
      BY <3>2, <3>3
    <3> QED
      BY <2>1, <3>1, <3>4 DEF Object
  <2> QED
    BY <2>2, <2>3
<1> HIDE DEF U
<1>6. DOMAIN claims' = {}
  BY <1>1 DEF EmptyMap
<1>7. Gathering(objs)' = Gathering(objs) \cup U
  BY <1>2, <1>4, <1>5 DEF Gathering
<1>8. TypeOK'
  BY <1>1, <1>2, <1>4, <1>5, <1>6 DEF IInv, TypeOK, IsMap, Phases, Gathering
<1>9. ActionOK'
  BY <1>3, <1>4, <1>5 DEF IInv, ActionOK
<1>10. LocalsOK'
  BY <1>1, <1>4, <1>5, <1>6 DEF IInv, LocalsOK, TypeOK, IsMap
<1>11. \A i \in Ids : /\ objs'[i].type = objs[i].type /\ objs'[i].coord = objs[i].coord
                      /\ objs'[i].res = objs[i].res
  BY <1>5
<1>12. IdsFresh' /\ IndexOK'
  <2>1. Ids' = Ids /\ phase = "gather" /\ phase' = "settleGather"
        /\ UNCHANGED <<objCnt, coordIdx>>
    BY <1>1, <1>4
  <2> QED
    BY <1>11, <2>1 DEF IInv, IdsFresh, IndexOK
<1>13. TileExclusive'
  <2>1. \A i \in Ids : Held(i)' \subseteq Held(i)
    BY <1>4, <1>5 DEF Held, InTransit
  <2>2. \A i, j \in Ids : i # j => Held(i)' \cap Held(j)' = {}
    BY <2>1 DEF IInv, TileExclusive
  <2>3. \A i \in Ids : InTransit(i)' => objs'[i].target # objs'[i].coord
    BY <1>4, <1>5 DEF IInv, TileExclusive, InTransit
  <2> QED
    BY <1>4, <2>2, <2>3 DEF TileExclusive
<1>14. OccupationOK'
  BY <1>1 DEF OccupationOK
<1>15. \A i \in Gathering(objs)' :
         objs'[i].target = IF i \in U THEN claims[i].target ELSE objs[i].target
  BY <1>2, <1>4, <1>5, <1>7 DEF Gathering
<1>16. GatheringOK'
  <2>1. \A t : MineralAt(t) => MineralAt(t)'
    BY <1>4, <1>11 DEF MineralAt
  <2> QED
    BY <1>1, <1>3, <1>7, <1>15, <2>1 DEF IInv, GatheringOK
<1>17. GatheringPays'
  <2>1. \A i, j \in Gathering(objs)' : objs'[i].target = objs'[j].target => i = j
    BY <1>3, <1>7, <1>15 DEF IInv, GatheringPays
  <2> QED
    BY <1>1, <2>1 DEF GatheringPays
<1> QED
  BY <1>8, <1>9, <1>10, <1>12, <1>13, <1>14, <1>16, <1>17 DEF IInv

\* The minerals that are used up go; whoever gathers has one that is not.
LEMMA EraseMineralsInv ==
  ASSUME IInv, EraseMinerals PROVE IInv'
<1> DEFINE K == {i \in Ids : ~ (objs[i].type = "MINERAL" /\ objs[i].res <= 0)}
<1>1. /\ phase = "settleGather" /\ todo = {} /\ phase' = "return"
      /\ objs' = Restrict(objs, K)
      /\ UNCHANGED <<resource, buildingCnt, time, objCnt, spent, coordIdx, damage,
                     occ, claims, gatherCnt, todo>>
  BY DEF EraseMinerals
<1>2. DOMAIN claims = {} /\ damage = EmptyMap /\ DOMAIN damage = {}
  BY <1>1 DEF IInv, LocalsOK, EmptyMap
<1>3. Ids' = K /\ K \subseteq Ids /\ \A i \in K : objs'[i] = objs[i]
  BY <1>1, RestrictMap
<1>4. \A i \in Ids : i \notin K => objs[i].type = "MINERAL" /\ objs[i].res <= 0
  OBVIOUS
<1>5. \A i \in K : objs[i].type = "MINERAL" => objs[i].res > 0
  BY DEF IInv, TypeOK, IsMap, Object
<1> HIDE DEF K
<1>6. TypeOK'
  BY <1>1, <1>2, <1>3 DEF IInv, TypeOK, IsMap, Phases
<1>7. ActionOK' /\ LocalsOK'
  BY <1>1, <1>2, <1>3 DEF IInv, ActionOK, LocalsOK
<1>8. IdsFresh' /\ IndexOK'
  BY <1>1, <1>3 DEF IInv, IdsFresh, IndexOK
<1>9. TileExclusive' /\ OccupationOK'
  BY <1>1, <1>3 DEF IInv, TileExclusive, OccupationOK, Held, InTransit
<1>10. GatheringOK' /\ GatheringPays'
  <2>1. Gathering(objs)' \subseteq Gathering(objs)
    BY <1>3 DEF Gathering
  <2>2. \A m \in Ids : objs[m].res > 0 => m \in K
    BY <1>4 DEF IInv, TypeOK, IsMap, Object
  <2>3. \A i \in Gathering(objs)' : MineralAt(objs[i].target)' /\ objs'[i] = objs[i]
    BY <1>3, <2>1, <2>2 DEF IInv, GatheringOK, MineralAt, Gathering
  <2> QED
    BY <1>1, <1>3, <1>5, <2>1, <2>3 DEF IInv, GatheringOK, GatheringPays, MineralAt
<1> QED
  BY <1>6, <1>7, <1>8, <1>9, <1>10 DEF IInv

\* GameRefresh: cooldowns, progress and the copies of the banks; losers go.
LEMMA GameRefreshInv ==
  ASSUME IInv, GameRefresh PROVE IInv'
<1> DEFINE K == {k \in Ids : GameOver => objs[k].owner \notin Defeated}
<1>1. /\ phase = "return" /\ phase' = "idle"
      /\ DOMAIN objs' = K /\ \A i \in K : objs'[i] = Refreshed(objs[i])
      /\ time' = (IF GameOver \/ time = TimeCap THEN time ELSE time + 1)
      /\ spent' = {} /\ coordIdx' = EmptyMap
      /\ UNCHANGED <<resource, buildingCnt, objCnt, damage, occ, claims, gatherCnt,
                     todo>>
  BY DEF GameRefresh
<1>2. K \subseteq Ids /\ \A i \in Ids : objs[i].type = "MINERAL" => i \in K
  BY DEF Defeated, Sides, IInv, TypeOK
<1> HIDE DEF K
<1>3. DOMAIN claims = {} /\ todo = {} /\ damage = EmptyMap /\ DOMAIN damage = {}
  BY <1>1 DEF IInv, LocalsOK, EmptyMap
<1>4. \A i \in K :
        /\ objs'[i] \in Object
        /\ objs'[i].type = objs[i].type /\ objs'[i].owner = objs[i].owner
        /\ objs'[i].coord = objs[i].coord /\ objs'[i].act = objs[i].act
        /\ objs[i].type # "BASE" => objs'[i].res = objs[i].res
        /\ objs[i].act # "NOOP" => /\ objs'[i].target = objs[i].target
                                   /\ objs'[i].ptype = objs[i].ptype
  <2> SUFFICES ASSUME NEW i \in K
               PROVE
        /\ objs'[i] \in Object
        /\ objs'[i].type = objs[i].type /\ objs'[i].owner = objs[i].owner
        /\ objs'[i].coord = objs[i].coord /\ objs'[i].act = objs[i].act
        /\ objs[i].type # "BASE" => objs'[i].res = objs[i].res
        /\ objs[i].act # "NOOP" => /\ objs'[i].target = objs[i].target
                                   /\ objs'[i].ptype = objs[i].ptype
    OBVIOUS
  <2> DEFINE o == objs[i]
             r == IF IsAtRest(o) THEN Rested(o) ELSE o
             b == Banked(r)
  <2>1. o \in Object
    BY <1>2 DEF IInv, TypeOK, IsMap
  <2>2. /\ r \in Object /\ r.type = o.type /\ r.owner = o.owner /\ r.coord = o.coord
        /\ r.act = o.act /\ r.res = o.res
        /\ o.act # "NOOP" => r.target = o.target /\ r.ptype = o.ptype
    <3>1. CASE IsAtRest(o)
      <4> HIDE DEF o
      <4>1. r = [o EXCEPT !.target = o.coord, !.progress = 0, !.ptype = "TERRAIN"]
        BY <3>1 DEF Rested
      <4>2. o.act = "NOOP" /\ "TERRAIN" \in GameObjType
        BY <3>1 DEF IsAtRest, GameObjType
      <4> HIDE DEF r
      <4>3. o.coord \in Tiles
        BY <2>1 DEF Object
      <4>4. r \in Object
        <5>1. o = [type |-> o.type, coord |-> o.coord, owner |-> o.owner, hp |-> o.hp,
                   res |-> o.res, act |-> o.act, target |-> o.target,
                   progress |-> o.progress, cd |-> o.cd, ptype |-> o.ptype]
          BY <2>1, Fields
        <5>2. r = [type |-> o.type, coord |-> o.coord, owner |-> o.owner, hp |-> o.hp,
                   res |-> o.res, act |-> o.act, target |-> o.coord,
                   progress |-> 0, cd |-> o.cd, ptype |-> "TERRAIN"]
          BY <4>1, <5>1
        <5> QED
          BY <2>1, <4>2, <5>2 DEF Object
      <4>5. /\ r.type = o.type /\ r.owner = o.owner /\ r.coord = o.coord
            /\ r.act = o.act /\ r.res = o.res
        BY <2>1, <4>1 DEF Object
      <4> QED
        BY <4>2, <4>4, <4>5
    <3>2. CASE ~ IsAtRest(o)
      BY <2>1, <3>2
    <3> QED
      BY <3>1, <3>2
  <2>3. o.type = "BASE" => resource[o.owner] \in Int
    BY <1>2 DEF IInv, TypeOK, IsMap, Object, Owners, Sides
  <2>4. objs'[i] = [b EXCEPT !.cd = IF @ > 0 THEN @ - 1 ELSE 0]
    BY <1>1 DEF Refreshed
  <2> HIDE DEF r
  <2>5. /\ b \in Object /\ b.type = r.type /\ b.owner = r.owner /\ b.coord = r.coord
        /\ b.act = r.act /\ b.target = r.target /\ b.ptype = r.ptype
        /\ r.type # "BASE" => b.res = r.res
    BY <2>2, <2>3 DEF Banked, Object
  <2> HIDE DEF b, o
  <2>6. /\ objs'[i] \in Object /\ objs'[i].type = b.type /\ objs'[i].owner = b.owner
        /\ objs'[i].coord = b.coord /\ objs'[i].act = b.act
        /\ objs'[i].target = b.target /\ objs'[i].ptype = b.ptype
        /\ objs'[i].res = b.res
    BY <2>4, <2>5 DEF Object
  <2> QED
    BY <2>2, <2>5, <2>6 DEF o
<1>5. TypeOK'
  <2>1. time' \in 0 .. TimeCap
    BY <1>1, Constants DEF IInv, TypeOK
  <2> QED
    BY <1>1, <1>2, <1>3, <1>4, <2>1 DEF IInv, TypeOK, IsMap, Phases, EmptyMap
<1>6. ActionOK'
  BY <1>1, <1>2, <1>4 DEF IInv, ActionOK, CanMove
<1>7. LocalsOK'
  BY <1>1, <1>3 DEF IInv, LocalsOK
<1>8. IdsFresh' /\ IndexOK'
  BY <1>1, <1>2, <1>4 DEF IInv, IdsFresh, IndexOK, EmptyMap
<1>9. TileExclusive' /\ OccupationOK'
  <2>1. \A i \in K : Held(i)' = Held(i) /\ InTransit(i)' = InTransit(i)
    BY <1>4 DEF Held, InTransit
  <2>2. \A i \in K : InTransit(i) => objs'[i].target # objs'[i].coord
    BY <1>2, <1>4 DEF IInv, TileExclusive, InTransit
  <2> QED
    BY <1>1, <1>2, <2>1, <2>2 DEF IInv, TileExclusive, OccupationOK
<1>10. GatheringOK' /\ GatheringPays'
  <2>1. Gathering(objs)' \subseteq Gathering(objs) /\ Gathering(objs)' \subseteq K
    BY <1>1, <1>2, <1>4 DEF Gathering
  <2>2. \A i \in Gathering(objs)' : objs'[i].target = objs[i].target
    BY <1>4, <2>1 DEF Gathering
  <2> QED
    BY <1>1, <1>2, <1>4, <2>1, <2>2 DEF IInv, GatheringOK, GatheringPays, MineralAt
<1> QED
  BY <1>5, <1>6, <1>7, <1>8, <1>9, <1>10 DEF IInv

\* A handler throws.
LEMMA ThrowsInv ==
  ASSUME IInv, phase \in {"produce", "gather", "return"}, phase' = "threw",
         UNCHANGED <<gameVars, spent, coordIdx, damage, occ, claims, gatherCnt, todo>>
  PROVE  IInv'
<1> USE DEF gameVars
<1>1. TypeOK' /\ ActionOK'
  BY DEF IInv, TypeOK, ActionOK, Phases
<1>2. LocalsOK'
  BY DEF IInv, LocalsOK
<1>3. IdsFresh' /\ IndexOK'
  BY DEF IInv, IdsFresh, IndexOK
<1>4. TileExclusive' /\ OccupationOK'
  BY DEF IInv, TileExclusive, Held, InTransit, OccupationOK
<1>5. GatheringOK' /\ GatheringPays'
  BY DEF IInv, GatheringOK, GatheringPays, Gathering, MineralAt
<1> QED
  BY <1>1, <1>2, <1>3, <1>4, <1>5 DEF IInv

\* An attack is recorded for an object that is on the board.
LEMMA StepAttackInv ==
  ASSUME IInv, NEW u, NEW t, StepAttack(u, t) PROVE IInv'
<1>1. /\ phase = "attack" /\ u \in Ids /\ t \in DOMAIN coordIdx
      /\ objs[u].act = "NOOP" /\ objs[u].type \in MobileTypes
      /\ spent' = spent \cup {u}
      /\ UNCHANGED <<resource, buildingCnt, time, objCnt, phase, coordIdx, occ, claims,
                     gatherCnt, todo>>
  BY DEF StepAttack, PassesAttack, Ready, Free, CanAttack, MobileTypes
<1>2. /\ Ids' = Ids
      /\ \A i \in Ids :
           /\ objs'[i] \in Object
           /\ objs'[i].type = objs[i].type /\ objs'[i].owner = objs[i].owner
           /\ objs'[i].coord = objs[i].coord /\ objs'[i].res = objs[i].res
           /\ objs'[i].act = objs[i].act /\ objs'[i].ptype = objs[i].ptype
           /\ objs[i].act # "NOOP" => objs'[i].target = objs[i].target
  BY <1>1, Constants DEF StepAttack, PassesAttack, IInv, TypeOK, IsMap, Object
<1>3. IsMap(damage', Ids, Nat) /\ \A k \in DOMAIN damage' : objs[k].type \in CanBeAttacked
  <2>1. coordIdx[t] \in Ids /\ objs[coordIdx[t]].type \in CanBeAttacked
    BY <1>1 DEF IInv, IndexOK, StepAttack, PassesAttack
  <2>2. AttackPoint[objs[u].type] \in Nat
    BY <1>1, Constants
  <2> DEFINE k == coordIdx[t]
             n == AttackPoint[objs[u].type] + (IF k \in DOMAIN damage THEN damage[k] ELSE 0)
  <2>3. n \in Nat
    BY <2>2 DEF IInv, TypeOK, IsMap
  <2>4. damage' = Put(damage, k, n)
    BY DEF StepAttack, PassesAttack
  <2> HIDE DEF n, k
  <2>5. k \in Ids /\ objs[k].type \in CanBeAttacked
    BY <2>1 DEF k
  <2>6. IsMap(damage', Ids, Nat)
    BY <2>3, <2>4, <2>5, PutIsMap DEF IInv, TypeOK
  <2>7. DOMAIN damage' = DOMAIN damage \cup {k}
    BY <2>4 DEF Put
  <2> QED
    BY <2>5, <2>6, <2>7 DEF IInv, LocalsOK
<1>4. TypeOK'
  BY <1>1, <1>2, <1>3 DEF IInv, TypeOK, IsMap
<1>5. ActionOK'
  BY <1>1, <1>2 DEF IInv, ActionOK
<1>6. LocalsOK'
  BY <1>1, <1>2, <1>3 DEF IInv, LocalsOK, Producers, Gathering, TypeOK, IsMap
<1>7. IdsFresh'
  BY <1>1, <1>2 DEF IInv, IdsFresh
<1>8. IndexOK'
  BY <1>1, <1>2 DEF IInv, IndexOK
<1>9. TileExclusive'
  BY <1>1, <1>2 DEF IInv, TileExclusive, Held, InTransit
<1>10. OccupationOK'
  BY <1>1 DEF IInv, OccupationOK
<1>11. GatheringOK'
  BY <1>1, <1>2 DEF IInv, GatheringOK, Gathering, MineralAt, ClaimsCounted
<1>12. GatheringPays'
  BY <1>1, <1>2 DEF IInv, GatheringPays, Gathering
<1> QED
  BY <1>4, <1>5, <1>6, <1>7, <1>8, <1>9, <1>10, <1>11, <1>12 DEF IInv

\* The damage to one object is applied, which may remove it.
LEMMA ExecuteAttackInv ==
  ASSUME IInv, NEW i \in DOMAIN damage, ExecuteAttack(i) PROVE IInv'
<1>1. /\ phase = "hurt"
      /\ damage' = Restrict(damage, DOMAIN damage \ {i})
      /\ UNCHANGED <<resource, time, objCnt, phase, spent, coordIdx, occ, claims,
                     gatherCnt, todo>>
  BY DEF ExecuteAttack
<1>2. /\ i \in Ids /\ damage[i] \in Int /\ objs[i].type # "MINERAL" /\ objs[i].owner \in Sides
      /\ DOMAIN damage \subseteq Ids
  <2>1. i \in Ids /\ damage[i] \in Int /\ DOMAIN damage \subseteq Ids
    BY DEF IInv, TypeOK, IsMap
  <2>2. objs[i].type \in CanBeAttacked
    BY DEF IInv, LocalsOK
  <2>3. objs[i].type \notin {"MINERAL", "TERRAIN"}
    BY <2>2 DEF CanBeAttacked, OwnedTypes, MobileTypes, Buildings
  <2>4. objs[i].owner \in Sides
    BY <2>1, <2>3 DEF IInv, TypeOK, IsMap, Object, Owners, Sides
  <2> QED
    BY <2>1, <2>3, <2>4
<1>3. DOMAIN claims = {} /\ todo = {}
  BY <1>1 DEF IInv, LocalsOK, EmptyMap
<1>4. /\ Ids' \in {Ids, Ids \ {i}}
      /\ \A k \in Ids' :
           /\ objs'[k] \in Object
           /\ objs'[k].type = objs[k].type /\ objs'[k].owner = objs[k].owner
           /\ objs'[k].coord = objs[k].coord /\ objs'[k].res = objs[k].res
           /\ objs'[k].act = objs[k].act /\ objs'[k].target = objs[k].target
           /\ objs'[k].ptype = objs[k].ptype
  <2>1. \A k \in Ids : objs[k] \in Object
    BY DEF IInv, TypeOK, IsMap
  <2>2. CASE objs' = Restrict(objs, Ids \ {i})
    BY <2>1, <2>2, RestrictMap
  <2>3. CASE objs' = [objs EXCEPT ![i].hp = @ - damage[i]]
    BY <1>2, <2>1, <2>3 DEF Object
  <2> QED
    BY <2>2, <2>3 DEF ExecuteAttack
<1>5. DOMAIN damage' = DOMAIN damage \ {i} /\ \A k \in DOMAIN damage' : damage'[k] = damage[k]
  BY <1>1, RestrictMap
<1>6. TypeOK'
  <2>1. buildingCnt' \in [Sides -> Int]
    BY <1>2 DEF ExecuteAttack, IInv, TypeOK
  <2>2. IsMap(damage', Ids', Nat)
    BY <1>2, <1>4, <1>5 DEF IInv, TypeOK, IsMap
  <2> QED
    BY <1>1, <1>3, <1>4, <2>1, <2>2 DEF IInv, TypeOK, IsMap
<1>7. ActionOK'
  BY <1>4 DEF IInv, ActionOK
<1>8. LocalsOK'
  BY <1>1, <1>2, <1>3, <1>4, <1>5 DEF IInv, LocalsOK
<1>9. IdsFresh' /\ IndexOK'
  BY <1>1, <1>2, <1>4 DEF IInv, IdsFresh, IndexOK
<1>10. TileExclusive' /\ OccupationOK'
  <2>1. \A k \in Ids' : k \in Ids /\ Held(k)' = Held(k) /\ InTransit(k)' = InTransit(k)
    BY <1>4 DEF Held, InTransit
  <2>2. TileExclusive'
    BY <1>4, <2>1 DEF IInv, TileExclusive
  <2>3. OccupationOK'
    BY <1>1 DEF OccupationOK
  <2> QED
    BY <2>2, <2>3
<1>11. GatheringOK' /\ GatheringPays'
  <2>1. \A k \in Gathering(objs)' : k \in Gathering(objs) /\ objs'[k].target = objs[k].target
    BY <1>4 DEF Gathering
  <2>2. \A t : MineralAt(t) => MineralAt(t)'
    BY <1>2, <1>4 DEF MineralAt
  <2> QED
    BY <1>1, <1>4, <2>1, <2>2 DEF IInv, GatheringOK, GatheringPays
<1> QED
  BY <1>6, <1>7, <1>8, <1>9, <1>10, <1>11 DEF IInv

\* An order to PRODUCE claims a free tile.
LEMMA StepProduceInv ==
  ASSUME IInv, NEW u, NEW t, NEW p, StepProduce(u, t, p) PROVE IInv'
<1>1. /\ phase = "produce" /\ u \in Ids /\ u \notin DOMAIN claims /\ t \in Tiles
      /\ p \in OwnedTypes
      /\ objs[u].type \in DOMAIN OBJ_PRODUCE_MAP /\ objs[u].owner \in Sides
      /\ claims' = Put(claims, u, [target |-> t, ptype |-> p])
      /\ occ' = WithClaim(occ, t)
      /\ UNCHANGED <<gameVars, phase, spent, coordIdx, damage, gatherCnt, todo>>
  BY DEF StepProduce, PassesProduce, Ready, OBJ_PRODUCE_MAP, OwnedTypes, MobileTypes, Buildings
<1>2. occ \in [Tiles -> 0 .. Many] /\ IsMap(claims, Ids, Claim)
  BY <1>1 DEF IInv, LocalsOK, TypeOK
<1>3. /\ occ' \in [Tiles -> 0 .. Many]
      /\ occ[t] >= 1 => occ'[t] = Many
      /\ \A d \in Tiles : occ'[d] >= occ[d]
  BY <1>1, <1>2, WithClaimCounts
<1> DEFINE c == [target |-> t, ptype |-> p]
<1>4. c \in Claim /\ c.target = t /\ c.ptype = p /\ claims' = Put(claims, u, c)
  BY <1>1, <1>2 DEF Claim, GameObjType
<1> HIDE DEF c
<1>5. /\ IsMap(claims', Ids, Claim)
      /\ DOMAIN claims' = DOMAIN claims \cup {u} /\ claims'[u] = c
      /\ \A v \in DOMAIN claims : claims'[v] = claims[v] /\ claims[v].target \in Tiles
  BY <1>1, <1>2, <1>4 DEF Put, IsMap, Claim
<1>6. TypeOK'
  BY <1>1, <1>3, <1>5 DEF IInv, TypeOK, gameVars
<1>7. LocalsOK'
  BY <1>1, <1>3, <1>5 DEF IInv, LocalsOK, Producers, Gathering, gameVars
<1>8. OccupationOK'
  <2>1. ClaimsCounted(occ)'
    <3>1. ClaimsCounted(occ)
      BY <1>1 DEF IInv, OccupationOK
    <3>2. /\ \A v \in DOMAIN claims' : occ'[claims'[v].target] >= 1
          /\ \A v, w \in DOMAIN claims' :
               v # w /\ claims'[v].target = claims'[w].target =>
                 occ'[claims'[v].target] = Many
      <4>1. u \in Ids /\ u \notin DOMAIN claims /\ occ' = WithClaim(occ, c.target)
        BY <1>1, <1>4
      <4> QED
        BY <1>2, <1>4, <3>1, <4>1, ClaimIsCounted
    <3> QED
      BY <3>2 DEF ClaimsCounted
  <2>2. \A i \in Ids : \A h \in Held(i) : h \in Tiles /\ occ[h] >= 1
    BY <1>1 DEF IInv, OccupationOK, Held, TypeOK, IsMap, Object
  <2>3. \A i \in Ids : \A h \in Held(i) : occ'[h] >= 1
    BY <1>1, <1>2, <1>3, <2>2 DEF Many
  <2>4. \A v \in DOMAIN claims', i \in Ids :
          claims'[v].target \in Held(i) => occ'[claims'[v].target] = Many
    <3> SUFFICES ASSUME NEW v \in DOMAIN claims', NEW i \in Ids, claims'[v].target \in Held(i)
                 PROVE  occ'[claims'[v].target] = Many
      OBVIOUS
    <3>1. CASE v = u
      BY <1>3, <1>4, <1>5, <2>2, <3>1
    <3>2. CASE v # u
      <4>1. v \in DOMAIN claims /\ claims'[v] = claims[v] /\ claims[v].target \in Tiles
        BY <1>5, <3>2
      <4>2. occ[claims[v].target] = Many
        BY <1>1, <4>1 DEF IInv, OccupationOK
      <4> QED
        BY <1>3, <4>1, <4>2 DEF Many
    <3> QED
      BY <3>1, <3>2
  <2> QED
    BY <1>1, <1>4, <1>5, <2>1, <2>3, <2>4 DEF IInv, OccupationOK, Held, InTransit, gameVars
<1>9. ActionOK' /\ IdsFresh' /\ IndexOK' /\ TileExclusive'
  BY <1>1 DEF IInv, ActionOK, IdsFresh, IndexOK, TileExclusive, Held, InTransit, gameVars
<1>10. GatheringOK' /\ GatheringPays'
  BY <1>1 DEF IInv, GatheringOK, GatheringPays, Gathering, MineralAt, gameVars
<1> QED
  BY <1>6, <1>7, <1>8, <1>9, <1>10 DEF IInv

\* GameExecuteProduce: a claim that can be paid becomes a PRODUCE.
LEMMA ExecuteProduceInv ==
  ASSUME IInv, NEW u \in DOMAIN claims, ExecuteProduce(u) PROVE IInv'
<1>1. /\ phase = "execProduce" /\ claims' = Restrict(claims, DOMAIN claims \ {u})
      /\ UNCHANGED <<buildingCnt, time, objCnt, phase, coordIdx, damage, occ, gatherCnt,
                     todo>>
  BY DEF ExecuteProduce, NextClaim
<1>2. /\ DOMAIN claims' = DOMAIN claims \ {u}
      /\ \A v \in DOMAIN claims' : claims'[v] = claims[v]
  BY <1>1, RestrictMap
<1>3. /\ u \in Ids /\ DOMAIN claims \subseteq Ids
      /\ claims[u].target \in Tiles /\ claims[u].ptype \in OwnedTypes
      /\ objs[u].type \in DOMAIN OBJ_PRODUCE_MAP /\ objs[u].owner \in Sides
  BY <1>1 DEF IInv, TypeOK, IsMap, Claim, OccupationOK, LocalsOK
<1>4. /\ \A v \in DOMAIN claims : v # u => claims[v].target # claims[u].target
      /\ \A i \in Ids : claims[u].target \notin Held(i)
      /\ occ[claims[u].target] >= 1
  BY <1>1, <1>3 DEF IInv, OccupationOK, ClaimsCounted, Many
<1>5. /\ Ids' = Ids
      /\ \A i \in Ids : i # u => objs'[i] = objs[i]
      /\ objs'[u] \in Object
      /\ objs'[u].type = objs[u].type /\ objs'[u].owner = objs[u].owner
      /\ objs'[u].coord = objs[u].coord /\ objs'[u].res = objs[u].res
      /\ \/ objs' = objs
         \/ /\ objs'[u].act = "PRODUCE" /\ objs'[u].target = claims[u].target
            /\ objs'[u].ptype = claims[u].ptype
  <2>1. objs[u] \in Object
    BY <1>3 DEF IInv, TypeOK, IsMap
  <2>2. CASE UNCHANGED <<objs, resource>>
    BY <2>1, <2>2
  <2>3. CASE StartProduce(u)
    <3> DEFINE o == objs[u]
               c == claims[u]
    <3>1. o = [type |-> o.type, coord |-> o.coord, owner |-> o.owner, hp |-> o.hp,
               res |-> o.res, act |-> o.act, target |-> o.target,
               progress |-> o.progress, cd |-> o.cd, ptype |-> o.ptype]
      BY <2>1, Fields
    <3>2. ObjTime[c.ptype] \in Int /\ c.ptype \in GameObjType
      BY <1>3, Constants DEF GameObjType
    <3>3. objs' = [objs EXCEPT ![u].act = "PRODUCE", ![u].target = c.target,
                               ![u].progress = ObjTime[c.ptype], ![u].ptype = c.ptype]
      BY <2>3 DEF StartProduce
    <3>4. /\ Ids' = Ids /\ \A i \in Ids : i # u => objs'[i] = objs[i]
          /\ objs'[u] = [o EXCEPT !.act = "PRODUCE", !.target = c.target,
                                  !.progress = ObjTime[c.ptype], !.ptype = c.ptype]
      BY <1>3, <3>3
    <3>5. objs'[u] =
            [type |-> o.type, coord |-> o.coord, owner |-> o.owner, hp |-> o.hp,
             res |-> o.res, act |-> "PRODUCE", target |-> c.target,
             progress |-> ObjTime[c.ptype], cd |-> o.cd, ptype |-> c.ptype]
      BY <3>1, <3>4
    <3>6. objs'[u] \in Object
      BY <1>3, <2>1, <3>2, <3>5 DEF Object
    <3> QED
      BY <3>4, <3>5, <3>6
  <2> QED
    BY <2>2, <2>3 DEF ExecuteProduce
<1>6. TypeOK'
  <2>1. resource' \in [Sides -> Int]
    <3>1. Cost[claims[u].ptype] \in Int
      BY <1>3, Constants
    <3> QED
      BY <1>3, <3>1 DEF ExecuteProduce, StartProduce, IInv, TypeOK
  <2>2. spent' \subseteq Nat
    BY <1>3 DEF ExecuteProduce, IInv, TypeOK, IsMap
  <2>3. IsMap(claims', Ids, Claim)
    BY <1>2 DEF IInv, TypeOK, IsMap
  <2>4. \A i \in Ids : objs'[i] \in Object /\ (objs'[i].owner = 0 <=> objs'[i].type \in {"TERRAIN", "MINERAL"})
    BY <1>5 DEF IInv, TypeOK, IsMap
  <2> QED
    BY <1>1, <1>5, <2>1, <2>2, <2>3, <2>4 DEF IInv, TypeOK, IsMap
<1>7. ActionOK'
  BY <1>3, <1>5 DEF IInv, ActionOK
<1>8. \A i \in Ids : /\ objs'[i].type = objs[i].type /\ objs'[i].coord = objs[i].coord
                     /\ objs'[i].res = objs[i].res /\ objs'[i].owner = objs[i].owner
  BY <1>5
<1>9. LocalsOK'
  BY <1>1, <1>2, <1>3, <1>5, <1>8 DEF IInv, LocalsOK, TypeOK, IsMap
<1>10. IdsFresh' /\ IndexOK'
  BY <1>1, <1>5, <1>8 DEF IInv, IdsFresh, IndexOK
<1>11. /\ \A i \in Ids : i # u => Held(i)' = Held(i)
       /\ Held(u)' = Held(u) \/ Held(u)' = {objs[u].coord, claims[u].target}
       /\ objs[u].coord \in Held(u)
  BY <1>3, <1>5 DEF Held, InTransit
<1>12. TileExclusive'
  <2>1. \A i, j \in Ids : i # j => Held(i)' \cap Held(j)' = {}
    BY <1>3, <1>4, <1>11 DEF IInv, TileExclusive
  <2>2. \A i \in Ids : i # u /\ InTransit(i)' => objs'[i].target # objs'[i].coord
    BY <1>5 DEF IInv, TileExclusive, InTransit
  <2>3. InTransit(u)' => objs'[u].target # objs'[u].coord
    BY <1>3, <1>4, <1>5, <1>11 DEF IInv, TileExclusive, InTransit
  <2> QED
    BY <1>5, <2>1, <2>2, <2>3 DEF TileExclusive
<1>13. OccupationOK'
  <2>1. ClaimsCounted(occ)'
    <3>1. ClaimsCounted(occ)
      BY <1>1 DEF IInv, OccupationOK
    <3>2. DOMAIN claims' \subseteq DOMAIN claims
      BY <1>2
    <3> QED
      <4>1. \A v \in DOMAIN claims' : occ[claims'[v].target] >= 1
        BY <1>2, <3>1, <3>2 DEF ClaimsCounted
      <4>2. \A v, w \in DOMAIN claims' :
              v # w /\ claims'[v].target = claims'[w].target => occ[claims'[v].target] = Many
        BY <1>2, <3>1, <3>2 DEF ClaimsCounted
      <4> QED
        BY <1>1, <4>1, <4>2 DEF ClaimsCounted
  <2>2. \A i \in Ids : \A c \in Held(i)' : occ[c] >= 1
    BY <1>1, <1>3, <1>4, <1>11 DEF IInv, OccupationOK
  <2>3. \A v \in DOMAIN claims', i \in Ids :
          claims'[v].target \in Held(i)' => occ[claims'[v].target] = Many
    <3> SUFFICES ASSUME NEW v \in DOMAIN claims', NEW i \in Ids,
                        claims'[v].target \in Held(i)'
                 PROVE  occ[claims'[v].target] = Many
      OBVIOUS
    <3>1. v \in DOMAIN claims /\ v # u /\ claims'[v] = claims[v]
      BY <1>2
    <3>2. claims[v].target \in Held(i)
      BY <1>3, <1>4, <1>11, <3>1
    <3> QED
      BY <1>1, <3>1, <3>2 DEF IInv, OccupationOK
  <2>4. \A v \in DOMAIN claims' : occ[claims'[v].target] < Many
    BY <1>1, <1>2 DEF IInv, OccupationOK
  <2>5. \A v \in DOMAIN claims' : /\ objs'[v].type \in DOMAIN OBJ_PRODUCE_MAP
                                  /\ claims'[v].ptype \in OwnedTypes
    BY <1>1, <1>2, <1>3, <1>8 DEF IInv, OccupationOK
  <2> QED
    BY <1>1, <1>5, <2>1, <2>2, <2>3, <2>4, <2>5 DEF OccupationOK
<1>14. GatheringOK' /\ GatheringPays'
  <2>1. \A i \in Gathering(objs)' : i \in Gathering(objs) /\ objs'[i].target = objs[i].target
    BY <1>3, <1>5 DEF Gathering
  <2>2. \A t : MineralAt(t) => MineralAt(t)'
    BY <1>5, <1>8 DEF MineralAt
  <2> QED
    BY <1>1, <1>5, <1>8, <2>1, <2>2 DEF IInv, GatheringOK, GatheringPays
<1> QED
  BY <1>6, <1>7, <1>9, <1>10, <1>12, <1>13, <1>14 DEF IInv

\* GameSettleProduce: a finished PRODUCE puts a new object on the tile it held.
LEMMA SettleProduceInv ==
  ASSUME IInv, NEW i \in todo, SettleProduce(i) PROVE IInv'
<1> DEFINE o == objs[i]
           q == Resting(o.ptype, o.target, o.owner, Hp[o.ptype], 0)
<1>1. /\ phase = "move" /\ DOMAIN claims = {} /\ i \in Ids /\ o.act = "PRODUCE"
      /\ UNCHANGED <<resource, time, phase, spent, coordIdx, damage, occ, claims,
                     gatherCnt>>
  BY DEF SettleProduce, IInv, LocalsOK, Producers, EmptyMap
<1>2. o \in Object /\ o.type \in DOMAIN OBJ_PRODUCE_MAP /\ o.ptype \in OwnedTypes
  BY <1>1 DEF IInv, TypeOK, IsMap, ActionOK
<1>3. o.owner \in Sides /\ o.type # "MINERAL"
  BY <1>1, <1>2 DEF IInv, TypeOK, Object, Owners, Sides, OBJ_PRODUCE_MAP
<1>4. /\ q \in Object /\ q.type = o.ptype /\ q.coord = o.target /\ q.owner = o.owner
      /\ q.act = "NOOP" /\ q.type \notin {"TERRAIN", "MINERAL"}
  <2>1. Hp[o.ptype] \in Int /\ o.target \in Tiles /\ o.owner \in Owners
        /\ o.ptype \in GameObjType /\ "TERRAIN" \in GameObjType
    BY <1>2, Constants DEF Object, GameObjType
  <2>2. o.ptype \notin {"TERRAIN", "MINERAL"}
    BY <1>2 DEF OwnedTypes, MobileTypes, Buildings
  <2> HIDE DEF o
  <2>3. q = [type |-> o.ptype, coord |-> o.target, owner |-> o.owner, hp |-> Hp[o.ptype],
             res |-> 0, act |-> "NOOP", target |-> o.target, progress |-> 0, cd |-> 0,
             ptype |-> "TERRAIN"]
    BY DEF Resting
  <2> QED
    BY <2>1, <2>2, <2>3 DEF Object
<1> HIDE DEF q
<1>0. PICK n \in Nat : n = objCnt
  BY DEF IInv, TypeOK
<1>5. /\ objs'[i] \in Object
      /\ objs'[i].type = o.type /\ objs'[i].coord = o.coord /\ objs'[i].owner = o.owner
      /\ objs'[i].res = o.res /\ objs'[i].target = o.target /\ objs'[i].ptype = o.ptype
      /\ \A k \in Ids \ {i} : objs'[k] = objs[k]
      /\ \/ Ids' = Ids /\ objs'[i].act = "PRODUCE" /\ objCnt' = n
         \/ /\ Ids' = Ids \cup {n} /\ objs'[i].act = "NOOP" /\ objCnt' = n + 1
            /\ n \notin Ids /\ objs'[n] = q
  <2>1. CASE o.progress = 0
    <3> DEFINE f == [objs EXCEPT ![i].act = "NOOP", ![i].progress = -1]
    <3>1. objs' = Put(f, n, q) /\ objCnt' = n + 1
      BY <1>0, <2>1 DEF SettleProduce, q
    <3>2. DOMAIN f = Ids /\ f[i] = [o EXCEPT !.act = "NOOP", !.progress = -1]
          /\ \A k \in Ids \ {i} : f[k] = objs[k]
      BY <1>1
    <3>3. n \notin Ids
      BY <1>0 DEF IInv, IdsFresh, TypeOK
    <3> HIDE DEF f
    <3>4. /\ Ids' = Ids \cup {n} /\ objs'[n] = q
          /\ \A k \in Ids : objs'[k] = f[k]
      BY <3>1, <3>2, <3>3 DEF Put
    <3>5. objs'[i] = [o EXCEPT !.act = "NOOP", !.progress = -1]
      BY <1>1, <3>2, <3>4
    <3> HIDE DEF o
    <3>6. /\ objs'[i] \in Object
          /\ objs'[i].type = o.type /\ objs'[i].coord = o.coord /\ objs'[i].owner = o.owner
          /\ objs'[i].res = o.res /\ objs'[i].target = o.target /\ objs'[i].ptype = o.ptype
          /\ objs'[i].act = "NOOP"
      <4>1. o = [type |-> o.type, coord |-> o.coord, owner |-> o.owner, hp |-> o.hp,
                 res |-> o.res, act |-> o.act, target |-> o.target,
                 progress |-> o.progress, cd |-> o.cd, ptype |-> o.ptype]
        BY <1>2, Fields
      <4>2. objs'[i] =
              [type |-> o.type, coord |-> o.coord, owner |-> o.owner, hp |-> o.hp,
               res |-> o.res, act |-> "NOOP", target |-> o.target,
               progress |-> -1, cd |-> o.cd, ptype |-> o.ptype]
        BY <3>5, <4>1
      <4> QED
        BY <1>2, <4>2 DEF Object
    <3> QED
      BY <3>1, <3>2, <3>3, <3>4, <3>6
  <2>2. CASE o.progress # 0
    <3>1. objs' = [objs EXCEPT ![i].progress = @ - 1] /\ objCnt' = n
      BY <1>0, <2>2 DEF SettleProduce
    <3>2. /\ Ids' = Ids /\ objs'[i] = [o EXCEPT !.progress = @ - 1]
          /\ \A k \in Ids \ {i} : objs'[k] = objs[k]
      BY <1>1, <3>1
    <3>3. o.progress - 1 \in Int
      BY <1>2 DEF Object
    <3> HIDE DEF o
    <3>4. /\ objs'[i] \in Object
          /\ objs'[i].type = o.type /\ objs'[i].coord = o.coord /\ objs'[i].owner = o.owner
          /\ objs'[i].res = o.res /\ objs'[i].target = o.target /\ objs'[i].ptype = o.ptype
          /\ objs'[i].act = o.act
      BY <1>2, <3>2, <3>3 DEF Object
    <3> QED
      BY <1>1, <3>1, <3>2, <3>4
  <2> QED
    BY <2>1, <2>2
<1>6. /\ Ids \subseteq Ids' /\ Ids' \subseteq Ids \cup {n} /\ n \notin Ids
      /\ \A k \in Ids : /\ objs'[k].type = objs[k].type /\ objs'[k].coord = objs[k].coord
                        /\ objs'[k].owner = objs[k].owner /\ objs'[k].res = objs[k].res
                        /\ objs'[k].target = objs[k].target /\ objs'[k].ptype = objs[k].ptype
                        /\ objs'[k].act # "NOOP" => objs'[k].act = objs[k].act
      /\ n \in Ids' => objs'[n] = q /\ objs'[i].act = "NOOP"
  <2>1. n \notin Ids
    BY <1>0 DEF IInv, IdsFresh, TypeOK
  <2> QED
    BY <1>1, <1>5, <2>1
<1>7. todo' \subseteq Producers'
  <2>1. todo' \subseteq Producers \ {i}
    BY <1>1 DEF SettleProduce, IInv, LocalsOK
  <2>2. Producers \ {i} \subseteq Producers'
    BY <1>5, <1>6 DEF Producers
  <2> QED
    BY <2>1, <2>2
<1>8. TypeOK'
  <2>1. buildingCnt' \in [Sides -> Int]
    BY <1>3 DEF SettleProduce, IInv, TypeOK
  <2>2. IsMap(objs', Nat, Object) /\ objCnt' \in Nat
    BY <1>4, <1>5, <1>6 DEF IInv, TypeOK, IsMap
  <2>3. \A k \in Ids' : objs'[k].owner = 0 <=> objs'[k].type \in {"TERRAIN", "MINERAL"}
    BY <1>3, <1>4, <1>6 DEF IInv, TypeOK, Sides
  <2>4. todo' \subseteq Ids'
    BY <1>7 DEF Producers
  <2>5. IsMap(damage', Ids', Nat) /\ IsMap(claims', Ids', Claim)
    BY <1>1, <1>6 DEF IInv, TypeOK, IsMap
  <2> QED
    BY <1>1, <2>1, <2>2, <2>3, <2>4, <2>5 DEF IInv, TypeOK
<1>9. ActionOK'
  BY <1>4, <1>6 DEF IInv, ActionOK
<1>10. LocalsOK'
  <2>1. \A k \in DOMAIN damage' : objs'[k].type \in CanBeAttacked
    BY <1>1, <1>6 DEF IInv, LocalsOK, TypeOK, IsMap
  <2> QED
    BY <1>1, <1>7, <2>1 DEF IInv, LocalsOK, EmptyMap
<1>11. IdsFresh'
  BY <1>0, <1>5 DEF IInv, IdsFresh, TypeOK, IsMap
<1>12. IndexOK'
  <2>1. n \in Int /\ (objCnt' = n \/ objCnt' = n + 1)
    BY <1>5 DEF IInv, TypeOK
  <2>2. \A t \in DOMAIN coordIdx : coordIdx[t] < n /\ coordIdx[t] \in Int
    BY <1>0 DEF IInv, IndexOK, TypeOK, IsMap
  <2>3. \A t \in DOMAIN coordIdx : coordIdx[t] < objCnt' /\ coordIdx[t] # n
    BY <2>1, <2>2
  <2>4. \A m \in Ids' : objs'[m].type = "MINERAL" => m \in Ids
    BY <1>4, <1>6
  <2> QED
    BY <1>1, <1>6, <2>3, <2>4 DEF IInv, IndexOK
<1>13. /\ \A k \in Ids : Held(k)' \subseteq Held(k) /\ (InTransit(k)' => InTransit(k))
       /\ n \in Ids' => /\ Held(n)' = {o.target} /\ ~ InTransit(n)'
                        /\ Held(i)' = {o.coord} /\ o.target \in Held(i)
                        /\ o.target # o.coord
  <2>1. \A k \in Ids : Held(k)' \subseteq Held(k) /\ (InTransit(k)' => InTransit(k))
    BY <1>6 DEF Held, InTransit
  <2>2. o.target \in Held(i) /\ o.target # o.coord
    BY <1>1 DEF Held, InTransit, IInv, TileExclusive
  <2>3. ASSUME n \in Ids'
        PROVE  /\ Held(n)' = {o.target} /\ ~ InTransit(n)' /\ Held(i)' = {o.coord}
    <3>1. objs'[n].act = "NOOP" /\ objs'[i].act = "NOOP"
          /\ objs'[n].coord = o.target /\ objs'[i].coord = o.coord
      BY <1>4, <1>5, <1>6, <2>3
    <3> QED
      BY <3>1 DEF Held, InTransit
  <2> QED
    BY <2>1, <2>2, <2>3
<1>14. TileExclusive'
  <2>1. \A k, l \in Ids : k # l => Held(k)' \cap Held(l)' = {}
    BY <1>13 DEF IInv, TileExclusive
  <2>2. ASSUME n \in Ids', NEW k \in Ids
        PROVE  Held(k)' \cap Held(n)' = {}
    BY <1>1, <1>13, <2>2 DEF IInv, TileExclusive
  <2>3. \A k \in Ids' : InTransit(k)' => objs'[k].target # objs'[k].coord
    BY <1>6, <1>13 DEF IInv, TileExclusive
  <2> QED
    BY <1>6, <2>1, <2>2, <2>3 DEF TileExclusive
<1>15. OccupationOK'
  <2>1. \A k \in Ids' : \A c \in Held(k)' : occ[c] >= 1
    BY <1>1, <1>6, <1>13 DEF IInv, OccupationOK
  <2> QED
    BY <1>1, <2>1 DEF OccupationOK, ClaimsCounted
<1>16. GatheringOK' /\ GatheringPays'
  <2>1. \A k \in Gathering(objs)' : k \in Gathering(objs) /\ objs'[k].target = objs[k].target
    BY <1>4, <1>6 DEF Gathering
  <2>2. \A t : MineralAt(t) => MineralAt(t)'
    BY <1>6 DEF MineralAt
  <2>3. \A k \in Ids' : objs'[k].type = "MINERAL" => k \in Ids
    BY <1>4, <1>6
  <2> QED
    BY <1>1, <1>6, <2>1, <2>2, <2>3 DEF IInv, GatheringOK, GatheringPays
<1> QED
  BY <1>8, <1>9, <1>10, <1>11, <1>12, <1>14, <1>15, <1>16 DEF IInv

\* An order to MOVE claims a tile.
LEMMA StepMoveInv ==
  ASSUME IInv, NEW u, NEW t, StepMove(u, t) PROVE IInv'
<1>1. /\ phase = "move" /\ todo = {} /\ u \in Ids /\ u \notin DOMAIN claims /\ t \in Tiles
      /\ objs[u].type \in CanMove /\ objs[u].owner \in Sides
      /\ claims' = Put(claims, u, [target |-> t, ptype |-> "TERRAIN"])
      /\ occ' = WithClaim(occ, t)
      /\ UNCHANGED <<gameVars, phase, spent, coordIdx, damage, gatherCnt, todo>>
  BY DEF StepMove, PassesMove, Ready
<1>2. occ \in [Tiles -> 0 .. Many] /\ IsMap(claims, Ids, Claim)
  BY <1>1 DEF IInv, LocalsOK, TypeOK
<1>3. /\ occ' \in [Tiles -> 0 .. Many]
      /\ occ[t] >= 1 => occ'[t] = Many
      /\ \A d \in Tiles : occ'[d] >= occ[d]
  BY <1>1, <1>2, WithClaimCounts
<1> DEFINE c == [target |-> t, ptype |-> "TERRAIN"]
<1>4. c \in Claim /\ c.target = t /\ claims' = Put(claims, u, c)
  BY <1>1, <1>2 DEF Claim, GameObjType
<1> HIDE DEF c
<1>5. /\ IsMap(claims', Ids, Claim)
      /\ DOMAIN claims' = DOMAIN claims \cup {u} /\ claims'[u] = c
      /\ \A v \in DOMAIN claims : claims'[v] = claims[v] /\ claims[v].target \in Tiles
  BY <1>1, <1>2, <1>4 DEF Put, IsMap, Claim
<1>6. TypeOK'
  BY <1>1, <1>3, <1>5 DEF IInv, TypeOK, gameVars
<1>7. LocalsOK'
  BY <1>1, <1>3, <1>5 DEF IInv, LocalsOK, Producers, Gathering, gameVars
<1>8. OccupationOK'
  <2>1. ClaimsCounted(occ)'
    <3>1. ClaimsCounted(occ)
      BY <1>1 DEF IInv, OccupationOK
    <3>2. /\ \A v \in DOMAIN claims' : occ'[claims'[v].target] >= 1
          /\ \A v, w \in DOMAIN claims' :
               v # w /\ claims'[v].target = claims'[w].target =>
                 occ'[claims'[v].target] = Many
      <4>1. u \in Ids /\ u \notin DOMAIN claims /\ occ' = WithClaim(occ, c.target)
        BY <1>1, <1>4
      <4> QED
        BY <1>2, <1>4, <3>1, <4>1, ClaimIsCounted
    <3> QED
      BY <3>2 DEF ClaimsCounted
  <2>2. \A i \in Ids : \A h \in Held(i) : h \in Tiles /\ occ[h] >= 1
    BY <1>1 DEF IInv, OccupationOK, Held, TypeOK, IsMap, Object
  <2>3. \A i \in Ids : \A h \in Held(i) : occ'[h] >= 1
    BY <1>1, <1>2, <1>3, <2>2 DEF Many
  <2>4. \A v \in DOMAIN claims', i \in Ids :
          claims'[v].target \in Held(i) => occ'[claims'[v].target] = Many
    <3> SUFFICES ASSUME NEW v \in DOMAIN claims', NEW i \in Ids, claims'[v].target \in Held(i)
                 PROVE  occ'[claims'[v].target] = Many
      OBVIOUS
    <3>1. CASE v = u
      BY <1>3, <1>4, <1>5, <2>2, <3>1
    <3>2. CASE v # u
      <4>1. v \in DOMAIN claims /\ claims'[v] = claims[v] /\ claims[v].target \in Tiles
        BY <1>5, <3>2
      <4>2. occ[claims[v].target] = Many
        BY <1>1, <4>1 DEF IInv, OccupationOK
      <4> QED
        BY <1>3, <4>1, <4>2 DEF Many
    <3> QED
      BY <3>1, <3>2
  <2> QED
    BY <1>1, <1>4, <1>5, <2>1, <2>3, <2>4 DEF IInv, OccupationOK, Held, InTransit, gameVars
<1>9. ActionOK' /\ IdsFresh' /\ IndexOK' /\ TileExclusive'
  BY <1>1 DEF IInv, ActionOK, IdsFresh, IndexOK, TileExclusive, Held, InTransit, gameVars
<1>10. GatheringOK' /\ GatheringPays'
  BY <1>1 DEF IInv, GatheringOK, GatheringPays, Gathering, MineralAt, gameVars
<1> QED
  BY <1>6, <1>7, <1>8, <1>9, <1>10 DEF IInv

\* An order to GATHER claims a mineral next to the object.
LEMMA StepGatherInv ==
  ASSUME IInv, NEW u, NEW t, StepGather(u, t) PROVE IInv'
<1>1. /\ phase = "gather" /\ u \in Ids /\ u \notin DOMAIN claims /\ t \in DOMAIN coordIdx
      /\ objs[u].type \in CanGather /\ objs[u].owner \in Sides
      /\ coordIdx[t] \in Ids /\ objs[coordIdx[t]].type = "MINERAL"
      /\ claims' = Put(claims, u, [target |-> t, ptype |-> "TERRAIN"])
      /\ gatherCnt' = WithClaim(gatherCnt, t)
      /\ UNCHANGED <<gameVars, phase, spent, coordIdx, damage, occ, todo>>
  BY DEF StepGather, PassesGather, ReachesFor, Ready, CanBeGathered
<1>2. /\ gatherCnt \in [Tiles -> 0 .. Many] /\ IsMap(claims, Ids, Claim) /\ t \in Tiles
  BY <1>1 DEF IInv, LocalsOK, TypeOK, IsMap
<1>3. /\ gatherCnt' \in [Tiles -> 0 .. Many]
      /\ gatherCnt[t] >= 1 => gatherCnt'[t] = Many
      /\ \A d \in Tiles : gatherCnt'[d] >= gatherCnt[d]
  BY <1>1, <1>2, WithClaimCounts
<1> DEFINE c == [target |-> t, ptype |-> "TERRAIN"]
<1>4. c \in Claim /\ c.target = t /\ claims' = Put(claims, u, c)
  BY <1>1, <1>2 DEF Claim, GameObjType
<1> HIDE DEF c
<1>5. /\ IsMap(claims', Ids, Claim)
      /\ DOMAIN claims' = DOMAIN claims \cup {u} /\ claims'[u] = c
      /\ \A v \in DOMAIN claims : claims'[v] = claims[v] /\ claims[v].target \in Tiles
  BY <1>1, <1>2, <1>4 DEF Put, IsMap, Claim
<1>6. TypeOK'
  BY <1>1, <1>3, <1>5 DEF IInv, TypeOK, gameVars
<1>7. LocalsOK'
  BY <1>1, <1>3, <1>5 DEF IInv, LocalsOK, Producers, Gathering, gameVars
<1>8. GatheringOK'
  <2>1. ClaimsCounted(gatherCnt)'
    <3>1. ClaimsCounted(gatherCnt)
      BY <1>1 DEF IInv, GatheringOK
    <3>2. /\ \A v \in DOMAIN claims' : gatherCnt'[claims'[v].target] >= 1
          /\ \A v, w \in DOMAIN claims' :
               v # w /\ claims'[v].target = claims'[w].target =>
                 gatherCnt'[claims'[v].target] = Many
      <4>1. u \in Ids /\ u \notin DOMAIN claims /\ gatherCnt' = WithClaim(gatherCnt, c.target)
        BY <1>1, <1>4
      <4> QED
        BY <1>2, <1>4, <3>1, <4>1, ClaimIsCounted
    <3> QED
      BY <3>2 DEF ClaimsCounted
  <2>2. \A i \in Gathering(objs) : objs[i].target \in Tiles /\ gatherCnt[objs[i].target] = Many
    BY <1>1 DEF IInv, GatheringOK, Gathering, TypeOK, IsMap, Object
  <2>3. \A i \in Gathering(objs) : gatherCnt'[objs[i].target] = Many
    BY <1>1, <1>2, <1>3, <2>2 DEF Many
  <2>4. MineralAt(t)
    BY <1>1 DEF IInv, IndexOK, GatheringPays, MineralAt
  <2>5. \A v \in DOMAIN claims' : objs[v].type \in CanGather /\ MineralAt(claims'[v].target)
    BY <1>1, <1>4, <1>5, <2>4 DEF IInv, GatheringOK
  <2> QED
    BY <1>1, <2>1, <2>3, <2>5 DEF IInv, GatheringOK, Gathering, MineralAt, gameVars
<1>9. ActionOK' /\ IdsFresh' /\ IndexOK' /\ TileExclusive'
  BY <1>1 DEF IInv, ActionOK, IdsFresh, IndexOK, TileExclusive, Held, InTransit, gameVars
<1>10. OccupationOK' /\ GatheringPays'
  BY <1>1 DEF IInv, OccupationOK, GatheringPays, Gathering, gameVars
<1> QED
  BY <1>6, <1>7, <1>8, <1>9, <1>10 DEF IInv

\* GameSettleGather: a finished GATHER takes from the mineral it was for.
LEMMA SettleGatherInv ==
  ASSUME IInv, NEW i \in todo, SettleGather(i) PROVE IInv'
<1> DEFINE m == coordIdx[objs[i].target]
<1>1. /\ phase = "settleGather" /\ todo' = todo \ {i}
      /\ UNCHANGED <<resource, buildingCnt, time, objCnt, phase, spent, coordIdx,
                     damage, occ, claims, gatherCnt>>
  BY DEF SettleGather
<1>2. /\ i \in Ids /\ i \in Gathering(objs) /\ objs[i].act = "GATHER"
      /\ objs[i].type \in CanGather /\ objs[i].type # "MINERAL"
  BY <1>1 DEF IInv, LocalsOK, Gathering, ActionOK, CanGather
<1>3. m \in Ids /\ objs[m].type = "MINERAL" /\ objs[m].coord = objs[i].target /\ m # i
  BY <1>1, <1>2 DEF IInv, GatheringOK, MineralAt, IndexOK
<1> HIDE DEF m
<1>4. /\ Ids' = Ids
      /\ \A k \in Ids :
           /\ objs'[k] \in Object
           /\ objs'[k].type = objs[k].type /\ objs'[k].owner = objs[k].owner
           /\ objs'[k].coord = objs[k].coord /\ objs'[k].target = objs[k].target
           /\ objs'[k].ptype = objs[k].ptype
           /\ k # i => objs'[k].act = objs[k].act
           /\ k # i /\ k # m => objs'[k] = objs[k]
      /\ \/ objs'[i].act = "GATHER" /\ objs'[m] = objs[m]
         \/ objs'[i].act = "NOOP"
  <2>1. \A k \in Ids : objs[k] \in Object
    BY DEF IInv, TypeOK, IsMap
  <2>2. CASE objs[i].progress = 0
    <3> DEFINE n == IF objs[m].res < RES_PER_GATHER THEN objs[m].res ELSE RES_PER_GATHER
    <3>1. n \in Int /\ objs[m].res - RES_PER_GATHER \in Int
      BY <1>3, <2>1 DEF Object, RES_PER_GATHER
    <3>2. objs' = [objs EXCEPT ![i].act = "NOOP", ![i].progress = -1, ![i].res = n,
                               ![m].res = @ - RES_PER_GATHER]
      BY <2>2 DEF SettleGather, m
    <3> HIDE DEF n
    <3>3. /\ Ids' = Ids
          /\ objs'[i] = [objs[i] EXCEPT !.act = "NOOP", !.progress = -1, !.res = n]
          /\ objs'[m] = [objs[m] EXCEPT !.res = @ - RES_PER_GATHER]
          /\ \A k \in Ids : k # i /\ k # m => objs'[k] = objs[k]
      BY <1>2, <1>3, <3>2
    <3>4. /\ objs'[i] \in Object
          /\ objs'[i].type = objs[i].type /\ objs'[i].owner = objs[i].owner
          /\ objs'[i].coord = objs[i].coord /\ objs'[i].target = objs[i].target
          /\ objs'[i].ptype = objs[i].ptype /\ objs'[i].act = "NOOP"
      <4> DEFINE o == objs[i]
      <4>1. o = [type |-> o.type, coord |-> o.coord, owner |-> o.owner, hp |-> o.hp,
                 res |-> o.res, act |-> o.act, target |-> o.target,
                 progress |-> o.progress, cd |-> o.cd, ptype |-> o.ptype]
        BY <1>2, <2>1, Fields
      <4>2. objs'[i] =
              [type |-> o.type, coord |-> o.coord, owner |-> o.owner, hp |-> o.hp,
               res |-> n, act |-> "NOOP", target |-> o.target,
               progress |-> -1, cd |-> o.cd, ptype |-> o.ptype]
        BY <3>3, <4>1
      <4> QED
        BY <1>2, <2>1, <3>1, <4>2 DEF Object
    <3>5. /\ objs'[m] \in Object
          /\ objs'[m].type = objs[m].type /\ objs'[m].owner = objs[m].owner
          /\ objs'[m].coord = objs[m].coord /\ objs'[m].target = objs[m].target
          /\ objs'[m].ptype = objs[m].ptype /\ objs'[m].act = objs[m].act
      BY <1>3, <2>1, <3>1, <3>3 DEF Object
    <3> QED
      BY <2>1, <3>3, <3>4, <3>5
  <2>3. CASE objs[i].progress # 0
    <3>1. objs' = [objs EXCEPT ![i].progress = @ - 1]
      BY <2>3 DEF SettleGather
    <3>2. /\ Ids' = Ids /\ objs'[i] = [objs[i] EXCEPT !.progress = @ - 1]
          /\ \A k \in Ids : k # i => objs'[k] = objs[k]
      BY <1>2, <3>1
    <3> QED
      BY <1>2, <1>3, <2>1, <3>2 DEF Object
  <2> QED
    BY <2>2, <2>3
<1>5. /\ Gathering(objs)' \subseteq Gathering(objs)
      /\ i \in Gathering(objs)' => objs'[m] = objs[m]
      /\ \A k \in Gathering(objs) : k # i => k \in Gathering(objs)'
  <2>1. \A k \in Ids : k # i => (k \in Gathering(objs)' <=> k \in Gathering(objs))
    BY <1>4 DEF Gathering
  <2>2. i \in Gathering(objs)' => objs'[m] = objs[m]
    BY <1>4 DEF Gathering
  <2>3. Gathering(objs) \subseteq Ids /\ Gathering(objs)' \subseteq Ids
    BY <1>4 DEF Gathering
  <2> QED
    BY <1>2, <2>1, <2>2, <2>3
<1>6. TypeOK'
  BY <1>1, <1>4 DEF IInv, TypeOK, IsMap
<1>7. ActionOK'
  BY <1>2, <1>4 DEF IInv, ActionOK
<1>8. LocalsOK'
  BY <1>1, <1>4, <1>5 DEF IInv, LocalsOK, TypeOK, IsMap
<1>9. IdsFresh' /\ IndexOK'
  BY <1>1, <1>4 DEF IInv, IdsFresh, IndexOK
<1>10. TileExclusive'
  <2>1. \A k \in Ids : Held(k)' \subseteq Held(k) /\ (InTransit(k)' => InTransit(k))
    BY <1>4 DEF Held, InTransit
  <2> QED
    BY <1>4, <2>1 DEF IInv, TileExclusive
<1>11. OccupationOK'
  BY <1>1 DEF OccupationOK
<1>12. GatheringOK'
  <2>1. ASSUME NEW k \in Gathering(objs)' PROVE MineralAt(objs[k].target)'
    <3>1. PICK n \in Ids : objs[n].type = "MINERAL" /\ objs[n].coord = objs[k].target
                           /\ objs[n].res > 0
      BY <1>5, <2>1 DEF IInv, GatheringOK, MineralAt
    <3>2. CASE n # m
      BY <1>2, <1>4, <1>5, <2>1, <3>1, <3>2 DEF MineralAt, Gathering
    <3>3. CASE n = m
      <4>1. k = i
        BY <1>2, <1>3, <1>5, <2>1, <3>1, <3>3 DEF IInv, GatheringPays
      <4>2. objs'[m] = objs[m] /\ objs'[k].target = objs[k].target
        BY <1>2, <1>4, <1>5, <2>1, <4>1
      <4> QED
        BY <1>3, <1>4, <3>1, <3>3, <4>2 DEF MineralAt
    <3> QED
      BY <3>2, <3>3
  <2> QED
    BY <1>1, <2>1 DEF GatheringOK
<1>13. GatheringPays'
  <2>1. \A k \in Gathering(objs)' : k \in Ids /\ objs'[k].target = objs[k].target
    BY <1>4, <1>5 DEF Gathering
  <2> QED
    BY <1>1, <1>5, <2>1 DEF IInv, GatheringPays
<1> QED
  BY <1>6, <1>7, <1>8, <1>9, <1>10, <1>11, <1>12, <1>13 DEF IInv

\* An order to RETURN puts the load into the bank.
LEMMA StepReturnInv ==
  ASSUME IInv, NEW u, NEW t, StepReturn(u, t) PROVE IInv'
<1>1. /\ phase = "return" /\ u \in Ids /\ objs[u].owner \in Sides
      /\ resource' = [resource EXCEPT ![objs[u].owner] = @ + objs[u].res]
      /\ objs' = [objs EXCEPT ![u].res = 0]
      /\ UNCHANGED <<buildingCnt, time, objCnt, phase, spent, coordIdx, damage, occ,
                     claims, gatherCnt, todo>>
  BY DEF StepReturn, PassesReturn, ReachesFor, Ready
<1>2. /\ Ids' = Ids
      /\ \A i \in Ids :
           /\ objs'[i] \in Object
           /\ objs'[i].type = objs[i].type /\ objs'[i].owner = objs[i].owner
           /\ objs'[i].coord = objs[i].coord /\ objs'[i].target = objs[i].target
           /\ objs'[i].act = objs[i].act /\ objs'[i].ptype = objs[i].ptype
           /\ objs[i].type = "MINERAL" => objs'[i].res = objs[i].res
  BY <1>1 DEF IInv, TypeOK, IsMap, Object, Sides
<1>3. TypeOK'
  <2>1. resource' \in [Sides -> Int]
    BY <1>1 DEF IInv, TypeOK, IsMap, Object
  <2> QED
    BY <1>1, <1>2, <2>1 DEF IInv, TypeOK, IsMap
<1>4. ActionOK' /\ LocalsOK'
  BY <1>1, <1>2 DEF IInv, ActionOK, LocalsOK, Producers, Gathering, TypeOK, IsMap
<1>5. IdsFresh' /\ IndexOK'
  BY <1>1, <1>2 DEF IInv, IdsFresh, IndexOK
<1>6. TileExclusive' /\ OccupationOK'
  BY <1>1, <1>2 DEF IInv, TileExclusive, Held, InTransit, OccupationOK
<1>7. GatheringOK' /\ GatheringPays'
  BY <1>1, <1>2 DEF IInv, GatheringOK, GatheringPays, Gathering, MineralAt
<1> QED
  BY <1>3, <1>4, <1>5, <1>6, <1>7 DEF IInv

\* A board as GameReset leaves it, with no tick begun.
LEMMA InitInv == Init => IInv
<1> SUFFICES ASSUME Init PROVE IInv
  OBVIOUS
<1>1. PICK b \in Boards : /\ objs = [i \in DOMAIN b |-> Placed(b[i])]
                          /\ objCnt = Cardinality(DOMAIN b)
  BY DEF Init
<1>2. /\ resource = [s \in Sides |-> InitResource] /\ buildingCnt = [s \in Sides |-> 1]
      /\ time = 0 /\ phase = "idle" /\ spent = {} /\ coordIdx = EmptyMap
      /\ damage = EmptyMap /\ occ = EmptyMap /\ claims = EmptyMap /\ gatherCnt = EmptyMap
      /\ todo = {}
  BY DEF Init
<1> DEFINE ids == DOMAIN b
           n == Cardinality(ids)
<1>3. /\ IsFiniteSet(ids) /\ ids = 0 .. n - 1
      /\ b \in [ids -> [type : {"TERRAIN", "MINERAL", "BASE"}, coord : Tiles, owner : Owners]]
      /\ \A i, j \in ids : b[i].coord = b[j].coord => i = j
      /\ \A i \in ids : b[i].type = "BASE" <=> b[i].owner \in Sides
  BY BoardLayout DEF BoardLayout, IsLayout
<1>4. n \in Nat
  BY <1>3, FS_CardinalityType
<1> HIDE DEF n
<1>5. Ids = ids /\ ids \subseteq Nat /\ \A i \in ids : i < n
  BY <1>1, <1>3, <1>4
<1>6. \A i \in ids :
        /\ objs[i] \in Object
        /\ objs[i].owner = 0 <=> objs[i].type \in {"TERRAIN", "MINERAL"}
        /\ objs[i].act = "NOOP" /\ objs[i].coord = b[i].coord
        /\ objs[i].type = "MINERAL" => objs[i].res > 0
  <2> SUFFICES ASSUME NEW i \in ids
               PROVE
        /\ objs[i] \in Object
        /\ objs[i].owner = 0 <=> objs[i].type \in {"TERRAIN", "MINERAL"}
        /\ objs[i].act = "NOOP" /\ objs[i].coord = b[i].coord
        /\ objs[i].type = "MINERAL" => objs[i].res > 0
    OBVIOUS
  <2> DEFINE hp == IF b[i].type = "BASE" THEN Hp["BASE"] ELSE 0
             res == CASE b[i].type = "BASE"    -> InitResource
                      [] b[i].type = "MINERAL" -> MineralRes
                      [] OTHER                 -> 0
  <2>1. /\ b[i].type \in {"TERRAIN", "MINERAL", "BASE"} /\ b[i].coord \in Tiles
        /\ b[i].owner \in Owners /\ (b[i].type = "BASE" <=> b[i].owner \in Sides)
    BY <1>3
  <2>2. hp \in Int /\ res \in Int /\ (b[i].type = "MINERAL" => res > 0)
    BY <2>1, Constants DEF OwnedTypes, Buildings
  <2>3. objs[i] = Resting(b[i].type, b[i].coord, b[i].owner, hp, res)
    BY <1>1 DEF Placed
  <2> HIDE DEF hp, res
  <2>4. objs[i] = [type |-> b[i].type, coord |-> b[i].coord, owner |-> b[i].owner,
                   hp |-> hp, res |-> res, act |-> "NOOP", target |-> b[i].coord,
                   progress |-> 0, cd |-> 0, ptype |-> "TERRAIN"]
    BY <2>3 DEF Resting
  <2>5. b[i].type \in GameObjType /\ "TERRAIN" \in GameObjType
    BY <2>1 DEF GameObjType, OwnedTypes, Buildings
  <2>6. objs[i] \in Object
    BY <2>1, <2>2, <2>4, <2>5 DEF Object
  <2> QED
    BY <2>1, <2>2, <2>4, <2>6 DEF Sides, Owners
<1>7. TypeOK
  <2>1. IsMap(objs, Nat, Object)
    BY <1>5, <1>6 DEF IsMap
  <2>2. resource \in [Sides -> Int] /\ buildingCnt \in [Sides -> Int] /\ time \in 0 .. TimeCap
    BY <1>2, Constants
  <2> QED
    BY <1>1, <1>2, <1>4, <1>5, <1>6, <2>1, <2>2 DEF TypeOK, IsMap, Phases, EmptyMap, n
<1>8. ActionOK /\ LocalsOK
  BY <1>2, <1>5, <1>6 DEF ActionOK, LocalsOK, EmptyMap
<1>9. IdsFresh /\ IndexOK
  BY <1>1, <1>2, <1>5 DEF IdsFresh, IndexOK, EmptyMap, n
<1>10. TileExclusive /\ OccupationOK
  BY <1>2, <1>3, <1>5, <1>6 DEF TileExclusive, OccupationOK, Held, InTransit
<1>11. GatheringOK /\ GatheringPays
  BY <1>2, <1>5, <1>6 DEF GatheringOK, GatheringPays, Gathering
<1> QED
  BY <1>7, <1>8, <1>9, <1>10, <1>11 DEF IInv

\* A step that changes nothing.
LEMMA StutterInv == IInv /\ UNCHANGED vars => IInv'
<1> SUFFICES ASSUME IInv, UNCHANGED vars PROVE IInv'
  OBVIOUS
<1> USE DEF vars
<1>1. TypeOK' /\ ActionOK' /\ IdsFresh' /\ IndexOK'
  BY DEF IInv, TypeOK, ActionOK, IdsFresh, IndexOK
<1>2. LocalsOK'
  BY DEF IInv, LocalsOK, Producers, Gathering
<1>3. TileExclusive' /\ OccupationOK'
  BY DEF IInv, TileExclusive, OccupationOK, ClaimsCounted, Held, InTransit
<1>4. GatheringOK' /\ GatheringPays'
  BY DEF IInv, GatheringOK, GatheringPays, Gathering, MineralAt, ClaimsCounted
<1> QED
  BY <1>1, <1>2, <1>3, <1>4 DEF IInv

\* IInv is inductive: every action of the tick keeps it.
LEMMA NextInv == IInv /\ [Next]_vars => IInv'
<1> SUFFICES ASSUME IInv, [Next]_vars PROVE IInv'
  OBVIOUS
<1>1. CASE Order
  <2>1. ASSUME NEW u, NEW t, ProduceThrows(u) \/ GatherThrows(u, t) \/ ReturnThrows(u, t)
        PROVE  IInv'
    BY <2>1, ThrowsInv DEF ProduceThrows, GatherThrows, ReturnThrows
  <2> QED
    BY <1>1, <2>1, StepMoveInv, StepProduceInv, StepAttackInv, StepGatherInv,
       StepReturnInv DEF Order
<1>2. CASE Execute
  BY <1>2, ExecuteAttackInv, ExecuteProduceInv, ExecuteMoveInv, ExecuteGatherInv DEF Execute
<1>3. CASE Settle
  BY <1>3, SettleProduceInv, SettleGatherInv, SettleMoveInv, EraseMineralsInv,
     GameRefreshInv DEF Settle
<1>4. CASE Advance
  BY <1>4, BeginStepInv, EndAttackInv, CountOccupationInv, ExecuteCollisionsInv,
     BeginSettleProduceInv DEF Advance
<1>5. CASE Threw \/ UNCHANGED vars
  BY <1>5, StutterInv DEF Threw
<1> QED
  BY <1>1, <1>2, <1>3, <1>4, <1>5 DEF Next

\* IInv holds in every state of a game.
LEMMA Inductive == Spec => []IInv
BY InitInv, NextInv, PTL DEF Spec

\* The variables of a game keep their types, on every board and under every choice
\* of the rule tables (GameStepSingle and all that it calls).
THEOREM TypeCorrect == Spec => []TypeOK
<1>1. IInv => TypeOK
  BY DEF IInv
<1> QED
  BY <1>1, Inductive, PTL

\* No two objects of a game ever stand on, move to or build on the same tile
\* (coordOccupationCount and the Execute loops of PRODUCE and MOVE).
THEOREM TilesExclusive == Spec => []TileExclusive
<1>1. IInv => TileExclusive
  BY DEF IInv
<1> QED
  BY <1>1, Inductive, PTL

\* The two lookups of GameSettleGather never throw and never find anything but the
\* mineral, although the index they use is as old as the tick and the order may be
\* as old as the game.
THEOREM GatherLookups == Spec => []GatherTargetsExist
<1>1. IInv => GatherTargetsExist
  <2> SUFFICES ASSUME IInv, phase = "settleGather", NEW i \in Gathering(objs)
               PROVE  /\ objs[i].target \in DOMAIN coordIdx
                      /\ coordIdx[objs[i].target] \in Ids
                      /\ objs[coordIdx[objs[i].target]].type = "MINERAL"
                      /\ objs[coordIdx[objs[i].target]].coord = objs[i].target
    BY DEF GatherTargetsExist
  <2>1. PICK m \in Ids : objs[m].type = "MINERAL" /\ objs[m].coord = objs[i].target
    BY DEF IInv, GatheringOK, MineralAt
  <2>2. objs[m].coord \in DOMAIN coordIdx /\ coordIdx[objs[m].coord] = m
    BY <2>1 DEF IInv, IndexOK
  <2> QED
    BY <2>1, <2>2
<1> QED
  BY <1>1, Inductive, PTL

\* One object at a time gathers from a mineral, and the minerals that are used up
\* are gone when the loop of GameSettleGather ends.
THEOREM MineralsLast == Spec => []GatheringPays
<1>1. IInv => GatheringPays
  BY DEF IInv
<1> QED
  BY <1>1, Inductive, PTL

\* The steps that touch neither the objects nor the banks.
LEMMA LocalSteps ==
  ASSUME NEW u, NEW t, NEW p,
         \/ BeginStep \/ EndAttack \/ CountOccupation \/ StepProduce(u, t, p)
         \/ ProduceThrows(u) \/ ExecuteCollisions \/ BeginSettleProduce
         \/ StepMove(u, t) \/ StepGather(u, t) \/ GatherThrows(u, t)
         \/ ReturnThrows(u, t) \/ Threw
  PROVE  UNCHANGED <<objs, resource>>
BY DEF BeginStep, EndAttack, CountOccupation, StepProduce, PassesProduce, ProduceThrows,
       ExecuteCollisions, BeginSettleProduce, StepMove, PassesMove, StepGather, PassesGather,
       GatherThrows,
       ReturnThrows, Threw, gameVars, vars

\* The steps that change objects, but no bank and no load.
LEMMA UnpaidSteps ==
  ASSUME IInv, NoDebt, NEW u, NEW t,
         \/ StepAttack(u, t) \/ (u \in DOMAIN damage /\ ExecuteAttack(u))
         \/ ExecuteMove \/ SettleMove \/ ExecuteGather \/ EraseMinerals
  PROVE  NoDebt'
<1>1. resource' = resource
  BY DEF StepAttack, PassesAttack, ExecuteAttack, ExecuteMove, SettleMove, ExecuteGather,
         EraseMinerals
<1>2. Ids' \subseteq Ids /\ \A i \in Ids' : objs'[i].res = objs[i].res
  <2>0. \A i \in Ids : objs[i] \in Object
    BY DEF IInv, TypeOK, IsMap
  <2>1. CASE StepAttack(u, t)
    BY <2>0, <2>1 DEF StepAttack, PassesAttack, Object
  <2>2. CASE u \in DOMAIN damage /\ ExecuteAttack(u)
    <3>1. CASE objs' = Restrict(objs, Ids \ {u})
      BY <3>1, RestrictMap
    <3>2. CASE objs' = [objs EXCEPT ![u].hp = @ - damage[u]]
      BY <2>0, <3>2 DEF Object
    <3> QED
      BY <2>2, <3>1, <3>2 DEF ExecuteAttack
  <2>3. CASE ExecuteMove
    BY <2>0, <2>3 DEF ExecuteMove, Object
  <2>4. CASE SettleMove
    BY <2>0, <2>4 DEF SettleMove, Moved, Object
  <2>5. CASE ExecuteGather
    BY <2>0, <2>5 DEF ExecuteGather, Object
  <2>6. CASE EraseMinerals
    <3> DEFINE K == {i \in Ids : ~ (objs[i].type = "MINERAL" /\ objs[i].res <= 0)}
    <3>1. objs' = Restrict(objs, K) /\ K \subseteq Ids
      BY <2>6 DEF EraseMinerals
    <3> HIDE DEF K
    <3> QED
      BY <3>1, RestrictMap
  <2> QED
    BY <2>1, <2>2, <2>3, <2>4, <2>5, <2>6
<1> QED
  BY <1>1, <1>2 DEF NoDebt, Solvent

\* No step overdraws a bank, a mineral or a load.
LEMMA NoDebtNext == IInv /\ NoDebt /\ [Next]_vars => NoDebt'
<1> SUFFICES ASSUME IInv, NoDebt, [Next]_vars PROVE NoDebt'
  OBVIOUS
<1>1. ASSUME UNCHANGED <<objs, resource>> PROVE NoDebt'
  BY <1>1 DEF NoDebt, Solvent
<1>0. \A i \in Ids : objs[i] \in Object
  BY DEF IInv, TypeOK, IsMap
<1>2. ASSUME NEW u \in DOMAIN claims, ExecuteProduce(u) PROVE NoDebt'
  <2>1. CASE UNCHANGED <<objs, resource>>
    BY <1>1, <2>1
  <2>2. CASE StartProduce(u) /\ resource[objs[u].owner] >= Cost[claims[u].ptype]
    <3>1. Cost[claims[u].ptype] \in Int /\ objs[u].owner \in Sides
      <4>1. claims[u].ptype \in OwnedTypes /\ objs[u].owner \in Sides
        BY <1>2 DEF IInv, OccupationOK, LocalsOK, ExecuteProduce
      <4> QED
        BY <4>1, Constants
    <3>2. \A s \in Sides : resource'[s] >= 0
      BY <2>2, <3>1 DEF StartProduce, NoDebt, Solvent, IInv, TypeOK
    <3>3. Ids' = Ids /\ \A i \in Ids : objs'[i].res = objs[i].res
      BY <1>0, <2>2 DEF StartProduce, Object
    <3> QED
      BY <3>2, <3>3 DEF NoDebt, Solvent
  <2> QED
    BY <1>2, <2>1, <2>2 DEF ExecuteProduce
<1>3. ASSUME NEW i \in todo, SettleProduce(i) PROVE NoDebt'
  <2>1. resource' = resource
    BY <1>3 DEF SettleProduce
  <2>2. \A k \in Ids' : objs'[k].res >= 0
    <3>1. CASE objs[i].progress = 0
      <4> DEFINE f == [objs EXCEPT ![i].act = "NOOP", ![i].progress = -1]
                 o == objs[i]
                 q == Resting(o.ptype, o.target, o.owner, Hp[o.ptype], 0)
      <4>1. objs' = Put(f, objCnt, q)
        BY <1>3, <3>1 DEF SettleProduce
      <4>2. q.res = 0
        BY DEF Resting
      <4>3. DOMAIN f = Ids /\ \A k \in Ids : f[k].res = objs[k].res
        BY <1>0 DEF Object
      <4> HIDE DEF f, q
      <4>4. Ids' = Ids \cup {objCnt}
            /\ \A k \in Ids' : objs'[k] = IF k = objCnt THEN q ELSE f[k]
        BY <4>1, <4>3 DEF Put
      <4> QED
        BY <4>2, <4>3, <4>4 DEF NoDebt
    <3>2. CASE objs[i].progress # 0
      BY <1>0, <1>3, <3>2 DEF SettleProduce, Object, NoDebt
    <3> QED
      BY <3>1, <3>2
  <2> QED
    BY <2>1, <2>2 DEF NoDebt, Solvent
<1>4. ASSUME NEW i \in todo, SettleGather(i) PROVE NoDebt'
  <2> DEFINE m == coordIdx[objs[i].target]
  <2>1. i \in Gathering(objs) /\ i \in Ids /\ objs[i].type \in CanGather
    BY <1>4 DEF SettleGather, IInv, LocalsOK, Gathering, ActionOK
  <2>2. m \in Ids /\ objs[m].res > 0 /\ m # i
    BY <1>4, <2>1 DEF SettleGather, IInv, GatheringOK, MineralAt, IndexOK, CanGather
  <2>3. resource' = resource
    BY <1>4 DEF SettleGather
  <2> HIDE DEF m
  <2>4. \A k \in Ids' : objs'[k].res >= 0
    <3>1. CASE objs[i].progress = 0
      <4> DEFINE n == IF objs[m].res < RES_PER_GATHER THEN objs[m].res ELSE RES_PER_GATHER
      <4>1. objs' = [objs EXCEPT ![i].act = "NOOP", ![i].progress = -1, ![i].res = n,
                                 ![m].res = @ - RES_PER_GATHER]
        BY <1>4, <3>1 DEF SettleGather, m
      <4>2. n >= 0 /\ objs[m].res - RES_PER_GATHER >= 0
        BY <1>0, <2>2 DEF RES_PER_GATHER, Object
      <4> HIDE DEF n
      <4>3. Ids' = Ids /\ objs'[i].res = n /\ objs'[m].res = objs[m].res - RES_PER_GATHER
            /\ \A k \in Ids : k # i /\ k # m => objs'[k] = objs[k]
        BY <1>0, <2>1, <2>2, <4>1 DEF Object
      <4> QED
        BY <4>2, <4>3 DEF NoDebt
    <3>2. CASE objs[i].progress # 0
      BY <1>0, <1>4, <3>2 DEF SettleGather, Object, NoDebt
    <3> QED
      BY <3>1, <3>2
  <2> QED
    BY <2>3, <2>4 DEF NoDebt, Solvent
<1>5. ASSUME NEW u, NEW t, StepReturn(u, t) PROVE NoDebt'
  <2>1. u \in Ids /\ objs[u].owner \in Sides /\ objs[u].res >= 0 /\ objs[u].res \in Int
    BY <1>0, <1>5 DEF StepReturn, PassesReturn, ReachesFor, Ready, NoDebt, Object
  <2>2. \A s \in Sides : resource'[s] >= 0
    BY <1>5, <2>1 DEF StepReturn, PassesReturn, NoDebt, Solvent, IInv, TypeOK
  <2>3. \A k \in Ids' : objs'[k].res >= 0
    BY <1>0, <1>5 DEF StepReturn, PassesReturn, NoDebt, Object
  <2> QED
    BY <2>2, <2>3 DEF NoDebt, Solvent
<1>6. ASSUME GameRefresh PROVE NoDebt'
  <2> DEFINE K == {k \in Ids : GameOver => objs[k].owner \notin Defeated}
  <2>1. /\ resource' = resource /\ DOMAIN objs' = K /\ K \subseteq Ids
        /\ \A i \in K : objs'[i] = Refreshed(objs[i])
    BY <1>6 DEF GameRefresh
  <2> HIDE DEF K
  <2>2. ASSUME NEW i \in K PROVE objs'[i].res >= 0
    <3> DEFINE o == objs[i]
               r == IF IsAtRest(o) THEN Rested(o) ELSE o
               b == Banked(r)
    <3>1. o \in Object /\ o.res >= 0
      BY <1>0, <2>1 DEF NoDebt
    <3>2. "res" \in DOMAIN r /\ "cd" \in DOMAIN r
          /\ r.res = o.res /\ r.type = o.type /\ r.owner = o.owner
      BY <3>1 DEF Rested, Object
    <3>3. objs'[i] = [b EXCEPT !.cd = IF @ > 0 THEN @ - 1 ELSE 0]
      BY <2>1 DEF Refreshed
    <3> HIDE DEF r
    <3>4. "res" \in DOMAIN b /\ b.res = IF r.type = "BASE" THEN resource[r.owner] ELSE r.res
      BY <3>2 DEF Banked
    <3>5. o.type = "BASE" => o.owner \in Sides
      BY <2>1, <3>1 DEF IInv, TypeOK, Object, Owners, Sides
    <3> HIDE DEF b, o
    <3>6. objs'[i].res = b.res
      BY <3>3, <3>4
    <3> QED
      BY <3>1, <3>2, <3>4, <3>5, <3>6 DEF NoDebt, Solvent
  <2> QED
    BY <2>1, <2>2 DEF NoDebt, Solvent
<1>7. CASE Order
  <2>1. ASSUME NEW u, ProduceThrows(u) PROVE NoDebt'
    BY <1>1, <2>1, LocalSteps
  <2>2. ASSUME NEW u, NEW t, NEW p, StepMove(u, t) \/ StepProduce(u, t, p) PROVE NoDebt'
    BY <1>1, <2>2, LocalSteps
  <2>3. ASSUME NEW u, NEW t, StepGather(u, t) \/ GatherThrows(u, t) \/ ReturnThrows(u, t)
        PROVE  NoDebt'
    BY <1>1, <2>3, LocalSteps
  <2>4. ASSUME NEW u, NEW t, StepAttack(u, t) PROVE NoDebt'
    <3>1. \/ StepAttack(u, t) \/ (u \in DOMAIN damage /\ ExecuteAttack(u))
          \/ ExecuteMove \/ SettleMove \/ ExecuteGather \/ EraseMinerals
      BY <2>4
    <3> QED
      BY <3>1, UnpaidSteps
  <2> QED
    BY <1>5, <1>7, <2>1, <2>2, <2>3, <2>4 DEF Order
<1>8. CASE Execute
  BY <1>2, <1>8, UnpaidSteps DEF Execute
<1>9. CASE Settle
  BY <1>3, <1>4, <1>6, <1>9, UnpaidSteps DEF Settle
<1>10. CASE Advance \/ Threw
  BY <1>1, <1>10, LocalSteps DEF Advance
<1>11. CASE UNCHANGED vars
  BY <1>1, <1>11 DEF vars
<1> QED
  BY <1>7, <1>8, <1>9, <1>10, <1>11 DEF Next

\* Nobody owes anything at any time.
LEMMA NobodyOwes == Spec => []NoDebt
<1>1. Init => NoDebt
  <2> SUFFICES ASSUME Init PROVE NoDebt
    OBVIOUS
  <2>1. PICK b \in Boards : objs = [i \in DOMAIN b |-> Placed(b[i])]
    BY DEF Init
  <2>2. \A i \in DOMAIN b :
          Placed(b[i]).res = CASE b[i].type = "BASE"    -> InitResource
                               [] b[i].type = "MINERAL" -> MineralRes
                               [] OTHER                 -> 0
    BY DEF Placed, Resting
  <2>3. \A i \in Ids : objs[i].res >= 0
    BY <2>1, <2>2, Constants
  <2>4. resource = [s \in Sides |-> InitResource]
    BY DEF Init
  <2> QED
    BY <2>3, <2>4, Constants DEF NoDebt, Solvent
<1> QED
  BY <1>1, Inductive, NoDebtNext, PTL DEF Spec

\* No bank is ever overdrawn, although GameStepProduce checks every order of a tick
\* against the same money: GameExecuteProduce checks again.
THEOREM NeverOverdrawn == Spec => []Solvent
<1>1. NoDebt => Solvent
  BY DEF NoDebt
<1> QED
  BY <1>1, NobodyOwes, PTL

-----------------------------------------------------------------------------
(* A tick: what becomes of one object *)

\* Nothing but hp and load has changed.
Alike(o, p) ==
  /\ p.coord = o.coord /\ p.act = o.act /\ p.target = o.target
  /\ p.progress = o.progress /\ p.cd = o.cd /\ p.ptype = o.ptype

\* An object that could take an order, and what it is after it has taken one.
CanStart(o) == o.act = "NOOP" /\ o.cd = 0 /\ o.progress = 0

\* It attacks, which is over at once but for the cooldown.
Shoots(o, p) ==
  /\ phase = "attack" /\ CanStart(o)
  /\ p.act = "NOOP" /\ p.progress = 0 /\ p.cd \in Nat /\ p.coord = o.coord

Starts(o, p) ==
  /\ phase \notin {"idle", "attack", "hurt", "produce"}
  /\ CanStart(o) /\ p.act # "NOOP" /\ p.cd = 0 /\ p.progress \in Nat
  /\ p.act = "GATHER" => ExecuteGather
  /\ p.act = "PRODUCE" => phase = "execProduce"

CountsDown(o, p) ==
  /\ phase \notin {"idle", "attack", "hurt", "produce"}
  /\ o.act # "NOOP" /\ o.progress # 0 /\ p.progress = o.progress - 1
  /\ p.act = o.act /\ p.target = o.target /\ p.ptype = o.ptype
  /\ p.coord = o.coord /\ p.cd = o.cd
  /\ o.act = "PRODUCE" => phase = "move" /\ phase' = "move"

Ends(o, p) ==
  /\ phase \notin {"idle", "attack", "hurt", "produce"}
  /\ o.act = "PRODUCE" => phase = "move" /\ phase' = "move"
  /\ o.act # "NOOP" /\ o.progress = 0 /\ p.act = "NOOP" /\ p.progress = -1 /\ p.cd = o.cd

\* What GameRefresh does to an object that it leaves on the board.
Refreshes(o, p) ==
  /\ phase = "return" /\ phase' = "idle" /\ p.act = o.act /\ p.coord = o.coord
  /\ p.cd = IF o.cd > 0 THEN o.cd - 1 ELSE 0
  /\ IF IsAtRest(o) THEN p.progress = 0 /\ p.target = o.coord
                   ELSE p.progress = o.progress /\ p.target = o.target /\ p.ptype = o.ptype

\* What it carries changes where a GATHER ends and where a load is banked; a BASE shows
\* the bank.
Carries(o, p) ==
  \/ p.res = o.res \/ o.type = "MINERAL" \/ (Ends(o, p) /\ o.act = "GATHER")
  \/ phase = "return" /\ phase' = "return" /\ p.res = 0
  \/ phase = "return" /\ phase' = "idle" /\ o.type = "BASE"

\* The life of an object, step by step.
Life(o, p) ==
  /\ p.type = o.type /\ p.owner = o.owner /\ Carries(o, p)
  /\ phase = "hurt" \/ p.hp = o.hp
  /\ \/ Alike(o, p) /\ phase' # "idle"
     \/ UNCHANGED vars
     \/ Shoots(o, p) /\ phase' # "idle"
     \/ Starts(o, p) /\ phase' # "idle"
     \/ CountsDown(o, p) /\ phase' # "idle"
     \/ Ends(o, p) /\ phase' # "idle"
     \/ Refreshes(o, p)

\* Every object on the board is an Object.
LEMMA Objects ==
  ASSUME IInv
  PROVE  /\ \A i \in Ids : objs[i] \in Object
         /\ DOMAIN damage \subseteq Ids /\ DOMAIN claims \subseteq Ids /\ todo \subseteq Ids
         /\ objCnt \in Nat /\ objCnt \notin Ids
BY DEF IInv, TypeOK, IsMap, IdsFresh

\* The steps that leave the objects alone.
LEMMA QuietLife ==
  ASSUME IInv, NEW i \in Ids, UNCHANGED objs, phase' # "idle"
  PROVE  i \in Ids' /\ Life(objs[i], objs'[i])
BY DEF Life, Alike, Carries

\* An attack sets the target and the cooldown of who attacks.
LEMMA StepAttackLife ==
  ASSUME IInv, NEW u, NEW t, StepAttack(u, t), NEW i \in Ids
  PROVE  Life(objs[i], objs'[i])
<1>1. phase = "attack" /\ phase' = "attack" /\ u \in Ids /\ CanStart(objs[u]) /\ objs[u].type \in MobileTypes
  BY DEF StepAttack, PassesAttack, Ready, Free, CanAttack, MobileTypes, CanStart
<1>2. CASE i # u
  BY <1>1, <1>2 DEF StepAttack, PassesAttack, Life, Alike, Carries
<1>3. CASE i = u
  <2> DEFINE n == AttackInterval[objs[u].type]
  <2>1. n \in Nat /\ objs[u] \in Object
    BY <1>1, Constants, Objects
  <2>2. objs' = [objs EXCEPT ![u].target = t, ![u].cd = n]
    BY DEF StepAttack, PassesAttack
  <2> HIDE DEF n
  <2>3. objs'[u] = [objs[u] EXCEPT !.target = t, !.cd = n]
    BY <1>1, <2>2
  <2>4. /\ objs'[u].act = objs[u].act /\ objs'[u].progress = objs[u].progress
        /\ objs'[u].cd = n /\ objs'[u].type = objs[u].type /\ objs'[u].owner = objs[u].owner
        /\ objs'[u].coord = objs[u].coord /\ objs'[u].res = objs[u].res
        /\ objs'[u].hp = objs[u].hp
    BY <2>1, <2>3 DEF Object
  <2>5. Shoots(objs[u], objs'[u])
    BY <1>1, <2>1, <2>4 DEF Shoots, CanStart
  <2> QED
    BY <1>1, <1>3, <2>4, <2>5 DEF Life, Carries
<1> QED
  BY <1>2, <1>3

\* Damage changes hp.
LEMMA ExecuteAttackLife ==
  ASSUME IInv, NEW u \in DOMAIN damage, ExecuteAttack(u), NEW i \in Ids, i \in Ids'
  PROVE  Life(objs[i], objs'[i])
<1>1. phase = "hurt" /\ phase' = "hurt" /\ u \in Ids /\ objs[i] \in Object
  BY Objects DEF ExecuteAttack
<1>2. CASE objs' = Restrict(objs, Ids \ {u})
  <2>1. i \in Ids \ {u}
    BY <1>2, RestrictMap
  <2>2. objs'[i] = objs[i]
    BY <1>2, <2>1, RestrictMap
  <2> QED
    BY <1>1, <2>2 DEF Life, Alike, Carries
<1>3. CASE objs' = [objs EXCEPT ![u].hp = @ - damage[u]]
  <2>1. objs'[i] = objs[i] \/ objs'[i] = [objs[i] EXCEPT !.hp = @ - damage[u]]
    BY <1>1, <1>3
  <2>2. /\ Alike(objs[i], objs'[i]) /\ objs'[i].res = objs[i].res
        /\ objs'[i].type = objs[i].type /\ objs'[i].owner = objs[i].owner
    BY <1>1, <2>1 DEF Object, Alike
  <2> QED
    BY <1>1, <2>2 DEF Life, Carries
<1> QED
  BY <1>2, <1>3 DEF ExecuteAttack

\* A claim that is paid for starts a production.
LEMMA ExecuteProduceLife ==
  ASSUME IInv, TimingOK, NEW u \in DOMAIN claims, ExecuteProduce(u), NEW i \in Ids
  PROVE  i \in Ids' /\ Life(objs[i], objs'[i])
<1>1. /\ phase = "execProduce" /\ phase' = phase /\ u \in Ids /\ objs[u] \in Object
      /\ CanStart(objs[u])
  BY Objects DEF ExecuteProduce, NextClaim, TimingOK, Free, CanStart
<1>2. CASE UNCHANGED objs
  BY <1>1, <1>2, QuietLife
<1>3. CASE StartProduce(u)
  <2> DEFINE n == ObjTime[claims[u].ptype]
             c == claims[u].target
             p == claims[u].ptype
  <2>1. n \in Nat
    BY <1>1, Constants DEF IInv, OccupationOK
  <2>2. objs' = [objs EXCEPT ![u].act = "PRODUCE", ![u].target = c, ![u].progress = n,
                             ![u].ptype = p]
    BY <1>3 DEF StartProduce
  <2> HIDE DEF n, c, p
  <2>3. /\ Ids' = Ids /\ \A k \in Ids : k # u => objs'[k] = objs[k]
        /\ objs'[u] = [objs[u] EXCEPT !.act = "PRODUCE", !.target = c, !.progress = n,
                                      !.ptype = p]
    BY <1>1, <2>2
  <2>4. /\ objs'[u].act = "PRODUCE" /\ objs'[u].progress = n /\ objs'[u].cd = objs[u].cd
        /\ objs'[u].type = objs[u].type /\ objs'[u].owner = objs[u].owner
        /\ objs'[u].res = objs[u].res /\ objs'[u].hp = objs[u].hp
    BY <1>1, <2>3 DEF Object
  <2>5. CASE i = u
    BY <1>1, <2>1, <2>3, <2>4, <2>5 DEF Life, Carries, Starts, CanStart
  <2>6. CASE i # u
    BY <1>1, <2>3, <2>6 DEF Life, Alike, Carries
  <2> QED
    BY <2>5, <2>6
<1> QED
  BY <1>2, <1>3 DEF ExecuteProduce

\* One visit of GameSettleProduce: one production counts down, or ends in a birth.
LEMMA SettleProduceLife ==
  ASSUME IInv, NEW u \in todo, SettleProduce(u), NEW i \in Ids
  PROVE  i \in Ids' /\ Life(objs[i], objs'[i])
<1>1. /\ phase = "move" /\ phase' = phase /\ u \in Ids /\ objs[u] \in Object
      /\ objs[u].act = "PRODUCE" /\ objCnt \notin Ids
  BY Objects DEF SettleProduce, IInv, LocalsOK, Producers
<1>2. CASE objs[u].progress = 0
  <2> DEFINE f == [objs EXCEPT ![u].act = "NOOP", ![u].progress = -1]
             q == Resting(objs[u].ptype, objs[u].target, objs[u].owner,
                          Hp[objs[u].ptype], 0)
  <2>1. objs' = Put(f, objCnt, q)
    BY <1>2 DEF SettleProduce
  <2>2. /\ DOMAIN f = Ids /\ \A k \in Ids : k # u => f[k] = objs[k]
        /\ f[u] = [objs[u] EXCEPT !.act = "NOOP", !.progress = -1]
    BY <1>1
  <2> HIDE DEF f, q
  <2>3. Ids' = Ids \cup {objCnt} /\ \A k \in Ids : objs'[k] = f[k]
    <3> DEFINE g == Put(f, objCnt, q)
    <3>1. DOMAIN g = DOMAIN f \cup {objCnt} /\ \A k \in DOMAIN f : k # objCnt => g[k] = f[k]
      BY DEF Put
    <3>2. objs' = g
      BY <2>1
    <3> HIDE DEF g
    <3> QED
      BY <1>1, <2>2, <3>1, <3>2
  <2>4. CASE i = u
    <3>1. objs'[u] = [objs[u] EXCEPT !.act = "NOOP", !.progress = -1] /\ objs[u] \in Object
      BY <1>1, <2>2, <2>3
    <3>2. /\ objs'[u].act = "NOOP" /\ objs'[u].progress = -1 /\ objs'[u].cd = objs[u].cd
          /\ objs'[u].type = objs[u].type /\ objs'[u].owner = objs[u].owner
          /\ objs'[u].res = objs[u].res /\ objs'[u].hp = objs[u].hp
      BY <3>1 DEF Object
    <3> QED
      BY <1>1, <1>2, <2>3, <2>4, <3>2 DEF Life, Carries, Ends
  <2>5. CASE i # u
    BY <1>1, <2>2, <2>3, <2>5 DEF Life, Alike, Carries
  <2> QED
    BY <2>4, <2>5
<1>3. CASE objs[u].progress # 0
  <2>1. objs' = [objs EXCEPT ![u].progress = @ - 1]
    BY <1>3 DEF SettleProduce
  <2>2. /\ Ids' = Ids /\ \A k \in Ids : k # u => objs'[k] = objs[k]
        /\ objs'[u] = [objs[u] EXCEPT !.progress = @ - 1]
    BY <1>1, <2>1
  <2>3. CASE i = u
    <3>1. /\ CountsDown(objs[u], objs'[u]) /\ objs'[u].type = objs[u].type
          /\ objs'[u].owner = objs[u].owner /\ objs'[u].res = objs[u].res
          /\ objs'[u].hp = objs[u].hp
      BY <1>1, <1>3, <2>2 DEF Object, CountsDown
    <3> QED
      BY <1>1, <2>2, <2>3, <3>1 DEF Life, Carries
  <2>4. CASE i # u
    BY <1>1, <2>2, <2>4 DEF Life, Alike, Carries
  <2> QED
    BY <2>3, <2>4
<1> QED
  BY <1>2, <1>3

\* Claims that nobody opposes become a MOVE.
LEMMA ExecuteMoveLife ==
  ASSUME IInv, TimingOK, ExecuteMove, NEW i \in Ids
  PROVE  i \in Ids' /\ Life(objs[i], objs'[i])
<1>1. phase = "move" /\ phase' = "settleMove" /\ objs[i] \in Object
  BY Objects DEF ExecuteMove
<1>2. CASE i \notin Unopposed(occ)
  BY <1>1, <1>2 DEF ExecuteMove, Life, Alike, Carries
<1>3. CASE i \in Unopposed(occ)
  <2> DEFINE n == MoveInterval[objs[i].type]
             c == claims[i].target
  <2>1. CanStart(objs[i]) /\ objs[i].type \in MobileTypes
    BY <1>1, <1>3 DEF Unopposed, TimingOK, Free, CanStart, IInv, OccupationOK, CanMove
  <2>2. n \in Nat
    BY <2>1, Constants
  <2>3. Ids' = Ids /\ objs'[i] = [objs[i] EXCEPT !.act = "MOVE", !.target = c, !.progress = n]
    BY <1>3 DEF ExecuteMove
  <2> HIDE DEF n, c
  <2>4. /\ objs'[i].act = "MOVE" /\ objs'[i].progress = n /\ objs'[i].cd = objs[i].cd
        /\ objs'[i].type = objs[i].type /\ objs'[i].owner = objs[i].owner
    BY <1>1, <2>3 DEF Object
  <2> QED
    BY <1>1, <2>1, <2>2, <2>3, <2>4 DEF Life, Carries, Starts, CanStart
<1> QED
  BY <1>2, <1>3

\* GameSettleMove counts every MOVE down, or ends it.
LEMMA SettleMoveLife ==
  ASSUME IInv, SettleMove, NEW i \in Ids
  PROVE  i \in Ids' /\ Life(objs[i], objs'[i])
<1>1. /\ phase = "settleMove" /\ phase' = "gather" /\ objs[i] \in Object
      /\ Ids' = Ids /\ objs'[i] = Moved(objs[i])
  BY Objects DEF SettleMove
<1> DEFINE o == objs[i]
           p == objs'[i]
<1>2. CASE o.act # "MOVE"
  BY <1>1, <1>2 DEF Moved, Life, Alike, Carries
<1>3. CASE o.act = "MOVE" /\ o.progress = 0
  <2>1. p = [o EXCEPT !.act = "NOOP", !.coord = o.target, !.progress = -1]
    BY <1>1, <1>3 DEF Moved
  <2>2. Ends(o, p) /\ p.type = o.type /\ p.owner = o.owner /\ p.res = o.res
        /\ p.hp = o.hp
    BY <1>1, <1>3, <2>1 DEF Object, Ends
  <2> QED
    BY <1>1, <2>2 DEF Life, Carries
<1>4. CASE o.act = "MOVE" /\ o.progress # 0
  <2>1. p = [o EXCEPT !.progress = @ - 1]
    BY <1>1, <1>4 DEF Moved
  <2>2. CountsDown(o, p) /\ p.type = o.type /\ p.owner = o.owner /\ p.res = o.res
        /\ p.hp = o.hp
    BY <1>1, <1>4, <2>1 DEF Object, CountsDown
  <2> QED
    BY <1>1, <2>2 DEF Life, Carries
<1> QED
  BY <1>2, <1>3, <1>4

\* Claims that nobody opposes become a GATHER.
LEMMA ExecuteGatherLife ==
  ASSUME IInv, TimingOK, ExecuteGather, NEW i \in Ids
  PROVE  i \in Ids' /\ Life(objs[i], objs'[i])
<1>1. phase = "gather" /\ phase' = "settleGather" /\ objs[i] \in Object
  BY Objects DEF ExecuteGather
<1>2. CASE i \notin Unopposed(gatherCnt)
  BY <1>1, <1>2 DEF ExecuteGather, Life, Alike, Carries
<1>3. CASE i \in Unopposed(gatherCnt)
  <2> DEFINE c == claims[i].target
  <2>1. CanStart(objs[i])
    BY <1>3 DEF Unopposed, TimingOK, Free, CanStart
  <2>2. Ids' = Ids /\ objs'[i] = [objs[i] EXCEPT !.act = "GATHER", !.target = c,
                                                 !.progress = GATHER_TIME]
    BY <1>3 DEF ExecuteGather
  <2> HIDE DEF c
  <2>3. /\ objs'[i].act = "GATHER" /\ objs'[i].progress = GATHER_TIME
        /\ objs'[i].cd = objs[i].cd
        /\ objs'[i].type = objs[i].type /\ objs'[i].owner = objs[i].owner
    BY <1>1, <2>2 DEF Object
  <2> QED
    BY <1>1, <2>1, <2>2, <2>3 DEF Life, Carries, Starts, CanStart, GATHER_TIME
<1> QED
  BY <1>2, <1>3

\* One visit of GameSettleGather: one GATHER counts down, or ends, and its mineral is
\* one unit smaller.
LEMMA SettleGatherLife ==
  ASSUME IInv, NEW u \in todo, SettleGather(u), NEW i \in Ids
  PROVE  i \in Ids' /\ Life(objs[i], objs'[i])
<1> DEFINE m == coordIdx[objs[u].target]
<1>1. /\ phase = "settleGather" /\ phase' = phase /\ u \in Ids
      /\ u \in Gathering(objs) /\ objs[u].act = "GATHER" /\ objs[u].type # "MINERAL"
      /\ \A k \in Ids : objs[k] \in Object
  BY Objects DEF SettleGather, IInv, LocalsOK, Gathering, ActionOK, CanGather
<1>2. m \in Ids /\ objs[m].type = "MINERAL" /\ m # u
  BY <1>1 DEF IInv, GatheringOK, MineralAt, IndexOK
<1>3. CASE objs[u].progress = 0
  <2> DEFINE n == IF objs[m].res < RES_PER_GATHER THEN objs[m].res ELSE RES_PER_GATHER
  <2>1. objs' = [objs EXCEPT ![u].act = "NOOP", ![u].progress = -1, ![u].res = n,
                             ![m].res = @ - RES_PER_GATHER]
    BY <1>3 DEF SettleGather
  <2> HIDE DEF n, m
  <2>2. /\ Ids' = Ids /\ \A k \in Ids : k # u /\ k # m => objs'[k] = objs[k]
        /\ objs'[u] = [objs[u] EXCEPT !.act = "NOOP", !.progress = -1, !.res = n]
        /\ objs'[m] = [objs[m] EXCEPT !.res = @ - RES_PER_GATHER]
    BY <1>1, <1>2, <2>1
  <2>3. CASE i = u
    <3>1. Ends(objs[u], objs'[u]) /\ objs'[u].type = objs[u].type
          /\ objs'[u].owner = objs[u].owner /\ objs'[u].hp = objs[u].hp
      BY <1>1, <1>3, <2>2 DEF Object, Ends
    <3> QED
      BY <1>1, <2>2, <2>3, <3>1 DEF Life, Carries
  <2>4. CASE i = m
    <3>1. Alike(objs[m], objs'[m]) /\ objs'[m].type = objs[m].type
          /\ objs'[m].owner = objs[m].owner /\ objs'[m].hp = objs[m].hp
      BY <1>1, <1>2, <2>2 DEF Object, Alike
    <3> QED
      BY <1>1, <1>2, <2>2, <2>4, <3>1 DEF Life, Carries
  <2>5. CASE i # u /\ i # m
    BY <1>1, <2>2, <2>5 DEF Life, Alike, Carries
  <2> QED
    BY <2>3, <2>4, <2>5
<1>4. CASE objs[u].progress # 0
  <2>1. objs' = [objs EXCEPT ![u].progress = @ - 1]
    BY <1>4 DEF SettleGather
  <2>2. /\ Ids' = Ids /\ \A k \in Ids : k # u => objs'[k] = objs[k]
        /\ objs'[u] = [objs[u] EXCEPT !.progress = @ - 1]
    BY <1>1, <2>1
  <2>3. CASE i = u
    <3>1. /\ CountsDown(objs[u], objs'[u]) /\ objs'[u].type = objs[u].type
          /\ objs'[u].owner = objs[u].owner /\ objs'[u].res = objs[u].res
          /\ objs'[u].hp = objs[u].hp
      BY <1>1, <1>4, <2>2 DEF Object, CountsDown
    <3> QED
      BY <1>1, <2>2, <2>3, <3>1 DEF Life, Carries
  <2>4. CASE i # u
    BY <1>1, <2>2, <2>4 DEF Life, Alike, Carries
  <2> QED
    BY <2>3, <2>4
<1> QED
  BY <1>3, <1>4

\* A load that is banked.
LEMMA StepReturnLife ==
  ASSUME IInv, NEW u, NEW t, StepReturn(u, t), NEW i \in Ids
  PROVE  i \in Ids' /\ Life(objs[i], objs'[i])
<1>1. phase' = "return" /\ phase = "return" /\ u \in Ids /\ objs[i] \in Object
      /\ objs' = [objs EXCEPT ![u].res = 0]
  BY Objects DEF StepReturn, PassesReturn, ReachesFor, Ready
<1>2. Ids' = Ids /\ (objs'[i] = objs[i] \/ objs'[i] = [objs[i] EXCEPT !.res = 0])
  BY <1>1
<1>3. /\ Alike(objs[i], objs'[i]) /\ objs'[i].res \in {objs[i].res, 0}
      /\ objs'[i].type = objs[i].type /\ objs'[i].owner = objs[i].owner
      /\ objs'[i].hp = objs[i].hp
  BY <1>1, <1>2 DEF Object, Alike
<1>4. phase' = "return" /\ phase = "return"
  BY <1>1
<1>5. objs'[i].res = objs[i].res \/ objs'[i].res = 0
  BY <1>3
<1>6. Carries(objs[i], objs'[i])
  BY <1>4, <1>5 DEF Carries
<1> QED
  BY <1>2, <1>3, <1>4, <1>6 DEF Life

\* Empty minerals go, and the rest stays as it is.
LEMMA EraseMineralsLife ==
  ASSUME IInv, EraseMinerals, NEW i \in Ids, i \in Ids'
  PROVE  Life(objs[i], objs'[i])
<1> DEFINE K == {k \in Ids : ~ (objs[k].type = "MINERAL" /\ objs[k].res <= 0)}
<1>1. objs' = Restrict(objs, K) /\ phase' = "return"
  BY DEF EraseMinerals
<1> HIDE DEF K
<1>2. objs'[i] = objs[i]
  BY <1>1, RestrictMap
<1> QED
  BY <1>1, <1>2 DEF Life, Alike, Carries

\* GameRefresh puts what is idle to rest and counts the cooldowns down.
LEMMA GameRefreshLife ==
  ASSUME IInv, GameRefresh, NEW i \in Ids, i \in Ids'
  PROVE  Life(objs[i], objs'[i])
<1>1. /\ phase = "return" /\ phase' = "idle"
      /\ objs[i] \in Object /\ objs'[i] = Refreshed(objs[i])
  BY Objects DEF GameRefresh
<1> DEFINE o == objs[i]
           q == IF IsAtRest(o) THEN Rested(o) ELSE o
           b == Banked(q)
<1>2. /\ q \in Object /\ q.type = o.type /\ q.owner = o.owner /\ q.res = o.res
      /\ q.act = o.act /\ q.coord = o.coord /\ q.cd = o.cd
      /\ q.hp = o.hp
      /\ IF IsAtRest(o) THEN q.progress = 0 /\ q.target = o.coord
                        ELSE q.progress = o.progress /\ q.target = o.target
                             /\ q.ptype = o.ptype
  <2>1. CASE IsAtRest(o)
    <3>1. q = [o EXCEPT !.target = o.coord, !.progress = 0, !.ptype = "TERRAIN"]
      BY <2>1 DEF Rested
    <3>2. "TERRAIN" \in GameObjType
      BY DEF GameObjType
    <3> HIDE DEF q, o
    <3>3. /\ q.type = o.type /\ q.owner = o.owner /\ q.hp = o.hp /\ q.res = o.res
          /\ q.act = o.act /\ q.coord = o.coord /\ q.cd = o.cd /\ q.progress = 0
          /\ q.target = o.coord
      BY <1>1, <3>1 DEF Object, o
    <3>4. q = [type |-> o.type, coord |-> o.coord, owner |-> o.owner, hp |-> o.hp,
               res |-> o.res, act |-> o.act, target |-> o.coord, progress |-> 0,
               cd |-> o.cd, ptype |-> "TERRAIN"]
      BY <1>1, <3>1 DEF Object, o
    <3>5. q \in Object
      BY <1>1, <3>2, <3>4 DEF Object, o
    <3> QED
      BY <2>1, <3>3, <3>5
  <2>2. CASE ~IsAtRest(o)
    BY <1>1, <2>2
  <2> QED
    BY <2>1, <2>2
<1>3. objs'[i] = [b EXCEPT !.cd = IF @ > 0 THEN @ - 1 ELSE 0]
  BY <1>1 DEF Refreshed
<1> HIDE DEF q
<1>4. \E r : b = [q EXCEPT !.res = r] /\ (q.type # "BASE" => r = q.res)
  BY DEF Banked
<1> HIDE DEF b
<1>5. PICK r : b = [q EXCEPT !.res = r] /\ (q.type # "BASE" => r = q.res)
  BY <1>4
<1>6. /\ b.type = q.type /\ b.owner = q.owner /\ b.act = q.act /\ b.coord = q.coord
      /\ b.cd = q.cd /\ b.progress = q.progress /\ b.target = q.target /\ b.ptype = q.ptype
      /\ b.hp = q.hp
      /\ q.type # "BASE" => b.res = q.res
      /\ DOMAIN b = DOMAIN q
  BY <1>2, <1>5 DEF Object
<1>7. "cd" \in DOMAIN q /\ "act" \in DOMAIN q
  BY <1>2 DEF Object
<1>8. LET p == objs'[i] IN
      /\ p.type = b.type /\ p.owner = b.owner /\ p.act = b.act /\ p.coord = b.coord
      /\ p.progress = b.progress /\ p.target = b.target /\ p.ptype = b.ptype
      /\ p.hp = b.hp
      /\ p.res = b.res /\ p.cd = IF b.cd > 0 THEN b.cd - 1 ELSE 0
  BY <1>2, <1>3, <1>6 DEF Object
<1>9. Refreshes(o, objs'[i])
  BY <1>1, <1>2, <1>6, <1>8 DEF Refreshes
<1> QED
  BY <1>1, <1>2, <1>6, <1>8, <1>9 DEF Life, Carries

\* Whatever is on the board before a step and after it lives on as the rules allow.
LEMMA LifeGoesOn ==
  ASSUME IInv, TimingOK, [Next]_vars, NEW i \in Ids, i \in Ids'
  PROVE  Life(objs[i], objs'[i])
<1>1. ASSUME NEW u, NEW t, NEW p,
             \/ BeginStep \/ EndAttack \/ CountOccupation \/ StepProduce(u, t, p)
             \/ ProduceThrows(u) \/ ExecuteCollisions \/ BeginSettleProduce
             \/ StepMove(u, t) \/ StepGather(u, t) \/ GatherThrows(u, t)
             \/ ReturnThrows(u, t) \/ Threw
      PROVE  Life(objs[i], objs'[i])
  <2>1. UNCHANGED objs
    BY <1>1, LocalSteps
  <2>2. phase' # "idle"
    BY <1>1 DEF BeginStep, EndAttack, CountOccupation, StepProduce, PassesProduce,
                ProduceThrows,
         ExecuteCollisions, BeginSettleProduce, StepMove, PassesMove, StepGather,
         PassesGather, GatherThrows,
         ReturnThrows, Threw, vars
  <2> QED
    BY <2>1, <2>2, QuietLife
<1>2. CASE Order
  BY <1>1, <1>2, StepAttackLife, StepReturnLife DEF Order
<1>3. CASE Execute
  BY <1>3, ExecuteAttackLife, ExecuteProduceLife, ExecuteMoveLife, ExecuteGatherLife
     DEF Execute
<1>4. CASE Settle
  BY <1>4, SettleProduceLife, SettleGatherLife, SettleMoveLife, EraseMineralsLife,
     GameRefreshLife DEF Settle
<1>5. CASE Advance \/ Threw
  BY <1>1, <1>5 DEF Advance
<1>6. CASE UNCHANGED vars
  BY <1>6 DEF Life, Carries, vars
<1> QED
  BY <1>2, <1>3, <1>4, <1>5, <1>6 DEF Next

\* The only object that a step can add is the one that GameSettleProduce puts on the
\* board, for the owner and of the type that the producer was asked for.
LEMMA Births ==
  ASSUME IInv, [Next]_vars, NEW i \in Ids', i \notin Ids
  PROVE  \E u \in todo :
           /\ SettleProduce(u) /\ objs[u].progress = 0 /\ i = objCnt
           /\ objs'[i] = Resting(objs[u].ptype, objs[u].target, objs[u].owner,
                                 Hp[objs[u].ptype], 0)
<1>1. ASSUME NEW u, NEW t, NEW p,
             \/ BeginStep \/ EndAttack \/ CountOccupation \/ StepProduce(u, t, p)
             \/ ProduceThrows(u) \/ ExecuteCollisions \/ BeginSettleProduce
             \/ StepMove(u, t) \/ StepGather(u, t) \/ GatherThrows(u, t)
             \/ ReturnThrows(u, t) \/ Threw
      PROVE  FALSE
  BY <1>1, LocalSteps
<1>2. ASSUME NEW u, NEW t, StepAttack(u, t) \/ StepReturn(u, t)
      PROVE  FALSE
  BY <1>2 DEF StepAttack, PassesAttack, StepReturn, PassesReturn
<1>3. ASSUME NEW u \in DOMAIN damage, ExecuteAttack(u)
      PROVE  FALSE
  BY <1>3, RestrictMap DEF ExecuteAttack
<1>4. ASSUME NEW u \in DOMAIN claims, ExecuteProduce(u)
      PROVE  FALSE
  BY <1>4 DEF ExecuteProduce, StartProduce
<1>5. ASSUME ExecuteMove \/ SettleMove \/ ExecuteGather
      PROVE  FALSE
  BY <1>5 DEF ExecuteMove, SettleMove, ExecuteGather
<1>6. ASSUME EraseMinerals \/ GameRefresh
      PROVE  FALSE
  BY <1>6, RestrictMap DEF EraseMinerals, GameRefresh
<1>7. ASSUME NEW u \in todo, SettleGather(u)
      PROVE  FALSE
  BY <1>7 DEF SettleGather
<1>8. ASSUME NEW u \in todo, SettleProduce(u)
      PROVE  /\ objs[u].progress = 0 /\ i = objCnt
             /\ objs'[i] = Resting(objs[u].ptype, objs[u].target, objs[u].owner,
                                   Hp[objs[u].ptype], 0)
  <2> DEFINE f == [objs EXCEPT ![u].act = "NOOP", ![u].progress = -1]
             q == Resting(objs[u].ptype, objs[u].target, objs[u].owner,
                          Hp[objs[u].ptype], 0)
  <2>1. CASE objs[u].progress # 0
    BY <1>8, <2>1 DEF SettleProduce
  <2>2. CASE objs[u].progress = 0
    <3>1. objs' = Put(f, objCnt, q)
      BY <1>8, <2>2 DEF SettleProduce
    <3>2. DOMAIN f = Ids
      OBVIOUS
    <3> HIDE DEF f, q
    <3>3. DOMAIN objs' = Ids \cup {objCnt} /\ objs'[objCnt] = q
      BY <3>1, <3>2 DEF Put
    <3> QED
      BY <2>2, <3>3 DEF q
  <2> QED
    BY <2>1, <2>2
<1>9. CASE UNCHANGED vars
  BY <1>9 DEF vars
<1> QED
  BY <1>1, <1>2, <1>3, <1>4, <1>5, <1>6, <1>7, <1>8, <1>9
     DEF Next, Order, Execute, Settle, Advance

-----------------------------------------------------------------------------
(* Actions that take time *)

\* Whoever has claimed something stays free until the claim is taken up or turned down.
LEMMA ClaimsStayFree ==
  ASSUME IInv, TimingOK, [Next]_vars
  PROVE  \A u \in DOMAIN claims' : Free(u)'
<1> SUFFICES ASSUME NEW v \in DOMAIN claims'
             PROVE  Free(v)'
  OBVIOUS
<1> USE DEF EmptyMap
<1>1. \A u \in DOMAIN claims : Free(u)
  BY DEF TimingOK
<1>2. DOMAIN claims \subseteq Ids
  BY Objects
<1>3. ASSUME UNCHANGED objs, \A u \in DOMAIN claims' : u \in DOMAIN claims \/ Free(u)
      PROVE  Free(v)'
  BY <1>1, <1>3 DEF Free
<1>4. ASSUME NEW u, NEW t, NEW p, StepProduce(u, t, p) \/ StepMove(u, t) \/ StepGather(u, t)
      PROVE  Free(v)'
  <2>1. UNCHANGED objs
    BY <1>4, LocalSteps
  <2>2. Free(u) /\ \E c : claims' = Put(claims, u, c)
    BY <1>4 DEF StepProduce, PassesProduce, StepMove, PassesMove, StepGather, PassesGather,
                ReachesFor
  <2>3. DOMAIN claims' = DOMAIN claims \cup {u}
    BY <2>2, PutMap
  <2> QED
    BY <1>3, <2>1, <2>2, <2>3
<1>5. CASE ExecuteCollisions
  <2>1. DOMAIN claims' \subseteq DOMAIN claims
    BY <1>5, RestrictMap DEF ExecuteCollisions, Unopposed
  <2> QED
    BY <1>3, <1>5, <2>1 DEF ExecuteCollisions, gameVars
<1>6. ASSUME NEW u \in DOMAIN claims, ExecuteProduce(u)
      PROVE  Free(v)'
  <2>1. v \in DOMAIN claims /\ v # u /\ u \in Ids /\ v \in Ids
    BY <1>2, <1>6, RestrictMap DEF ExecuteProduce, NextClaim
  <2>2. objs'[v] = objs[v]
    BY <1>6, <2>1 DEF ExecuteProduce, StartProduce
  <2> QED
    BY <1>1, <2>1, <2>2 DEF Free
<1>7. CASE ExecuteMove \/ ExecuteGather
  BY <1>7 DEF ExecuteMove, ExecuteGather
<1>8. ASSUME NEW u, NEW t,
             \/ ProduceThrows(u) \/ GatherThrows(u, t) \/ ReturnThrows(u, t)
             \/ Threw \/ UNCHANGED vars
      PROVE  Free(v)'
  BY <1>3, <1>8 DEF ProduceThrows, GatherThrows, ReturnThrows, Threw, vars, gameVars
<1>9. ASSUME \/ phase \notin {"produce", "execProduce", "move", "gather", "threw"}
             \/ todo # {},
             UNCHANGED claims
      PROVE  Free(v)'
  BY <1>9 DEF IInv, LocalsOK
<1>10. CASE BeginStep \/ EndAttack \/ CountOccupation
  BY <1>9, <1>10 DEF BeginStep, EndAttack, CountOccupation
<1>11. CASE BeginSettleProduce
  BY <1>11 DEF BeginSettleProduce
<1>12. ASSUME NEW u, NEW t, StepAttack(u, t) \/ StepReturn(u, t)
       PROVE  Free(v)'
  BY <1>9, <1>12 DEF StepAttack, PassesAttack, StepReturn, PassesReturn
<1>13. ASSUME NEW u \in DOMAIN damage, ExecuteAttack(u)
       PROVE  Free(v)'
  BY <1>9, <1>13 DEF ExecuteAttack
<1>14. CASE SettleMove \/ EraseMinerals \/ GameRefresh
  BY <1>9, <1>14 DEF SettleMove, EraseMinerals, GameRefresh
<1>15. ASSUME NEW u \in todo, SettleProduce(u) \/ SettleGather(u)
       PROVE  Free(v)'
  BY <1>9, <1>15 DEF SettleProduce, SettleGather
<1> QED
  BY <1>4, <1>5, <1>6, <1>7, <1>8, <1>10, <1>11, <1>12, <1>13, <1>14, <1>15
     DEF Next, Order, Execute, Settle, Advance

\* What the invariant of the actions says of one object.
Timed(o) ==
  IF o.act = "NOOP" THEN o.cd > 0 => o.progress = 0 ELSE o.cd = 0 /\ o.progress >= 0

\* And between two ticks.
Settled(o) == IF o.act = "NOOP" THEN o.progress = 0 ELSE o.progress >= 0

\* Every step keeps the times of the actions in order.
LEMMA TimingNext ==
  ASSUME IInv, TimingOK, [Next]_vars
  PROVE  TimingOK'
<1>1. \A i \in Ids : objs[i] \in Object
  BY Objects
<1>2. \A i \in Ids' : objs'[i] \in Object
  BY NextInv DEF IInv, TypeOK, IsMap
<1>3. \A i \in Ids' : Timed(objs'[i])
  <2> SUFFICES ASSUME NEW i \in Ids'
               PROVE  Timed(objs'[i])
    OBVIOUS
  <2>1. CASE i \in Ids
    <3>1. Life(objs[i], objs'[i]) /\ objs[i] \in Object /\ objs'[i] \in Object
      BY <1>1, <1>2, <2>1, LifeGoesOn
    <3>2. Timed(objs[i])
      BY <2>1 DEF TimingOK, Timed
    <3>3. objs[i].cd \in Nat /\ objs[i].progress \in Int /\ objs'[i].progress \in Int
      BY <3>1 DEF Object
    <3>4. CASE Alike(objs[i], objs'[i])
      BY <3>2, <3>4 DEF Timed, Alike
    <3>5. CASE UNCHANGED vars
      BY <3>2, <3>5 DEF vars
    <3>6. CASE Shoots(objs[i], objs'[i]) \/ Starts(objs[i], objs'[i])
      BY <3>6 DEF Timed, Shoots, Starts
    <3>7. CASE CountsDown(objs[i], objs'[i]) \/ Ends(objs[i], objs'[i])
      BY <3>2, <3>3, <3>7 DEF Timed, CountsDown, Ends
    <3>8. CASE Refreshes(objs[i], objs'[i])
      BY <3>2, <3>3, <3>8 DEF Timed, Refreshes, IsAtRest
    <3> QED
      BY <3>1, <3>4, <3>5, <3>6, <3>7, <3>8 DEF Life, Carries
  <2>2. CASE i \notin Ids
    <3>1. objs'[i].act = "NOOP" /\ objs'[i].progress = 0
      BY <2>2, Births DEF Resting
    <3> QED
      BY <3>1 DEF Timed
  <2> QED
    BY <2>1, <2>2
<1>4. ASSUME phase' = "idle", NEW i \in Ids'
      PROVE  Settled(objs'[i])
  <2>1. CASE i \in Ids
    <3>1. Life(objs[i], objs'[i]) /\ objs[i] \in Object
      BY <1>1, <2>1, LifeGoesOn
    <3>2. Timed(objs[i]) /\ objs[i].cd \in Nat
      BY <2>1, <3>1 DEF TimingOK, Timed, Object
    <3>3. CASE Refreshes(objs[i], objs'[i])
      BY <3>2, <3>3 DEF Timed, Settled, Refreshes, IsAtRest
    <3>4. CASE UNCHANGED vars
      BY <1>4, <2>1, <3>4 DEF vars, TimingOK, NoFrozenUnit, Settled
    <3> QED
      BY <1>4, <3>1, <3>3, <3>4 DEF Life, Carries
  <2>2. CASE i \notin Ids
    BY <1>4, <2>2, Births DEF Resting, Settled
  <2> QED
    BY <2>1, <2>2
<1>5. NoFrozenUnit'
  BY <1>4 DEF NoFrozenUnit, Settled
<1> QED
  BY <1>3, <1>5, ClaimsStayFree DEF TimingOK, Timed

\* Before the first tick nothing is under way.
LEMMA TimingInit ==
  ASSUME Init
  PROVE  TimingOK
<1>1. PICK b \in Boards : objs = [i \in DOMAIN b |-> Placed(b[i])]
  BY DEF Init
<1>2. \A i \in Ids : objs[i].act = "NOOP" /\ objs[i].progress = 0
  BY <1>1 DEF Placed, Resting
<1>3. DOMAIN claims = {}
  BY DEF Init, EmptyMap
<1> QED
  BY <1>2, <1>3 DEF TimingOK, NoFrozenUnit

\* Both invariants hold of a game at all times.
LEMMA Timing == Spec => [](IInv /\ TimingOK)
<1>1. Init => TimingOK
  BY TimingInit
<1>2. IInv /\ TimingOK /\ [Next]_vars => TimingOK'
  BY TimingNext
<1> QED
  BY <1>1, <1>2, Inductive, PTL DEF Spec

\* No object is ever stuck between two ticks with a progress that no loop of
\* GameStepSingle counts down (GameRefresh clears what the Settle loops leave at -1).
THEOREM NothingFreezes == Spec => []NoFrozenUnit
<1>1. TimingOK => NoFrozenUnit
  BY DEF TimingOK
<1> QED
  BY <1>1, Timing, PTL

\* An action under way runs on to its end, tick after tick, whatever is ordered in the
\* meantime: the guards of the five Step handlers leave it alone.
THEOREM ActionsComplete == Spec => RunsToCompletion
<1> DEFINE runs(i) ==
      LET o == objs[i]  p == objs'[i] IN
        o.act # "NOOP" =>
          /\ p.cd = 0
          /\ \/ /\ <<p.act, p.target, p.ptype>> = <<o.act, o.target, o.ptype>>
                /\ p.progress \in {o.progress, o.progress - 1}
                /\ p.coord = o.coord
             \/ p.act = "NOOP" /\ o.progress = 0
<1>1. ASSUME IInv, TimingOK, [Next]_vars, NEW i \in Ids \cap Ids'
      PROVE  runs(i)
  <2>1. Life(objs[i], objs'[i])
    BY <1>1, LifeGoesOn
  <2>2. objs[i].act # "NOOP" => objs[i].cd = 0 /\ ~IsAtRest(objs[i])
    BY <1>1 DEF TimingOK, IsAtRest
  <2>3. CASE Alike(objs[i], objs'[i])
    BY <2>2, <2>3 DEF Alike
  <2>4. CASE UNCHANGED vars
    BY <2>2, <2>4 DEF vars
  <2>5. CASE Shoots(objs[i], objs'[i]) \/ Starts(objs[i], objs'[i])
    BY <2>5 DEF Shoots, Starts, CanStart
  <2>6. CASE CountsDown(objs[i], objs'[i]) \/ Ends(objs[i], objs'[i])
    BY <2>2, <2>6 DEF CountsDown, Ends
  <2>7. CASE Refreshes(objs[i], objs'[i])
    BY <2>2, <2>7 DEF Refreshes
  <2> QED
    BY <2>1, <2>3, <2>4, <2>5, <2>6, <2>7 DEF Life, Carries
<1>2. IInv /\ TimingOK /\ [Next]_vars => [\A i \in Ids \cap DOMAIN objs' : runs(i)]_vars
  BY <1>1
<1> HIDE DEF runs
<1>3. Spec => [][\A i \in Ids \cap DOMAIN objs' : runs(i)]_vars
  BY <1>2, Timing, PTL DEF Spec
<1> QED
  BY <1>3 DEF RunsToCompletion, runs

-----------------------------------------------------------------------------
(* Buildings *)

\* What is on the board keeps its type and its owner.
LEMMA Lasting ==
  ASSUME IInv, TimingOK, [Next]_vars, NEW i \in Ids, i \in Ids'
  PROVE  objs'[i].type = objs[i].type /\ objs'[i].owner = objs[i].owner
BY LifeGoesOn DEF Life, Carries

\* A step that neither adds nor removes a building of a side leaves its buildings.
LEMMA SameBuildings ==
  ASSUME IInv, TimingOK, [Next]_vars, NEW s \in Sides,
         Ids' \subseteq Ids, BuildingsOf(s) \subseteq Ids'
  PROVE  BuildingsOf(s)' = BuildingsOf(s)
<1>1. \A i \in Ids' : objs'[i].type = objs[i].type /\ objs'[i].owner = objs[i].owner
  BY Lasting
<1> QED
  BY <1>1 DEF BuildingsOf

\* The steps that do not touch the count, nor the objects but the minerals.
LEMMA UncountedSteps ==
  ASSUME IInv, [Next]_vars,
         \A u \in DOMAIN damage : ~ExecuteAttack(u),
         \A u \in todo : ~SettleProduce(u), ~GameRefresh
  PROVE  /\ UNCHANGED buildingCnt
         /\ Ids' \subseteq Ids
         /\ \A i \in Ids \ Ids' : objs[i].type = "MINERAL"
<1>1. ASSUME NEW u, NEW t, NEW p,
             \/ BeginStep \/ EndAttack \/ CountOccupation \/ StepProduce(u, t, p)
             \/ ProduceThrows(u) \/ ExecuteCollisions \/ BeginSettleProduce
             \/ StepMove(u, t) \/ StepGather(u, t) \/ GatherThrows(u, t)
             \/ ReturnThrows(u, t) \/ Threw
      PROVE  UNCHANGED <<objs, buildingCnt>>
  BY <1>1 DEF BeginStep, EndAttack, CountOccupation, StepProduce, PassesProduce, ProduceThrows,
       ExecuteCollisions, BeginSettleProduce, StepMove, PassesMove, StepGather, PassesGather,
       GatherThrows,
       ReturnThrows, Threw, gameVars, vars
<1>2. ASSUME NEW u, NEW t, StepAttack(u, t) \/ StepReturn(u, t)
      PROVE  Ids' = Ids /\ UNCHANGED buildingCnt
  BY <1>2 DEF StepAttack, PassesAttack, StepReturn, PassesReturn
<1>3. ASSUME NEW u \in DOMAIN claims, ExecuteProduce(u)
      PROVE  Ids' = Ids /\ UNCHANGED buildingCnt
  BY <1>3 DEF ExecuteProduce, StartProduce, NextClaim
<1>4. ASSUME ExecuteMove \/ SettleMove \/ ExecuteGather
      PROVE  Ids' = Ids /\ UNCHANGED buildingCnt
  BY <1>4 DEF ExecuteMove, SettleMove, ExecuteGather
<1>5. ASSUME EraseMinerals
      PROVE  /\ Ids' \subseteq Ids /\ UNCHANGED buildingCnt
             /\ \A i \in Ids \ Ids' : objs[i].type = "MINERAL"
  BY <1>5, RestrictMap DEF EraseMinerals
<1>6. ASSUME NEW u \in todo, SettleGather(u)
      PROVE  Ids' = Ids /\ UNCHANGED buildingCnt
  BY <1>6 DEF SettleGather
<1>7. CASE UNCHANGED vars
  BY <1>7 DEF vars
<1> QED
  BY <1>1, <1>2, <1>3, <1>4, <1>5, <1>6, <1>7
     DEF Next, Order, Execute, Settle, Advance

\* A building that is destroyed is counted off.
LEMMA AttackCounts ==
  ASSUME IInv, TimingOK, CountOK, NEW u \in DOMAIN damage, ExecuteAttack(u)
  PROVE  CountOK'
<1> USE DEF IsBuilding
<1>1. u \in Ids /\ IsFiniteSet(Ids) /\ [Next]_vars
  BY Objects DEF CountOK, Next, Execute
<1>2. objs[u].owner \in Sides
  <2>1. objs[u].type \in OwnedTypes /\ objs[u] \in Object
    BY <1>1, Objects DEF IInv, LocalsOK, CanBeAttacked
  <2>2. objs[u].owner # 0
    BY <1>1, <2>1 DEF IInv, TypeOK, OwnedTypes, MobileTypes, Buildings
  <2> QED
    BY <2>1, <2>2 DEF Object, Owners, Sides
<1>3. buildingCnt \in [Sides -> Int]
  BY DEF IInv, TypeOK
<1>4. CASE Ids' = Ids /\ UNCHANGED buildingCnt
  <2>1. \A s \in Sides : BuildingsOf(s)' = BuildingsOf(s)
    BY <1>1, <1>4, SameBuildings DEF BuildingsOf
  <2> QED
    BY <1>1, <1>4, <2>1 DEF CountOK, BuildingCount
<1>5. CASE objs' = Restrict(objs, Ids \ {u})
  <2>1. Ids' = Ids \ {u}
    BY <1>5, RestrictMap
  <2>2. IsFiniteSet(Ids')
    BY <1>1, <2>1, FS_RemoveElement
  <2>3. ASSUME NEW s \in Sides
        PROVE  buildingCnt'[s] = Cardinality(BuildingsOf(s)')
    <3> DEFINE B == BuildingsOf(s)
    <3>1. IsFiniteSet(B)
      BY <1>1, FS_Subset DEF BuildingsOf
    <3>2. buildingCnt[s] = Cardinality(B) /\ Cardinality(B) \in Nat
      BY <3>1, FS_CardinalityType DEF CountOK, BuildingCount
    <3>3. BuildingsOf(s)' = B \ {u}
      <4>1. \A i \in Ids' : objs'[i] = objs[i]
        BY <1>5, <2>1, RestrictMap
      <4> QED
        BY <2>1, <4>1 DEF BuildingsOf
    <3>4. CASE u \in B
      <4>1. buildingCnt' = [buildingCnt EXCEPT ![s] = @ - 1]
        BY <1>5, <2>1, <3>4 DEF ExecuteAttack, BuildingsOf
      <4>2. Cardinality(B \ {u}) = Cardinality(B) - 1
        BY <3>1, <3>4, FS_RemoveElement
      <4> QED
        BY <1>3, <3>2, <3>3, <4>1, <4>2
    <3>5. CASE u \notin B
      <4>1. buildingCnt'[s] = buildingCnt[s]
        BY <1>1, <1>2, <1>3, <3>5 DEF ExecuteAttack, BuildingsOf
      <4>2. B \ {u} = B
        BY <3>5
      <4> QED
        BY <3>2, <3>3, <4>1, <4>2
    <3> QED
      BY <3>4, <3>5
  <2> QED
    BY <2>2, <2>3 DEF CountOK, BuildingCount
<1>6. objs' = Restrict(objs, Ids \ {u}) \/ (Ids' = Ids /\ UNCHANGED buildingCnt)
  BY <1>1 DEF ExecuteAttack
<1> QED
  BY <1>4, <1>5, <1>6

\* A building that is finished is counted.
LEMMA ProduceCounts ==
  ASSUME IInv, TimingOK, CountOK, NEW u \in todo, SettleProduce(u)
  PROVE  CountOK'
<1> USE DEF IsBuilding
<1> DEFINE o == objs[u]
           n == objCnt
<1>1. /\ u \in Ids /\ IsFiniteSet(Ids) /\ [Next]_vars
      /\ n \notin Ids /\ o.act = "PRODUCE"
      /\ phase = "move"
  BY Objects DEF CountOK, Next, Settle, SettleProduce, IInv, LocalsOK, Producers
<1>2. o.owner \in Sides
  <2>1. o.type \in DOMAIN OBJ_PRODUCE_MAP /\ o \in Object
    BY <1>1, Objects DEF IInv, ActionOK
  <2>2. o.owner # 0
    BY <1>1, <2>1 DEF IInv, TypeOK, OBJ_PRODUCE_MAP
  <2> QED
    BY <2>1, <2>2 DEF Object, Owners, Sides
<1>3. buildingCnt \in [Sides -> Int]
  BY DEF IInv, TypeOK
<1>4. CASE o.progress # 0
  <2>1. Ids' = Ids /\ UNCHANGED buildingCnt
    BY <1>4 DEF SettleProduce
  <2>2. \A s \in Sides : BuildingsOf(s)' = BuildingsOf(s)
    BY <1>1, <2>1, SameBuildings DEF BuildingsOf
  <2> QED
    BY <1>1, <2>1, <2>2 DEF CountOK, BuildingCount
<1>5. CASE o.progress = 0
  <2> DEFINE f == [objs EXCEPT ![u].act = "NOOP", ![u].progress = -1]
             q == Resting(o.ptype, o.target, o.owner, Hp[o.ptype], 0)
  <2>1. objs' = Put(f, n, q)
    BY <1>5 DEF SettleProduce
  <2>2. DOMAIN f = Ids
    OBVIOUS
  <2> HIDE DEF f, q, n
  <2>3. Ids' = Ids \cup {n} /\ objs'[n] = q
    BY <2>1, <2>2 DEF Put
  <2>4. IsFiniteSet(Ids')
    BY <1>1, <2>3, FS_AddElement
  <2>5. q.type = o.ptype /\ q.owner = o.owner
    BY DEF q, Resting
  <2>6. buildingCnt' = IF o.ptype \in Buildings
                         THEN [buildingCnt EXCEPT ![o.owner] = @ + 1] ELSE buildingCnt
    BY <1>5 DEF SettleProduce
  <2>7. ASSUME NEW s \in Sides
        PROVE  buildingCnt'[s] = Cardinality(BuildingsOf(s)')
    <3> DEFINE B == BuildingsOf(s)
    <3>1. IsFiniteSet(B) /\ n \notin B
      BY <1>1, FS_Subset DEF BuildingsOf
    <3>2. buildingCnt[s] = Cardinality(B) /\ Cardinality(B) \in Nat
      BY <3>1, FS_CardinalityType DEF CountOK, BuildingCount
    <3>3. \A i \in Ids : objs'[i].type = objs[i].type /\ objs'[i].owner = objs[i].owner
      BY <1>1, <2>3, Lasting
    <3>4. CASE o.ptype \in Buildings /\ o.owner = s
      <4>1. BuildingsOf(s)' = B \cup {n}
        BY <1>1, <2>3, <2>5, <3>3, <3>4 DEF BuildingsOf
      <4>2. buildingCnt'[s] = buildingCnt[s] + 1
        BY <1>3, <2>6, <3>4
      <4>3. Cardinality(B \cup {n}) = Cardinality(B) + 1
        BY <3>1, FS_AddElement
      <4> QED
        BY <3>2, <4>1, <4>2, <4>3
    <3>5. CASE ~(o.ptype \in Buildings /\ o.owner = s)
      <4>1. BuildingsOf(s)' = B
        BY <1>1, <2>3, <2>5, <3>3, <3>5 DEF BuildingsOf
      <4>2. buildingCnt'[s] = buildingCnt[s]
        BY <1>2, <1>3, <2>6, <3>5
      <4> QED
        BY <3>2, <4>1, <4>2
    <3> QED
      BY <3>4, <3>5
  <2> QED
    BY <2>4, <2>7 DEF CountOK, BuildingCount
<1> QED
  BY <1>4, <1>5

\* A side that GameRefresh clears off the board has no building left to count.
LEMMA RefreshCounts ==
  ASSUME IInv, TimingOK, CountOK, GameRefresh
  PROVE  CountOK'
<1>1. Ids' \subseteq Ids /\ UNCHANGED buildingCnt /\ IsFiniteSet(Ids) /\ [Next]_vars
  BY DEF GameRefresh, CountOK, Next, Settle
<1>2. IsFiniteSet(Ids')
  BY <1>1, FS_Subset
<1>3. ASSUME NEW s \in Sides
      PROVE  buildingCnt'[s] = Cardinality(BuildingsOf(s)')
  <2> DEFINE B == BuildingsOf(s)
  <2>1. IsFiniteSet(B)
    BY <1>1, FS_Subset DEF BuildingsOf
  <2>2. buildingCnt[s] = Cardinality(B) /\ Cardinality(B) \in Nat
    BY <2>1, FS_CardinalityType DEF CountOK, BuildingCount
  <2>3. s \in Defeated => B = {}
    BY <2>1, <2>2, FS_EmptySet DEF Defeated
  <2>4. B \subseteq Ids'
    BY <2>3 DEF GameRefresh, BuildingsOf
  <2>5. BuildingsOf(s)' = B
    BY <1>1, <2>4, SameBuildings
  <2> QED
    BY <1>1, <2>2, <2>5
<1> QED
  BY <1>2, <1>3 DEF CountOK, BuildingCount

\* Every step keeps the count.
LEMMA CountNext ==
  ASSUME IInv, TimingOK, CountOK, [Next]_vars
  PROVE  CountOK'
<1>1. ASSUME \A u \in DOMAIN damage : ~ExecuteAttack(u),
             \A u \in todo : ~SettleProduce(u), ~GameRefresh
      PROVE  CountOK'
  <2>1. /\ UNCHANGED buildingCnt /\ Ids' \subseteq Ids
        /\ \A i \in Ids \ Ids' : objs[i].type = "MINERAL"
    BY <1>1, UncountedSteps
  <2>2. \A s \in Sides : BuildingsOf(s) \subseteq Ids'
    BY <2>1 DEF BuildingsOf, Buildings
  <2>3. \A s \in Sides : BuildingsOf(s)' = BuildingsOf(s)
    BY <2>1, <2>2, SameBuildings
  <2>4. IsFiniteSet(Ids')
    BY <2>1, FS_Subset DEF CountOK
  <2> QED
    BY <2>1, <2>3, <2>4 DEF CountOK, BuildingCount
<1> QED
  BY <1>1, AttackCounts, ProduceCounts, RefreshCounts

\* Every side starts with one building, its base.
LEMMA CountInit ==
  ASSUME Init
  PROVE  CountOK
<1>1. PICK b \in Boards : objs = [i \in DOMAIN b |-> Placed(b[i])]
  BY DEF Init
<1>2. /\ IsFiniteSet(DOMAIN b)
      /\ b \in [DOMAIN b -> [type : {"TERRAIN", "MINERAL", "BASE"},
                             coord : Tiles, owner : Owners]]
      /\ \A i \in DOMAIN b : b[i].type = "BASE" <=> b[i].owner \in Sides
      /\ \A s \in Sides : \E i \in DOMAIN b : \A j \in DOMAIN b : b[j].owner = s <=> i = j
  BY BoardLayout DEF BoardLayout, IsLayout
<1>3. /\ Ids = DOMAIN b
      /\ \A i \in Ids : objs[i].type = b[i].type /\ objs[i].owner = b[i].owner
  BY <1>1 DEF Placed, Resting
<1>4. ASSUME NEW s \in Sides
      PROVE  buildingCnt[s] = Cardinality(BuildingsOf(s))
  <2>1. PICK i \in DOMAIN b : \A j \in DOMAIN b : b[j].owner = s <=> i = j
    BY <1>2
  <2>2. b[i].type = "BASE"
    BY <1>2, <2>1
  <2>3. BuildingsOf(s) = {i}
    BY <1>3, <2>1, <2>2 DEF BuildingsOf, Buildings
  <2>4. Cardinality({i}) = 1
    BY FS_Singleton
  <2> QED
    BY <2>3, <2>4 DEF Init
<1> QED
  BY <1>2, <1>3, <1>4 DEF CountOK, BuildingCount

\* The three invariants hold of a game at all times.
LEMMA Counting == Spec => [](IInv /\ TimingOK /\ CountOK)
<1>1. Init => CountOK
  BY CountInit
<1>2. IInv /\ TimingOK /\ CountOK /\ [Next]_vars => CountOK'
  BY CountNext
<1> QED
  BY <1>1, <1>2, Timing, PTL DEF Spec

\* buildingCnt is the number of buildings on the board, at every moment of every tick
\* (GameExecuteAttack, GameSettleProduce and GameRefresh each keep it so).
THEOREM BuildingsAreCounted == Spec => []BuildingCount
<1>1. CountOK => BuildingCount
  BY DEF CountOK
<1> QED
  BY <1>1, Counting, PTL

-----------------------------------------------------------------------------
(* What GameRefresh sees to *)

\* Nothing happens between two ticks.
LEMMA IdleNext ==
  ASSUME [Next]_vars, phase' = "idle"
  PROVE  GameRefresh \/ (phase = "idle" /\ UNCHANGED vars)
<1>1. ASSUME NEW u, NEW t, NEW p,
             \/ BeginStep \/ EndAttack \/ CountOccupation \/ StepProduce(u, t, p)
             \/ ProduceThrows(u) \/ ExecuteCollisions \/ BeginSettleProduce
             \/ StepMove(u, t) \/ StepGather(u, t) \/ GatherThrows(u, t)
             \/ ReturnThrows(u, t) \/ Threw
      PROVE  FALSE
  BY <1>1 DEF BeginStep, EndAttack, CountOccupation, StepProduce, PassesProduce, ProduceThrows,
       ExecuteCollisions, BeginSettleProduce, StepMove, PassesMove, StepGather, PassesGather,
       GatherThrows,
       ReturnThrows, Threw, vars
<1>2. ASSUME NEW u, NEW t, StepAttack(u, t) \/ StepReturn(u, t)
      PROVE  FALSE
  BY <1>2 DEF StepAttack, PassesAttack, StepReturn, PassesReturn
<1>3. ASSUME NEW u, ExecuteAttack(u) \/ ExecuteProduce(u)
      PROVE  FALSE
  BY <1>3 DEF ExecuteAttack, ExecuteProduce, NextClaim
<1>4. ASSUME NEW u, SettleProduce(u) \/ SettleGather(u)
      PROVE  FALSE
  BY <1>4 DEF SettleProduce, SettleGather
<1>5. ASSUME ExecuteMove \/ SettleMove \/ ExecuteGather \/ EraseMinerals
      PROVE  FALSE
  BY <1>5 DEF ExecuteMove, SettleMove, ExecuteGather, EraseMinerals
<1>6. CASE UNCHANGED vars
  BY <1>6 DEF vars
<1> QED
  BY <1>1, <1>2, <1>3, <1>4, <1>5, <1>6
     DEF Next, Order, Execute, Settle, Advance

\* Between two ticks every BASE shows the bank of its player (GameRefresh).
THEOREM BasesShowBanks == Spec => []BaseShowsBank
<1>1. Init => BaseShowsBank
  <2> SUFFICES ASSUME Init, NEW i \in Ids, objs[i].type = "BASE"
               PROVE  objs[i].res = resource[objs[i].owner]
    BY DEF BaseShowsBank
  <2>1. PICK b \in Boards : objs = [k \in DOMAIN b |-> Placed(b[k])]
    BY DEF Init
  <2>2. /\ objs[i].type = b[i].type /\ objs[i].owner = b[i].owner
        /\ b[i].type = "BASE" => objs[i].res = InitResource
    BY <2>1 DEF Placed, Resting
  <2>3. b[i].owner \in Sides
    BY <2>1, <2>2, BoardLayout DEF BoardLayout, IsLayout
  <2> QED
    BY <2>2, <2>3 DEF Init
<1>2. ASSUME IInv, BaseShowsBank, [Next]_vars
      PROVE  BaseShowsBank'
  <2> SUFFICES ASSUME phase' = "idle", NEW i \in Ids', objs'[i].type = "BASE"
               PROVE  objs'[i].res = resource'[objs'[i].owner]
    BY DEF BaseShowsBank
  <2>1. CASE GameRefresh
    <3>0. i \in Ids /\ objs'[i] = Refreshed(objs[i]) /\ resource' = resource
      BY <2>1 DEF GameRefresh
    <3>1. i \in Ids /\ objs[i] \in Object /\ objs'[i] = Refreshed(objs[i])
          /\ resource' = resource
      BY <1>2, <3>0, Objects
    <3> DEFINE q == IF IsAtRest(objs[i]) THEN Rested(objs[i]) ELSE objs[i]
               r == IF q.type = "BASE" THEN resource[q.owner] ELSE q.res
    <3>2. /\ q.type = objs[i].type /\ q.owner = objs[i].owner /\ q.cd = objs[i].cd
          /\ {"type", "owner", "cd", "res"} \subseteq DOMAIN q
      <4>1. CASE IsAtRest(objs[i])
        <5>1. q = [objs[i] EXCEPT !.target = objs[i].coord, !.progress = 0,
                                  !.ptype = "TERRAIN"]
          BY <4>1 DEF Rested
        <5> HIDE DEF q
        <5> QED
          BY <3>1, <5>1 DEF Object
      <4>2. CASE ~IsAtRest(objs[i])
        <5>1. q = objs[i]
          BY <4>2
        <5> HIDE DEF q
        <5> QED
          BY <3>1, <5>1 DEF Object
      <4> QED
        BY <4>1, <4>2
    <3>3. objs'[i] = [[q EXCEPT !.res = r] EXCEPT !.cd = IF @ > 0 THEN @ - 1 ELSE 0]
      BY <3>1 DEF Refreshed, Banked
    <3> HIDE DEF q, r
    <3>4. objs'[i].type = q.type /\ objs'[i].owner = q.owner /\ objs'[i].res = r
      BY <3>2, <3>3
    <3>5. objs[i].type = "BASE" /\ objs'[i].owner = objs[i].owner
      BY <3>2, <3>4
    <3>6. r = resource[objs[i].owner]
      BY <3>2, <3>5 DEF r
    <3> QED
      BY <3>1, <3>4, <3>5, <3>6
  <2>2. CASE phase = "idle" /\ UNCHANGED vars
    BY <1>2, <2>2 DEF BaseShowsBank, vars
  <2> QED
    BY <1>2, <2>1, <2>2, IdleNext
<1> QED
  BY <1>1, <1>2, Inductive, PTL DEF Spec

\* A side that has lost its last building is cleared off the board in the same tick
\* (GameRefresh), so that whoever is still there can still produce.
THEOREM DefeatClears == Spec => []DefeatIsTotal
<1>1. Init => DefeatIsTotal
  BY DEF Init, DefeatIsTotal
<1>2. ASSUME DefeatIsTotal, [Next]_vars
      PROVE  DefeatIsTotal'
  <2>1. CASE GameRefresh
    <3> SUFFICES ASSUME NEW s \in Sides, buildingCnt'[s] = 0, NEW i \in Ids'
                 PROVE  objs'[i].owner # s
      BY DEF DefeatIsTotal
    <3>1. GameOver /\ s \in Defeated
      BY <2>1 DEF GameRefresh, GameOver, Defeated
    <3>2. i \in Ids /\ objs[i].owner # s /\ objs'[i] = Refreshed(objs[i])
      BY <2>1, <3>1 DEF GameRefresh
    <3>3. objs'[i].owner = objs[i].owner
      BY <3>2 DEF Refreshed, Banked, Rested
    <3> QED
      BY <3>2, <3>3
  <2>2. CASE phase = "idle" /\ UNCHANGED vars
    BY <1>2, <2>2 DEF DefeatIsTotal, vars
  <2>3. CASE phase' # "idle"
    BY <2>3 DEF DefeatIsTotal
  <2> QED
    BY <1>2, <2>1, <2>2, <2>3, IdleNext
<1> QED
  BY <1>1, <1>2, PTL DEF Spec

-----------------------------------------------------------------------------
(* Defeat *)

\* A side without anything on the board stays without: only what it has could build.
LEMMA WipedOutStays ==
  ASSUME IInv, TimingOK, [Next]_vars, NEW s \in Sides, WipedOut(s)
  PROVE  WipedOut(s)'
<1>1. \A i \in Ids : objs[i].owner # s
  BY DEF WipedOut
<1>2. \A i \in Ids' : objs'[i].owner # s
  <2> SUFFICES ASSUME NEW i \in Ids' PROVE objs'[i].owner # s
    OBVIOUS
  <2>1. CASE i \in Ids
    BY <1>1, <2>1, Lasting
  <2>2. CASE i \notin Ids
    <3>1. PICK u \in todo : objs'[i] = Resting(objs[u].ptype, objs[u].target,
                                               objs[u].owner, Hp[objs[u].ptype], 0)
      BY <2>2, Births
    <3>2. u \in Ids
      BY Objects
    <3> QED
      BY <1>1, <3>1, <3>2 DEF Resting
  <2> QED
    BY <2>1, <2>2
<1>3. buildingCnt'[s] = buildingCnt[s]
  <2>1. buildingCnt \in [Sides -> Int]
    BY DEF IInv, TypeOK
  <2>2. ASSUME NEW u \in DOMAIN damage, ExecuteAttack(u)
        PROVE  buildingCnt'[s] = buildingCnt[s]
    BY <1>1, <2>1, <2>2, Objects DEF ExecuteAttack
  <2>3. ASSUME NEW u \in todo, SettleProduce(u)
        PROVE  buildingCnt'[s] = buildingCnt[s]
    BY <1>1, <2>1, <2>3, Objects DEF SettleProduce
  <2>4. CASE GameRefresh
    BY <2>4 DEF GameRefresh
  <2> QED
    BY <2>2, <2>3, <2>4, UncountedSteps
<1> QED
  BY <1>2, <1>3 DEF WipedOut

\* Who has lost, has lost: from the tick that brought a side's count to zero on it never
\* leaves zero again, whatever is ordered.
THEOREM DefeatLasts == Spec => DefeatIsFinal
<1>1. ASSUME NEW s \in Sides
      PROVE  Spec => []((phase = "idle" /\ buildingCnt[s] = 0) => [](buildingCnt[s] = 0))
  <2>1. DefeatIsTotal /\ phase = "idle" /\ buildingCnt[s] = 0 => WipedOut(s)
    BY DEF DefeatIsTotal, WipedOut
  <2>2. IInv /\ TimingOK /\ [Next]_vars /\ WipedOut(s) => WipedOut(s)'
    BY WipedOutStays
  <2>3. WipedOut(s) => buildingCnt[s] = 0
    BY DEF WipedOut
  <2> QED
    BY <2>1, <2>2, <2>3, Timing, DefeatClears, PTL DEF Spec
<1> QED
  BY <1>1 DEF DefeatIsFinal

-----------------------------------------------------------------------------
(* Sums over finite sets: SumFunctionOnSet chooses a recursive function, and *)
(* what holds of it is shown from the smallest set that it could fail of     *)

\* The element that a fold takes first.
First(s) == CHOOSE x \in s : TRUE

\* g is the sum of f over S and all its subsets.
IsSum(f, S, g) ==
  g = [s \in SUBSET S |-> IF s = {} THEN 0 ELSE f[First(s)] + g[s \ {First(s)}]]

\* The definition of the library, in these terms.
LEMMA SumIsChosen ==
  ASSUME NEW f, NEW S
  PROVE  SumFunctionOnSet(f, S) = (CHOOSE g : IsSum(f, S, g))[S]
BY DEF SumFunctionOnSet, FoldFunctionOnSet, MapThenFoldSet, IsSum, First

\* Of some finite sets one is smallest.
LEMMA SmallestSubset ==
  ASSUME NEW S, IsFiniteSet(S), NEW B \in SUBSET SUBSET S, B # {}
  PROVE  \E T \in B : \A U \in B : U \subseteq T => U = T
<1>1. IsWellFoundedOn(StrictSubsetOrdering(S), SUBSET S)
  BY FS_StrictSubsetOrderingWellFounded, FS_FiniteSubsetsOfFinite
<1>2. \E T \in B : \A U \in B : ~ (<<U, T>> \in StrictSubsetOrdering(S))
  BY <1>1, WFMin
<1> QED
  BY <1>2 DEF StrictSubsetOrdering

\* Two sums agree wherever both are defined.
LEMMA SumsAgree ==
  ASSUME NEW f, NEW S, NEW T, NEW g, NEW h, IsSum(f, S, g), IsSum(f, T, h),
         NEW R \in SUBSET S, R \subseteq T, IsFiniteSet(R)
  PROVE  g[R] = h[R]
<1> DEFINE B == {U \in SUBSET R : g[U] # h[U]}
<1>1. SUFFICES ASSUME B # {}
               PROVE  FALSE
  OBVIOUS
<1>2. PICK U \in B : \A V \in B : V \subseteq U => V = U
  <2>1. B \in SUBSET SUBSET R
    OBVIOUS
  <2> HIDE DEF B
  <2> QED
    BY <1>1, <2>1, SmallestSubset
<1> DEFINE x == First(U)
<1>3. U # {}
  BY <1>2 DEF IsSum
<1>4. x \in U
  BY <1>3 DEF First
<1>5. g[U \ {x}] = h[U \ {x}]
  BY <1>2, <1>4
<1>6. g[U] = f[x] + g[U \ {x}] /\ h[U] = f[x] + h[U \ {x}]
  BY <1>2, <1>3 DEF IsSum
<1> QED
  BY <1>2, <1>5, <1>6

\* Every finite set has one.
LEMMA SumExists ==
  ASSUME NEW f, NEW S, IsFiniteSet(S)
  PROVE  \E g : IsSum(f, S, g)
<1> DEFINE B == {T \in SUBSET S : ~ \E g : IsSum(f, T, g)}
<1>1. SUFFICES ASSUME B # {}
               PROVE  FALSE
  OBVIOUS
<1>2. PICK T \in B : \A U \in B : U \subseteq T => U = T
  <2>1. B \in SUBSET SUBSET S
    OBVIOUS
  <2> HIDE DEF B
  <2> QED
    BY <1>1, <2>1, SmallestSubset
<1> DEFINE G(s) == CHOOSE g : IsSum(f, s, g)
           x == First(T)
           h == [s \in SUBSET T |-> IF s = T THEN f[x] + G(T \ {x})[T \ {x}] ELSE G(s)[s]]
<1>3. \A s \in SUBSET T : s # T => IsSum(f, s, G(s)) /\ IsFiniteSet(s)
  BY <1>2, FS_Subset
<1> HIDE DEF G
<1>4. T # {}
  <2>1. ASSUME T = {}
        PROVE  IsSum(f, T, [s \in SUBSET T |-> 0])
    BY <2>1 DEF IsSum
  <2> QED
    BY <1>2, <2>1
<1>5. x \in T /\ T \ {x} # T
  BY <1>4 DEF First
<1>6. ASSUME NEW s \in SUBSET T, s # {}, s # T
      PROVE  h[s] = f[First(s)] + h[s \ {First(s)}]
  <2> DEFINE r == s \ {First(s)}
  <2>1. First(s) \in s /\ r \in SUBSET T /\ r # T /\ r \in SUBSET s
    BY <1>6 DEF First
  <2>2. IsSum(f, s, G(s)) /\ IsSum(f, r, G(r)) /\ IsFiniteSet(r)
    BY <1>3, <1>6, <2>1
  <2>3. G(s)[s] = f[First(s)] + G(s)[r]
    BY <1>6, <2>2 DEF IsSum
  <2>4. G(s)[r] = G(r)[r]
    BY <2>1, <2>2, SumsAgree
  <2> QED
    BY <1>6, <2>1, <2>3, <2>4
<1>7. h[{}] = 0
  <2>1. h[{}] = G({})[{}] /\ IsSum(f, {}, G({}))
    BY <1>3, <1>4
  <2> QED
    BY <2>1 DEF IsSum
<1>8. h[T] = f[First(T)] + h[T \ {First(T)}]
  BY <1>5
<1>9. IsSum(f, T, h)
  <2>1. \A s \in SUBSET T : h[s] = IF s = {} THEN 0 ELSE f[First(s)] + h[s \ {First(s)}]
    BY <1>4, <1>6, <1>7, <1>8
  <2>2. h = [s \in SUBSET T |-> h[s]]
    OBVIOUS
  <2> HIDE DEF h, x
  <2> QED
    BY <2>1, <2>2 DEF IsSum
<1> QED
  BY <1>2, <1>9

\* The sum over a set, unfolded once.
LEMMA SumUnfolds ==
  ASSUME NEW f, NEW S, IsFiniteSet(S)
  PROVE  SumFunctionOnSet(f, S) = IF S = {} THEN 0 ELSE f[First(S)] + SumFunctionOnSet(f, S \ {First(S)})
<1> DEFINE G(s) == CHOOSE g : IsSum(f, s, g)
<1>1. ASSUME NEW s, IsFiniteSet(s)
      PROVE  IsSum(f, s, G(s)) /\ SumFunctionOnSet(f, s) = G(s)[s]
  BY <1>1, SumExists, SumIsChosen
<1> HIDE DEF G
<1>2. CASE S = {}
  BY <1>1, <1>2 DEF IsSum
<1>3. CASE S # {}
  <2> DEFINE r == S \ {First(S)}
  <2>1. IsFiniteSet(r) /\ r \in SUBSET S
    BY FS_Subset
  <2>2. G(S)[r] = G(r)[r]
    BY <1>1, <2>1, SumsAgree
  <2>3. G(S)[S] = f[First(S)] + G(S)[r]
    BY <1>1, <1>3 DEF IsSum
  <2> QED
    BY <1>1, <1>3, <2>1, <2>2, <2>3
<1> QED
  BY <1>2, <1>3

\* Whatever the order, each element counts once.
LEMMA SumRemove ==
  ASSUME NEW f, NEW S, IsFiniteSet(S), \A i \in S : f[i] \in Int
  PROVE  /\ SumFunctionOnSet(f, S) \in Int
         /\ \A x \in S : SumFunctionOnSet(f, S) = f[x] + SumFunctionOnSet(f, S \ {x})
<1> DEFINE Good(T) == /\ SumFunctionOnSet(f, T) \in Int
                      /\ \A x \in T : SumFunctionOnSet(f, T) = f[x] + SumFunctionOnSet(f, T \ {x})
           B == {T \in SUBSET S : ~Good(T)}
<1>1. SUFFICES ASSUME B # {}
               PROVE  FALSE
  OBVIOUS
<1>2. PICK T \in B : \A U \in B : U \subseteq T => U = T
  <2>1. B \in SUBSET SUBSET S
    OBVIOUS
  <2> HIDE DEF B
  <2> QED
    BY <1>1, <2>1, SmallestSubset
<1>3. IsFiniteSet(T) /\ \A i \in T : f[i] \in Int
  BY <1>2, FS_Subset
<1>4. \A U \in SUBSET T : U # T => Good(U) /\ IsFiniteSet(U)
  BY <1>2, <1>3, FS_Subset
<1>5. T # {}
  <2>1. SumFunctionOnSet(f, {}) = 0
    BY SumUnfolds, FS_EmptySet
  <2>2. Good({})
    BY <2>1
  <2> QED
    BY <1>2, <2>2
<1> DEFINE c == First(T)
<1>6. c \in T
  BY <1>5 DEF First
<1> HIDE DEF c
<1>7. SumFunctionOnSet(f, T) = f[c] + SumFunctionOnSet(f, T \ {c})
  BY <1>3, <1>5, SumUnfolds DEF c
<1>8. SumFunctionOnSet(f, T) \in Int
  BY <1>3, <1>4, <1>6, <1>7
<1>9. ASSUME NEW x \in T
      PROVE  SumFunctionOnSet(f, T) = f[x] + SumFunctionOnSet(f, T \ {x})
  <2>1. CASE x = c
    BY <1>7, <2>1
  <2>2. CASE x # c
    <3> DEFINE U == T \ {c}
               V == T \ {x}
               R == T \ {c, x}
    <3>1. SumFunctionOnSet(f, U) = f[x] + SumFunctionOnSet(f, U \ {x})
      BY <1>4, <1>6, <2>2
    <3>2. SumFunctionOnSet(f, V) = f[c] + SumFunctionOnSet(f, V \ {c})
      BY <1>4, <1>6, <2>2
    <3>3. U \ {x} = R /\ V \ {c} = R
      OBVIOUS
    <3>4. SumFunctionOnSet(f, R) \in Int /\ f[x] \in Int /\ f[c] \in Int
      BY <1>3, <1>4, <1>6
    <3>5. SumFunctionOnSet(f, T) = f[c] + SumFunctionOnSet(f, U)
      BY <1>7
    <3> HIDE DEF R, U
    <3>6. SumFunctionOnSet(f, U) = f[x] + SumFunctionOnSet(f, R)
      BY <3>1, <3>3
    <3>7. SumFunctionOnSet(f, V) = f[c] + SumFunctionOnSet(f, R)
      BY <3>2, <3>3
    <3>8. f[x] + SumFunctionOnSet(f, V) = f[c] + (f[x] + SumFunctionOnSet(f, R))
      BY <3>4, <3>7
    <3> QED
      BY <3>5, <3>6, <3>8
  <2> QED
    BY <2>1, <2>2
<1> QED
  BY <1>2, <1>8, <1>9

\* Sums of the same are the same.
LEMMA SumSame ==
  ASSUME NEW f, NEW g, NEW S, IsFiniteSet(S), \A i \in S : f[i] \in Int /\ g[i] = f[i]
  PROVE  SumFunctionOnSet(g, S) = SumFunctionOnSet(f, S)
<1> DEFINE B == {T \in SUBSET S : SumFunctionOnSet(g, T) # SumFunctionOnSet(f, T)}
<1>1. SUFFICES ASSUME B # {}
               PROVE  FALSE
  OBVIOUS
<1>2. PICK T \in B : \A U \in B : U \subseteq T => U = T
  <2>1. B \in SUBSET SUBSET S
    OBVIOUS
  <2> HIDE DEF B
  <2> QED
    BY <1>1, <2>1, SmallestSubset
<1>3. IsFiniteSet(T) /\ \A i \in T : f[i] \in Int /\ g[i] \in Int
  BY <1>2, FS_Subset
<1>4. T # {}
  BY <1>2, <1>3, SumUnfolds
<1>5. PICK x \in T : TRUE
  BY <1>4
<1>6. SumFunctionOnSet(g, T \ {x}) = SumFunctionOnSet(f, T \ {x})
  BY <1>2, <1>5
<1>7. /\ SumFunctionOnSet(f, T) = f[x] + SumFunctionOnSet(f, T \ {x})
      /\ SumFunctionOnSet(g, T) = g[x] + SumFunctionOnSet(g, T \ {x})
  BY <1>3, <1>5, SumRemove
<1> QED
  BY <1>2, <1>5, <1>6, <1>7

\* One more element adds what it stands for.
LEMMA SumAdd ==
  ASSUME NEW f, NEW S, IsFiniteSet(S), NEW x, x \notin S,
         \A i \in S \cup {x} : f[i] \in Int
  PROVE  /\ SumFunctionOnSet(f, S \cup {x}) = SumFunctionOnSet(f, S) + f[x]
         /\ SumFunctionOnSet(f, S) \in Int
<1>1. IsFiniteSet(S \cup {x}) /\ (S \cup {x}) \ {x} = S
  BY FS_AddElement
<1>2. SumFunctionOnSet(f, S \cup {x}) = f[x] + SumFunctionOnSet(f, S)
  BY <1>1, SumRemove
<1>3. SumFunctionOnSet(f, S) \in Int
  BY SumRemove
<1> QED
  BY <1>2, <1>3

\* A sum changes as much as one of its terms does.
LEMMA SumChange ==
  ASSUME NEW f, NEW g, NEW S, IsFiniteSet(S), NEW x \in S, g[x] \in Int,
         \A i \in S : f[i] \in Int, \A i \in S \ {x} : g[i] = f[i]
  PROVE  /\ SumFunctionOnSet(g, S) = SumFunctionOnSet(f, S) + g[x] - f[x]
         /\ SumFunctionOnSet(f, S) \in Int
<1>1. IsFiniteSet(S \ {x})
  BY FS_Subset
<1>2. SumFunctionOnSet(g, S \ {x}) = SumFunctionOnSet(f, S \ {x})
  BY <1>1, SumSame
<1>3. /\ SumFunctionOnSet(f, S) = f[x] + SumFunctionOnSet(f, S \ {x})
      /\ SumFunctionOnSet(f, S) \in Int
  BY SumRemove
<1>4. SumFunctionOnSet(g, S) = g[x] + SumFunctionOnSet(g, S \ {x})
  <2>1. \A i \in S : g[i] \in Int
    OBVIOUS
  <2> QED
    BY <2>1, SumRemove
<1>5. SumFunctionOnSet(f, S \ {x}) \in Int
  BY <1>1, SumRemove
<1> QED
  BY <1>2, <1>3, <1>4, <1>5

\* Leaving out what is not negative does not raise a sum, and what is zero leaves it.
LEMMA SumPart ==
  ASSUME NEW f, NEW S, NEW T, IsFiniteSet(S), T \subseteq S,
         \A i \in S : f[i] \in Int, \A i \in S \ T : f[i] >= 0
  PROVE  /\ SumFunctionOnSet(f, T) <= SumFunctionOnSet(f, S)
         /\ (\A i \in S \ T : f[i] = 0) => SumFunctionOnSet(f, T) = SumFunctionOnSet(f, S)
<1> DEFINE R == S \ T
           Good(U) == /\ SumFunctionOnSet(f, T) <= SumFunctionOnSet(f, T \cup U)
                      /\ (\A i \in U : f[i] = 0) =>
                           SumFunctionOnSet(f, T) = SumFunctionOnSet(f, T \cup U)
           B == {U \in SUBSET R : ~Good(U)}
<1>0. IsFiniteSet(T) /\ IsFiniteSet(R) /\ T \cup R = S
  BY FS_Subset
<1>1. SUFFICES ASSUME B # {}
               PROVE  FALSE
  <2>1. B = {} => Good(R)
    OBVIOUS
  <2> HIDE DEF R
  <2> QED
    BY <1>0, <2>1 DEF R
<1>2. PICK U \in B : \A V \in B : V \subseteq U => V = U
  <2>1. B \in SUBSET SUBSET R
    OBVIOUS
  <2> HIDE DEF B, R
  <2> QED
    BY <1>0, <1>1, <2>1, SmallestSubset
<1>3. U # {}
  <2>1. T \cup {} = T /\ SumFunctionOnSet(f, T) \in Int
    BY <1>0, SumRemove
  <2>2. Good({})
    BY <2>1
  <2> QED
    BY <1>2, <2>2
<1>4. PICK x \in U : TRUE
  BY <1>3
<1> DEFINE P == T \cup (U \ {x})
<1>5. Good(U \ {x})
  <2>1. U \ {x} \in SUBSET R /\ U \ {x} \subseteq U /\ U \ {x} # U
    BY <1>2, <1>4
  <2> HIDE DEF Good
  <2>2. U \ {x} \notin B
    BY <1>2, <2>1
  <2> QED
    BY <2>1, <2>2
<1>6. IsFiniteSet(P) /\ x \notin P /\ P \cup {x} = T \cup U /\ P \cup {x} \subseteq S
  BY <1>2, <1>4, FS_Subset
<1>7. f[x] \in Int /\ f[x] >= 0
  BY <1>2, <1>4
<1>8. \A i \in P \cup {x} : f[i] \in Int
  BY <1>6
<1>9. SumFunctionOnSet(f, T) \in Int
  BY <1>0, SumRemove
<1> HIDE DEF P
<1>10. /\ SumFunctionOnSet(f, P \cup {x}) = SumFunctionOnSet(f, P) + f[x]
       /\ SumFunctionOnSet(f, P) \in Int
  BY <1>6, <1>8, SumAdd
<1>11. SumFunctionOnSet(f, T \cup U) = SumFunctionOnSet(f, P) + f[x]
  BY <1>6, <1>10
<1>12. Good(U)
  BY <1>4, <1>5, <1>7, <1>9, <1>10, <1>11 DEF P
<1> QED
  BY <1>2, <1>12

-----------------------------------------------------------------------------
(* What the game is worth *)

\* Whoever comes to gather brings empty hands, and keeps them until the GATHER ends.
LEMMA HandsFreeNext ==
  ASSUME IInv, TimingOK, HandsFree, [Next]_vars
  PROVE  HandsFree'
<1>1. \A i \in Gathering(objs) : i \in Ids /\ objs[i].type = "WORKER" /\ objs[i].res = 0
  BY DEF IInv, ActionOK, HandsFree, Gathering, CanGather
<1>2. ASSUME NEW i \in Gathering(objs)'
      PROVE  objs'[i].res = 0
  <2>1. i \in Ids' /\ objs'[i].act = "GATHER"
    BY <1>2 DEF Gathering
  <2>2. i \in Ids
    BY <2>1, Births DEF Resting
  <2>3. Life(objs[i], objs'[i])
    BY <2>1, <2>2, LifeGoesOn
  <2>4. CASE objs[i].act = "GATHER"
    <3>1. objs[i].type = "WORKER" /\ objs[i].res = 0
      BY <1>1, <2>2, <2>4 DEF Gathering
    <3>2. Carries(objs[i], objs'[i])
      BY <2>3 DEF Life
    <3> QED
      BY <2>1, <3>1, <3>2 DEF Carries, Ends
  <2>5. CASE objs[i].act # "GATHER"
    <3>1. Starts(objs[i], objs'[i])
      BY <2>1, <2>3, <2>5 DEF Life, Alike, Shoots, CountsDown, Ends, Refreshes, vars
    <3>2. ExecuteGather
      BY <2>1, <3>1 DEF Starts
    <3>3. i \in Unopposed(gatherCnt) /\ phase = "gather"
      BY <2>1, <2>2, <2>5, <3>2 DEF ExecuteGather
    <3>4. objs[i].res = 0 /\ objs[i].type = "WORKER"
      BY <3>3 DEF Unopposed, HandsFree, IInv, GatheringOK, CanGather
    <3>5. Carries(objs[i], objs'[i]) /\ objs[i].act = "NOOP"
      BY <2>3, <3>1 DEF Life, Starts, CanStart
    <3> QED
      BY <3>4, <3>5 DEF Carries, Ends
  <2> QED
    BY <2>4, <2>5
<1>3. ASSUME phase' = "gather", NEW u \in DOMAIN claims'
      PROVE  objs'[u].res = 0
  <2>1. CASE SettleMove
    BY <1>3, <2>1 DEF SettleMove, IInv, LocalsOK, EmptyMap
  <2>2. ASSUME NEW v, NEW t, StepGather(v, t)
        PROVE  objs'[u].res = 0
    <3>1. UNCHANGED objs
      BY <2>2, LocalSteps
    <3>2. PICK c : phase = "gather" /\ objs[v].res = 0 /\ claims' = Put(claims, v, c)
      BY <2>2 DEF StepGather, PassesGather
    <3>3. DOMAIN claims' = DOMAIN claims \cup {v}
      BY <3>2, PutMap
    <3> QED
      BY <1>3, <3>1, <3>2, <3>3 DEF HandsFree
  <2>3. CASE UNCHANGED vars
    BY <1>3, <2>3 DEF vars, HandsFree
  <2>4. ASSUME NEW v, NEW t, NEW p,
               \/ BeginStep \/ EndAttack \/ CountOccupation \/ StepProduce(v, t, p)
               \/ ProduceThrows(v) \/ ExecuteCollisions \/ BeginSettleProduce
               \/ StepMove(v, t) \/ GatherThrows(v, t) \/ ReturnThrows(v, t)
        PROVE  FALSE
    BY <1>3, <2>4 DEF BeginStep, EndAttack, CountOccupation, StepProduce, PassesProduce,
                      ProduceThrows,
         ExecuteCollisions, BeginSettleProduce, StepMove, PassesMove, GatherThrows, ReturnThrows
  <2>5. ASSUME NEW v, NEW t, StepAttack(v, t) \/ StepReturn(v, t)
        PROVE  FALSE
    BY <1>3, <2>5 DEF StepAttack, PassesAttack, StepReturn, PassesReturn
  <2>6. ASSUME NEW v, ExecuteAttack(v) \/ ExecuteProduce(v)
        PROVE  FALSE
    BY <1>3, <2>6 DEF ExecuteAttack, ExecuteProduce, NextClaim
  <2>7. ASSUME NEW v, SettleProduce(v) \/ SettleGather(v)
        PROVE  FALSE
    BY <1>3, <2>7 DEF SettleProduce, SettleGather
  <2>8. ASSUME ExecuteMove \/ ExecuteGather \/ EraseMinerals \/ GameRefresh
        PROVE  FALSE
    BY <1>3, <2>8 DEF ExecuteMove, ExecuteGather, EraseMinerals, GameRefresh
  <2> QED
    BY <2>1, <2>2, <2>3, <2>4, <2>5, <2>6, <2>7, <2>8
       DEF Next, Order, Execute, Settle, Advance, Threw
<1> QED
  BY <1>2, <1>3 DEF HandsFree

\* And at all times.
LEMMA Unladen == Spec => []HandsFree
<1>1. Init => HandsFree
  <2> SUFFICES ASSUME Init PROVE HandsFree
    OBVIOUS
  <2>1. PICK b \in Boards : objs = [i \in DOMAIN b |-> Placed(b[i])]
    BY DEF Init
  <2>2. \A i \in Ids : objs[i].act = "NOOP"
    BY <2>1 DEF Placed, Resting
  <2> QED
    BY <2>2 DEF HandsFree, Gathering, Init
<1> QED
  BY <1>1, Timing, HandsFreeNext, PTL DEF Spec

\* The shares of the objects, and their sum.
Shares(f) == [i \in DOMAIN f |-> WorthOf(f[i])]

Total(f) == SumFunction(Shares(f))

\* A map of finitely many objects that are worth something each.
Valued(f) == IsFiniteSet(DOMAIN f) /\ \A i \in DOMAIN f : WorthOf(f[i]) \in Nat

\* One share changes.
LEMMA TotalOne ==
  ASSUME NEW f, NEW g, Valued(f), Valued(g), DOMAIN g = DOMAIN f, NEW u \in DOMAIN f,
         \A i \in DOMAIN f \ {u} : WorthOf(g[i]) = WorthOf(f[i])
  PROVE  /\ Total(g) = Total(f) + WorthOf(g[u]) - WorthOf(f[u])
         /\ Total(f) \in Int
<1> DEFINE F == Shares(f)
           G == Shares(g)
           S == DOMAIN f
<1>1. /\ IsFiniteSet(S) /\ G[u] \in Int /\ \A i \in S : F[i] \in Int
      /\ \A i \in S \ {u} : G[i] = F[i]
      /\ F[u] = WorthOf(f[u]) /\ G[u] = WorthOf(g[u])
      /\ DOMAIN F = S /\ DOMAIN G = S
  BY DEF Valued, Shares
<1>2. Total(f) = SumFunctionOnSet(F, S) /\ Total(g) = SumFunctionOnSet(G, S)
  BY <1>1 DEF Total, SumFunction
<1> HIDE DEF F, G, S
<1>3. u \in S
  BY DEF S
<1> QED
  BY <1>1, <1>2, <1>3, SumChange

\* The shares of two objects change.
LEMMA TotalTwo ==
  ASSUME NEW f, NEW g, Valued(f), Valued(g), DOMAIN g = DOMAIN f,
         NEW u \in DOMAIN f, NEW m \in DOMAIN f \ {u},
         \A i \in DOMAIN f \ {u, m} : WorthOf(g[i]) = WorthOf(f[i])
  PROVE  /\ Total(g) = Total(f) + WorthOf(g[u]) - WorthOf(f[u])
                                + WorthOf(g[m]) - WorthOf(f[m])
         /\ Total(f) \in Int
<1> DEFINE h == [f EXCEPT ![u] = g[u]]
<1>1. /\ DOMAIN h = DOMAIN f /\ h[u] = g[u]
      /\ \A i \in DOMAIN f \ {u} : h[i] = f[i]
  OBVIOUS
<1> HIDE DEF h
<1>2. Valued(h)
  BY <1>1 DEF Valued
<1>3. /\ Total(h) = Total(f) + WorthOf(g[u]) - WorthOf(f[u])
      /\ Total(f) \in Int
  BY <1>1, <1>2, TotalOne
<1>4. \A i \in DOMAIN h \ {m} : WorthOf(g[i]) = WorthOf(h[i])
  BY <1>1
<1>5. Total(g) = Total(h) + WorthOf(g[m]) - WorthOf(h[m]) /\ Total(h) \in Int
  BY <1>1, <1>2, <1>4, TotalOne
<1>6. h[m] = f[m]
  BY <1>1
<1>7. /\ WorthOf(g[u]) \in Nat /\ WorthOf(f[u]) \in Nat
      /\ WorthOf(g[m]) \in Nat /\ WorthOf(f[m]) \in Nat
  BY DEF Valued
<1> QED
  BY <1>3, <1>5, <1>6, <1>7

\* One share changes, and a newcomer brings its own.
LEMMA TotalMore ==
  ASSUME NEW f, NEW g, Valued(f), Valued(g), NEW n, n \notin DOMAIN f,
         DOMAIN g = DOMAIN f \cup {n}, NEW u \in DOMAIN f,
         \A i \in DOMAIN f \ {u} : WorthOf(g[i]) = WorthOf(f[i])
  PROVE  /\ Total(g) = Total(f) + WorthOf(g[u]) - WorthOf(f[u]) + WorthOf(g[n])
         /\ Total(f) \in Int
<1> DEFINE h == [i \in DOMAIN f |-> g[i]]
           H == Shares(h)
           G == Shares(g)
           S == DOMAIN f
<1>1. Valued(h) /\ DOMAIN h = S /\ \A i \in S : h[i] = g[i]
  BY DEF Valued
<1> HIDE DEF h
<1>2. Total(h) = Total(f) + WorthOf(g[u]) - WorthOf(f[u]) /\ Total(f) \in Int
  BY <1>1, TotalOne
<1>3. /\ IsFiniteSet(S) /\ n \notin S /\ \A i \in S \cup {n} : G[i] \in Int
      /\ \A i \in S : H[i] = G[i] /\ H[i] \in Int
      /\ DOMAIN H = S /\ DOMAIN G = S \cup {n} /\ G[n] = WorthOf(g[n])
  BY <1>1 DEF Valued, Shares
<1>4. Total(h) = SumFunctionOnSet(H, S) /\ Total(g) = SumFunctionOnSet(G, S \cup {n})
  BY <1>3 DEF Total, SumFunction
<1> HIDE DEF H, G, S
<1>5. /\ SumFunctionOnSet(G, S \cup {n}) = SumFunctionOnSet(G, S) + G[n]
      /\ SumFunctionOnSet(G, S) \in Int
  BY <1>3, SumAdd
<1>6. SumFunctionOnSet(G, S) = SumFunctionOnSet(H, S)
  BY <1>3, SumSame
<1>7. /\ WorthOf(g[u]) \in Nat /\ WorthOf(f[u]) \in Nat /\ WorthOf(g[n]) \in Nat
  BY DEF Valued
<1> QED
  BY <1>2, <1>3, <1>4, <1>5, <1>6, <1>7

\* Objects go, and what is left keeps its share.
LEMMA TotalLess ==
  ASSUME NEW f, NEW g, Valued(f), DOMAIN g \subseteq DOMAIN f,
         \A i \in DOMAIN g : WorthOf(g[i]) = WorthOf(f[i])
  PROVE  /\ Total(g) <= Total(f)
         /\ (\A i \in DOMAIN f \ DOMAIN g : WorthOf(f[i]) = 0) => Total(g) = Total(f)
         /\ Total(f) \in Int
<1> DEFINE F == Shares(f)
           G == Shares(g)
           S == DOMAIN f
           T == DOMAIN g
<1>1. /\ IsFiniteSet(S) /\ IsFiniteSet(T) /\ T \subseteq S
      /\ \A i \in S : F[i] \in Int /\ F[i] >= 0 /\ F[i] = WorthOf(f[i])
      /\ \A i \in T : G[i] = F[i]
      /\ DOMAIN F = S /\ DOMAIN G = T
  BY FS_Subset DEF Valued, Shares
<1>2. Total(f) = SumFunctionOnSet(F, S) /\ Total(g) = SumFunctionOnSet(G, T)
  BY <1>1 DEF Total, SumFunction
<1> HIDE DEF F, G
<1>3. SumFunctionOnSet(G, T) = SumFunctionOnSet(F, T)
  BY <1>1, SumSame
<1>4. /\ SumFunctionOnSet(F, T) <= SumFunctionOnSet(F, S)
      /\ (\A i \in S \ T : F[i] = 0) => SumFunctionOnSet(F, T) = SumFunctionOnSet(F, S)
  BY <1>1, SumPart
<1>5. SumFunctionOnSet(F, S) \in Int
  BY <1>1, SumRemove
<1> QED
  BY <1>1, <1>2, <1>3, <1>4, <1>5

\* A payment into one bank, or out of it.
LEMMA BankPays ==
  ASSUME NEW b \in [Sides -> Int], NEW s \in Sides, NEW n \in Int
  PROVE  /\ SumFunction([b EXCEPT ![s] = n]) = SumFunction(b) + n - b[s]
         /\ SumFunction(b) \in Int
<1> DEFINE c == [b EXCEPT ![s] = n]
<1>1. IsFiniteSet(Sides)
  <2>1. IsFiniteSet({-1})
    BY FS_Singleton
  <2>2. IsFiniteSet({-1} \cup {1})
    BY <2>1, FS_AddElement
  <2> QED
    BY <2>2 DEF Sides
<1>2. /\ DOMAIN b = Sides /\ DOMAIN c = Sides /\ c[s] = n
      /\ \A i \in Sides : b[i] \in Int
      /\ \A i \in Sides \ {s} : c[i] = b[i]
  OBVIOUS
<1> HIDE DEF c
<1>3. /\ SumFunctionOnSet(c, Sides) = SumFunctionOnSet(b, Sides) + c[s] - b[s]
      /\ SumFunctionOnSet(b, Sides) \in Int
  BY <1>1, <1>2, SumChange
<1> QED
  BY <1>2, <1>3 DEF SumFunction, c

\* All that is known of a game so far.
GameInv == IInv /\ TimingOK /\ CountOK /\ NoDebt /\ HandsFree

\* Every step keeps it.
LEMMA GameInvNext ==
  ASSUME GameInv, [Next]_vars
  PROVE  GameInv'
BY NextInv, TimingNext, CountNext, NoDebtNext, HandsFreeNext DEF GameInv

\* A share is a number when its object is one of the game.
LEMMA ShareIsNumber ==
  ASSUME NEW o \in Object, o.res >= 0, o.act = "PRODUCE" => o.ptype \in OwnedTypes
  PROVE  WorthOf(o) \in Nat
<1>1. o.res \in Nat /\ Cost \in [OwnedTypes -> Nat]
  BY Constants DEF Object
<1> QED
  BY <1>1 DEF WorthOf

\* All shares are, before a step and after it.
LEMMA SharesAreNumbers ==
  /\ GameInv => Valued(objs)
  /\ GameInv' => Valued(objs')
<1>1. GameInv => \A i \in Ids : /\ objs[i] \in Object /\ objs[i].res >= 0
                                /\ objs[i].act = "PRODUCE" => objs[i].ptype \in OwnedTypes
  BY DEF GameInv, IInv, TypeOK, IsMap, ActionOK, NoDebt
<1>2. GameInv' => \A i \in Ids' : /\ objs'[i] \in Object /\ objs'[i].res >= 0
                                  /\ objs'[i].act = "PRODUCE" => objs'[i].ptype \in OwnedTypes
  BY DEF GameInv, IInv, TypeOK, IsMap, ActionOK, NoDebt
<1>3. (GameInv => IsFiniteSet(Ids)) /\ (GameInv' => IsFiniteSet(Ids'))
  BY DEF GameInv, CountOK
<1>4. GameInv => \A i \in Ids : WorthOf(objs[i]) \in Nat
  BY <1>1, ShareIsNumber
<1>5. GameInv' => \A i \in Ids' : WorthOf(objs'[i]) \in Nat
  BY <1>2, ShareIsNumber
<1> QED
  BY <1>3, <1>4, <1>5 DEF Valued

\* The worth of the game in these terms.
LEMMA WorthIsTotal ==
  /\ Worth = Total(objs) + SumFunction(resource)
  /\ Worth' = Total(objs') + SumFunction(resource')
  /\ GameInv => Total(objs) \in Int /\ SumFunction(resource) \in Int
<1>1. GameInv => Total(objs) \in Int
  BY SharesAreNumbers, TotalLess
<1>2. GameInv => SumFunction(resource) \in Int
  BY BankPays, -1 \in Sides DEF GameInv, IInv, TypeOK, Sides
<1> QED
  BY <1>1, <1>2 DEF Worth, Total, Shares

\* A share depends on what the object is, carries and makes.
LEMMA SameShare ==
  ASSUME NEW o, NEW p, p.type = o.type, p.res = o.res \/ o.type = "BASE",
         \/ p.act # "PRODUCE" /\ o.act # "PRODUCE"
         \/ p.act = o.act /\ p.ptype = o.ptype
  PROVE  WorthOf(p) = WorthOf(o)
BY DEF WorthOf

\* The steps that leave every share and every bank.
LEMMA SameWorth ==
  ASSUME Ids' = Ids, resource' = resource,
         \A i \in Ids : WorthOf(objs'[i]) = WorthOf(objs[i])
  PROVE  Worth' = Worth
<1>1. Shares(objs') = Shares(objs)
  BY DEF Shares
<1> QED
  BY <1>1, WorthIsTotal DEF Total

\* Orders to attack, and the loops that start and count moves and gathers.
LEMMA FreeSteps ==
  ASSUME GameInv, NEW u, NEW t,
         StepAttack(u, t) \/ ExecuteMove \/ SettleMove \/ ExecuteGather
  PROVE  Worth' = Worth
<1>1. \A i \in Ids : objs[i] \in Object
  BY Objects DEF GameInv
<1>2. \A i \in DOMAIN claims : objs[i].act = "NOOP"
  BY DEF GameInv, TimingOK, Free
<1>3. Ids' = Ids /\ resource' = resource
  BY DEF StepAttack, PassesAttack, ExecuteMove, SettleMove, ExecuteGather
<1>4. ASSUME NEW i \in Ids
      PROVE  WorthOf(objs'[i]) = WorthOf(objs[i])
  <2> DEFINE o == objs[i]
             p == objs'[i]
  <2>1. CASE StepAttack(u, t)
    <3>1. \/ p = o
          \/ p = [o EXCEPT !.target = t, !.cd = AttackInterval[o.type]]
      BY <2>1 DEF StepAttack, PassesAttack
    <3>2. p.type = o.type /\ p.res = o.res /\ p.act = o.act /\ p.ptype = o.ptype
      BY <1>1, <3>1 DEF Object
    <3> QED
      BY <3>2, SameShare
  <2>2. CASE ExecuteMove
    <3>1. \/ p = o
          \/ /\ i \in DOMAIN claims
             /\ p = [o EXCEPT !.act = "MOVE", !.target = claims[i].target,
                              !.progress = MoveInterval[o.type]]
      BY <2>2 DEF ExecuteMove, Unopposed
    <3>2. /\ p.type = o.type /\ p.res = o.res
          /\ p = o \/ (p.act # "PRODUCE" /\ o.act # "PRODUCE")
      BY <1>1, <1>2, <3>1 DEF Object
    <3> QED
      BY <3>2, SameShare
  <2>3. CASE SettleMove
    <3>1. p = Moved(o)
      BY <2>3 DEF SettleMove
    <3>2. /\ p.type = o.type /\ p.res = o.res
          /\ p = o \/ (p.act # "PRODUCE" /\ o.act # "PRODUCE")
      BY <1>1, <3>1 DEF Object, Moved
    <3> QED
      BY <3>2, SameShare
  <2>4. CASE ExecuteGather
    <3>1. \/ p = o
          \/ /\ i \in DOMAIN claims
             /\ p = [o EXCEPT !.act = "GATHER", !.target = claims[i].target,
                              !.progress = GATHER_TIME]
      BY <2>4 DEF ExecuteGather, Unopposed
    <3>2. /\ p.type = o.type /\ p.res = o.res
          /\ p = o \/ (p.act # "PRODUCE" /\ o.act # "PRODUCE")
      BY <1>1, <1>2, <3>1 DEF Object
    <3> QED
      BY <3>2, SameShare
  <2> QED
    BY <2>1, <2>2, <2>3, <2>4
<1> QED
  BY <1>3, <1>4, SameWorth

\* A paid claim moves its price from the bank into the object that produces.
LEMMA ProduceIsPaid ==
  ASSUME GameInv, GameInv', NEW u \in DOMAIN claims, ExecuteProduce(u)
  PROVE  Worth' = Worth
<1>1. CASE UNCHANGED <<objs, resource>>
  BY <1>1, WorthIsTotal
<1>2. CASE StartProduce(u)
  <2> DEFINE p == claims[u].ptype
             c == claims[u].target
             n == ObjTime[p]
             s == objs[u].owner
  <2>1. /\ u \in Ids /\ objs[u] \in Object /\ objs[u].act = "NOOP" /\ s \in Sides
        /\ p \in OwnedTypes /\ resource \in [Sides -> Int]
    BY Objects DEF GameInv, TimingOK, Free, IInv, LocalsOK, OccupationOK, ExecuteProduce,
         TypeOK
  <2>2. /\ objs' = [objs EXCEPT ![u].act = "PRODUCE", ![u].target = c,
                                ![u].progress = n, ![u].ptype = p]
        /\ resource' = [resource EXCEPT ![s] = @ - Cost[p]]
    BY <1>2 DEF StartProduce
  <2> HIDE DEF p, c, n, s
  <2>3. /\ Ids' = Ids /\ \A i \in Ids \ {u} : objs'[i] = objs[i]
        /\ objs'[u] = [objs[u] EXCEPT !.act = "PRODUCE", !.target = c, !.progress = n,
                                      !.ptype = p]
    BY <2>1, <2>2
  <2>4. /\ objs'[u].type = objs[u].type /\ objs'[u].res = objs[u].res
        /\ objs'[u].act = "PRODUCE" /\ objs'[u].ptype = p
    BY <2>1, <2>3 DEF Object
  <2>5. Cost[p] \in Nat /\ WorthOf(objs[u]) \in Nat /\ WorthOf(objs'[u]) \in Nat
    BY <2>1, <2>3, Constants, SharesAreNumbers DEF Valued
  <2>6. WorthOf(objs'[u]) = WorthOf(objs[u]) + Cost[p]
    <3> DEFINE a == IF objs[u].type \in OwnedTypes THEN Cost[objs[u].type] ELSE 0
               b == IF objs[u].type = "BASE" THEN 0 ELSE objs[u].res
    <3>1. a \in Int /\ b \in Int
      BY <2>1, Constants DEF Object
    <3>2. WorthOf(objs[u]) = a + b + 0 /\ WorthOf(objs'[u]) = a + b + Cost[p]
      BY <2>1, <2>4 DEF WorthOf
    <3> HIDE DEF a, b
    <3> QED
      BY <2>5, <3>1, <3>2
  <2>7. Total(objs') = Total(objs) + WorthOf(objs'[u]) - WorthOf(objs[u])
    BY <2>1, <2>3, SharesAreNumbers, TotalOne
  <2>8. SumFunction(resource') = SumFunction(resource) - Cost[p]
    <3>1. resource[s] \in Int
      BY <2>1 DEF s
    <3>2. /\ resource' = [resource EXCEPT ![s] = resource[s] - Cost[p]]
          /\ resource[s] - Cost[p] \in Int /\ s \in Sides
      BY <2>1, <2>2, <2>5, <3>1 DEF s
    <3>3. /\ SumFunction(resource') = SumFunction(resource)
                                      + (resource[s] - Cost[p]) - resource[s]
          /\ SumFunction(resource) \in Int
      BY <2>1, <3>2, BankPays
    <3> QED
      BY <2>5, <3>1, <3>3
  <2> QED
    BY <2>5, <2>6, <2>7, <2>8, WorthIsTotal
<1> QED
  BY <1>1, <1>2 DEF ExecuteProduce

\* At the end of a production what was paid for stands on the board.
LEMMA BirthIsPaid ==
  ASSUME GameInv, GameInv', NEW u \in todo, SettleProduce(u)
  PROVE  Worth' = Worth
<1>1. /\ u \in Ids /\ objs[u] \in Object /\ objs[u].act = "PRODUCE" /\ objCnt \notin Ids
      /\ objs[u].ptype \in OwnedTypes /\ resource' = resource
  BY Objects DEF GameInv, IInv, LocalsOK, Producers, ActionOK, SettleProduce
<1>2. CASE objs[u].progress # 0
  <2>1. objs' = [objs EXCEPT ![u].progress = @ - 1]
    BY <1>2 DEF SettleProduce
  <2>2. /\ Ids' = Ids /\ \A i \in Ids \ {u} : objs'[i] = objs[i]
        /\ objs'[u] = [objs[u] EXCEPT !.progress = @ - 1]
    BY <1>1, <2>1
  <2>3. /\ objs'[u].type = objs[u].type /\ objs'[u].res = objs[u].res
        /\ objs'[u].act = objs[u].act /\ objs'[u].ptype = objs[u].ptype
    BY <1>1, <2>2 DEF Object
  <2>4. WorthOf(objs'[u]) = WorthOf(objs[u])
    BY <2>3, SameShare
  <2> QED
    BY <1>1, <2>2, <2>4, SameWorth
<1>3. CASE objs[u].progress = 0
  <2> DEFINE f == [objs EXCEPT ![u].act = "NOOP", ![u].progress = -1]
             p == objs[u].ptype
             q == Resting(p, objs[u].target, objs[u].owner, Hp[p], 0)
  <2>1. objs' = Put(f, objCnt, q)
    BY <1>3 DEF SettleProduce
  <2>2. /\ DOMAIN f = Ids /\ \A i \in Ids \ {u} : f[i] = objs[i]
        /\ f[u] = [objs[u] EXCEPT !.act = "NOOP", !.progress = -1]
    BY <1>1
  <2>3. q.type = p /\ q.res = 0 /\ q.act = "NOOP"
    BY DEF Resting
  <2>4. p \in OwnedTypes
    BY <1>1
  <2> HIDE DEF f, q
  <2>5. /\ Ids' = Ids \cup {objCnt} /\ objs'[objCnt] = q
        /\ \A i \in Ids : objs'[i] = f[i]
    <3> DEFINE g == Put(f, objCnt, q)
    <3>1. /\ DOMAIN g = DOMAIN f \cup {objCnt} /\ g[objCnt] = q
          /\ \A i \in DOMAIN f : i # objCnt => g[i] = f[i]
      BY DEF Put
    <3>2. objs' = g
      BY <2>1
    <3> HIDE DEF g
    <3> QED
      BY <1>1, <2>2, <3>1, <3>2
  <2>6. /\ objs'[u].type = objs[u].type /\ objs'[u].res = objs[u].res
        /\ objs'[u].act = "NOOP"
    BY <1>1, <2>2, <2>5 DEF Object
  <2>7. /\ Cost[p] \in Nat /\ WorthOf(objs[u]) \in Nat /\ WorthOf(objs'[u]) \in Nat
        /\ WorthOf(objs'[objCnt]) \in Nat
    BY <1>1, <2>4, <2>5, Constants, SharesAreNumbers DEF Valued
  <2>8. WorthOf(objs'[objCnt]) = Cost[p]
    BY <2>3, <2>4, <2>5, <2>7 DEF WorthOf
  <2>9. WorthOf(objs[u]) = WorthOf(objs'[u]) + Cost[p]
    <3> DEFINE a == IF objs[u].type \in OwnedTypes THEN Cost[objs[u].type] ELSE 0
               b == IF objs[u].type = "BASE" THEN 0 ELSE objs[u].res
    <3>1. a \in Int /\ b \in Int
      BY <1>1, Constants DEF Object
    <3>2. WorthOf(objs'[u]) = a + b + 0 /\ WorthOf(objs[u]) = a + b + Cost[p]
      BY <1>1, <2>6 DEF WorthOf
    <3> HIDE DEF a, b
    <3> QED
      BY <2>7, <3>1, <3>2
  <2>10. \A i \in Ids \ {u} : objs'[i] = objs[i]
    BY <2>2, <2>5
  <2> HIDE DEF p
  <2>11. /\ Total(objs') = Total(objs) + WorthOf(objs'[u]) - WorthOf(objs[u])
                           + WorthOf(objs'[objCnt])
         /\ Total(objs) \in Int
    BY <1>1, <2>5, <2>10, SharesAreNumbers, TotalMore
  <2>12. Total(objs') = Total(objs)
    BY <2>7, <2>8, <2>9, <2>11
  <2> QED
    BY <1>1, <2>12, WorthIsTotal
<1> QED
  BY <1>2, <1>3

\* What a GATHER brings is what its mineral loses.
LEMMA LoadIsTaken ==
  ASSUME GameInv, GameInv', NEW u \in todo, SettleGather(u)
  PROVE  Worth' = Worth
<1> DEFINE m == coordIdx[objs[u].target]
<1>0. phase = "settleGather" /\ u \in Gathering(objs) /\ resource' = resource
  BY DEF GameInv, IInv, LocalsOK, SettleGather
<1>1. /\ u \in Ids /\ objs[u] \in Object /\ objs[u].act = "GATHER" /\ objs[u].res = 0
      /\ objs[u].type = "WORKER" /\ resource' = resource
  BY <1>0, Objects DEF GameInv, IInv, Gathering, ActionOK, CanGather, HandsFree
<1>2. /\ m \in Ids /\ objs[m] \in Object /\ objs[m].type = "MINERAL" /\ m # u
      /\ objs[m].res > 0 /\ objs[m].act # "PRODUCE"
  <2>2. PICK k \in Ids : /\ objs[k].type = "MINERAL" /\ objs[k].coord = objs[u].target
                         /\ objs[k].res > 0
    BY <1>0 DEF GameInv, IInv, GatheringOK, MineralAt
  <2>3. m = k
    BY <1>0, <2>2 DEF GameInv, IInv, IndexOK
  <2>4. objs[k].act # "PRODUCE"
    BY <2>2 DEF GameInv, IInv, ActionOK, OBJ_PRODUCE_MAP
  <2> QED
    BY <1>1, <2>2, <2>3, <2>4, Objects DEF GameInv
<1>3. CASE objs[u].progress # 0
  <2>1. objs' = [objs EXCEPT ![u].progress = @ - 1]
    BY <1>3 DEF SettleGather
  <2>2. /\ Ids' = Ids /\ \A i \in Ids \ {u} : objs'[i] = objs[i]
        /\ objs'[u] = [objs[u] EXCEPT !.progress = @ - 1]
    BY <1>1, <2>1
  <2>3. /\ objs'[u].type = objs[u].type /\ objs'[u].res = objs[u].res
        /\ objs'[u].act = objs[u].act /\ objs'[u].ptype = objs[u].ptype
    BY <1>1, <2>2 DEF Object
  <2>4. WorthOf(objs'[u]) = WorthOf(objs[u])
    BY <2>3, SameShare
  <2> QED
    BY <1>1, <2>2, <2>4, SameWorth
<1>4. CASE objs[u].progress = 0
  <2>0. ~(objs[m].res < RES_PER_GATHER)
    BY <1>2 DEF RES_PER_GATHER, Object
  <2>1. objs' = [objs EXCEPT ![u].act = "NOOP", ![u].progress = -1, ![u].res = RES_PER_GATHER,
                             ![m].res = @ - RES_PER_GATHER]
    BY <1>4, <2>0 DEF SettleGather
  <2> HIDE DEF m
  <2>2. /\ Ids' = Ids /\ \A k \in Ids : k # u /\ k # m => objs'[k] = objs[k]
        /\ objs'[u] = [objs[u] EXCEPT !.act = "NOOP", !.progress = -1, !.res = RES_PER_GATHER]
        /\ objs'[m] = [objs[m] EXCEPT !.res = @ - RES_PER_GATHER]
    BY <1>1, <1>2, <2>1
  <2>3. /\ objs'[u].type = "WORKER" /\ objs'[u].res = RES_PER_GATHER /\ objs'[u].act = "NOOP"
        /\ objs'[m].type = "MINERAL" /\ objs'[m].res = objs[m].res - RES_PER_GATHER
        /\ objs'[m].act = objs[m].act
    BY <1>1, <1>2, <2>2 DEF Object
  <2>4. /\ Cost["WORKER"] \in Nat /\ objs[m].res \in Int
        /\ WorthOf(objs[u]) \in Nat /\ WorthOf(objs'[u]) \in Nat
        /\ WorthOf(objs[m]) \in Nat /\ WorthOf(objs'[m]) \in Nat
    BY <1>1, <1>2, <2>2, Constants, SharesAreNumbers
       DEF Valued, OwnedTypes, MobileTypes, Object
  <2>5. WorthOf(objs[u]) = Cost["WORKER"] /\ WorthOf(objs'[u]) = Cost["WORKER"] + 1
    BY <1>1, <2>3, <2>4 DEF WorthOf, OwnedTypes, MobileTypes, RES_PER_GATHER
  <2>6. WorthOf(objs[m]) = objs[m].res /\ WorthOf(objs'[m]) = objs[m].res - 1
    BY <1>2, <2>3, <2>4 DEF WorthOf, OwnedTypes, MobileTypes, Buildings, RES_PER_GATHER
  <2>7. /\ Total(objs') = Total(objs) + WorthOf(objs'[u]) - WorthOf(objs[u])
                          + WorthOf(objs'[m]) - WorthOf(objs[m])
        /\ Total(objs) \in Int
    <3>1. \A i \in Ids \ {u, m} : WorthOf(objs'[i]) = WorthOf(objs[i])
      BY <2>2
    <3>2. m \in Ids \ {u} /\ Valued(objs) /\ Valued(objs')
      BY <1>2, SharesAreNumbers
    <3> QED
      BY <1>1, <2>2, <3>1, <3>2, TotalTwo
  <2>8. Total(objs') = Total(objs)
    BY <2>4, <2>5, <2>6, <2>7
  <2> QED
    BY <1>1, <2>8, WorthIsTotal
<1> QED
  BY <1>3, <1>4

\* A load that is banked is no longer carried.
LEMMA LoadIsBanked ==
  ASSUME GameInv, GameInv', NEW u, NEW t, StepReturn(u, t)
  PROVE  Worth' = Worth
<1> DEFINE s == objs[u].owner
           n == objs[u].res
<1>1. /\ u \in Ids /\ objs[u] \in Object /\ objs[u].type = "WORKER" /\ s \in Sides
      /\ resource \in [Sides -> Int] /\ n \in Int
      /\ objs' = [objs EXCEPT ![u].res = 0]
      /\ resource' = [resource EXCEPT ![s] = @ + n]
  BY Objects DEF GameInv, IInv, TypeOK, StepReturn, PassesReturn, ReachesFor, Ready,
                 CanGather, Object
<1>2. /\ Ids' = Ids /\ \A i \in Ids \ {u} : objs'[i] = objs[i]
      /\ objs'[u] = [objs[u] EXCEPT !.res = 0]
  BY <1>1
<1>3. /\ objs'[u].type = objs[u].type /\ objs'[u].res = 0
      /\ objs'[u].act = objs[u].act /\ objs'[u].ptype = objs[u].ptype
  BY <1>1, <1>2 DEF Object
<1>4. WorthOf(objs[u]) \in Nat /\ WorthOf(objs'[u]) \in Nat
  BY <1>1, <1>2, SharesAreNumbers DEF Valued
<1>5. objs[u].act = "NOOP"
  BY DEF StepReturn, PassesReturn, ReachesFor, Free
<1>6. WorthOf(objs[u]) = WorthOf(objs'[u]) + n
  <2>1. Cost["WORKER"] \in Nat /\ "WORKER" \in OwnedTypes
    BY Constants DEF OwnedTypes, MobileTypes
  <2>2. WorthOf(objs[u]) = Cost["WORKER"] + n + 0 /\ WorthOf(objs'[u]) = Cost["WORKER"] + 0 + 0
    BY <1>1, <1>3, <1>5, <2>1 DEF WorthOf
  <2> QED
    BY <1>1, <2>1, <2>2
<1>7. Total(objs') = Total(objs) + WorthOf(objs'[u]) - WorthOf(objs[u])
  BY <1>1, <1>2, SharesAreNumbers, TotalOne
<1> HIDE DEF s, n
<1>8. SumFunction(resource') = SumFunction(resource) + n
  <2>1. resource[s] \in Int
    BY <1>1
  <2>2. /\ resource' = [resource EXCEPT ![s] = resource[s] + n]
        /\ resource[s] + n \in Int
    BY <1>1, <2>1
  <2>3. /\ SumFunction(resource') = SumFunction(resource) + (resource[s] + n) - resource[s]
        /\ SumFunction(resource) \in Int
    BY <1>1, <2>2, BankPays
  <2> QED
    BY <1>1, <2>1, <2>3
<1> QED
  BY <1>1, <1>4, <1>6, <1>7, <1>8, WorthIsTotal

\* Only what is removed takes its share away, and a mineral has none left when it goes.
LEMMA WorthCanOnlyFall ==
  ASSUME GameInv, NEW u,
         (u \in DOMAIN damage /\ ExecuteAttack(u)) \/ EraseMinerals \/ GameRefresh
  PROVE  /\ Worth' <= Worth
         /\ (\A i \in Ids : objs[i].type # "MINERAL" => i \in Ids') => Worth' = Worth
<1>1. \A i \in Ids : objs[i] \in Object
  BY Objects DEF GameInv
<1>2. Ids' \subseteq Ids /\ resource' = resource
  BY RestrictMap DEF ExecuteAttack, EraseMinerals, GameRefresh
<1>3. ASSUME NEW i \in Ids'
      PROVE  WorthOf(objs'[i]) = WorthOf(objs[i])
  <2> DEFINE o == objs[i]
             p == objs'[i]
  <2>0. i \in Ids /\ o \in Object
    BY <1>1, <1>2, <1>3
  <2>1. CASE u \in DOMAIN damage /\ ExecuteAttack(u)
    <3>1. p = o \/ p = [o EXCEPT !.hp = @ - damage[u]]
      <4>1. CASE objs' = Restrict(objs, Ids \ {u})
        BY <1>3, <4>1, RestrictMap
      <4>2. CASE objs' = [objs EXCEPT ![u].hp = @ - damage[u]]
        BY <2>0, <4>2
      <4> QED
        BY <2>1, <4>1, <4>2 DEF ExecuteAttack
    <3>2. p.type = o.type /\ p.res = o.res /\ p.act = o.act /\ p.ptype = o.ptype
      BY <2>0, <3>1 DEF Object
    <3> QED
      BY <3>2, SameShare
  <2>2. CASE EraseMinerals
    <3>1. p = o
      BY <1>3, <2>2, RestrictMap DEF EraseMinerals
    <3> QED
      BY <3>1
  <2>3. CASE GameRefresh
    <3>1. /\ p.type = o.type /\ p.act = o.act
          /\ p.res = o.res \/ o.type = "BASE"
          /\ o.act = "NOOP" \/ p.ptype = o.ptype
      <4>1. Life(o, p) /\ phase' = "idle" /\ phase = "return"
        BY <1>3, <2>0, <2>3, GameRefreshLife DEF GameInv, GameRefresh
      <4>2. o.type = "MINERAL" => p.res = o.res
        BY <1>3, <2>0, <2>3 DEF GameRefresh, Refreshed, Banked, Rested, Object
      <4>3. Refreshes(o, p)
        BY <4>1 DEF Life, vars
      <4> QED
        BY <4>1, <4>2, <4>3 DEF Life, Carries, Ends, Refreshes, IsAtRest
    <3> QED
      BY <3>1, SameShare
  <2> QED
    BY <2>1, <2>2, <2>3
<1>4. ASSUME \A i \in Ids : objs[i].type # "MINERAL" => i \in Ids',
             NEW i \in Ids \ Ids'
      PROVE  WorthOf(objs[i]) = 0
  <2>1. objs[i].type = "MINERAL"
    BY <1>4
  <2>2. objs[i].res = 0
    <3>1. CASE u \in DOMAIN damage /\ ExecuteAttack(u)
      <4>1. u \in Ids /\ objs[u].type \in CanBeAttacked
        BY <3>1, Objects DEF GameInv, IInv, LocalsOK
      <4>2. i = u
        BY <1>4, <3>1, RestrictMap DEF ExecuteAttack
      <4> QED
        BY <2>1, <4>1, <4>2 DEF CanBeAttacked, OwnedTypes, MobileTypes, Buildings
    <3>2. CASE EraseMinerals
      <4>1. objs[i].res <= 0
        BY <1>4, <3>2, RestrictMap DEF EraseMinerals
      <4>2. objs[i].res >= 0 /\ objs[i].res \in Int
        BY <1>1, <1>4 DEF GameInv, NoDebt, Object
      <4> QED
        BY <4>1, <4>2
    <3>3. CASE GameRefresh
      <4>1. objs[i].owner \in Sides
        BY <1>4, <3>3 DEF GameRefresh, Defeated
      <4>2. objs[i].owner = 0
        BY <1>4, <2>1 DEF GameInv, IInv, TypeOK
      <4> QED
        BY <4>1, <4>2 DEF Sides
    <3> QED
      BY <3>1, <3>2, <3>3
  <2>3. objs[i].act # "PRODUCE"
    BY <1>4, <2>1 DEF GameInv, IInv, ActionOK, OBJ_PRODUCE_MAP
  <2> QED
    BY <2>1, <2>2, <2>3 DEF WorthOf, OwnedTypes, MobileTypes, Buildings
<1>5. /\ Total(objs') <= Total(objs)
      /\ (\A i \in Ids \ Ids' : WorthOf(objs[i]) = 0) => Total(objs') = Total(objs)
      /\ Total(objs) \in Int
  BY <1>2, <1>3, SharesAreNumbers, TotalLess
<1>6. SumFunction(resource) \in Int
  BY WorthIsTotal
<1>7. Total(objs') \in Int
  BY <1>2, <1>3, SharesAreNumbers, FS_Subset, TotalLess DEF Valued
<1> QED
  BY <1>2, <1>4, <1>5, <1>6, <1>7, WorthIsTotal

\* Nothing is created or lost in a game, on any board and under any prices: what a
\* PRODUCE or a GATHER has under way, and what is paid for it or will come of it, always
\* adds up (GameExecuteProduce to GameStepReturn).
THEOREM WorthIsKept == Spec => WorthConserved
<1> DEFINE Fair == /\ Worth' <= Worth
                   /\ (\A i \in Ids : objs[i].type # "MINERAL" => i \in Ids') => Worth' = Worth
<1>1. ASSUME GameInv, [Next]_vars
      PROVE  Fair
  <2>0. GameInv' /\ Worth \in Int
    BY <1>1, GameInvNext, WorthIsTotal
  <2>1. CASE Worth' = Worth
    BY <2>0, <2>1
  <2>2. ASSUME NEW u, NEW t, NEW p,
               \/ BeginStep \/ EndAttack \/ CountOccupation \/ StepProduce(u, t, p)
               \/ ProduceThrows(u) \/ ExecuteCollisions \/ BeginSettleProduce
               \/ StepMove(u, t) \/ StepGather(u, t) \/ GatherThrows(u, t)
               \/ ReturnThrows(u, t) \/ Threw
        PROVE  Fair
    <3>1. UNCHANGED <<objs, resource>>
      BY <2>2, LocalSteps
    <3> HIDE DEF Fair
    <3> QED
      BY <2>1, <3>1, WorthIsTotal
  <2> HIDE DEF Fair
  <2>3. CASE Order
    BY <1>1, <2>0, <2>1, <2>2, <2>3, FreeSteps, LoadIsBanked DEF Order
  <2>4. CASE Execute
    <3>1. ASSUME NEW u \in DOMAIN damage, ExecuteAttack(u)
          PROVE  Fair
      BY <1>1, <3>1, WorthCanOnlyFall DEF Fair
    <3> QED
      BY <1>1, <2>0, <2>1, <2>4, <3>1, FreeSteps, ProduceIsPaid DEF Execute
  <2>5. CASE Settle
    <3>1. ASSUME EraseMinerals \/ GameRefresh
          PROVE  Fair
      BY <1>1, <3>1, WorthCanOnlyFall DEF Fair
    <3> QED
      BY <1>1, <2>0, <2>1, <2>5, <3>1, FreeSteps, BirthIsPaid, LoadIsTaken DEF Settle
  <2>6. CASE Advance \/ Threw
    BY <2>2, <2>6 DEF Advance
  <2>7. CASE UNCHANGED vars
    BY <2>1, <2>7, WorthIsTotal DEF vars
  <2> QED
    BY <1>1, <2>3, <2>4, <2>5, <2>6, <2>7 DEF Next
<1>2. GameInv /\ [Next]_vars => [Fair]_vars
  BY <1>1
<1>3. IInv /\ TimingOK /\ CountOK /\ NoDebt /\ HandsFree => GameInv
  BY DEF GameInv
<1> HIDE DEF Fair
<1>4. Spec => [][Fair]_vars
  BY <1>2, <1>3, Counting, NobodyOwes, Unladen, PTL DEF Spec
<1> QED
  BY <1>4 DEF WorthConserved, Fair

=============================================================================
