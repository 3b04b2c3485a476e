---------------------------- MODULE TrainingProofs ----------------------------
(***************************************************************************)
(* Proofs about what a player that learns is told: that the end of a game  *)
(* is told for what it is, that no order is masked out that the engine     *)
(* would take, that the rewards count what the tick has brought, and that  *)
(* an order the mask allows is obeyed if it comes first.                   *)
(***************************************************************************)
EXTENDS TrainingProps, GameEngineProofs

USE DEF Ids

\* A game that is trained on is a game: all that is proved of games is true of it.
LEMMA IsAGame == TrainingSpec => Spec
<1>1. TrainingInit => Init
  BY DEF TrainingInit
<1>2. [TrainingNext]_trainingVars => [Next]_vars
  BY DEF TrainingNext, trainingVars
<1> QED
  BY <1>1, <1>2, PTL DEF TrainingSpec, Spec

-----------------------------------------------------------------------------
(* The end *)

\* A side has something on the board just when its count of buildings is not zero.
LEMMA AliveByCount ==
  ASSUME CountOK, DefeatIsTotal, phase = "idle", NEW s \in Sides
  PROVE  /\ buildingCnt[s] \in Nat
         /\ buildingCnt[s] = 0 <=> ~ \E i \in Ids : objs[i].owner = s
<1>1. IsFiniteSet(BuildingsOf(s))
  BY FS_Subset DEF CountOK, BuildingsOf
<1>2. buildingCnt[s] = Cardinality(BuildingsOf(s))
  BY DEF CountOK, BuildingCount
<1>3. buildingCnt[s] \in Nat
  BY <1>1, <1>2, FS_CardinalityType
<1>4. CASE buildingCnt[s] = 0
  BY <1>3, <1>4 DEF DefeatIsTotal
<1>5. CASE buildingCnt[s] # 0
  <2>1. BuildingsOf(s) # {}
    <3>1. Cardinality({}) = 0
      BY FS_EmptySet
    <3> QED
      BY <1>2, <1>5, <3>1
  <2> QED
    BY <1>3, <1>5, <2>1 DEF BuildingsOf
<1> QED
  BY <1>3, <1>4, <1>5

\* Players are told of the end, and of its victor, just when a side has nothing left
\* (IS_END and VICTORY_SIDE of StateToReward, from the counts that GameRefresh reads).
THEOREM EndIsAsTold == TrainingSpec => []EndIsTold
<1>1. ASSUME CountOK, DefeatIsTotal
      PROVE  EndIsTold
  <2> SUFFICES ASSUME phase = "idle"
               PROVE  LET alive == {s \in Sides : \E i \in Ids : objs[i].owner = s} IN
                      /\ IsEnd <=> alive # Sides
                      /\ IsEnd => alive = {VictorySide} \ {0}
    BY DEF EndIsTold, AfterTick
  <2> DEFINE alive == {s \in Sides : \E i \in Ids : objs[i].owner = s}
  <2>1. /\ buildingCnt[-1] \in Nat /\ buildingCnt[1] \in Nat
        /\ buildingCnt[-1] = 0 <=> -1 \notin alive
        /\ buildingCnt[1] = 0 <=> 1 \notin alive
    <3>1. -1 \in Sides /\ 1 \in Sides
      BY DEF Sides
    <3> QED
      BY <1>1, <3>1, AliveByCount
  <2>2. alive \subseteq {-1, 1}
    BY DEF Sides
  <2>3. /\ (-1 \notin alive \/ 1 \notin alive) <=> alive # Sides
    BY <2>2 DEF Sides
  <2> HIDE DEF alive
  <2>4. IsEnd <=> alive # Sides
    BY <2>1, <2>3 DEF IsEnd, Sides
  <2>5. CASE -1 \in alive /\ 1 \in alive
    BY <2>3, <2>4, <2>5 DEF alive
  <2>6. CASE -1 \in alive /\ 1 \notin alive
    <3>1. VictorySide = -1
      BY <2>1, <2>6 DEF VictorySide
    <3>2. alive = {-1}
      BY <2>2, <2>6
    <3> QED
      BY <2>4, <3>1, <3>2 DEF alive
  <2>7. CASE -1 \notin alive /\ 1 \in alive
    <3>1. VictorySide = 1
      BY <2>1, <2>7 DEF VictorySide
    <3>2. alive = {1}
      BY <2>2, <2>7
    <3> QED
      BY <2>4, <3>1, <3>2 DEF alive
  <2>8. CASE -1 \notin alive /\ 1 \notin alive
    <3>1. VictorySide = 0
      BY <2>1, <2>8 DEF VictorySide
    <3>2. alive = {}
      BY <2>2, <2>8
    <3> QED
      BY <2>4, <3>1, <3>2 DEF alive
  <2> QED
    BY <2>5, <2>6, <2>7, <2>8
<1> QED
  BY <1>1, IsAGame, Counting, DefeatClears, PTL

-----------------------------------------------------------------------------
(* What the running tick keeps of the game it began with *)

\* The only step from between two ticks begins one.
LEMMA TickBegins ==
  ASSUME Next, phase = "idle", IInv
  PROVE  BeginStep
<1>1. damage = EmptyMap /\ claims = EmptyMap /\ todo = {}
  BY DEF IInv, LocalsOK
<1>2. ASSUME NEW u, NEW t, NEW p,
             \/ ProduceThrows(u) \/ StepMove(u, t) \/ StepProduce(u, t, p)
             \/ StepAttack(u, t) \/ StepGather(u, t) \/ GatherThrows(u, t)
             \/ StepReturn(u, t) \/ ReturnThrows(u, t)
      PROVE  FALSE
  BY <1>2 DEF ProduceThrows, StepMove, PassesMove, StepProduce, PassesProduce, StepAttack,
              PassesAttack, StepGather, PassesGather, GatherThrows,
       StepReturn, PassesReturn, ReturnThrows
<1>3. ASSUME NEW u, ExecuteAttack(u) \/ ExecuteProduce(u) \/ SettleProduce(u)
                    \/ SettleGather(u)
      PROVE  FALSE
  BY <1>3 DEF ExecuteAttack, ExecuteProduce, SettleProduce, SettleGather
<1>4. ASSUME \/ ExecuteMove \/ ExecuteGather \/ SettleMove \/ EraseMinerals \/ GameRefresh
             \/ EndAttack \/ CountOccupation \/ ExecuteCollisions \/ BeginSettleProduce
             \/ Threw
      PROVE  FALSE
  BY <1>4 DEF ExecuteMove, ExecuteGather, SettleMove, EraseMinerals, GameRefresh, EndAttack,
       CountOccupation, ExecuteCollisions, BeginSettleProduce, Threw
<1> QED
  BY <1>2, <1>3, <1>4 DEF Next, Order, Execute, Settle, Advance

\* The tiles that coordOccupationCount counts twice, for good.
LEMMA ManyStays ==
  ASSUME NEW count \in [Tiles -> 0 .. Many], NEW c \in Tiles, NEW t \in Tiles,
         count[c] = Many
  PROVE  WithClaim(count, t)[c] = Many
BY DEF WithClaim, Many

\* What a step within a tick does to the locals that the masks depend on.
TickFrame ==
  /\ UNCHANGED coordIdx /\ objCnt' >= objCnt
  /\ phase' \in {"attack", "hurt"} => phase \in {"attack", "hurt"}
  /\ phase' \in {"attack", "hurt", "produce"} =>
       phase \in {"attack", "hurt", "produce"} /\ UNCHANGED resource
  /\ phase \in {"return", "threw"} => phase' \in {"return", "threw"}
  /\ phase' \in {"produce", "execProduce", "move"} =>
       \/ CountOccupation
       \/ /\ phase \in {"produce", "execProduce", "move"}
          /\ \A c \in Tiles : occ[c] = Many => occ'[c] = Many

\* Every step within a tick keeps to that.
LEMMA WithinTick ==
  ASSUME IInv, [Next]_vars, phase # "idle", phase' # "idle"
  PROVE  TickFrame
<1>1. objCnt \in Nat
  BY Objects
<1>2. ASSUME NEW u, NEW t, NEW p,
             ProduceThrows(u) \/ GatherThrows(u, t) \/ ReturnThrows(u, t) \/ Threw
      PROVE  TickFrame
  BY <1>1, <1>2 DEF ProduceThrows, GatherThrows, ReturnThrows, Threw, gameVars, vars, TickFrame
<1>3. ASSUME NEW u, NEW t, StepAttack(u, t) \/ StepGather(u, t) \/ StepReturn(u, t)
      PROVE  TickFrame
  BY <1>1, <1>3 DEF StepAttack, PassesAttack, StepGather, PassesGather, StepReturn,
                    PassesReturn, gameVars, TickFrame
<1>4. ASSUME NEW u, NEW t, NEW p, StepProduce(u, t, p) \/ StepMove(u, t)
      PROVE  TickFrame
  <2>1. /\ occ \in [Tiles -> 0 .. Many] /\ t \in Tiles /\ occ' = WithClaim(occ, t)
        /\ phase' = phase /\ phase \in {"produce", "move"}
        /\ UNCHANGED <<coordIdx, objCnt, resource>>
    BY <1>4 DEF StepProduce, PassesProduce, StepMove, PassesMove, IInv, LocalsOK, gameVars
  <2>2. \A c \in Tiles : occ[c] = Many => occ'[c] = Many
    BY <2>1, ManyStays
  <2> QED
    BY <1>1, <2>1, <2>2 DEF TickFrame
<1>5. ASSUME NEW u, ExecuteAttack(u) \/ ExecuteProduce(u) \/ SettleGather(u)
      PROVE  TickFrame
  BY <1>1, <1>5 DEF ExecuteAttack, ExecuteProduce, NextClaim, SettleGather, TickFrame
<1>6. ASSUME NEW u, SettleProduce(u)
      PROVE  TickFrame
  <2>1. objCnt' = objCnt \/ objCnt' = objCnt + 1
    BY <1>6 DEF SettleProduce
  <2> QED
    BY <1>1, <1>6, <2>1 DEF SettleProduce, TickFrame
<1>7. ASSUME ExecuteMove \/ ExecuteGather \/ SettleMove \/ EraseMinerals
      PROVE  TickFrame
  <2>1. UNCHANGED <<resource, objCnt, coordIdx>>
    BY <1>7 DEF ExecuteMove, ExecuteGather, SettleMove, EraseMinerals
  <2>2. <<phase, phase'>> \in {<<"move", "settleMove">>, <<"settleMove", "gather">>,
                               <<"gather", "settleGather">>, <<"settleGather", "return">>}
    BY <1>7 DEF ExecuteMove, ExecuteGather, SettleMove, EraseMinerals
  <2> QED
    BY <1>1, <2>1, <2>2 DEF TickFrame
<1>8. ASSUME \/ BeginStep \/ EndAttack \/ CountOccupation \/ ExecuteCollisions
             \/ BeginSettleProduce \/ GameRefresh
      PROVE  TickFrame
  BY <1>1, <1>8 DEF BeginStep, EndAttack, CountOccupation, ExecuteCollisions,
       BeginSettleProduce, GameRefresh, gameVars, TickFrame
<1>9. CASE UNCHANGED vars
  BY <1>1, <1>9 DEF vars, TickFrame
<1> QED
  BY <1>2, <1>3, <1>4, <1>5, <1>6, <1>7, <1>8, <1>9
     DEF Next, Order, Execute, Settle, Advance

\* Whatever lives on keeps to what is claimed of it.
LEMMA KeptNext ==
  ASSUME IInv, TimingOK, [Next]_vars, UNCHANGED last, phase # "idle", phase' # "idle",
         NEW i \in Ids, i \in Ids', last.objs[i] \in Object, Kept(last.objs[i], objs[i])
  PROVE  Kept(last.objs[i], objs[i])'
<1> DEFINE o == last.objs[i]
           p == objs[i]
           q == objs'[i]
<1>1. TickFrame
  BY WithinTick
<1>2. Life(p, q) /\ p \in Object /\ q \in Object
  <2>1. \A k \in Ids' : objs'[k] \in Object
    BY NextInv DEF IInv, TypeOK, IsMap
  <2> QED
    BY <2>1, LifeGoesOn, Objects
<1>3. q.type = o.type /\ q.owner = o.owner
  BY <1>2 DEF Life, Kept
<1>4. ASSUME AtEase(q)
      PROVE  /\ AtEase(o) /\ q.coord = o.coord
             /\ \/ q.res = o.res \/ o.type = "MINERAL"
                \/ phase' \in {"return", "threw"} /\ q.res = 0
  <2>1. /\ AtEase(p) /\ q.coord = p.coord
        /\ \/ q.res = p.res \/ p.type = "MINERAL"
           \/ phase = "return" /\ q.res = 0
    <3>1. /\ ~Starts(p, q) /\ ~CountsDown(p, q) /\ ~Ends(p, q) /\ ~Refreshes(p, q)
      BY <1>4 DEF Starts, CountsDown, Ends, Refreshes, AtEase
    <3>2. Alike(p, q) \/ UNCHANGED vars \/ Shoots(p, q)
      BY <1>2, <3>1 DEF Life
    <3>3. AtEase(p) /\ q.coord = p.coord
      BY <1>4, <3>2 DEF Alike, Shoots, CanStart, AtEase, vars
    <3>4. Carries(p, q)
      BY <1>2 DEF Life
    <3> QED
      BY <3>1, <3>3, <3>4 DEF Carries
  <2> QED
    BY <1>1, <1>3, <2>1 DEF Kept, TickFrame
<1>5. ASSUME phase' \in {"attack", "hurt"}
      PROVE  q.coord = o.coord /\ (o.act \in {"MOVE", "PRODUCE"} =>
                                   q.act = o.act /\ q.target = o.target)
  <2>1. phase \in {"attack", "hurt"}
    BY <1>1, <1>5 DEF TickFrame
  <2>2. Alike(p, q) \/ UNCHANGED vars \/ Shoots(p, q)
    BY <1>2, <2>1 DEF Life, Starts, CountsDown, Ends, Refreshes
  <2>3. p.coord = o.coord /\ (o.act \in {"MOVE", "PRODUCE"} =>
                              p.act = o.act /\ p.target = o.target)
    BY <2>1 DEF Kept
  <2> QED
    BY <2>2, <2>3 DEF Alike, Shoots, CanStart, vars
<1>6. ASSUME phase' \in {"produce", "execProduce", "move"}, NEW t \in Blocks(o)
      PROVE  occ'[t] = Many
  <2>1. t \in Tiles
    BY DEF Blocks, Object
  <2>2. CASE CountOccupation
    <3> DEFINE S == {objs[k].coord : k \in Ids} \cup
                    {objs[k].target : k \in {j \in Ids : InTransit(j)}}
    <3>1. occ' = Counted(S) /\ phase \in {"attack", "hurt"}
      BY <2>2 DEF CountOccupation
    <3>2. t \in S
      BY <3>1 DEF Blocks, Kept, InTransit
    <3> HIDE DEF S
    <3> QED
      BY <2>1, <3>1, <3>2 DEF Counted
  <2>3. CASE ~CountOccupation
    BY <1>1, <1>6, <2>1, <2>3 DEF TickFrame, Kept
  <2> QED
    BY <2>2, <2>3
<1>7. last.objs[i]' = o /\ objs[i]' = q
  OBVIOUS
<1> HIDE DEF o, p, q
<1> QED
  BY <1>3, <1>4, <1>5, <1>6, <1>7 DEF Kept, AtEase, Blocks

\* A tick begins with the game that is kept to compare with.
LEMMA SinceBegin ==
  ASSUME IInv, NoDebt, BeginStep, last' = Game
  PROVE  SinceTick'
<1>1. /\ UNCHANGED <<objs, objCnt, resource>> /\ phase' = "attack"
      /\ last'.objs = objs /\ last'.resource = resource
  BY DEF BeginStep, gameVars, Game
<1>2. IsMap(objs, 0 .. objCnt - 1, Object)
  <2>1. \A i \in Ids : i \in Nat /\ i < objCnt /\ objs[i] \in Object
    BY DEF IInv, TypeOK, IsMap, IdsFresh
  <2> QED
    BY <2>1, Objects DEF IsMap
<1>3. \A i, j \in Ids : objs[i].coord = objs[j].coord => i = j
  BY DEF IInv, TileExclusive, Held
<1>4. \A t \in DOMAIN coordIdx' : coordIdx'[t] \in Ids /\ objs[coordIdx'[t]].coord = t
  <2>1. coordIdx' = [c \in {objs[i].coord : i \in Ids} |-> CHOOSE i \in Ids : objs[i].coord = c]
    BY DEF BeginStep
  <2> QED
    BY <2>1
<1>5. \A i \in Ids : Kept(last.objs[i], objs[i])'
  BY <1>1 DEF Kept, AtEase
<1>6. resource \in [Sides -> Int]
  BY DEF IInv, TypeOK
<1> QED
  BY <1>1, <1>2, <1>3, <1>4, <1>5, <1>6 DEF SinceTick, NoDebt

\* And what is claimed of it stays true until the tick has ended.
LEMMA SinceNext ==
  ASSUME IInv, TimingOK, NoDebt, SinceTick, [TrainingNext]_trainingVars
  PROVE  SinceTick'
<1>1. CASE phase' = "idle"
  BY <1>1 DEF SinceTick
<1>2. CASE phase = "idle" /\ phase' # "idle"
  <2>1. Next /\ last' = Game
    BY <1>2 DEF TrainingNext, Copy, trainingVars, vars
  <2> QED
    BY <1>2, <2>1, TickBegins, SinceBegin
<1>3. CASE phase # "idle" /\ phase' # "idle"
  <2>1. [Next]_vars /\ UNCHANGED last
    BY <1>3 DEF TrainingNext, Copy, trainingVars
  <2>2. TickFrame
    BY <1>3, <2>1, WithinTick
  <2>3. objCnt \in Nat /\ objCnt' \in Nat /\ objCnt' >= objCnt
    <3>1. objCnt' \in Nat
      BY <2>1, NextInv DEF IInv, TypeOK
    <3> QED
      BY <2>2, <3>1, Objects DEF TickFrame
  <2>4. IsMap(last.objs, 0 .. objCnt - 1, Object)
    BY <1>3 DEF SinceTick
  <2>5. IsMap(last.objs, 0 .. objCnt' - 1, Object)
    BY <2>3, <2>4 DEF IsMap
  <2>6. \A i \in Ids' \cap DOMAIN last.objs : Kept(last.objs[i], objs[i])'
    <3> SUFFICES ASSUME NEW i \in Ids' \cap DOMAIN last.objs
                 PROVE  Kept(last.objs[i], objs[i])'
      OBVIOUS
    <3>1. i \in Ids
      <4>1. i < objCnt
        BY <2>3, <2>4 DEF IsMap
      <4> QED
        BY <2>1, <2>3, <4>1, Births
    <3>2. last.objs[i] \in Object /\ Kept(last.objs[i], objs[i])
      BY <1>3, <2>4, <3>1 DEF SinceTick, IsMap
    <3> QED
      BY <1>3, <2>1, <3>1, <3>2, KeptNext
  <2> QED
    BY <1>3, <2>1, <2>2, <2>5, <2>6 DEF SinceTick, TickFrame
<1> QED
  BY <1>1, <1>2, <1>3

\* It is true of a game at all times.
LEMMA Since == TrainingSpec => [](IInv /\ TimingOK /\ NoDebt /\ SinceTick)
<1>1. TrainingInit => SinceTick
  BY DEF TrainingInit, Init, SinceTick
<1>2. IInv /\ TimingOK /\ NoDebt /\ SinceTick /\ [TrainingNext]_trainingVars => SinceTick'
  BY SinceNext
<1> QED
  BY <1>1, <1>2, IsAGame, Timing, NobodyOwes, PTL DEF TrainingSpec

-----------------------------------------------------------------------------
(* Bytes, tiles and offsets *)

\* A number in base n has one way to be written.
LEMMA Digits ==
  ASSUME NEW n \in Nat \ {0}, NEW k \in Int, NEW l \in Int,
         NEW a \in 0 .. n - 1, NEW b \in 0 .. n - 1, k * n + a = l * n + b
  PROVE  k = l /\ a = b
<1>1. \A x, y \in Int : x > y => x * n >= y * n + n
  <2> SUFFICES ASSUME NEW x \in Int, NEW y \in Int, x > y
               PROVE  x * n >= y * n + n
    OBVIOUS
  <2>1. (x - y - 1) * n >= 0
    OBVIOUS
  <2>2. (x - y - 1) * n = x * n - y * n - n
    OBVIOUS
  <2> QED
    BY <2>1, <2>2
<1>2. k * n \in Int /\ l * n \in Int
  OBVIOUS
<1>3. ~ (k > l) /\ ~ (l > k)
  BY <1>1, <1>2
<1> QED
  BY <1>2, <1>3

\* Each byte of an observation belongs to one plane and one tile.
LEMMA OneByte ==
  ASSUME NEW p \in Int, NEW q \in Int, NEW c \in Tiles, NEW d \in Tiles,
         Byte(p, c) = Byte(q, d)
  PROVE  p = q /\ c = d
<1>1. W \in Nat \ {0}
  BY BoardSize DEF BoardSize
<1>2. /\ c[1] \in 0 .. W - 1 /\ c[2] \in 0 .. W - 1 /\ d[1] \in 0 .. W - 1
      /\ d[2] \in 0 .. W - 1 /\ c = <<c[1], c[2]>> /\ d = <<d[1], d[2]>>
  BY DEF Tiles
<1>3. /\ p * W * W + c[1] * W = (p * W + c[1]) * W
      /\ q * W * W + d[1] * W = (q * W + d[1]) * W
  BY <1>1, <1>2
<1>4. /\ (p * W + c[1]) * W + c[2] = (q * W + d[1]) * W + d[2]
      /\ p * W + c[1] \in Int /\ q * W + d[1] \in Int
  BY <1>1, <1>2, <1>3 DEF Byte
<1>5. p * W + c[1] = q * W + d[1] /\ c[2] = d[2]
  BY <1>1, <1>2, <1>4, Digits
<1>6. p = q /\ c[1] = d[1]
  BY <1>1, <1>2, <1>5, Digits
<1> QED
  BY <1>2, <1>5, <1>6

\* The tiles next to a tile are those that an order can name.
LEMMA NextTo ==
  ASSUME NEW c \in Tiles, NEW t \in Tiles, Adjacent(c, t), t # c
  PROVE  t \in Around(c) /\ OnBoard(t)
<1>1. W \in Nat \ {0}
  BY BoardSize DEF BoardSize
<1>2. /\ c[1] \in 0 .. W - 1 /\ c[2] \in 0 .. W - 1 /\ t[1] \in 0 .. W - 1
      /\ t[2] \in 0 .. W - 1 /\ c = <<c[1], c[2]>> /\ t = <<t[1], t[2]>>
  BY DEF Tiles
<1>3. Range(DIRECTION_TARGET_MAP) = {<<-1, 0>>, <<0, 1>>, <<1, 0>>, <<0, -1>>}
  BY DEF Range, DIRECTION_TARGET_MAP
<1>4. <<t[1] - c[1], t[2] - c[2]>> \in Range(DIRECTION_TARGET_MAP)
  <2>1. Distance(c[1], t[1]) + Distance(c[2], t[2]) <= 1
    BY DEF Adjacent
  <2>2. ~ (t[1] = c[1] /\ t[2] = c[2])
    BY <1>2
  <2>3. \/ t[1] - c[1] = -1 /\ t[2] - c[2] = 0
        \/ t[1] - c[1] = 1 /\ t[2] - c[2] = 0
        \/ t[1] - c[1] = 0 /\ t[2] - c[2] = 1
        \/ t[1] - c[1] = 0 /\ t[2] - c[2] = -1
    BY <1>1, <1>2, <2>1, <2>2 DEF Distance
  <2> QED
    BY <1>3, <2>3
<1>5. Plus(c, <<t[1] - c[1], t[2] - c[2]>>) = t
  BY <1>1, <1>2 DEF Plus
<1> QED
  BY <1>2, <1>4, <1>5 DEF Around, OnBoard

\* Every tile in the range of an attack is one that a RELATIVE_ATTACK_POSITION names.
LEMMA WithinReach ==
  ASSUME NEW c \in Tiles, NEW t \in Tiles, NEW r \in Nat, r <= MaxAttackRange,
         InRange(r, c, t)
  PROVE  \E k \in AttackPositions : Reaches(r, AttackOffset(k)) /\ Plus(c, AttackOffset(k)) = t
<1> DEFINE M == MaxAttackRange
           n == M * 2 + 1
           a == t[1] - c[1]
           b == t[2] - c[2]
           x == a + M
           y == b + M
           k == x * n + y
<1>1. W \in Nat \ {0} /\ M \in Nat
  BY BoardSize, Offsets DEF BoardSize, Offsets
<1>2. /\ c[1] \in 0 .. W - 1 /\ c[2] \in 0 .. W - 1 /\ t[1] \in 0 .. W - 1
      /\ t[2] \in 0 .. W - 1 /\ c = <<c[1], c[2]>> /\ t = <<t[1], t[2]>>
  BY DEF Tiles
<1>3. a \in Int /\ b \in Int
  BY <1>1, <1>2
<1>4. a * a + b * b <= r * r
  <2>1. (c[1] - t[1]) * (c[1] - t[1]) = a * a /\ (c[2] - t[2]) * (c[2] - t[2]) = b * b
    BY <1>1, <1>2
  <2> QED
    BY <2>1 DEF InRange
<1>5. a = t[1] - c[1] /\ b = t[2] - c[2]
  OBVIOUS
<1> HIDE DEF a, b
<1>6. \A d, e \in Int : d * d + e * e <= r * r => -r <= d /\ d <= r
  <2> SUFFICES ASSUME NEW d \in Int, NEW e \in Int, d * d + e * e <= r * r
               PROVE  -r <= d /\ d <= r
    OBVIOUS
  <2>1. e * e >= 0 /\ d * d \in Int /\ e * e \in Int /\ r * r \in Int
    OBVIOUS
  <2>2. d * d <= r * r
    BY <2>1
  <2>3. ASSUME NEW z \in Int, z > r
        PROVE  z * z > r * r
    <3>1. (z - r) * (z + r) > 0
      BY <2>3
    <3>2. (z - r) * (z + r) = z * z - r * r
      BY <2>3
    <3> QED
      BY <3>1, <3>2
  <2>4. ~ (d > r)
    BY <2>1, <2>2, <2>3
  <2>5. (-d) * (-d) = d * d /\ -d \in Int
    OBVIOUS
  <2>6. ~ (-d > r)
    BY <2>1, <2>2, <2>3, <2>5
  <2> QED
    BY <2>4, <2>6
<1>7. x \in 0 .. n - 1 /\ y \in 0 .. n - 1
  <2>1. a * a \in Int /\ b * b \in Int /\ b * b + a * a <= r * r
    BY <1>3, <1>4
  <2>2. -r <= a /\ a <= r /\ -r <= b /\ b <= r
    BY <1>3, <1>4, <1>6, <2>1
  <2> QED
    BY <1>1, <1>3, <2>2
<1>8. n \in Nat \ {0}
  BY <1>1
<1> HIDE DEF M, n, x, y
<1>9. k \in 0 .. n * n - 1
  <2>1. k \in Int /\ n * n \in Int /\ (n - 1) * n = n * n - n
    BY <1>7, <1>8
  <2>2. x * n >= 0 /\ x * n <= (n - 1) * n
    BY <1>7, <1>8
  <2> QED
    BY <1>7, <1>8, <2>1, <2>2
<1>10. k \div n = x /\ k % n = y
  <2>1. \A m \in Nat : /\ m \div n \in Int /\ m % n \in 0 .. n - 1
                       /\ m = (m \div n) * n + (m % n)
    BY <1>8
  <2>2. k \in Nat /\ n * n \in Int
    BY <1>8, <1>9
  <2>3. x \in Int /\ k = x * n + y
    BY <1>7
  <2> DEFINE d == k \div n
             e == k % n
  <2>4. d \in Int /\ e \in 0 .. n - 1 /\ d * n + e = x * n + y
    <3> HIDE DEF k
    <3> QED
      BY <2>1, <2>2, <2>3
  <2> HIDE DEF k, d, e
  <2>5. d = x /\ e = y
    BY <1>7, <1>8, <2>3, <2>4, Digits
  <2> QED
    BY <2>5 DEF d, e
<1> HIDE DEF k
<1>11. AttackOffset(k) = <<a, b>>
  <2>1. AttackOffset(k) = <<(k \div n) - M, (k % n) - M>>
    BY DEF AttackOffset, n, M
  <2>2. x - M = a /\ y - M = b
    BY <1>1, <1>3 DEF M, x, y
  <2> QED
    BY <1>10, <2>1, <2>2
<1>12. k \in AttackPositions
  BY <1>9 DEF AttackPositions, n, M
<1>13. Plus(c, <<a, b>>) = t
  BY <1>2, <1>5 DEF Plus
<1>14. Reaches(r, <<a, b>>)
  BY <1>4 DEF Reaches
<1> QED
  BY <1>11, <1>12, <1>13, <1>14

-----------------------------------------------------------------------------
(* The masks *)

\* A unit that can take an order has bits in the mask, as the unit it is.
LEMMA Asked ==
  ASSUME IInv, SinceTick, phase # "idle", NEW u \in Ready \cap DOMAIN last.objs, Free(u)
  PROVE  LET o == last.objs[u]  p == objs[u] IN
         /\ HasMask(last, u) /\ o \in Object /\ o.coord \in Tiles
         /\ o.type = p.type /\ o.owner = p.owner /\ o.coord = p.coord
         /\ p.owner \in Sides /\ u \in Ids
         /\ \/ o.res = p.res \/ p.type = "MINERAL"
            \/ phase \in {"return", "threw"} /\ p.res = 0
<1>1. u \in Ids /\ objs[u].owner \in Sides
  BY DEF Ready
<1>2. last.objs[u] \in Object /\ Kept(last.objs[u], objs[u])
  BY <1>1 DEF SinceTick, IsMap
<1>3. AtEase(objs[u])
  BY DEF Free, AtEase
<1> QED
  BY <1>1, <1>2, <1>3 DEF Kept, AtEase, HasMask, Object

\* What the index of the tick says of a tile is what the planes show there.
LEMMA Indexed ==
  ASSUME SinceTick, phase # "idle", NEW t \in DOMAIN coordIdx, coordIdx[t] \in Ids
  PROVE  LET k == coordIdx[t] IN
         /\ Byte(OWNER_NONE + objs[k].owner, t) \in Observed(last)
         /\ Byte(OBJ_TYPE + TypeNumber[objs[k].type], t) \in Observed(last)
         /\ k \in DOMAIN last.objs /\ last.objs[k].coord = t /\ last.objs[k].type = objs[k].type
<1> DEFINE k == coordIdx[t]
           o == last.objs[k]
<1>1. k \in DOMAIN last.objs /\ o.coord = t /\ Kept(o, objs[k])
  BY DEF SinceTick
<1>2. o.type = objs[k].type /\ o.owner = objs[k].owner
  BY <1>1 DEF Kept
<1>3. /\ Byte(OWNER_NONE + o.owner, o.coord) \in Shows(o)
      /\ Byte(OBJ_TYPE + TypeNumber[o.type], o.coord) \in Shows(o)
  BY DEF Shows
<1>4. Shows(o) \subseteq Observed(last)
  BY <1>1 DEF Observed
<1> QED
  BY <1>1, <1>2, <1>3, <1>4

\* A tile that is not counted as occupied, and was not vacated in this tick, shows no
\* obstacle.
LEMMA Unblocked ==
  ASSUME SinceTick, phase \in {"produce", "execProduce", "move"},
         NEW t \in Tiles \ Vacated, occ[t] < Many
  PROVE  Byte(OBSTACLE, t) \notin Observed(last)
<1> SUFFICES ASSUME NEW i \in DOMAIN last.objs, Byte(OBSTACLE, t) \in Shows(last.objs[i])
             PROVE  FALSE
  BY DEF Observed
<1> DEFINE o == last.objs[i]
<1>1. o \in Object
  BY DEF SinceTick, IsMap
<1>2. \E p \in Int, c \in {o.coord, o.target} :
        Byte(OBSTACLE, t) = Byte(p, c) /\ (p = OBSTACLE => c \in Blocks(o))
  <2> DEFINE hpPlane == Capped(HP_1 + o.hp - 1, HP_6_PLUS)
             resPlane == Capped(RES_1 + o.res - 1, RES_6_PLUS)
             actPlane == CURRENT_ACTION + ActionNumber[o.act]
             ownerPlane == OWNER_NONE + o.owner
             typePlane == OBJ_TYPE + TypeNumber[o.type]
  <2>1. hpPlane \in Int /\ hpPlane # OBSTACLE /\ resPlane \in Int /\ resPlane # OBSTACLE
    BY <1>1 DEF Object, Capped, HP_1, HP_6_PLUS, RES_1, RES_6_PLUS, OBSTACLE
  <2>2. actPlane \in Int /\ actPlane # OBSTACLE
    <3>1. ActionNumber[o.act] \in 0 .. 4
      BY <1>1 DEF Object, ActionNumber
    <3> QED
      BY <3>1 DEF CURRENT_ACTION, OBSTACLE
  <2>3. ownerPlane \in Int /\ ownerPlane # OBSTACLE
    BY <1>1 DEF Object, Owners, OWNER_NONE, OBSTACLE
  <2>4. typePlane \in Int /\ typePlane # OBSTACLE
    <3>1. TypeNumber[o.type] \in 0 .. 7
      BY <1>1 DEF Object, TypeNumber, GameObjType, OwnedTypes, MobileTypes, Buildings
    <3> QED
      BY <3>1 DEF OBJ_TYPE, OBSTACLE
  <2>5. GATHERING \in Int /\ GATHERING # OBSTACLE /\ OBSTACLE \in Int
    BY DEF GATHERING, OBSTACLE
  <2>6. /\ o.coord \in Blocks(o)
        /\ o.act \in {"MOVE", "PRODUCE"} => o.target \in Blocks(o)
    BY DEF Blocks
  <2>7. \/ Byte(OBSTACLE, t) = Byte(hpPlane, o.coord)
        \/ Byte(OBSTACLE, t) = Byte(actPlane, o.coord)
        \/ Byte(OBSTACLE, t) = Byte(resPlane, o.coord)
        \/ Byte(OBSTACLE, t) = Byte(ownerPlane, o.coord)
        \/ Byte(OBSTACLE, t) = Byte(typePlane, o.coord)
        \/ Byte(OBSTACLE, t) = Byte(GATHERING, o.target)
        \/ Byte(OBSTACLE, t) = Byte(OBSTACLE, o.coord)
        \/ o.act \in {"MOVE", "PRODUCE"} /\ Byte(OBSTACLE, t) = Byte(OBSTACLE, o.target)
    BY DEF Shows
  <2> HIDE DEF o, hpPlane, resPlane, actPlane, ownerPlane, typePlane
  <2> QED
    BY <2>1, <2>2, <2>3, <2>4, <2>5, <2>6, <2>7
<1>3. PICK p \in Int, c \in {o.coord, o.target} :
        Byte(OBSTACLE, t) = Byte(p, c) /\ (p = OBSTACLE => c \in Blocks(o))
  BY <1>2
<1>4. t \in Tiles /\ c \in Tiles /\ OBSTACLE \in Int
  BY <1>1 DEF Object, OBSTACLE
<1>5. t = c /\ c \in Blocks(o)
  BY <1>3, <1>4, OneByte
<1>6. CASE i \in Ids
  <2>1. Kept(o, objs[i])
    BY <1>6 DEF SinceTick
  <2>2. occ[t] = Many
    BY <1>5, <2>1 DEF Kept
  <2> QED
    BY <2>2 DEF Many
<1>7. CASE i \notin Ids
  BY <1>5, <1>7 DEF Vacated
<1> QED
  BY <1>6, <1>7

\* Such a tile is in the masks of the units next to it.
LEMMA NamedByMask ==
  ASSUME IInv, SinceTick, phase \in {"produce", "execProduce", "move"},
         NEW u \in Ready \cap DOMAIN last.objs, Free(u),
         NEW t \in Tiles \ Vacated, Adjacent(objs[u].coord, t), occ[t] < Many
  PROVE  t \in FreeAround(last, Observed(last), u)
<1>1. u \in Ids /\ last.objs[u].coord = objs[u].coord /\ objs[u].coord \in Tiles
  BY Asked
<1>2. t # objs[u].coord
  <2>1. Kept(last.objs[u], objs[u])
    BY <1>1 DEF SinceTick
  <2>2. occ[objs[u].coord] = Many
    BY <1>1, <2>1 DEF Kept, Blocks
  <2> QED
    BY <2>2 DEF Many
<1>3. t \in Around(objs[u].coord) /\ OnBoard(t)
  BY <1>1, <1>2, NextTo
<1> QED
  BY <1>1, <1>3, Unblocked DEF FreeAround

\* What a mask holds, and what is in it is masked in.
LEMMA MasksIn ==
  ASSUME NEW u, HasMask(last, u)
  PROVE  LET ob == Observed(last) IN
         \A x \in MoveMask(last, ob, u) \cup ProduceMask(last, ob, u)
                  \cup GatherMask(last, ob, u) \cup ReturnMask(last, ob, u)
                  \cup AttackMask(last, ob, u) : x \in Masked(last, u)
BY DEF Masked

\* An attack that GameStepAttack accepts is masked in: the offsets that the mask tries
\* reach as far as any unit does.
LEMMA AttackMasked ==
  ASSUME IInv, SinceTick, NEW u \in Ready \cap DOMAIN last.objs, NEW t \in DOMAIN coordIdx,
         StepAttack(u, t)
  PROVE  Decoded("ATTACK", t, "TERRAIN") \in Masked(last, u)
<1> DEFINE o == last.objs[u]
           k == coordIdx[t]
<1>1. /\ phase = "attack" /\ Free(u) /\ objs[u].type \in MobileTypes
      /\ objs[k].owner = -objs[u].owner
      /\ InRange(AttackRange[objs[u].type], objs[u].coord, t)
  BY DEF StepAttack, PassesAttack, CanAttack
<1>2. /\ HasMask(last, u) /\ o.type = objs[u].type /\ o.owner = objs[u].owner
      /\ o.coord = objs[u].coord /\ o.coord \in Tiles /\ o.owner \in Sides
  BY <1>1, Asked
<1>3. t \in Tiles /\ k \in Ids
  BY <1>1 DEF IInv, TypeOK, IsMap, IndexOK
<1>4. t \in InReach(o)
  <2>1. AttackRange[o.type] \in Nat /\ AttackRange[o.type] <= MaxAttackRange
    BY <1>1, <1>2, Rules, Offsets DEF Rules, Offsets
  <2> HIDE DEF o
  <2>2. \E j \in AttackPositions : /\ Reaches(AttackRange[o.type], AttackOffset(j))
                                   /\ Plus(o.coord, AttackOffset(j)) = t
    BY <1>1, <1>2, <1>3, <2>1, WithinReach
  <2> QED
    BY <2>2 DEF InReach
<1>5. Byte(OWNER_NONE - o.owner, t) \in Observed(last)
  <2>1. Byte(OWNER_NONE + objs[k].owner, t) \in Observed(last)
    BY <1>1, <1>3, Indexed
  <2>2. OWNER_NONE + objs[k].owner = OWNER_NONE - o.owner
    BY <1>1, <1>2 DEF OWNER_NONE, Sides
  <2> QED
    BY <2>1, <2>2
<1>6. Decoded("ATTACK", t, "TERRAIN") \in AttackMask(last, Observed(last), u)
  BY <1>1, <1>2, <1>4, <1>5 DEF AttackMask, CanAttack
<1> QED
  BY <1>2, <1>6, MasksIn

\* What GameStepGather and GameStepReturn find next to a worker, the masks find there.
LEMMA ReachMasked ==
  ASSUME IInv, SinceTick, phase # "idle", NEW u \in Ready \cap DOMAIN last.objs,
         NEW t \in DOMAIN coordIdx, ReachesFor(u, t), coordIdx[t] \in Ids,
         objs[coordIdx[t]].type # "WORKER"
  PROVE  t \in Around(last.objs[u].coord) /\ OnBoard(t) /\ last.objs[u].type \in CanGather
<1>1. /\ Free(u) /\ objs[u].type = "WORKER" /\ Adjacent(objs[u].coord, t)
  BY DEF ReachesFor, CanGather
<1>2. /\ last.objs[u].type = "WORKER" /\ last.objs[u].coord = objs[u].coord
      /\ last.objs[u].coord \in Tiles /\ t \in Tiles
  <2>1. t \in Tiles
    BY DEF IInv, TypeOK, IsMap
  <2> QED
    BY <1>1, <2>1, Asked
<1>3. last.objs[coordIdx[t]].type # "WORKER" /\ last.objs[coordIdx[t]].coord = t
  BY Indexed
<1>4. t # last.objs[u].coord
  BY <1>2, <1>3 DEF SinceTick
<1> QED
  BY <1>1, <1>2, <1>4, NextTo DEF CanGather

\* A GATHER that GameStepGather accepts is masked in.
LEMMA GatherMasked ==
  ASSUME IInv, SinceTick, NEW u \in Ready \cap DOMAIN last.objs, NEW t \in DOMAIN coordIdx,
         StepGather(u, t)
  PROVE  Decoded("GATHER", t, "TERRAIN") \in Masked(last, u)
<1>1. /\ phase = "gather" /\ ReachesFor(u, t) /\ Free(u) /\ coordIdx[t] \in Ids
      /\ objs[coordIdx[t]].type = "MINERAL" /\ objs[u].type = "WORKER" /\ objs[u].res = 0
  BY DEF StepGather, PassesGather, ReachesFor, CanBeGathered, CanGather
<1>2. HasMask(last, u) /\ last.objs[u].res = 0
  BY <1>1, Asked
<1>3. t \in Around(last.objs[u].coord) /\ OnBoard(t) /\ last.objs[u].type \in CanGather
  BY <1>1, ReachMasked
<1>4. Byte(OBJ_TYPE + TypeNumber["MINERAL"], t) \in Observed(last)
  <2>1. Byte(OBJ_TYPE + TypeNumber[objs[coordIdx[t]].type], t) \in Observed(last)
    BY <1>1, Indexed
  <2> QED
    BY <1>1, <2>1
<1>5. Decoded("GATHER", t, "TERRAIN") \in GatherMask(last, Observed(last), u)
  BY <1>2, <1>3, <1>4 DEF GatherMask
<1> QED
  BY <1>2, <1>5, MasksIn

\* A RETURN that GameStepReturn accepts is masked in.
LEMMA ReturnMasked ==
  ASSUME IInv, NoDebt, SinceTick, NEW u \in Ready \cap DOMAIN last.objs,
         NEW t \in DOMAIN coordIdx, StepReturn(u, t)
  PROVE  Decoded("RETURN", t, "TERRAIN") \in Masked(last, u)
<1> DEFINE k == coordIdx[t]
<1>1. /\ phase = "return" /\ ReachesFor(u, t) /\ Free(u) /\ k \in Ids
      /\ objs[k].type = "BASE" /\ objs[u].type = "WORKER" /\ objs[u].res # 0
      /\ objs[k].owner = objs[u].owner
  BY DEF StepReturn, PassesReturn, ReachesFor, CanBeStored, CanGather
<1>2. /\ HasMask(last, u) /\ last.objs[u].res = objs[u].res
      /\ last.objs[u].owner = objs[u].owner /\ u \in Ids
  BY <1>1, Asked
<1>3. last.objs[u].res > 0
  <2>1. objs[u].res \in Int /\ objs[u].res >= 0
    BY <1>2, Objects DEF NoDebt, Object
  <2> QED
    BY <1>1, <1>2, <2>1
<1>4. t \in Around(last.objs[u].coord) /\ OnBoard(t) /\ last.objs[u].type \in CanGather
  BY <1>1, ReachMasked
<1>5. /\ Byte(OBJ_TYPE + TypeNumber["BASE"], t) \in Observed(last)
      /\ Byte(OWNER_NONE + last.objs[u].owner, t) \in Observed(last)
  <2>1. /\ Byte(OBJ_TYPE + TypeNumber[objs[k].type], t) \in Observed(last)
        /\ Byte(OWNER_NONE + objs[k].owner, t) \in Observed(last)
    BY <1>1, Indexed
  <2> QED
    BY <1>1, <1>2, <2>1
<1>6. Decoded("RETURN", t, "TERRAIN") \in ReturnMask(last, Observed(last), u)
  BY <1>3, <1>4, <1>5 DEF ReturnMask
<1> QED
  BY <1>2, <1>6, MasksIn

\* A MOVE that GameStepMove lets pass is masked in.
LEMMA MoveMasked ==
  ASSUME IInv, SinceTick, NEW u \in Ready \cap DOMAIN last.objs, NEW t \in Tiles \ Vacated,
         StepMove(u, t)
  PROVE  Decoded("MOVE", t, "TERRAIN") \in Masked(last, u)
<1>1. /\ phase = "move" /\ Free(u) /\ objs[u].type \in CanMove
      /\ Adjacent(objs[u].coord, t) /\ occ[t] < Many
  BY DEF StepMove, PassesMove
<1>2. HasMask(last, u) /\ last.objs[u].type \in CanMove
  BY <1>1, Asked
<1>3. t \in FreeAround(last, Observed(last), u)
  BY <1>1, NamedByMask
<1>4. Decoded("MOVE", t, "TERRAIN") \in MoveMask(last, Observed(last), u)
  BY <1>2, <1>3 DEF MoveMask
<1> QED
  BY <1>2, <1>4, MasksIn

\* A PRODUCE that GameStepProduce lets pass is masked in: who can pay for the dearer
\* product can pay for the one that opens the mask.
LEMMA ProduceMasked ==
  ASSUME IInv, SinceTick, NEW u \in Ready \cap DOMAIN last.objs, NEW t \in Tiles \ Vacated,
         NEW p \in OwnedTypes, StepProduce(u, t, p)
  PROVE  Decoded("PRODUCE", t, p) \in Masked(last, u)
<1>1. /\ phase = "produce" /\ Free(u) /\ Adjacent(objs[u].coord, t) /\ occ[t] < Many
      /\ objs[u].type \in DOMAIN OBJ_PRODUCE_MAP /\ p \in OBJ_PRODUCE_MAP[objs[u].type]
      /\ resource[objs[u].owner] >= Cost[p]
  BY DEF StepProduce, PassesProduce
<1>2. /\ HasMask(last, u) /\ last.objs[u].type = objs[u].type
      /\ last.objs[u].owner = objs[u].owner /\ objs[u].owner \in Sides
  BY <1>1, Asked
<1>3. t \in FreeAround(last, Observed(last), u)
  BY <1>1, NamedByMask
<1>4. p \in ProduceTypes(last, u)
  <2> DEFINE n == resource[objs[u].owner]
  <2>1. n \in Int /\ \A q \in OwnedTypes : Cost[q] \in Nat /\ (Affords(last, u, q) <=> n >= Cost[q])
    <3>1. resource = last.resource
      BY <1>1 DEF SinceTick
    <3>2. n \in Int
      BY <1>2 DEF IInv, TypeOK
    <3> QED
      BY <1>2, <3>1, <3>2, Constants DEF Affords
  <2>2. n >= Cost[p]
    BY <1>1
  <2>3. /\ "WORKER" \in OwnedTypes /\ "BARRACK" \in OwnedTypes /\ "BASE" \in OwnedTypes
        /\ "LIGHT" \in OwnedTypes /\ "RANGED" \in OwnedTypes /\ "HEAVY" \in OwnedTypes
    BY DEF OwnedTypes, MobileTypes, Buildings
  <2> HIDE DEF n
  <2>4. Affords(last, u, p)
    BY <2>1, <2>2
  <2>5. CASE objs[u].type = "BASE"
    <3>1. p = "WORKER"
      BY <1>1, <2>5 DEF OBJ_PRODUCE_MAP
    <3> QED
      BY <1>2, <2>4, <2>5, <3>1 DEF ProduceTypes
  <2>6. CASE objs[u].type = "WORKER"
    <3>1. p \in {"BASE", "BARRACK"}
      BY <1>1, <2>6 DEF OBJ_PRODUCE_MAP
    <3>2. Affords(last, u, "BARRACK")
      BY <2>1, <2>2, <2>3, <3>1, CheapestFirst DEF CheapestFirst
    <3> QED
      BY <1>2, <2>4, <2>6, <3>1, <3>2 DEF ProduceTypes
  <2>7. CASE objs[u].type = "BARRACK"
    <3>1. p \in {"LIGHT", "HEAVY", "RANGED"}
      BY <1>1, <2>7 DEF OBJ_PRODUCE_MAP
    <3>2. Affords(last, u, "LIGHT")
      BY <2>1, <2>2, <2>3, <3>1, CheapestFirst DEF CheapestFirst
    <3> QED
      BY <1>2, <2>4, <2>7, <3>1, <3>2 DEF ProduceTypes
  <2> QED
    BY <1>1, <2>5, <2>6, <2>7 DEF OBJ_PRODUCE_MAP
<1>5. Decoded("PRODUCE", t, p) \in ProduceMask(last, Observed(last), u)
  BY <1>3, <1>4 DEF ProduceMask
<1> QED
  BY <1>2, <1>5, MasksIn

\* Nothing is masked out that the engine would take, whatever the board, the rules and the
\* orders of the tick so far: planes and offsets on one side, objects and coordinates on
\* the other come to the same.
THEOREM MasksAreComplete == TrainingSpec => MaskIsComplete
<1> DEFINE complete ==
      \A u \in Ready \cap DOMAIN last.objs :
        /\ \A t \in DOMAIN coordIdx :
             /\ StepAttack(u, t) => Decoded("ATTACK", t, "TERRAIN") \in Masked(last, u)
             /\ StepGather(u, t) => Decoded("GATHER", t, "TERRAIN") \in Masked(last, u)
             /\ StepReturn(u, t) => Decoded("RETURN", t, "TERRAIN") \in Masked(last, u)
        /\ \A t \in Tiles \ Vacated :
             /\ StepMove(u, t) => Decoded("MOVE", t, "TERRAIN") \in Masked(last, u)
             /\ \A p \in OwnedTypes :
                  StepProduce(u, t, p) => Decoded("PRODUCE", t, p) \in Masked(last, u)
<1>1. IInv /\ NoDebt /\ SinceTick => complete
  BY AttackMasked, GatherMasked, ReturnMasked, MoveMasked, ProduceMasked
<1>2. IInv /\ TimingOK /\ NoDebt /\ SinceTick /\ [TrainingNext]_trainingVars
        => [complete]_trainingVars
  BY <1>1
<1> HIDE DEF complete
<1>3. TrainingSpec => [][complete]_trainingVars
  BY <1>2, Since, PTL DEF TrainingSpec
<1> QED
  BY <1>3 DEF MaskIsComplete, complete

-----------------------------------------------------------------------------
(* What is gained is rewarded *)

\* A step of the second half of a tick that neither pays nor banks anything, and that ends
\* no production.
LateFrame ==
  /\ phase \in Late /\ UNCHANGED resource
  /\ Ids' \subseteq Ids /\ \A i \in Ids \ Ids' : objs[i].type = "MINERAL"
  /\ phase = "execProduce" \/ phase' \in {"execProduce", "move"} => UNCHANGED objs
  /\ phase' = "execProduce" => phase = "execProduce"
  /\ phase' = "move" => \/ phase = "move" /\ UNCHANGED todo
                        \/ phase = "execProduce" /\ todo' = Producers
  /\ phase = "return" => phase' = "return" /\ UNCHANGED objs
  /\ phase' = "return" => phase = "return" \/ EraseMinerals

\* The steps that lead into the second half of a tick, or on within it.
LEMMA LateSteps ==
  ASSUME IInv, [Next]_vars, phase' \in Late
  PROVE  \/ \E u \in DOMAIN claims : ExecuteProduce(u)
         \/ \E u \in todo : SettleProduce(u)
         \/ \E u \in Ready, t \in DOMAIN coordIdx : StepReturn(u, t)
         \/ /\ phase = "produce" /\ phase' \in {"execProduce", "move"}
            /\ UNCHANGED <<objs, resource>>
         \/ LateFrame
<1>1. ASSUME NEW u, NEW t, NEW p,
             ProduceThrows(u) \/ GatherThrows(u, t) \/ ReturnThrows(u, t) \/ Threw
      PROVE  FALSE
  BY <1>1 DEF ProduceThrows, GatherThrows, ReturnThrows, Threw, vars, Late
<1>2. ASSUME NEW u, NEW t, NEW p, StepAttack(u, t) \/ StepProduce(u, t, p)
      PROVE  FALSE
  BY <1>2 DEF StepAttack, PassesAttack, StepProduce, PassesProduce, Late
<1>3. ASSUME NEW u, NEW t, StepMove(u, t) \/ StepGather(u, t)
      PROVE  LateFrame
  BY <1>3 DEF StepMove, PassesMove, StepGather, PassesGather, LateFrame, Late, gameVars
<1>4. ASSUME NEW u, ExecuteAttack(u)
      PROVE  FALSE
  BY <1>4 DEF ExecuteAttack, Late
<1>5. ASSUME NEW u, SettleGather(u)
      PROVE  LateFrame
  BY <1>5 DEF SettleGather, LateFrame, Late
<1>6. ASSUME ExecuteMove \/ ExecuteGather \/ SettleMove
      PROVE  LateFrame
  BY <1>6 DEF ExecuteMove, ExecuteGather, SettleMove, LateFrame, Late
<1>7. ASSUME EraseMinerals
      PROVE  LateFrame
  <2> DEFINE K == {k \in Ids : ~ (objs[k].type = "MINERAL" /\ objs[k].res <= 0)}
  <2>1. /\ phase = "settleGather" /\ phase' = "return" /\ UNCHANGED resource
        /\ objs' = Restrict(objs, K)
    BY <1>7 DEF EraseMinerals
  <2>2. DOMAIN objs' = K
    BY <2>1, RestrictMap
  <2> QED
    BY <1>7, <2>1, <2>2 DEF LateFrame, Late
<1>8. ASSUME BeginStep \/ EndAttack \/ CountOccupation \/ GameRefresh
      PROVE  FALSE
  BY <1>8 DEF BeginStep, EndAttack, CountOccupation, GameRefresh, Late
<1>9. ASSUME ExecuteCollisions \/ BeginSettleProduce
      PROVE  \/ /\ phase = "produce" /\ phase' \in {"execProduce", "move"}
                /\ UNCHANGED <<objs, resource>>
             \/ LateFrame
  BY <1>9 DEF ExecuteCollisions, BeginSettleProduce, LateFrame, Late, gameVars
<1>10. CASE UNCHANGED vars
  BY <1>10 DEF vars, LateFrame, Late
<1> QED
  BY <1>1, <1>2, <1>3, <1>4, <1>5, <1>6, <1>7, <1>8, <1>9, <1>10
     DEF Next, Order, Execute, Settle, Advance

\* What an object is, that lives on in the first half of a tick.
LEMMA UntouchedStays ==
  ASSUME IInv, TimingOK, [Next]_vars, UNCHANGED last, phase \in Early, phase' \in Early,
         NEW i \in Ids, i \in Ids', Untouched(last.objs[i], objs[i])
  PROVE  Untouched(last.objs[i], objs[i])'
<1> DEFINE o == last.objs[i]
           p == objs[i]
           q == objs'[i]
<1>1. Life(p, q)
  BY LifeGoesOn
<1>2. ~Starts(p, q) /\ ~CountsDown(p, q) /\ ~Ends(p, q) /\ ~Refreshes(p, q)
  BY DEF Early, Starts, CountsDown, Ends, Refreshes
<1>3. Alike(p, q) \/ UNCHANGED vars \/ Shoots(p, q)
  BY <1>1, <1>2 DEF Life
<1>4. q.act = p.act /\ (q.act = "PRODUCE" => q.ptype = p.ptype)
  BY <1>3 DEF Alike, Shoots, CanStart, vars
<1>5. q.type = p.type /\ (q.type # "MINERAL" => q.res = p.res)
  BY <1>1, <1>2 DEF Life, Carries, Early
<1>6. last.objs[i]' = o /\ objs[i]' = q
  OBVIOUS
<1> HIDE DEF o, p, q
<1> QED
  BY <1>4, <1>5, <1>6 DEF Untouched, o, p

\* And in the second half, but for who pays for a production.
LEMMA ProceedsStays ==
  ASSUME IInv, TimingOK, HandsFree, [Next]_vars, UNCHANGED last, phase \in Late, phase' \in Late,
         phase = "execProduce" => UNCHANGED objs, phase' = "execProduce" => phase = "execProduce",
         NEW i \in Ids, i \in Ids', Proceeds(last.objs[i], objs[i])
  PROVE  Proceeds(last.objs[i], objs[i])'
<1> DEFINE o == last.objs[i]
           p == objs[i]
           q == objs'[i]
<1>1. Life(p, q) /\ phase' # "idle"
  BY LifeGoesOn DEF Late
<1>2. q.act = "PRODUCE" => p.act = "PRODUCE" /\ q.ptype = p.ptype
  BY <1>1 DEF Life, Alike, Shoots, Starts, CanStart, CountsDown, Ends, Refreshes, vars
<1>3. phase' = "execProduce" => q = p
  OBVIOUS
<1>4. phase = "return" => phase' = "return"
  BY WithinTick DEF TickFrame, Late
<1>5. phase' # "return" /\ q.type = "WORKER" /\ q.res = 0 => o.res = 0
  <2> SUFFICES ASSUME phase' # "return", q.type = "WORKER", q.res = 0
               PROVE  p.res = 0
    BY <1>1, <1>4 DEF Life, Proceeds
  <2>1. p.type = "WORKER" /\ Carries(p, q)
    BY <1>1 DEF Life
  <2>2. CASE Ends(p, q) /\ p.act = "GATHER"
    BY <2>2 DEF HandsFree, Gathering
  <2> QED
    BY <1>4, <2>1, <2>2 DEF Carries
<1>6. last.objs[i]' = o /\ objs[i]' = q
  OBVIOUS
<1> HIDE DEF o, p, q
<1> QED
  BY <1>2, <1>3, <1>5, <1>6 DEF Proceeds, o, p

\* A newcomer stays one.
LEMMA NewbornStays ==
  ASSUME IInv, TimingOK, [Next]_vars, phase \in Late \ {"execProduce"}, phase' \in Late,
         NEW i \in Ids, i \in Ids', Newborn(objs[i])
  PROVE  Newborn(objs'[i])
<1> DEFINE p == objs[i]
           q == objs'[i]
<1>1. Life(p, q) /\ phase' # "idle"
  BY LifeGoesOn DEF Late
<1>2. q.type = p.type /\ p.type # "MINERAL"
  BY <1>1 DEF Life, Newborn, OwnedTypes, MobileTypes, Buildings
<1>3. q.act # "PRODUCE"
  BY <1>1 DEF Life, Newborn, Alike, Shoots, Starts, CountsDown, Ends, Refreshes, vars
<1>4. ASSUME AtEase(q)
      PROVE  q.res = 0
  <2>1. /\ ~Starts(p, q) /\ ~CountsDown(p, q) /\ ~Ends(p, q) /\ ~Refreshes(p, q)
    BY <1>1, <1>4 DEF Starts, CountsDown, Ends, Refreshes, AtEase
  <2>2. Alike(p, q) \/ UNCHANGED vars \/ Shoots(p, q)
    BY <1>1, <2>1 DEF Life
  <2>3. AtEase(p)
    BY <1>4, <2>2 DEF Alike, Shoots, CanStart, AtEase, vars
  <2>4. p.res = 0
    BY <2>3 DEF Newborn
  <2> QED
    BY <1>1, <1>2, <2>1, <2>4 DEF Life, Carries
<1> QED
  BY <1>2, <1>3, <1>4 DEF Newborn

\* A step that keeps all that s has, or removes it all, and starts and ends no production,
\* keeps what counts as new, and what production it counts for.
LEMMA SideCounts ==
  ASSUME NEW s \in Sides, UNCHANGED last, Ids' \subseteq Ids,
         \A i \in Ids \ Ids' : objs[i].owner # s,
         \A i \in Ids' : /\ objs'[i].type = objs[i].type /\ objs'[i].owner = objs[i].owner
                         /\ objs'[i].act = "PRODUCE" <=> objs[i].act = "PRODUCE",
         \A i \in Ids \cap DOMAIN last.objs : objs[i].owner = last.objs[i].owner
  PROVE  /\ \A t \in OwnedTypes : NewCnt(s, t)' = NewCnt(s, t)
                                  /\ Delivered(s, t)' = Delivered(s, t)
         /\ Mine(s)' = Mine(s) /\ Begun(s)' = Begun(s)
<1>1. \A i \in Ids : objs[i].owner = s => i \in Ids'
  OBVIOUS
<1>2. Mine(s)' = Mine(s)
  BY <1>1 DEF Mine
<1>3. Begun(s)' = Begun(s)
  BY <1>2 DEF Begun, Mine
<1>4. ASSUME NEW t \in OwnedTypes
      PROVE  NewCnt(s, t)' = NewCnt(s, t) /\ Delivered(s, t)' = Delivered(s, t)
  <2> DEFINE S == {i \in New : objs[i].owner = s /\ objs[i].type = t}
             T == {i \in New' : objs'[i].owner = s /\ objs'[i].type = t}
  <2>1. S = T
    BY <1>1 DEF New
  <2>2. NewCnt(s, t) = Cardinality(S) /\ NewCnt(s, t)' = Cardinality(T)
    BY DEF NewCnt
  <2> HIDE DEF S, T
  <2>3. Delivered(s, t)' = Delivered(s, t)
    BY <1>1 DEF Delivered
  <2> QED
    BY <2>1, <2>2, <2>3
<1> QED
  BY <1>2, <1>3, <1>4

\* The births of the sides, taken together.
LEMMA BirthsStay ==
  ASSUME BirthsCount,
         \A s \in Sides, t \in OwnedTypes :
           NewCnt(s, t)' = NewCnt(s, t) /\ Delivered(s, t)' = Delivered(s, t)
  PROVE  BirthsCount'
<1> SUFFICES ASSUME NEW s \in Sides, NEW t \in OwnedTypes
             PROVE  NewCnt(s, t)' = Cardinality(Delivered(s, t)')
  BY DEF BirthsCount
<1> QED
  BY DEF BirthsCount

\* Of a side that banks nothing more, the loads stay the same.
LEMMA SameLoads ==
  ASSUME NEW s \in Sides, UNCHANGED last, Unloaded(s)' = Unloaded(s)
  PROVE  Loads(s)' = Loads(s)
BY DEF Loads

\* Of a side that begins nothing more, the prices stay the same.
LEMMA SamePrices ==
  ASSUME NEW s \in Sides, Begun(s)' = Begun(s), \A i \in Begun(s) : objs'[i].ptype = objs[i].ptype
  PROVE  Prices(s)' = Prices(s)
<1>1. [i \in Begun(s) |-> Cost[objs[i].ptype]]' = [i \in Begun(s) |-> Cost[objs[i].ptype]]
  OBVIOUS
<1> QED
  BY <1>1 DEF Prices

\* Before the loads are banked, no worker has lost one.
LEMMA NoneUnloaded ==
  ASSUME GainsSoFar, phase # "return", NEW s \in Sides
  PROVE  Unloaded(s) = {}
BY DEF GainsSoFar, Proceeds, Unloaded, Mine

\* Nothing adds up to nothing.
LEMMA SumOfNone ==
  ASSUME NEW f, DOMAIN f = {}
  PROVE  SumFunction(f) = 0
<1>1. IsFiniteSet({})
  BY FS_EmptySet
<1>2. SumFunctionOnSet(f, {}) = 0
  BY <1>1, SumUnfolds
<1> QED
  BY <1>2 DEF SumFunction

\* The first half of the tick has brought forth nothing.
LEMMA GainsBegin ==
  ASSUME GameInv, GameInv', SinceTick, SinceTick', UNCHANGED last, phase = "produce",
         phase' \in {"execProduce", "move"}, UNCHANGED <<objs, resource>>, GainsInv
  PROVE  GainsSoFar'
<1>1. Ids \subseteq DOMAIN last.objs /\ \A i \in Ids : Untouched(last.objs[i], objs[i])
  BY DEF GainsInv, Early
<1>2. \A i \in Ids : Kept(last.objs[i], objs[i])
  BY <1>1 DEF SinceTick
<1>3. \A i \in (Ids \cap DOMAIN last.objs)' : Proceeds(last.objs[i], objs[i])'
  BY <1>1 DEF Untouched, Proceeds
<1>4. (Ids \ DOMAIN last.objs)' = {}
  BY <1>1
<1>5. NotYetDone'
  <2>1. Fresh' = {}
    BY <1>1 DEF Untouched, Fresh, Producers
  <2>2. IsFiniteSet(Ids') /\ Producers' \subseteq Ids'
    BY DEF GameInv, CountOK, Producers
  <2>3. /\ Cardinality(Producers') \in Nat /\ Cardinality(Ids') \in Nat
        /\ Cardinality(Producers') <= Cardinality(Ids')
    BY <2>2, FS_Subset, FS_CardinalityType
  <2>4. Cardinality(Ids') + Cardinality(Producers') <= 2 * Cardinality(Ids')
    BY <2>3
  <2> QED
    BY <2>1, <2>3, <2>4 DEF NotYetDone
<1>6. BirthsCount'
  <2> SUFFICES ASSUME NEW s \in Sides, NEW t \in OwnedTypes
               PROVE  NewCnt(s, t)' = Cardinality(Delivered(s, t)')
    BY DEF BirthsCount
  <2>1. Delivered(s, t)' = {}
    BY <1>1 DEF Delivered, Untouched
  <2>2. {i \in New' : objs'[i].owner = s /\ objs'[i].type = t} = {}
    BY <1>1 DEF New
  <2> QED
    BY <2>1, <2>2 DEF NewCnt
<1>7. IncomeCounts'
  <2> SUFFICES ASSUME NEW s \in Sides
               PROVE  NetIncome(s)' = Loads(s)' - Prices(s)'
    BY DEF IncomeCounts
  <2>1. NetIncome(s)' = 0
    <3>1. resource[s] \in Int /\ resource = last.resource
      BY DEF GameInv, IInv, TypeOK, SinceTick
    <3> QED
      BY <3>1 DEF NetIncome
  <2>2. Begun(s)' = {}
    BY <1>1 DEF Begun, Mine, Untouched
  <2>3. Unloaded(s)' = {}
    BY <1>1, <1>2 DEF Unloaded, Mine, Untouched, Kept
  <2>4. Prices(s)' = 0 /\ Loads(s)' = 0
    <3>1. DOMAIN [i \in Begun(s)' |-> Cost[objs'[i].ptype]] = {}
      BY <2>2
    <3>2. DOMAIN [i \in Unloaded(s)' |-> last'.objs[i].res] = {}
      BY <2>3
    <3> QED
      BY <3>1, <3>2, SumOfNone DEF Prices, Loads
  <2> QED
    BY <2>1, <2>4
<1> QED
  BY <1>3, <1>4, <1>5, <1>6, <1>7 DEF GainsSoFar

\* A step that neither pays nor banks anything, and ends no production, keeps the gains.
LEMMA GainsKept ==
  ASSUME GameInv, GameInv', SinceTick, SinceTick', UNCHANGED last, [Next]_vars, LateFrame,
         phase' \in Late, GainsSoFar
  PROVE  GainsSoFar'
<1>1. /\ IInv /\ TimingOK /\ HandsFree /\ phase \in Late /\ Ids' \subseteq Ids
      /\ \A i \in Ids \ Ids' : objs[i].owner = 0
      /\ phase = "execProduce" => UNCHANGED objs
      /\ phase' = "execProduce" => phase = "execProduce"
  BY DEF GameInv, IInv, TypeOK, LateFrame
<1>2. \A i \in (Ids \cap DOMAIN last.objs)' : Proceeds(last.objs[i], objs[i])'
  BY <1>1, ProceedsStays DEF GainsSoFar
<1>3. \A i \in (Ids \ DOMAIN last.objs)' : phase' # "execProduce" /\ Newborn(objs'[i])
  BY <1>1, NewbornStays DEF GainsSoFar
<1>4. \A i \in Ids' : Life(objs[i], objs'[i])
  BY <1>1, LifeGoesOn
<1>5. \A i \in Ids' : /\ objs'[i].type = objs[i].type /\ objs'[i].owner = objs[i].owner
                      /\ objs'[i].act = "PRODUCE" <=> objs[i].act = "PRODUCE"
                      /\ objs'[i].act = "PRODUCE" => objs'[i].ptype = objs[i].ptype
  <2> SUFFICES ASSUME NEW i \in Ids'
               PROVE  /\ objs'[i].type = objs[i].type /\ objs'[i].owner = objs[i].owner
                      /\ objs'[i].act = "PRODUCE" <=> objs[i].act = "PRODUCE"
                      /\ objs'[i].act = "PRODUCE" => objs'[i].ptype = objs[i].ptype
    OBVIOUS
  <2>1. CASE UNCHANGED objs
    BY <2>1
  <2>2. CASE ~UNCHANGED objs
    <3>1. phase # "execProduce" /\ phase' # "move" /\ phase' # "idle"
      BY <1>1, <2>2 DEF LateFrame, Late
    <3> QED
      BY <1>4, <3>1
         DEF Life, Alike, Shoots, Starts, CanStart, CountsDown, Ends, Refreshes, vars
  <2> QED
    BY <2>1, <2>2
<1>6. \A i \in Ids \cap DOMAIN last.objs : objs[i].owner = last.objs[i].owner
  BY <1>1 DEF SinceTick, Kept, Late
<1>7. ASSUME NEW s \in Sides
      PROVE  /\ \A t \in OwnedTypes : NewCnt(s, t)' = NewCnt(s, t)
                                      /\ Delivered(s, t)' = Delivered(s, t)
             /\ Mine(s)' = Mine(s) /\ Begun(s)' = Begun(s)
  <2>1. \A i \in Ids \ Ids' : objs[i].owner # s
    BY <1>1 DEF Sides
  <2> QED
    BY <1>1, <1>5, <1>6, <2>1, SideCounts
<1>8. BirthsCount'
  BY <1>7, BirthsStay DEF GainsSoFar
<1>9. NotYetDone'
  <2>1. CASE phase' = "execProduce"
    <3>1. phase = "execProduce" /\ UNCHANGED objs
      BY <1>1, <2>1 DEF LateFrame
    <3> QED
      BY <2>1, <3>1 DEF GainsSoFar, NotYetDone, Fresh, Producers
  <2>2. CASE phase' = "move"
    <3>1. /\ UNCHANGED objs
          /\ \/ phase = "move" /\ UNCHANGED todo
             \/ phase = "execProduce" /\ todo' = Producers
      BY <2>2 DEF LateFrame
    <3>2. CASE phase = "move" /\ UNCHANGED todo
      BY <2>2, <3>1, <3>2 DEF GainsSoFar, NotYetDone, Fresh, Producers, Outlasts
    <3>3. CASE phase = "execProduce" /\ todo' = Producers
      <4> DEFINE n == Cardinality(Ids)
      <4>1. IsFiniteSet(Ids) /\ Producers \subseteq Ids
        BY DEF GameInv, CountOK, Producers
      <4>2. Cardinality(Producers) \in Nat /\ n \in Nat /\ Cardinality(Producers) <= n
        BY <4>1, FS_Subset, FS_CardinalityType
      <4>3. n + Cardinality(Producers) <= 2 * n
        BY <4>2
      <4>4. n .. (n - 1) = {}
        BY <4>2
      <4>5. \A i \in Fresh : /\ i \in todo' /\ objs[i].progress = ObjTime[objs[i].ptype]
                             /\ objs[i].progress \in Int
        BY <3>3, Objects DEF GainsSoFar, NotYetDone, Fresh, Producers, GameInv, Object
      <4>6. Cardinality(Ids)' = n /\ Producers' = Producers /\ Fresh' = Fresh
        BY <3>1 DEF Producers, Fresh
      <4> HIDE DEF n
      <4>7. ASSUME NEW i \in Fresh
            PROVE  Outlasts(objs'[i], i \in todo', n, n)
        BY <3>1, <4>4, <4>5 DEF Outlasts
      <4> QED
        BY <2>2, <4>2, <4>3, <4>6, <4>7 DEF NotYetDone
    <3> QED
      BY <3>1, <3>2, <3>3
  <2> QED
    BY <2>1, <2>2 DEF NotYetDone
<1>10. IncomeCounts'
  <2> SUFFICES ASSUME NEW s \in Sides
               PROVE  NetIncome(s)' = Loads(s)' - Prices(s)'
    BY DEF IncomeCounts
  <2>1. NetIncome(s)' = NetIncome(s)
    BY DEF NetIncome, LateFrame
  <2>2. Prices(s)' = Prices(s)
    <3>1. \A i \in Begun(s) : objs'[i].ptype = objs[i].ptype
      BY <1>5, <1>7 DEF Begun, Mine
    <3> QED
      BY <1>7, <3>1, SamePrices
  <2>3. Unloaded(s)' = Unloaded(s)
    <3>1. CASE UNCHANGED objs
      BY <3>1 DEF Unloaded, Mine
    <3>2. CASE phase # "return" /\ phase' # "return"
      <4>1. Unloaded(s) = {}
        BY <3>2, NoneUnloaded
      <4>2. Unloaded(s)' = {}
        BY <1>2, <3>2 DEF Proceeds, Unloaded, Mine
      <4> QED
        BY <4>1, <4>2
    <3>3. CASE EraseMinerals
      <4> DEFINE K == {k \in Ids : ~ (objs[k].type = "MINERAL" /\ objs[k].res <= 0)}
      <4>1. phase = "settleGather" /\ objs' = Restrict(objs, K)
        BY <3>3 DEF EraseMinerals
      <4> HIDE DEF K
      <4>2. \A i \in Ids' : objs'[i] = objs[i]
        BY <4>1, RestrictMap
      <4>3. Unloaded(s) = {}
        BY <4>1, NoneUnloaded
      <4> QED
        BY <1>1, <4>2, <4>3 DEF Unloaded, Mine
    <3> QED
      BY <3>1, <3>2, <3>3 DEF LateFrame
  <2>4. Loads(s)' = Loads(s)
    BY <2>3, SameLoads
  <2> QED
    BY <2>1, <2>2, <2>4 DEF GainsSoFar, IncomeCounts
<1> QED
  BY <1>2, <1>3, <1>8, <1>9, <1>10 DEF GainsSoFar

\* One number more to add up.
LEMMA SumWith ==
  ASSUME NEW f, NEW g, IsFiniteSet(DOMAIN f), NEW x, x \notin DOMAIN f,
         DOMAIN g = DOMAIN f \cup {x}, g[x] \in Int,
         \A i \in DOMAIN f : f[i] \in Int /\ g[i] = f[i]
  PROVE  SumFunction(g) = SumFunction(f) + g[x] /\ SumFunction(f) \in Int
<1> DEFINE S == DOMAIN f
<1>1. SumFunctionOnSet(g, S) = SumFunctionOnSet(f, S)
  BY SumSame
<1>2. SumFunctionOnSet(g, S \cup {x}) = SumFunctionOnSet(g, S) + g[x]
      /\ SumFunctionOnSet(g, S) \in Int
  <2>1. \A i \in S \cup {x} : g[i] \in Int
    OBVIOUS
  <2> QED
    BY <2>1, SumAdd
<1> QED
  BY <1>1, <1>2 DEF SumFunction

\* Whether a production that is claimed can be paid for or not, the gains stay what the
\* bank says.
LEMMA GainsPaid ==
  ASSUME GameInv, GameInv', SinceTick, SinceTick', UNCHANGED last,
         NEW u \in DOMAIN claims, ExecuteProduce(u), GainsSoFar
  PROVE  GainsSoFar'
<1>1. phase = "execProduce" /\ phase' = "execProduce" /\ u \in Ids /\ objs[u] \in Object
  BY Objects DEF ExecuteProduce, NextClaim, GameInv
<1>2. CASE UNCHANGED <<objs, resource>>
  <2>1. NotYetDone'
    BY <1>1, <1>2 DEF GainsSoFar, NotYetDone, Fresh, Producers
  <2>2. \A i \in (Ids \cap DOMAIN last.objs)' : Proceeds(last.objs[i], objs[i])'
    BY <1>1, <1>2 DEF GainsSoFar, Proceeds
  <2>3. BirthsCount'
    BY <1>2 DEF GainsSoFar, BirthsCount, NewCnt, New, Delivered
  <2>4. IncomeCounts'
    BY <1>2 DEF GainsSoFar, IncomeCounts, NetIncome, Loads, Prices, Begun, Unloaded, Mine
  <2> QED
    BY <1>1, <1>2, <2>1, <2>2, <2>3, <2>4 DEF GainsSoFar
<1>3. CASE StartProduce(u)
  <2> DEFINE s0 == objs[u].owner
             c == claims[u]
             p == [objs[u] EXCEPT !.act = "PRODUCE", !.target = c.target,
                                  !.progress = ObjTime[c.ptype], !.ptype = c.ptype]
  <2>1. Ids \subseteq DOMAIN last.objs
    BY <1>1 DEF GainsSoFar
  <2>2. AtEase(objs[u]) /\ AtEase(last.objs[u]) /\ \A i \in Ids : Kept(last.objs[i], objs[i])
    BY <1>1, <2>1 DEF GameInv, TimingOK, Free, AtEase, SinceTick, Kept
  <2>3. c.ptype \in OwnedTypes /\ s0 \in Sides
    BY <1>1 DEF GameInv, IInv, OccupationOK, LocalsOK
  <2>4. /\ resource' = [resource EXCEPT ![s0] = @ - Cost[c.ptype]]
        /\ Ids' = Ids /\ objs'[u] = p /\ \A i \in Ids : i # u => objs'[i] = objs[i]
    <3>1. objs' = [objs EXCEPT ![u] = p]
      BY <1>3 DEF StartProduce
    <3> QED
      BY <1>1, <1>3, <3>1 DEF StartProduce
  <2>5. /\ p.act = "PRODUCE" /\ p.progress = ObjTime[c.ptype] /\ p.ptype = c.ptype
        /\ p.type = objs[u].type /\ p.owner = s0 /\ p.res = objs[u].res
    BY <1>1 DEF Object
  <2> HIDE DEF p, c, s0
  <2>6. \A i \in (Ids \cap DOMAIN last.objs)' : Proceeds(last.objs[i], objs[i])'
    <3> SUFFICES ASSUME NEW i \in (Ids \cap DOMAIN last.objs)'
                 PROVE  Proceeds(last.objs[i], objs[i])'
      OBVIOUS
    <3>1. Proceeds(last.objs[i], objs[i])
      BY <2>4 DEF GainsSoFar
    <3>2. CASE i # u
      BY <1>1, <2>4, <3>1, <3>2 DEF Proceeds
    <3>3. CASE i = u
      BY <1>1, <2>2, <2>3, <2>4, <2>5, <3>1, <3>3 DEF Proceeds, AtEase
    <3> QED
      BY <3>2, <3>3
  <2>7. NotYetDone'
    <3> SUFFICES ASSUME NEW i \in Fresh'
                 PROVE  objs'[i].progress = ObjTime[objs'[i].ptype]
      BY <1>1 DEF NotYetDone
    <3>1. CASE i = u
      BY <2>4, <2>5, <3>1
    <3>2. CASE i # u
      BY <1>1, <2>4, <3>2 DEF Fresh, Producers, GainsSoFar, NotYetDone
    <3> QED
      BY <3>1, <3>2
  <2>8. \A i \in Ids : objs'[i].type = objs[i].type /\ objs'[i].owner = objs[i].owner
                       /\ objs'[i].res = objs[i].res
    BY <2>4, <2>5 DEF s0
  <2>9. BirthsCount'
    <3> SUFFICES ASSUME NEW s \in Sides, NEW t \in OwnedTypes
                 PROVE  NewCnt(s, t)' = NewCnt(s, t) /\ Delivered(s, t)' = Delivered(s, t)
      BY BirthsStay DEF GainsSoFar
    <3>1. NewCnt(s, t)' = NewCnt(s, t)
      <4>1. {i \in New : objs[i].owner = s /\ objs[i].type = t}'
            = {i \in New : objs[i].owner = s /\ objs[i].type = t}
        BY <2>4, <2>8 DEF New
      <4> QED
        BY <4>1 DEF NewCnt
    <3>2. Delivered(s, t)' = Delivered(s, t)
      BY <2>2, <2>4 DEF Delivered, AtEase
    <3> QED
      BY <3>1, <3>2
  <2>10. ASSUME NEW s \in Sides
         PROVE  NetIncome(s)' = Loads(s)' - Prices(s)'
    <3>1. NetIncome(s) = Loads(s) - Prices(s)
      BY DEF GainsSoFar, IncomeCounts
    <3>2. Mine(s)' = Mine(s) /\ Unloaded(s)' = Unloaded(s)
      BY <2>4, <2>8 DEF Mine, Unloaded
    <3>3. Loads(s)' = Loads(s) /\ Loads(s) = 0
      <4>1. DOMAIN [i \in Unloaded(s) |-> last.objs[i].res] = {}
        BY <1>1, NoneUnloaded
      <4> QED
        BY <3>2, <4>1, SameLoads, SumOfNone DEF Loads
    <3>4. resource \in [Sides -> Int] /\ last.resource[s] \in Int
      BY <1>1 DEF GameInv, IInv, TypeOK, SinceTick
    <3>5. CASE s # s0
      <4>1. Begun(s)' = Begun(s) /\ u \notin Begun(s)
        BY <2>2, <2>4, <3>2, <3>5 DEF Begun, Mine, Kept, s0
      <4>2. Prices(s)' = Prices(s)
        BY <2>4, <4>1, SamePrices DEF Begun, Mine
      <4>3. NetIncome(s)' = NetIncome(s)
        BY <2>4, <3>4, <3>5 DEF NetIncome
      <4> QED
        BY <3>1, <3>3, <4>2, <4>3
    <3>6. CASE s = s0
      <4> DEFINE f == [i \in Begun(s) |-> Cost[objs[i].ptype]]
                 g == [i \in Begun(s)' |-> Cost[objs'[i].ptype]]
      <4>1. Begun(s)' = Begun(s) \cup {u} /\ u \notin Begun(s)
        BY <1>1, <2>1, <2>2, <2>4, <2>5, <3>2, <3>6 DEF Begun, Mine, Kept, AtEase, s0
      <4>2. IsFiniteSet(DOMAIN f)
        BY FS_Subset DEF GameInv, CountOK, Begun, Mine
      <4>3. \A i \in DOMAIN f : f[i] \in Int /\ g[i] = f[i]
        <5> SUFFICES ASSUME NEW i \in Begun(s)
                     PROVE  f[i] \in Int /\ g[i] = f[i]
          OBVIOUS
        <5>1. objs[i].ptype \in OwnedTypes /\ i \in Ids /\ i # u
          BY <4>1 DEF Begun, Mine, GameInv, IInv, ActionOK
        <5>2. Cost[objs[i].ptype] \in Int
          BY <5>1, Constants
        <5>3. objs'[i] = objs[i] /\ i \in Begun(s)'
          BY <2>4, <4>1, <5>1
        <5> QED
          BY <5>2, <5>3
      <4>4. g[u] = Cost[c.ptype] /\ g[u] \in Int
        BY <2>3, <2>4, <2>5, <4>1, Constants
      <4>5. DOMAIN g = DOMAIN f \cup {u} /\ u \notin DOMAIN f
        BY <4>1
      <4>6. Prices(s) = SumFunction(f) /\ Prices(s)' = SumFunction(g)
        BY DEF Prices
      <4> HIDE DEF f, g
      <4>7. Prices(s)' = Prices(s) + Cost[c.ptype] /\ Prices(s) \in Int
        BY <4>2, <4>3, <4>4, <4>5, <4>6, SumWith
      <4>8. resource'[s] = resource[s] - Cost[c.ptype] /\ Cost[c.ptype] \in Int
        BY <2>3, <2>4, <3>4, <3>6, Constants
      <4> QED
        BY <3>1, <3>3, <3>4, <4>7, <4>8 DEF NetIncome
    <3> QED
      BY <3>5, <3>6
  <2>11. (Ids \ DOMAIN last.objs)' = {}
    BY <2>1, <2>4
  <2> QED
    BY <2>6, <2>7, <2>9, <2>10, <2>11 DEF GainsSoFar, IncomeCounts
<1> QED
  BY <1>2, <1>3 DEF ExecuteProduce

\* A load that is banked is gained.
LEMMA GainsBanked ==
  ASSUME GameInv, GameInv', SinceTick, SinceTick', UNCHANGED last, [Next]_vars,
         NEW u \in Ready, NEW t \in DOMAIN coordIdx, StepReturn(u, t), GainsSoFar
  PROVE  GainsSoFar'
<1>1. /\ phase = "return" /\ phase' = "return" /\ u \in Ids /\ objs[u].res # 0
      /\ AtEase(objs[u]) /\ objs[u].type = "WORKER" /\ objs[u].owner \in Sides
      /\ objs' = [objs EXCEPT ![u].res = 0]
      /\ resource' = [resource EXCEPT ![objs[u].owner] = @ + objs[u].res]
      /\ \A i \in Ids : objs[i] \in Object
  BY Objects DEF StepReturn, PassesReturn, ReachesFor, Ready, Free, AtEase, CanGather, GameInv
<1>2. u \in DOMAIN last.objs
  BY <1>1 DEF GainsSoFar, Newborn
<1>3. last.objs[u].res = objs[u].res /\ \A i \in Ids \cap DOMAIN last.objs :
                                          Kept(last.objs[i], objs[i])
  <2>1. \A i \in Ids \cap DOMAIN last.objs : Kept(last.objs[i], objs[i])
    BY <1>1 DEF SinceTick
  <2> QED
    BY <1>1, <1>2, <2>1 DEF Kept
<1>4. /\ Ids' = Ids /\ \A i \in Ids : i # u => objs'[i] = objs[i]
      /\ objs'[u] = [objs[u] EXCEPT !.res = 0]
  BY <1>1
<1>5. \A i \in Ids : /\ objs'[i].type = objs[i].type /\ objs'[i].owner = objs[i].owner
                     /\ objs'[i].act = objs[i].act /\ objs'[i].ptype = objs[i].ptype
                     /\ objs'[i].res = IF i = u THEN 0 ELSE objs[i].res
  BY <1>1, <1>4 DEF Object
<1>6. \A i \in (Ids \cap DOMAIN last.objs)' : Proceeds(last.objs[i], objs[i])'
  BY <1>1, <1>4, <1>5 DEF GainsSoFar, Proceeds
<1>7. \A i \in (Ids \ DOMAIN last.objs)' : phase' # "execProduce" /\ Newborn(objs'[i])
  BY <1>1, <1>2, <1>4 DEF GainsSoFar
<1>8. NotYetDone'
  BY <1>1 DEF NotYetDone
<1>9. ASSUME NEW s \in Sides
      PROVE  /\ \A p \in OwnedTypes : NewCnt(s, p)' = NewCnt(s, p)
                                      /\ Delivered(s, p)' = Delivered(s, p)
             /\ Mine(s)' = Mine(s) /\ Begun(s)' = Begun(s)
  <2>1. \A i \in Ids \cap DOMAIN last.objs : objs[i].owner = last.objs[i].owner
    BY <1>3 DEF Kept
  <2> QED
    BY <1>4, <1>5, <2>1, SideCounts
<1>10. BirthsCount'
  BY <1>9, BirthsStay DEF GainsSoFar
<1>11. ASSUME NEW s \in Sides
       PROVE  NetIncome(s)' = Loads(s)' - Prices(s)'
  <2>1. NetIncome(s) = Loads(s) - Prices(s)
    BY DEF GainsSoFar, IncomeCounts
  <2>2. Prices(s)' = Prices(s)
    <3>1. \A i \in Begun(s) : objs'[i].ptype = objs[i].ptype
      BY <1>5 DEF Begun, Mine
    <3> QED
      BY <1>9, <3>1, SamePrices
  <2>3. resource \in [Sides -> Int] /\ last.resource[s] \in Int
    BY <1>1 DEF GameInv, IInv, TypeOK, SinceTick
  <2>4. CASE s # objs[u].owner
    <3>1. u \notin Mine(s)
      BY <1>2, <1>3, <2>4 DEF Mine, Kept
    <3>2. Unloaded(s)' = Unloaded(s)
      BY <1>4, <1>9, <3>1 DEF Unloaded, Mine
    <3>3. NetIncome(s)' = NetIncome(s)
      BY <1>1, <2>3, <2>4 DEF NetIncome
    <3> QED
      BY <2>1, <2>2, <3>2, <3>3, SameLoads
  <2>5. CASE s = objs[u].owner
    <3> DEFINE f == [i \in Unloaded(s) |-> last.objs[i].res]
               g == [i \in Unloaded(s)' |-> last'.objs[i].res]
    <3>1. u \in Mine(s) /\ u \notin Unloaded(s)
      BY <1>1, <1>2, <1>3, <2>5 DEF Mine, Unloaded, Kept
    <3>2. Unloaded(s)' = Unloaded(s) \cup {u}
      BY <1>1, <1>3, <1>5, <1>9, <3>1 DEF Unloaded, Mine
    <3>3. IsFiniteSet(DOMAIN f)
      BY FS_Subset DEF GameInv, CountOK, Unloaded, Mine
    <3>4. \A i \in DOMAIN last.objs : last.objs[i].res \in Int
      BY <1>1 DEF SinceTick, IsMap, Object
    <3>5. \A i \in DOMAIN f : f[i] \in Int /\ g[i] = f[i]
      BY <3>2, <3>4 DEF Unloaded, Mine
    <3>6. g[u] = objs[u].res /\ g[u] \in Int
      BY <1>2, <1>3, <3>2, <3>4
    <3>7. DOMAIN g = DOMAIN f \cup {u} /\ u \notin DOMAIN f
      BY <3>1, <3>2
    <3>8. Loads(s) = SumFunction(f) /\ Loads(s)' = SumFunction(g)
      BY DEF Loads
    <3> HIDE DEF f, g
    <3>9. Loads(s)' = Loads(s) + objs[u].res /\ Loads(s) \in Int
      BY <3>3, <3>5, <3>6, <3>7, <3>8, SumWith
    <3>10. resource'[s] = resource[s] + objs[u].res /\ objs[u].res \in Int
      BY <1>1, <2>3, <2>5, <3>6
    <3>11. Prices(s) \in Int
      <4> DEFINE h == [i \in Begun(s) |-> Cost[objs[i].ptype]]
      <4>1. IsFiniteSet(DOMAIN h)
        BY FS_Subset DEF GameInv, CountOK, Begun, Mine
      <4>2. \A i \in DOMAIN h : h[i] \in Int
        BY Constants DEF Begun, Mine, GameInv, IInv, ActionOK
      <4>3. Prices(s) = SumFunction(h)
        BY DEF Prices
      <4> HIDE DEF h
      <4> QED
        BY <4>1, <4>2, <4>3, SumRemove DEF SumFunction
    <3> QED
      BY <2>1, <2>2, <2>3, <3>9, <3>10, <3>11 DEF NetIncome
  <2> QED
    BY <2>4, <2>5
<1> QED
  BY <1>6, <1>7, <1>8, <1>10, <1>11 DEF GainsSoFar, IncomeCounts

\* What has begun to produce in this tick is not done when GameSettleProduce visits it, and
\* it goes on like that.
LEMMA FreshLasts ==
  ASSUME GameInv, GameInv', SinceTick, UNCHANGED last, phase = "move", phase' = "move",
         NEW u \in todo, SettleProduce(u), NotYetDone
  PROVE  /\ objs[u].progress = 0 => u \notin Fresh
         /\ NotYetDone'
<1> DEFINE m == Cardinality(Ids)
           k == Cardinality(Producers)
<1>1. PICK n \in Nat : /\ n <= m /\ m + k <= 2 * n
                       /\ \A i \in Fresh : Outlasts(objs[i], i \in todo, n, m)
  BY DEF NotYetDone
<1>2. /\ u \in Producers /\ objs[u] \in Object /\ objs[u].act = "PRODUCE"
      /\ \A i \in Producers : objs[i].progress \in Int /\ ObjTime[objs[i].ptype] \in Nat
      /\ objCnt \notin Ids /\ objCnt \notin DOMAIN last.objs
  <2>1. objCnt \notin DOMAIN last.objs
    BY DEF SinceTick, IsMap, GameInv, IInv, TypeOK
  <2>2. \A i \in Producers : objs[i].ptype \in OwnedTypes
    BY DEF GameInv, IInv, ActionOK, Producers
  <2> QED
    BY <2>1, <2>2, Objects, Constants DEF GameInv, IInv, LocalsOK, Producers, Object
<1>3. IsFiniteSet(Ids) /\ Producers \subseteq Ids /\ m \in Nat /\ k \in Nat
  <2>1. IsFiniteSet(Ids) /\ Producers \subseteq Ids
    BY DEF GameInv, CountOK, Producers
  <2> QED
    BY <2>1, FS_Subset, FS_CardinalityType
<1>4. CASE objs[u].progress = 0
  <2>1. u \notin Fresh
    <3> SUFFICES ASSUME u \in Fresh
                 PROVE  FALSE
      OBVIOUS
    <3>1. Outlasts(objs[u], TRUE, n, m)
      BY <1>1
    <3>2. objs[u].ptype \in OwnedTypes
      BY <1>2 DEF GameInv, IInv, ActionOK, Producers
    <3> QED
      BY <1>2, <1>4, <3>1, <3>2, ProductionOutlasts DEF Outlasts, ProductionOutlasts
  <2> DEFINE q == Resting(objs[u].ptype, objs[u].target, objs[u].owner, Hp[objs[u].ptype], 0)
  <2>2. /\ Ids' = Ids \cup {objCnt} /\ \A i \in Ids : i # u => objs'[i] = objs[i]
        /\ objs'[u].act = "NOOP" /\ objs'[objCnt] = q
    <3> DEFINE f == [objs EXCEPT ![u].act = "NOOP", ![u].progress = -1]
               g == Put(f, objCnt, q)
    <3>1. objs' = g
      BY <1>4 DEF SettleProduce
    <3>2. /\ DOMAIN f = Ids /\ \A i \in Ids : i # u => f[i] = objs[i]
          /\ f[u] = [objs[u] EXCEPT !.act = "NOOP", !.progress = -1]
      BY <1>2 DEF Producers
    <3>3. f[u].act = "NOOP"
      BY <1>2, <3>2 DEF Object
    <3> HIDE DEF f, q
    <3>4. /\ DOMAIN g = DOMAIN f \cup {objCnt} /\ g[objCnt] = q
          /\ \A i \in DOMAIN f : i # objCnt => g[i] = f[i]
      BY DEF Put
    <3> HIDE DEF g
    <3> QED
      BY <1>2, <1>3, <3>1, <3>2, <3>3, <3>4
  <2>3. q.act = "NOOP"
    BY DEF Resting
  <2> HIDE DEF q
  <2>4. Producers' = Producers \ {u} /\ Fresh' = Fresh
    <3>1. Producers' = Producers \ {u}
      BY <1>2, <2>2, <2>3 DEF Producers
    <3> QED
      BY <1>2, <2>1, <3>1 DEF Fresh
  <2>5. Cardinality(Ids') = m + 1 /\ Cardinality(Producers') = k - 1 /\ k >= 1
    <3>1. Cardinality(Ids \cup {objCnt}) = m + 1
      BY <1>2, <1>3, FS_AddElement
    <3>2. IsFiniteSet(Producers)
      BY <1>3, FS_Subset
    <3>3. IsFiniteSet(Producers \ {u}) /\ Cardinality(Producers \ {u}) = k - 1
      BY <1>2, <3>2, FS_RemoveElement
    <3>4. Cardinality(Producers \ {u}) \in Nat
      BY <3>3, FS_CardinalityType
    <3> QED
      BY <1>3, <2>2, <2>4, <3>1, <3>3, <3>4
  <2>6. ASSUME NEW i \in Fresh
        PROVE  Outlasts(objs[i], i \in todo', n, m + 1)
    <3>1. Outlasts(objs[i], i \in todo, n, m) /\ i # u /\ i \in Producers
      BY <1>1, <2>1 DEF Fresh
    <3>2. objs[i].progress \in Int /\ ObjTime[objs[i].ptype] \in Nat
      BY <1>2, <3>1
    <3>3. CASE m \in RehashSizes
      <4>1. \A a \in RehashSizes : a \in Nat /\ (a < m => 2 * a <= m)
        BY <3>3, ProductionOutlasts, Rules DEF ProductionOutlasts, Rules
      <4>2. RehashSizes \cap n .. (m - 1) = {}
        BY <1>1, <1>3, <2>5, <4>1
      <4>3. RehashSizes \cap n .. ((m + 1) - 1) # {}
        <5>1. m \in n .. ((m + 1) - 1)
          BY <1>1, <1>3
        <5> QED
          BY <3>3, <5>1
      <4> HIDE DEF m
      <4> QED
        BY <3>1, <3>2, <4>2, <4>3 DEF Outlasts
    <3>4. CASE m \notin RehashSizes
      <4>1. todo' = todo \ {u}
        BY <1>4, <3>4 DEF SettleProduce
      <4>2. RehashSizes \cap n .. ((m + 1) - 1) = RehashSizes \cap n .. (m - 1)
        BY <1>3, <3>4
      <4>3. i \in todo' <=> i \in todo
        BY <3>1, <4>1
      <4> HIDE DEF m
      <4> QED
        BY <3>1, <4>2, <4>3 DEF Outlasts
    <3> QED
      BY <3>3, <3>4
  <2>7. \A i \in Fresh : objs'[i] = objs[i]
    BY <2>1, <2>2 DEF Fresh, Producers
  <2>8. n <= m + 1 /\ (m + 1) + (k - 1) <= 2 * n
    BY <1>1, <1>3
  <2> HIDE DEF m, k
  <2>9. NotYetDone'
    BY <2>4, <2>5, <2>6, <2>7, <2>8 DEF NotYetDone
  <2> QED
    BY <2>1, <2>9
<1>5. CASE objs[u].progress # 0
  <2>1. /\ objs' = [objs EXCEPT ![u].progress = @ - 1] /\ todo' = todo \ {u}
    BY <1>5 DEF SettleProduce
  <2>2. /\ Ids' = Ids /\ \A i \in Ids : i # u => objs'[i] = objs[i]
        /\ objs'[u] = [objs[u] EXCEPT !.progress = @ - 1]
    BY <1>2, <2>1 DEF Producers
  <2>3. /\ objs'[u].act = objs[u].act /\ objs'[u].progress = objs[u].progress - 1
        /\ objs'[u].ptype = objs[u].ptype
    BY <1>2, <2>2 DEF Object
  <2>4. Producers' = Producers /\ Fresh' = Fresh
    BY <2>2, <2>3 DEF Producers, Fresh
  <2>5. ASSUME NEW i \in Fresh
        PROVE  Outlasts(objs'[i], i \in todo', n, m)
    <3>1. Outlasts(objs[i], i \in todo, n, m) /\ i \in Producers /\ i \in Ids
      BY <1>1 DEF Fresh, Producers
    <3>2. objs[i].progress \in Int /\ ObjTime[objs[i].ptype] \in Nat
      BY <1>2, <3>1
    <3>3. CASE i = u
      <4>1. i \in todo /\ i \notin todo'
        BY <2>1, <3>3
      <4> HIDE DEF m
      <4> QED
        BY <2>3, <3>1, <3>2, <3>3, <4>1 DEF Outlasts
    <3>4. CASE i # u
      <4>1. (i \in todo' <=> i \in todo) /\ objs'[i] = objs[i]
        BY <2>1, <2>2, <3>1, <3>4
      <4> HIDE DEF m
      <4> QED
        BY <3>1, <4>1 DEF Outlasts
    <3> QED
      BY <3>3, <3>4
  <2>6. Cardinality(Ids') = m /\ Cardinality(Producers') = k
    BY <2>2, <2>4
  <2> HIDE DEF m, k
  <2>7. NotYetDone'
    BY <1>1, <2>4, <2>5, <2>6 DEF NotYetDone
  <2> QED
    BY <1>5, <2>7
<1> QED
  BY <1>4, <1>5


\* A production that ends in the tick counts once, as the object that it brings forth.
LEMMA GainsBorn ==
  ASSUME GameInv, GameInv', SinceTick, SinceTick', UNCHANGED last, [Next]_vars,
         NEW u \in todo, SettleProduce(u), GainsSoFar
  PROVE  GainsSoFar'
<1> DEFINE p == objs[u]
<1>1. /\ phase = "move" /\ phase' = "move" /\ u \in Ids /\ p \in Object /\ p.act = "PRODUCE"
      /\ UNCHANGED resource /\ objCnt \notin Ids /\ objCnt \notin DOMAIN last.objs
      /\ IInv /\ TimingOK /\ HandsFree /\ IsFiniteSet(Ids)
  <2>1. phase = "move"
    BY DEF SettleProduce
  <2>2. objCnt \notin DOMAIN last.objs
    BY <2>1 DEF SinceTick, IsMap, GameInv, IInv, TypeOK
  <2> QED
    BY <2>1, <2>2, Objects DEF SettleProduce, GameInv, CountOK, IInv, LocalsOK, Producers
<1>2. \A i \in (Ids \cap DOMAIN last.objs)' : i \in Ids
  BY <1>1, Births
<1>3. \A i \in (Ids \cap DOMAIN last.objs)' : Proceeds(last.objs[i], objs[i])'
  BY <1>1, <1>2, ProceedsStays DEF GainsSoFar, Late
<1>4. (p.progress = 0 => u \notin Fresh) /\ NotYetDone'
  BY <1>1, FreshLasts DEF GainsSoFar
<1>5. u \in DOMAIN last.objs /\ \A i \in Ids \cap DOMAIN last.objs : Kept(last.objs[i], objs[i])
  BY <1>1 DEF GainsSoFar, Newborn, SinceTick
<1>6. \A i \in Ids \cap DOMAIN last.objs : objs[i].owner = last.objs[i].owner
  BY <1>5 DEF Kept
<1>7. ASSUME NEW s \in Sides
      PROVE  Unloaded(s)' = Unloaded(s)
  <2>1. Unloaded(s) = {}
    BY <1>1, NoneUnloaded
  <2>2. Unloaded(s)' = {}
    BY <1>1, <1>3 DEF Proceeds, Unloaded, Mine
  <2> QED
    BY <2>1, <2>2
<1>8. ASSUME \A s \in Sides : /\ Begun(s)' = Begun(s)
                              /\ \A i \in Begun(s) : objs'[i].ptype = objs[i].ptype
      PROVE  IncomeCounts'
  <2> SUFFICES ASSUME NEW s \in Sides
               PROVE  NetIncome(s)' = Loads(s)' - Prices(s)'
    BY DEF IncomeCounts
  <2>1. Prices(s)' = Prices(s) /\ Loads(s)' = Loads(s)
    BY <1>7, <1>8, SamePrices, SameLoads
  <2>2. NetIncome(s)' = NetIncome(s)
    BY <1>1 DEF NetIncome
  <2> QED
    BY <2>1, <2>2 DEF GainsSoFar, IncomeCounts
<1>9. CASE p.progress # 0
  <2>1. objs' = [objs EXCEPT ![u].progress = @ - 1]
    BY <1>9 DEF SettleProduce
  <2>2. /\ Ids' = Ids /\ \A i \in Ids : i # u => objs'[i] = objs[i]
        /\ objs'[u] = [objs[u] EXCEPT !.progress = @ - 1]
    BY <1>1, <2>1
  <2>3. \A i \in Ids : /\ objs'[i].type = objs[i].type /\ objs'[i].owner = objs[i].owner
                       /\ objs'[i].act = objs[i].act /\ objs'[i].ptype = objs[i].ptype
    BY <1>1, <2>2 DEF Object
  <2>4. ASSUME NEW s \in Sides
        PROVE  /\ \A t \in OwnedTypes : NewCnt(s, t)' = NewCnt(s, t)
                                        /\ Delivered(s, t)' = Delivered(s, t)
               /\ Mine(s)' = Mine(s) /\ Begun(s)' = Begun(s)
    BY <1>6, <2>2, <2>3, SideCounts
  <2>5. BirthsCount'
    BY <2>4, BirthsStay DEF GainsSoFar
  <2>6. IncomeCounts'
    BY <1>8, <2>3, <2>4 DEF Begun, Mine
  <2>7. \A i \in (Ids \ DOMAIN last.objs)' : phase' # "execProduce" /\ Newborn(objs'[i])
    BY <1>1, <2>2, NewbornStays DEF GainsSoFar, Late
  <2> QED
    BY <1>3, <1>4, <2>5, <2>6, <2>7 DEF GainsSoFar
<1>10. CASE p.progress = 0
  <2> DEFINE q == Resting(p.ptype, p.target, p.owner, Hp[p.ptype], 0)
             n == objCnt
  <2>1. /\ Ids' = Ids \cup {n} /\ \A i \in Ids : i # u => objs'[i] = objs[i]
        /\ objs'[u] = [p EXCEPT !.act = "NOOP", !.progress = -1] /\ objs'[n] = q
    <3> DEFINE f == [objs EXCEPT ![u].act = "NOOP", ![u].progress = -1]
               g == Put(f, objCnt, q)
    <3>1. objs' = g
      BY <1>10 DEF SettleProduce
    <3>2. /\ DOMAIN f = Ids /\ \A i \in Ids : i # u => f[i] = objs[i]
          /\ f[u] = [objs[u] EXCEPT !.act = "NOOP", !.progress = -1]
      BY <1>1
    <3> HIDE DEF f, q, p
    <3>3. /\ DOMAIN g = DOMAIN f \cup {objCnt} /\ g[objCnt] = q
          /\ \A i \in DOMAIN f : i # objCnt => g[i] = f[i]
      BY DEF Put
    <3> HIDE DEF g
    <3> QED
      BY <1>1, <3>1, <3>2, <3>3 DEF p
  <2>2. /\ q.act = "NOOP" /\ q.type = p.ptype /\ q.owner = p.owner /\ q.res = 0
        /\ p.ptype \in OwnedTypes
    BY <1>1 DEF Resting, ActionOK, IInv
  <2>3. /\ objs'[u].act = "NOOP" /\ objs'[u].type = p.type /\ objs'[u].owner = p.owner
    BY <1>1, <2>1 DEF Object
  <2>4. \A i \in Ids : objs'[i].type = objs[i].type /\ objs'[i].owner = objs[i].owner
    BY <2>1, <2>3
  <2>5. last.objs[u].act = "PRODUCE" /\ last.objs[u].ptype = p.ptype
        /\ last.objs[u].owner = p.owner
    BY <1>1, <1>4, <1>5, <1>6, <1>10 DEF GainsSoFar, Proceeds, Fresh, Producers
  <2> HIDE DEF p, q, n
  <2>6. ASSUME NEW s \in Sides, NEW t \in OwnedTypes
        PROVE  NewCnt(s, t)' = Cardinality(Delivered(s, t)')
    <3> DEFINE S == {i \in New : objs[i].owner = s /\ objs[i].type = t}
               T == {i \in New' : objs'[i].owner = s /\ objs'[i].type = t}
               D == Delivered(s, t)
    <3>1. IsFiniteSet(S) /\ IsFiniteSet(D) /\ Cardinality(S) = Cardinality(D)
      <4>1. IsFiniteSet(S) /\ IsFiniteSet(D)
        BY <1>1, FS_Subset DEF New, Delivered
      <4> QED
        BY <4>1 DEF GainsSoFar, BirthsCount, NewCnt
    <3> HIDE DEF S, D
    <3>2. NewCnt(s, t)' = Cardinality(T)
      BY DEF NewCnt
    <3>3. n \notin S /\ u \notin D
      BY <1>1 DEF New, Delivered, n, p, S, D
    <3>4. CASE p.owner = s /\ p.ptype = t
      <4>1. T = S \cup {n}
        BY <1>1, <2>1, <2>2, <2>4, <3>4 DEF New, n, S
      <4>2. Delivered(s, t)' = D \cup {u}
        BY <1>1, <1>5, <2>1, <2>3, <2>5, <3>4 DEF Delivered, n, D
      <4> HIDE DEF T
      <4>3. Cardinality(T) = Cardinality(S) + 1
        BY <3>1, <3>3, <4>1, FS_AddElement
      <4>4. Cardinality(Delivered(s, t)') = Cardinality(D) + 1
        BY <3>1, <3>3, <4>2, FS_AddElement
      <4> QED
        BY <3>1, <3>2, <4>3, <4>4
    <3>5. CASE ~ (p.owner = s /\ p.ptype = t)
      <4>1. T = S
        BY <1>1, <2>1, <2>2, <2>4, <3>5 DEF New, n, S
      <4>2. Delivered(s, t)' = D
        BY <1>1, <2>1, <2>3, <2>5, <3>5 DEF Delivered, n, D
      <4> HIDE DEF T
      <4> QED
        BY <3>1, <3>2, <4>1, <4>2
    <3> QED
      BY <3>4, <3>5
  <2>7. \A s \in Sides : Begun(s)' = Begun(s) /\ u \notin Begun(s)
    BY <1>1, <2>1, <2>3, <2>5 DEF Begun, Mine, n
  <2>8. IncomeCounts'
    BY <1>8, <2>1, <2>7 DEF Begun, Mine
  <2>9. \A i \in (Ids \ DOMAIN last.objs)' : phase' # "execProduce" /\ Newborn(objs'[i])
    BY <1>1, <2>1, <2>2, NewbornStays DEF GainsSoFar, Late, Newborn, n
  <2> QED
    BY <1>3, <1>4, <2>6, <2>8, <2>9 DEF GainsSoFar, BirthsCount
<1> QED
  BY <1>9, <1>10

\* What is gained is counted through the whole of the tick.
LEMMA GainsNext ==
  ASSUME GameInv, GameInv', SinceTick, SinceTick', GainsInv, [TrainingNext]_trainingVars
  PROVE  GainsInv'
<1>1. CASE phase' \in {"idle", "threw"}
  BY <1>1 DEF GainsInv, Early, Late
<1>2. CASE phase = "idle" /\ phase' # "idle"
  <2>1. Next /\ last' = Game
    BY <1>2 DEF TrainingNext, Copy, trainingVars, vars
  <2>2. BeginStep
    BY <1>2, <2>1, TickBegins DEF GameInv
  <2>3. phase' = "attack" /\ UNCHANGED objs /\ last'.objs = objs
    BY <2>1, <2>2 DEF BeginStep, gameVars, Game
  <2> QED
    BY <2>3 DEF GainsInv, Untouched, Late
<1>3. CASE phase # "idle" /\ phase' \in Early
  <2>1. [Next]_vars /\ UNCHANGED last
    BY <1>3 DEF TrainingNext, Copy, trainingVars
  <2>2. phase \in Early /\ phase' # "idle" /\ phase' \notin Late
    BY <1>3, <2>1, WithinTick DEF TickFrame, Early, Late, GameInv
  <2>3. Ids' \subseteq Ids
    BY <2>1, <2>2, Births DEF GameInv, SettleProduce, Early
  <2>4. \A i \in Ids' : Untouched(last.objs[i], objs[i])'
    BY <1>3, <2>1, <2>2, <2>3, UntouchedStays DEF GainsInv, GameInv
  <2> QED
    BY <2>1, <2>2, <2>3, <2>4 DEF GainsInv
<1>4. CASE phase # "idle" /\ phase' \in Late
  <2> SUFFICES GainsSoFar'
    BY <1>4 DEF GainsInv, Early, Late
  <2>1. [Next]_vars /\ UNCHANGED last
    BY <1>4 DEF TrainingNext, Copy, trainingVars
  <2>2. IInv
    BY DEF GameInv
  <2>3. ASSUME NEW u \in DOMAIN claims, ExecuteProduce(u)
        PROVE  GainsSoFar'
    <3>1. GainsSoFar
      BY <2>3 DEF ExecuteProduce, GainsInv, Late
    <3> QED
      BY <2>1, <2>3, <3>1, GainsPaid
  <2>4. ASSUME NEW u \in todo, SettleProduce(u)
        PROVE  GainsSoFar'
    <3>1. GainsSoFar
      BY <2>4 DEF SettleProduce, GainsInv, Late
    <3> QED
      BY <2>1, <2>4, <3>1, GainsBorn
  <2>5. ASSUME NEW u \in Ready, NEW t \in DOMAIN coordIdx, StepReturn(u, t)
        PROVE  GainsSoFar'
    <3>1. GainsSoFar
      BY <2>5 DEF StepReturn, PassesReturn, GainsInv, Late
    <3> QED
      BY <2>1, <2>5, <3>1, GainsBanked
  <2>6. CASE phase = "produce" /\ phase' \in {"execProduce", "move"}
             /\ UNCHANGED <<objs, resource>>
    BY <2>1, <2>6, GainsBegin
  <2>7. CASE LateFrame
    <3>1. GainsSoFar
      BY <2>7 DEF LateFrame, GainsInv
    <3> QED
      BY <1>4, <2>1, <2>7, <3>1, GainsKept
  <2> QED
    BY <1>4, <2>1, <2>2, <2>3, <2>4, <2>5, <2>6, <2>7, LateSteps
<1>5. phase' \in {"idle", "threw"} \cup Early \cup Late
  BY DEF GameInv, IInv, TypeOK, Phases, Early, Late
<1> QED
  BY <1>1, <1>2, <1>3, <1>4, <1>5 DEF Early, Late

\* The end of the tick counts what has been gained in it.
LEMMA GainsAtEnd ==
  ASSUME GameInv, GameInv', SinceTick, UNCHANGED last, GainsInv, GameRefresh
  PROVE  GainsAreRewarded'
<1>1. /\ phase = "return" /\ phase' = "idle" /\ GainsSoFar /\ UNCHANGED <<resource, buildingCnt>>
      /\ Ids' = {k \in Ids : GameOver => objs[k].owner \notin Defeated}
  BY DEF GameRefresh, GainsInv, Late
<1>2. \A i \in Ids' : /\ objs'[i].type = objs[i].type /\ objs'[i].owner = objs[i].owner
                      /\ objs'[i].act = objs[i].act
                      /\ objs'[i].act = "PRODUCE" => objs'[i].ptype = objs[i].ptype
                      /\ objs'[i].type = "WORKER" => objs'[i].res = objs[i].res
  <2> SUFFICES ASSUME NEW i \in Ids'
               PROVE  /\ objs'[i].type = objs[i].type /\ objs'[i].owner = objs[i].owner
                      /\ objs'[i].act = objs[i].act
                      /\ objs'[i].act = "PRODUCE" => objs'[i].ptype = objs[i].ptype
                      /\ objs'[i].type = "WORKER" => objs'[i].res = objs[i].res
    OBVIOUS
  <2>1. Life(objs[i], objs'[i]) /\ i \in Ids
    BY <1>1, GameRefreshLife DEF GameInv
  <2>2. Refreshes(objs[i], objs'[i])
    BY <1>1, <2>1 DEF Life, vars
  <2> QED
    BY <1>1, <2>1, <2>2 DEF Life, Carries, Refreshes, Ends, IsAtRest
<1>3. \A i \in Ids \cap DOMAIN last.objs : objs[i].owner = last.objs[i].owner
  BY <1>1 DEF SinceTick, Kept
<1>4. ASSUME NEW s \in Sides, GameOver => s \notin Defeated
      PROVE  /\ \A t \in OwnedTypes : NewCnt(s, t)' = NewCnt(s, t)
                                      /\ Delivered(s, t)' = Delivered(s, t)
             /\ Mine(s)' = Mine(s) /\ Begun(s)' = Begun(s)
  BY <1>1, <1>2, <1>3, <1>4, SideCounts
<1>5. ASSUME NEW s \in Sides, GameOver, s \in Defeated, NEW t \in OwnedTypes
      PROVE  NewCnt(s, t)' = Cardinality(Delivered(s, t)')
  <2>1. \A i \in Ids' : objs'[i].owner # s
    BY <1>1, <1>2, <1>5
  <2>2. Delivered(s, t)' = {}
    BY <1>1, <1>2, <1>3, <2>1 DEF Delivered
  <2>3. {i \in New' : objs'[i].owner = s /\ objs'[i].type = t} = {}
    BY <2>1 DEF New
  <2> QED
    BY <2>2, <2>3 DEF NewCnt
<1>6. BirthsCount'
  <2> SUFFICES ASSUME NEW s \in Sides, NEW t \in OwnedTypes
               PROVE  NewCnt(s, t)' = Cardinality(Delivered(s, t)')
    BY DEF BirthsCount
  <2>1. NewCnt(s, t) = Cardinality(Delivered(s, t))
    BY <1>1 DEF GainsSoFar, BirthsCount
  <2> QED
    BY <1>4, <1>5, <2>1
<1>7. ASSUME ~GameOver, NEW s \in Sides
      PROVE  NetIncome(s)' = Loads(s)' - Prices(s)'
  <2>1. Mine(s)' = Mine(s) /\ Begun(s)' = Begun(s) /\ Ids' = Ids
    BY <1>1, <1>4, <1>7
  <2>2. Unloaded(s)' = Unloaded(s)
    BY <1>2, <2>1 DEF Unloaded, Mine
  <2>3. \A i \in Begun(s) : objs'[i].ptype = objs[i].ptype
    BY <1>2, <2>1 DEF Begun, Mine
  <2>4. Loads(s)' = Loads(s) /\ Prices(s)' = Prices(s)
    BY <2>1, <2>2, <2>3, SameLoads, SamePrices
  <2>5. NetIncome(s)' = NetIncome(s)
    BY <1>1 DEF NetIncome
  <2> QED
    BY <1>1, <2>4, <2>5 DEF GainsSoFar, IncomeCounts
<1>8. GameOver' <=> GameOver
  BY <1>1 DEF GameOver
<1> QED
  BY <1>6, <1>7, <1>8 DEF GainsAreRewarded, IncomeCounts

\* Before the first tick nothing has been gained.
LEMMA NoGainsYet ==
  ASSUME TrainingInit
  PROVE  GainsInv /\ GainsAreRewarded
<1>1. /\ phase = "idle" /\ last.objs = objs /\ last.resource = resource
      /\ resource \in [Sides -> Int]
  <2>1. TypeOK
    BY InitInv DEF TrainingInit, IInv
  <2> QED
    BY <2>1 DEF TrainingInit, Init, Game, TypeOK
<1>2. ASSUME NEW s \in Sides, NEW t \in OwnedTypes
      PROVE  NewCnt(s, t) = Cardinality(Delivered(s, t))
  <2>1. Delivered(s, t) = {} /\ {i \in New : objs[i].owner = s /\ objs[i].type = t} = {}
    BY <1>1 DEF Delivered, New
  <2> QED
    BY <2>1 DEF NewCnt
<1>3. ASSUME NEW s \in Sides
      PROVE  NetIncome(s) = Loads(s) - Prices(s)
  <2>1. NetIncome(s) = 0
    BY <1>1 DEF NetIncome
  <2>2. Begun(s) = {} /\ Unloaded(s) = {}
    BY <1>1 DEF Begun, Unloaded, Mine
  <2>3. DOMAIN [i \in Begun(s) |-> Cost[objs[i].ptype]] = {}
        /\ DOMAIN [i \in Unloaded(s) |-> last.objs[i].res] = {}
    BY <2>2
  <2>4. Prices(s) = 0 /\ Loads(s) = 0
    BY <2>3, SumOfNone DEF Prices, Loads
  <2> QED
    BY <2>1, <2>4
<1> QED
  BY <1>1, <1>2, <1>3
     DEF GainsInv, Early, Late, GainsAreRewarded, BirthsCount, IncomeCounts

\* What is gained is accounted for at all times.
LEMMA Gains == TrainingSpec => [](GameInv /\ SinceTick /\ GainsInv)
<1>1. TrainingSpec => [](GameInv /\ SinceTick)
  <2>1. Spec => []GameInv
    BY Counting, NobodyOwes, Unladen, PTL DEF GameInv
  <2> QED
    BY <2>1, IsAGame, Since, PTL
<1>2. TrainingInit => GainsInv
  BY NoGainsYet
<1>3. ASSUME GameInv, GameInv', SinceTick, SinceTick', GainsInv, [TrainingNext]_trainingVars
      PROVE  GainsInv'
  BY <1>3, GainsNext
<1> QED
  BY <1>1, <1>2, <1>3, PTL DEF TrainingSpec

\* A player is rewarded for what it gains when it gains it: for as many new objects of a
\* kind as productions of that kind have ended in the tick, and for the loads brought in
\* less the prices paid (NEW_*_CNT and NEW_NET_INCOME of StateToReward, which compares two
\* games and sees none of the orders).
THEOREM GainsAreTold == TrainingSpec => []GainsAreRewarded
<1> DEFINE Inv == GameInv /\ SinceTick /\ GainsInv
<1>1. TrainingInit => GainsAreRewarded
  BY NoGainsYet
<1>2. ASSUME Inv, Inv', GainsAreRewarded, [TrainingNext]_trainingVars
      PROVE  GainsAreRewarded'
  <2>1. CASE phase' # "idle"
    BY <2>1 DEF GainsAreRewarded, AfterTick
  <2>2. CASE phase' = "idle" /\ phase = "idle"
    <3>1. ~TrainingNext
      <4> SUFFICES ASSUME TrainingNext
                   PROVE  FALSE
        OBVIOUS
      <4>1. BeginStep
        BY <1>2, <2>2, TickBegins DEF TrainingNext, GameInv
      <4> QED
        BY <2>2, <4>1 DEF BeginStep
    <3>2. UNCHANGED trainingVars
      BY <1>2, <3>1
    <3> QED
      BY <1>2, <3>2 DEF trainingVars, vars, GainsAreRewarded, AfterTick, GameOver, BirthsCount,
         IncomeCounts, NewCnt, New, Delivered, NetIncome, Loads, Prices, Begun, Unloaded, Mine
  <2>3. CASE phase' = "idle" /\ phase # "idle"
    <3>1. [Next]_vars /\ UNCHANGED last
      BY <1>2, <2>3 DEF TrainingNext, Copy, trainingVars
    <3>2. GameRefresh
      BY <2>3, <3>1, IdleNext
    <3> QED
      BY <1>2, <3>1, <3>2, GainsAtEnd
  <2> QED
    BY <2>1, <2>2, <2>3
<1> QED
  BY <1>1, <1>2, Gains, PTL DEF TrainingSpec

-----------------------------------------------------------------------------
(* What is lost is rewarded *)

\* A step that neither deals nor takes damage.
HitFrame ==
  /\ UNCHANGED damage
  /\ UNCHANGED objs \/ phase \notin {"attack", "hurt"}
  /\ phase' = "attack" => phase = "attack"
  /\ phase = "threw" => phase' = "threw"
  /\ \A i \in Ids \ Ids' : objs[i].type = "MINERAL"

\* Within a tick only an order to attack and its execution do.
LEMMA HitSteps ==
  ASSUME IInv, [Next]_vars, phase # "idle", phase' # "idle"
  PROVE  \/ \E u \in Ready, t \in DOMAIN coordIdx : StepAttack(u, t)
         \/ \E u \in DOMAIN damage : ExecuteAttack(u)
         \/ HitFrame
<1>1. ASSUME NEW u, NEW t, NEW p,
             \/ ProduceThrows(u) \/ GatherThrows(u, t) \/ ReturnThrows(u, t) \/ Threw
             \/ StepProduce(u, t, p) \/ StepMove(u, t) \/ StepGather(u, t)
      PROVE  HitFrame
  BY <1>1 DEF ProduceThrows, GatherThrows, ReturnThrows, Threw, StepProduce, PassesProduce,
              StepMove, PassesMove,
       StepGather, PassesGather, gameVars, vars, HitFrame
<1>2. ASSUME NEW u, NEW t, StepReturn(u, t)
      PROVE  HitFrame
  BY <1>2 DEF StepReturn, PassesReturn, HitFrame
<1>3. ASSUME NEW u \in DOMAIN claims, ExecuteProduce(u)
      PROVE  HitFrame
  BY <1>3 DEF ExecuteProduce, StartProduce, NextClaim, HitFrame
<1>4. ASSUME NEW u \in todo, SettleProduce(u)
      PROVE  HitFrame
  <2>1. \A i \in Ids : i \in Ids'
    BY <1>4, SettleProduceLife
  <2> QED
    BY <1>4, <2>1 DEF SettleProduce, HitFrame
<1>5. ASSUME NEW u \in todo, SettleGather(u)
      PROVE  HitFrame
  BY <1>5 DEF SettleGather, HitFrame
<1>6. ASSUME ExecuteMove \/ ExecuteGather \/ SettleMove
      PROVE  HitFrame
  BY <1>6 DEF ExecuteMove, ExecuteGather, SettleMove, HitFrame
<1>7. ASSUME EraseMinerals
      PROVE  HitFrame
  <2> DEFINE K == {k \in Ids : ~ (objs[k].type = "MINERAL" /\ objs[k].res <= 0)}
  <2>1. /\ phase = "settleGather" /\ phase' = "return" /\ UNCHANGED damage
        /\ objs' = Restrict(objs, K)
    BY <1>7 DEF EraseMinerals
  <2>2. DOMAIN objs' = K
    BY <2>1, RestrictMap
  <2> QED
    BY <2>1, <2>2 DEF HitFrame
<1>8. ASSUME \/ BeginStep \/ EndAttack \/ CountOccupation \/ GameRefresh
             \/ ExecuteCollisions \/ BeginSettleProduce
      PROVE  HitFrame
  BY <1>8 DEF BeginStep, EndAttack, CountOccupation, GameRefresh, ExecuteCollisions,
       BeginSettleProduce, gameVars, HitFrame
<1>9. CASE UNCHANGED vars
  BY <1>9 DEF vars, HitFrame
<1> QED
  BY <1>1, <1>2, <1>3, <1>4, <1>5, <1>6, <1>7, <1>8, <1>9
     DEF Next, Order, Execute, Settle, Advance

\* Such a step leaves alone who has shot, and what everything has suffered.
LEMMA ShotStays ==
  ASSUME IInv, TimingOK, [Next]_vars, HitFrame, phase' # "idle",
         NEW i \in Ids, i \in Ids', NEW o, Stood(o, objs[i])
  PROVE  /\ objs'[i].type = objs[i].type /\ objs'[i].owner = objs[i].owner
         /\ objs'[i].hp = objs[i].hp /\ Stood(o, objs'[i])
         /\ HasShot(o, objs'[i]) <=> HasShot(o, objs[i])
         /\ HasShot(o, objs[i]) => objs'[i].target = objs[i].target
<1> DEFINE p == objs[i]
           q == objs'[i]
<1>1. CASE UNCHANGED objs
  BY <1>1
<1>2. CASE phase \notin {"attack", "hurt"}
  <2>1. Life(p, q) /\ ~Shoots(p, q) /\ ~Refreshes(p, q)
    BY <1>2, LifeGoesOn DEF Shoots, Refreshes
  <2>2. q.type = p.type /\ q.owner = p.owner /\ q.hp = p.hp
    BY <1>2, <2>1 DEF Life
  <2>3. \/ Alike(p, q) \/ UNCHANGED vars
        \/ p.cd = 0 /\ q.cd = 0
    <3>1. p.act # "NOOP" => p.cd = 0
      BY DEF TimingOK
    <3> QED
      BY <2>1, <3>1 DEF Life, Starts, CanStart, CountsDown, Ends
  <2>4. CASE Alike(p, q) \/ UNCHANGED vars
    BY <2>2, <2>4 DEF Alike, HasShot, Stood, vars
  <2>5. CASE p.cd = 0 /\ q.cd = 0
    BY <2>2, <2>5 DEF HasShot, Stood
  <2> QED
    BY <2>3, <2>4, <2>5
<1> QED
  BY <1>1, <1>2 DEF HitFrame

\* The points of units that can attack are a number.
LEMMA PointsCount ==
  ASSUME NEW S, IsFiniteSet(S), \A i \in S : objs[i].type \in MobileTypes
  PROVE  Points(S) \in Int
<1> DEFINE f == [i \in S |-> AttackPoint[objs[i].type]]
<1>1. DOMAIN f = S /\ \A i \in S : f[i] \in Int
  BY Constants
<1> HIDE DEF f
<1>2. SumFunctionOnSet(f, S) \in Int
  BY <1>1, SumRemove
<1> QED
  BY <1>1, <1>2 DEF Points, SumFunction, f

\* Nobody deals nothing.
LEMMA NoPoints == Points({}) = 0
<1>1. DOMAIN [i \in {} |-> AttackPoint[objs[i].type]] = {}
  OBVIOUS
<1> QED
  BY <1>1, SumOfNone DEF Points


\* The same units deal the same.
LEMMA SamePoints ==
  ASSUME NEW S, \A i \in S : objs'[i].type = objs[i].type
  PROVE  Points(S)' = Points(S)
<1>1. [i \in S |-> AttackPoint[objs'[i].type]] = [i \in S |-> AttackPoint[objs[i].type]]
  OBVIOUS
<1> QED
  BY <1>1 DEF Points

\* When a tick begins nothing has been dealt.
LEMMA HitsBegin ==
  ASSUME GameInv, BeginStep, last' = Game, LossesInv
  PROVE  LossesInv'
<1>1. /\ UNCHANGED <<objs, damage>> /\ phase' = "attack" /\ last'.objs = objs
      /\ damage = EmptyMap /\ DOMAIN damage = {}
  BY DEF BeginStep, gameVars, Game, GameInv, IInv, LocalsOK, EmptyMap
<1>2. \A i \in Ids : objs[i] \in Object /\ ~HasShot(objs[i], objs[i])
  BY Objects DEF GameInv, HasShot, Object
<1>3. ASSUME NEW s \in Sides, NEW j \in Ids, objs[j].owner = -s
      PROVE  Survives(j, Points(Aiming(s, j)))'
  <2>1. Aiming(s, j)' = {}
    BY <1>1, <1>2 DEF Aiming, Mine
  <2>2. Points({})' = 0
    BY NoPoints, SamePoints
  <2>3. Points(Aiming(s, j))' = 0
    BY <2>1, <2>2
  <2>4. objs[j].hp > 0
    BY <1>2, <1>3 DEF LossesInv, GameInv, IInv, TypeOK, Object, Sides, GameObjType, OwnedTypes,
       MobileTypes, Buildings
  <2> QED
    BY <1>1, <1>2, <2>3, <2>4 DEF Survives, Object
<1>4. ASSUME NEW s \in Sides
      PROVE  HitsSoFar(s)'
  BY <1>1, <1>3 DEF HitsSoFar
<1> QED
  BY <1>1, <1>2, <1>4 DEF LossesInv, Stood

\* An attack that is accepted is in unitDamageMap.
LEMMA HitsDealt ==
  ASSUME GameInv, SinceTick, UNCHANGED last, NEW u \in Ready, NEW t \in DOMAIN coordIdx,
         StepAttack(u, t), LossesInv
  PROVE  LossesInv'
<1> DEFINE k == coordIdx[t]
           n == AttackPoint[objs[u].type]
           r == AttackInterval[objs[u].type]
           v == n + (IF k \in DOMAIN damage THEN damage[k] ELSE 0)
<1>1. /\ phase = "attack" /\ phase' = "attack" /\ u \in Ids /\ objs[u].type \in CanAttack
      /\ k \in Ids /\ last.objs[k].coord = t /\ objs[k].owner = -objs[u].owner
      /\ Ids = DOMAIN last.objs
      /\ objs[u].owner \in Sides /\ AtEase(objs[u])
  BY DEF StepAttack, PassesAttack, LossesInv, SinceTick, GameInv, IInv, IndexOK, Ready,
         AtEase, Free
<1>2. /\ \A i \in Ids : Kept(last.objs[i], objs[i]) /\ objs[i].hp = last.objs[i].hp
                        /\ last.objs[i].owner = objs[i].owner
                        /\ objs[i] \in Object /\ Stood(last.objs[i], objs[i])
      /\ \A s \in Sides : HitsSoFar(s)
  BY <1>1, Objects DEF LossesInv, SinceTick, GameInv, Kept
<1>3. last.objs[u].cd = 0 /\ objs[u].cd = 0 /\ objs[u].coord = last.objs[u].coord
  BY <1>1, <1>2 DEF Kept, AtEase
<1>4. n \in Nat /\ r \in Nat \ {0}
  BY <1>1, Constants DEF CanAttack
<1>5. objs' = [objs EXCEPT ![u].target = t, ![u].cd = r]
  BY DEF StepAttack, PassesAttack
<1>6. damage' = Put(damage, k, v)
  BY DEF StepAttack, PassesAttack
<1> HIDE DEF v, n, r, k
<1>7. /\ DOMAIN damage' = DOMAIN damage \cup {k} /\ damage'[k] = v
       /\ \A x \in DOMAIN damage : x # k => damage'[x] = damage[x]
  BY <1>6 DEF Put
<1>8. /\ Ids' = Ids /\ \A i \in Ids : i # u => objs'[i] = objs[i]
      /\ objs'[u] = [objs[u] EXCEPT !.target = t, !.cd = r]
  BY <1>1, <1>5
<1>9. /\ objs'[u].act = objs[u].act /\ objs'[u].coord = objs[u].coord
      /\ objs'[u].hp = objs[u].hp /\ objs'[u].type = objs[u].type
      /\ objs'[u].target = t /\ objs'[u].cd = r
  BY <1>1, <1>2, <1>8 DEF Object
<1>10. \A i \in Ids : objs'[i].type = objs[i].type /\ objs'[i].hp = objs[i].hp
  BY <1>8, <1>9
<1>11. \A i \in Ids : Stood(last.objs[i], objs'[i])
  BY <1>1, <1>2, <1>3, <1>8, <1>9 DEF Stood, AtEase
<1>12. ASSUME NEW s \in Sides
       PROVE  HitsSoFar(s)'
  <2> SUFFICES ASSUME NEW j \in Ids, last.objs[j].owner = -s
               PROVE  IF j \in DOMAIN damage'
                        THEN /\ j \in Ids' /\ objs'[j].hp = last.objs[j].hp
                             /\ damage'[j] = Points(Aiming(s, j))'
                        ELSE Survives(j, Points(Aiming(s, j)))'
    BY <1>1, <1>8 DEF HitsSoFar
  <2>1. PICK A : A = Aiming(s, j)
    OBVIOUS
  <2>2. Gone(s) = {}
    BY <1>1 DEF Gone
  <2>3. IF j \in DOMAIN damage
          THEN j \in Ids /\ objs[j].hp = last.objs[j].hp /\ damage[j] = Points(A)
          ELSE Survives(j, Points(A))
    BY <1>1, <1>2, <2>1, <2>2 DEF HitsSoFar
  <2>4. IsFiniteSet(A) /\ \A i \in A : i \in Ids /\ i # u /\ objs[i].type \in MobileTypes
    <3>1. A \subseteq Ids
      BY <2>1 DEF Aiming, Mine
    <3>2. \A i \in A : i # u /\ objs[i].type \in MobileTypes
      BY <1>2, <1>3, <2>1 DEF Aiming, Mine, HasShot, Stood, CanAttack
    <3> QED
      BY <3>1, <3>2, FS_Subset DEF GameInv, CountOK
  <2>5. Points(A) \in Int
    BY <2>4, PointsCount
  <2>6. Mine(s)' = Mine(s) /\ \A i \in Mine(s) : i # u => objs'[i] = objs[i]
    BY <1>8 DEF Mine
  <2>7. ~HasShot(last.objs[u], objs[u]) /\ HasShot(last.objs[u], objs'[u])
    BY <1>3, <1>4, <1>9 DEF HasShot
  <2>8. CASE j # k
    <3>1. last.objs[j].coord # t
      BY <1>1, <2>8 DEF SinceTick
    <3>2. Aiming(s, j)' = A
      BY <1>9, <2>1, <2>6, <2>7, <3>1 DEF Aiming
    <3>3. Points(A)' = Points(A)
      BY <1>10, <2>4, SamePoints
    <3>4. /\ j \in DOMAIN damage' <=> j \in DOMAIN damage
          /\ j \in DOMAIN damage => damage'[j] = damage[j]
      BY <1>7, <2>8
    <3> QED
      BY <1>8, <1>10, <2>3, <3>2, <3>3, <3>4 DEF Survives
  <2>9. CASE j = k
    <3>1. s = objs[u].owner
      BY <1>1, <1>2, <2>9 DEF Sides
    <3>2. u \in Mine(s)
      BY <1>1, <1>2, <3>1 DEF Mine
    <3>3. Aiming(s, j)' = A \cup {u}
      BY <1>1, <1>9, <2>1, <2>9, <2>6, <2>7, <3>2 DEF Aiming
    <3>4. Points(A \cup {u})' = Points(A) + n
      <4> DEFINE f == [i \in A |-> AttackPoint[objs[i].type]]
                 g == [i \in A \cup {u} |-> AttackPoint[objs'[i].type]]
      <4>1. /\ DOMAIN f = A /\ DOMAIN g = A \cup {u} /\ g[u] = n
            /\ \A i \in A : f[i] \in Int /\ g[i] = f[i]
        BY <1>9, <1>10, <2>4, Constants DEF n
      <4>2. Points(A) = SumFunction(f) /\ Points(A \cup {u})' = SumFunction(g)
        BY DEF Points
      <4> HIDE DEF f, g
      <4>3. SumFunction(g) = SumFunction(f) + g[u]
        BY <1>4, <2>4, <4>1, SumWith
      <4> QED
        BY <4>1, <4>2, <4>3
    <3>5. (IF k \in DOMAIN damage THEN damage[k] ELSE 0) = Points(A)
      <4>1. CASE k \in DOMAIN damage
        BY <2>3, <2>9, <4>1
      <4>2. CASE k \notin DOMAIN damage
        <5>1. objs[j].hp = last.objs[j].hp - Points(A) /\ objs[j].hp \in Int
          BY <1>2, <2>3, <2>9, <4>2 DEF Survives, Object
        <5> QED
          BY <1>2, <2>5, <4>2, <5>1
      <4> QED
        BY <4>1, <4>2
    <3>6. k \in DOMAIN damage' /\ damage'[k] = n + Points(A)
      BY <1>7, <3>5 DEF v
    <3>7. n + Points(A) = Points(A) + n
      BY <1>4, <2>5
    <3> QED
      BY <1>2, <1>8, <1>10, <2>9, <3>3, <3>4, <3>6, <3>7
  <2> QED
    BY <2>8, <2>9
<1> QED
  BY <1>1, <1>2, <1>8, <1>10, <1>11, <1>12 DEF LossesInv


\* Once the damage is known, it is taken from what was hit.
LEMMA HitsTaken ==
  ASSUME GameInv, SinceTick, UNCHANGED last, NEW u \in DOMAIN damage, ExecuteAttack(u),
         LossesInv
  PROVE  LossesInv'
<1>1. /\ phase = "hurt" /\ phase' = "hurt" /\ u \in Ids /\ damage[u] \in Nat
      /\ \A i \in Ids : objs[i] \in Object
      /\ \A i \in Ids \cap DOMAIN last.objs : Stood(last.objs[i], objs[i])
      /\ \A s \in Sides : HitsSoFar(s)
      /\ \A i \in Ids : objs[i].type \in OwnedTypes => objs[i].hp > 0
  BY Objects DEF ExecuteAttack, LossesInv, GameInv, IInv, TypeOK, IsMap
<1>2. /\ DOMAIN damage' = DOMAIN damage \ {u}
      /\ \A i \in DOMAIN damage : i # u => damage'[i] = damage[i]
  BY RestrictMap DEF ExecuteAttack
<1>3. /\ Ids' \subseteq Ids /\ \A i \in Ids : i # u => i \in Ids' /\ objs'[i] = objs[i]
      /\ u \in Ids' => objs[u].hp - damage[u] > 0 /\ objs'[u] = [objs[u] EXCEPT !.hp = @ - damage[u]]
      /\ u \notin Ids' => objs[u].hp - damage[u] <= 0
  <2>1. objs[u].hp - damage[u] \in Int
    BY <1>1 DEF Object
  <2>2. CASE objs[u].hp - damage[u] <= 0
    <3>1. objs' = Restrict(objs, Ids \ {u})
      BY <2>2 DEF ExecuteAttack
    <3> QED
      BY <2>2, <3>1, RestrictMap
  <2>3. CASE ~(objs[u].hp - damage[u] <= 0)
    <3>1. objs' = [objs EXCEPT ![u].hp = @ - damage[u]]
      BY <2>3 DEF ExecuteAttack
    <3> QED
      BY <1>1, <2>1, <2>3, <3>1
  <2> QED
    BY <2>2, <2>3
<1>4. u \in Ids' => /\ objs'[u].type = objs[u].type /\ objs'[u].act = objs[u].act
                    /\ objs'[u].coord = objs[u].coord /\ objs'[u].target = objs[u].target
                    /\ objs'[u].cd = objs[u].cd /\ objs'[u].hp = objs[u].hp - damage[u]
  BY <1>1, <1>3 DEF Object
<1>5. \A i \in Ids' : /\ objs'[i].type = objs[i].type /\ objs'[i].act = objs[i].act
                      /\ objs'[i].coord = objs[i].coord /\ objs'[i].target = objs[i].target
                      /\ objs'[i].cd = objs[i].cd
  BY <1>3, <1>4
<1>6. \A i \in Ids' : objs'[i].type \in OwnedTypes => objs'[i].hp > 0
  BY <1>1, <1>3, <1>4
<1>7. \A i \in Ids' \cap DOMAIN last.objs : Stood(last.objs[i], objs'[i])
  BY <1>1, <1>3, <1>5 DEF Stood, HasShot
<1>8. ASSUME NEW s \in Sides, Gone(s)' = {}, NEW j \in DOMAIN last.objs, last.objs[j].owner = -s
      PROVE  IF j \in DOMAIN damage'
               THEN /\ j \in Ids' /\ objs'[j].hp = last.objs[j].hp
                    /\ damage'[j] = Points(Aiming(s, j))'
               ELSE Survives(j, Points(Aiming(s, j)))'
  <2>1. PICK A : A = Aiming(s, j)
    OBVIOUS
  <2>2. Gone(s) = {} /\ Mine(s)' = Mine(s)
    BY <1>3, <1>8 DEF Gone, Mine
  <2>3. IF j \in DOMAIN damage
          THEN j \in Ids /\ objs[j].hp = last.objs[j].hp /\ damage[j] = Points(A)
          ELSE Survives(j, Points(A))
    BY <1>1, <1>8, <2>1, <2>2 DEF HitsSoFar
  <2>4. Aiming(s, j)' = A
    BY <1>5, <2>1, <2>2 DEF Aiming, HasShot, Mine
  <2>5. \A i \in A : objs'[i].type = objs[i].type
    BY <1>5, <2>1, <2>2 DEF Aiming, Mine
  <2>6. Points(A)' = Points(A)
    BY <2>5, SamePoints
  <2>7. CASE j = u
    <3>1. /\ objs[j].hp = last.objs[j].hp /\ damage[j] = Points(A) /\ j \notin DOMAIN damage'
          /\ objs[j].hp \in Int /\ damage[j] \in Int
      BY <1>1, <1>2, <2>3, <2>7 DEF Object
    <3> QED
      BY <1>3, <1>4, <2>4, <2>6, <2>7, <3>1 DEF Survives
  <2>8. CASE j # u
    BY <1>2, <1>3, <2>3, <2>4, <2>6, <2>8 DEF Survives
  <2> QED
    BY <2>7, <2>8
<1>9. \A s \in Sides : HitsSoFar(s)'
  BY <1>8 DEF HitsSoFar
<1> QED
  BY <1>1, <1>6, <1>7, <1>9 DEF LossesInv

\* Everything else leaves it as it is.
LEMMA HitsKept ==
  ASSUME GameInv, SinceTick, UNCHANGED last, [Next]_vars, HitFrame, phase # "idle",
         phase' # "idle", LossesInv
  PROVE  LossesInv'
<1>1. IInv /\ TimingOK
  BY DEF GameInv
<1>2. Ids' \cap DOMAIN last.objs \subseteq Ids
  <2> SUFFICES ASSUME NEW i \in Ids' \cap DOMAIN last.objs, i \notin Ids
               PROVE  FALSE
    OBVIOUS
  <2>1. i = objCnt
    BY <1>1, Births
  <2>2. i < objCnt /\ objCnt \in Nat
    BY <1>1, Objects DEF SinceTick, IsMap
  <2> QED
    BY <2>1, <2>2
<1>3. \A i \in Ids \cap Ids' : objs'[i].type = objs[i].type /\ objs'[i].hp = objs[i].hp
  <2>1. CASE UNCHANGED objs
    BY <2>1
  <2>2. CASE phase # "hurt"
    BY <1>1, <2>2, LifeGoesOn DEF Life
  <2> QED
    BY <2>1, <2>2 DEF HitFrame
<1>4. \A i \in Ids' : objs'[i].type \in OwnedTypes => objs'[i].hp > 0
  <2> SUFFICES ASSUME NEW i \in Ids', objs'[i].type \in OwnedTypes
               PROVE  objs'[i].hp > 0
    OBVIOUS
  <2>1. CASE i \in Ids
    BY <1>3, <2>1 DEF LossesInv
  <2>2. CASE i \notin Ids
    <3>1. PICK u \in todo : objs'[i] = Resting(objs[u].ptype, objs[u].target, objs[u].owner,
                                               Hp[objs[u].ptype], 0)
      BY <1>1, <2>2, Births
    <3>2. objs'[i].type = objs[u].ptype /\ objs'[i].hp = Hp[objs[u].ptype]
      BY <3>1 DEF Resting
    <3> QED
      BY <3>2, Constants
  <2> QED
    BY <2>1, <2>2
<1>5. phase' = "attack" => UNCHANGED objs /\ phase = "attack"
  BY DEF HitFrame
<1>6. ASSUME phase' # "threw"
      PROVE  /\ \A i \in Ids' \cap DOMAIN last.objs : Stood(last.objs[i], objs'[i])
             /\ \A s \in Sides : HitsSoFar(s)'
  <2>1. /\ phase # "threw" /\ \A s \in Sides : HitsSoFar(s)
        /\ \A i \in Ids \cap DOMAIN last.objs : Stood(last.objs[i], objs[i])
    BY <1>6 DEF HitFrame, LossesInv
  <2>2. \A i \in Ids' \cap DOMAIN last.objs :
          /\ i \in Ids /\ objs'[i].owner = objs[i].owner /\ Stood(last.objs[i], objs'[i])
          /\ HasShot(last.objs[i], objs'[i]) <=> HasShot(last.objs[i], objs[i])
          /\ HasShot(last.objs[i], objs[i]) => objs'[i].target = objs[i].target
    BY <1>1, <1>2, <2>1, ShotStays
  <2>3. ASSUME NEW s \in Sides, Gone(s)' = {}, NEW j \in DOMAIN last.objs,
               last.objs[j].owner = -s
        PROVE  IF j \in DOMAIN damage'
                 THEN /\ j \in Ids' /\ objs'[j].hp = last.objs[j].hp
                      /\ damage'[j] = Points(Aiming(s, j))'
                 ELSE Survives(j, Points(Aiming(s, j)))'
    <3>1. PICK A : A = Aiming(s, j)
      OBVIOUS
    <3>2. \A i \in Ids \ Ids' : objs[i].owner = 0
      BY <1>1 DEF HitFrame, IInv, TypeOK
    <3>3. \A i \in Ids \cap DOMAIN last.objs : objs[i].owner = last.objs[i].owner
      BY DEF SinceTick, Kept
    <3>4. s # 0 /\ -s # 0
      BY DEF Sides
    <3>5. Gone(s) = {} /\ Mine(s)' = Mine(s) /\ (j \in Ids' <=> j \in Ids)
      BY <1>2, <2>3, <3>2, <3>3, <3>4 DEF Gone, Mine
    <3>6. IF j \in DOMAIN damage
            THEN j \in Ids /\ objs[j].hp = last.objs[j].hp /\ damage[j] = Points(A)
            ELSE Survives(j, Points(A))
      BY <2>1, <2>3, <3>1, <3>5 DEF HitsSoFar
    <3>7. Aiming(s, j)' = A
      BY <2>2, <3>1, <3>5 DEF Aiming, Mine
    <3>8. \A i \in A : objs'[i].type = objs[i].type
      BY <1>3, <3>1, <3>5 DEF Aiming, Mine
    <3>9. Points(A)' = Points(A)
      BY <3>8, SamePoints
    <3>10. j \in Ids => objs'[j].hp = objs[j].hp
      BY <1>3, <3>5
    <3>11. UNCHANGED damage
      BY DEF HitFrame
    <3> QED
      BY <3>5, <3>6, <3>7, <3>9, <3>10, <3>11 DEF Survives
  <2>4. \A s \in Sides : HitsSoFar(s)'
    BY <2>3 DEF HitsSoFar
  <2> QED
    BY <2>2, <2>4
<1> QED
  BY <1>4, <1>5, <1>6 DEF LossesInv

\* What is dealt is counted through the whole of the tick.
LEMMA HitsNext ==
  ASSUME GameInv, GameInv', SinceTick, LossesInv, [TrainingNext]_trainingVars
  PROVE  LossesInv'
<1>1. CASE phase = "idle" /\ phase' = "idle"
  <2>1. \A i \in Ids' : i \in Ids /\ Life(objs[i], objs'[i])
    <3>1. [Next]_vars
      BY DEF TrainingNext, trainingVars
    <3>2. UNCHANGED vars
      BY <1>1, <3>1, IdleNext DEF GameRefresh
    <3> QED
      BY <3>1, <3>2, LifeGoesOn DEF vars, GameInv
  <2> QED
    BY <1>1, <2>1 DEF LossesInv, Life
<1>2. CASE phase = "idle" /\ phase' # "idle"
  <2>1. Next /\ last' = Game
    BY <1>2 DEF TrainingNext, Copy, trainingVars, vars
  <2>2. BeginStep
    BY <1>2, <2>1, TickBegins DEF GameInv
  <2> QED
    BY <2>1, <2>2, HitsBegin
<1>3. CASE phase # "idle" /\ phase' # "idle"
  <2>1. [Next]_vars /\ UNCHANGED last
    BY <1>3 DEF TrainingNext, Copy, trainingVars
  <2> QED
    BY <1>3, <2>1, HitSteps, HitsDealt, HitsTaken, HitsKept DEF GameInv
<1>4. CASE phase # "idle" /\ phase' = "idle"
  <2>1. [Next]_vars
    BY DEF TrainingNext, trainingVars
  <2>2. GameRefresh
    BY <1>4, <2>1, IdleNext
  <2>3. \A i \in Ids' : i \in Ids /\ Life(objs[i], objs'[i]) /\ phase = "return"
    BY <2>2, GameRefreshLife DEF GameInv, GameRefresh
  <2> QED
    BY <1>4, <2>3 DEF LossesInv, Life
<1> QED
  BY <1>1, <1>2, <1>3, <1>4


\* The end of the tick counts what has been dealt in it.
LEMMA HitsAtEnd ==
  ASSUME GameInv, SinceTick, UNCHANGED last, LossesInv, GameRefresh, ~GameOver,
         NEW s \in Sides, Gone(s)' = {}
  PROVE  /\ HitCnt(s)' = SumFunction([j \in {k \in DOMAIN last.objs : last.objs[k].owner = -s} |->
                                        Capped(Dealt(s, j)', last.objs[j].hp)])
         /\ {j \in DOMAIN last.objs : last.objs[j].owner = -s /\ Dealt(s, j)' >= last.objs[j].hp}
              = Gone(-s)'
<1>0. /\ phase = "return" /\ phase' = "idle" /\ damage = EmptyMap /\ DOMAIN damage = {}
      /\ HitsSoFar(s) /\ Ids' = Ids /\ Gone(s) = {}
  <2>1. phase = "return" /\ phase' = "idle" /\ Ids' = Ids
    BY DEF GameRefresh
  <2>2. damage = EmptyMap
    BY <2>1 DEF GameInv, IInv, LocalsOK
  <2> QED
    BY <2>1, <2>2 DEF EmptyMap, LossesInv, Gone
<1>1. /\ phase = "return" /\ phase' = "idle" /\ Ids' = Ids
      /\ DOMAIN damage = {} /\ HitsSoFar(s) /\ Gone(s) = {}
      /\ \A i \in Ids \cap DOMAIN last.objs :
           Stood(last.objs[i], objs[i]) /\ objs[i].owner = last.objs[i].owner
      /\ IsMap(last.objs, 0 .. objCnt - 1, Object) /\ IsFiniteSet(Ids)
      /\ \A i, j \in DOMAIN last.objs : last.objs[i].coord = last.objs[j].coord => i = j
  BY <1>0 DEF GameInv, CountOK, LossesInv, SinceTick, Kept
<1>2. \A i \in Ids : /\ objs[i] \in Object /\ objs'[i].type = objs[i].type
                     /\ objs'[i].hp = objs[i].hp /\ Refreshes(objs[i], objs'[i])
  <2> SUFFICES ASSUME NEW i \in Ids
               PROVE  /\ objs[i] \in Object /\ objs'[i].type = objs[i].type
                      /\ objs'[i].hp = objs[i].hp /\ Refreshes(objs[i], objs'[i])
    OBVIOUS
  <2>1. Life(objs[i], objs'[i]) /\ objs[i] \in Object
    BY <1>1, GameRefreshLife, Objects DEF GameInv
  <2> QED
    BY <1>1, <2>1 DEF Life, vars
<1>3. ASSUME NEW j \in DOMAIN last.objs, last.objs[j].owner = -s
      PROVE  /\ Dealt(s, j)' \in Int /\ last.objs[j].hp \in Int
             /\ IF j \in Ids THEN objs'[j].hp = last.objs[j].hp - Dealt(s, j)' /\ objs'[j].hp > 0
                             ELSE last.objs[j].hp <= Dealt(s, j)'
  <2>1. PICK A : A = Aiming(s, j)
    OBVIOUS
  <2>2. Survives(j, Points(A))
    BY <1>1, <1>3, <2>1 DEF HitsSoFar
  <2>3. \A i \in A : /\ i \in Ids \cap DOMAIN last.objs /\ last.objs[i].owner = s
                     /\ HasShot(last.objs[i], objs[i]) /\ objs[i].target = last.objs[j].coord
    BY <2>1 DEF Aiming, Mine
  <2>4. \A i \in A : objs[i].type \in MobileTypes
    BY <1>1, <2>3 DEF Stood, CanAttack
  <2>5. IsFiniteSet(A) /\ Points(A) \in Int
    <3>1. A \subseteq Ids
      BY <2>3
    <3>2. IsFiniteSet(A)
      BY <1>1, <3>1, FS_Subset
    <3> QED
      BY <2>4, <3>2, PointsCount
  <2>6. \A i \in A : i \in Shooters(s, j)'
    <3> SUFFICES ASSUME NEW i \in A
                 PROVE  i \in Shooters(s, j)'
      OBVIOUS
    <3>1. /\ objs[i].act = "NOOP" /\ objs[i].coord = last.objs[i].coord /\ ~IsAtRest(objs[i])
      BY <1>1, <2>3 DEF Stood, HasShot, IsAtRest
    <3>2. /\ objs'[i].act = "NOOP" /\ objs'[i].coord = last.objs[i].coord
          /\ objs'[i].target = last.objs[j].coord
      BY <1>2, <2>3, <3>1 DEF Refreshes
    <3>3. i # j
      BY <1>3, <2>3 DEF Sides
    <3>4. last.objs[i].coord # last.objs[j].coord
      BY <1>1, <2>3, <3>3
    <3> QED
      BY <1>1, <2>3, <3>2, <3>4 DEF Shooters, HasShot
  <2>7. \A i \in Shooters(s, j)' : i \in A
    <3> SUFFICES ASSUME NEW i \in Shooters(s, j)'
                 PROVE  i \in A
      OBVIOUS
    <3>1. /\ i \in Ids \cap DOMAIN last.objs /\ last.objs[i].owner = s /\ last.objs[i].cd = 0
          /\ objs'[i].act = "NOOP" /\ objs'[i].target # objs'[i].coord
          /\ objs'[i].target = last.objs[j].coord
      BY <1>1 DEF Shooters
    <3>2. ~IsAtRest(objs[i]) /\ objs[i].act = "NOOP" /\ objs[i].target = objs'[i].target
      BY <1>2, <3>1 DEF Refreshes
    <3>3. objs[i].cd > 0
      BY <1>2, <3>1, <3>2 DEF IsAtRest, Object
    <3> QED
      BY <2>1, <3>1, <3>2, <3>3 DEF Aiming, Mine, HasShot
  <2>8. Shooters(s, j)' = A
    BY <2>6, <2>7
  <2>9. Points(A)' = Points(A)
    BY <1>2, <2>3, SamePoints
  <2>10. Dealt(s, j)' = Points(A)
    BY <2>8, <2>9 DEF Dealt
  <2>11. last.objs[j].hp \in Int
    BY <1>1 DEF IsMap, Object
  <2> QED
    BY <1>2, <2>2, <2>5, <2>10, <2>11 DEF Survives
<1>4. HitCnt(s)' = SumFunction([j \in {k \in DOMAIN last.objs : last.objs[k].owner = -s} |->
                                  Capped(Dealt(s, j)', last.objs[j].hp)])
  <2> DEFINE theirs == {k \in DOMAIN last.objs : last.objs[k].owner = -s}
  <2>1. HitCnt(s)' = SumFunction([j \in theirs |-> last.objs[j].hp - NewHp(j)'])
    BY DEF HitCnt
  <2>2. \A j \in theirs : last.objs[j].hp - NewHp(j)' = Capped(Dealt(s, j)', last.objs[j].hp)
    BY <1>1, <1>2, <1>3 DEF NewHp, Capped, Object
  <2>3. [j \in theirs |-> last.objs[j].hp - NewHp(j)']
        = [j \in theirs |-> Capped(Dealt(s, j)', last.objs[j].hp)]
    BY <2>2
  <2> QED
    BY <2>1, <2>3
<1>5. {j \in DOMAIN last.objs : last.objs[j].owner = -s /\ Dealt(s, j)' >= last.objs[j].hp}
        = Gone(-s)'
  BY <1>1, <1>2, <1>3 DEF Gone, Object
<1> QED
  BY <1>4, <1>5


\* Before the first tick nothing has been dealt.
LEMMA NoLossesYet ==
  ASSUME TrainingInit
  PROVE  LossesInv /\ LossesAreRewarded
<1>1. /\ phase = "idle" /\ last.objs = objs /\ IInv
      /\ \A i \in Ids : objs[i].target = objs[i].coord /\ objs[i].hp \in Int
      /\ \A i \in Ids : objs[i].type \in OwnedTypes => objs[i].hp > 0
  <2>1. IInv /\ phase = "idle" /\ last.objs = objs
    BY InitInv DEF TrainingInit, Init, Game
  <2>2. PICK b \in Boards : objs = [i \in DOMAIN b |-> Placed(b[i])]
    BY DEF TrainingInit, Init
  <2>3. \A i \in Ids : /\ objs[i].target = objs[i].coord /\ objs[i].type = b[i].type
                       /\ objs[i].hp = IF b[i].type = "BASE" THEN Hp["BASE"] ELSE 0
    BY <2>2 DEF Placed, Resting
  <2>4. \A i \in Ids : b[i].type \in {"TERRAIN", "MINERAL", "BASE"}
    BY <2>2, BoardLayout DEF IsLayout
  <2>5. Hp["BASE"] \in Nat \ {0}
    BY Constants DEF OwnedTypes, Buildings
  <2>6. "TERRAIN" \notin OwnedTypes /\ "MINERAL" \notin OwnedTypes
    BY DEF OwnedTypes, Buildings, MobileTypes
  <2> QED
    BY <2>1, <2>3, <2>4, <2>5, <2>6
<1>2. LossesInv
  BY <1>1 DEF LossesInv
<1>3. ASSUME NEW s \in Sides
      PROVE  HitsAreTold(s)
  <2> DEFINE theirs == {j \in DOMAIN last.objs : last.objs[j].owner = -s}
  <2>1. \A j \in theirs : Dealt(s, j) = 0
    <3> SUFFICES ASSUME NEW j \in theirs
                 PROVE  Dealt(s, j) = 0
      OBVIOUS
    <3>1. Shooters(s, j) = {}
      BY <1>1 DEF Shooters
    <3> QED
      BY <3>1, NoPoints DEF Dealt
  <2>2. \A j \in theirs : last.objs[j].hp \in Int /\ last.objs[j].hp > 0
    BY <1>1 DEF IInv, TypeOK, IsMap, Object, Sides, GameObjType, OwnedTypes, MobileTypes,
                Buildings
  <2>3. \A j \in theirs : last.objs[j].hp - NewHp(j) = Capped(Dealt(s, j), last.objs[j].hp)
    BY <1>1, <2>1, <2>2 DEF NewHp, Capped
  <2>4. [j \in theirs |-> last.objs[j].hp - NewHp(j)]
        = [j \in theirs |-> Capped(Dealt(s, j), last.objs[j].hp)]
    BY <2>3
  <2>5. {j \in theirs : Dealt(s, j) >= last.objs[j].hp} = {} /\ Gone(-s) = {}
    BY <1>1, <2>1, <2>2 DEF Gone
  <2> QED
    BY <2>4, <2>5 DEF HitsAreTold, HitCnt, KilledCnt, DeadCnt
<1> QED
  BY <1>2, <1>3 DEF LossesAreRewarded

\* A player that has lost nothing is rewarded for just the hits that its units have dealt
\* in the tick, and for what they have killed, and the other player for what it has lost
\* (NEW_HIT_CNT, NEW_*_KILLED and DEAD_*_CNT of StateToReward, which compares two games
\* and sees none of the orders).
THEOREM LossesAreTold == TrainingSpec => []LossesAreRewarded
<1> DEFINE Inv == GameInv /\ SinceTick
<1>1. TrainingSpec => []Inv
  <2>1. Spec => []GameInv
    BY Counting, NobodyOwes, Unladen, PTL DEF GameInv
  <2> QED
    BY <2>1, IsAGame, Since, PTL
<1>2. TrainingInit => LossesInv /\ LossesAreRewarded
  BY NoLossesYet
<1>3. ASSUME Inv, Inv', LossesInv, LossesAreRewarded, [TrainingNext]_trainingVars
      PROVE  LossesInv' /\ LossesAreRewarded'
  <2>1. LossesInv'
    BY <1>3, HitsNext
  <2> SUFFICES LossesAreRewarded'
    BY <2>1
  <2>2. CASE phase' # "idle"
    BY <2>2 DEF LossesAreRewarded, AfterTick
  <2>3. CASE phase' = "idle" /\ phase = "idle"
    <3>1. ~TrainingNext
      <4> SUFFICES ASSUME TrainingNext
                   PROVE  FALSE
        OBVIOUS
      <4>1. BeginStep
        BY <1>3, <2>3, TickBegins DEF TrainingNext, GameInv
      <4> QED
        BY <2>3, <4>1 DEF BeginStep
    <3>2. UNCHANGED trainingVars
      BY <1>3, <3>1
    <3>3. UNCHANGED <<last, objs, phase, buildingCnt>>
      BY <3>2 DEF trainingVars, vars
    <3>4. GameOver' <=> GameOver
      BY <3>3 DEF GameOver
    <3>5. ASSUME ~GameOver, NEW s \in Sides, Gone(s)' = {}
          PROVE  HitsAreTold(s)'
      <4> DEFINE theirs == {j \in DOMAIN last.objs : last.objs[j].owner = -s}
                 hits == [j \in theirs |-> Capped(Dealt(s, j), last.objs[j].hp)]
                 dead == {j \in theirs : Dealt(s, j) >= last.objs[j].hp}
      <4>1. /\ HitCnt(s) = SumFunction(hits)
            /\ \A t \in OwnedTypes : KilledCnt(s, t) = OfType(dead, t)
        BY <1>3, <2>3, <3>3, <3>5 DEF LossesAreRewarded, HitsAreTold, AfterTick, Gone
      <4>2. ASSUME NEW j
            PROVE  Dealt(s, j)' = Dealt(s, j)
        BY <3>3 DEF Dealt, Shooters, Points
      <4>3. HitCnt(s)' = HitCnt(s)
        BY <3>3 DEF HitCnt, NewHp
      <4>4. hits' = hits /\ dead' = dead
        BY <3>3, <4>2
      <4> HIDE DEF hits, dead
      <4>5. HitCnt(s)' = SumFunction(hits')
        BY <4>1, <4>3, <4>4
      <4>6. ASSUME NEW t \in OwnedTypes
            PROVE  KilledCnt(s, t)' = OfType(dead, t)' /\ DeadCnt(-s, t)' = KilledCnt(s, t)'
        BY <3>3, <4>1, <4>4 DEF KilledCnt, DeadCnt, OfType, Gone
      <4> QED
        BY <4>5, <4>6 DEF HitsAreTold, hits, dead
    <3> QED
      BY <3>4, <3>5 DEF LossesAreRewarded
  <2>4. CASE phase' = "idle" /\ phase # "idle"
    <3>1. [Next]_vars /\ UNCHANGED last
      BY <1>3, <2>4 DEF TrainingNext, Copy, trainingVars
    <3>2. GameRefresh
      BY <2>4, <3>1, IdleNext
    <3>3. GameOver' <=> GameOver
      BY <3>2 DEF GameRefresh, GameOver
    <3>4. ASSUME ~GameOver, NEW s \in Sides, Gone(s)' = {}
          PROVE  HitsAreTold(s)'
      <4>1. /\ HitCnt(s)' = SumFunction([j \in {k \in DOMAIN last.objs : last.objs[k].owner = -s} |->
                                           Capped(Dealt(s, j)', last.objs[j].hp)])
            /\ {j \in DOMAIN last.objs : last.objs[j].owner = -s /\ Dealt(s, j)' >= last.objs[j].hp}
                 = Gone(-s)'
        BY <1>3, <3>1, <3>2, <3>4, HitsAtEnd
      <4>2. last' = last
        BY <3>1
      <4> QED
        BY <4>1, <4>2 DEF HitsAreTold, KilledCnt, DeadCnt, OfType
    <3> QED
      BY <3>3, <3>4 DEF LossesAreRewarded
  <2> QED
    BY <2>2, <2>3, <2>4
<1> QED
  BY <1>1, <1>2, <1>3, PTL DEF TrainingSpec

-----------------------------------------------------------------------------
(* Masks are obeyed: what an order finds that is the first to be accepted *)

\* Orders are used up for good; and nothing goes but what was shot at, and minerals.
SpentFrame ==
  /\ spent \subseteq spent'
  /\ DOMAIN damage' # {} => DOMAIN damage # {} \/ spent' # {}
  /\ \A i \in Ids \ Ids' :
       IF objs[i].type = "MINERAL" THEN phase' = "return" ELSE DOMAIN damage # {}

\* Within a tick.
LEMMA SpentGrows ==
  ASSUME IInv, [Next]_vars, phase # "idle", phase' # "idle"
  PROVE  SpentFrame
<1>1. ASSUME NEW u, NEW t, NEW p,
             \/ ProduceThrows(u) \/ GatherThrows(u, t) \/ ReturnThrows(u, t) \/ Threw
             \/ StepProduce(u, t, p) \/ StepMove(u, t) \/ StepGather(u, t)
      PROVE  SpentFrame
  BY <1>1 DEF ProduceThrows, GatherThrows, ReturnThrows, Threw, StepProduce, StepMove,
       StepGather, gameVars, vars, SpentFrame
<1>2. ASSUME NEW u, NEW t, StepAttack(u, t) \/ StepReturn(u, t)
      PROVE  SpentFrame
  BY <1>2 DEF StepAttack, StepReturn, SpentFrame
<1>3. ASSUME NEW u \in DOMAIN damage, ExecuteAttack(u)
      PROVE  SpentFrame
  <2>1. UNCHANGED spent /\ DOMAIN damage # {} /\ objs[u].type # "MINERAL"
    BY <1>3 DEF ExecuteAttack, IInv, LocalsOK, CanBeAttacked, OwnedTypes, MobileTypes,
         Buildings
  <2>2. \A i \in Ids \ Ids' : i = u
    <3>1. \/ objs' = Restrict(objs, Ids \ {u})
          \/ objs' = [objs EXCEPT ![u].hp = @ - damage[u]]
      BY <1>3 DEF ExecuteAttack
    <3> QED
      BY <3>1, RestrictMap
  <2> QED
    BY <2>1, <2>2 DEF SpentFrame
<1>4. ASSUME NEW u \in DOMAIN claims, ExecuteProduce(u)
      PROVE  SpentFrame
  BY <1>4 DEF ExecuteProduce, StartProduce, NextClaim, SpentFrame
<1>5. ASSUME NEW u \in todo, SettleProduce(u)
      PROVE  SpentFrame
  <2>1. \A i \in Ids : i \in Ids'
    BY <1>5, SettleProduceLife
  <2> QED
    BY <1>5, <2>1 DEF SettleProduce, SpentFrame
<1>6. ASSUME NEW u, SettleGather(u)
      PROVE  SpentFrame
  BY <1>6 DEF SettleGather, SpentFrame
<1>7. ASSUME ExecuteMove \/ ExecuteGather \/ SettleMove
      PROVE  SpentFrame
  <2>1. CASE ExecuteMove
    BY <2>1 DEF ExecuteMove, SpentFrame
  <2>2. CASE ExecuteGather
    BY <2>2 DEF ExecuteGather, SpentFrame
  <2>3. CASE SettleMove
    BY <2>3 DEF SettleMove, SpentFrame
  <2> QED
    BY <1>7, <2>1, <2>2, <2>3
<1>8. ASSUME EraseMinerals
      PROVE  SpentFrame
  <2> DEFINE K == {k \in Ids : ~ (objs[k].type = "MINERAL" /\ objs[k].res <= 0)}
  <2>1. /\ phase' = "return" /\ UNCHANGED <<damage, spent>> /\ objs' = Restrict(objs, K)
    BY <1>8 DEF EraseMinerals
  <2>2. DOMAIN objs' = K
    BY <2>1, RestrictMap
  <2> QED
    BY <2>1, <2>2 DEF SpentFrame
<1>9. ASSUME \/ BeginStep \/ EndAttack \/ CountOccupation \/ GameRefresh
             \/ ExecuteCollisions \/ BeginSettleProduce
      PROVE  SpentFrame
  BY <1>9 DEF BeginStep, EndAttack, CountOccupation, GameRefresh, ExecuteCollisions,
       BeginSettleProduce, gameVars, SpentFrame
<1>10. CASE UNCHANGED vars
  BY <1>10 DEF vars, SpentFrame
<1> QED
  BY <1>1, <1>2, <1>3, <1>4, <1>5, <1>6, <1>7, <1>8, <1>9, <1>10
     DEF Next, Order, Execute, Settle, Advance

\* The steps that lead into the loops that ask what is occupied, or on within them: most
\* accept an order, or turn one down.
LEMMA OccupationSteps ==
  ASSUME IInv, [Next]_vars, phase' \in {"produce", "execProduce", "move"}
  PROVE  \/ CountOccupation
         \/ DOMAIN claims' # {} \/ spent' # {}
         \/ UNCHANGED occ /\ \E u \in DOMAIN claims : ExecuteProduce(u)
         \/ UNCHANGED occ /\ \E u \in todo : SettleProduce(u)
         \/ /\ UNCHANGED <<occ, objs, spent, damage>> /\ DOMAIN claims = {}
            /\ phase \in {"produce", "execProduce", "move"}
<1>1. ASSUME NEW u, NEW t, NEW p,
             \/ ProduceThrows(u) \/ GatherThrows(u, t) \/ ReturnThrows(u, t) \/ Threw
             \/ StepGather(u, t) \/ StepReturn(u, t) \/ StepAttack(u, t)
      PROVE  FALSE
  BY <1>1 DEF ProduceThrows, GatherThrows, ReturnThrows, Threw, StepGather, PassesGather,
       StepReturn, PassesReturn, StepAttack, PassesAttack, vars
<1>2. ASSUME NEW u, NEW t, NEW p, StepProduce(u, t, p) \/ StepMove(u, t)
      PROVE  DOMAIN claims' # {}
  BY <1>2 DEF StepProduce, StepMove, Put
<1>3. ASSUME NEW u, ExecuteAttack(u) \/ SettleGather(u)
      PROVE  FALSE
  BY <1>3 DEF ExecuteAttack, SettleGather
<1>4. ASSUME NEW u, ExecuteProduce(u) \/ SettleProduce(u)
      PROVE  UNCHANGED occ
  BY <1>4 DEF ExecuteProduce, NextClaim, SettleProduce
<1>5. ASSUME \/ ExecuteMove \/ ExecuteGather \/ SettleMove \/ EraseMinerals \/ GameRefresh
             \/ BeginStep \/ EndAttack
      PROVE  FALSE
  <2>1. ~ (ExecuteMove \/ ExecuteGather)
    BY DEF ExecuteMove, ExecuteGather
  <2> QED
    BY <1>5, <2>1 DEF SettleMove, EraseMinerals, GameRefresh, BeginStep, EndAttack
<1>6. ASSUME ExecuteCollisions
      PROVE  \/ DOMAIN claims' # {} \/ spent' # {}
             \/ UNCHANGED <<occ, objs, spent, damage>> /\ DOMAIN claims = {}
  <2>1. /\ DOMAIN claims' = Unopposed(occ)
        /\ spent' = spent \cup (DOMAIN claims \ Unopposed(occ))
        /\ UNCHANGED <<occ, objs, damage>>
    BY <1>6, RestrictMap DEF ExecuteCollisions, gameVars
  <2> QED
    BY <2>1
<1>7. ASSUME BeginSettleProduce
      PROVE  /\ UNCHANGED <<occ, objs, spent, damage>> /\ DOMAIN claims = {}
             /\ phase \in {"produce", "execProduce", "move"}
  BY <1>7 DEF BeginSettleProduce, EmptyMap, gameVars
<1>8. CASE UNCHANGED vars
  BY <1>8 DEF vars
<1> QED
  BY <1>1, <1>2, <1>3, <1>4, <1>5, <1>6, <1>7, <1>8
     DEF Next, Order, Execute, Settle, Advance, ExecuteCollisions

\* If after a step no order has been accepted yet, then before it none had been either,
\* and it has counted nothing as occupied.
LEMMA NoOrderBefore ==
  ASSUME GameInv, GameInv', SinceTick, GainsInv, FirstOrder, [Next]_vars, UNCHANGED last,
         phase # "idle", phase' \in {"produce", "execProduce", "move"}, ~CountOccupation,
         NoOrderYet'
  PROVE  NoOrderYet /\ UNCHANGED occ /\ phase \in {"produce", "execProduce", "move"}
<1>1. IInv /\ TimingOK
  BY DEF GameInv
<1>2. /\ spent' = {} /\ DOMAIN claims' = {} /\ DOMAIN damage' = {}
      /\ \A i \in DOMAIN last.objs :
           last.objs[i].owner \in Sides /\ last.objs[i].act = "NOOP" =>
             i \in Ids' /\ objs'[i] = last.objs[i]
  BY DEF NoOrderYet
<1>3. ASSUME NEW u \in DOMAIN claims, ExecuteProduce(u)
      PROVE  FALSE
  <2>1. phase = "execProduce" /\ u \in Ids /\ objs[u] \in Object /\ objs[u].owner \in Sides
        /\ AtEase(objs[u])
    BY <1>1, <1>3, Objects
       DEF ExecuteProduce, IInv, LocalsOK, TimingOK, Free, AtEase
  <2>2. u \in DOMAIN last.objs
    BY <2>1 DEF GainsInv, GainsSoFar, Late
  <2>3. last.objs[u].act = "NOOP" /\ last.objs[u].owner \in Sides
    BY <2>1, <2>2 DEF SinceTick, Kept, AtEase
  <2>4. objs'[u].act = "NOOP"
    BY <1>2, <2>2, <2>3
  <2>5. StartProduce(u)
    BY <1>2, <1>3 DEF ExecuteProduce
  <2> QED
    BY <2>1, <2>4, <2>5 DEF StartProduce
<1>4. ASSUME NEW u \in todo, SettleProduce(u)
      PROVE  NoOrderYet
  <2>1. /\ spent = {} /\ DOMAIN claims = {} /\ DOMAIN damage = {}
    BY <1>2, <1>4 DEF SettleProduce
  <2> SUFFICES ASSUME NEW i \in DOMAIN last.objs,
                      last.objs[i].owner \in Sides, last.objs[i].act = "NOOP"
               PROVE  i \in Ids /\ objs[i] = last.objs[i]
    BY <2>1 DEF NoOrderYet
  <2>2. i \in Ids' /\ objs'[i] = last.objs[i] /\ last.objs[i].progress = 0
    BY <1>2 DEF FirstOrder
  <2>3. i \in Ids /\ i # objCnt
    <3>1. i < objCnt /\ i \in Nat /\ objCnt \in Nat
      BY <1>1, Objects DEF SinceTick, IsMap
    <3> QED
      BY <1>1, <2>2, <3>1, Births
  <2>4. u \in Ids /\ objs[u] \in Object /\ objs[u].act = "PRODUCE" /\ phase = "move"
    BY <1>1, <1>4, Objects DEF SettleProduce, IInv, LocalsOK, Producers
  <2>5. CASE i = u
    <3>1. CASE objs[u].progress = 0
      <4> DEFINE f == [objs EXCEPT ![u].act = "NOOP", ![u].progress = -1]
      <4>1. PICK q : objs' = Put(f, objCnt, q)
        BY <1>4, <3>1 DEF SettleProduce
      <4>2. f[u].progress = -1 /\ u \in DOMAIN f
        BY <2>4 DEF Object
      <4> HIDE DEF f
      <4>3. objs'[u] = f[u]
        BY <2>3, <2>5, <4>1, <4>2 DEF Put
      <4> QED
        BY <2>2, <2>5, <4>2, <4>3
    <3>2. CASE objs[u].progress # 0
      <4>1. objs' = [objs EXCEPT ![u].progress = @ - 1]
        BY <1>4, <3>2 DEF SettleProduce
      <4>2. objs'[u].act = "PRODUCE"
        BY <2>4, <4>1 DEF Object
      <4> QED
        BY <2>2, <2>5, <4>2
    <3> QED
      BY <3>1, <3>2
  <2>6. CASE i # u
    <3>1. CASE objs[u].progress = 0
      <4> DEFINE f == [objs EXCEPT ![u].act = "NOOP", ![u].progress = -1]
      <4>1. PICK q : objs' = Put(f, objCnt, q)
        BY <1>4, <3>1 DEF SettleProduce
      <4>2. f[i] = objs[i] /\ i \in DOMAIN f
        BY <2>3, <2>6
      <4> HIDE DEF f
      <4>3. objs'[i] = f[i]
        BY <2>3, <4>1, <4>2 DEF Put
      <4> QED
        BY <2>2, <2>3, <4>2, <4>3
    <3>2. CASE objs[u].progress # 0
      <4>1. objs' = [objs EXCEPT ![u].progress = @ - 1]
        BY <1>4, <3>2 DEF SettleProduce
      <4> QED
        BY <2>2, <2>3, <2>6, <4>1
    <3> QED
      BY <3>1, <3>2
  <2> QED
    BY <2>5, <2>6
<1>5. ASSUME UNCHANGED <<objs, spent, damage>>, DOMAIN claims = {}
      PROVE  NoOrderYet
  BY <1>2, <1>5 DEF NoOrderYet
<1>6. phase \in {"produce", "execProduce", "move"}
  BY <1>1, WithinTick DEF TickFrame
<1> QED
  BY <1>1, <1>2, <1>3, <1>4, <1>5, <1>6, OccupationSteps

\* What is counted as occupied before the first claim are the obstacles that the planes
\* show.
LEMMA ObstaclesNext ==
  ASSUME GameInv, GameInv', SinceTick, GainsInv, FirstOrder, [Next]_vars, UNCHANGED last,
         phase # "idle", phase' \in {"produce", "execProduce", "move"}, NoOrderYet',
         NEW t \in Tiles, occ'[t] = Many
  PROVE  \E i \in DOMAIN last.objs : t \in Blocks(last.objs[i])
<1>1. CASE CountOccupation
  <2> DEFINE S == {objs[k].coord : k \in Ids} \cup
                  {objs[k].target : k \in {j \in Ids : InTransit(j)}}
  <2>1. occ' = Counted(S) /\ phase \in {"attack", "hurt"}
    BY <1>1 DEF CountOccupation
  <2>2. ASSUME NEW k \in Ids
        PROVE  /\ k \in DOMAIN last.objs /\ objs[k].coord \in Blocks(last.objs[k])
               /\ InTransit(k) => objs[k].target \in Blocks(last.objs[k])
    <3>1. k \in DOMAIN last.objs /\ Untouched(last.objs[k], objs[k])
      BY <2>1 DEF GainsInv, Early
    <3>2. Kept(last.objs[k], objs[k])
      BY <3>1 DEF SinceTick
    <3> QED
      BY <2>1, <3>1, <3>2 DEF Kept, Untouched, InTransit, Blocks
  <2>3. t \in S
    <3> HIDE DEF S
    <3> QED
      BY <2>1 DEF Counted, Many
  <2> QED
    BY <2>2, <2>3
<1>2. CASE ~CountOccupation
  <2>1. NoOrderYet /\ UNCHANGED occ /\ phase \in {"produce", "execProduce", "move"}
    BY <1>2, NoOrderBefore
  <2> QED
    BY <2>1 DEF FirstOrder, OnlyObstaclesCount
<1> QED
  BY <1>1, <1>2

\* And the minerals that count as taken before the first claim are those where somebody
\* gathers.
LEMMA GatheredNext ==
  ASSUME IInv, FirstOrder, [Next]_vars, phase # "idle", phase' = "gather", DOMAIN claims' = {}
  PROVE  gatherCnt' = Counted(BeingGathered)'
<1>1. CASE SettleMove
  <2>1. /\ Ids' = Ids /\ gatherCnt' = Counted(BeingGathered)
        /\ \A i \in Ids : objs[i] \in Object /\ objs'[i] = Moved(objs[i])
    BY <1>1, Objects DEF SettleMove
  <2>2. \A i \in Ids : /\ objs'[i].act = "GATHER" <=> objs[i].act = "GATHER"
                       /\ objs[i].act = "GATHER" => objs'[i].target = objs[i].target
    <3> SUFFICES ASSUME NEW i \in Ids
                 PROVE  /\ objs'[i].act = "GATHER" <=> objs[i].act = "GATHER"
                        /\ objs[i].act = "GATHER" => objs'[i].target = objs[i].target
      OBVIOUS
    <3>1. CASE objs[i].act = "MOVE"
      BY <2>1, <3>1 DEF Moved, Object
    <3>2. CASE objs[i].act # "MOVE"
      BY <2>1, <3>2 DEF Moved
    <3> QED
      BY <3>1, <3>2
  <2>3. BeingGathered' = BeingGathered
    BY <2>1, <2>2 DEF BeingGathered, Gathering
  <2>4. Counted(BeingGathered)' = Counted(BeingGathered')
    BY DEF Counted
  <2> QED
    BY <2>1, <2>3, <2>4
<1>2. CASE ~SettleMove
  <2>1. ASSUME NEW u, NEW t, NEW p,
               \/ ProduceThrows(u) \/ GatherThrows(u, t) \/ ReturnThrows(u, t) \/ Threw
               \/ StepMove(u, t) \/ StepProduce(u, t, p) \/ StepAttack(u, t) \/ StepReturn(u, t)
        PROVE  FALSE
    BY <2>1 DEF ProduceThrows, GatherThrows, ReturnThrows, Threw, StepMove, PassesMove,
         StepProduce, PassesProduce, StepAttack, PassesAttack, StepReturn, PassesReturn, vars
  <2>2. ASSUME NEW u, NEW t, StepGather(u, t)
        PROVE  FALSE
    <3>1. DOMAIN claims' # {}
      BY <2>2 DEF StepGather, Put
    <3> QED
      BY <3>1
  <2>3. ASSUME NEW u, ExecuteAttack(u) \/ ExecuteProduce(u) \/ SettleProduce(u) \/ SettleGather(u)
        PROVE  FALSE
    BY <2>3 DEF ExecuteAttack, ExecuteProduce, NextClaim, SettleProduce, SettleGather
  <2>4. ~ExecuteMove /\ ~ExecuteGather
    BY DEF ExecuteMove, ExecuteGather
  <2>5. ASSUME \/ EraseMinerals \/ GameRefresh \/ BeginStep \/ EndAttack \/ CountOccupation
               \/ ExecuteCollisions \/ BeginSettleProduce
        PROVE  FALSE
    BY <2>5 DEF EraseMinerals, GameRefresh, BeginStep, EndAttack, CountOccupation,
         ExecuteCollisions, BeginSettleProduce
  <2>6. UNCHANGED vars
    BY <1>2, <2>1, <2>2, <2>3, <2>4, <2>5 DEF Next, Order, Execute, Settle, Advance
  <2>7. /\ phase = "gather" /\ DOMAIN claims = {} /\ gatherCnt' = gatherCnt /\ objs' = objs
    BY <2>6 DEF vars
  <2>8. gatherCnt = Counted(BeingGathered)
    BY <2>7 DEF FirstOrder, OnlyObstaclesCount
  <2>9. Counted(BeingGathered)' = Counted(BeingGathered)
    BY <2>7 DEF Counted, BeingGathered, Gathering
  <2> QED
    BY <2>7, <2>8, <2>9
<1> QED
  BY <1>1, <1>2

\* A tick begins with everything in the index, and nothing gone.
LEMMA FirstOrderBegin ==
  ASSUME IInv, TimingOK, phase = "idle", BeginStep, last' = Game
  PROVE  FirstOrder'
<1>1. /\ UNCHANGED <<objs, damage>> /\ phase' = "attack" /\ last'.objs = objs
      /\ coordIdx' = [c \in {objs[i].coord : i \in Ids} |-> CHOOSE i \in Ids : objs[i].coord = c]
  BY DEF BeginStep, gameVars, Game
<1>2. AllIndexed'
  BY <1>1 DEF AllIndexed
<1>3. StillThere'
  <2>1. DOMAIN damage = {}
    BY DEF IInv, LocalsOK, EmptyMap
  <2> QED
    BY <1>1, <2>1 DEF StillThere
<1>4. OnlyObstaclesCount'
  BY <1>1 DEF OnlyObstaclesCount
<1>5. \A i \in Ids : objs[i].act = "NOOP" => objs[i].progress = 0
  BY DEF TimingOK, NoFrozenUnit
<1> QED
  BY <1>1, <1>2, <1>3, <1>4, <1>5 DEF FirstOrder

\* What the first order to be accepted would find stays as it is until it is accepted.
LEMMA FirstOrderNext ==
  ASSUME GameInv, GameInv', SinceTick, GainsInv, FirstOrder, [TrainingNext]_trainingVars
  PROVE  FirstOrder'
<1>1. CASE phase' = "idle"
  BY <1>1 DEF FirstOrder
<1>2. CASE phase = "idle" /\ phase' # "idle"
  <2>1. Next /\ last' = Game
    BY <1>2 DEF TrainingNext, Copy, trainingVars, vars
  <2> QED
    BY <1>2, <2>1, TickBegins, FirstOrderBegin DEF GameInv
<1>3. CASE phase # "idle" /\ phase' # "idle"
  <2>1. [Next]_vars /\ UNCHANGED last /\ IInv
    BY <1>3 DEF TrainingNext, Copy, trainingVars, GameInv
  <2>2. TickFrame /\ SpentFrame
    BY <1>3, <2>1, WithinTick, SpentGrows
  <2>3. AllIndexed'
    BY <1>3, <2>1, <2>2 DEF FirstOrder, AllIndexed, TickFrame
  <2>4. StillThere'
    <3>1. DOMAIN damage' # {} => spent' # {}
      BY <1>3, <2>2 DEF FirstOrder, StillThere, SpentFrame
    <3>2. ASSUME NEW i \in DOMAIN last.objs, i \notin Ids'
          PROVE  IF last.objs[i].type = "MINERAL" THEN phase' \in {"return", "threw"}
                                                  ELSE spent' # {}
      <4>1. CASE i \in Ids
        <5>1. objs[i].type = last.objs[i].type
          BY <1>3, <4>1 DEF SinceTick, Kept
        <5>2. IF objs[i].type = "MINERAL" THEN phase' = "return" ELSE DOMAIN damage # {}
          BY <2>2, <3>2, <4>1 DEF SpentFrame
        <5> QED
          BY <1>3, <2>2, <5>1, <5>2 DEF FirstOrder, StillThere, SpentFrame
      <4>2. CASE i \notin Ids
        <5>1. IF last.objs[i].type = "MINERAL" THEN phase \in {"return", "threw"} ELSE spent # {}
          BY <1>3, <4>2 DEF FirstOrder, StillThere
        <5> QED
          BY <2>2, <5>1 DEF SpentFrame, TickFrame
      <4> QED
        BY <4>1, <4>2
    <3> QED
      BY <2>1, <3>1, <3>2 DEF StillThere
  <2>5. OnlyObstaclesCount'
    <3>1. ASSUME phase' \in {"produce", "execProduce", "move"}, NoOrderYet',
                 NEW t \in Tiles, occ'[t] = Many
          PROVE  \E i \in DOMAIN last.objs : t \in Blocks(last.objs[i])
      BY <1>3, <2>1, <3>1, ObstaclesNext
    <3>2. ASSUME phase' = "gather", DOMAIN claims' = {}
          PROVE  gatherCnt' = Counted(BeingGathered)'
      BY <1>3, <2>1, <3>2, GatheredNext
    <3>3. last' = last /\ \A o : Blocks(o)' = Blocks(o)
      BY <2>1
    <3> QED
      BY <3>1, <3>2, <3>3 DEF OnlyObstaclesCount
  <2>6. \A i \in DOMAIN last.objs : last.objs[i].act = "NOOP" => last.objs[i].progress = 0
    BY <1>3 DEF FirstOrder
  <2> QED
    BY <1>3, <2>1, <2>3, <2>4, <2>5, <2>6 DEF FirstOrder
<1> QED
  BY <1>1, <1>2, <1>3

\* It is so at all times.
LEMMA FirstAccepted == TrainingSpec => [](IInv /\ SinceTick /\ FirstOrder)
<1>1. TrainingInit => FirstOrder
  BY DEF TrainingInit, Init, FirstOrder
<1>2. ASSUME GameInv, GameInv', SinceTick, GainsInv, FirstOrder, [TrainingNext]_trainingVars
      PROVE  FirstOrder'
  BY <1>2, FirstOrderNext
<1>3. GameInv => IInv
  BY DEF GameInv
<1> QED
  BY <1>1, <1>2, <1>3, Gains, PTL DEF TrainingSpec

\* Which planes an object has bytes of.
LEMMA PlanesOf ==
  ASSUME NEW o \in Object, NEW plane \in Int, NEW t \in Tiles, Byte(plane, t) \in Shows(o)
  PROVE  \/ plane <= RES_6_PLUS \/ plane \in {OBSTACLE, GATHERING} \/ plane >= CURRENT_ACTION
         \/ plane = OWNER_NONE + o.owner /\ t = o.coord
         \/ plane = OBJ_TYPE + TypeNumber[o.type] /\ t = o.coord
<1> DEFINE hpPlane == Capped(HP_1 + o.hp - 1, HP_6_PLUS)
           resPlane == Capped(RES_1 + o.res - 1, RES_6_PLUS)
           actPlane == CURRENT_ACTION + ActionNumber[o.act]
           ownerPlane == OWNER_NONE + o.owner
           typePlane == OBJ_TYPE + TypeNumber[o.type]
<1>1. hpPlane \in Int /\ hpPlane <= RES_6_PLUS /\ resPlane \in Int /\ resPlane <= RES_6_PLUS
  BY DEF Object, Capped, HP_1, HP_6_PLUS, RES_1, RES_6_PLUS
<1>2. actPlane \in Int /\ actPlane >= CURRENT_ACTION
  <2>1. ActionNumber[o.act] \in 0 .. 4
    BY DEF Object, ActionNumber
  <2> QED
    BY <2>1 DEF CURRENT_ACTION
<1>3. ownerPlane \in Int
  BY DEF Object, Owners, OWNER_NONE
<1>4. typePlane \in Int
  <2>1. TypeNumber[o.type] \in 0 .. 7
    BY DEF Object, TypeNumber, GameObjType, OwnedTypes, MobileTypes, Buildings
  <2> QED
    BY <2>1 DEF OBJ_TYPE
<1>5. GATHERING \in Int /\ OBSTACLE \in Int
  BY DEF GATHERING, OBSTACLE
<1>6. \/ Byte(plane, t) = Byte(hpPlane, o.coord)
      \/ Byte(plane, t) = Byte(actPlane, o.coord)
      \/ Byte(plane, t) = Byte(resPlane, o.coord)
      \/ Byte(plane, t) = Byte(ownerPlane, o.coord)
      \/ Byte(plane, t) = Byte(typePlane, o.coord)
      \/ \E p \in {OBSTACLE, GATHERING}, c \in {o.coord, o.target} : Byte(plane, t) = Byte(p, c)
  BY DEF Shows
<1>7. o.coord \in Tiles /\ o.target \in Tiles
  BY DEF Object
<1> HIDE DEF hpPlane, resPlane, actPlane, ownerPlane, typePlane
<1>8. \/ plane \in {hpPlane, actPlane, resPlane, OBSTACLE, GATHERING}
      \/ plane \in {ownerPlane, typePlane} /\ t = o.coord
  BY <1>1, <1>2, <1>3, <1>4, <1>5, <1>6, <1>7, OneByte
<1> QED
  BY <1>1, <1>2, <1>8 DEF ownerPlane, typePlane

\* A player's plane of owners shows its objects, and no others.
LEMMA ShowsOwner ==
  ASSUME SinceTick, phase # "idle", NEW s \in Sides, NEW t \in Tiles,
         Byte(OWNER_NONE + s, t) \in Observed(last)
  PROVE  \E i \in DOMAIN last.objs : last.objs[i].coord = t /\ last.objs[i].owner = s
<1>1. PICK i \in DOMAIN last.objs : Byte(OWNER_NONE + s, t) \in Shows(last.objs[i])
  BY DEF Observed
<1> DEFINE o == last.objs[i]
           n == TypeNumber[o.type]
<1>2. o \in Object
  BY DEF SinceTick, IsMap
<1>3. n \in Nat /\ o.owner \in Int
  BY <1>2 DEF Object, Owners, TypeNumber, GameObjType, OwnedTypes, MobileTypes, Buildings
<1> HIDE DEF n
<1>4. OWNER_NONE + s \in Int
  BY DEF OWNER_NONE, Sides
<1>5. \/ OWNER_NONE + s <= RES_6_PLUS \/ OWNER_NONE + s \in {OBSTACLE, GATHERING}
      \/ OWNER_NONE + s >= CURRENT_ACTION
      \/ OWNER_NONE + s = OWNER_NONE + o.owner /\ t = o.coord
      \/ OWNER_NONE + s = OBJ_TYPE + n /\ t = o.coord
  BY <1>1, <1>2, <1>4, PlanesOf DEF n
<1>6. o.owner = s /\ o.coord = t
  BY <1>3, <1>5 DEF OWNER_NONE, RES_6_PLUS, OBSTACLE, GATHERING, CURRENT_ACTION, OBJ_TYPE, Sides
<1> QED
  BY <1>6

\* The plane of a type shows the objects of that type, and no others.
LEMMA ShowsType ==
  ASSUME SinceTick, phase # "idle", NEW type \in {"MINERAL", "BASE"}, NEW t \in Tiles,
         Byte(OBJ_TYPE + TypeNumber[type], t) \in Observed(last)
  PROVE  \E i \in DOMAIN last.objs : last.objs[i].coord = t /\ last.objs[i].type = type
<1> DEFINE m == TypeNumber[type]
<1>1. PICK i \in DOMAIN last.objs : Byte(OBJ_TYPE + m, t) \in Shows(last.objs[i])
  BY DEF Observed
<1> DEFINE o == last.objs[i]
           n == TypeNumber[o.type]
<1>2. o \in Object
  BY DEF SinceTick, IsMap
<1>3. o.owner \in {-1, 0, 1} /\ n \in Nat /\ m \in 1 .. 2 /\ (n = m => o.type = type)
  BY <1>2 DEF Object, Owners, TypeNumber, GameObjType, OwnedTypes, MobileTypes, Buildings
<1> HIDE DEF n, m
<1>4. OBJ_TYPE + m \in Int
  BY <1>3 DEF OBJ_TYPE
<1>5. \/ OBJ_TYPE + m <= RES_6_PLUS \/ OBJ_TYPE + m \in {OBSTACLE, GATHERING}
      \/ OBJ_TYPE + m >= CURRENT_ACTION
      \/ OBJ_TYPE + m = OWNER_NONE + o.owner /\ t = o.coord
      \/ OBJ_TYPE + m = OBJ_TYPE + n /\ t = o.coord
  BY <1>1, <1>2, <1>4, PlanesOf DEF n
<1>6. o.type = type /\ o.coord = t
  BY <1>3, <1>5 DEF OWNER_NONE, RES_6_PLUS, OBSTACLE, GATHERING, CURRENT_ACTION, OBJ_TYPE
<1> QED
  BY <1>6

\* What an order can name on the board is a tile next to the unit.
LEMMA NamedIsNext ==
  ASSUME NEW c \in Tiles, NEW t \in Around(c), OnBoard(t)
  PROVE  t \in Tiles /\ Adjacent(c, t)
<1>1. W \in Nat \ {0} /\ c[1] \in 0 .. W - 1 /\ c[2] \in 0 .. W - 1
  BY BoardSize DEF BoardSize, Tiles
<1>2. Range(DIRECTION_TARGET_MAP) = {<<-1, 0>>, <<0, 1>>, <<1, 0>>, <<0, -1>>}
  BY DEF Range, DIRECTION_TARGET_MAP
<1>3. PICK d \in {<<-1, 0>>, <<0, 1>>, <<1, 0>>, <<0, -1>>} : t = Plus(c, d)
  BY <1>2 DEF Around
<1>4. t = <<c[1] + d[1], c[2] + d[2]>>
  BY <1>3 DEF Plus
<1>5. t \in Tiles
  BY <1>4 DEF OnBoard, Tiles
<1>6. Distance(c[1], c[1] + d[1]) + Distance(c[2], c[2] + d[2]) <= 1
  BY <1>1 DEF Distance
<1> QED
  BY <1>4, <1>5, <1>6 DEF Adjacent

\* And the offset of an attack that reaches a tile names a tile in range.
LEMMA ReachIsRange ==
  ASSUME NEW o \in Object, NEW t \in InReach(o)
  PROVE  InRange(AttackRange[o.type], o.coord, t)
<1> DEFINE c == o.coord
           r == AttackRange[o.type]
<1>1. PICK k \in AttackPositions : Reaches(r, AttackOffset(k)) /\ t = Plus(c, AttackOffset(k))
  BY DEF InReach
<1> DEFINE n == MaxAttackRange * 2 + 1
           a == (k \div n) - MaxAttackRange
           b == (k % n) - MaxAttackRange
<1>2. W \in Nat \ {0} /\ MaxAttackRange \in Nat /\ n \in Nat \ {0} /\ k \in Nat
  BY BoardSize, Offsets DEF BoardSize, Offsets, AttackPositions
<1>3. c[1] \in Int /\ c[2] \in Int
  BY <1>2 DEF Object, Tiles
<1>4. a \in Int /\ b \in Int
  <2> HIDE DEF n
  <2>1. k \div n \in Int /\ k % n \in Int
    BY <1>2
  <2> QED
    BY <1>2, <2>1
<1>5. AttackOffset(k) = <<a, b>>
  BY DEF AttackOffset
<1> HIDE DEF a, b, c, r
<1>6. t = <<c[1] + a, c[2] + b>> /\ a * a + b * b <= r * r
  BY <1>1, <1>5 DEF Plus, Reaches
<1>7. (c[1] - (c[1] + a)) * (c[1] - (c[1] + a)) = a * a
      /\ (c[2] - (c[2] + b)) * (c[2] - (c[2] + b)) = b * b
  <2>1. c[1] - (c[1] + a) = -a /\ c[2] - (c[2] + b) = -b
    BY <1>3, <1>4
  <2>2. (-a) * (-a) = a * a /\ (-b) * (-b) = b * b
    BY <1>4
  <2> QED
    BY <2>1, <2>2
<1> QED
  BY <1>6, <1>7 DEF InRange, c, r

\* A unit that has bits in the mask is, while no order has been accepted, as the planes
\* show it, and can take its order.
LEMMA StillReady ==
  ASSUME IInv, SinceTick, phase # "idle", NoOrderYet, NEW u \in Ids \cap DOMAIN last.objs,
         HasMask(last, u)
  PROVE  /\ objs[u] = last.objs[u] /\ objs[u] \in Object /\ objs[u].coord \in Tiles
         /\ objs[u].owner \in Sides
         /\ u \in Ready /\ Free(u) /\ AfterPlayerA(u, DOMAIN claims)
<1>1. objs[u] = last.objs[u] /\ spent = {} /\ DOMAIN claims = {}
  BY DEF NoOrderYet, HasMask
<1>2. objs[u] \in Object
  BY Objects
<1> QED
  BY <1>1, <1>2 DEF HasMask, Ready, Free, AfterPlayerA, Object

\* What the planes show on a tile, the index finds there.
LEMMA FoundInIndex ==
  ASSUME SinceTick, FirstOrder, phase # "idle", NEW i \in DOMAIN last.objs
  PROVE  last.objs[i].coord \in DOMAIN coordIdx /\ coordIdx[last.objs[i].coord] = i
BY DEF SinceTick, FirstOrder, AllIndexed

\* An attack that is masked in, and stays on the board, passes.
LEMMA AttackObeyed ==
  ASSUME IInv, SinceTick, FirstOrder, NoOrderYet, phase = "attack",
         NEW u \in Ids \cap DOMAIN last.objs, HasMask(last, u),
         NEW o \in AttackMask(last, Observed(last), u), o.target \in Tiles
  PROVE  PassesAttack(u, o.target)
<1> DEFINE t == o.target
<1>1. /\ objs[u] = last.objs[u] /\ objs[u] \in Object /\ objs[u].owner \in Sides
      /\ u \in Ready /\ Free(u)
  BY StillReady
<1>2. /\ objs[u].type \in CanAttack /\ t \in InReach(objs[u])
      /\ Byte(OWNER_NONE - objs[u].owner, t) \in Observed(last)
  BY <1>1 DEF AttackMask, Decoded
<1>3. PICK i \in DOMAIN last.objs : last.objs[i].coord = t /\ last.objs[i].owner = -objs[u].owner
  <2>1. -objs[u].owner \in Sides /\ OWNER_NONE + (-objs[u].owner) = OWNER_NONE - objs[u].owner
    BY <1>1 DEF Sides, OWNER_NONE
  <2>2. Byte(OWNER_NONE + (-objs[u].owner), t) \in Observed(last)
    BY <1>2, <2>1
  <2> QED
    BY <2>1, <2>2, ShowsOwner
<1>4. t \in DOMAIN coordIdx /\ coordIdx[t] = i
  BY <1>3, FoundInIndex
<1>5. i \in Ids
  BY <1>4 DEF IInv, IndexOK
<1>6. objs[i].owner = -objs[u].owner
  BY <1>3, <1>5 DEF SinceTick, Kept
<1>7. objs[i].type \in CanBeAttacked
  <2>1. objs[i].type \in GameObjType /\ objs[i].owner # 0
    BY <1>1, <1>5, <1>6, Objects DEF Object, Sides
  <2>2. objs[i].type \notin {"TERRAIN", "MINERAL"}
    BY <1>5, <2>1 DEF IInv, TypeOK
  <2> QED
    BY <2>1, <2>2 DEF CanBeAttacked, GameObjType
<1>8. InRange(AttackRange[objs[u].type], objs[u].coord, t)
  BY <1>1, <1>2, ReachIsRange
<1> QED
  BY <1>1, <1>2, <1>4, <1>6, <1>7, <1>8 DEF PassesAttack

\* A tile without an obstacle is next to the unit, and is not counted as occupied.
LEMMA FreeIsFree ==
  ASSUME IInv, SinceTick, FirstOrder, NoOrderYet, phase \in {"produce", "move"},
         NEW u \in Ids \cap DOMAIN last.objs, HasMask(last, u),
         NEW t \in FreeAround(last, Observed(last), u)
  PROVE  t \in Tiles /\ Adjacent(objs[u].coord, t) /\ occ[t] < Many
<1>1. objs[u] = last.objs[u] /\ objs[u].coord \in Tiles
  BY StillReady
<1>2. t \in Tiles /\ Adjacent(objs[u].coord, t)
  BY <1>1, NamedIsNext DEF FreeAround
<1>3. occ[t] # Many
  <2> SUFFICES ASSUME occ[t] = Many
               PROVE  FALSE
    OBVIOUS
  <2>1. PICK i \in DOMAIN last.objs : t \in Blocks(last.objs[i])
    BY <1>2 DEF FirstOrder, OnlyObstaclesCount
  <2>2. Byte(OBSTACLE, t) \in Shows(last.objs[i])
    BY <2>1 DEF Blocks, Shows
  <2> QED
    BY <2>2 DEF Observed, FreeAround
<1>4. occ[t] \in 0 .. Many
  BY <1>2 DEF IInv, LocalsOK
<1> QED
  BY <1>2, <1>3, <1>4 DEF Many

\* A MOVE that is masked in passes.
LEMMA MoveObeyed ==
  ASSUME IInv, SinceTick, FirstOrder, NoOrderYet, phase = "move", todo = {},
         NEW u \in Ids \cap DOMAIN last.objs, HasMask(last, u),
         NEW o \in MoveMask(last, Observed(last), u)
  PROVE  PassesMove(u, o.target)
<1>1. objs[u] = last.objs[u] /\ u \in Ready /\ Free(u) /\ AfterPlayerA(u, DOMAIN claims)
  BY StillReady
<1>2. objs[u].type \in CanMove /\ o.target \in FreeAround(last, Observed(last), u)
  BY <1>1 DEF MoveMask, Decoded
<1>3. /\ o.target \in Tiles /\ Adjacent(objs[u].coord, o.target) /\ occ[o.target] < Many
  BY <1>2, FreeIsFree
<1> QED
  BY <1>1, <1>2, <1>3 DEF PassesMove

\* A PRODUCE that is masked in passes.
LEMMA ProduceObeyed ==
  ASSUME IInv, SinceTick, FirstOrder, NoOrderYet, phase = "produce",
         NEW u \in Ids \cap DOMAIN last.objs, HasMask(last, u),
         NEW o \in ProduceMask(last, Observed(last), u)
  PROVE  PassesProduce(u, o.target, o.ptype)
<1>1. objs[u] = last.objs[u] /\ u \in Ready /\ Free(u) /\ AfterPlayerA(u, DOMAIN claims)
  BY StillReady
<1>2. o.target \in FreeAround(last, Observed(last), u) /\ o.ptype \in ProduceTypes(last, u)
  BY DEF ProduceMask, Decoded
<1>3. o.target \in Tiles /\ Adjacent(objs[u].coord, o.target) /\ occ[o.target] < Many
  BY <1>2, FreeIsFree
<1>4. /\ objs[u].type \in DOMAIN OBJ_PRODUCE_MAP /\ o.ptype \in OBJ_PRODUCE_MAP[objs[u].type]
      /\ Affords(last, u, o.ptype)
  BY <1>1, <1>2 DEF ProduceTypes, OBJ_PRODUCE_MAP
<1>5. resource[objs[u].owner] >= Cost[o.ptype]
  BY <1>1, <1>4 DEF Affords, SinceTick
<1> QED
  BY <1>1, <1>3, <1>4, <1>5 DEF PassesProduce

\* A GATHER that is masked in passes, where nobody gathers.
LEMMA GatherObeyed ==
  ASSUME IInv, SinceTick, FirstOrder, NoOrderYet, phase = "gather",
         NEW u \in Ids \cap DOMAIN last.objs, HasMask(last, u),
         NEW o \in GatherMask(last, Observed(last), u), o.target \notin BeingGathered
  PROVE  PassesGather(u, o.target)
<1> DEFINE t == o.target
<1>1. /\ objs[u] = last.objs[u] /\ objs[u].coord \in Tiles /\ u \in Ready /\ Free(u)
      /\ AfterPlayerA(u, DOMAIN claims)
  BY StillReady
<1>2. /\ objs[u].type \in CanGather /\ objs[u].res = 0 /\ t \in Around(objs[u].coord)
      /\ OnBoard(t) /\ Byte(OBJ_TYPE + TypeNumber["MINERAL"], t) \in Observed(last)
  BY <1>1 DEF GatherMask, Decoded
<1>3. t \in Tiles /\ Adjacent(objs[u].coord, t)
  BY <1>1, <1>2, NamedIsNext
<1>4. PICK i \in DOMAIN last.objs : last.objs[i].coord = t /\ last.objs[i].type = "MINERAL"
  BY <1>2, <1>3, ShowsType
<1>5. t \in DOMAIN coordIdx /\ coordIdx[t] = i
  BY <1>4, FoundInIndex
<1>6. i \in Ids
  BY <1>4 DEF FirstOrder, StillThere
<1>7. objs[i].type \in CanBeGathered
  BY <1>4, <1>6 DEF SinceTick, Kept, CanBeGathered
<1>8. gatherCnt[t] < Many
  <2>1. gatherCnt = Counted(BeingGathered)
    BY DEF FirstOrder, OnlyObstaclesCount, NoOrderYet
  <2> QED
    BY <1>3, <2>1 DEF Counted, Many
<1> QED
  BY <1>1, <1>2, <1>3, <1>5, <1>6, <1>7, <1>8 DEF PassesGather, ReachesFor

\* A RETURN that is masked in passes.
LEMMA ReturnObeyed ==
  ASSUME IInv, SinceTick, FirstOrder, NoOrderYet, phase = "return",
         NEW u \in Ids \cap DOMAIN last.objs, HasMask(last, u),
         NEW o \in ReturnMask(last, Observed(last), u)
  PROVE  PassesReturn(u, o.target)
<1> DEFINE t == o.target
           s == objs[u].owner
<1>1. /\ objs[u] = last.objs[u] /\ objs[u].coord \in Tiles /\ s \in Sides
      /\ objs[u] \in Object /\ u \in Ready /\ Free(u)
  BY StillReady
<1>2. /\ objs[u].type \in CanGather /\ objs[u].res > 0 /\ t \in Around(objs[u].coord)
      /\ OnBoard(t) /\ Byte(OBJ_TYPE + TypeNumber["BASE"], t) \in Observed(last)
      /\ Byte(OWNER_NONE + s, t) \in Observed(last)
  BY <1>1 DEF ReturnMask, Decoded
<1>3. t \in Tiles /\ Adjacent(objs[u].coord, t)
  BY <1>1, <1>2, NamedIsNext
<1>4. PICK i \in DOMAIN last.objs : last.objs[i].coord = t /\ last.objs[i].type = "BASE"
  BY <1>2, <1>3, ShowsType
<1>5. PICK j \in DOMAIN last.objs : last.objs[j].coord = t /\ last.objs[j].owner = s
  BY <1>1, <1>2, <1>3, ShowsOwner
<1>6. t \in DOMAIN coordIdx /\ coordIdx[t] = i /\ j = i
  BY <1>4, <1>5, FoundInIndex
<1>7. i \in Ids
  BY <1>4 DEF FirstOrder, StillThere, NoOrderYet
<1>8. objs[i].type \in CanBeStored /\ objs[i].owner = s
  BY <1>4, <1>5, <1>6, <1>7 DEF SinceTick, Kept, CanBeStored
<1>9. objs[u].res # 0
  BY <1>1, <1>2 DEF Object
<1> QED
  BY <1>1, <1>2, <1>3, <1>6, <1>7, <1>8, <1>9 DEF PassesReturn, ReachesFor

\* What a mask lets a unit do, the engine does, whatever has come about since earlier ticks
\* and whatever orders were turned down before: the checks of StateToObservation over planes
\* and offsets imply those of the five GameStep handlers.
THEOREM MasksAreObeyed == TrainingSpec => []MaskIsObeyed
<1>1. ASSUME IInv, SinceTick, FirstOrder
      PROVE  MaskIsObeyed
  <2> SUFFICES ASSUME NoOrderYet,
                      phase \in {"attack", "produce", "move", "gather", "return"},
                      NEW u \in Ids \cap DOMAIN last.objs, NEW o \in Masked(last, u),
                      Handles(o.action), ~KnownRefusal(o)
               PROVE  Passes(u, o)
    BY DEF MaskIsObeyed
  <2> DEFINE ob == Observed(last)
  <2>1. /\ HasMask(last, u)
        /\ \/ o \in MoveMask(last, ob, u) \/ o \in ProduceMask(last, ob, u)
           \/ o \in GatherMask(last, ob, u) \/ o \in ReturnMask(last, ob, u)
           \/ o \in AttackMask(last, ob, u)
    BY DEF Masked
  <2>2. CASE o \in MoveMask(last, ob, u)
    <3>1. o.action = "MOVE"
      BY <2>2 DEF MoveMask, Decoded
    <3> QED
      BY <1>1, <2>1, <2>2, <3>1, MoveObeyed DEF Handles, Passes
  <2>3. CASE o \in ProduceMask(last, ob, u)
    <3>1. o.action = "PRODUCE"
      BY <2>3 DEF ProduceMask, Decoded
    <3> QED
      BY <1>1, <2>1, <2>3, <3>1, ProduceObeyed DEF Handles, Passes
  <2>4. CASE o \in GatherMask(last, ob, u)
    <3>1. o.action = "GATHER"
      BY <2>4 DEF GatherMask, Decoded
    <3> QED
      BY <1>1, <2>1, <2>4, <3>1, GatherObeyed DEF Handles, Passes, KnownRefusal
  <2>5. CASE o \in ReturnMask(last, ob, u)
    <3>1. o.action = "RETURN"
      BY <2>5 DEF ReturnMask, Decoded
    <3> QED
      BY <1>1, <2>1, <2>5, <3>1, ReturnObeyed DEF Handles, Passes
  <2>6. CASE o \in AttackMask(last, ob, u)
    <3>1. o.action = "ATTACK"
      BY <2>6 DEF AttackMask, Decoded
    <3> QED
      BY <1>1, <2>1, <2>6, <3>1, AttackObeyed DEF Handles, Passes, KnownRefusal
  <2> QED
    BY <2>1, <2>2, <2>3, <2>4, <2>5, <2>6
<1> QED
  BY <1>1, FirstAccepted, PTL

===============================================================================
