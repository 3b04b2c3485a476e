---------------------------- MODULE TrainingProps ----------------------------
(***************************************************************************)
(* What is claimed of Training: that masks and rewards say of the engine   *)
(* what is so.  The two were written apart, the masks over planes and      *)
(* offsets, the engine over objects and coordinates.                       *)
(***************************************************************************)
EXTENDS Training, GameEngineProps

\* No order of this tick has been accepted so far: nobody has shot or claimed anything,
\* and who did nothing when the tick began is as it was.
NoOrderYet ==
  /\ spent = {} /\ DOMAIN claims = {} /\ DOMAIN damage = {}
  /\ \A i \in DOMAIN last.objs :
       last.objs[i].owner \in Sides /\ last.objs[i].act = "NOOP" =>
         i \in Ids /\ objs[i] = last.objs[i]

\* The loop that looks at the orders of a kind.
Handles(action) ==
  CASE action = "ATTACK"  -> phase = "attack"
    [] action = "PRODUCE" -> phase = "produce"
    [] action = "MOVE"    -> phase = "move" /\ todo = {}
    [] action = "GATHER"  -> phase = "gather"
    [] action = "RETURN"  -> phase = "return"

\* Orders that a mask allows and the engine turns down: an attack on a tile off the
\* board, which the mask takes for another one, and a GATHER where somebody gathers.
KnownRefusal(o) ==
  \/ o.action = "ATTACK" /\ o.target \notin Tiles
  \/ o.action = "GATHER" /\ o.target \in BeingGathered

\* A unit that follows its mask is obeyed: the order is the first of the tick that is
\* accepted, whatever its kind, and nothing that is under way since earlier ticks gets
\* in its way.
MaskIsObeyed ==
  NoOrderYet /\ phase \in {"attack", "produce", "move", "gather", "return"} =>
    \A u \in Ids \cap DOMAIN last.objs :
      \A o \in Masked(last, u) :
        Handles(o.action) /\ ~KnownRefusal(o) => Passes(u, o)

\* Tiles that were in use when the tick began, and whose users have been destroyed.
Vacated ==
  UNION {{last.objs[i].coord, last.objs[i].target} : i \in DOMAIN last.objs \ Ids}

\* No order is masked out that the engine would take, but one to a tile that becomes
\* free in the same tick.
MaskIsComplete ==
  [][\A u \in Ready \cap DOMAIN last.objs :
       /\ \A t \in DOMAIN coordIdx :
            /\ StepAttack(u, t) => Decoded("ATTACK", t, "TERRAIN") \in Masked(last, u)
            /\ StepGather(u, t) => Decoded("GATHER", t, "TERRAIN") \in Masked(last, u)
            /\ StepReturn(u, t) => Decoded("RETURN", t, "TERRAIN") \in Masked(last, u)
       /\ \A t \in Tiles \ Vacated :
            /\ StepMove(u, t) => Decoded("MOVE", t, "TERRAIN") \in Masked(last, u)
            /\ \A p \in OwnedTypes :
                 StepProduce(u, t, p) => Decoded("PRODUCE", t, p) \in Masked(last, u)
    ]_trainingVars

\* The state that StateToObservation is given to compare with the one before.
AfterTick == phase = "idle"

\* Units of s whose production has ended in the tick.
Delivered(s, t) ==
  {i \in DOMAIN last.objs \cap Ids :
     /\ last.objs[i].act = "PRODUCE" /\ objs[i].act # "PRODUCE"
     /\ last.objs[i].owner = s /\ last.objs[i].ptype = t}

\* A new unit counts once, in the tick in which a production of its kind ends: objects
\* are told from new ones by ids, which the engine gives out.
BirthsCount == \A s \in Sides, t \in OwnedTypes : NewCnt(s, t) = Cardinality(Delivered(s, t))

\* What s had when the tick began and still has.
Mine(s) == {i \in DOMAIN last.objs \cap Ids : last.objs[i].owner = s}

\* Of these, what has begun to produce in the tick, and the workers that have lost a load.
Begun(s) == {i \in Mine(s) : last.objs[i].act = "NOOP" /\ objs[i].act = "PRODUCE"}

Unloaded(s) ==
  {i \in Mine(s) : objs[i].type = "WORKER" /\ objs[i].res = 0 /\ last.objs[i].res # 0}

Prices(s) == SumFunction([i \in Begun(s) |-> Cost[objs[i].ptype]])

Loads(s) == SumFunction([i \in Unloaded(s) |-> last.objs[i].res])

\* Income is what the workers have brought in, less the price of what they have begun to
\* produce, through all the loops that move money.
IncomeCounts == \A s \in Sides : NetIncome(s) = Loads(s) - Prices(s)

\* What a player gains is rewarded in the tick in which it is gained: new units, and
\* money (but in the tick that ends the game, when those who earned it may be gone).
GainsAreRewarded == AfterTick => BirthsCount /\ (~GameOver => IncomeCounts)

\* Units of s that have shot at object j in this tick, and lived: they still look there.
Shooters(s, j) ==
  {i \in DOMAIN last.objs \cap Ids :
     /\ last.objs[i].owner = s /\ last.objs[i].cd = 0
     /\ objs[i].act = "NOOP" /\ objs[i].target # objs[i].coord
     /\ objs[i].target = last.objs[j].coord}

Points(ids) == SumFunction([i \in ids |-> AttackPoint[objs[i].type]])

Dealt(s, j) == Points(Shooters(s, j))

\* What s is told of hits and kills, and the other player of what is dead, is what the
\* units of s have dealt: each hit counts as far as there was something to hit, and what
\* was hit to death counts as killed.
HitsAreTold(s) ==
  LET theirs == {j \in DOMAIN last.objs : last.objs[j].owner = -s} IN
  /\ HitCnt(s) = SumFunction([j \in theirs |-> Capped(Dealt(s, j), last.objs[j].hp)])
  /\ \A t \in OwnedTypes :
       /\ KilledCnt(s, t) = OfType({j \in theirs : Dealt(s, j) >= last.objs[j].hp}, t)
       /\ DeadCnt(-s, t) = KilledCnt(s, t)

\* A player that has lost nothing is rewarded for just the hits that its units have
\* dealt, wherever what was hit has gone to in the rest of the tick.
LossesAreRewarded ==
  AfterTick /\ ~GameOver => \A s \in Sides : Gone(s) = {} => HitsAreTold(s)

\* The end that both players are told of is that of one or both having nothing left,
\* and its victor is the one who has something.
EndIsTold ==
  AfterTick =>
    LET alive == {s \in Sides : \E i \in Ids : objs[i].owner = s} IN
    /\ IsEnd <=> alive # Sides
    /\ IsEnd => alive = {VictorySide} \ {0}

-----------------------------------------------------------------------------
(* Why the masks are complete: what the running tick keeps of the game it began with *)

\* Nothing is under way.
AtEase(o) == o.act = "NOOP" /\ o.cd = 0 /\ o.progress = 0

\* The tiles that an object shows as obstacles.
Blocks(o) == {o.coord} \cup (IF o.act \in {"MOVE", "PRODUCE"} THEN {o.target} ELSE {})

\* Object o of the last game is object p now.  Who can take an order could take it when
\* the tick began, and has neither moved nor gathered since; where o was or went to is
\* counted as occupied for as long as there is a p.
Kept(o, p) ==
  /\ p.type = o.type /\ p.owner = o.owner
  /\ AtEase(p) =>
       /\ AtEase(o) /\ p.coord = o.coord
       /\ \/ p.res = o.res \/ o.type = "MINERAL"
          \/ phase \in {"return", "threw"} /\ p.res = 0
  /\ phase \in {"attack", "hurt"} =>
       p.coord = o.coord /\ (o.act \in {"MOVE", "PRODUCE"} =>
                              p.act = o.act /\ p.target = o.target)
  /\ phase \in {"produce", "execProduce", "move"} => \A t \in Blocks(o) : occ[t] = Many

SinceTick ==
  phase # "idle" =>
    /\ IsMap(last.objs, 0 .. objCnt - 1, Object)
    /\ \A i, j \in DOMAIN last.objs : last.objs[i].coord = last.objs[j].coord => i = j
    /\ \A i \in DOMAIN last.objs : last.objs[i].res >= 0
    /\ last.resource \in [Sides -> Int]
    /\ \A t \in DOMAIN coordIdx :
         coordIdx[t] \in DOMAIN last.objs /\ last.objs[coordIdx[t]].coord = t
    /\ phase \in {"attack", "hurt", "produce"} => resource = last.resource
    /\ \A i \in Ids \cap DOMAIN last.objs : Kept(last.objs[i], objs[i])

-----------------------------------------------------------------------------
(* Why masks are obeyed: what an order would find that is the first to be accepted *)

\* Every tile where something was is in the index.
AllIndexed == \A i \in DOMAIN last.objs : last.objs[i].coord \in DOMAIN coordIdx

\* Nothing but a mineral has gone before a shot, and that only at the end.
StillThere ==
  /\ DOMAIN damage # {} => spent # {}
  /\ \A i \in DOMAIN last.objs \ Ids :
       IF last.objs[i].type = "MINERAL" THEN phase \in {"return", "threw"} ELSE spent # {}

\* Before the first claim, what is counted twice are the obstacles that were shown, and
\* the minerals where somebody gathers.
OnlyObstaclesCount ==
  /\ phase \in {"produce", "execProduce", "move"} /\ NoOrderYet =>
       \A t \in Tiles : occ[t] = Many => \E i \in DOMAIN last.objs : t \in Blocks(last.objs[i])
  /\ phase = "gather" /\ DOMAIN claims = {} => gatherCnt = Counted(BeingGathered)

FirstOrder ==
  phase # "idle" =>
    /\ AllIndexed /\ StillThere /\ OnlyObstaclesCount
    /\ \A i \in DOMAIN last.objs : last.objs[i].act = "NOOP" => last.objs[i].progress = 0

-----------------------------------------------------------------------------
(* Why gains are rewarded: what the tick has brought forth so far *)

Early == {"attack", "hurt", "produce"}
Late == {"execProduce", "move", "settleMove", "gather", "settleGather", "return"}

\* Before anything is paid for, everything does what it did when the tick began.
Untouched(o, p) ==
  /\ p.act = o.act
  /\ p.act = "PRODUCE" => p.ptype = o.ptype
  /\ p.type # "MINERAL" => p.res = o.res

\* Then, what produces has done so before, or has begun in this tick; nothing ends before
\* GameSettleProduce; and a worker comes to stand there without its load when it banks it.
Proceeds(o, p) ==
  /\ p.act = "PRODUCE" => \/ o.act = "PRODUCE" /\ p.ptype = o.ptype
                          \/ o.act = "NOOP" /\ p.ptype \in OwnedTypes
  /\ phase = "execProduce" /\ o.act = "PRODUCE" => p.act = "PRODUCE"
  /\ phase # "return" /\ p.type = "WORKER" /\ p.res = 0 => o.res = 0

\* A newcomer neither makes nor brings anything in the tick of its birth.
Newborn(p) == p.type \in OwnedTypes /\ p.act # "PRODUCE" /\ (AtEase(p) => p.res = 0)

\* Since the loop of GameSettleProduce began with n objects on the board, which now are m,
\* the map has been rehashed at most once.  So p, which has begun in this tick and waits
\* for its visit or not, has been visited at most twice.
Outlasts(p, waits, n, m) ==
  p.progress >= ObjTime[p.ptype] - (IF waits THEN 0 ELSE 1)
                - (IF RehashSizes \cap n .. (m - 1) = {} THEN 0 ELSE 1)

\* What produces since this tick.
Fresh == {i \in Producers \cap DOMAIN last.objs : last.objs[i].act = "NOOP"}

NotYetDone ==
  /\ phase = "execProduce" => \A i \in Fresh : objs[i].progress = ObjTime[objs[i].ptype]
  /\ phase = "move" =>
       \E n \in Nat : /\ n <= Cardinality(Ids)
                      /\ Cardinality(Ids) + Cardinality(Producers) <= 2 * n
                      /\ \A i \in Fresh : Outlasts(objs[i], i \in todo, n, Cardinality(Ids))

GainsSoFar ==
  /\ \A i \in Ids \cap DOMAIN last.objs : Proceeds(last.objs[i], objs[i])
  /\ \A i \in Ids \ DOMAIN last.objs : phase # "execProduce" /\ Newborn(objs[i])
  /\ NotYetDone
  /\ BirthsCount
  /\ IncomeCounts

GainsInv ==
  /\ phase \in Early => /\ Ids \subseteq DOMAIN last.objs
                        /\ \A i \in Ids : Untouched(last.objs[i], objs[i])
  /\ phase \in Late => GainsSoFar

-----------------------------------------------------------------------------
(* Why hits are rewarded: what the tick has dealt so far *)

\* A unit that has shot in this tick.
HasShot(o, p) == o.cd = 0 /\ p.cd > 0

\* Who has shot does nothing else in the tick.
Stood(o, p) ==
  HasShot(o, p) => p.act = "NOOP" /\ p.coord = o.coord /\ p.type \in CanAttack

\* Units of s that have shot at the tile on which object j stood.
Aiming(s, j) ==
  {i \in Mine(s) : HasShot(last.objs[i], objs[i]) /\ objs[i].target = last.objs[j].coord}

\* An object is there as long as n points were too few for it.
Survives(j, n) ==
  IF j \in Ids THEN objs[j].hp = last.objs[j].hp - n /\ objs[j].hp > 0
               ELSE last.objs[j].hp <= n

\* While s has lost nothing, what its units have dealt to an object is in unitDamageMap,
\* or has been taken.
HitsSoFar(s) ==
  Gone(s) = {} =>
    \A j \in DOMAIN last.objs : last.objs[j].owner = -s =>
      IF j \in DOMAIN damage
        THEN /\ j \in Ids /\ objs[j].hp = last.objs[j].hp
             /\ damage[j] = Points(Aiming(s, j))
        ELSE Survives(j, Points(Aiming(s, j)))

LossesInv ==
  /\ \A i \in Ids : objs[i].type \in OwnedTypes => objs[i].hp > 0
  /\ phase = "attack" =>
       Ids = DOMAIN last.objs /\ \A i \in Ids : objs[i].hp = last.objs[i].hp
  /\ phase \notin {"idle", "threw"} =>
       /\ \A i \in Ids \cap DOMAIN last.objs : Stood(last.objs[i], objs[i])
       /\ \A s \in Sides : HitsSoFar(s)

=============================================================================
