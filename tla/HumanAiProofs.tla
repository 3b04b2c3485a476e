---------------------------- MODULE HumanAiProofs ----------------------------
(***************************************************************************)
(* Proofs about a game played by hand: HandInv is an inductive invariant,  *)
(* whatever shortest ways ProcMove finds, and with it the tick that        *)
(* follows takes every first step.                                         *)
(***************************************************************************)
EXTENDS HumanAiProps, GameEngineProofs

USE DEF Ids

-----------------------------------------------------------------------------
(* A game played by hand is a game *)

\* The tick takes an order of the player as any other order.
LEMMA ObeyedIsOrder ==
  ASSUME AnyObeys
  PROVE  Order
<1>1. PICK u \in Ready \cap DOMAIN sent : Obeys(u)
  BY DEF AnyObeys
<1>2. ASSUME NEW t, StepAttack(u, t) \/ StepGather(u, t) \/ StepReturn(u, t)
      PROVE  t \in DOMAIN coordIdx
  BY <1>2 DEF StepAttack, PassesAttack, StepGather, PassesGather, StepReturn, PassesReturn,
              ReachesFor
<1>3. ASSUME NEW t, StepMove(u, t)
      PROVE  t \in Tiles
  BY <1>3 DEF StepMove, PassesMove
<1>4. ASSUME NEW t, NEW p, StepProduce(u, t, p)
      PROVE  t \in Tiles /\ p \in OwnedTypes
  BY <1>4 DEF StepProduce, PassesProduce, OBJ_PRODUCE_MAP, OwnedTypes, MobileTypes, Buildings
<1> QED
  BY <1>1, <1>2, <1>3, <1>4 DEF Obeys, Order

\* A step of a tick is a step of the game.
LEMMA TickIsStep == Tick => Next
BY ObeyedIsOrder DEF Tick, Next

\* All other steps leave the game alone.
LEMMA HandSteps ==
  ASSUME [HandNext]_handVars
  PROVE  (Tick /\ Next) \/ UNCHANGED vars
<1>1. CASE Tick
  BY <1>1, TickIsStep
<1>2. CASE Click \/ Act \/ UNCHANGED handVars
  BY <1>2 DEF Click, Act, Frame, BeginAct, Visit, EndAct, handVars
<1> QED
  BY <1>1, <1>2 DEF HandNext

\* All that is proved of games is true of it.
LEMMA HandIsAGame == HandSpec => Spec
<1>1. HandInit => Init
  BY DEF HandInit
<1>2. [HandNext]_handVars => [Next]_vars
  BY HandSteps
<1> QED
  BY <1>1, <1>2, PTL DEF HandSpec, Spec

-----------------------------------------------------------------------------
(* What becomes of a standing order *)

\* A way leads on where it is open.
LEMMA StepsAreOpen ==
  ASSUME NEW c, NEW t
  PROVE  FirstSteps(c, t) \subseteq Openings(c, t)
BY DEF FirstSteps

\* What the loop over actionMap may do with u's order: at most one order for the tick,
\* and a step only to a free tile or to u's destination, which is marked.
Fit(u, r) ==
  /\ r.done \in BOOLEAN /\ r.took \subseteq Tiles /\ r.mineral \subseteq Tiles
  /\ \/ r.order = {}
     \/ \E o \in Orders :
          /\ u \in Ids /\ r.order = {o}
          /\ o.action = "MOVE" =>
               /\ objs[u].act = "NOOP" /\ o.target \in Neighbours(objs[u].coord)
               /\ r.done = FALSE /\ r.took = {o.target}
               /\ o.target \notin pass.occupied \/ o.target = standing[u].target

\* The results without a step are such.
LEMMA RestFits ==
  ASSUME NEW u \in Ids, NEW o \in Orders, o.action # "MOVE"
  PROVE  /\ Fit(u, Nothing) /\ Fit(u, Done)
         /\ Fit(u, Last(o)) /\ Fit(u, Again(o)) /\ Fit(u, Gather(o))
BY DEF Fit, Nothing, Done, Last, Again, Gather, Result, Orders

\* So is a step on a way to u's destination, or to what u is not yet next to.
LEMMA WalkFits ==
  ASSUME NEW u \in Ids, NEW t, NEW r \in Walk(u, t), objs[u].act = "NOOP",
         t = standing[u].target \/ ~Adjacent(objs[u].coord, t)
  PROVE  Fit(u, r)
<1>1. CASE r = Nothing
  BY <1>1 DEF Fit, Nothing, Result
<1>2. ASSUME NEW c \in FirstSteps(objs[u].coord, t), r = Step(c)
      PROVE  Fit(u, r)
  <2>1. c \in Tiles /\ c \in Neighbours(objs[u].coord) /\ (c \notin pass.occupied \/ c = t)
    BY StepsAreOpen DEF Openings, Neighbours, Enters
  <2>2. c = t => Adjacent(objs[u].coord, t)
    BY <2>1 DEF Neighbours, Adjacent
  <2>3. Given("MOVE", c) \in Orders
    BY <2>1 DEF Given, Order3, Orders, GameObjType
  <2>4. Given("MOVE", c).action = "MOVE" /\ Given("MOVE", c).target = c
    BY DEF Given, Order3
  <2>5. /\ r.order = {Given("MOVE", c)} /\ r.done = FALSE /\ r.took = {c} /\ r.mineral = {}
    BY <1>2 DEF Step, Result
  <2> QED
    BY <2>1, <2>2, <2>3, <2>4, <2>5 DEF Fit
<1> QED
  BY <1>1, <1>2 DEF Walk

\* And so is whatever may become of u's standing order.
LEMMA ResultsFit ==
  ASSUME IInv, HandTypeOK, NEW u \in DOMAIN standing, NEW r \in Results(u)
  PROVE  Fit(u, r)
<1> DEFINE a == standing[u]
<1>1. /\ a \in Orders /\ a.target \in Tiles
      /\ a.action \in {"ATTACK", "PRODUCE", "MOVE", "GATHER", "RETURN"}
  BY DEF HandTypeOK, IsMap, Orders
<1>2. CASE u \notin Ids
  <2>1. r = Done
    BY <1>2 DEF Results
  <2> QED
    BY <2>1 DEF Fit, Done, Result
<1>3. CASE u \in Ids /\ objs[u].act # "NOOP"
  <2>1. r = Nothing
    BY <1>3 DEF Results
  <2> QED
    BY <2>1 DEF Fit, Nothing, Result
<1>4. CASE u \in Ids /\ objs[u].act = "NOOP"
  <2>0. Fit(u, Nothing) /\ Fit(u, Done)
    BY DEF Fit, Nothing, Done, Result
  <2>1. CASE a.action = "PRODUCE"
    <3>1. r = Last(a)
      BY <1>4, <2>1 DEF Results
    <3> QED
      BY <1>1, <1>4, <2>1, <3>1, RestFits
  <2>2. CASE a.action = "ATTACK"
    <3>1. r \in Attack(u, a)
      BY <1>4, <2>2 DEF Results
    <3>2. r \in {Done, Again(a)} \/ r \in Walk(u, a.target)
      BY <3>1 DEF Attack
    <3> QED
      BY <1>1, <1>4, <2>0, <2>2, <3>2, RestFits, WalkFits
  <2>3. CASE a.action = "MOVE"
    <3>1. r = Done \/ r \in Walk(u, a.target)
      BY <1>4, <2>3 DEF Results
    <3> QED
      BY <1>1, <1>4, <2>0, <3>1, WalkFits
  <2>4. CASE a.action = "RETURN"
    <3>1. r = Last(a) \/ r \in Walk(u, a.target)
      BY <1>4, <2>4 DEF Results
    <3> QED
      BY <1>1, <1>4, <2>4, <3>1, RestFits, WalkFits
  <2>5. CASE a.action = "GATHER"
    <3>1. r \in Harvest(u, a) \/ r \in BringHome(u)
      BY <1>4, <2>5 DEF Results
    <3>2. CASE r \in Harvest(u, a)
      <4>1. r \in {Done, Nothing, Gather(a)} \/ r \in Walk(u, a.target)
        BY <3>2 DEF Harvest
      <4> QED
        BY <1>1, <1>4, <2>0, <2>5, <4>1, RestFits, WalkFits
    <3>3. CASE r \in BringHome(u)
      <4> DEFINE bases == NearestBases(objs[u].coord)
      <4>1. bases \subseteq Tiles
        BY Objects DEF NearestBases, Object
      <4> HIDE DEF bases
      <4>2. \/ r = Nothing
            \/ \E b \in bases : r = Again(Given("RETURN", b))
            \/ \E b \in bases : ~Adjacent(objs[u].coord, b) /\ r \in Walk(u, b)
        BY <3>3 DEF BringHome, bases
      <4>3. \A b \in Tiles : /\ Given("RETURN", b) \in Orders
                             /\ Given("RETURN", b).action # "MOVE"
        BY DEF Given, Order3, Orders, GameObjType
      <4> QED
        BY <1>4, <2>0, <4>1, <4>2, <4>3, RestFits, WalkFits
    <3> QED
      BY <3>1, <3>2, <3>3
  <2> QED
    BY <1>1, <2>1, <2>2, <2>3, <2>4, <2>5
<1> QED
  BY <1>2, <1>3, <1>4

-----------------------------------------------------------------------------
(* The window *)

\* Tiles in use are tiles.
LEMMA UsedAreTiles ==
  ASSUME IInv
  PROVE  Found \subseteq Tiles /\ InUse \subseteq Tiles
BY Objects DEF Found, InUse, Object

\* The start of an Act keeps the invariant, whatever stands.
LEMMA BeginActInv ==
  ASSUME IInv, HandInv, NEW f, IsMap(f, Nat, Orders), OwnUnits(f), BeginAct(f)
  PROVE  HandInv'
<1>1. /\ UNCHANGED vars /\ UNCHANGED <<sent, phase, spent, objs, objCnt>>
      /\ Ids' = Ids /\ phase = "idle" /\ ~pass.visiting /\ standing' = f /\ fresh' = FALSE
      /\ tx' = IF fresh THEN EmptyMap ELSE tx
  BY DEF BeginAct, vars
<1>2. pass' = [visiting |-> TRUE, todo |-> DOMAIN f, occupied |-> InUse,
               gathered |-> {}, first |-> fresh]
  BY DEF BeginAct
<1>3. pass'.visiting = TRUE /\ pass'.todo = DOMAIN f /\ pass'.first = fresh
  BY <1>2
<1>4. HandTypeOK'
  BY <1>1, <1>2, UsedAreTiles DEF HandInv, HandTypeOK, IsMap, EmptyMap
<1>5. OwnUnits(tx)' /\ OwnUnits(sent)' /\ OwnUnits(standing)'
  BY <1>1 DEF HandInv, WindowOK, OwnUnits, Mine, EmptyMap
<1>6. WindowOK'
  BY <1>1, <1>3, <1>5 DEF HandInv, WindowOK
<1>7. PassOK'
  <2> SUFFICES ASSUME fresh
               PROVE  DOMAIN sent = {} /\ DOMAIN tx' = {}
    BY <1>1, <1>3 DEF PassOK, Apart, Walkers
  <2> QED
    BY <1>1 DEF HandInv, WindowOK, EmptyMap
<1>8. WalkersOK'
  BY <1>3 DEF WalkersOK
<1>9. ClaimsOK' /\ CountsOK'
  BY <1>1 DEF HandInv, WindowOK, ClaimsOK, CountsOK
<1> QED
  BY <1>4, <1>6, <1>7, <1>8, <1>9 DEF HandInv

\* What is clicked is an order.
LEMMA ClicksAreOrders ==
  ASSUME NEW u, NEW c \in Tiles
  PROVE  Clicked(u, c) \subseteq Orders
<1>1. \A t \in DOMAIN OBJ_PRODUCE_MAP : OBJ_PRODUCE_MAP[t] \subseteq GameObjType
  BY DEF OBJ_PRODUCE_MAP, GameObjType, OwnedTypes, MobileTypes, Buildings
<1>2. ASSUME NEW o \in Clicked(u, c)
      PROVE  o \in Orders
  <2>1. CASE c \in Found
    <3>1. \E a \in {"GATHER", "RETURN", "ATTACK"} : o = Given(a, c)
      BY <1>2, <2>1 DEF Clicked
    <3> QED
      BY <3>1 DEF Given, Order3, Orders, GameObjType
  <2>2. CASE c \notin Found
    <3>1. o = Given("MOVE", c) \/ \E p \in GameObjType : o = Order3("PRODUCE", c, p)
      BY <1>1, <1>2, <2>2 DEF Clicked
    <3> QED
      BY <3>1 DEF Given, Order3, Orders, GameObjType
  <2> QED
    BY <2>1, <2>2
<1> QED
  BY <1>2

\* So does a frame, with a click or without.
LEMMA ClickInv ==
  ASSUME IInv, HandInv, Click \/ Frame
  PROVE  HandInv'
<1>1. CASE Frame
  BY <1>1, BeginActInv DEF Frame, HandInv, HandTypeOK, WindowOK
<1>2. CASE Click
  <2>0. PICK u \in Ids, c \in Tiles :
          Mine(u) /\ \E o \in Clicked(u, c) : BeginAct(Put(standing, u, o))
    BY <1>2 DEF Click
  <2>1. PICK o \in Clicked(u, c) : Mine(u) /\ BeginAct(Put(standing, u, o))
    BY <2>0
  <2>2. o \in Orders /\ u \in Nat /\ u < objCnt
    BY <2>1, ClicksAreOrders DEF IInv, TypeOK, IsMap, IdsFresh
  <2>3. IsMap(Put(standing, u, o), Nat, Orders)
    BY <2>2, PutIsMap DEF HandInv, HandTypeOK
  <2>4. OwnUnits(Put(standing, u, o))
    <3>1. DOMAIN Put(standing, u, o) = DOMAIN standing \cup {u}
      BY PutMap
    <3>2. OwnUnits(standing)
      BY DEF HandInv, WindowOK
    <3> QED
      BY <2>1, <2>2, <3>1, <3>2 DEF OwnUnits
  <2> QED
    BY <2>1, <2>3, <2>4, BeginActInv
<1> QED
  BY <1>1, <1>2

\* So does an iteration of the loop over actionMap.
LEMMA VisitInv ==
  ASSUME IInv, HandInv, NEW u \in pass.todo, Visit(u)
  PROVE  HandInv'
<1>1. /\ UNCHANGED vars /\ UNCHANGED <<sent, phase, spent, objs, objCnt, fresh>>
      /\ Ids' = Ids /\ pass.visiting
  BY DEF Visit, vars
<1>2. PICK r \in Results(u) :
        /\ tx' = IF r.order = {} THEN tx ELSE Put(tx, u, CHOOSE o \in r.order : TRUE)
        /\ standing' = IF r.done THEN Restrict(standing, DOMAIN standing \ {u})
                       ELSE standing
        /\ pass' = [pass EXCEPT !.todo = @ \ {u},
                                !.occupied = @ \cup r.took,
                                !.gathered = @ \cup r.mineral]
  BY DEF Visit
<1>3. /\ HandTypeOK /\ WindowOK /\ PassOK /\ ClaimsOK /\ CountsOK
      /\ u \in DOMAIN standing /\ u \in Nat
      /\ pass \in [visiting : BOOLEAN, todo : SUBSET Nat, occupied : SUBSET Tiles,
                   gathered : SUBSET Tiles, first : BOOLEAN]
  BY <1>1 DEF HandInv, HandTypeOK, WindowOK
<1>4. Fit(u, r)
  BY <1>3, ResultsFit
<1>5. /\ pass'.visiting = TRUE /\ pass'.todo = pass.todo \ {u}
      /\ pass'.occupied = pass.occupied \cup r.took /\ pass'.first = pass.first
  BY <1>1, <1>2, <1>3
<1>6. pass' \in [visiting : BOOLEAN, todo : SUBSET Nat, occupied : SUBSET Tiles,
                 gathered : SUBSET Tiles, first : BOOLEAN]
  BY <1>2, <1>3, <1>4 DEF Fit
<1>7. /\ DOMAIN standing' \subseteq DOMAIN standing
      /\ \A v \in DOMAIN standing' : standing'[v] = standing[v]
      /\ \A v \in DOMAIN standing : v # u => v \in DOMAIN standing'
  BY <1>2, RestrictMap
<1>8. IsMap(standing', Nat, Orders)
  BY <1>3, <1>7 DEF HandTypeOK, IsMap
<1>9. \/ tx' = tx
      \/ \E o \in Orders :
          /\ tx' = Put(tx, u, o)
          /\ u \in Ids
          /\ o.action = "MOVE" =>
               /\ objs[u].act = "NOOP" /\ o.target \in Neighbours(objs[u].coord)
               /\ r.done = FALSE /\ r.took = {o.target}
               /\ o.target \notin pass.occupied \/ o.target = standing[u].target
  <2>1. CASE r.order = {}
    BY <1>2, <2>1
  <2>2. CASE r.order # {}
    <3>1. PICK o \in Orders :
          /\ u \in Ids /\ r.order = {o}
          /\ o.action = "MOVE" =>
               /\ objs[u].act = "NOOP" /\ o.target \in Neighbours(objs[u].coord)
               /\ r.done = FALSE /\ r.took = {o.target}
               /\ o.target \notin pass.occupied \/ o.target = standing[u].target
      BY <1>4, <2>2 DEF Fit
    <3>2. (CHOOSE x \in r.order : TRUE) = o
      BY <3>1
    <3> QED
      BY <1>2, <2>2, <3>1, <3>2
  <2> QED
    BY <2>1, <2>2
<1>10. IsMap(tx', Nat, Orders)
  BY <1>3, <1>9 DEF HandTypeOK, IsMap, Put
<1>11. HandTypeOK'
  BY <1>1, <1>3, <1>6, <1>8, <1>10 DEF HandTypeOK
<1>12. OwnUnits(tx)'
  <2>1. DOMAIN tx' \subseteq DOMAIN tx \cup {u}
    BY <1>9 DEF Put
  <2> QED
    BY <1>1, <1>3, <2>1 DEF WindowOK, OwnUnits, Mine
<1>13. OwnUnits(standing)' /\ OwnUnits(sent)'
  BY <1>1, <1>3, <1>7 DEF WindowOK, OwnUnits, Mine
<1>14. WindowOK'
  BY <1>1, <1>3, <1>5, <1>7, <1>12, <1>13 DEF WindowOK
<1>15. PassOK'
  <2> SUFFICES ASSUME pass.first
               PROVE  PassOK'
    BY <1>5 DEF PassOK
  <2>1. /\ DOMAIN sent = {} /\ Apart(tx)
        /\ \A w \in Walkers(tx) :
             /\ w \in Ids \cap (DOMAIN standing \ pass.todo)
             /\ objs[w].act = "NOOP"
             /\ tx[w].target \in Neighbours(objs[w].coord) \cap pass.occupied
    BY <1>1, <1>3 DEF PassOK
  <2>2. ASSUME NEW w \in Walkers(tx), w # u
        PROVE  /\ w \in Ids \cap (DOMAIN standing' \ pass'.todo)
               /\ objs[w].act = "NOOP" /\ standing'[w] = standing[w]
               /\ tx[w].target \in Neighbours(objs[w].coord) \cap pass'.occupied
    BY <1>5, <1>7, <2>1, <2>2
  <2>3. ASSUME NEW w \in Walkers(tx'), w # u
        PROVE  w \in Walkers(tx) /\ tx'[w] = tx[w]
    BY <1>9, <2>3 DEF Walkers, Put
  <2>4. ASSUME u \in Walkers(tx')
        PROVE  /\ u \in Ids \cap (DOMAIN standing' \ pass'.todo)
               /\ objs[u].act = "NOOP" /\ standing'[u] = standing[u]
               /\ tx'[u].target \in Neighbours(objs[u].coord) \cap pass'.occupied
               /\ tx'[u].target \notin pass.occupied \/ tx'[u].target = standing[u].target
    <3>1. u \notin Walkers(tx)
      BY <2>1
    <3>2. PICK o \in Orders :
          /\ tx' = Put(tx, u, o)
          /\ u \in Ids
          /\ o.action = "MOVE" =>
               /\ objs[u].act = "NOOP" /\ o.target \in Neighbours(objs[u].coord)
               /\ r.done = FALSE /\ r.took = {o.target}
               /\ o.target \notin pass.occupied \/ o.target = standing[u].target
      BY <1>9, <2>4, <3>1
    <3>3. tx'[u] = o
      BY <3>2 DEF Put
    <3>4. o.action = "MOVE"
      BY <2>4, <3>3 DEF Walkers
    <3>5. standing' = standing
      BY <1>2, <3>2, <3>4
    <3> QED
      BY <1>3, <1>5, <3>2, <3>3, <3>4, <3>5
  <2>5. Apart(tx)'
    <3> SUFFICES ASSUME NEW v \in Walkers(tx'), NEW w \in Walkers(tx'),
                        v # w, tx'[v].target = tx'[w].target
                 PROVE  tx'[v].target \in {standing'[v].target, standing'[w].target}
      BY DEF Apart, Walkers
    <3>1. CASE v # u /\ w # u
      BY <2>1, <2>2, <2>3, <3>1 DEF Apart
    <3>2. CASE v = u \/ w = u
      BY <2>1, <2>2, <2>3, <2>4, <3>2
    <3> QED
      BY <3>1, <3>2
  <2>6. ASSUME NEW w \in Walkers(tx')
        PROVE  /\ w \in Ids \cap (DOMAIN standing' \ pass'.todo)
               /\ objs[w].act = "NOOP"
               /\ tx'[w].target \in Neighbours(objs[w].coord) \cap pass'.occupied
    BY <2>2, <2>3, <2>4
  <2> QED
    BY <1>1, <2>1, <2>5, <2>6 DEF PassOK, Walkers
<1>16. WalkersOK'
  BY <1>5 DEF WalkersOK
<1>17. ClaimsOK' /\ CountsOK'
  BY <1>1, <1>3 DEF WindowOK, ClaimsOK, CountsOK
<1> QED
  BY <1>11, <1>14, <1>15, <1>16, <1>17 DEF HandInv

\* So does the end of an Act: what it adds are orders to attack.
LEMMA EndActInv ==
  ASSUME IInv, TimingOK, HandInv, EndAct
  PROVE  HandInv'
<1>1. /\ UNCHANGED vars
      /\ UNCHANGED <<phase, spent, objs, objCnt, fresh, standing>>
      /\ Ids' = Ids /\ pass.visiting /\ pass.todo = {}
  BY DEF EndAct, vars
<1>2. PICK target \in [Bored -> Ids] :
        tx' = [u \in DOMAIN tx \cup Bored |->
                 IF u \in Bored THEN Given("ATTACK", objs[target[u]].coord) ELSE tx[u]]
  BY DEF EndAct
<1>3. sent' = (IF tx' = EmptyMap THEN sent ELSE tx')
  BY DEF EndAct
<1>4. pass' = [pass EXCEPT !.visiting = FALSE, !.occupied = {}, !.gathered = {}]
  BY DEF EndAct
<1>5. /\ HandTypeOK /\ WindowOK /\ PassOK /\ ClaimsOK /\ CountsOK /\ phase = "idle"
      /\ pass \in [visiting : BOOLEAN, todo : SUBSET Nat, occupied : SUBSET Tiles,
                   gathered : SUBSET Tiles, first : BOOLEAN]
  BY <1>1 DEF HandInv, HandTypeOK, WindowOK
<1>6. pass'.visiting = FALSE /\ pass'.first = pass.first
  BY <1>4, <1>5
<1>7. pass' \in [visiting : BOOLEAN, todo : SUBSET Nat, occupied : SUBSET Tiles,
                 gathered : SUBSET Tiles, first : BOOLEAN]
  BY <1>4, <1>5
<1>8. \A u \in Bored : u \in Ids /\ u \in Nat /\ u < objCnt /\ Mine(u)
  <2> SUFFICES ASSUME NEW u \in Bored
               PROVE  Mine(u)
    BY DEF Bored, IInv, TypeOK, IsMap, IdsFresh
  <2>1. /\ u \in Ids /\ objs[u].owner # -Player /\ objs[u].type \in MobileTypes
        /\ objs[u] \in Object /\ (objs[u].owner = 0 <=> objs[u].type \in {"TERRAIN", "MINERAL"})
    BY DEF Bored, CanAttack, IInv, TypeOK, IsMap
  <2>2. objs[u].owner \in Sides /\ Player \in Sides
    BY <2>1, PlayerAssumption DEF Object, Owners, Sides, MobileTypes
  <2> QED
    BY <2>1, <2>2 DEF Mine, Sides
<1>9. \A u \in Bored : Given("ATTACK", objs[target[u]].coord) \in Orders
  BY Objects DEF Object, Given, Order3, Orders, GameObjType
<1>10. /\ DOMAIN tx' = DOMAIN tx \cup Bored
       /\ \A u \in Bored : tx'[u] = Given("ATTACK", objs[target[u]].coord)
       /\ \A u \in DOMAIN tx \ Bored : tx'[u] = tx[u]
  BY <1>2
<1>11. IsMap(tx', Nat, Orders)
  BY <1>5, <1>8, <1>9, <1>10 DEF HandTypeOK, IsMap
<1>12. HandTypeOK'
  BY <1>1, <1>3, <1>5, <1>7, <1>11 DEF HandTypeOK
<1>13. OwnUnits(tx)'
  BY <1>1, <1>5, <1>8, <1>10 DEF WindowOK, OwnUnits, Mine
<1>14. OwnUnits(sent)' /\ OwnUnits(standing)'
  BY <1>1, <1>3, <1>5, <1>13 DEF WindowOK, OwnUnits, Mine
<1>15. WindowOK'
  BY <1>1, <1>5, <1>6, <1>13, <1>14 DEF WindowOK
<1>16. PassOK'
  BY <1>6 DEF PassOK
<1>17. WalkersOK'
  <2> SUFFICES ASSUME pass.first
               PROVE  WalkersOK'
    BY <1>6 DEF WalkersOK
  <2>1. /\ DOMAIN sent = {} /\ Apart(tx)
        /\ \A w \in Walkers(tx) :
             /\ w \in Ids
             /\ objs[w].act = "NOOP"
             /\ tx[w].target \in Neighbours(objs[w].coord)
    BY <1>1, <1>5 DEF PassOK
  <2>2. \A w \in Walkers(tx') : w \in Walkers(tx) /\ tx'[w] = tx[w]
    BY <1>10 DEF Walkers, Given, Order3
  <2>3. \A w \in Walkers(sent') : w \in Walkers(tx) /\ sent'[w] = tx[w]
    BY <1>3, <2>1, <2>2 DEF Walkers
  <2>4. \A w \in Walkers(tx) : objs[w].progress = 0
    BY <1>5, <2>1 DEF TimingOK, NoFrozenUnit
  <2>5. Apart(sent)'
    BY <1>1, <2>1, <2>3 DEF Apart, Walkers
  <2> QED
    BY <1>1, <2>1, <2>3, <2>4, <2>5 DEF WalkersOK, Walkers
<1>18. ClaimsOK' /\ CountsOK'
  BY <1>1, <1>5 DEF WindowOK, ClaimsOK, CountsOK
<1> QED
  BY <1>12, <1>15, <1>16, <1>17, <1>18 DEF HandInv

\* Before the first frame there is nothing to claim.
LEMMA HandInitInv ==
  ASSUME HandInit
  PROVE  HandInv
<1>1. /\ fresh = TRUE /\ DOMAIN standing = {} /\ DOMAIN tx = {} /\ DOMAIN sent = {}
      /\ pass = [visiting |-> FALSE, todo |-> {}, occupied |-> {}, gathered |-> {},
                 first |-> FALSE]
      /\ phase = "idle" /\ spent = {}
  BY DEF HandInit, Init, EmptyMap
<1> QED
  BY <1>1 DEF HandInv, HandTypeOK, IsMap, WindowOK, OwnUnits, PassOK, WalkersOK, Apart,
              Walkers, ClaimsOK, CountsOK

-----------------------------------------------------------------------------
(* A tick *)

\* No id is ever given out again.
LEMMA IdsGrow ==
  ASSUME IInv, [Next]_vars
  PROVE  objCnt' \in Nat /\ objCnt' >= objCnt
<1>1. objCnt' \in {objCnt, objCnt + 1}
  BY DEF Next, Order, Execute, Settle, Advance, Threw, vars, gameVars,
         StepAttack, StepProduce, StepMove, StepGather, StepReturn, ProduceThrows,
         GatherThrows, ReturnThrows, ExecuteAttack, ExecuteProduce, NextClaim, ExecuteMove,
         ExecuteGather, SettleProduce, SettleGather, SettleMove, EraseMinerals, GameRefresh,
         BeginStep, EndAttack, CountOccupation, ExecuteCollisions, BeginSettleProduce
<1> QED
  BY <1>1, Objects

\* Units of the player stay the player's, and those that are gone do not come back.
LEMMA UnitsStayOwn ==
  ASSUME IInv, TimingOK, [Next]_vars, NEW orders, DOMAIN orders \subseteq Nat,
         OwnUnits(orders), NEW u \in DOMAIN orders
  PROVE  u < objCnt' /\ (u \in Ids' => u \in Ids /\ Mine(u)')
<1>1. u \in Nat /\ u < objCnt /\ objCnt \in Nat /\ objCnt' \in Nat /\ objCnt' >= objCnt
  BY IdsGrow, Objects DEF OwnUnits
<1>2. ASSUME u \in Ids'
      PROVE  u \in Ids
  BY <1>1, <1>2, Births
<1>3. ASSUME u \in Ids'
      PROVE  Mine(u)'
  BY <1>2, <1>3, LifeGoesOn DEF OwnUnits, Mine, Life
<1> QED
  BY <1>1, <1>2, <1>3

\* The locals of a tick end with it.
LEMMA TickEnds ==
  ASSUME Next, phase' = "idle"
  PROVE  spent' = {}
<1>1. ASSUME NEW u, NEW t, NEW p,
             \/ ProduceThrows(u) \/ GatherThrows(u, t) \/ ReturnThrows(u, t) \/ Threw
             \/ StepAttack(u, t) \/ StepProduce(u, t, p) \/ StepMove(u, t)
             \/ StepGather(u, t) \/ StepReturn(u, t)
      PROVE  FALSE
  BY <1>1 DEF ProduceThrows, GatherThrows, ReturnThrows, Threw, StepAttack, PassesAttack,
              StepProduce, PassesProduce, StepMove, PassesMove, StepGather, PassesGather,
              StepReturn, PassesReturn, vars
<1>2. ASSUME NEW u, \/ ExecuteAttack(u) \/ ExecuteProduce(u) \/ SettleProduce(u)
                    \/ SettleGather(u)
      PROVE  FALSE
  BY <1>2 DEF ExecuteAttack, ExecuteProduce, NextClaim, SettleProduce, SettleGather
<1>3. ~ (ExecuteMove \/ ExecuteGather \/ SettleMove \/ EraseMinerals)
  BY DEF ExecuteMove, ExecuteGather, SettleMove, EraseMinerals
<1>4. ~Advance
  BY DEF Advance, BeginStep, EndAttack, CountOccupation, ExecuteCollisions,
         BeginSettleProduce
<1> QED
  BY <1>1, <1>2, <1>3, <1>4 DEF Next, Order, Execute, Settle, GameRefresh

\* The ticks' steps up to the moves.
EarlyStep ==
  \/ BeginStep \/ EndAttack \/ CountOccupation \/ ExecuteCollisions \/ BeginSettleProduce
  \/ \E u \in Ready \cap DOMAIN sent :
       \/ sent[u].action = "ATTACK" /\ StepAttack(u, sent[u].target)
       \/ sent[u].action = "PRODUCE" /\ StepProduce(u, sent[u].target, sent[u].ptype)
       \/ sent[u].action = "MOVE" /\ StepMove(u, sent[u].target)
  \/ \E i \in DOMAIN damage : ExecuteAttack(i)
  \/ \E u \in DOMAIN claims : ExecuteProduce(u)
  \/ \E i \in todo : SettleProduce(i)

\* There are no others.
LEMMA EarlySteps ==
  ASSUME IInv, Tick, phase' \in BeforeMoves \ {"idle"}
  PROVE  EarlyStep /\ phase \in BeforeMoves
<1>1. ASSUME NEW u, NEW t, StepGather(u, t) \/ StepReturn(u, t)
      PROVE  FALSE
  BY <1>1 DEF StepGather, PassesGather, StepReturn, PassesReturn, BeforeMoves
<1>2. ASSUME NEW i, SettleGather(i)
      PROVE  FALSE
  BY <1>2 DEF SettleGather, BeforeMoves
<1>3. ~ (ExecuteMove \/ ExecuteGather \/ SettleMove \/ EraseMinerals \/ GameRefresh)
  BY DEF ExecuteMove, ExecuteGather, SettleMove, EraseMinerals, GameRefresh, BeforeMoves
<1>4. EarlyStep
  BY <1>1, <1>2, <1>3
     DEF Tick, AnyObeys, Obeys, Execute, Settle, Advance, EarlyStep
<1>5. ASSUME NEW u, NEW t, NEW p, StepAttack(u, t) \/ StepProduce(u, t, p) \/ StepMove(u, t)
      PROVE  phase \in BeforeMoves
  BY <1>5 DEF StepAttack, PassesAttack, StepProduce, PassesProduce, StepMove, PassesMove,
              BeforeMoves
<1>6. ASSUME NEW u, ExecuteAttack(u) \/ ExecuteProduce(u) \/ SettleProduce(u)
      PROVE  phase \in BeforeMoves
  BY <1>6 DEF ExecuteAttack, ExecuteProduce, SettleProduce, BeforeMoves
<1>7. ASSUME BeginStep \/ EndAttack \/ CountOccupation \/ ExecuteCollisions
             \/ BeginSettleProduce
      PROVE  phase \in BeforeMoves
  BY <1>7 DEF BeginStep, EndAttack, CountOccupation, ExecuteCollisions,
              BeginSettleProduce, BeforeMoves
<1> QED
  BY <1>4, <1>5, <1>6, <1>7 DEF EarlyStep

\* In these steps a unit that has nothing to do, and was sent off, stays where it is.
LEMMA WalkersWait ==
  ASSUME IInv, TimingOK, ClaimsOK, EarlyStep, NEW u \in Walkers(sent) \cap Ids, u \in Ids',
         objs[u].act = "NOOP"
  PROVE  /\ objs'[u].act = "NOOP" /\ objs'[u].progress = objs[u].progress
         /\ objs'[u].coord = objs[u].coord
<1>0. \A i \in Ids : objs[i] \in Object
  BY Objects
<1>1. ASSUME NEW v, NEW t, NEW p,
             \/ BeginStep \/ EndAttack \/ CountOccupation \/ StepProduce(v, t, p)
             \/ ExecuteCollisions \/ BeginSettleProduce \/ StepMove(v, t)
      PROVE  UNCHANGED objs
  BY <1>1, LocalSteps
<1>2. ASSUME NEW v, NEW t, StepAttack(v, t)
      PROVE  /\ objs'[u].act = "NOOP" /\ objs'[u].progress = objs[u].progress
             /\ objs'[u].coord = objs[u].coord
  BY <1>0, <1>2 DEF StepAttack, PassesAttack, Object
<1>3. ASSUME NEW i \in DOMAIN damage, ExecuteAttack(i)
      PROVE  /\ objs'[u].act = "NOOP" /\ objs'[u].progress = objs[u].progress
             /\ objs'[u].coord = objs[u].coord
  <2>1. CASE objs' = Restrict(objs, Ids \ {i})
    BY <2>1, RestrictMap
  <2>2. CASE objs' = [objs EXCEPT ![i].hp = @ - damage[i]]
    BY <1>0, <2>2 DEF Object
  <2> QED
    BY <1>3, <2>1, <2>2 DEF ExecuteAttack
<1>4. ASSUME NEW v \in DOMAIN claims, ExecuteProduce(v)
      PROVE  objs'[u] = objs[u]
  <2>1. sent[v].action = "PRODUCE"
    BY <1>4 DEF ExecuteProduce, ClaimsOK
  <2>2. v # u
    BY <2>1 DEF Walkers
  <2> QED
    BY <1>4, <2>2 DEF ExecuteProduce, StartProduce
<1>5. ASSUME NEW i \in todo, SettleProduce(i)
      PROVE  objs'[u] = objs[u]
  <2>1. objs[i].act = "PRODUCE" /\ i \in Ids
    BY <1>5 DEF SettleProduce, IInv, LocalsOK, Producers
  <2>2. i # u /\ u # objCnt
    BY <2>1, Objects
  <2>3. CASE objs' = [objs EXCEPT ![i].progress = @ - 1]
    BY <2>2, <2>3
  <2>4. ASSUME NEW q,
               objs' = Put([objs EXCEPT ![i].act = "NOOP", ![i].progress = -1], objCnt, q)
        PROVE  objs'[u] = objs[u]
    BY <2>2, <2>4 DEF Put
  <2> QED
    BY <1>5, <2>3, <2>4 DEF SettleProduce
<1> QED
  BY <1>1, <1>2, <1>3, <1>4, <1>5 DEF EarlyStep

\* What is claimed has been ordered, after such a step too.
LEMMA ClaimsNext ==
  ASSUME IInv, ClaimsOK, EarlyStep, phase \in BeforeMoves, UNCHANGED sent
  PROVE  ClaimsOK'
<1>1. \A u \in spent : u \in DOMAIN sent /\ sent[u].action # "MOVE"
  BY DEF ClaimsOK
<1>2. ASSUME UNCHANGED <<spent, claims>>,
             phase' \notin {"produce", "execProduce", "move"} \/ DOMAIN claims = {}
      PROVE  ClaimsOK'
  BY <1>1, <1>2 DEF ClaimsOK
<1>3. CASE BeginStep \/ EndAttack
  BY <1>2, <1>3 DEF BeginStep, EndAttack
<1>4. CASE CountOccupation \/ BeginSettleProduce
  <2>1. DOMAIN claims = {} /\ UNCHANGED <<spent, claims>>
    BY <1>4 DEF CountOccupation, BeginSettleProduce, EmptyMap, IInv, LocalsOK
  <2> QED
    BY <1>2, <2>1
<1>5. ASSUME NEW u \in Ready \cap DOMAIN sent, sent[u].action = "ATTACK",
             StepAttack(u, sent[u].target)
      PROVE  ClaimsOK'
  BY <1>1, <1>5 DEF StepAttack, PassesAttack, ClaimsOK
<1>6. ASSUME NEW u \in Ready \cap DOMAIN sent,
             \/ sent[u].action = "PRODUCE" /\ StepProduce(u, sent[u].target, sent[u].ptype)
             \/ sent[u].action = "MOVE" /\ StepMove(u, sent[u].target)
      PROVE  ClaimsOK'
  <2>1. /\ UNCHANGED <<spent, phase>>
        /\ phase = IF sent[u].action = "MOVE" THEN "move" ELSE "produce"
        /\ sent[u].action \in {"MOVE", "PRODUCE"}
        /\ \E p : claims' = Put(claims, u, [target |-> sent[u].target, ptype |-> p])
    BY <1>6 DEF StepProduce, PassesProduce, StepMove, PassesMove
  <2>2. /\ DOMAIN claims' = DOMAIN claims \cup {u}
        /\ claims'[u].target = sent[u].target
        /\ \A v \in DOMAIN claims : v # u => claims'[v] = claims[v]
    BY <2>1 DEF Put
  <2> QED
    BY <1>1, <2>1, <2>2 DEF ClaimsOK
<1>7. CASE ExecuteCollisions
  <2>1. /\ DOMAIN claims' \subseteq DOMAIN claims
        /\ \A v \in DOMAIN claims' : claims'[v] = claims[v]
        /\ spent' \subseteq spent \cup DOMAIN claims
        /\ phase = "produce" /\ phase' = "execProduce"
    BY <1>7, RestrictMap DEF ExecuteCollisions, Unopposed
  <2> QED
    BY <1>1, <2>1 DEF ClaimsOK
<1>8. ASSUME NEW u \in DOMAIN claims, ExecuteProduce(u)
      PROVE  ClaimsOK'
  <2>1. /\ DOMAIN claims' \subseteq DOMAIN claims
        /\ \A v \in DOMAIN claims' : claims'[v] = claims[v]
        /\ spent' \subseteq spent \cup {u}
        /\ phase = "execProduce" /\ phase' = "execProduce"
    BY <1>8, RestrictMap DEF ExecuteProduce, NextClaim
  <2> QED
    BY <1>1, <2>1 DEF ClaimsOK
<1>9. ASSUME NEW i, ExecuteAttack(i) \/ SettleProduce(i)
      PROVE  ClaimsOK'
  BY <1>1, <1>9 DEF ExecuteAttack, SettleProduce, ClaimsOK
<1> QED
  BY <1>3, <1>4, <1>5, <1>6, <1>7, <1>8, <1>9 DEF EarlyStep

\* A tile is in use when some object keeps it for itself.
LEMMA UsedIsHeld == \A t : t \in InUse <=> \E i \in Ids : t \in Held(i)
BY DEF InUse, Found, Held, InTransit

\* When a PRODUCE begins, runs or ends, the tiles in use stay in use.
LEMMA UsedStaysUsed ==
  ASSUME IInv, TimingOK,
         \/ UNCHANGED objs
         \/ \E u \in DOMAIN claims : ExecuteProduce(u)
         \/ \E i \in todo : SettleProduce(i)
  PROVE  InUse \subseteq InUse'
<1>1. \A i \in Ids : objs[i] \in Object
  BY Objects
<1>2. \A t : t \in InUse' <=> \E i \in Ids' : t \in Held(i)'
  BY DEF InUse, Found, Held, InTransit
<1>3. CASE UNCHANGED objs
  BY <1>3 DEF InUse, Found
<1>4. ASSUME NEW u \in DOMAIN claims, ExecuteProduce(u)
      PROVE  InUse \subseteq InUse'
  <2>1. u \in Ids /\ objs[u].act = "NOOP"
    BY Objects DEF TimingOK, Free
  <2>2. CASE UNCHANGED objs
    BY <2>2 DEF InUse, Found
  <2>3. CASE StartProduce(u)
    <3>1. Ids' = Ids /\ \A i \in Ids : Held(i) \subseteq Held(i)'
      BY <1>1, <2>1, <2>3 DEF StartProduce, Object, Held, InTransit
    <3> QED
      BY <1>2, <3>1, UsedIsHeld
  <2> QED
    BY <1>4, <2>2, <2>3 DEF ExecuteProduce
<1>5. ASSUME NEW i \in todo, SettleProduce(i)
      PROVE  InUse \subseteq InUse'
  <2>1. i \in Ids /\ objs[i].act = "PRODUCE"
    BY <1>5 DEF SettleProduce, IInv, LocalsOK, Producers
  <2>2. CASE objs[i].progress # 0
    <3>1. objs' = [objs EXCEPT ![i].progress = @ - 1]
      BY <1>5, <2>2 DEF SettleProduce
    <3>2. Ids' = Ids /\ \A k \in Ids : Held(k)' = Held(k)
      BY <1>1, <3>1 DEF Object, Held, InTransit
    <3> QED
      BY <1>2, <3>2, UsedIsHeld
  <2>3. CASE objs[i].progress = 0
    <3> DEFINE f == [objs EXCEPT ![i].act = "NOOP", ![i].progress = -1]
               q == Resting(objs[i].ptype, objs[i].target, objs[i].owner,
                            Hp[objs[i].ptype], 0)
    <3>1. objs' = Put(f, objCnt, q)
      BY <1>5, <2>3 DEF SettleProduce
    <3>2. /\ DOMAIN f = Ids /\ f[i].coord = objs[i].coord
          /\ \A k \in Ids : k # i => f[k] = objs[k]
      BY <1>1, <2>1 DEF Object
    <3>3. q.coord = objs[i].target
      BY DEF Resting
    <3> HIDE DEF f, q
    <3>4. /\ Ids' = Ids \cup {objCnt} /\ objs'[objCnt].coord = objs[i].target
          /\ objs'[i].coord = objs[i].coord
          /\ \A k \in Ids : k # i => objs'[k] = objs[k]
      BY <2>1, <3>1, <3>2, <3>3, Objects DEF Put
    <3>5. PICK n \in Ids' : objs'[n].coord = objs[i].target
      BY <3>4
    <3>6. /\ objs[i].coord \in Held(i)' /\ objs[i].target \in Held(n)'
          /\ \A k \in Ids : k # i => Held(k)' = Held(k)
      BY <3>4, <3>5 DEF Held, InTransit
    <3>7. Held(i) \subseteq {objs[i].coord, objs[i].target}
      BY DEF Held
    <3> QED
      BY <1>2, <2>1, <3>4, <3>6, <3>7, <3>5, UsedIsHeld
  <2> QED
    BY <2>2, <2>3
<1> QED
  BY <1>3, <1>4, <1>5

\* What is counted is there, after such a step too.
LEMMA CountsNext ==
  ASSUME IInv, TimingOK, CountsOK, EarlyStep, UNCHANGED sent
  PROVE  CountsOK'
<1> DEFINE counting == {"produce", "execProduce", "move"}
           there(t) == /\ occ[t] # 0 => Claimants(t) # {}
                       /\ occ[t] = Many => \E u, v \in Claimants(t) : u # v
<1> SUFFICES ASSUME phase' \in counting, NEW t \in Tiles, t \notin InUse', ~Ordered(t)'
             PROVE  there(t)'
  BY DEF CountsOK
<1>1. ~Ordered(t)
  BY DEF Ordered
<1>2. ASSUME phase \in counting, InUse \subseteq InUse'
      PROVE  there(t)
  BY <1>1, <1>2 DEF CountsOK
<1>3. ASSUME phase \in counting, InUse \subseteq InUse', UNCHANGED <<occ, claims>>,
             phase' = phase \/ DOMAIN claims = {} \/ phase # "move"
      PROVE  there(t)'
  <2>1. there(t) /\ occ' = occ
    BY <1>2, <1>3
  <2>2. Claimants(t) \subseteq Claimants(t)'
    BY <1>3 DEF Claimants
  <2> QED
    BY <2>1, <2>2
<1>4. CASE CountOccupation
  <2>1. /\ UNCHANGED objs
        /\ occ' = Counted({objs[i].coord : i \in Ids} \cup
                          {objs[i].target : i \in {k \in Ids : InTransit(k)}})
    BY <1>4 DEF CountOccupation, gameVars
  <2>2. t \notin {objs[i].coord : i \in Ids} \cup
                 {objs[i].target : i \in {k \in Ids : InTransit(k)}}
    BY <2>1 DEF InUse, Found, InTransit
  <2>3. occ'[t] = 0
    BY <2>1, <2>2 DEF Counted
  <2> QED
    BY <2>3 DEF Many
<1>5. ASSUME NEW u, NEW c, NEW p, u \in DOMAIN sent, sent[u].action = "PRODUCE",
             c = sent[u].target, StepProduce(u, c, p)
      PROVE  there(t)'
  <2>1. /\ phase = "produce" /\ phase' = "produce" /\ UNCHANGED objs
        /\ occ' = WithClaim(occ, c) /\ occ \in [Tiles -> 0 .. Many] /\ c \in Tiles
    BY <1>5 DEF StepProduce, PassesProduce, gameVars, IInv, LocalsOK
  <2>2. t # c
    BY <1>1, <1>5 DEF Ordered
  <2>3. occ'[t] = occ[t]
    BY <2>1, <2>2, WithClaimCounts
  <2>4. InUse' = InUse
    BY <2>1 DEF InUse, Found
  <2>5. there(t) /\ Claimants(t) = {}
    BY <1>2, <2>1, <2>4 DEF Claimants
  <2> QED
    BY <2>3, <2>5 DEF Many
<1>6. CASE ExecuteCollisions
  <2>1. phase = "produce" /\ UNCHANGED <<objs, occ>>
    BY <1>6 DEF ExecuteCollisions, gameVars
  <2>2. InUse' = InUse
    BY <2>1 DEF InUse, Found
  <2>3. there(t) /\ Claimants(t) = {}
    BY <1>2, <2>1, <2>2 DEF Claimants
  <2> QED
    BY <2>1, <2>3 DEF Many
<1>7. ASSUME NEW u \in DOMAIN claims, ExecuteProduce(u)
      PROVE  there(t)'
  <2>1. phase = "execProduce" /\ UNCHANGED occ
    BY <1>7 DEF ExecuteProduce, NextClaim
  <2>2. there(t) /\ Claimants(t) = {}
    BY <1>2, <1>7, <2>1, UsedStaysUsed DEF Claimants
  <2> QED
    BY <2>1, <2>2 DEF Many
<1>8. CASE BeginSettleProduce
  <2>1. phase # "move" /\ phase \in counting /\ UNCHANGED <<objs, occ, claims>>
    BY <1>8 DEF BeginSettleProduce, gameVars
  <2> QED
    BY <1>3, <2>1, UsedStaysUsed
<1>9. ASSUME NEW i \in todo, SettleProduce(i)
      PROVE  there(t)'
  <2>1. phase = "move" /\ UNCHANGED <<phase, occ, claims>>
    BY <1>9 DEF SettleProduce
  <2> QED
    BY <1>3, <1>9, <2>1, UsedStaysUsed
<1>10. ASSUME NEW u, NEW c, StepMove(u, c)
      PROVE  there(t)'
  <2>1. /\ phase = "move" /\ phase' = "move" /\ UNCHANGED objs
        /\ occ' = WithClaim(occ, c) /\ occ \in [Tiles -> 0 .. Many] /\ c \in Tiles
        /\ claims' = Put(claims, u, [target |-> c, ptype |-> "TERRAIN"])
        /\ u \notin DOMAIN claims
    BY <1>10 DEF StepMove, PassesMove, Ready, gameVars, IInv, LocalsOK
  <2>2. InUse' = InUse
    BY <2>1 DEF InUse, Found
  <2>3. there(t)
    BY <1>2, <2>1, <2>2
  <2>4. Claimants(t)' = Claimants(t) \cup {v \in {u} : c = t}
    BY <2>1 DEF Claimants, Put
  <2>5. CASE t # c
    <3>1. occ'[t] = occ[t]
      BY <2>1, <2>5, WithClaimCounts
    <3> QED
      BY <2>3, <2>4, <2>5, <3>1
  <2>6. CASE t = c
    <3>1. occ'[t] = Many => occ[t] # 0
      BY <2>1, <2>6 DEF WithClaim, Many
    <3>2. u \notin Claimants(t)
      BY <2>1 DEF Claimants
    <3> QED
      BY <2>3, <2>4, <2>6, <3>1, <3>2
  <2> QED
    BY <2>5, <2>6
<1>11. ASSUME NEW u, NEW c, StepAttack(u, c) \/ ExecuteAttack(u)
       PROVE  FALSE
  BY <1>11 DEF StepAttack, PassesAttack, ExecuteAttack
<1>12. ~ (BeginStep \/ EndAttack)
  BY DEF BeginStep, EndAttack
<1> HIDE DEF there
<1> QED
  BY <1>4, <1>5, <1>6, <1>7, <1>8, <1>9, <1>10, <1>11, <1>12 DEF EarlyStep

\* A tick keeps the invariant.
LEMMA TickInv ==
  ASSUME IInv, TimingOK, HandInv, Tick
  PROVE  HandInv'
<1>1. Next /\ [Next]_vars
  BY TickIsStep
<1>2. /\ HandTypeOK /\ WindowOK /\ PassOK /\ WalkersOK /\ ClaimsOK /\ CountsOK
      /\ ~pass.visiting
  BY DEF HandInv, Tick
<1>3. /\ UNCHANGED <<standing, tx, pass>> /\ fresh' = (phase' = "idle")
      /\ sent' = IF phase' = "idle" THEN EmptyMap ELSE sent
  BY DEF Tick
<1>4. HandTypeOK'
  BY <1>2, <1>3 DEF HandTypeOK, IsMap, EmptyMap
<1>5. OwnUnits(standing)' /\ OwnUnits(tx)' /\ OwnUnits(sent)'
  <2>1. /\ DOMAIN standing \subseteq Nat /\ OwnUnits(standing)
        /\ DOMAIN tx \subseteq Nat /\ OwnUnits(tx)
        /\ DOMAIN sent \subseteq Nat /\ OwnUnits(sent)
    BY <1>2 DEF HandTypeOK, IsMap, WindowOK
  <2>2. OwnUnits(standing)'
    <3>1. \A u \in DOMAIN standing : u < objCnt' /\ (u \in Ids' => u \in Ids /\ Mine(u)')
      BY <1>1, <2>1, UnitsStayOwn
    <3> QED
      BY <1>3, <3>1 DEF OwnUnits, Mine
  <2>3. OwnUnits(tx)'
    <3>1. \A u \in DOMAIN tx : u < objCnt' /\ (u \in Ids' => u \in Ids /\ Mine(u)')
      BY <1>1, <2>1, UnitsStayOwn
    <3> QED
      BY <1>3, <3>1 DEF OwnUnits, Mine
  <2>4. OwnUnits(sent)'
    <3>1. \A u \in DOMAIN sent : u < objCnt' /\ (u \in Ids' => u \in Ids /\ Mine(u)')
      BY <1>1, <2>1, UnitsStayOwn
    <3> QED
      BY <1>3, <3>1 DEF OwnUnits, Mine, EmptyMap
  <2> QED
    BY <2>2, <2>3, <2>4
<1>6. WindowOK'
  BY <1>1, <1>2, <1>3, <1>5, TickEnds DEF WindowOK, EmptyMap
<1>7. PassOK'
  BY <1>2, <1>3 DEF PassOK
<1>8. CASE phase' \notin BeforeMoves
  <2>1. WalkersOK' /\ ClaimsOK' /\ CountsOK'
    BY <1>8 DEF WalkersOK, ClaimsOK, CountsOK, BeforeMoves
  <2> QED
    BY <1>4, <1>6, <1>7, <2>1 DEF HandInv
<1>9. CASE phase' = "idle"
  <2>1. DOMAIN sent' = {} /\ spent' = {}
    BY <1>1, <1>3, <1>9, TickEnds DEF EmptyMap
  <2>2. WalkersOK' /\ ClaimsOK' /\ CountsOK'
    BY <1>9, <2>1 DEF WalkersOK, ClaimsOK, CountsOK, Apart, Walkers
  <2> QED
    BY <1>4, <1>6, <1>7, <2>2 DEF HandInv
<1>10. CASE phase' \in BeforeMoves \ {"idle"}
  <2>1. EarlyStep /\ phase \in BeforeMoves /\ sent' = sent
    BY <1>3, <1>10, EarlySteps
  <2>2. WalkersOK'
    <3> SUFFICES ASSUME pass.first
                 PROVE  WalkersOK'
      BY <1>3 DEF WalkersOK
    <3>1. /\ Apart(sent)
          /\ \A u \in Walkers(sent) \cap Ids :
               /\ objs[u].act = "NOOP" /\ objs[u].progress = 0
               /\ sent[u].target \in Neighbours(objs[u].coord)
      BY <1>2, <2>1 DEF WalkersOK
    <3>2. Apart(sent)'
      BY <1>3, <2>1, <3>1 DEF Apart, Walkers
    <3>3. ASSUME NEW u \in Walkers(sent), u \in Ids'
          PROVE  /\ objs'[u].act = "NOOP" /\ objs'[u].progress = 0
                 /\ sent[u].target \in Neighbours(objs'[u].coord)
      <4>1. u \in Ids
        BY <1>1, <1>2, <3>3, UnitsStayOwn DEF HandTypeOK, IsMap, WindowOK, Walkers
      <4> QED
        BY <1>2, <2>1, <3>1, <3>3, <4>1, WalkersWait
    <3> QED
      BY <2>1, <3>2, <3>3 DEF WalkersOK, Walkers
  <2>3. ClaimsOK' /\ CountsOK'
    BY <1>2, <2>1, ClaimsNext, CountsNext
  <2> QED
    BY <1>4, <1>6, <1>7, <2>2, <2>3 DEF HandInv
<1> QED
  BY <1>8, <1>9, <1>10

-----------------------------------------------------------------------------
(* The steps that are taken *)

\* A game that is played by hand keeps all that is proved of games, and HandInv.
LEMMA PlayedByHand == HandSpec => [](IInv /\ TimingOK /\ HandInv)
<1>1. HandInit => HandInv
  BY HandInitInv
<1>2. IInv /\ TimingOK /\ HandInv /\ [HandNext]_handVars => HandInv'
  <2> SUFFICES ASSUME IInv, TimingOK, HandInv, [HandNext]_handVars
               PROVE  HandInv'
    OBVIOUS
  <2>1. CASE Tick
    BY <2>1, TickInv
  <2>2. CASE Click \/ Frame
    BY <2>2, ClickInv
  <2>3. CASE \E u \in pass.todo : Visit(u)
    BY <2>3, VisitInv
  <2>4. CASE EndAct
    BY <2>4, EndActInv
  <2>5. CASE UNCHANGED handVars
    BY <2>5 DEF handVars, vars, HandInv, HandTypeOK, IsMap, WindowOK, OwnUnits, Mine, PassOK,
                WalkersOK, Apart, Walkers, ClaimsOK, CountsOK, InUse, Found, Ordered, Claimants
  <2> QED
    BY <2>1, <2>2, <2>3, <2>4, <2>5 DEF HandNext, Act
<1> QED
  BY <1>1, <1>2, HandIsAGame, Timing, PTL DEF HandSpec

\* The units of a player do not get into each other's way: ProcMove has marked for each
\* where the others go, and so GameStepMove and GameExecuteMove find a tile that is taken
\* by no other claim.
THEOREM FirstStepsAreTaken == HandSpec => StepsAreTaken
<1> DEFINE taken == phase = "move" /\ phase' = "settleMove" /\ pass.first =>
                      \A u \in Sent : objs'[u].act = "MOVE" \/ Contested(u)
<1>1. ASSUME IInv, TimingOK, HandInv, [HandNext]_handVars
      PROVE  taken
  <2> SUFFICES ASSUME phase = "move", phase' = "settleMove", pass.first,
                      NEW u \in Sent, ~Contested(u)
               PROVE  objs'[u].act = "MOVE"
    OBVIOUS
  <2>1. Tick /\ ExecuteMove /\ ~AnyLeft /\ ~pass.visiting
    <3>1. Tick
      BY <1>1, HandSteps DEF vars
    <3>2. ASSUME NEW v, NEW t, NEW p,
                 \/ StepAttack(v, t) \/ StepProduce(v, t, p) \/ StepMove(v, t)
                 \/ StepGather(v, t) \/ StepReturn(v, t)
          PROVE  phase' = phase
      BY <3>2 DEF StepAttack, StepProduce, StepMove, StepGather, StepReturn
    <3>3. ~AnyObeys
      BY <3>2 DEF AnyObeys, Obeys
    <3>4. ASSUME NEW v, \/ ExecuteAttack(v) \/ ExecuteProduce(v) \/ SettleProduce(v)
                        \/ SettleGather(v)
          PROVE  FALSE
      BY <3>4 DEF ExecuteAttack, ExecuteProduce, NextClaim, SettleProduce, SettleGather
    <3>5. ~ (ExecuteGather \/ Advance)
      BY DEF ExecuteGather, Advance, BeginStep, EndAttack, CountOccupation,
             ExecuteCollisions, BeginSettleProduce
    <3>6. ~ (SettleMove \/ EraseMinerals \/ GameRefresh)
      BY DEF SettleMove, EraseMinerals, GameRefresh
    <3> QED
      BY <3>1, <3>3, <3>4, <3>5, <3>6 DEF Tick, Execute, Settle
  <2> DEFINE t == sent[u].target
  <2>2. /\ u \in Walkers(sent) /\ u \in Ids /\ Mine(u) /\ objs[u].type \in CanMove
        /\ objs[u].cd = 0 /\ objs[u].act = "NOOP" /\ objs[u].progress = 0
        /\ t \in Neighbours(objs[u].coord) /\ t \notin InUse /\ ~Ordered(t)
    BY <1>1, <2>1 DEF Sent, Walkers, Ordered, HandInv, WindowOK, OwnUnits, WalkersOK,
                      BeforeMoves
  <2>3. t \in Tiles /\ Adjacent(objs[u].coord, t)
    BY <2>2 DEF Neighbours, Adjacent
  <2>4. ASSUME NEW v \in Claimants(t)
        PROVE  v = u
    <3>1. /\ v \in Ids /\ v \in DOMAIN sent /\ sent[v].action = "MOVE" /\ sent[v].target = t
          /\ objs[v].type \in CanMove /\ objs[v].cd = 0
      BY <1>1, Objects DEF Claimants, HandInv, ClaimsOK, IInv, OccupationOK, TimingOK, Free
    <3>2. v \in Sent
      BY <2>2, <3>1 DEF Sent, Ordered
    <3>3. v # u => t \in {standing[u].target, standing[v].target}
      BY <1>1, <2>1, <2>2, <3>1 DEF HandInv, WalkersOK, BeforeMoves, Apart, Walkers
    <3> QED
      BY <3>1, <3>2, <3>3 DEF Contested
  <2>5. occ[t] < Many
    <3>1. occ[t] # Many
      BY <1>1, <2>2, <2>3, <2>4 DEF HandInv, CountsOK
    <3>2. occ[t] \in 0 .. Many
      BY <1>1, <2>3 DEF IInv, LocalsOK
    <3> QED
      BY <3>1, <3>2 DEF Many
  <2>6. u \in DOMAIN claims
    <3> SUFFICES ASSUME u \notin DOMAIN claims
                 PROVE  AnyLeft
      BY <2>1
    <3>1. u \notin spent
      BY <1>1, <2>2 DEF HandInv, ClaimsOK, BeforeMoves, Walkers
    <3>2. u \in Ready
      BY <2>2, <3>1, PlayerAssumption DEF Ready, Mine
    <3>3. AfterPlayerA(u, DOMAIN claims)
      <4>1. \A v \in DOMAIN claims : Mine(v) /\ v \in Ids
        BY <1>1, Objects DEF HandInv, ClaimsOK, WindowOK, OwnUnits
      <4> QED
        BY <2>2, <4>1, PlayerAssumption DEF AfterPlayerA, Mine, Sides
    <3>4. todo = {}
      BY <2>1 DEF ExecuteMove
    <3>5. PassesMove(u, t)
      BY <2>2, <2>3, <2>5, <3>2, <3>3, <3>4 DEF PassesMove, Free
    <3> QED
      BY <2>2, <3>2, <3>5 DEF AnyLeft, Passes, Walkers
  <2>7. claims[u].target = t
    BY <1>1, <2>6 DEF HandInv, ClaimsOK
  <2>8. u \in Unopposed(occ)
    BY <2>5, <2>6, <2>7 DEF Unopposed
  <2>9. objs[u] \in Object
    BY <1>1, <2>2, Objects
  <2> QED
    BY <2>1, <2>2, <2>8, <2>9 DEF ExecuteMove, Object
<1>2. IInv /\ TimingOK /\ HandInv /\ [HandNext]_handVars => [taken]_handVars
  BY <1>1
<1> QED
  BY <1>2, PlayedByHand, PTL DEF HandSpec, StepsAreTaken

==============================================================================
