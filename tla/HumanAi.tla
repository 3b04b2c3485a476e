-------------------------------- MODULE HumanAi --------------------------------
(***************************************************************************)
(* A game played by hand: HumanAi of human_ai.cpp on top of GameEngine.    *)
(* The window calls Act with every frame.  What a player has clicked       *)
(* stands as an order until it is done, over many ticks: Act turns the     *)
(* standing orders into orders for the next tick, finding the way and      *)
(* keeping the player's units apart, and lets idle units attack.           *)
(*                                                                         *)
(* Bounds of the model: the other player gives no orders, the server's     *)
(* clock ticks, the player clicks MaxClicks times, and the window shows    *)
(* every state before the next tick, and again only with a click.          *)
(***************************************************************************)
EXTENDS GameEngine

CONSTANTS
  Player,     \* RtsObserver::role, as an owner
  MaxClicks   \* the clicks of a game (a bound of the model)

ASSUME PlayerAssumption == Player \in Sides /\ MaxClicks \in Nat

VARIABLES
  fresh,     \* the state is not lastGame: no frame has shown it
  standing,  \* actionMap: unit -> order
  tx,        \* txActionMap
  sent,      \* the player's orders that the server holds
  pass,      \* the Act that runs, or has run last:
             \* [visiting, todo, occupied, gathered]: it goes over actionMap, the
             \* units still to come, occupationMap, toGatherSet; and the history
             \* [first]: it was the first for this state
  clicks     \* the clicks so far

handVars == <<vars, fresh, standing, tx, sent, pass, clicks>>

Order3(action, target, ptype) == [action |-> action, target |-> target, ptype |-> ptype]

Given(action, target) == Order3(action, target, "TERRAIN")

Mine(i) == objs[i].owner = Player

\* Tiles where something is, in coordIdxMap.
Found == {objs[i].coord : i \in Ids}

At(c) == CHOOSE i \in Ids : objs[i].coord = c

\* attackRange of an object.
Reach(o) == IF o.type \in MobileTypes THEN AttackRange[o.type] ELSE 0

\* occupationMap, as an Act begins.
InUse ==
  Found \cup {objs[i].target : i \in {k \in Ids : objs[k].act \in {"MOVE", "PRODUCE"}}}

HandInit ==
  /\ Init
  /\ fresh = TRUE /\ clicks = 0
  /\ standing = EmptyMap /\ tx = EmptyMap /\ sent = EmptyMap
  /\ pass = [visiting |-> FALSE, todo |-> {}, occupied |-> {}, gathered |-> {},
             first |-> FALSE]

-----------------------------------------------------------------------------
(* The server *)

\* A handler takes the order that u was given.
Obeys(u) ==
  \/ sent[u].action = "ATTACK"  /\ StepAttack(u, sent[u].target)
  \/ sent[u].action = "PRODUCE" /\ StepProduce(u, sent[u].target, sent[u].ptype)
  \/ sent[u].action = "MOVE"    /\ StepMove(u, sent[u].target)
  \/ sent[u].action = "GATHER"  /\ StepGather(u, sent[u].target)
  \/ sent[u].action = "RETURN"  /\ StepReturn(u, sent[u].target)

AnyObeys == \E u \in Ready \cap DOMAIN sent : Obeys(u)

AnyLeft == \E u \in Ready \cap DOMAIN sent : Passes(u, sent[u])

\* A tick: no loop ends before it has looked at all orders that were sent.
Tick ==
  /\ ~pass.visiting
  /\ phase = "idle" => ~fresh
  /\ AnyObeys \/ (~AnyLeft /\ (Execute \/ Settle \/ Advance))
  /\ sent' = IF phase' = "idle" THEN EmptyMap ELSE sent
  /\ fresh' = (phase' = "idle")
  /\ UNCHANGED <<standing, tx, pass, clicks>>

-----------------------------------------------------------------------------
(* Clicks *)

\* What a right click on tile c orders unit u, which is selected.  The buttons offer
\* what u can produce.
Clicked(u, c) ==
  IF c \in Found
  THEN LET o == objs[At(c)] IN
       {Given(CASE o.type = "MINERAL"                     -> "GATHER"
                [] o.type = "BASE" /\ o.owner = Player -> "RETURN"
                [] OTHER                                  -> "ATTACK", c)}
  ELSE {Given("MOVE", c)}
       \cup {Order3("PRODUCE", c, p) :
               p \in IF objs[u].type \in DOMAIN OBJ_PRODUCE_MAP
                       THEN OBJ_PRODUCE_MAP[objs[u].type] ELSE {}}

\* A frame, with a click or without.
BeginAct(clicked) ==
  /\ phase = "idle" /\ ~pass.visiting
  /\ tx' = IF fresh THEN EmptyMap ELSE tx
  /\ fresh' = FALSE
  /\ standing' = clicked
  /\ pass' = [visiting |-> TRUE, todo |-> DOMAIN clicked, occupied |-> InUse,
              gathered |-> {}, first |-> fresh]
  /\ UNCHANGED <<vars, sent>>

Click ==
  /\ clicks < MaxClicks
  /\ clicks' = clicks + 1
  /\ \E u \in Ids, c \in Tiles :
       Mine(u) /\ \E o \in Clicked(u, c) : BeginAct(Put(standing, u, o))

Frame == fresh /\ BeginAct(standing) /\ UNCHANGED clicks

-----------------------------------------------------------------------------
(* ProcMove *)

Neighbours(c) == {d \in Tiles : Distance(c[1], d[1]) + Distance(c[2], d[2]) = 1}

\* Mutant: a way does not lead to where something is.
NoWayIn(c, t) == c \notin pass.occupied

\* The search may go on to c on its way to t.
Enters(c, t) == c \notin pass.occupied \/ c = t

\* Where a way from c to t can lead next.
Openings(c, t) == {d \in Neighbours(c) : Enters(d, t)}

Lengths == 0 .. Cardinality(Tiles \ pass.occupied)

\* leads[n]: the tiles that a free way to t of n steps or less begins on.
Leads(t) ==
  LET leads[n \in Lengths] ==
        IF n = 0 THEN {t}
        ELSE leads[n - 1] \cup {d \in Tiles : Openings(d, t) \cap leads[n - 1] # {}}
  IN leads

\* The first steps of the shortest free ways from c to t.
FirstSteps(c, t) ==
  LET steps(n) == Openings(c, t) \cap Leads(t)[n]
      found == {n \in Lengths : steps(n) # {}}
  IN IF found = {} THEN {} ELSE steps(CHOOSE n \in found : \A m \in found : n <= m)

-----------------------------------------------------------------------------
(* ProcAction *)

\* What becomes of a standing order: an order for the tick or none, and perhaps it is
\* done, or takes up a tile, or a mineral.
Result(order, done, took, mineral) ==
  [order |-> order, done |-> done, took |-> took, mineral |-> mineral]

Nothing   == Result({}, FALSE, {}, {})
Done      == Result({}, TRUE, {}, {})
Last(o)   == Result({o}, TRUE, {}, {})
Again(o)  == Result({o}, FALSE, {}, {})
Gather(o) == Result({o}, FALSE, {}, {o.target})

\* Mutant: a tile that a unit is sent to is not marked.
StepUnmarked(c) == Result({Given("MOVE", c)}, FALSE, {}, {})

Step(c) == Result({Given("MOVE", c)}, FALSE, {c}, {})

Walk(u, t) ==
  LET steps == FirstSteps(objs[u].coord, t) IN
  IF steps = {} THEN {Nothing} ELSE {Step(c) : c \in steps}

Squared(c, d) ==
  (c[1] - d[1]) * (c[1] - d[1]) + (c[2] - d[2]) * (c[2] - d[2])

\* The player's bases that are nearest to c.
NearestBases(c) ==
  LET bases == {objs[i].coord : i \in {k \in Ids : Mine(k) /\ objs[k].type = "BASE"}}
  IN {b \in bases : \A d \in bases : Squared(b, c) <= Squared(d, c)}

Attack(u, a) ==
  IF a.target \notin Found \/ objs[At(a.target)].owner # -Player THEN {Done}
  ELSE IF InRange(Reach(objs[u]), objs[u].coord, a.target) THEN {Again(a)}
  ELSE Walk(u, a.target)

Harvest(u, a) ==
  IF a.target \notin Found THEN {Done}
  ELSE IF ~Adjacent(objs[u].coord, a.target) THEN Walk(u, a.target)
  ELSE IF a.target \in pass.gathered THEN {Nothing} ELSE {Gather(a)}

BringHome(u) ==
  LET bases == NearestBases(objs[u].coord) IN
  IF bases = {} THEN {Nothing}
  ELSE UNION {IF Adjacent(objs[u].coord, b) THEN {Again(Given("RETURN", b))}
                                            ELSE Walk(u, b) : b \in bases}

\* What may become of u's standing order in this pass.
Results(u) ==
  LET a == standing[u] IN
  IF u \notin Ids THEN {Done}
  ELSE IF objs[u].act # "NOOP" THEN {Nothing}
  ELSE CASE a.action = "PRODUCE" -> {Last(a)}
         [] a.action = "ATTACK"  -> Attack(u, a)
         [] a.action = "MOVE"    -> IF objs[u].coord = a.target THEN {Done}
                                    ELSE Walk(u, a.target)
         [] a.action = "RETURN"  -> IF Adjacent(objs[u].coord, a.target) THEN {Last(a)}
                                    ELSE Walk(u, a.target)
         [] a.action = "GATHER"  -> IF objs[u].res = 0 THEN Harvest(u, a)
                                    ELSE BringHome(u)

\* One iteration of the loop over actionMap.
Visit(u) ==
  /\ pass.visiting /\ u \in pass.todo
  /\ \E r \in Results(u) :
       /\ tx' = IF r.order = {} THEN tx ELSE Put(tx, u, CHOOSE o \in r.order : TRUE)
       /\ standing' = IF r.done THEN Restrict(standing, DOMAIN standing \ {u})
                      ELSE standing
       /\ pass' = [pass EXCEPT !.todo = @ \ {u},
                               !.occupied = @ \cup r.took,
                               !.gathered = @ \cup r.mineral]
  /\ UNCHANGED <<vars, fresh, sent, clicks>>

-----------------------------------------------------------------------------
(* Auto attack, and the end of Act *)

Targets(u) ==
  {v \in Ids : /\ objs[v].owner # objs[u].owner
               /\ objs[v].type \in CanBeAttacked
               /\ InRange(Reach(objs[u]), objs[u].coord, objs[v].coord)}

\* A target that cannot fight back counts as if it were beyond the board.
Remoteness(u, v) ==
  Squared(objs[u].coord, objs[v].coord) *
  (IF objs[v].type \in CanAttack THEN 1 ELSE W * W * W * W)

Closest(u) ==
  {v \in Targets(u) : \A x \in Targets(u) : Remoteness(u, v) <= Remoteness(u, x)}

\* Units that do nothing and were told nothing.
Bored ==
  {u \in Ids \ DOMAIN tx : /\ objs[u].act = "NOOP" /\ objs[u].owner # -Player
                           /\ objs[u].type \in CanAttack /\ Targets(u) # {}}

\* SetAction; what is empty is not sent.
EndAct ==
  /\ pass.visiting /\ pass.todo = {}
  /\ \E target \in [Bored -> Ids] :
       /\ \A u \in Bored : target[u] \in Closest(u)
       /\ tx' = [u \in DOMAIN tx \cup Bored |->
                   IF u \in Bored THEN Given("ATTACK", objs[target[u]].coord) ELSE tx[u]]
  /\ sent' = IF tx' = EmptyMap THEN sent ELSE tx'
  /\ pass' = [pass EXCEPT !.visiting = FALSE, !.occupied = {}, !.gathered = {}]
  /\ UNCHANGED <<vars, fresh, standing, clicks>>

Act == Frame \/ (\E u \in pass.todo : Visit(u)) \/ EndAct

HandNext == Tick \/ Click \/ Act

HandSpec == HandInit /\ [][HandNext]_handVars

\* The window goes on drawing, and the server ticking.  (Some step other than a click is
\* possible in every state, and the clicks come to an end: so this is what the weak
\* fairness of Tick \/ Act says, in a form that TLC evaluates many times as fast.)
FairHandSpec == HandSpec /\ []<>(phase = "idle") /\ []<>(phase = "attack")

==============================================================================
