----------------------------- MODULE HumanAiProps -----------------------------
(***************************************************************************)
(* What is claimed of HumanAi.                                             *)
(***************************************************************************)
EXTENDS HumanAi, GameEngineProps

\* Units that are sent to a free tile, and are ready to go.
Sent ==
  {u \in DOMAIN sent \cap Ids :
     /\ sent[u].action = "MOVE" /\ sent[u].target \notin InUse
     /\ objs[u].type \in CanMove /\ objs[u].cd = 0
     /\ \A v \in DOMAIN sent :
          sent[v].action = "PRODUCE" => sent[v].target # sent[u].target}

\* Another unit is sent to the same tile, and one of the two was told to go just there: a
\* unit's destination is open to it even when another has been sent there in this frame.
Contested(u) ==
  \E v \in Sent \ {u} :
    /\ sent[v].target = sent[u].target
    /\ sent[u].target \in {standing[u].target, standing[v].target}

\* The units of a player do not get into each other's way: whatever ways are found for
\* them in one frame, the next tick takes all of their first steps, as long as nothing is
\* to be built there and no unit's destination is on another's way.
StepsAreTaken ==
  [][phase = "move" /\ phase' = "settleMove" /\ pass.first =>
       \A u \in Sent : objs'[u].act = "MOVE" \/ Contested(u)]_handVars

\* The unit that can walk is the only one there is, and the only one with an order.
Alone(u) ==
  /\ DOMAIN standing = {u}
  /\ {i \in Ids : objs[i].type \in MobileTypes} = {u}

\* What a player tells a unit that nobody can be in the way of is done in the end: it
\* walks, gathers and returns, over as many ticks as it takes, and does not stand in
\* front of a tile forever or go to and fro.
OrdersAreDone ==
  ~<>[](~GameOver /\ \E u \in Ids : Alone(u))

-----------------------------------------------------------------------------
(* Why steps are taken: an inductive invariant *)

Orders == [action : {"ATTACK", "PRODUCE", "MOVE", "GATHER", "RETURN"},
           target : Tiles, ptype : GameObjType]

\* The variables of the window have the values the code gives them.
HandTypeOK ==
  /\ fresh \in BOOLEAN
  /\ IsMap(standing, Nat, Orders) /\ IsMap(tx, Nat, Orders) /\ IsMap(sent, Nat, Orders)
  /\ pass \in [visiting : BOOLEAN, todo : SUBSET Nat, occupied : SUBSET Tiles,
               gathered : SUBSET Tiles, first : BOOLEAN]

\* Orders are given to units of the player, some of which may be gone.
OwnUnits(orders) == \A u \in DOMAIN orders : u < objCnt /\ (u \in Ids => Mine(u))

\* Act runs between two ticks, and a tick that has ended leaves no orders.
WindowOK ==
  /\ OwnUnits(standing) /\ OwnUnits(tx) /\ OwnUnits(sent)
  /\ fresh \/ pass.visiting => phase = "idle"
  /\ fresh => ~pass.visiting /\ DOMAIN sent = {}
  /\ pass.visiting => pass.todo \subseteq DOMAIN standing
  /\ phase = "idle" => spent = {}

Walkers(orders) == {u \in DOMAIN orders : orders[u].action = "MOVE"}

\* Who is sent to the tile that another is sent to is there, or the other is, at the
\* place it was told to go to.
Apart(orders) ==
  \A u, v \in Walkers(orders) :
    u # v /\ orders[u].target = orders[v].target =>
      orders[u].target \in {standing[u].target, standing[v].target}

\* While the first Act for a state runs: whoever is sent to a tile has marked it.
PassOK ==
  pass.visiting /\ pass.first =>
    /\ DOMAIN sent = {}
    /\ Apart(tx)
    /\ \A u \in Walkers(tx) :
         /\ u \in Ids \cap (DOMAIN standing \ pass.todo)
         /\ objs[u].act = "NOOP"
         /\ tx[u].target \in Neighbours(objs[u].coord) \cap pass.occupied

BeforeMoves == {"idle", "attack", "hurt", "produce", "execProduce", "move"}

\* After it, until the moves begin: whoever is sent to a tile is next to it.
WalkersOK ==
  pass.first /\ ~pass.visiting /\ phase \in BeforeMoves =>
    /\ Apart(sent)
    /\ \A u \in Walkers(sent) \cap Ids :
         /\ objs[u].act = "NOOP" /\ objs[u].progress = 0
         /\ sent[u].target \in Neighbours(objs[u].coord)

\* What is claimed has been ordered, and whose order is used up was not to move.
ClaimsOK ==
  /\ phase \in BeforeMoves =>
       \A u \in spent : u \in DOMAIN sent /\ sent[u].action # "MOVE"
  /\ phase \in {"produce", "execProduce", "move"} =>
       \A u \in DOMAIN claims :
         /\ u \in DOMAIN sent /\ claims[u].target = sent[u].target
         /\ sent[u].action = IF phase = "move" THEN "MOVE" ELSE "PRODUCE"

\* Something is to be built on t.
Ordered(t) ==
  \E v \in DOMAIN sent : sent[v].action = "PRODUCE" /\ sent[v].target = t

\* The units whose claim to walk to t has been accepted.
Claimants(t) == {u \in DOMAIN claims : phase = "move" /\ claims[u].target = t}

\* What coordOccupationCount has counted is there.
CountsOK ==
  phase \in {"produce", "execProduce", "move"} =>
    \A t \in Tiles \ InUse : ~Ordered(t) =>
      /\ occ[t] # 0 => Claimants(t) # {}
      /\ occ[t] = Many => \E u, v \in Claimants(t) : u # v

HandInv ==
  HandTypeOK /\ WindowOK /\ PassOK /\ WalkersOK /\ ClaimsOK /\ CountsOK
==============================================================================
