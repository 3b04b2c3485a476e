------------------------------ MODULE VecCalls ------------------------------
(***************************************************************************)
(* What a caller may expect of Step and Reset of client_interface.cpp, as  *)
(* if there were no threads: a call takes every game on by one move, all   *)
(* of them before any is looked at, then looks at each, and returns when   *)
(* that is done.                                                           *)
(***************************************************************************)
EXTENDS Integers

CONSTANT NumWorkers

VARIABLES
  state,    \* game -> the number of the state it is in
  before,   \* game -> its state before the call
  seen,     \* game -> what its observation shows: [now, before]
  stage,    \* "out" of a call, or in its "act" or "observe" stage
  movers,   \* the games that the call moves
  self,     \* the call compares a game with itself
  left      \* the games that the stage has still to come to

vars == <<state, before, seen, stage, movers, self, left>>

Games == 0 .. NumWorkers - 1

Init ==
  /\ state = [g \in Games |-> 0]
  /\ before = state
  /\ seen = [g \in Games |-> [now |-> 0, before |-> 0]]
  /\ stage = "out"
  /\ movers = Games
  /\ self = TRUE
  /\ left = {}

Call ==
  /\ stage = "out"
  /\ stage' = "act"
  /\ left' = Games
  /\ \/ movers' \in SUBSET Games /\ self' = FALSE /\ before' = state
     \/ movers' = Games /\ self' = TRUE /\ UNCHANGED before
  /\ UNCHANGED <<state, seen>>

Act(g) ==
  /\ stage = "act" /\ g \in left
  /\ state' = [state EXCEPT ![g] = IF g \in movers THEN @ + 1 ELSE @]
  /\ left' = left \ {g}
  /\ UNCHANGED <<before, seen, stage, movers, self>>

Turn ==
  /\ stage = "act" /\ left = {}
  /\ stage' = "observe"
  /\ left' = Games
  /\ UNCHANGED <<state, before, seen, movers, self>>

Observe(g) ==
  /\ stage = "observe" /\ g \in left
  /\ seen' = [seen EXCEPT ![g] = [now |-> state[g],
                                  before |-> IF self THEN state[g] ELSE before[g]]]
  /\ left' = left \ {g}
  /\ UNCHANGED <<state, before, stage, movers, self>>

Return ==
  /\ stage = "observe" /\ left = {}
  /\ stage' = "out"
  /\ UNCHANGED <<state, before, seen, movers, self, left>>

Next == Call \/ Turn \/ Return \/ \E g \in Games : Act(g) \/ Observe(g)

Spec == Init /\ [][Next]_vars

=============================================================================
