------------------------------ MODULE VecProps ------------------------------
(***************************************************************************)
(* What is claimed of VecInterface and of the pool under it.               *)
(***************************************************************************)
EXTENDS VecInterface, FiniteSets

\* The caller's variables, the counter and the pool have the values the code gives
\* them.
VecTypeOK ==
  /\ tasks \in Seq(Job)
  /\ stop \in BOOLEAN
  /\ worker \in [Threads -> [at : {"look", "sleep", "work", "count", "left"}, job : Job]]
  /\ pc \in {"out", "copy", "act", "clear", "observe", "closing", "closed"}
  /\ call \in {"Step", "Reset"}
  /\ fit \in SUBSET Games
  /\ next \in 0 .. NumWorkers
  /\ counter \in 0 .. NumWorkers
  /\ state \in [Games -> Nat]
  /\ last \in [Games -> Nat]
  /\ seen \in [Games -> [now : Nat, before : Nat]]
  /\ thrown \in SUBSET Games

\* A job is open until its worker is done with the data it has pointers to.
Open == {tasks[k] : k \in DOMAIN tasks}
        \cup {worker[w].job : w \in {v \in Threads : worker[v].at = "work"}}

\* Whatever is still open belongs to the loop of Step or Reset that the caller is in:
\* no job outlives the call that made it, and with it the local lastGameStateVec it
\* points to, nor runs into the next batch of the same call.
NoStragglers ==
  /\ Open # {} => pc \in {"act", "observe"}
  /\ \A j \in Open : j = JobFor(j.game) /\ j.game < next

\* The games that the loop the caller is in has still to come to.
Left ==
  {g \in Games : g >= next} \cup {tasks[k].game : k \in DOMAIN tasks}
  \cup {worker[w].job.game : w \in {v \in Threads : worker[v].at = "work"}}
  \cup thrown

Stage == CASE pc \in {"copy", "act", "clear"} -> "act"
           [] pc = "observe"                  -> "observe"
           [] OTHER                           -> "out"

Calls == INSTANCE VecCalls WITH
  before <- IF pc = "copy" THEN state ELSE last,
  stage  <- Stage,
  movers <- fit,
  self   <- call = "Reset",
  left   <- Left

\* The threads make no difference: Step and Reset do what VecCalls says, which has
\* neither jobs nor a counter.  Every game makes its one move before any is observed,
\* each is observed once, and the call returns after that.
Sequential == Calls!Spec

-----------------------------------------------------------------------------
(* Progress *)

\* A call returns, unless a tick of it has thrown.
CallsReturn == pc \in {"copy", "act", "clear", "observe"} ~> (pc = "out" \/ thrown # {})

\* A pool that is destroyed gets all its workers to leave.
PoolCloses == pc = "closing" ~> pc = "closed"

-----------------------------------------------------------------------------
(* Why NoStragglers and Sequential hold: an inductive invariant.             *)

\* The workers that a job has not let go of.
Busy == {w \in Threads : worker[w].at \in {"work", "count"}}

InBatch(j) == pc \in {"act", "observe"} /\ j = JobFor(j.game) /\ j.game < next

\* Every job belongs to the batch that the caller waits for.
JobsOK ==
  /\ \A k \in DOMAIN tasks : InBatch(tasks[k])
  /\ \A w \in Busy : InBatch(worker[w].job)
  /\ thrown # {} => pc = "act"
  /\ \A g \in thrown : g < next

\* A game is in one place at a time: in the queue, with a worker, or lost to a throw.
Distinct ==
  /\ \A k, m \in DOMAIN tasks : tasks[k].game = tasks[m].game => k = m
  /\ \A v, w \in Busy : worker[v].job.game = worker[w].job.game => v = w
  /\ \A k \in DOMAIN tasks, w \in Busy : tasks[k].game # worker[w].job.game
  /\ \A k \in DOMAIN tasks : tasks[k].game \notin thrown
  /\ \A w \in Busy : worker[w].job.game \notin thrown

LoopsOK ==
  /\ pc = "copy" => next = 0 /\ call = "Step"
  /\ pc \notin {"copy", "act", "observe"} => next = NumWorkers
  /\ call = "Reset" => fit = Games

\* taskCounter has yet to hear of game g in this batch.
Owed(g) ==
  \/ g >= next
  \/ g \in thrown
  \/ \E k \in DOMAIN tasks : tasks[k].game = g
  \/ \E w \in Busy : worker[w].job.game = g

Finished == {g \in Games : ~Owed(g)}

CountOK ==
  pc \in {"copy", "act", "clear", "observe"} => counter = Cardinality(Finished)

VecInv == VecTypeOK /\ JobsOK /\ Distinct /\ LoopsOK /\ CountOK

=============================================================================
