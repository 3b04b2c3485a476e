---------------------------- MODULE VecInterface ----------------------------
(***************************************************************************)
(* Step and Reset of client_interface.cpp, for as many games as the pool   *)
(* has workers.  The caller's thread puts one job per game into the pool   *)
(* and spins until taskCounter says that all are done; the jobs get        *)
(* pointers to the shared vectors, and to a local variable of Step.        *)
(*                                                                         *)
(* A state of a game is the number of moves that led to it.                *)
(***************************************************************************)
EXTENDS ThreadPool

CONSTANT MaxState   \* calls stop at this state (a bound of the model only)

ASSUME Bound == MaxState \in Nat

VARIABLES
  pc,       \* where the caller is
  call,     \* the call it makes: "Step" or "Reset"
  fit,      \* the games that the action data of the call is long enough for
  next,     \* i of the loop that enqueues
  counter,  \* taskCounter
  state,    \* gameStateVec
  last,     \* lastGameStateVec of the last Step
  seen,     \* observationVec, rewardVec, maskVec: the states they are made from
  thrown    \* games whose GameStep has thrown

callVars == <<pc, call, fit, next, last>>
vars == <<tasks, stop, worker, callVars, counter, state, seen, thrown>>

Games == 0 .. NumWorkers - 1

\* The bound function calls that the jobs are, and the game each one works on.
Job == [do : {"GameStep", "GameReset", "Compare", "Observe"}, game : Games]

\* The job that Step or Reset makes for game g.
JobFor(g) ==
  [do |-> IF pc = "act" THEN IF call = "Step" THEN "GameStep" ELSE "GameReset"
                        ELSE IF call = "Step" THEN "Compare" ELSE "Observe",
   game |-> g]

Init ==
  /\ PoolInit([do |-> "Observe", game |-> 0])
  /\ pc = "out" /\ call = "Reset" /\ fit = Games /\ next = NumWorkers
  /\ counter = 0
  /\ state = [g \in Games |-> 0]
  /\ last = state
  /\ seen = [g \in Games |-> [now |-> 0, before |-> 0]]
  /\ thrown = {}

-----------------------------------------------------------------------------
(* The caller *)

MayCall == pc = "out" /\ \A g \in Games : state[g] < MaxState

\* taskCounter = 0; data that is too short is so for the last games.
BeginStep ==
  /\ MayCall
  /\ call' = "Step" /\ next' = 0 /\ counter' = 0
  /\ \E n \in 0 .. NumWorkers : fit' = 0 .. n - 1
  /\ pc' = "copy"
  /\ UNCHANGED <<poolVars, last, state, seen, thrown>>

\* auto lastGameStateVec = gameStateVec
CopyStates ==
  /\ pc = "copy"
  /\ last' = state
  /\ pc' = "act"
  /\ UNCHANGED <<poolVars, call, fit, next, counter, state, seen, thrown>>

BeginReset ==
  /\ MayCall
  /\ call' = "Reset" /\ next' = 0 /\ counter' = 0 /\ fit' = Games
  /\ pc' = "act"
  /\ UNCHANGED <<poolVars, last, state, seen, thrown>>

\* pool->enqueue in either loop
Submit ==
  /\ pc \in {"act", "observe"} /\ next < NumWorkers
  /\ Enqueue(JobFor(next))
  /\ next' = next + 1
  /\ UNCHANGED <<pc, call, fit, last, counter, state, seen, thrown>>

\* Mutant: the loop that waits is left too early.
NearlyDone == next = NumWorkers /\ counter + 1 >= NumWorkers

\* while (taskCounter != gameStateVec.size())
AllDone == next = NumWorkers /\ counter = NumWorkers

EndActs ==
  /\ pc = "act" /\ AllDone
  /\ pc' = "clear"
  /\ UNCHANGED <<poolVars, call, fit, next, last, counter, state, seen, thrown>>

\* Mutant: the second batch goes on counting.
KeepCounting ==
  /\ pc = "clear"
  /\ next' = 0
  /\ pc' = "observe"
  /\ UNCHANGED <<poolVars, call, fit, last, counter, state, seen, thrown>>

\* taskCounter = 0
ClearCounter ==
  /\ pc = "clear"
  /\ counter' = 0 /\ next' = 0
  /\ pc' = "observe"
  /\ UNCHANGED <<poolVars, call, fit, last, state, seen, thrown>>

Return ==
  /\ pc = "observe" /\ AllDone
  /\ pc' = "out"
  /\ UNCHANGED <<poolVars, call, fit, next, last, counter, state, seen, thrown>>

\* The process ends, and with it the pool.
Close ==
  /\ pc = "out"
  /\ StopAll
  /\ pc' = "closing"
  /\ UNCHANGED <<call, fit, next, last, counter, state, seen, thrown>>

Closed ==
  /\ pc = "closing" /\ Joined
  /\ pc' = "closed"
  /\ UNCHANGED <<poolVars, call, fit, next, last, counter, state, seen, thrown>>

-----------------------------------------------------------------------------
(* The jobs.  Each adds 1 to taskCounter as the last thing it does.          *)

Has(w, do) == worker[w].at = "work" /\ worker[w].job.do \in do

\* The worker is done with the data of its game.
Worked(w) == worker' = [worker EXCEPT ![w].at = "count"]

\* GameReset, or a tick, which is skipped when the action data is too short.
Act(w) ==
  LET g == worker[w].job.game IN
  /\ Has(w, {"GameStep", "GameReset"})
  /\ state' = [state EXCEPT ![g] =
                 IF worker[w].job.do = "GameReset" \/ g \in fit THEN @ + 1 ELSE @]
  /\ Worked(w)
  /\ UNCHANGED <<tasks, stop, callVars, counter, seen, thrown>>

\* A tick throws half way; the packaged task keeps the exception for a future that
\* nobody has, and nobody looks at the game any more.
Throw(w) ==
  /\ Has(w, {"GameStep"}) /\ worker[w].job.game \in fit
  /\ thrown' = thrown \cup {worker[w].job.game}
  /\ JobEnds(w)
  /\ UNCHANGED <<tasks, stop, callVars, counter, state, seen>>

\* StateToObservation, with the state to compare with that Step or Reset points it to.
Observe(w) ==
  LET g == worker[w].job.game IN
  /\ Has(w, {"Compare", "Observe"})
  /\ seen' = [seen EXCEPT ![g] =
                [now |-> state[g],
                 before |-> IF worker[w].job.do = "Compare" THEN last[g] ELSE state[g]]]
  /\ Worked(w)
  /\ UNCHANGED <<tasks, stop, callVars, counter, state, thrown>>

\* counter++
Count(w) ==
  /\ worker[w].at = "count"
  /\ counter' = counter + 1
  /\ JobEnds(w)
  /\ UNCHANGED <<tasks, stop, callVars, state, seen, thrown>>

-----------------------------------------------------------------------------
Caller ==
  \/ BeginStep \/ CopyStates \/ BeginReset \/ Submit \/ EndActs \/ ClearCounter
  \/ Return \/ Close \/ Closed

\* What a worker goes on to do by itself.
Works(w) ==
  \/ /\ Sleep(w) \/ Take(w) \/ Leave(w)
     /\ UNCHANGED <<callVars, counter, state, seen, thrown>>
  \/ Act(w) \/ Throw(w) \/ Observe(w) \/ Count(w)

Wakes(w) == WakeSpuriously(w) /\ UNCHANGED <<callVars, counter, state, seen, thrown>>

\* The caller of a call that cannot return spins; a process that has ended does nothing.
Idle == (thrown # {} \/ pc = "closed") /\ UNCHANGED vars

Next == Caller \/ (\E w \in Threads : Works(w) \/ Wakes(w)) \/ Idle

Spec == Init /\ [][Next]_vars

\* A call that has begun goes on, as do the threads; new calls and the end of the
\* process are up to the user.
FairSpec ==
  /\ Spec
  /\ WF_vars(CopyStates \/ Submit \/ EndActs \/ ClearCounter \/ Return \/ Closed)
  /\ \A w \in Threads : WF_vars(Works(w))

=============================================================================
