----------------------------- MODULE VecProofs ------------------------------
(***************************************************************************)
(* Proofs about VecInterface, for any number of games and of moves: VecInv *)
(* is inductive, and with it the interface implements VecCalls.            *)
(***************************************************************************)
EXTENDS VecProps, FiniteSetTheorems, TLAPS

-----------------------------------------------------------------------------
(* Queues and numbers of games                                               *)

\* The queue after an enqueue.
LEMMA Appended ==
  ASSUME NEW q \in Seq(Job), NEW j \in Job
  PROVE  /\ Append(q, j) \in Seq(Job)
         /\ DOMAIN q = 1 .. Len(q) /\ Len(q) \in Nat
         /\ DOMAIN Append(q, j) = 1 .. Len(q) + 1
         /\ \A k \in DOMAIN q : Append(q, j)[k] = q[k]
         /\ Append(q, j)[Len(q) + 1] = j
OBVIOUS

\* The queue after a worker has taken its front.
LEMMA FrontTaken ==
  ASSUME NEW q \in Seq(Job), q # << >>
  PROVE  /\ Tail(q) \in Seq(Job)
         /\ Head(q) \in Job /\ Head(q) = q[1]
         /\ DOMAIN q = 1 .. Len(q) /\ Len(q) \in Nat \ {0}
         /\ DOMAIN Tail(q) = 1 .. Len(q) - 1
         /\ \A k \in DOMAIN Tail(q) : Tail(q)[k] = q[k + 1]
OBVIOUS

\* There is one game for each worker, and never more that are finished.
LEMMA GamesCounted ==
  /\ IsFiniteSet(Games) /\ Cardinality(Games) = NumWorkers
  /\ \A S \in SUBSET Games :
       /\ IsFiniteSet(S) /\ Cardinality(S) \in 0 .. NumWorkers
       /\ Cardinality(S) = NumWorkers => S = Games
<1>1. IsFiniteSet(Games) /\ Cardinality(Games) = NumWorkers
  <2>1. 0 \in Int /\ NumWorkers - 1 \in Int /\ NumWorkers \in Nat
    BY Workers
  <2>2. /\ IsFiniteSet(0 .. NumWorkers - 1)
        /\ Cardinality(0 .. NumWorkers - 1)
           = IF 0 > NumWorkers - 1 THEN 0 ELSE NumWorkers - 1 - 0 + 1
    BY <2>1, FS_Interval
  <2> QED
    BY <2>1, <2>2 DEF Games
<1>2. ASSUME NEW S \in SUBSET Games
      PROVE  /\ IsFiniteSet(S) /\ Cardinality(S) \in 0 .. NumWorkers
             /\ Cardinality(S) = NumWorkers => S = Games
  <2>1. /\ IsFiniteSet(S) /\ Cardinality(S) <= Cardinality(Games)
        /\ Cardinality(Games) = Cardinality(S) => Games = S
    BY <1>1, FS_Subset
  <2>2. Cardinality(S) \in Nat
    BY <2>1, FS_CardinalityType
  <2> QED
    BY <1>1, <2>1, <2>2, Workers
<1> QED
  BY <1>1, <1>2

\* The jobs that the caller makes are jobs.
LEMMA JobsMade ==
  ASSUME NEW g \in Games
  PROVE  JobFor(g) \in Job /\ JobFor(g).game = g
BY DEF JobFor, Job

\* When the loop that waits is left, no game is in the queue, with a worker, or lost.
LEMMA BatchDone ==
  ASSUME VecInv, AllDone, pc \in {"act", "observe"}
  PROVE  tasks = << >> /\ Busy = {} /\ thrown = {}
<1>1. counter = Cardinality(Finished) /\ counter = NumWorkers
  BY DEF VecInv, CountOK, AllDone
<1>2. Finished = Games
  BY <1>1, GamesCounted DEF Finished
<1>3. \A g \in Games : ~Owed(g)
  BY <1>2 DEF Finished
<1>4. tasks = << >>
  <2> SUFFICES ASSUME tasks # << >> PROVE FALSE
    OBVIOUS
  <2>1. 1 \in DOMAIN tasks /\ tasks[1] \in Job
    BY FrontTaken DEF VecInv, VecTypeOK
  <2>2. tasks[1].game \in Games
    BY <2>1 DEF Job
  <2> QED
    BY <1>3, <2>1, <2>2 DEF Owed
<1>5. Busy = {}
  <2> SUFFICES ASSUME NEW w \in Busy PROVE FALSE
    OBVIOUS
  <2>1. worker[w].job.game \in Games
    BY DEF VecInv, VecTypeOK, Busy, Job
  <2> QED
    BY <1>3, <2>1 DEF Owed
<1>6. thrown = {}
  BY <1>3 DEF Owed, VecInv, VecTypeOK
<1> QED
  BY <1>4, <1>5, <1>6

\* Outside the two loops there is nothing in the pool.
LEMMA PoolIdle ==
  ASSUME VecInv, pc \notin {"act", "observe"}
  PROVE  tasks = << >> /\ Busy = {} /\ thrown = {}
<1>1. tasks = << >>
  <2> SUFFICES ASSUME tasks # << >> PROVE FALSE
    OBVIOUS
  <2>1. 1 \in DOMAIN tasks
    BY FrontTaken DEF VecInv, VecTypeOK
  <2> QED
    BY <2>1 DEF VecInv, JobsOK, InBatch
<1>2. Busy = {} /\ thrown = {}
  BY DEF VecInv, JobsOK, InBatch
<1> QED
  BY <1>1, <1>2

-----------------------------------------------------------------------------
(* The shape of the proof that VecInv is inductive                           *)

\* A step that moves no job leaves the batch as it is.
LEMMA SameBatch ==
  ASSUME VecInv, UNCHANGED <<tasks, pc, call, fit, next, thrown>>, Busy' = Busy,
         \A w \in Busy : worker'[w].job = worker[w].job
  PROVE  JobsOK' /\ Distinct' /\ LoopsOK' /\ Finished' = Finished
<1>1. \A j : InBatch(j)' <=> InBatch(j)
  BY DEF InBatch, JobFor
<1>2. JobsOK'
  BY <1>1 DEF VecInv, JobsOK
<1>3. Distinct'
  BY DEF VecInv, Distinct
<1>4. LoopsOK'
  BY DEF VecInv, LoopsOK
<1>5. \A g : Owed(g)' <=> Owed(g)
  BY DEF Owed
<1>6. Finished' = Finished
  BY <1>5 DEF Finished
<1> QED
  BY <1>2, <1>3, <1>4, <1>6

\* A batch that has begun has finished nothing, and an empty pool disturbs nothing.
LEMMA EmptyBatch ==
  ASSUME VecInv, tasks' = << >>, Busy' = {}, thrown' = {}
  PROVE  JobsOK' /\ Distinct' /\ (next' = 0 => Finished' = {})
<1>1. DOMAIN tasks' = {}
  OBVIOUS
<1>2. JobsOK' /\ Distinct'
  BY <1>1 DEF JobsOK, Distinct
<1>3. next' = 0 => Finished' = {}
  BY Workers DEF Finished, Owed, Games
<1> QED
  BY <1>2, <1>3

\* Waking workers up leaves those with a job alone.
LEMMA WakeUpFacts ==
  ASSUME VecTypeOK, NEW S \in SUBSET Sleeping, WakeUp(S)
  PROVE  /\ worker' \in [Threads -> [at : {"look", "sleep", "work", "count", "left"},
                                     job : Job]]
         /\ Busy' = Busy
         /\ \A w \in Busy : worker'[w] = worker[w]
         /\ \A w \in Threads : worker'[w].at = "work" <=> worker[w].at = "work"
<1>1. \A w \in Threads :
        /\ w \in S => worker[w].at = "sleep" /\ worker'[w].at = "look"
                      /\ worker'[w] \in [at : {"look", "sleep", "work", "count", "left"},
                                         job : Job]
        /\ w \notin S => worker'[w] = worker[w]
  BY DEF VecTypeOK, WakeUp, Sleeping
<1>2. DOMAIN worker' = Threads /\ worker' = [w \in Threads |-> worker'[w]]
  BY DEF WakeUp
<1>3. worker' \in [Threads -> [at : {"look", "sleep", "work", "count", "left"}, job : Job]]
  BY <1>1, <1>2 DEF VecTypeOK
<1>4. \A w \in Threads : worker'[w].at = "work" <=> worker[w].at = "work"
  BY <1>1
<1>5. \A w \in Threads : worker'[w].at = "count" <=> worker[w].at = "count"
  BY <1>1
<1>6. Busy' = Busy
  BY <1>4, <1>5 DEF Busy
<1>7. \A w \in Busy : worker'[w] = worker[w]
  BY <1>1 DEF Busy
<1> QED
  BY <1>3, <1>4, <1>6, <1>7

\* Putting a worker somewhere else, with the job it has.
LEMMA MoveFacts ==
  ASSUME VecTypeOK, NEW w \in Threads,
         NEW a \in {"look", "sleep", "work", "count", "left"},
         worker' = [worker EXCEPT ![w].at = a]
  PROVE  /\ worker' \in [Threads -> [at : {"look", "sleep", "work", "count", "left"},
                                     job : Job]]
         /\ worker'[w].at = a /\ worker'[w].job = worker[w].job
         /\ \A v \in Threads \ {w} : worker'[v] = worker[v]
BY DEF VecTypeOK

-----------------------------------------------------------------------------
(* The caller's steps                                                        *)

\* The initial state.
LEMMA InitVec == Init => VecInv
<1> SUFFICES ASSUME Init PROVE VecInv
  OBVIOUS
<1> DEFINE none == [do |-> "Observe", game |-> 0]
<1>1. VecTypeOK
  <2>0. tasks \in Seq(Job)
    <3>1. << >> \in Seq(Job)
      OBVIOUS
    <3> QED
      BY <3>1 DEF Init, PoolInit
  <2>1. /\ stop = FALSE /\ next = NumWorkers /\ counter = 0
        /\ pc = "out" /\ call = "Reset" /\ fit = Games /\ thrown = {}
    BY DEF Init, PoolInit
  <2>2. /\ state \in [Games -> Nat] /\ last \in [Games -> Nat]
        /\ seen \in [Games -> [now : Nat, before : Nat]]
    BY DEF Init
  <2>3. \A w \in Threads : 0 \in Games
    BY Workers DEF Threads, Games
  <2>4. worker \in [Threads -> [at : {"look", "sleep", "work", "count", "left"}, job : Job]]
    BY <2>3 DEF Init, PoolInit, Job
  <2> QED
    <3>1. next \in 0 .. NumWorkers /\ counter \in 0 .. NumWorkers
      BY <2>1, Workers
    <3>2. fit \in SUBSET Games /\ thrown \in SUBSET Games
      BY <2>1
    <3> QED
      BY <2>0, <2>1, <2>2, <2>4, <3>1, <3>2 DEF VecTypeOK
<1>2. tasks = << >> /\ Busy = {} /\ thrown = {} /\ pc = "out" /\ next = NumWorkers
  BY DEF Init, PoolInit, Busy
<1>3. JobsOK /\ Distinct
  BY <1>2 DEF JobsOK, Distinct
<1>4. LoopsOK /\ CountOK
  BY <1>2 DEF LoopsOK, CountOK, Init
<1> QED
  BY <1>1, <1>3, <1>4 DEF VecInv

\* A call begins, or turns to its second loop: a batch begins in an empty pool.
LEMMA NewBatch ==
  ASSUME VecInv, BeginStep \/ BeginReset \/ ClearCounter
  PROVE  VecInv'
<1>1. pc \in {"out", "clear"} /\ UNCHANGED poolVars /\ thrown' = thrown
  BY DEF BeginStep, BeginReset, ClearCounter, MayCall
<1>2. tasks = << >> /\ Busy = {} /\ thrown = {}
  BY <1>1, PoolIdle
<1>3. tasks' = << >> /\ Busy' = {} /\ thrown' = {}
  BY <1>1, <1>2 DEF poolVars, Busy
<1>4. next' = 0 /\ counter' = 0
  BY DEF BeginStep, BeginReset, ClearCounter
<1>5. JobsOK' /\ Distinct' /\ Finished' = {}
  BY <1>3, <1>4, EmptyBatch
<1>6. CountOK'
  BY <1>4, <1>5, FS_EmptySet DEF CountOK
<1>7. LoopsOK'
  BY <1>4 DEF LoopsOK, VecInv, BeginStep, BeginReset, ClearCounter
<1>8. fit' \in SUBSET Games
  <2>1. ASSUME NEW n \in 0 .. NumWorkers
        PROVE  0 .. n - 1 \in SUBSET Games
    BY Workers DEF Games
  <2> QED
    BY <2>1 DEF BeginStep, BeginReset, ClearCounter, VecInv, VecTypeOK
<1>9. VecTypeOK'
  BY <1>1, <1>4, <1>8, Workers
  DEF VecTypeOK, VecInv, poolVars, BeginStep, BeginReset, ClearCounter
<1> QED
  BY <1>5, <1>6, <1>7, <1>9 DEF VecInv

\* The states are copied.
LEMMA CopyKeeps == ASSUME VecInv, CopyStates PROVE VecInv'
<1>1. tasks = << >> /\ Busy = {} /\ thrown = {}
  BY PoolIdle DEF CopyStates
<1>2. tasks' = << >> /\ Busy' = {} /\ thrown' = {} /\ next' = 0 /\ counter' = counter
  BY <1>1 DEF CopyStates, poolVars, Busy, VecInv, LoopsOK
<1>3. JobsOK' /\ Distinct' /\ Finished' = {}
  BY <1>2, EmptyBatch
<1>4. Finished = {}
  BY Workers DEF Finished, Owed, Games, CopyStates, VecInv, LoopsOK
<1>5. CountOK'
  BY <1>2, <1>3, <1>4 DEF CountOK, VecInv, CopyStates
<1>6. LoopsOK'
  BY DEF LoopsOK, VecInv, CopyStates
<1>7. VecTypeOK'
  BY DEF VecTypeOK, VecInv, CopyStates, poolVars
<1> QED
  BY <1>3, <1>5, <1>6, <1>7 DEF VecInv

\* A loop is left.
LEMMA LeaveLoop == ASSUME VecInv, EndActs \/ Return PROVE VecInv'
<1>1. pc \in {"act", "observe"} /\ AllDone
  BY DEF EndActs, Return
<1>2. tasks = << >> /\ Busy = {} /\ thrown = {}
  BY <1>1, BatchDone
<1>3. UNCHANGED <<tasks, stop, worker, call, fit, next, last, counter, state, seen, thrown>>
  BY DEF EndActs, Return, poolVars
<1>4. tasks' = << >> /\ Busy' = {} /\ thrown' = {}
  BY <1>2, <1>3 DEF Busy
<1>5. JobsOK' /\ Distinct'
  BY <1>4, EmptyBatch
<1>6. Finished' = Finished
  BY <1>3 DEF Finished, Owed, Busy
<1>7. CountOK'
  BY <1>1, <1>3, <1>6 DEF CountOK, VecInv
<1>8. LoopsOK'
  BY <1>1, <1>3 DEF LoopsOK, VecInv, EndActs, Return, AllDone
<1>9. VecTypeOK'
  BY <1>3 DEF VecTypeOK, VecInv, EndActs, Return
<1> QED
  BY <1>5, <1>7, <1>8, <1>9 DEF VecInv

\* The process ends.
LEMMA EndKeeps == ASSUME VecInv, Close \/ Closed PROVE VecInv'
<1>1. tasks = << >> /\ Busy = {} /\ thrown = {}
  BY PoolIdle DEF Close, Closed
<1>2. /\ worker' \in [Threads -> [at : {"look", "sleep", "work", "count", "left"}, job : Job]]
      /\ Busy' = Busy
  <2>1. CASE Close
    BY <2>1, WakeUpFacts DEF Close, StopAll, VecInv
  <2>2. CASE Closed
    BY <2>2 DEF Closed, poolVars, VecInv, VecTypeOK, Busy
  <2> QED
    BY <2>1, <2>2
<1>3. UNCHANGED <<tasks, call, fit, next, last, counter, state, seen, thrown>>
  BY DEF Close, Closed, StopAll, poolVars
<1>4. JobsOK' /\ Distinct'
  BY <1>1, <1>2, <1>3, EmptyBatch
<1>5. CountOK' /\ LoopsOK'
  BY <1>3 DEF CountOK, LoopsOK, VecInv, Close, Closed
<1>6. stop' \in BOOLEAN
  BY DEF Close, Closed, StopAll, poolVars, VecInv, VecTypeOK
<1>7. VecTypeOK'
  BY <1>2, <1>3, <1>6 DEF VecTypeOK, VecInv, Close, Closed
<1> QED
  BY <1>4, <1>5, <1>7 DEF VecInv

\* The job of the next game goes into the queue.
LEMMA SubmitKeeps == ASSUME VecInv, Submit PROVE VecInv'
<1> DEFINE j == JobFor(next)
<1> DEFINE n == Len(tasks)
<1>1. /\ pc \in {"act", "observe"} /\ next \in Games /\ next' = next + 1
      /\ UNCHANGED <<stop, pc, call, fit, last, counter, state, seen, thrown>>
      /\ tasks' = Append(tasks, j)
  BY Workers DEF Submit, Enqueue, VecInv, VecTypeOK, Games
<1>2. j \in Job /\ j.game = next
  BY <1>1, JobsMade
<1>3. /\ tasks \in Seq(Job) /\ tasks' \in Seq(Job)
      /\ n \in Nat /\ DOMAIN tasks = 1 .. n /\ DOMAIN tasks' = 1 .. n + 1
      /\ \A k \in DOMAIN tasks : tasks'[k] = tasks[k]
      /\ tasks'[n + 1] = j
  BY <1>1, <1>2, Appended DEF VecInv, VecTypeOK
<1>4. /\ worker' \in [Threads -> [at : {"look", "sleep", "work", "count", "left"}, job : Job]]
      /\ Busy' = Busy
      /\ \A w \in Busy : worker'[w] = worker[w]
  <2>1. ASSUME NEW w \in Sleeping, WakeUp({w})
        PROVE  <1>4!1 /\ <1>4!2 /\ <1>4!3
    BY <2>1, WakeUpFacts DEF VecInv
  <2>2. CASE UNCHANGED worker
    BY <2>2 DEF VecInv, VecTypeOK, Busy
  <2> QED
    BY <2>1, <2>2 DEF Submit, Enqueue
<1> HIDE DEF j, n
<1>5. \A i \in Job : (InBatch(i) \/ i = j) => InBatch(i)'
  <2>1. next \in Nat
    BY <1>1, Workers DEF Games
  <2>2. \A g : JobFor(g)' = JobFor(g)
    BY <1>1 DEF JobFor
  <2>3. ASSUME NEW i \in Job, InBatch(i) \/ i = j
        PROVE  InBatch(i)'
    <3>1. i.game \in Int
      BY DEF Job, Games
    <3>2. i = JobFor(i.game) /\ i.game < next + 1
      BY <1>2, <2>1, <2>3, <3>1 DEF InBatch, j
    <3> QED
      BY <1>1, <2>2, <3>2 DEF InBatch
  <2> QED
    BY <2>3
<1>6. JobsOK'
  <2>1. ASSUME NEW k \in DOMAIN tasks'
        PROVE  \E i \in Job : tasks'[k] = i /\ InBatch(i)'
    <3>1. CASE k = n + 1
      BY <1>2, <1>3, <1>5, <3>1
    <3>2. CASE k \in DOMAIN tasks
      BY <1>3, <1>5, <3>2 DEF VecInv, JobsOK
    <3> QED
      BY <1>3, <2>1, <3>1, <3>2
  <2>2. ASSUME NEW w \in Busy'
        PROVE  \E i \in Job : worker'[w].job = i /\ InBatch(i)'
    <3>1. w \in Busy /\ worker'[w] = worker[w] /\ worker[w].job \in Job
      BY <1>4, <2>2 DEF VecInv, VecTypeOK, Busy
    <3> QED
      BY <1>5, <3>1 DEF VecInv, JobsOK
  <2>3. \A g \in thrown' : g < next'
    BY <1>1 DEF VecInv, VecTypeOK, JobsOK, Games
  <2>4. thrown' # {} => pc' = "act"
    BY <1>1 DEF VecInv, JobsOK
  <2> QED
    BY <2>1, <2>2, <2>3, <2>4 DEF JobsOK, InBatch, JobFor
<1>7. \* The game of the new job is with nobody else.
      /\ \A k \in DOMAIN tasks : tasks[k].game # next
      /\ \A w \in Busy : worker[w].job.game # next
      /\ next \notin thrown
  <2>1. \A i \in Job : InBatch(i) => i.game # next
    BY DEF InBatch, Job, Games, VecInv, VecTypeOK
  <2>2. \A k \in DOMAIN tasks : tasks[k] \in Job /\ InBatch(tasks[k])
    BY <1>3 DEF VecInv, JobsOK
  <2>3. \A w \in Busy : worker[w].job \in Job /\ InBatch(worker[w].job)
    BY DEF VecInv, JobsOK, VecTypeOK, Busy
  <2>4. \A g \in thrown : g # next
    BY DEF VecInv, JobsOK, VecTypeOK, Games
  <2> QED
    BY <2>1, <2>2, <2>3, <2>4
<1>8. Distinct'
  <2>1. \A k, m \in DOMAIN tasks' : tasks'[k].game = tasks'[m].game => k = m
    BY <1>2, <1>3, <1>7 DEF VecInv, Distinct
  <2>2. \A v, w \in Busy' : worker'[v].job.game = worker'[w].job.game => v = w
    BY <1>4 DEF VecInv, Distinct
  <2>3. \A k \in DOMAIN tasks', w \in Busy' : tasks'[k].game # worker'[w].job.game
    BY <1>2, <1>3, <1>4, <1>7 DEF VecInv, Distinct
  <2>4. \A k \in DOMAIN tasks' : tasks'[k].game \notin thrown'
    BY <1>1, <1>2, <1>3, <1>7 DEF VecInv, Distinct
  <2>5. \A w \in Busy' : worker'[w].job.game \notin thrown'
    BY <1>1, <1>4 DEF VecInv, Distinct
  <2> QED
    BY <2>1, <2>2, <2>3, <2>4, <2>5 DEF Distinct
<1>9. Finished' = Finished
  <2>1. ASSUME NEW g \in Games PROVE Owed(g)' <=> Owed(g)
    <3>1. g >= next' <=> g >= next /\ g # next
      BY <1>1 DEF Games
    <3>2. (\E k \in DOMAIN tasks' : tasks'[k].game = g)
          <=> (g = next \/ \E k \in DOMAIN tasks : tasks[k].game = g)
      <4>1. \A k \in DOMAIN tasks : k \in DOMAIN tasks' /\ tasks'[k] = tasks[k]
        BY <1>3
      <4>2. n + 1 \in DOMAIN tasks' /\ tasks'[n + 1].game = next
        BY <1>2, <1>3
      <4>3. \A k \in DOMAIN tasks' : k \in DOMAIN tasks \/ k = n + 1
        BY <1>3
      <4> QED
        BY <4>1, <4>2, <4>3
    <3>3. (\E w \in Busy' : worker'[w].job.game = g)
          <=> (\E w \in Busy : worker[w].job.game = g)
      BY <1>4
    <3>4. g = next => g >= next
      BY <1>1 DEF Games
    <3> QED
      BY <1>1, <3>1, <3>2, <3>3, <3>4 DEF Owed
  <2> QED
    BY <2>1 DEF Finished
<1>10. CountOK'
  BY <1>1, <1>9 DEF CountOK, VecInv
<1>11. LoopsOK'
  BY <1>1 DEF LoopsOK, VecInv
<1>12. VecTypeOK'
  <2>1. next' \in 0 .. NumWorkers
    BY <1>1, Workers DEF Games
  <2> QED
    BY <1>1, <1>3, <1>4, <2>1 DEF VecTypeOK, VecInv
<1> QED
  BY <1>6, <1>8, <1>10, <1>11, <1>12 DEF VecInv

-----------------------------------------------------------------------------
(* The workers' steps                                                        *)

\* A worker falls asleep, wakes up or leaves, or nothing happens.
LEMMA RestKeeps ==
  ASSUME VecInv, NEW w \in Threads,
         \/ (Sleep(w) \/ Leave(w)) /\ UNCHANGED <<callVars, counter, state, seen, thrown>>
         \/ Wakes(w) \/ UNCHANGED vars
  PROVE  VecInv'
<1>1. UNCHANGED <<tasks, stop, pc, call, fit, next, last, counter, state, seen, thrown>>
  BY DEF Sleep, Leave, Wakes, WakeSpuriously, callVars, vars
<1>2. /\ worker' \in [Threads -> [at : {"look", "sleep", "work", "count", "left"}, job : Job]]
      /\ Busy' = Busy
      /\ \A v \in Busy : worker'[v].job = worker[v].job
  <2>1. CASE WakeSpuriously(w)
    BY <2>1, WakeUpFacts DEF WakeSpuriously, VecInv
  <2>2. ASSUME NEW a \in {"sleep", "left"}, worker[w].at = "look",
               worker' = [worker EXCEPT ![w].at = a]
        PROVE  <1>2!1 /\ <1>2!2 /\ <1>2!3
    <3>0. VecTypeOK
      BY DEF VecInv
    <3>1. /\ worker' \in [Threads -> [at : {"look", "sleep", "work", "count", "left"}, job : Job]]
          /\ worker'[w].at = a /\ worker'[w].job = worker[w].job
          /\ \A v \in Threads \ {w} : worker'[v] = worker[v]
      BY <2>2, <3>0, MoveFacts
    <3>2. Busy' = Busy
      BY <2>2, <3>1 DEF Busy
    <3>3. \A v \in Busy : worker'[v].job = worker[v].job
      BY <3>1 DEF Busy
    <3> QED
      BY <3>1, <3>2, <3>3
  <2>3. CASE UNCHANGED worker
    BY <2>3 DEF VecInv, VecTypeOK, Busy
  <2> QED
    BY <2>1, <2>2, <2>3 DEF Sleep, Leave, Wakes, vars
<1>3. JobsOK' /\ Distinct' /\ LoopsOK' /\ Finished' = Finished
  BY <1>1, <1>2, SameBatch
<1>4. CountOK'
  BY <1>1, <1>3 DEF VecInv, CountOK
<1>5. VecTypeOK'
  BY <1>1, <1>2 DEF VecInv, VecTypeOK
<1> QED
  BY <1>3, <1>4, <1>5 DEF VecInv

\* A worker does its job: it is busy before and after.
LEMMA WorkKeeps ==
  ASSUME VecInv, NEW w \in Threads, Act(w) \/ Observe(w)
  PROVE  VecInv'
<1>1. /\ UNCHANGED <<tasks, stop, pc, call, fit, next, last, counter, thrown>>
      /\ worker[w].at = "work" /\ worker' = [worker EXCEPT ![w].at = "count"]
  BY DEF Act, Observe, callVars, Worked, Has
<1>2. /\ worker' \in [Threads -> [at : {"look", "sleep", "work", "count", "left"}, job : Job]]
      /\ Busy' = Busy
      /\ \A v \in Busy : worker'[v].job = worker[v].job
  <2>0. VecTypeOK
    BY DEF VecInv
  <2>1. /\ worker' \in [Threads -> [at : {"look", "sleep", "work", "count", "left"}, job : Job]]
        /\ worker'[w].at = "count" /\ worker'[w].job = worker[w].job
        /\ \A v \in Threads \ {w} : worker'[v] = worker[v]
    BY <1>1, <2>0, MoveFacts
  <2>2. Busy' = Busy
    BY <1>1, <2>1 DEF Busy
  <2>3. \A v \in Busy : worker'[v].job = worker[v].job
    BY <2>1 DEF Busy
  <2> QED
    BY <2>1, <2>2, <2>3
<1>3. JobsOK' /\ Distinct' /\ LoopsOK' /\ Finished' = Finished
  BY <1>1, <1>2, SameBatch
<1>4. CountOK'
  BY <1>1, <1>3 DEF VecInv, CountOK
<1>5. worker[w].job.game \in Games
  BY DEF VecInv, VecTypeOK, Job
<1>6. state' \in [Games -> Nat] /\ seen' \in [Games -> [now : Nat, before : Nat]]
  <2>1. CASE Act(w)
    BY <1>5, <2>1 DEF Act, VecInv, VecTypeOK
  <2>2. CASE Observe(w)
    BY <1>5, <2>2 DEF Observe, VecInv, VecTypeOK
  <2> QED
    BY <2>1, <2>2
<1>7. VecTypeOK'
  BY <1>1, <1>2, <1>6 DEF VecInv, VecTypeOK
<1> QED
  BY <1>3, <1>4, <1>7 DEF VecInv

\* What becomes of the workers and the queue when one takes the front.
LEMMA TakeFacts ==
  ASSUME VecInv, NEW w \in Threads, Take(w)
  PROVE  /\ tasks' \in Seq(Job) /\ 1 \in DOMAIN tasks
         /\ \A k \in DOMAIN tasks' : k + 1 \in DOMAIN tasks /\ tasks'[k] = tasks[k + 1]
         /\ \A k \in DOMAIN tasks : k = 1 \/ (k - 1 \in DOMAIN tasks' /\ tasks'[k - 1] = tasks[k])
         /\ \A k \in DOMAIN tasks' : k \in Nat /\ k # 0
         /\ worker' \in [Threads -> [at : {"look", "sleep", "work", "count", "left"}, job : Job]]
         /\ w \notin Busy /\ Busy' = Busy \cup {w}
         /\ worker'[w] = [at |-> "work", job |-> tasks[1]]
         /\ \A v \in Busy : worker'[v] = worker[v]
<1>1. /\ tasks \in Seq(Job) /\ tasks # << >> /\ tasks' = Tail(tasks)
      /\ worker[w].at = "look"
      /\ worker' = [worker EXCEPT ![w] = [at |-> "work", job |-> Head(tasks)]]
  BY DEF Take, VecInv, VecTypeOK
<1>2. /\ Tail(tasks) \in Seq(Job)
      /\ Head(tasks) \in Job /\ Head(tasks) = tasks[1]
      /\ DOMAIN tasks = 1 .. Len(tasks) /\ Len(tasks) \in Nat \ {0}
      /\ DOMAIN Tail(tasks) = 1 .. Len(tasks) - 1
      /\ \A k \in DOMAIN Tail(tasks) : Tail(tasks)[k] = tasks[k + 1]
  BY <1>1, FrontTaken
<1>3. /\ tasks' \in Seq(Job) /\ 1 \in DOMAIN tasks
      /\ \A k \in DOMAIN tasks' : k + 1 \in DOMAIN tasks /\ tasks'[k] = tasks[k + 1]
      /\ \A k \in DOMAIN tasks' : k \in Nat /\ k # 0
  BY <1>1, <1>2
<1>4. ASSUME NEW k \in DOMAIN tasks, k # 1
      PROVE  k - 1 \in DOMAIN tasks' /\ tasks'[k - 1] = tasks[k]
  <2>1. k \in Nat /\ k - 1 \in DOMAIN Tail(tasks) /\ k - 1 + 1 = k
    BY <1>2, <1>4
  <2> QED
    BY <1>1, <1>2, <2>1
<1> DEFINE r == [at |-> "work", job |-> tasks[1]]
<1>5. r \in [at : {"look", "sleep", "work", "count", "left"}, job : Job] /\ r.at = "work"
  BY <1>2
<1>6. worker' = [worker EXCEPT ![w] = r]
  BY <1>1, <1>2
<1> HIDE DEF r
<1>7. /\ worker' \in [Threads -> [at : {"look", "sleep", "work", "count", "left"}, job : Job]]
      /\ worker'[w] = r /\ \A v \in Threads \ {w} : worker'[v] = worker[v]
  BY <1>5, <1>6 DEF VecInv, VecTypeOK
<1>8. w \notin Busy /\ Busy' = Busy \cup {w} /\ \A v \in Busy : worker'[v] = worker[v]
  BY <1>1, <1>5, <1>7 DEF Busy
<1> QED
  BY <1>3, <1>4, <1>7, <1>8 DEF r

\* A worker takes a job: its game goes from the queue to the worker.
LEMMA TakeKeeps ==
  ASSUME VecInv, NEW w \in Threads, Take(w),
         UNCHANGED <<callVars, counter, state, seen, thrown>>
  PROVE  VecInv'
<1>1. UNCHANGED <<stop, pc, call, fit, next, last, counter, state, seen, thrown>>
  BY DEF Take, callVars
<1>2. \A j : InBatch(j)' <=> InBatch(j)
  BY <1>1 DEF InBatch, JobFor
<1>3. JobsOK'
  <2>1. \A k \in DOMAIN tasks' : \E j : tasks'[k] = j /\ InBatch(j)'
    BY <1>2, TakeFacts DEF VecInv, JobsOK
  <2>2. \A v \in Busy' : \E j : worker'[v].job = j /\ InBatch(j)'
    BY <1>2, TakeFacts DEF VecInv, JobsOK
  <2>3. (thrown' # {} => pc' = "act") /\ \A g \in thrown' : g < next'
    BY <1>1 DEF VecInv, JobsOK
  <2> QED
    BY <2>1, <2>2, <2>3 DEF JobsOK, InBatch, JobFor
<1>4. Distinct'
  <2>1. ASSUME NEW k \in DOMAIN tasks', NEW m \in DOMAIN tasks',
               tasks'[k].game = tasks'[m].game
        PROVE  k = m
    <3>1. k + 1 = m + 1
      BY <2>1, TakeFacts DEF VecInv, Distinct
    <3> QED
      BY <3>1, TakeFacts
  <2>2. \A v, u \in Busy' : worker'[v].job.game = worker'[u].job.game => v = u
    BY TakeFacts DEF VecInv, Distinct
  <2>3. ASSUME NEW k \in DOMAIN tasks', NEW v \in Busy'
        PROVE  tasks'[k].game # worker'[v].job.game
    <3>1. CASE v = w
      <4>1. k + 1 # 1
        BY TakeFacts
      <4> QED
        BY <3>1, <4>1, TakeFacts DEF VecInv, Distinct
    <3>2. CASE v \in Busy
      BY <3>2, TakeFacts DEF VecInv, Distinct
    <3> QED
      BY <3>1, <3>2, TakeFacts
  <2>4. \A k \in DOMAIN tasks' : tasks'[k].game \notin thrown'
    BY <1>1, TakeFacts DEF VecInv, Distinct
  <2>5. \A v \in Busy' : worker'[v].job.game \notin thrown'
    BY <1>1, TakeFacts DEF VecInv, Distinct
  <2> QED
    BY <2>1, <2>2, <2>3, <2>4, <2>5 DEF Distinct
<1>5. Finished' = Finished
  <2>1. ASSUME NEW g \in Games PROVE Owed(g)' <=> Owed(g)
    <3>1. (\E k \in DOMAIN tasks : tasks[k].game = g)
          <=> tasks[1].game = g \/ \E k \in DOMAIN tasks' : tasks'[k].game = g
      BY TakeFacts
    <3>2. (\E v \in Busy' : worker'[v].job.game = g)
          <=> tasks[1].game = g \/ \E v \in Busy : worker[v].job.game = g
      BY TakeFacts
    <3> QED
      BY <1>1, <3>1, <3>2 DEF Owed
  <2> QED
    BY <2>1 DEF Finished
<1>6. CountOK' /\ LoopsOK'
  BY <1>1, <1>5 DEF CountOK, LoopsOK, VecInv
<1>7. VecTypeOK'
  BY <1>1, TakeFacts DEF VecTypeOK, VecInv
<1> QED
  BY <1>3, <1>4, <1>6, <1>7 DEF VecInv

\* What becomes of the workers when one is done with its job.
LEMMA EndFacts ==
  ASSUME VecInv, NEW w \in Busy, JobEnds(w)
  PROVE  /\ worker' \in [Threads -> [at : {"look", "sleep", "work", "count", "left"}, job : Job]]
         /\ Busy' = Busy \ {w}
         /\ \A v \in Busy \ {w} : worker'[v] = worker[v]
         /\ w \in Threads /\ worker[w].job \in Job
<1>1. w \in Threads /\ worker' = [worker EXCEPT ![w].at = "look"]
  BY DEF Busy, JobEnds
<1>2. VecTypeOK
  BY DEF VecInv
<1>3. /\ worker' \in [Threads -> [at : {"look", "sleep", "work", "count", "left"}, job : Job]]
      /\ worker'[w].at = "look"
      /\ \A v \in Threads \ {w} : worker'[v] = worker[v]
  BY <1>1, <1>2, MoveFacts
<1>4. Busy' = Busy \ {w}
  BY <1>3 DEF Busy
<1>5. worker[w].job \in Job
  BY <1>1, <1>2 DEF VecTypeOK
<1> QED
  BY <1>1, <1>3, <1>4, <1>5 DEF Busy

\* A tick throws: its game goes from the worker to the lost ones.
LEMMA ThrowKeeps == ASSUME VecInv, NEW w \in Threads, Throw(w) PROVE VecInv'
<1> DEFINE h == worker[w].job.game
<1>1. /\ UNCHANGED <<tasks, stop, pc, call, fit, next, last, counter, state, seen>>
      /\ thrown' = thrown \cup {h}
      /\ w \in Busy /\ JobEnds(w) /\ worker[w].job.do = "GameStep"
  BY DEF Throw, callVars, Has, Busy
<1>2. /\ worker' \in [Threads -> [at : {"look", "sleep", "work", "count", "left"}, job : Job]]
      /\ Busy' = Busy \ {w}
      /\ \A v \in Busy \ {w} : worker'[v] = worker[v]
      /\ worker[w].job \in Job
  BY <1>1, EndFacts
<1>3. h \in Games /\ h < next /\ pc = "act"
  <2>1. InBatch(worker[w].job)
    BY <1>1 DEF VecInv, JobsOK
  <2> QED
    BY <1>1, <1>2, <2>1 DEF Job, InBatch, JobFor
<1>4. \A j : InBatch(j)' <=> InBatch(j)
  BY <1>1 DEF InBatch, JobFor
<1>5. JobsOK'
  <2>1. \A k \in DOMAIN tasks' : \E j : tasks'[k] = j /\ InBatch(j)'
    BY <1>1, <1>4 DEF VecInv, JobsOK
  <2>2. \A v \in Busy' : \E j : worker'[v].job = j /\ InBatch(j)'
    BY <1>2, <1>4 DEF VecInv, JobsOK
  <2>3. (thrown' # {} => pc' = "act") /\ \A g \in thrown' : g < next'
    BY <1>1, <1>3 DEF VecInv, JobsOK
  <2> QED
    BY <2>1, <2>2, <2>3 DEF JobsOK, InBatch, JobFor
<1> HIDE DEF h
<1>6. Distinct'
  <2>1. /\ \A k, m \in DOMAIN tasks' : tasks'[k].game = tasks'[m].game => k = m
        /\ \A u, v \in Busy' : worker'[u].job.game = worker'[v].job.game => u = v
        /\ \A k \in DOMAIN tasks', v \in Busy' : tasks'[k].game # worker'[v].job.game
    BY <1>1, <1>2 DEF VecInv, Distinct
  <2>2. /\ \A k \in DOMAIN tasks' : tasks'[k].game \notin thrown'
        /\ \A v \in Busy' : worker'[v].job.game \notin thrown'
    BY <1>1, <1>2 DEF VecInv, Distinct, h
  <2> QED
    BY <2>1, <2>2 DEF Distinct
<1>7. Finished' = Finished
  <2>1. ASSUME NEW g \in Games PROVE Owed(g)' <=> Owed(g)
    <3>1. (\E v \in Busy : worker[v].job.game = g)
          <=> (g = h \/ \E v \in Busy' : worker'[v].job.game = g)
      BY <1>1, <1>2 DEF h
    <3> QED
      BY <1>1, <3>1 DEF Owed
  <2> QED
    BY <2>1 DEF Finished
<1>8. CountOK' /\ LoopsOK'
  BY <1>1, <1>7 DEF CountOK, LoopsOK, VecInv
<1>9. VecTypeOK'
  BY <1>1, <1>2, <1>3 DEF VecTypeOK, VecInv
<1> QED
  BY <1>5, <1>6, <1>8, <1>9 DEF VecInv

\* A job is counted: its game is finished, and was not before.
LEMMA CountKeeps == ASSUME VecInv, NEW w \in Threads, Count(w) PROVE VecInv'
<1>0. PICK h : h = worker[w].job.game
  OBVIOUS
<1>1. /\ UNCHANGED <<tasks, stop, pc, call, fit, next, last, state, seen, thrown>>
      /\ counter' = counter + 1
      /\ w \in Busy /\ JobEnds(w)
  BY DEF Count, callVars, Busy
<1>2. /\ worker' \in [Threads -> [at : {"look", "sleep", "work", "count", "left"}, job : Job]]
      /\ Busy' = Busy \ {w}
      /\ \A v \in Busy \ {w} : worker'[v] = worker[v]
      /\ worker[w].job \in Job
  BY <1>1, EndFacts
<1>3. h \in Games /\ h < next /\ pc \in {"act", "observe"}
  <2>1. InBatch(worker[w].job)
    BY <1>1 DEF VecInv, JobsOK
  <2> QED
    BY <1>0, <1>2, <2>1 DEF Job, InBatch
<1>4. \A j : InBatch(j)' <=> InBatch(j)
  BY <1>1 DEF InBatch, JobFor
<1>5. JobsOK'
  <2>1. \A k \in DOMAIN tasks' : \E j : tasks'[k] = j /\ InBatch(j)'
    BY <1>1, <1>4 DEF VecInv, JobsOK
  <2>2. \A v \in Busy' : \E j : worker'[v].job = j /\ InBatch(j)'
    BY <1>2, <1>4 DEF VecInv, JobsOK
  <2>3. (thrown' # {} => pc' = "act") /\ \A g \in thrown' : g < next'
    BY <1>1 DEF VecInv, JobsOK
  <2> QED
    BY <2>1, <2>2, <2>3 DEF JobsOK, InBatch, JobFor
<1>6. Distinct'
  BY <1>1, <1>2 DEF VecInv, Distinct
<1>7. Finished' = Finished \cup {h} /\ h \notin Finished
  <2>1. Owed(h)
    BY <1>0, <1>1 DEF Owed
  <2>2. ~Owed(h)'
    <3>1. ~(h >= next) /\ h \notin thrown
      BY <1>0, <1>1, <1>3 DEF VecInv, VecTypeOK, Games, Distinct
    <3>2. ~\E k \in DOMAIN tasks : tasks[k].game = h
      BY <1>0, <1>1 DEF VecInv, Distinct
    <3>3. ~\E v \in Busy' : worker'[v].job.game = h
      BY <1>0, <1>1, <1>2 DEF VecInv, Distinct
    <3> QED
      BY <1>1, <3>1, <3>2, <3>3 DEF Owed
  <2>3. ASSUME NEW g \in Games, g # h PROVE Owed(g)' <=> Owed(g)
    <3>1. (\E v \in Busy : worker[v].job.game = g)
          <=> \E v \in Busy' : worker'[v].job.game = g
      BY <1>0, <1>1, <1>2, <2>3
    <3> QED
      BY <1>1, <3>1 DEF Owed
  <2> QED
    BY <1>3, <2>1, <2>2, <2>3 DEF Finished
<1>8. CountOK' /\ counter' \in 0 .. NumWorkers
  <2>1. Finished \in SUBSET Games /\ Finished' \in SUBSET Games
    BY DEF Finished
  <2>2. IsFiniteSet(Finished) /\ Cardinality(Finished') \in 0 .. NumWorkers
    BY <2>1, GamesCounted
  <2>3. Cardinality(Finished') = Cardinality(Finished) + 1
    BY <1>7, <2>2, FS_AddElement
  <2>4. counter = Cardinality(Finished)
    BY <1>3 DEF VecInv, CountOK
  <2> QED
    BY <1>1, <2>2, <2>3, <2>4 DEF CountOK
<1>9. LoopsOK'
  BY <1>1 DEF LoopsOK, VecInv
<1>10. VecTypeOK'
  BY <1>1, <1>2, <1>8 DEF VecTypeOK, VecInv
<1> QED
  BY <1>5, <1>6, <1>8, <1>9, <1>10 DEF VecInv

-----------------------------------------------------------------------------
(* Invariants                                                                *)

\* Every step keeps VecInv.
LEMMA VecInvStep == VecInv /\ [Next]_vars => VecInv'
<1> SUFFICES ASSUME VecInv, [Next]_vars PROVE VecInv'
  OBVIOUS
<1>1. CASE Caller
  BY <1>1, NewBatch, CopyKeeps, LeaveLoop, EndKeeps, SubmitKeeps DEF Caller
<1>2. ASSUME NEW w \in Threads, Works(w) \/ Wakes(w)
      PROVE  VecInv'
  BY <1>2, RestKeeps, TakeKeeps, WorkKeeps, ThrowKeeps, CountKeeps DEF Works
<1>3. CASE UNCHANGED vars
  <2>1. UNCHANGED <<tasks, stop, worker, pc, call, fit, next, last, counter, state, seen, thrown>>
    BY <1>3 DEF vars, callVars
  <2>2. Busy' = Busy
    BY <2>1 DEF Busy
  <2>3. JobsOK' /\ Distinct' /\ LoopsOK' /\ Finished' = Finished
    BY <2>1, <2>2, SameBatch
  <2>4. CountOK' /\ VecTypeOK'
    BY <2>1, <2>3 DEF VecInv, CountOK, VecTypeOK
  <2> QED
    BY <2>3, <2>4 DEF VecInv
<1> QED
  BY <1>1, <1>2, <1>3 DEF Next, Idle

\* VecInv holds in every state.
THEOREM BatchInvariant == Spec => []VecInv
BY InitVec, VecInvStep, PTL DEF Spec

\* The pool, the counter and the states keep their types: taskCounter never passes the
\* number of games, whatever is left of earlier calls.
THEOREM VecTypes == Spec => []VecTypeOK
<1>1. VecInv => VecTypeOK
  BY DEF VecInv
<1> QED
  BY <1>1, BatchInvariant, PTL

\* No job outlives the call, or the loop of the call, that made it.
THEOREM JobsEndInTheirCall == Spec => []NoStragglers
<1>1. VecInv => NoStragglers
  <2> SUFFICES ASSUME VecInv PROVE NoStragglers
    OBVIOUS
  <2>1. \A k \in DOMAIN tasks : InBatch(tasks[k])
    BY DEF VecInv, JobsOK
  <2>2. \A w \in Threads : worker[w].at = "work" => InBatch(worker[w].job)
    BY DEF VecInv, JobsOK, Busy
  <2>3. \A j \in Open : InBatch(j)
    BY <2>1, <2>2 DEF Open
  <2> QED
    BY <2>3 DEF NoStragglers, InBatch
<1> QED
  BY <1>1, BatchInvariant, PTL

-----------------------------------------------------------------------------
(* Refinement                                                                *)

\* What VecCalls takes for the states before the call.
Before == IF pc = "copy" THEN state ELSE last

\* A step that VecCalls does not see.
LEMMA Unseen ==
  ASSUME UNCHANGED <<state, seen, fit, call>>, Before' = Before,
         Stage' = Stage, Left' = Left
  PROVE  UNCHANGED Calls!vars
BY DEF Calls!vars, Before

\* The games that are left when the pool is empty.
LEMMA LeftWhenIdle ==
  ASSUME VecTypeOK, tasks = << >>, Busy = {}, thrown = {}
  PROVE  /\ next = NumWorkers => Left = {}
         /\ next = 0 => Left = Games
<1>1. {tasks[k].game : k \in DOMAIN tasks} = {}
  OBVIOUS
<1>2. {v \in Threads : worker[v].at = "work"} = {}
  BY DEF Busy
<1>3. Left = {g \in Games : g >= next}
  BY <1>1, <1>2 DEF Left
<1> QED
  BY <1>3, Workers DEF Games

\* The initial states are those of VecCalls.
LEMMA InitCalls == Init => Calls!Init
<1> SUFFICES ASSUME Init PROVE Calls!Init
  OBVIOUS
<1>1. VecInv
  BY InitVec
<1>2. tasks = << >> /\ Busy = {} /\ thrown = {} /\ pc = "out" /\ next = NumWorkers
  BY DEF Init, PoolInit, Busy
<1>3. Left = {} /\ Stage = "out"
  BY <1>1, <1>2, LeftWhenIdle DEF VecInv, Stage
<1> QED
  BY <1>2, <1>3 DEF Init, Calls!Init, Calls!Games, Games

\* BeginStep and BeginReset are the abstract Call.
LEMMA BeginIsCall ==
  ASSUME VecInv, VecInv', BeginStep \/ BeginReset
  PROVE  Calls!Call
<1>1. /\ pc = "out" /\ UNCHANGED <<tasks, stop, worker, last, state, seen, thrown>>
      /\ next' = 0
  BY DEF BeginStep, BeginReset, MayCall, poolVars
<1>2. tasks' = << >> /\ Busy' = {} /\ thrown' = {}
  <2>1. tasks = << >> /\ Busy = {} /\ thrown = {}
    BY <1>1, PoolIdle
  <2> QED
    BY <1>1, <2>1 DEF Busy
<1>3. Left' = Games
  <2>1. {tasks'[k].game : k \in DOMAIN tasks'} = {}
    BY <1>2
  <2>2. {v \in Threads : worker'[v].at = "work"} = {}
    BY <1>2 DEF Busy
  <2>3. Left' = {g \in Games : g >= next'}
    BY <1>2, <2>1, <2>2 DEF Left
  <2> QED
    BY <1>1, <2>3, Workers DEF Games
<1>4. Stage = "out" /\ Stage' = "act"
  BY <1>1 DEF Stage, BeginStep, BeginReset
<1>5. CASE BeginStep
  <2>1. fit' \in SUBSET Games /\ call' = "Step" /\ pc' = "copy"
    BY <1>5 DEF VecInv, VecTypeOK, BeginStep
  <2>2. Before' = state
    BY <1>1, <2>1 DEF Before
  <2> QED
    BY <1>1, <1>3, <1>4, <2>1, <2>2 DEF Calls!Call, Calls!Games, Games, Before
<1>6. CASE BeginReset
  <2>1. fit' = Games /\ call' = "Reset" /\ pc' = "act"
    BY <1>6 DEF BeginReset
  <2>2. Before' = Before
    BY <1>1, <2>1 DEF Before
  <2> QED
    BY <1>1, <1>3, <1>4, <2>1, <2>2 DEF Calls!Call, Calls!Games, Games, Before
<1> QED
  BY <1>5, <1>6

\* ClearCounter is the abstract Turn.
LEMMA ClearIsTurn == ASSUME VecInv, ClearCounter PROVE Calls!Turn
<1>1. /\ pc = "clear" /\ pc' = "observe" /\ next' = 0
      /\ UNCHANGED <<tasks, stop, worker, call, fit, last, state, seen, thrown>>
  BY DEF ClearCounter, poolVars
<1>2. tasks = << >> /\ Busy = {} /\ thrown = {} /\ next = NumWorkers
  BY <1>1, PoolIdle DEF VecInv, LoopsOK
<1>3. Left = {}
  BY <1>2, LeftWhenIdle DEF VecInv
<1>4. Left' = Games
  <2>1. {tasks'[k].game : k \in DOMAIN tasks'} = {}
    BY <1>1, <1>2
  <2>2. {v \in Threads : worker'[v].at = "work"} = {}
    BY <1>1, <1>2 DEF Busy
  <2>3. Left' = {g \in Games : g >= next'}
    BY <1>1, <1>2, <2>1, <2>2 DEF Left
  <2> QED
    BY <1>1, <2>3, Workers DEF Games
<1>5. Stage = "act" /\ Stage' = "observe" /\ Before' = Before
  BY <1>1 DEF Stage, Before
<1> QED
  BY <1>1, <1>3, <1>4, <1>5 DEF Calls!Turn, Calls!Games, Games, Before

\* A step that changes nothing but the caller's place leaves the list as it is.
LEMMA SameLeft ==
  ASSUME UNCHANGED <<tasks, next, thrown>>,
         \A w \in Threads : /\ worker'[w].at = "work" <=> worker[w].at = "work"
                            /\ worker[w].at = "work" => worker'[w].job = worker[w].job
  PROVE  Left' = Left
BY DEF Left

\* The loops of Return and EndActs are left when nothing is left.
LEMMA LeaveIs ==
  ASSUME VecInv
  PROVE  /\ Return => Calls!Return
         /\ EndActs => UNCHANGED Calls!vars
<1>1. ASSUME EndActs \/ Return
      PROVE  /\ UNCHANGED <<call, fit, last, state, seen>>
             /\ Left = {} /\ Left' = {} /\ pc \in {"act", "observe"}
  <2>1. /\ UNCHANGED <<tasks, stop, worker, call, fit, next, last, state, seen, thrown>>
        /\ pc \in {"act", "observe"} /\ AllDone /\ next = NumWorkers
    BY <1>1 DEF EndActs, Return, poolVars, AllDone
  <2>2. tasks = << >> /\ Busy = {} /\ thrown = {}
    BY <2>1, BatchDone
  <2>3. Left = {}
    BY <2>1, <2>2, LeftWhenIdle DEF VecInv
  <2>4. Left' = Left
    BY <2>1, SameLeft
  <2> QED
    BY <2>1, <2>3, <2>4
<1>2. ASSUME Return PROVE Calls!Return
  <2>1. Stage = "observe" /\ Stage' = "out" /\ Before' = Before
    BY <1>1, <1>2 DEF Return, Stage, Before
  <2> QED
    BY <1>1, <1>2, <2>1 DEF Calls!Return, Before
<1>3. ASSUME EndActs PROVE UNCHANGED Calls!vars
  <2>1. Stage' = Stage /\ Before' = Before
    BY <1>1, <1>3 DEF EndActs, Stage, Before
  <2> QED
    BY <1>1, <1>3, <2>1, Unseen
<1> QED
  BY <1>2, <1>3

\* A game is left when the loop has not come to it, or its job is in the queue or being
\* done, or it is lost.
LEMMA LeftIs ==
  ASSUME NEW g
  PROVE  /\ g \in Left <=>
              \/ g \in Games /\ g >= next
              \/ \E k \in DOMAIN tasks : tasks[k].game = g
              \/ \E w \in Threads : worker[w].at = "work" /\ worker[w].job.game = g
              \/ g \in thrown
         /\ g \in Left' <=>
              \/ g \in Games /\ g >= next'
              \/ \E k \in DOMAIN tasks' : tasks'[k].game = g
              \/ \E w \in Threads : worker'[w].at = "work" /\ worker'[w].job.game = g
              \/ g \in thrown'
BY DEF Left

\* The steps of the caller that VecCalls does not see.
LEMMA CallerUnseen ==
  ASSUME VecInv, CopyStates \/ Submit \/ Close \/ Closed
  PROVE  UNCHANGED Calls!vars
<1>1. UNCHANGED <<state, seen, fit, call>>
  BY DEF CopyStates, Submit, Close, Closed
<1>2. Stage' = Stage /\ Before' = Before
  BY DEF CopyStates, Submit, Close, Closed, Stage, Before
<1>3. Left' = Left
  <2>1. CASE CopyStates \/ Closed
    BY <2>1, SameLeft DEF CopyStates, Closed, poolVars
  <2>2. CASE Close
    <3>1. UNCHANGED <<tasks, next, thrown>> /\ WakeUp(Sleeping)
      BY <2>2 DEF Close, StopAll
    <3>2. Busy = {}
      BY <2>2, PoolIdle DEF Close
    <3>3. \A w \in Threads : worker'[w].at = "work" <=> worker[w].at = "work"
      BY <3>1, WakeUpFacts DEF VecInv
    <3>4. \A w \in Threads : worker[w].at # "work"
      BY <3>2 DEF Busy
    <3> QED
      BY <3>1, <3>3, <3>4, SameLeft
  <2>3. CASE Submit
    <3> DEFINE j == JobFor(next)
    <3> DEFINE n == Len(tasks)
    <3>1. /\ next \in Games /\ next' = next + 1 /\ thrown' = thrown
          /\ tasks' = Append(tasks, j)
      BY <2>3, Workers DEF Submit, Enqueue, VecInv, VecTypeOK, Games
    <3>2. j \in Job /\ j.game = next
      BY <3>1, JobsMade
    <3>3. /\ \A k \in DOMAIN tasks : k \in DOMAIN tasks' /\ tasks'[k] = tasks[k]
          /\ n + 1 \in DOMAIN tasks' /\ tasks'[n + 1] = j
          /\ \A k \in DOMAIN tasks' : k \in DOMAIN tasks \/ k = n + 1
      BY <3>1, <3>2, Appended DEF VecInv, VecTypeOK
    <3>4. \A w \in Threads : /\ worker'[w].at = "work" <=> worker[w].at = "work"
                             /\ worker[w].at = "work" => worker'[w] = worker[w]
      <4>1. ASSUME NEW w \in Sleeping, WakeUp({w})
            PROVE  <3>4
        BY <4>1, WakeUpFacts DEF VecInv, Busy
      <4>2. CASE UNCHANGED worker
        BY <4>2
      <4> QED
        BY <2>3, <4>1, <4>2 DEF Submit, Enqueue
    <3> HIDE DEF j, n
    <3>5. ASSUME NEW g PROVE g \in Left' <=> g \in Left
      <4>1. (g \in Games /\ g >= next) <=> (g \in Games /\ g >= next') \/ g = next
        BY <3>1, Workers DEF Games
      <4>2. (\E k \in DOMAIN tasks' : tasks'[k].game = g)
            <=> (\E k \in DOMAIN tasks : tasks[k].game = g) \/ g = next
        BY <3>2, <3>3
      <4>3. (\E w \in Threads : worker'[w].at = "work" /\ worker'[w].job.game = g)
            <=> \E w \in Threads : worker[w].at = "work" /\ worker[w].job.game = g
        BY <3>4
      <4> QED
        BY <3>1, <4>1, <4>2, <4>3, LeftIs
    <3> QED
      BY <3>5
  <2> QED
    BY <2>1, <2>2, <2>3
<1> QED
  BY <1>1, <1>2, <1>3, Unseen

\* The steps of a worker that VecCalls does not see.
LEMMA WorkerUnseen ==
  ASSUME VecInv, NEW w \in Threads,
         \/ /\ Sleep(w) \/ Take(w) \/ Leave(w)
            /\ UNCHANGED <<callVars, counter, state, seen, thrown>>
         \/ Throw(w) \/ Count(w) \/ Wakes(w)
  PROVE  UNCHANGED Calls!vars
<1>1. UNCHANGED <<pc, call, fit, next, last, state, seen>>
  BY DEF Throw, Count, Wakes, callVars
<1>2. Stage' = Stage /\ Before' = Before
  BY <1>1 DEF Stage, Before
<1>3. Left' = Left
  <2>1. CASE \/ (Sleep(w) \/ Leave(w)) /\ UNCHANGED thrown
             \/ Count(w) \/ Wakes(w)
    <3>1. UNCHANGED <<tasks, thrown>>
      BY <2>1 DEF Sleep, Leave, Count, WakeSpuriously, Wakes
    <3>2. worker[w].at # "work" /\ \E a \in {"sleep", "left", "look"} :
            worker' = [worker EXCEPT ![w].at = a]
      <4>1. CASE WakeSpuriously(w)
        <5>1. worker' = [worker EXCEPT ![w].at = "look"]
          BY <4>1 DEF WakeSpuriously, WakeUp, VecInv, VecTypeOK
        <5> QED
          BY <4>1, <5>1 DEF WakeSpuriously, Sleeping
      <4>2. CASE Sleep(w) \/ Leave(w) \/ Count(w)
        BY <4>2 DEF Sleep, Leave, Count, JobEnds
      <4> QED
        BY <2>1, <4>1, <4>2 DEF Wakes
    <3>3. \A v \in Threads : /\ worker'[v].at = "work" <=> worker[v].at = "work"
                             /\ worker[v].at = "work" => worker'[v].job = worker[v].job
      BY <3>2, MoveFacts DEF VecInv
    <3> QED
      BY <1>1, <3>1, <3>3, SameLeft
  <2>2. CASE Take(w) /\ UNCHANGED thrown
    <3>1. ASSUME NEW g PROVE g \in Left' <=> g \in Left
      <4>1. (\E k \in DOMAIN tasks : tasks[k].game = g)
            <=> tasks[1].game = g \/ \E k \in DOMAIN tasks' : tasks'[k].game = g
        BY <2>2, TakeFacts
      <4>2. /\ worker'[w] = [at |-> "work", job |-> tasks[1]] /\ worker[w].at # "work"
            /\ \A v \in Threads \ {w} : worker'[v] = worker[v]
        BY <2>2, TakeFacts DEF Take, VecInv, VecTypeOK
      <4>3. (\E v \in Threads : worker'[v].at = "work" /\ worker'[v].job.game = g)
            <=> tasks[1].game = g
                \/ \E v \in Threads : worker[v].at = "work" /\ worker[v].job.game = g
        BY <4>2
      <4> QED
        BY <1>1, <2>2, <4>1, <4>3, LeftIs
    <3> QED
      BY <3>1
  <2>3. CASE Throw(w)
    <3>1. /\ tasks' = tasks /\ thrown' = thrown \cup {worker[w].job.game}
          /\ worker[w].at = "work" /\ worker' = [worker EXCEPT ![w].at = "look"]
      BY <2>3 DEF Throw, Has, JobEnds
    <3>2. worker'[w].at = "look" /\ \A v \in Threads \ {w} : worker'[v] = worker[v]
      BY <3>1, MoveFacts DEF VecInv
    <3>3. ASSUME NEW g PROVE g \in Left' <=> g \in Left
      <4>1. (\E v \in Threads : worker[v].at = "work" /\ worker[v].job.game = g)
            <=> worker[w].job.game = g
                \/ \E v \in Threads : worker'[v].at = "work" /\ worker'[v].job.game = g
        BY <3>1, <3>2
      <4> QED
        BY <1>1, <3>1, <4>1, LeftIs
    <3> QED
      BY <3>3
  <2> QED
    BY <2>1, <2>2, <2>3
<1> QED
  BY <1>1, <1>2, <1>3, Unseen

\* A worker that does its job takes its game off the list.
LEMMA WorkShortens ==
  ASSUME VecInv, NEW w \in Threads, Act(w) \/ Observe(w)
  PROVE  /\ worker[w].job.game \in Left /\ worker[w].job.game \in Games
         /\ Left' = Left \ {worker[w].job.game}
<1>0. PICK h : h = worker[w].job.game
  OBVIOUS
<1>1. /\ UNCHANGED <<tasks, next, thrown>>
      /\ worker[w].at = "work" /\ worker' = [worker EXCEPT ![w].at = "count"]
  BY DEF Act, Observe, Has, Worked, callVars
<1>2. worker'[w].at = "count" /\ \A v \in Threads \ {w} : worker'[v] = worker[v]
  BY <1>1, MoveFacts DEF VecInv
<1>3. w \in Busy /\ worker[w].job \in Job /\ InBatch(worker[w].job)
  BY <1>1 DEF Busy, VecInv, VecTypeOK, JobsOK
<1>4. h \in Games /\ ~(h >= next) /\ h \notin thrown
  BY <1>0, <1>3 DEF Job, InBatch, VecInv, VecTypeOK, Distinct, Games
<1>5. ~\E k \in DOMAIN tasks : tasks[k].game = h
  BY <1>0, <1>3 DEF VecInv, Distinct
<1>6. \A v \in Threads \ {w} : worker[v].at = "work" => worker[v].job.game # h
  BY <1>0, <1>3 DEF VecInv, Distinct, Busy
<1>7. h \in Left
  BY <1>0, <1>1, LeftIs
<1>8. h \notin Left'
  BY <1>1, <1>2, <1>4, <1>5, <1>6, LeftIs
<1>9. ASSUME NEW g, g # h PROVE g \in Left' <=> g \in Left
  <2>1. (\E v \in Threads : worker'[v].at = "work" /\ worker'[v].job.game = g)
        <=> \E v \in Threads : worker[v].at = "work" /\ worker[v].job.game = g
    BY <1>0, <1>2, <1>9
  <2> QED
    BY <1>1, <2>1, LeftIs
<1> QED
  BY <1>0, <1>4, <1>7, <1>8, <1>9

\* A tick and a reset are the abstract Act.
LEMMA ActIsAct ==
  ASSUME VecInv, NEW w \in Threads, Act(w)
  PROVE  \E g \in Calls!Games : Calls!Act(g)
<1> DEFINE g == worker[w].job.game
<1>1. g \in Left /\ g \in Games /\ Left' = Left \ {g}
  BY WorkShortens
<1>2. pc = "act" /\ (worker[w].job.do = "GameReset" => fit = Games)
  <2>1. worker[w].at = "work" /\ worker[w].job.do \in {"GameStep", "GameReset"}
    BY DEF Act, Has
  <2>2. InBatch(worker[w].job) /\ worker[w].job \in Job
    BY <2>1 DEF VecInv, VecTypeOK, JobsOK, Busy
  <2>3. pc = "act" /\ (worker[w].job.do = "GameReset" => call # "Step")
    BY <2>1, <2>2 DEF InBatch, JobFor
  <2>4. call # "Step" => fit = Games
    BY DEF VecInv, VecTypeOK, LoopsOK
  <2> QED
    BY <2>3, <2>4
<1>3. UNCHANGED <<pc, call, fit, last, seen>>
  BY DEF Act, callVars
<1>4. state' = [state EXCEPT ![g] = IF g \in fit THEN @ + 1 ELSE @]
  BY <1>1, <1>2 DEF Act
<1>5. Stage = "act" /\ Stage' = Stage /\ Before' = Before
  BY <1>2, <1>3 DEF Stage, Before
<1> HIDE DEF g
<1>6. Calls!Act(g)
  BY <1>1, <1>3, <1>4, <1>5 DEF Calls!Act, Before
<1> QED
  BY <1>1, <1>6 DEF Calls!Games, Games

\* StateToObservation is the abstract Observe.
LEMMA ObserveIsObserve ==
  ASSUME VecInv, NEW w \in Threads, Observe(w)
  PROVE  \E g \in Calls!Games : Calls!Observe(g)
<1> DEFINE g == worker[w].job.game
<1>1. g \in Left /\ g \in Games /\ Left' = Left \ {g}
  BY WorkShortens
<1>2. pc = "observe" /\ (worker[w].job.do = "Compare" <=> call # "Reset")
  <2>1. worker[w].at = "work" /\ worker[w].job.do \in {"Compare", "Observe"}
    BY DEF Observe, Has
  <2>2. InBatch(worker[w].job) /\ worker[w].job \in Job /\ call \in {"Step", "Reset"}
    BY <2>1 DEF VecInv, VecTypeOK, JobsOK, Busy
  <2> QED
    BY <2>1, <2>2 DEF InBatch, JobFor
<1>3. UNCHANGED <<pc, call, fit, last, state>>
  BY DEF Observe, callVars
<1>4. seen' = [seen EXCEPT ![g] = [now |-> state[g],
                                   before |-> IF call = "Reset" THEN state[g] ELSE last[g]]]
  BY <1>2 DEF Observe
<1>5. Stage = "observe" /\ Stage' = Stage /\ Before' = Before /\ Before = last
  BY <1>2, <1>3 DEF Stage, Before
<1> HIDE DEF g
<1>6. Calls!Observe(g)
  BY <1>1, <1>3, <1>4, <1>5 DEF Calls!Observe, Before
<1> QED
  BY <1>1, <1>6 DEF Calls!Games, Games

\* The threads make no difference: the vectorised interface implements VecCalls.
THEOREM ThreadsUnseen == Spec => Sequential
<1>1. ASSUME VecInv, VecInv', [Next]_vars
      PROVE  [Calls!Next]_(Calls!vars)
  <2>1. CASE Caller
    BY <1>1, <2>1, BeginIsCall, ClearIsTurn, LeaveIs, CallerUnseen
    DEF Caller, Calls!Next
  <2>2. ASSUME NEW w \in Threads, Works(w) \/ Wakes(w)
        PROVE  [Calls!Next]_(Calls!vars)
    BY <1>1, <2>2, WorkerUnseen, ActIsAct, ObserveIsObserve DEF Works, Calls!Next
  <2>3. CASE UNCHANGED vars
    <3>1. UNCHANGED <<tasks, worker, pc, call, fit, next, last, state, seen, thrown>>
      BY <2>3 DEF vars, callVars
    <3> QED
      BY <3>1, Unseen, SameLeft DEF Stage, Before
  <2> QED
    BY <1>1, <2>1, <2>2, <2>3 DEF Next, Idle
<1> QED
  BY <1>1, InitCalls, BatchInvariant, PTL DEF Spec, Sequential, Calls!Spec

=============================================================================
