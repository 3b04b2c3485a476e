----------------------------- MODULE ThreadPool -----------------------------
(***************************************************************************)
(* The thread pool of thread_pool.h: workers that wait on a condition      *)
(* variable for jobs in a queue.  Every access to the queue and to stop is *)
(* made with queue_mutex held, so what a thread does while it holds the    *)
(* mutex is one action; condition.wait gives it up and takes it again,     *)
(* which are two.  What a job does is up to the module that uses the pool. *)
(***************************************************************************)
EXTENDS Integers, Sequences

CONSTANT NumWorkers   \* ThreadPool(size_t threads)

ASSUME Workers == NumWorkers \in Nat

VARIABLES
  tasks,    \* the queue
  stop,     \* the destructor has begun
  worker    \* thread -> [at, job]: where it is, and the job it has taken

poolVars == <<tasks, stop, worker>>

Threads == 1 .. NumWorkers

\* The constructor: every worker is on its way to look at the queue.  A worker that
\* has no job yet has the one that stands for none.
PoolInit(none) ==
  /\ tasks = << >>
  /\ stop = FALSE
  /\ worker = [w \in Threads |-> [at |-> "look", job |-> none]]

Sleeping == {w \in Threads : worker[w].at = "sleep"}

\* Those of S wake up and look at the queue again.
WakeUp(S) == worker' = [w \in Threads |-> IF w \in S THEN [worker[w] EXCEPT !.at = "look"]
                                                     ELSE worker[w]]

\* Mutant: a job is put into the queue and nobody is told.
EnqueueSilently(job) ==
  /\ ~stop
  /\ tasks' = Append(tasks, job)
  /\ UNCHANGED <<stop, worker>>

\* enqueue, and its notify_one: it wakes one of the sleeping workers, if there is one.
Enqueue(job) ==
  /\ ~stop
  /\ tasks' = Append(tasks, job)
  /\ \/ \E w \in Sleeping : WakeUp({w})
     \/ Sleeping = {} /\ UNCHANGED worker
  /\ UNCHANGED stop

\* condition.wait: nothing to do.
Sleep(w) ==
  /\ worker[w].at = "look"
  /\ ~stop /\ tasks = << >>
  /\ worker' = [worker EXCEPT ![w].at = "sleep"]
  /\ UNCHANGED <<tasks, stop>>

\* The wait may end although nobody notified.
WakeSpuriously(w) ==
  /\ w \in Sleeping
  /\ WakeUp({w})
  /\ UNCHANGED <<tasks, stop>>

Take(w) ==
  /\ worker[w].at = "look"
  /\ tasks # << >>
  /\ worker' = [worker EXCEPT ![w] = [at |-> "work", job |-> Head(tasks)]]
  /\ tasks' = Tail(tasks)
  /\ UNCHANGED stop

\* A worker ends when the pool is stopped and the queue is empty.
Leave(w) ==
  /\ worker[w].at = "look"
  /\ stop /\ tasks = << >>
  /\ worker' = [worker EXCEPT ![w].at = "left"]
  /\ UNCHANGED <<tasks, stop>>

\* The job is done, or has thrown into the future that enqueue returned.
JobEnds(w) == worker' = [worker EXCEPT ![w].at = "look"]

\* Mutant: the destructor wakes one worker.
StopOne ==
  /\ stop' = TRUE
  /\ \/ \E w \in Sleeping : WakeUp({w})
     \/ Sleeping = {} /\ UNCHANGED worker
  /\ UNCHANGED tasks

\* The destructor: stop, and notify_all.
StopAll ==
  /\ stop' = TRUE
  /\ WakeUp(Sleeping)
  /\ UNCHANGED tasks

\* The destructor has joined every worker.
Joined == \A w \in Threads : worker[w].at = "left"

=============================================================================
