----------------------------- MODULE ThreadPool -----------------------------
(***************************************************************************)
(* The worker pool of ThreadPool.h: N worker threads draining one FIFO     *)
(* queue, enqueue() from client threads and from running tasks, and the    *)
(* destructor that stops the pool and joins the workers.                   *)
(*                                                                         *)
(* `tasks' and `stop' are read and written only while queue_mutex is held, *)
(* so each critical section is one step.  condition.wait releases the      *)
(* mutex and blocks atomically; notify_one and notify_all run after the    *)
(* mutex was released and are steps of their own, so anything may happen   *)
(* between a push and its notification.                                    *)
(***************************************************************************)
EXTENDS Integers, Sequences, FiniteSets

CONSTANTS
  N,         \* the constructor's argument: how many workers are launched
  Clients,   \* threads outside the pool that call enqueue()
  Tasks,     \* the packaged tasks; every enqueue() call makes a new one
  None       \* no task

ASSUME NAssumption == N \in Nat \ {0}
ASSUME ClientsAssumption == IsFiniteSet(Clients) /\ Clients \cap (1..N) = {}
ASSUME NoneAssumption == None \notin Tasks

VARIABLES
  tasks,     \* std::queue of accepted tasks not yet taken by a worker
  stop,      \* the flag the destructor sets
  pc,        \* where each worker and each client is
  cur,       \* the task a worker took and has not finished
  arg,       \* the task a thread is passing to enqueue()
  fate,      \* what became of each task (the state of its future)
  owner,     \* where the thread that owns the pool is
  joined     \* workers launched so far, later: workers joined so far

vars == <<tasks, stop, pc, cur, arg, fate, owner, joined>>

Workers == 1..N
Threads == Workers \cup Clients

WorkerPC == {"unborn", "loop", "wait", "run", "enqueue", "notify", "exited"}
ClientPC == {"idle", "enqueue", "notify"}
OwnerPC  == {"constructing", "alive", "notifyAll", "join", "destroyed"}
Fates    == {"new", "made", "queued", "running", "done", "refused"}

-----------------------------------------------------------------------------
Init ==
  /\ tasks  = <<>>
  /\ stop   = FALSE
  /\ pc     = [t \in Threads |-> IF t \in Workers THEN "unborn" ELSE "idle"]
  /\ cur    = [w \in Workers |-> None]
  /\ arg    = [t \in Threads |-> None]
  /\ fate   = [x \in Tasks |-> "new"]
  /\ owner  = "constructing"
  /\ joined = 0

(***************************************************************************)
(* The constructor: the threads start one by one and run at once.          *)
(***************************************************************************)
\* Mutant: the loop launches one worker too many.
Launch_OneMore ==
  /\ owner = "constructing"
  /\ joined <= N
  /\ joined' = joined + 1
  /\ pc' = [pc EXCEPT ![joined + 1] = "loop"]
  /\ UNCHANGED <<tasks, stop, cur, arg, fate, owner>>

Launch ==
  /\ owner = "constructing"
  /\ joined < N
  /\ joined' = joined + 1
  /\ pc' = [pc EXCEPT ![joined + 1] = "loop"]
  /\ UNCHANGED <<tasks, stop, cur, arg, fate, owner>>

Constructed ==
  /\ owner = "constructing"
  /\ joined = N
  /\ owner' = "alive"
  /\ joined' = 0
  /\ UNCHANGED <<tasks, stop, pc, cur, arg, fate>>

(***************************************************************************)
(* The worker's loop: condition.wait evaluates the predicate with the      *)
(* mutex held and blocks while it is false; otherwise the worker returns   *)
(* (stopped and drained) or takes the front task.                          *)
(***************************************************************************)
\* Mutant: the predicate of condition.wait forgets `stop'.
WorkerWait_IgnoresStop(w) ==
  /\ pc[w] = "loop"
  /\ tasks = <<>>
  /\ pc' = [pc EXCEPT ![w] = "wait"]
  /\ UNCHANGED <<tasks, stop, cur, arg, fate, owner, joined>>

WorkerWait(w) ==
  /\ pc[w] = "loop"
  /\ ~stop
  /\ tasks = <<>>
  /\ pc' = [pc EXCEPT ![w] = "wait"]
  /\ UNCHANGED <<tasks, stop, cur, arg, fate, owner, joined>>

\* Mutant: a stopped worker returns without draining the queue.
WorkerReturn_Undrained(w) ==
  /\ pc[w] = "loop"
  /\ stop
  /\ pc' = [pc EXCEPT ![w] = "exited"]
  /\ UNCHANGED <<tasks, stop, cur, arg, fate, owner, joined>>

WorkerReturn(w) ==
  /\ pc[w] = "loop"
  /\ stop
  /\ tasks = <<>>
  /\ pc' = [pc EXCEPT ![w] = "exited"]
  /\ UNCHANGED <<tasks, stop, cur, arg, fate, owner, joined>>

\* Mutant: tasks.pop() is missing.
WorkerTake_NoPop(w) ==
  /\ pc[w] = "loop"
  /\ tasks # <<>>
  /\ cur' = [cur EXCEPT ![w] = Head(tasks)]
  /\ fate' = [fate EXCEPT ![Head(tasks)] = "running"]
  /\ pc' = [pc EXCEPT ![w] = "run"]
  /\ UNCHANGED <<tasks, stop, arg, owner, joined>>

WorkerTake(w) ==
  /\ pc[w] = "loop"
  /\ tasks # <<>>
  /\ cur' = [cur EXCEPT ![w] = Head(tasks)]
  /\ fate' = [fate EXCEPT ![Head(tasks)] = "running"]
  /\ tasks' = Tail(tasks)
  /\ pc' = [pc EXCEPT ![w] = "run"]
  /\ UNCHANGED <<stop, arg, owner, joined>>

\* task(): a packaged_task keeps its result or its exception in the future,
\* so a task that throws ends like one that returns.
WorkerDone(w) ==
  /\ pc[w] = "run"
  /\ fate' = [fate EXCEPT ![cur[w]] = "done"]
  /\ cur' = [cur EXCEPT ![w] = None]
  /\ pc' = [pc EXCEPT ![w] = "loop"]
  /\ UNCHANGED <<tasks, stop, arg, owner, joined>>

\* condition.wait may return from its inner wait without a notification.
SpuriousWakeup(w) ==
  /\ pc[w] = "wait"
  /\ pc' = [pc EXCEPT ![w] = "loop"]
  /\ UNCHANGED <<tasks, stop, cur, arg, fate, owner, joined>>

(***************************************************************************)
(* enqueue(): a client calls it while the pool is alive, a task while it   *)
(* runs.  What a thread does when the call is over:                        *)
(***************************************************************************)
Resume(t) == IF t \in Workers THEN "run" ELSE "idle"

\* make_shared<packaged_task> and get_future, before the mutex is taken.
EnqueueCall(t, x) ==
  /\ \/ t \in Clients /\ pc[t] = "idle" /\ owner = "alive"
     \/ t \in Workers /\ pc[t] = "run"
  /\ fate[x] = "new"
  /\ fate' = [fate EXCEPT ![x] = "made"]
  /\ arg' = [arg EXCEPT ![t] = x]
  /\ pc' = [pc EXCEPT ![t] = "enqueue"]
  /\ UNCHANGED <<tasks, stop, cur, owner, joined>>

EnqueueThrow(t) ==
  /\ pc[t] = "enqueue"
  /\ stop
  /\ fate' = [fate EXCEPT ![arg[t]] = "refused"]
  /\ arg' = [arg EXCEPT ![t] = None]
  /\ pc' = [pc EXCEPT ![t] = Resume(t)]
  /\ UNCHANGED <<tasks, stop, cur, owner, joined>>

\* Mutant: enqueue() does not look at `stop'.
EnqueuePush_IgnoresStop(t) ==
  /\ pc[t] = "enqueue"
  /\ tasks' = Append(tasks, arg[t])
  /\ fate' = [fate EXCEPT ![arg[t]] = "queued"]
  /\ arg' = [arg EXCEPT ![t] = None]
  /\ pc' = [pc EXCEPT ![t] = "notify"]
  /\ UNCHANGED <<stop, cur, owner, joined>>

\* Mutant: notify_one() is missing.
EnqueuePush_NoNotify(t) ==
  /\ pc[t] = "enqueue"
  /\ ~stop
  /\ tasks' = Append(tasks, arg[t])
  /\ fate' = [fate EXCEPT ![arg[t]] = "queued"]
  /\ arg' = [arg EXCEPT ![t] = None]
  /\ pc' = [pc EXCEPT ![t] = Resume(t)]
  /\ UNCHANGED <<stop, cur, owner, joined>>

EnqueuePush(t) ==
  /\ pc[t] = "enqueue"
  /\ ~stop
  /\ tasks' = Append(tasks, arg[t])
  /\ fate' = [fate EXCEPT ![arg[t]] = "queued"]
  /\ arg' = [arg EXCEPT ![t] = None]
  /\ pc' = [pc EXCEPT ![t] = "notify"]
  /\ UNCHANGED <<stop, cur, owner, joined>>

\* The workers blocked on `condition'.
Waiting == {w \in Workers : pc[w] = "wait"}

NotifyOne(t) ==
  /\ pc[t] = "notify"
  /\ \/ /\ Waiting = {}
        /\ pc' = [pc EXCEPT ![t] = Resume(t)]
     \/ \E w \in Waiting :
          pc' = [pc EXCEPT ![t] = Resume(t), ![w] = "loop"]
  /\ UNCHANGED <<tasks, stop, cur, arg, fate, owner, joined>>

(***************************************************************************)
(* ~ThreadPool().  The owner calls it when no client is inside enqueue()   *)
(* (a C++ object must not be destroyed under a call from outside); running *)
(* tasks may be, and may call it later.                                    *)
(***************************************************************************)
DestructorStop ==
  /\ owner = "alive"
  /\ \A c \in Clients : pc[c] = "idle"
  /\ stop' = TRUE
  /\ owner' = "notifyAll"
  /\ UNCHANGED <<tasks, pc, cur, arg, fate, joined>>

\* Mutant: the destructor calls notify_one().
NotifyAll_NotifiesOne ==
  /\ owner = "notifyAll"
  /\ \/ Waiting = {} /\ UNCHANGED pc
     \/ \E w \in Waiting : pc' = [pc EXCEPT ![w] = "loop"]
  /\ owner' = "join"
  /\ UNCHANGED <<tasks, stop, cur, arg, fate, joined>>

NotifyAll ==
  /\ owner = "notifyAll"
  /\ pc' = [t \in Threads |-> IF t \in Waiting THEN "loop" ELSE pc[t]]
  /\ owner' = "join"
  /\ UNCHANGED <<tasks, stop, cur, arg, fate, joined>>

\* worker.join() for each worker, in the order of the vector.
Join ==
  /\ owner = "join"
  /\ joined < N
  /\ pc[joined + 1] = "exited"
  /\ joined' = joined + 1
  /\ UNCHANGED <<tasks, stop, pc, cur, arg, fate, owner>>

\* The destructor's body is over and the members are destroyed.
Destroyed ==
  /\ owner = "join"
  /\ joined = N
  /\ owner' = "destroyed"
  /\ UNCHANGED <<tasks, stop, pc, cur, arg, fate, joined>>

-----------------------------------------------------------------------------
WorkerStep(w) ==
  \/ WorkerWait(w)
  \/ WorkerReturn(w)
  \/ WorkerTake(w)
  \/ WorkerDone(w)

EnqueueStep(t) ==
  \/ EnqueueThrow(t)
  \/ EnqueuePush(t)
  \/ NotifyOne(t)

OwnerStep ==
  \/ Launch
  \/ Constructed
  \/ NotifyAll
  \/ Join
  \/ Destroyed

Next ==
  \/ \E w \in Workers : WorkerStep(w) \/ SpuriousWakeup(w)
  \/ \E t \in Threads : EnqueueStep(t) \/ \E x \in Tasks : EnqueueCall(t, x)
  \/ OwnerStep
  \/ DestructorStop

Spec == Init /\ [][Next]_vars

(***************************************************************************)
(* A thread that can run does (the kernel schedules every runnable thread, *)
(* and queue_mutex is held for a few instructions only) and every task     *)
(* returns.  Nobody has to call enqueue() or destroy the pool, and nothing *)
(* is assumed of spurious wakeups.                                         *)
(***************************************************************************)
Fairness ==
  /\ \A w \in Workers : WF_vars(WorkerStep(w))
  /\ \A t \in Threads : WF_vars(EnqueueStep(t))
  /\ WF_vars(OwnerStep)

FairSpec == Spec /\ Fairness

-----------------------------------------------------------------------------
TypeOK ==
  /\ tasks \in Seq(Tasks)
  /\ stop \in BOOLEAN
  /\ pc \in [Threads -> WorkerPC \cup ClientPC]
  /\ cur \in [Workers -> Tasks \cup {None}]
  /\ arg \in [Threads -> Tasks \cup {None}]
  /\ fate \in [Tasks -> Fates]
  /\ owner \in OwnerPC
  /\ joined \in 0..N

Notifying == {t \in Threads : pc[t] = "notify"}
Awake     == {w \in Workers : pc[w] = "loop"}

(***************************************************************************)
(* No lost wakeup: while a worker is blocked on `condition', every task in *)
(* the queue has a worker on its way to take it or a thread on its way to  *)
(* notify_one -- although the push and the notification are two steps and  *)
(* a woken worker may find the queue emptied by another.                   *)
(***************************************************************************)
NoLostWakeup ==
  Waiting # {} => Len(tasks) <= Cardinality(Awake) + Cardinality(Notifying)

(***************************************************************************)
(* A task is in one place: in the queue once, with one worker, or with the *)
(* thread that is enqueueing it, and its future agrees.                    *)
(***************************************************************************)
OnePlace ==
  /\ \A i, j \in DOMAIN tasks : tasks[i] = tasks[j] => i = j
  /\ \A v, w \in Workers : cur[v] = cur[w] /\ cur[v] # None => v = w
  /\ \A s, t \in Threads : arg[s] = arg[t] /\ arg[s] # None => s = t
  /\ \A x \in Tasks :
       /\ fate[x] = "queued"  <=> \E i \in DOMAIN tasks : tasks[i] = x
       /\ fate[x] = "running" <=> \E w \in Workers : cur[w] = x
       /\ fate[x] = "made"    <=> \E t \in Threads : arg[t] = x

(***************************************************************************)
(* The destructor drains: once a worker has returned the pool is stopped   *)
(* and its queue is empty for good, and when the members are destroyed     *)
(* every task that enqueue() accepted has run to its end and no thread is  *)
(* inside the pool (a nested enqueue() of a running task included).        *)
(***************************************************************************)
DestructorDrains ==
  /\ (\E w \in Workers : pc[w] = "exited") => stop /\ tasks = <<>>
  /\ owner = "destroyed" =>
       /\ \A x \in Tasks : fate[x] \in {"new", "done", "refused"}
       /\ \A t \in Threads : pc[t] \in {"exited", "idle"}

(***************************************************************************)
(* What the destructor's stages guarantee: nothing stops the pool but the  *)
(* destructor, which finds no client inside enqueue() and meets none       *)
(* later; after notify_all no worker is blocked or will ever block again;  *)
(* a joined worker has returned.                                           *)
(***************************************************************************)
Stopping == owner \in {"notifyAll", "join", "destroyed"}

Stages ==
  /\ stop <=> Stopping
  /\ Stopping => \A c \in Clients : pc[c] = "idle"
  /\ owner \in {"join", "destroyed"} =>
       /\ Waiting = {}
       /\ \A w \in 1..joined : pc[w] = "exited"
  /\ owner = "destroyed" => joined = N
  /\ owner \in {"alive", "notifyAll"} => joined = 0

\* Every accepted task eventually runs to its end, stopped pool or not.
AcceptedTasksFinish ==
  \A x \in Tasks : fate[x] = "queued" ~> fate[x] = "done"

(***************************************************************************)
(* The pool implements the abstract TaskPool.                              *)
(***************************************************************************)
Abstract == INSTANCE TaskPool WITH
  backlog  <- tasks,
  active   <- {x \in Tasks : fate[x] = "running"},
  finished <- {x \in Tasks : fate[x] = "done"},
  phase    <- IF owner = "destroyed" THEN "closed"
              ELSE IF stop THEN "closing" ELSE "open"

\* Tasks start in FIFO order, run once, and none that was accepted is left
\* when ~ThreadPool() is over: the pool's steps are steps of TaskPool.
ImplementsTaskPool == Abstract!Spec

\* ~ThreadPool() returns: no worker sleeps through notify_all.
DestructorReturns == stop ~> owner = "destroyed"
=============================================================================
