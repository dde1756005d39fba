-------------------------- MODULE ThreadPoolProofs --------------------------
(***************************************************************************)
(* Proofs about ThreadPool for every number of workers, every finite set   *)
(* of clients and every set of tasks.                                      *)
(***************************************************************************)
EXTENDS ThreadPool, FiniteSetTheorems, SequenceTheorems, TLAPS

\* The variables that say where a thread is agree with the task it holds.
Holding ==
  /\ \A c \in Clients : pc[c] \in ClientPC
  /\ \A w \in Workers : pc[w] \in WorkerPC
  /\ \A t \in Threads : arg[t] # None <=> pc[t] = "enqueue"
  /\ \A w \in Workers :
       /\ cur[w] # None <=> pc[w] \in {"run", "enqueue", "notify"}
       /\ pc[w] = "unborn" <=> owner = "constructing" /\ joined < w

\* A worker returns only from a stopped and drained pool.
ReturnsDrained ==
  \A w \in Workers : pc[w] = "exited" => stop /\ tasks = <<>>

IndInv == TypeOK /\ Holding /\ Stages /\ OnePlace /\ ReturnsDrained

-----------------------------------------------------------------------------
(***************************************************************************)
(* TypeOK is inductive together with Holding: the task a step writes into  *)
(* fate is one that the thread holds.                                      *)
(***************************************************************************)
LEMMA TypeInit == Init => TypeOK /\ Holding
  <1> USE NAssumption, ClientsAssumption, NoneAssumption
      DEF Init, Workers, Threads, WorkerPC, ClientPC, OwnerPC, Fates
  <1>1. Init => TypeOK
    <2> SUFFICES ASSUME Init PROVE TypeOK
      OBVIOUS
    <2>1. tasks \in Seq(Tasks)
      BY EmptySeq
    <2>2. pc \in [Threads -> WorkerPC \cup ClientPC]
      OBVIOUS
    <2>3. cur \in [Workers -> Tasks \cup {None}] /\ arg \in [Threads -> Tasks \cup {None}]
      OBVIOUS
    <2>4. fate \in [Tasks -> Fates] /\ owner \in OwnerPC /\ joined \in 0..N
      OBVIOUS
    <2>5. stop \in BOOLEAN
      OBVIOUS
    <2>6. QED BY <2>1, <2>2, <2>3, <2>4, <2>5 DEF TypeOK
  <1>2. Init => Holding
    BY DEF Holding
  <1>3. QED BY <1>1, <1>2

LEMMA TypeStep == TypeOK /\ Holding /\ [Next]_vars => TypeOK' /\ Holding'
  <1> SUFFICES ASSUME TypeOK, Holding, [Next]_vars
               PROVE  TypeOK' /\ Holding'
    OBVIOUS
  <1> USE NAssumption, ClientsAssumption, NoneAssumption
      DEF TypeOK, Holding, Workers, Threads, WorkerPC, ClientPC, OwnerPC, Fates
  <1>1. CASE Launch
    <2>1. joined + 1 \in Workers /\ pc[joined + 1] = "unborn"
      BY <1>1 DEF Launch
    <2>2. QED BY <1>1, <2>1 DEF Launch
  <1>2. CASE Constructed
    BY <1>2 DEF Constructed
  <1>3. ASSUME NEW w \in Workers, WorkerWait(w) PROVE TypeOK' /\ Holding'
    BY <1>3 DEF WorkerWait
  <1>4. ASSUME NEW w \in Workers, WorkerReturn(w) PROVE TypeOK' /\ Holding'
    BY <1>4 DEF WorkerReturn
  <1>5. ASSUME NEW w \in Workers, WorkerTake(w) PROVE TypeOK' /\ Holding'
    <2>1. Head(tasks) \in Tasks /\ Tail(tasks) \in Seq(Tasks)
      BY <1>5, HeadTailProperties DEF WorkerTake
    <2>2. QED BY <1>5, <2>1 DEF WorkerTake
  <1>6. ASSUME NEW w \in Workers, WorkerDone(w) PROVE TypeOK' /\ Holding'
    BY <1>6 DEF WorkerDone
  <1>7. ASSUME NEW w \in Workers, SpuriousWakeup(w) PROVE TypeOK' /\ Holding'
    BY <1>7 DEF SpuriousWakeup
  <1>8. ASSUME NEW t \in Threads, NEW x \in Tasks, EnqueueCall(t, x)
        PROVE  TypeOK' /\ Holding'
    BY <1>8 DEF EnqueueCall
  <1>9. ASSUME NEW t \in Threads, EnqueueThrow(t) PROVE TypeOK' /\ Holding'
    BY <1>9 DEF EnqueueThrow, Resume
  <1>10. ASSUME NEW t \in Threads, EnqueuePush(t) PROVE TypeOK' /\ Holding'
    <2>1. arg[t] \in Tasks
      BY <1>10 DEF EnqueuePush
    <2>2. tasks' \in Seq(Tasks)
      BY <1>10, <2>1 DEF EnqueuePush
    <2>3. QED BY <1>10, <2>1, <2>2 DEF EnqueuePush
  <1>11. ASSUME NEW t \in Threads, NotifyOne(t) PROVE TypeOK' /\ Holding'
    <2>1. CASE pc' = [pc EXCEPT ![t] = Resume(t)]
      BY <1>11, <2>1 DEF NotifyOne, Resume
    <2>2. ASSUME NEW w \in Waiting, pc' = [pc EXCEPT ![t] = Resume(t), ![w] = "loop"]
          PROVE  TypeOK' /\ Holding'
      <3>1. w \in Workers /\ w # t /\ pc[w] = "wait"
        BY <1>11, <2>2 DEF NotifyOne, Waiting
      <3>2. /\ pc' \in [Threads -> WorkerPC \cup ClientPC]
            /\ \A s \in Threads :
                 pc'[s] = IF s = w THEN "loop"
                          ELSE IF s = t THEN Resume(t) ELSE pc[s]
        BY <2>2, <3>1 DEF Resume
      <3>3. pc[t] = "notify" /\ UNCHANGED <<tasks, stop, cur, arg, fate, owner, joined>>
        BY <1>11 DEF NotifyOne
      <3>4. TypeOK'
        BY <3>2, <3>3
      <3>5. \A c \in Clients : pc'[c] \in ClientPC
        BY <3>1, <3>2, <3>3 DEF Resume
      <3>6. \A s \in Threads : arg'[s] # None <=> pc'[s] = "enqueue"
        BY <3>1, <3>2, <3>3 DEF Resume
      <3>7. ASSUME NEW v \in Workers
            PROVE  /\ pc'[v] \in WorkerPC
                   /\ cur'[v] # None <=> pc'[v] \in {"run", "enqueue", "notify"}
                   /\ pc'[v] = "unborn" <=> owner' = "constructing" /\ joined' < v
        BY <3>1, <3>2, <3>3 DEF Resume
      <3>8. QED BY <3>4, <3>5, <3>6, <3>7
    <2>3. QED BY <1>11, <2>1, <2>2 DEF NotifyOne
  <1>12. CASE DestructorStop
    BY <1>12 DEF DestructorStop
  <1>13. CASE NotifyAll
    BY <1>13 DEF NotifyAll, Waiting
  <1>14. CASE Join
    BY <1>14 DEF Join
  <1>15. CASE Destroyed
    BY <1>15 DEF Destroyed
  <1>16. CASE UNCHANGED vars
    BY <1>16 DEF vars
  <1>17. QED
    BY <1>1, <1>2, <1>3, <1>4, <1>5, <1>6, <1>7, <1>8, <1>9, <1>10, <1>11,
       <1>12, <1>13, <1>14, <1>15, <1>16
    DEF Next, WorkerStep, EnqueueStep, OwnerStep

\* The type invariant of the pool, for every number of threads and tasks.
THEOREM TypeCorrect == Spec => []TypeOK
  <1>1. Spec => [](TypeOK /\ Holding)
    BY TypeInit, TypeStep, PTL DEF Spec
  <1>2. QED BY <1>1, PTL

-----------------------------------------------------------------------------
(***************************************************************************)
(* The destructor's stages.  Stages and ReturnsDrained support each other: *)
(* a worker that returned found the pool stopped, and a stopped pool       *)
(* accepts nothing more, so its queue stays empty.                         *)
(***************************************************************************)
LEMMA StagesInit == Init => Stages /\ ReturnsDrained
  BY NAssumption DEF Init, Stages, Stopping, ReturnsDrained, Waiting, Workers, Threads

LEMMA StagesStep ==
  TypeOK /\ Holding /\ Stages /\ ReturnsDrained /\ [Next]_vars
    => Stages' /\ ReturnsDrained'
  <1> SUFFICES ASSUME TypeOK, Holding, Stages, ReturnsDrained, [Next]_vars
               PROVE  Stages' /\ ReturnsDrained'
    OBVIOUS
  <1> USE NAssumption, ClientsAssumption
      DEF TypeOK, Holding, Stages, Stopping, ReturnsDrained, Waiting,
          Workers, Threads, WorkerPC, ClientPC, OwnerPC
  <1>1. CASE Launch
    <2>1. joined + 1 \in Workers /\ pc[joined + 1] = "unborn"
      BY <1>1 DEF Launch
    <2>2. QED BY <1>1, <2>1 DEF Launch
  <1>2. CASE Constructed
    BY <1>2 DEF Constructed
  <1>3. ASSUME NEW w \in Workers, WorkerWait(w) PROVE Stages' /\ ReturnsDrained'
    BY <1>3 DEF WorkerWait
  <1>4. ASSUME NEW w \in Workers, WorkerReturn(w) PROVE Stages' /\ ReturnsDrained'
    BY <1>4 DEF WorkerReturn
  <1>5. ASSUME NEW w \in Workers, WorkerTake(w) PROVE Stages' /\ ReturnsDrained'
    BY <1>5 DEF WorkerTake
  <1>6. ASSUME NEW w \in Workers, WorkerDone(w) PROVE Stages' /\ ReturnsDrained'
    BY <1>6 DEF WorkerDone
  <1>7. ASSUME NEW w \in Workers, SpuriousWakeup(w) PROVE Stages' /\ ReturnsDrained'
    BY <1>7 DEF SpuriousWakeup
  <1>8. ASSUME NEW t \in Threads, NEW x \in Tasks, EnqueueCall(t, x)
        PROVE  Stages' /\ ReturnsDrained'
    BY <1>8 DEF EnqueueCall
  <1>9. ASSUME NEW t \in Threads, EnqueueThrow(t) PROVE Stages' /\ ReturnsDrained'
    BY <1>9 DEF EnqueueThrow, Resume
  <1>10. ASSUME NEW t \in Threads, EnqueuePush(t) PROVE Stages' /\ ReturnsDrained'
    BY <1>10 DEF EnqueuePush
  <1>11. ASSUME NEW t \in Threads, NotifyOne(t) PROVE Stages' /\ ReturnsDrained'
    <2>1. CASE pc' = [pc EXCEPT ![t] = Resume(t)]
      BY <1>11, <2>1 DEF NotifyOne, Resume
    <2>2. ASSUME NEW w \in Waiting, pc' = [pc EXCEPT ![t] = Resume(t), ![w] = "loop"]
          PROVE  Stages' /\ ReturnsDrained'
      <3>1. w \in Workers /\ w # t /\ pc[w] = "wait"
        BY <1>11, <2>2 DEF NotifyOne
      <3>2. QED BY <1>11, <2>2, <3>1 DEF NotifyOne, Resume
    <2>3. QED BY <1>11, <2>1, <2>2 DEF NotifyOne
  <1>12. CASE DestructorStop
    BY <1>12 DEF DestructorStop
  <1>13. CASE NotifyAll
    BY <1>13 DEF NotifyAll
  <1>14. CASE Join
    BY <1>14 DEF Join
  <1>15. CASE Destroyed
    BY <1>15 DEF Destroyed
  <1>16. CASE UNCHANGED vars
    BY <1>16 DEF vars
  <1>17. QED
    BY <1>1, <1>2, <1>3, <1>4, <1>5, <1>6, <1>7, <1>8, <1>9, <1>10, <1>11,
       <1>12, <1>13, <1>14, <1>15, <1>16
    DEF Next, WorkerStep, EnqueueStep, OwnerStep

-----------------------------------------------------------------------------
(***************************************************************************)
(* A task is in one place.  A step moves at most one task, from the place  *)
(* that Holding and OnePlace say it is in.                                 *)
(***************************************************************************)
LEMMA PlaceInit == Init => OnePlace
  BY NoneAssumption DEF Init, OnePlace, Workers, Threads

LEMMA PlaceStep == TypeOK /\ Holding /\ OnePlace /\ [Next]_vars => OnePlace'
  <1> SUFFICES ASSUME TypeOK, Holding, OnePlace, [Next]_vars
               PROVE  OnePlace'
    OBVIOUS
  <1> USE NoneAssumption DEF TypeOK, Holding, OnePlace, Fates
  <1>1. CASE UNCHANGED <<tasks, cur, arg, fate>>
    BY <1>1
  <1>2. ASSUME NEW w \in Workers, WorkerTake(w) PROVE OnePlace'
    <2> DEFINE h == Head(tasks)
    <2>1. /\ tasks # <<>> /\ Len(tasks) \in Nat \ {0}
          /\ DOMAIN tasks = 1..Len(tasks)
          /\ h = tasks[1] /\ h \in Tasks
      BY <1>2, LenProperties, EmptySeq DEF WorkerTake
    <2>2. /\ DOMAIN tasks' = 1..(Len(tasks) - 1)
          /\ \A i \in DOMAIN tasks' : tasks'[i] = tasks[i + 1]
      BY <1>2, <2>1, HeadTailProperties, LenProperties DEF WorkerTake
    <2>3. cur[w] = None /\ fate[h] = "queued" /\ \A v \in Workers : cur[v] # h
      BY <1>2, <2>1 DEF WorkerTake
    <2>4. \A i, j \in DOMAIN tasks' : tasks'[i] = tasks'[j] => i = j
      BY <2>1, <2>2
    <2>5. \A x \in Tasks : (\E i \in DOMAIN tasks' : tasks'[i] = x)
                              <=> x # h /\ \E i \in DOMAIN tasks : tasks[i] = x
      <3> SUFFICES ASSUME NEW x \in Tasks
                   PROVE  (\E i \in DOMAIN tasks' : tasks'[i] = x)
                              <=> x # h /\ \E i \in DOMAIN tasks : tasks[i] = x
        OBVIOUS
      <3>1. ASSUME NEW i \in DOMAIN tasks', tasks'[i] = x
            PROVE  x # h /\ \E k \in DOMAIN tasks : tasks[k] = x
        <4>1. i + 1 \in DOMAIN tasks /\ i + 1 # 1 /\ 1 \in DOMAIN tasks /\ tasks[i + 1] = x
          BY <2>1, <2>2, <3>1
        <4>2. QED BY <2>1, <4>1
      <3>2. ASSUME x # h, NEW i \in DOMAIN tasks, tasks[i] = x
            PROVE  \E k \in DOMAIN tasks' : tasks'[k] = x
        <4>1. i - 1 \in DOMAIN tasks' /\ tasks'[i - 1] = x
          BY <2>1, <2>2, <3>2
        <4>2. QED BY <4>1
      <3>3. QED BY <3>1, <3>2
    <2>6. /\ cur' = [cur EXCEPT ![w] = h] /\ arg' = arg
          /\ fate' = [fate EXCEPT ![h] = "running"]
      BY <1>2 DEF WorkerTake
    <2>7. \A u, v \in Workers : cur'[u] = cur'[v] /\ cur'[u] # None => u = v
      BY <2>3, <2>6
    <2>8. ASSUME NEW x \in Tasks
          PROVE  /\ fate'[x] = "queued"  <=> \E i \in DOMAIN tasks' : tasks'[i] = x
                 /\ fate'[x] = "running" <=> \E v \in Workers : cur'[v] = x
                 /\ fate'[x] = "made"    <=> \E t \in Threads : arg'[t] = x
      <3>1. fate'[x] = "queued"  <=> \E i \in DOMAIN tasks' : tasks'[i] = x
        BY <2>1, <2>5, <2>6
      <3>2. fate'[x] = "running" <=> \E v \in Workers : cur'[v] = x
        BY <2>1, <2>3, <2>6
      <3>3. fate'[x] = "made"    <=> \E t \in Threads : arg'[t] = x
        BY <2>1, <2>3, <2>6
      <3>4. QED BY <3>1, <3>2, <3>3
    <2>9. QED BY <2>4, <2>6, <2>7, <2>8
  <1>3. ASSUME NEW w \in Workers, WorkerDone(w) PROVE OnePlace'
    BY <1>3 DEF WorkerDone
  <1>4. ASSUME NEW t \in Threads, NEW x \in Tasks, EnqueueCall(t, x) PROVE OnePlace'
    BY <1>4 DEF EnqueueCall, Threads
  <1>5. ASSUME NEW t \in Threads, EnqueueThrow(t) PROVE OnePlace'
    BY <1>5 DEF EnqueueThrow
  <1>6. ASSUME NEW t \in Threads, EnqueuePush(t) PROVE OnePlace'
    <2> DEFINE n == Len(tasks)
    <2>1. arg[t] \in Tasks /\ fate[arg[t]] = "made"
      BY <1>6 DEF EnqueuePush
    <2>2. /\ n \in Nat /\ DOMAIN tasks = 1..n
          /\ DOMAIN tasks' = 1..(n + 1)
          /\ tasks'[n + 1] = arg[t]
          /\ \A i \in 1..n : tasks'[i] = tasks[i]
      BY <1>6, <2>1, LenProperties DEF EnqueuePush
    <2>3. \A i \in 1..n : tasks[i] # arg[t]
      BY <2>1, <2>2
    <2>4. \A i, j \in DOMAIN tasks' : tasks'[i] = tasks'[j] => i = j
      BY <2>2, <2>3
    <2>5. \A x \in Tasks : (\E i \in DOMAIN tasks' : tasks'[i] = x)
                              <=> x = arg[t] \/ \E i \in DOMAIN tasks : tasks[i] = x
      BY <2>2
    <2>6. /\ cur' = cur /\ arg' = [arg EXCEPT ![t] = None]
          /\ fate' = [fate EXCEPT ![arg[t]] = "queued"]
      BY <1>6 DEF EnqueuePush
    <2>7. ASSUME NEW x \in Tasks
          PROVE  /\ fate'[x] = "queued"  <=> \E i \in DOMAIN tasks' : tasks'[i] = x
                 /\ fate'[x] = "running" <=> \E v \in Workers : cur'[v] = x
                 /\ fate'[x] = "made"    <=> \E s \in Threads : arg'[s] = x
      <3>1. fate'[x] = "queued"  <=> \E i \in DOMAIN tasks' : tasks'[i] = x
        BY <2>1, <2>5, <2>6
      <3>2. fate'[x] = "running" <=> \E v \in Workers : cur'[v] = x
        BY <2>1, <2>6
      <3>3. fate'[x] = "made"    <=> \E s \in Threads : arg'[s] = x
        BY <2>1, <2>6
      <3>4. QED BY <3>1, <3>2, <3>3
    <2>8. QED BY <2>4, <2>6, <2>7
  <1>7. QED
    BY <1>1, <1>2, <1>3, <1>4, <1>5, <1>6
    DEF Next, WorkerStep, EnqueueStep, OwnerStep, vars, Launch, Constructed,
        WorkerWait, WorkerReturn, SpuriousWakeup, NotifyOne, DestructorStop,
        NotifyAll, Join, Destroyed

-----------------------------------------------------------------------------
LEMMA IndInvHolds == Spec => []IndInv
  <1>1. Init => IndInv
    BY TypeInit, StagesInit, PlaceInit DEF IndInv
  <1>2. IndInv /\ [Next]_vars => IndInv'
    BY TypeStep, StagesStep, PlaceStep DEF IndInv
  <1>3. QED BY <1>1, <1>2, PTL DEF Spec

\* Every task is in the queue once, with one worker or with one caller, and
\* its future agrees: nothing is lost, duplicated or run twice.
THEOREM TasksInOnePlace == Spec => []OnePlace
  BY IndInvHolds, PTL DEF IndInv

\* The destructor's stages hold in every reachable state.
THEOREM DestructorStages == Spec => []Stages
  BY IndInvHolds, PTL DEF IndInv

\* ~ThreadPool() leaves no accepted task behind and no thread inside.
THEOREM DestructorDrainsPool == Spec => []DestructorDrains
  <1>1. IndInv => DestructorDrains
    <2> SUFFICES ASSUME IndInv PROVE DestructorDrains
      OBVIOUS
    <2> USE DEF IndInv, TypeOK, Holding, Stages, Stopping, ReturnsDrained
    <2>1. (\E w \in Workers : pc[w] = "exited") => stop /\ tasks = <<>>
      OBVIOUS
    <2>2. ASSUME owner = "destroyed"
          PROVE  /\ \A x \in Tasks : fate[x] \in {"new", "done", "refused"}
                 /\ \A t \in Threads : pc[t] \in {"exited", "idle"}
      <3>1. \A w \in Workers : pc[w] = "exited"
        BY <2>2 DEF Workers
      <3>2. \A t \in Threads : pc[t] \in {"exited", "idle"}
        BY <2>2, <3>1 DEF Threads
      <3>3. tasks = <<>>
        BY <3>1, NAssumption DEF Workers
      <3>4. /\ \A w \in Workers : cur[w] = None
            /\ \A t \in Threads : arg[t] = None
        BY <3>1, <3>2
      <3>5. \A x \in Tasks : fate[x] \notin {"queued", "running", "made"}
        BY <3>3, <3>4, NoneAssumption DEF OnePlace
      <3>6. QED BY <3>2, <3>5 DEF Fates
    <2>3. QED BY <2>1, <2>2 DEF DestructorDrains
  <1>2. QED BY <1>1, IndInvHolds, PTL

-----------------------------------------------------------------------------
(***************************************************************************)
(* No lost wakeup.  Every step that lowers the number of awake workers or  *)
(* of pending notifications finds an empty queue, takes a task from it, or *)
(* turns one into the other.                                               *)
(***************************************************************************)
LEMMA ThreadsFinite == IsFiniteSet(Workers) /\ IsFiniteSet(Threads)
  <1>1. IsFiniteSet(Workers)
    BY NAssumption, FS_Interval DEF Workers
  <1>2. IsFiniteSet(Threads)
    BY <1>1, ClientsAssumption, FS_Union DEF Threads
  <1>3. QED BY <1>1, <1>2

LEMMA WakeupStep ==
  TypeOK /\ Holding /\ NoLostWakeup /\ [Next]_vars => NoLostWakeup'
  <1> SUFFICES ASSUME TypeOK, Holding, NoLostWakeup, [Next]_vars
               PROVE  NoLostWakeup'
    OBVIOUS
  <1> DEFINE A == Cardinality(Awake)
             M == Cardinality(Notifying)
             n == Len(tasks)
  <1>0. /\ A \in Nat /\ M \in Nat /\ A' \in Nat /\ M' \in Nat
        /\ IsFiniteSet(Awake) /\ IsFiniteSet(Notifying)
        /\ IsFiniteSet(Awake') /\ IsFiniteSet(Notifying')
        /\ n \in Nat
    <2>1. /\ Awake \in SUBSET Workers /\ Awake' \in SUBSET Workers
          /\ Notifying \in SUBSET Threads /\ Notifying' \in SUBSET Threads
      BY DEF Awake, Notifying
    <2>2. /\ IsFiniteSet(Awake) /\ IsFiniteSet(Notifying)
          /\ IsFiniteSet(Awake') /\ IsFiniteSet(Notifying')
      BY <2>1, ThreadsFinite, FS_Subset
    <2>3. n \in Nat
      BY LenProperties DEF TypeOK
    <2>4. QED BY <2>2, <2>3, FS_CardinalityType
  <1>W. Workers \subseteq Threads
    BY DEF Threads
  \* Nobody leaves Awake or Notifying and the queue does not grow.
  <1>1. ASSUME Awake \subseteq Awake', Notifying \subseteq Notifying',
               Waiting' \subseteq Waiting, tasks' = tasks
        PROVE  NoLostWakeup'
    <2>1. A <= A' /\ M <= M'
      BY <1>0, <1>1, FS_Subset
    <2>2. QED BY <1>0, <1>1, <2>1 DEF NoLostWakeup
  <1>2. ASSUME tasks' = <<>> PROVE NoLostWakeup'
    <2>1. Len(tasks') = 0
      BY <1>2
    <2>2. QED BY <1>0, <2>1 DEF NoLostWakeup
  <1>3. ASSUME Waiting' = {} PROVE NoLostWakeup'
    BY <1>3 DEF NoLostWakeup
  <1>4. CASE Launch
    <2>1. joined + 1 \in Workers /\ pc[joined + 1] = "unborn"
      BY <1>4, NAssumption DEF Launch, TypeOK, Holding, Workers
    <2>2. QED
      BY <1>1, <1>4, <1>W, <2>1 DEF Launch, TypeOK, Awake, Notifying, Waiting
  <1>5. ASSUME NEW w \in Workers, WorkerWait(w) \/ WorkerReturn(w)
        PROVE  NoLostWakeup'
    BY <1>2, <1>5 DEF WorkerWait, WorkerReturn
  <1>6. ASSUME NEW w \in Workers, WorkerTake(w) PROVE NoLostWakeup'
    <2>1. Awake' = Awake \ {w} /\ w \in Awake
      BY <1>6, <1>W DEF WorkerTake, TypeOK, Awake
    <2>2. Notifying' = Notifying /\ Waiting' = Waiting
      BY <1>6, <1>W DEF WorkerTake, TypeOK, Notifying, Waiting
    <2>3. A' = A - 1 /\ M' = M
      BY <1>0, <2>1, <2>2, FS_RemoveElement
    <2>4. Len(tasks') = n - 1
      BY <1>6, HeadTailProperties DEF WorkerTake, TypeOK
    <2>5. QED BY <1>0, <2>2, <2>3, <2>4 DEF NoLostWakeup
  <1>7. ASSUME NEW w \in Workers, WorkerDone(w) \/ SpuriousWakeup(w)
        PROVE  NoLostWakeup'
    BY <1>1, <1>7, <1>W
    DEF WorkerDone, SpuriousWakeup, TypeOK, Awake, Notifying, Waiting
  <1>8. ASSUME NEW t \in Threads, NEW x \in Tasks, EnqueueCall(t, x)
        PROVE  NoLostWakeup'
    BY <1>1, <1>8, <1>W DEF EnqueueCall, TypeOK, Holding, ClientPC, Awake, Notifying, Waiting
  <1>9. ASSUME NEW t \in Threads, EnqueueThrow(t) PROVE NoLostWakeup'
    BY <1>1, <1>9, <1>W DEF EnqueueThrow, Resume, TypeOK, Awake, Notifying, Waiting
  <1>10. ASSUME NEW t \in Threads, EnqueuePush(t) PROVE NoLostWakeup'
    <2>1. Notifying' = Notifying \cup {t} /\ t \notin Notifying
      BY <1>10 DEF EnqueuePush, TypeOK, Notifying
    <2>2. Awake' = Awake /\ Waiting' = Waiting
      BY <1>10, <1>W DEF EnqueuePush, TypeOK, Awake, Waiting
    <2>3. A' = A /\ M' = M + 1
      BY <1>0, <2>1, <2>2, FS_AddElement
    <2>4. Len(tasks') = n + 1
      <3>1. arg[t] \in Tasks
        BY <1>10 DEF EnqueuePush, TypeOK, Holding
      <3>2. QED BY <1>10, <3>1 DEF EnqueuePush, TypeOK
    <2>5. QED BY <1>0, <2>2, <2>3, <2>4 DEF NoLostWakeup
  <1>11. ASSUME NEW t \in Threads, NotifyOne(t) PROVE NoLostWakeup'
    <2>1. CASE Waiting = {} /\ pc' = [pc EXCEPT ![t] = Resume(t)]
      <3>1. Waiting' = {}
        BY <2>1, <1>W DEF TypeOK, Waiting, Resume
      <3>2. QED BY <1>3, <3>1
    <2>2. ASSUME NEW w \in Waiting, pc' = [pc EXCEPT ![t] = Resume(t), ![w] = "loop"]
          PROVE  NoLostWakeup'
      <3>1. w \in Workers /\ w \in Threads /\ w # t /\ pc[w] = "wait" /\ pc[t] = "notify"
        BY <1>11, <1>W, <2>2 DEF NotifyOne, Waiting
      <3>2. \A s \in Threads :
               pc'[s] = IF s = w THEN "loop"
                        ELSE IF s = t THEN Resume(t) ELSE pc[s]
        BY <2>2, <3>1 DEF TypeOK
      <3>3. Awake' = Awake \cup {w} /\ w \notin Awake
        BY <1>W, <3>1, <3>2 DEF Awake, Resume
      <3>4. Notifying' = Notifying \ {t} /\ t \in Notifying
        BY <3>1, <3>2 DEF Notifying, Resume
      <3>5. Waiting' \subseteq Waiting
        BY <1>W, <3>1, <3>2 DEF Waiting, Resume
      <3>6. A' = A + 1
        BY <1>0, <3>3, FS_AddElement
      <3>7. M' = M - 1
        BY <1>0, <3>4, FS_RemoveElement
      <3>8. tasks' = tasks
        BY <1>11 DEF NotifyOne
      <3>9. QED BY <1>0, <3>5, <3>6, <3>7, <3>8 DEF NoLostWakeup
    <2>3. QED BY <1>11, <2>1, <2>2 DEF NotifyOne
  <1>12. CASE NotifyAll
    <2>1. Waiting' = {}
      BY <1>12, <1>W DEF NotifyAll, Waiting
    <2>2. QED BY <1>3, <2>1
  <1>13. CASE UNCHANGED <<pc, tasks>>
    BY <1>1, <1>13 DEF Awake, Notifying, Waiting
  <1>14. QED
    BY <1>4, <1>5, <1>6, <1>7, <1>8, <1>9, <1>10, <1>11, <1>12, <1>13
    DEF Next, WorkerStep, EnqueueStep, OwnerStep, vars, Constructed,
        DestructorStop, Join, Destroyed

\* While a worker sleeps, every queued task has a worker or a notification
\* on its way: the push and the notify_one of enqueue() need not be atomic.
THEOREM WakeupNeverLost == Spec => []NoLostWakeup
  <1>1. Init => NoLostWakeup
    <2>1. Init => Waiting = {}
      BY DEF Init, Waiting, Workers, Threads
    <2>2. QED BY <2>1 DEF NoLostWakeup
  <1>2. Spec => [](TypeOK /\ Holding)
    BY TypeInit, TypeStep, PTL DEF Spec
  <1>3. QED BY <1>1, <1>2, WakeupStep, PTL DEF Spec

-----------------------------------------------------------------------------
(***************************************************************************)
(* The pool implements the abstract task pool.                             *)
(***************************************************************************)
THEOREM Refinement == Spec => ImplementsTaskPool
  <1>1. Init => Abstract!Init
    BY DEF Init, Abstract!Init
  <1>2. IndInv /\ DestructorDrains' /\ [Next]_vars => [Abstract!Next]_(Abstract!poolVars)
    <2> SUFFICES ASSUME IndInv, DestructorDrains', [Next]_vars
                 PROVE  [Abstract!Next]_(Abstract!poolVars)
      OBVIOUS
    <2> USE NoneAssumption DEF IndInv, TypeOK, Abstract!poolVars, Fates
    <2>1. ASSUME NEW w \in Workers, WorkerTake(w) PROVE Abstract!Next
      <3>1. Head(tasks) \in Tasks /\ fate[Head(tasks)] = "queued"
        <4>1. /\ Head(tasks) \in Tasks
              /\ 1 \in DOMAIN tasks /\ Head(tasks) = tasks[1]
          BY <2>1, LenProperties, EmptySeq DEF WorkerTake
        <4>2. QED BY <4>1 DEF OnePlace
      <3>2. Abstract!Start
        BY <2>1, <3>1 DEF WorkerTake, Abstract!Start
      <3>3. QED BY <3>2 DEF Abstract!Next
    <2>2. ASSUME NEW w \in Workers, WorkerDone(w) PROVE Abstract!Next
      <3>1. PICK x \in Tasks : x = cur[w] /\ fate[x] = "running"
        BY <2>2 DEF WorkerDone, Holding, OnePlace
      <3>2. Abstract!Finish(x)
        BY <2>2, <3>1 DEF WorkerDone, Abstract!Finish
      <3>3. QED BY <3>1, <3>2 DEF Abstract!Next
    <2>3. ASSUME NEW t \in Threads, EnqueuePush(t) PROVE Abstract!Next
      <3>1. PICK x \in Tasks : x = arg[t] /\ fate[x] = "made"
        BY <2>3 DEF EnqueuePush, Holding, OnePlace
      <3>2. owner # "destroyed"
        BY <2>3 DEF EnqueuePush, Stages, Stopping
      <3>3. ~Abstract!Known(x)
        BY <3>1 DEF OnePlace, Abstract!Known
      <3>4. Abstract!Submit(x)
        BY <2>3, <3>1, <3>2, <3>3 DEF EnqueuePush, Abstract!Submit
      <3>5. QED BY <3>1, <3>4 DEF Abstract!Next
    <2>4. CASE DestructorStop
      <3>1. Abstract!Close
        BY <2>4 DEF DestructorStop, Abstract!Close, Stages, Stopping
      <3>2. QED BY <3>1 DEF Abstract!Next
    <2>5. CASE Destroyed
      <3>1. Abstract!Retire
        BY <2>5 DEF Destroyed, Abstract!Retire, Stages, Stopping,
                    DestructorDrains, OnePlace, Threads
      <3>2. QED BY <3>1 DEF Abstract!Next
    <2>6. ASSUME NEW t \in Threads, NEW x \in Tasks, EnqueueCall(t, x)
          PROVE  UNCHANGED Abstract!poolVars
      BY <2>6 DEF EnqueueCall
    <2>7. ASSUME NEW t \in Threads, EnqueueThrow(t)
          PROVE  UNCHANGED Abstract!poolVars
      <3>1. arg[t] \in Tasks /\ fate[arg[t]] = "made"
        BY <2>7 DEF EnqueueThrow, Holding, OnePlace
      <3>2. QED BY <2>7, <3>1 DEF EnqueueThrow
    <2>8. CASE UNCHANGED <<tasks, fate, stop>> /\ owner' # "destroyed" /\ owner # "destroyed"
      BY <2>8
    <2>9. CASE UNCHANGED <<tasks, fate, stop, owner>>
      BY <2>9
    <2>10. QED
      BY <2>1, <2>2, <2>3, <2>4, <2>5, <2>6, <2>7, <2>8, <2>9
      DEF Next, WorkerStep, EnqueueStep, OwnerStep, vars, Launch, Constructed,
          WorkerWait, WorkerReturn, SpuriousWakeup, NotifyOne, NotifyAll, Join
  <1>3. QED
    BY <1>1, <1>2, IndInvHolds, DestructorDrainsPool, PTL
    DEF Spec, ImplementsTaskPool, Abstract!Spec
=============================================================================
