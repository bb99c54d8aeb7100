----------------------- MODULE QueuedThreadPool_proof -----------------------
(***************************************************************************)
(* Theorems about the executor, for every set of tasks and threads and     *)
(* every size of the queue.                                                *)
(*                                                                         *)
(* NoStrandedTask is the reason why the queue is safe although workers     *)
(* leave by themselves: start() queues a task only while m_activeWorker-   *)
(* Count is positive, which means that a worker is there only because      *)
(* ActiveIsBusy holds.                                                     *)
(***************************************************************************)
EXTENDS QueuedThreadPool, FiniteSetTheorems, TLAPS

-----------------------------------------------------------------------------
(* The busy threads can be counted, and the count is zero only if there are  *)
(* none.                                                                     *)
LEMMA BusyCount ==
  ASSUME ExecutorAssumption
  PROVE  /\ IsFiniteSet(Busy) /\ Cardinality(Busy) \in Nat
         /\ (Cardinality(Busy) = 0) <=> (Busy = {})
<1>1. Busy \subseteq Thread BY DEF Busy
<1>2. IsFiniteSet(Busy) BY <1>1, FS_Subset DEF ExecutorAssumption
<1>3. QED BY <1>2, FS_CardinalityType, FS_EmptySet

(* A start on an idle thread makes one more thread busy and counts it.       *)
LEMMA StartOnThreadPreserves ==
  ASSUME ExecutorAssumption, ExecutorInv, NEW t \in Task, NEW th \in Thread,
         StartOnThread(t, th)
  PROVE  ExecutorInv'
<1> USE DEF ExecutorInv
<1>1. /\ at' = [at EXCEPT ![th] = "running"] /\ at[th] = "idle"
      /\ active' = active + 1 /\ queue' = queue
  BY DEF StartOnThread, Runs
<1>2. TypeOK'
  BY DEF TypeOK, StartOnThread, Runs, Goto, ExecutorAssumption
<1>3. Busy' = Busy \cup {th} /\ th \notin Busy
  BY <1>1 DEF Busy, TypeOK
<1>4. ActiveIsBusy'
  BY <1>1, <1>3, BusyCount, FS_AddElement DEF ActiveIsBusy
<1>5. NoStrandedTask'
  BY <1>3 DEF NoStrandedTask
<1>6. QED BY <1>2, <1>4, <1>5

(* A worker that leaves has seen the queue empty.                            *)
LEMMA GetNoTaskPreserves ==
  ASSUME ExecutorAssumption, ExecutorInv, NEW th \in Thread, GetNoTask(th)
  PROVE  ExecutorInv'
<1> USE DEF ExecutorInv
<1>1. /\ at' = [at EXCEPT ![th] = "leaving"] /\ at[th] = "fetching"
      /\ active' = active - 1 /\ queue' = queue /\ queue = << >>
  BY DEF GetNoTask
<1>2. th \in Busy /\ Busy' = Busy \ {th}
  BY <1>1 DEF Busy, TypeOK
<1>3. Cardinality(Busy') = Cardinality(Busy) - 1
  BY <1>2, BusyCount, FS_RemoveElement
<1>4. Cardinality(Busy) # 0
  BY <1>2, BusyCount
<1>5. active' \in Nat
  BY <1>1, <1>4, BusyCount DEF ActiveIsBusy
<1>6. TypeOK'
  BY <1>1, <1>5 DEF TypeOK, GetNoTask
<1>7. ActiveIsBusy'
  BY <1>1, <1>3 DEF ActiveIsBusy
<1>8. NoStrandedTask'
  BY <1>1 DEF NoStrandedTask
<1>9. QED BY <1>6, <1>7, <1>8

(* The other steps leave the set of busy threads and its count alone.        *)
LEMMA SameBusyPreserves ==
  ASSUME ExecutorInv, TypeOK', Busy' = Busy, UNCHANGED active,
         queue' # << >> => (queue # << >> \/ Busy # {})
  PROVE  ExecutorInv'
BY DEF ExecutorInv, ActiveIsBusy, NoStrandedTask

LEMMA StartQueuesPreserves ==
  ASSUME ExecutorAssumption, ExecutorInv, NEW t \in Task, StartQueues(t)
  PROVE  ExecutorInv'
<1>1. TypeOK'
  BY DEF ExecutorInv, TypeOK, StartQueues, Goto, threads
<1>2. Busy' = Busy /\ UNCHANGED active
  BY DEF StartQueues, Busy, threads
<1>3. Busy # {}
  BY BusyCount DEF StartQueues, ExecutorInv, ActiveIsBusy
<1>4. QED BY <1>1, <1>2, <1>3, SameBusyPreserves

LEMMA GetNextTaskPreserves ==
  ASSUME ExecutorAssumption, ExecutorInv, NEW th \in Thread, GetNextTask(th)
  PROVE  ExecutorInv'
<1>1. queue # << >> /\ at[th] = "fetching" /\ at' = [at EXCEPT ![th] = "running"]
  BY DEF GetNextTask, Runs
<1>2. queue \in Seq(Task) /\ Head(queue) \in Task /\ Tail(queue) \in Seq(Task)
  BY <1>1 DEF ExecutorInv, TypeOK
<1>3. TypeOK'
  BY <1>1, <1>2 DEF ExecutorInv, TypeOK, GetNextTask, Runs, Goto
<1>4. Busy' = Busy
  BY <1>1 DEF Busy, ExecutorInv, TypeOK
<1>5. QED BY <1>1, <1>3, <1>4, SameBusyPreserves DEF GetNextTask

(* Steps of start() that neither reach a thread nor the queue.               *)
LEMMA StartFramePreserves ==
  ASSUME ExecutorAssumption, ExecutorInv, NEW t \in Task,
         StartChecks(t) \/ StartLocks(t) \/ StartFindsQueueFull(t) \/ StartFails(t)
  PROVE  ExecutorInv'
<1>1. UNCHANGED <<threads, queue, active>>
  BY DEF StartChecks, StartLocks, StartFindsQueueFull, StartFails
<1>2. TypeOK'
  BY DEF ExecutorInv, TypeOK, StartChecks, StartLocks, StartFindsQueueFull, StartFails,
         Goto, threads
<1>3. Busy' = Busy
  BY <1>1 DEF Busy, threads
<1>4. QED BY <1>1, <1>2, <1>3, SameBusyPreserves

(* Steps of a worker outside getNextTask.                                    *)
LEMMA WorkerFramePreserves ==
  ASSUME ExecutorAssumption, ExecutorInv, NEW th \in Thread, FinishTask(th) \/ BecomeIdle(th)
  PROVE  ExecutorInv'
<1>1. UNCHANGED <<queue, active>>
  BY DEF FinishTask, BecomeIdle
<1>2. TypeOK'
  BY DEF ExecutorInv, TypeOK, FinishTask, BecomeIdle, Goto
<1>3. Busy' = Busy
  BY DEF Busy, FinishTask, BecomeIdle, ExecutorInv, TypeOK
<1>4. QED BY <1>1, <1>2, <1>3, SameBusyPreserves

LEMMA ShutdownPreserves ==
  ASSUME ExecutorAssumption, ExecutorInv, Shutdown \/ JoinAll \/ Joined
  PROVE  ExecutorInv'
<1>1. UNCHANGED <<threads, queue, active>>
  BY DEF Shutdown, JoinAll, Joined
<1>2. TypeOK'
  BY DEF ExecutorInv, TypeOK, Shutdown, JoinAll, Joined, threads
<1>3. Busy' = Busy
  BY <1>1 DEF Busy, threads
<1>4. QED BY <1>1, <1>2, <1>3, SameBusyPreserves

LEMMA InitEstablishes ==
  ASSUME ExecutorAssumption, Init
  PROVE  ExecutorInv
<1>1. TypeOK
  <2>1. queue \in Seq(Task) /\ active \in Nat
    BY DEF Init
  <2>2. /\ phase \in [Task -> {"new", "checked", "starting", "queued", "running", "done", "rejected"}]
        /\ at \in [Thread -> {"idle", "running", "fetching", "leaving"}]
        /\ work \in [Thread -> Task \cup {NoTask}]
    BY DEF Init
  <2>3. /\ queueMutex \in Task \cup {NoTask}
        /\ terminated \in BOOLEAN /\ joiner \in {"none", "joining", "joined"}
    BY DEF Init
  <2>4. QED BY <2>1, <2>2, <2>3 DEF TypeOK
<1>2. Busy = {} BY DEF Init, Busy
<1>3. QED BY <1>1, <1>2, FS_EmptySet DEF ExecutorInv, ActiveIsBusy, NoStrandedTask, Init

LEMMA NextPreserves ==
  ASSUME ExecutorAssumption, ExecutorInv, [Next]_vars
  PROVE  ExecutorInv'
<1>1. CASE UNCHANGED vars
  <2>1. TypeOK' BY <1>1 DEF ExecutorInv, TypeOK, vars, threads
  <2>2. Busy' = Busy BY <1>1 DEF Busy, vars, threads
  <2>3. QED BY <1>1, <2>1, <2>2, SameBusyPreserves DEF vars
<1>2. ASSUME NEW t \in Task, Starting(t) PROVE ExecutorInv'
  BY <1>2, StartFramePreserves, StartOnThreadPreserves, StartQueuesPreserves
     DEF Starting, PocoAnswers
<1>3. ASSUME NEW th \in Thread, Working(th) PROVE ExecutorInv'
  BY <1>3, WorkerFramePreserves, GetNextTaskPreserves, GetNoTaskPreserves DEF Working
<1>4. CASE Shutdown \/ JoinAll \/ Joined
  BY <1>4, ShutdownPreserves
<1>5. QED BY <1>1, <1>2, <1>3, <1>4 DEF Next

-----------------------------------------------------------------------------
(* The invariant of the executor, from which the theorems below follow.      *)
THEOREM ExecutorInvariant == ASSUME ExecutorAssumption PROVE Spec => []ExecutorInv
<1>1. Init => ExecutorInv BY InitEstablishes
<1>2. ExecutorInv /\ [Next]_vars => ExecutorInv' BY NextPreserves
<1>3. QED BY <1>1, <1>2, PTL DEF Spec

(* Every variable of the executor keeps its type; in particular the unsigned *)
(* m_activeWorkerCount never wraps below zero in getNextTask.                *)
THEOREM TypeCorrect == ASSUME ExecutorAssumption PROVE Spec => []TypeOK
BY ExecutorInvariant, PTL DEF ExecutorInv

(* m_activeWorkerCount is the number of workers that will still call         *)
(* getNextTask.                                                              *)
THEOREM ActiveCountIsExact == ASSUME ExecutorAssumption PROVE Spec => []ActiveIsBusy
BY ExecutorInvariant, PTL DEF ExecutorInv

(* start() never leaves a task in a queue that no worker will look at again. *)
THEOREM QueuedTasksHaveWorkers == ASSUME ExecutorAssumption PROVE Spec => []NoStrandedTask
BY ExecutorInvariant, PTL DEF ExecutorInv

-----------------------------------------------------------------------------
(* EachTaskOnce is inductive with the types.                                 *)
LEMMA OnceInit ==
  ASSUME Init PROVE EachTaskOnce
BY DEF Init, EachTaskOnce, InQueue, RunBy

(* A task joins the queue at its end, from start(), where it was in no place *)
(* yet.                                                                      *)
LEMMA StartQueuesOnce ==
  ASSUME TypeOK, EachTaskOnce, NEW t \in Task, StartQueues(t)
  PROVE  EachTaskOnce'
<1>1. /\ queue' = Append(queue, t) /\ phase' = [phase EXCEPT ![t] = "queued"]
      /\ at' = at /\ work' = work /\ phase[t] = "starting" /\ t \notin InQueue
  BY DEF StartQueues, CallsPoco, Goto, threads, EachTaskOnce
<1>2. /\ DOMAIN queue = 1..Len(queue) /\ DOMAIN queue' = 1..Len(queue) + 1
      /\ \A i \in 1..Len(queue) : queue'[i] = queue[i]
      /\ queue'[Len(queue) + 1] = t /\ Len(queue) \in Nat
  BY <1>1 DEF TypeOK
<1>3. InQueue' = InQueue \cup {t}
  BY <1>2 DEF InQueue
<1>4. \A i, j \in DOMAIN queue' : queue'[i] = queue'[j] => i = j
  BY <1>1, <1>2 DEF EachTaskOnce, InQueue
<1>5. QED BY <1>1, <1>3, <1>4 DEF EachTaskOnce, RunBy, TypeOK

(* A worker takes the first task, which then is no longer in the queue.      *)
LEMMA GetNextTaskOnce ==
  ASSUME TypeOK, EachTaskOnce, NEW th \in Thread, GetNextTask(th)
  PROVE  EachTaskOnce'
<1> DEFINE t == Head(queue)
<1>1. /\ queue # << >> /\ queue' = Tail(queue) /\ phase' = [phase EXCEPT ![t] = "running"]
      /\ at' = [at EXCEPT ![th] = "running"] /\ work' = [work EXCEPT ![th] = t]
      /\ at[th] = "fetching"
  BY DEF GetNextTask, Runs, Goto
<1>2. /\ DOMAIN queue = 1..Len(queue) /\ Len(queue) \in Nat \ {0} /\ t = queue[1]
      /\ DOMAIN queue' = 1..Len(queue) - 1
      /\ \A i \in 1..Len(queue) - 1 : queue'[i] = queue[i + 1]
      /\ t \in Task
  BY <1>1 DEF TypeOK
<1>3. \A i, j \in DOMAIN queue : queue[i] = queue[j] => i = j
  BY DEF EachTaskOnce
<1>4. \A i, j \in DOMAIN queue' : queue'[i] = queue'[j] => i = j
  BY <1>2, <1>3
<1>5. InQueue' = InQueue \ {t} /\ t \in InQueue
  <2>1. 1 \in DOMAIN queue
    BY <1>2
  <2>2. t \in InQueue
    BY <1>2, <2>1 DEF InQueue
  <2>3. ASSUME NEW u \in InQueue' PROVE u \in InQueue \ {t}
    <3>1. PICK i \in 1..Len(queue) - 1 : u = queue[i + 1]
      BY <1>2, <2>3 DEF InQueue
    <3>2. i + 1 \in DOMAIN queue /\ i + 1 # 1
      BY <1>2
    <3>3. QED BY <1>2, <1>3, <2>1, <3>1, <3>2 DEF InQueue
  <2>4. ASSUME NEW u \in InQueue, u # t PROVE u \in InQueue'
    <3>1. PICK i \in DOMAIN queue : u = queue[i]
      BY <2>4 DEF InQueue
    <3>2. i - 1 \in DOMAIN queue' /\ queue'[i - 1] = u
      BY <1>2, <2>4, <3>1
    <3>3. QED BY <3>2 DEF InQueue
  <2>5. QED BY <2>2, <2>3, <2>4
<1>6. phase[t] = "queued"
  BY <1>2, <1>5 DEF EachTaskOnce
<1>7. QED BY <1>1, <1>2, <1>4, <1>5, <1>6 DEF EachTaskOnce, RunBy, TypeOK

(* A step that leaves the queue alone keeps its tasks where they are.        *)
LEMMA OtherStepsOnce ==
  ASSUME TypeOK, EachTaskOnce, UNCHANGED queue,
         \/ UNCHANGED <<phase, threads>>
         \/ \E t \in Task : StartChecks(t) \/ StartLocks(t) \/ StartFindsQueueFull(t) \/ StartFails(t)
         \/ \E t \in Task, th \in Thread : StartOnThread(t, th)
         \/ \E th \in Thread : FinishTask(th) \/ GetNoTask(th) \/ BecomeIdle(th)
  PROVE  EachTaskOnce'
<1>1. InQueue' = InQueue /\ DOMAIN queue' = DOMAIN queue
  BY DEF InQueue
<1>2. CASE UNCHANGED <<phase, threads>>
  BY <1>1, <1>2 DEF EachTaskOnce, RunBy, threads
<1>3. ASSUME NEW t \in Task, StartChecks(t) \/ StartLocks(t) \/ StartFindsQueueFull(t) \/ StartFails(t)
      PROVE  EachTaskOnce'
  <2>1. /\ \A u \in Task : phase'[u] \in {"queued", "running"} <=> phase[u] \in {"queued", "running"}
        /\ \A u \in Task : phase[u] \in {"queued", "running"} => phase'[u] = phase[u]
    BY <1>3 DEF StartChecks, StartLocks, StartFindsQueueFull, StartFails, CallsPoco, Goto, TypeOK
  <2>2. at' = at /\ work' = work
    BY <1>3 DEF StartChecks, StartLocks, StartFindsQueueFull, StartFails, threads
  <2>3. QED BY <1>1, <2>1, <2>2 DEF EachTaskOnce, RunBy
<1>4. ASSUME NEW t \in Task, NEW th \in Thread, StartOnThread(t, th) PROVE EachTaskOnce'
  <2>1. /\ at' = [at EXCEPT ![th] = "running"] /\ work' = [work EXCEPT ![th] = t]
        /\ phase' = [phase EXCEPT ![t] = "running"]
        /\ phase[t] = "starting" /\ at[th] = "idle"
    BY <1>4 DEF StartOnThread, CallsPoco, Runs, Goto
  <2>2. QED BY <1>1, <2>1 DEF EachTaskOnce, RunBy, TypeOK
<1>5. ASSUME NEW th \in Thread, FinishTask(th) PROVE EachTaskOnce'
  <2>1. /\ at[th] = "running" /\ at' = [at EXCEPT ![th] = "fetching"] /\ work' = work
        /\ phase' = [phase EXCEPT ![work[th]] = "done"]
    BY <1>5 DEF FinishTask, Goto
  <2>2. work[th] \in Task => phase[work[th]] = "running"
    BY <2>1 DEF EachTaskOnce, RunBy
  <2>3. \A u \in Task : u # work[th] => phase'[u] = phase[u]
    BY <2>1 DEF TypeOK
  <2>4. \A u \in Task, other \in Thread : RunBy(other, u)' <=> RunBy(other, u) /\ u # work[th]
    BY <2>1 DEF EachTaskOnce, RunBy, TypeOK
  <2>5. work[th] \in Task => phase'[work[th]] = "done"
    BY <2>1 DEF TypeOK
  <2>6. QED BY <1>1, <2>2, <2>3, <2>4, <2>5 DEF EachTaskOnce
<1>6. ASSUME NEW th \in Thread, GetNoTask(th) \/ BecomeIdle(th) PROVE EachTaskOnce'
  <2>1. phase' = phase /\ work' = work
    BY <1>6 DEF GetNoTask, BecomeIdle
  <2>2. \A other \in Thread : at'[other] = "running" <=> at[other] = "running"
    BY <1>6 DEF GetNoTask, BecomeIdle, TypeOK
  <2>3. QED BY <1>1, <2>1, <2>2 DEF EachTaskOnce, RunBy
<1>7. QED BY <1>2, <1>3, <1>4, <1>5, <1>6

LEMMA NextOnce ==
  ASSUME TypeOK, EachTaskOnce, [Next]_vars
  PROVE  EachTaskOnce'
<1>1. CASE UNCHANGED vars
  BY <1>1, OtherStepsOnce DEF vars
<1>2. ASSUME NEW t \in Task, Starting(t) PROVE EachTaskOnce'
  <2>1. CASE StartQueues(t) BY <2>1, StartQueuesOnce
  <2>2. ASSUME NEW th \in Thread, StartOnThread(t, th) PROVE EachTaskOnce'
    BY <2>2, OtherStepsOnce DEF StartOnThread
  <2>3. CASE StartChecks(t) \/ StartLocks(t) \/ StartFindsQueueFull(t) \/ StartFails(t)
    <3>1. UNCHANGED queue
      BY <2>3 DEF StartChecks, StartLocks, StartFindsQueueFull, StartFails
    <3>2. QED BY <2>3, <3>1, OtherStepsOnce
  <2>4. QED BY <1>2, <2>1, <2>2, <2>3 DEF Starting, PocoAnswers
<1>3. ASSUME NEW th \in Thread, Working(th) PROVE EachTaskOnce'
  <2>1. CASE GetNextTask(th) BY <2>1, GetNextTaskOnce
  <2>2. CASE FinishTask(th) \/ GetNoTask(th) \/ BecomeIdle(th)
    BY <2>2, OtherStepsOnce DEF FinishTask, GetNoTask, BecomeIdle
  <2>3. QED BY <1>3, <2>1, <2>2 DEF Working
<1>4. CASE Shutdown \/ JoinAll \/ Joined
  BY <1>4, OtherStepsOnce DEF Shutdown, JoinAll, Joined
<1>5. QED BY <1>1, <1>2, <1>3, <1>4 DEF Next

(* Every accepted task is in exactly one place: once in the queue or with    *)
(* one thread, for any number of tasks started at once.                      *)
THEOREM TasksRunOnce == ASSUME ExecutorAssumption PROVE Spec => []EachTaskOnce
<1>1. Init => EachTaskOnce BY OnceInit
<1>2. TypeOK /\ EachTaskOnce /\ [Next]_vars => EachTaskOnce' BY NextOnce
<1>3. QED BY <1>1, <1>2, TypeCorrect, PTL DEF Spec

(* When joinAll returns all threads are idle, so by NoStrandedTask nothing   *)
(* is queued, although joinAll does not look at the queue.                   *)
LEMMA JoinedStep ==
  ASSUME ExecutorAssumption, ExecutorInv, EachTaskOnce, Joined
  PROVE  \A t \in Task : phase'[t] \notin {"queued", "running"}
<1>1. \A th \in Thread : at[th] = "idle"
  BY DEF Joined, AllThreadsIdle
<1>2. queue = << >>
  BY <1>1 DEF Busy, ExecutorInv, NoStrandedTask
<1>3. InQueue = {}
  BY <1>2 DEF InQueue
<1>4. phase' = phase
  BY DEF Joined
<1>5. QED BY <1>1, <1>3, <1>4 DEF EachTaskOnce, RunBy

(* shutdownAndJoinAll never returns with an accepted task left behind.       *)
THEOREM JoinLeavesNone == ASSUME ExecutorAssumption PROVE Spec => JoinLeavesNoTask
<1>1. ASSUME ExecutorInv, EachTaskOnce, [Next]_vars, joiner = "joining", joiner' = "joined"
      PROVE  \A t \in Task : phase'[t] \notin {"queued", "running"}
  <2>1. Joined
    BY <1>1 DEF vars, Next, Starting, PocoAnswers, Working, StartChecks, StartLocks, StartOnThread,
       StartQueues, StartFindsQueueFull, StartFails, FinishTask, GetNextTask, GetNoTask, BecomeIdle,
       Shutdown, JoinAll
  <2>2. QED BY <1>1, <2>1, JoinedStep
<1>2. ExecutorInv /\ EachTaskOnce /\ [Next]_vars =>
        [(joiner = "joining" /\ joiner' = "joined") =>
           \A t \in Task : phase'[t] \notin {"queued", "running"}]_vars
  BY <1>1
<1>3. QED BY <1>2, ExecutorInvariant, TasksRunOnce, PTL DEF Spec, JoinLeavesNoTask
=============================================================================
