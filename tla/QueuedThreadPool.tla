-------------------------- MODULE QueuedThreadPool --------------------------
(***************************************************************************)
(* The executor (QueuedThreadPool.cpp): start() gives a task to a thread   *)
(* of a Poco::ThreadPool, or queues it for the workers that run already;   *)
(* a worker (RunnableWorker.cpp) runs its task and then takes tasks from   *)
(* the queue until it finds it empty.                                      *)
(*                                                                         *)
(* Each task is started by a thread of its own.  start() tests             *)
(* m_terminated under one mutex, releases it, and does the rest under      *)
(* m_queueMutex, which it also holds while it waits for Poco::ThreadPool:  *)
(* Poco holds its own mutex through joinAll, and a worker that has found   *)
(* the queue empty becomes an idle thread only a little later.             *)
(***************************************************************************)
EXTENDS Integers, Sequences, FiniteSets

CONSTANTS
  Task,
  NoTask,       \* m_queueMutex is not held by a start()
  Thread,       \* the threads Poco::ThreadPool may have (m_maximumPoolSize)
  MaxQueueSize  \* of the BoundBlockingQueue

ASSUME ExecutorAssumption ==
  /\ NoTask \notin Task
  /\ Thread # {} /\ IsFiniteSet(Thread)
  /\ MaxQueueSize \in Nat \ {0}

VARIABLES
  phase,       \* where each task is
  at,          \* what each thread does
  work,        \* the task each thread runs, or ran last
  queue,       \* m_pBlockingQueue
  active,      \* m_activeWorkerCount
  queueMutex,  \* the task whose start() holds m_queueMutex
  terminated,  \* m_terminated
  joiner       \* the call of shutdownAndJoinAll

threads == <<at, work>>
vars == <<phase, threads, queue, active, queueMutex, terminated, joiner>>

-----------------------------------------------------------------------------
Busy == {th \in Thread : at[th] \in {"running", "fetching"}}
NoThreadAvailable == \A th \in Thread : at[th] # "idle"

Init ==
  /\ phase = [t \in Task |-> "new"]
  /\ at = [th \in Thread |-> "idle"] /\ work = [th \in Thread |-> NoTask]
  /\ queue = << >> /\ active = 0 /\ queueMutex = NoTask
  /\ terminated = FALSE /\ joiner = "none"

Goto(t, p) == phase' = [phase EXCEPT ![t] = p]

(* start(): the test of m_terminated. *)
StartChecks(t) ==
  /\ phase[t] = "new"
  /\ Goto(t, IF terminated THEN "rejected" ELSE "checked")
  /\ UNCHANGED <<threads, queue, active, queueMutex, terminated, joiner>>

StartLocks(t) ==
  /\ phase[t] = "checked" /\ queueMutex = NoTask
  /\ queueMutex' = t
  /\ Goto(t, "starting")
  /\ UNCHANGED <<threads, queue, active, terminated, joiner>>

(* Poco::ThreadPool::start: not while joinAll holds the mutex of the pool.   *)
CallsPoco(t) == phase[t] = "starting" /\ joiner # "joining"

Runs(th, t) ==
  /\ at' = [at EXCEPT ![th] = "running"]
  /\ work' = [work EXCEPT ![th] = t]
  /\ Goto(t, "running")

StartOnThread(t, th) ==
  /\ CallsPoco(t) /\ at[th] = "idle"
  /\ Runs(th, t)
  /\ active' = active + 1
  /\ queueMutex' = NoTask
  /\ UNCHANGED <<queue, terminated, joiner>>

(* NoThreadAvailableException: start() sleeps and tries again, holding the   *)
(* mutex, if no worker is active; otherwise it queues the task.              *)
StartQueues_ForNobody(t) ==
  /\ CallsPoco(t) /\ NoThreadAvailable /\ Len(queue) < MaxQueueSize
  /\ queue' = Append(queue, t)
  /\ Goto(t, "queued")
  /\ queueMutex' = NoTask
  /\ UNCHANGED <<threads, active, terminated, joiner>>

StartQueues(t) ==
  /\ CallsPoco(t) /\ NoThreadAvailable /\ active # 0
  /\ Len(queue) < MaxQueueSize
  /\ queue' = Append(queue, t)
  /\ Goto(t, "queued")
  /\ queueMutex' = NoTask
  /\ UNCHANGED <<threads, active, terminated, joiner>>

StartFindsQueueFull(t) ==
  /\ CallsPoco(t) /\ NoThreadAvailable /\ active # 0
  /\ Len(queue) = MaxQueueSize
  /\ Goto(t, "rejected")
  /\ queueMutex' = NoTask
  /\ UNCHANGED <<threads, queue, active, terminated, joiner>>

(* Any other Poco::Exception, such as a thread the system does not create.   *)
StartFails(t) ==
  /\ CallsPoco(t)
  /\ Goto(t, "rejected")
  /\ queueMutex' = NoTask
  /\ UNCHANGED <<threads, queue, active, terminated, joiner>>

-----------------------------------------------------------------------------
(* RunnableWorker::run, and the thread of Poco that runs it.                 *)
FinishTask_OnlyOne(th) ==
  /\ at[th] = "running"
  /\ at' = [at EXCEPT ![th] = "leaving"]
  /\ active' = active - 1
  /\ Goto(work[th], "done")
  /\ UNCHANGED <<work, queue, queueMutex, terminated, joiner>>

FinishTask(th) ==
  /\ at[th] = "running"
  /\ at' = [at EXCEPT ![th] = "fetching"]
  /\ Goto(work[th], "done")
  /\ UNCHANGED <<work, queue, active, queueMutex, terminated, joiner>>

GetNextTask_LeavesInQueue(th) ==
  /\ at[th] = "fetching" /\ queueMutex = NoTask /\ queue # << >>
  /\ Runs(th, Head(queue))
  /\ UNCHANGED <<queue, active, queueMutex, terminated, joiner>>

GetNextTask(th) ==
  /\ at[th] = "fetching" /\ queueMutex = NoTask /\ queue # << >>
  /\ Runs(th, Head(queue))
  /\ queue' = Tail(queue)
  /\ UNCHANGED <<active, queueMutex, terminated, joiner>>

GetNoTask(th) ==
  /\ at[th] = "fetching" /\ queueMutex = NoTask /\ queue = << >>
  /\ at' = [at EXCEPT ![th] = "leaving"]
  /\ active' = active - 1
  /\ UNCHANGED <<phase, work, queue, queueMutex, terminated, joiner>>

BecomeIdle(th) ==
  /\ at[th] = "leaving"
  /\ at' = [at EXCEPT ![th] = "idle"]
  /\ UNCHANGED <<phase, work, queue, active, queueMutex, terminated, joiner>>

-----------------------------------------------------------------------------
(* shutdown(), and the first part of shutdownAndJoinAll(). *)
Shutdown ==
  /\ ~terminated
  /\ terminated' = TRUE
  /\ UNCHANGED <<phase, threads, queue, active, queueMutex, joiner>>

JoinAll ==
  /\ terminated /\ joiner = "none"
  /\ joiner' = "joining"
  /\ UNCHANGED <<phase, threads, queue, active, queueMutex, terminated>>

(* joinAll waits for the runnables, not for the queue.  stopAll, which       *)
(* follows, ends idle threads; Poco makes new ones when they are needed.     *)
AllThreadsIdle == \A th \in Thread : at[th] = "idle"

Joined ==
  /\ joiner = "joining" /\ AllThreadsIdle
  /\ joiner' = "joined"
  /\ UNCHANGED <<phase, threads, queue, active, queueMutex, terminated>>

-----------------------------------------------------------------------------
PocoAnswers(t) == \/ \E th \in Thread : StartOnThread(t, th)
                  \/ StartQueues(t) \/ StartFindsQueueFull(t)
Starting(t) == StartChecks(t) \/ StartLocks(t) \/ PocoAnswers(t) \/ StartFails(t)
Working(th) == FinishTask(th) \/ GetNextTask(th) \/ GetNoTask(th) \/ BecomeIdle(th)

Next == \/ \E t \in Task : Starting(t)
        \/ \E th \in Thread : Working(th)
        \/ Shutdown \/ JoinAll \/ Joined

Spec == Init /\ [][Next]_vars

(* Tasks end, workers and joinAll run on, and whoever waits for m_queueMutex *)
(* gets it in the end.  Nothing makes Poco fail.                             *)
Fairness ==
  /\ \A th \in Thread : /\ WF_vars(FinishTask(th) \/ BecomeIdle(th))
                        /\ SF_vars(GetNextTask(th) \/ GetNoTask(th))
  /\ \A t \in Task : /\ SF_vars(StartLocks(t))
                     /\ WF_vars(PocoAnswers(t))
  /\ WF_vars(Joined)

FairSpec == Spec /\ Fairness

-----------------------------------------------------------------------------
InQueue == {queue[i] : i \in DOMAIN queue}

TypeOK ==
  /\ phase \in [Task -> {"new", "checked", "starting", "queued", "running", "done", "rejected"}]
  /\ at \in [Thread -> {"idle", "running", "fetching", "leaving"}]
  /\ work \in [Thread -> Task \cup {NoTask}]
  /\ queue \in Seq(Task) /\ active \in Nat
  /\ queueMutex \in Task \cup {NoTask}
  /\ terminated \in BOOLEAN /\ joiner \in {"none", "joining", "joined"}

(* m_activeWorkerCount, by which start() decides between queueing and trying *)
(* again, counts exactly the workers that will still look at the queue.      *)
ActiveIsBusy == active = Cardinality(Busy)

(* A queued task is never left behind: while the queue holds one, a worker   *)
(* runs that will look at the queue again.                                   *)
NoStrandedTask == queue # << >> => Busy # {}

(* The inductive invariant: the count is what makes it safe to queue.        *)
ExecutorInv == TypeOK /\ ActiveIsBusy /\ NoStrandedTask

RunBy(th, t) == at[th] = "running" /\ work[th] = t

(* A task that was accepted is in exactly one place: once in the queue, or   *)
(* with one thread; so no task runs twice, and a rejected one never.         *)
EachTaskOnce ==
  /\ \A t \in Task : (t \in InQueue) <=> (phase[t] = "queued")
  /\ \A i, j \in DOMAIN queue : queue[i] = queue[j] => i = j
  /\ \A t \in Task : (\E th \in Thread : RunBy(th, t)) <=> (phase[t] = "running")
  /\ \A t \in Task : \A th, other \in Thread : RunBy(th, t) /\ RunBy(other, t) => th = other

(* When shutdownAndJoinAll returns, no accepted task is left, although       *)
(* joinAll does not look at the queue.                                       *)
JoinLeavesNoTask ==
  [][(joiner = "joining" /\ joiner' = "joined") =>
       \A t \in Task : phase'[t] \notin {"queued", "running"}]_vars

(* Every task that was queued runs to its end, whatever comes first in the   *)
(* queue or is started meanwhile; unless shutdownAndJoinAll is called.       *)
QueuedTasksRun ==
  \A t \in Task : (phase[t] = "queued") ~> (phase[t] = "done" \/ joiner # "none")

(* start() returns, also when it waits for a thread with the mutex held that *)
(* workers need; unless shutdownAndJoinAll is called.                        *)
StartReturns ==
  \A t \in Task : (phase[t] = "checked")
                    ~> (phase[t] \notin {"checked", "starting"} \/ joiner # "none")

(* The circle in which nobody goes on: joinAll holds the mutex of the        *)
(* Poco::ThreadPool, a start() that passed the test of m_terminated holds    *)
(* m_queueMutex and waits for the former, and the worker that is joined      *)
(* waits for the latter.  HttpExecutionTaskManager excludes such a start().  *)
JoinCircle == joiner = "joining" /\ queueMutex # NoTask /\ \E th \in Thread : at[th] = "fetching"

(* shutdownAndJoinAll, which "Waits for all threads to complete"             *)
(* (QueuedThreadPool.cpp:142), returns when the tasks have ended, unless it  *)
(* is caught in that circle.                                                 *)
JoinReturns == (joiner = "joining") ~> (joiner = "joined" \/ JoinCircle)

(* Tasks, start() and shutdownAndJoinAll go on in the end.                   *)
ExecutorGoesOn == QueuedTasksRun /\ StartReturns /\ JoinReturns
=============================================================================
