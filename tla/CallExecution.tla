--------------------------- MODULE CallExecution ---------------------------
(***************************************************************************)
(* The calls of one EasyHttp object: execute, executeAsync and cancel of a *)
(* call (CallInternal.cpp), the loop over engines that follows redirects   *)
(* (HttpRequestExecutor.cpp), the tasks of asynchronous calls with their   *)
(* callbacks (HttpAsyncExecutionTask.cpp, HttpExecutionTaskManager.cpp)    *)
(* and invalidateAndCancel (EasyHttpInternal.cpp).                         *)
(*                                                                         *)
(* An engine is reduced to what its caller sees: a response, a redirect or *)
(* an exception.  The pool of threads is the one of QueuedThreadPool,      *)
(* reduced to its number of threads: a task that was accepted runs once.   *)
(* A step ends where a mutex is released or the network is waited for.     *)
(***************************************************************************)
EXTENDS Integers, FiniteSets

CONSTANTS
  Call,
  NoCall,
  MaxRetryCount,  \* redirects that are followed
  Threads,        \* maximumPoolSizeOfAsyncThreadPool
  FollowUp,       \* the call that a call's callback starts with executeAsync
  StartMayFail    \* whether the system may refuse a thread

ASSUME CallAssumption ==
  /\ NoCall \notin Call
  /\ MaxRetryCount \in Nat /\ Threads \in Nat \ {0}
  /\ FollowUp \in [Call -> Call \cup {NoCall}]
  /\ StartMayFail \in BOOLEAN

VARIABLES
  pc,         \* where the thread that runs the call is
  async,      \* started with executeAsync
  executed,   \* CallInternal::m_executed: the executor exists
  wanted,     \* CallInternal::m_cancelled
  cancelled,  \* HttpRequestExecutor::m_cancelled
  engines,    \* engines the executor has made (retryCount is one less)
  body,       \* the stream of the response the executor holds
  stored,     \* m_pUserResponse is set
  outcome,    \* what the thread goes on with: a response or an exception
  notified,   \* history: onResponse and onFailure calls
  taskList,   \* m_executionTaskList
  terminated, \* m_terminated of the task manager
  invalidated,\* m_invalidated of EasyHttpInternal
  shutdown,   \* where gracefulShutdown is
  copy        \* executionTaskListCopy: the tasks it still has to look at

callVars == <<async, executed, wanted, cancelled>>
exchangeVars == <<engines, body, stored, outcome>>
managerVars == <<taskList, terminated, invalidated, shutdown, copy>>
vars == <<pc, callVars, exchangeVars, notified, managerVars>>

-----------------------------------------------------------------------------
InExecutor == {"loop", "exchange", "redirect", "store"}
OnWorker == InExecutor \cup {"completing", "callback", "inCallback", "finishing"}

(* The workers that run a task, and the tasks that have not called           *)
(* onComplete yet.                                                           *)
Working == {c \in Call : async[c] /\ pc[c] \in OnWorker}
Unfinished == {c \in Call : async[c] /\ pc[c] \in InExecutor \cup {"queued", "completing"}}

(* m_instanceMutex of the task manager: held over shutdownAndJoinAll.        *)
ManagerFree == shutdown # "joining"

Init ==
  /\ pc = [c \in Call |-> "none"]
  /\ async = [c \in Call |-> FALSE]
  /\ executed = [c \in Call |-> FALSE]
  /\ wanted = [c \in Call |-> FALSE]
  /\ cancelled = [c \in Call |-> FALSE]
  /\ engines = [c \in Call |-> 0]
  /\ body = [c \in Call |-> "none"]
  /\ stored = [c \in Call |-> FALSE]
  /\ outcome = [c \in Call |-> "none"]
  /\ notified = [c \in Call |-> 0]
  /\ taskList = {} /\ copy = {}
  /\ terminated = FALSE /\ invalidated = FALSE /\ shutdown = "none"

Goto(c, p) == pc' = [pc EXCEPT ![c] = p]

-----------------------------------------------------------------------------
(* CallInternal                                                              *)
NewCall(c) ==
  /\ pc[c] = "none" /\ ~invalidated
  /\ Goto(c, "new")
  /\ UNCHANGED <<callVars, exchangeVars, notified, managerVars>>

(* The executor is made, and told that the call was cancelled before.        *)
MakeExecutor_NotTold(c, isAsync) ==
  /\ executed' = [executed EXCEPT ![c] = TRUE]
  /\ async' = [async EXCEPT ![c] = isAsync]
  /\ UNCHANGED <<wanted, cancelled>>

MakeExecutor(c, isAsync) ==
  /\ executed' = [executed EXCEPT ![c] = TRUE]
  /\ async' = [async EXCEPT ![c] = isAsync]
  /\ cancelled' = [cancelled EXCEPT ![c] = wanted[c]]
  /\ UNCHANGED wanted

Execute(c) ==
  /\ pc[c] # "none" /\ ~executed[c]
  /\ MakeExecutor(c, FALSE)
  /\ Goto(c, "loop")
  /\ UNCHANGED <<exchangeVars, notified, managerVars>>

ExecuteAsync_Again(c) ==
  /\ pc[c] # "none"
  /\ MakeExecutor(c, TRUE)
  /\ Goto(c, "starting")
  /\ UNCHANGED <<exchangeVars, notified, managerVars>>

ExecuteAsync(c) ==
  /\ pc[c] # "none" /\ ~executed[c]
  /\ MakeExecutor(c, TRUE)
  /\ Goto(c, "starting")
  /\ UNCHANGED <<exchangeVars, notified, managerVars>>

(* HttpRequestExecutor::cancel under m_cancelMutex: the flag, the engine     *)
(* under way (whose exchange may then fail), the stream of the response.     *)
CloseStored(c) ==
  body' = [body EXCEPT ![c] = IF stored[c] THEN "closed" ELSE @]

CancelExecutor(c) ==
  /\ cancelled' = [cancelled EXCEPT ![c] = TRUE]
  /\ CloseStored(c)

Cancel(c) ==
  /\ pc[c] # "none"
  /\ wanted' = [wanted EXCEPT ![c] = TRUE]
  /\ IF executed[c] THEN CancelExecutor(c) ELSE UNCHANGED <<cancelled, body>>
  /\ UNCHANGED <<pc, async, executed, engines, stored, outcome, notified, managerVars>>

(* What the call tells its user.                                             *)
IsCancelled(c) == IF executed[c] THEN cancelled[c] ELSE wanted[c]

(* The user closes the stream of a response.                                 *)
CloseBody(c) ==
  /\ stored[c] /\ body[c] = "open"
  /\ body' = [body EXCEPT ![c] = "closed"]
  /\ UNCHANGED <<pc, callVars, engines, stored, outcome, notified, managerVars>>

-----------------------------------------------------------------------------
(* HttpRequestExecutor::executeWithRetry                                     *)
Ends(c) == Goto(c, IF async[c] THEN "completing" ELSE "ended")

Fails(c) ==
  /\ Ends(c)
  /\ outcome' = [outcome EXCEPT ![c] = "failure"]

LoopCancelled(c) ==
  /\ pc[c] = "loop" /\ cancelled[c]
  /\ Fails(c)
  /\ UNCHANGED <<callVars, engines, body, stored, notified, managerVars>>

LoopCreatesEngine(c) ==
  /\ pc[c] = "loop" /\ ~cancelled[c]
  /\ engines' = [engines EXCEPT ![c] = @ + 1]
  /\ Goto(c, "exchange")
  /\ UNCHANGED <<callVars, body, stored, outcome, notified, managerVars>>

(* HttpEngine::execute returns or throws.  A cancelled engine usually, but   *)
(* not always, throws: the response may have arrived, or be a stored one.    *)
EngineReturns(c) ==
  /\ pc[c] = "exchange"
  /\ body' = [body EXCEPT ![c] = "open"]
  /\ \E next \in {"redirect", "store"} : Goto(c, next)
  /\ UNCHANGED <<callVars, engines, stored, outcome, notified, managerVars>>

EngineThrows(c) ==
  /\ pc[c] = "exchange"
  /\ Fails(c)
  /\ UNCHANGED <<callVars, engines, body, stored, notified, managerVars>>

(* The redirect's body is read to its end, if there is a cache to put it in, *)
(* and left with the next engine otherwise; reading may fail.                *)
FollowRedirect(c) ==
  /\ pc[c] = "redirect"
  /\ body' = [body EXCEPT ![c] = "none"]
  /\ IF engines[c] <= MaxRetryCount
     THEN Goto(c, "loop") /\ UNCHANGED outcome
     ELSE Fails(c)
  /\ UNCHANGED <<callVars, engines, stored, notified, managerVars>>

RedirectFails(c) ==
  /\ pc[c] = "redirect"
  /\ body' = [body EXCEPT ![c] = "none"]
  /\ Fails(c)
  /\ UNCHANGED <<callVars, engines, stored, notified, managerVars>>

StoreResponse(c) ==
  /\ pc[c] = "store"
  /\ stored' = [stored EXCEPT ![c] = TRUE]
  /\ outcome' = [outcome EXCEPT ![c] = "response"]
  /\ Ends(c)
  /\ UNCHANGED <<callVars, engines, body, notified, managerVars>>

-----------------------------------------------------------------------------
(* HttpExecutionTaskManager::start, which holds m_instanceMutex also while   *)
(* the pool starts or queues the task.                                       *)
StartRejected(c) ==
  /\ pc[c] = "starting" /\ ManagerFree /\ terminated
  /\ Goto(c, "rejected")
  /\ UNCHANGED <<callVars, exchangeVars, notified, managerVars>>

Accepted(c) ==
  Goto(c, IF Cardinality(Working) < Threads THEN "loop" ELSE "queued")

StartAccepted(c) ==
  /\ pc[c] = "starting" /\ ManagerFree /\ ~terminated
  /\ taskList' = taskList \cup {c}
  /\ Accepted(c)
  /\ UNCHANGED <<callVars, exchangeVars, notified, terminated, invalidated, shutdown, copy>>

(* QueuedThreadPool::start throws: the mutex is released before the task is  *)
(* taken from the list again.                                                *)
StartRefused(c) ==
  /\ StartMayFail
  /\ pc[c] = "starting" /\ ManagerFree /\ ~terminated
  /\ taskList' = taskList \cup {c}
  /\ Goto(c, "refused")
  /\ UNCHANGED <<callVars, exchangeVars, notified, terminated, invalidated, shutdown, copy>>

RemoveRefused(c) ==
  /\ pc[c] = "refused" /\ ManagerFree
  /\ taskList' = taskList \ {c}
  /\ Goto(c, "rejected")
  /\ UNCHANGED <<callVars, exchangeVars, notified, terminated, invalidated, shutdown, copy>>

TakeFromQueue_UntilShutdown(c) ==
  /\ pc[c] = "queued" /\ Cardinality(Working) < Threads /\ ~terminated
  /\ Goto(c, "loop")
  /\ UNCHANGED <<callVars, exchangeVars, notified, managerVars>>

TakeFromQueue(c) ==
  /\ pc[c] = "queued" /\ Cardinality(Working) < Threads
  /\ Goto(c, "loop")
  /\ UNCHANGED <<callVars, exchangeVars, notified, managerVars>>

(* HttpAsyncExecutionTask::notifyCompletion: first onComplete, then the      *)
(* callback, which may start another call.                                   *)
OnComplete(c) ==
  /\ pc[c] = "completing" /\ ManagerFree
  /\ taskList' = taskList \ {c}
  /\ Goto(c, "callback")
  /\ UNCHANGED <<callVars, exchangeVars, notified, terminated, invalidated, shutdown, copy>>

Notify(c) == notified' = [notified EXCEPT ![c] = @ + 1]

Starts(c) == FollowUp[c] # NoCall /\ pc[FollowUp[c]] = "new"

Callback(c) ==
  /\ pc[c] = "callback" /\ ~Starts(c)
  /\ Notify(c)
  /\ Goto(c, "finishing")
  /\ UNCHANGED <<callVars, exchangeVars, managerVars>>

CallbackStartsCall(c) ==
  /\ pc[c] = "callback" /\ Starts(c)
  /\ Notify(c)
  /\ MakeExecutor(FollowUp[c], TRUE)
  /\ pc' = [pc EXCEPT ![c] = "inCallback", ![FollowUp[c]] = "starting"]
  /\ UNCHANGED <<exchangeVars, managerVars>>

CallbackReturns(c) ==
  /\ pc[c] = "inCallback" /\ pc[FollowUp[c]] \notin {"starting", "refused"}
  /\ Goto(c, "finishing")
  /\ UNCHANGED <<callVars, exchangeVars, notified, managerVars>>

(* FutureTask::run sets m_finished and its event: get() returns from now on. *)
Finish(c) ==
  /\ pc[c] = "finishing"
  /\ Goto(c, "ended")
  /\ UNCHANGED <<callVars, exchangeVars, notified, managerVars>>

-----------------------------------------------------------------------------
(* invalidateAndCancel, and gracefulShutdown.                                *)
Invalidate ==
  /\ ~invalidated
  /\ invalidated' = TRUE
  /\ shutdown' = "requested"
  /\ UNCHANGED <<pc, callVars, exchangeVars, notified, taskList, terminated, copy>>

Terminate_Late ==  \* copies the list before new tasks are refused
  /\ \/ /\ shutdown = "requested" /\ copy = {} /\ taskList # {}
        /\ copy' = taskList
        /\ UNCHANGED <<shutdown, terminated>>
     \/ /\ shutdown = "requested" /\ (copy # {} \/ taskList = {})
        /\ shutdown' = "cancelling" /\ terminated' = TRUE
        /\ UNCHANGED copy
  /\ UNCHANGED <<pc, callVars, exchangeVars, notified, taskList, invalidated>>

CancelTask(c) ==
  /\ shutdown = "cancelling" /\ c \in copy /\ ~cancelled[c]
  /\ CancelExecutor(c)
  /\ UNCHANGED <<pc, async, executed, wanted, engines, stored, outcome, notified, managerVars>>

Terminate ==
  /\ shutdown = "requested"
  /\ terminated' = TRUE
  /\ copy' = taskList
  /\ shutdown' = "cancelling"
  /\ UNCHANGED <<pc, callVars, exchangeVars, notified, taskList, invalidated>>

AllCancelled ==
  /\ shutdown = "cancelling" /\ \A c \in copy : cancelled[c]
  /\ shutdown' = "waiting"
  /\ UNCHANGED <<pc, callVars, exchangeVars, notified, taskList, terminated, invalidated, copy>>

(* get() of the task's future returns or throws once the task has ended.     *)
GetReturns(c) == pc[c] = "ended"

GetTask(c) ==
  /\ shutdown = "waiting" /\ c \in copy /\ GetReturns(c)
  /\ copy' = copy \ {c}
  /\ UNCHANGED <<pc, callVars, exchangeVars, notified, taskList, terminated, invalidated, shutdown>>

Join ==
  /\ shutdown = "waiting" /\ copy = {}
  /\ shutdown' = "joining"
  /\ UNCHANGED <<pc, callVars, exchangeVars, notified, taskList, terminated, invalidated, copy>>

Joined ==
  /\ shutdown = "joining" /\ Working = {}
  /\ shutdown' = "done"
  /\ UNCHANGED <<pc, callVars, exchangeVars, notified, taskList, terminated, invalidated, copy>>

-----------------------------------------------------------------------------
Using(c) == NewCall(c) \/ Execute(c) \/ ExecuteAsync(c) \/ Cancel(c) \/ CloseBody(c)

Executing(c) == \/ LoopCancelled(c) \/ LoopCreatesEngine(c)
                \/ EngineReturns(c) \/ EngineThrows(c)
                \/ FollowRedirect(c) \/ RedirectFails(c) \/ StoreResponse(c)

Starting(c) == StartRejected(c) \/ StartAccepted(c) \/ StartRefused(c) \/ RemoveRefused(c)

Completing(c) == \/ OnComplete(c) \/ Callback(c) \/ CallbackStartsCall(c)
                 \/ CallbackReturns(c) \/ Finish(c)

ShuttingDown == \/ Terminate \/ AllCancelled \/ Join \/ Joined
                \/ \E c \in Call : CancelTask(c) \/ GetTask(c)

Next == \/ \E c \in Call : Using(c) \/ Executing(c) \/ Starting(c) \/ TakeFromQueue(c) \/ Completing(c)
        \/ Invalidate \/ ShuttingDown

Spec == Init /\ [][Next]_vars

(* Exchanges end (every socket has a timeout), callbacks return, threads and *)
(* mutexes are served, and the pool looks at its queue (NoStrandedTask of    *)
(* QueuedThreadPool).  Of two tasks that wait for a thread or the mutex      *)
(* neither is overtaken for ever.                                            *)
Fairness ==
  /\ \A c \in Call : /\ WF_vars(Executing(c))
                     /\ SF_vars(Starting(c)) /\ SF_vars(TakeFromQueue(c)) /\ SF_vars(OnComplete(c))
                     /\ WF_vars(Completing(c))
  /\ WF_vars(ShuttingDown)

FairSpec == Spec /\ Fairness

-----------------------------------------------------------------------------
TypeOK ==
  /\ pc \in [Call -> InExecutor \cup OnWorker \cup
                     {"none", "new", "starting", "refused", "rejected", "queued", "ended"}]
  /\ \A v \in {async, executed, wanted, cancelled, stored} : v \in [Call -> BOOLEAN]
  /\ engines \in [Call -> 0..MaxRetryCount + 1]
  /\ body \in [Call -> {"none", "open", "closed"}]
  /\ outcome \in [Call -> {"none", "response", "failure"}]
  /\ notified \in [Call -> Nat]
  /\ taskList \subseteq Call /\ copy \subseteq Call
  /\ terminated \in BOOLEAN /\ invalidated \in BOOLEAN
  /\ shutdown \in {"none", "requested", "cancelling", "waiting", "joining", "done"}

(* Once a call is cancelled or says it is, it sends no further request: not  *)
(* if execute comes after cancel, not at the next redirect, and not when a   *)
(* task that shutdown cancelled leaves the queue.                            *)
CancelStopsExchanges ==
  [][\A c \in Call : wanted[c] \/ IsCancelled(c) => engines'[c] = engines[c]]_vars

(* The user of an asynchronous call hears of it exactly once: after the end  *)
(* of the call one callback was made, a call refused by executeAsync makes   *)
(* none, and no call is run twice.                                           *)
CallbackOnce ==
  \A c \in Call :
    notified[c] = IF async[c] /\ pc[c] \in {"inCallback", "finishing", "ended"} THEN 1 ELSE 0

(* From the moment gracefulShutdown waits for tasks, every task that was     *)
(* accepted and is not complete has been cancelled, however start() and      *)
(* gracefulShutdown interleaved; so what it waits for is short.              *)
ShutdownCancelsAll ==
  shutdown \in {"waiting", "joining"} => \A c \in Unfinished : cancelled[c]

(* When gracefulShutdown returns, no worker runs a task or a callback and    *)
(* none is queued, so the context can be destroyed.                          *)
ShutdownLeavesNone == shutdown = "done" => Working \cup Unfinished = {}

(* What gracefulShutdown has done, at each of its phases.                    *)
ShutdownInv == TypeOK /\ ShutdownCancelsAll /\ ShutdownLeavesNone

(* The two ways in which gracefulShutdown stays for ever: it joins, holding  *)
(* the mutex, a thread whose callback wants that mutex to start a call, or   *)
(* waits for a task that the pool refused and nobody runs.                   *)
CallbackWaits ==
  /\ shutdown = "joining"
  /\ \E c \in Call : pc[c] = "inCallback" /\ pc[FollowUp[c]] \in {"starting", "refused"}
RefusedAwaited == shutdown = "waiting" /\ \E c \in copy : pc[c] = "rejected"

(* An asynchronous call that was accepted makes its callback in the end,     *)
(* also if it is cancelled or the EasyHttp object invalidated while queued.  *)
(* Only a callback caught in the join holds up the calls behind it.          *)
AcceptedCallsBack ==
  \A c \in Call : (async[c] /\ pc[c] \in {"queued", "loop"}) ~> (notified[c] = 1 \/ CallbackWaits)

(* gracefulShutdown returns, or is stuck in one of those two ways: no other  *)
(* interleaving with calls that start, end, wait in the queue or call back   *)
(* makes it wait for ever.                                                   *)
ShutdownEnds == (shutdown = "requested") ~> (shutdown = "done" \/ CallbackWaits \/ RefusedAwaited)

(* Every call and the shutdown of all of them come to an end.                *)
CallsEnd == AcceptedCallsBack /\ ShutdownEnds

(* HttpExecutionTaskManager.cpp:88 and 105: gracefulShutdown waits "for all  *)
(* task to complete" and "for all threads to finish completely", and then    *)
(* returns.                                                                  *)
ShutdownReturns == (shutdown = "requested") ~> (shutdown = "done")
=============================================================================
