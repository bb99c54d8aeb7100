------------------------ MODULE CallExecution_proof ------------------------
(***************************************************************************)
(* Theorems about the calls of one EasyHttp object and its shutdown.       *)
(*                                                                         *)
(* CallbackOnce and ShutdownInv are not inductive.  What a call may still  *)
(* do depends on flags set earlier and by other threads, so CallInv ties   *)
(* the flags of a call to the place its thread has reached, and says what  *)
(* gracefulShutdown relies on: every task that was accepted and is not     *)
(* complete is in m_executionTaskList, and after Terminate also in the     *)
(* copy that gracefulShutdown works through.                               *)
(***************************************************************************)
EXTENDS CallExecution, TLAPS

(* TypeOK, one conjunct for each variable.                                   *)
CallTypes ==
  /\ pc \in [Call -> InExecutor \cup OnWorker \cup
                     {"none", "new", "starting", "refused", "rejected", "queued", "ended"}]
  /\ async \in [Call -> BOOLEAN] /\ executed \in [Call -> BOOLEAN]
  /\ wanted \in [Call -> BOOLEAN] /\ cancelled \in [Call -> BOOLEAN]
  /\ engines \in [Call -> 0..MaxRetryCount + 1]
  /\ body \in [Call -> {"none", "open", "closed"}]
  /\ stored \in [Call -> BOOLEAN]
  /\ outcome \in [Call -> {"none", "response", "failure"}]
  /\ notified \in [Call -> Nat]
  /\ taskList \subseteq Call /\ copy \subseteq Call
  /\ terminated \in BOOLEAN /\ invalidated \in BOOLEAN
  /\ shutdown \in {"none", "requested", "cancelling", "waiting", "joining", "done"}

(* What the place of a call's thread says of its flags.                      *)
CallState(c) ==
  /\ executed[c] <=> pc[c] \notin {"none", "new"}
  /\ async[c] => executed[c]
  /\ pc[c] \in {"starting", "refused", "rejected", "queued", "completing", "callback",
                "inCallback", "finishing"} => async[c]
  /\ executed[c] /\ wanted[c] => cancelled[c]
  /\ pc[c] \in {"none", "new", "starting", "refused", "queued"} => engines[c] = 0
  /\ pc[c] = "loop" => engines[c] <= MaxRetryCount

(* Every task that was accepted and is not complete is known to the manager, *)
(* and to a gracefulShutdown that has copied the list.                       *)
TasksAreKnown ==
  /\ Unfinished \subseteq taskList
  /\ invalidated <=> shutdown # "none"
  /\ terminated <=> shutdown \notin {"none", "requested"}
  /\ terminated => Unfinished \subseteq copy
  /\ shutdown \in {"joining", "done"} => copy = {}

CallInv ==
  /\ CallTypes
  /\ \A c \in Call : CallState(c)
  /\ CallbackOnce
  /\ TasksAreKnown
  /\ ShutdownCancelsAll
  /\ ShutdownLeavesNone

-----------------------------------------------------------------------------
LEMMA CallInvInit ==
  ASSUME CallAssumption, Init
  PROVE  CallInv
<1>1. CallTypes
  <2>1. 0 \in 0..MaxRetryCount + 1 /\ 0 \in Nat
    BY DEF CallAssumption
  <2>2. QED BY <2>1 DEF Init, CallTypes
<1>2. Working = {} /\ Unfinished = {}
  BY DEF Init, Working, Unfinished
<1>3. QED BY <1>1, <1>2 DEF Init, CallInv, CallState, CallbackOnce, TasksAreKnown,
               ShutdownCancelsAll, ShutdownLeavesNone, CallAssumption

(* What the user of a call does.                                             *)
LEMMA UserSteps ==
  ASSUME CallAssumption, CallInv, NEW c \in Call,
         NewCall(c) \/ Execute(c) \/ ExecuteAsync(c) \/ Cancel(c) \/ CloseBody(c)
  PROVE  CallInv'
<1> USE DEF CallInv, Goto, callVars, exchangeVars, managerVars, MakeExecutor, CancelExecutor, CloseStored
<1>1. CASE NewCall(c)
  <2>1. CallTypes'
    BY <1>1 DEF NewCall, CallTypes, CallState, InExecutor, OnWorker, CallAssumption
  <2>2. \A d \in Call : CallState(d)'
    BY <1>1 DEF NewCall, CallTypes, CallState, InExecutor, OnWorker, CallAssumption
  <2>3. CallbackOnce'
    BY <1>1 DEF NewCall, CallTypes, CallState, CallbackOnce, InExecutor, OnWorker
  <2>4. TasksAreKnown' /\ ShutdownCancelsAll' /\ ShutdownLeavesNone'
    BY <1>1 DEF NewCall, CallTypes, CallState, TasksAreKnown, ShutdownCancelsAll,
       ShutdownLeavesNone,
         Working, Unfinished, InExecutor, OnWorker
  <2>5. QED BY <2>1, <2>2, <2>3, <2>4
<1>2. CASE Execute(c)
  <2>1. CallTypes'
    BY <1>2 DEF Execute, CallTypes, CallState, InExecutor, OnWorker, CallAssumption
  <2>2. \A d \in Call : CallState(d)'
    BY <1>2 DEF Execute, CallTypes, CallState, InExecutor, OnWorker, CallAssumption
  <2>3. CallbackOnce'
    BY <1>2 DEF Execute, CallTypes, CallState, CallbackOnce, InExecutor, OnWorker
  <2>4. TasksAreKnown' /\ ShutdownCancelsAll' /\ ShutdownLeavesNone'
    BY <1>2 DEF Execute, CallTypes, CallState, TasksAreKnown, ShutdownCancelsAll,
       ShutdownLeavesNone,
         Working, Unfinished, InExecutor, OnWorker
  <2>5. QED BY <2>1, <2>2, <2>3, <2>4
<1>3. CASE ExecuteAsync(c)
  <2>1. CallTypes'
    BY <1>3 DEF ExecuteAsync, CallTypes, CallState, InExecutor, OnWorker, CallAssumption
  <2>2. \A d \in Call : CallState(d)'
    BY <1>3 DEF ExecuteAsync, CallTypes, CallState, InExecutor, OnWorker, CallAssumption
  <2>3. CallbackOnce'
    BY <1>3 DEF ExecuteAsync, CallTypes, CallState, CallbackOnce, InExecutor, OnWorker
  <2>4. TasksAreKnown' /\ ShutdownCancelsAll' /\ ShutdownLeavesNone'
    BY <1>3 DEF ExecuteAsync, CallTypes, CallState, TasksAreKnown, ShutdownCancelsAll,
       ShutdownLeavesNone,
         Working, Unfinished, InExecutor, OnWorker
  <2>5. QED BY <2>1, <2>2, <2>3, <2>4
<1>4. CASE Cancel(c)
  <2>1. CallTypes'
    <3>1. body' \in [Call -> {"none", "open", "closed"}] /\ cancelled' \in [Call -> BOOLEAN]
      BY <1>4 DEF Cancel, CallTypes
    <3>2. QED BY <1>4, <3>1 DEF Cancel, CallTypes
  <2>2. \A d \in Call : CallState(d)'
    BY <1>4 DEF Cancel, CallTypes, CallState, InExecutor, OnWorker, CallAssumption
  <2>3. CallbackOnce'
    BY <1>4 DEF Cancel, CallTypes, CallState, CallbackOnce, InExecutor, OnWorker
  <2>4. TasksAreKnown' /\ ShutdownCancelsAll' /\ ShutdownLeavesNone'
    BY <1>4 DEF Cancel, CallTypes, CallState, TasksAreKnown, ShutdownCancelsAll, ShutdownLeavesNone,
         Working, Unfinished, InExecutor, OnWorker
  <2>5. QED BY <2>1, <2>2, <2>3, <2>4
<1>5. CASE CloseBody(c)
  <2>1. CallTypes'
    BY <1>5 DEF CloseBody, CallTypes, CallState, InExecutor, OnWorker, CallAssumption
  <2>2. \A d \in Call : CallState(d)'
    BY <1>5 DEF CloseBody, CallTypes, CallState, InExecutor, OnWorker, CallAssumption
  <2>3. CallbackOnce'
    BY <1>5 DEF CloseBody, CallTypes, CallState, CallbackOnce, InExecutor, OnWorker
  <2>4. TasksAreKnown' /\ ShutdownCancelsAll' /\ ShutdownLeavesNone'
    BY <1>5 DEF CloseBody, CallTypes, CallState, TasksAreKnown, ShutdownCancelsAll,
       ShutdownLeavesNone,
         Working, Unfinished, InExecutor, OnWorker
  <2>5. QED BY <2>1, <2>2, <2>3, <2>4
<1>6. QED BY <1>1, <1>2, <1>3, <1>4, <1>5

(* The loop of the executor.                                                 *)
LEMMA ExecutorSteps ==
  ASSUME CallAssumption, CallInv, NEW c \in Call,
         LoopCancelled(c) \/ LoopCreatesEngine(c) \/ EngineReturns(c) \/ EngineThrows(c)
         \/ FollowRedirect(c) \/ RedirectFails(c) \/ StoreResponse(c)
  PROVE  CallInv'
<1> USE DEF CallInv, Goto, callVars, exchangeVars, managerVars, Fails, Ends
<1>1. CASE LoopCancelled(c)
  <2>1. CallTypes'
    BY <1>1 DEF LoopCancelled, CallTypes, CallState, InExecutor, OnWorker, CallAssumption
  <2>2. \A d \in Call : CallState(d)'
    BY <1>1 DEF LoopCancelled, CallTypes, CallState, InExecutor, OnWorker, CallAssumption
  <2>3. CallbackOnce'
    BY <1>1 DEF LoopCancelled, CallTypes, CallState, CallbackOnce, InExecutor, OnWorker
  <2>4. TasksAreKnown' /\ ShutdownCancelsAll' /\ ShutdownLeavesNone'
    BY <1>1 DEF LoopCancelled, CallTypes, CallState, TasksAreKnown, ShutdownCancelsAll,
       ShutdownLeavesNone,
         Working, Unfinished, InExecutor, OnWorker
  <2>5. QED BY <2>1, <2>2, <2>3, <2>4
<1>2. CASE LoopCreatesEngine(c)
  <2>1. CallTypes'
    BY <1>2 DEF LoopCreatesEngine, CallTypes, CallState, InExecutor, OnWorker, CallAssumption
  <2>2. \A d \in Call : CallState(d)'
    BY <1>2 DEF LoopCreatesEngine, CallTypes, CallState, InExecutor, OnWorker, CallAssumption
  <2>3. CallbackOnce'
    BY <1>2 DEF LoopCreatesEngine, CallTypes, CallState, CallbackOnce, InExecutor, OnWorker
  <2>4. TasksAreKnown' /\ ShutdownCancelsAll' /\ ShutdownLeavesNone'
    BY <1>2 DEF LoopCreatesEngine, CallTypes, CallState, TasksAreKnown, ShutdownCancelsAll,
       ShutdownLeavesNone,
         Working, Unfinished, InExecutor, OnWorker
  <2>5. QED BY <2>1, <2>2, <2>3, <2>4
<1>3. CASE EngineReturns(c)
  <2>1. CallTypes'
    BY <1>3 DEF EngineReturns, CallTypes, CallState, InExecutor, OnWorker, CallAssumption
  <2>2. \A d \in Call : CallState(d)'
    BY <1>3 DEF EngineReturns, CallTypes, CallState, InExecutor, OnWorker, CallAssumption
  <2>3. CallbackOnce'
    BY <1>3 DEF EngineReturns, CallTypes, CallState, CallbackOnce, InExecutor, OnWorker
  <2>4. TasksAreKnown' /\ ShutdownCancelsAll' /\ ShutdownLeavesNone'
    BY <1>3 DEF EngineReturns, CallTypes, CallState, TasksAreKnown, ShutdownCancelsAll,
       ShutdownLeavesNone,
         Working, Unfinished, InExecutor, OnWorker
  <2>5. QED BY <2>1, <2>2, <2>3, <2>4
<1>4. CASE EngineThrows(c)
  <2>1. CallTypes'
    BY <1>4 DEF EngineThrows, CallTypes, CallState, InExecutor, OnWorker, CallAssumption
  <2>2. \A d \in Call : CallState(d)'
    BY <1>4 DEF EngineThrows, CallTypes, CallState, InExecutor, OnWorker, CallAssumption
  <2>3. CallbackOnce'
    BY <1>4 DEF EngineThrows, CallTypes, CallState, CallbackOnce, InExecutor, OnWorker
  <2>4. TasksAreKnown' /\ ShutdownCancelsAll' /\ ShutdownLeavesNone'
    BY <1>4 DEF EngineThrows, CallTypes, CallState, TasksAreKnown, ShutdownCancelsAll,
       ShutdownLeavesNone,
         Working, Unfinished, InExecutor, OnWorker
  <2>5. QED BY <2>1, <2>2, <2>3, <2>4
<1>5. CASE FollowRedirect(c)
  <2>1. CallTypes'
    BY <1>5 DEF FollowRedirect, CallTypes, CallState, InExecutor, OnWorker, CallAssumption
  <2>2. \A d \in Call : CallState(d)'
    BY <1>5 DEF FollowRedirect, CallTypes, CallState, InExecutor, OnWorker, CallAssumption
  <2>3. CallbackOnce'
    BY <1>5 DEF FollowRedirect, CallTypes, CallState, CallbackOnce, InExecutor, OnWorker
  <2>4. TasksAreKnown' /\ ShutdownCancelsAll' /\ ShutdownLeavesNone'
    BY <1>5 DEF FollowRedirect, CallTypes, CallState, TasksAreKnown, ShutdownCancelsAll,
       ShutdownLeavesNone,
         Working, Unfinished, InExecutor, OnWorker
  <2>5. QED BY <2>1, <2>2, <2>3, <2>4
<1>6. CASE RedirectFails(c)
  <2>1. CallTypes'
    BY <1>6 DEF RedirectFails, CallTypes, CallState, InExecutor, OnWorker, CallAssumption
  <2>2. \A d \in Call : CallState(d)'
    BY <1>6 DEF RedirectFails, CallTypes, CallState, InExecutor, OnWorker, CallAssumption
  <2>3. CallbackOnce'
    BY <1>6 DEF RedirectFails, CallTypes, CallState, CallbackOnce, InExecutor, OnWorker
  <2>4. TasksAreKnown' /\ ShutdownCancelsAll' /\ ShutdownLeavesNone'
    BY <1>6 DEF RedirectFails, CallTypes, CallState, TasksAreKnown, ShutdownCancelsAll,
       ShutdownLeavesNone,
         Working, Unfinished, InExecutor, OnWorker
  <2>5. QED BY <2>1, <2>2, <2>3, <2>4
<1>7. CASE StoreResponse(c)
  <2>1. CallTypes'
    BY <1>7 DEF StoreResponse, CallTypes, CallState, InExecutor, OnWorker, CallAssumption
  <2>2. \A d \in Call : CallState(d)'
    BY <1>7 DEF StoreResponse, CallTypes, CallState, InExecutor, OnWorker, CallAssumption
  <2>3. CallbackOnce'
    BY <1>7 DEF StoreResponse, CallTypes, CallState, CallbackOnce, InExecutor, OnWorker
  <2>4. TasksAreKnown' /\ ShutdownCancelsAll' /\ ShutdownLeavesNone'
    BY <1>7 DEF StoreResponse, CallTypes, CallState, TasksAreKnown, ShutdownCancelsAll,
       ShutdownLeavesNone,
         Working, Unfinished, InExecutor, OnWorker
  <2>5. QED BY <2>1, <2>2, <2>3, <2>4
<1>8. QED BY <1>1, <1>2, <1>3, <1>4, <1>5, <1>6, <1>7

(* A task in the manager and the pool, and its callback.                     *)
LEMMA TaskSteps ==
  ASSUME CallAssumption, CallInv, NEW c \in Call,
         StartRejected(c) \/ StartAccepted(c) \/ StartRefused(c) \/ RemoveRefused(c)
         \/ TakeFromQueue(c) \/ OnComplete(c) \/ Callback(c) \/ CallbackStartsCall(c)
         \/ CallbackReturns(c) \/ Finish(c)
  PROVE  CallInv'
<1> USE DEF CallInv, Goto, callVars, exchangeVars, managerVars, ManagerFree, Accepted, Notify, Starts, MakeExecutor
<1>1. CASE StartRejected(c)
  <2>1. CallTypes'
    BY <1>1 DEF StartRejected, CallTypes, CallState, InExecutor, OnWorker, CallAssumption
  <2>2. \A d \in Call : CallState(d)'
    BY <1>1 DEF StartRejected, CallTypes, CallState, InExecutor, OnWorker, CallAssumption
  <2>3. CallbackOnce'
    BY <1>1 DEF StartRejected, CallTypes, CallState, CallbackOnce, InExecutor, OnWorker
  <2>4. TasksAreKnown' /\ ShutdownCancelsAll' /\ ShutdownLeavesNone'
    BY <1>1 DEF StartRejected, CallTypes, CallState, TasksAreKnown, ShutdownCancelsAll,
       ShutdownLeavesNone,
         Working, Unfinished, InExecutor, OnWorker
  <2>5. QED BY <2>1, <2>2, <2>3, <2>4
<1>2. CASE StartAccepted(c)
  <2>1. CallTypes'
    BY <1>2 DEF StartAccepted, CallTypes, CallState, InExecutor, OnWorker, CallAssumption
  <2>2. \A d \in Call : CallState(d)'
    BY <1>2 DEF StartAccepted, CallTypes, CallState, InExecutor, OnWorker, CallAssumption
  <2>3. CallbackOnce'
    BY <1>2 DEF StartAccepted, CallTypes, CallState, CallbackOnce, InExecutor, OnWorker
  <2>4. TasksAreKnown' /\ ShutdownCancelsAll' /\ ShutdownLeavesNone'
    BY <1>2 DEF StartAccepted, CallTypes, CallState, TasksAreKnown, ShutdownCancelsAll,
       ShutdownLeavesNone,
         Working, Unfinished, InExecutor, OnWorker
  <2>5. QED BY <2>1, <2>2, <2>3, <2>4
<1>3. CASE StartRefused(c)
  <2>1. CallTypes'
    BY <1>3 DEF StartRefused, CallTypes, CallState, InExecutor, OnWorker, CallAssumption
  <2>2. \A d \in Call : CallState(d)'
    BY <1>3 DEF StartRefused, CallTypes, CallState, InExecutor, OnWorker, CallAssumption
  <2>3. CallbackOnce'
    BY <1>3 DEF StartRefused, CallTypes, CallState, CallbackOnce, InExecutor, OnWorker
  <2>4. TasksAreKnown' /\ ShutdownCancelsAll' /\ ShutdownLeavesNone'
    BY <1>3 DEF StartRefused, CallTypes, CallState, TasksAreKnown, ShutdownCancelsAll,
       ShutdownLeavesNone,
         Working, Unfinished, InExecutor, OnWorker
  <2>5. QED BY <2>1, <2>2, <2>3, <2>4
<1>4. CASE RemoveRefused(c)
  <2>1. CallTypes'
    BY <1>4 DEF RemoveRefused, CallTypes, CallState, InExecutor, OnWorker, CallAssumption
  <2>2. \A d \in Call : CallState(d)'
    BY <1>4 DEF RemoveRefused, CallTypes, CallState, InExecutor, OnWorker, CallAssumption
  <2>3. CallbackOnce'
    BY <1>4 DEF RemoveRefused, CallTypes, CallState, CallbackOnce, InExecutor, OnWorker
  <2>4. TasksAreKnown' /\ ShutdownCancelsAll' /\ ShutdownLeavesNone'
    BY <1>4 DEF RemoveRefused, CallTypes, CallState, TasksAreKnown, ShutdownCancelsAll,
       ShutdownLeavesNone,
         Working, Unfinished, InExecutor, OnWorker
  <2>5. QED BY <2>1, <2>2, <2>3, <2>4
<1>5. CASE TakeFromQueue(c)
  <2>1. CallTypes'
    BY <1>5 DEF TakeFromQueue, CallTypes, CallState, InExecutor, OnWorker, CallAssumption
  <2>2. \A d \in Call : CallState(d)'
    BY <1>5 DEF TakeFromQueue, CallTypes, CallState, InExecutor, OnWorker, CallAssumption
  <2>3. CallbackOnce'
    BY <1>5 DEF TakeFromQueue, CallTypes, CallState, CallbackOnce, InExecutor, OnWorker
  <2>4. TasksAreKnown' /\ ShutdownCancelsAll' /\ ShutdownLeavesNone'
    BY <1>5 DEF TakeFromQueue, CallTypes, CallState, TasksAreKnown, ShutdownCancelsAll,
       ShutdownLeavesNone,
         Working, Unfinished, InExecutor, OnWorker
  <2>5. QED BY <2>1, <2>2, <2>3, <2>4
<1>6. CASE OnComplete(c)
  <2>1. CallTypes'
    BY <1>6 DEF OnComplete, CallTypes, CallState, InExecutor, OnWorker, CallAssumption
  <2>2. \A d \in Call : CallState(d)'
    BY <1>6 DEF OnComplete, CallTypes, CallState, InExecutor, OnWorker, CallAssumption
  <2>3. CallbackOnce'
    BY <1>6 DEF OnComplete, CallTypes, CallState, CallbackOnce, InExecutor, OnWorker
  <2>4. TasksAreKnown' /\ ShutdownCancelsAll' /\ ShutdownLeavesNone'
    BY <1>6 DEF OnComplete, CallTypes, CallState, TasksAreKnown, ShutdownCancelsAll,
       ShutdownLeavesNone,
         Working, Unfinished, InExecutor, OnWorker
  <2>5. QED BY <2>1, <2>2, <2>3, <2>4
<1>7. CASE Callback(c)
  <2>1. CallTypes'
    BY <1>7 DEF Callback, CallTypes, CallState, InExecutor, OnWorker, CallAssumption
  <2>2. \A d \in Call : CallState(d)'
    BY <1>7 DEF Callback, CallTypes, CallState, InExecutor, OnWorker, CallAssumption
  <2>3. CallbackOnce'
    BY <1>7 DEF Callback, CallTypes, CallState, CallbackOnce, InExecutor, OnWorker
  <2>4. TasksAreKnown' /\ ShutdownCancelsAll' /\ ShutdownLeavesNone'
    BY <1>7 DEF Callback, CallTypes, CallState, TasksAreKnown, ShutdownCancelsAll,
       ShutdownLeavesNone,
         Working, Unfinished, InExecutor, OnWorker
  <2>5. QED BY <2>1, <2>2, <2>3, <2>4
<1>8. CASE CallbackStartsCall(c)
  <2>1. CallTypes'
    BY <1>8 DEF CallbackStartsCall, CallTypes, CallState, InExecutor, OnWorker, CallAssumption
  <2>2. \A d \in Call : CallState(d)'
    BY <1>8 DEF CallbackStartsCall, CallTypes, CallState, InExecutor, OnWorker, CallAssumption
  <2>3. CallbackOnce'
    BY <1>8 DEF CallbackStartsCall, CallTypes, CallState, CallbackOnce, InExecutor, OnWorker
  <2>4. TasksAreKnown' /\ ShutdownCancelsAll' /\ ShutdownLeavesNone'
    BY <1>8 DEF CallbackStartsCall, CallTypes, CallState, TasksAreKnown, ShutdownCancelsAll,
       ShutdownLeavesNone,
         Working, Unfinished, InExecutor, OnWorker
  <2>5. QED BY <2>1, <2>2, <2>3, <2>4
<1>9. CASE CallbackReturns(c)
  <2>1. CallTypes'
    BY <1>9 DEF CallbackReturns, CallTypes, CallState, InExecutor, OnWorker, CallAssumption
  <2>2. \A d \in Call : CallState(d)'
    BY <1>9 DEF CallbackReturns, CallTypes, CallState, InExecutor, OnWorker, CallAssumption
  <2>3. CallbackOnce'
    BY <1>9 DEF CallbackReturns, CallTypes, CallState, CallbackOnce, InExecutor, OnWorker
  <2>4. TasksAreKnown' /\ ShutdownCancelsAll' /\ ShutdownLeavesNone'
    BY <1>9 DEF CallbackReturns, CallTypes, CallState, TasksAreKnown, ShutdownCancelsAll,
       ShutdownLeavesNone,
         Working, Unfinished, InExecutor, OnWorker
  <2>5. QED BY <2>1, <2>2, <2>3, <2>4
<1>10. CASE Finish(c)
  <2>1. CallTypes'
    BY <1>10 DEF Finish, CallTypes, CallState, InExecutor, OnWorker, CallAssumption
  <2>2. \A d \in Call : CallState(d)'
    BY <1>10 DEF Finish, CallTypes, CallState, InExecutor, OnWorker, CallAssumption
  <2>3. CallbackOnce'
    BY <1>10 DEF Finish, CallTypes, CallState, CallbackOnce, InExecutor, OnWorker
  <2>4. TasksAreKnown' /\ ShutdownCancelsAll' /\ ShutdownLeavesNone'
    BY <1>10 DEF Finish, CallTypes, CallState, TasksAreKnown, ShutdownCancelsAll,
       ShutdownLeavesNone,
         Working, Unfinished, InExecutor, OnWorker
  <2>5. QED BY <2>1, <2>2, <2>3, <2>4
<1>11. QED BY <1>1, <1>2, <1>3, <1>4, <1>5, <1>6, <1>7, <1>8, <1>9, <1>10

(* invalidateAndCancel and gracefulShutdown.                                 *)
LEMMA ShutdownSteps ==
  ASSUME CallAssumption, CallInv,
         Invalidate \/ ShuttingDown
  PROVE  CallInv'
<1> USE DEF CallInv, callVars, exchangeVars, managerVars
<1>1. CASE Invalidate \/ Terminate \/ AllCancelled \/ Join \/ Joined
  <2>1. UNCHANGED <<pc, callVars, exchangeVars, notified, taskList>>
    BY <1>1 DEF Invalidate, Terminate, AllCancelled, Join, Joined
  <2>2. /\ terminated' \in BOOLEAN /\ invalidated' \in BOOLEAN /\ copy' \subseteq Call
        /\ shutdown' \in {"none", "requested", "cancelling", "waiting", "joining", "done"}
    BY <1>1 DEF CallTypes, Invalidate, Terminate, AllCancelled, Join, Joined
  <2>3. CallTypes' /\ CallbackOnce' /\ \A d \in Call : CallState(d)'
    BY <2>1, <2>2 DEF CallTypes, CallbackOnce, CallState
  <2>4. Working' = Working /\ Unfinished' = Unfinished
    BY <2>1 DEF Working, Unfinished
  <2>5. TasksAreKnown'
    BY <1>1, <2>1, <2>4 DEF TasksAreKnown, Invalidate, Terminate, AllCancelled, Join, Joined
  <2>6. ShutdownCancelsAll' /\ ShutdownLeavesNone'
    <3>1. CASE Invalidate \/ Terminate
      BY <3>1 DEF Invalidate, Terminate, ShutdownCancelsAll, ShutdownLeavesNone
    <3>2. CASE AllCancelled
      BY <2>1, <2>4, <3>2 DEF AllCancelled, TasksAreKnown, ShutdownCancelsAll, ShutdownLeavesNone
    <3>3. CASE Join
      BY <2>1, <2>4, <3>3 DEF Join, ShutdownCancelsAll, ShutdownLeavesNone
    <3>4. CASE Joined
      <4>1. Working = {} /\ Unfinished = {}
        BY <3>4 DEF Joined, TasksAreKnown
      <4>2. QED BY <2>4, <3>4, <4>1 DEF Joined, ShutdownCancelsAll, ShutdownLeavesNone
    <3>5. QED BY <1>1, <3>1, <3>2, <3>3, <3>4
  <2>7. QED BY <2>3, <2>5, <2>6
<1>2. ASSUME NEW c \in Call, CancelTask(c)
      PROVE  CallInv'
  <2>1. CallTypes' /\ CallbackOnce' /\ \A d \in Call : CallState(d)'
    BY <1>2 DEF CancelTask, CancelExecutor, CloseStored, CallTypes, CallbackOnce, CallState
  <2>2. Working' = Working /\ Unfinished' = Unfinished
    BY <1>2 DEF CancelTask, Working, Unfinished
  <2>3. TasksAreKnown' /\ ShutdownCancelsAll' /\ ShutdownLeavesNone'
    BY <1>2, <2>2 DEF CancelTask, TasksAreKnown, ShutdownCancelsAll, ShutdownLeavesNone
  <2>4. QED BY <2>1, <2>3
<1>3. ASSUME NEW c \in Call, GetTask(c)
      PROVE  CallInv'
  <2>1. CallTypes' /\ CallbackOnce' /\ \A d \in Call : CallState(d)'
    BY <1>3 DEF GetTask, CallTypes, CallbackOnce, CallState
  <2>2. Working' = Working /\ Unfinished' = Unfinished
    BY <1>3 DEF GetTask, Working, Unfinished
  <2>3. c \notin Unfinished
    BY <1>3 DEF GetTask, GetReturns, Unfinished, InExecutor
  <2>4. TasksAreKnown' /\ ShutdownCancelsAll' /\ ShutdownLeavesNone'
    BY <1>3, <2>2, <2>3 DEF GetTask, TasksAreKnown, ShutdownCancelsAll, ShutdownLeavesNone
  <2>5. QED BY <2>1, <2>4
<1>4. QED BY <1>1, <1>2, <1>3 DEF ShuttingDown

LEMMA CallInvNext ==
  ASSUME CallAssumption, CallInv, [Next]_vars
  PROVE  CallInv'
<1>1. ASSUME NEW c \in Call, Using(c) \/ Executing(c) \/ Starting(c) \/ TakeFromQueue(c) \/ Completing(c)
      PROVE  CallInv'
  BY <1>1, UserSteps, ExecutorSteps, TaskSteps DEF Using, Executing, Starting, Completing
<1>2. CASE UNCHANGED vars
  BY <1>2 DEF vars, callVars, exchangeVars, managerVars, CallInv, CallTypes, CallState,
     CallbackOnce,
       TasksAreKnown, ShutdownCancelsAll, ShutdownLeavesNone, Working, Unfinished
<1>3. QED BY <1>1, <1>2, ShutdownSteps DEF Next

(* The inductive invariant holds in every reachable state.                   *)
THEOREM CallInvariant == Spec => []CallInv
<1>1. CallAssumption
  BY CallAssumption
<1>2. Init => CallInv
  BY <1>1, CallInvInit
<1>3. CallInv /\ [Next]_vars => CallInv'
  BY <1>1, CallInvNext
<1>4. QED BY <1>2, <1>3, PTL DEF Spec

-----------------------------------------------------------------------------
(* For every number of calls, threads and redirects, and whatever callbacks  *)
(* start: the user of an asynchronous call is called back exactly once, and  *)
(* the user of one that executeAsync refused never.                          *)
THEOREM CallsBackOnce == Spec => []CallbackOnce
<1>1. CallInv => CallbackOnce
  BY DEF CallInv
<1>2. QED BY <1>1, CallInvariant, PTL

(* gracefulShutdown waits only for tasks it has cancelled, and leaves no     *)
(* task running or queued, however it interleaves with executeAsync.         *)
THEOREM ShutdownIsComplete == Spec => []ShutdownInv
<1>1. ASSUME CallInv
      PROVE  ShutdownInv
  <2>1. TypeOK
    BY <1>1 DEF CallInv, CallTypes, TypeOK
  <2>2. QED BY <1>1, <2>1 DEF CallInv, ShutdownInv
<1>2. QED BY <1>1, CallInvariant, PTL

(* After cancel() of the call, or after the task of the call was cancelled   *)
(* by the shutdown, no engine is made for it any more.                       *)
THEOREM CancelledCallsStop == Spec => CancelStopsExchanges
<1> DEFINE Stops == \A c \in Call : wanted[c] \/ IsCancelled(c) => engines'[c] = engines[c]
<1>1. ASSUME CallInv, [Next]_vars, NEW d \in Call, wanted[d] \/ IsCancelled(d)
      PROVE  engines'[d] = engines[d]
  <2>1. ASSUME NEW c \in Call, LoopCreatesEngine(c)
        PROVE  engines'[d] = engines[d]
    <3>1. executed[c] /\ ~cancelled[c] /\ ~wanted[c]
      BY <1>1, <2>1 DEF LoopCreatesEngine, CallInv, CallState
    <3>2. QED BY <1>1, <2>1, <3>1 DEF LoopCreatesEngine, IsCancelled, CallInv, CallTypes
  <2>2. ASSUME NEW c \in Call, Using(c) \/ Starting(c) \/ TakeFromQueue(c) \/ Completing(c)
        PROVE  engines' = engines
    BY <2>2 DEF Using, Starting, Completing, NewCall, Execute, ExecuteAsync, Cancel, CloseBody,
         StartRejected, StartAccepted, StartRefused, RemoveRefused, TakeFromQueue, OnComplete,
         Callback, CallbackStartsCall, CallbackReturns, Finish, exchangeVars
  <2>3. ASSUME NEW c \in Call, Executing(c), ~LoopCreatesEngine(c)
        PROVE  engines' = engines
    BY <2>3 DEF Executing, LoopCancelled, EngineReturns, EngineThrows, FollowRedirect,
         RedirectFails, StoreResponse
  <2>4. CASE Invalidate \/ ShuttingDown
    BY <2>4 DEF Invalidate, ShuttingDown, Terminate, AllCancelled, Join, Joined, CancelTask,
       GetTask,
         exchangeVars
  <2>5. CASE UNCHANGED vars
    BY <2>5 DEF vars, exchangeVars
  <2>6. QED BY <1>1, <2>1, <2>2, <2>3, <2>4, <2>5 DEF Next
<1>2. CallInv /\ [Next]_vars => [Stops]_vars
  BY <1>1
<1>3. QED BY <1>2, CallInvariant, PTL DEF Spec, CancelStopsExchanges
=============================================================================
