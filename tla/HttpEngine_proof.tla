-------------------------- MODULE HttpEngine_proof --------------------------
(***************************************************************************)
(* Theorems about the exchanges of any number of engines over one pool.    *)
(*                                                                         *)
(* None of the safety properties of HttpEngine is inductive.  They follow  *)
(* from who owns a connection: from the moment an engine gets one until it *)
(* gives it back, lconn names it, no other engine's lconn does, and the    *)
(* pool has it as in use or not at all.  ExchangeInv says that, says for   *)
(* every place in sendRequestAndReceiveResponse which of the two pointers  *)
(* (lconn, econn) is set there, and ties the listener of a connection to   *)
(* the engine that owns it.                                                *)
(***************************************************************************)
EXTENDS HttpEngine, TLAPS

(* Where the thread of an engine is before it has a connection, and after it *)
(* gave it up.                                                               *)
Without == {"start", "connect", "create", "failed"}

(* Where m_pConnectionInternal is set: between StoreConnection and the catch *)
(* clause or the end of the function.                                        *)
Stored == {"sending", "sent", "receiving", "execError", "otherError"}

(* What the pool's variables range over (Pool!TypeOK without the clients).   *)
PoolTypes ==
  /\ pool \in SUBSET Conn
  /\ task \in [Conn -> Task \cup {NoTask}]
  /\ status \in [Conn -> {"Inuse", "Idle"}]
  /\ cancelled \in [Conn -> BOOLEAN]
  /\ route \in [Conn -> Route]
  /\ timer \in [Task -> {"free", "scheduled", "running"}]
  /\ ttl \in [Task -> 0..KeepAliveTimeout]

EngineTypes ==
  /\ listener \in [Conn -> Engine \cup {NoEngine}]
  /\ pc \in [Engine -> Without \cup Stored \cup
                       {"got", "listening", "body", "execTaken", "otherTaken", "decide", "done"}]
  /\ econn \in [Engine -> Conn \cup {NoConn}]
  /\ lconn \in [Engine -> Conn \cup {NoConn}]
  /\ cconn \in [Engine -> Conn \cup {NoConn}]
  /\ cpc \in [Engine -> {"none", "copied", "shut", "finished"}]
  /\ ecancelled \in [Engine -> BOOLEAN] /\ reused \in [Engine -> BOOLEAN]
  /\ forced \in [Engine -> BOOLEAN] /\ retried \in [Engine -> BOOLEAN]
  /\ life \in [Engine -> {"alive", "dying", "dead"}]

(* Which of the pointers is set, for every place of the engine's thread.     *)
Pointers(e) ==
  /\ lconn[e] = NoConn <=> pc[e] \in Without \cup {"done"}
  /\ pc[e] \in Stored => econn[e] = lconn[e]
  /\ pc[e] = "body" => econn[e] = IF life[e] = "dead" THEN NoConn ELSE lconn[e]
  /\ pc[e] \notin Stored \cup {"body", "done"} => econn[e] = NoConn
  /\ life[e] # "alive" => pc[e] \in {"body", "done", "failed"}

(* A connection has one owner, and the pool does not offer it.               *)
OneOwner ==
  \A e \in Engine : lconn[e] # NoConn =>
    /\ lconn[e] \in pool => status[lconn[e]] = "Inuse"
    /\ \A f \in Engine : lconn[f] = lconn[e] => f = e

(* What a closed stream left in m_pConnectionInternal is nobody's connection. *)
LeftOver ==
  \A e \in Engine : pc[e] = "done" /\ econn[e] # NoConn =>
    econn[e] \notin pool /\ \A f \in Engine : lconn[f] # econn[e]

(* The listener of a pooled connection is its owner, which is not destroyed, *)
(* and an owner that has got as far as setConnectionStatusListener is the    *)
(* listener of its connection until it is destroyed.                         *)
ListenerIsOwner ==
  /\ \A c \in pool : listener[c] # NoEngine =>
       lconn[listener[c]] = c /\ life[listener[c]] # "dead"
  /\ \A e \in Engine :
       pc[e] \notin Without \cup {"got", "done"} /\ life[e] # "dead" => listener[lconn[e]] = e

(* A connection in use in the pool has an owner, which has not yet removed   *)
(* it.                                                                       *)
InuseIsOwned ==
  /\ \A c \in pool : status[c] = "Inuse" => \E e \in Engine : lconn[e] = c
  /\ \A e \in Engine : pc[e] = "decide" => lconn[e] \notin pool

(* Where cancel() is, and what it has done to an exchange that got past the  *)
(* cancel check after connect.                                               *)
CancelReached(e) ==
  /\ ecancelled[e] <=> cpc[e] # "none"
  /\ cconn[e] # NoConn <=> cpc[e] \in {"copied", "shut"}
  /\ pc[e] = "receiving" /\ ecancelled[e] =>
       IF cpc[e] = "copied" THEN cconn[e] = lconn[e] ELSE cancelled[lconn[e]]

(* Only a forced connection follows a retry, and it is not a reused one.     *)
RetryForces(e) ==
  /\ retried[e] = forced[e]
  /\ forced[e] /\ pc[e] # "start" => ~reused[e]

ExchangeInv ==
  /\ EngineTypes /\ PoolTypes
  /\ \A e \in Engine : Pointers(e) /\ CancelReached(e) /\ RetryForces(e)
  /\ OneOwner
  /\ LeftOver
  /\ ListenerIsOwner
  /\ InuseIsOwned

-----------------------------------------------------------------------------
(* The type invariant in these two parts: what the engines refer to is a set *)
(* of connections as soon as their pointers have their types.                *)
LEMMA TypeParts == TypeOK <=> EngineTypes /\ PoolTypes
<1>1. EngineTypes => Held \in SUBSET Conn
  BY DEF EngineTypes, Held, References
<1>2. QED BY <1>1 DEF TypeOK, EngineTypes, PoolTypes, Pool!TypeOK, Without, Stored

(* A connection is referred to by one of three pointers of some engine.      *)
LEMMA HeldBy ==
  ASSUME EngineTypes, NEW c \in Conn, EngineAssumption
  PROVE  c \in Held <=> \E e \in Engine : econn[e] = c \/ lconn[e] = c \/ cconn[e] = c
BY DEF Held, References, EngineAssumption, EngineTypes

(* releaseConnection leaves the connection idle or out of the map, and of    *)
(* the others it may only evict one.                                         *)
LEMMA ReleaseEffect ==
  ASSUME PoolTypes, EngineAssumption, NEW c \in Conn, Pool!ReleaseConnection(c)
  PROVE  /\ PoolTypes' /\ pool' \subseteq pool
         /\ c \in pool' => status'[c] = "Idle"
         /\ \A d \in Conn \ {c} : status'[d] = status[d]
         /\ UNCHANGED <<cancelled, route>>
<1> USE DEF PoolTypes, Pool!connVars, Pool!timerVars, Pool!poolVars
<1>1. CASE Pool!ReleaseUnknown(c) \/ Pool!ReleaseAlreadyIdle(c)
  BY <1>1 DEF Pool!ReleaseUnknown, Pool!ReleaseAlreadyIdle
<1>2. CASE Pool!ReleaseCancelled(c)
  BY <1>2 DEF Pool!ReleaseCancelled
<1>3. CASE \E t \in Task : Pool!ReleaseToIdle(c, t)
  <2>1. PICK t \in Task : Pool!ReleaseToIdle(c, t)
    BY <1>3
  <2> DEFINE idle == Pool!IdleConns \cup {c}
             task1 == [task EXCEPT ![c] = t]
             timer1 == [timer EXCEPT ![t] = "scheduled"]
  <2>2. /\ c \in pool
        /\ status' = [status EXCEPT ![c] = "Idle"]
        /\ ttl' = [ttl EXCEPT ![t] = KeepAliveTimeout]
        /\ UNCHANGED <<cancelled, route>>
        /\ Pool!UpdateConnections(idle, task1, timer1, ttl')
    BY <2>1 DEF Pool!ReleaseToIdle
  <2>3. /\ task1 \in [Conn -> Task \cup {NoTask}]
        /\ timer1 \in [Task -> {"free", "scheduled", "running"}]
        /\ ttl' \in [Task -> 0..KeepAliveTimeout]
    BY <2>2 DEF EngineAssumption
  <2> HIDE DEF idle, task1, timer1
  <2>4. /\ pool' \subseteq pool
        /\ task' \in [Conn -> Task \cup {NoTask}]
        /\ timer' \in [Task -> {"free", "scheduled", "running"}]
    BY ONLY <2>2, <2>3 DEF Pool!UpdateConnections, Pool!CancelTask
  <2>5. QED BY <2>2, <2>3, <2>4
<1>4. QED BY <1>1, <1>2, <1>3 DEF Pool!ReleaseConnection

(* The timer only takes connections out of the map.                          *)
LEMMA TimerEffect ==
  ASSUME PoolTypes, EngineAssumption, Pool!TimerStep
  PROVE  PoolTypes' /\ pool' \subseteq pool /\ UNCHANGED <<status, cancelled, route>>
<1> USE DEF PoolTypes, Pool!connVars
<1>1. CASE Pool!Tick
  BY <1>1 DEF Pool!Tick, EngineAssumption
<1>2. ASSUME NEW t \in Task, Pool!TimerStart(t) \/ Pool!TimerRun(t)
      PROVE  PoolTypes' /\ pool' \subseteq pool /\ UNCHANGED <<status, cancelled, route>>
  BY <1>2 DEF Pool!TimerStart, Pool!TimerRun
<1>3. QED BY <1>1, <1>2 DEF Pool!TimerStep

-----------------------------------------------------------------------------
LEMMA ExchangeInvInit ==
  ASSUME EngineAssumption, Init
  PROVE  ExchangeInv
<1>1. EngineTypes /\ PoolTypes
  BY DEF Init, EngineTypes, PoolTypes, EngineAssumption, Without
<1>2. QED BY <1>1 DEF Init, ExchangeInv, EngineAssumption, Pointers, CancelReached, RetryForces,
               OneOwner, LeftOver, ListenerIsOwner, InuseIsOwned, Without, Stored

(* The steps of an exchange that touch neither the pool nor a listener.      *)
LEMMA LocalSteps ==
  ASSUME EngineAssumption, ExchangeInv, NEW e \in Engine,
         \/ CheckCancelBeforeConnect(e) \/ FindNoIdle(e) \/ CreateFails(e)
         \/ StoreConnection(e) \/ SendRequest(e) \/ CheckCancelAfterConnect(e)
         \/ ReceiveFails(e) \/ TakeFailedConnection(e) \/ GiveUp(e)
         \/ DestroyEngine(e) \/ Cancel(e)
  PROVE  ExchangeInv'
<1> USE DEF ExchangeInv, Goto, poolVars, connVars, timerVars, cancelVars, runVars
<1>1. CASE CheckCancelBeforeConnect(e)
  <2>1. EngineTypes' /\ PoolTypes'
    BY <1>1 DEF CheckCancelBeforeConnect, EngineTypes, PoolTypes, Without, Stored
  <2>2. \A f \in Engine : Pointers(f)' /\ CancelReached(f)' /\ RetryForces(f)'
    BY <1>1 DEF CheckCancelBeforeConnect, Pointers, CancelReached, RetryForces, EngineTypes,
       Without, Stored
  <2>3. OneOwner' /\ LeftOver' /\ ListenerIsOwner' /\ InuseIsOwned'
    BY <1>1 DEF CheckCancelBeforeConnect, Pointers, OneOwner, LeftOver, ListenerIsOwner,
       InuseIsOwned, EngineTypes,
         Without, Stored
  <2>4. QED BY <2>1, <2>2, <2>3
<1>2. CASE FindNoIdle(e)
  <2>1. EngineTypes' /\ PoolTypes'
    BY <1>2 DEF FindNoIdle, EngineTypes, PoolTypes, Without, Stored
  <2>2. \A f \in Engine : Pointers(f)' /\ CancelReached(f)' /\ RetryForces(f)'
    BY <1>2 DEF FindNoIdle, Pointers, CancelReached, RetryForces, EngineTypes, Without, Stored
  <2>3. OneOwner' /\ LeftOver' /\ ListenerIsOwner' /\ InuseIsOwned'
    BY <1>2 DEF FindNoIdle, Pointers, OneOwner, LeftOver, ListenerIsOwner, InuseIsOwned,
       EngineTypes,
         Without, Stored
  <2>4. QED BY <2>1, <2>2, <2>3
<1>3. CASE CreateFails(e)
  <2>1. EngineTypes' /\ PoolTypes'
    BY <1>3 DEF CreateFails, EngineTypes, PoolTypes, Without, Stored
  <2>2. \A f \in Engine : Pointers(f)' /\ CancelReached(f)' /\ RetryForces(f)'
    BY <1>3 DEF CreateFails, Pointers, CancelReached, RetryForces, EngineTypes, Without, Stored
  <2>3. OneOwner' /\ LeftOver' /\ ListenerIsOwner' /\ InuseIsOwned'
    BY <1>3 DEF CreateFails, Pointers, OneOwner, LeftOver, ListenerIsOwner, InuseIsOwned,
       EngineTypes,
         Without, Stored
  <2>4. QED BY <2>1, <2>2, <2>3
<1>4. CASE StoreConnection(e)
  <2>1. EngineTypes' /\ PoolTypes'
    BY <1>4 DEF StoreConnection, EngineTypes, PoolTypes, Without, Stored
  <2>2. \A f \in Engine : Pointers(f)' /\ CancelReached(f)' /\ RetryForces(f)'
    BY <1>4 DEF StoreConnection, Pointers, CancelReached, RetryForces, EngineTypes, Without, Stored
  <2>3. OneOwner' /\ LeftOver' /\ ListenerIsOwner' /\ InuseIsOwned'
    BY <1>4 DEF StoreConnection, Pointers, OneOwner, LeftOver, ListenerIsOwner, InuseIsOwned,
       EngineTypes,
         Without, Stored
  <2>4. QED BY <2>1, <2>2, <2>3
<1>5. CASE SendRequest(e)
  <2>1. EngineTypes' /\ PoolTypes'
    BY <1>5 DEF SendRequest, EngineTypes, PoolTypes, Without, Stored
  <2>2. \A f \in Engine : Pointers(f)' /\ CancelReached(f)' /\ RetryForces(f)'
    BY <1>5 DEF SendRequest, Pointers, CancelReached, RetryForces, EngineTypes, Without, Stored
  <2>3. OneOwner' /\ LeftOver' /\ ListenerIsOwner' /\ InuseIsOwned'
    BY <1>5 DEF SendRequest, Pointers, OneOwner, LeftOver, ListenerIsOwner, InuseIsOwned,
       EngineTypes,
         Without, Stored
  <2>4. QED BY <2>1, <2>2, <2>3
<1>6. CASE CheckCancelAfterConnect(e)
  <2>1. EngineTypes' /\ PoolTypes'
    BY <1>6 DEF CheckCancelAfterConnect, EngineTypes, PoolTypes, Without, Stored
  <2>2. \A f \in Engine : Pointers(f)' /\ CancelReached(f)' /\ RetryForces(f)'
    BY <1>6 DEF CheckCancelAfterConnect, Pointers, CancelReached, RetryForces, EngineTypes,
       Without, Stored
  <2>3. OneOwner' /\ LeftOver' /\ ListenerIsOwner' /\ InuseIsOwned'
    BY <1>6 DEF CheckCancelAfterConnect, Pointers, OneOwner, LeftOver, ListenerIsOwner,
       InuseIsOwned, EngineTypes,
         Without, Stored
  <2>4. QED BY <2>1, <2>2, <2>3
<1>7. CASE ReceiveFails(e)
  <2>1. EngineTypes' /\ PoolTypes'
    BY <1>7 DEF ReceiveFails, EngineTypes, PoolTypes, Without, Stored
  <2>2. \A f \in Engine : Pointers(f)' /\ CancelReached(f)' /\ RetryForces(f)'
    BY <1>7 DEF ReceiveFails, Pointers, CancelReached, RetryForces, EngineTypes, Without, Stored
  <2>3. OneOwner' /\ LeftOver' /\ ListenerIsOwner' /\ InuseIsOwned'
    BY <1>7 DEF ReceiveFails, Pointers, OneOwner, LeftOver, ListenerIsOwner, InuseIsOwned,
       EngineTypes,
         Without, Stored
  <2>4. QED BY <2>1, <2>2, <2>3
<1>8. CASE TakeFailedConnection(e)
  <2>1. EngineTypes' /\ PoolTypes'
    BY <1>8 DEF TakeFailedConnection, EngineTypes, PoolTypes, Without, Stored
  <2>2. \A f \in Engine : Pointers(f)' /\ CancelReached(f)' /\ RetryForces(f)'
    BY <1>8 DEF TakeFailedConnection, Pointers, CancelReached, RetryForces, EngineTypes, Without,
       Stored
  <2>3. OneOwner' /\ LeftOver' /\ ListenerIsOwner' /\ InuseIsOwned'
    BY <1>8 DEF TakeFailedConnection, Pointers, OneOwner, LeftOver, ListenerIsOwner, InuseIsOwned,
       EngineTypes,
         Without, Stored
  <2>4. QED BY <2>1, <2>2, <2>3
<1>9. CASE GiveUp(e)
  <2>1. EngineTypes' /\ PoolTypes'
    BY <1>9 DEF GiveUp, EngineTypes, PoolTypes, Without, Stored
  <2>2. \A f \in Engine : Pointers(f)' /\ CancelReached(f)' /\ RetryForces(f)'
    BY <1>9 DEF GiveUp, Pointers, CancelReached, RetryForces, EngineTypes, Without, Stored
  <2>3. OneOwner' /\ LeftOver' /\ ListenerIsOwner' /\ InuseIsOwned'
    BY <1>9 DEF GiveUp, Pointers, OneOwner, LeftOver, ListenerIsOwner, InuseIsOwned, EngineTypes,
         Without, Stored
  <2>4. QED BY <2>1, <2>2, <2>3
<1>10. CASE DestroyEngine(e)
  <2>0. lconn[e] # NoConn => life'[e] = "dying"
    BY <1>10 DEF DestroyEngine, CanDestroy, Pointers, EngineTypes, Without
  <2>1. EngineTypes' /\ PoolTypes'
    BY <1>10 DEF DestroyEngine, EngineTypes, PoolTypes, Without, Stored
  <2>2. \A f \in Engine : Pointers(f)'
    BY <1>10, <2>0 DEF DestroyEngine, CanDestroy, Pointers, EngineTypes, Without, Stored
  <2>3. \A f \in Engine : CancelReached(f)' /\ RetryForces(f)'
    BY <1>10 DEF DestroyEngine, CancelReached, RetryForces
  <2>4. ListenerIsOwner'
    <3>1. \A f \in Engine : life'[f] = "dead" /\ f # e => life[f] = "dead"
      BY <1>10 DEF DestroyEngine, EngineTypes
    <3>2. \A f \in Engine : life'[f] # "dead" => life[f] # "dead"
      BY <1>10 DEF DestroyEngine, CanDestroy, EngineTypes
    <3>3. \A c \in pool : listener[c] # NoEngine => listener[c] \in Engine /\ c # NoConn
      BY DEF EngineTypes, PoolTypes, EngineAssumption
    <3>4. QED BY <1>10, <2>0, <3>1, <3>2, <3>3 DEF DestroyEngine, ListenerIsOwner
  <2>5. OneOwner' /\ LeftOver' /\ InuseIsOwned'
    BY <1>10 DEF DestroyEngine, OneOwner, LeftOver, InuseIsOwned
  <2>6. QED BY <2>1, <2>2, <2>3, <2>4, <2>5
<1>11. CASE Cancel(e)
  <2>1. EngineTypes' /\ PoolTypes'
    BY <1>11 DEF Cancel, EngineTypes, PoolTypes, Without, Stored
  <2>2. \A f \in Engine : Pointers(f)' /\ CancelReached(f)' /\ RetryForces(f)'
    BY <1>11 DEF Cancel, Pointers, CancelReached, RetryForces, EngineTypes, Without, Stored
  <2>3. OneOwner' /\ LeftOver' /\ ListenerIsOwner' /\ InuseIsOwned'
    BY <1>11 DEF Cancel, Pointers, OneOwner, LeftOver, ListenerIsOwner, InuseIsOwned, EngineTypes,
         Without, Stored
  <2>4. QED BY <2>1, <2>2, <2>3
<1>12. QED BY <1>1, <1>2, <1>3, <1>4, <1>5, <1>6, <1>7, <1>8, <1>9, <1>10, <1>11

(* The steps that take a connection out of the pool's map.                   *)
LEMMA RemovingSteps ==
  ASSUME EngineAssumption, ExchangeInv, NEW e \in Engine,
         \/ ReceiveResponse(e) \/ RethrowOtherError(e) \/ RemoveFailedConnection(e)
         \/ CloseStreamUnread(e) \/ CancelRemove(e)
  PROVE  ExchangeInv'
<1> USE DEF ExchangeInv, Goto, poolVars, connVars, timerVars, cancelVars, runVars,
            Pool!RemoveConnection, Pool!connVars, Pool!timerVars
<1>1. CASE ReceiveResponse(e)
  <2>1. EngineTypes' /\ PoolTypes'
    BY <1>1 DEF ReceiveResponse, EngineTypes, PoolTypes, Without, Stored
  <2>2. \A f \in Engine : Pointers(f)' /\ CancelReached(f)' /\ RetryForces(f)'
    BY <1>1 DEF ReceiveResponse, Pointers, CancelReached, RetryForces, OneOwner, EngineTypes,
         PoolTypes, Without, Stored
  <2>3. OneOwner' /\ LeftOver'
    BY <1>1 DEF ReceiveResponse, Pointers, OneOwner, LeftOver, EngineTypes, PoolTypes, Without,
       Stored
  <2>4. ListenerIsOwner'
    BY <1>1 DEF ReceiveResponse, Pointers, OneOwner, ListenerIsOwner, EngineTypes, PoolTypes,
         Without, Stored
  <2>5. InuseIsOwned'
    BY <1>1 DEF ReceiveResponse, Pointers, OneOwner, InuseIsOwned, EngineTypes, PoolTypes,
         Without, Stored
  <2>6. QED BY <2>1, <2>2, <2>3, <2>4, <2>5
<1>2. CASE RethrowOtherError(e)
  <2>1. EngineTypes' /\ PoolTypes'
    BY <1>2 DEF RethrowOtherError, EngineTypes, PoolTypes, Without, Stored
  <2>2. \A f \in Engine : Pointers(f)' /\ CancelReached(f)' /\ RetryForces(f)'
    BY <1>2 DEF RethrowOtherError, Pointers, CancelReached, RetryForces, OneOwner, EngineTypes,
         PoolTypes, Without, Stored
  <2>3. OneOwner' /\ LeftOver'
    BY <1>2 DEF RethrowOtherError, Pointers, OneOwner, LeftOver, EngineTypes, PoolTypes, Without,
       Stored
  <2>4. ListenerIsOwner'
    BY <1>2 DEF RethrowOtherError, Pointers, OneOwner, ListenerIsOwner, EngineTypes, PoolTypes,
         Without, Stored
  <2>5. InuseIsOwned'
    BY <1>2 DEF RethrowOtherError, Pointers, OneOwner, InuseIsOwned, EngineTypes, PoolTypes,
         Without, Stored
  <2>6. QED BY <2>1, <2>2, <2>3, <2>4, <2>5
<1>3. CASE RemoveFailedConnection(e)
  <2>1. EngineTypes' /\ PoolTypes'
    BY <1>3 DEF RemoveFailedConnection, EngineTypes, PoolTypes, Without, Stored
  <2>2. \A f \in Engine : Pointers(f)' /\ CancelReached(f)' /\ RetryForces(f)'
    BY <1>3 DEF RemoveFailedConnection, Pointers, CancelReached, RetryForces, OneOwner, EngineTypes,
         PoolTypes, Without, Stored
  <2>3. OneOwner' /\ LeftOver'
    BY <1>3 DEF RemoveFailedConnection, Pointers, OneOwner, LeftOver, EngineTypes, PoolTypes,
       Without, Stored
  <2>4. ListenerIsOwner'
    BY <1>3 DEF RemoveFailedConnection, Pointers, OneOwner, ListenerIsOwner, EngineTypes, PoolTypes,
         Without, Stored
  <2>5. InuseIsOwned'
    BY <1>3 DEF RemoveFailedConnection, Pointers, OneOwner, InuseIsOwned, EngineTypes, PoolTypes,
         Without, Stored
  <2>6. QED BY <2>1, <2>2, <2>3, <2>4, <2>5
<1>4. CASE CloseStreamUnread(e)
  <2>1. EngineTypes' /\ PoolTypes'
    BY <1>4 DEF CloseStreamUnread, EngineTypes, PoolTypes, Without, Stored
  <2>2. \A f \in Engine : Pointers(f)' /\ CancelReached(f)' /\ RetryForces(f)'
    BY <1>4 DEF CloseStreamUnread, Pointers, CancelReached, RetryForces, OneOwner, EngineTypes,
         PoolTypes, Without, Stored
  <2>3. OneOwner' /\ LeftOver'
    BY <1>4 DEF CloseStreamUnread, Pointers, OneOwner, LeftOver, EngineTypes, PoolTypes, Without,
       Stored
  <2>4. ListenerIsOwner'
    BY <1>4 DEF CloseStreamUnread, Pointers, OneOwner, ListenerIsOwner, EngineTypes, PoolTypes,
         Without, Stored
  <2>5. InuseIsOwned'
    BY <1>4 DEF CloseStreamUnread, Pointers, OneOwner, InuseIsOwned, EngineTypes, PoolTypes,
         Without, Stored
  <2>6. QED BY <2>1, <2>2, <2>3, <2>4, <2>5
<1>5. CASE CancelRemove(e)
  <2>1. EngineTypes' /\ PoolTypes'
    BY <1>5 DEF CancelRemove, EngineTypes, PoolTypes, Without, Stored
  <2>2. \A f \in Engine : Pointers(f)' /\ CancelReached(f)' /\ RetryForces(f)'
    BY <1>5 DEF CancelRemove, Pointers, CancelReached, RetryForces, OneOwner, EngineTypes,
         PoolTypes, Without, Stored
  <2>3. OneOwner' /\ LeftOver'
    BY <1>5 DEF CancelRemove, Pointers, OneOwner, LeftOver, EngineTypes, PoolTypes, Without, Stored
  <2>4. ListenerIsOwner'
    BY <1>5 DEF CancelRemove, Pointers, OneOwner, ListenerIsOwner, EngineTypes, PoolTypes,
         Without, Stored
  <2>5. InuseIsOwned'
    BY <1>5 DEF CancelRemove, Pointers, OneOwner, InuseIsOwned, EngineTypes, PoolTypes,
         Without, Stored
  <2>6. QED BY <2>1, <2>2, <2>3, <2>4, <2>5
<1>6. QED BY <1>1, <1>2, <1>3, <1>4, <1>5

(* The steps that attach a listener to a connection or detach it, and the    *)
(* shutdown by cancel().                                                     *)
LEMMA ListenerSteps ==
  ASSUME EngineAssumption, ExchangeInv, NEW e \in Engine,
         \/ SetListener(e) \/ RetryOnNewConnection(e) \/ DetachListener(e) \/ CancelShutdown(e)
  PROVE  ExchangeInv'
<1> USE DEF ExchangeInv, Goto, poolVars, connVars, timerVars, cancelVars, runVars
<1>1. CASE SetListener(e)
  <2>1. EngineTypes' /\ PoolTypes'
    BY <1>1 DEF SetListener, EngineTypes, PoolTypes, EngineAssumption, Without, Stored
  <2>2. \A f \in Engine : Pointers(f)' /\ CancelReached(f)' /\ RetryForces(f)'
    BY <1>1 DEF SetListener, Pointers, CancelReached, RetryForces, OneOwner, EngineTypes,
         PoolTypes, EngineAssumption, Without, Stored
  <2>3. OneOwner' /\ LeftOver'
    BY <1>1 DEF SetListener, Pointers, OneOwner, LeftOver, EngineTypes, PoolTypes, EngineAssumption,
         Without, Stored
  <2>4. ListenerIsOwner'
    BY <1>1 DEF SetListener, Pointers, OneOwner, ListenerIsOwner, EngineTypes, PoolTypes,
         EngineAssumption, Without, Stored
  <2>5. InuseIsOwned'
    BY <1>1 DEF SetListener, Pointers, OneOwner, InuseIsOwned, EngineTypes, PoolTypes,
         EngineAssumption, Without, Stored
  <2>6. QED BY <2>1, <2>2, <2>3, <2>4, <2>5
<1>2. CASE RetryOnNewConnection(e)
  <2>1. EngineTypes' /\ PoolTypes'
    BY <1>2 DEF RetryOnNewConnection, EngineTypes, PoolTypes, EngineAssumption, Without, Stored
  <2>2. \A f \in Engine : Pointers(f)' /\ CancelReached(f)' /\ RetryForces(f)'
    <3>1. \A f \in Engine : Pointers(f)'
      BY <1>2 DEF RetryOnNewConnection, Pointers, EngineTypes, Without, Stored
    <3>2. \A f \in Engine : CancelReached(f)'
      BY <1>2 DEF RetryOnNewConnection, CancelReached, EngineTypes
    <3>3. \A f \in Engine : RetryForces(f)'
      BY <1>2 DEF RetryOnNewConnection, RetryForces, EngineTypes
    <3>4. QED BY <3>1, <3>2, <3>3
  <2>3. OneOwner' /\ LeftOver'
    BY <1>2 DEF RetryOnNewConnection, Pointers, OneOwner, LeftOver, EngineTypes, PoolTypes,
       EngineAssumption,
         Without, Stored
  <2>4. ListenerIsOwner'
    BY <1>2 DEF RetryOnNewConnection, Pointers, OneOwner, ListenerIsOwner, EngineTypes, PoolTypes,
         EngineAssumption, Without, Stored
  <2>5. InuseIsOwned'
    BY <1>2 DEF RetryOnNewConnection, Pointers, OneOwner, InuseIsOwned, EngineTypes, PoolTypes,
         EngineAssumption, Without, Stored
  <2>6. QED BY <2>1, <2>2, <2>3, <2>4, <2>5
<1>3. CASE DetachListener(e)
  <2>1. EngineTypes' /\ PoolTypes'
    BY <1>3 DEF DetachListener, EngineTypes, PoolTypes, EngineAssumption, Without, Stored
  <2>2. \A f \in Engine : Pointers(f)' /\ CancelReached(f)' /\ RetryForces(f)'
    BY <1>3 DEF DetachListener, Pointers, CancelReached, RetryForces, OneOwner, EngineTypes,
         PoolTypes, EngineAssumption, Without, Stored
  <2>3. OneOwner' /\ LeftOver'
    BY <1>3 DEF DetachListener, Pointers, OneOwner, LeftOver, EngineTypes, PoolTypes,
       EngineAssumption,
         Without, Stored
  <2>4. ListenerIsOwner'
    <3>1. \A f \in Engine \ {e} : lconn[f] # NoConn => lconn[f] # econn[e]
      BY <1>3 DEF DetachListener, Pointers, OneOwner, LeftOver, EngineTypes, EngineAssumption,
         Stored
    <3>2. \A c \in pool : listener'[c] # NoEngine => listener'[c] = listener[c] /\ listener[c] # e
      BY <1>3 DEF DetachListener, Pointers, ListenerIsOwner, EngineTypes, PoolTypes,
         EngineAssumption,
           Without, Stored
    <3>3. \A f \in Engine \ {e} : lconn[f] # NoConn => listener'[lconn[f]] = listener[lconn[f]]
      BY <1>3, <3>1 DEF DetachListener, EngineTypes
    <3>4. \A f \in Engine \ {e} : life'[f] = life[f]
      BY <1>3 DEF DetachListener, EngineTypes
    <3>5. life'[e] = "dead" /\ UNCHANGED <<pool, pc, lconn>>
      BY <1>3 DEF DetachListener, EngineTypes
    <3>6. ASSUME NEW f \in Engine, pc[f] \notin Without \cup {"got", "done"}, life'[f] # "dead"
          PROVE  listener'[lconn[f]] = f
      BY <3>3, <3>4, <3>5, <3>6 DEF ListenerIsOwner, Pointers
    <3>7. ASSUME NEW c \in pool, listener'[c] # NoEngine
          PROVE  lconn[listener'[c]] = c /\ life'[listener'[c]] # "dead"
      BY <3>2, <3>4, <3>7 DEF ListenerIsOwner, EngineTypes, PoolTypes
    <3>8. QED BY <3>5, <3>6, <3>7 DEF ListenerIsOwner
  <2>5. InuseIsOwned'
    BY <1>3 DEF DetachListener, Pointers, OneOwner, InuseIsOwned, EngineTypes, PoolTypes,
         EngineAssumption, Without, Stored
  <2>6. QED BY <2>1, <2>2, <2>3, <2>4, <2>5
<1>4. CASE CancelShutdown(e)
  <2>1. EngineTypes' /\ PoolTypes'
    BY <1>4 DEF CancelShutdown, EngineTypes, PoolTypes, EngineAssumption, Without, Stored,
       Pool!CancelConnection, Pool!timerVars
  <2>2. \A f \in Engine : Pointers(f)' /\ CancelReached(f)' /\ RetryForces(f)'
    BY <1>4 DEF CancelShutdown, Pointers, CancelReached, RetryForces, OneOwner, EngineTypes,
         PoolTypes, EngineAssumption, Without, Stored, Pool!CancelConnection, Pool!timerVars
  <2>3. OneOwner' /\ LeftOver'
    BY <1>4 DEF CancelShutdown, Pointers, OneOwner, LeftOver, EngineTypes, PoolTypes,
       EngineAssumption,
         Without, Stored, Pool!CancelConnection, Pool!timerVars
  <2>4. ListenerIsOwner'
    BY <1>4 DEF CancelShutdown, Pointers, OneOwner, ListenerIsOwner, EngineTypes, PoolTypes,
         EngineAssumption, Without, Stored, Pool!CancelConnection, Pool!timerVars
  <2>5. InuseIsOwned'
    BY <1>4 DEF CancelShutdown, Pointers, OneOwner, InuseIsOwned, EngineTypes, PoolTypes,
         EngineAssumption, Without, Stored, Pool!CancelConnection, Pool!timerVars
  <2>6. QED BY <2>1, <2>2, <2>3, <2>4, <2>5
<1>5. QED BY <1>1, <1>2, <1>3, <1>4

(* getConnection: an idle connection has no owner, and a fresh one is not    *)
(* even referred to.                                                         *)
LEMMA TakingSteps ==
  ASSUME EngineAssumption, ExchangeInv, NEW e \in Engine, NEW c \in Conn,
         TakeIdle(e, c) \/ TakeNew(e, c)
  PROVE  ExchangeInv'
<1> USE DEF ExchangeInv, Goto, poolVars, connVars, timerVars, cancelVars, runVars,
            Pool!connVars, Pool!timerVars
<1>1. CASE TakeIdle(e, c)
  <2>0. \A f \in Engine : lconn[f] # c
    BY <1>1 DEF TakeIdle, Pool!ReuseConnection, Pool!Reusable, OneOwner, EngineAssumption
  <2>1. EngineTypes' /\ PoolTypes'
    BY <1>1 DEF TakeIdle, EngineTypes, PoolTypes, EngineAssumption, Without, Stored,
       Pool!ReuseConnection, Pool!Reusable, Pool!CancelTask
  <2>2. \A f \in Engine : Pointers(f)' /\ CancelReached(f)' /\ RetryForces(f)'
    BY <1>1, <2>0 DEF TakeIdle, Pointers, CancelReached, RetryForces, OneOwner, EngineTypes,
         PoolTypes, EngineAssumption, Without, Stored, Pool!ReuseConnection, Pool!Reusable, Pool!CancelTask
  <2>3. OneOwner' /\ LeftOver'
    BY <1>1, <2>0 DEF TakeIdle, Pointers, OneOwner, LeftOver, EngineTypes, PoolTypes,
       EngineAssumption,
         Without, Stored, Pool!ReuseConnection, Pool!Reusable, Pool!CancelTask
  <2>4. ListenerIsOwner'
    BY <1>1, <2>0 DEF TakeIdle, Pointers, OneOwner, ListenerIsOwner, EngineTypes, PoolTypes,
         EngineAssumption, Without, Stored, Pool!ReuseConnection, Pool!Reusable, Pool!CancelTask
  <2>5. InuseIsOwned'
    BY <1>1, <2>0 DEF TakeIdle, Pointers, OneOwner, InuseIsOwned, EngineTypes, PoolTypes,
         EngineAssumption, Without, Stored, Pool!ReuseConnection, Pool!Reusable, Pool!CancelTask
  <2>6. QED BY <2>1, <2>2, <2>3, <2>4, <2>5
<1>2. CASE TakeNew(e, c)
  <2>0. \A f \in Engine : lconn[f] # c /\ econn[f] # c /\ cconn[f] # c
    BY <1>2, HeldBy DEF TakeNew, Pool!Fresh
  <2>1. EngineTypes' /\ PoolTypes'
    BY <1>2 DEF TakeNew, EngineTypes, PoolTypes, EngineAssumption, Without, Stored,
       Pool!CreateConnection
  <2>2. \A f \in Engine : Pointers(f)' /\ CancelReached(f)' /\ RetryForces(f)'
    BY <1>2, <2>0 DEF TakeNew, Pointers, CancelReached, RetryForces, OneOwner, EngineTypes,
         PoolTypes, EngineAssumption, Without, Stored, Pool!CreateConnection
  <2>3. OneOwner' /\ LeftOver'
    BY <1>2, <2>0 DEF TakeNew, Pointers, OneOwner, LeftOver, EngineTypes, PoolTypes,
       EngineAssumption,
         Without, Stored, Pool!CreateConnection
  <2>4. ListenerIsOwner'
    BY <1>2, <2>0 DEF TakeNew, Pointers, OneOwner, ListenerIsOwner, EngineTypes, PoolTypes,
         EngineAssumption, Without, Stored, Pool!CreateConnection
  <2>5. InuseIsOwned'
    BY <1>2, <2>0 DEF TakeNew, Pointers, OneOwner, InuseIsOwned, EngineTypes, PoolTypes,
         EngineAssumption, Without, Stored, Pool!CreateConnection
  <2>6. QED BY <2>1, <2>2, <2>3, <2>4, <2>5
<1>3. QED BY <1>1, <1>2

(* The end of a body that was read: the connection goes back as idle, and    *)
(* before that its listener, which is the owner, forgets it.                 *)
LEMMA ReusableCloseStep ==
  ASSUME EngineAssumption, ExchangeInv, NEW e \in Engine, CloseStreamReusable(e)
  PROVE  ExchangeInv'
<1> USE DEF ExchangeInv
<1> DEFINE c == lconn[e]
<1>1. /\ pc[e] = "body" /\ pc' = [pc EXCEPT ![e] = "done"]
      /\ lconn' = [lconn EXCEPT ![e] = NoConn]
      /\ Pool!ReleaseConnection(c) /\ OnIdle(c)
      /\ UNCHANGED <<reused, forced, retried, ecancelled, cpc, cconn, life>>
  BY DEF CloseStreamReusable, Goto, cancelVars
<1>2. /\ c \in Conn
      /\ econn[e] = IF life[e] = "dead" THEN NoConn ELSE c
      /\ life[e] # "dead" => listener[c] = e
      /\ \A f \in Engine \ {e} : lconn[f] # c /\ econn[f] # c
  BY <1>1 DEF Pointers, OneOwner, LeftOver, ListenerIsOwner, EngineTypes, EngineAssumption,
     Without, Stored
<1>3. /\ PoolTypes' /\ pool' \subseteq pool
      /\ c \in pool' => status'[c] = "Idle"
      /\ \A d \in Conn \ {c} : status'[d] = status[d]
      /\ UNCHANGED <<cancelled, route>>
  BY <1>1, <1>2, ReleaseEffect
<1>4. /\ econn' \in [Engine -> Conn \cup {NoConn}]
      /\ listener' \in [Conn -> Engine \cup {NoEngine}]
      /\ \A f \in Engine \ {e} : econn'[f] = econn[f]
      /\ \A d \in Conn \ {c} : listener'[d] = listener[d]
      /\ c \in pool => econn'[e] = NoConn /\ listener'[c] = NoEngine
      /\ econn'[e] \in {econn[e], NoConn}
  <2>1. c \in pool => listener[c] = IF life[e] = "dead" THEN NoEngine ELSE e
    BY <1>2 DEF ListenerIsOwner, EngineTypes
  <2>2. QED BY <1>1, <1>2, <2>1 DEF OnIdle, EngineTypes, EngineAssumption
<1> HIDE DEF c
<1>5. EngineTypes'
  BY <1>1, <1>4 DEF EngineTypes, Without, Stored
<1>6. /\ \A f \in Engine \ {e} : lconn'[f] = lconn[f] /\ pc'[f] = pc[f]
      /\ lconn'[e] = NoConn /\ pc'[e] = "done"
  BY <1>1 DEF EngineTypes
<1>7. \A f \in Engine : Pointers(f)'
  BY <1>1, <1>2, <1>4, <1>6 DEF Pointers, Without, Stored
<1>8. \A f \in Engine : CancelReached(f)' /\ RetryForces(f)'
  BY <1>1, <1>3, <1>6 DEF CancelReached, RetryForces
<1>9. OneOwner'
  BY <1>2, <1>3, <1>6 DEF OneOwner, EngineTypes
<1>10. LeftOver'
  BY <1>1, <1>2, <1>3, <1>4, <1>6 DEF LeftOver, EngineTypes, c
<1>11. ListenerIsOwner'
  <2>1. ASSUME NEW d \in pool', listener'[d] # NoEngine
        PROVE  lconn'[listener'[d]] = d /\ life'[listener'[d]] # "dead"
    <3>1. d \in pool /\ d \in Conn /\ d # c /\ listener'[d] = listener[d]
      BY <1>3, <1>4, <2>1 DEF PoolTypes
    <3>2. listener[d] \in Engine /\ lconn[listener[d]] = d /\ life[listener[d]] # "dead"
      BY <2>1, <3>1 DEF ListenerIsOwner, EngineTypes
    <3>3. QED BY <1>1, <1>6, <3>1, <3>2 DEF c
  <2>2. ASSUME NEW f \in Engine, pc'[f] \notin Without \cup {"got", "done"}, life'[f] # "dead"
        PROVE  listener'[lconn'[f]] = f
    <3>1. f # e /\ pc'[f] = pc[f] /\ lconn'[f] = lconn[f] /\ lconn[f] # c
      BY <1>2, <1>6, <2>2
    <3>2. lconn[f] \in Conn
      BY <2>2, <3>1 DEF Pointers, EngineTypes
    <3>3. QED BY <1>1, <1>4, <2>2, <3>1, <3>2 DEF ListenerIsOwner
  <2>3. QED BY <2>1, <2>2 DEF ListenerIsOwner
<1>12. InuseIsOwned'
  <2>1. ASSUME NEW d \in pool', status'[d] = "Inuse"
        PROVE  \E f \in Engine : lconn'[f] = d
    BY <1>3, <1>6, <2>1 DEF InuseIsOwned, PoolTypes, c
  <2>2. QED BY <1>3, <1>6, <2>1 DEF InuseIsOwned
<1>13. QED BY <1>3, <1>5, <1>7, <1>8, <1>9, <1>10, <1>11, <1>12

(* The clock and the timer thread touch no engine.                           *)
LEMMA TimerSteps ==
  ASSUME EngineAssumption, ExchangeInv, TimerStep
  PROVE  ExchangeInv'
<1>1. PoolTypes' /\ pool' \subseteq pool /\ UNCHANGED <<status, cancelled, route>>
  BY TimerEffect DEF TimerStep, ExchangeInv
<1>2. UNCHANGED <<listener, runVars, econn, cancelVars, life>>
  BY DEF TimerStep
<1>3. QED BY <1>1, <1>2 DEF ExchangeInv, runVars, cancelVars, EngineTypes, Pointers, CancelReached,
               RetryForces, OneOwner, LeftOver, ListenerIsOwner, InuseIsOwned

LEMMA ExchangeInvNext ==
  ASSUME EngineAssumption, ExchangeInv, [Next]_vars
  PROVE  ExchangeInv'
<1>1. ASSUME NEW e \in Engine, Run(e)
      PROVE  ExchangeInv'
  BY <1>1, LocalSteps, RemovingSteps, ListenerSteps, TakingSteps DEF Run
<1>2. ASSUME NEW e \in Engine, EndOfStream(e) \/ Destroy(e) \/ CancelStep(e)
      PROVE  ExchangeInv'
  BY <1>2, LocalSteps, RemovingSteps, ListenerSteps, ReusableCloseStep
     DEF EndOfStream, Destroy, CancelStep
<1>3. CASE TimerStep
  BY <1>3, TimerSteps
<1>4. CASE UNCHANGED vars
  BY <1>4 DEF vars, poolVars, connVars, timerVars, runVars, cancelVars, ExchangeInv, EngineTypes,
       PoolTypes, Pointers, CancelReached, RetryForces, OneOwner, LeftOver, ListenerIsOwner,
       InuseIsOwned
<1>5. QED BY <1>1, <1>2, <1>3, <1>4 DEF Next

(* The inductive invariant holds in every reachable state.                   *)
THEOREM ExchangeInvariant == Spec => []ExchangeInv
<1>1. EngineAssumption
  BY EngineAssumption
<1>2. Init => ExchangeInv
  BY <1>1, ExchangeInvInit
<1>3. ExchangeInv /\ [Next]_vars => ExchangeInv'
  BY <1>1, ExchangeInvNext
<1>4. QED BY <1>2, <1>3, PTL DEF Spec

-----------------------------------------------------------------------------
(* For every number of engines and connections and every interleaving of     *)
(* exchange, cancel(), close, timeout and destruction: a connection has at   *)
(* most one user, which the pool knows to be in use; cancel() can only shut  *)
(* down the connection of its own engine; no destroyed engine is called      *)
(* back; and an exchange is retried at most once.                            *)
THEOREM EngineIsSafe == Spec => []EngineInv
<1>1. ASSUME ExchangeInv
      PROVE  EngineInv
  <2> USE DEF ExchangeInv
  <2>0. EngineAssumption
    BY EngineAssumption
  <2>1. TypeOK
    BY <1>1, TypeParts
  <2>2. \A e \in Engine : \A c \in Using(e) : c = lconn[e] /\ c # NoConn
    BY <1>1 DEF Using, Pointers, Without
  <2>3. SoleUser
    BY <1>1, <2>2 DEF SoleUser, OneOwner
  <2>4. ReferenceIsOwn
    <3>1. ASSUME NEW e \in Engine, NEW f \in Engine, econn[e] # NoConn, e # f
          PROVE  econn[e] # lconn[f]
      BY <1>1, <3>1 DEF Pointers, OneOwner, LeftOver, Stored
    <3>2. QED BY <2>2, <3>1 DEF ReferenceIsOwn
  <2>5. NoDanglingListener
    BY <1>1 DEF ListenerIsOwner, NoDanglingListener
  <2>6. RetriesOnce
    BY <1>1 DEF RetryForces, RetriesOnce
  <2>7. QED BY <2>1, <2>3, <2>4, <2>5, <2>6 DEF EngineInv
<1>2. QED BY <1>1, ExchangeInvariant, PTL

(* cancel() reaches every exchange that waits for a response: once it has    *)
(* returned, that exchange waits on a connection that was shut down.         *)
THEOREM CancelReachesTheWaiter == Spec => []CancelNotLost
<1>1. ExchangeInv => CancelNotLost
  BY DEF ExchangeInv, CancelNotLost, CancelReached
<1>2. QED BY <1>1, ExchangeInvariant, PTL

(* No path through failure, retry, cancel and close leaves a connection in   *)
(* use in the pool with nobody left to give it back.                         *)
THEOREM NothingIsStranded == Spec => []NoStrandedConnection
<1>1. ExchangeInv => NoStrandedConnection
  BY DEF ExchangeInv, NoStrandedConnection, InuseIsOwned
<1>2. QED BY <1>1, ExchangeInvariant, PTL
-----------------------------------------------------------------------------
(* An engine that changes its own pointers only, and only as far as c is     *)
(* concerned, leaves everything but c referred to as before.                 *)
LEMMA HeldFrame ==
  ASSUME EngineAssumption, NEW e \in Engine, NEW c,
         \A f \in Engine \ {e} : econn'[f] = econn[f] /\ lconn'[f] = lconn[f] /\ cconn'[f] = cconn[f],
         {econn'[e], lconn'[e], cconn'[e]} \ {c, NoConn} = {econn[e], lconn[e], cconn[e]} \ {c, NoConn}
  PROVE  Held' \ {c} = Held \ {c}
<1>1. ASSUME NEW d, d # c, d # NoConn
      PROVE  d \in Held' <=> d \in Held
  <2>1. d \in {econn'[e], lconn'[e], cconn'[e]} <=> d \in {econn[e], lconn[e], cconn[e]}
    BY <1>1
  <2>2. d \in Held <=> \E f \in Engine : d \in {econn[f], lconn[f], cconn[f]}
    BY <1>1 DEF Held, References
  <2>3. d \in Held' <=> \E f \in Engine : d \in {econn'[f], lconn'[f], cconn'[f]}
    BY <1>1 DEF Held, References
  <2>4. QED BY <2>1, <2>2, <2>3
<1>2. NoConn \notin Held /\ NoConn \notin Held'
  BY DEF Held
<1>3. QED BY <1>1, <1>2

(* Steps that leave the pool alone and refer to the same connections.        *)
LEMMA StutteringSteps ==
  ASSUME EngineAssumption, ExchangeInv, NEW e \in Engine,
         \/ CheckCancelBeforeConnect(e) \/ FindNoIdle(e) \/ CreateFails(e)
         \/ SetListener(e) \/ StoreConnection(e) \/ SendRequest(e) \/ CheckCancelAfterConnect(e)
         \/ ReceiveFails(e) \/ TakeFailedConnection(e) \/ DestroyEngine(e) \/ Cancel(e)
  PROVE  UNCHANGED Pool!vars
<1> USE DEF ExchangeInv, EngineTypes, Goto, runVars, cancelVars
<1>1. \A f \in Engine \ {e} : econn'[f] = econn[f] /\ lconn'[f] = lconn[f] /\ cconn'[f] = cconn[f]
  BY DEF CheckCancelBeforeConnect, FindNoIdle, CreateFails, SetListener, StoreConnection,
         SendRequest, CheckCancelAfterConnect, ReceiveFails, TakeFailedConnection, DestroyEngine,
         Cancel
<1>2. {econn'[e], lconn'[e], cconn'[e]} \ {NoConn} = {econn[e], lconn[e], cconn[e]} \ {NoConn}
  <2>1. CASE CheckCancelBeforeConnect(e) \/ Cancel(e)
    BY <2>1 DEF CheckCancelBeforeConnect, Cancel, Pointers, CancelReached, Stored
  <2>2. CASE StoreConnection(e) \/ TakeFailedConnection(e)
    BY <2>2 DEF StoreConnection, TakeFailedConnection, Pointers, Without, Stored
  <2>3. CASE \/ FindNoIdle(e) \/ CreateFails(e) \/ SetListener(e) \/ SendRequest(e)
             \/ CheckCancelAfterConnect(e) \/ ReceiveFails(e) \/ DestroyEngine(e)
    BY <2>3 DEF FindNoIdle, CreateFails, SetListener, SendRequest, CheckCancelAfterConnect,
         ReceiveFails, DestroyEngine
  <2>4. QED BY <2>1, <2>2, <2>3
<1>3. Held' = Held
  <2>1. {NoConn, NoConn} = {NoConn}
    OBVIOUS
  <2>2. Held' \ {NoConn} = Held \ {NoConn}
    BY <1>1, <1>2, <2>1, HeldFrame
  <2>3. QED BY <2>2 DEF Held
<1>4. UNCHANGED poolVars
  BY DEF CheckCancelBeforeConnect, FindNoIdle, CreateFails, SetListener, StoreConnection,
         SendRequest, CheckCancelAfterConnect, ReceiveFails, TakeFailedConnection, DestroyEngine,
         Cancel
<1>5. QED BY <1>3, <1>4 DEF Pool!vars, Pool!poolVars, Pool!connVars, Pool!timerVars, poolVars,
                connVars, timerVars

(* Getting a connection is the client's reuse of an idle one, or its         *)
(* creation of one that nobody refers to.                                    *)
LEMMA TakingRefines ==
  ASSUME EngineAssumption, ExchangeInv, NEW e \in Engine, NEW c \in Conn,
         TakeIdle(e, c) \/ TakeNew(e, c)
  PROVE  Pool!Next
<1> USE DEF ExchangeInv, Goto, cancelVars
<1>1. /\ lconn[e] = NoConn /\ lconn' = [lconn EXCEPT ![e] = c] /\ UNCHANGED <<econn, cconn>>
  BY DEF TakeIdle, TakeNew, Pointers, Without
<1>2. Held' = Held \cup {c}
  <2>1. Held' \ {c} = Held \ {c}
    BY <1>1, HeldFrame DEF EngineTypes
  <2>2. c \in Held'
    BY <1>1 DEF Held, References, EngineTypes, EngineAssumption
  <2>3. QED BY <2>1, <2>2
<1>3. RouteOf[e] \in Route
  BY DEF EngineAssumption
<1>4. Pool!ClientReuse(c, RouteOf[e]) \/ Pool!ClientCreate(c, RouteOf[e])
  BY <1>2 DEF TakeIdle, TakeNew, Pool!ClientReuse, Pool!ClientCreate
<1>5. QED BY <1>3, <1>4 DEF Pool!Next

(* Removing, giving back, shutting down or forgetting a connection is a call *)
(* a client makes with a connection it refers to.                            *)
LEMMA ReturningRefines ==
  ASSUME EngineAssumption, ExchangeInv, NEW e \in Engine,
         \/ ReceiveResponse(e) \/ RethrowOtherError(e) \/ RemoveFailedConnection(e) \/ GiveUp(e)
         \/ RetryOnNewConnection(e) \/ EndOfStream(e) \/ DetachListener(e)
         \/ CancelShutdown(e) \/ CancelRemove(e)
  PROVE  [Pool!Next]_Pool!vars
<1> USE DEF ExchangeInv, EngineTypes, Goto, runVars, cancelVars
<1> DEFINE Drops(c) ==
      /\ c \in Conn
      /\ \A f \in Engine \ {e} : econn'[f] = econn[f] /\ lconn'[f] = lconn[f] /\ cconn'[f] = cconn[f]
      /\ c \in {econn[e], lconn[e], cconn[e]}
      /\ {econn'[e], lconn'[e], cconn'[e]} \ {c, NoConn} = {econn[e], lconn[e], cconn[e]} \ {c, NoConn}
<1>1. ASSUME NEW c, Drops(c)
      PROVE  c \in Held /\ Held' \in {Held, Held \ {c}}
  <2>1. c \in Held
    BY <1>1 DEF Held, References, EngineAssumption
  <2>2. Held' \ {c} = Held \ {c}
    BY <1>1, HeldFrame
  <2>3. QED BY <2>1, <2>2
<1>2. CASE RethrowOtherError(e) \/ RemoveFailedConnection(e) \/ CloseStreamUnread(e)
  <2>1. Drops(lconn[e])
    BY <1>2 DEF RethrowOtherError, RemoveFailedConnection, CloseStreamUnread, Pointers, Without
  <2>2. Pool!ClientRemove(lconn[e])
    BY <1>1, <1>2, <2>1 DEF RethrowOtherError, RemoveFailedConnection, CloseStreamUnread,
       Pool!ClientRemove
  <2>3. QED BY <1>1, <2>1, <2>2 DEF Pool!Next
<1>3. CASE ReceiveResponse(e)
  <2>1. Drops(econn[e]) /\ Held' = Held
    <3>1. Drops(econn[e])
      BY <1>3 DEF ReceiveResponse, Pointers, Without, Stored
    <3>2. econn[e] \in Held'
      BY <1>3, <3>1 DEF ReceiveResponse, Held, References, EngineAssumption
    <3>3. Held' \in {Held, Held \ {econn[e]}} /\ econn[e] \in Held
      BY <1>1, <3>1
    <3>4. QED BY <3>1, <3>2, <3>3
  <2>2. CASE UNCHANGED poolVars
    BY <2>1, <2>2 DEF Pool!vars, Pool!poolVars, Pool!connVars, Pool!timerVars, poolVars,
         connVars, timerVars
  <2>3. CASE Pool!RemoveConnection(econn[e])
    BY <1>1, <2>1, <2>3 DEF Pool!Next, Pool!ClientRemove
  <2>4. QED BY <1>3, <2>2, <2>3 DEF ReceiveResponse
<1>4. CASE CloseStreamReusable(e)
  <2>1. lconn[e] \in Conn /\ pc[e] = "body"
    BY <1>4 DEF CloseStreamReusable, Pointers, Without
  <2>2. /\ \A f \in Engine \ {e} : econn'[f] = econn[f]
        /\ econn'[e] \in {econn[e], NoConn} /\ econn[e] \in {lconn[e], NoConn}
    BY <1>4, <2>1 DEF CloseStreamReusable, OnIdle, Pointers, ListenerIsOwner, OneOwner, LeftOver,
         EngineAssumption, Without, Stored
  <2>3. Drops(lconn[e])
    BY <1>4, <2>1, <2>2 DEF CloseStreamReusable
  <2>4. Pool!ClientRelease(lconn[e])
    BY <1>1, <1>4, <2>3 DEF CloseStreamReusable, Pool!ClientRelease
  <2>5. QED BY <1>1, <2>3, <2>4 DEF Pool!Next
<1>5. CASE GiveUp(e) \/ RetryOnNewConnection(e)
  <2>1. Drops(lconn[e]) /\ UNCHANGED poolVars
    BY <1>5 DEF GiveUp, RetryOnNewConnection, Pointers, Without
  <2>2. Held' = Held \/ Pool!ClientDrop(lconn[e])
    BY <1>1, <2>1 DEF Pool!ClientDrop, Pool!poolVars, Pool!connVars, Pool!timerVars, poolVars,
         connVars, timerVars
  <2>3. QED BY <1>1, <2>1, <2>2 DEF Pool!Next, Pool!vars, Pool!poolVars, Pool!connVars,
               Pool!timerVars, poolVars, connVars, timerVars
<1>6. CASE DetachListener(e)
  <2>1. UNCHANGED <<poolVars, lconn, cconn>> /\ econn' = [econn EXCEPT ![e] = NoConn]
    BY <1>6 DEF DetachListener
  <2>2. CASE econn[e] = NoConn
    <3>1. econn' = econn
      BY <2>1, <2>2
    <3>2. QED BY <2>1, <3>1 DEF Held, References, Pool!vars, Pool!poolVars, Pool!connVars,
                   Pool!timerVars, poolVars, connVars, timerVars
  <2>3. CASE econn[e] # NoConn
    <3>1. Drops(econn[e])
      BY <2>1, <2>3
    <3>2. Held' = Held \/ Pool!ClientDrop(econn[e])
      BY <1>1, <2>1, <3>1 DEF Pool!ClientDrop, Pool!poolVars, Pool!connVars, Pool!timerVars,
           poolVars, connVars, timerVars
    <3>3. QED BY <1>1, <2>1, <3>1, <3>2 DEF Pool!Next, Pool!vars, Pool!poolVars,
                   Pool!connVars, Pool!timerVars, poolVars, connVars, timerVars
  <2>4. QED BY <2>2, <2>3
<1>7. CASE CancelShutdown(e)
  <2>1. UNCHANGED <<econn, lconn, cconn>> /\ cconn[e] \in Conn /\ Pool!CancelConnection(cconn[e])
    BY <1>7 DEF CancelShutdown, CancelReached
  <2>2. Held' = Held /\ cconn[e] \in Held
    BY <2>1 DEF Held, References, EngineAssumption
  <2>3. QED BY <2>1, <2>2 DEF Pool!Next, Pool!ClientCancel
<1>8. CASE CancelRemove(e)
  <2>1. Drops(cconn[e])
    BY <1>8 DEF CancelRemove, CancelReached
  <2>2. Pool!ClientRemove(cconn[e])
    BY <1>1, <1>8, <2>1 DEF CancelRemove, Pool!ClientRemove
  <2>3. QED BY <1>1, <2>1, <2>2 DEF Pool!Next
<1>9. QED BY <1>2, <1>3, <1>4, <1>5, <1>6, <1>7, <1>8 DEF EndOfStream

(* The engines are clients of the pool: every exchange, cancel and close is  *)
(* a sequence of calls the most general client of ConnectionPool may make,   *)
(* in particular never a call with a connection it no longer refers to.      *)
THEOREM EnginesAreClients == Spec => PoolSpec
<1>1. EngineAssumption
  BY EngineAssumption
<1>2. Init => Pool!Init
  BY DEF Init, Pool!Init, Held, References
<1>3. ASSUME ExchangeInv, [Next]_vars
      PROVE  [Pool!Next]_Pool!vars
  <2>1. ASSUME NEW e \in Engine, Run(e)
        PROVE  [Pool!Next]_Pool!vars
    BY <1>1, <1>3, <2>1, StutteringSteps, TakingRefines, ReturningRefines DEF Run
  <2>2. ASSUME NEW e \in Engine, EndOfStream(e) \/ Destroy(e) \/ CancelStep(e)
        PROVE  [Pool!Next]_Pool!vars
    BY <1>1, <1>3, <2>2, StutteringSteps, ReturningRefines DEF Destroy, CancelStep
  <2>3. CASE TimerStep
    <3>1. Held' = Held
      BY <2>3 DEF TimerStep, runVars, cancelVars, Held, References
    <3>2. QED BY <2>3, <3>1 DEF TimerStep, Pool!Next
  <2>4. CASE UNCHANGED vars
    BY <2>4 DEF vars, runVars, cancelVars, poolVars, connVars, timerVars, Held, References,
         Pool!vars, Pool!poolVars, Pool!connVars, Pool!timerVars
  <2>5. QED BY <1>3, <2>1, <2>2, <2>3, <2>4 DEF Next
<1>4. QED BY <1>2, <1>3, ExchangeInvariant, PTL DEF Spec, PoolSpec, Pool!Spec
=============================================================================
