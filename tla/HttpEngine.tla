----------------------------- MODULE HttpEngine -----------------------------
(***************************************************************************)
(* One network exchange per HttpEngine object, several of them sharing one *)
(* ConnectionPool: getting a connection, sending, receiving, the retry on  *)
(* a stale keep-alive connection, cancel() from another thread, and the    *)
(* close of the response body stream that gives the connection back        *)
(* (HttpEngine.cpp, ResponseBodyStreamWithoutCaching.cpp, and the listener *)
(* side of ConnectionInternal.cpp).                                        *)
(*                                                                         *)
(* Each engine is run by one thread; cancel(e) is a second thread, and the *)
(* stream may be closed by a third.  A step ends where the code releases   *)
(* one of its mutexes or waits for the network.                            *)
(***************************************************************************)
EXTENDS Integers, FiniteSets

CONSTANTS
  Conn, Route, Task, NoTask, KeepAliveIdleCountMax, KeepAliveTimeout,
  Engine,     \* HttpEngine objects, one per call attempt
  RouteOf,    \* the route of each engine's request
  NoEngine,   \* a null ConnectionStatusListener pointer
  NoConn      \* a null ConnectionInternal pointer

ASSUME EngineAssumption ==
  /\ NoEngine \notin Engine /\ NoConn \notin Conn
  /\ RouteOf \in [Engine -> Route]
  /\ NoTask \notin Task /\ KeepAliveIdleCountMax \in Nat /\ KeepAliveTimeout \in Nat

VARIABLES
  pool, task, status, cancelled, route, timer, ttl,  \* as in ConnectionPool
  listener,   \* m_pConnectionStatusListener of each connection
  pc,         \* where the thread running the engine is
  econn,      \* m_pConnectionInternal of the engine
  lconn,      \* pConnectionInternal of the running function, then of the stream
  ecancelled, \* m_cancelled of the engine
  reused,     \* connectionReused
  forced,     \* forceToCreateConnection
  retried,    \* m_connectionRetried
  cpc,        \* where the thread calling cancel() is
  cconn,      \* the connection cancel() copied
  life        \* the engine object: alive, in its destructor, dead

connVars == <<status, cancelled, route>>
timerVars == <<timer, ttl>>
poolVars == <<pool, task, connVars, timerVars>>
runVars == <<pc, lconn, reused, forced, retried>>
cancelVars == <<ecancelled, cpc, cconn>>
vars == <<poolVars, listener, runVars, econn, cancelVars, life>>

(* Every connection an engine, a stream or a running cancel() refers to.     *)
References == {econn[e] : e \in Engine} \cup {lconn[e] : e \in Engine}
                \cup {cconn[e] : e \in Engine}
Held == References \ {NoConn}

Pool == INSTANCE ConnectionPool WITH held <- Held

-----------------------------------------------------------------------------
Init ==
  /\ pool = {}
  /\ task = [c \in Conn |-> NoTask]
  /\ status = [c \in Conn |-> "Inuse"]
  /\ cancelled = [c \in Conn |-> FALSE]
  /\ route \in [Conn -> Route]
  /\ timer = [t \in Task |-> "free"]
  /\ ttl = [t \in Task |-> 0]
  /\ listener = [c \in Conn |-> NoEngine]
  /\ pc = [e \in Engine |-> "start"]
  /\ econn = [e \in Engine |-> NoConn]
  /\ lconn = [e \in Engine |-> NoConn]
  /\ ecancelled = [e \in Engine |-> FALSE]
  /\ reused = [e \in Engine |-> FALSE]
  /\ forced = [e \in Engine |-> FALSE]
  /\ retried = [e \in Engine |-> FALSE]
  /\ cpc = [e \in Engine |-> "none"]
  /\ cconn = [e \in Engine |-> NoConn]
  /\ life = [e \in Engine |-> "alive"]

Goto(e, from, to) ==
  /\ pc[e] = from
  /\ pc' = [pc EXCEPT ![e] = to]

(* sendRequestAndReceiveResponse starts: the cancel check before a           *)
(* connection is taken.  An exception finds no connection and is rethrown.   *)
CheckCancelBeforeConnect(e) ==
  /\ Goto(e, "start", IF ecancelled[e] THEN "failed" ELSE "connect")
  /\ reused' = [reused EXCEPT ![e] = FALSE]
  /\ econn' = [econn EXCEPT ![e] = IF ecancelled[e] THEN NoConn ELSE @]
  /\ UNCHANGED <<poolVars, listener, lconn, forced, retried, cancelVars, life>>

(* getConnection: an idle connection for the route, or else a new one.       *)
TakeIdle_LeavesIdle(e, c) ==  \* finds the connection but does not mark it Inuse
  /\ ~forced[e]
  /\ Goto(e, "connect", "got")
  /\ c \in pool /\ Pool!Reusable(c, RouteOf[e])
  /\ timer' = Pool!CancelTask(timer, task[c])
  /\ task' = [task EXCEPT ![c] = NoTask]
  /\ lconn' = [lconn EXCEPT ![e] = c]
  /\ reused' = [reused EXCEPT ![e] = TRUE]
  /\ UNCHANGED <<pool, connVars, ttl, listener, econn, forced, retried, cancelVars, life>>

TakeIdle(e, c) ==
  /\ ~forced[e]
  /\ Goto(e, "connect", "got")
  /\ Pool!ReuseConnection(c, RouteOf[e])
  /\ lconn' = [lconn EXCEPT ![e] = c]
  /\ reused' = [reused EXCEPT ![e] = TRUE]
  /\ UNCHANGED <<listener, econn, forced, retried, cancelVars, life>>

(* The search and the insertion of a new connection are two critical         *)
(* sections of the pool: an idle connection may appear between them.         *)
FindNoIdle(e) ==
  /\ ~forced[e]
  /\ \A d \in pool : ~Pool!Reusable(d, RouteOf[e])
  /\ Goto(e, "connect", "create")
  /\ UNCHANGED <<poolVars, listener, lconn, reused, forced, retried, econn, cancelVars,
                 life>>

TakeNew(e, c) ==
  /\ \/ forced[e] /\ Goto(e, "connect", "got")
     \/ Goto(e, "create", "got")
  /\ c \in Pool!Fresh
  /\ Pool!CreateConnection(c, RouteOf[e])
  /\ listener' = [listener EXCEPT ![c] = NoEngine]
  /\ lconn' = [lconn EXCEPT ![e] = c]
  /\ UNCHANGED <<econn, reused, forced, retried, cancelVars, life>>

(* No session for this request (scheme, SSL context): nothing was pooled,    *)
(* and the catch clauses find no connection.                                 *)
CreateFails(e) ==
  /\ \/ forced[e] /\ Goto(e, "connect", "failed")
     \/ Goto(e, "create", "failed")
  /\ UNCHANGED <<poolVars, listener, lconn, reused, forced, retried, econn, cancelVars,
                 life>>

(* setConnectionStatusListener(this), then m_pConnectionInternal under       *)
(* m_connectionMutex: two critical sections, and cancel() may fall between.  *)
SetListener(e) ==
  /\ Goto(e, "got", "listening")
  /\ listener' = [listener EXCEPT ![lconn[e]] = e]
  /\ UNCHANGED <<poolVars, lconn, reused, forced, retried, econn, cancelVars, life>>

StoreConnection(e) ==
  /\ Goto(e, "listening", "sending")
  /\ econn' = [econn EXCEPT ![e] = lconn[e]]
  /\ UNCHANGED <<poolVars, listener, lconn, reused, forced, retried, cancelVars, life>>

(* sendRequest: the network answers, fails, or times out.                    *)
SendRequest(e) ==
  /\ \E outcome \in {"sent", "execError", "otherError"} : Goto(e, "sending", outcome)
  /\ UNCHANGED <<poolVars, listener, lconn, reused, forced, retried, econn, cancelVars,
                 life>>

(* The cancel check after connect. *)
CheckCancelAfterConnect_Dropped(e) ==
  /\ Goto(e, "sent", "receiving")
  /\ UNCHANGED <<poolVars, listener, lconn, reused, forced, retried, econn, cancelVars,
                 life>>

CheckCancelAfterConnect(e) ==
  /\ Goto(e, "sent", IF ecancelled[e] THEN "execError" ELSE "receiving")
  /\ UNCHANGED <<poolVars, listener, lconn, reused, forced, retried, econn, cancelVars,
                 life>>

(* receiveResponse: with Connection: close the connection leaves the pool    *)
(* although the stream goes on reading from it.                              *)
ReceiveResponse(e) ==
  /\ Goto(e, "receiving", "body")
  /\ lconn' = [lconn EXCEPT ![e] = econn[e]]
  /\ \/ UNCHANGED poolVars
     \/ Pool!RemoveConnection(econn[e])
  /\ UNCHANGED <<listener, reused, forced, retried, econn, cancelVars, life>>

ReceiveFails(e) ==
  /\ \E outcome \in {"execError", "otherError"} : Goto(e, "receiving", outcome)
  /\ UNCHANGED <<poolVars, listener, lconn, reused, forced, retried, econn, cancelVars,
                 life>>

(* The two catch clauses: m_pConnectionInternal is taken and cleared under   *)
(* m_connectionMutex, the connection removed from the pool afterwards.       *)
TakeFailedConnection(e) ==
  /\ \/ Goto(e, "execError", "execTaken")
     \/ Goto(e, "otherError", "otherTaken")
  /\ lconn' = [lconn EXCEPT ![e] = econn[e]]
  /\ econn' = [econn EXCEPT ![e] = NoConn]
  /\ UNCHANGED <<poolVars, listener, reused, forced, retried, cancelVars, life>>

RethrowOtherError(e) ==
  /\ Goto(e, "otherTaken", "failed")
  /\ Pool!RemoveConnection(lconn[e])
  /\ lconn' = [lconn EXCEPT ![e] = NoConn]
  /\ UNCHANGED <<listener, reused, forced, retried, econn, cancelVars, life>>

(* HttpExecutionException: only a reused connection that was not cancelled   *)
(* is tried again, and only if the request body can be reset.                *)
RemoveFailedConnection_Skipped(e) ==
  /\ Goto(e, "execTaken", "decide")
  /\ UNCHANGED <<poolVars, listener, lconn, reused, forced, retried, econn, cancelVars,
                 life>>

RemoveFailedConnection(e) ==
  /\ Goto(e, "execTaken", "decide")
  /\ Pool!RemoveConnection(lconn[e])
  /\ UNCHANGED <<listener, lconn, reused, forced, retried, econn, cancelVars, life>>

(* No retry: the exception, or HttpConnectionRetryException for a reused     *)
(* connection whose request body cannot be reset, leaves the engine.         *)
GiveUp(e) ==
  /\ Goto(e, "decide", "failed")
  /\ lconn' = [lconn EXCEPT ![e] = NoConn]
  /\ UNCHANGED <<poolVars, listener, reused, forced, retried, econn, cancelVars, life>>

RetryOnNewConnection(e) ==
  /\ ~ecancelled[e] /\ reused[e]
  /\ Goto(e, "decide", "start")
  /\ listener' = [listener EXCEPT ![lconn[e]] = NoEngine]
  /\ forced' = [forced EXCEPT ![e] = TRUE]
  /\ retried' = [retried EXCEPT ![e] = TRUE]
  /\ lconn' = [lconn EXCEPT ![e] = NoConn]
  /\ UNCHANGED <<poolVars, reused, econn, cancelVars, life>>

-----------------------------------------------------------------------------
(* ResponseBodyStreamWithoutCaching::close (and ...WithCaching::close, which *)
(* takes the connection over): skipAll succeeds and the connection goes back *)
(* to the pool, which first tells the listener; or it is removed.  A stream  *)
(* nobody closes is closed by the destructor of its ResponseBody.            *)
OnIdle(c) ==
  IF c \in pool /\ listener[c] # NoEngine /\ econn[listener[c]] = c
  THEN /\ econn' = [econn EXCEPT ![listener[c]] = NoConn]
       /\ listener' = [listener EXCEPT ![c] = NoEngine]
  ELSE UNCHANGED <<listener, econn>>

CloseStreamReusable(e) ==
  /\ Goto(e, "body", "done")
  /\ Pool!ReleaseConnection(lconn[e])
  /\ OnIdle(lconn[e])
  /\ lconn' = [lconn EXCEPT ![e] = NoConn]
  /\ UNCHANGED <<reused, forced, retried, cancelVars, life>>

CloseStreamUnread(e) ==
  /\ Goto(e, "body", "done")
  /\ Pool!RemoveConnection(lconn[e])
  /\ lconn' = [lconn EXCEPT ![e] = NoConn]
  /\ UNCHANGED <<listener, reused, forced, retried, econn, cancelVars, life>>

(* ~HttpEngine: the executor may drop the engine while the stream is open.   *)
(* The test of m_pConnectionInternal and its use are not under the mutex: a  *)
(* close of the stream on another thread may clear it in between, and then   *)
(* the destructor has no connection to detach from (it throws).              *)
CanDestroy(e) ==
  life[e] = "alive" /\ pc[e] \in {"body", "done", "failed"} /\ cpc[e] \in {"none", "finished"}

DestroyEngine(e) ==
  /\ CanDestroy(e)
  /\ life' = [life EXCEPT ![e] = IF econn[e] = NoConn THEN "dead" ELSE "dying"]
  /\ UNCHANGED <<poolVars, listener, econn, runVars, cancelVars>>

DetachListener(e) ==
  /\ life[e] = "dying"
  /\ life' = [life EXCEPT ![e] = "dead"]
  /\ econn' = [econn EXCEPT ![e] = NoConn]
  /\ listener' = IF econn[e] = NoConn THEN listener
                 ELSE [listener EXCEPT ![econn[e]] = NoEngine]
  /\ UNCHANGED <<poolVars, runVars, cancelVars>>

-----------------------------------------------------------------------------
(* HttpEngine::cancel: the flag is set and the connection copied under       *)
(* m_connectionMutex; shutting it down and removing it come after, without   *)
(* the mutex.                                                                *)
Cancel(e) ==
  /\ cpc[e] = "none" /\ life[e] = "alive"
  /\ ecancelled' = [ecancelled EXCEPT ![e] = TRUE]
  /\ cconn' = [cconn EXCEPT ![e] = econn[e]]
  /\ cpc' = [cpc EXCEPT ![e] = IF econn[e] = NoConn THEN "finished" ELSE "copied"]
  /\ UNCHANGED <<poolVars, listener, runVars, econn, life>>

CancelShutdown(e) ==
  /\ cpc[e] = "copied"
  /\ Pool!CancelConnection(cconn[e])
  /\ cpc' = [cpc EXCEPT ![e] = "shut"]
  /\ UNCHANGED <<listener, runVars, econn, ecancelled, cconn, life>>

CancelRemove(e) ==
  /\ cpc[e] = "shut"
  /\ Pool!RemoveConnection(cconn[e])
  /\ cpc' = [cpc EXCEPT ![e] = "finished"]
  /\ cconn' = [cconn EXCEPT ![e] = NoConn]
  /\ UNCHANGED <<listener, runVars, econn, ecancelled, life>>

TimerStep ==
  /\ Pool!TimerStep
  /\ UNCHANGED <<listener, runVars, econn, cancelVars, life>>

-----------------------------------------------------------------------------
Run(e) ==
  \/ CheckCancelBeforeConnect(e)
  \/ \E c \in Conn : TakeIdle(e, c) \/ TakeNew(e, c)
  \/ FindNoIdle(e)
  \/ CreateFails(e)
  \/ SetListener(e)
  \/ StoreConnection(e)
  \/ SendRequest(e)
  \/ CheckCancelAfterConnect(e)
  \/ ReceiveResponse(e)
  \/ ReceiveFails(e)
  \/ TakeFailedConnection(e)
  \/ RethrowOtherError(e)
  \/ RemoveFailedConnection(e)
  \/ GiveUp(e)
  \/ RetryOnNewConnection(e)

EndOfStream(e) ==
  \/ CloseStreamReusable(e)
  \/ CloseStreamUnread(e)

Destroy(e) == DestroyEngine(e) \/ DetachListener(e)

CancelStep(e) == Cancel(e) \/ CancelShutdown(e) \/ CancelRemove(e)

Next ==
  \/ \E e \in Engine : Run(e) \/ EndOfStream(e) \/ Destroy(e) \/ CancelStep(e)
  \/ TimerStep

Spec == Init /\ [][Next]_vars
-----------------------------------------------------------------------------
(* The connection the engine's thread or its open stream is using.           *)
Using(e) ==
  IF pc[e] \in {"got", "listening", "sending", "sent", "receiving", "body"}
  THEN {lconn[e]} ELSE {}

TypeOK ==
  /\ listener \in [Conn -> Engine \cup {NoEngine}]
  /\ pc \in [Engine -> {"start", "connect", "create", "got", "listening", "sending", "sent",
                        "receiving", "body", "execError", "otherError", "execTaken",
                        "otherTaken", "decide", "done", "failed"}]
  /\ econn \in [Engine -> Conn \cup {NoConn}]
  /\ lconn \in [Engine -> Conn \cup {NoConn}]
  /\ cconn \in [Engine -> Conn \cup {NoConn}]
  /\ cpc \in [Engine -> {"none", "copied", "shut", "finished"}]
  /\ \A v \in {ecancelled, reused, forced, retried} : v \in [Engine -> BOOLEAN]
  /\ life \in [Engine -> {"alive", "dying", "dead"}]
  /\ Pool!TypeOK

(* No connection carries two exchanges at a time, and one that carries an    *)
(* exchange is never offered as idle: through reuse, retry, late timeouts    *)
(* and cancels, nobody gives back a connection somebody else is using.       *)
SoleUser ==
  \A e \in Engine : \A c \in Using(e) :
    /\ c \in pool => status[c] = "Inuse"
    /\ \A f \in Engine \ {e} : c \notin Using(f)

(* An engine's m_pConnectionInternal, which is what cancel() will shut down, *)
(* never names a connection that another engine is using: onIdle clears it   *)
(* before the pool can offer the connection again.                           *)
ReferenceIsOwn ==
  \A e, f \in Engine : econn[e] # NoConn /\ e # f => econn[e] \notin Using(f)

(* cancel() is not lost between the checks: once it has returned, an engine  *)
(* waiting for a response waits on a connection that was shut down.          *)
CancelNotLost ==
  \A e \in Engine :
    ecancelled[e] /\ cpc[e] = "finished" /\ pc[e] = "receiving" => cancelled[lconn[e]]

(* The retry on a stale connection happens once, on a connection of its own: *)
(* when a retried exchange fails again, connectionReused is false.           *)
RetriesOnce ==
  \A e \in Engine : retried[e] /\ pc[e] \in {"sending", "sent", "receiving", "decide"} => ~reused[e]

(* Every connection in use in the pool is being used by an engine or an open *)
(* stream: failures, retries, cancels and closed streams give theirs back,   *)
(* so that no entry stays in use with nobody left to end it.                 *)
NoStrandedConnection ==
  \A c \in pool :
    status[c] = "Inuse" =>
      \E e \in Engine : lconn[e] = c \/ (econn[e] = c /\ pc[e] \in {"execError", "otherError"})

(* A connection that the pool still knows never calls back an engine that    *)
(* was destroyed, whatever the order of close, cancel, retry and destruction. *)
NoDanglingListener ==
  \A c \in pool : listener[c] # NoEngine => life[listener[c]] # "dead"

(* The safety of the exchanges of all engines together.                      *)
EngineInv == TypeOK /\ SoleUser /\ ReferenceIsOwn /\ NoDanglingListener /\ RetriesOnce

(* The engines are clients of the pool in the sense of ConnectionPool, so    *)
(* everything proved there of the pool holds here.                           *)
PoolSpec == Pool!Spec

(* "there is no KeepAliveTimeoutTask when cancel is called from HttpEngine"  *)
(* (ConnectionInternal.cpp): the connection cancel() is about to shut down   *)
(* has not been given back to the pool.                                      *)
CancelFindsNoKeepAliveTask ==
  \A e \in Engine : cpc[e] = "copied" => task[cconn[e]] = NoTask
=============================================================================
