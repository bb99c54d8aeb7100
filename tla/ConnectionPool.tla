--------------------------- MODULE ConnectionPool ---------------------------
(***************************************************************************)
(* The keep-alive connection pool: ConnectionPoolInternal.cpp together with *)
(* the status and cancel flag of the connections it hands out              *)
(* (ConnectionInternal.cpp) and the keep-alive timer tasks                 *)
(* (KeepAliveTimeoutTask.cpp).                                             *)
(*                                                                         *)
(* Every public operation of the pool runs under m_instanceMutex, and the  *)
(* status of a connection is only changed by operations of the pool, so an *)
(* operation is one step.  ConnectionInternal::cancel and the timer thread *)
(* run outside that mutex and are steps of their own.                      *)
(*                                                                         *)
(* The specification at the end puts the pool under the most general       *)
(* client: any thread may call any operation, in any order, with any       *)
(* connection the pool handed out and the thread still refers to.  The     *)
(* calls that HttpEngine and the response streams really make are in       *)
(* module HttpEngine; the ConnectionStatusListener callback, which changes *)
(* only the engine's state, is composed there.                             *)
(***************************************************************************)
EXTENDS Integers, FiniteSets

CONSTANTS
  Conn,                   \* identities of ConnectionInternal objects
  Route,                  \* scheme, host, port, proxy, root CA and timeout of a request
  Task,                   \* identities of KeepAliveTimeoutTask objects
  NoTask,                 \* a null KeepAliveTimeoutTask pointer
  KeepAliveIdleCountMax,  \* m_keepAliveIdleCountMax
  KeepAliveTimeout        \* m_keepAliveTimeoutSec, in ticks

ASSUME PoolAssumption ==
  /\ NoTask \notin Task
  /\ KeepAliveIdleCountMax \in Nat
  /\ KeepAliveTimeout \in Nat

VARIABLES
  pool,       \* the keys of m_connectionControls
  task,       \* the value m_connectionControls maps a connection to (NoTask outside the pool)
  status,     \* m_connectionStatus
  cancelled,  \* m_cancelled of the connection
  route,      \* what setInuseIfReusable compares with the request
  timer,      \* where Poco::Util::Timer has each task
  ttl,        \* ticks left before a scheduled task is due
  held        \* connections some client still refers to

connVars == <<status, cancelled, route>>
timerVars == <<timer, ttl>>
poolVars == <<pool, task, connVars, timerVars>>
vars == <<poolVars, held>>

-----------------------------------------------------------------------------
(* getKeepAliveIdleConnectionCount counts these. *)
IdleConns == {c \in pool : status[c] = "Idle"}

(* TimerTask::cancel: a task that has not started never will, and the timer  *)
(* drops it; one that has been taken from the timer's queue still runs.      *)
CancelTask(tm, t) ==
  IF tm[t] = "scheduled" THEN [tm EXCEPT ![t] = "free"] ELSE tm

(* ConnectionInternal::setInuseIfReusable: idle, and made for the same       *)
(* scheme, host, port, proxy, root CA and timeout.  Neither it nor its       *)
(* caller looks at m_cancelled.                                              *)
Reusable(c, r) == status[c] = "Idle" /\ route[c] = r

(* findAndReuseConnection on a hit.                                          *)
ReuseConnection_KeepsTask(c, r) ==  \* a plausible slip: itr->second is not cleared
  /\ c \in pool /\ Reusable(c, r)
  /\ status' = [status EXCEPT ![c] = "Inuse"]
  /\ timer' = IF task[c] = NoTask THEN timer ELSE CancelTask(timer, task[c])
  /\ UNCHANGED <<pool, task, cancelled, route, ttl>>

ReuseConnection(c, r) ==
  /\ c \in pool /\ Reusable(c, r)
  /\ status' = [status EXCEPT ![c] = "Inuse"]
  /\ timer' = IF task[c] = NoTask THEN timer ELSE CancelTask(timer, task[c])
  /\ task' = [task EXCEPT ![c] = NoTask]
  /\ UNCHANGED <<pool, cancelled, route, ttl>>

(* createConnection: a new ConnectionInternal starts Inuse, with no task.    *)
CreateConnection(c, r) ==
  /\ pool' = pool \cup {c}
  /\ task' = [task EXCEPT ![c] = NoTask]
  /\ status' = [status EXCEPT ![c] = "Inuse"]
  /\ cancelled' = [cancelled EXCEPT ![c] = FALSE]
  /\ route' = [route EXCEPT ![c] = r]
  /\ UNCHANGED timerVars

(* removeConnection: the entry and its task pointer go; the task itself is   *)
(* not cancelled.                                                            *)
RemoveConnection(c) ==
  /\ pool' = pool \ {c}
  /\ task' = [task EXCEPT ![c] = NoTask]
  /\ UNCHANGED <<connVars, timerVars>>

(* The idle connections that expire first, as updateConnections scans them.  *)
EarliestExpiring(idle, task1, ttl1) ==
  {c \in idle : \A d \in idle : ttl1[task1[c]] <= ttl1[task1[d]]}

(* updateConnections, called at the end of releaseConnection with the new    *)
(* idle set, task pointers and timer.                                        *)
UpdateConnections_OffByOne(idle, task1, timer1, ttl1) ==
  IF Cardinality(idle) <= KeepAliveIdleCountMax + 1
  THEN /\ pool' = pool /\ task' = task1 /\ timer' = timer1
  ELSE \E v \in EarliestExpiring(idle, task1, ttl1) :
         /\ pool' = pool \ {v}
         /\ task' = [task1 EXCEPT ![v] = NoTask]
         /\ timer' = CancelTask(timer1, task1[v])

UpdateConnections_CancelsSurvivor(idle, task1, timer1, ttl1) ==  \* not the victim's task
  IF Cardinality(idle) <= KeepAliveIdleCountMax
  THEN /\ pool' = pool /\ task' = task1 /\ timer' = timer1
  ELSE \E v \in EarliestExpiring(idle, task1, ttl1) : \E w \in idle \ {v} :
         /\ pool' = pool \ {v}
         /\ task' = [task1 EXCEPT ![v] = NoTask]
         /\ timer' = CancelTask(timer1, task1[w])

UpdateConnections(idle, task1, timer1, ttl1) ==
  IF Cardinality(idle) <= KeepAliveIdleCountMax
  THEN /\ pool' = pool /\ task' = task1 /\ timer' = timer1
  ELSE \E v \in EarliestExpiring(idle, task1, ttl1) :
         /\ pool' = pool \ {v}
         /\ task' = [task1 EXCEPT ![v] = NoTask]
         /\ timer' = CancelTask(timer1, task1[v])

(* releaseConnection: unknown to the pool, already idle, cancelled, kept.    *)
ReleaseUnknown(c) ==
  /\ c \notin pool
  /\ UNCHANGED poolVars

ReleaseAlreadyIdle(c) ==
  /\ c \in pool /\ status[c] = "Idle"
  /\ UNCHANGED poolVars

ReleaseCancelled(c) ==
  /\ c \in pool /\ status[c] = "Inuse" /\ cancelled[c]
  /\ status' = [status EXCEPT ![c] = "Idle"]
  /\ pool' = pool \ {c}
  /\ task' = [task EXCEPT ![c] = NoTask]
  /\ UNCHANGED <<cancelled, route, timerVars>>

ReleaseToIdle(c, t) ==
  /\ c \in pool /\ status[c] = "Inuse" /\ ~cancelled[c]
  /\ timer[t] = "free"
  /\ status' = [status EXCEPT ![c] = "Idle"]
  /\ ttl' = [ttl EXCEPT ![t] = KeepAliveTimeout]
  /\ UpdateConnections(IdleConns \cup {c}, [task EXCEPT ![c] = t],
                       [timer EXCEPT ![t] = "scheduled"], ttl')
  /\ UNCHANGED <<cancelled, route>>

ReleaseConnection(c) ==
  \/ ReleaseUnknown(c)
  \/ ReleaseAlreadyIdle(c)
  \/ ReleaseCancelled(c)
  \/ \E t \in Task : ReleaseToIdle(c, t)

(* ConnectionInternal::cancel: sets the flag and shuts the socket down; it   *)
(* does not take the pool's mutex.                                           *)
CancelConnection(c) ==
  /\ cancelled' = [cancelled EXCEPT ![c] = TRUE]
  /\ UNCHANGED <<pool, task, status, route, timerVars>>

-----------------------------------------------------------------------------
(* Poco::Util::Timer, one thread: a due task that was not cancelled is taken *)
(* from the queue, and from then on cancel() comes too late.                 *)
Tick ==
  /\ \E t \in Task : timer[t] = "scheduled" /\ ttl[t] > 0
  /\ ttl' = [t \in Task |-> IF timer[t] = "scheduled" /\ ttl[t] > 0
                            THEN ttl[t] - 1 ELSE ttl[t]]
  /\ UNCHANGED <<pool, task, connVars, timer>>

TimerStart(t) ==
  /\ timer[t] = "scheduled" /\ ttl[t] = 0
  /\ \A u \in Task : timer[u] # "running"
  /\ timer' = [timer EXCEPT ![t] = "running"]
  /\ UNCHANGED <<pool, task, connVars, ttl>>

(* KeepAliveTimeoutTask::run: onKeepAliveTimeoutExpired erases the entry     *)
(* that still maps to this task, if there is one.                            *)
TimerRun(t) ==
  /\ timer[t] = "running"
  /\ timer' = [timer EXCEPT ![t] = "free"]
  /\ LET expired == {c \in pool : task[c] = t} IN
       IF expired = {}
       THEN UNCHANGED <<pool, task>>
       ELSE \E c \in expired : /\ pool' = pool \ {c}
                               /\ task' = [task EXCEPT ![c] = NoTask]
  /\ UNCHANGED <<connVars, ttl>>

TimerStep == Tick \/ \E t \in Task : TimerStart(t) \/ TimerRun(t)

-----------------------------------------------------------------------------
(* The most general client. *)
Fresh == Conn \ (pool \cup held)

Init ==
  /\ pool = {}
  /\ task = [c \in Conn |-> NoTask]
  /\ status = [c \in Conn |-> "Inuse"]
  /\ cancelled = [c \in Conn |-> FALSE]
  /\ route \in [Conn -> Route]
  /\ timer = [t \in Task |-> "free"]
  /\ ttl = [t \in Task |-> 0]
  /\ held = {}

ClientReuse(c, r) ==
  /\ ReuseConnection(c, r)
  /\ held' = held \cup {c}

(* getConnection after a miss, and createConnection when a retry forces it.  *)
ClientCreate(c, r) ==
  /\ c \in Fresh
  /\ CreateConnection(c, r)
  /\ held' = held \cup {c}

ClientRelease(c) ==
  /\ c \in held
  /\ ReleaseConnection(c)
  /\ held' \in {held, held \ {c}}

ClientRemove(c) ==
  /\ c \in held
  /\ RemoveConnection(c)
  /\ held' \in {held, held \ {c}}

ClientCancel(c) ==
  /\ c \in held
  /\ CancelConnection(c)
  /\ UNCHANGED held

ClientDrop(c) ==
  /\ held' = held \ {c}
  /\ UNCHANGED poolVars

Next ==
  \/ \E c \in Conn, r \in Route : ClientReuse(c, r) \/ ClientCreate(c, r)
  \/ \E c \in held : ClientRelease(c) \/ ClientRemove(c) \/ ClientCancel(c) \/ ClientDrop(c)
  \/ TimerStep /\ UNCHANGED held

Spec == Init /\ [][Next]_vars

(* The timer thread keeps running and its queue is ordered by time, so a due *)
(* task is not overtaken for ever.                                           *)
TimerFairness ==
  /\ WF_vars(Tick /\ UNCHANGED held)
  /\ \A t \in Task : /\ SF_vars(TimerStart(t) /\ UNCHANGED held)
                     /\ WF_vars(TimerRun(t) /\ UNCHANGED held)

FairSpec == Spec /\ TimerFairness

-----------------------------------------------------------------------------
TypeOK ==
  /\ pool \in SUBSET Conn
  /\ task \in [Conn -> Task \cup {NoTask}]
  /\ status \in [Conn -> {"Inuse", "Idle"}]
  /\ cancelled \in [Conn -> BOOLEAN]
  /\ route \in [Conn -> Route]
  /\ timer \in [Task -> {"free", "scheduled", "running"}]
  /\ ttl \in [Task -> 0..KeepAliveTimeout]
  /\ held \in SUBSET Conn

(* A pooled connection is idle exactly when it has a keep-alive task, and    *)
(* that task is still with the timer.  updateConnections dereferences the    *)
(* task of every idle connection, and an idle connection without a live task *)
(* would stay open for ever.                                                 *)
IdleIffTimed ==
  \A c \in pool :
    /\ status[c] = "Idle" <=> task[c] # NoTask
    /\ task[c] # NoTask => timer[task[c]] # "free"

(* The configured limit on idle connections holds after every call, whatever *)
(* order connections are released, cancelled, removed and expired in.        *)
IdleWithinLimit == Cardinality(IdleConns) <= KeepAliveIdleCountMax

(* A keep-alive timeout that fires late, after the connection was taken for  *)
(* another request, leaves that connection alone; and the release of one     *)
(* connection never evicts another one that is in use.                       *)
InuseNotEvicted ==
  [][ \A c \in pool \ pool' :
        status[c] = "Inuse" =>
          c \in held /\ (ReleaseConnection(c) \/ RemoveConnection(c)) ]_vars

(* A connection that stays idle is eventually closed: no path through        *)
(* release, reuse, cancel and expiry loses the timer of an idle connection.  *)
IdleExpires ==
  \A c \in Conn : (c \in pool /\ status[c] = "Idle") ~> ~(c \in pool /\ status[c] = "Idle")
=============================================================================
