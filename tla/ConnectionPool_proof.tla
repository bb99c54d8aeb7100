------------------------ MODULE ConnectionPool_proof ------------------------
(***************************************************************************)
(* Theorems about the connection pool under its most general client.       *)
(*                                                                         *)
(* IdleIffTimed and IdleWithinLimit are not inductive by themselves: when  *)
(* a connection is evicted or reused, its task is cancelled, and the       *)
(* argument that no other idle connection loses its timer by that needs    *)
(* that tasks are not shared.  PoolInv adds that, and that the map is      *)
(* finite, which makes the count of idle connections meaningful.           *)
(***************************************************************************)
EXTENDS ConnectionPool, FiniteSetTheorems, TLAPS

(* An expiry closes the connection its task was scheduled for and no other.  *)
TasksNotShared ==
  \A c, d \in pool : task[c] = task[d] /\ task[c] # NoTask => c = d

PoolInv ==
  /\ TypeOK
  /\ IsFiniteSet(pool)
  /\ IdleIffTimed
  /\ TasksNotShared
  /\ IdleWithinLimit

-----------------------------------------------------------------------------
(* Cancelling a timer task leaves the timer well typed and every other task  *)
(* where it was.                                                             *)
LEMMA CancelTaskFrame ==
  ASSUME NEW tm \in [Task -> {"free", "scheduled", "running"}], NEW t \in Task
  PROVE  /\ CancelTask(tm, t) \in [Task -> {"free", "scheduled", "running"}]
         /\ \A u \in Task \ {t} : CancelTask(tm, t)[u] = tm[u]
BY DEF CancelTask

(* Idle connections are pooled ones, so there are finitely many of them, and *)
(* removing connections from the idle set does not make it larger.           *)
LEMMA IdleCount ==
  ASSUME IsFiniteSet(pool), NEW S \in SUBSET IdleConns
  PROVE  /\ IsFiniteSet(IdleConns) /\ Cardinality(IdleConns) \in Nat
         /\ Cardinality(S) <= Cardinality(IdleConns)
         /\ Cardinality(S) \in Nat
<1>1. IdleConns \subseteq pool BY DEF IdleConns
<1>2. IsFiniteSet(IdleConns) BY <1>1, FS_Subset
<1>3. QED BY <1>2, FS_Subset, FS_CardinalityType

(* Evicting any one member of an idle set brings it from one above the limit *)
(* back to the limit.                                                        *)
LEMMA EvictOne ==
  ASSUME IsFiniteSet(pool), IdleWithinLimit, NEW c, NEW v \in IdleConns \cup {c},
         PoolAssumption
  PROVE  Cardinality((IdleConns \cup {c}) \ {v}) <= KeepAliveIdleCountMax
<1>1. IsFiniteSet(IdleConns) /\ Cardinality(IdleConns) \in Nat
  <2>1. {} \in SUBSET IdleConns OBVIOUS
  <2>2. QED BY <2>1, IdleCount
<1>2. /\ IsFiniteSet(IdleConns \cup {c})
      /\ Cardinality(IdleConns \cup {c}) =
           IF c \in IdleConns THEN Cardinality(IdleConns) ELSE Cardinality(IdleConns) + 1
  BY <1>1, FS_AddElement
<1>3. Cardinality((IdleConns \cup {c}) \ {v}) = Cardinality(IdleConns \cup {c}) - 1
  BY <1>2, FS_RemoveElement
<1>4. QED BY <1>1, <1>2, <1>3 DEF IdleWithinLimit, PoolAssumption

-----------------------------------------------------------------------------
(* Each operation of the pool preserves the invariant, whoever calls it.     *)
LEMMA ReusePreserves ==
  ASSUME PoolAssumption, PoolInv, NEW c \in Conn, NEW r \in Route, ClientReuse(c, r)
  PROVE  PoolInv'
<1> USE DEF ClientReuse, ReuseConnection, Reusable, PoolInv
<1>1. task[c] \in Task /\ c \in pool /\ status[c] = "Idle"
  BY DEF TypeOK, IdleIffTimed
<1>2. timer' = CancelTask(timer, task[c])
  BY <1>1 DEF PoolAssumption
<1>3. /\ timer' \in [Task -> {"free", "scheduled", "running"}]
      /\ \A u \in Task \ {task[c]} : timer'[u] = timer[u]
  BY <1>1, <1>2, CancelTaskFrame DEF TypeOK
<1>4. TypeOK'
  BY <1>3 DEF TypeOK
<1>5. IsFiniteSet(pool')
  OBVIOUS
<1>6. IdleIffTimed'
  BY <1>1, <1>3 DEF IdleIffTimed, TypeOK, TasksNotShared
<1>7. TasksNotShared'
  BY DEF TasksNotShared, TypeOK
<1>8. IdleWithinLimit'
  <2>1. IdleConns' \in SUBSET IdleConns
    BY DEF IdleConns, TypeOK
  <2>2. QED BY <2>1, IdleCount DEF IdleWithinLimit, PoolAssumption
<1>9. QED BY <1>4, <1>5, <1>6, <1>7, <1>8

LEMMA CreatePreserves ==
  ASSUME PoolAssumption, PoolInv, NEW c \in Conn, NEW r \in Route, ClientCreate(c, r)
  PROVE  PoolInv'
<1> USE DEF ClientCreate, CreateConnection, PoolInv, timerVars
<1>1. TypeOK'
  BY DEF TypeOK
<1>2. IsFiniteSet(pool')
  BY FS_AddElement
<1>3. IdleIffTimed'
  BY DEF IdleIffTimed, TypeOK
<1>4. TasksNotShared'
  BY DEF TasksNotShared, TypeOK
<1>5. IdleWithinLimit'
  <2>1. IdleConns' \in SUBSET IdleConns
    BY DEF IdleConns, TypeOK
  <2>2. QED BY <2>1, IdleCount DEF IdleWithinLimit, PoolAssumption
<1>6. QED BY <1>1, <1>2, <1>3, <1>4, <1>5

(* Taking entries out of the map, with the rest as it was.                   *)
LEMMA RemovePreserves ==
  ASSUME PoolAssumption, PoolInv, NEW c \in Conn,
         pool' = pool \ {c}, task' = [task EXCEPT ![c] = NoTask],
         \A d \in Conn \ {c} : status'[d] = status[d], UNCHANGED timer, TypeOK'
  PROVE  PoolInv'
<1> USE DEF PoolInv
<1>1. IsFiniteSet(pool')
  BY FS_Subset
<1>2. IdleIffTimed'
  BY DEF IdleIffTimed, TypeOK
<1>3. TasksNotShared'
  BY DEF TasksNotShared, TypeOK
<1>4. IdleWithinLimit'
  <2>1. IdleConns' \in SUBSET IdleConns
    BY DEF IdleConns, TypeOK
  <2>2. QED BY <2>1, IdleCount DEF IdleWithinLimit, PoolAssumption
<1>5. QED BY <1>1, <1>2, <1>3, <1>4

(* The interesting case: a released connection gets a fresh task, and one    *)
(* idle connection, perhaps that same one, is evicted over the limit.        *)
LEMMA ReleaseToIdlePreserves ==
  ASSUME PoolAssumption, PoolInv, NEW c \in Conn, NEW t \in Task, ReleaseToIdle(c, t),
         held' \in SUBSET Conn
  PROVE  PoolInv'
<1> DEFINE idle   == IdleConns \cup {c}
           task1  == [task EXCEPT ![c] = t]
           timer1 == [timer EXCEPT ![t] = "scheduled"]
<1> USE DEF PoolInv
<1>1. /\ c \in pool /\ timer[t] = "free" /\ t # NoTask
      /\ status' = [status EXCEPT ![c] = "Idle"]
      /\ ttl' = [ttl EXCEPT ![t] = KeepAliveTimeout]
      /\ UNCHANGED <<cancelled, route>>
      /\ UpdateConnections(idle, task1, timer1, ttl')
  BY DEF ReleaseToIdle, PoolAssumption
<1>2. \A d \in pool : task[d] # t
  BY <1>1 DEF IdleIffTimed, PoolAssumption
<1>3. timer1 \in [Task -> {"free", "scheduled", "running"}]
  BY DEF TypeOK
<1>4. \A d \in pool : /\ d \in idle <=> task1[d] # NoTask
                      /\ task1[d] # NoTask => task1[d] \in Task /\ timer1[task1[d]] # "free"
  BY <1>1 DEF IdleIffTimed, IdleConns, TypeOK
<1>5. \A d, e \in pool : task1[d] = task1[e] /\ task1[d] # NoTask => d = e
  BY <1>1, <1>2 DEF TasksNotShared, TypeOK
<1>6. CASE Cardinality(idle) <= KeepAliveIdleCountMax
  <2>1. pool' = pool /\ task' = task1 /\ timer' = timer1
    BY <1>1, <1>6 DEF UpdateConnections
  <2>2. TypeOK'
    BY <1>1, <1>3, <2>1 DEF TypeOK, PoolAssumption
  <2>3. IdleConns' = idle
    BY <1>1, <2>1 DEF IdleConns, TypeOK
  <2>4. IdleIffTimed'
    BY <1>1, <1>4, <2>1 DEF IdleIffTimed, IdleConns, TypeOK
  <2>5. QED
    BY <1>5, <1>6, <2>1, <2>2, <2>3, <2>4 DEF TasksNotShared, IdleWithinLimit
<1>7. CASE ~(Cardinality(idle) <= KeepAliveIdleCountMax)
  <2>1. PICK v \in EarliestExpiring(idle, task1, ttl') :
          /\ pool' = pool \ {v}
          /\ task' = [task1 EXCEPT ![v] = NoTask]
          /\ timer' = CancelTask(timer1, task1[v])
    BY <1>1, <1>7 DEF UpdateConnections
  <2>2. v \in idle /\ v \in pool
    BY <1>1 DEF EarliestExpiring, IdleConns
  <2>3. task1[v] \in Task
    BY <1>4, <2>2
  <2>4. /\ timer' \in [Task -> {"free", "scheduled", "running"}]
        /\ \A u \in Task \ {task1[v]} : timer'[u] = timer1[u]
    <3> HIDE DEF timer1, task1
    <3>1. QED BY <1>3, <2>1, <2>3, CancelTaskFrame
  <2>5. TypeOK'
    <3>1. task' \in [Conn -> Task \cup {NoTask}]
      BY <2>1 DEF TypeOK
    <3>2. ttl' \in [Task -> 0..KeepAliveTimeout]
      BY <1>1 DEF TypeOK, PoolAssumption
    <3>3. status' \in [Conn -> {"Inuse", "Idle"}]
      BY <1>1 DEF TypeOK
    <3> HIDE DEF timer1, task1
    <3>4. QED BY <1>1, <2>1, <2>4, <3>1, <3>2, <3>3 DEF TypeOK
  <2>6. IsFiniteSet(pool')
    BY <2>1, FS_Subset
  <2>7. \A d \in pool' : task'[d] = task1[d] /\ (task1[d] # NoTask => task1[d] # task1[v])
    <3>1. \A d \in pool' : d \in Conn /\ d \in pool /\ d # v
      BY <2>1 DEF TypeOK
    <3>2. task1 \in [Conn -> Task \cup {NoTask}]
      BY DEF TypeOK
    <3> HIDE DEF task1, timer1
    <3>3. QED BY <1>5, <2>1, <2>2, <3>1, <3>2
  <2>8. IdleIffTimed'
    <3>1. \A d \in pool' : status'[d] = "Idle" <=> d \in idle
      BY <1>1, <2>1 DEF IdleConns, TypeOK
    <3> HIDE DEF idle, task1, timer1
    <3>2. ASSUME NEW d \in pool'
          PROVE  /\ status'[d] = "Idle" <=> task'[d] # NoTask
                 /\ task'[d] # NoTask => timer'[task'[d]] # "free"
      <4>1. d \in pool /\ task'[d] = task1[d]
        BY <2>1, <2>7
      <4>2. task1[d] # NoTask => task1[d] \in Task \ {task1[v]} /\ timer1[task1[d]] # "free"
        BY <1>4, <2>7, <4>1
      <4>3. task1[d] # NoTask => timer'[task1[d]] = timer1[task1[d]]
        BY <2>4, <4>2
      <4>4. QED BY <1>4, <3>1, <4>1, <4>2, <4>3
    <3>3. QED BY <3>2 DEF IdleIffTimed
  <2>9. TasksNotShared'
    <3> HIDE DEF idle, task1, timer1
    <3>1. QED BY <1>5, <2>1, <2>7 DEF TasksNotShared
  <2>10. IdleWithinLimit'
    <3>1. IdleConns' = idle \ {v}
      BY <1>1, <2>1, <2>2 DEF IdleConns, TypeOK
    <3>2. QED BY <2>2, <3>1, EvictOne DEF IdleWithinLimit
  <2>11. QED BY <2>5, <2>6, <2>8, <2>9, <2>10
<1>8. QED BY <1>6, <1>7

(* releaseConnection, in all four of its outcomes.                           *)
LEMMA ReleasePreserves ==
  ASSUME PoolAssumption, PoolInv, NEW c \in Conn, ReleaseConnection(c), held' \in SUBSET Conn
  PROVE  PoolInv'
<1>1. CASE ReleaseUnknown(c) \/ ReleaseAlreadyIdle(c)
  <2>1. UNCHANGED poolVars
    BY <1>1 DEF ReleaseUnknown, ReleaseAlreadyIdle
  <2>2. QED BY <2>1 DEF PoolInv, TypeOK, IdleIffTimed, TasksNotShared, IdleWithinLimit,
                        IdleConns, poolVars, connVars, timerVars
<1>2. CASE ReleaseCancelled(c)
  <2>1. TypeOK'
    BY <1>2 DEF ReleaseCancelled, PoolInv, TypeOK, timerVars
  <2>2. /\ pool' = pool \ {c} /\ task' = [task EXCEPT ![c] = NoTask] /\ UNCHANGED timer
        /\ \A d \in Conn \ {c} : status'[d] = status[d]
    BY <1>2 DEF ReleaseCancelled, PoolInv, TypeOK, timerVars
  <2>3. QED BY <2>1, <2>2, RemovePreserves
<1>3. CASE \E t \in Task : ReleaseToIdle(c, t)
  BY <1>3, ReleaseToIdlePreserves
<1>4. QED BY <1>1, <1>2, <1>3 DEF ReleaseConnection

(* The clock and the timer thread: a task in the hands of the timer thread   *)
(* still counts as live for the connection it belongs to, and running it     *)
(* takes that connection, and only that one, out of the map.                 *)
LEMMA TimerPreserves ==
  ASSUME PoolAssumption, PoolInv, TimerStep, UNCHANGED held
  PROVE  PoolInv'
<1> USE DEF PoolInv, connVars
<1>1. CASE Tick
  <2>1. TypeOK'
    BY <1>1 DEF Tick, TypeOK, PoolAssumption
  <2>2. QED BY <1>1, <2>1 DEF Tick, IdleIffTimed, TasksNotShared, IdleWithinLimit, IdleConns
<1>2. ASSUME NEW t \in Task, TimerStart(t)
      PROVE  PoolInv'
  <2>1. TypeOK'
    BY <1>2 DEF TimerStart, TypeOK
  <2>2. IdleIffTimed'
    BY <1>2 DEF TimerStart, TypeOK, IdleIffTimed
  <2>3. QED BY <1>2, <2>1, <2>2 DEF TimerStart, TasksNotShared, IdleWithinLimit, IdleConns
<1>3. ASSUME NEW t \in Task, TimerRun(t)
      PROVE  PoolInv'
  <2>1. timer' = [timer EXCEPT ![t] = "free"] /\ UNCHANGED <<status, cancelled, route, ttl>>
    BY <1>3 DEF TimerRun
  <2>2. CASE \A c \in pool : task[c] # t
    <3>1. UNCHANGED <<pool, task>>
      BY <1>3, <2>2 DEF TimerRun
    <3>2. TypeOK'
      BY <2>1, <3>1 DEF TypeOK
    <3>3. IdleIffTimed'
      BY <2>1, <2>2, <3>1 DEF IdleIffTimed, TypeOK
    <3>4. QED BY <2>1, <3>1, <3>2, <3>3 DEF TasksNotShared, IdleWithinLimit, IdleConns
  <2>3. CASE \E c \in pool : task[c] = t
    <3>1. PICK c \in pool : /\ task[c] = t /\ pool' = pool \ {c}
                            /\ task' = [task EXCEPT ![c] = NoTask]
      BY <1>3, <2>3 DEF TimerRun
    <3>2. TypeOK'
      BY <2>1, <3>1 DEF TypeOK
    <3>3. \A d \in pool' : d \in pool /\ task'[d] = task[d] /\ task[d] # t
      BY <3>1 DEF TasksNotShared, TypeOK, PoolAssumption
    <3>4. IdleIffTimed'
      BY <2>1, <3>3 DEF IdleIffTimed, TypeOK
    <3>5. TasksNotShared'
      BY <3>3 DEF TasksNotShared
    <3>6. IsFiniteSet(pool')
      BY <3>1, FS_Subset
    <3>7. IdleWithinLimit'
      <4>1. IdleConns' \in SUBSET IdleConns
        BY <2>1, <3>1 DEF IdleConns
      <4>2. QED BY <4>1, IdleCount DEF IdleWithinLimit, PoolAssumption
    <3>8. QED BY <3>2, <3>4, <3>5, <3>6, <3>7
  <2>4. QED BY <2>2, <2>3
<1>4. QED BY <1>1, <1>2, <1>3 DEF TimerStep

-----------------------------------------------------------------------------
LEMMA PoolInvInit ==
  ASSUME PoolAssumption, Init
  PROVE  PoolInv
<1>1. TypeOK
  BY DEF Init, TypeOK, PoolAssumption
<1>2. IsFiniteSet(pool) /\ IdleConns = {}
  BY FS_EmptySet DEF Init, IdleConns
<1>3. IdleWithinLimit
  BY <1>2, FS_EmptySet DEF IdleWithinLimit, PoolAssumption
<1>4. QED BY <1>1, <1>2, <1>3 DEF PoolInv, Init, IdleIffTimed, TasksNotShared

LEMMA PoolInvNext ==
  ASSUME PoolAssumption, PoolInv, [Next]_vars
  PROVE  PoolInv'
<1>1. held \in SUBSET Conn
  BY DEF PoolInv, TypeOK
<1>2. ASSUME NEW c \in Conn, NEW r \in Route, ClientReuse(c, r) \/ ClientCreate(c, r)
      PROVE  PoolInv'
  BY <1>2, ReusePreserves, CreatePreserves
<1>3. ASSUME NEW c \in held, ClientRelease(c)
      PROVE  PoolInv'
  BY <1>1, <1>3, ReleasePreserves DEF ClientRelease
<1>4. ASSUME NEW c \in held, ClientRemove(c)
      PROVE  PoolInv'
  <2>1. TypeOK'
    BY <1>1, <1>4 DEF ClientRemove, RemoveConnection, PoolInv, TypeOK, connVars, timerVars
  <2>2. QED BY <1>1, <1>4, <2>1, RemovePreserves
            DEF ClientRemove, RemoveConnection, connVars, timerVars
<1>5. ASSUME NEW c \in held, ClientCancel(c)
      PROVE  PoolInv'
  BY <1>1, <1>5 DEF ClientCancel, CancelConnection, PoolInv, TypeOK, IdleIffTimed,
       TasksNotShared, IdleWithinLimit, IdleConns, timerVars
<1>6. ASSUME NEW c \in held, ClientDrop(c)
      PROVE  PoolInv'
  BY <1>1, <1>6 DEF ClientDrop, PoolInv, TypeOK, IdleIffTimed, TasksNotShared,
       IdleWithinLimit, IdleConns, poolVars, connVars, timerVars
<1>7. CASE TimerStep /\ UNCHANGED held
  BY <1>7, TimerPreserves
<1>8. CASE UNCHANGED vars
  BY <1>8 DEF vars, PoolInv, TypeOK, IdleIffTimed, TasksNotShared, IdleWithinLimit,
       IdleConns, poolVars, connVars, timerVars
<1>9. QED BY <1>2, <1>3, <1>4, <1>5, <1>6, <1>7, <1>8 DEF Next

(* The inductive invariant holds in every reachable state.                   *)
THEOREM PoolInvariant == Spec => []PoolInv
<1>1. PoolAssumption
  BY PoolAssumption
<1>2. Init => PoolInv
  BY <1>1, PoolInvInit
<1>3. PoolInv /\ [Next]_vars => PoolInv'
  BY <1>1, PoolInvNext
<1>4. QED BY <1>2, <1>3, PTL DEF Spec

(* For every number of connections, routes and clients, and every limit: the *)
(* variables keep their types.                                               *)
THEOREM TypeCorrect == Spec => []TypeOK
<1>1. PoolInv => TypeOK
  BY DEF PoolInv
<1>2. QED BY <1>1, PoolInvariant, PTL

(* A pooled connection is idle exactly when a live keep-alive task will      *)
(* close it: updateConnections never follows a null task pointer.            *)
THEOREM IdleConnectionsAreTimed == Spec => []IdleIffTimed
<1>1. PoolInv => IdleIffTimed
  BY DEF PoolInv
<1>2. QED BY <1>1, PoolInvariant, PTL

(* The pool never holds more idle connections than it is configured to.      *)
THEOREM IdleCountIsBounded == Spec => []IdleWithinLimit
<1>1. PoolInv => IdleWithinLimit
  BY DEF PoolInv
<1>2. QED BY <1>1, PoolInvariant, PTL

(* A connection in use leaves the pool only by the hand of a client that     *)
(* holds it: never by a timeout that comes late, never by the release of     *)
(* another connection.                                                       *)
THEOREM InuseConnectionsStay == Spec => InuseNotEvicted
<1> DEFINE Stays == \A c \in pool \ pool' :
                      status[c] = "Inuse" => c \in held /\ (ReleaseConnection(c) \/ RemoveConnection(c))
<1>1. ASSUME PoolAssumption, PoolInv, [Next]_vars
      PROVE  [Stays]_vars
  <2>1. held \in SUBSET Conn /\ pool \in SUBSET Conn
    BY <1>1 DEF PoolInv, TypeOK
  <2>2. ASSUME NEW c \in Conn, NEW r \in Route, ClientReuse(c, r) \/ ClientCreate(c, r)
        PROVE  Stays
    BY <2>2 DEF ClientReuse, ClientCreate, ReuseConnection, CreateConnection
  <2>3. ASSUME NEW c \in held, ClientRelease(c)
        PROVE  Stays
    <3>1. ASSUME NEW d \in pool \ pool', status[d] = "Inuse"
          PROVE  d = c
      <4>1. CASE \E t \in Task : ReleaseToIdle(c, t)
        <5>1. PICK t \in Task : ReleaseToIdle(c, t)
          BY <4>1
        <5>2. d \in IdleConns \cup {c}
          BY <3>1, <5>1 DEF ReleaseToIdle, UpdateConnections, EarliestExpiring
        <5>3. QED BY <3>1, <5>2 DEF IdleConns
      <4>2. QED BY <2>3, <3>1, <4>1 DEF ClientRelease, ReleaseConnection, ReleaseUnknown,
                 ReleaseAlreadyIdle, ReleaseCancelled, poolVars
    <3>2. QED BY <2>3, <3>1 DEF ClientRelease
  <2>4. ASSUME NEW c \in held, ClientRemove(c)
        PROVE  Stays
    BY <2>4 DEF ClientRemove, RemoveConnection
  <2>5. ASSUME NEW c \in held, ClientCancel(c) \/ ClientDrop(c)
        PROVE  Stays
    BY <2>5 DEF ClientCancel, ClientDrop, CancelConnection, poolVars
  <2>6. ASSUME TimerStep
        PROVE  Stays
    <3>1. ASSUME NEW t \in Task, TimerRun(t), NEW d \in pool \ pool'
          PROVE  status[d] = "Idle"
      <4>1. task[d] = t
        BY <3>1 DEF TimerRun
      <4>2. QED BY <1>1, <4>1 DEF PoolInv, IdleIffTimed, PoolAssumption
    <3>2. ASSUME Tick \/ \E t \in Task : TimerStart(t)
          PROVE  pool' = pool
      BY <3>2 DEF Tick, TimerStart
    <3>3. QED BY <2>6, <3>1, <3>2 DEF TimerStep
  <2>7. QED BY <1>1, <2>2, <2>3, <2>4, <2>5, <2>6 DEF Next
<1>2. PoolAssumption
  BY PoolAssumption
<1>3. PoolInv /\ [Next]_vars => [Stays]_vars
  BY <1>1, <1>2
<1>4. QED BY <1>3, PoolInvariant, PTL DEF Spec, InuseNotEvicted
=============================================================================
