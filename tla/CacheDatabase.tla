--------------------------- MODULE CacheDatabase ---------------------------
(***************************************************************************)
(* The metadata database of the file cache: HttpCacheDatabase.cpp over     *)
(* SqliteOpenHelper.cpp and SqliteDatabase.cpp, with the scope guards      *)
(* AutoSqliteTransaction and AutoSqliteDatabase.                           *)
(*                                                                         *)
(* Every call opens the database (creating its table, in a transaction, if *)
(* the file is not at the helper's version), does its statement, and       *)
(* closes it.  Each call of SQLite is a step: it may fail, and the process *)
(* may die before it.  What is committed survives; the transaction of a    *)
(* session that closes or dies is rolled back.                             *)
(*                                                                         *)
(* get, put, delete and touch stand for getMetadata, updateMetadata,       *)
(* deleteMetadata and updateLastAccessedSec; list for enumerate, whose     *)
(* listener may call deleteMetadata; discard for closeSqliteSession        *)
(* followed by deleteDatabaseFile; walk for another user of SqliteDatabase *)
(* who queries it and moves about in the cursor.  The last three rely on   *)
(* their caller for exclusion, as the comment of enumerate says.           *)
(***************************************************************************)
EXTENDS Integers, Sequences, FiniteSets

CONSTANTS
  Client, Key, Value, NoRow, NoCall,
  NoClient,    \* m_mutex of HttpCacheDatabase is free
  NoDb,        \* a null m_database
  NoCursor,    \* the client has no cursor
  IntMax,      \* the largest int
  Version,     \* m_version
  OtherVersions, \* versions that libraries before and after this one wrote
  MaxFaults,   \* bound: calls of SQLite that fail
  MaxCrashes   \* bound: deaths of the process

ASSUME DatabaseAssumption ==
  /\ NoClient \notin Client
  /\ IsFiniteSet(Key)
  /\ Version \in Nat \ {0} /\ OtherVersions \subseteq Nat \ {0}
  /\ MaxFaults \in Nat /\ MaxCrashes \in Nat

(* Positions in a table are ints: SqliteCursor::move casts them.            *)
ASSUME RowsAssumption == IntMax \in Nat /\ Cardinality(Key) <= IntMax

VARIABLES
  disk,      \* committed content of the file: user_version, table or not, rows
  db,        \* m_database, or the one getDatabase is preparing
  holder,    \* the client that has m_mutex
  at,        \* where each client is
  call, outcome, answer,  \* as in MetadataStore
  cursor,    \* the rows a list or a walk is going through
  faults, crashes

clientVars == <<call, outcome, answer, cursor>>
bounds == <<faults, crashes>>
vars == <<disk, db, holder, at, clientVars, bounds>>

-----------------------------------------------------------------------------
Preparing == {"migrate", "create", "setVersion", "commitVersion"}
Working == {"lock", "open"} \cup Preparing
           \cup {"query", "begin", "change", "commit", "end", "close", "drop", "unlink"}
InTransaction == {"change", "commit", "end"}

Store == INSTANCE MetadataStore WITH
  rows <- disk.rows,
  answer <- [c \in Client |-> IF outcome[c] = "ok" THEN answer[c] ELSE NoRow],
  degraded <- db # NoDb /\ db.active /\ \A c \in Client : at[c] \notin InTransaction \cup Preparing

EmptyFile == [version |-> 0, table |-> FALSE, rows |-> Store!NoRows]
FileContents == [version : {0, Version} \cup OtherVersions, table : BOOLEAN,
                 rows : [Key -> Value \cup {NoRow}]]

(* A SqliteDatabase: m_opened; the transaction flag of its Poco session;     *)
(* whether SQLite has a transaction open; the content the session sees.      *)
Session == [opened : BOOLEAN, isTransaction : BOOLEAN, active : BOOLEAN, sees : FileContents]
NewSession == [opened |-> TRUE, isTransaction |-> FALSE, active |-> FALSE, sees |-> disk]

Rows == INSTANCE SqliteCursor
Cursors == [keys : Seq(Key), row : Nat, record : Nat, walk : BOOLEAN]

ASSUME NullAssumption ==
  NoDb \notin Session /\ NoCall \notin Store!Calls /\ NoCursor \notin Cursors

Idle(c) == at[c] \in {"idle", "rows"}
Op(c) == call[c].op
ReadsOnly(c) == Store!ReadOnly(call[c])
Unlocked == {"list", "walk", "discard"}
Exclusive(c) == cursor[c] # NoCursor \/ (call[c] # NoCall /\ Op(c) \in Unlocked)

Go(c, where) == at' = [at EXCEPT ![c] = where]
Fault == faults < MaxFaults /\ faults' = faults + 1 /\ UNCHANGED crashes
Fails(c) == outcome' = [outcome EXCEPT ![c] = "failed"]

Init ==
  /\ disk \in {EmptyFile} \cup
       [version : {Version} \cup OtherVersions, table : {TRUE}, rows : [Key -> Value \cup {NoRow}]]
  /\ db = NoDb /\ holder = NoClient
  /\ at = [c \in Client |-> "idle"]
  /\ call = [c \in Client |-> NoCall]
  /\ outcome = [c \in Client |-> "open"] /\ answer = [c \in Client |-> NoRow]
  /\ cursor = [c \in Client |-> NoCursor]
  /\ faults = 0 /\ crashes = 0

-----------------------------------------------------------------------------
(* A client calls.  In the listener of enumerate only deleteMetadata is      *)
(* called.                                                                   *)
MayCall(c, q) ==
  IF cursor[c] # NoCursor THEN ~cursor[c].walk /\ q.op = "delete"
  ELSE \A d \in Client \ {c} : ~Exclusive(d) /\ (q.op \in Unlocked => at[d] = "idle")

Call(c, q) ==
  /\ Idle(c) /\ MayCall(c, q)
  /\ call' = [call EXCEPT ![c] = q]
  /\ outcome' = [outcome EXCEPT ![c] = "open"] /\ answer' = [answer EXCEPT ![c] = NoRow]
  /\ Go(c, CASE q.op = "discard" -> "drop"
             [] q.op \in {"list", "walk"} -> "open"
             [] OTHER -> "lock")
  /\ UNCHANGED <<disk, db, holder, cursor, bounds>>

Lock(c) ==
  /\ at[c] = "lock" /\ holder = NoClient
  /\ holder' = c
  /\ Go(c, "open")
  /\ UNCHANGED <<disk, db, clientVars, bounds>>

(* Where a call goes on once it has its database.                            *)
AfterOpen(c) == IF ReadsOnly(c) THEN "query" ELSE "begin"

(* getDatabase: the open database as it is, or a new session.  The helper's  *)
(* own mutex is held, and m_initializing is set, while it prepares the file. *)
HelperFree == \A c \in Client : at[c] \notin Preparing
IsOpen == db # NoDb /\ db.opened
UpToDate == disk.version = Version

Open(c) ==
  /\ at[c] = "open" /\ HelperFree
  /\ IF IsOpen
       THEN UNCHANGED db /\ Go(c, AfterOpen(c))
       ELSE db' = NewSession /\ Go(c, IF UpToDate THEN AfterOpen(c) ELSE "migrate")
  /\ UNCHANGED <<disk, holder, clientVars, bounds>>

Migrate_VersionFirst(c) ==
  /\ at[c] = "migrate"
  /\ disk' = [disk EXCEPT !.version = Version]
  /\ db' = [db EXCEPT !.active = TRUE, !.isTransaction = TRUE]
  /\ Go(c, "create")
  /\ UNCHANGED <<holder, clientVars, bounds>>

Migrate(c) ==
  /\ at[c] = "migrate"
  /\ db' = [db EXCEPT !.active = TRUE, !.isTransaction = TRUE]
  /\ Go(c, "create")
  /\ UNCHANGED <<disk, holder, clientVars, bounds>>

(* A statement of the preparation: the session sees its effect.              *)
ExecSql(c, content, next) ==
  /\ db' = [db EXCEPT !.sees = content]
  /\ Go(c, next)
  /\ UNCHANGED <<disk, holder, clientVars, bounds>>

(* onCreate makes the table; onUpgrade and onDowngrade do nothing.           *)
Create(c) ==
  /\ at[c] = "create"
  /\ ExecSql(c, [db.sees EXCEPT !.table = @ \/ db.sees.version = 0], "setVersion")

SetVersion(c) ==
  /\ at[c] = "setVersion"
  /\ ExecSql(c, [db.sees EXCEPT !.version = Version], "commitVersion")

CommitVersion(c) ==
  /\ at[c] = "commitVersion"
  /\ disk' = db.sees
  /\ db' = [db EXCEPT !.active = FALSE, !.isTransaction = FALSE]
  /\ Go(c, AfterOpen(c))
  /\ UNCHANGED <<holder, clientVars, bounds>>

(* The exception leaves getDatabase: the object is destroyed, its session    *)
(* closed.  There is no AutoSqliteDatabase yet.                              *)
SessionCloses == db' = NoDb

OpenFails(c) ==
  /\ at[c] \in {"open"} \cup Preparing
  /\ at[c] = "open" => HelperFree /\ ~IsOpen
  /\ Fault
  /\ SessionCloses
  /\ Fails(c)
  /\ Go(c, "return")
  /\ UNCHANGED <<disk, holder, call, answer, cursor>>

-----------------------------------------------------------------------------
(* The reads: a query, and the cursor's first row or, for list, all rows.    *)
Results(c) == Store!AnswerFrom(call[c], db.sees.rows)

Query(c) ==
  /\ at[c] = "query" /\ db.sees.table
  /\ answer' = [answer EXCEPT ![c] = Results(c)]
  /\ outcome' = [outcome EXCEPT ![c] = "ok"]
  /\ Go(c, "close")
  /\ UNCHANGED <<disk, db, holder, call, cursor, bounds>>

QueryFails(c) ==
  /\ at[c] = "query"
  /\ Fault
  /\ Fails(c)
  /\ Go(c, "close")
  /\ UNCHANGED <<disk, db, holder, call, answer, cursor>>

(* The changes: AutoSqliteTransaction begins, and its destructor calls       *)
(* endTransaction unless beginTransaction threw.                             *)
Begin(c) ==
  /\ at[c] = "begin" /\ ~db.active
  /\ db' = [db EXCEPT !.active = TRUE, !.isTransaction = TRUE]
  /\ Go(c, "change")
  /\ UNCHANGED <<disk, holder, clientVars, bounds>>

BeginFails(c) ==
  /\ at[c] = "begin"
  /\ IF db.active THEN UNCHANGED bounds ELSE Fault
  /\ Fails(c)
  /\ Go(c, "close")
  /\ UNCHANGED <<disk, db, holder, call, answer, cursor>>

Change(c) ==
  /\ at[c] = "change" /\ db.sees.table
  /\ answer' = [answer EXCEPT ![c] = Results(c)]
  /\ db' = [db EXCEPT !.sees.rows = Store!RowsAfter(call[c], @)]
  /\ Go(c, "commit")
  /\ UNCHANGED <<disk, holder, call, outcome, cursor, bounds>>

(* SQLite may roll back by itself when a statement fails; the Poco session   *)
(* does not notice.                                                          *)
RolledBack == [db EXCEPT !.active = FALSE, !.sees = disk]

StepFails(c) ==
  /\ at[c] \in {"change", "commit"}
  /\ Fault
  /\ db' \in {db, RolledBack}
  /\ answer' = [answer EXCEPT ![c] = NoRow]
  /\ Fails(c)
  /\ Go(c, "end")
  /\ UNCHANGED <<disk, holder, call, cursor>>

Commit_ReportsOnly(c) ==
  /\ at[c] = "commit"
  /\ outcome' = [outcome EXCEPT ![c] = "ok"]
  /\ Go(c, "end")
  /\ UNCHANGED <<disk, db, holder, call, answer, cursor, bounds>>

Commit(c) ==
  /\ at[c] = "commit"
  /\ disk' = db.sees
  /\ db' = [db EXCEPT !.active = FALSE, !.isTransaction = FALSE]
  /\ outcome' = [outcome EXCEPT ![c] = "ok"]
  /\ Go(c, "end")
  /\ UNCHANGED <<holder, call, answer, cursor, bounds>>

(* endTransaction rolls back what was not committed.  An error is swallowed, *)
(* such as the one for a transaction that SQLite has already rolled back.    *)
End(c) ==
  /\ at[c] = "end"
  /\ \/ /\ db.isTransaction /\ db.active
        /\ db' = [RolledBack EXCEPT !.isTransaction = FALSE]
        /\ UNCHANGED bounds
     \/ db.isTransaction /\ db.active /\ Fault /\ UNCHANGED db
     \/ ~(db.isTransaction /\ db.active) /\ UNCHANGED <<db, bounds>>
  /\ Go(c, "close")
  /\ UNCHANGED <<disk, holder, clientVars>>

(* AutoSqliteDatabase closes; in a transaction close() throws, the exception *)
(* is swallowed and the database stays open for the next call.               *)
Close(c) ==
  /\ at[c] = "close"
  /\ db' = [db EXCEPT !.opened = db.isTransaction /\ @]
  /\ Go(c, "return")
  /\ UNCHANGED <<disk, holder, clientVars, bounds>>

(* The call returns or throws, and frees m_mutex.  list and walk go on with  *)
(* the rows their query found, in any order of last access; list stops at    *)
(* once when there is no first row.                                          *)
Orders(S) == {s \in [1..Cardinality(S) -> S] : \A i, j \in DOMAIN s : s[i] = s[j] => i = j}
Fetched(c) == Op(c) \in {"list", "walk"} /\ outcome[c] = "ok" /\ (Op(c) = "list" => answer[c] # {})

Freed_OnSuccess(c) == IF holder = c /\ outcome[c] = "ok" THEN NoClient ELSE holder
Freed(c) == IF holder = c THEN NoClient ELSE holder

NewCursor(order, walk) == [keys |-> order, row |-> 0, record |-> 0, walk |-> walk]

Return(c) ==
  /\ at[c] = "return"
  /\ IF Fetched(c)
       THEN \E order \in Orders(answer[c]) :
              cursor' = [cursor EXCEPT ![c] = NewCursor(order, Op(c) = "walk")]
       ELSE UNCHANGED cursor
  /\ Go(c, IF Fetched(c) \/ cursor[c] # NoCursor THEN "rows" ELSE "idle")
  /\ call' = [call EXCEPT ![c] = NoCall]
  /\ holder' = Freed(c)
  /\ UNCHANGED <<disk, db, outcome, answer, bounds>>

CloseCursor(c) == cursor' = [cursor EXCEPT ![c] = NoCursor] /\ Go(c, "idle")

(* The listener has had the row the cursor is at; enumerate moves on.        *)
ListRow(c) ==
  /\ at[c] = "rows" /\ ~cursor[c].walk
  /\ LET next == Rows!MoveToNext(cursor[c]) IN
     IF next.ok THEN cursor' = [cursor EXCEPT ![c] = next.cursor] /\ UNCHANGED at
                ELSE CloseCursor(c)
  /\ UNCHANGED <<disk, db, holder, call, outcome, answer, bounds>>

(* A value of the row cannot be read: the exception leaves enumerate in the  *)
(* middle of the rows.                                                       *)
Unreadable == Fault

ListFails(c) ==
  /\ at[c] = "rows" /\ ~cursor[c].walk
  /\ Unreadable
  /\ CloseCursor(c)
  /\ UNCHANGED <<disk, db, holder, call, outcome, answer>>

WalkTo(c, move) ==
  /\ at[c] = "rows" /\ cursor[c].walk
  /\ cursor' = [cursor EXCEPT ![c] = move.cursor]
  /\ UNCHANGED <<disk, db, holder, at, call, outcome, answer, bounds>>

WalkPosition(c, position) == WalkTo(c, Rows!MoveToPosition(cursor[c], position))
WalkOffset(c, offset) == WalkTo(c, Rows!Move(cursor[c], offset))

Walk(c) ==
  \/ WalkTo(c, Rows!MoveToFirst(cursor[c])) \/ WalkTo(c, Rows!MoveToLast(cursor[c]))
  \/ WalkTo(c, Rows!MoveToNext(cursor[c])) \/ WalkTo(c, Rows!MoveToPrevious(cursor[c]))
  \/ \E position \in 0..Cardinality(Key) : WalkPosition(c, position)
  \/ \E offset \in Rows!Ints : WalkOffset(c, offset)

EndWalk(c) ==
  /\ at[c] = "rows" /\ cursor[c].walk
  /\ CloseCursor(c)
  /\ UNCHANGED <<disk, db, holder, call, outcome, answer, bounds>>

-----------------------------------------------------------------------------
(* deleteCacheFile of the file cache: closeSqliteSession destroys the        *)
(* session, which rolls back, then the file is deleted under m_mutex.        *)
CloseSession(c) ==
  /\ at[c] = "drop"
  /\ SessionCloses
  /\ Go(c, "unlink")
  /\ UNCHANGED <<disk, holder, clientVars, bounds>>

DeleteFile(c) ==
  /\ at[c] = "unlink" /\ holder = NoClient
  /\ disk' = EmptyFile
  /\ outcome' = [outcome EXCEPT ![c] = "ok"]
  /\ Go(c, "return")
  /\ UNCHANGED <<db, holder, call, answer, cursor, bounds>>

DeleteFileFails(c) ==
  /\ at[c] = "unlink" /\ holder = NoClient
  /\ Fault
  /\ Fails(c)
  /\ Go(c, "return")
  /\ UNCHANGED <<disk, db, holder, call, answer, cursor>>

(* The process ends, in the middle of anything; a new one finds the file.    *)
Crash ==
  /\ crashes < MaxCrashes /\ crashes' = crashes + 1
  /\ SessionCloses /\ holder' = NoClient
  /\ at' = [c \in Client |-> "idle"]
  /\ call' = [c \in Client |-> NoCall]
  /\ outcome' = [c \in Client |-> "open"] /\ answer' = [c \in Client |-> NoRow]
  /\ cursor' = [c \in Client |-> NoCursor]
  /\ UNCHANGED <<disk, faults>>

-----------------------------------------------------------------------------
Opening(c) == Open(c) \/ Migrate(c) \/ Create(c) \/ SetVersion(c) \/ CommitVersion(c)
              \/ OpenFails(c)
Reading(c) == Query(c) \/ QueryFails(c)
Changing(c) == Begin(c) \/ BeginFails(c) \/ Change(c) \/ StepFails(c) \/ Commit(c) \/ End(c)
Discarding(c) == CloseSession(c) \/ DeleteFile(c) \/ DeleteFileFails(c)
Running(c) == Opening(c) \/ Reading(c) \/ Changing(c) \/ Close(c) \/ Return(c) \/ Discarding(c)
Going(c) == ListRow(c) \/ ListFails(c) \/ Walk(c) \/ EndWalk(c)

Next ==
  \/ \E c \in Client : Lock(c) \/ Running(c) \/ Going(c) \/ \E q \in Store!Calls : Call(c, q)
  \/ Crash

Spec == Init /\ [][Next]_vars

(* A thread that is in a call goes on.                                       *)
FairSpec == Spec /\ \A c \in Client : WF_vars(Running(c))

-----------------------------------------------------------------------------
TypeOK ==
  /\ disk \in FileContents
  /\ db \in Session \cup {NoDb}
  /\ holder \in Client \cup {NoClient}
  /\ at \in [Client -> Working \cup {"idle", "return", "rows"}]
  /\ call \in [Client -> Store!Calls \cup {NoCall}]
  /\ answer \in [Client -> Value \cup {NoRow} \cup SUBSET Key]
  /\ cursor \in [Client -> Cursors \cup {NoCursor}]
  /\ \A c \in Client : /\ call[c] = NoCall <=> Idle(c)
                       /\ at[c] = "rows" => cursor[c] # NoCursor
  /\ outcome \in [Client -> {"open", "ok", "failed"}]
  /\ faults \in 0..MaxFaults /\ crashes \in 0..MaxCrashes

(* Whatever fails and wherever the process dies, a file that says it is at   *)
(* the helper's version has its table: onCreate and setVersion are one       *)
(* transaction, so that no later open skips the table.                       *)
VersionHasTable == disk.version = Version => disk.table

(* A statement of the cache only ever runs on an open database that has been *)
(* brought to the helper's version, and a change only in a transaction of    *)
(* its own, however the call before ended.                                   *)
StatementsHaveADatabase ==
  \A c \in Client :
    /\ at[c] \in {"query", "begin"} \cup InTransaction =>
         db # NoDb /\ db.opened /\ db.sees.table /\ db.sees.version = Version
    /\ at[c] \in {"change", "commit"} =>
         db.active /\ \A d \in Client \ {c} : at[d] \notin InTransaction

(* No call leaves its transaction open behind it unless undoing it failed    *)
(* too (two failures in one call), and a database still open for another     *)
(* reason shows what is in the file.                                         *)
LeftOpenOnlyAfterTwoFailures ==
  (db # NoDb /\ db.opened /\ \A c \in Client : at[c] \notin Working) =>
    /\ db.isTransaction
    /\ IF db.active THEN faults >= 2 ELSE db.sees = disk

(* The file, the session and the transaction, between and in the steps of    *)
(* the calls.                                                                *)
DatabaseInv ==
  TypeOK /\ VersionHasTable /\ StatementsHaveADatabase /\ LeftOpenOnlyAfterTwoFailures

(* However a cursor has been moved, and after moves that failed, it reports  *)
(* the position of the row whose values it reads, and whether that is the    *)
(* first or the last.                                                        *)
CursorKeepsPlace ==
  \A c \in Client : cursor[c] # NoCursor /\ Rows!Count(cursor[c]) > 0 =>
    LET keys == cursor[c].keys  row == Rows!RowAt(cursor[c]) IN
    /\ Rows!GetPosition(cursor[c]) < Len(keys)
    /\ row = keys[Rows!GetPosition(cursor[c]) + 1]
    /\ Rows!IsFirst(cursor[c]) <=> row = Head(keys)
    /\ Rows!IsLast(cursor[c]) <=> row = keys[Len(keys)]

(* From wherever it is, a move to a position or by an offset arrives exactly *)
(* at the row asked for and says so, or there is no such row and it reports  *)
(* that and stays; also for the offsets at the end of the range of int.      *)
ArrivesAt(target, cur, move) ==
  move = IF target \in 0..(Rows!Count(cur) - 1)
           THEN [ok |-> TRUE, cursor |-> [cur EXCEPT !.row = target, !.record = target]]
           ELSE [ok |-> FALSE, cursor |-> cur]

CursorArrives ==
  \A c \in Client : at[c] = "rows" /\ cursor[c].walk =>
    /\ \A p \in 0..Cardinality(Key) : ArrivesAt(p, cursor[c], Rows!MoveToPosition(cursor[c], p))
    /\ \A i \in Rows!Ints : ArrivesAt(cursor[c].row + i, cursor[c], Rows!Move(cursor[c], i))

(* A cursor is where it says, and goes where it is told.                     *)
CursorInv == CursorKeepsPlace /\ CursorArrives

(* HttpCacheDatabase is a MetadataStore: a call that reports success is in   *)
(* the file and stays there, one that reports failure changed nothing, and   *)
(* what is read is what was committed, under every failure and crash, until  *)
(* a change could not be undone.                                             *)
StoreSpec == Store!StoreSpec

(* m_mutex is always released: no path out of a call keeps it.               *)
MutexIsReleased == \A c \in Client : holder = c ~> holder # c
=============================================================================
