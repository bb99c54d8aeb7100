------------------------ MODULE CacheDatabase_proof ------------------------
(***************************************************************************)
(* Theorems about the metadata database.                                   *)
(*                                                                         *)
(* The session is one object that every client uses, and whose transaction *)
(* flag may disagree with the transaction of SQLite.  What holds it        *)
(* together is that one client at a time is inside the database, by        *)
(* m_mutex or by the exclusion that list, walk and discard rely on.  So    *)
(* what the session sees is known at each place of the client that is      *)
(* inside, and between the calls: the file, or a change that could not be  *)
(* undone.                                                                 *)
(***************************************************************************)
EXTENDS CacheDatabase, FiniteSetTheorems, SequenceTheorems, TLAPS

Contents == [Key -> Value \cup {NoRow}]

(* Only a locked call holds m_mutex, from lock to return; an exclusive call  *)
(* has the other clients idle.                                               *)
Locked(c) == call[c] # NoCall /\ Op(c) \notin Unlocked
Inside == {"open"} \cup Preparing \cup {"query", "begin", "change", "commit", "end", "close",
                                        "return", "drop", "unlink"}

Exclusion ==
  \A c \in Client :
    /\ holder = c <=> Locked(c) /\ at[c] # "lock"
    /\ Exclusive(c) => \A d \in Client \ {c} : at[d] = "idle"

(* Where each kind of call goes, and the client that has a cursor.           *)
WayOf(c) ==
  /\ call[c] = NoCall <=> Idle(c)
  /\ at[c] = "lock" => Locked(c)
  /\ at[c] = "query" => ReadsOnly(c)
  /\ at[c] \in {"begin"} \cup InTransaction => Locked(c) /\ ~ReadsOnly(c)
  /\ call[c] # NoCall => (at[c] \in {"drop", "unlink"} => Op(c) = "discard")
  /\ call[c] # NoCall /\ Op(c) = "discard" => at[c] \in {"drop", "unlink", "return"}
  /\ at[c] = "rows" => cursor[c] # NoCursor
  /\ at[c] = "idle" => cursor[c] = NoCursor
  /\ call[c] # NoCall /\ cursor[c] # NoCursor => Op(c) = "delete" /\ ~cursor[c].walk
Ways == \A c \in Client : WayOf(c)

(* What a call has reported, and found, at each place.                       *)
Reported(c) ==
  /\ at[c] \in Working \ {"end", "close"} => outcome[c] = "open"
  /\ at[c] \in {"end", "close", "return"} => outcome[c] # "open"
  /\ at[c] \in {"drop", "unlink"} => answer[c] = NoRow
  /\ at[c] \in {"close", "return"} /\ Op(c) \in {"list", "walk"} /\ outcome[c] = "ok" =>
       answer[c] \in SUBSET Key

(* The session, as the client that uses it finds it.                         *)
Sees(c) ==
  /\ at[c] \in Preparing \cup {"query", "begin", "close"} \cup InTransaction =>
       db # NoDb /\ db.opened
  /\ at[c] = "migrate" => ~db.active
  /\ at[c] \in {"create", "setVersion", "commitVersion", "change", "commit"} => db.active
  /\ at[c] \in {"create", "change"} => db.sees = disk
  /\ at[c] \in {"setVersion", "commitVersion"} => db.sees.rows = disk.rows /\ db.sees.table
  /\ at[c] = "commitVersion" => db.sees.version = Version
  /\ at[c] = "commit" =>
       /\ db.sees.rows = Store!RowsAfter(call[c], disk.rows)
       /\ answer[c] = Store!AnswerFrom(call[c], disk.rows)
  /\ at[c] = "end" => IF outcome[c] = "ok" THEN ~db.active ELSE faults >= 1
  /\ at[c] = "unlink" => db = NoDb

(* The session between the calls and in them.                                *)
VersionMeansTable == disk.version # 0 => disk.table
Flags ==
  db # NoDb => /\ db.active => db.isTransaction
               /\ ~db.opened => ~db.isTransaction
               /\ ~db.active => db.sees = disk
Prepared ==
  db # NoDb /\ db.opened /\ HelperFree =>
    UpToDate /\ db.sees.version = Version /\ db.sees.table
Undone ==
  db # NoDb /\ db.active /\ (\A c \in Client : at[c] \notin InTransaction \cup Preparing) =>
    faults >= 2
LeftOpen ==
  db # NoDb /\ db.opened /\ (\A c \in Client : at[c] \notin Working) => db.isTransaction

(* The position in a cursor and that of its records are the same row, which  *)
(* is there if there are any; no key comes twice.                            *)
Placed(cur) ==
  /\ cur.row = cur.record
  /\ IF Len(cur.keys) = 0 THEN cur.row = 0 ELSE cur.row < Len(cur.keys)
  /\ Len(cur.keys) <= Cardinality(Key)
  /\ \A i, j \in 1..Len(cur.keys) : cur.keys[i] = cur.keys[j] => i = j
CursorsPlaced == \A c \in Client : cursor[c] # NoCursor => Placed(cursor[c])

DatabaseTypes ==
  /\ disk \in FileContents
  /\ db \in Session \cup {NoDb}
  /\ holder \in Client \cup {NoClient}
  /\ at \in [Client -> Working \cup {"idle", "return", "rows"}]
  /\ call \in [Client -> Store!Calls \cup {NoCall}]
  /\ answer \in [Client -> Value \cup {NoRow} \cup SUBSET Key]
  /\ cursor \in [Client -> Cursors \cup {NoCursor}]
  /\ outcome \in [Client -> {"open", "ok", "failed"}]
  /\ faults \in 0..MaxFaults /\ crashes \in 0..MaxCrashes

Places == Exclusion /\ Ways /\ \A c \in Client : Reported(c)
SessionState ==
  /\ \A c \in Client : Sees(c)
  /\ VersionMeansTable /\ Flags /\ Prepared /\ Undone /\ LeftOpen

Inv == DatabaseTypes /\ Places /\ SessionState /\ CursorsPlaced

-----------------------------------------------------------------------------
(* What the operators of the store give.                                     *)
LEMMA CallShape ==
  ASSUME NEW q \in Store!Calls
  PROVE  /\ q.op \in {"get", "put", "delete", "touch", "list", "walk", "discard"}
         /\ q.op \notin Unlocked => q.key \in Key /\ q.value \in Value
BY DEF Store!Calls, Unlocked

LEMMA Effects ==
  ASSUME NEW q \in Store!Calls, NEW content \in Contents
  PROVE  /\ Store!RowsAfter(q, content) \in Contents
         /\ Store!ReadOnly(q) => Store!RowsAfter(q, content) = content
         /\ Store!AnswerFrom(q, content) \in Value \cup {NoRow} \cup SUBSET Key
         /\ q.op \in {"list", "walk"} => Store!AnswerFrom(q, content) \in SUBSET Key
<1>1. /\ q.op \in {"get", "put", "delete", "touch", "list", "walk", "discard"}
      /\ q.op \notin {"list", "walk", "discard"} => q.key \in Key /\ q.value \in Value
  BY CallShape DEF Unlocked
<1>2. Store!RowsAfter(q, content) \in Contents
  BY <1>1 DEF Store!RowsAfter, Store!NoRows, Contents
<1>3. Store!ReadOnly(q) => Store!RowsAfter(q, content) = content
  BY DEF Store!RowsAfter, Store!ReadOnly
<1>4. Store!Present(content) \in SUBSET Key
  BY DEF Store!Present
<1>5. q.op \notin Unlocked => content[q.key] \in Value \cup {NoRow}
  BY <1>1 DEF Contents, Unlocked
<1>6. QED BY <1>1, <1>2, <1>3, <1>4, <1>5 DEF Store!AnswerFrom, Unlocked

-----------------------------------------------------------------------------
(* One client at a time is in the database.                                  *)
Outside == {"idle", "rows", "lock"}
Alone(c) == \A d \in Client \ {c} : at[d] \in Outside

LEMMA OneInside ==
  ASSUME DatabaseTypes, Exclusion, Ways, NEW c \in Client, at[c] \in Inside
  PROVE  Alone(c)
<1>1. call[c] # NoCall /\ at[c] # "lock"
  BY DEF Ways, WayOf, Idle, Inside, Preparing
<1>2. CASE Locked(c)
  <2>1. holder = c
    BY <1>1, <1>2 DEF Exclusion
  <2>2. ASSUME NEW d \in Client \ {c} PROVE ~(Locked(d) /\ at[d] # "lock")
    BY <2>1 DEF Exclusion
  <2>3. ASSUME NEW d \in Client \ {c} PROVE at[d] \in Outside
    <3>1. CASE call[d] = NoCall
      BY <3>1 DEF Ways, WayOf, Idle, Outside
    <3>2. CASE call[d] # NoCall /\ Op(d) \notin Unlocked
      BY <2>2, <3>2 DEF Locked, Outside
    <3>3. CASE call[d] # NoCall /\ Op(d) \in Unlocked
      <4>1. at[c] = "idle"
        BY <3>3, <2>3 DEF Exclusion, Exclusive
      <4>2. QED BY <4>1 DEF Inside, Preparing
    <3>4. QED BY <3>1, <3>2, <3>3
  <2>4. QED BY <2>3 DEF Alone
<1>3. CASE ~Locked(c)
  BY <1>1, <1>3 DEF Exclusion, Exclusive, Locked, Alone, Outside
<1>4. QED BY <1>2, <1>3

(* What the session then has to be, as far as that client makes a            *)
(* difference.                                                               *)
SessionAt(c) ==
  /\ Sees(c) /\ VersionMeansTable /\ Flags
  /\ db # NoDb /\ db.opened /\ at[c] \notin Preparing =>
       UpToDate /\ db.sees.version = Version /\ db.sees.table
  /\ db # NoDb /\ db.active /\ at[c] \notin InTransaction \cup Preparing => faults >= 2
  /\ db # NoDb /\ db.opened /\ at[c] \notin Working => db.isTransaction

LEMMA SessionOfOne ==
  ASSUME NEW c \in Client, Alone(c)', SessionAt(c)'
  PROVE  SessionState'
<1>1. ASSUME NEW d \in Client \ {c}
      PROVE  Sees(d)' /\ at'[d] \notin Preparing \cup InTransaction
  BY DEF Alone, Sees, Outside, Preparing, InTransaction
<1>2. \A d \in Client : Sees(d)'
  BY <1>1 DEF SessionAt
<1>3. Prepared'
  BY <1>1 DEF SessionAt, Prepared, HelperFree
<1>4. Undone'
  BY <1>1 DEF SessionAt, Undone
<1>5. LeftOpen'
  BY DEF SessionAt, LeftOpen
<1>6. QED BY <1>2, <1>3, <1>4, <1>5 DEF SessionAt, SessionState

LEMMA SessionForOne ==
  ASSUME SessionState, NEW c \in Client, Alone(c), at[c] \in Working
  PROVE  SessionAt(c)
<1>1. \A d \in Client \ {c} : at[d] \notin Preparing \cup InTransaction
  BY DEF Alone, Outside, Preparing, InTransaction
<1>2. QED BY <1>1 DEF SessionState, SessionAt, Prepared, Undone, HelperFree

-----------------------------------------------------------------------------
(* A step of the client that is inside, which stays inside.                  *)
Fits(c, where) ==
  /\ where \in Inside /\ where \notin {"open", "drop"}
  /\ where = "query" => ReadsOnly(c)
  /\ where \in {"begin"} \cup InTransaction => Locked(c) /\ ~ReadsOnly(c)
  /\ where = "unlink" => Op(c) = "discard"
  /\ Op(c) = "discard" => where \in {"unlink", "return"}

LEMMA Goes ==
  ASSUME Inv, NEW c \in Client, at[c] \in Inside \ {"return"},
         NEW where, Fits(c, where), Go(c, where), UNCHANGED <<holder, call, cursor>>,
         \A d \in Client \ {c} : outcome'[d] = outcome[d] /\ answer'[d] = answer[d],
         DatabaseTypes', Reported(c)', SessionAt(c)'
  PROVE  Inv'
<1> USE DEF Inv, Places
<1>1. where \in Working \cup {"return"} /\ where \in Inside
  BY DEF Fits, Working, Inside, Preparing
<1>2. at'[c] = where /\ \A d \in Client \ {c} : at'[d] = at[d]
  BY DEF Go, DatabaseTypes
<1>3. \A d \in Client : call'[d] = call[d] /\ cursor'[d] = cursor[d]
  OBVIOUS
<1>4. Alone(c) /\ Alone(c)'
  BY <1>2, OneInside DEF Alone
<1>5. \A d \in Client : /\ Locked(d)' = Locked(d) /\ Exclusive(d)' = Exclusive(d)
                        /\ ReadsOnly(d)' = ReadsOnly(d) /\ Op(d)' = Op(d)
  BY <1>3 DEF Locked, Exclusive, ReadsOnly, Op
<1>6. call[c] # NoCall
  BY DEF Ways, WayOf, Idle, Inside, Preparing
<1>7. Exclusion'
  <2>1. where # "lock" /\ at[c] # "lock"
    BY <1>1 DEF Inside, Preparing
  <2>2. \A d \in Client : holder' = d <=> Locked(d)' /\ at'[d] # "lock"
    BY <1>2, <1>5, <2>1 DEF Exclusion
  <2>3. ASSUME NEW d \in Client, Exclusive(d)' PROVE \A b \in Client \ {d} : at'[b] = "idle"
    <3>1. \A b \in Client \ {d} : at[b] = "idle"
      BY <1>5, <2>3 DEF Exclusion
    <3>2. d = c
      BY <3>1 DEF Inside, Preparing
    <3>3. QED BY <3>1, <3>2, <1>2
  <2>4. QED BY <2>2, <2>3 DEF Exclusion
<1>8. Ways'
  <2>1. ASSUME NEW d \in Client \ {c}
        PROVE  /\ call'[d] = NoCall <=> at'[d] \in {"idle", "rows"}
               /\ at'[d] = "lock" => Locked(d)'
               /\ at'[d] = "query" => ReadsOnly(d)'
               /\ at'[d] \in {"begin"} \cup InTransaction => Locked(d)' /\ ~ReadsOnly(d)'
               /\ call'[d] # NoCall => (at'[d] \in {"drop", "unlink"} => Op(d)' = "discard")
               /\ call'[d] # NoCall /\ Op(d)' = "discard" => at'[d] \in {"drop", "unlink", "return"}
               /\ at'[d] = "rows" => cursor'[d] # NoCursor
               /\ at'[d] = "idle" => cursor'[d] = NoCursor
               /\ call'[d] # NoCall /\ cursor'[d] # NoCursor =>
                    Op(d)' = "delete" /\ ~cursor'[d].walk
    BY <1>2, <1>3, <1>5 DEF Ways, WayOf, Idle
  <2>2. /\ call'[c] # NoCall /\ at'[c] = where /\ Op(c)' = Op(c)
        /\ where \notin {"idle", "rows", "lock", "drop"}
        /\ Locked(c)' = Locked(c) /\ ReadsOnly(c)' = ReadsOnly(c) /\ cursor'[c] = cursor[c]
    BY <1>1, <1>2, <1>3, <1>5, <1>6 DEF Fits, Inside, Preparing
  <2>3. call[c] # NoCall /\ cursor[c] # NoCursor => Op(c) = "delete" /\ ~cursor[c].walk
    BY DEF Ways, WayOf
  <2>4. QED BY <2>1, <2>2, <2>3 DEF Ways, WayOf, Idle, Fits, Op
<1>9. ASSUME NEW d \in Client \ {c} PROVE Reported(d)'
  <2>1. at[d] \in Outside
    BY <1>4 DEF Alone
  <2>2. Reported(d)
    OBVIOUS
  <2>3. QED BY <2>1, <2>2, <1>2 DEF Reported, Outside, Working, Preparing
<1>10. SessionState'
  BY <1>4, SessionOfOne
<1>11. CursorsPlaced'
  BY <1>3 DEF CursorsPlaced, Placed
<1>12. QED BY <1>7, <1>8, <1>9, <1>10, <1>11

-----------------------------------------------------------------------------
(* What is known of the client that takes a step.                            *)
LEMMA Known ==
  ASSUME Inv, NEW c \in Client, at[c] \in Inside
  PROVE  /\ Reported(c) /\ Alone(c)
         /\ call[c] \in Store!Calls /\ call[c] # NoCall
         /\ at[c] \in Working => SessionAt(c)
         /\ db # NoDb => db \in Session
         /\ outcome[c] \in {"open", "ok", "failed"}
<1>1. call[c] # NoCall
  BY DEF Inv, Places, Ways, WayOf, Idle, Inside, Preparing
<1>2. Alone(c)
  BY OneInside DEF Inv, Places
<1>3. at[c] \in Working => SessionAt(c)
  BY <1>2, SessionForOne DEF Inv
<1>4. QED BY <1>1, <1>2, <1>3 DEF Inv, Places, DatabaseTypes

(* A call that has its database goes on to its query or its transaction.     *)
LEMMA OpenFits ==
  ASSUME Inv, NEW c \in Client, at[c] \in {"open"} \cup Preparing
  PROVE  /\ Fits(c, AfterOpen(c)) /\ AfterOpen(c) \in {"query", "begin"}
         /\ \A where \in Preparing \cup {"return"} : Fits(c, where)
<1>1. Op(c) # "discard" /\ call[c] \in Store!Calls /\ call[c] # NoCall
  BY Known DEF Inv, Places, Ways, WayOf, Inside, Preparing
<1>2. ReadsOnly(c) \/ Locked(c)
  BY <1>1, CallShape DEF ReadsOnly, Locked, Op, Store!ReadOnly, Unlocked
<1>3. QED BY <1>1, <1>2 DEF Fits, AfterOpen, Inside, Preparing, InTransaction

LEMMA ContentsOfFile ==
  /\ \A f \in FileContents : f.rows \in Contents /\ f.table \in BOOLEAN
                             /\ f.version \in {0, Version} \cup OtherVersions
  /\ EmptyFile \in FileContents /\ EmptyFile.version = 0 /\ EmptyFile.rows = Store!NoRows
BY DEF FileContents, EmptyFile, Store!NoRows, Contents

-----------------------------------------------------------------------------
(* Opening the database, and preparing its file.                             *)
LEMMA OpenStep ==
  ASSUME DatabaseAssumption, Inv, NEW c \in Client, Open(c)
  PROVE  Inv'
<1> DEFINE where == IF IsOpen THEN AfterOpen(c) ELSE IF UpToDate THEN AfterOpen(c) ELSE "migrate"
<1>1. /\ at[c] = "open" /\ at[c] \in Inside \ {"return"} /\ at[c] \in Working
      /\ at[c] \in {"open"} \cup Preparing
  BY DEF Open, Inside, Working
<1>2. /\ SessionAt(c) /\ Reported(c) /\ call[c] \in Store!Calls
      /\ DatabaseTypes
  BY <1>1, Known DEF Inv
<1>3. /\ Fits(c, where) /\ Go(c, where) /\ UNCHANGED <<disk, holder, clientVars, bounds>>
      /\ where \in {"query", "begin", "migrate"}
  BY <1>1, OpenFits DEF Open, Preparing
<1>4. at'[c] = where /\ at' \in [Client -> Working \cup {"idle", "return", "rows"}]
  BY <1>2, <1>3 DEF Go, DatabaseTypes, Working, Preparing
<1>5. CASE IsOpen
  <2>1. UNCHANGED <<db, disk, faults>> /\ db # NoDb /\ db.opened
    BY <1>5, <1>3 DEF Open, IsOpen, bounds
  <2>2. DatabaseTypes'
    BY <1>2, <1>3, <1>4, <2>1 DEF DatabaseTypes, clientVars, bounds
  <2>3. Reported(c)'
    BY <1>1, <1>2, <1>3, <1>4 DEF Reported, Working, Preparing, clientVars
  <2>4. where = AfterOpen(c) /\ where \in {"query", "begin"}
    BY <1>5, <1>1, OpenFits
  <2>5. SessionAt(c)'
    BY <1>1, <1>2, <1>4, <2>1, <2>4 DEF SessionAt, Sees, VersionMeansTable, Flags, UpToDate,
         Working, Preparing, InTransaction
  <2>6. QED BY <1>1, <1>3, <2>2, <2>3, <2>5, Goes DEF clientVars
<1>6. CASE ~IsOpen
  <2>1. db' = NewSession /\ UNCHANGED <<disk, faults>>
    BY <1>6, <1>3 DEF Open, bounds
  <2>2. /\ db' \in Session /\ db'.opened = TRUE /\ db'.isTransaction = FALSE
        /\ db'.active = FALSE /\ db'.sees = disk /\ db' # NoDb
    <3>1. disk \in FileContents
      BY <1>2 DEF DatabaseTypes
    <3>2. db' = [opened |-> TRUE, isTransaction |-> FALSE, active |-> FALSE, sees |-> disk]
      BY <2>1 DEF NewSession
    <3>3. db' \in Session
      BY ONLY <3>1, <3>2 DEF Session
    <3>4. /\ db'.opened = TRUE /\ db'.isTransaction = FALSE /\ db'.active = FALSE
          /\ db'.sees = disk
      BY ONLY <3>2
    <3>5. QED BY <3>3, <3>4, NullAssumption
  <2>3. DatabaseTypes'
    BY <1>2, <1>3, <1>4, <2>2 DEF DatabaseTypes, clientVars, bounds
  <2>4. Reported(c)'
    BY <1>1, <1>2, <1>3, <1>4 DEF Reported, Working, Preparing, clientVars
  <2>5. where # "migrate" => disk.version = Version /\ disk.table /\ Version # 0
    BY <1>6, <1>2, <1>1, OpenFits DEF UpToDate, SessionAt, VersionMeansTable, DatabaseAssumption
  <2>6. SessionAt(c)'
    BY <1>2, <1>3, <1>4, <2>1, <2>2, <2>5 DEF SessionAt, Sees, VersionMeansTable, Flags, UpToDate,
         Working, Preparing, InTransaction
  <2>7. QED BY <1>1, <1>3, <2>3, <2>4, <2>6, Goes DEF clientVars
<1>7. QED BY <1>5, <1>6

LEMMA MigrateStep ==
  ASSUME DatabaseAssumption, Inv, NEW c \in Client, Migrate(c)
  PROVE  Inv'
<1>1. /\ at[c] = "migrate" /\ at[c] \in Inside \ {"return"} /\ at[c] \in Working
      /\ at[c] \in {"open"} \cup Preparing /\ "create" \in Preparing \cup {"return"}
  BY DEF Migrate, Inside, Working, Preparing
<1>2. SessionAt(c) /\ Reported(c) /\ DatabaseTypes /\ db \in Session /\ db # NoDb
  BY <1>1, Known DEF Inv, SessionAt, Sees
<1>3. /\ Fits(c, "create") /\ Go(c, "create")
      /\ UNCHANGED <<disk, holder, clientVars, bounds>>
      /\ db' = [db EXCEPT !.active = TRUE, !.isTransaction = TRUE]
  BY <1>1, OpenFits DEF Migrate
<1>4. /\ db' \in Session /\ db'.opened = db.opened /\ db'.isTransaction = TRUE
      /\ db'.active = TRUE /\ db'.sees = db.sees /\ db' # NoDb
  BY <1>2, <1>3, NullAssumption DEF Session
<1>5. at'[c] = "create" /\ at' \in [Client -> Working \cup {"idle", "return", "rows"}]
  BY <1>2, <1>3 DEF Go, DatabaseTypes, Working, Preparing
<1>6. DatabaseTypes'
  BY <1>2, <1>3, <1>4, <1>5 DEF DatabaseTypes, clientVars, bounds
<1>7. Reported(c)'
  BY <1>1, <1>2, <1>3, <1>5 DEF Reported, Working, Preparing, clientVars
<1>8. db.sees = disk /\ db.opened /\ UNCHANGED disk
  BY <1>1, <1>2, <1>3 DEF SessionAt, Sees, Flags, Preparing
<1>9. SessionAt(c)'
  BY <1>2, <1>4, <1>5, <1>8 DEF SessionAt, Sees, VersionMeansTable, Flags, Working, Preparing,
       InTransaction
<1>10. QED BY <1>1, <1>3, <1>6, <1>7, <1>9, Goes DEF clientVars

LEMMA CreateStep ==
  ASSUME DatabaseAssumption, Inv, NEW c \in Client, Create(c)
  PROVE  Inv'
<1> DEFINE content == [db.sees EXCEPT !.table = db.sees.table \/ db.sees.version = 0]
<1>1. /\ at[c] = "create" /\ at[c] \in Inside \ {"return"} /\ at[c] \in Working
      /\ at[c] \in {"open"} \cup Preparing /\ "setVersion" \in Preparing \cup {"return"}
  BY DEF Create, Inside, Working, Preparing
<1>2. SessionAt(c) /\ Reported(c) /\ DatabaseTypes /\ db \in Session /\ db # NoDb
  BY <1>1, Known DEF Inv, SessionAt, Sees
<1>3. /\ Fits(c, "setVersion") /\ Go(c, "setVersion")
      /\ UNCHANGED <<disk, holder, clientVars, bounds>>
      /\ db' = [db EXCEPT !.sees = content]
  BY <1>1, OpenFits DEF Create, ExecSql
<1>4. db.sees \in FileContents /\ db.sees = disk /\ db.active /\ db.opened /\ db.isTransaction
  BY <1>1, <1>2 DEF SessionAt, Sees, Flags, Session, Preparing
<1>5. /\ content \in FileContents /\ content.rows = disk.rows
      /\ content.table = TRUE
  <2>1. content \in FileContents /\ content.rows = disk.rows
    BY ONLY <1>4 DEF FileContents
  <2>2. content.table = (disk.table \/ disk.version = 0)
    BY ONLY <1>4 DEF FileContents
  <2>3. QED BY <2>1, <2>2, <1>2 DEF SessionAt, VersionMeansTable
<1> HIDE DEF content
<1>6. /\ db' \in Session /\ db'.opened = db.opened /\ db'.isTransaction = db.isTransaction
      /\ db'.active = db.active /\ db'.sees = content /\ db' # NoDb
  BY <1>2, <1>3, <1>5, NullAssumption DEF Session
<1>7. at'[c] = "setVersion" /\ at' \in [Client -> Working \cup {"idle", "return", "rows"}]
  BY <1>2, <1>3 DEF Go, DatabaseTypes, Working, Preparing
<1>8. DatabaseTypes'
  BY <1>2, <1>3, <1>6, <1>7 DEF DatabaseTypes, clientVars, bounds
<1>9. Reported(c)'
  BY <1>1, <1>2, <1>3, <1>7 DEF Reported, Working, Preparing, clientVars
<1>10. SessionAt(c)'
  BY <1>2, <1>3, <1>4, <1>5, <1>6, <1>7 DEF SessionAt, Sees, VersionMeansTable, Flags, Working,
       Preparing, InTransaction
<1>11. QED BY <1>1, <1>3, <1>8, <1>9, <1>10, Goes DEF clientVars

LEMMA SetVersionStep ==
  ASSUME DatabaseAssumption, Inv, NEW c \in Client, SetVersion(c)
  PROVE  Inv'
<1> DEFINE content == [db.sees EXCEPT !.version = Version]
<1>1. /\ at[c] = "setVersion" /\ at[c] \in Inside \ {"return"} /\ at[c] \in Working
      /\ at[c] \in {"open"} \cup Preparing /\ "commitVersion" \in Preparing \cup {"return"}
  BY DEF SetVersion, Inside, Working, Preparing
<1>2. SessionAt(c) /\ Reported(c) /\ DatabaseTypes /\ db \in Session /\ db # NoDb
  BY <1>1, Known DEF Inv, SessionAt, Sees
<1>3. /\ Fits(c, "commitVersion") /\ Go(c, "commitVersion")
      /\ UNCHANGED <<disk, holder, clientVars, bounds>>
      /\ db' = [db EXCEPT !.sees = content]
  BY <1>1, OpenFits DEF SetVersion, ExecSql
<1>4. /\ db.sees \in FileContents /\ db.sees.rows = disk.rows /\ db.sees.table
      /\ db.active /\ db.opened /\ db.isTransaction
  BY <1>1, <1>2 DEF SessionAt, Sees, Flags, Session, Preparing
<1>5. /\ content \in FileContents /\ content.rows = db.sees.rows
      /\ content.table = db.sees.table /\ content.version = Version
  BY ONLY <1>4 DEF FileContents
<1> HIDE DEF content
<1>6. /\ db' \in Session /\ db'.opened = db.opened /\ db'.isTransaction = db.isTransaction
      /\ db'.active = db.active /\ db'.sees = content /\ db' # NoDb
  BY <1>2, <1>3, <1>5, NullAssumption DEF Session
<1>7. at'[c] = "commitVersion" /\ at' \in [Client -> Working \cup {"idle", "return", "rows"}]
  BY <1>2, <1>3 DEF Go, DatabaseTypes, Working, Preparing
<1>8. DatabaseTypes'
  BY <1>2, <1>3, <1>6, <1>7 DEF DatabaseTypes, clientVars, bounds
<1>9. Reported(c)'
  BY <1>1, <1>2, <1>3, <1>7 DEF Reported, Working, Preparing, clientVars
<1>10. SessionAt(c)'
  BY <1>2, <1>3, <1>4, <1>5, <1>6, <1>7 DEF SessionAt, Sees, VersionMeansTable, Flags, Working,
       Preparing, InTransaction
<1>11. QED BY <1>1, <1>3, <1>8, <1>9, <1>10, Goes DEF clientVars

(* Table and version reach the file together.                                *)
LEMMA CommitVersionStep ==
  ASSUME DatabaseAssumption, Inv, NEW c \in Client, CommitVersion(c)
  PROVE  Inv' /\ disk'.rows = disk.rows
<1>1. /\ at[c] = "commitVersion" /\ at[c] \in Inside \ {"return"} /\ at[c] \in Working
      /\ at[c] \in {"open"} \cup Preparing
  BY DEF CommitVersion, Inside, Working, Preparing
<1>2. SessionAt(c) /\ Reported(c) /\ DatabaseTypes /\ db \in Session /\ db # NoDb
  BY <1>1, Known DEF Inv, SessionAt, Sees
<1>3. /\ Fits(c, AfterOpen(c)) /\ Go(c, AfterOpen(c)) /\ AfterOpen(c) \in {"query", "begin"}
      /\ UNCHANGED <<holder, clientVars, bounds>> /\ disk' = db.sees
      /\ db' = [db EXCEPT !.active = FALSE, !.isTransaction = FALSE]
  BY <1>1, OpenFits DEF CommitVersion
<1>4. /\ db.sees \in FileContents /\ db.sees.rows = disk.rows /\ db.sees.table
      /\ db.sees.version = Version /\ db.opened
  BY <1>1, <1>2 DEF SessionAt, Sees, Session, Preparing
<1>5. /\ db' \in Session /\ db'.opened = db.opened /\ db'.isTransaction = FALSE
      /\ db'.active = FALSE /\ db'.sees = db.sees /\ db' # NoDb
  BY <1>2, <1>3, NullAssumption DEF Session
<1>6. at'[c] = AfterOpen(c) /\ at' \in [Client -> Working \cup {"idle", "return", "rows"}]
  BY <1>2, <1>3 DEF Go, DatabaseTypes, Working, Preparing
<1>7. DatabaseTypes'
  BY <1>2, <1>3, <1>4, <1>5, <1>6 DEF DatabaseTypes, clientVars, bounds
<1>8. Reported(c)'
  BY <1>1, <1>2, <1>3, <1>6 DEF Reported, Working, Preparing, clientVars
<1>9. SessionAt(c)'
  BY <1>3, <1>4, <1>5, <1>6 DEF SessionAt, Sees, VersionMeansTable, Flags, Working, Preparing,
       InTransaction, UpToDate
<1>10. Inv'
  BY <1>1, <1>3, <1>7, <1>8, <1>9, Goes DEF clientVars
<1>11. QED BY <1>3, <1>4, <1>10

(* A call that fails while it opens, queries, begins or changes: db is       *)
(* closed, as it was, or rolled back.                                        *)
LEMMA OpenFailsStep ==
  ASSUME DatabaseAssumption, Inv, NEW c \in Client, OpenFails(c)
  PROVE  Inv'
<1>1. /\ at[c] \in {"open"} \cup Preparing /\ at[c] \in Inside \ {"return"} /\ at[c] \in Working
  BY DEF OpenFails, Inside, Working, Preparing
<1>2. SessionAt(c) /\ DatabaseTypes
  BY <1>1, Known DEF Inv
<1>3. /\ Fits(c, "return") /\ Go(c, "return") /\ db' = NoDb
      /\ outcome' = [outcome EXCEPT ![c] = "failed"]
      /\ faults' = faults + 1 /\ faults < MaxFaults
      /\ UNCHANGED <<disk, holder, call, answer, cursor, crashes>>
  BY <1>1, OpenFits DEF OpenFails, SessionCloses, Fails, Fault
<1>4. at'[c] = "return" /\ at' \in [Client -> Working \cup {"idle", "return", "rows"}]
  BY <1>2, <1>3 DEF Go, DatabaseTypes
<1>5. /\ outcome'[c] = "failed" /\ \A d \in Client \ {c} : outcome'[d] = outcome[d]
      /\ outcome' \in [Client -> {"open", "ok", "failed"}] /\ faults' \in 0..MaxFaults
  BY <1>2, <1>3, DatabaseAssumption DEF DatabaseTypes
<1>6. DatabaseTypes'
  BY <1>2, <1>3, <1>4, <1>5 DEF DatabaseTypes
<1>7. Reported(c)'
  BY <1>4, <1>5 DEF Reported, Working, Preparing
<1>8. SessionAt(c)'
  BY <1>2, <1>3, <1>4 DEF SessionAt, Sees, VersionMeansTable, Flags, Preparing, InTransaction
<1>9. QED BY <1>1, <1>3, <1>5, <1>6, <1>7, <1>8, Goes

-----------------------------------------------------------------------------
(* The reads.                                                                *)
LEMMA QueryStep ==
  ASSUME DatabaseAssumption, Inv, NEW c \in Client, Query(c)
  PROVE  Inv' /\ answer'[c] = Store!AnswerFrom(call[c], db.sees.rows)
<1>1. at[c] = "query" /\ at[c] \in Inside \ {"return"} /\ at[c] \in Working
  BY DEF Query, Inside, Working
<1>2. /\ SessionAt(c) /\ DatabaseTypes /\ call[c] \in Store!Calls /\ call[c] # NoCall
      /\ db \in Session /\ db # NoDb /\ db.opened /\ ReadsOnly(c) /\ Op(c) # "discard"
  BY <1>1, Known DEF Inv, SessionAt, Sees, Places, Ways, WayOf
<1>3. /\ Go(c, "close") /\ answer' = [answer EXCEPT ![c] = Results(c)]
      /\ outcome' = [outcome EXCEPT ![c] = "ok"]
      /\ UNCHANGED <<disk, db, holder, call, cursor, bounds>>
  BY DEF Query
<1>4. Fits(c, "close")
  BY <1>2 DEF Fits, Inside, InTransaction
<1>5. /\ Results(c) \in Value \cup {NoRow} \cup SUBSET Key
      /\ Op(c) \in {"list", "walk"} => Results(c) \in SUBSET Key
  BY <1>2, ContentsOfFile, Effects DEF Results, Session, Op
<1>6. at'[c] = "close" /\ at' \in [Client -> Working \cup {"idle", "return", "rows"}]
  BY <1>2, <1>3 DEF Go, DatabaseTypes, Working
<1>7. /\ answer'[c] = Results(c) /\ outcome'[c] = "ok"
      /\ \A d \in Client \ {c} : answer'[d] = answer[d] /\ outcome'[d] = outcome[d]
      /\ answer' \in [Client -> Value \cup {NoRow} \cup SUBSET Key]
      /\ outcome' \in [Client -> {"open", "ok", "failed"}]
  BY <1>2, <1>3, <1>5 DEF DatabaseTypes
<1>8. DatabaseTypes'
  BY <1>2, <1>3, <1>6, <1>7 DEF DatabaseTypes, bounds
<1>9. Reported(c)'
  BY <1>3, <1>5, <1>6, <1>7 DEF Reported, Working, Preparing, Op
<1>10. SessionAt(c)'
  BY <1>1, <1>2, <1>3, <1>6 DEF SessionAt, Sees, VersionMeansTable, Flags, Working, Preparing,
       InTransaction, bounds, UpToDate
<1>11. Inv'
  BY <1>1, <1>3, <1>4, <1>7, <1>8, <1>9, <1>10, Goes
<1>12. QED BY <1>7, <1>11 DEF Results

(* No query, or no transaction: the session stays as it is.                  *)
LEMMA RefusedStep ==
  ASSUME DatabaseAssumption, Inv, NEW c \in Client, QueryFails(c) \/ BeginFails(c)
  PROVE  Inv'
<1>1. at[c] \in {"query", "begin"} /\ at[c] \in Inside \ {"return"} /\ at[c] \in Working
  BY DEF QueryFails, BeginFails, Inside, Working
<1>2. /\ SessionAt(c) /\ DatabaseTypes /\ Op(c) # "discard"
      /\ db \in Session /\ db # NoDb /\ db.opened
  BY <1>1, Known DEF Inv, SessionAt, Sees, Places, Ways, WayOf
<1>3. /\ Go(c, "close") /\ outcome' = [outcome EXCEPT ![c] = "failed"]
      /\ UNCHANGED <<disk, db, holder, call, answer, cursor, crashes>>
      /\ (faults' = faults \/ (faults' = faults + 1 /\ faults < MaxFaults))
  BY DEF QueryFails, BeginFails, Fault, Fails, bounds
<1>4. Fits(c, "close")
  BY <1>2 DEF Fits, Inside, InTransaction
<1>5. at'[c] = "close" /\ at' \in [Client -> Working \cup {"idle", "return", "rows"}]
  BY <1>2, <1>3 DEF Go, DatabaseTypes, Working
<1>6. /\ outcome'[c] = "failed"
      /\ \A d \in Client \ {c} : answer'[d] = answer[d] /\ outcome'[d] = outcome[d]
      /\ outcome' \in [Client -> {"open", "ok", "failed"}]
      /\ faults' \in 0..MaxFaults /\ faults' >= faults
  BY <1>2, <1>3, DatabaseAssumption DEF DatabaseTypes
<1>7. DatabaseTypes'
  BY <1>2, <1>3, <1>5, <1>6 DEF DatabaseTypes
<1>8. Reported(c)'
  BY <1>5, <1>6 DEF Reported, Working, Preparing
<1>9. faults \in Nat /\ faults' \in Nat /\ faults' >= faults
  BY <1>2, <1>6, DatabaseAssumption DEF DatabaseTypes
<1>10. SessionAt(c)'
  BY <1>1, <1>2, <1>3, <1>5, <1>9 DEF SessionAt, Sees, VersionMeansTable, Flags, Working,
       Preparing, InTransaction, UpToDate
<1>11. QED BY <1>1, <1>3, <1>4, <1>6, <1>7, <1>8, <1>10, Goes

-----------------------------------------------------------------------------
(* The changes.  What is known at each place of a change:                    *)
LEMMA ChangeKnown ==
  ASSUME Inv, NEW c \in Client, at[c] \in {"begin"} \cup InTransaction
  PROVE  /\ at[c] \in Inside \ {"return"} /\ at[c] \in Working
         /\ SessionAt(c) /\ DatabaseTypes /\ Reported(c)
         /\ call[c] \in Store!Calls /\ call[c] # NoCall
         /\ db \in Session /\ db # NoDb /\ db.opened /\ db.sees \in FileContents
         /\ disk \in FileContents
         /\ db.sees.version = Version /\ db.sees.table /\ disk.version = Version
         /\ \A where \in {"close"} \cup InTransaction : Fits(c, where)
<1>1. at[c] \in Inside \ {"return"} /\ at[c] \in Working /\ at[c] \notin Preparing
  BY DEF Inside, Working, InTransaction, Preparing
<1>2. /\ SessionAt(c) /\ DatabaseTypes /\ Reported(c) /\ call[c] \in Store!Calls
      /\ call[c] # NoCall /\ db \in Session /\ db # NoDb /\ db.opened /\ Locked(c) /\ ~ReadsOnly(c)
  BY <1>1, Known DEF Inv, SessionAt, Sees, Places, Ways, WayOf
<1>3. \A where \in {"close"} \cup InTransaction : Fits(c, where)
  BY <1>2 DEF Fits, Inside, InTransaction, Locked, Unlocked
<1>4. db.sees \in FileContents /\ disk \in FileContents
  BY <1>2 DEF Session, DatabaseTypes
<1>5. db.sees.version = Version /\ db.sees.table /\ disk.version = Version
  BY <1>1, <1>2 DEF SessionAt, UpToDate
<1>6. QED BY <1>1, <1>2, <1>3, <1>4, <1>5

LEMMA BeginStep ==
  ASSUME DatabaseAssumption, Inv, NEW c \in Client, Begin(c)
  PROVE  Inv'
<1>1. at[c] = "begin" /\ ~db.active
  BY DEF Begin
<1>2. /\ at[c] \in Inside \ {"return"} /\ SessionAt(c) /\ Reported(c) /\ DatabaseTypes
      /\ db \in Session /\ db # NoDb /\ db.opened /\ Fits(c, "change")
      /\ db.sees.version = Version /\ db.sees.table /\ disk.version = Version
  BY <1>1, ChangeKnown DEF InTransaction
<1>3. /\ Go(c, "change") /\ UNCHANGED <<disk, holder, clientVars, bounds>>
      /\ db' = [db EXCEPT !.active = TRUE, !.isTransaction = TRUE]
  BY DEF Begin
<1>4. /\ db' \in Session /\ db'.opened = db.opened /\ db'.isTransaction = TRUE
      /\ db'.active = TRUE /\ db'.sees = db.sees /\ db' # NoDb
  BY <1>2, <1>3, NullAssumption DEF Session
<1>5. at'[c] = "change" /\ at' \in [Client -> Working \cup {"idle", "return", "rows"}]
  BY <1>2, <1>3 DEF Go, DatabaseTypes, Working
<1>6. DatabaseTypes'
  BY <1>2, <1>3, <1>4, <1>5 DEF DatabaseTypes, clientVars, bounds
<1>7. Reported(c)'
  BY <1>1, <1>2, <1>3, <1>5 DEF Reported, Working, Preparing, clientVars
<1>8. db.sees = disk
  BY <1>1, <1>2 DEF SessionAt, Flags
<1>9. SessionAt(c)'
  BY <1>2, <1>3, <1>4, <1>5, <1>8 DEF SessionAt, Sees, VersionMeansTable, Flags, Working,
       Preparing, InTransaction, UpToDate
<1>10. QED BY <1>2, <1>3, <1>6, <1>7, <1>9, Goes DEF clientVars

LEMMA ChangeStep ==
  ASSUME DatabaseAssumption, Inv, NEW c \in Client, Change(c)
  PROVE  Inv'
<1> DEFINE rows == Store!RowsAfter(call[c], db.sees.rows)
           content == [db.sees EXCEPT !.rows = rows]
<1>1. at[c] = "change"
  BY DEF Change
<1>2. /\ at[c] \in Inside \ {"return"} /\ SessionAt(c) /\ Reported(c) /\ DatabaseTypes
      /\ db \in Session /\ db # NoDb /\ db.opened /\ Fits(c, "commit")
      /\ db.sees \in FileContents /\ call[c] \in Store!Calls
      /\ db.sees.version = Version /\ db.sees.table /\ disk.version = Version
  BY <1>1, ChangeKnown DEF InTransaction
<1>3. db.sees = disk /\ db.active /\ db.isTransaction
  BY <1>1, <1>2 DEF SessionAt, Sees, Flags
<1>4. /\ Go(c, "commit") /\ answer' = [answer EXCEPT ![c] = Results(c)]
      /\ db' = [db EXCEPT !.sees = content]
      /\ UNCHANGED <<disk, holder, call, outcome, cursor, bounds>>
  BY DEF Change
<1>5. db.sees.rows \in Contents
  BY <1>2, ContentsOfFile
<1>6. /\ rows \in Contents
      /\ Results(c) \in Value \cup {NoRow} \cup SUBSET Key
  BY <1>2, <1>5, Effects DEF Results
<1> HIDE DEF rows
<1>7. /\ content \in FileContents /\ content.rows = rows /\ content.table = db.sees.table
      /\ content.version = db.sees.version
  BY ONLY <1>2, <1>6 DEF FileContents, Contents
<1> HIDE DEF content
<1>8. /\ db' \in Session /\ db'.opened = db.opened /\ db'.isTransaction = db.isTransaction
      /\ db'.active = db.active /\ db'.sees = content /\ db' # NoDb
  BY <1>2, <1>4, <1>7, NullAssumption DEF Session
<1>9. at'[c] = "commit" /\ at' \in [Client -> Working \cup {"idle", "return", "rows"}]
  BY <1>2, <1>4 DEF Go, DatabaseTypes, Working
<1>10. /\ answer'[c] = Results(c) /\ \A d \in Client \ {c} : answer'[d] = answer[d]
       /\ answer' \in [Client -> Value \cup {NoRow} \cup SUBSET Key]
  BY <1>2, <1>4, <1>6 DEF DatabaseTypes
<1>11. DatabaseTypes'
  BY <1>2, <1>4, <1>8, <1>9, <1>10 DEF DatabaseTypes, bounds
<1>12. Reported(c)'
  BY <1>1, <1>2, <1>4, <1>9 DEF Reported, Working, Preparing
<1>13. /\ db'.sees.rows = Store!RowsAfter(call'[c], disk'.rows)
       /\ answer'[c] = Store!AnswerFrom(call'[c], disk'.rows)
  BY <1>3, <1>4, <1>7, <1>8, <1>10 DEF Results, rows
<1>14. SessionAt(c)'
  BY <1>2, <1>3, <1>4, <1>7, <1>8, <1>9, <1>13 DEF SessionAt, Sees, VersionMeansTable, Flags,
       Working, Preparing, InTransaction, UpToDate
<1>15. QED BY <1>2, <1>4, <1>10, <1>11, <1>12, <1>14, Goes

LEMMA RollingBack ==
  ASSUME db \in Session, disk \in FileContents
  PROVE  /\ RolledBack \in Session /\ RolledBack.opened = db.opened
         /\ RolledBack.isTransaction = db.isTransaction
         /\ RolledBack.active = FALSE /\ RolledBack.sees = disk
BY DEF RolledBack, Session

LEMMA StepFailsStep ==
  ASSUME DatabaseAssumption, Inv, NEW c \in Client, StepFails(c)
  PROVE  Inv'
<1>1. at[c] \in {"change", "commit"}
  BY DEF StepFails
<1>2. /\ at[c] \in Inside \ {"return"} /\ SessionAt(c) /\ DatabaseTypes
      /\ db \in Session /\ db # NoDb /\ db.opened /\ Fits(c, "end") /\ disk \in FileContents
      /\ db.sees.version = Version /\ db.sees.table /\ disk.version = Version
  BY <1>1, ChangeKnown DEF InTransaction
<1>3. /\ Go(c, "end") /\ answer' = [answer EXCEPT ![c] = NoRow]
      /\ outcome' = [outcome EXCEPT ![c] = "failed"] /\ db' \in {db, RolledBack}
      /\ faults' = faults + 1 /\ faults < MaxFaults
      /\ UNCHANGED <<disk, holder, call, cursor, crashes>>
  BY DEF StepFails, Fails, Fault
<1>4. /\ db' \in Session /\ db'.opened = db.opened /\ db'.isTransaction = db.isTransaction
      /\ db' # NoDb
      /\ (db' = db \/ (db'.active = FALSE /\ db'.sees = disk))
  BY <1>2, <1>3, RollingBack, NullAssumption
<1>5. at'[c] = "end" /\ at' \in [Client -> Working \cup {"idle", "return", "rows"}]
  BY <1>2, <1>3 DEF Go, DatabaseTypes, Working
<1>6. /\ outcome'[c] = "failed"
      /\ \A d \in Client \ {c} : answer'[d] = answer[d] /\ outcome'[d] = outcome[d]
      /\ answer' \in [Client -> Value \cup {NoRow} \cup SUBSET Key]
      /\ outcome' \in [Client -> {"open", "ok", "failed"}]
      /\ faults' \in 0..MaxFaults /\ faults' >= 1
  BY <1>2, <1>3, DatabaseAssumption DEF DatabaseTypes
<1>7. DatabaseTypes'
  BY <1>2, <1>3, <1>4, <1>5, <1>6 DEF DatabaseTypes
<1>8. Reported(c)'
  BY <1>5, <1>6 DEF Reported, Working, Preparing
<1>9. disk.table
  BY <1>2, DatabaseAssumption DEF SessionAt, VersionMeansTable
<1>10. SessionAt(c)'
  <2>1. Flags'
    BY <1>2, <1>3, <1>4 DEF SessionAt, Flags
  <2>2. db'.sees.version = Version /\ db'.sees.table
    BY <1>2, <1>4, <1>9
  <2>3. /\ at'[c] = "end" /\ outcome'[c] = "failed" /\ faults' >= 1 /\ db' # NoDb /\ db'.opened
        /\ disk' = disk /\ disk.version = Version /\ disk.table
    BY <1>2, <1>3, <1>4, <1>5, <1>6, <1>9
  <2>4. QED BY ONLY <2>1, <2>2, <2>3 DEF SessionAt, Sees, VersionMeansTable, Working,
             Preparing, InTransaction, UpToDate
<1>11. QED BY <1>2, <1>3, <1>6, <1>7, <1>8, <1>10, Goes

LEMMA CommitStep ==
  ASSUME DatabaseAssumption, Inv, NEW c \in Client, Commit(c)
  PROVE  /\ Inv'
         /\ disk'.rows = Store!RowsAfter(call[c], disk.rows)
         /\ answer[c] = Store!AnswerFrom(call[c], disk.rows)
<1>1. at[c] = "commit"
  BY DEF Commit
<1>2. /\ at[c] \in Inside \ {"return"} /\ SessionAt(c) /\ DatabaseTypes
      /\ db \in Session /\ db # NoDb /\ db.opened /\ Fits(c, "end") /\ db.sees \in FileContents
      /\ db.sees.version = Version /\ db.sees.table
  BY <1>1, ChangeKnown DEF InTransaction
<1>3. /\ Go(c, "end") /\ outcome' = [outcome EXCEPT ![c] = "ok"] /\ disk' = db.sees
      /\ db' = [db EXCEPT !.active = FALSE, !.isTransaction = FALSE]
      /\ UNCHANGED <<holder, call, answer, cursor, bounds>>
  BY DEF Commit
<1>4. /\ db' \in Session /\ db'.opened = db.opened /\ db'.isTransaction = FALSE
      /\ db'.active = FALSE /\ db'.sees = db.sees /\ db' # NoDb
  BY <1>2, <1>3, NullAssumption DEF Session
<1>5. at'[c] = "end" /\ at' \in [Client -> Working \cup {"idle", "return", "rows"}]
  BY <1>2, <1>3 DEF Go, DatabaseTypes, Working
<1>6. /\ outcome'[c] = "ok" /\ \A d \in Client \ {c} : outcome'[d] = outcome[d]
      /\ outcome' \in [Client -> {"open", "ok", "failed"}]
  BY <1>2, <1>3 DEF DatabaseTypes
<1>7. DatabaseTypes'
  BY <1>2, <1>3, <1>4, <1>5, <1>6 DEF DatabaseTypes, bounds
<1>8. Reported(c)'
  BY <1>5, <1>6 DEF Reported, Working, Preparing
<1>9. SessionAt(c)'
  BY <1>2, <1>3, <1>4, <1>5, <1>6 DEF SessionAt, Sees, VersionMeansTable, Flags, Working,
       Preparing, InTransaction, UpToDate
<1>10. Inv'
  BY <1>2, <1>3, <1>6, <1>7, <1>8, <1>9, Goes
<1>11. QED BY <1>1, <1>2, <1>3, <1>10 DEF SessionAt, Sees

(* The transaction is over, or a second failure has left it open.            *)
LEMMA EndStep ==
  ASSUME DatabaseAssumption, Inv, NEW c \in Client, End(c)
  PROVE  Inv' /\ (db'.active => outcome[c] = "failed")
<1>1. at[c] = "end"
  BY DEF End
<1>2. /\ at[c] \in Inside \ {"return"} /\ SessionAt(c) /\ DatabaseTypes /\ Reported(c)
      /\ db \in Session /\ db # NoDb /\ db.opened /\ Fits(c, "close") /\ disk \in FileContents
      /\ db.sees.version = Version /\ db.sees.table /\ disk.version = Version
  BY <1>1, ChangeKnown DEF InTransaction
<1>3. /\ Go(c, "close") /\ UNCHANGED <<disk, holder, clientVars, crashes>>
      /\ \/ db' = [RolledBack EXCEPT !.isTransaction = FALSE] /\ faults' = faults
         \/ db' = db /\ db.active /\ faults' = faults + 1 /\ faults < MaxFaults
         \/ db' = db /\ ~(db.isTransaction /\ db.active) /\ faults' = faults
  BY DEF End, Fault, bounds
<1>4. /\ disk.table /\ faults \in 0..MaxFaults /\ outcome[c] \in {"ok", "failed"}
      /\ Flags /\ (db.active => outcome[c] = "failed" /\ faults >= 1)
  BY <1>1, <1>2, DatabaseAssumption DEF SessionAt, Sees, VersionMeansTable, DatabaseTypes, Reported
<1>5. /\ db' \in Session /\ db' # NoDb /\ db'.opened
      /\ db'.sees.version = Version /\ db'.sees.table
      /\ db'.active => db'.isTransaction
      /\ ~db'.active => db'.sees = disk
      /\ db'.active => outcome[c] = "failed" /\ faults' >= 2
      /\ faults' \in 0..MaxFaults
  <2>1. CASE db' = [RolledBack EXCEPT !.isTransaction = FALSE] /\ faults' = faults
    <3>1. /\ db' \in Session /\ db'.opened = db.opened /\ db'.isTransaction = FALSE
          /\ db'.active = FALSE /\ db'.sees = disk
      <4>1. RolledBack \in Session
        BY <1>2, RollingBack
      <4>2. /\ db' \in Session /\ db'.opened = RolledBack.opened /\ db'.isTransaction = FALSE
            /\ db'.active = RolledBack.active /\ db'.sees = RolledBack.sees
        BY ONLY <4>1, <2>1 DEF Session
      <4>3. QED BY <4>2, <1>2, RollingBack
    <3>2. QED BY <3>1, <2>1, <1>2, <1>4, NullAssumption
  <2>2. CASE db' = db /\ db.active /\ faults' = faults + 1 /\ faults < MaxFaults
    <3>1. faults' >= 2 /\ faults' \in 0..MaxFaults
      BY ONLY <1>4, <2>2, DatabaseAssumption
    <3>2. QED BY <2>2, <3>1, <1>2, <1>4 DEF Flags
  <2>3. CASE db' = db /\ ~(db.isTransaction /\ db.active) /\ faults' = faults
    BY <2>3, <1>2, <1>4 DEF Flags
  <2>4. QED BY <1>3, <2>1, <2>2, <2>3
<1>6. at'[c] = "close" /\ at' \in [Client -> Working \cup {"idle", "return", "rows"}]
  BY <1>2, <1>3 DEF Go, DatabaseTypes, Working
<1>7. DatabaseTypes'
  BY <1>2, <1>3, <1>5, <1>6 DEF DatabaseTypes, clientVars
<1>8. Reported(c)'
  <2>1. outcome'[c] # "open" /\ Op(c)' = Op(c) /\ Locked(c) /\ call[c] # NoCall
    BY <1>1, <1>2, <1>3, <1>4, Known DEF clientVars, Op, Inv, Places, Ways, WayOf, InTransaction
  <2>2. QED BY <1>6, <2>1 DEF Reported, Working, Preparing, Locked, Unlocked
<1>9. SessionAt(c)'
  <2>1. disk'.version = Version /\ disk'.table /\ disk' = disk
    BY <1>2, <1>3, <1>4
  <2>2. Flags'
    BY <1>5, <2>1 DEF Flags
  <2>3. QED BY <1>5, <1>6, <2>1, <2>2 DEF SessionAt, Sees, VersionMeansTable, Working,
            Preparing, InTransaction, UpToDate
<1>10. Inv'
  BY <1>2, <1>3, <1>7, <1>8, <1>9, Goes DEF clientVars
<1>11. QED BY <1>5, <1>10

(* The database closes, or stays open in its transaction.                    *)
LEMMA CloseStep ==
  ASSUME DatabaseAssumption, Inv, NEW c \in Client, Close(c)
  PROVE  Inv' /\ db'.active = db.active /\ db # NoDb /\ db' # NoDb
<1>1. at[c] = "close" /\ at[c] \in Inside \ {"return"} /\ at[c] \in Working
  BY DEF Close, Inside, Working
<1>2. /\ SessionAt(c) /\ DatabaseTypes /\ Reported(c) /\ Op(c) # "discard"
      /\ db \in Session /\ db # NoDb /\ db.opened
  BY <1>1, Known DEF Inv, SessionAt, Sees, Places, Ways, WayOf
<1>3. /\ Go(c, "return") /\ UNCHANGED <<disk, holder, clientVars, bounds>>
      /\ db' = [db EXCEPT !.opened = db.isTransaction /\ db.opened]
  BY DEF Close
<1>4. Fits(c, "return")
  BY <1>2 DEF Fits, Inside, InTransaction
<1>5. /\ db' \in Session /\ db'.isTransaction = db.isTransaction /\ db'.active = db.active
      /\ db'.sees = db.sees /\ db' # NoDb
      /\ db'.opened <=> db.isTransaction
  <2>1. (db.isTransaction /\ db.opened) \in BOOLEAN
    OBVIOUS
  <2>2. /\ db' \in Session /\ db'.isTransaction = db.isTransaction /\ db'.active = db.active
        /\ db'.sees = db.sees /\ db'.opened = (db.isTransaction /\ db.opened)
    BY ONLY <1>2, <1>3, <2>1 DEF Session
  <2>3. QED BY <2>2, <1>2, NullAssumption
<1>6. at'[c] = "return" /\ at' \in [Client -> Working \cup {"idle", "return", "rows"}]
  BY <1>2, <1>3 DEF Go, DatabaseTypes
<1>7. DatabaseTypes'
  BY <1>2, <1>3, <1>5, <1>6 DEF DatabaseTypes, clientVars, bounds
<1>8. Reported(c)'
  BY <1>1, <1>2, <1>3, <1>6 DEF Reported, Working, Preparing, clientVars, Op
<1>9. SessionAt(c)'
  <2>1. Flags'
    BY <1>2, <1>3, <1>5 DEF SessionAt, Flags
  <2>2. disk' = disk /\ faults' = faults /\ at[c] = "close"
    BY <1>1, <1>3 DEF bounds
  <2>3. QED BY <1>2, <1>5, <1>6, <2>1, <2>2 DEF SessionAt, Sees, VersionMeansTable, Working,
            Preparing, InTransaction, UpToDate
<1>10. Inv'
  BY <1>1, <1>3, <1>4, <1>7, <1>8, <1>9, Goes DEF clientVars
<1>11. QED BY <1>2, <1>5, <1>10

-----------------------------------------------------------------------------
(* The file is thrown away.                                                  *)
LEMMA CloseSessionStep ==
  ASSUME DatabaseAssumption, Inv, NEW c \in Client, CloseSession(c)
  PROVE  Inv'
<1>1. at[c] = "drop" /\ at[c] \in Inside \ {"return"} /\ at[c] \in Working
  BY DEF CloseSession, Inside, Working
<1>2. SessionAt(c) /\ DatabaseTypes /\ Reported(c) /\ Op(c) = "discard"
  BY <1>1, Known DEF Inv, Places, Ways, WayOf
<1>3. Go(c, "unlink") /\ UNCHANGED <<disk, holder, clientVars, bounds>> /\ db' = NoDb
  BY DEF CloseSession, SessionCloses
<1>4. Fits(c, "unlink")
  BY <1>2 DEF Fits, Inside, InTransaction
<1>5. at'[c] = "unlink" /\ at' \in [Client -> Working \cup {"idle", "return", "rows"}]
  BY <1>2, <1>3 DEF Go, DatabaseTypes, Working
<1>6. DatabaseTypes'
  BY <1>2, <1>3, <1>5 DEF DatabaseTypes, clientVars, bounds
<1>7. Reported(c)'
  BY <1>1, <1>2, <1>3, <1>5 DEF Reported, Working, Preparing, clientVars
<1>8. SessionAt(c)'
  BY <1>2, <1>3, <1>5 DEF SessionAt, Sees, VersionMeansTable, Flags, Preparing, InTransaction
<1>9. QED BY <1>1, <1>3, <1>4, <1>6, <1>7, <1>8, Goes DEF clientVars

LEMMA DeleteFileStep ==
  ASSUME DatabaseAssumption, Inv, NEW c \in Client, DeleteFile(c) \/ DeleteFileFails(c)
  PROVE  /\ Inv' /\ db = NoDb /\ db' = NoDb
         /\ Op(c) = "discard" /\ answer[c] = NoRow
<1>1. at[c] = "unlink" /\ at[c] \in Inside \ {"return"} /\ at[c] \in Working
  BY DEF DeleteFile, DeleteFileFails, Inside, Working
<1>2. /\ SessionAt(c) /\ DatabaseTypes /\ Op(c) = "discard" /\ answer[c] = NoRow
      /\ db = NoDb
  BY <1>1, Known DEF Inv, Places, Ways, WayOf, SessionAt, Sees, Reported
<1>3. /\ Go(c, "return") /\ UNCHANGED <<db, holder, call, answer, cursor, crashes>>
      /\ (disk' = disk \/ disk' = EmptyFile)
      /\ (outcome' = [outcome EXCEPT ![c] = "ok"] \/ outcome' = [outcome EXCEPT ![c] = "failed"])
      /\ (faults' = faults \/ (faults' = faults + 1 /\ faults < MaxFaults))
  BY DEF DeleteFile, DeleteFileFails, Fault, Fails, bounds
<1>4. Fits(c, "return")
  BY DEF Fits, Inside, InTransaction
<1>5. at'[c] = "return" /\ at' \in [Client -> Working \cup {"idle", "return", "rows"}]
  BY <1>2, <1>3 DEF Go, DatabaseTypes
<1>6. /\ outcome'[c] # "open" /\ \A d \in Client \ {c} : outcome'[d] = outcome[d]
      /\ outcome' \in [Client -> {"open", "ok", "failed"}] /\ faults' \in 0..MaxFaults
  BY <1>2, <1>3, DatabaseAssumption DEF DatabaseTypes
<1>7. DatabaseTypes'
  BY <1>2, <1>3, <1>5, <1>6, ContentsOfFile DEF DatabaseTypes
<1>8. Reported(c)'
  BY <1>2, <1>3, <1>5, <1>6 DEF Reported, Working, Preparing, Op
<1>9. SessionAt(c)'
  <2>1. VersionMeansTable'
    BY <1>2, <1>3, ContentsOfFile DEF SessionAt, VersionMeansTable
  <2>2. QED BY <1>2, <1>3, <1>5, <2>1 DEF SessionAt, Sees, Flags, Preparing, InTransaction
<1>10. Inv'
  BY <1>1, <1>3, <1>4, <1>6, <1>7, <1>8, <1>9, Goes
<1>11. QED BY <1>2, <1>3, <1>10

-----------------------------------------------------------------------------
(* The cursor.  Every move ends at a row, or leaves the cursor as it was.    *)
At(cur, i) == [cur EXCEPT !.record = i, !.row = i]
Arrived(cur, i) == [ok |-> TRUE, cursor |-> At(cur, i)]

LEMMA LeastNumber ==
  ASSUME NEW B \in SUBSET Nat, B # {}
  PROVE  \E m \in B : \A i \in B : m <= i
<1> DEFINE UpTo(i) == 0..i
           T == {UpTo(i) : i \in B}
           F == FiniteSubsetsOf(Nat)
           R == StrictSubsetOrdering(Nat)
<1>1. \A i \in Nat : UpTo(i) \in F
  BY FS_Interval DEF FiniteSubsetsOf
<1>2. PICK x \in T : \A y \in T : <<y, x>> \notin R
  <2>1. IsWellFoundedOn(R, F)
    BY FS_StrictSubsetOrderingWellFounded
  <2>2. T \subseteq F /\ T # {}
    BY <1>1
  <2> HIDE DEF R, T, F
  <2>3. QED BY <2>1, <2>2, WFMin
<1>3. PICK m \in B : x = UpTo(m)
  BY <1>2
<1>4. ASSUME NEW i \in B, ~(m <= i) PROVE FALSE
  <2>1. UpTo(i) \subseteq UpTo(m) /\ m \in UpTo(m) /\ m \notin UpTo(i)
    BY <1>4
  <2>2. UpTo(i) \in SUBSET Nat /\ UpTo(m) \in SUBSET Nat
    OBVIOUS
  <2>3. <<UpTo(i), UpTo(m)>> \in R
    BY <2>1, <2>2 DEF StrictSubsetOrdering
  <2>4. QED BY <2>3, <1>2, <1>3
<1>5. QED BY <1>4

LEMMA AtRow ==
  ASSUME NEW cur \in Cursors, Placed(cur), NEW i \in 0..(Len(cur.keys) - 1)
  PROVE  /\ At(cur, i) \in Cursors /\ Placed(At(cur, i))
         /\ At(cur, i).keys = cur.keys /\ At(cur, i).walk = cur.walk
         /\ At(cur, i).row = i /\ At(cur, i).record = i
         /\ \A j : At(At(cur, i), j) = At(cur, j)
<1>1. cur.keys \in Seq(Key) /\ Len(cur.keys) \in Nat /\ i \in Nat
  BY LenProperties DEF Cursors
<1>2. /\ At(cur, i) \in Cursors
      /\ At(cur, i).keys = cur.keys /\ At(cur, i).walk = cur.walk
      /\ At(cur, i).row = i /\ At(cur, i).record = i
  BY <1>1 DEF At, Cursors
<1>3. Placed(At(cur, i))
  BY <1>1, <1>2 DEF Placed
<1>4. \A j : At(At(cur, i), j) = At(cur, j)
  BY <1>1 DEF At, Cursors
<1>5. QED BY <1>2, <1>3, <1>4

LEMMA SingleMoves ==
  ASSUME NEW cur \in Cursors, Placed(cur)
  PROVE  LET n == Len(cur.keys) IN
         /\ n \in Nat
         /\ Rows!MoveToFirst(cur) = IF n = 0 THEN Rows!Refused(cur) ELSE Arrived(cur, 0)
         /\ Rows!MoveToLast(cur) = IF n = 0 THEN Rows!Refused(cur) ELSE Arrived(cur, n - 1)
         /\ Rows!MoveToNext(cur) = IF cur.row + 1 < n THEN Arrived(cur, cur.row + 1)
                                                       ELSE Rows!Refused(cur)
         /\ Rows!MoveToPrevious(cur) = IF cur.row > 0 THEN Arrived(cur, cur.row - 1)
                                                      ELSE Rows!Refused(cur)
<1>1. Len(cur.keys) \in Nat /\ cur.row \in Nat /\ cur.record = cur.row
  BY LenProperties DEF Cursors, Placed
<1>2. QED BY <1>1 DEF Rows!MoveToFirst, Rows!MoveToLast, Rows!MoveToNext, Rows!MoveToPrevious,
          Rows!Count, Rows!Done, Arrived, At, Cursors

(* From the first row, position times to the next one, is at that position.  *)
LEMMA StepsArrive ==
  ASSUME NEW cur \in Cursors, Placed(cur), NEW p \in Nat, p < Len(cur.keys)
  PROVE  Rows!StepsFromFirst(cur, p) = Arrived(cur, p)
<1> DEFINE Body(f) == [i \in 0..p |->
                         IF i = 0 THEN Rows!MoveToFirst(cur)
                         ELSE IF f[i - 1].ok THEN Rows!MoveToNext(f[i - 1].cursor) ELSE f[i - 1]]
           f0 == CHOOSE f : f = Body(f)
           h == [i \in 0..p |-> Arrived(cur, i)]
<1>1. Rows!StepsFromFirst(cur, p) = f0[p]
  BY DEF Rows!StepsFromFirst
<1>2. Len(cur.keys) \in Nat
  BY LenProperties DEF Cursors
<1>3. Rows!MoveToFirst(cur) = Arrived(cur, 0)
  BY <1>2, SingleMoves
<1>4. ASSUME NEW i \in 0..p, i # 0
      PROVE  Rows!MoveToNext(Arrived(cur, i - 1).cursor) = Arrived(cur, i)
  <2>1. i - 1 \in 0..(Len(cur.keys) - 1) /\ i - 1 + 1 = i /\ i < Len(cur.keys)
    BY <1>2, <1>4
  <2>2. /\ At(cur, i - 1) \in Cursors /\ Placed(At(cur, i - 1))
        /\ At(cur, i - 1).row = i - 1 /\ At(cur, i - 1).keys = cur.keys
        /\ At(At(cur, i - 1), i) = At(cur, i)
    BY <2>1, AtRow
  <2>3. Rows!MoveToNext(At(cur, i - 1)) = Arrived(At(cur, i - 1), i)
    BY <2>1, <2>2, SingleMoves
  <2>4. QED BY <2>2, <2>3 DEF Arrived
<1>5. h = Body(h)
  <2>1. ASSUME NEW i \in 0..p
        PROVE  h[i] = IF i = 0 THEN Rows!MoveToFirst(cur)
                      ELSE IF h[i - 1].ok THEN Rows!MoveToNext(h[i - 1].cursor) ELSE h[i - 1]
    <3>1. CASE i = 0
      BY <3>1, <1>3
    <3>2. CASE i # 0
      <4>1. i - 1 \in 0..p
        BY <3>2
      <4>2. h[i - 1] = Arrived(cur, i - 1) /\ h[i - 1].ok = TRUE
        BY <4>1 DEF Arrived
      <4>3. QED BY <3>2, <4>2, <1>4
    <3>3. QED BY <3>1, <3>2
  <2>2. QED BY <2>1
<1>6. f0 = Body(f0)
  <2> HIDE DEF h
  <2>1. \E f : f = Body(f)
    BY <1>5
  <2>2. QED BY <2>1
<1>7. \A i \in 0..p : f0[i] = IF i = 0 THEN Rows!MoveToFirst(cur)
                              ELSE IF f0[i - 1].ok THEN Rows!MoveToNext(f0[i - 1].cursor)
                                                   ELSE f0[i - 1]
  <2> HIDE DEF f0
  <2>1. QED BY <1>6
<1> HIDE DEF f0, Body, h
<1>8. \A i \in 0..p : f0[i] = Arrived(cur, i)
  <2> DEFINE Wrong == {i \in 0..p : f0[i] # Arrived(cur, i)}
  <2>1. SUFFICES ASSUME Wrong # {} PROVE FALSE
    OBVIOUS
  <2>2. PICK m \in Wrong : \A i \in Wrong : m <= i
    <3>1. Wrong \in SUBSET Nat
      OBVIOUS
    <3> HIDE DEF Wrong
    <3>2. QED BY <2>1, <3>1, LeastNumber
  <2>3. m # 0
    BY <2>2, <1>3, <1>7
  <2>4. m - 1 \in 0..p /\ m - 1 \notin Wrong
    BY <2>2, <2>3
  <2>5. f0[m - 1] = Arrived(cur, m - 1) /\ f0[m - 1].ok = TRUE
    BY <2>4 DEF Arrived
  <2>6. f0[m] = Rows!MoveToNext(f0[m - 1].cursor)
    BY <2>2, <2>3, <2>5, <1>7
  <2>7. QED BY <2>2, <2>3, <2>5, <2>6, <1>4
<1>9. QED BY <1>1, <1>8

LEMMA PositionArrives ==
  ASSUME NEW cur \in Cursors, Placed(cur), NEW p \in Nat
  PROVE  Rows!MoveToPosition(cur, p) = IF p < Len(cur.keys) THEN Arrived(cur, p)
                                                            ELSE Rows!Refused(cur)
<1>1. Len(cur.keys) \in Nat /\ cur.row \in Nat /\ cur.record = cur.row
  BY LenProperties DEF Cursors, Placed
<1>2. CASE p >= Len(cur.keys)
  BY <1>1, <1>2 DEF Rows!MoveToPosition, Rows!Count
<1>3. CASE p < Len(cur.keys) /\ p = cur.row
  <2>1. At(cur, p) = cur
    BY <1>1, <1>3 DEF At, Cursors
  <2>2. Rows!MoveToPosition(cur, p) = Rows!Done(cur)
    BY <1>1, <1>3 DEF Rows!MoveToPosition, Rows!Count
  <2>3. QED BY <1>3, <2>1, <2>2 DEF Rows!Done, Arrived
<1>4. CASE p < Len(cur.keys) /\ p # cur.row
  <2>1. Rows!MoveToPosition(cur, p) = Rows!StepsFromFirst(cur, p)
    BY <1>1, <1>4 DEF Rows!MoveToPosition, Rows!Count
  <2>2. QED BY <1>4, <2>1, StepsArrive
<1>5. QED BY <1>1, <1>2, <1>3, <1>4

LEMMA Wrapping ==
  ASSUME IntMax \in Nat, NEW sum \in (-(IntMax + 1))..(2 * IntMax)
  PROVE  Rows!AsInt(sum) = IF sum <= IntMax THEN sum ELSE sum - 2 * (IntMax + 1)
<1>1. ASSUME NEW m \in Nat, NEW k \in Nat, k < m PROVE k % m = k /\ (k + m) % m = k
  BY <1>1
<1>2. CASE sum <= IntMax
  BY <1>2, <1>1 DEF Rows!AsInt, Rows!IntMin
<1>3. CASE sum > IntMax
  BY <1>3, <1>1 DEF Rows!AsInt, Rows!IntMin
<1>4. QED BY <1>2, <1>3

(* The offset is added in the arithmetic of int; as no table has more rows   *)
(* than there are ints, a sum that wraps is negative.                        *)
LEMMA OffsetArrives ==
  ASSUME IntMax \in Nat, NEW cur \in Cursors, Placed(cur), Len(cur.keys) <= IntMax,
         NEW i \in Rows!Ints
  PROVE  Rows!Move(cur, i) = IF cur.row + i \in 0..(Len(cur.keys) - 1)
                               THEN Arrived(cur, cur.row + i) ELSE Rows!Refused(cur)
<1> DEFINE n == Len(cur.keys)
           sum == cur.row + i
           position == Rows!AsInt(sum)
<1>1. n \in Nat /\ cur.row \in 0..IntMax /\ (cur.row < n \/ (n = 0 /\ cur.row = 0))
  BY LenProperties DEF Cursors, Placed
<1>2. i \in (-(IntMax + 1))..IntMax /\ sum \in (-(IntMax + 1))..(2 * IntMax)
  BY <1>1 DEF Rows!Ints, Rows!IntMin
<1>3. Rows!AsInt(cur.row) = cur.row
  BY <1>1, Wrapping
<1>4. sum <= IntMax => position = sum
  BY <1>2, Wrapping
<1>5. sum > IntMax => position = sum - 2 * (IntMax + 1)
  BY <1>2, Wrapping
<1>6. Rows!Move(cur, i) = IF position < 0 THEN Rows!Refused(cur)
                          ELSE Rows!MoveToPosition(cur, position)
  BY <1>3 DEF Rows!Move
<1> HIDE DEF position
<1>7. CASE sum > IntMax
  <2>1. position < 0 /\ sum \notin 0..(n - 1)
    BY <1>1, <1>2, <1>5, <1>7
  <2>2. QED BY <1>6, <2>1
<1>8. CASE sum < 0
  BY <1>2, <1>4, <1>6, <1>8
<1>9. CASE sum \in 0..IntMax
  <2>1. position \in Nat /\ position = sum
    BY <1>4, <1>9
  <2>2. Rows!MoveToPosition(cur, position) =
          IF position < n THEN Arrived(cur, position) ELSE Rows!Refused(cur)
    BY <2>1, PositionArrives
  <2>3. position < n <=> sum \in 0..(n - 1)
    BY <1>1, <2>1
  <2>4. QED BY <1>6, <2>1, <2>2, <2>3
<1>10. QED BY <1>2, <1>7, <1>8, <1>9

Kept(move) == move.cursor \in Cursors /\ Placed(move.cursor)

LEMMA MovesKeep ==
  ASSUME RowsAssumption, NEW cur \in Cursors, Placed(cur)
  PROVE  /\ Kept(Rows!MoveToFirst(cur)) /\ Kept(Rows!MoveToLast(cur))
         /\ Kept(Rows!MoveToNext(cur)) /\ Kept(Rows!MoveToPrevious(cur))
         /\ \A p \in Nat : Kept(Rows!MoveToPosition(cur, p))
         /\ \A i \in Rows!Ints : Kept(Rows!Move(cur, i))
<1>1. /\ Len(cur.keys) \in Nat /\ cur.row \in Nat
      /\ Len(cur.keys) = 0 \/ cur.row < Len(cur.keys)
  BY LenProperties DEF Cursors, Placed
<1>2. Kept(Rows!Refused(cur))
  BY DEF Kept, Rows!Refused
<1>3. \A i \in 0..(Len(cur.keys) - 1) : Kept(Arrived(cur, i))
  BY AtRow DEF Kept, Arrived
<1>4. \A p \in Nat : Kept(Rows!MoveToPosition(cur, p))
  BY <1>1, <1>2, <1>3, PositionArrives
<1>5. \A i \in Rows!Ints : Kept(Rows!Move(cur, i))
  <2>1. IntMax \in Nat /\ Len(cur.keys) <= IntMax
    <3>1. IsFiniteSet(Key) => Cardinality(Key) \in Nat
      BY FS_CardinalityType
    <3>2. QED BY <1>1, <3>1, DatabaseAssumption DEF RowsAssumption, Placed
  <2>2. QED BY <1>2, <1>3, <2>1, OffsetArrives
<1>6. /\ Kept(Rows!MoveToFirst(cur)) /\ Kept(Rows!MoveToLast(cur))
      /\ Kept(Rows!MoveToNext(cur)) /\ Kept(Rows!MoveToPrevious(cur))
  <2>1. Len(cur.keys) # 0 => 0 \in 0..(Len(cur.keys) - 1)
                             /\ Len(cur.keys) - 1 \in 0..(Len(cur.keys) - 1)
    BY <1>1
  <2>2. cur.row + 1 < Len(cur.keys) => cur.row + 1 \in 0..(Len(cur.keys) - 1)
    BY <1>1
  <2>3. cur.row > 0 => cur.row - 1 \in 0..(Len(cur.keys) - 1)
    BY <1>1 DEF Placed
  <2>4. QED BY <1>2, <1>3, <2>1, <2>2, <2>3, SingleMoves
<1>7. QED BY <1>4, <1>5, <1>6

(* A new cursor is at the first of the rows it was given, if there are any.  *)
LEMMA CursorIsNew ==
  ASSUME DatabaseAssumption, NEW S \in SUBSET Key, NEW order \in Orders(S), NEW w \in BOOLEAN
  PROVE  NewCursor(order, w) \in Cursors /\ Placed(NewCursor(order, w))
<1>1. IsFiniteSet(S) /\ Cardinality(S) \in Nat /\ Cardinality(S) <= Cardinality(Key)
  BY DatabaseAssumption, FS_Subset, FS_CardinalityType
<1>2. order \in [1..Cardinality(S) -> S] /\ \A i, j \in DOMAIN order : order[i] = order[j] => i = j
  BY DEF Orders
<1>3. order \in Seq(Key) /\ Len(order) = Cardinality(S) /\ DOMAIN order = 1..Cardinality(S)
  BY <1>1, <1>2, IsASeq, LenProperties
<1>4. /\ NewCursor(order, w) \in Cursors /\ NewCursor(order, w).keys = order
      /\ NewCursor(order, w).row = 0 /\ NewCursor(order, w).record = 0
  BY <1>3 DEF NewCursor, Cursors
<1>5. QED BY <1>1, <1>2, <1>3, <1>4 DEF Placed

-----------------------------------------------------------------------------
(* Steps before and after the database, which the session does not notice.   *)
Quiet == {"idle", "rows", "lock", "open", "drop", "return"}

LEMMA QuietStep ==
  ASSUME SessionState, NEW c \in Client, UNCHANGED <<disk, db>>,
         at[c] \in Quiet, at'[c] \in Quiet, at'[c] \in Working \/ at[c] \notin Working,
         \A d \in Client \ {c} : /\ at'[d] = at[d] /\ outcome'[d] = outcome[d]
                                 /\ answer'[d] = answer[d] /\ call'[d] = call[d],
         faults \in Nat, faults' \in Nat, faults' >= faults
  PROVE  SessionState'
<1>1. Quiet \cap (Preparing \cup InTransaction \cup {"query", "begin", "close", "unlink"}) = {}
  BY DEF Quiet, Preparing, InTransaction
<1>2. Sees(c)'
  BY <1>1 DEF Sees, Preparing, InTransaction, Quiet
<1>3. ASSUME NEW d \in Client \ {c} PROVE Sees(d)'
  <2>1. Sees(d)
    BY DEF SessionState
  <2>2. /\ at'[d] = at[d] /\ outcome'[d] = outcome[d] /\ answer'[d] = answer[d]
        /\ call'[d] = call[d] /\ disk' = disk /\ db' = db
    OBVIOUS
  <2>3. faults >= 1 => faults' >= 1
    OBVIOUS
  <2>4. QED BY ONLY <2>1, <2>2, <2>3 DEF Sees
<1>4. VersionMeansTable' /\ Flags'
  BY DEF SessionState, VersionMeansTable, Flags
<1>5. \A d \in Client : /\ at'[d] \in Preparing <=> at[d] \in Preparing
                        /\ at'[d] \in InTransaction <=> at[d] \in InTransaction
  BY <1>1
<1>6. Prepared'
  BY <1>5 DEF SessionState, Prepared, HelperFree, UpToDate
<1>7. Undone'
  <2>1. faults >= 2 => faults' >= 2
    OBVIOUS
  <2>2. QED BY <1>5, <2>1 DEF SessionState, Undone
<1>8. LeftOpen'
  BY DEF SessionState, LeftOpen
<1>9. QED BY <1>2, <1>3, <1>4, <1>6, <1>7, <1>8 DEF SessionState

LEMMA QuietPlaces ==
  ASSUME Places, NEW c \in Client,
         \A d \in Client \ {c} : /\ at'[d] = at[d] /\ outcome'[d] = outcome[d]
                                 /\ answer'[d] = answer[d] /\ call'[d] = call[d]
                                 /\ cursor'[d] = cursor[d],
         Exclusion', WayOf(c)', Reported(c)'
  PROVE  Places'
<1>1. ASSUME NEW d \in Client \ {c} PROVE WayOf(d)' /\ Reported(d)'
  <2>1. WayOf(d) /\ Reported(d)
    BY DEF Places, Ways, WayOf
  <2>2. /\ at'[d] = at[d] /\ outcome'[d] = outcome[d] /\ answer'[d] = answer[d]
        /\ call'[d] = call[d] /\ cursor'[d] = cursor[d]
    OBVIOUS
  <2>3. QED BY ONLY <2>1, <2>2 DEF WayOf, Reported, Idle, Locked, ReadsOnly, Op
<1>2. Ways'
  BY <1>1 DEF Ways, WayOf
<1>3. QED BY <1>1, <1>2 DEF Places

LEMMA LockStep ==
  ASSUME DatabaseAssumption, Inv, NEW c \in Client, Lock(c)
  PROVE  Inv'
<1>1. /\ at[c] = "lock" /\ holder = NoClient /\ holder' = c /\ Go(c, "open")
      /\ UNCHANGED <<disk, db, clientVars, bounds>>
  BY DEF Lock
<1>2. DatabaseTypes /\ SessionState /\ Places /\ CursorsPlaced /\ WayOf(c) /\ Reported(c)
  BY DEF Inv, Places, Ways, WayOf
<1>3. /\ at'[c] = "open" /\ at' \in [Client -> Working \cup {"idle", "return", "rows"}]
      /\ \A d \in Client \ {c} : at'[d] = at[d]
  BY <1>1, <1>2 DEF Go, DatabaseTypes, Working
<1>4. /\ \A d \in Client : /\ call'[d] = call[d] /\ cursor'[d] = cursor[d]
                           /\ outcome'[d] = outcome[d] /\ answer'[d] = answer[d]
      /\ UNCHANGED <<disk, db, call, answer, cursor, outcome, faults, crashes>>
  BY <1>1 DEF clientVars, bounds
<1>5. DatabaseTypes'
  BY <1>1, <1>2, <1>3, <1>4 DEF DatabaseTypes
<1>6. Locked(c) /\ call[c] # NoCall
  BY <1>1, <1>2 DEF WayOf, Idle
<1>7. \A d \in Client : ~(Locked(d) /\ at[d] # "lock")
  BY <1>1, <1>2, DatabaseAssumption DEF Places, Exclusion
<1>8. Exclusion'
  <2>1. ASSUME NEW d \in Client PROVE holder' = d <=> Locked(d)' /\ at'[d] # "lock"
    <3>1. Locked(d)' = Locked(d)
      BY <1>4 DEF Locked, Op
    <3>2. QED BY <1>1, <1>3, <1>6, <1>7, <3>1
  <2>2. ASSUME NEW d \in Client, Exclusive(d)' PROVE \A b \in Client \ {d} : at'[b] = "idle"
    <3>1. Exclusive(d)
      BY <2>2, <1>4 DEF Exclusive, Op
    <3>2. \A b \in Client \ {d} : at[b] = "idle"
      BY <3>1, <1>2 DEF Places, Exclusion
    <3>3. d = c
      BY <3>2, <1>1
    <3>4. QED BY <3>2, <3>3, <1>3
  <2>3. QED BY <2>1, <2>2 DEF Exclusion
<1>9. WayOf(c)' /\ Reported(c)'
  <2>1. Op(c) \notin Unlocked
    BY <1>6 DEF Locked
  <2>2. QED BY <1>1, <1>2, <1>3, <1>4, <1>6, <2>1 DEF WayOf, Reported, Idle, Locked, ReadsOnly, Op,
            Working, Preparing, InTransaction, Unlocked
<1>10. Places'
  BY <1>2, <1>3, <1>4, <1>8, <1>9, QuietPlaces
<1>11. SessionState'
  <2>1. faults \in Nat
    BY <1>2, DatabaseAssumption DEF DatabaseTypes
  <2>2. at[c] \in Quiet /\ at'[c] \in Quiet /\ at'[c] \in Working
    BY <1>1, <1>3 DEF Quiet, Working
  <2>3. QED BY <1>2, <1>3, <1>4, <2>1, <2>2, QuietStep
<1>12. CursorsPlaced'
  BY <1>2, <1>4 DEF CursorsPlaced, Placed
<1>13. QED BY <1>5, <1>10, <1>11, <1>12 DEF Inv

LEMMA CallStep ==
  ASSUME DatabaseAssumption, Inv, NEW c \in Client, NEW q \in Store!Calls, Call(c, q)
  PROVE  Inv'
<1> DEFINE where == CASE q.op = "discard" -> "drop"
                      [] q.op \in {"list", "walk"} -> "open"
                      [] OTHER -> "lock"
<1>1. /\ at[c] \in {"idle", "rows"} /\ MayCall(c, q) /\ Go(c, where)
      /\ call' = [call EXCEPT ![c] = q]
      /\ outcome' = [outcome EXCEPT ![c] = "open"] /\ answer' = [answer EXCEPT ![c] = NoRow]
      /\ UNCHANGED <<disk, db, holder, cursor, faults, crashes>>
  BY DEF Call, Idle, bounds
<1>2. DatabaseTypes /\ SessionState /\ Places /\ CursorsPlaced /\ WayOf(c)
  BY DEF Inv, Places, Ways, WayOf
<1>3. q.op \in {"get", "put", "delete", "touch", "list", "walk", "discard"} /\ q # NoCall
  BY CallShape, NullAssumption
<1>4. where \in {"drop", "open", "lock"}
  BY <1>3
<1>5. /\ at'[c] = where /\ at' \in [Client -> Working \cup {"idle", "return", "rows"}]
      /\ call'[c] = q /\ outcome'[c] = "open" /\ answer'[c] = NoRow /\ cursor'[c] = cursor[c]
      /\ \A d \in Client \ {c} : /\ at'[d] = at[d] /\ outcome'[d] = outcome[d]
                                 /\ answer'[d] = answer[d] /\ call'[d] = call[d]
                                 /\ cursor'[d] = cursor[d]
  BY <1>1, <1>2, <1>4 DEF Go, DatabaseTypes, Working
<1>6. DatabaseTypes'
  BY <1>1, <1>2, <1>5 DEF DatabaseTypes
<1>7. call[c] = NoCall /\ (cursor[c] # NoCursor <=> at[c] = "rows")
  BY <1>1, <1>2 DEF WayOf, Idle
<1>8. ASSUME NEW d \in Client \ {c}, Exclusive(d) PROVE FALSE
  <2>1. at[c] = "idle"
    BY <1>2, <1>8 DEF Places, Exclusion
  <2>2. QED BY <2>1, <1>1, <1>7, <1>8 DEF MayCall
<1>9. cursor[c] # NoCursor => q.op = "delete" /\ ~cursor[c].walk
  BY <1>1 DEF MayCall
<1>10. (cursor[c] # NoCursor \/ q.op \in Unlocked) => \A d \in Client \ {c} : at[d] = "idle"
  <2>1. CASE cursor[c] # NoCursor
    BY <2>1, <1>2 DEF Places, Exclusion, Exclusive
  <2>2. CASE cursor[c] = NoCursor
    BY <2>2, <1>1 DEF MayCall
  <2>3. QED BY <2>1, <2>2
<1>11. Exclusion'
  <2>1. Locked(c)' => at'[c] = "lock"
    BY <1>3, <1>5 DEF Locked, Op, Unlocked
  <2>2. holder # c
    BY <1>2, <1>7 DEF Places, Exclusion, Locked
  <2>3. ASSUME NEW d \in Client PROVE holder' = d <=> Locked(d)' /\ at'[d] # "lock"
    <3>1. CASE d = c
      BY <1>1, <2>1, <2>2, <3>1
    <3>2. CASE d # c
      BY <1>1, <1>2, <1>5, <3>2 DEF Places, Exclusion, Locked, Op
    <3>3. QED BY <3>1, <3>2
  <2>4. \A d \in Client \ {c} : ~Exclusive(d)'
    BY <1>5, <1>8 DEF Exclusive, Op
  <2>5. Exclusive(c)' => \A d \in Client \ {c} : at'[d] = "idle"
    BY <1>5, <1>10 DEF Exclusive, Op
  <2>6. QED BY <2>3, <2>4, <2>5 DEF Exclusion
<1>12. WayOf(c)'
  <2>1. /\ call'[c] # NoCall /\ Op(c)' = q.op /\ Locked(c)' = (q.op \notin Unlocked)
        /\ q.op = "discard" => where = "drop"
        /\ q.op \notin Unlocked <=> where = "lock"
        /\ where = "drop" => q.op = "discard"
    BY <1>3, <1>5 DEF Op, Locked, Unlocked
  <2>2. QED BY <1>4, <1>5, <1>9, <2>1 DEF WayOf, Idle, InTransaction
<1>13. Reported(c)'
  BY <1>4, <1>5 DEF Reported
<1>14. Places'
  BY <1>2, <1>5, <1>11, <1>12, <1>13, QuietPlaces
<1>15. SessionState'
  <2>1. faults \in Nat /\ faults' = faults
    BY <1>1, <1>2, DatabaseAssumption DEF DatabaseTypes
  <2>2. at[c] \in Quiet /\ at'[c] \in Quiet /\ at'[c] \in Working
    BY <1>1, <1>4, <1>5 DEF Quiet, Working
  <2>3. QED BY <1>1, <1>2, <1>5, <2>1, <2>2, QuietStep
<1>16. CursorsPlaced'
  BY <1>1, <1>2 DEF CursorsPlaced, Placed
<1>17. QED BY <1>6, <1>14, <1>15, <1>16 DEF Inv

LEMMA ReturnStep ==
  ASSUME DatabaseAssumption, Inv, NEW c \in Client, Return(c)
  PROVE  Inv'
<1> DEFINE where == IF Fetched(c) \/ cursor[c] # NoCursor THEN "rows" ELSE "idle"
<1>1. /\ at[c] = "return" /\ Go(c, where) /\ call' = [call EXCEPT ![c] = NoCall]
      /\ holder' = Freed(c) /\ UNCHANGED <<disk, db, outcome, answer, faults, crashes>>
      /\ IF Fetched(c)
           THEN \E order \in Orders(answer[c]) :
                  cursor' = [cursor EXCEPT ![c] = NewCursor(order, Op(c) = "walk")]
           ELSE cursor' = cursor
  BY DEF Return, bounds
<1>2. /\ DatabaseTypes /\ SessionState /\ Places /\ CursorsPlaced /\ WayOf(c) /\ Reported(c)
      /\ call[c] # NoCall
  BY <1>1 DEF Inv, Places, Ways, WayOf, Idle
<1>3. /\ cursor' \in [Client -> Cursors \cup {NoCursor}]
      /\ \A d \in Client \ {c} : cursor'[d] = cursor[d]
      /\ cursor'[c] # NoCursor => Placed(cursor'[c])
      /\ Fetched(c) => cursor'[c] # NoCursor
      /\ ~Fetched(c) => cursor'[c] = cursor[c]
  <2>1. CASE Fetched(c)
    <3>1. answer[c] \in SUBSET Key /\ (Op(c) = "walk") \in BOOLEAN
      BY <2>1, <1>1, <1>2 DEF Fetched, Reported
    <3>2. PICK order \in Orders(answer[c]) :
            cursor' = [cursor EXCEPT ![c] = NewCursor(order, Op(c) = "walk")]
      BY <2>1, <1>1
    <3> DEFINE new == NewCursor(order, Op(c) = "walk")
    <3>3. new \in Cursors /\ Placed(new)
      BY <3>1, CursorIsNew
    <3> HIDE DEF new
    <3>4. new # NoCursor /\ cursor' = [cursor EXCEPT ![c] = new]
      BY <3>2, <3>3, NullAssumption DEF new
    <3>5. QED BY <2>1, <3>3, <3>4, <1>2 DEF DatabaseTypes
  <2>2. CASE ~Fetched(c)
    BY <2>2, <1>1, <1>2 DEF DatabaseTypes, CursorsPlaced
  <2>3. QED BY <2>1, <2>2
<1>4. /\ at'[c] = where /\ at' \in [Client -> Working \cup {"idle", "return", "rows"}]
      /\ call'[c] = NoCall
      /\ \A d \in Client \ {c} : /\ at'[d] = at[d] /\ outcome'[d] = outcome[d]
                                 /\ answer'[d] = answer[d] /\ call'[d] = call[d]
                                 /\ cursor'[d] = cursor[d]
  BY <1>1, <1>2, <1>3 DEF Go, DatabaseTypes
<1>5. DatabaseTypes'
  BY <1>1, <1>2, <1>3, <1>4 DEF DatabaseTypes, Freed
<1>6. \A d \in Client \ {c} : ~Exclusive(d)
  BY <1>1, <1>2 DEF Places, Exclusion
<1>7. (Fetched(c) \/ cursor[c] # NoCursor) => \A d \in Client \ {c} : at[d] = "idle"
  BY <1>2 DEF Places, Exclusion, Exclusive, Fetched, Unlocked
<1>8. Exclusion'
  <2>1. ASSUME NEW d \in Client PROVE holder' = d <=> Locked(d)' /\ at'[d] # "lock"
    <3>1. CASE d = c
      BY <3>1, <1>1, <1>4, DatabaseAssumption DEF Freed, Locked
    <3>2. CASE d # c
      BY <3>2, <1>1, <1>2, <1>4, DatabaseAssumption DEF Freed, Locked, Op, Places, Exclusion
    <3>3. QED BY <3>1, <3>2
  <2>2. \A d \in Client \ {c} : ~Exclusive(d)'
    BY <1>4, <1>6 DEF Exclusive, Op
  <2>3. Exclusive(c)' => \A d \in Client \ {c} : at'[d] = "idle"
    BY <1>3, <1>4, <1>7 DEF Exclusive
  <2>4. QED BY <2>1, <2>2, <2>3 DEF Exclusion
<1>9. WayOf(c)'
  <2>1. where \in {"rows", "idle"} /\ (where = "rows" <=> cursor'[c] # NoCursor)
    BY <1>3
  <2>2. QED BY <1>4, <2>1 DEF WayOf, Idle, InTransaction
<1>10. Reported(c)'
  BY <1>4 DEF Reported, Working, Preparing
<1>11. Places'
  BY <1>2, <1>4, <1>8, <1>9, <1>10, QuietPlaces
<1>12. SessionState'
  <2>1. faults \in Nat /\ faults' = faults
    BY <1>1, <1>2, DatabaseAssumption DEF DatabaseTypes
  <2>2. at[c] \in Quiet /\ at'[c] \in Quiet /\ at[c] \notin Working
    BY <1>1, <1>4 DEF Quiet, Working, Preparing
  <2>3. QED BY <1>1, <1>2, <1>4, <2>1, <2>2, QuietStep
<1>13. CursorsPlaced'
  BY <1>2, <1>3 DEF CursorsPlaced, Placed
<1>14. QED BY <1>5, <1>11, <1>12, <1>13 DEF Inv

(* A client at its rows moves its cursor, or gives it up.                    *)
LEMMA CursorStep ==
  ASSUME DatabaseAssumption, Inv, NEW c \in Client, at[c] = "rows",
         UNCHANGED <<disk, db, holder, call, outcome, answer, crashes>>,
         faults' = faults \/ (faults' = faults + 1 /\ faults < MaxFaults),
         \/ /\ UNCHANGED at
            /\ \E new \in Cursors : Placed(new) /\ cursor' = [cursor EXCEPT ![c] = new]
         \/ CloseCursor(c)
  PROVE  Inv'
<1>1. DatabaseTypes /\ SessionState /\ Places /\ CursorsPlaced /\ WayOf(c) /\ call[c] = NoCall
  BY DEF Inv, Places, Ways, WayOf, Idle
<1>2. /\ cursor' \in [Client -> Cursors \cup {NoCursor}]
      /\ \A d \in Client \ {c} : cursor'[d] = cursor[d] /\ at'[d] = at[d]
      /\ cursor'[c] # NoCursor => Placed(cursor'[c])
      /\ at' \in [Client -> Working \cup {"idle", "return", "rows"}]
      /\ at'[c] \in {"idle", "rows"} /\ (at'[c] = "rows" <=> cursor'[c] # NoCursor)
  <2>1. CASE /\ UNCHANGED at
             /\ \E new \in Cursors : Placed(new) /\ cursor' = [cursor EXCEPT ![c] = new]
    <3>1. PICK new \in Cursors : Placed(new) /\ cursor' = [cursor EXCEPT ![c] = new]
      BY <2>1
    <3>2. new # NoCursor
      BY NullAssumption
    <3>3. QED BY <2>1, <3>1, <3>2, <1>1 DEF DatabaseTypes
  <2>2. CASE CloseCursor(c)
    BY <2>2, <1>1 DEF CloseCursor, Go, DatabaseTypes
  <2>3. QED BY <2>1, <2>2
<1>3. faults \in Nat /\ faults' \in Nat /\ faults' >= faults /\ faults' \in 0..MaxFaults
  BY <1>1, DatabaseAssumption DEF DatabaseTypes
<1>4. DatabaseTypes'
  BY <1>1, <1>2, <1>3 DEF DatabaseTypes
<1>5. Exclusive(c) /\ \A d \in Client \ {c} : at[d] = "idle" /\ ~Exclusive(d)
  BY <1>1 DEF WayOf, Exclusive, Places, Exclusion
<1>6. Exclusion'
  <2>1. \A d \in Client : Locked(d)' = Locked(d) /\ ~Locked(c)
    BY <1>1 DEF Locked, Op
  <2>2. \A d \in Client : holder' = d <=> Locked(d)' /\ at'[d] # "lock"
    BY <1>1, <1>2, <2>1 DEF Places, Exclusion
  <2>3. \A d \in Client \ {c} : ~Exclusive(d)'
    BY <1>2, <1>5 DEF Exclusive, Op
  <2>4. QED BY <1>2, <1>5, <2>2, <2>3 DEF Exclusion
<1>7. WayOf(c)' /\ Reported(c)'
  BY <1>1, <1>2 DEF WayOf, Idle, Reported, Working, Preparing, InTransaction
<1>8. Places'
  BY <1>1, <1>2, <1>6, <1>7, QuietPlaces
<1>9. SessionState'
  <2>1. at[c] \in Quiet /\ at'[c] \in Quiet /\ at[c] \notin Working
    BY <1>2 DEF Quiet, Working, Preparing
  <2>2. QED BY <1>1, <1>2, <1>3, <2>1, QuietStep
<1>10. CursorsPlaced'
  BY <1>1, <1>2 DEF CursorsPlaced, Placed
<1>11. QED BY <1>4, <1>8, <1>9, <1>10 DEF Inv

LEMMA GoingStep ==
  ASSUME DatabaseAssumption, RowsAssumption, Inv, NEW c \in Client, Going(c)
  PROVE  /\ Inv' /\ at[c] = "rows" /\ at'[c] \in {"rows", "idle"}
         /\ \A d \in Client \ {c} : at'[d] = at[d]
         /\ UNCHANGED <<disk, db, call, outcome, answer>>
<1> DEFINE Stays == /\ UNCHANGED at
                    /\ \E new \in Cursors : Placed(new) /\ cursor' = [cursor EXCEPT ![c] = new]
<1>1. at[c] = "rows"
  BY DEF Going, ListRow, ListFails, Walk, WalkTo, WalkPosition, WalkOffset, EndWalk
<1>2. /\ at \in [Client -> Working \cup {"idle", "return", "rows"}]
      /\ cursor[c] \in Cursors /\ Placed(cursor[c])
  BY <1>1 DEF Inv, DatabaseTypes, Places, Ways, WayOf, CursorsPlaced
<1>3. /\ UNCHANGED <<disk, db, holder, call, outcome, answer, crashes>>
      /\ (faults' = faults \/ (faults' = faults + 1 /\ faults < MaxFaults))
  BY DEF Going, ListRow, ListFails, Unreadable, Fault, Walk, WalkTo, WalkPosition, WalkOffset,
     EndWalk, bounds
<1>4. Stays \/ CloseCursor(c)
  <2>1. CASE ListRow(c)
    <3>1. Kept(Rows!MoveToNext(cursor[c]))
      BY <1>2, MovesKeep
    <3>2. QED BY <2>1, <3>1 DEF ListRow, Kept
  <2>2. CASE ListFails(c) \/ EndWalk(c)
    BY <2>2 DEF ListFails, EndWalk
  <2>3. CASE Walk(c)
    <3>1. ASSUME NEW move, WalkTo(c, move), Kept(move) PROVE Stays
      BY <3>1 DEF WalkTo, Kept
    <3>2. \A p \in 0..Cardinality(Key) : p \in Nat
      OBVIOUS
    <3>3. QED BY <2>3, <3>1, <3>2, <1>2, MovesKeep DEF Walk, WalkPosition, WalkOffset
  <2>4. QED BY <2>1, <2>2, <2>3 DEF Going
<1>5. at'[c] \in {"rows", "idle"} /\ \A d \in Client \ {c} : at'[d] = at[d]
  BY <1>1, <1>2, <1>4 DEF CloseCursor, Go
<1>6. Inv'
  BY <1>1, <1>3, <1>4, CursorStep
<1>7. QED BY <1>1, <1>3, <1>5, <1>6

-----------------------------------------------------------------------------
(* The process dies.  The file is as it was committed.                       *)
LEMMA CrashStep ==
  ASSUME DatabaseAssumption, Inv, Crash
  PROVE  Inv' /\ db' = NoDb
<1>1. DatabaseTypes /\ SessionState
  BY DEF Inv
<1>2. /\ db' = NoDb /\ holder' = NoClient /\ UNCHANGED <<disk, faults>>
      /\ at' = [c \in Client |-> "idle"] /\ call' = [c \in Client |-> NoCall]
      /\ outcome' = [c \in Client |-> "open"] /\ answer' = [c \in Client |-> NoRow]
      /\ cursor' = [c \in Client |-> NoCursor]
      /\ crashes' = crashes + 1 /\ crashes < MaxCrashes
  BY DEF Crash, SessionCloses
<1>3. DatabaseTypes'
  BY <1>1, <1>2, DatabaseAssumption DEF DatabaseTypes, Working
<1>4. \A c \in Client : /\ at'[c] = "idle" /\ call'[c] = NoCall /\ outcome'[c] = "open"
                        /\ answer'[c] = NoRow /\ cursor'[c] = NoCursor /\ holder' # c
  BY <1>2, DatabaseAssumption
<1>5. Exclusion'
  BY <1>4 DEF Exclusion, Locked, Exclusive
<1>6. Ways'
  BY <1>4 DEF Ways, WayOf, Idle, InTransaction
<1>7. \A c \in Client : Reported(c)'
  BY <1>4 DEF Reported, Working, Preparing
<1>8. SessionState'
  BY <1>1, <1>2, <1>4 DEF SessionState, Sees, VersionMeansTable, Flags, Prepared, Undone, LeftOpen,
     Preparing, InTransaction
<1>9. CursorsPlaced'
  BY <1>4 DEF CursorsPlaced
<1>10. QED BY <1>2, <1>3, <1>5, <1>6, <1>7, <1>8, <1>9 DEF Inv, Places

LEMMA InvInit ==
  ASSUME DatabaseAssumption, Init
  PROVE  Inv
<1>1. /\ db = NoDb /\ holder = NoClient /\ faults = 0 /\ crashes = 0
      /\ at = [c \in Client |-> "idle"] /\ call = [c \in Client |-> NoCall]
      /\ outcome = [c \in Client |-> "open"] /\ answer = [c \in Client |-> NoRow]
      /\ cursor = [c \in Client |-> NoCursor]
  BY DEF Init
<1>2. disk \in FileContents /\ VersionMeansTable
  <2>1. CASE disk = EmptyFile
    BY <2>1, ContentsOfFile DEF VersionMeansTable
  <2>2. CASE disk \in [version : {Version} \cup OtherVersions, table : {TRUE},
                       rows : [Key -> Value \cup {NoRow}]]
    BY <2>2 DEF FileContents, VersionMeansTable
  <2>3. QED BY <2>1, <2>2 DEF Init
<1>3. DatabaseTypes
  BY <1>1, <1>2, DatabaseAssumption DEF DatabaseTypes, Working
<1>4. \A c \in Client : /\ at[c] = "idle" /\ call[c] = NoCall /\ outcome[c] = "open"
                        /\ answer[c] = NoRow /\ cursor[c] = NoCursor /\ holder # c
  BY <1>1, DatabaseAssumption
<1>5. Exclusion
  BY <1>4 DEF Exclusion, Locked, Exclusive
<1>6. Ways
  BY <1>4 DEF Ways, WayOf, Idle, InTransaction
<1>7. \A c \in Client : Reported(c)
  BY <1>4 DEF Reported, Working, Preparing
<1>8. SessionState
  BY <1>1, <1>2, <1>4 DEF SessionState, Sees, VersionMeansTable, Flags, Prepared, Undone, LeftOpen,
     Preparing, InTransaction
<1>9. CursorsPlaced
  BY <1>4 DEF CursorsPlaced
<1>10. QED BY <1>3, <1>5, <1>6, <1>7, <1>8, <1>9 DEF Inv, Places

LEMMA InvNext ==
  ASSUME DatabaseAssumption, RowsAssumption, Inv, [Next]_vars
  PROVE  Inv'
<1>1. ASSUME NEW c \in Client, Running(c) PROVE Inv'
  BY <1>1, OpenStep, MigrateStep, CreateStep, SetVersionStep, CommitVersionStep, OpenFailsStep,
     QueryStep, RefusedStep, BeginStep, ChangeStep, StepFailsStep, CommitStep, EndStep, CloseStep,
     ReturnStep, CloseSessionStep, DeleteFileStep
     DEF Running, Opening, Reading, Changing, Discarding
<1>2. CASE UNCHANGED vars
  BY <1>2 DEF vars, clientVars, bounds, Inv, DatabaseTypes, Places, Exclusion, Ways, WayOf,
     Reported, SessionState, Sees, VersionMeansTable, Flags, Prepared, Undone, LeftOpen,
     CursorsPlaced, Placed,
     Idle, Locked, Exclusive, Op, ReadsOnly, HelperFree, UpToDate
<1>3. QED BY <1>1, <1>2, LockStep, GoingStep, CallStep, CrashStep DEF Next

-----------------------------------------------------------------------------
(* The inductive invariant: one client at a time is inside the database, and *)
(* what its session shows is known at every place and between the calls.     *)
THEOREM DatabaseInvariant == Spec => []Inv
<1>1. Init => Inv
  BY DatabaseAssumption, InvInit
<1>2. Inv /\ [Next]_vars => Inv'
  BY DatabaseAssumption, RowsAssumption, InvNext
<1>3. QED BY <1>1, <1>2, PTL DEF Spec

(* Whatever fails and wherever the process dies: a file at the helper's      *)
(* version has its table, every statement finds an open database of that     *)
(* version and a change its own transaction, and only two failures in one    *)
(* call leave a transaction open behind it.                                  *)
THEOREM DatabaseIsSound == Spec => []DatabaseInv
<1>1. Inv => DatabaseInv
  <2>1. SUFFICES ASSUME Inv PROVE DatabaseInv
    OBVIOUS
  <2>2. TypeOK
    BY <2>1 DEF Inv, DatabaseTypes, Places, Ways, WayOf, TypeOK
  <2>3. VersionHasTable
    BY <2>1, DatabaseAssumption DEF Inv, SessionState, VersionMeansTable, VersionHasTable
  <2>4. StatementsHaveADatabase
    <3>1. SUFFICES ASSUME NEW c \in Client, at[c] \in {"query", "begin"} \cup InTransaction
                   PROVE  /\ db # NoDb /\ db.opened /\ db.sees.table /\ db.sees.version = Version
                          /\ at[c] \in {"change", "commit"} =>
                               db.active /\ \A d \in Client \ {c} : at[d] \notin InTransaction
      BY DEF StatementsHaveADatabase, InTransaction
    <3>2. at[c] \in Inside /\ at[c] \in Working /\ at[c] \notin Preparing
      BY <3>1 DEF Inside, Working, InTransaction, Preparing
    <3>3. SessionAt(c) /\ Alone(c)
      BY <2>1, <3>2, Known
    <3>4. QED BY <3>1, <3>2, <3>3 DEF SessionAt, Sees, Alone, Outside, InTransaction
  <2>5. LeftOpenOnlyAfterTwoFailures
    <3>1. (\A c \in Client : at[c] \notin Working) =>
            \A c \in Client : at[c] \notin InTransaction \cup Preparing
      BY DEF Working, InTransaction, Preparing
    <3>2. QED BY <2>1, <3>1 DEF Inv, SessionState, Flags, Undone, LeftOpen,
              LeftOpenOnlyAfterTwoFailures
  <2>6. QED BY <2>2, <2>3, <2>4, <2>5 DEF DatabaseInv
<1>2. QED BY <1>1, DatabaseInvariant, PTL

(* However a cursor is moved, it is where it says, and goes where it is      *)
(* told, also for offsets at the end of the range of int.                    *)
THEOREM CursorsKeepTheirPlace == Spec => []CursorInv
<1>1. Inv => CursorInv
  <2>1. SUFFICES ASSUME Inv PROVE CursorInv
    OBVIOUS
  <2>2. ASSUME NEW c \in Client, cursor[c] # NoCursor
        PROVE  cursor[c] \in Cursors /\ Placed(cursor[c])
    BY <2>1, <2>2 DEF Inv, DatabaseTypes, CursorsPlaced
  <2>3. ASSUME NEW cur \in Cursors, Placed(cur), Rows!Count(cur) > 0
        PROVE  /\ Rows!GetPosition(cur) < Len(cur.keys)
               /\ Rows!RowAt(cur) = cur.keys[Rows!GetPosition(cur) + 1]
               /\ Rows!IsFirst(cur) <=> Rows!RowAt(cur) = Head(cur.keys)
               /\ Rows!IsLast(cur) <=> Rows!RowAt(cur) = cur.keys[Len(cur.keys)]
    <3>1. /\ cur.keys \in Seq(Key) /\ Len(cur.keys) \in Nat /\ Len(cur.keys) > 0
          /\ cur.row = cur.record /\ cur.row \in 0..(Len(cur.keys) - 1)
          /\ Rows!Count(cur) = Len(cur.keys)
      BY <2>3, LenProperties DEF Cursors, Placed, Rows!Count
    <3>2. \A i, j \in 1..Len(cur.keys) : cur.keys[i] = cur.keys[j] => i = j
      BY <2>3 DEF Placed
    <3>3. Head(cur.keys) = cur.keys[1] /\ Rows!RowAt(cur) = cur.keys[cur.row + 1]
      BY <3>1 DEF Rows!RowAt
    <3>4. cur.row + 1 \in 1..Len(cur.keys) /\ 1 \in 1..Len(cur.keys)
          /\ Len(cur.keys) \in 1..Len(cur.keys)
      BY <3>1
    <3>5. /\ cur.keys[cur.row + 1] = cur.keys[1] <=> cur.row = 0
          /\ cur.keys[cur.row + 1] = cur.keys[Len(cur.keys)] <=> cur.row = Len(cur.keys) - 1
      BY <3>1, <3>2, <3>4
    <3>6. QED BY <3>1, <3>3, <3>5 DEF Rows!GetPosition, Rows!IsFirst, Rows!IsLast
  <2>4. CursorKeepsPlace
    BY <2>2, <2>3 DEF CursorKeepsPlace
  <2>5. ASSUME NEW cur \in Cursors, Placed(cur)
        PROVE  /\ \A p \in 0..Cardinality(Key) : ArrivesAt(p, cur, Rows!MoveToPosition(cur, p))
               /\ \A i \in Rows!Ints : ArrivesAt(cur.row + i, cur, Rows!Move(cur, i))
    <3>1. Len(cur.keys) \in Nat /\ IntMax \in Nat /\ Len(cur.keys) <= IntMax
      <4>1. IsFiniteSet(Key) => Cardinality(Key) \in Nat
        BY FS_CardinalityType
      <4>2. Len(cur.keys) \in Nat
        BY LenProperties DEF Cursors
      <4>3. QED BY <4>1, <4>2, <2>5, DatabaseAssumption, RowsAssumption DEF Placed
    <3>2. \A p \in 0..Cardinality(Key) :
            p \in Nat /\ (p < Len(cur.keys) <=> p \in 0..(Len(cur.keys) - 1))
      BY <3>1
    <3>3. \A i : Arrived(cur, i) = [ok |-> TRUE, cursor |-> [cur EXCEPT !.row = i, !.record = i]]
      BY DEF Arrived, At, Cursors
    <3>4. Rows!Refused(cur) = [ok |-> FALSE, cursor |-> cur]
      BY DEF Rows!Refused
    <3>5. \A p \in 0..Cardinality(Key) : ArrivesAt(p, cur, Rows!MoveToPosition(cur, p))
      BY <2>5, <3>2, <3>3, <3>4, PositionArrives DEF ArrivesAt, Rows!Count
    <3>6. \A i \in Rows!Ints : ArrivesAt(cur.row + i, cur, Rows!Move(cur, i))
      BY <2>5, <3>1, <3>3, <3>4, OffsetArrives DEF ArrivesAt, Rows!Count
    <3>7. QED BY <3>5, <3>6
  <2>6. CursorArrives
    BY <2>1, <2>2, <2>5 DEF CursorArrives, Inv, Places, Ways, WayOf
  <2>7. QED BY <2>4, <2>6 DEF CursorInv
<1>2. QED BY <1>1, DatabaseInvariant, PTL

-----------------------------------------------------------------------------
(* The database is a MetadataStore.  A call takes effect when its query      *)
(* answers or its transaction commits.                                       *)
Said == [c \in Client |-> IF outcome[c] = "ok" THEN answer[c] ELSE NoRow]
Degraded == db # NoDb /\ db.active /\ \A c \in Client : at[c] \notin InTransaction \cup Preparing

LEMMA Stutter ==
  ASSUME disk'.rows = disk.rows, call' = call, outcome' = outcome, Said' = Said,
         Degraded' <=> Degraded
  PROVE  UNCHANGED Store!storeVars
BY DEF Store!storeVars, Said, Degraded

LEMMA Refusal ==
  ASSUME NEW c \in Client, call[c] # NoCall, outcome[c] = "open",
         outcome' = [outcome EXCEPT ![c] = "failed"],
         disk'.rows = disk.rows, call' = call, Said' = Said, Degraded' <=> Degraded
  PROVE  Store!StoreNext
<1>1. Store!Refuse(c)
  BY DEF Store!Refuse, Store!Pending, Said, Degraded
<1>2. QED BY <1>1 DEF Store!StoreNext

LEMMA Effect ==
  ASSUME NEW c \in Client, call[c] # NoCall, outcome[c] = "open", call' = call,
         outcome' = [outcome EXCEPT ![c] = "ok"], Degraded' <=> Degraded,
         disk'.rows = Store!RowsAfter(call[c], disk.rows),
         NEW content \in Contents,
         Degraded => Store!ReadOnly(call[c]),
         ~Degraded => content = disk.rows,
         Said' = [Said EXCEPT ![c] = Store!AnswerFrom(call[c], content)]
  PROVE  Store!StoreNext
<1>1. Store!TakeEffect(c)
  BY DEF Store!TakeEffect, Store!Pending, Said, Degraded, Contents
<1>2. QED BY <1>1 DEF Store!StoreNext

(* Degradation depends on the client inside alone.                           *)
LEMMA DegradedInside ==
  ASSUME NEW c \in Client, Alone(c), \A d \in Client \ {c} : at'[d] = at[d]
  PROVE  /\ Degraded <=> db # NoDb /\ db.active /\ at[c] \notin InTransaction \cup Preparing
         /\ Degraded' <=> db' # NoDb /\ db'.active /\ at'[c] \notin InTransaction \cup Preparing
<1>1. \A d \in Client \ {c} : /\ at[d] \notin InTransaction \cup Preparing
                              /\ at'[d] \notin InTransaction \cup Preparing
  BY DEF Alone, Outside, InTransaction, Preparing
<1>2. QED BY <1>1 DEF Degraded

LEMMA GoesTo ==
  ASSUME Inv, NEW c \in Client, NEW where, Go(c, where)
  PROVE  at'[c] = where /\ \A d \in Client \ {c} : at'[d] = at[d]
BY DEF Inv, DatabaseTypes, Go

LEMMA OpeningRefines ==
  ASSUME DatabaseAssumption, Inv, NEW c \in Client, Opening(c)
  PROVE  [Store!StoreNext]_Store!storeVars
<1>1. /\ at[c] \in {"open"} \cup Preparing /\ at[c] \in Inside /\ at[c] \in Working
      /\ at[c] \notin InTransaction
  BY DEF Opening, Open, Migrate, Create, SetVersion, CommitVersion, OpenFails, Inside, Preparing,
     Working, InTransaction
<1>2. Alone(c) /\ SessionAt(c) /\ Reported(c) /\ call[c] # NoCall /\ (db # NoDb => db \in Session)
  BY <1>1, Known
<1>3. PICK where \in {"return", "query", "begin"} \cup Preparing : Go(c, where)
  BY <1>1, OpenFits DEF Opening, Open, Migrate, Create, ExecSql, SetVersion, CommitVersion,
     OpenFails, Preparing
<1>4. at'[c] = where /\ \A d \in Client \ {c} : at'[d] = at[d]
  BY <1>3, GoesTo
<1>5. /\ Degraded <=> db # NoDb /\ db.active /\ at[c] \notin InTransaction \cup Preparing
      /\ Degraded' <=> db' # NoDb /\ db'.active /\ at'[c] \notin InTransaction \cup Preparing
  BY <1>2, <1>4, DegradedInside
<1>6. CASE Open(c)
  <2>1. UNCHANGED <<disk, call, outcome, answer>>
    BY <1>6 DEF Open, clientVars
  <2>2. \/ db' = db /\ at'[c] \in {"query", "begin"}
        \/ ~IsOpen /\ db' = NewSession
    <3>1. CASE IsOpen
      BY <1>1, <1>6, <3>1, OpenFits, GoesTo DEF Open
    <3>2. CASE ~IsOpen
      BY <1>6, <3>2 DEF Open
    <3>3. QED BY <3>1, <3>2
  <2>3. Degraded' <=> Degraded
    <3>1. CASE db' = db /\ at'[c] \in {"query", "begin"}
      BY <3>1, <1>5, <1>6 DEF Open, InTransaction, Preparing
    <3>2. CASE ~IsOpen /\ db' = NewSession
      <4>1. db # NoDb => ~db.active
        BY <3>2, <1>2 DEF IsOpen, SessionAt, Flags
      <4>2. db'.active = FALSE
        BY <3>2 DEF NewSession
      <4>3. QED BY <4>1, <4>2, <1>5
    <3>3. QED BY <2>2, <3>1, <3>2
  <2>4. QED BY <2>1, <2>3, Stutter DEF Said
<1>7. CASE Migrate(c) \/ Create(c) \/ SetVersion(c) \/ CommitVersion(c)
  <2>1. UNCHANGED <<call, outcome, answer>> /\ at[c] \in Preparing /\ db \in Session
    BY <1>7, <1>2 DEF Migrate, Create, ExecSql, SetVersion, CommitVersion, clientVars, Preparing,
       SessionAt, Sees
  <2>2. disk'.rows = disk.rows
    BY <1>7, CommitVersionStep DEF Migrate, Create, ExecSql, SetVersion
  <2>3. CASE CommitVersion(c)
    <3>1. db'.active = FALSE
      BY <2>1, <2>3 DEF CommitVersion, Session
    <3>2. QED BY <2>1, <2>2, <3>1, <1>5, Stutter DEF Said
  <2>4. CASE Migrate(c) \/ Create(c) \/ SetVersion(c)
    <3>1. at'[c] \in Preparing
      BY <2>4, GoesTo DEF Migrate, Create, SetVersion, ExecSql, Preparing
    <3>2. QED BY <2>1, <2>2, <3>1, <1>5, Stutter DEF Said
  <2>5. QED BY <1>7, <2>3, <2>4
<1>8. CASE OpenFails(c)
  <2>1. /\ outcome' = [outcome EXCEPT ![c] = "failed"] /\ db' = NoDb
        /\ UNCHANGED <<disk, call, answer>> /\ (at[c] = "open" => ~IsOpen)
    BY <1>8 DEF OpenFails, SessionCloses, Fails
  <2>2. ~Degraded /\ ~Degraded'
    BY <1>1, <1>2, <1>5, <2>1 DEF IsOpen, SessionAt, Flags
  <2>3. outcome[c] = "open" /\ outcome \in [Client -> {"open", "ok", "failed"}]
    BY <1>1, <1>2 DEF Reported, Preparing, Inv, DatabaseTypes
  <2>4. Said' = Said
    BY <2>1, <2>3 DEF Said
  <2>5. QED BY <1>2, <2>1, <2>2, <2>3, <2>4, Refusal
<1>9. QED BY <1>6, <1>7, <1>8 DEF Opening

LEMMA ReadingRefines ==
  ASSUME DatabaseAssumption, Inv, NEW c \in Client, Reading(c) \/ BeginFails(c)
  PROVE  Store!StoreNext
<1>1. /\ at[c] \in {"query", "begin"} /\ at[c] \in Inside /\ at[c] \in Working
      /\ at[c] \notin InTransaction \cup Preparing /\ Go(c, "close")
  BY DEF Reading, Query, QueryFails, BeginFails, Inside, Preparing, Working, InTransaction
<1>2. /\ Alone(c) /\ SessionAt(c) /\ Reported(c) /\ call[c] # NoCall /\ call[c] \in Store!Calls
      /\ db \in Session /\ db # NoDb
  BY <1>1, Known DEF SessionAt, Sees
<1>3. at'[c] = "close" /\ \A d \in Client \ {c} : at'[d] = at[d]
  BY <1>1, GoesTo
<1>4. UNCHANGED <<disk, db, call>>
  BY DEF Reading, Query, QueryFails, BeginFails
<1>5. Degraded' <=> Degraded
  BY <1>1, <1>2, <1>3, <1>4, DegradedInside DEF InTransaction, Preparing
<1>6. outcome[c] = "open" /\ outcome \in [Client -> {"open", "ok", "failed"}]
  BY <1>1, <1>2 DEF Reported, Inv, DatabaseTypes, Preparing, InTransaction
<1>7. CASE Query(c)
  <2>1. /\ answer' = [answer EXCEPT ![c] = Results(c)] /\ outcome' = [outcome EXCEPT ![c] = "ok"]
        /\ at[c] = "query"
    BY <1>7 DEF Query
  <2>2. Store!ReadOnly(call[c])
    BY <2>1 DEF Inv, Places, Ways, WayOf, ReadsOnly
  <2>3. db.sees.rows \in Contents /\ disk.rows \in Contents
    BY <1>2, ContentsOfFile DEF Session, Inv, DatabaseTypes
  <2>4. disk'.rows = Store!RowsAfter(call[c], disk.rows)
    BY <1>2, <1>4, <2>2, <2>3, Effects
  <2>5. ~Degraded => db.sees.rows = disk.rows
    <3>1. ~Degraded => ~db.active
      BY <1>1, <1>2, <1>3, DegradedInside
    <3>2. QED BY <3>1, <1>2 DEF SessionAt, Flags
  <2>6. Said' = [Said EXCEPT ![c] = Store!AnswerFrom(call[c], db.sees.rows)]
    BY <1>6, <2>1 DEF Said, Results, Inv, DatabaseTypes
  <2>7. QED BY <1>2, <1>4, <1>5, <1>6, <2>1, <2>2, <2>3, <2>4, <2>5, <2>6, Effect
<1>8. CASE QueryFails(c) \/ BeginFails(c)
  <2>1. outcome' = [outcome EXCEPT ![c] = "failed"] /\ UNCHANGED answer
    BY <1>8 DEF QueryFails, BeginFails, Fails
  <2>2. Said' = Said
    BY <1>6, <2>1 DEF Said
  <2>3. QED BY <1>2, <1>4, <1>5, <1>6, <2>1, <2>2, Refusal
<1>9. QED BY <1>7, <1>8 DEF Reading

LEMMA ChangingRefines ==
  ASSUME DatabaseAssumption, Inv, NEW c \in Client,
         Begin(c) \/ Change(c) \/ StepFails(c) \/ Commit(c) \/ End(c)
  PROVE  [Store!StoreNext]_Store!storeVars
<1>1. /\ at[c] \in {"begin"} \cup InTransaction /\ at[c] \in Inside /\ at[c] \notin Preparing
  BY DEF Begin, Change, StepFails, Commit, End, InTransaction, Inside, Preparing
<1>2. /\ Alone(c) /\ SessionAt(c) /\ Reported(c) /\ call[c] # NoCall /\ call[c] \in Store!Calls
      /\ db \in Session /\ db # NoDb
  BY <1>1, Known, ChangeKnown
<1>3. PICK where \in {"close"} \cup InTransaction :
        /\ Go(c, where)
        /\ Begin(c) => where = "change"
        /\ End(c) <=> where = "close"
  BY DEF Begin, Change, StepFails, Commit, End, InTransaction, Go
<1>4. at'[c] = where /\ \A d \in Client \ {c} : at'[d] = at[d]
  BY <1>3, GoesTo
<1>5. /\ Degraded <=> db # NoDb /\ db.active /\ at[c] \notin InTransaction \cup Preparing
      /\ Degraded' <=> db' # NoDb /\ db'.active /\ at'[c] \notin InTransaction \cup Preparing
  BY <1>2, <1>4, DegradedInside
<1>6. outcome \in [Client -> {"open", "ok", "failed"}]
  BY DEF Inv, DatabaseTypes
<1>7. CASE Begin(c) \/ Change(c)
  <2>1. /\ disk' = disk /\ call' = call /\ outcome' = outcome /\ outcome[c] = "open"
        /\ \A d \in Client \ {c} : answer'[d] = answer[d]
    BY <1>2, <1>7 DEF Begin, Change, clientVars, Reported, Working, Preparing, Inv, DatabaseTypes
  <2>2. Said' = Said
    BY <2>1 DEF Said
  <2>3. ~Degraded /\ ~Degraded'
    BY <1>3, <1>4, <1>5, <1>7 DEF Begin, Change, InTransaction, End
  <2>4. QED BY <2>1, <2>2, <2>3, Stutter
<1>8. CASE StepFails(c)
  <2>1. /\ disk' = disk /\ call' = call /\ outcome[c] = "open"
        /\ outcome' = [outcome EXCEPT ![c] = "failed"]
        /\ \A d \in Client \ {c} : answer'[d] = answer[d]
    BY <1>2, <1>8 DEF StepFails, Fails, Reported, Working, Preparing, Inv, DatabaseTypes
  <2>2. Said' = Said
    BY <1>6, <2>1 DEF Said
  <2>3. ~Degraded /\ ~Degraded'
    BY <1>3, <1>4, <1>5, <1>8 DEF StepFails, InTransaction, End
  <2>4. QED BY <1>2, <2>1, <2>2, <2>3, Refusal
<1>9. CASE Commit(c)
  <2>1. /\ call' = call /\ answer' = answer /\ outcome[c] = "open"
        /\ outcome' = [outcome EXCEPT ![c] = "ok"]
    BY <1>2, <1>9 DEF Commit, Reported, Working, Preparing
  <2>2. /\ disk'.rows = Store!RowsAfter(call[c], disk.rows)
        /\ answer[c] = Store!AnswerFrom(call[c], disk.rows)
    BY <1>9, CommitStep
  <2>3. ~Degraded /\ ~Degraded'
    BY <1>3, <1>4, <1>5, <1>9 DEF Commit, InTransaction, End
  <2>4. disk.rows \in Contents
    BY ContentsOfFile DEF Inv, DatabaseTypes
  <2>5. Said' = [Said EXCEPT ![c] = Store!AnswerFrom(call[c], disk.rows)]
    BY <1>6, <2>1, <2>2 DEF Said
  <2>6. QED BY <1>2, <2>1, <2>2, <2>3, <2>4, <2>5, Effect
<1>10. CASE End(c)
  <2>1. at[c] = "end" /\ where = "close" /\ UNCHANGED <<disk, call, outcome, answer>>
    BY <1>3, <1>10 DEF End, clientVars
  <2>2. ~Degraded /\ Said' = Said
    BY <1>5, <2>1 DEF InTransaction, Said
  <2>3. Degraded' => outcome[c] = "failed"
    BY <1>5, <1>10, EndStep
  <2>4. ~Store!ReadOnly(call[c])
    BY <2>1 DEF Inv, Places, Ways, WayOf, InTransaction, ReadsOnly
  <2>5. CASE Degraded'
    <3>1. Store!Degrade(c)
      BY <1>2, <2>1, <2>2, <2>3, <2>4, <2>5 DEF Store!Degrade, Degraded, Said
    <3>2. QED BY <3>1 DEF Store!StoreNext
  <2>6. CASE ~Degraded'
    BY <2>1, <2>2, <2>6, Stutter
  <2>7. QED BY <2>5, <2>6
<1>11. QED BY <1>7, <1>8, <1>9, <1>10

(* Closing keeps what the session shows; throwing it away ends degradation.  *)
LEMMA ClosingRefines ==
  ASSUME DatabaseAssumption, Inv, NEW c \in Client, Close(c) \/ Discarding(c)
  PROVE  [Store!StoreNext]_Store!storeVars
<1>1. /\ at[c] \in {"close", "drop", "unlink"} /\ at[c] \in Inside /\ at[c] \in Working
      /\ at[c] \notin InTransaction \cup Preparing
  BY DEF Close, Discarding, CloseSession, DeleteFile, DeleteFileFails, Inside, Preparing, Working,
     InTransaction
<1>2. Alone(c) /\ Reported(c) /\ call[c] # NoCall /\ call[c] \in Store!Calls
  BY <1>1, Known
<1>3. outcome \in [Client -> {"open", "ok", "failed"}]
  BY DEF Inv, DatabaseTypes
<1>4. CASE Close(c)
  <2>1. Go(c, "return") /\ UNCHANGED <<disk, call, outcome, answer>>
    BY <1>4 DEF Close, clientVars
  <2>2. at'[c] = "return" /\ \A d \in Client \ {c} : at'[d] = at[d]
    BY <2>1, GoesTo
  <2>3. Degraded' <=> Degraded
    BY <1>1, <1>2, <1>4, <2>2, CloseStep, DegradedInside DEF InTransaction, Preparing
  <2>4. QED BY <2>1, <2>3, Stutter DEF Said
<1>5. CASE CloseSession(c)
  <2>1. UNCHANGED <<disk, call, outcome, answer>> /\ db' = NoDb
    BY <1>5 DEF CloseSession, SessionCloses, clientVars
  <2>2. Store!Restore
    BY <2>1 DEF Store!Restore
  <2>3. QED BY <2>2 DEF Store!StoreNext
<1>6. CASE DeleteFile(c) \/ DeleteFileFails(c)
  <2>1. UNCHANGED <<call, answer>> /\ ~Degraded /\ ~Degraded' /\ outcome[c] = "open"
    BY <1>2, <1>6, DeleteFileStep DEF DeleteFile, DeleteFileFails, Degraded, Reported, Working
  <2>2. call[c].op = "discard" /\ answer[c] = NoRow
    BY <1>6, DeleteFileStep DEF Op
  <2>3. CASE DeleteFile(c)
    <3>1. outcome' = [outcome EXCEPT ![c] = "ok"] /\ disk'.rows = Store!NoRows
      BY <2>3 DEF DeleteFile, EmptyFile
    <3>2. disk'.rows = Store!RowsAfter(call[c], disk.rows)
      BY <2>2, <3>1 DEF Store!RowsAfter
    <3>3. Store!AnswerFrom(call[c], disk.rows) = NoRow
      BY <2>2 DEF Store!AnswerFrom
    <3>4. Said' = [Said EXCEPT ![c] = Store!AnswerFrom(call[c], disk.rows)]
      BY <1>3, <2>1, <2>2, <3>1, <3>3 DEF Said
    <3>5. disk.rows \in Contents
      BY ContentsOfFile DEF Inv, DatabaseTypes
    <3>6. QED BY <1>2, <2>1, <3>1, <3>2, <3>4, <3>5, Effect
  <2>4. CASE DeleteFileFails(c)
    <3>1. outcome' = [outcome EXCEPT ![c] = "failed"] /\ disk' = disk
      BY <2>4 DEF DeleteFileFails, Fails
    <3>2. Said' = Said
      BY <1>3, <2>1, <3>1 DEF Said
    <3>3. QED BY <1>2, <2>1, <3>1, <3>2, Refusal
  <2>5. QED BY <1>6, <2>3, <2>4
<1>7. QED BY <1>4, <1>5, <1>6 DEF Discarding

(* A call comes and goes without touching what is in the store.              *)
LEMMA QuietDegraded ==
  ASSUME NEW c \in Client, db' = db, at[c] \in Quiet, at'[c] \in Quiet,
         \A d \in Client \ {c} : at'[d] = at[d]
  PROVE  Degraded' <=> Degraded
<1>1. Quiet \cap (Preparing \cup InTransaction) = {}
  BY DEF Quiet, Preparing, InTransaction
<1>2. \A d \in Client :
        at'[d] \in InTransaction \cup Preparing <=> at[d] \in InTransaction \cup Preparing
  BY <1>1
<1>3. QED BY <1>2 DEF Degraded

LEMMA ComingAndGoingRefines ==
  ASSUME DatabaseAssumption, RowsAssumption, Inv, NEW c \in Client,
         Lock(c) \/ Return(c) \/ Going(c) \/ \E q \in Store!Calls : Call(c, q)
  PROVE  [Store!StoreNext]_Store!storeVars
<1>1. /\ outcome \in [Client -> {"open", "ok", "failed"}] /\ WayOf(c) /\ Reported(c)
      /\ call \in [Client -> Store!Calls \cup {NoCall}]
      /\ at \in [Client -> Working \cup {"idle", "return", "rows"}]
  BY DEF Inv, DatabaseTypes, Places, Ways, WayOf
<1>2. CASE Lock(c)
  <2>1. Go(c, "open") /\ UNCHANGED <<disk, db, call, outcome, answer>> /\ at[c] = "lock"
    BY <1>2 DEF Lock, clientVars
  <2>2. Degraded' <=> Degraded
    BY <2>1, GoesTo, QuietDegraded DEF Quiet
  <2>3. QED BY <2>1, <2>2, Stutter DEF Said
<1>3. CASE Going(c)
  <2>1. Degraded' <=> Degraded
    BY <1>3, GoingStep, QuietDegraded DEF Quiet
  <2>2. QED BY <1>3, <2>1, GoingStep, Stutter DEF Said
<1>4. CASE Return(c)
  <2>1. /\ at[c] = "return" /\ UNCHANGED <<disk, db, outcome, answer>>
        /\ call' = [call EXCEPT ![c] = NoCall]
        /\ Go(c, IF Fetched(c) \/ cursor[c] # NoCursor THEN "rows" ELSE "idle")
    BY <1>4 DEF Return
  <2>2. at'[c] \in {"rows", "idle"} /\ \A d \in Client \ {c} : at'[d] = at[d]
    BY <2>1, GoesTo
  <2>3. Degraded' <=> Degraded
    BY <2>1, <2>2, QuietDegraded DEF Quiet
  <2>4. call[c] # NoCall /\ outcome[c] # "open"
    BY <1>1, <2>1 DEF WayOf, Idle, Reported
  <2>5. Store!Finish(c)
    BY <2>1, <2>3, <2>4 DEF Store!Finish, Said, Degraded
  <2>6. QED BY <2>5 DEF Store!StoreNext
<1>5. ASSUME NEW q \in Store!Calls, Call(c, q) PROVE Store!StoreNext
  <2>1. /\ at[c] \in {"idle", "rows"} /\ UNCHANGED <<disk, db>>
        /\ call' = [call EXCEPT ![c] = q] /\ outcome' = [outcome EXCEPT ![c] = "open"]
        /\ answer' = [answer EXCEPT ![c] = NoRow]
        /\ Go(c, CASE q.op = "discard" -> "drop"
                   [] q.op \in {"list", "walk"} -> "open"
                   [] OTHER -> "lock")
    BY <1>5 DEF Call, Idle
  <2>2. at'[c] \in {"drop", "open", "lock"} /\ \A d \in Client \ {c} : at'[d] = at[d]
    BY <2>1, GoesTo
  <2>3. Degraded' <=> Degraded
    BY <2>1, <2>2, QuietDegraded DEF Quiet
  <2>4. call[c] = NoCall
    BY <1>1, <2>1 DEF WayOf, Idle
  <2>5. Said' = [Said EXCEPT ![c] = NoRow]
    <3>1. /\ outcome'[c] = "open"
          /\ \A d \in Client \ {c} : outcome'[d] = outcome[d] /\ answer'[d] = answer[d]
      BY <1>1, <2>1 DEF Inv, DatabaseTypes
    <3>2. QED BY <3>1 DEF Said
  <2>6. Store!Start(c)
    BY <2>1, <2>3, <2>4, <2>5 DEF Store!Start, Said, Degraded
  <2>7. QED BY <2>6 DEF Store!StoreNext
<1>6. QED BY <1>2, <1>3, <1>4, <1>5

(* The process dies: calls are lost, rows are not.                           *)
LEMMA CrashRefines ==
  ASSUME DatabaseAssumption, Inv, Crash
  PROVE  Store!StoreNext
<1>1. /\ db' = NoDb /\ disk' = disk /\ call' = [c \in Client |-> NoCall]
      /\ outcome' = [c \in Client |-> "open"]
  BY DEF Crash, SessionCloses
<1>2. Said' = [c \in Client |-> NoRow] /\ ~Degraded'
  BY <1>1 DEF Said, Degraded
<1>3. Store!Die
  BY <1>1, <1>2 DEF Store!Die, Said, Degraded
<1>4. QED BY <1>3 DEF Store!StoreNext

(* HttpCacheDatabase keeps the promise of MetadataStore: a call that reports *)
(* success has taken effect in the file at one instant, one that reports     *)
(* failure has changed nothing, and what is read is what was committed,      *)
(* under every failure and every death of the process, until a change could  *)
(* not be undone.                                                            *)
THEOREM DatabaseIsAStore == Spec => StoreSpec
<1>1. Init => Store!StoreInit
  <2>1. SUFFICES ASSUME Init PROVE Store!StoreInit
    OBVIOUS
  <2>2. disk.rows \in Contents
    BY <2>1, DatabaseAssumption, InvInit, ContentsOfFile DEF Inv, DatabaseTypes
  <2>3. Said = [c \in Client |-> NoRow] /\ ~Degraded
    BY <2>1 DEF Init, Said, Degraded
  <2>4. QED BY <2>1, <2>2, <2>3 DEF Init, Store!StoreInit, Said, Degraded, Contents
<1>2. ASSUME Inv, [Next]_vars
      PROVE  [Store!StoreNext]_Store!storeVars
  <2>1. ASSUME NEW c \in Client, Running(c)
        PROVE  [Store!StoreNext]_Store!storeVars
    BY <1>2, <2>1, DatabaseAssumption, RowsAssumption, OpeningRefines, ReadingRefines,
       ChangingRefines, ClosingRefines, ComingAndGoingRefines DEF Running, Changing
  <2>2. CASE UNCHANGED vars
    BY <2>2 DEF vars, clientVars, Store!storeVars
  <2>3. QED BY <1>2, <2>1, <2>2, DatabaseAssumption, RowsAssumption, ComingAndGoingRefines,
            CrashRefines DEF Next
<1>3. QED BY <1>1, <1>2, DatabaseInvariant, PTL DEF Spec, StoreSpec, Store!StoreSpec
=============================================================================
