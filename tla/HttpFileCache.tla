--------------------------- MODULE HttpFileCache ---------------------------
(***************************************************************************)
(* The file cache (HttpFileCache.cpp) with its least-recently-used index   *)
(* (HttpLruCacheStrategy.cpp, LruCacheByDataSizeStrategy.cpp), the rows of *)
(* its database (HttpCacheDatabase.cpp) and the body files.                *)
(*                                                                         *)
(* Every operation runs under m_instanceMutex, so operations do not        *)
(* interleave; but each change of the database or of a file is a step of   *)
(* its own, because it may fail, find the database corrupt, or be the last *)
(* one before the process dies.  An operation that needs several of them   *)
(* holds the mutex (at # "idle") and goes on by itself: first the removals *)
(* it asked for (todo, victim), then the rows it enumerates (rest, cur),   *)
(* then its own next stage (at).                                           *)
(*                                                                         *)
(* A body is the response an entry was made from: its row and its file are *)
(* the metadata and the bytes of the same response when both hold the same *)
(* body.  Whatever only orders rows (lastAccessedAt) is left open.         *)
(***************************************************************************)
EXTENDS Integers, Sequences, FiniteSets, FiniteSetsExt

CONSTANTS
  Key, NoKey,
  Body, NoBody,
  Size,          \* responseBodySize of each body
  MaxSize,       \* m_maxSize
  Stream,        \* ResponseBodyStreamFromCache objects
  NoStream,      \* a stream that is closed, or not opened yet
  Updater,       \* calls of HttpEngine::updateCache
  NoDraft,       \* no metadata read
  MaxFaults,     \* bound: steps on the database or a file that fail
  MaxAccidents   \* bound: crashes, and corruptions of the database

ASSUME CacheAssumption ==
  /\ NoKey \notin Key /\ NoBody \notin Body
  /\ Size \in [Body -> Nat] /\ MaxSize \in Nat
  /\ MaxFaults \in Nat /\ MaxAccidents \in Nat
  /\ IsFiniteSet(Stream)
  /\ NoStream \notin [key : Key, body : Body] /\ NoDraft \notin [key : Key, body : Body]

VARIABLES
  row,          \* the body whose metadata the database has for each key
  file,         \* the body in the file of each key
  initialized,  \* m_cacheInitialized
  lruList,      \* m_lruList, the most recently used key first
  info,         \* HttpCacheInfo of each indexed key
  totalSize,    \* m_totalSize
  at,           \* the stage of the operation that holds the mutex
  call,         \* its arguments, and whether every removal succeeded
  todo,         \* keys it has still to remove
  victim,       \* the key whose row it removed and whose file is next
  rest,         \* enumerated rows it has still to add
  cur,          \* the enumerated key it is making space for
  tried,        \* addOrUpdate has made space for the key it adds
  stream,       \* the key and the body each open stream reads
  draft,        \* the metadata each updateCache has read
  faults, accidents,
  muddled,      \* history: keys that purge or corruption discarded under a reader
  stale         \* history: keys whose row was overwritten with older metadata

disk == <<row, file, stale>>
index == <<lruList, info, totalSize>>
work == <<todo, victim, rest, cur, tried>>
clients == <<stream, draft>>
bounds == <<faults, accidents>>
vars == <<disk, initialized, index, at, call, work, clients, bounds, muddled>>

-----------------------------------------------------------------------------
Indexed == {lruList[i] : i \in DOMAIN lruList}
Position(k) == CHOOSE i \in DOMAIN lruList : lruList[i] = k  \* m_lruListMap

(* erase() and push_front() of the list.                                     *)
Without(k) ==
  IF k \in Indexed
    THEN SubSeq(lruList, 1, Position(k) - 1) \o SubSeq(lruList, Position(k) + 1, Len(lruList))
    ELSE lruList
Front(k) == <<k>> \o Without(k)
Touched(k) == IF k \in Indexed THEN Front(k) ELSE lruList  \* LruCacheByDataSizeStrategy::get

NoInfo == [size |-> 0, refs |-> 0, reserved |-> FALSE]
Available(k) == k \in Indexed /\ ~info[k].reserved
Unused(k) == k \in Indexed /\ info[k].refs = 0

(* The sum of the sizes of the entries in S, counted byte by byte.           *)
Bytes(S) == UNION {{k} \X (1..info[k].size) : k \in S}
TotalOf(S) == Cardinality(Bytes(S))

(* makeSpace: nothing to do, or the shortest tail of the unused entries that *)
(* is large enough (createRemoveLruDataList), or no such tail.               *)
Fits(size) == totalSize + size <= MaxSize
UnusedFrom_Busy(i) == {lruList[j] : j \in i..Len(lruList)}
UnusedFrom(i) == {lruList[j] : j \in {j \in i..Len(lruList) : Unused(lruList[j])}}
Cuts(size) == {i \in DOMAIN lruList : TotalOf(UnusedFrom(i)) >= totalSize + size - MaxSize}
CanMakeSpace(size) == Fits(size) \/ Cuts(size) # {}
Victims(size) == IF Fits(size) THEN {} ELSE UnusedFrom(Max(Cuts(size)))

NoCall == [key |-> NoKey, body |-> NoBody, ok |-> TRUE]
Idle == at = "idle"
Return == at' = "idle" /\ call' = NoCall  \* the mutex is released
NoRemovalPending == todo = {} /\ victim = NoKey
Ready == NoRemovalPending /\ rest = {} /\ cur = NoKey

Init ==
  /\ row = [k \in Key |-> NoBody] /\ file = row
  /\ initialized = FALSE
  /\ lruList = << >> /\ info = [k \in Key |-> NoInfo] /\ totalSize = 0
  /\ Idle /\ call = NoCall
  /\ todo = {} /\ victim = NoKey /\ rest = {} /\ cur = NoKey /\ tried = FALSE
  /\ stream = [r \in Stream |-> NoStream] /\ draft = [u \in Updater |-> NoDraft]
  /\ faults = 0 /\ accidents = 0
  /\ muddled = {} /\ stale = {}

(* A step on the database or on a file fails. *)
Fault == faults < MaxFaults /\ faults' = faults + 1 /\ UNCHANGED accidents
Accident == accidents < MaxAccidents /\ accidents' = accidents + 1

-----------------------------------------------------------------------------
(* Removal of an entry (LruCacheByDataSizeStrategy::remove with onRemove):   *)
(* first the row, then the file, and only then the index.                    *)
Erase(k) ==
  /\ lruList' = Without(k)
  /\ info' = [info EXCEPT ![k] = NoInfo]
  /\ totalSize' = totalSize - info[k].size
  /\ muddled' = IF at = "purged" /\ info[k].refs > 0 THEN muddled \cup {k} ELSE muddled

DeleteRow(k) ==
  /\ victim = NoKey /\ k \in todo
  /\ row[k] # NoBody
  /\ row' = [row EXCEPT ![k] = NoBody]
  /\ stale' = stale \ {k}
  /\ victim' = k /\ todo' = todo \ {k}
  /\ UNCHANGED <<file, initialized, index, at, call, rest, cur, tried, clients, bounds, muddled>>

(* No row was deleted: there is none, or the database reports an error.      *)
DeleteRowFails(k) ==
  /\ victim = NoKey /\ k \in todo
  /\ IF row[k] = NoBody THEN UNCHANGED bounds ELSE Fault
  /\ todo' = todo \ {k}
  /\ call' = [call EXCEPT !.ok = FALSE]
  /\ UNCHANGED <<disk, initialized, index, at, victim, rest, cur, tried, clients, muddled>>

DeleteFile ==
  /\ victim # NoKey
  /\ file' = [file EXCEPT ![victim] = NoBody]
  /\ Erase(victim)
  /\ victim' = NoKey
  /\ UNCHANGED <<row, stale, initialized, at, call, todo, rest, cur, tried, clients, bounds>>

DeleteFileFails ==
  /\ victim # NoKey
  /\ Fault
  /\ call' = [call EXCEPT !.ok = FALSE]
  /\ victim' = NoKey
  /\ UNCHANGED <<disk, initialized, index, at, todo, rest, cur, tried, clients, muddled>>

-----------------------------------------------------------------------------
(* addOrUpdate: makes space once more and enters the key at the front.  What *)
(* makeSpace could not remove stays, and the key is entered all the same.    *)
Grows(k, size) == k \notin Indexed \/ info[k].size < size

Enter(k, size) ==
  /\ lruList' = Front(k)
  /\ info' = [info EXCEPT ![k] = [NoInfo EXCEPT !.size = size]]
  /\ totalSize' = totalSize - info[k].size + size

AddRoom(k, size) == ~Grows(k, size) \/ Fits(size) \/ tried

AddEnters(k, size) ==
  /\ AddRoom(k, size)
  /\ Enter(k, size)
  /\ tried' = FALSE
  /\ UNCHANGED todo

AddMakesSpace(k, size) ==
  /\ ~AddRoom(k, size) /\ Cuts(size) # {}
  /\ todo' = Victims(size) \ {k}
  /\ tried' = TRUE
  /\ UNCHANGED index

AddRefused(k, size) ==
  /\ ~AddRoom(k, size) /\ Cuts(size) = {}
  /\ UNCHANGED <<index, todo, tried>>

(* add and update of the index, with or without the key entered.             *)
AddEnds(k, size) == AddEnters(k, size) \/ AddRefused(k, size)

-----------------------------------------------------------------------------
(* initializeCache, run by the first operation (getSize does nothing else):  *)
(* onEnumerate makes space for every row and adds it.  The flag is seen by   *)
(* others only when the mutex is released, so it is set at once.             *)
StartEnumeration ==
  /\ ~initialized
  /\ initialized' = TRUE
  /\ rest' = {k \in Key : row[k] # NoBody}

GetSize ==
  /\ Idle
  /\ StartEnumeration
  /\ at' = "drain"
  /\ UNCHANGED <<disk, index, call, todo, victim, cur, tried, clients, bounds, muddled>>

EnumerateRow(k) ==
  /\ NoRemovalPending /\ cur = NoKey /\ k \in rest
  /\ rest' = rest \ {k}
  /\ IF CanMakeSpace(Size[row[k]])
       THEN cur' = k /\ todo' = Victims(Size[row[k]])
       ELSE UNCHANGED <<cur, todo>>
  /\ UNCHANGED <<disk, initialized, index, at, call, victim, tried, clients, bounds, muddled>>

EnumerateAdd ==
  /\ NoRemovalPending /\ cur # NoKey
  /\ \/ AddEnds(cur, Size[row[cur]]) /\ cur' = NoKey
     \/ AddMakesSpace(cur, Size[row[cur]]) /\ UNCHANGED cur
  /\ UNCHANGED <<disk, initialized, at, call, victim, rest, clients, bounds, muddled>>

(* The operation has nothing left to do and releases the mutex.              *)
Finish ==
  /\ at = "drain" /\ Ready
  /\ Return
  /\ UNCHANGED <<disk, initialized, index, work, clients, bounds, muddled>>

-----------------------------------------------------------------------------
(* Operations that read.  One that needs the index first runs                *)
(* initializeCache, which here is a GetSize before it: only put does more    *)
(* than fail when that finds the database corrupt.                           *)
UnlessBusy == Idle /\ initialized

(* getMetadata, as HttpEngine::updateCache calls it before putMetadata.      *)
GetMetadata(u, k) ==
  /\ UnlessBusy /\ draft[u] = NoDraft /\ k \in Indexed
  /\ lruList' = Front(k)
  /\ draft' = [draft EXCEPT ![u] =
       IF Available(k) /\ row[k] # NoBody THEN [key |-> k, body |-> row[k]] ELSE NoDraft]
  /\ UNCHANGED <<disk, initialized, info, totalSize, at, call, work, stream, bounds, muddled>>

OpenStream(r, k) ==
  /\ stream' = [stream EXCEPT ![r] = [key |-> k, body |-> file[k]]]
  /\ info' = [info EXCEPT ![k].refs = @ + 1]

(* getData, and get when the metadata is asked for too.                      *)
GetData(r, k, withMetadata) ==
  /\ UnlessBusy /\ stream[r] = NoStream /\ k \in Indexed
  /\ lruList' = Front(k)
  /\ IF Available(k) /\ file[k] # NoBody /\ (withMetadata => row[k] # NoBody)
       THEN OpenStream(r, k)
       ELSE UNCHANGED <<stream, info>>
  /\ UNCHANGED <<disk, initialized, totalSize, at, call, work, draft, bounds, muddled>>

(* ResponseBodyStreamFromCache::close closes the file, then calls            *)
(* releaseData; the last reader removes an entry whose removal is reserved.  *)
OthersRead(r) == \E q \in Stream \ {r} : stream[q] # NoStream /\ stream[q].key = stream[r].key

Released(k) == [info EXCEPT ![k].refs = IF @ = 0 THEN 0 ELSE @ - 1]

LastReaderOfReserved(k) == info[k].reserved /\ info[k].refs = 1

ReleaseData(r) ==
  /\ Idle /\ stream[r] # NoStream
  /\ LET k == stream[r].key IN
     /\ lruList' = Touched(k)
     /\ info' = Released(k)
     /\ IF LastReaderOfReserved(k)
          THEN todo' = {k} /\ at' = "drain"
          ELSE UNCHANGED <<todo, at>>
     /\ muddled' = IF OthersRead(r) THEN muddled ELSE muddled \ {k}
  /\ stream' = [stream EXCEPT ![r] = NoStream]
  /\ UNCHANGED <<disk, initialized, totalSize, call, victim, rest, cur, tried, draft, bounds>>

-----------------------------------------------------------------------------
(* Operations that change entries.                                           *)
PutMetadata(u) ==
  /\ UnlessBusy /\ draft[u] # NoDraft
  /\ LET k == draft[u].key  old == draft[u].body IN
     /\ lruList' = Touched(k)
     /\ IF Available(k) /\ info[k].refs = 0
          THEN \/ /\ row' = [row EXCEPT ![k] = old]
                  /\ stale' = IF row[k] = old THEN stale ELSE stale \cup {k}
                  /\ UNCHANGED bounds
               \/ Fault /\ UNCHANGED <<row, stale>>
          ELSE UNCHANGED <<row, stale, bounds>>
  /\ draft' = [draft EXCEPT ![u] = NoDraft]
  /\ UNCHANGED <<file, initialized, info, totalSize, at, call, work, stream, muddled>>

ReserveRemove(k) ==
  /\ UnlessBusy /\ Available(k) /\ info[k].refs > 0
  /\ info' = [info EXCEPT ![k].reserved = TRUE]
  /\ lruList' = Front(k)
  /\ UNCHANGED <<disk, initialized, totalSize, at, call, work, clients, bounds, muddled>>

Remove(k) ==
  /\ UnlessBusy /\ Unused(k)
  /\ todo' = {k} /\ at' = "drain"
  /\ UNCHANGED <<disk, initialized, index, call, victim, rest, cur, tried, clients, bounds, muddled>>

(* purge: evictAll passes mayDeleteIfBusy = TRUE.                            *)
RemoveList(mayDeleteIfBusy) == {k \in Indexed : mayDeleteIfBusy \/ Unused(k)}

Purge(mayDeleteIfBusy) ==
  /\ UnlessBusy
  /\ todo' = RemoveList(mayDeleteIfBusy)
  /\ call' = [NoCall EXCEPT !.ok = todo' = Indexed]
  /\ at' = "purged"
  /\ UNCHANGED <<disk, initialized, index, victim, rest, cur, tried, clients, bounds, muddled>>

(* deleteCacheFile; whether the file is really gone is not looked at.        *)
NoRows_Kept == UNCHANGED <<row, stale>>
NoRows == row' = [k \in Key |-> NoBody] /\ stale' = {}

PurgeDone ==
  /\ at = "purged" /\ Ready
  /\ \/ call.ok /\ NoRows /\ UNCHANGED bounds
     \/ call.ok /\ Fault /\ UNCHANGED <<row, stale>>
     \/ ~call.ok /\ UNCHANGED <<row, stale, bounds>>
  /\ Return
  /\ UNCHANGED <<file, initialized, index, work, clients, muddled>>

-----------------------------------------------------------------------------
(* put: checks the old entry and removes it, makes space, moves the body     *)
(* file into place, writes the row, and enters the key.                      *)
Put(k, b) ==
  /\ Idle
  /\ call' = [key |-> k, body |-> b, ok |-> TRUE]
  /\ at' = "check"
  /\ StartEnumeration \/ (initialized /\ UNCHANGED <<initialized, rest>>)
  /\ UNCHANGED <<disk, index, todo, victim, cur, tried, clients, bounds, muddled>>

Replaceable(k) == k \in Indexed => (Available(k) /\ Unused(k))

PutCheck ==
  /\ at = "check" /\ Ready
  /\ lruList' = Touched(call.key)
  /\ IF Replaceable(call.key)
       THEN /\ todo' = {call.key} \cap Indexed
            /\ at' = "space" /\ UNCHANGED call
       ELSE UNCHANGED todo /\ Return
  /\ UNCHANGED <<disk, initialized, info, totalSize, victim, rest, cur, tried, clients, bounds, muddled>>

PutSpace ==
  /\ at = "space" /\ Ready
  /\ IF CanMakeSpace(Size[call.body])
       THEN todo' = Victims(Size[call.body]) /\ at' = "move" /\ UNCHANGED call
       ELSE UNCHANGED todo /\ Return
  /\ UNCHANGED <<disk, initialized, index, victim, rest, cur, tried, clients, bounds, muddled>>

(* moveFile deletes what is at the destination and renames the temporary     *)
(* file; the rename may succeed where the deletion failed.                   *)
PutClearsFile ==
  /\ at = "move" /\ Ready /\ file[call.key] # NoBody
  /\ file' = [file EXCEPT ![call.key] = NoBody]
  /\ UNCHANGED <<row, stale, initialized, index, at, call, work, clients, bounds, muddled>>

PutMove ==
  /\ at = "move" /\ Ready
  /\ IF file[call.key] = NoBody THEN UNCHANGED bounds ELSE Fault
  /\ file' = [file EXCEPT ![call.key] = call.body]
  /\ at' = "row"
  /\ UNCHANGED <<row, stale, initialized, index, call, work, clients, muddled>>

PutMoveFails ==
  /\ at = "move" /\ Ready
  /\ Fault
  /\ Return
  /\ UNCHANGED <<disk, initialized, index, work, clients, muddled>>

(* The index is enumerated anew when the corruption was found by this put.   *)
PutEnumerates ==
  /\ at = "row" /\ Ready
  /\ StartEnumeration
  /\ UNCHANGED <<disk, index, at, call, todo, victim, cur, tried, clients, bounds, muddled>>

PutRow ==
  /\ at = "row" /\ Ready /\ initialized
  /\ row' = [row EXCEPT ![call.key] = call.body]
  /\ stale' = stale \ {call.key}
  /\ at' = "add"
  /\ UNCHANGED <<file, initialized, index, call, work, clients, bounds, muddled>>

(* The enumeration or the row fails, and with it the file that was moved.    *)
PutRowFails_KeepsFile ==
  /\ at = "row" /\ Ready
  /\ Fault
  /\ Return
  /\ UNCHANGED <<disk, initialized, index, work, clients, muddled>>

PutRowFails ==
  /\ at = "row" /\ Ready
  /\ Fault
  /\ file' = [file EXCEPT ![call.key] = NoBody]
  /\ Return
  /\ UNCHANGED <<row, stale, initialized, index, work, clients, muddled>>

PutRowAndDeleteFail ==
  /\ at = "row" /\ Ready
  /\ faults + 2 <= MaxFaults /\ faults' = faults + 2
  /\ Return
  /\ UNCHANGED <<disk, initialized, index, work, clients, accidents, muddled>>

(* Whether the index took the key is not looked at: put returns true.        *)
PutAdd ==
  /\ at = "add" /\ NoRemovalPending
  /\ \/ AddEnds(call.key, Size[call.body]) /\ Return
     \/ AddMakesSpace(call.key, Size[call.body]) /\ UNCHANGED <<at, call>>
  /\ UNCHANGED <<disk, initialized, victim, rest, cur, clients, bounds, muddled>>

-----------------------------------------------------------------------------
(* A corrupt database (SqlDatabaseCorruptException): deleteCorruptedCacheFile *)
(* forgets the index, deletes the database and then every body file.  put    *)
(* goes on after that if it has not moved its file yet.                      *)
ReadEntries == {k \in Indexed : info[k].refs > 0}

ForgetIndex_KeepsTotal ==
  /\ initialized' = FALSE
  /\ lruList' = << >> /\ info' = [k \in Key |-> NoInfo] /\ UNCHANGED totalSize
  /\ todo' = {} /\ victim' = NoKey /\ rest' = {} /\ cur' = NoKey /\ tried' = FALSE

ForgetIndex ==
  /\ initialized' = FALSE
  /\ lruList' = << >> /\ info' = [k \in Key |-> NoInfo] /\ totalSize' = 0
  /\ todo' = {} /\ victim' = NoKey /\ rest' = {} /\ cur' = NoKey /\ tried' = FALSE

Corrupted ==
  /\ Accident
  /\ ForgetIndex
  /\ muddled' = muddled \cup ReadEntries
  /\ \/ NoRows /\ UNCHANGED faults
     \/ faults < MaxFaults /\ faults' = faults + 1 /\ UNCHANGED <<row, stale>>
  /\ UNCHANGED <<file, clients>>

(* The database is read or written by any operation that begins, by a        *)
(* removal, and by put for the new row.                                      *)
UsesDatabase == Idle \/ (todo # {} /\ victim = NoKey) \/ (at = "row" /\ Ready)

FindCorruption ==
  /\ UsesDatabase /\ at # "add"
  /\ Corrupted
  /\ at' = IF at \in {"check", "space", "move"} THEN "cleanThenMove" ELSE "clean"
  /\ UNCHANGED call

PutFindsCorruption(k, b) ==
  /\ Idle /\ ~initialized
  /\ Corrupted
  /\ call' = [key |-> k, body |-> b, ok |-> TRUE]
  /\ at' = "cleanThenMove"

(* The last update of put is outside its try blocks: the exception leaves    *)
(* put and nothing is discarded.                                             *)
CorruptionEscapes ==
  /\ at = "add" /\ UsesDatabase
  /\ Accident
  /\ Return /\ todo' = {} /\ tried' = FALSE
  /\ UNCHANGED <<disk, initialized, index, victim, rest, cur, clients, faults, muddled>>

CleanFiles ==
  /\ at \in {"clean", "cleanThenMove"}
  /\ \/ file' = [k \in Key |-> NoBody] /\ UNCHANGED bounds
     \/ \E k \in Key : /\ file[k] # NoBody
                       /\ file' = [[j \in Key |-> NoBody] EXCEPT ![k] = file[k]]
                       /\ Fault
  /\ IF at = "clean" THEN Return ELSE at' = "move" /\ UNCHANGED call
  /\ UNCHANGED <<row, stale, initialized, index, work, clients, muddled>>

(* The process dies, with its streams, and a new one finds the same disk.    *)
Crash ==
  /\ Accident
  /\ ForgetIndex
  /\ muddled' = {}
  /\ Return
  /\ stream' = [r \in Stream |-> NoStream] /\ draft' = [u \in Updater |-> NoDraft]
  /\ UNCHANGED <<disk, faults>>

-----------------------------------------------------------------------------
Removing == \/ \E k \in Key : DeleteRow(k) \/ DeleteRowFails(k)
            \/ DeleteFile \/ DeleteFileFails
Enumerating == (\E k \in Key : EnumerateRow(k)) \/ EnumerateAdd
Putting == \/ PutCheck \/ PutSpace \/ PutClearsFile \/ PutMove \/ PutMoveFails
           \/ PutEnumerates \/ PutRow \/ PutRowFails \/ PutRowAndDeleteFail \/ PutAdd
Reading == \/ \E u \in Updater, k \in Key : GetMetadata(u, k)
           \/ \E r \in Stream, k \in Key, w \in BOOLEAN : GetData(r, k, w)
           \/ \E r \in Stream : ReleaseData(r)
Calling == \/ \E u \in Updater : PutMetadata(u)
           \/ \E k \in Key : ReserveRemove(k) \/ Remove(k)
           \/ \E busy \in BOOLEAN : Purge(busy)
           \/ \E k \in Key, b \in Body : Put(k, b)
Failing == \/ FindCorruption \/ CorruptionEscapes \/ CleanFiles \/ Crash
           \/ \E k \in Key, b \in Body : PutFindsCorruption(k, b)

Next == Removing \/ Enumerating \/ Putting \/ Reading \/ Calling \/ Failing
        \/ GetSize \/ PurgeDone \/ Finish

Spec == Init /\ [][Next]_vars

-----------------------------------------------------------------------------
Readers(k) == {r \in Stream : stream[r] # NoStream /\ stream[r].key = k}
NothingFailed == faults = 0

TypeOK ==
  /\ row \in [Key -> Body \cup {NoBody}] /\ file \in [Key -> Body \cup {NoBody}]
  /\ initialized \in BOOLEAN
  /\ \A i, j \in DOMAIN lruList : lruList[i] \in Key /\ (lruList[i] = lruList[j] => i = j)
  /\ info \in [Key -> [size : Nat, refs : Nat, reserved : BOOLEAN]]
  /\ \A k \in Key \ Indexed : info[k] = NoInfo
  /\ totalSize \in Nat
  /\ at \in {"idle", "drain", "purged", "check", "space", "move", "row", "add",
             "clean", "cleanThenMove"}
  /\ call \in [key : Key \cup {NoKey}, body : Body \cup {NoBody}, ok : BOOLEAN]
  /\ todo \subseteq Key /\ victim \in Key \cup {NoKey}
  /\ rest \subseteq Key /\ cur \in Key \cup {NoKey} /\ tried \in BOOLEAN
  /\ stream \in [Stream -> [key : Key, body : Body] \cup {NoStream}]
  /\ draft \in [Updater -> [key : Key, body : Body] \cup {NoDraft}]
  /\ faults \in 0..MaxFaults /\ accidents \in 0..MaxAccidents
  /\ muddled \subseteq Key /\ stale \subseteq Key

(* m_totalSize is the sum of the sizes of the indexed entries, after every   *)
(* add, replacement, failed or partial removal and reset.                    *)
TotalIsSum == totalSize = TotalOf(Indexed)

(* While no step fails, the indexed bodies never exceed m_maxSize: not in    *)
(* the middle of put or of the enumeration, nor after a corruption.          *)
TotalWithinMax == NothingFailed => totalSize <= MaxSize

(* The reference count of an entry is never more than the streams that read  *)
(* its key, and is exactly that unless the entry was discarded under a       *)
(* reader (purge, corruption); so releaseData never leaves an entry pinned.  *)
PinsMatchReaders ==
  \A k \in Key : /\ info[k].refs <= Cardinality(Readers(k))
                 /\ k \notin muddled => info[k].refs = Cardinality(Readers(k))

(* The file of an entry stays what its open streams read: put, remove and    *)
(* eviction wait for the last reader.                                        *)
ReadersKeepTheirBody ==
  \A r \in Stream : (stream[r] # NoStream /\ stream[r].key \notin muddled)
                      => file[stream[r].key] = stream[r].body

(* At every instant, also where the process may die or the database turn out *)
(* corrupt, a row that can be indexed stands for the body that is in the     *)
(* file: the file is there before the row and goes after it.  (Unless        *)
(* updateCache wrote older metadata over the row.)                           *)
Indexable(k) == row[k] # NoBody /\ Size[row[k]] <= MaxSize

RowHasItsBody ==
  NothingFailed => \A k \in Key \ stale : Indexable(k) => file[k] = row[k]

(* Steps that fail may leave a row without its file or a file without its    *)
(* row, but as long as there are at most two of them and no crash, the cache *)
(* never pairs the metadata of one response with the body of another: put    *)
(* deletes the file again when it cannot write the row.                      *)
MixedOnlyAfterThreeFailures ==
  (Idle /\ faults <= 2 /\ accidents = 0) =>
    \A k \in Key \ stale : row[k] # NoBody /\ file[k] # NoBody => row[k] = file[k]

(* Between operations the index holds the rows of the database that fit into *)
(* the cache, with their sizes.                                              *)
IndexIsRows ==
  (Idle /\ initialized /\ NothingFailed) =>
    \A k \in Key : /\ k \in Indexed => row[k] # NoBody
                   /\ Indexable(k) => k \in Indexed
                   /\ (k \in Indexed \ stale) => info[k].size = Size[row[k]]

(* A removal that was reserved because of readers is not forgotten: when the *)
(* last of them has closed, the entry is gone.                               *)
ReservedHasReaders ==
  (Idle /\ NothingFailed) => \A k \in Key : info[k].reserved => info[k].refs > 0

(* The index agrees with its counter, its limit and the rows.                *)
IndexInv == TypeOK /\ TotalIsSum /\ TotalWithinMax /\ IndexIsRows

(* What the cache owes its readers, and what they cannot hold up.            *)
ReadersInv == PinsMatchReaders /\ ReadersKeepTheirBody /\ ReservedHasReaders
=============================================================================
