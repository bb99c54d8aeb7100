--------------------------- MODULE CachedExchange ---------------------------
(***************************************************************************)
(* Engines that exchange requests for one URL through the cache            *)
(* (HttpEngine::execute, HttpCacheInternal, CacheManager).  A response is  *)
(* its version: the origin server moves from one to the next when a        *)
(* request modifies the resource.  The cache is reduced to the entry of    *)
(* the URL: the mutex of CacheManager makes each call of it one step.      *)
(* HttpFileCache models what happens inside such a call, HttpEngine the    *)
(* exchange with the network, CachingStream the stream of a response, and  *)
(* CacheStrategy the decisions left open here.                             *)
(***************************************************************************)
EXTENDS Naturals, FiniteSets

CONSTANTS
  Engine,
  MaxVersion,  \* versions the resource goes through
  NoEntry

Version == 1..MaxVersion

(* What the cache stores for the URL, and what an engine sees of it when it  *)
(* looks: the version the headers are of, the one the body is of, and for    *)
(* the properties when it was stored and whether the two may differ.         *)
EntryType == [head : Version, body : Version, excused : BOOLEAN, epoch : Nat]
MetadataType == [head : Version, excused : BOOLEAN, epoch : Nat]

ASSUME ExchangeAssumption ==
  /\ MaxVersion \in Nat \ {0}
  /\ IsFiniteSet(Engine)
  /\ NoEntry \notin EntryType /\ NoEntry \notin MetadataType

VARIABLES
  origin,   \* the version the server has
  pc,       \* where an engine is
  snap,     \* m_pCacheResponse: the metadata it read before the request
  net,      \* the version of its network response
  stream,   \* the stream of a network response the user has open
  entry,    \* the entry of the URL: metadata and body file
  pins,     \* HttpCacheInfo::m_dataRefCount
  reserved, \* HttpCacheInfo::m_reservedRemove
  reads,    \* the version of the body file that the engine's response reads
  evicting, \* evictAll has yet to remove the temporary directory
  raced,    \* history: engines whose entry was replaced since they looked at it
  removals, \* history: removals done or reserved so far
  orphaned  \* history: evictAll discarded the entry of a response being read

engineVars == <<pc, snap, net>>
cacheVars == <<entry, pins, reserved, raced>>
userVars == <<stream, reads>>
vars == <<origin, engineVars, userVars, cacheVars, evicting, removals, orphaned>>

Init ==
  /\ origin = 1
  /\ pc = [e \in Engine |-> "idle"] /\ snap = [e \in Engine |-> NoEntry]
  /\ net = [e \in Engine |-> 0] /\ stream = [e \in Engine |-> "none"]
  /\ entry = NoEntry /\ pins = 0 /\ reserved = FALSE /\ raced = {}
  /\ reads = [e \in Engine |-> 0] /\ evicting = FALSE
  /\ removals = 0 /\ orphaned = FALSE

Goto(e, p) == pc' = [pc EXCEPT ![e] = p]

(* The user is done with the last response of this engine.                   *)
Unused(e) == pc[e] = "idle" /\ stream[e] = "none" /\ reads[e] = 0

-----------------------------------------------------------------------------
(* checkCacheBeforeSendRequest.  getMetadata finds nothing in an entry whose *)
(* removal is reserved.                                                      *)
Available == entry # NoEntry /\ ~reserved
Metadata == [head |-> entry.head, excused |-> entry.excused, epoch |-> entry.epoch]

Begin(e, p, found) ==
  /\ Unused(e)
  /\ Goto(e, p)
  /\ snap' = [snap EXCEPT ![e] = found]
  /\ UNCHANGED <<origin, net, userVars, cacheVars, evicting, removals, orphaned>>

(* Not available to the cache, or no usable entry, or one that gives no      *)
(* condition: the request goes out as it is.  (With only-if-cached the user  *)
(* gets a 504 instead, and nothing changes.)                                 *)
BeginWithoutCache(e) == Begin(e, "request", NoEntry)
BeginFresh(e) == Available /\ Begin(e, "body", Metadata)
BeginStale(e) == Available /\ Begin(e, "request", Metadata)
(* POST, PUT, PATCH or DELETE.                                               *)
BeginUnsafe(e) == Begin(e, "modify", NoEntry)

-----------------------------------------------------------------------------
(* The rest of execute().  Back in the executor, an engine does not use what *)
(* it looked at again.                                                       *)
Done(e) ==
  /\ Goto(e, "idle")
  /\ snap' = [snap EXCEPT ![e] = NoEntry]
  /\ raced' = raced \ {e}

(* isValidCacheResponse: 304, or an older Last-Modified than the stored one. *)
IsValidated_Newer(e, v, code) ==
  snap[e] # NoEntry /\ (code = 304 \/ v > snap[e].head)

IsValidated(e, v, code) ==
  snap[e] # NoEntry /\ (code = 304 \/ v < snap[e].head)

(* The server validates its present version; an older one may come from a    *)
(* cache on the way.  What is not cacheable goes to the user without caching.*)
ReceiveResponse(e) ==
  /\ pc[e] = "request"
  /\ \E v \in 1..origin, code \in {200, 304} :
       /\ code = 304 => snap[e] # NoEntry /\ v = origin /\ v = snap[e].head
       /\ net' = [net EXCEPT ![e] = v]
       /\ IF IsValidated(e, v, code)
          THEN Goto(e, "update") /\ UNCHANGED <<snap, raced, stream>>
          ELSE Done(e) /\ \E k \in {"caching", "plain"} : stream' = [stream EXCEPT ![e] = k]
  /\ UNCHANGED <<origin, entry, pins, reserved, reads, evicting, removals, orphaned>>

ExchangeFails(e) ==
  /\ pc[e] \in {"request", "modify"}
  /\ Done(e)
  /\ UNCHANGED <<origin, net, userVars, entry, pins, reserved, evicting, removals, orphaned>>

(* updateCache: getMetadata, and putMetadata with the combined headers.  Each*)
(* may fail, which nobody but the log hears of.                              *)
ReadMetadata(e) ==
  /\ pc[e] = "update"
  /\ \E p \in {"body"} \cup (IF Available THEN {"write"} ELSE {}) : Goto(e, p)
  /\ UNCHANGED <<origin, snap, net, userVars, cacheVars, evicting, removals, orphaned>>

Older(e) == net[e] # 0 /\ net[e] < snap[e].head
Excused(e) == e \in raced \/ Older(e) \/ snap[e].excused

PutMetadata_Recreates(e) ==  \* puts the entry it read back
  IF ~reserved /\ pins = 0
  THEN entry' = [head |-> net[e], body |-> snap[e].head, epoch |-> snap[e].epoch, excused |-> TRUE]
  ELSE UNCHANGED entry

PutMetadata(e) ==
  IF Available /\ pins = 0
  THEN entry' = [entry EXCEPT !.head = net[e], !.excused = @ \/ Excused(e)]
  ELSE UNCHANGED entry

WriteMetadata(e) ==
  /\ pc[e] = "write"
  /\ PutMetadata(e) \/ UNCHANGED entry
  /\ Goto(e, "body")
  /\ UNCHANGED <<origin, snap, net, userVars, pins, reserved, raced, evicting, removals, orphaned>>

(* createResponseBodyFromCache: getData, or "Maybe cache is broken" when the *)
(* entry has gone or getData fails.                                          *)
GetBody(e) ==
  /\ pc[e] = "body" /\ Available
  /\ pins' = pins + 1 /\ reads' = [reads EXCEPT ![e] = entry.body]
  /\ net' = [net EXCEPT ![e] = 0]
  /\ Done(e)
  /\ UNCHANGED <<origin, stream, entry, reserved, evicting, removals, orphaned>>

BodyIsGone(e) ==
  /\ pc[e] = "body"
  /\ net' = [net EXCEPT ![e] = 0]
  /\ Done(e)
  /\ UNCHANGED <<origin, userVars, entry, pins, reserved, evicting, removals, orphaned>>

(* The server applies a request; only a successful response invalidates.     *)
Modify(e) ==
  /\ pc[e] = "modify" /\ origin < MaxVersion
  /\ origin' = origin + 1
  /\ \E p \in {"idle", "invalidate"} : Goto(e, p)
  /\ UNCHANGED <<snap, net, userVars, cacheVars, evicting, removals, orphaned>>

(* The entry is no longer there, or no longer the one engines looked at.     *)
Replace(new) ==
  /\ entry' = new
  /\ raced' = raced \cup {e \in Engine : snap[e] # NoEntry}

(* An entry that is being read stays until its last reader closes.           *)
RemoveEntry ==
  IF pins > 0
  THEN reserved' = TRUE /\ UNCHANGED <<entry, raced>>
  ELSE Replace(NoEntry) /\ UNCHANGED reserved

(* HttpCacheInternal::remove ignores that the cache could not remove it.     *)
RemoveFromCache(e) ==
  /\ pc[e] = "invalidate"
  /\ \/ RemoveEntry /\ removals' = removals + 1
     \/ UNCHANGED <<entry, raced, reserved, removals>>
  /\ Goto(e, "idle")
  /\ UNCHANGED <<origin, snap, net, userVars, pins, evicting, orphaned>>

-----------------------------------------------------------------------------
(* releaseData of the cache, for whatever entry it has by now.               *)
ReleaseData ==
  IF entry = NoEntry \/ pins = 0 THEN UNCHANGED cacheVars
  ELSE /\ pins' = pins - 1
       /\ IF pins = 1 /\ reserved
          THEN Replace(NoEntry) /\ reserved' = FALSE
          ELSE UNCHANGED <<entry, reserved, raced>>

(* ResponseBodyStreamFromCache::close, once.                                 *)
CloseFromCache(e) ==
  /\ reads[e] # 0
  /\ reads' = [reads EXCEPT ![e] = 0]
  /\ ReleaseData
  /\ orphaned' = (orphaned /\ \E d \in Engine : reads'[d] # 0)
  /\ UNCHANGED <<origin, engineVars, stream, evicting, removals>>

NewEntry(e) == [head |-> net[e], body |-> net[e], epoch |-> removals, excused |-> FALSE]

PutCache_IgnoresReaders(e) ==
  IF reserved THEN UNCHANGED cacheVars
  ELSE /\ \E new \in {NoEntry, NewEntry(e)} : Replace(new)
       /\ UNCHANGED <<pins, reserved>>

(* put: refused while the old body is read; then the old entry goes, and the *)
(* new one may find no space, or no temporary file to move.                  *)
PutCache(e) ==
  IF reserved \/ pins > 0 THEN UNCHANGED cacheVars
  ELSE /\ \E new \in {NoEntry} \cup (IF stream[e] = "caching" THEN {NewEntry(e)} ELSE {}) :
            Replace(new)
       /\ UNCHANGED <<pins, reserved>>

(* The stream of a network response is closed, and offers its file to the    *)
(* cache if that is valid (CachingStream).                                   *)
CloseStream(e) ==
  /\ stream[e] # "none"
  /\ stream' = [stream EXCEPT ![e] = "none"] /\ net' = [net EXCEPT ![e] = 0]
  /\ (stream[e] # "plain" /\ PutCache(e)) \/ UNCHANGED cacheVars
  /\ UNCHANGED <<origin, pc, snap, reads, evicting, removals, orphaned>>

(* The space is needed for another URL.                                      *)
Evict ==
  /\ entry # NoEntry /\ pins = 0
  /\ Replace(NoEntry)
  /\ UNCHANGED <<origin, engineVars, userVars, pins, reserved, evicting, removals, orphaned>>

(* HttpCacheInternal::evictAll: purge(true), then the temporary directory    *)
(* with the files of the streams that have made theirs.                      *)
EvictAll ==
  /\ ~evicting
  /\ evicting' = TRUE
  /\ Replace(NoEntry)
  /\ pins' = 0 /\ reserved' = FALSE
  /\ orphaned' = (\E e \in Engine : reads[e] # 0)
  /\ UNCHANGED <<origin, engineVars, userVars, removals>>

Unlinkable == {e \in Engine : stream[e] = "caching"}

RemoveTempDirectory ==
  /\ evicting
  /\ evicting' = FALSE
  /\ \E gone \in SUBSET Unlinkable :
       stream' = [e \in Engine |-> IF e \in gone THEN "unlinked" ELSE stream[e]]
  /\ UNCHANGED <<origin, engineVars, cacheVars, reads, removals, orphaned>>

-----------------------------------------------------------------------------
Beginning(e) == \/ BeginWithoutCache(e) \/ BeginFresh(e) \/ BeginStale(e) \/ BeginUnsafe(e)
Exchanging(e) == \/ ReceiveResponse(e) \/ ExchangeFails(e) \/ ReadMetadata(e) \/ WriteMetadata(e)
                 \/ GetBody(e) \/ BodyIsGone(e) \/ Modify(e) \/ RemoveFromCache(e)

Next == \/ \E e \in Engine : \/ Beginning(e) \/ Exchanging(e)
                             \/ CloseStream(e) \/ CloseFromCache(e)
        \/ Evict \/ EvictAll \/ RemoveTempDirectory

Spec == Init /\ [][Next]_vars

-----------------------------------------------------------------------------
TypeOK ==
  /\ origin \in Version
  /\ pc \in [Engine -> {"idle", "request", "update", "write", "body", "modify", "invalidate"}]
  /\ snap \in [Engine -> MetadataType \cup {NoEntry}]
  /\ net \in [Engine -> 0..MaxVersion] /\ reads \in [Engine -> 0..MaxVersion]
  /\ stream \in [Engine -> {"none", "caching", "plain", "unlinked"}]
  /\ entry \in EntryType \cup {NoEntry}
  /\ pins \in 0..Cardinality(Engine)
  /\ reserved \in BOOLEAN /\ evicting \in BOOLEAN /\ orphaned \in BOOLEAN
  /\ raced \subseteq Engine /\ removals \in 0..MaxVersion - 1

(* The headers of one response are paired with the body of another, in the   *)
(* cache or in what a user is given, only if another engine replaced the     *)
(* entry between two calls of one engine to the cache, or an older response  *)
(* was taken for a validation of the stored one.                             *)
HeadersMatchBody ==
  /\ entry # NoEntry /\ entry.head # entry.body => entry.excused
  /\ \A e \in Engine :
       pc[e] = "body" /\ Available =>
         (IF net[e] = 0 THEN snap[e].head ELSE net[e]) = entry.body \/ Excused(e)

(* An entry stored before the last removal by a response that invalidates it *)
(* is gone, or waits, unseen, for its last reader: a revalidation under way  *)
(* does not bring it back.  (A removal that fails leaves the entry as it is.)*)
RemovedStaysRemoved == entry # NoEntry /\ entry.epoch < removals => reserved

(* The reference count of the entry is the number of responses that read its *)
(* file; only evictAll, which waits for nobody, upsets it.                   *)
Readers == {e \in Engine : reads[e] # 0}
PinsAreReaders ==
  pins <= Cardinality(Readers) /\ (~orphaned => pins = Cardinality(Readers))

(* Nobody's file is replaced or removed while it is read, except by          *)
(* evictAll.                                                                 *)
ReadersKeepTheirBody ==
  ~orphaned => \A e \in Readers : entry # NoEntry /\ entry.body = reads[e]

(* What the entry owes its readers.                                          *)
ReadersInv == TypeOK /\ PinsAreReaders /\ ReadersKeepTheirBody
=============================================================================
