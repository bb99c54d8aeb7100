------------------------ MODULE CacheFrontEnd_proof -------------------------
(***************************************************************************)
(* Theorems about the front end of the cache: the exchanges of any number  *)
(* of engines through it (CachedExchange), and its decisions over the life *)
(* of an entry (CacheStrategy).                                            *)
(*                                                                         *)
(* HeadersMatchBody speaks of the engines that are about to take the body  *)
(* from the cache; to keep it true, ExchangeInv follows every engine from  *)
(* its first look at the entry: as long as nobody replaced the entry, what *)
(* the engine read is still what the body file is of.  The readers'        *)
(* properties need in addition that reserved and pinned entries exist and  *)
(* that an engine under way reads nothing yet.                             *)
(*                                                                         *)
(* The decisions rest on two facts about an entry that StrategyInv carries *)
(* through answers, validations and the clock: the age it had when the     *)
(* answer came lies between the time the answer took through other caches  *)
(* and the time since the server made it; and the headers kept are those   *)
(* the server has said, unless a line was lost.  With the bounds on clocks *)
(* no unsigned sum of the comparison wraps around, and the comparison of   *)
(* integers that it then is gives the deadline.                            *)
(***************************************************************************)
EXTENDS CachedExchange, CacheStrategy, FiniteSetTheorems, SequenceTheorems, TLAPS

ExchangeTypes ==
  /\ origin \in Version
  /\ pc \in [Engine -> {"idle", "request", "update", "write", "body", "modify", "invalidate"}]
  /\ snap \in [Engine -> MetadataType \cup {NoEntry}]
  /\ net \in [Engine -> 0..MaxVersion] /\ reads \in [Engine -> 0..MaxVersion]
  /\ stream \in [Engine -> {"none", "caching", "plain", "unlinked"}]
  /\ entry \in EntryType \cup {NoEntry}
  /\ pins \in Nat
  /\ reserved \in BOOLEAN /\ evicting \in BOOLEAN /\ orphaned \in BOOLEAN
  /\ raced \subseteq Engine /\ removals \in Nat

(* What an engine holds at each place of execute().                          *)
EngineState(e) ==
  /\ pc[e] # "idle" => reads[e] = 0 /\ stream[e] = "none"
  /\ pc[e] \in {"update", "write", "body"} => snap[e] # NoEntry /\ net[e] <= snap[e].head
  /\ pc[e] \in {"idle", "modify", "invalidate"} => snap[e] = NoEntry
  /\ net[e] # 0 => pc[e] \in {"update", "write", "body"} \/ stream[e] # "none"
  /\ pc[e] \in {"update", "write"} \/ stream[e] # "none" => net[e] # 0

(* The entry an engine looked at is still there, and still has the body the  *)
(* engine read the headers of, unless it was replaced or was mixed before.   *)
LookedAt(e) ==
  snap[e] # NoEntry =>
    \/ e \in raced
    \/ entry # NoEntry /\ (snap[e].head = entry.body \/ snap[e].excused)

EntryState ==
  /\ entry # NoEntry /\ entry.head # entry.body => entry.excused
  /\ entry = NoEntry => pins = 0
  /\ reserved => pins > 0

(* Only a request that moved the server to a new version orders a removal.   *)
Invalidating == {e \in Engine : pc[e] = "invalidate"}
RemovalsOrdered == removals + Cardinality(Invalidating) <= origin - 1

ExchangeInv ==
  /\ ExchangeTypes
  /\ \A e \in Engine : EngineState(e) /\ LookedAt(e)
  /\ EntryState
  /\ PinsAreReaders
  /\ ReadersKeepTheirBody
  /\ RemovedStaysRemoved
  /\ RemovalsOrdered

-----------------------------------------------------------------------------
(* Any set of engines can be counted, and counts change by one.              *)
LEMMA Counting ==
  ASSUME ExchangeAssumption, NEW S \in SUBSET Engine
  PROVE  /\ Cardinality(S) \in Nat
         /\ Cardinality(S) = 0 <=> S = {}
         /\ Cardinality(S) <= Cardinality(Engine)
         /\ \A e \in Engine \ S : Cardinality(S \cup {e}) = Cardinality(S) + 1
         /\ \A e \in S : Cardinality(S \ {e}) = Cardinality(S) - 1
<1>1. IsFiniteSet(S) /\ IsFiniteSet(Engine)
  BY FS_Subset DEF ExchangeAssumption
<1>2. QED BY <1>1, FS_Subset, FS_CardinalityType, FS_EmptySet, FS_AddElement, FS_RemoveElement

LEMMA ExchangeInvInit ==
  ASSUME ExchangeAssumption, Init
  PROVE  ExchangeInv
<1>1. Readers = {} /\ Invalidating = {}
  BY DEF Init, Readers, Invalidating
<1>2. Cardinality(Readers) = 0 /\ Cardinality(Invalidating) = 0
  BY <1>1, FS_EmptySet
<1>3. ExchangeTypes
  <2>1. 1 \in Version /\ 0 \in 0..MaxVersion
    BY DEF ExchangeAssumption, Version
  <2>2. QED BY <2>1 DEF Init, ExchangeTypes
<1>4. PinsAreReaders /\ RemovalsOrdered
  BY <1>2 DEF Init, PinsAreReaders, RemovalsOrdered
<1>5. ReadersKeepTheirBody
  BY <1>1 DEF ReadersKeepTheirBody
<1>6. QED BY <1>3, <1>4, <1>5 DEF Init, ExchangeInv, EngineState, LookedAt, EntryState,
               RemovedStaysRemoved

(* The start of an exchange: nothing found, or the entry's metadata.         *)
LEMMA BeginSteps ==
  ASSUME ExchangeAssumption, ExchangeInv, NEW e \in Engine, Beginning(e)
  PROVE  ExchangeInv'
<1> USE DEF ExchangeInv, Begin, Unused, Goto, engineVars, userVars, cacheVars
<1>1. PICK p \in {"request", "body", "modify"}, found \in MetadataType \cup {NoEntry} :
        /\ Begin(e, p, found)
        /\ p = "body" => found # NoEntry
        /\ p = "modify" => found = NoEntry
        /\ found # NoEntry => Available /\ found = Metadata
  <2>1. Available => Metadata \in MetadataType
    BY DEF Available, Metadata, MetadataType, EntryType, ExchangeTypes
  <2>2. QED BY <2>1 DEF Beginning, BeginWithoutCache, BeginFresh, BeginStale, BeginUnsafe,
                 ExchangeAssumption
<1>2. ExchangeTypes'
  BY <1>1 DEF ExchangeTypes
<1>3. \A f \in Engine : EngineState(f)'
  <2>1. net[e] = 0
    BY <1>1 DEF EngineState
  <2>2. found # NoEntry => 0 <= found.head
    BY DEF MetadataType, Version
  <2>3. QED BY <1>1, <2>1, <2>2 DEF EngineState, ExchangeTypes
<1>4. \A f \in Engine : LookedAt(f)'
  BY <1>1 DEF Available, Metadata, ExchangeTypes, EntryState, LookedAt
<1>5. EntryState' /\ RemovedStaysRemoved'
  BY <1>1 DEF EntryState, RemovedStaysRemoved
<1>6. PinsAreReaders' /\ ReadersKeepTheirBody'
  BY <1>1 DEF Readers, PinsAreReaders, ReadersKeepTheirBody
<1>7. RemovalsOrdered'
  <2>1. Invalidating' = Invalidating
    BY <1>1 DEF ExchangeTypes, Invalidating
  <2>2. QED BY <1>1, <2>1 DEF RemovalsOrdered
<1>8. QED BY <1>2, <1>3, <1>4, <1>5, <1>6, <1>7

(* The exchange with the server, and what the engine then asks of the cache. *)
LEMMA ExchangeSteps ==
  ASSUME ExchangeAssumption, ExchangeInv, NEW e \in Engine,
         \/ ReceiveResponse(e) \/ ExchangeFails(e) \/ ReadMetadata(e) \/ WriteMetadata(e)
         \/ GetBody(e) \/ BodyIsGone(e) \/ Modify(e) \/ RemoveFromCache(e)
  PROVE  ExchangeInv'
<1> USE DEF ExchangeInv, Done, Available, Goto, engineVars, userVars, cacheVars
<1>1. CASE ReceiveResponse(e)
  <2>1. ExchangeTypes'
    BY <1>1 DEF ReceiveResponse, IsValidated, ExchangeTypes, EntryType, MetadataType,
       Version, ExchangeAssumption
  <2>2. \A f \in Engine : EngineState(f)'
    BY <1>1 DEF ReceiveResponse, IsValidated, ExchangeTypes, EngineState, MetadataType,
       Version, ExchangeAssumption
  <2>3. \A f \in Engine : LookedAt(f)'
    BY <1>1 DEF ReceiveResponse, IsValidated, ExchangeTypes, EntryState, EngineState,
       LookedAt
  <2>4. EntryState' /\ RemovedStaysRemoved'
    BY <1>1 DEF ReceiveResponse, IsValidated, ExchangeTypes, EntryState, EngineState,
       RemovedStaysRemoved
  <2>5. PinsAreReaders' /\ ReadersKeepTheirBody'
    <3>1. Readers' = Readers
      BY <1>1 DEF ReceiveResponse, IsValidated, Readers
    <3>2. QED BY <1>1, <3>1 DEF ReceiveResponse, IsValidated, PinsAreReaders,
                 ReadersKeepTheirBody
  <2>6. RemovalsOrdered'
    <3>1. Invalidating' = Invalidating
      BY <1>1 DEF ReceiveResponse, IsValidated, ExchangeTypes, Invalidating
    <3>2. QED BY <1>1, <3>1 DEF ReceiveResponse, IsValidated, RemovalsOrdered
  <2>7. QED BY <2>1, <2>2, <2>3, <2>4, <2>5, <2>6
<1>2. CASE ExchangeFails(e)
  <2>1. ExchangeTypes'
    BY <1>2 DEF ExchangeFails, ExchangeTypes, EntryType, MetadataType, Version, ExchangeAssumption
  <2>2. \A f \in Engine : EngineState(f)'
    BY <1>2 DEF ExchangeFails, ExchangeTypes, EngineState, MetadataType, Version, ExchangeAssumption
  <2>3. \A f \in Engine : LookedAt(f)'
    BY <1>2 DEF ExchangeFails, ExchangeTypes, EntryState, EngineState, LookedAt
  <2>4. EntryState' /\ RemovedStaysRemoved'
    BY <1>2 DEF ExchangeFails, ExchangeTypes, EntryState, EngineState, RemovedStaysRemoved
  <2>5. PinsAreReaders' /\ ReadersKeepTheirBody'
    <3>1. Readers' = Readers
      BY <1>2 DEF ExchangeFails, Readers
    <3>2. QED BY <1>2, <3>1 DEF ExchangeFails, PinsAreReaders, ReadersKeepTheirBody
  <2>6. RemovalsOrdered'
    <3>1. Invalidating' = Invalidating
      BY <1>2 DEF ExchangeFails, ExchangeTypes, Invalidating
    <3>2. QED BY <1>2, <3>1 DEF ExchangeFails, RemovalsOrdered
  <2>7. QED BY <2>1, <2>2, <2>3, <2>4, <2>5, <2>6
<1>3. CASE ReadMetadata(e)
  <2>1. ExchangeTypes'
    BY <1>3 DEF ReadMetadata, ExchangeTypes, EntryType, MetadataType, Version, ExchangeAssumption
  <2>2. \A f \in Engine : EngineState(f)'
    BY <1>3 DEF ReadMetadata, ExchangeTypes, EngineState, MetadataType, Version, ExchangeAssumption
  <2>3. \A f \in Engine : LookedAt(f)'
    BY <1>3 DEF ReadMetadata, ExchangeTypes, EntryState, EngineState, LookedAt
  <2>4. EntryState' /\ RemovedStaysRemoved'
    BY <1>3 DEF ReadMetadata, ExchangeTypes, EntryState, EngineState, RemovedStaysRemoved
  <2>5. PinsAreReaders' /\ ReadersKeepTheirBody'
    <3>1. Readers' = Readers
      BY <1>3 DEF ReadMetadata, Readers
    <3>2. QED BY <1>3, <3>1 DEF ReadMetadata, PinsAreReaders, ReadersKeepTheirBody
  <2>6. RemovalsOrdered'
    <3>1. Invalidating' = Invalidating
      BY <1>3 DEF ReadMetadata, ExchangeTypes, Invalidating
    <3>2. QED BY <1>3, <3>1 DEF ReadMetadata, RemovalsOrdered
  <2>7. QED BY <2>1, <2>2, <2>3, <2>4, <2>5, <2>6
<1>4. CASE WriteMetadata(e)
  <2>1. pc[e] = "write" /\ pc' = [pc EXCEPT ![e] = "body"]
        /\ UNCHANGED <<origin, snap, net, stream, reads, pins, reserved, raced, evicting, removals, orphaned>>
    BY <1>4 DEF WriteMetadata
  <2>2. /\ snap[e] # NoEntry /\ snap[e] \in MetadataType
        /\ net[e] \in Version /\ net[e] <= snap[e].head
    BY <2>1 DEF EngineState, ExchangeTypes, Version
  <2>3. \/ entry' = entry
        \/ /\ entry # NoEntry /\ pins = 0
           /\ entry' \in EntryType /\ entry' # NoEntry
           /\ entry'.head = net[e] /\ entry'.body = entry.body /\ entry'.epoch = entry.epoch
           /\ entry'.excused = (entry.excused \/ Excused(e))
    <3>1. CASE Available /\ pins = 0 /\ entry' # entry
      <4>1. entry' = [entry EXCEPT !.head = net[e], !.excused = @ \/ Excused(e)]
        BY <1>4, <3>1 DEF WriteMetadata, PutMetadata
      <4>2. entry \in EntryType /\ Excused(e) \in BOOLEAN
        BY <2>2, <3>1 DEF ExchangeTypes, Excused, Older, MetadataType
      <4>3. entry' = [head |-> net[e], body |-> entry.body, epoch |-> entry.epoch,
                      excused |-> entry.excused \/ Excused(e)]
        BY <4>1, <4>2 DEF EntryType
      <4>4. entry' \in EntryType
        BY <2>2, <4>2, <4>3 DEF EntryType
      <4>5. QED BY <3>1, <4>3, <4>4 DEF ExchangeAssumption
    <3>2. QED BY <1>4, <3>1 DEF WriteMetadata, PutMetadata
  <2>4. Excused(e) \/ net[e] = entry.body
    BY <2>1, <2>2, <2>3 DEF Excused, Older, LookedAt, MetadataType, Version, ExchangeAssumption
  <2>5. ExchangeTypes'
    BY <2>1, <2>3 DEF ExchangeTypes
  <2>6. \A f \in Engine : EngineState(f)' /\ LookedAt(f)'
    BY <2>1, <2>3 DEF ExchangeTypes, EngineState, LookedAt
  <2>7. EntryState' /\ RemovedStaysRemoved'
    BY <2>1, <2>3, <2>4 DEF EntryState, RemovedStaysRemoved
  <2>8. PinsAreReaders' /\ ReadersKeepTheirBody'
    BY <2>1, <2>3 DEF Readers, PinsAreReaders, ReadersKeepTheirBody
  <2>9. RemovalsOrdered'
    <3>1. Invalidating' = Invalidating
      BY <2>1 DEF ExchangeTypes, Invalidating
    <3>2. QED BY <2>1, <3>1 DEF RemovalsOrdered
  <2>10. QED BY <2>5, <2>6, <2>7, <2>8, <2>9
<1>5. CASE GetBody(e)
  <2>1. ExchangeTypes'
    BY <1>5 DEF GetBody, ExchangeTypes, EntryType, MetadataType, Version, ExchangeAssumption
  <2>2. \A f \in Engine : EngineState(f)'
    BY <1>5 DEF GetBody, ExchangeTypes, EngineState, MetadataType, Version, ExchangeAssumption
  <2>3. \A f \in Engine : LookedAt(f)'
    BY <1>5 DEF GetBody, ExchangeTypes, EntryState, EngineState, LookedAt
  <2>4. EntryState' /\ RemovedStaysRemoved'
    BY <1>5 DEF GetBody, ExchangeTypes, EntryState, EngineState, RemovedStaysRemoved
  <2>5. PinsAreReaders' /\ ReadersKeepTheirBody'
    <3>1. reads[e] = 0 /\ entry.body \in Version /\ entry.body # 0
      BY <1>5 DEF GetBody, EngineState, ExchangeTypes, EntryType, Version
    <3>2. Readers' = Readers \cup {e} /\ e \notin Readers
      BY <1>5, <3>1 DEF GetBody, Readers, ExchangeTypes
    <3>3. Cardinality(Readers') = Cardinality(Readers) + 1 /\ Cardinality(Readers) \in Nat
      BY <3>2, Counting DEF Readers
    <3>4. PinsAreReaders'
      BY <1>5, <3>3 DEF GetBody, PinsAreReaders, ExchangeTypes
    <3>5. ReadersKeepTheirBody'
      BY <1>5, <3>2 DEF GetBody, ReadersKeepTheirBody, ExchangeTypes
    <3>6. QED BY <3>4, <3>5
  <2>6. RemovalsOrdered'
    <3>1. Invalidating' = Invalidating
      BY <1>5 DEF GetBody, ExchangeTypes, Invalidating
    <3>2. QED BY <1>5, <3>1 DEF GetBody, RemovalsOrdered
  <2>7. QED BY <2>1, <2>2, <2>3, <2>4, <2>5, <2>6
<1>6. CASE BodyIsGone(e)
  <2>1. ExchangeTypes'
    BY <1>6 DEF BodyIsGone, ExchangeTypes, EntryType, MetadataType, Version, ExchangeAssumption
  <2>2. \A f \in Engine : EngineState(f)'
    BY <1>6 DEF BodyIsGone, ExchangeTypes, EngineState, MetadataType, Version, ExchangeAssumption
  <2>3. \A f \in Engine : LookedAt(f)'
    BY <1>6 DEF BodyIsGone, ExchangeTypes, EntryState, EngineState, LookedAt
  <2>4. EntryState' /\ RemovedStaysRemoved'
    BY <1>6 DEF BodyIsGone, ExchangeTypes, EntryState, EngineState, RemovedStaysRemoved
  <2>5. PinsAreReaders' /\ ReadersKeepTheirBody'
    <3>1. Readers' = Readers
      BY <1>6 DEF BodyIsGone, Readers
    <3>2. QED BY <1>6, <3>1 DEF BodyIsGone, PinsAreReaders, ReadersKeepTheirBody
  <2>6. RemovalsOrdered'
    <3>1. Invalidating' = Invalidating
      BY <1>6 DEF BodyIsGone, ExchangeTypes, Invalidating
    <3>2. QED BY <1>6, <3>1 DEF BodyIsGone, RemovalsOrdered
  <2>7. QED BY <2>1, <2>2, <2>3, <2>4, <2>5, <2>6
<1>7. CASE Modify(e)
  <2>1. ExchangeTypes'
    BY <1>7 DEF Modify, ExchangeTypes, EntryType, MetadataType, Version, ExchangeAssumption
  <2>2. \A f \in Engine : EngineState(f)'
    BY <1>7 DEF Modify, ExchangeTypes, EngineState, MetadataType, Version, ExchangeAssumption
  <2>3. \A f \in Engine : LookedAt(f)'
    BY <1>7 DEF Modify, ExchangeTypes, EntryState, EngineState, LookedAt
  <2>4. EntryState' /\ RemovedStaysRemoved'
    BY <1>7 DEF Modify, ExchangeTypes, EntryState, EngineState, RemovedStaysRemoved
  <2>5. PinsAreReaders' /\ ReadersKeepTheirBody'
    <3>1. Readers' = Readers
      BY <1>7 DEF Modify, Readers
    <3>2. QED BY <1>7, <3>1 DEF Modify, PinsAreReaders, ReadersKeepTheirBody
  <2>6. RemovalsOrdered'
    <3>1. Invalidating' \in {Invalidating, Invalidating \cup {e}} /\ e \notin Invalidating
      BY <1>7 DEF Modify, ExchangeTypes, Invalidating
    <3>2. Cardinality(Invalidating \cup {e}) = Cardinality(Invalidating) + 1
          /\ Cardinality(Invalidating) \in Nat
      BY <3>1, Counting DEF Invalidating
    <3>3. Cardinality(Invalidating') \in {Cardinality(Invalidating), Cardinality(Invalidating) + 1}
      BY <3>1, <3>2
    <3>4. origin' = origin + 1 /\ removals' = removals /\ origin \in Nat /\ removals \in Nat
      BY <1>7 DEF Modify, ExchangeTypes, Version, ExchangeAssumption
    <3>5. QED BY <3>2, <3>3, <3>4 DEF RemovalsOrdered
  <2>7. QED BY <2>1, <2>2, <2>3, <2>4, <2>5, <2>6
<1>8. CASE RemoveFromCache(e)
  <2>1. ExchangeTypes'
    <3>1. /\ entry' \in {entry, NoEntry} /\ reserved' \in BOOLEAN
          /\ raced' \in {raced, raced \cup {f \in Engine : snap[f] # NoEntry}}
      BY <1>8 DEF RemoveFromCache, RemoveEntry, Replace, ExchangeTypes
    <3>2. /\ pc' = [pc EXCEPT ![e] = "idle"] /\ removals' \in {removals, removals + 1}
          /\ UNCHANGED <<origin, snap, net, userVars, pins, evicting, orphaned>>
      BY <1>8 DEF RemoveFromCache
    <3>3. QED BY <3>1, <3>2 DEF ExchangeTypes
  <2>2. \A f \in Engine : EngineState(f)'
    BY <1>8 DEF RemoveFromCache, RemoveEntry, Replace, ExchangeTypes, EngineState, MetadataType,
       Version, ExchangeAssumption
  <2>3. \A f \in Engine : LookedAt(f)'
    BY <1>8 DEF RemoveFromCache, RemoveEntry, Replace, ExchangeTypes, EntryState, EngineState,
       LookedAt
  <2>4. EntryState' /\ RemovedStaysRemoved'
    BY <1>8 DEF RemoveFromCache, RemoveEntry, Replace, ExchangeTypes, EntryState, EngineState,
       RemovedStaysRemoved
  <2>5. PinsAreReaders' /\ ReadersKeepTheirBody'
    <3>1. Readers' = Readers
      BY <1>8 DEF RemoveFromCache, Readers
    <3>2. pins = 0 /\ ~orphaned => Readers = {}
      BY Counting DEF PinsAreReaders, Readers
    <3>3. QED BY <1>8, <3>1, <3>2 DEF RemoveFromCache, RemoveEntry, Replace, PinsAreReaders,
                   ReadersKeepTheirBody, ExchangeTypes
  <2>6. RemovalsOrdered'
    <3>1. Invalidating' = Invalidating \ {e} /\ e \in Invalidating
      BY <1>8 DEF RemoveFromCache, ExchangeTypes, Invalidating
    <3>2. Cardinality(Invalidating') = Cardinality(Invalidating) - 1 /\ Cardinality(Invalidating) \in Nat
      BY <3>1, Counting DEF Invalidating
    <3>3. QED BY <1>8, <3>2 DEF RemoveFromCache, RemovalsOrdered, ExchangeTypes, Version
  <2>7. QED BY <2>1, <2>2, <2>3, <2>4, <2>5, <2>6
<1>9. QED BY <1>1, <1>2, <1>3, <1>4, <1>5, <1>6, <1>7, <1>8

(* The end of a response read from the cache: the count of readers goes      *)
(* down, and the last reader removes an entry whose removal is reserved.     *)
LEMMA CloseFromCacheStep ==
  ASSUME ExchangeAssumption, ExchangeInv, NEW e \in Engine, CloseFromCache(e)
  PROVE  ExchangeInv'
<1> USE DEF ExchangeInv, engineVars, cacheVars
<1>1. /\ reads[e] # 0 /\ reads' = [reads EXCEPT ![e] = 0]
      /\ orphaned' = (orphaned /\ \E d \in Engine : reads'[d] # 0)
      /\ UNCHANGED <<origin, pc, snap, net, stream, evicting, removals>>
  BY DEF CloseFromCache
<1>2. /\ entry' \in {entry, NoEntry} /\ raced \subseteq raced' /\ raced' \subseteq Engine
      /\ entry' # entry => {f \in Engine : snap[f] # NoEntry} \subseteq raced'
      /\ reserved' \in {reserved, FALSE}
      /\ pins' = IF entry = NoEntry \/ pins = 0 THEN pins ELSE pins - 1
      /\ entry' # entry \/ reserved' # reserved =>
           pins = 1 /\ entry' = NoEntry /\ reserved' = FALSE
      /\ pins = 1 /\ reserved => entry' = NoEntry
  <2>1. CASE entry = NoEntry \/ pins = 0
    <3>1. UNCHANGED cacheVars
      BY <2>1 DEF CloseFromCache, ReleaseData
    <3>2. QED BY <2>1, <3>1 DEF EntryState, ExchangeTypes
  <2>2. CASE ~(entry = NoEntry \/ pins = 0) /\ pins = 1 /\ reserved
    BY <2>2 DEF CloseFromCache, ReleaseData, Replace, ExchangeTypes
  <2>3. CASE ~(entry = NoEntry \/ pins = 0) /\ ~(pins = 1 /\ reserved)
    BY <2>3 DEF CloseFromCache, ReleaseData, ExchangeTypes
  <2>4. QED BY <2>1, <2>2, <2>3
<1>3. Readers' = Readers \ {e} /\ e \in Readers
  BY <1>1 DEF Readers, ExchangeTypes
<1>4. /\ Cardinality(Readers') = Cardinality(Readers) - 1
      /\ Cardinality(Readers) \in Nat /\ Cardinality(Readers) # 0 /\ Cardinality(Readers') \in Nat
      /\ Cardinality(Readers') = 0 <=> Readers' = {}
  BY <1>3, Counting DEF Readers
<1>5. ExchangeTypes'
  <2>1. pins' \in Nat /\ 0 \in 0..MaxVersion /\ orphaned' \in BOOLEAN
    BY <1>1, <1>2 DEF ExchangeTypes, ExchangeAssumption
  <2>2. QED BY <1>1, <1>2, <2>1 DEF ExchangeTypes
<1>6. \A f \in Engine : EngineState(f)' /\ LookedAt(f)'
  BY <1>1, <1>2 DEF ExchangeTypes, EngineState, LookedAt
<1>7. EntryState' /\ RemovedStaysRemoved'
  BY <1>1, <1>2 DEF ExchangeTypes, EntryState, RemovedStaysRemoved
<1>8. PinsAreReaders'
  <2>1. CASE orphaned
    <3>1. ~orphaned' => Cardinality(Readers') = 0
      BY <1>1, <1>4, <2>1 DEF Readers
    <3>2. pins' \in Nat /\ pins \in Nat /\ pins <= Cardinality(Readers)
          /\ pins' = IF pins = 0 THEN 0 ELSE pins - 1
      BY <1>2, <1>5 DEF PinsAreReaders, EntryState, ExchangeTypes
    <3>3. QED BY <1>4, <3>1, <3>2 DEF PinsAreReaders
  <2>2. CASE ~orphaned
    <3>1. entry # NoEntry
      BY <1>3, <2>2 DEF ReadersKeepTheirBody
    <3>2. QED BY <1>1, <1>2, <1>4, <2>2, <3>1 DEF PinsAreReaders, ExchangeTypes
  <2>3. QED BY <2>1, <2>2 DEF ExchangeTypes
<1>9. ReadersKeepTheirBody'
  <2>1. ASSUME ~orphaned'
        PROVE  \A f \in Readers' : entry' # NoEntry /\ entry'.body = reads'[f]
    <3>1. CASE orphaned
      BY <1>1, <2>1, <3>1 DEF Readers
    <3>2. CASE ~orphaned
      <4>1. entry' # entry => Readers' = {}
        BY <1>2, <1>4, <3>2 DEF PinsAreReaders
      <4>2. QED BY <1>1, <1>3, <3>2, <4>1 DEF ReadersKeepTheirBody, Readers, ExchangeTypes
    <3>3. QED BY <3>1, <3>2 DEF ExchangeTypes
  <2>2. QED BY <2>1 DEF ReadersKeepTheirBody
<1>10. RemovalsOrdered'
  BY <1>1 DEF RemovalsOrdered, Invalidating
<1>11. QED BY <1>5, <1>6, <1>7, <1>8, <1>9, <1>10

(* Replacing or removing the entry while nobody reads it: those who have     *)
(* looked at the old one are marked, and a new one is not mixed.             *)
LEMMA ReplaceStep ==
  ASSUME ExchangeAssumption, ExchangeInv, pins = 0, UNCHANGED <<origin, pc, reads, removals>>,
         ExchangeTypes', \A f \in Engine : EngineState(f)', UNCHANGED <<snap, pins, reserved, orphaned>>,
         entry' = NoEntry \/ (entry'.head = entry'.body /\ entry'.epoch = removals),
         {f \in Engine : snap[f] # NoEntry} \subseteq raced'
  PROVE  ExchangeInv'
<1> USE DEF ExchangeInv
<1>1. ~orphaned => Readers = {}
  BY Counting DEF PinsAreReaders, Readers
<1>2. \A f \in Engine : LookedAt(f)'
  BY DEF LookedAt
<1>3. EntryState' /\ RemovedStaysRemoved'
  BY DEF EntryState, RemovedStaysRemoved, ExchangeTypes
<1>4. PinsAreReaders' /\ ReadersKeepTheirBody'
  BY <1>1 DEF PinsAreReaders, ReadersKeepTheirBody, Readers
<1>5. RemovalsOrdered'
  BY DEF RemovalsOrdered, Invalidating
<1>6. QED BY <1>2, <1>3, <1>4, <1>5

(* The end of a network response, whose file may become the entry, and the   *)
(* removals that no request orders.                                          *)
LEMMA OtherSteps ==
  ASSUME ExchangeAssumption, ExchangeInv,
         \/ \E e \in Engine : CloseStream(e)
         \/ Evict \/ EvictAll \/ RemoveTempDirectory
  PROVE  ExchangeInv'
<1> USE DEF ExchangeInv, engineVars, cacheVars, userVars
<1>1. ASSUME NEW e \in Engine, CloseStream(e)
      PROVE  ExchangeInv'
  <2>1. /\ stream[e] # "none" /\ stream' = [stream EXCEPT ![e] = "none"]
        /\ net' = [net EXCEPT ![e] = 0]
        /\ UNCHANGED <<origin, pc, snap, reads, pins, reserved, evicting, removals, orphaned>>
    BY <1>1 DEF CloseStream, PutCache
  <2>2. \/ entry' = entry /\ raced' = raced
        \/ /\ pins = 0 /\ raced' = raced \cup {f \in Engine : snap[f] # NoEntry}
           /\ entry' \in {NoEntry, NewEntry(e)}
    <3>1. CASE PutCache(e) /\ pins = 0 /\ ~reserved
      <4>1. PICK new \in {NoEntry, NewEntry(e)} : Replace(new)
        BY <3>1 DEF PutCache
      <4>2. QED BY <3>1, <4>1 DEF Replace
    <3>2. CASE UNCHANGED cacheVars
      BY <3>2
    <3>3. reserved \/ pins > 0 \/ pins = 0
      BY DEF ExchangeTypes
    <3>4. QED BY <1>1, <3>1, <3>2, <3>3 DEF CloseStream, PutCache, ExchangeTypes
  <2>3. net[e] \in Version /\ NewEntry(e) \in EntryType
    BY <2>1 DEF EngineState, ExchangeTypes, NewEntry, EntryType, Version
  <2>4. ExchangeTypes' /\ \A f \in Engine : EngineState(f)'
    BY <2>1, <2>2, <2>3 DEF ExchangeTypes, EngineState, Version, ExchangeAssumption
  <2>5. CASE entry' = entry /\ raced' = raced
    BY <2>1, <2>4, <2>5 DEF LookedAt, EntryState, PinsAreReaders, Readers, ReadersKeepTheirBody,
         RemovedStaysRemoved, RemovalsOrdered, Invalidating
  <2>6. CASE ~(entry' = entry /\ raced' = raced)
    BY <2>1, <2>2, <2>4, <2>6, ReplaceStep DEF NewEntry
  <2>7. QED BY <2>5, <2>6
<1>2. CASE Evict
  <2>1. /\ entry' = NoEntry /\ pins = 0 /\ raced' = raced \cup {f \in Engine : snap[f] # NoEntry}
        /\ UNCHANGED <<origin, engineVars, userVars, pins, reserved, evicting, removals, orphaned>>
    BY <1>2 DEF Evict, Replace
  <2>2. ExchangeTypes' /\ \A f \in Engine : EngineState(f)'
    BY <2>1 DEF ExchangeTypes, EngineState
  <2>3. QED BY <2>1, <2>2, ReplaceStep
<1>3. CASE EvictAll
  <2>1. /\ entry' = NoEntry /\ pins' = 0 /\ reserved' = FALSE /\ evicting' = TRUE
        /\ raced' = raced \cup {f \in Engine : snap[f] # NoEntry}
        /\ orphaned' = (\E e \in Engine : reads[e] # 0)
        /\ UNCHANGED <<origin, engineVars, userVars, removals>>
    BY <1>3 DEF EvictAll, Replace
  <2>2. ExchangeTypes' /\ \A f \in Engine : EngineState(f)' /\ LookedAt(f)'
    BY <2>1 DEF ExchangeTypes, EngineState, LookedAt
  <2>3. EntryState' /\ RemovedStaysRemoved' /\ RemovalsOrdered'
    BY <2>1 DEF EntryState, RemovedStaysRemoved, RemovalsOrdered, Invalidating
  <2>4. Cardinality(Readers) \in Nat /\ (~orphaned' => Readers = {}) /\ Readers' = Readers
        /\ (Cardinality(Readers) = 0 <=> Readers = {})
    BY <2>1, Counting DEF Readers
  <2>5. PinsAreReaders' /\ ReadersKeepTheirBody'
    BY <2>1, <2>4 DEF PinsAreReaders, ReadersKeepTheirBody
  <2>6. QED BY <2>2, <2>3, <2>5
<1>4. CASE RemoveTempDirectory
  <2>1. /\ evicting' = FALSE
        /\ stream' \in [Engine -> {"none", "caching", "plain", "unlinked"}]
        /\ \A e \in Engine : stream'[e] = "none" <=> stream[e] = "none"
        /\ UNCHANGED <<origin, engineVars, cacheVars, reads, removals, orphaned>>
    BY <1>4 DEF RemoveTempDirectory, Unlinkable, ExchangeTypes
  <2>2. ExchangeTypes' /\ \A f \in Engine : EngineState(f)' /\ LookedAt(f)'
    BY <2>1 DEF ExchangeTypes, EngineState, LookedAt
  <2>3. QED BY <2>1, <2>2 DEF EntryState, PinsAreReaders, Readers, ReadersKeepTheirBody,
               RemovedStaysRemoved, RemovalsOrdered, Invalidating
<1>5. QED BY <1>1, <1>2, <1>3, <1>4

LEMMA ExchangeInvNext ==
  ASSUME ExchangeAssumption, ExchangeInv, [Next]_vars
  PROVE  ExchangeInv'
<1>1. ASSUME NEW e \in Engine, Beginning(e) \/ Exchanging(e) \/ CloseStream(e) \/ CloseFromCache(e)
      PROVE  ExchangeInv'
  BY <1>1, BeginSteps, ExchangeSteps, CloseFromCacheStep, OtherSteps DEF Exchanging
<1>2. CASE UNCHANGED vars
  BY <1>2 DEF vars, engineVars, cacheVars, userVars, ExchangeInv, ExchangeTypes, EngineState,
     LookedAt,
       EntryState, PinsAreReaders, Readers, ReadersKeepTheirBody, RemovedStaysRemoved,
       RemovalsOrdered, Invalidating
<1>3. QED BY <1>1, <1>2, OtherSteps DEF Next

(* The inductive invariant holds in every reachable state.                   *)
THEOREM ExchangeInvariant == Spec => []ExchangeInv
<1>1. ExchangeAssumption
  BY ExchangeAssumption
<1>2. Init => ExchangeInv
  BY <1>1, ExchangeInvInit
<1>3. ExchangeInv /\ [Next]_vars => ExchangeInv'
  BY <1>1, ExchangeInvNext
<1>4. QED BY <1>2, <1>3, PTL DEF Spec

-----------------------------------------------------------------------------
(* For every number of engines and versions: the headers of one response are *)
(* never paired with the body of another, in the cache or in what a user is  *)
(* given, except where the entry was replaced between two calls of an engine *)
(* to the cache or an older response was taken for a validation.             *)
THEOREM HeadersAreOfTheBody == Spec => []HeadersMatchBody
<1>1. ASSUME ExchangeInv
      PROVE  HeadersMatchBody
  <2>1. ASSUME NEW e \in Engine, pc[e] = "body"
        PROVE  (IF net[e] = 0 THEN snap[e].head ELSE net[e]) = entry.body \/ Excused(e)
    <3>1. snap[e] # NoEntry /\ snap[e] \in MetadataType /\ net[e] <= snap[e].head /\ LookedAt(e)
      BY <1>1, <2>1 DEF ExchangeInv, EngineState, ExchangeTypes
    <3>2. QED BY <1>1, <3>1, ExchangeAssumption DEF Excused, Older, LookedAt, ExchangeInv,
                 ExchangeTypes,
               MetadataType, Version, ExchangeAssumption
  <2>2. QED BY <1>1, <2>1 DEF HeadersMatchBody, ExchangeInv, EntryState
<1>2. QED BY <1>1, ExchangeInvariant, PTL

(* An entry older than the last response that invalidates it is gone or      *)
(* waits, unseen, for its last reader.                                       *)
THEOREM RemovalsLast == Spec => []RemovedStaysRemoved
<1>1. ExchangeInv => RemovedStaysRemoved
  BY DEF ExchangeInv
<1>2. QED BY <1>1, ExchangeInvariant, PTL

(* The reference count of the entry is the number of responses that read it, *)
(* and nobody's file is replaced while it is read, except by evictAll.       *)
THEOREM ReadersAreSafe == Spec => []ReadersInv
<1>1. ASSUME ExchangeInv
      PROVE  ReadersInv
  <2>1. /\ Cardinality(Readers) <= Cardinality(Engine) /\ Cardinality(Readers) \in Nat
        /\ Cardinality(Engine) \in Nat /\ Cardinality(Invalidating) \in Nat
    BY Counting, ExchangeAssumption DEF Readers, Invalidating
  <2>2. pins \in 0..Cardinality(Engine)
    BY <1>1, <2>1 DEF ExchangeInv, ExchangeTypes, PinsAreReaders
  <2>3. removals \in 0..MaxVersion - 1
    BY <1>1, <2>1, ExchangeAssumption DEF ExchangeInv, ExchangeTypes, RemovalsOrdered, Version,
         ExchangeAssumption
  <2>4. TypeOK
    BY <1>1, <2>2, <2>3 DEF ExchangeInv, ExchangeTypes, TypeOK
  <2>5. QED BY <1>1, <2>4 DEF ExchangeInv, ReadersInv
<1>2. QED BY <1>1, ExchangeInvariant, PTL

-----------------------------------------------------------------------------
(* Decisions.                                                                *)

(* A response's headers as the cache has them.                               *)
HeaderTypes(h) ==
  /\ h.cc \in Lines
  /\ h.date \in Unreadable..LLMax /\ h.age \in Unreadable..LLMax
  /\ h.expires \in Unreadable..LLMax /\ h.modified \in Unreadable..LLMax

(* A true Date is a time of the clock, and a true Age the time between two.  *)
HonestTypes(h) == (IsDate(h.date) => h.date \in Time) /\ h.age <= MaxTime - Start

KeptTypes(e) ==
  /\ HeaderTypes(e.h) /\ HeaderTypes(e.said)
  /\ e.sent \in Time /\ e.received \in Time /\ e.born \in Time

(* What is kept of what the server has said.                                 *)
KeptOfSaid(e) ==
  /\ Len(e.h.cc) <= 1
  /\ e.h.expires = e.said.expires /\ e.h.pragma = e.said.pragma
  /\ ~e.lost => e.h.cc = e.said.cc

(* The age at the moment of the answer.                                      *)
ReceivedAgeOf(date, age, received) ==
  LET apparent == IF IsDate(date) THEN Larger(0, received - date) ELSE 0
  IN  IF age = Absent THEN apparent ELSE Larger(apparent, age)

ReceivedAge(e) == ReceivedAgeOf(e.h.date, e.h.age, e.received)

KeptInTime(e) ==
  /\ e.born <= e.received /\ e.sent <= e.received
  /\ ReceivedAge(e) >= e.sent - e.born
  /\ ~e.leftover => ReceivedAge(e) <= e.received - e.born

(* An entry as it is at the time t, at which it was read from the cache.     *)
EntryInv(e, t) ==
  /\ KeptTypes(e) /\ KeptOfSaid(e)
  /\ e.honest => HonestTypes(e.h)
  /\ ~stepped => e.received <= t /\ (e.honest => KeptInTime(e))

CallInv ==
  call # Idle =>
    /\ call.at \in {"sent", "served", "refused"}
    /\ call.r \in Requests /\ call.sent \in Time
    /\ ~stepped => call.sent <= now
    /\ call.cached # NothingKept => EntryInv(call.cached, call.sent)
    /\ call.at = "served" =>
         call.cached # NothingKept /\ UseCache(call.cached, call.r.cc, call.sent)

StrategyInv ==
  /\ query \in BOOLEAN /\ stepped \in BOOLEAN /\ now \in Time
  /\ kept # NothingKept => EntryInv(kept, now)
  /\ CallInv

-----------------------------------------------------------------------------
(* Parameters are read from the last of equal directives: there is a last.   *)
LEMMA LargestNumber ==
  ASSUME NEW n \in Nat, NEW B \in SUBSET (1..n), B # {}
  PROVE  Max(B) \in B
<1> DEFINE From(i) == i..n
           T == {From(i) : i \in B}
           F == FiniteSubsetsOf(Nat)
           R == StrictSubsetOrdering(Nat)
<1>1. \A i \in 1..n : From(i) \in F
  BY FS_Interval DEF FiniteSubsetsOf
<1>2. PICK x \in T : \A y \in T : <<y, x>> \notin R
  <2>1. IsWellFoundedOn(R, F)
    BY FS_StrictSubsetOrderingWellFounded
  <2>2. T \subseteq F /\ T # {}
    BY <1>1
  <2> HIDE DEF R, T, F
  <2>3. QED BY <2>1, <2>2, WFMin
<1>3. PICK m \in B : x = From(m)
  BY <1>2
<1>4. ASSUME NEW i \in B, ~(m >= i) PROVE FALSE
  <2>1. From(i) \subseteq From(m) /\ m \in From(m) /\ m \notin From(i)
    BY <1>4
  <2>2. From(i) \in SUBSET Nat /\ From(m) \in SUBSET Nat
    OBVIOUS
  <2>3. <<From(i), From(m)>> \in R
    BY <2>1, <2>2 DEF StrictSubsetOrdering
  <2>4. QED BY <2>3, <1>2, <1>3
<1>5. QED BY <1>4 DEF Max

(* CacheControl::createFromHeaders on at most one line: max-age is a number  *)
(* of the line, or -1.                                                       *)
LEMMA MaxAgeIsLong ==
  ASSUME NEW h, h.cc \in Lines, Len(h.cc) <= 1
  PROVE  CacheControl(h).maxAge \in LongLong
PROOF
<1> DEFINE ds == FlattenSeq(h.cc)
           at == {i \in DOMAIN ds : ds[i][1] = "max-age"}
<1>1. CacheControl(h).maxAge = Param(ds, "max-age")
  BY DEF CacheControl
<1>2. -1 \in LongLong
  BY StrategyAssumption DEF LongLong
<1>3. ds \in Seq(STRING \X LongLong)
  <2>1. CASE Len(h.cc) = 0
    BY <2>1 DEF FlattenSeq, Lines
  <2>2. CASE Len(h.cc) # 0
    <3>1. Len(h.cc) = 1 /\ h.cc[1] \in Seq(STRING \X LongLong)
      <4>1. Len(h.cc) \in Nat
        BY LenProperties DEF Lines
      <4>2. Len(h.cc) = 1
        <5> HIDE DEF ds, at
        <5>1. \A k \in Nat : k <= 1 /\ k # 0 => k = 1
          OBVIOUS
        <5>2. QED BY <4>1, <2>2, <5>1
      <4>3. QED BY <4>2, ElementOfSeq DEF Lines
    <3> DEFINE body(f, i) == IF i = 1 THEN h.cc[i] ELSE f[i - 1] \o h.cc[i]
               flatten == CHOOSE f : f = [i \in 1..Len(h.cc) |-> body(f, i)]
               one == [i \in 1..1 |-> h.cc[i]]
    <3>2. one = [i \in 1..Len(h.cc) |-> body(one, i)]
      BY <3>1
    <3>3. flatten = [i \in 1..Len(h.cc) |-> body(flatten, i)]
      BY <3>2
    <3>4. flatten[1] = h.cc[1]
      BY <3>1, <3>3
    <3>5. ds = flatten[Len(h.cc)]
      BY <2>2 DEF FlattenSeq
    <3>6. QED BY <3>1, <3>4, <3>5
  <2>3. QED BY <2>1, <2>2
<1>4. CASE at = {}
  BY <1>1, <1>2, <1>4 DEF Param
<1>5. CASE at # {}
  <2> HIDE DEF ds
  <2>1. DOMAIN ds = 1..Len(ds) /\ Len(ds) \in Nat
    BY <1>3, LenProperties
  <2>2. at \subseteq 1..Len(ds)
    BY <2>1
  <2>3. Max(at) \in at
    <3> HIDE DEF at
    <3>1. QED BY <1>5, <2>1, <2>2, LargestNumber
  <2>4. ds[Max(at)] \in STRING \X LongLong
    BY <1>3, <2>1, <2>2, <2>3, ElementOfSeq
  <2>5. QED BY <1>1, <1>5, <2>4 DEF Param
<1>6. QED BY <1>4, <1>5

(* Sums that stay below the modulus are what they are among the integers.    *)
LEMMA UnsignedIsExact ==
  ASSUME NEW n \in Int, 0 <= n, n <= 2 * LLMax + 1
  PROVE  Unsigned(n) = n
<1> DEFINE m == 2 * (LLMax + 1)
<1>1. m \in Nat \ {0} /\ n \in Nat /\ n < m
  BY StrategyAssumption
<1>2. n % m = n
  <2> HIDE DEF m
  <2>1. QED BY <1>1
<1>3. QED BY <1>2 DEF Unsigned

(* The dates of an entry that is kept fit a long long.                       *)
LEMMA DatesAreLong ==
  ASSUME NEW e, KeptTypes(e)
  PROVE  /\ e.sent \in 0..LLMax /\ e.received \in 0..LLMax /\ e.born \in 0..LLMax
         /\ IsDate(e.h.date) => e.h.date \in 0..LLMax
<1>1. Time \subseteq 0..LLMax
  BY StrategyAssumption, RangeAssumption DEF Time
<1>2. e.h.date \in Unreadable..LLMax
  BY DEF KeptTypes, HeaderTypes
<1>3. IsDate(e.h.date) => e.h.date \in 0..LLMax
  BY <1>2, StrategyAssumption DEF IsDate, Unreadable
<1>4. QED BY <1>1, <1>3 DEF KeptTypes

(* The age is a sum of integers, whatever Date and Age are.                  *)
LEMMA AgeIsInteger ==
  ASSUME NEW e, KeptTypes(e), NEW t \in Time
  PROVE  /\ ReceivedAge(e) \in Nat
         /\ SignedAge(e, t) = ReceivedAge(e) + (e.received - e.sent) + (t - e.received)
         /\ SignedAge(e, t) \in Int
<1>1. /\ e.received \in Int /\ e.sent \in Int /\ t \in Int
      /\ IsDate(e.h.date) => e.h.date \in Int
  BY DatesAreLong, StrategyAssumption DEF Time
<1>2. e.h.age \in Int
  BY StrategyAssumption DEF KeptTypes, HeaderTypes, Unreadable
<1>3. ReceivedAge(e) \in Nat
  BY <1>1, <1>2 DEF ReceivedAge, ReceivedAgeOf, Larger
<1>4. SignedAge(e, t) = ReceivedAge(e) + (e.received - e.sent) + (t - e.received)
  BY DEF SignedAge, ReceivedAge, ReceivedAgeOf
<1>5. QED BY <1>1, <1>3, <1>4

(* With a true Date and Age it fits a long long.                             *)
LEMMA AgeIsBounded ==
  ASSUME NEW e, KeptTypes(e), HonestTypes(e.h), NEW t \in Time
  PROVE  SignedAge(e, t) <= LLMax
<1>1. e.h.age \in Int /\ e.received \in Time /\ e.sent \in Time
  BY StrategyAssumption DEF KeptTypes, HeaderTypes, Unreadable
<1>2. ReceivedAge(e) <= MaxTime - Start
  BY <1>1, StrategyAssumption DEF ReceivedAge, ReceivedAgeOf, HonestTypes, Time, Larger
<1>3. QED
  BY <1>1, <1>2, AgeIsInteger, StrategyAssumption, RangeAssumption DEF Time

(* calculateFreshnessLifetime, by max-age, by Expires, by Last-Modified or   *)
(* none.                                                                     *)
LEMMA LifetimeIsBounded ==
  ASSUME NEW e, KeptTypes(e), Len(e.h.cc) <= 1
  PROVE  /\ SignedLifetime(e) \in LongLong
         /\ CacheControl(e.h).maxAge \in LongLong
         /\ CacheControl(e.h).maxAge >= -1 => SignedLifetime(e) >= 0
<1> DEFINE m == CacheControl(e.h).maxAge
<1>1. m \in LongLong
  BY MaxAgeIsLong DEF KeptTypes, HeaderTypes
<1> HIDE DEF m
<1>2. CASE m # -1
  <2>1. SignedLifetime(e) = m
    BY <1>2 DEF SignedLifetime, m
  <2>2. QED BY <1>1, <1>2, <2>1, StrategyAssumption DEF LongLong, m
<1>3. CASE m = -1 /\ IsDate(e.h.expires)
  <2>1. SignedLifetime(e) = Larger(0, e.h.expires - ResponseTime(e, e.received))
    BY <1>3 DEF SignedLifetime, m
  <2>2. ResponseTime(e, e.received) \in 0..LLMax
    BY DatesAreLong DEF ResponseTime
  <2>3. e.h.expires \in 0..LLMax
    BY <1>3, StrategyAssumption DEF IsDate, KeptTypes, HeaderTypes, Unreadable
  <2>4. Larger(0, e.h.expires - ResponseTime(e, e.received)) \in 0..LLMax
    BY <2>2, <2>3, StrategyAssumption DEF Larger
  <2>5. QED BY <1>1, <2>1, <2>4, StrategyAssumption DEF LongLong, m
<1>4. CASE m = -1 /\ ~IsDate(e.h.expires) /\ IsDate(e.h.modified) /\ ~query
  <2>1. SignedLifetime(e) = Larger(0, ResponseTime(e, e.sent) - e.h.modified) \div 10
    BY <1>4 DEF SignedLifetime, m
  <2>2. ResponseTime(e, e.sent) \in 0..LLMax
    BY DatesAreLong DEF ResponseTime
  <2>3. e.h.modified \in 0..LLMax
    BY <1>4, StrategyAssumption DEF IsDate, KeptTypes, HeaderTypes, Unreadable
  <2>4. Larger(0, ResponseTime(e, e.sent) - e.h.modified) \in 0..LLMax
    BY <2>2, <2>3, StrategyAssumption DEF Larger
  <2>5. SignedLifetime(e) \in 0..LLMax
    BY <2>1, <2>4, StrategyAssumption
  <2>6. QED BY <1>1, <2>5, StrategyAssumption DEF LongLong, m
<1>5. CASE m = -1 /\ ~IsDate(e.h.expires) /\ ~(IsDate(e.h.modified) /\ ~query)
  <2>1. SignedLifetime(e) = 0
    BY <1>5 DEF SignedLifetime, m
  <2>2. QED BY <1>1, <2>1, StrategyAssumption DEF LongLong, m
<1>6. QED BY <1>2, <1>3, <1>4, <1>5

(* resolveCacheResponseAndNetworkRequest compares unsigned sums as integers, *)
(* for an entry and a request whose numbers are not negative and an age that *)
(* fits a long long.                                                         *)
LEMMA TermsAreExact ==
  ASSUME NEW e, KeptTypes(e), Len(e.h.cc) <= 1, NEW t \in Time, SignedAge(e, t) \in 0..LLMax,
         NEW c \in Controls, ~Negative(e, c)
  PROVE  /\ Terms(e, c, t).age = SignedAge(e, t)
         /\ Terms(e, c, t).minFresh = Larger(0, c.minFresh)
         /\ Terms(e, c, t).fresh = IF c.maxAge = -1 THEN SignedLifetime(e)
                                   ELSE Smaller(SignedLifetime(e), c.maxAge)
         /\ Terms(e, c, t).maxStale = IF CacheControl(e.h).mustRevalidate THEN 0
                                      ELSE Larger(0, c.maxStale)
         /\ Plus(Terms(e, c, t).age, Terms(e, c, t).minFresh)
              = Terms(e, c, t).age + Terms(e, c, t).minFresh
         /\ Plus(Terms(e, c, t).fresh, Terms(e, c, t).maxStale)
              = Terms(e, c, t).fresh + Terms(e, c, t).maxStale
<1> DEFINE x == Terms(e, c, t)
           life == SignedLifetime(e)
           old == SignedAge(e, t)
<1>1. /\ c.maxAge \in -1..LLMax /\ c.minFresh \in -1..LLMax /\ c.maxStale \in -1..LLMax
      /\ CacheControl(e.h).maxAge >= -1
  BY LifetimeIsBounded, StrategyAssumption DEF Negative, Controls, LongLong
<1>2. old \in 0..LLMax
  OBVIOUS
<1>3. life \in 0..LLMax
  BY <1>1, LifetimeIsBounded, StrategyAssumption DEF LongLong
<1> HIDE DEF life, old
<1>4. x.age = old
  BY <1>2, UnsignedIsExact, StrategyAssumption DEF Terms, CalculateCacheResponseAge, old
<1>5. x.minFresh = Larger(0, c.minFresh) /\ x.minFresh \in 0..LLMax
  BY <1>1, UnsignedIsExact, StrategyAssumption DEF Terms, Larger
<1>6. /\ x.fresh = IF c.maxAge = -1 THEN life ELSE Smaller(life, c.maxAge)
      /\ x.fresh \in 0..LLMax
  <2>1. CalculateFreshnessLifetime(e) = life
    BY <1>3, UnsignedIsExact, StrategyAssumption DEF CalculateFreshnessLifetime, life
  <2>2. c.maxAge # -1 => Unsigned(c.maxAge) = c.maxAge
    BY <1>1, UnsignedIsExact, StrategyAssumption
  <2>3. x.fresh = IF c.maxAge = -1 THEN life ELSE Smaller(life, c.maxAge)
    BY <2>1, <2>2 DEF Terms
  <2>4. QED BY <1>1, <1>3, <2>3, StrategyAssumption DEF Smaller
<1>7. /\ x.maxStale = IF CacheControl(e.h).mustRevalidate THEN 0 ELSE Larger(0, c.maxStale)
      /\ x.maxStale \in 0..LLMax
  <2>1. c.maxStale # -1 => Unsigned(c.maxStale) = c.maxStale /\ Larger(0, c.maxStale) = c.maxStale
    BY <1>1, UnsignedIsExact, StrategyAssumption DEF Larger
  <2>2. c.maxStale = -1 => Larger(0, c.maxStale) = 0
    BY DEF Larger
  <2>3. x.maxStale = IF CacheControl(e.h).mustRevalidate THEN 0 ELSE Larger(0, c.maxStale)
    BY <2>1, <2>2 DEF Terms
  <2>4. QED BY <1>1, <2>3, StrategyAssumption DEF Larger
<1> HIDE DEF x
<1>8. Plus(x.age, x.minFresh) = x.age + x.minFresh
  BY <1>2, <1>4, <1>5, UnsignedIsExact, StrategyAssumption DEF Plus
<1>9. Plus(x.fresh, x.maxStale) = x.fresh + x.maxStale
  BY <1>6, <1>7, UnsignedIsExact, StrategyAssumption DEF Plus
<1>10. QED BY <1>4, <1>5, <1>6, <1>7, <1>8, <1>9 DEF x, life, old

(* The decision with all its terms.                                          *)
LEMMA UseIsExact ==
  ASSUME NEW e, KeptTypes(e), Len(e.h.cc) <= 1, NEW t \in Time, SignedAge(e, t) \in 0..LLMax,
         NEW c \in Controls, ~Negative(e, c)
  PROVE  UseCache(e, c, t) <=> Exact(e, c, t)
<1>1. QED BY TermsAreExact DEF UseCache, Exact

(* With a true Date and Age the age counts from the last word of the server. *)
LEMMA AgeCountsFromBirth ==
  ASSUME NEW e, KeptTypes(e), KeptInTime(e), NEW t \in Time, e.received <= t
  PROVE  /\ SignedAge(e, t) >= t - e.born
         /\ SignedAge(e, t) >= 0
         /\ IsDate(e.h.date) => SignedAge(e, t) >= t - e.h.date
         /\ ~e.leftover => SignedAge(e, t) - (t - e.born) <= e.received - e.sent
<1>1. /\ ReceivedAge(e) \in Nat
      /\ SignedAge(e, t) = ReceivedAge(e) + (e.received - e.sent) + (t - e.received)
  BY AgeIsInteger
<1>2. e.sent \in Int /\ e.received \in Int /\ e.born \in Int /\ t \in Int /\ e.h.age \in Int
  BY StrategyAssumption DEF KeptTypes, HeaderTypes, Time, Unreadable
<1>3. IsDate(e.h.date) => e.h.date \in Int /\ ReceivedAge(e) >= e.received - e.h.date
  BY <1>2, DatesAreLong DEF ReceivedAge, ReceivedAgeOf, Larger
<1>4. QED
  BY <1>1, <1>2, <1>3, StrategyAssumption DEF KeptInTime

(* The deadline is a time, with every line the server said.                  *)
LEMMA DeadlineIsInteger ==
  ASSUME NEW e, KeptTypes(e), KeptOfSaid(e), ~e.lost
  PROVE  Deadline(e) \in Int
<1>1. LongLong \subseteq Int /\ Time \subseteq Int /\ Unreadable..LLMax \subseteq Int
  BY StrategyAssumption DEF LongLong, Time
<1>2. CacheControl(e.said).maxAge = CacheControl(e.h).maxAge
  BY DEF KeptOfSaid, CacheControl
<1>3. CacheControl(e.h).maxAge \in LongLong /\ SignedLifetime(e) \in LongLong
  BY LifetimeIsBounded DEF KeptOfSaid
<1>4. e.born \in Int /\ e.said.expires \in Int
  BY <1>1 DEF KeptTypes, HeaderTypes
<1>5. CacheControl(e.said).maxAge \in Int /\ SignedLifetime(e) \in Int
  BY <1>1, <1>2, <1>3
<1>6. \A a, b \in Int : a + b \in Int /\ Larger(a, b) \in Int
  BY DEF Larger
<1>7. QED BY <1>4, <1>5, <1>6 DEF Deadline

(* A lifetime that the age, moved by d, has not reached ends at a deadline   *)
(* that the clock, moved by d, has not reached.                              *)
LEMMA FreshIsBeforeDeadline ==
  ASSUME NEW e, KeptTypes(e), KeptOfSaid(e), KeptInTime(e), ~e.lost,
         NEW t \in Time, e.received <= t,
         CacheControl(e.said).maxAge # -1 \/ e.said.expires # Unreadable,
         NEW d \in Int, SignedAge(e, t) + d < SignedLifetime(e)
  PROVE  t + d < Deadline(e)
<1> DEFINE m == CacheControl(e.h).maxAge
           age == SignedAge(e, t)
           life == SignedLifetime(e)
<1>1. /\ age \in Int /\ life \in Int /\ m \in Int /\ t \in Int /\ e.born \in Int
      /\ e.received \in Int /\ e.born <= e.received
  <2>1. age \in Int
    BY AgeIsInteger
  <2>2. life \in LongLong /\ m \in LongLong
    BY LifetimeIsBounded DEF KeptOfSaid
  <2>3. LongLong \subseteq Int /\ Time \subseteq Int
    BY StrategyAssumption DEF LongLong, Time
  <2> HIDE DEF age, life, m
  <2>4. QED BY <2>1, <2>2, <2>3 DEF KeptTypes, KeptInTime
<1>2. age >= t - e.born /\ (IsDate(e.h.date) => age >= t - e.h.date)
  BY AgeCountsFromBirth
<1>3. CacheControl(e.said).maxAge = m /\ e.said.expires = e.h.expires
  BY DEF KeptOfSaid, CacheControl
<1>4. CASE m # -1
  <2>1. life = m /\ Deadline(e) = e.born + m
    BY <1>3, <1>4 DEF Deadline, SignedLifetime
  <2> HIDE DEF m, age, life
  <2>2. QED BY <1>1, <1>2, <2>1 DEF age, life
<1>5. CASE m = -1 /\ e.h.expires # Absent
  <2> DEFINE from == ResponseTime(e, e.received)
  <2>1. e.h.expires \in Nat /\ IsDate(e.h.expires)
    BY <1>3, <1>5, StrategyAssumption DEF KeptTypes, HeaderTypes, IsDate, Absent, Unreadable
  <2>2. life = Larger(0, e.h.expires - from) /\ Deadline(e) = Larger(e.born, e.h.expires)
    BY <1>3, <1>5, <2>1 DEF Deadline, SignedLifetime
  <2>3. from \in Int /\ (age >= t - from \/ e.born <= from)
    BY <1>1, <1>2, DatesAreLong DEF ResponseTime
  <2> HIDE DEF m, age, life, from
  <2>4. QED BY <1>1, <1>2, <2>1, <2>2, <2>3 DEF Larger, age, life
<1>6. CASE m = -1 /\ e.h.expires = Absent
  <2>1. Deadline(e) = e.born + life
    BY <1>3, <1>6 DEF Deadline
  <2> HIDE DEF m, age, life
  <2>2. QED BY <1>1, <1>2, <2>1 DEF age, life
<1>7. QED BY <1>4, <1>5, <1>6

-----------------------------------------------------------------------------
(* What an answer is, as the cache gets it.                                  *)
LEMMA StampedTypes ==
  ASSUME StrategyInv, call.at = "sent", NEW a \in Answers, NEW born \in Start..now
  PROVE  /\ HeaderTypes(Stamped(a, born))
         /\ Honest(a) => HonestTypes(Stamped(a, born))
         /\ ~stepped => call.sent <= now
         /\ call.sent \in Time /\ now \in Time /\ born \in Time
<1> DEFINE h == Stamped(a, born)
<1>1. call.sent \in Time /\ now \in Time /\ born \in Time /\ (~stepped => call.sent <= now)
  BY StrategyAssumption DEF StrategyInv, CallInv, Idle, Time
<1>2. h.cc \in Lines
  BY AnswersAssumption DEF Stamped
<1>3. Time \subseteq Unreadable..LLMax /\ 0..MaxTime - Start \subseteq Unreadable..LLMax
  BY StrategyAssumption, RangeAssumption DEF Time, Unreadable
<1>4. Larger(0, call.sent - born) \in 0..MaxTime - Start
  BY <1>1, StrategyAssumption DEF Larger, Time
<1>5. {a.date, a.age, a.expires, a.modified} \subseteq Unreadable..LLMax
  BY AnswersAssumption
<1>6. HeaderTypes(h)
  BY <1>1, <1>2, <1>3, <1>4, <1>5 DEF HeaderTypes, Stamped
<1>7. Honest(a) => HonestTypes(h)
  <2>1. MaxTime - Start \in Nat /\ a.age \in Int
    BY <1>5, StrategyAssumption DEF Unreadable
  <2>2. a.age < 0 => a.age <= MaxTime - Start
    BY <2>1
  <2>3. Larger(0, call.sent - born) <= MaxTime - Start
    BY <1>4, <2>1
  <2>4. QED BY <1>1, <2>2, <2>3 DEF Honest, HonestTypes, Stamped
<1>8. QED BY <1>1, <1>6, <1>7

(* combineCacheAndNetworkHeader keeps headers well formed.                   *)
LEMMA CombinedTypes ==
  ASSUME NEW old, HeaderTypes(old), NEW h, HeaderTypes(h)
  PROVE  HeaderTypes(CombineCacheAndNetworkHeader(old, h))
BY DEF HeaderTypes, CombineCacheAndNetworkHeader

(* The database keeps one line of a name, and all of them if there is one.   *)
Whole(h) ==
  h = [cc |-> h.cc, pragma |-> h.pragma, date |-> h.date, age |-> h.age, expires |-> h.expires,
       modified |-> h.modified, etag |-> h.etag, framed |-> h.framed]

(* What is left of the headers in the database.                              *)
LEMMA StoredTypes ==
  ASSUME NEW h, HeaderTypes(h), Whole(h)
  PROVE  /\ HeaderTypes(Stored(h)) /\ Len(Stored(h).cc) <= 1
         /\ Stored(h).expires = h.expires /\ Stored(h).pragma = h.pragma
         /\ Stored(h).date = h.date /\ Stored(h).age = h.age
         /\ Len(h.cc) <= 1 => Stored(h).cc = h.cc
<1> DEFINE line == IF h.cc = << >> THEN h.cc ELSE <<Last(h.cc)>>
<1>1. Stored(h) = [cc |-> line, pragma |-> h.pragma, date |-> h.date, age |-> h.age,
                   expires |-> h.expires, modified |-> h.modified, etag |-> h.etag,
                   framed |-> h.framed]
  BY DEF Stored, Whole
<1>2. h.cc \in Lines /\ Len(h.cc) \in Nat
  BY LenProperties DEF HeaderTypes, Lines
<1>3. CASE h.cc = << >>
  <2>1. line = h.cc /\ Len(line) = 0
    BY <1>3
  <2> HIDE DEF line
  <2>2. QED BY <1>1, <1>2, <2>1 DEF HeaderTypes
<1>4. CASE h.cc # << >>
  <2>1. Len(h.cc) >= 1
    BY <1>2, <1>4, EmptySeq DEF Lines
  <2>2. Last(h.cc) = h.cc[Len(h.cc)] /\ Last(h.cc) \in Seq(STRING \X LongLong)
    BY <1>2, <2>1, ElementOfSeq DEF Last, Lines
  <2>3. line \in Lines /\ Len(line) = 1
    BY <1>4, <2>2 DEF Lines
  <2>4. ASSUME Len(h.cc) <= 1 PROVE line = h.cc
    <3>1. Len(h.cc) = 1
      <4>1. \A k \in Nat : k >= 1 /\ k <= 1 => k = 1
        OBVIOUS
      <4>2. QED BY <1>2, <2>1, <2>4, <4>1
    <3>2. line = <<h.cc[1]>>
      BY <1>4, <2>2, <3>1
    <3>3. QED BY <1>2, <2>3, <3>1, <3>2, SeqEqual DEF Lines
  <2> HIDE DEF line
  <2>5. /\ Stored(h).cc = line /\ Stored(h).pragma = h.pragma /\ Stored(h).date = h.date
        /\ Stored(h).age = h.age /\ Stored(h).expires = h.expires /\ Stored(h).modified = h.modified
    BY <1>1
  <2>6. HeaderTypes(Stored(h)) /\ Len(Stored(h).cc) <= 1
    <3>1. HeaderTypes(Stored(h))
      BY <2>3, <2>5 DEF HeaderTypes
    <3>2. \A k \in Nat : k = 1 => k <= 1
      OBVIOUS
    <3>3. QED BY <2>3, <2>5, <3>1, <3>2
  <2>7. QED BY <2>4, <2>5, <2>6
<1>5. QED BY <1>3, <1>4

(* The age of an honest answer at its arrival lies between the time it took to come *)
(* through other caches and the time since it was made.                      *)
LEMMA DirectAge ==
  ASSUME NEW sent \in Nat, NEW received \in Nat, NEW born \in Nat,
         born <= received, sent <= received,
         NEW date \in Int, IsDate(date) => date = born,
         NEW age \in Int, age = Larger(0, sent - born) \/ (age < 0 /\ sent <= born)
  PROVE  ReceivedAgeOf(date, age, received) \in sent - born..received - born
<1> DEFINE apparent == IF IsDate(date) THEN Larger(0, received - date) ELSE 0
<1>1. apparent \in 0..received - born
  BY DEF Larger
<1> HIDE DEF apparent
<1>2. CASE age = Larger(0, sent - born)
  BY <1>1, <1>2 DEF ReceivedAgeOf, Larger, Absent, apparent
<1>3. CASE age < 0 /\ sent <= born
  BY <1>1, <1>3 DEF ReceivedAgeOf, Larger, apparent
<1>4. QED BY <1>2, <1>3

(* With an age of an entry that was validated it is no less.                 *)
LEMMA ValidatedAge ==
  ASSUME NEW sent \in Nat, NEW received \in Nat, NEW born \in Nat,
         born <= received, sent <= received,
         NEW date \in Int, NEW own \in Int,
         own = Larger(0, sent - born) \/ (own < 0 /\ sent <= born),
         NEW before \in Int, NEW age, age = IF own = Absent THEN before ELSE own
  PROVE  /\ ReceivedAgeOf(date, age, received) \in Nat
         /\ ReceivedAgeOf(date, age, received) >= sent - born
<1> DEFINE apparent == IF IsDate(date) THEN Larger(0, received - date) ELSE 0
<1>1. apparent \in Nat
  BY DEF Larger
<1> HIDE DEF apparent
<1>2. CASE own = Larger(0, sent - born)
  BY <1>1, <1>2 DEF ReceivedAgeOf, Larger, Absent, apparent
<1>3. CASE own < 0 /\ sent <= born
  BY <1>1, <1>3 DEF ReceivedAgeOf, Larger, Absent, apparent
<1>4. QED BY <1>2, <1>3

(* What Entry makes, but for the history of lost and leftover headers.       *)
Records(e, h, said, born) ==
  /\ e.h = Stored(h) /\ e.said = said
  /\ e.sent = call.sent /\ e.received = now /\ e.born = born

(* An answer that is stored takes the place of an entry.                     *)
LEMMA EntryStored ==
  ASSUME StrategyInv, call.at = "sent", NEW a \in Answers, NEW born \in Start..now,
         born < call.sent => a.relayed,
         NEW h, h = Stamped(a, born),
         NEW e, Records(e, h, h, born), e.lost <=> Len(h.cc) > 1, ~e.leftover,
         e.honest <=> Honest(a)
  PROVE  EntryInv(e, now)
<1>1. HeaderTypes(h) /\ Whole(h) /\ (Honest(a) => HonestTypes(h))
  BY StampedTypes DEF Whole, Stamped
<1>2. /\ call.sent \in Time /\ now \in Time /\ born \in Time
      /\ ~stepped => call.sent <= now
  BY StampedTypes
<1>3. /\ HeaderTypes(Stored(h)) /\ Len(Stored(h).cc) <= 1
      /\ Stored(h).expires = h.expires /\ Stored(h).pragma = h.pragma
      /\ Stored(h).date = h.date /\ Stored(h).age = h.age
      /\ Len(h.cc) <= 1 => Stored(h).cc = h.cc
  BY <1>1, StoredTypes
<1>4. Honest(a) => /\ IsDate(h.date) => h.date = born
                   /\ h.age = Larger(0, call.sent - born) \/ (h.age < 0 /\ ~a.relayed)
  BY DEF Stamped, Honest
<1>5. e.h = Stored(h) /\ e.said = h /\ e.sent = call.sent /\ e.received = now /\ e.born = born
  BY DEF Records
<1>6. KeptTypes(e)
  BY <1>1, <1>2, <1>3, <1>5 DEF KeptTypes
<1>7. KeptOfSaid(e)
  <2>1. Len(h.cc) \in Nat
    BY <1>1, LenProperties DEF HeaderTypes, Lines
  <2>2. ~(Len(h.cc) > 1) => Len(h.cc) <= 1
    BY <2>1
  <2>3. QED BY <1>3, <1>5, <2>2 DEF KeptOfSaid
<1>8. e.honest => HonestTypes(e.h)
  BY <1>1, <1>3, <1>5 DEF HonestTypes
<1>9. ~stepped => e.received <= now
  BY <1>2, <1>5, StrategyAssumption DEF Time
<1>10. ASSUME ~stepped, e.honest PROVE KeptInTime(e)
  <2>1. /\ call.sent \in Nat /\ now \in Nat /\ born \in Nat /\ born <= now /\ call.sent <= now
    BY <1>2, <1>10, StrategyAssumption DEF Time
  <2>2. h.age = Larger(0, call.sent - born) \/ (h.age < 0 /\ call.sent <= born)
    BY <1>4, <1>10, <2>1
  <2>3. h.date \in Int /\ h.age \in Int /\ (IsDate(h.date) => h.date = born)
    BY <1>1, <1>4, <1>10, StrategyAssumption DEF HeaderTypes, Unreadable
  <2>4. ReceivedAgeOf(h.date, h.age, now) \in call.sent - born..now - born
    BY <2>1, <2>2, <2>3, DirectAge
  <2>5. ReceivedAge(e) \in call.sent - born..now - born
    BY <1>3, <1>5, <2>4 DEF ReceivedAge
  <2>6. QED BY <1>5, <2>1, <2>5 DEF KeptInTime
<1>11. QED BY <1>6, <1>7, <1>8, <1>9, <1>10 DEF EntryInv

(* An answer that validates: its headers over those of the entry.            *)
LEMMA EntryValidated ==
  ASSUME StrategyInv, call.at = "sent", call.cached # NothingKept,
         NEW a \in Answers, NEW born \in Start..now, born < call.sent => a.relayed,
         NEW h, h = Stamped(a, born),
         NEW c, c = CombineCacheAndNetworkHeader(call.cached.h, h),
         NEW e, Records(e, c, CombineCacheAndNetworkHeader(call.cached.said, h), born),
         e.lost <=> (Len(c.cc) > 1 \/ (h.cc = << >> /\ call.cached.lost)),
         e.leftover <=> (h.date = Absent \/ (h.age = Absent /\ call.cached.h.age # Absent)),
         e.honest <=> Honest(a) /\ call.cached.honest
  PROVE  EntryInv(e, now)
<1> DEFINE old == call.cached
           said == CombineCacheAndNetworkHeader(old.said, h)
<1>1. HeaderTypes(h) /\ (Honest(a) => HonestTypes(h))
  BY StampedTypes
<1>2. /\ call.sent \in Time /\ now \in Time /\ born \in Time
      /\ ~stepped => call.sent <= now
  BY StampedTypes
<1>3. EntryInv(old, call.sent)
  BY DEF StrategyInv, CallInv, Idle
<1>4. HeaderTypes(c) /\ Whole(c) /\ HeaderTypes(said)
  <2>1. HeaderTypes(old.h) /\ HeaderTypes(old.said)
    BY <1>3 DEF EntryInv, KeptTypes
  <2>2. QED BY <1>1, <2>1, CombinedTypes DEF Whole, CombineCacheAndNetworkHeader
<1>5. /\ HeaderTypes(Stored(c)) /\ Len(Stored(c).cc) <= 1
      /\ Stored(c).expires = c.expires /\ Stored(c).pragma = c.pragma
      /\ Stored(c).date = c.date /\ Stored(c).age = c.age
      /\ Len(c.cc) <= 1 => Stored(c).cc = c.cc
  BY <1>4, StoredTypes
<1>6. Honest(a) => /\ IsDate(h.date) => h.date = born
                   /\ h.age = Larger(0, call.sent - born) \/ (h.age < 0 /\ ~a.relayed)
  BY DEF Stamped, Honest
<1>7. /\ e.h = Stored(c) /\ e.said = said /\ e.sent = call.sent /\ e.received = now
      /\ e.born = born
      /\ e.lost <=> (Len(c.cc) > 1 \/ (h.cc = << >> /\ old.lost))
      /\ e.leftover <=> (h.date = Absent \/ (h.age = Absent /\ old.h.age # Absent))
  BY DEF Records
<1>8. /\ c.date = (IF h.date = Absent THEN old.h.date ELSE h.date)
      /\ c.age = (IF h.age = Absent THEN old.h.age ELSE h.age)
      /\ c.expires = (IF h.expires = Absent THEN old.h.expires ELSE h.expires)
      /\ said.expires = (IF h.expires = Absent THEN old.said.expires ELSE h.expires)
      /\ c.pragma = (old.h.pragma \/ h.pragma) /\ said.pragma = (old.said.pragma \/ h.pragma)
      /\ c.cc = (IF h.cc = << >> THEN old.h.cc ELSE h.cc)
      /\ said.cc = (IF h.cc = << >> THEN old.said.cc ELSE h.cc)
  BY DEF CombineCacheAndNetworkHeader
<1> HIDE DEF said, old
<1>9. KeptTypes(e)
  BY <1>2, <1>4, <1>5, <1>7 DEF KeptTypes
<1>10. KeptOfSaid(e)
  <2>1. old.h.expires = old.said.expires /\ old.h.pragma = old.said.pragma
    BY <1>3 DEF EntryInv, KeptOfSaid
  <2>2. e.h.expires = e.said.expires /\ e.h.pragma = e.said.pragma
    BY <1>5, <1>7, <1>8, <2>1
  <2>3. Len(c.cc) \in Nat
    BY <1>4, LenProperties DEF HeaderTypes, Lines
  <2>4. ASSUME ~e.lost PROVE e.h.cc = e.said.cc
    <3>1. Len(c.cc) <= 1 /\ (h.cc = << >> => ~old.lost)
      BY <1>7, <2>3, <2>4
    <3>2. ~old.lost => old.h.cc = old.said.cc
      BY <1>3 DEF EntryInv, KeptOfSaid
    <3>3. QED BY <1>5, <1>7, <1>8, <3>1, <3>2
  <2>5. QED BY <1>5, <1>7, <2>2, <2>4 DEF KeptOfSaid
<1>11. e.honest => HonestTypes(e.h)
  <2>1. e.honest => HonestTypes(h) /\ HonestTypes(old.h)
    BY <1>1, <1>3 DEF EntryInv, old
  <2>2. QED BY <1>5, <1>7, <1>8, <2>1 DEF HonestTypes
<1>12. ~stepped => e.received <= now
  BY <1>2, <1>7, StrategyAssumption DEF Time
<1>13. ASSUME ~stepped, e.honest PROVE KeptInTime(e)
  <2>1. /\ call.sent \in Nat /\ now \in Nat /\ born \in Nat /\ born <= now /\ call.sent <= now
    BY <1>2, <1>13, StrategyAssumption DEF Time
  <2>2. h.age = Larger(0, call.sent - born) \/ (h.age < 0 /\ call.sent <= born)
    BY <1>6, <1>13, <2>1
  <2>3. c.date \in Int /\ h.date \in Int /\ h.age \in Int /\ old.h.age \in Int
    <3>1. HeaderTypes(h) /\ HeaderTypes(c) /\ HeaderTypes(old.h)
      BY <1>1, <1>3, <1>4 DEF EntryInv, KeptTypes
    <3>2. Unreadable..LLMax \subseteq Int
      BY StrategyAssumption
    <3>3. QED BY <3>1, <3>2 DEF HeaderTypes
  <2>4. ReceivedAge(e) \in Nat /\ ReceivedAge(e) >= call.sent - born
    <3>1. ReceivedAge(e) = ReceivedAgeOf(c.date, c.age, now)
      BY <1>5, <1>7 DEF ReceivedAge
    <3>2. c.age = (IF h.age = Absent THEN old.h.age ELSE h.age)
      BY <1>8
    <3>3. /\ ReceivedAgeOf(c.date, c.age, now) \in Nat
          /\ ReceivedAgeOf(c.date, c.age, now) >= call.sent - born
      <4>1. /\ call.sent \in Nat /\ now \in Nat /\ born \in Nat
            /\ born <= now /\ call.sent <= now
        BY <2>1
      <4>2. QED BY <4>1, <2>2, <2>3, <3>2, ValidatedAge, ZenonT(30)
    <3>4. QED BY <3>1, <3>3
  <2>5. ASSUME ~e.leftover PROVE ReceivedAge(e) \in call.sent - born..now - born
    <3>1. h.date # Absent /\ (h.age = Absent => old.h.age = Absent)
      BY <1>7, <2>5
    <3>2. c.date = h.date /\ c.age = h.age
      BY <1>8, <3>1
    <3>3. ReceivedAge(e) = ReceivedAgeOf(h.date, h.age, now)
      BY <1>5, <1>7, <3>2 DEF ReceivedAge
    <3>4. IsDate(h.date) => h.date = born
      BY <1>6, <1>13
    <3>5. ReceivedAgeOf(h.date, h.age, now) \in call.sent - born..now - born
      BY <2>1, <2>2, <2>3, <3>4, DirectAge
    <3>6. QED BY <3>3, <3>5
  <2>6. QED BY <1>7, <2>1, <2>4, <2>5 DEF KeptInTime
<1>14. QED BY <1>9, <1>10, <1>11, <1>12, <1>13 DEF EntryInv

-----------------------------------------------------------------------------
(* The invariant holds at first and after each step.                         *)
LEMMA StrategyInvInit == StrategyInit => StrategyInv
<1> SUFFICES ASSUME StrategyInit PROVE StrategyInv
  OBVIOUS
<1>1. query \in BOOLEAN /\ stepped \in BOOLEAN /\ kept = NothingKept /\ CallInv
  BY Zenon DEF StrategyInit, CallInv
<1>2. now \in Time
  BY StrategyAssumption DEF StrategyInit, Time
<1>3. QED BY <1>1, <1>2 DEF StrategyInv

(* What is served without asking was decided on the entry as it was then.    *)
LEMMA AskKeepsStrategy ==
  ASSUME StrategyInv, Ask
  PROVE  StrategyInv'
<1>1. PICK r \in Requests : CheckCacheBeforeSendRequest(r)
  BY DEF Ask
<1>2. /\ query' = query /\ now' = now /\ kept' = kept /\ stepped' = stepped
  BY DEF Ask
<1>3. now \in Time /\ (kept # NothingKept => EntryInv(kept, now))
  BY DEF StrategyInv
<1>4. PICK at \in {"sent", "served", "refused"}, cached \in {kept, NothingKept} :
        /\ call' = Call(at, r, cached)
        /\ at = "served" => cached # NothingKept /\ UseCache(cached, r.cc, now)
  BY <1>1 DEF CheckCacheBeforeSendRequest, AskNetwork, AskWithoutEntry, AskWithEntry
<1>5. call'.at = at /\ call'.r = r /\ call'.cached = cached /\ call'.sent = now
  BY <1>4 DEF Call
<1>6. now <= now
  BY <1>3, StrategyAssumption DEF Time
<1>7. cached # NothingKept => EntryInv(cached, now)'
  BY <1>2, <1>3, <1>4 DEF EntryInv, KeptTypes, KeptOfSaid, KeptInTime, HeaderTypes, HonestTypes
<1>8. at = "served" => UseCache(cached, r.cc, now)'
  BY <1>2, <1>4 DEF UseCache, Terms, CalculateFreshnessLifetime, SignedLifetime,
     CalculateCacheResponseAge, ResponseTime
<1>9. CallInv'
  BY <1>2, <1>3, <1>4, <1>5, <1>6, <1>7, <1>8 DEF CallInv
<1>10. QED BY <1>2, <1>9 DEF StrategyInv, EntryInv

(* Answer: validated, stored, removed or left.                               *)
LEMMA KeptByAnswer ==
  ASSUME StrategyInv, Answer
  PROVE  kept' # NothingKept => EntryInv(kept', now)
<1>1. call.at = "sent" /\ call # Idle
  BY DEF Answer, Idle
<1>2. PICK a \in Answers, born \in Start..now :
        /\ born < call.sent => a.relayed
        /\ KeepResponse(a.code, Stamped(a, born), born, Honest(a))
  BY DEF Answer
<1> DEFINE h == Stamped(a, born)
           c == CombineCacheAndNetworkHeader(call.cached.h, h)
           said == CombineCacheAndNetworkHeader(call.cached.said, h)
<1>3. CASE call.cached # NothingKept /\ IsValidCacheResponse(call.cached.h, a.code, h)
  <2>1. kept' = Entry(c, said, born, Len(c.cc) > 1 \/ (h.cc = << >> /\ call.cached.lost),
                      h.date = Absent \/ (h.age = Absent /\ call.cached.h.age # Absent),
                      Honest(a) /\ call.cached.honest)
    BY <1>2, <1>3, Zenon DEF KeepResponse
  <2>2. /\ kept'.lost <=> (Len(c.cc) > 1 \/ (h.cc = << >> /\ call.cached.lost))
        /\ kept'.leftover <=> (h.date = Absent \/ (h.age = Absent /\ call.cached.h.age # Absent))
        /\ kept'.honest <=> Honest(a) /\ call.cached.honest
    <3> HIDE DEF c, h
    <3>1. QED BY <2>1, Zenon DEF Entry
  <2>3. Records(kept', c, said, born)
    <3> HIDE DEF c, h, said
    <3>1. QED BY <2>1, Zenon DEF Entry, Records
  <2>4. QED BY <1>1, <1>2, <1>3, <2>2, <2>3, EntryValidated
<1>4. CASE /\ ~(call.cached # NothingKept /\ IsValidCacheResponse(call.cached.h, a.code, h))
           /\ IsCacheable(call.r, a.code, h)
  <2>1. kept' = Entry(h, h, born, Len(h.cc) > 1, FALSE, Honest(a))
    BY <1>2, <1>4, Zenon DEF KeepResponse
  <2>2. (kept'.lost <=> Len(h.cc) > 1) /\ ~kept'.leftover /\ (kept'.honest <=> Honest(a))
    <3> HIDE DEF h
    <3>1. QED BY <2>1, Zenon DEF Entry
  <2>3. Records(kept', h, h, born)
    <3> HIDE DEF h
    <3>1. QED BY <2>1, Zenon DEF Entry, Records
  <2>4. QED BY <1>1, <1>2, <2>2, <2>3, EntryStored
<1>5. CASE kept' \in {kept, NothingKept}
  BY <1>5 DEF StrategyInv
<1>6. QED BY <1>2, <1>3, <1>4, <1>5 DEF KeepResponse

(* Time that passes makes no entry worse; one step back ends what is known   *)
(* of the order of times.                                                    *)
LEMMA ClockKeepsStrategy ==
  ASSUME StrategyInv, Tick \/ StepBack
  PROVE  StrategyInv'
<1>1. query' = query /\ kept' = kept /\ call' = call
  BY DEF Tick, StepBack
<1>2. now \in Int /\ now' \in Time /\ now' \in Int /\ (~stepped' => now <= now' /\ ~stepped)
  BY StrategyAssumption DEF Tick, StepBack, StrategyInv, Time
<1>3. stepped' \in BOOLEAN /\ query' \in BOOLEAN
  BY Zenon DEF Tick, StepBack, StrategyInv
<1>4. ASSUME NEW e, NEW t \in Int, NEW u \in Int, EntryInv(e, t), ~stepped' => t <= u
      PROVE  EntryInv(e, u)'
  <2>1. e.received \in Int
    BY <1>4, StrategyAssumption DEF EntryInv, KeptTypes, Time
  <2>2. /\ KeptTypes(e) /\ KeptOfSaid(e) /\ (e.honest => HonestTypes(e.h))
        /\ ~stepped' => e.received <= u /\ (e.honest => KeptInTime(e))
    BY <1>2, <1>4, <2>1 DEF EntryInv
  <2>3. QED BY <2>2 DEF EntryInv
<1>5. kept' # NothingKept => EntryInv(kept, now)'
  BY <1>1, <1>2, <1>4 DEF StrategyInv
<1>6. CallInv'
  <2> SUFFICES ASSUME call # Idle
               PROVE  CallInv'
    BY <1>1 DEF CallInv
  <2>1. /\ call.at \in {"sent", "served", "refused"}
        /\ call.r \in Requests /\ call.sent \in Time
        /\ ~stepped => call.sent <= now
        /\ call.cached # NothingKept => EntryInv(call.cached, call.sent)
        /\ call.at = "served" =>
             call.cached # NothingKept /\ UseCache(call.cached, call.r.cc, call.sent)
    BY DEF StrategyInv, CallInv
  <2>2. call.sent \in Int /\ call.sent <= call.sent
    BY <2>1, StrategyAssumption DEF Time
  <2>3. call.cached # NothingKept => EntryInv(call.cached, call.sent)'
    BY <1>1, <1>4, <2>1, <2>2
  <2>4. UseCache(call.cached, call.r.cc, call.sent)' = UseCache(call.cached, call.r.cc, call.sent)
    BY <1>1 DEF UseCache, Terms, CalculateFreshnessLifetime, SignedLifetime,
       CalculateCacheResponseAge, ResponseTime
  <2>5. ~stepped' => call.sent <= now'
    BY <1>2, <2>1, <2>2
  <2>6. QED BY <1>1, <2>1, <2>3, <2>4, <2>5 DEF CallInv
<1>7. QED BY <1>2, <1>3, <1>5, <1>6 DEF StrategyInv

(* One step of a user, the server or the clock.                              *)
LEMMA StrategyInvNext == StrategyInv /\ [StrategyNext]_strategyVars => StrategyInv'
<1> SUFFICES ASSUME StrategyInv, [StrategyNext]_strategyVars PROVE StrategyInv'
  OBVIOUS
<1>1. CASE Ask
  BY <1>1, AskKeepsStrategy
<1>2. CASE Answer
  <2>1. query' = query /\ now' = now /\ stepped' = stepped /\ call' = Idle
    BY <1>2 DEF Answer
  <2>2. kept' # NothingKept => EntryInv(kept', now)
    BY <1>2, KeptByAnswer
  <2>3. kept' # NothingKept => EntryInv(kept, now)'
    BY <2>1, <2>2 DEF EntryInv
  <2>4. QED BY <2>1, <2>3 DEF StrategyInv, CallInv
<1>3. CASE Return
  <2>1. query' = query /\ now' = now /\ stepped' = stepped /\ kept' = kept /\ call' = Idle
    BY <1>3 DEF Return
  <2>2. QED BY <2>1 DEF StrategyInv, CallInv, EntryInv
<1>4. CASE Tick \/ StepBack
  BY <1>4, ClockKeepsStrategy
<1>5. CASE UNCHANGED strategyVars
  <2>1. query' = query /\ now' = now /\ stepped' = stepped /\ kept' = kept /\ call' = call
    BY <1>5 DEF strategyVars
  <2>2. UseCache(call.cached, call.r.cc, call.sent)' = UseCache(call.cached, call.r.cc, call.sent)
    BY <2>1 DEF UseCache, Terms, CalculateFreshnessLifetime, SignedLifetime,
       CalculateCacheResponseAge, ResponseTime
  <2>3. CallInv'
    BY <2>1, <2>2 DEF StrategyInv, CallInv, EntryInv
  <2>4. QED BY <2>1, <2>3 DEF StrategyInv, EntryInv
<1>6. QED BY <1>1, <1>2, <1>3, <1>4, <1>5 DEF StrategyNext

(* The inductive invariant: whatever is stored, validated, invalidated and   *)
(* served, and however the clock runs, the entry and the call under way are  *)
(* in order (HttpEngine::execute, HttpCacheStrategy).                        *)
THEOREM StrategyInvariant == StrategySpec => []StrategyInv
<1>1. QED BY StrategyInvInit, StrategyInvNext, PTL DEF StrategySpec

(* resolveCacheResponseAndNetworkRequest decides in unsigned arithmetic as   *)
(* it would with integers, for every entry that answers with any Age and     *)
(* Date, validations and the clock can make, as long as its age fits a long  *)
(* long, and every request whose numbers are not negative.                   *)
THEOREM DecisionsAreExact == StrategySpec => []DecisionIsExact
<1>1. StrategyInv => DecisionIsExact
  <2> SUFFICES ASSUME StrategyInv, kept # NothingKept, SignedAge(kept, now) \in 0..LLMax,
                      NEW r \in Requests, ~Negative(kept, r.cc)
               PROVE  UseCache(kept, r.cc, now) <=> Exact(kept, r.cc, now)
    BY DEF DecisionIsExact
  <2>1. KeptTypes(kept) /\ Len(kept.h.cc) <= 1 /\ now \in Time
    BY DEF StrategyInv, EntryInv, KeptOfSaid
  <2>2. r.cc \in Controls
    BY RequestsAssumption
  <2>3. QED BY <2>1, <2>2, UseIsExact
<1>2. QED BY <1>1, StrategyInvariant, PTL

(* calculateCacheResponseAge never makes a stored response whose Date and    *)
(* Age were true younger than it is, and older by no more than the delay of  *)
(* its exchange.                                                             *)
THEOREM AgesAreWithinDelay == StrategySpec => []AgeIsWithinDelay
<1>1. StrategyInv => AgeIsWithinDelay
  <2> SUFFICES ASSUME StrategyInv, kept # NothingKept, kept.honest, ~stepped
               PROVE  LET age == SignedAge(kept, now) - (now - kept.born)
                      IN  age >= 0 /\ (~kept.leftover => age <= kept.received - kept.sent)
    BY DEF AgeIsWithinDelay
  <2>1. KeptTypes(kept) /\ KeptInTime(kept) /\ kept.received <= now /\ now \in Time
    BY DEF StrategyInv, EntryInv
  <2>2. /\ SignedAge(kept, now) >= now - kept.born
        /\ ~kept.leftover => SignedAge(kept, now) - (now - kept.born) <= kept.received - kept.sent
    BY <2>1, AgeCountsFromBirth
  <2>3. SignedAge(kept, now) \in Int /\ now \in Int /\ kept.born \in Int
    BY <2>1, AgeIsInteger, StrategyAssumption DEF KeptTypes, Time
  <2>4. QED BY <2>2, <2>3
<1>2. QED BY <1>1, StrategyInvariant, PTL

(* What is known of a response that is served from the cache.                *)
LEMMA ServedExactly ==
  ASSUME StrategyInv, call.at = "served", ~Doubtful(call.cached, call.r.cc)
  PROVE  LET e == call.cached
             c == call.r.cc
         IN  /\ KeptTypes(e) /\ KeptOfSaid(e) /\ KeptInTime(e) /\ ~e.lost
             /\ call.sent \in Time /\ e.received <= call.sent
             /\ c \in Controls /\ ~Negative(e, c)
             /\ CacheControl(e.said).maxAge # -1 \/ e.said.expires # Unreadable
             /\ SignedAge(e, call.sent) \in 0..LLMax
             /\ SignedAge(e, call.sent) >= call.sent - e.born
             /\ Exact(e, c, call.sent)
<1> DEFINE e == call.cached
           c == call.r.cc
<1>1. call # Idle
  BY DEF Idle
<1>2. /\ call.r \in Requests /\ call.sent \in Time /\ e # NothingKept
      /\ EntryInv(e, call.sent) /\ UseCache(e, c, call.sent)
  BY <1>1 DEF StrategyInv, CallInv
<1>3. /\ ~stepped /\ ~e.lost /\ e.honest /\ ~Negative(e, c)
      /\ CacheControl(e.said).maxAge # -1 \/ e.said.expires # Unreadable
  BY Zenon DEF Doubtful
<1>4. /\ KeptTypes(e) /\ KeptOfSaid(e) /\ HonestTypes(e.h)
      /\ KeptInTime(e) /\ e.received <= call.sent
  BY <1>2, <1>3 DEF EntryInv
<1>5. c \in Controls
  BY <1>2, RequestsAssumption
<1>6. SignedAge(e, call.sent) \in 0..LLMax /\ SignedAge(e, call.sent) >= call.sent - e.born
  <2>1. SignedAge(e, call.sent) \in Int /\ SignedAge(e, call.sent) <= LLMax
    BY <1>2, <1>4, AgeIsInteger, AgeIsBounded
  <2>2. SignedAge(e, call.sent) >= 0 /\ SignedAge(e, call.sent) >= call.sent - e.born
    BY <1>2, <1>4, AgeCountsFromBirth
  <2> HIDE DEF e
  <2>3. QED BY <2>1, <2>2, StrategyAssumption
<1>7. Exact(e, c, call.sent)
  <2>1. Len(e.h.cc) <= 1
    BY <1>4 DEF KeptOfSaid
  <2> HIDE DEF e, c
  <2>2. QED BY <1>2, <1>3, <1>4, <1>5, <1>6, <2>1, UseIsExact
<1>8. QED BY <1>2, <1>3, <1>4, <1>5, <1>6, <1>7

(* The comparison of integers, solved for the moment of the request.         *)
LEMMA ServedInTime == StrategyInv => ServedBeforeDeadline
<1> SUFFICES ASSUME StrategyInv, call.at = "served", ~Doubtful(call.cached, call.r.cc)
             PROVE  LET e == call.cached
                        c == call.r.cc
                        t == call.sent + Larger(0, c.minFresh)
                              - IF CacheControl(e.said).mustRevalidate THEN 0 ELSE Larger(0, c.maxStale)
                    IN  t < Deadline(e) /\ (c.maxAge # -1 => t < e.born + c.maxAge)
  BY DEF ServedBeforeDeadline
<1> DEFINE e == call.cached
           c == call.r.cc
           s == call.sent
           fresh == IF c.maxAge = -1 THEN SignedLifetime(e) ELSE Smaller(SignedLifetime(e), c.maxAge)
           stale == IF CacheControl(e.h).mustRevalidate THEN 0 ELSE Larger(0, c.maxStale)
           d == Larger(0, c.minFresh) - stale
<1>1. /\ KeptTypes(e) /\ KeptOfSaid(e) /\ KeptInTime(e) /\ ~e.lost
      /\ s \in Time /\ e.received <= s /\ c \in Controls
      /\ CacheControl(e.said).maxAge # -1 \/ e.said.expires # Unreadable
      /\ SignedAge(e, s) >= s - e.born
      /\ Exact(e, c, s)
  BY ServedExactly
<1>2. c.maxAge \in Int /\ c.minFresh \in Int /\ c.maxStale \in Int
  BY <1>1, StrategyAssumption DEF Controls, LongLong
<1>3. SignedLifetime(e) \in Int /\ SignedAge(e, s) \in Int /\ s \in Int /\ e.born \in Int
  <2>1. LongLong \subseteq Int /\ Time \subseteq Int
    BY StrategyAssumption DEF LongLong, Time
  <2>2. SignedLifetime(e) \in LongLong /\ SignedAge(e, s) \in Int
    BY <1>1, LifetimeIsBounded, AgeIsInteger DEF KeptOfSaid
  <2>3. QED BY <1>1, <2>1, <2>2 DEF KeptTypes
<1>4. CacheControl(e.said).mustRevalidate = CacheControl(e.h).mustRevalidate
  BY <1>1 DEF KeptOfSaid, CacheControl
<1>5. Larger(0, c.minFresh) \in Int /\ stale \in Int /\ d \in Int
  BY <1>2 DEF Larger
<1>6. SignedAge(e, s) + Larger(0, c.minFresh) < fresh + stale
  BY <1>1 DEF Exact
<1>7. fresh \in Int /\ fresh <= SignedLifetime(e) /\ (c.maxAge # -1 => fresh <= c.maxAge)
  BY <1>2, <1>3 DEF Smaller
<1> HIDE DEF e, c, s, fresh, stale
<1>8. SignedAge(e, s) + d < SignedLifetime(e)
  BY <1>3, <1>5, <1>6, <1>7
<1>9. s + d < Deadline(e)
  <2> HIDE DEF d
  <2>1. QED BY <1>1, <1>5, <1>8, FreshIsBeforeDeadline
<1>10. c.maxAge # -1 => s + d < e.born + c.maxAge
  BY <1>1, <1>2, <1>3, <1>5, <1>6, <1>7
<1>11. s + Larger(0, c.minFresh)
         - (IF CacheControl(e.said).mustRevalidate THEN 0 ELSE Larger(0, c.maxStale)) = s + d
  BY <1>3, <1>4, <1>5 DEF stale
<1>12. QED BY <1>9, <1>10, <1>11 DEF e, c, s

(* The cache serves without asking the server only what it may: before the   *)
(* deadline the server set, as far as the request moves it, and never a      *)
(* response with no-cache (HttpCacheStrategy, combineCacheAndNetworkHeader). *)
THEOREM WhatIsServedMayBe == StrategySpec => []ServedRightly
<1>1. StrategyInv => StrategyTypeOK
  BY StrategyAssumption
  DEF StrategyInv, CallInv, EntryInv, KeptTypes, KeptOfSaid, StrategyTypeOK, Time, Idle
<1>2. StrategyInv => NoCacheIsValidated
  <2> SUFFICES ASSUME StrategyInv, call.at = "served", ~call.cached.lost
               PROVE  ~CacheControl(call.cached.said).noCache
    BY DEF NoCacheIsValidated
  <2>1. EntryInv(call.cached, call.sent) /\ UseCache(call.cached, call.r.cc, call.sent)
    BY DEF StrategyInv, CallInv, Idle
  <2>2. ~CacheControl(call.cached.h).noCache
    BY <2>1 DEF UseCache
  <2>3. call.cached.h.cc = call.cached.said.cc /\ call.cached.h.pragma = call.cached.said.pragma
    BY <2>1 DEF EntryInv, KeptOfSaid
  <2>4. CacheControl(call.cached.h) = CacheControl(call.cached.said)
    <3> DEFINE control(cc, pragma) ==
                 LET ds == FlattenSeq(cc)
                     flag(d) == \E i \in DOMAIN ds : ds[i][1] = d
                 IN  [maxAge |-> Param(ds, "max-age"), mustRevalidate |-> flag("must-revalidate"),
                      noCache |-> flag("no-cache") \/ pragma, noStore |-> flag("no-store"),
                      public |-> flag("public"), private |-> flag("private")]
    <3>1. /\ CacheControl(call.cached.h) = control(call.cached.h.cc, call.cached.h.pragma)
          /\ CacheControl(call.cached.said) = control(call.cached.said.cc, call.cached.said.pragma)
      BY Zenon DEF CacheControl
    <3> HIDE DEF control
    <3>2. QED BY <2>3, <3>1
  <2>5. QED BY <2>2, <2>4
<1>3. StrategyInv => ServedRightly
  BY <1>1, <1>2, ServedInTime DEF ServedRightly
<1>4. QED BY <1>3, StrategyInvariant, PTL

(* A response that is served past its deadline carries the warning for       *)
(* stale responses (resolveCacheResponseAndNetworkRequest).                  *)
THEOREM StaleIsAlwaysMarked == StrategySpec => []StaleIsMarked
<1>1. StrategyInv => StaleIsMarked
  <2> SUFFICES ASSUME StrategyInv, call.at = "served", ~Doubtful(call.cached, call.r.cc),
                      call.sent >= Deadline(call.cached)
               PROVE  "stale" \in Warnings(call.cached, call.r.cc, call.sent)
    BY DEF StaleIsMarked
  <2> DEFINE e == call.cached
             c == call.r.cc
             s == call.sent
             x == Terms(e, c, s)
  <2>1. /\ KeptTypes(e) /\ KeptOfSaid(e) /\ KeptInTime(e) /\ ~e.lost
        /\ s \in Time /\ e.received <= s /\ c \in Controls /\ ~Negative(e, c)
        /\ CacheControl(e.said).maxAge # -1 \/ e.said.expires # Unreadable
        /\ SignedAge(e, s) \in 0..LLMax
    BY ServedExactly
  <2>2. Len(e.h.cc) <= 1
    BY <2>1 DEF KeptOfSaid
  <2> HIDE DEF e, c, s
  <2>3. /\ x.age = SignedAge(e, s) /\ x.minFresh = Larger(0, c.minFresh)
        /\ x.fresh = (IF c.maxAge = -1 THEN SignedLifetime(e) ELSE Smaller(SignedLifetime(e), c.maxAge))
        /\ Plus(x.age, x.minFresh) = x.age + x.minFresh
    BY <2>1, <2>2, TermsAreExact
  <2> HIDE DEF x
  <2>4. /\ SignedLifetime(e) \in Int /\ SignedAge(e, s) \in Int /\ s \in Int
        /\ c.maxAge \in Int /\ c.minFresh \in Int
    <3>1. LongLong \subseteq Int /\ Time \subseteq Int
      BY StrategyAssumption DEF LongLong, Time
    <3>2. SignedLifetime(e) \in LongLong /\ SignedAge(e, s) \in Int
      BY <2>1, <2>2, LifetimeIsBounded, AgeIsInteger
    <3>3. QED BY <2>1, <3>1, <3>2 DEF Controls
  <2>5. SignedAge(e, s) >= SignedLifetime(e)
    <3>1. ~(SignedAge(e, s) + 0 < SignedLifetime(e)) \/ s + 0 < Deadline(e)
      BY <2>1, FreshIsBeforeDeadline
    <3>2. s + 0 = s /\ SignedAge(e, s) + 0 = SignedAge(e, s)
      BY <2>4
    <3>3. s >= Deadline(e)
      BY DEF e, s
    <3>4. ~(s < Deadline(e))
      BY <2>1, <2>4, <3>3, DeadlineIsInteger
    <3>5. QED BY <2>4, <3>1, <3>2, <3>4
  <2>6. x.fresh \in Int /\ x.fresh <= SignedLifetime(e)
    BY <2>3, <2>4 DEF Smaller
  <2>7. x.minFresh \in Nat
    BY <2>3, <2>4 DEF Larger
  <2>8. Plus(x.age, x.minFresh) >= x.fresh
    BY <2>3, <2>4, <2>5, <2>6, <2>7
  <2>9. QED BY <2>8 DEF Warnings, x, e, c, s
<1>2. QED BY <1>1, StrategyInvariant, PTL
=============================================================================
