------------------------ MODULE HttpFileCache_proof ------------------------
(***************************************************************************)
(* Theorems about the file cache: its index, its readers, and what a crash *)
(* or a failed step leaves on the disk.                                    *)
(*                                                                         *)
(* The properties speak of the cache between operations, or of single      *)
(* variables.  CacheInv follows the operation that holds the mutex: what   *)
(* it has still to remove or to enumerate, which space it has made, and    *)
(* where the key that put stores stands at each of its stages.             *)
(***************************************************************************)
EXTENDS HttpFileCache, FiniteSetTheorems, SequenceTheorems, TLAPS

CacheTypes ==
  /\ row \in [Key -> Body \cup {NoBody}] /\ file \in [Key -> Body \cup {NoBody}]
  /\ initialized \in BOOLEAN
  /\ lruList \in Seq(Key)
  /\ info \in [Key -> [size : Nat, refs : Nat, reserved : BOOLEAN]]
  /\ totalSize \in Int
  /\ at \in {"idle", "drain", "purged", "check", "space", "move", "row", "add",
             "clean", "cleanThenMove"}
  /\ call \in [key : Key \cup {NoKey}, body : Body \cup {NoBody}, ok : BOOLEAN]
  /\ todo \subseteq Key /\ victim \in Key \cup {NoKey}
  /\ rest \subseteq Key /\ cur \in Key \cup {NoKey} /\ tried \in BOOLEAN
  /\ stream \in [Stream -> [key : Key, body : Body] \cup {NoStream}]
  /\ draft \in [Updater -> [key : Key, body : Body] \cup {NoDraft}]
  /\ faults \in 0..MaxFaults /\ accidents \in 0..MaxAccidents
  /\ muddled \subseteq Key /\ stale \subseteq Key

(* A key is in the list once, and the map has nothing else.                  *)
ListIsIndex ==
  /\ \A i, j \in DOMAIN lruList : lruList[i] = lruList[j] => i = j
  /\ \A k \in Key \ Indexed : info[k] = NoInfo

-----------------------------------------------------------------------------
(* Sums: of the sizes in any table of infos, so that the tables before and   *)
(* after a step can be compared.                                             *)
Infos == [Key -> [size : Nat, refs : Nat, reserved : BOOLEAN]]
BytesIn(t, S) == UNION {{k} \X (1..t[k].size) : k \in S}
Sum(t, S) == Cardinality(BytesIn(t, S))

-----------------------------------------------------------------------------
(* The operation that holds the mutex.                                       *)
Removals == todo \cup ({victim} \ {NoKey})
PutsKey == at \in {"check", "space", "move", "row", "add", "cleanThenMove"}

(* Pending removals are of indexed keys, enumerated rows are not indexed.    *)
Pending ==
  /\ Removals \subseteq Indexed /\ victim \notin todo
  /\ victim # NoKey => row[victim] = NoBody
  /\ \A k \in rest : k \notin Indexed /\ row[k] # NoBody
  /\ cur # NoKey => cur \notin Indexed /\ cur \notin rest /\ row[cur] # NoBody

Stages ==
  /\ Idle => Ready /\ ~tried /\ call = NoCall
  /\ PutsKey => call.key \in Key /\ call.body \in Body
  /\ ~initialized => /\ Indexed = {} /\ rest = {} /\ cur = NoKey
                     /\ at \in {"idle", "clean", "cleanThenMove", "move", "row"}
  /\ at \in {"clean", "cleanThenMove"} => ~initialized
  /\ at \notin {"drain", "check", "row"} => rest = {} /\ cur = NoKey
  /\ tried => at = "add" \/ cur # NoKey
  /\ at = "purged" /\ call.ok => Indexed = Removals

(* Only purge removes entries that are read.                                 *)
RemovedAreUnused ==
  /\ at # "purged" => \A k \in Removals : info[k].refs = 0
  /\ rest # {} \/ cur # NoKey => \A k \in Key : info[k].refs = 0
  /\ at \in {"space", "move", "row", "add"} => info[call.key].refs = 0

-----------------------------------------------------------------------------
(* As long as nothing has failed.                                            *)
RowsOfIndex ==
  /\ \A k \in Indexed : row[k] # NoBody \/ k = victim
  /\ \A k \in Indexed \ stale : row[k] # NoBody => info[k].size = Size[row[k]]
  /\ initialized => \A k \in Key : Indexable(k) =>
       k \in Indexed \/ k \in rest \/ k = cur \/ (at = "add" /\ k = call.key)

ReservedIsPending == \A k \in Key : info[k].reserved => info[k].refs > 0 \/ k \in Removals

(* The space that is there when the pending removals are done.               *)
WillFit(size) == totalSize - Sum(info, Removals) + size <= MaxSize

SpaceMade ==
  /\ totalSize <= MaxSize
  /\ ~tried
  /\ cur # NoKey => WillFit(Size[row[cur]])
  /\ at \in {"move", "row", "add"} => Indexed = {} \/ WillFit(Size[call.body])

(* Put has taken the old entry away before it stores the new body, and the   *)
(* new body is in place before its row.                                      *)
PutInOrder ==
  /\ at = "space" /\ call.key \in Indexed => call.key \in Removals
  /\ at \in {"move", "row", "add"} => call.key \notin Indexed
  /\ at \in {"row", "add"} => NoRemovalPending /\ rest = {} /\ cur = NoKey
  /\ at \in {"row", "add"} => file[call.key] = call.body
  /\ at = "add" => row[call.key] = call.body
  /\ ~initialized /\ ~Idle => \A k \in Key : row[k] = NoBody

FaultFree ==
  /\ RowsOfIndex /\ ReservedIsPending /\ SpaceMade /\ PutInOrder
  /\ \A k \in Key \ stale : Indexable(k) => file[k] = row[k]

-----------------------------------------------------------------------------
(* As long as there was no crash and no corruption: nothing was enumerated,  *)
(* and a row can only stay behind where a step has failed.                   *)
PairedBodies ==
  \A k \in Key \ stale :
    row[k] # NoBody /\ file[k] # NoBody => row[k] = file[k] \/ (at = "row" /\ k = call.key)

AccidentFree ==
  /\ rest = {} /\ cur = NoKey /\ at \notin {"clean", "cleanThenMove"}
  /\ ~initialized => \A k \in Key : row[k] = NoBody
  /\ at = "row" => NoRemovalPending
  /\ at \in {"row", "add"} => file[call.key] = call.body
  /\ at = "add" => row[call.key] = call.body /\ call.key \notin Removals
  /\ NothingFailed =>
       /\ \A k \in Key : row[k] # NoBody => k \in Indexed \/ (at = "add" /\ k = call.key)
       /\ at \in {"move", "row", "add"} => WillFit(Size[call.body])
  /\ faults <= 2 => PairedBodies

CacheInv ==
  /\ CacheTypes /\ ListIsIndex /\ TotalIsSum
  /\ Pending /\ Stages
  /\ RemovedAreUnused /\ PinsMatchReaders /\ ReadersKeepTheirBody
  /\ NothingFailed => FaultFree
  /\ accidents = 0 => AccidentFree

-----------------------------------------------------------------------------
(* Lists: what erase and push_front leave in the list.                       *)
Distinct(s) == \A i, j \in DOMAIN s : s[i] = s[j] => i = j
Elements(s) == {s[i] : i \in DOMAIN s}

LEMMA WithoutKey ==
  ASSUME lruList \in Seq(Key), Distinct(lruList), NEW k
  PROVE  /\ Without(k) \in Seq(Key) /\ Distinct(Without(k))
         /\ Elements(Without(k)) = Indexed \ {k}
<1>1. CASE k \notin Indexed
  BY <1>1 DEF Without, Indexed, Elements
<1>2. CASE k \in Indexed
  <2> DEFINE n == Len(lruList)
             p == Position(k)
             a == SubSeq(lruList, 1, p - 1)
             b == SubSeq(lruList, p + 1, n)
             w == a \o b
  <2>1. n \in Nat /\ DOMAIN lruList = 1..n /\ \A i \in 1..n : lruList[i] \in Key
    BY LenProperties, ElementOfSeq
  <2>2. p \in 1..n /\ lruList[p] = k
    BY <1>2, <2>1 DEF Position, Indexed
  <2>3. /\ a \in Seq(Key) /\ Len(a) = p - 1
        /\ \A i \in 1..(p - 1) : a[i] = lruList[i]
    BY <2>1, <2>2, SubSeqProperties
  <2>4. /\ b \in Seq(Key) /\ Len(b) = n - p
        /\ \A i \in 1..(n - p) : b[i] = lruList[p + i]
    BY <2>1, <2>2, SubSeqProperties
  <2> HIDE DEF a, b
  <2>5. /\ w \in Seq(Key) /\ Len(w) = n - 1 /\ DOMAIN w = 1..(n - 1)
        /\ \A i \in 1..(n - 1) : w[i] = IF i < p THEN lruList[i] ELSE lruList[i + 1]
    <3>1. /\ w \in Seq(Key) /\ Len(w) = Len(a) + Len(b)
          /\ \A i \in 1..(Len(a) + Len(b)) :
               w[i] = IF i <= Len(a) THEN a[i] ELSE b[i - Len(a)]
      BY <2>3, <2>4, ConcatProperties
    <3> HIDE DEF w
    <3>2. Len(w) = n - 1 /\ DOMAIN w = 1..(n - 1)
      BY <3>1, <2>1, <2>2, <2>3, <2>4, LenProperties
    <3>3. ASSUME NEW i \in 1..(n - 1)
          PROVE  w[i] = IF i < p THEN lruList[i] ELSE lruList[i + 1]
      <4>1. CASE i < p
        BY <4>1, <3>1, <2>1, <2>2, <2>3, <2>4
      <4>2. CASE i >= p
        <5>1. i - (p - 1) \in 1..(n - p) /\ p + (i - (p - 1)) = i + 1
          BY <4>2, <2>1, <2>2
        <5>2. i \in 1..(Len(a) + Len(b)) /\ ~(i <= Len(a))
          BY <4>2, <2>1, <2>2, <2>3, <2>4
        <5>3. w[i] = b[i - (p - 1)]
          BY <5>2, <3>1, <2>3
        <5>4. QED BY <5>1, <5>3, <4>2, <2>2, <2>4
      <4>3. QED BY <4>1, <4>2, <2>1, <2>2
    <3>4. QED BY <3>1, <3>2, <3>3
  <2> HIDE DEF w
  <2>6. Distinct(w)
    <3> DEFINE from(i) == IF i < p THEN i ELSE i + 1
    <3>1. \A i \in 1..(n - 1) : from(i) \in 1..n /\ w[i] = lruList[from(i)]
      BY <2>1, <2>2, <2>5
    <3>2. \A i, j \in 1..(n - 1) : from(i) = from(j) => i = j
      BY ONLY <2>1, <2>2
    <3> HIDE DEF from
    <3>3. QED BY <3>1, <3>2, <2>1, <2>5 DEF Distinct
  <2>7. Elements(w) \subseteq Indexed \ {k}
    BY <2>1, <2>2, <2>5 DEF Distinct, Elements, Indexed
  <2>8. ASSUME NEW x \in Indexed \ {k} PROVE x \in Elements(w)
    <3>1. PICK i \in 1..n : lruList[i] = x /\ i # p
      BY <2>1, <2>2 DEF Indexed
    <3>2. CASE i < p
      <4>1. i \in DOMAIN w /\ w[i] = x
        BY <3>1, <3>2, <2>1, <2>2, <2>5
      <4>2. QED BY <4>1 DEF Elements
    <3>3. CASE i > p
      <4>1. i - 1 \in DOMAIN w /\ w[i - 1] = x
        BY <3>1, <3>3, <2>1, <2>2, <2>5
      <4>2. QED BY <4>1 DEF Elements
    <3>4. QED BY <3>1, <3>2, <3>3, <2>1, <2>2
  <2>9. Without(k) = w
    BY <1>2 DEF Without, w, a, b
  <2>10. QED BY <2>5, <2>6, <2>7, <2>8, <2>9
<1>3. QED BY <1>1, <1>2

LEMMA KeyInFront ==
  ASSUME lruList \in Seq(Key), Distinct(lruList), NEW k \in Key
  PROVE  /\ Front(k) \in Seq(Key) /\ Distinct(Front(k))
         /\ Elements(Front(k)) = Indexed \cup {k}
<1> DEFINE w == Without(k)
           f == Front(k)
<1>1. w \in Seq(Key) /\ Distinct(w) /\ Elements(w) = Indexed \ {k}
  BY WithoutKey
<1>2. <<k>> \in Seq(Key) /\ Len(<<k>>) = 1 /\ <<k>>[1] = k
  OBVIOUS
<1>3. f = <<k>> \o w
  BY DEF Front
<1> HIDE DEF w, f
<1>4. /\ Len(w) \in Nat /\ DOMAIN w = 1..Len(w)
      /\ f \in Seq(Key) /\ DOMAIN f = 1..(Len(w) + 1) /\ f[1] = k
      /\ \A i \in 1..(Len(w) + 1) : i # 1 => f[i] = w[i - 1]
  BY <1>1, <1>2, <1>3, ConcatProperties, LenProperties
<1>5. Distinct(f)
  <2>1. \A i \in 1..Len(w) : w[i] # k
    BY <1>1, <1>4 DEF Elements
  <2>2. \A i \in DOMAIN f : i # 1 => i - 1 \in 1..Len(w)
    BY <1>4
  <2>3. \A i \in DOMAIN f : i # 1 => f[i] = w[i - 1] /\ f[i] # k
    BY <1>4, <2>1, <2>2
  <2>4. SUFFICES ASSUME NEW i \in DOMAIN f, NEW j \in DOMAIN f, f[i] = f[j]
                 PROVE  i = j
    BY DEF Distinct
  <2>5. CASE i # 1 /\ j # 1
    BY <2>2, <2>3, <2>4, <2>5, <1>1, <1>4 DEF Distinct
  <2>6. QED BY <2>3, <2>4, <2>5, <1>4
<1>6. Elements(f) = Indexed \cup {k}
  <2>1. ASSUME NEW x \in Elements(f), x # k PROVE x \in Elements(w)
    <3>1. PICK i \in 1..(Len(w) + 1) : f[i] = x
      BY <1>4 DEF Elements
    <3>2. i - 1 \in DOMAIN w /\ w[i - 1] = x
      BY <2>1, <3>1, <1>4
    <3>3. QED BY <3>2 DEF Elements
  <2>2. k \in Elements(f)
    BY <1>4 DEF Elements
  <2>3. ASSUME NEW x \in Elements(w) PROVE x \in Elements(f)
    <3>1. PICK i \in 1..Len(w) : w[i] = x
      BY <1>4 DEF Elements
    <3>2. i + 1 \in DOMAIN f /\ f[i + 1] = x
      BY <3>1, <1>4
    <3>3. QED BY <3>2 DEF Elements
  <2>4. QED BY <1>1, <2>1, <2>2, <2>3
<1>7. QED BY <1>4, <1>5, <1>6 DEF f

-----------------------------------------------------------------------------
(* Sums of sizes.                                                            *)
LEMMA TotalIsASum ==
  /\ \A S : TotalOf(S) = Sum(info, S)
  /\ TotalIsSum <=> totalSize = Sum(info, Indexed)
BY DEF TotalIsSum, TotalOf, Bytes, Sum, BytesIn

LEMMA FirstNumbers ==
  ASSUME NEW n \in Nat
  PROVE  IsFiniteSet(1..n) /\ Cardinality(1..n) = n
<1>1. 1 \in Int /\ n \in Int
  OBVIOUS
<1>2. /\ IsFiniteSet(1..n)
      /\ Cardinality(1..n) = IF 1 > n THEN 0 ELSE n - 1 + 1
  BY ONLY <1>1, FS_Interval
<1>3. QED BY <1>2

LEMMA BytesAreFinite ==
  ASSUME NEW t \in Infos, NEW S \in SUBSET Key, IsFiniteSet(S)
  PROVE  IsFiniteSet(BytesIn(t, S))
<1> DEFINE B(k) == {k} \X (1..t[k].size)
<1>1. ASSUME NEW k \in S PROVE IsFiniteSet(B(k))
  <2>1. t[k].size \in Nat
    BY DEF Infos
  <2>2. IsFiniteSet(1..t[k].size) /\ IsFiniteSet({k})
    BY <2>1, FirstNumbers, FS_Singleton
  <2>3. QED BY <2>2, FS_Product
<1> DEFINE Bs == {B(k) : k \in S}
<1>2. IsFiniteSet(Bs)
  <2> DEFINE f == [k \in S |-> B(k)]
  <2>1. f \in Surjection(S, Bs)
    BY DEF Surjection
  <2>2. QED BY <2>1, FS_Surjection
<1>3. \A T \in Bs : IsFiniteSet(T)
  BY <1>1
<1>4. IsFiniteSet(UNION Bs)
  <2> HIDE DEF Bs
  <2>1. QED BY <1>2, <1>3, FS_UNION
<1>5. QED BY <1>4 DEF BytesIn

LEMMA SumOfNone == \A t : Sum(t, {}) = 0
<1>1. \A t : BytesIn(t, {}) = {}
  BY DEF BytesIn
<1>2. QED BY <1>1, FS_EmptySet DEF Sum

LEMMA SumWithKey ==
  ASSUME NEW t \in Infos, NEW S \in SUBSET Key, IsFiniteSet(S), NEW k \in Key \ S
  PROVE  /\ Sum(t, S) \in Nat
         /\ Sum(t, S \cup {k}) = Sum(t, S) + t[k].size
<1> DEFINE B == {k} \X (1..t[k].size)
<1>1. t[k].size \in Nat
  BY DEF Infos
<1>2. IsFiniteSet(B) /\ Cardinality(B) = t[k].size
  <2>1. IsFiniteSet(1..t[k].size) /\ Cardinality(1..t[k].size) = t[k].size
    BY <1>1, FirstNumbers
  <2>2. IsFiniteSet({k}) /\ Cardinality({k}) = 1
    BY FS_Singleton
  <2>3. IsFiniteSet(B) /\ Cardinality(B) = Cardinality({k}) * Cardinality(1..t[k].size)
    BY <2>1, <2>2, FS_Product
  <2>4. QED BY <1>1, <2>1, <2>2, <2>3
<1>3. BytesIn(t, S \cup {k}) = BytesIn(t, S) \cup B
  BY DEF BytesIn
<1>4. BytesIn(t, S) \cap B = {}
  BY DEF BytesIn
<1>5. IsFiniteSet(BytesIn(t, S))
  BY BytesAreFinite
<1> HIDE DEF B
<1>6. Cardinality(BytesIn(t, S)) \in Nat /\ Cardinality(B) \in Nat /\ Cardinality({}) = 0
  BY <1>2, <1>5, FS_CardinalityType, FS_EmptySet
<1> DEFINE A == BytesIn(t, S)
<1>7. Cardinality(A \cup B) = Cardinality(A) + Cardinality(B)
  <2>1. IsFiniteSet(A) /\ IsFiniteSet(B)
    BY <1>2, <1>5
  <2>2. A \cap B = {} /\ Cardinality(A) \in Nat /\ Cardinality(B) \in Nat
    BY <1>4, <1>6
  <2> HIDE DEF A
  <2>3. Cardinality(A \cup B) = Cardinality(A) + Cardinality(B) - Cardinality(A \cap B)
    BY <2>1, FS_Union
  <2>4. Cardinality(A \cap B) = 0
    BY <2>2, FS_EmptySet, Zenon
  <2>5. QED BY <2>2, <2>3, <2>4
<1>8. QED BY <1>2, <1>3, <1>6, <1>7 DEF Sum

LEMMA SumWithoutKey ==
  ASSUME NEW t \in Infos, NEW S \in SUBSET Key, IsFiniteSet(S), NEW k \in S
  PROVE  Sum(t, S \ {k}) = Sum(t, S) - t[k].size /\ Sum(t, S) \in Nat
<1>1. IsFiniteSet(S \ {k}) /\ k \in Key \ (S \ {k}) /\ (S \ {k}) \cup {k} = S
  BY FS_Difference
<1>2. Sum(t, S \ {k}) \in Nat /\ Sum(t, S) = Sum(t, S \ {k}) + t[k].size
  BY <1>1, SumWithKey
<1>3. t[k].size \in Nat
  BY DEF Infos
<1>4. QED BY <1>2, <1>3

LEMMA SumsAgree ==
  ASSUME NEW t, NEW u, NEW S, \A k \in S : t[k].size = u[k].size
  PROVE  Sum(t, S) = Sum(u, S)
<1>1. BytesIn(t, S) = BytesIn(u, S)
  BY DEF BytesIn
<1>2. QED BY <1>1 DEF Sum

LEMMA SumsAreOrdered ==
  ASSUME NEW t \in Infos, NEW S \in SUBSET Key, IsFiniteSet(S), NEW T \in SUBSET S
  PROVE  Sum(t, T) <= Sum(t, S) /\ Sum(t, S) \in Nat /\ Sum(t, T) \in Nat
<1>1. IsFiniteSet(BytesIn(t, S))
  BY BytesAreFinite
<1>2. BytesIn(t, T) \subseteq BytesIn(t, S)
  BY DEF BytesIn
<1>3. QED BY <1>1, <1>2, FS_Subset, FS_CardinalityType DEF Sum

(* The index is finite.                                                      *)
LEMMA IndexIsFinite ==
  ASSUME CacheTypes
  PROVE  IsFiniteSet(Indexed) /\ Indexed \subseteq Key
<1>1. Len(lruList) \in Nat /\ DOMAIN lruList = 1..Len(lruList) /\ lruList \in [1..Len(lruList) -> Key]
  BY LenProperties DEF CacheTypes
<1>2. IsFiniteSet(1..Len(lruList))
  BY <1>1, FirstNumbers
<1>3. lruList \in Surjection(1..Len(lruList), Indexed)
  BY <1>1 DEF Surjection, Indexed
<1>4. QED BY <1>1, <1>2, <1>3, FS_Surjection DEF Indexed

(* makeSpace takes the shortest tail: the cuts, if any, have a largest one.  *)
LEMMA LargestCut ==
  ASSUME CacheTypes, NEW size, Cuts(size) # {}
  PROVE  Max(Cuts(size)) \in Cuts(size)
<1> DEFINE n == Len(lruList)
           From(i) == i..n
           T == {From(i) : i \in Cuts(size)}
           F == FiniteSubsetsOf(Nat)
           R == StrictSubsetOrdering(Nat)
<1>1. n \in Nat /\ Cuts(size) \subseteq 1..n
  BY LenProperties DEF CacheTypes, Cuts
<1>2. \A i \in 1..n : From(i) \in F
  BY <1>1, FS_Interval DEF FiniteSubsetsOf
<1>3. PICK x \in T : \A y \in T : <<y, x>> \notin R
  <2>1. IsWellFoundedOn(R, F)
    BY FS_StrictSubsetOrderingWellFounded
  <2>2. T \subseteq F /\ T # {}
    BY <1>1, <1>2
  <2> HIDE DEF R, T, F
  <2>3. QED BY <2>1, <2>2, WFMin
<1>4. PICK m \in Cuts(size) : x = From(m)
  BY <1>3
<1>5. ASSUME NEW i \in Cuts(size), ~(m >= i) PROVE FALSE
  <2>1. From(i) \subseteq From(m) /\ m \in From(m) /\ m \notin From(i)
    BY <1>1, <1>5
  <2>2. From(i) \in SUBSET Nat /\ From(m) \in SUBSET Nat
    BY <1>1
  <2>3. <<From(i), From(m)>> \in R
    BY <2>1, <2>2 DEF StrictSubsetOrdering
  <2>4. QED BY <2>3, <1>3, <1>4
<1>6. QED BY <1>5 DEF Max

LEMMA VictimsMakeRoom ==
  ASSUME CacheAssumption, CacheTypes, TotalIsSum, NEW size \in Nat, CanMakeSpace(size)
  PROVE  /\ \A k \in Victims(size) : Unused(k)
         /\ totalSize - Sum(info, Victims(size)) + size <= MaxSize
<1>1. info \in Infos /\ MaxSize \in Nat /\ totalSize \in Int
  BY DEF CacheTypes, CacheAssumption, Infos
<1>2. CASE Fits(size)
  <2>1. Victims(size) = {}
    BY <1>2 DEF Victims
  <2>2. QED BY <2>1, <1>1, <1>2, SumOfNone DEF Fits
<1>3. CASE ~Fits(size)
  <2> DEFINE m == Max(Cuts(size))
             V == UnusedFrom(m)
  <2>1. m \in Cuts(size)
    BY <1>3, LargestCut DEF CanMakeSpace
  <2>2. V = Victims(size) /\ \A k \in V : Unused(k)
    BY <1>3 DEF Victims, UnusedFrom
  <2>3. Sum(info, V) >= totalSize + size - MaxSize
    BY <2>1, TotalIsASum DEF Cuts
  <2>4. IsFiniteSet(Indexed) /\ Indexed \subseteq Key /\ V \subseteq Indexed
    BY <2>2, IndexIsFinite DEF Unused
  <2> HIDE DEF V
  <2>5. Sum(info, V) \in Nat
    BY <1>1, <2>4, SumsAreOrdered
  <2>6. QED BY <1>1, <2>2, <2>3, <2>5
<1>4. QED BY <1>2, <1>3

LEMMA RoomIfUnused ==
  ASSUME CacheAssumption, CacheTypes, TotalIsSum, NEW size \in Nat, size <= MaxSize,
         \A k \in Indexed : info[k].refs = 0
  PROVE  CanMakeSpace(size)
<1>1. Len(lruList) \in Nat /\ DOMAIN lruList = 1..Len(lruList) /\ totalSize \in Int /\ MaxSize \in Nat
  BY LenProperties DEF CacheTypes, CacheAssumption
<1>2. CASE Indexed = {}
  <2>1. totalSize = 0
    BY <1>2, TotalIsASum, SumOfNone
  <2>2. QED BY <2>1, <1>1 DEF CanMakeSpace, Fits
<1>3. CASE Indexed # {}
  <2>1. 1 \in DOMAIN lruList
    BY <1>1, <1>3 DEF Indexed
  <2>2. UnusedFrom(1) = Indexed
    BY <1>1 DEF UnusedFrom, Unused, Indexed
  <2>3. TotalOf(UnusedFrom(1)) = totalSize
    BY <2>2 DEF TotalIsSum
  <2>4. 1 \in Cuts(size)
    BY <1>1, <2>1, <2>3 DEF Cuts
  <2>5. QED BY <2>4 DEF CanMakeSpace
<1>4. QED BY <1>2, <1>3

LEMMA NothingIndexed ==
  ASSUME CacheTypes, TotalIsSum, Indexed = {}
  PROVE  totalSize = 0 /\ lruList = << >> /\ \A size : Cuts(size) = {}
<1>1. totalSize = 0
  BY TotalIsASum, SumOfNone
<1>2. DOMAIN lruList = {}
  BY DEF Indexed
<1>3. lruList = << >>
  <2>1. Len(lruList) \in Nat /\ DOMAIN lruList = 1..Len(lruList)
    BY LenProperties DEF CacheTypes
  <2>2. QED BY <1>2, <2>1, EmptySeq DEF CacheTypes
<1>4. QED BY <1>1, <1>2, <1>3 DEF Cuts

-----------------------------------------------------------------------------
(* What the operations do to the index.                                      *)
IndexStep(keys, k) ==
  /\ lruList' \in Seq(Key) /\ info' \in Infos /\ totalSize' \in Int
  /\ ListIsIndex' /\ TotalIsSum'
  /\ Indexed' = keys
  /\ \A j \in Key \ {k} : info'[j] = info[j]

LEMMA Touching ==
  ASSUME CacheTypes, ListIsIndex, TotalIsSum, NEW k \in Key,
         \/ lruList' = lruList
         \/ lruList' = Touched(k)
         \/ lruList' = Front(k) /\ k \in Indexed,
         info' \in Infos, \A j \in Key \ {k} : info'[j] = info[j],
         info'[k].size = info[k].size, k \notin Indexed => info'[k] = info[k],
         totalSize' = totalSize
  PROVE  IndexStep(Indexed, k)
<1>1. Distinct(lruList) /\ lruList \in Seq(Key) /\ info \in Infos
  BY DEF ListIsIndex, Distinct, CacheTypes, Infos
<1>2. lruList' = lruList \/ (lruList' = Front(k) /\ k \in Indexed)
  BY DEF Touched
<1>3. lruList' \in Seq(Key) /\ Distinct(lruList') /\ Elements(lruList') = Indexed
  <2>1. CASE lruList' = lruList
    BY <1>1, <2>1 DEF Elements, Indexed
  <2>2. CASE lruList' = Front(k) /\ k \in Indexed
    <3>1. Elements(Front(k)) = Indexed /\ Front(k) \in Seq(Key) /\ Distinct(Front(k))
      BY <1>1, <2>2, KeyInFront
    <3>2. QED BY <2>2, <3>1
  <2>3. QED BY <1>2, <2>1, <2>2
<1>4. Indexed' = Indexed
  BY <1>3 DEF Elements, Indexed
<1>5. ListIsIndex'
  BY <1>3, <1>4 DEF ListIsIndex, Distinct
<1>6. TotalIsSum'
  <2>1. totalSize' = Sum(info, Indexed)
    BY TotalIsASum
  <2>2. Indexed \subseteq Key
    BY IndexIsFinite
  <2>3. Sum(info, Indexed) = Sum(info', Indexed)
    BY <2>2, SumsAgree
  <2>4. QED BY <2>1, <2>3, <1>4 DEF TotalIsSum, TotalOf, Bytes, Sum, BytesIn
<1>7. QED BY <1>3, <1>4, <1>5, <1>6 DEF IndexStep, CacheTypes

LEMMA Erasing ==
  ASSUME CacheTypes, ListIsIndex, TotalIsSum, NEW k \in Indexed, Erase(k)
  PROVE  /\ IndexStep(Indexed \ {k}, k)
         /\ info'[k] = NoInfo /\ totalSize' = totalSize - info[k].size
<1>1. Distinct(lruList) /\ lruList \in Seq(Key) /\ info \in Infos /\ k \in Key
  BY IndexIsFinite DEF ListIsIndex, Distinct, CacheTypes, Infos
<1>2. lruList' = Without(k) /\ info' = [info EXCEPT ![k] = NoInfo] /\ totalSize' = totalSize - info[k].size
  BY DEF Erase
<1>3. lruList' \in Seq(Key) /\ Distinct(lruList') /\ Elements(lruList') = Indexed \ {k}
  BY <1>1, <1>2, WithoutKey
<1>4. Indexed' = Indexed \ {k}
  BY <1>3 DEF Elements, Indexed
<1>5. /\ info' \in Infos /\ info'[k] = NoInfo /\ info[k].size \in Nat
      /\ \A j \in Key \ {k} : info'[j] = info[j]
  BY <1>1, <1>2 DEF Infos, NoInfo
<1>6. ListIsIndex'
  BY <1>3, <1>4, <1>5 DEF ListIsIndex, Distinct
<1>7. TotalIsSum'
  <2>1. totalSize = Sum(info, Indexed) /\ IsFiniteSet(Indexed) /\ Indexed \subseteq Key
    BY TotalIsASum, IndexIsFinite
  <2>2. totalSize' = Sum(info, Indexed \ {k})
    BY <1>1, <1>2, <2>1, SumWithoutKey
  <2>3. Sum(info, Indexed \ {k}) = Sum(info', Indexed \ {k})
    BY <2>1, <1>5, SumsAgree
  <2>4. QED BY <2>2, <2>3, <1>4 DEF TotalIsSum, TotalOf, Bytes, Sum, BytesIn
<1>8. totalSize' \in Int
  BY <1>2, <1>5 DEF CacheTypes
<1>9. QED BY <1>2, <1>3, <1>4, <1>5, <1>6, <1>7, <1>8 DEF IndexStep

LEMMA Entering ==
  ASSUME CacheTypes, ListIsIndex, TotalIsSum, NEW k \in Key, NEW size \in Nat, Enter(k, size)
  PROVE  /\ IndexStep(Indexed \cup {k}, k)
         /\ info'[k] = [NoInfo EXCEPT !.size = size]
         /\ totalSize' = totalSize - info[k].size + size
<1>1. Distinct(lruList) /\ lruList \in Seq(Key) /\ info \in Infos
  BY DEF ListIsIndex, Distinct, CacheTypes, Infos
<1>2. /\ lruList' = Front(k) /\ info' = [info EXCEPT ![k] = [NoInfo EXCEPT !.size = size]]
      /\ totalSize' = totalSize - info[k].size + size
  BY DEF Enter
<1>3. lruList' \in Seq(Key) /\ Distinct(lruList') /\ Elements(lruList') = Indexed \cup {k}
  BY <1>1, <1>2, KeyInFront
<1>4. Indexed' = Indexed \cup {k}
  BY <1>3 DEF Elements, Indexed
<1>5. /\ info' \in Infos /\ info'[k] = [NoInfo EXCEPT !.size = size] /\ info'[k].size = size
      /\ info[k].size \in Nat
      /\ \A j \in Key \ {k} : info'[j] = info[j]
  BY <1>1, <1>2 DEF Infos, NoInfo
<1>6. ListIsIndex'
  BY <1>3, <1>4, <1>5 DEF ListIsIndex, Distinct
<1>7. TotalIsSum'
  <2> DEFINE others == Indexed \ {k}
  <2>1. totalSize = Sum(info, Indexed) /\ IsFiniteSet(Indexed) /\ Indexed \subseteq Key
    BY TotalIsASum, IndexIsFinite
  <2>2. IsFiniteSet(others) /\ others \subseteq Key /\ k \in Key \ others
    BY <2>1, FS_Difference
  <2>3. totalSize - info[k].size = Sum(info, others)
    <3>1. CASE k \in Indexed
      BY <3>1, <2>1, <1>1, <1>5, SumWithoutKey
    <3>2. CASE k \notin Indexed
      <4>1. info[k].size = 0 /\ others = Indexed
        BY <3>2 DEF ListIsIndex, NoInfo
      <4>2. totalSize - 0 = totalSize
        BY DEF CacheTypes
      <4>3. QED BY <4>1, <4>2, <2>1
    <3>3. QED BY <3>1, <3>2
  <2>4. Sum(info, others) = Sum(info', others)
    BY <2>1, <1>5, SumsAgree
  <2>5. Sum(info', others \cup {k}) = Sum(info', others) + info'[k].size
    <3> HIDE DEF others
    <3>1. others \in SUBSET Key
      BY <2>2
    <3>2. QED BY ONLY <2>2, <3>1, <1>5, SumWithKey
  <2>6. others \cup {k} = Indexed'
    BY <1>4
  <2>7. totalSize' = Sum(info', Indexed')
    BY ONLY <2>3, <2>4, <2>5, <2>6, <1>2, <1>5
  <2>8. QED BY <2>7 DEF TotalIsSum, TotalOf, Bytes, Sum, BytesIn
<1>8. totalSize' \in Int
  BY <1>2, <1>5 DEF CacheTypes
<1>9. QED BY <1>2, <1>3, <1>4, <1>5, <1>6, <1>7, <1>8 DEF IndexStep

LEMMA Forgetting ==
  ASSUME CacheTypes, lruList' = << >>, info' = [k \in Key |-> NoInfo], totalSize' = 0
  PROVE  /\ lruList' \in Seq(Key) /\ info' \in Infos /\ totalSize' \in Int
         /\ ListIsIndex' /\ TotalIsSum' /\ Indexed' = {}
<1>1. Indexed' = {}
  BY DEF Indexed
<1>2. TotalIsSum'
  BY <1>1, SumOfNone DEF TotalIsSum, TotalOf, Bytes, Sum, BytesIn
<1>3. QED BY <1>1, <1>2 DEF ListIsIndex, Infos, NoInfo

-----------------------------------------------------------------------------
(* Readers: counts change by one, and what keeps them in step.               *)
LEMMA ReaderCounts ==
  ASSUME CacheAssumption, NEW S \in SUBSET Stream
  PROVE  /\ Cardinality(S) \in Nat
         /\ Cardinality(S) = 0 <=> S = {}
         /\ \A r \in Stream \ S : Cardinality(S \cup {r}) = Cardinality(S) + 1
         /\ \A r \in S : Cardinality(S \ {r}) = Cardinality(S) - 1
<1>1. IsFiniteSet(S)
  BY FS_Subset DEF CacheAssumption
<1>2. QED BY <1>1, FS_CardinalityType, FS_EmptySet, FS_AddElement, FS_RemoveElement

LEMMA UnreadKey ==
  ASSUME CacheAssumption, PinsMatchReaders, NEW k \in Key, info[k].refs = 0, k \notin muddled
  PROVE  Readers(k) = {}
<1>1. Readers(k) \in SUBSET Stream
  BY DEF Readers
<1>2. Cardinality(Readers(k)) = 0
  BY DEF PinsMatchReaders
<1>3. QED BY <1>1, <1>2, ReaderCounts

(* The streams stay, and an entry only loses its pins when that is noted.    *)
LEMMA PinsKept ==
  ASSUME CacheAssumption, CacheTypes, PinsMatchReaders, stream' = stream,
         \A k \in Key : \/ info'[k].refs = info[k].refs /\ (k \in muddled => k \in muddled')
                        \/ info'[k].refs = 0 /\ k \in muddled'
  PROVE  PinsMatchReaders'
<1>1. ASSUME NEW k \in Key
      PROVE  /\ info'[k].refs <= Cardinality(Readers(k)')
             /\ k \notin muddled' => info'[k].refs = Cardinality(Readers(k)')
  <2>1. Readers(k)' = Readers(k) /\ Readers(k) \in SUBSET Stream
    BY DEF Readers
  <2>2. Cardinality(Readers(k)) \in Nat /\ info[k].refs \in Nat
    BY <2>1, ReaderCounts DEF CacheTypes
  <2>3. QED BY <2>1, <2>2 DEF PinsMatchReaders
<1>2. QED BY <1>1 DEF PinsMatchReaders

LEMMA BodiesKept ==
  ASSUME CacheAssumption, CacheTypes, ReadersKeepTheirBody, stream' = stream, muddled \subseteq muddled',
         \A k \in Key \ muddled' : file'[k] = file[k] \/ Readers(k) = {}
  PROVE  ReadersKeepTheirBody'
<1>1. ASSUME NEW r \in Stream, stream[r] # NoStream, stream[r].key \notin muddled'
      PROVE  file'[stream[r].key] = stream[r].body
  <2>1. stream[r].key \in Key
    BY <1>1 DEF CacheTypes
  <2>2. r \in Readers(stream[r].key)
    BY <1>1 DEF Readers
  <2>3. QED BY <1>1, <2>1, <2>2 DEF ReadersKeepTheirBody
<1>2. QED BY <1>1 DEF ReadersKeepTheirBody

-----------------------------------------------------------------------------
(* The steps.  The index is only looked at through Indexed.                  *)
USE DEF disk, index, work, clients, bounds, Idle, Ready, NoRemovalPending, NothingFailed

LEMMA Sentinels ==
  ASSUME CacheAssumption, CacheTypes
  PROVE  NoKey \notin Key /\ NoBody \notin Body /\ Indexed \subseteq Key
BY IndexIsFinite DEF CacheAssumption

Calls == [key : Key \cup {NoKey}, body : Body \cup {NoBody}, ok : BOOLEAN]

LEMMA CallTypes == NoCall \in Calls /\ (CacheTypes => call \in Calls)
BY DEF NoCall, Calls, CacheTypes

LEMMA FaultCounted ==
  ASSUME CacheAssumption, CacheTypes, Fault \/ UNCHANGED bounds
  PROVE  /\ faults' \in 0..MaxFaults /\ accidents' \in 0..MaxAccidents
         /\ accidents' = accidents /\ faults <= faults'
         /\ Fault => ~NothingFailed'
BY DEF CacheAssumption, CacheTypes, Fault

LEMMA IndexKept ==
  ASSUME UNCHANGED index
  PROVE  /\ Indexed' = Indexed
         /\ ListIsIndex => ListIsIndex'
         /\ TotalIsSum => TotalIsSum'
BY DEF Indexed, ListIsIndex, TotalIsSum, TotalOf, Bytes

(* Removal of an entry: its row, its file, its place in the index.           *)
LEMMA RowIsDeleted ==
  ASSUME CacheAssumption, CacheInv, NEW k \in Key, DeleteRow(k)
  PROVE  CacheInv'
<1> USE DEF CacheInv, DeleteRow
<1>1. NoKey \notin Key /\ NoBody \notin Body /\ Indexed \subseteq Key
  BY Sentinels
<1>2. CacheTypes'
  BY DEF CacheTypes
<1>3. Indexed' = Indexed /\ ListIsIndex' /\ TotalIsSum'
  BY IndexKept
<1>4. Removals' = Removals /\ k \in Removals /\ k \in Indexed
  BY <1>1 DEF Removals, Pending
<1>5. Pending'
  BY <1>1, <1>3, <1>4 DEF Pending, CacheTypes
<1>6. Stages'
  BY <1>3, <1>4 DEF Stages, PutsKey, Ready, NoRemovalPending
<1>7. RemovedAreUnused'
  BY <1>4 DEF RemovedAreUnused
<1>8. PinsMatchReaders' /\ ReadersKeepTheirBody'
  <2>1. PinsMatchReaders'
    BY PinsKept
  <2>2. ReadersKeepTheirBody'
    BY BodiesKept
  <2>3. QED BY <2>1, <2>2
<1>9. FaultFree => FaultFree'
  <2>1. RowsOfIndex => RowsOfIndex'
    BY <1>1, <1>3 DEF RowsOfIndex, CacheTypes, Indexable
  <2>2. ReservedIsPending => ReservedIsPending'
    BY <1>4 DEF ReservedIsPending
  <2>3. SpaceMade => SpaceMade'
    BY <1>3, <1>4 DEF SpaceMade, WillFit, Pending, CacheTypes
  <2>4. PutInOrder => PutInOrder'
    BY <1>3, <1>4 DEF PutInOrder, CacheTypes, Stages, PutsKey, NoRemovalPending
  <2>5. QED BY <1>1, <2>1, <2>2, <2>3, <2>4 DEF FaultFree, CacheTypes, Indexable
<1>10. AccidentFree => AccidentFree'
  BY <1>1, <1>3, <1>4 DEF AccidentFree, PairedBodies, WillFit, NoRemovalPending, CacheTypes
<1>11. QED BY <1>2, <1>3, <1>5, <1>6, <1>7, <1>8, <1>9, <1>10 DEF NothingFailed

LEMMA RowIsNotDeleted ==
  ASSUME CacheAssumption, CacheInv, NEW k \in Key, DeleteRowFails(k)
  PROVE  CacheInv'
<1> USE DEF CacheInv, DeleteRowFails
<1>1. NoKey \notin Key /\ NoBody \notin Body /\ Indexed \subseteq Key
  BY Sentinels
<1>2. /\ CacheTypes'
      /\ accidents' = accidents /\ faults <= faults'
  <2>1. call' \in [key : Key \cup {NoKey}, body : Body \cup {NoBody}, ok : BOOLEAN]
    BY DEF CacheTypes
  <2>2. Fault \/ UNCHANGED bounds
    OBVIOUS
  <2>3. QED BY <2>1, <2>2, FaultCounted DEF CacheTypes
<1>3. Indexed' = Indexed /\ ListIsIndex' /\ TotalIsSum'
  BY IndexKept
<1>4. Removals' = Removals \ {k} /\ k \in Removals /\ k \in Indexed
  BY <1>1 DEF Removals, Pending
<1>5. Pending'
  BY <1>1, <1>3, <1>4 DEF Pending, CacheTypes
<1>6. Stages'
  BY <1>3, <1>4 DEF Stages, PutsKey, CacheTypes
<1>7. RemovedAreUnused'
  BY <1>4 DEF RemovedAreUnused, CacheTypes
<1>8. PinsMatchReaders' /\ ReadersKeepTheirBody'
  <2>1. PinsMatchReaders'
    BY PinsKept
  <2>2. ReadersKeepTheirBody'
    BY BodiesKept
  <2>3. QED BY <2>1, <2>2
<1>9. ~NothingFailed'
  <2>1. CASE row[k] = NoBody
    BY <2>1, <1>1, <1>2, <1>4 DEF FaultFree, RowsOfIndex, CacheTypes
  <2>2. CASE row[k] # NoBody
    BY <2>2, FaultCounted
  <2>3. QED BY <2>1, <2>2
<1>10. AccidentFree => AccidentFree'
  BY <1>1, <1>2, <1>3, <1>4, <1>9 DEF AccidentFree, PairedBodies, CacheTypes
<1>11. QED BY <1>2, <1>3, <1>5, <1>6, <1>7, <1>8, <1>9, <1>10

LEMMA FileIsDeleted ==
  ASSUME CacheAssumption, CacheInv, DeleteFile
  PROVE  CacheInv'
<1> USE DEF CacheInv, DeleteFile
<1>1. NoKey \notin Key /\ NoBody \notin Body /\ Indexed \subseteq Key
  BY Sentinels
<1>2. Removals' = todo /\ todo = Removals \ {victim} /\ victim \in Removals /\ victim \in Indexed
  BY <1>1 DEF Removals, Pending, CacheTypes
<1>3. /\ IndexStep(Indexed \ {victim}, victim)
      /\ info'[victim] = NoInfo /\ totalSize' = totalSize - info[victim].size
  BY <1>2, Erasing
<1>4. CacheTypes'
  BY <1>3 DEF CacheTypes, IndexStep, Infos, Erase
<1>5. Indexed' = Indexed \ {victim} /\ ListIsIndex' /\ TotalIsSum'
  BY <1>3 DEF IndexStep
<1>6. Pending'
  BY <1>1, <1>2, <1>5 DEF Pending, CacheTypes
<1>7. Stages'
  BY <1>1, <1>2, <1>5 DEF Stages, PutsKey, CacheTypes
<1>8. \A j \in Key : j # victim => info'[j] = info[j]
  BY <1>3 DEF IndexStep
<1>9. RemovedAreUnused'
  BY <1>1, <1>2, <1>3, <1>8 DEF RemovedAreUnused, NoInfo, Stages, PutsKey, Pending
<1>10. at # "purged" => info[victim].refs = 0
  BY <1>2 DEF RemovedAreUnused
<1>11. muddled \subseteq muddled' /\ (info[victim].refs # 0 => victim \in muddled')
  BY <1>10, <1>2, <1>1 DEF Erase, CacheTypes
<1>12. PinsMatchReaders'
  BY <1>3, <1>8, <1>11, PinsKept DEF NoInfo
<1>13. ReadersKeepTheirBody'
  <2>1. victim \notin muddled' => Readers(victim) = {}
    BY <1>1, <1>2, <1>11, UnreadKey
  <2>2. QED BY <1>11, <2>1, BodiesKept DEF CacheTypes
<1>14. \A n : WillFit(n) <=> totalSize' - Sum(info', Removals') + n <= MaxSize
  <2>1. Removals \subseteq Key /\ IsFiniteSet(Removals) /\ info \in Infos
    BY <1>1, IndexIsFinite, FS_Subset DEF Pending, CacheTypes, Infos
  <2>2. Sum(info, Removals') = Sum(info, Removals) - info[victim].size /\ Sum(info, Removals) \in Nat
    BY <1>2, <2>1, SumWithoutKey
  <2>3. Sum(info', Removals') = Sum(info, Removals')
    BY <1>2, <1>8, <2>1, SumsAgree
  <2>4. info[victim].size \in Nat /\ totalSize \in Int
    BY <1>1, <1>2 DEF CacheTypes
  <2>5. totalSize' - Sum(info', Removals') = totalSize - Sum(info, Removals)
    BY <1>3, <2>2, <2>3, <2>4
  <2>6. QED BY <2>5 DEF WillFit
<1>15. FaultFree => FaultFree'
  <2>1. RowsOfIndex => RowsOfIndex'
    BY <1>1, <1>5, <1>6, <1>8 DEF RowsOfIndex, Pending, Indexable
  <2>2. ReservedIsPending => ReservedIsPending'
    BY <1>2, <1>3, <1>8 DEF ReservedIsPending, NoInfo
  <2>3. SpaceMade => SpaceMade'
    <3>1. totalSize' <= totalSize
      BY <1>1, <1>2, <1>3 DEF CacheTypes
    <3>2. totalSize <= MaxSize => totalSize' <= MaxSize
      BY <1>4, <3>1 DEF CacheTypes, CacheAssumption
    <3>3. QED BY <1>5, <1>14, <3>2 DEF SpaceMade, WillFit
  <2>4. PutInOrder => PutInOrder'
    BY <1>1, <1>2, <1>5 DEF PutInOrder
  <2>5. QED BY <2>1, <2>2, <2>3, <2>4, <1>1, <1>2 DEF FaultFree, CacheTypes, Indexable, Pending
<1>16. AccidentFree => AccidentFree'
  BY <1>1, <1>2, <1>5, <1>14 DEF AccidentFree, PairedBodies, WillFit, CacheTypes, Pending, Stages,
     PutsKey
<1>17. QED BY <1>4, <1>5, <1>6, <1>7, <1>9, <1>12, <1>13, <1>15, <1>16

LEMMA FileIsNotDeleted ==
  ASSUME CacheAssumption, CacheInv, DeleteFileFails
  PROVE  CacheInv'
<1> USE DEF CacheInv, DeleteFileFails
<1>1. NoKey \notin Key /\ NoBody \notin Body /\ Indexed \subseteq Key
  BY Sentinels
<1>2. /\ CacheTypes' /\ ~NothingFailed'
      /\ accidents' = accidents /\ faults <= faults'
  BY FaultCounted DEF CacheTypes
<1>3. Indexed' = Indexed /\ ListIsIndex' /\ TotalIsSum'
  BY IndexKept
<1>4. Removals' = todo /\ todo \subseteq Removals
  BY <1>1 DEF Removals, Pending
<1>5. Pending'
  BY <1>1, <1>3, <1>4 DEF Pending, CacheTypes
<1>6. Stages'
  BY <1>3, <1>4 DEF Stages, PutsKey, CacheTypes
<1>7. RemovedAreUnused'
  BY <1>4 DEF RemovedAreUnused, CacheTypes
<1>8. PinsMatchReaders'
  BY PinsKept
<1>9. ReadersKeepTheirBody'
  BY BodiesKept
<1>10. AccidentFree => AccidentFree'
  BY <1>1, <1>2, <1>3, <1>4 DEF AccidentFree, PairedBodies, CacheTypes
<1>11. QED BY <1>2, <1>3, <1>5, <1>6, <1>7, <1>8, <1>9, <1>10

(* The enumeration of the rows.                                              *)
LEMMA EnumerationStarts ==
  ASSUME CacheAssumption, CacheInv, GetSize \/ PutEnumerates
  PROVE  CacheInv'
<1> USE DEF CacheInv, GetSize, PutEnumerates, StartEnumeration
<1>1. NoKey \notin Key /\ NoBody \notin Body /\ Indexed = {}
  BY Sentinels DEF Stages
<1>2. CacheTypes'
  BY DEF CacheTypes
<1>3. Indexed' = Indexed /\ ListIsIndex' /\ TotalIsSum'
  BY IndexKept
<1>4. Removals' = Removals /\ Ready /\ ~initialized
  BY DEF Removals, Stages
<1>5. Pending'
  BY <1>1, <1>3, <1>4 DEF Pending, CacheTypes
<1>6. Stages'
  BY <1>1, <1>3, <1>4 DEF Stages, PutsKey
<1>7. RemovedAreUnused'
  <2>1. \A k \in Key : info[k].refs = 0
    BY <1>1 DEF ListIsIndex, NoInfo
  <2>2. QED BY <2>1, <1>4 DEF RemovedAreUnused
<1>8. PinsMatchReaders'
  BY PinsKept
<1>9. ReadersKeepTheirBody'
  BY BodiesKept
<1>10. FaultFree => FaultFree'
  <2>1. RowsOfIndex => RowsOfIndex'
    BY <1>1, <1>3 DEF RowsOfIndex, Indexable
  <2>2. ReservedIsPending => ReservedIsPending'
    BY <1>4 DEF ReservedIsPending
  <2>3. SpaceMade => SpaceMade'
    BY <1>3, <1>4 DEF SpaceMade, WillFit
  <2>4. PutInOrder => PutInOrder'
    BY <1>3, <1>4 DEF PutInOrder
  <2>5. QED BY <2>1, <2>2, <2>3, <2>4 DEF FaultFree, Indexable
<1>11. AccidentFree => AccidentFree'
  BY <1>3, <1>4 DEF AccidentFree, PairedBodies, WillFit
<1>12. QED BY <1>2, <1>3, <1>5, <1>6, <1>7, <1>8, <1>9, <1>10, <1>11

LEMMA RowIsEnumerated ==
  ASSUME CacheAssumption, CacheInv, NEW k \in Key, EnumerateRow(k)
  PROVE  CacheInv'
<1> DEFINE size == Size[row[k]]
<1> USE DEF CacheInv, EnumerateRow
<1>1. NoKey \notin Key /\ NoBody \notin Body /\ Indexed \subseteq Key
  BY Sentinels
<1>2. /\ k \notin Indexed /\ size \in Nat
      /\ \A j \in Key : info[j].refs = 0
      /\ Removals = {} /\ at \in {"drain", "check", "row"} /\ ~Idle
  BY <1>1 DEF Pending, RemovedAreUnused, Stages, CacheAssumption, CacheTypes, Removals
<1>3. Indexed' = Indexed /\ ListIsIndex' /\ TotalIsSum'
  BY IndexKept
<1>4. /\ Removals' = todo' /\ \A j \in todo' : Unused(j)
      /\ cur' # NoKey => cur' = k /\ WillFit(size)'
  <2>1. CASE CanMakeSpace(size)
    <3>1. /\ \A j \in Victims(size) : Unused(j)
          /\ totalSize - Sum(info, Victims(size)) + size <= MaxSize
      BY <2>1, <1>2, VictimsMakeRoom
    <3>2. Removals' = todo' /\ todo' = Victims(size) /\ cur' = k
      BY <2>1 DEF Removals
    <3>3. WillFit(size)' <=> totalSize - Sum(info, Victims(size)) + Size[row'[k]] <= MaxSize
      BY <3>2 DEF WillFit
    <3>4. QED BY <3>1, <3>2, <3>3
  <2>2. CASE ~CanMakeSpace(size)
    BY <2>2, <1>2 DEF Removals
  <2>3. QED BY <2>1, <2>2
<1>5. todo' \subseteq Indexed /\ todo' \subseteq Key
  BY <1>1, <1>4 DEF Unused
<1>6. CacheTypes'
  BY <1>5 DEF CacheTypes
<1>7. Pending'
  BY <1>1, <1>2, <1>3, <1>4, <1>5 DEF Pending
<1>8. Stages'
  BY <1>2, <1>3 DEF Stages, PutsKey
<1>9. RemovedAreUnused'
  BY <1>2, <1>4, <1>5 DEF RemovedAreUnused
<1>10. PinsMatchReaders'
  BY PinsKept
<1>11. ReadersKeepTheirBody'
  BY BodiesKept
<1>12. FaultFree => FaultFree'
  <2>1. RowsOfIndex => RowsOfIndex'
    <3>1. Indexable(k) => CanMakeSpace(size)
      BY <1>1, <1>2, RoomIfUnused DEF Indexable
    <3>2. QED BY <1>3, <3>1 DEF RowsOfIndex, Indexable
  <2>2. ReservedIsPending => ReservedIsPending'
    BY <1>2, <1>4 DEF ReservedIsPending
  <2>3. PutInOrder => at \in {"drain", "check"}
    BY <1>2 DEF PutInOrder
  <2>4. SpaceMade /\ PutInOrder => SpaceMade'
    BY <2>3, <1>3, <1>4 DEF SpaceMade, WillFit
  <2>5. PutInOrder => PutInOrder'
    BY <2>3, <1>2, <1>3 DEF PutInOrder
  <2>6. QED BY <2>1, <2>2, <2>4, <2>5 DEF FaultFree, Indexable
<1>13. ~AccidentFree
  BY DEF AccidentFree
<1>14. QED BY <1>3, <1>6, <1>7, <1>8, <1>9, <1>10, <1>11, <1>12, <1>13

(* What adding makes space with is indexed and unused.                       *)
LEMMA AddedSpace ==
  ASSUME CacheAssumption, CacheTypes, TotalIsSum, NEW k, NEW size \in Nat, AddMakesSpace(k, size)
  PROVE  \A j \in todo' : j # k /\ Unused(j)
<1>1. CanMakeSpace(size)
  BY DEF AddMakesSpace, CanMakeSpace
<1>2. \A j \in Victims(size) : Unused(j)
  BY <1>1, VictimsMakeRoom
<1>3. QED BY <1>2 DEF AddMakesSpace

LEMMA EnumeratedRowIsAdded ==
  ASSUME CacheAssumption, CacheInv, EnumerateAdd
  PROVE  CacheInv'
<1> DEFINE size == Size[row[cur]]
<1> USE DEF CacheInv, EnumerateAdd
<1>1. NoKey \notin Key /\ NoBody \notin Body /\ Indexed \subseteq Key
  BY Sentinels
<1>2. /\ cur \in Key /\ cur \notin Indexed /\ size \in Nat
      /\ \A j \in Key : info[j].refs = 0
      /\ Removals = {} /\ at \in {"drain", "check", "row"} /\ initialized
  BY <1>1 DEF Pending, RemovedAreUnused, Stages, CacheAssumption, CacheTypes, Removals
<1>3. ~AccidentFree
  BY DEF AccidentFree
<1>4. FaultFree => AddEnters(cur, size) /\ cur' = NoKey
  <2>1. FaultFree => Fits(size)
    BY <1>2, SumOfNone DEF FaultFree, SpaceMade, WillFit, Fits, CacheTypes, CacheAssumption
  <2>2. Fits(size) => AddRoom(cur, size)
    BY DEF AddRoom
  <2>3. QED BY <2>1, <2>2 DEF AddEnds, AddRefused, AddMakesSpace
<1>5. CASE AddEnters(cur, size) /\ cur' = NoKey
  <2>1. /\ IndexStep(Indexed \cup {cur}, cur)
        /\ info'[cur] = [NoInfo EXCEPT !.size = size]
        /\ totalSize' = totalSize - info[cur].size + size
    BY <1>2, <1>5, Entering DEF AddEnters
  <2>2. Indexed' = Indexed \cup {cur} /\ ListIsIndex' /\ TotalIsSum' /\ info' \in Infos
    BY <2>1 DEF IndexStep
  <2>3. /\ \A j \in Key : j # cur => info'[j] = info[j]
        /\ info'[cur].refs = 0 /\ ~info'[cur].reserved /\ info'[cur].size = size
        /\ info[cur].size = 0
    BY <1>2, <2>1 DEF IndexStep, NoInfo, ListIsIndex
  <2>4. CacheTypes'
    BY <1>5, <2>1 DEF CacheTypes, IndexStep, Infos, AddEnters
  <2>5. Removals' = {} /\ todo' = {}
    BY <1>5 DEF Removals, AddEnters
  <2>6. Pending'
    BY <1>1, <1>5, <2>2, <2>5 DEF Pending
  <2>7. Stages'
    BY <1>2, <1>5, <2>2, <2>5 DEF Stages, PutsKey, AddEnters
  <2>8. RemovedAreUnused'
    BY <1>2, <2>3, <2>5 DEF RemovedAreUnused, Stages, PutsKey
  <2>9. PinsMatchReaders'
    BY <1>2, <2>3, PinsKept
  <2>10. ReadersKeepTheirBody'
    BY BodiesKept
  <2>11. FaultFree => FaultFree'
    <3>1. RowsOfIndex => RowsOfIndex'
      BY <1>1, <1>2, <1>5, <2>2, <2>3 DEF RowsOfIndex, Indexable, Pending
    <3>2. ReservedIsPending => ReservedIsPending'
      BY <1>2, <2>3, <2>5 DEF ReservedIsPending
    <3>3. PutInOrder => at \in {"drain", "check"}
      BY <1>1, <1>2 DEF PutInOrder
    <3>4. SpaceMade /\ PutInOrder => SpaceMade'
      <4>1. SpaceMade => totalSize + size <= MaxSize
        BY <1>1, <1>2, SumOfNone DEF SpaceMade, WillFit, CacheTypes, CacheAssumption
      <4>2. totalSize' = totalSize + size
        BY <2>1, <2>3, <1>2 DEF CacheTypes
      <4>3. QED BY <3>3, <4>1, <4>2, <1>5 DEF SpaceMade, AddEnters
    <3>5. PutInOrder => PutInOrder'
      BY <3>3, <1>2 DEF PutInOrder
    <3>6. QED BY <3>1, <3>2, <3>4, <3>5 DEF FaultFree, Indexable
  <2>12. QED BY <1>3, <2>2, <2>4, <2>6, <2>7, <2>8, <2>9, <2>10, <2>11
<1>6. CASE ~(AddEnters(cur, size) /\ cur' = NoKey)
  <2>1. \/ AddRefused(cur, size) /\ cur' = NoKey
        \/ AddMakesSpace(cur, size) /\ cur' = cur
    BY <1>6 DEF AddEnds
  <2>2. /\ UNCHANGED index /\ Removals' = todo' /\ \A j \in todo' : Unused(j)
        /\ tried' \in BOOLEAN /\ (tried' => cur' # NoKey)
    <3>1. CASE AddRefused(cur, size) /\ cur' = NoKey
      BY <3>1, <1>2 DEF AddRefused, Removals, AddRoom, CacheTypes
    <3>2. CASE AddMakesSpace(cur, size) /\ cur' = cur
      BY <3>2, <1>2, AddedSpace DEF AddMakesSpace, Removals
    <3>3. QED BY <2>1, <3>1, <3>2
  <2>3. Indexed' = Indexed /\ ListIsIndex' /\ TotalIsSum'
    BY <2>2, IndexKept
  <2>4. todo' \subseteq Indexed /\ cur' \in {cur, NoKey}
    BY <2>1, <2>2 DEF Unused
  <2>5. CacheTypes'
    BY <1>1, <2>2, <2>4 DEF CacheTypes
  <2>6. Pending'
    BY <1>1, <2>2, <2>3, <2>4 DEF Pending
  <2>7. Stages'
    BY <1>2, <2>2, <2>3, <2>4 DEF Stages, PutsKey
  <2>8. RemovedAreUnused'
    BY <1>1, <1>2, <2>2, <2>4 DEF RemovedAreUnused
  <2>9. PinsMatchReaders'
    BY <2>2, PinsKept
  <2>10. ReadersKeepTheirBody'
    BY BodiesKept
  <2>11. QED BY <1>3, <1>4, <1>6, <2>3, <2>5, <2>6, <2>7, <2>8, <2>9, <2>10
<1>7. QED BY <1>5, <1>6

LEMMA OperationFinishes ==
  ASSUME CacheAssumption, CacheInv, Finish
  PROVE  CacheInv'
<1> USE DEF CacheInv, Finish, Return
<1>1. NoKey \notin Key /\ NoBody \notin Body /\ Indexed \subseteq Key
  BY Sentinels
<1>2. CacheTypes'
  BY DEF CacheTypes, NoCall
<1>3. Indexed' = Indexed /\ ListIsIndex' /\ TotalIsSum'
  BY IndexKept
<1>4. Removals' = Removals
  BY DEF Removals
<1>5. Pending' /\ Stages' /\ RemovedAreUnused'
  BY <1>3, <1>4 DEF Pending, Stages, PutsKey, RemovedAreUnused
<1>6. PinsMatchReaders'
  BY PinsKept
<1>7. ReadersKeepTheirBody'
  BY BodiesKept
<1>8. FaultFree => FaultFree'
  BY <1>3, <1>4 DEF FaultFree, RowsOfIndex, ReservedIsPending, SpaceMade, PutInOrder, WillFit,
     Indexable
<1>9. AccidentFree => AccidentFree'
  BY <1>3, <1>4 DEF AccidentFree, PairedBodies
<1>10. QED BY <1>2, <1>3, <1>5, <1>6, <1>7, <1>8, <1>9

-----------------------------------------------------------------------------
(* Operations that find the mutex free, and need nothing to be removed.      *)
LEMMA BetweenOperations ==
  ASSUME CacheAssumption, CacheInv, Idle
  PROVE  /\ NoKey \notin Key /\ NoBody \notin Body /\ Indexed \subseteq Key
         /\ Removals = {} /\ todo = {} /\ victim = NoKey /\ rest = {} /\ cur = NoKey /\ tried = FALSE
         /\ call = NoCall
BY Sentinels DEF CacheInv, CacheTypes, Stages, Removals

LEMMA MetadataIsRead ==
  ASSUME CacheAssumption, CacheInv, NEW u \in Updater, NEW k \in Key, GetMetadata(u, k)
  PROVE  CacheInv'
<1> USE DEF CacheInv, GetMetadata, UnlessBusy
<1>1. /\ NoKey \notin Key /\ NoBody \notin Body /\ Indexed \subseteq Key
      /\ Removals = {} /\ Removals' = {}
  BY BetweenOperations DEF Removals
<1>2. IndexStep(Indexed, k)
  BY Touching DEF CacheTypes, Infos
<1>3. Indexed' = Indexed /\ ListIsIndex' /\ TotalIsSum' /\ lruList' \in Seq(Key)
  BY <1>2 DEF IndexStep
<1>4. CacheTypes'
  BY <1>1, <1>3 DEF CacheTypes
<1>5. Pending' /\ Stages' /\ RemovedAreUnused'
  BY <1>1, <1>3 DEF Pending, Stages, PutsKey, RemovedAreUnused
<1>6. PinsMatchReaders'
  BY PinsKept
<1>7. ReadersKeepTheirBody'
  BY BodiesKept
<1>8. FaultFree => FaultFree'
  BY <1>1, <1>3 DEF FaultFree, RowsOfIndex, ReservedIsPending, SpaceMade, PutInOrder, WillFit,
     Indexable
<1>9. AccidentFree => AccidentFree'
  BY <1>1, <1>3 DEF AccidentFree, PairedBodies
<1>10. QED BY <1>3, <1>4, <1>5, <1>6, <1>7, <1>8, <1>9

LEMMA RemovalIsReserved ==
  ASSUME CacheAssumption, CacheInv, NEW k \in Key, ReserveRemove(k)
  PROVE  CacheInv'
<1> USE DEF CacheInv, ReserveRemove, UnlessBusy, Available
<1>1. /\ NoKey \notin Key /\ NoBody \notin Body /\ Indexed \subseteq Key
      /\ Removals = {} /\ Removals' = {}
  BY BetweenOperations DEF Removals
<1>2. /\ info' \in Infos
      /\ \A j \in Key : info'[j].refs = info[j].refs /\ info'[j].size = info[j].size
      /\ \A j \in Key \ {k} : info'[j] = info[j]
  <2> DEFINE new == [info[k] EXCEPT !.reserved = TRUE]
  <2>1. info' = [info EXCEPT ![k] = new]
    OBVIOUS
  <2>2. info \in Infos
    BY DEF CacheTypes, Infos
  <2>3. info[k] \in [size : Nat, refs : Nat, reserved : BOOLEAN]
    BY <2>2 DEF Infos
  <2>4. /\ new \in [size : Nat, refs : Nat, reserved : BOOLEAN]
        /\ new.refs = info[k].refs /\ new.size = info[k].size
    BY ONLY <2>3
  <2> HIDE DEF new
  <2>5. info' \in Infos /\ info'[k] = new /\ \A j \in Key \ {k} : info'[j] = info[j]
    BY ONLY <2>1, <2>2, <2>4 DEF Infos
  <2>6. QED BY <2>4, <2>5
<1>3. IndexStep(Indexed, k)
  BY <1>2, Touching
<1>4. Indexed' = Indexed /\ ListIsIndex' /\ TotalIsSum' /\ lruList' \in Seq(Key)
  BY <1>3 DEF IndexStep
<1>5. CacheTypes'
  BY <1>1, <1>2, <1>4 DEF CacheTypes, Infos
<1>6. Pending' /\ Stages' /\ RemovedAreUnused'
  BY <1>1, <1>2, <1>4 DEF Pending, Stages, PutsKey, RemovedAreUnused
<1>7. PinsMatchReaders'
  BY <1>2, PinsKept
<1>8. ReadersKeepTheirBody'
  BY BodiesKept
<1>9. FaultFree => FaultFree'
  <2>1. RowsOfIndex => RowsOfIndex'
    BY <1>1, <1>2, <1>4 DEF RowsOfIndex, Indexable
  <2>2. ReservedIsPending => ReservedIsPending'
    BY <1>1, <1>2 DEF ReservedIsPending
  <2>3. SpaceMade => SpaceMade'
    BY <1>1 DEF SpaceMade, Stages
  <2>4. PutInOrder => PutInOrder'
    BY DEF PutInOrder
  <2>5. QED BY <2>1, <2>2, <2>3, <2>4 DEF FaultFree, Indexable
<1>10. AccidentFree => AccidentFree'
  BY <1>1, <1>4 DEF AccidentFree, PairedBodies
<1>11. QED BY <1>4, <1>5, <1>6, <1>7, <1>8, <1>9, <1>10

LEMMA MetadataIsWritten ==
  ASSUME CacheAssumption, CacheInv, NEW u \in Updater, PutMetadata(u)
  PROVE  CacheInv'
<1> DEFINE k == draft[u].key
           old == draft[u].body
<1> USE DEF CacheInv, PutMetadata, UnlessBusy, Available
<1>1. /\ NoKey \notin Key /\ NoBody \notin Body /\ Indexed \subseteq Key
      /\ Removals = {} /\ Removals' = {}
  BY BetweenOperations DEF Removals
<1>2. k \in Key /\ old \in Body /\ draft' \in [Updater -> [key : Key, body : Body] \cup {NoDraft}]
  BY DEF CacheTypes
<1>3. IndexStep(Indexed, k)
  BY <1>2, Touching DEF CacheTypes, Infos
<1>4. Indexed' = Indexed /\ ListIsIndex' /\ TotalIsSum' /\ lruList' \in Seq(Key)
  BY <1>3 DEF IndexStep
<1>5. \/ UNCHANGED <<row, stale>>
      \/ /\ row' = [row EXCEPT ![k] = old] /\ k \in Indexed
         /\ stale' = IF row[k] = old THEN stale ELSE stale \cup {k}
  OBVIOUS
<1>6. faults' \in 0..MaxFaults /\ accidents' \in 0..MaxAccidents /\ faults <= faults' /\ accidents' = accidents
  <2>1. Fault \/ UNCHANGED bounds
    OBVIOUS
  <2>2. QED BY <2>1, FaultCounted
<1>7. CacheTypes'
  <2>1. row' \in [Key -> Body \cup {NoBody}] /\ stale' \subseteq Key
    BY <1>2, <1>5 DEF CacheTypes
  <2>2. QED BY <2>1, <1>2, <1>4, <1>6 DEF CacheTypes
<1>8. Pending' /\ Stages' /\ RemovedAreUnused'
  BY <1>1, <1>4, BetweenOperations DEF Pending, Stages, PutsKey, RemovedAreUnused
<1>9. PinsMatchReaders'
  BY PinsKept
<1>10. ReadersKeepTheirBody'
  BY BodiesKept
<1>11. \A j \in Key \ stale' : j \notin stale /\ row'[j] = row[j]
  BY <1>2, <1>5 DEF CacheTypes
<1>12. FaultFree => FaultFree'
  <2>1. RowsOfIndex => RowsOfIndex'
    <3>1. \A j \in Key \ Indexed : row'[j] = row[j]
      BY <1>2, <1>5 DEF CacheTypes
    <3>2. \A j \in Indexed : row'[j] = row[j] \/ row'[j] # NoBody
      BY <1>1, <1>2, <1>5 DEF CacheTypes
    <3>3. QED BY <3>1, <3>2, <1>1, <1>4, <1>11 DEF RowsOfIndex, Indexable
  <2>2. ReservedIsPending => ReservedIsPending'
    BY <1>1 DEF ReservedIsPending
  <2>3. SpaceMade => SpaceMade'
    BY <1>1, BetweenOperations DEF SpaceMade
  <2>4. PutInOrder => PutInOrder'
    BY DEF PutInOrder
  <2>5. QED BY <2>1, <2>2, <2>3, <2>4, <1>11 DEF FaultFree, Indexable
<1>13. AccidentFree => AccidentFree'
  <2>1. row' = row \/ initialized'
    OBVIOUS
  <2>2. \A j \in Key \ Indexed : row'[j] = row[j]
    BY <1>2, <1>5 DEF CacheTypes
  <2>3. NothingFailed' => NothingFailed
    BY <1>6 DEF CacheTypes
  <2>4. faults' <= 2 => faults <= 2
    BY <1>6 DEF CacheTypes
  <2>5. QED BY <1>1, <1>4, <1>11, <2>1, <2>2, <2>3, <2>4 DEF AccidentFree, PairedBodies
<1>14. NothingFailed' => NothingFailed
  BY <1>6 DEF CacheTypes
<1>15. QED BY <1>4, <1>6, <1>7, <1>8, <1>9, <1>10, <1>12, <1>13, <1>14

(* A stream is opened, or what it needs is not there.                        *)
LEMMA DataIsRead ==
  ASSUME CacheAssumption, CacheInv, NEW r \in Stream, NEW k \in Key, NEW w \in BOOLEAN,
         GetData(r, k, w)
  PROVE  CacheInv'
<1> USE DEF CacheInv, GetData, UnlessBusy
<1> DEFINE opened == [key |-> k, body |-> file[k]]
           Opens == /\ stream' = [stream EXCEPT ![r] = opened]
                    /\ info' = [info EXCEPT ![k].refs = @ + 1]
                    /\ Available(k) /\ file[k] # NoBody
<1>1. /\ NoKey \notin Key /\ NoBody \notin Body /\ Indexed \subseteq Key
      /\ Removals = {} /\ Removals' = {}
  BY BetweenOperations DEF Removals
<1>2. Opens \/ UNCHANGED <<stream, info>>
  BY DEF OpenStream
<1>3. /\ info' \in Infos
      /\ info'[k].refs = IF Opens THEN info[k].refs + 1 ELSE info[k].refs
      /\ info'[k].size = info[k].size /\ info'[k].reserved = info[k].reserved
      /\ \A j \in Key \ {k} : info'[j] = info[j]
  <2>1. info \in Infos
    BY DEF CacheTypes, Infos
  <2>2. CASE Opens
    <3> DEFINE new == [info[k] EXCEPT !.refs = info[k].refs + 1]
    <3>1. info[k] \in [size : Nat, refs : Nat, reserved : BOOLEAN]
      BY <2>1 DEF Infos
    <3>2. /\ new \in [size : Nat, refs : Nat, reserved : BOOLEAN]
          /\ new.refs = info[k].refs + 1 /\ new.size = info[k].size
          /\ new.reserved = info[k].reserved
      BY ONLY <3>1
    <3>3. info' = [info EXCEPT ![k] = new]
      BY <2>2
    <3> HIDE DEF new
    <3>4. info' \in Infos /\ info'[k] = new /\ \A j \in Key \ {k} : info'[j] = info[j]
      BY ONLY <2>1, <3>2, <3>3 DEF Infos
    <3>5. QED BY <2>2, <3>2, <3>4
  <2>3. CASE ~Opens
    BY <2>1, <2>3, <1>2
  <2>4. QED BY <2>2, <2>3
<1>4. IndexStep(Indexed, k)
  BY <1>3, Touching
<1>5. Indexed' = Indexed /\ ListIsIndex' /\ TotalIsSum' /\ lruList' \in Seq(Key)
  BY <1>4 DEF IndexStep
<1>6. Opens => opened \in [key : Key, body : Body] /\ opened # NoStream
  BY DEF CacheTypes, CacheAssumption
<1>7. CacheTypes'
  <2>1. stream' \in [Stream -> [key : Key, body : Body] \cup {NoStream}]
    <3>1. stream \in [Stream -> [key : Key, body : Body] \cup {NoStream}]
      BY DEF CacheTypes
    <3> HIDE DEF opened
    <3>2. stream' = stream \/ Opens
      BY <1>2
    <3>3. Opens => stream' = [stream EXCEPT ![r] = opened]
      OBVIOUS
    <3>4. QED BY ONLY <3>1, <3>2, <3>3, <1>6
  <2>2. QED BY <2>1, <1>1, <1>3, <1>5 DEF CacheTypes, Infos
<1>8. Pending' /\ Stages' /\ RemovedAreUnused'
  BY <1>1, <1>5, BetweenOperations DEF Pending, Stages, PutsKey, RemovedAreUnused
<1>9. PinsMatchReaders'
  <2>1. CASE Opens
    <3>1. Readers(k)' = Readers(k) \cup {r} /\ r \notin Readers(k)
      BY <2>1, <1>6 DEF Readers, CacheTypes
    <3>2. \A j \in Key \ {k} : Readers(j)' = Readers(j)
      BY <2>1 DEF Readers, CacheTypes
    <3>3. Readers(k) \in SUBSET Stream /\ r \in Stream \ Readers(k)
      BY <3>1 DEF Readers
    <3>4. /\ Cardinality(Readers(k)) \in Nat
          /\ Cardinality(Readers(k)') = Cardinality(Readers(k)) + 1
      BY <3>1, <3>3, ReaderCounts
    <3>5. info[k].refs \in Nat /\ info'[k].refs = info[k].refs + 1
      BY <2>1, <1>3 DEF CacheTypes
    <3>6. ASSUME NEW j \in Key
          PROVE  /\ info'[j].refs <= Cardinality(Readers(j)')
                 /\ j \notin muddled => info'[j].refs = Cardinality(Readers(j)')
      <4>1. CASE j = k
        BY <4>1, <3>4, <3>5 DEF PinsMatchReaders
      <4>2. CASE j # k
        BY <4>2, <3>2, <1>3 DEF PinsMatchReaders
      <4>3. QED BY <4>1, <4>2
    <3>7. QED BY <3>6 DEF PinsMatchReaders
  <2>2. CASE ~Opens
    <3>1. UNCHANGED <<stream, info>>
      BY <2>2, <1>2
    <3>2. QED BY <3>1, PinsKept
  <2>3. QED BY <2>1, <2>2
<1>10. ReadersKeepTheirBody'
  <2>1. \A q \in Stream : stream'[q] = stream[q] \/ (q = r /\ stream'[q] = opened)
    BY <1>2 DEF CacheTypes
  <2>2. QED BY <2>1 DEF ReadersKeepTheirBody
<1>11. FaultFree => FaultFree'
  <2>1. RowsOfIndex => RowsOfIndex'
    BY <1>1, <1>3, <1>5 DEF RowsOfIndex, Indexable
  <2>2. ReservedIsPending => ReservedIsPending'
    <3>1. \A j \in Key : info[j].refs \in Nat
      BY DEF CacheTypes
    <3>2. QED BY <1>1, <1>3, <3>1 DEF ReservedIsPending
  <2>3. SpaceMade => SpaceMade'
    BY BetweenOperations DEF SpaceMade
  <2>4. PutInOrder => PutInOrder'
    BY DEF PutInOrder
  <2>5. QED BY <2>1, <2>2, <2>3, <2>4 DEF FaultFree, Indexable
<1>12. AccidentFree => AccidentFree'
  BY <1>1, <1>5 DEF AccidentFree, PairedBodies
<1>13. QED BY <1>5, <1>7, <1>8, <1>9, <1>10, <1>11, <1>12

(* A stream is closed, and its entry removed when that was waited for.       *)
LEMMA DataIsReleased ==
  ASSUME CacheAssumption, CacheInv, NEW r \in Stream, ReleaseData(r)
  PROVE  CacheInv'
<1> USE DEF CacheInv
<1>0. PICK k \in Key : k = stream[r].key
  BY DEF ReleaseData, CacheTypes
<1> DEFINE last == LastReaderOfReserved(k)
<1>1. /\ NoKey \notin Key /\ NoBody \notin Body /\ Indexed \subseteq Key
      /\ Removals = {} /\ todo = {} /\ victim = NoKey /\ rest = {} /\ cur = NoKey /\ tried = FALSE
  BY BetweenOperations DEF ReleaseData
<1>2. /\ Idle /\ stream[r] # NoStream /\ stream' = [stream EXCEPT ![r] = NoStream]
      /\ lruList' = Touched(k) /\ info' = Released(k) /\ totalSize' = totalSize
      /\ IF last THEN todo' = {k} /\ at' = "drain" ELSE UNCHANGED <<todo, at>>
      /\ muddled' = IF OthersRead(r) THEN muddled ELSE muddled \ {k}
      /\ UNCHANGED <<disk, initialized, totalSize, call, victim, rest, cur, tried, draft, bounds>>
  BY <1>0 DEF ReleaseData
<1>3. /\ info' \in Infos
      /\ info'[k].refs = IF info[k].refs = 0 THEN 0 ELSE info[k].refs - 1
      /\ info'[k].size = info[k].size /\ info'[k].reserved = info[k].reserved
      /\ \A j \in Key \ {k} : info'[j] = info[j]
      /\ info[k].refs \in Nat
      /\ info[k] = NoInfo => info'[k] = NoInfo
  <2> DEFINE n == IF info[k].refs = 0 THEN 0 ELSE info[k].refs - 1
             new == [info[k] EXCEPT !.refs = n]
  <2>1. info \in Infos
    BY DEF CacheTypes, Infos
  <2>2. info[k] \in [size : Nat, refs : Nat, reserved : BOOLEAN]
    BY <2>1, <1>2 DEF Infos
  <2>3. n \in Nat
    BY <2>2
  <2>4. info' = [info EXCEPT ![k] = new]
    BY <1>2 DEF Released
  <2> HIDE DEF n
  <2>5. /\ new \in [size : Nat, refs : Nat, reserved : BOOLEAN]
        /\ new.refs = n /\ new.size = info[k].size /\ new.reserved = info[k].reserved
    BY ONLY <2>2, <2>3
  <2>8. info[k] = NoInfo => new = NoInfo
    BY ONLY DEF NoInfo, n
  <2> HIDE DEF new
  <2>6. info' \in Infos /\ info'[k] = new /\ \A j \in Key \ {k} : info'[j] = info[j]
    BY ONLY <2>1, <2>4, <2>5, <1>2 DEF Infos
  <2>7. QED BY ONLY <2>2, <2>5, <2>6, <2>8 DEF n
<1>4. k \notin Indexed => info'[k] = info[k] /\ info[k].refs = 0 /\ ~info[k].reserved
  <2>1. k \notin Indexed => info[k] = NoInfo
    BY DEF ListIsIndex
  <2>2. QED BY <1>3, <2>1 DEF NoInfo
<1>5. IndexStep(Indexed, k)
  BY <1>2, <1>3, <1>4, Touching
<1>6. Indexed' = Indexed /\ ListIsIndex' /\ TotalIsSum' /\ lruList' \in Seq(Key)
  BY <1>5 DEF IndexStep
<1>7. /\ Removals' = todo' /\ (last => todo' = {k} /\ at' = "drain" /\ k \in Indexed)
      /\ (~last => todo' = {} /\ at' = "idle")
  BY <1>1, <1>2, <1>4 DEF Removals, LastReaderOfReserved
<1>8. stream' \in [Stream -> [key : Key, body : Body] \cup {NoStream}]
  BY <1>2 DEF CacheTypes
<1>9. CacheTypes'
  BY <1>1, <1>2, <1>3, <1>6, <1>7, <1>8 DEF CacheTypes, Infos
<1>10. Pending' /\ Stages'
  BY <1>1, <1>2, <1>6, <1>7 DEF Pending, Stages, PutsKey
<1>11. RemovedAreUnused'
  BY <1>1, <1>2, <1>3, <1>7 DEF RemovedAreUnused, LastReaderOfReserved
<1>12. PinsMatchReaders'
  <2>1. Readers(k)' = Readers(k) \ {r} /\ r \in Readers(k) /\ Readers(k) \in SUBSET Stream
    BY <1>0, <1>2 DEF Readers, CacheTypes
  <2>2. \A j \in Key \ {k} : Readers(j)' = Readers(j)
    BY <1>0, <1>2 DEF Readers, CacheTypes
  <2>3. /\ Cardinality(Readers(k)) \in Nat
        /\ Cardinality(Readers(k)') = Cardinality(Readers(k)) - 1
        /\ Cardinality(Readers(k)') = 0 <=> Readers(k)' = {}
        /\ Cardinality(Readers(k)') \in Nat
    BY <2>1, ReaderCounts
  <2>4. OthersRead(r) <=> Readers(k)' # {}
    BY <1>0, <1>2, <2>1 DEF OthersRead, Readers, CacheTypes
  <2>5. ASSUME NEW j \in Key
        PROVE  /\ info'[j].refs <= Cardinality(Readers(j)')
               /\ j \notin muddled' => info'[j].refs = Cardinality(Readers(j)')
    <3>1. CASE j = k
      BY <3>1, <1>2, <1>3, <2>3, <2>4 DEF PinsMatchReaders
    <3>2. CASE j # k
      BY <3>2, <2>2, <1>2, <1>3 DEF PinsMatchReaders
    <3>3. QED BY <3>1, <3>2
  <2>6. QED BY <2>5 DEF PinsMatchReaders
<1>13. ReadersKeepTheirBody'
  <2>1. \A q \in Stream \ {r} : stream'[q] = stream[q]
    BY <1>2 DEF CacheTypes
  <2>2. stream'[r] = NoStream
    BY <1>2 DEF CacheTypes
  <2>3. \A q \in Stream \ {r} :
          stream[q] # NoStream /\ stream[q].key \notin muddled' => stream[q].key \notin muddled
    BY <1>0, <1>2 DEF OthersRead
  <2>4. QED BY <1>2, <2>1, <2>2, <2>3 DEF ReadersKeepTheirBody
<1>14. FaultFree => FaultFree'
  <2>1. RowsOfIndex => RowsOfIndex'
    BY <1>1, <1>2, <1>3, <1>6, <1>7 DEF RowsOfIndex, Indexable
  <2>2. ReservedIsPending => ReservedIsPending'
    BY <1>1, <1>2, <1>3, <1>7 DEF ReservedIsPending, LastReaderOfReserved
  <2>3. SpaceMade => SpaceMade'
    BY <1>1, <1>2, <1>7 DEF SpaceMade
  <2>4. PutInOrder => PutInOrder'
    BY <1>2, <1>4, <1>7 DEF PutInOrder, Stages
  <2>5. QED BY <2>1, <2>2, <2>3, <2>4, <1>2 DEF FaultFree, Indexable
<1>15. AccidentFree => AccidentFree'
  BY <1>1, <1>2, <1>6, <1>7 DEF AccidentFree, PairedBodies
<1>16. QED BY <1>2, <1>6, <1>9, <1>10, <1>11, <1>12, <1>13, <1>14, <1>15

-----------------------------------------------------------------------------
(* Remove and purge.                                                         *)
LEMMA RemovalStarts ==
  ASSUME CacheAssumption, CacheInv, (\E k \in Key : Remove(k)) \/ (\E busy \in BOOLEAN : Purge(busy))
  PROVE  CacheInv'
<1> USE DEF CacheInv, UnlessBusy
<1>1. /\ Idle /\ initialized
      /\ UNCHANGED <<disk, initialized, index, victim, rest, cur, tried, clients, bounds, muddled>>
      /\ todo' \subseteq Indexed
      /\ \/ at' = "drain" /\ call' = call /\ \A k \in todo' : info[k].refs = 0
         \/ at' = "purged" /\ call' = [NoCall EXCEPT !.ok = (todo' = Indexed)]
  BY DEF Remove, Purge, RemoveList, Unused
<1>2. /\ NoKey \notin Key /\ NoBody \notin Body /\ Indexed \subseteq Key
      /\ Removals = {} /\ Ready /\ tried = FALSE
  BY <1>1, BetweenOperations
<1>3. Removals' = todo'
  BY <1>1, <1>2 DEF Removals
<1>4. Indexed' = Indexed /\ ListIsIndex' /\ TotalIsSum'
  BY <1>1, IndexKept
<1>5. call' \in [key : Key \cup {NoKey}, body : Body \cup {NoBody}, ok : BOOLEAN]
  BY <1>1 DEF CacheTypes, NoCall
<1>6. CacheTypes'
  BY <1>1, <1>2, <1>5 DEF CacheTypes
<1>7. Pending'
  BY <1>1, <1>2, <1>3, <1>4 DEF Pending
<1>8. Stages'
  BY <1>1, <1>2, <1>3, <1>4 DEF Stages, PutsKey, NoCall
<1>9. RemovedAreUnused'
  BY <1>1, <1>2, <1>3 DEF RemovedAreUnused
<1>10. PinsMatchReaders'
  BY <1>1, PinsKept
<1>11. ReadersKeepTheirBody'
  BY <1>1, BodiesKept
<1>12. FaultFree => FaultFree'
  BY <1>1, <1>2, <1>3, <1>4
     DEF FaultFree, RowsOfIndex, ReservedIsPending, SpaceMade, PutInOrder, Indexable
<1>13. AccidentFree => AccidentFree'
  BY <1>1, <1>2, <1>4 DEF AccidentFree, PairedBodies
<1>14. QED BY <1>1, <1>4, <1>6, <1>7, <1>8, <1>9, <1>10, <1>11, <1>12, <1>13

LEMMA PurgeEnds ==
  ASSUME CacheAssumption, CacheInv, PurgeDone
  PROVE  CacheInv'
<1> USE DEF CacheInv, PurgeDone, Return
<1>1. NoKey \notin Key /\ NoBody \notin Body /\ Indexed \subseteq Key /\ initialized
  BY Sentinels DEF Stages
<1>2. Removals = {} /\ Removals' = {}
  BY DEF Removals
<1>3. Indexed' = Indexed /\ ListIsIndex' /\ TotalIsSum'
  BY IndexKept
<1>4. \/ UNCHANGED <<row, stale>>
      \/ row' = [k \in Key |-> NoBody] /\ stale' = {} /\ Indexed = {}
  BY <1>2 DEF NoRows, Stages
<1>5. /\ faults' \in 0..MaxFaults /\ accidents' \in 0..MaxAccidents
      /\ accidents' = accidents /\ faults <= faults'
  <2>1. Fault \/ UNCHANGED bounds
    OBVIOUS
  <2>2. QED BY <2>1, FaultCounted
<1>6. NothingFailed' => NothingFailed
  BY <1>5 DEF CacheTypes
<1>7. CacheTypes'
  BY <1>4, <1>5 DEF CacheTypes, NoCall
<1>8. Pending' /\ Stages' /\ RemovedAreUnused'
  BY <1>1, <1>2, <1>3 DEF Pending, Stages, PutsKey, RemovedAreUnused
<1>9. PinsMatchReaders'
  BY PinsKept
<1>10. ReadersKeepTheirBody'
  BY BodiesKept
<1>11. FaultFree => FaultFree'
  <2>1. RowsOfIndex => RowsOfIndex'
    BY <1>3, <1>4 DEF RowsOfIndex, Indexable
  <2>2. ReservedIsPending => ReservedIsPending'
    BY <1>2 DEF ReservedIsPending
  <2>3. SpaceMade => SpaceMade'
    BY DEF SpaceMade
  <2>4. PutInOrder'
    BY DEF PutInOrder
  <2>5. QED BY <2>1, <2>2, <2>3, <2>4, <1>4 DEF FaultFree, Indexable
<1>12. AccidentFree => AccidentFree'
  <2>1. faults' <= 2 => faults <= 2
    BY <1>5 DEF CacheTypes
  <2>2. QED BY <2>1, <1>1, <1>2, <1>3, <1>4, <1>6 DEF AccidentFree, PairedBodies
<1>13. QED BY <1>3, <1>5, <1>6, <1>7, <1>8, <1>9, <1>10, <1>11, <1>12

-----------------------------------------------------------------------------
(* Put, stage by stage.                                                      *)
LEMMA PutStarts ==
  ASSUME CacheAssumption, CacheInv, NEW k \in Key, NEW b \in Body, Put(k, b)
  PROVE  CacheInv'
<1> USE DEF CacheInv, Put, StartEnumeration
<1>1. /\ NoKey \notin Key /\ NoBody \notin Body /\ Indexed \subseteq Key
      /\ Removals = {} /\ Removals' = {} /\ Ready /\ tried = FALSE
  BY BetweenOperations DEF Removals
<1>2. Indexed' = Indexed /\ ListIsIndex' /\ TotalIsSum'
  BY IndexKept
<1>3. /\ initialized' /\ call'.key = k /\ call'.body = b
      /\ \/ rest' = rest /\ initialized
         \/ rest' = {j \in Key : row[j] # NoBody} /\ Indexed = {}
  BY DEF Stages
<1>4. CacheTypes'
  BY <1>3 DEF CacheTypes
<1>5. Pending' /\ Stages'
  BY <1>1, <1>2, <1>3 DEF Pending, Stages, PutsKey
<1>6. RemovedAreUnused'
  <2>1. Indexed = {} => \A j \in Key : info[j].refs = 0
    BY DEF ListIsIndex, NoInfo
  <2>2. QED BY <2>1, <1>1, <1>3 DEF RemovedAreUnused
<1>7. PinsMatchReaders'
  BY PinsKept
<1>8. ReadersKeepTheirBody'
  BY BodiesKept
<1>9. FaultFree => FaultFree'
  <2>1. RowsOfIndex => RowsOfIndex'
    BY <1>1, <1>2, <1>3 DEF RowsOfIndex, Indexable
  <2>2. ReservedIsPending => ReservedIsPending'
    BY <1>1 DEF ReservedIsPending
  <2>3. SpaceMade => SpaceMade'
    BY <1>1 DEF SpaceMade
  <2>4. PutInOrder'
    BY <1>3 DEF PutInOrder
  <2>5. QED BY <2>1, <2>2, <2>3, <2>4 DEF FaultFree, Indexable
<1>10. AccidentFree => AccidentFree'
  BY <1>1, <1>2, <1>3 DEF AccidentFree, PairedBodies
<1>11. QED BY <1>2, <1>4, <1>5, <1>6, <1>7, <1>8, <1>9, <1>10

LEMMA PutChecks ==
  ASSUME CacheAssumption, CacheInv, PutCheck
  PROVE  CacheInv'
<1> USE DEF CacheInv, PutCheck, Return
<1>1. NoKey \notin Key /\ NoBody \notin Body /\ Indexed \subseteq Key /\ Removals = {}
  BY Sentinels DEF Removals
<1>2. PICK k \in Key : k = call.key
  BY DEF Stages, PutsKey
<1>3. IndexStep(Indexed, k)
  BY <1>2, Touching DEF CacheTypes, Infos
<1>4. Indexed' = Indexed /\ ListIsIndex' /\ TotalIsSum' /\ lruList' \in Seq(Key)
  BY <1>3 DEF IndexStep
<1>5. /\ Removals' = todo' /\ \A j \in todo' : j = k /\ k \in Indexed /\ info[k].refs = 0
      /\ \/ at' = "space" /\ call' = call /\ info[k].refs = 0 /\ (k \in Indexed => k \in todo')
         \/ at' = "idle" /\ call' = NoCall /\ todo' = {}
  <2>1. k \notin Indexed => info[k].refs = 0
    BY DEF ListIsIndex, NoInfo
  <2>2. QED BY <2>1, <1>1, <1>2 DEF Removals, Replaceable, Unused
<1>6. CacheTypes'
  <2>1. call' \in Calls
    BY <1>5, CallTypes
  <2>2. todo' \subseteq Key /\ at' \in {"space", "idle"}
    BY <1>1, <1>5
  <2>3. QED BY <2>1, <2>2, <1>4 DEF CacheTypes, Calls
<1>7. Pending' /\ Stages'
  BY <1>1, <1>4, <1>5 DEF Pending, Stages, PutsKey
<1>8. RemovedAreUnused'
  BY <1>2, <1>5 DEF RemovedAreUnused
<1>9. PinsMatchReaders'
  BY PinsKept
<1>10. ReadersKeepTheirBody'
  BY BodiesKept
<1>11. FaultFree => FaultFree'
  <2>1. RowsOfIndex => RowsOfIndex'
    BY <1>1, <1>4, <1>5 DEF RowsOfIndex, Indexable
  <2>2. ReservedIsPending => ReservedIsPending'
    BY <1>1 DEF ReservedIsPending
  <2>3. SpaceMade => SpaceMade'
    BY <1>5 DEF SpaceMade
  <2>4. PutInOrder'
    BY <1>2, <1>4, <1>5 DEF PutInOrder, Stages
  <2>5. QED BY <2>1, <2>2, <2>3, <2>4 DEF FaultFree, Indexable
<1>12. AccidentFree => AccidentFree'
  BY <1>1, <1>4, <1>5 DEF AccidentFree, PairedBodies
<1>13. QED BY <1>4, <1>6, <1>7, <1>8, <1>9, <1>10, <1>11, <1>12

LEMMA PutMakesSpace ==
  ASSUME CacheAssumption, CacheInv, PutSpace
  PROVE  CacheInv'
<1> USE DEF CacheInv, PutSpace, Return
<1>1. /\ NoKey \notin Key /\ NoBody \notin Body /\ Indexed \subseteq Key /\ Removals = {}
      /\ initialized /\ call.key \in Key /\ Size[call.body] \in Nat
  BY Sentinels DEF Removals, Stages, PutsKey, CacheAssumption
<1>2. Indexed' = Indexed /\ ListIsIndex' /\ TotalIsSum'
  BY IndexKept
<1>3. /\ Removals' = todo' /\ \A j \in todo' : Unused(j)
      /\ \/ at' = "move" /\ call' = call /\ WillFit(Size[call.body])'
         \/ at' = "idle" /\ call' = NoCall /\ todo' = {}
  <2>1. CASE CanMakeSpace(Size[call.body])
    <3> DEFINE V == Victims(Size[call.body])
    <3>1. (\A j \in V : Unused(j)) /\ totalSize - Sum(info, V) + Size[call.body] <= MaxSize
      BY <1>1, <2>1, VictimsMakeRoom
    <3>2. todo' = V /\ at' = "move" /\ call' = call /\ Removals' = V
      BY <2>1 DEF Removals
    <3> HIDE DEF V
    <3>3. QED BY <3>1, <3>2 DEF WillFit
  <2>2. CASE ~CanMakeSpace(Size[call.body])
    BY <2>2 DEF Removals
  <2>3. QED BY <2>1, <2>2
<1>4. todo' \subseteq Indexed
  BY <1>3 DEF Unused
<1>5. CacheTypes'
  <2>1. call' \in Calls
    BY <1>3, CallTypes
  <2>2. todo' \subseteq Key /\ at' \in {"move", "idle"}
    BY <1>1, <1>3, <1>4
  <2>3. QED BY <2>1, <2>2 DEF CacheTypes, Calls
<1>6. Pending' /\ Stages'
  BY <1>1, <1>2, <1>3, <1>4 DEF Pending, Stages, PutsKey
<1>7. RemovedAreUnused'
  BY <1>3 DEF RemovedAreUnused, Unused
<1>8. PinsMatchReaders'
  BY PinsKept
<1>9. ReadersKeepTheirBody'
  BY BodiesKept
<1>10. FaultFree => FaultFree'
  <2>1. RowsOfIndex => RowsOfIndex'
    BY <1>1, <1>2, <1>3 DEF RowsOfIndex, Indexable
  <2>2. ReservedIsPending => ReservedIsPending'
    BY <1>1 DEF ReservedIsPending
  <2>3. SpaceMade => SpaceMade'
    BY <1>3 DEF SpaceMade
  <2>4. PutInOrder => PutInOrder'
    BY <1>1, <1>2, <1>3 DEF PutInOrder
  <2>5. QED BY <2>1, <2>2, <2>3, <2>4 DEF FaultFree, Indexable
<1>11. AccidentFree => AccidentFree'
  BY <1>1, <1>2, <1>3 DEF AccidentFree, PairedBodies
<1>12. QED BY <1>2, <1>5, <1>6, <1>7, <1>8, <1>9, <1>10, <1>11

(* The file of the key changes: nobody reads it, and no row stands for it.   *)
LEMMA UnusedFile ==
  ASSUME CacheAssumption, CacheInv, Ready, at \in {"move", "row"},
         stream' = stream, muddled' = muddled,
         \A j \in Key \ {call.key} : file'[j] = file[j]
  PROVE  /\ ReadersKeepTheirBody'
         /\ NothingFailed => ~Indexable(call.key)
<1> USE DEF CacheInv
<1>1. call.key \in Key /\ call.key # NoKey /\ at # "add" /\ rest = {} /\ cur = NoKey
  BY Sentinels DEF Stages, PutsKey
<1>2. call.key \notin muddled => Readers(call.key) = {}
  BY <1>1, UnreadKey DEF RemovedAreUnused
<1>3. ReadersKeepTheirBody'
  BY <1>2, BodiesKept
<1>4. FaultFree => ~Indexable(call.key)
  BY <1>1 DEF FaultFree, RowsOfIndex, PutInOrder, Indexable
<1>5. QED BY <1>3, <1>4

LEMMA PutMovesFile ==
  ASSUME CacheAssumption, CacheInv, PutClearsFile \/ PutMove
  PROVE  CacheInv'
<1> USE DEF CacheInv, PutClearsFile, PutMove
<1>1. /\ NoKey \notin Key /\ NoBody \notin Body /\ Indexed \subseteq Key /\ Removals = {}
      /\ Removals' = {} /\ call.key \in Key /\ call.body \in Body
  BY Sentinels DEF Removals, Stages, PutsKey
<1>2. Indexed' = Indexed /\ ListIsIndex' /\ TotalIsSum'
  BY IndexKept
<1>3. /\ \A j \in Key \ {call.key} : file'[j] = file[j]
      /\ file' \in [Key -> Body \cup {NoBody}]
      /\ \/ at' = "move" /\ file'[call.key] = NoBody
         \/ at' = "row" /\ file'[call.key] = call.body
  BY <1>1 DEF CacheTypes
<1>4. /\ faults' \in 0..MaxFaults /\ accidents' \in 0..MaxAccidents
      /\ accidents' = accidents /\ faults <= faults'
  <2>1. Fault \/ UNCHANGED bounds
    OBVIOUS
  <2>2. QED BY <2>1, FaultCounted
<1>5. NothingFailed' => NothingFailed
  BY <1>4 DEF CacheTypes
<1>6. CacheTypes'
  BY <1>3, <1>4 DEF CacheTypes
<1>7. Pending' /\ Stages' /\ RemovedAreUnused'
  BY <1>1, <1>2, <1>3 DEF Pending, Stages, PutsKey, RemovedAreUnused
<1>8. PinsMatchReaders'
  BY PinsKept
<1>9. ReadersKeepTheirBody' /\ (NothingFailed => ~Indexable(call.key))
  BY <1>3, UnusedFile
<1>10. NothingFailed' => FaultFree'
  <2>1. SUFFICES ASSUME NothingFailed, FaultFree PROVE FaultFree'
    BY <1>5
  <2>2. RowsOfIndex'
    BY <2>1, <1>2, <1>3 DEF FaultFree, RowsOfIndex, Indexable
  <2>3. ReservedIsPending'
    BY <2>1, <1>1 DEF FaultFree, ReservedIsPending
  <2>4. SpaceMade'
    BY <2>1, <1>1, <1>2, <1>3 DEF FaultFree, SpaceMade, WillFit, Stages
  <2>5. PutInOrder'
    BY <2>1, <1>1, <1>2, <1>3 DEF FaultFree, PutInOrder, Stages
  <2>6. QED BY <2>1, <2>2, <2>3, <2>4, <2>5, <1>3, <1>9 DEF FaultFree, Indexable
<1>11. AccidentFree => AccidentFree'
  <2>1. faults' <= 2 => faults <= 2
    BY <1>4 DEF CacheTypes
  <2>2. QED BY <2>1, <1>1, <1>2, <1>3, <1>5 DEF AccidentFree, PairedBodies, WillFit
<1>12. QED BY <1>2, <1>4, <1>6, <1>7, <1>8, <1>9, <1>10, <1>11

LEMMA PutGivesUp ==
  ASSUME CacheAssumption, CacheInv, PutMoveFails \/ PutRowAndDeleteFail
  PROVE  CacheInv'
<1> USE DEF CacheInv, PutMoveFails, PutRowAndDeleteFail, Return
<1>1. /\ NoKey \notin Key /\ NoBody \notin Body /\ Indexed \subseteq Key /\ Removals = {}
      /\ Removals' = {} /\ call.key \in Key
  BY Sentinels DEF Removals, Stages, PutsKey
<1>2. Indexed' = Indexed /\ ListIsIndex' /\ TotalIsSum'
  BY IndexKept
<1>3. /\ faults' \in 0..MaxFaults /\ accidents' = accidents /\ ~NothingFailed'
      /\ \/ at = "move" /\ faults' = faults + 1
         \/ at = "row" /\ faults' = faults + 2
  BY DEF Fault, CacheTypes, CacheAssumption
<1>4. CacheTypes'
  BY <1>3, CallTypes DEF CacheTypes, Calls
<1>5. Pending' /\ Stages' /\ RemovedAreUnused'
  BY <1>1, <1>2 DEF Pending, Stages, PutsKey, RemovedAreUnused
<1>6. PinsMatchReaders'
  BY PinsKept
<1>7. ReadersKeepTheirBody'
  BY BodiesKept
<1>8. accidents = 0 /\ faults' <= 2 /\ at = "row" => row[call.key] = NoBody
  <2>1. faults' <= 2 /\ at = "row" => NothingFailed
    BY <1>3 DEF CacheTypes
  <2>2. FaultFree /\ at = "row" => call.key \notin Indexed
    BY DEF FaultFree, PutInOrder
  <2>3. QED BY <2>1, <2>2, <1>1 DEF AccidentFree
<1>9. AccidentFree /\ accidents = 0 => AccidentFree'
  <2>1. faults' <= 2 => faults <= 2
    BY <1>3 DEF CacheTypes
  <2>2. QED BY <2>1, <1>1, <1>3, <1>8 DEF AccidentFree, PairedBodies
<1>10. QED BY <1>2, <1>3, <1>4, <1>5, <1>6, <1>7, <1>9

LEMMA PutCannotWriteRow ==
  ASSUME CacheAssumption, CacheInv, PutRowFails
  PROVE  CacheInv'
<1> USE DEF CacheInv, PutRowFails, Return
<1>1. /\ NoKey \notin Key /\ NoBody \notin Body /\ Indexed \subseteq Key /\ Removals = {}
      /\ Removals' = {} /\ call.key \in Key
  BY Sentinels DEF Removals, Stages, PutsKey
<1>2. Indexed' = Indexed /\ ListIsIndex' /\ TotalIsSum'
  BY IndexKept
<1>3. /\ faults' \in 0..MaxFaults /\ accidents' \in 0..MaxAccidents
      /\ accidents' = accidents /\ ~NothingFailed' /\ (faults' <= 2 => faults <= 2)
  BY FaultCounted DEF CacheTypes
<1>4. /\ \A j \in Key \ {call.key} : file'[j] = file[j]
      /\ file' \in [Key -> Body \cup {NoBody}] /\ file'[call.key] = NoBody
  BY <1>1 DEF CacheTypes
<1>5. CacheTypes'
  BY <1>3, <1>4, CallTypes DEF CacheTypes, Calls
<1>6. Pending' /\ Stages' /\ RemovedAreUnused'
  BY <1>1, <1>2 DEF Pending, Stages, PutsKey, RemovedAreUnused
<1>7. PinsMatchReaders'
  BY PinsKept
<1>8. ReadersKeepTheirBody'
  BY <1>4, UnusedFile
<1>9. AccidentFree => AccidentFree'
  BY <1>1, <1>3, <1>4 DEF AccidentFree, PairedBodies
<1>10. QED BY <1>2, <1>3, <1>5, <1>6, <1>7, <1>8, <1>9

LEMMA PutWritesRow ==
  ASSUME CacheAssumption, CacheInv, PutRow
  PROVE  CacheInv'
<1> USE DEF CacheInv, PutRow
<1>1. /\ NoKey \notin Key /\ NoBody \notin Body /\ Indexed \subseteq Key /\ Removals = {}
      /\ Removals' = {} /\ call.key \in Key /\ call.body \in Body
  BY Sentinels DEF Removals, Stages, PutsKey
<1>2. Indexed' = Indexed /\ ListIsIndex' /\ TotalIsSum'
  BY IndexKept
<1>3. /\ \A j \in Key \ {call.key} : row'[j] = row[j]
      /\ row' \in [Key -> Body \cup {NoBody}] /\ row'[call.key] = call.body
  BY <1>1 DEF CacheTypes
<1>4. CacheTypes'
  BY <1>3 DEF CacheTypes
<1>5. Pending' /\ Stages' /\ RemovedAreUnused'
  BY <1>1, <1>2, <1>3 DEF Pending, Stages, PutsKey, RemovedAreUnused
<1>6. PinsMatchReaders'
  BY PinsKept
<1>7. ReadersKeepTheirBody'
  BY BodiesKept
<1>8. FaultFree => FaultFree'
  <2>1. RowsOfIndex /\ PutInOrder => RowsOfIndex'
    BY <1>1, <1>2, <1>3 DEF RowsOfIndex, PutInOrder, Indexable
  <2>2. ReservedIsPending => ReservedIsPending'
    BY <1>1 DEF ReservedIsPending
  <2>3. SpaceMade => SpaceMade'
    BY <1>1, <1>2 DEF SpaceMade, WillFit
  <2>4. PutInOrder => PutInOrder'
    BY <1>1, <1>2, <1>3 DEF PutInOrder
  <2>5. PutInOrder => file[call.key] = call.body
    BY DEF PutInOrder
  <2>6. QED BY <2>1, <2>2, <2>3, <2>4, <2>5, <1>3 DEF FaultFree, Indexable
<1>9. AccidentFree => AccidentFree'
  BY <1>1, <1>2, <1>3 DEF AccidentFree, PairedBodies, WillFit
<1>10. QED BY <1>2, <1>4, <1>5, <1>6, <1>7, <1>8, <1>9

(* The index has room for the new body, or makes it once more, or refuses.   *)
LEMMA RoomForNewBody ==
  ASSUME CacheAssumption, CacheInv, NothingFailed, at = "add", NoRemovalPending
  PROVE  /\ AddMakesSpace(call.key, Size[call.body]) => FALSE
         /\ AddRefused(call.key, Size[call.body]) => Indexed = {} /\ ~Indexable(call.key)
         /\ AddEnters(call.key, Size[call.body]) => totalSize + Size[call.body] <= MaxSize
         /\ call.key \notin Indexed /\ row[call.key] = call.body
<1> DEFINE size == Size[call.body]
<1> USE DEF CacheInv
<1>1. /\ size \in Nat /\ totalSize \in Int /\ MaxSize \in Nat
      /\ FaultFree /\ Removals = {}
  BY Sentinels DEF Removals, CacheTypes, CacheAssumption, Stages, PutsKey
<1>2. call.key \notin Indexed /\ row[call.key] = call.body /\ ~tried
  BY <1>1 DEF FaultFree, PutInOrder, SpaceMade
<1>3. AddRoom(call.key, size) <=> Fits(size)
  BY <1>2 DEF AddRoom, Grows
<1>4. Indexed = {} \/ Fits(size)
  BY <1>1, SumOfNone DEF FaultFree, SpaceMade, WillFit, Fits
<1>5. Indexed = {} => Cuts(size) = {} /\ totalSize = 0
  BY NothingIndexed
<1>6. QED BY <1>1, <1>2, <1>3, <1>4, <1>5
          DEF AddMakesSpace, AddRefused, AddEnters, Fits, Indexable

LEMMA PutEntersKey ==
  ASSUME CacheAssumption, CacheInv, PutAdd
  PROVE  CacheInv'
<1> USE DEF CacheInv
<1>0. PICK k \in Key : k = call.key
  BY DEF PutAdd, Stages, PutsKey
<1> DEFINE size == Size[call.body]
<1>1. /\ NoKey \notin Key /\ NoBody \notin Body /\ Indexed \subseteq Key /\ Removals = {}
      /\ rest = {} /\ cur = NoKey /\ initialized /\ size \in Nat /\ call.body \in Body
      /\ info[k].refs = 0
  BY <1>0, Sentinels DEF PutAdd, Removals, Stages, PutsKey, CacheAssumption, RemovedAreUnused
<1>2. /\ at = "add" /\ NoRemovalPending
      /\ UNCHANGED <<disk, initialized, victim, rest, cur, clients, bounds, muddled>>
  BY DEF PutAdd
<1>3. CASE AddEnters(k, size) /\ Return
  <2>1. /\ IndexStep(Indexed \cup {k}, k)
        /\ info'[k] = [NoInfo EXCEPT !.size = size]
        /\ totalSize' = totalSize - info[k].size + size
        /\ tried' = FALSE /\ todo' = {} /\ at' = "idle" /\ call' = NoCall
    BY <1>1, <1>2, <1>3, Entering DEF AddEnters, Return
  <2>2. Indexed' = Indexed \cup {k} /\ ListIsIndex' /\ TotalIsSum' /\ info' \in Infos
    BY <2>1 DEF IndexStep
  <2>3. /\ \A j \in Key : j # k => info'[j] = info[j]
        /\ info'[k].refs = 0 /\ ~info'[k].reserved /\ info'[k].size = size
    BY <2>1 DEF IndexStep, NoInfo
  <2>4. CacheTypes'
    BY <1>2, <2>1, CallTypes DEF CacheTypes, Calls, IndexStep, Infos
  <2>5. Removals' = {}
    BY <1>2, <2>1 DEF Removals
  <2>6. Pending' /\ Stages' /\ RemovedAreUnused'
    BY <1>1, <1>2, <2>1, <2>2, <2>5 DEF Pending, Stages, PutsKey, RemovedAreUnused
  <2>7. PinsMatchReaders'
    BY <1>1, <1>2, <2>3, PinsKept
  <2>8. ReadersKeepTheirBody'
    BY <1>2, BodiesKept
  <2>9. NothingFailed => FaultFree'
    <3>1. SUFFICES ASSUME NothingFailed PROVE FaultFree'
      OBVIOUS
    <3>2. /\ FaultFree /\ k \notin Indexed /\ row[k] = call.body
          /\ totalSize + size <= MaxSize
      BY <3>1, <1>0, <1>2, <1>3, RoomForNewBody
    <3>3. RowsOfIndex'
      <4>1. RowsOfIndex /\ victim = NoKey /\ row' = row /\ stale' = stale
        BY <3>2, <1>2 DEF FaultFree
      <4>2. \A j \in Indexed' : row'[j] # NoBody
        BY <4>1, <3>2, <1>1, <2>2 DEF RowsOfIndex
      <4>3. \A j \in Indexed' \ stale' : row'[j] # NoBody => info'[j].size = Size[row'[j]]
        BY <4>1, <3>2, <1>0, <1>1, <2>2, <2>3 DEF RowsOfIndex
      <4>4. \A j \in Key : Indexable(j)' => j \in Indexed'
        BY <4>1, <1>0, <1>1, <2>2 DEF RowsOfIndex, Indexable
      <4>5. QED BY <4>2, <4>3, <4>4 DEF RowsOfIndex
    <3>4. ReservedIsPending'
      BY <3>2, <1>1, <2>3 DEF FaultFree, ReservedIsPending
    <3>5. SpaceMade'
      <4>1. info[k].size = 0
        BY <3>2 DEF ListIsIndex, NoInfo
      <4>2. totalSize' <= MaxSize
        BY <4>1, <3>2, <1>1, <2>1 DEF CacheTypes, CacheAssumption
      <4>3. QED BY <4>2, <1>1, <1>2, <2>1 DEF SpaceMade
    <3>6. PutInOrder'
      BY <1>1, <1>2, <2>1 DEF PutInOrder
    <3>7. QED BY <3>2, <3>3, <3>4, <3>5, <3>6, <1>2 DEF FaultFree, Indexable
  <2>10. AccidentFree => AccidentFree'
    BY <1>0, <1>1, <1>2, <2>1, <2>2 DEF AccidentFree, PairedBodies
  <2>11. QED BY <1>2, <2>2, <2>4, <2>6, <2>7, <2>8, <2>9, <2>10
<1>4. CASE AddRefused(k, size) /\ Return
  <2>1. /\ UNCHANGED index /\ todo' = {} /\ tried' = FALSE
        /\ at' = "idle" /\ call' = NoCall
    BY <1>2, <1>4 DEF AddRefused, AddRoom, Return, CacheTypes
  <2>2. Indexed' = Indexed /\ ListIsIndex' /\ TotalIsSum'
    BY <2>1, IndexKept
  <2>3. CacheTypes'
    BY <1>2, <2>1, CallTypes DEF CacheTypes, Calls
  <2>4. Removals' = {}
    BY <1>2, <2>1 DEF Removals
  <2>5. Pending' /\ Stages' /\ RemovedAreUnused'
    BY <1>1, <1>2, <2>1, <2>2, <2>4 DEF Pending, Stages, PutsKey, RemovedAreUnused
  <2>6. PinsMatchReaders'
    BY <1>2, <2>1, PinsKept
  <2>7. ReadersKeepTheirBody'
    BY <1>2, BodiesKept
  <2>8. NothingFailed => FaultFree'
    <3>1. SUFFICES ASSUME NothingFailed PROVE FaultFree'
      OBVIOUS
    <3>2. FaultFree /\ ~Indexable(k)
      BY <3>1, <1>0, <1>2, <1>4, RoomForNewBody
    <3>3. RowsOfIndex'
      BY <3>2, <1>0, <1>1, <1>2, <2>1, <2>2 DEF FaultFree, RowsOfIndex, Indexable
    <3>4. ReservedIsPending'
      BY <3>2, <1>1, <2>1 DEF FaultFree, ReservedIsPending
    <3>5. SpaceMade'
      BY <3>2, <1>1, <1>2, <2>1 DEF FaultFree, SpaceMade
    <3>6. PutInOrder'
      BY <1>1, <1>2, <2>1 DEF PutInOrder
    <3>7. QED BY <3>2, <3>3, <3>4, <3>5, <3>6, <1>2 DEF FaultFree, Indexable
  <2>9. AccidentFree => AccidentFree'
    <3>1. NothingFailed /\ AccidentFree => FALSE
      <4>1. AccidentFree /\ NothingFailed => Fits(size)
        BY <1>1, <1>2, SumOfNone DEF AccidentFree, WillFit, Fits, CacheTypes, CacheAssumption
      <4>2. QED BY <4>1, <1>4 DEF AddRefused, AddRoom
    <3>2. QED BY <3>1, <1>1, <1>2, <2>1, <2>2 DEF AccidentFree, PairedBodies
  <2>10. QED BY <1>2, <2>2, <2>3, <2>5, <2>6, <2>7, <2>8, <2>9
<1>5. CASE AddMakesSpace(k, size) /\ UNCHANGED <<at, call>>
  <2>1. ~NothingFailed /\ ~NothingFailed'
    BY <1>0, <1>2, <1>5, RoomForNewBody
  <2>2. /\ UNCHANGED index /\ tried' = TRUE /\ Removals' = todo'
        /\ \A j \in todo' : j # k /\ Unused(j)
    BY <1>1, <1>2, <1>5, AddedSpace DEF AddMakesSpace, Removals
  <2>3. Indexed' = Indexed /\ ListIsIndex' /\ TotalIsSum' /\ todo' \subseteq Indexed
    BY <2>2, IndexKept DEF Unused
  <2>4. CacheTypes'
    BY <1>1, <1>2, <1>5, <2>2, <2>3 DEF CacheTypes
  <2>5. Pending' /\ Stages' /\ RemovedAreUnused'
    BY <1>0, <1>1, <1>2, <1>5, <2>2, <2>3 DEF Pending, Stages, PutsKey, RemovedAreUnused, Unused
  <2>6. PinsMatchReaders'
    BY <1>2, <2>2, PinsKept
  <2>7. ReadersKeepTheirBody'
    BY <1>2, BodiesKept
  <2>8. AccidentFree => AccidentFree'
    BY <1>0, <1>1, <1>2, <1>5, <2>1, <2>2, <2>3 DEF AccidentFree, PairedBodies
  <2>9. QED BY <1>2, <2>1, <2>3, <2>4, <2>5, <2>6, <2>7, <2>8
<1>6. QED BY <1>0, <1>3, <1>4, <1>5 DEF PutAdd, AddEnds

-----------------------------------------------------------------------------
(* Corruptions and crashes: the index is forgotten.                          *)
LEMMA CorruptionIsFound ==
  ASSUME CacheAssumption, CacheInv,
         FindCorruption \/ \E k \in Key, b \in Body : PutFindsCorruption(k, b)
  PROVE  CacheInv'
<1> USE DEF CacheInv, Corrupted, Accident, ForgetIndex
<1>1. Corrupted
  BY DEF FindCorruption, PutFindsCorruption
<1>2. /\ lruList' \in Seq(Key) /\ info' \in Infos /\ totalSize' \in Int /\ totalSize' = 0
      /\ ListIsIndex' /\ TotalIsSum' /\ Indexed' = {}
      /\ \A k \in Key : info'[k].refs = 0 /\ ~info'[k].reserved
  BY <1>1, Forgetting DEF NoInfo
<1>3. /\ at' \in {"clean", "cleanThenMove"} /\ call' \in Calls
      /\ at' = "cleanThenMove" => call'.key \in Key /\ call'.body \in Body
  <2>1. CASE FindCorruption
    BY <2>1, CallTypes DEF FindCorruption, Stages, PutsKey
  <2>2. CASE \E k \in Key, b \in Body : PutFindsCorruption(k, b)
    BY <2>2 DEF PutFindsCorruption, Calls
  <2>3. QED BY <2>1, <2>2
<1>4. /\ accidents' \in 0..MaxAccidents /\ accidents' # 0 /\ faults' \in 0..MaxFaults
      /\ NothingFailed' => row' = [k \in Key |-> NoBody]
  BY <1>1 DEF CacheTypes, CacheAssumption, NoRows
<1>5. CacheTypes'
  <2>1. /\ row' \in [Key -> Body \cup {NoBody}] /\ stale' \subseteq Key
        /\ muddled' \subseteq Key
    BY <1>1, Sentinels DEF CacheTypes, NoRows, ReadEntries
  <2>2. QED BY <2>1, <1>1, <1>2, <1>3, <1>4 DEF CacheTypes, Calls, Infos
<1>6. Removals' = {}
  BY <1>1 DEF Removals
<1>7. Pending' /\ Stages' /\ RemovedAreUnused'
  BY <1>1, <1>2, <1>3, <1>6 DEF Pending, Stages, PutsKey, RemovedAreUnused
<1>8. PinsMatchReaders'
  <2>1. ASSUME NEW k \in Key
        PROVE  \/ info'[k].refs = info[k].refs /\ (k \in muddled => k \in muddled')
               \/ info'[k].refs = 0 /\ k \in muddled'
    <3>1. k \notin Indexed => info[k].refs = 0
      BY DEF ListIsIndex, NoInfo
    <3>2. info[k].refs \in Nat
      BY DEF CacheTypes
    <3>3. QED BY <3>1, <3>2, <1>1, <1>2 DEF ReadEntries
  <2>2. QED BY <2>1, <1>1, PinsKept
<1>9. ReadersKeepTheirBody'
  BY <1>1, BodiesKept
<1>10. NothingFailed' => FaultFree'
  <2>1. SUFFICES ASSUME NothingFailed' PROVE FaultFree'
    OBVIOUS
  <2>2. \A k \in Key : row'[k] = NoBody
    BY <2>1, <1>4
  <2>3. RowsOfIndex' /\ ReservedIsPending'
    BY <1>1, <1>2 DEF RowsOfIndex, ReservedIsPending
  <2>4. SpaceMade'
    BY <1>1, <1>2, <1>3 DEF SpaceMade, CacheAssumption
  <2>5. PutInOrder'
    BY <2>2, <1>3 DEF PutInOrder
  <2>6. QED BY <2>2, <2>3, <2>4, <2>5 DEF FaultFree, Indexable
<1>11. QED BY <1>2, <1>4, <1>5, <1>7, <1>8, <1>9, <1>10

LEMMA CorruptionLeavesPut ==
  ASSUME CacheAssumption, CacheInv, CorruptionEscapes
  PROVE  CacheInv'
<1> USE DEF CacheInv, CorruptionEscapes, Accident, Return
<1>1. /\ NoKey \notin Key /\ NoBody \notin Body /\ Indexed \subseteq Key
      /\ todo # {} /\ victim = NoKey /\ rest = {} /\ cur = NoKey /\ initialized
  BY Sentinels DEF UsesDatabase, Stages
<1>2. ~NothingFailed /\ ~NothingFailed'
  BY <1>1 DEF FaultFree, PutInOrder
<1>3. accidents' \in 0..MaxAccidents /\ accidents' # 0
  BY DEF CacheTypes, CacheAssumption
<1>4. CacheTypes'
  BY <1>3, CallTypes DEF CacheTypes, Calls
<1>5. Indexed' = Indexed /\ ListIsIndex' /\ TotalIsSum'
  BY IndexKept
<1>6. Removals' = {}
  BY <1>1 DEF Removals
<1>7. Pending' /\ Stages' /\ RemovedAreUnused'
  BY <1>1, <1>5, <1>6 DEF Pending, Stages, PutsKey, RemovedAreUnused
<1>8. PinsMatchReaders'
  BY PinsKept
<1>9. ReadersKeepTheirBody'
  BY BodiesKept
<1>10. QED BY <1>2, <1>3, <1>4, <1>5, <1>7, <1>8, <1>9

LEMMA FilesAreCleaned ==
  ASSUME CacheAssumption, CacheInv, CleanFiles
  PROVE  CacheInv'
<1> USE DEF CacheInv
<1>1. /\ NoKey \notin Key /\ NoBody \notin Body /\ ~initialized
      /\ Indexed = {} /\ Removals = {} /\ Ready /\ tried = FALSE
  BY Sentinels DEF CleanFiles, Stages, Pending, Removals, CacheTypes
<1>2. /\ UNCHANGED <<row, stale, initialized, index, work, clients, muddled>>
      /\ Fault \/ UNCHANGED bounds
      /\ file' \in [Key -> Body \cup {NoBody}]
      /\ \/ at' = "idle" /\ call' = NoCall
         \/ at' = "move" /\ call' = call /\ call.key \in Key /\ call.body \in Body
  BY DEF CleanFiles, Return, CacheTypes, Stages, PutsKey
<1>3. /\ faults' \in 0..MaxFaults /\ accidents' \in 0..MaxAccidents
      /\ accidents' = accidents /\ faults <= faults'
  BY <1>2, FaultCounted
<1>4. accidents # 0
  BY DEF AccidentFree, CleanFiles
<1>5. CacheTypes'
  BY <1>2, <1>3, CallTypes DEF CacheTypes, Calls
<1>6. Indexed' = Indexed /\ ListIsIndex' /\ TotalIsSum' /\ Removals' = {}
  BY <1>1, <1>2, IndexKept DEF Removals
<1>7. \A k \in Key : info[k].refs = 0
  BY <1>1 DEF ListIsIndex, NoInfo
<1>8. Pending' /\ Stages' /\ RemovedAreUnused'
  BY <1>1, <1>2, <1>6, <1>7 DEF Pending, Stages, PutsKey, RemovedAreUnused
<1>9. PinsMatchReaders'
  BY <1>2, PinsKept
<1>10. ReadersKeepTheirBody'
  <2>1. \A k \in Key \ muddled : Readers(k) = {}
    BY <1>7, UnreadKey
  <2>2. QED BY <1>2, <2>1, BodiesKept
<1>11. NothingFailed' => FaultFree'
  <2>1. SUFFICES ASSUME NothingFailed, FaultFree PROVE FaultFree'
    BY <1>3 DEF CacheTypes
  <2>2. \A k \in Key : row'[k] = NoBody
    BY <2>1, <1>1, <1>2 DEF FaultFree, PutInOrder, CleanFiles
  <2>3. RowsOfIndex' /\ ReservedIsPending'
    BY <2>1, <1>1, <1>2, <1>6 DEF FaultFree, RowsOfIndex, ReservedIsPending
  <2>4. SpaceMade'
    BY <2>1, <1>1, <1>2, <1>6 DEF FaultFree, SpaceMade
  <2>5. PutInOrder'
    BY <2>2, <1>1, <1>2, <1>6 DEF PutInOrder
  <2>6. QED BY <2>2, <2>3, <2>4, <2>5 DEF FaultFree, Indexable
<1>12. QED BY <1>3, <1>4, <1>5, <1>6, <1>8, <1>9, <1>10, <1>11

LEMMA NothingIsRead ==
  ASSUME CacheTypes, stream = [r \in Stream |-> NoStream], \A k \in Key : info[k].refs = 0
  PROVE  PinsMatchReaders /\ ReadersKeepTheirBody
<1>1. \A k \in Key : Readers(k) = {}
  BY DEF Readers
<1>2. QED BY <1>1, FS_EmptySet DEF PinsMatchReaders, ReadersKeepTheirBody

LEMMA ProcessDies ==
  ASSUME CacheAssumption, CacheInv, Crash
  PROVE  CacheInv'
<1> USE DEF CacheInv, Crash, Accident, ForgetIndex, Return
<1>1. /\ lruList' \in Seq(Key) /\ info' \in Infos /\ totalSize' \in Int /\ totalSize' = 0
      /\ ListIsIndex' /\ TotalIsSum' /\ Indexed' = {}
      /\ \A k \in Key : info'[k].refs = 0 /\ ~info'[k].reserved
  BY Forgetting DEF NoInfo
<1>2. accidents' \in 0..MaxAccidents /\ accidents' # 0
  BY DEF CacheTypes, CacheAssumption
<1>3. CacheTypes'
  BY <1>1, <1>2, CallTypes DEF CacheTypes, Calls, Infos
<1>4. Removals' = {}
  BY DEF Removals
<1>5. Pending' /\ Stages' /\ RemovedAreUnused'
  BY <1>1, <1>4 DEF Pending, Stages, PutsKey, RemovedAreUnused
<1>6. PinsMatchReaders' /\ ReadersKeepTheirBody'
  <2>1. \A r \in Stream : stream'[r] = NoStream
    OBVIOUS
  <2>2. \A k \in Key : Readers(k)' = {}
    BY <2>1 DEF Readers
  <2>3. \A k \in Key : Cardinality(Readers(k)') = 0
    BY <2>2, FS_EmptySet
  <2>4. \A k \in Key : info'[k].refs = 0
    BY <1>1
  <2>5. PinsMatchReaders'
    BY ONLY <2>3, <2>4 DEF PinsMatchReaders
  <2>6. QED BY <2>1, <2>5 DEF ReadersKeepTheirBody
<1>7. FaultFree => FaultFree'
  <2>1. RowsOfIndex' /\ ReservedIsPending'
    BY <1>1 DEF RowsOfIndex, ReservedIsPending
  <2>2. SpaceMade'
    BY <1>1 DEF SpaceMade, CacheAssumption
  <2>3. PutInOrder'
    BY DEF PutInOrder
  <2>4. QED BY <2>1, <2>2, <2>3 DEF FaultFree, Indexable
<1>8. QED BY <1>1, <1>2, <1>3, <1>5, <1>6, <1>7

-----------------------------------------------------------------------------
LEMMA CacheStarts ==
  ASSUME CacheAssumption, Init
  PROVE  CacheInv
<1> USE DEF Init
<1>1. Indexed = {} /\ Removals = {}
  BY DEF Indexed, Removals
<1>2. CacheTypes
  <2>1. lruList \in Seq(Key) /\ call \in Calls
    BY CallTypes
  <2>2. row \in [Key -> Body \cup {NoBody}] /\ file \in [Key -> Body \cup {NoBody}]
    OBVIOUS
  <2>3. info \in [Key -> [size : Nat, refs : Nat, reserved : BOOLEAN]]
    BY DEF NoInfo
  <2>4. /\ stream \in [Stream -> [key : Key, body : Body] \cup {NoStream}]
        /\ draft \in [Updater -> [key : Key, body : Body] \cup {NoDraft}]
    OBVIOUS
  <2>5. faults \in 0..MaxFaults /\ accidents \in 0..MaxAccidents
    BY DEF CacheAssumption
  <2>6. initialized \in BOOLEAN /\ tried \in BOOLEAN
    BY Zenon
  <2>7. /\ totalSize \in Int /\ at = "idle"
        /\ todo \subseteq Key /\ victim \in Key \cup {NoKey}
        /\ rest \subseteq Key /\ cur \in Key \cup {NoKey}
        /\ muddled \subseteq Key /\ stale \subseteq Key
    OBVIOUS
  <2>8. QED BY ONLY <2>1, <2>2, <2>3, <2>4, <2>5, <2>6, <2>7 DEF CacheTypes, Calls
<1>3. ListIsIndex /\ TotalIsSum
  BY <1>1, SumOfNone, TotalIsASum DEF ListIsIndex
<1>4. Pending /\ Stages /\ RemovedAreUnused
  BY <1>1 DEF Pending, Stages, PutsKey, RemovedAreUnused
<1>5. PinsMatchReaders /\ ReadersKeepTheirBody
  BY <1>2, NothingIsRead DEF NoInfo
<1>6. FaultFree
  BY <1>1 DEF FaultFree, RowsOfIndex, ReservedIsPending, SpaceMade, PutInOrder, Indexable,
              NoInfo, CacheAssumption
<1>7. AccidentFree
  BY DEF AccidentFree, PairedBodies
<1>8. QED BY <1>2, <1>3, <1>4, <1>5, <1>6, <1>7 DEF CacheInv

LEMMA CacheStutters ==
  ASSUME CacheInv, UNCHANGED vars
  PROVE  CacheInv'
<1> USE DEF vars
<1>1. Indexed' = Indexed /\ (ListIsIndex => ListIsIndex') /\ (TotalIsSum => TotalIsSum')
  BY IndexKept
<1>2. Removals' = Removals
  BY DEF Removals
<1>3. CacheTypes => CacheTypes'
  BY DEF CacheTypes
<1>4. Pending /\ Stages /\ RemovedAreUnused => Pending' /\ Stages' /\ RemovedAreUnused'
  BY <1>1, <1>2 DEF Pending, Stages, PutsKey, RemovedAreUnused
<1>5. PinsMatchReaders /\ ReadersKeepTheirBody => PinsMatchReaders' /\ ReadersKeepTheirBody'
  BY DEF PinsMatchReaders, ReadersKeepTheirBody, Readers
<1>6. FaultFree => FaultFree'
  <2>1. (RowsOfIndex => RowsOfIndex') /\ (ReservedIsPending => ReservedIsPending')
    BY <1>1, <1>2 DEF RowsOfIndex, ReservedIsPending, Indexable
  <2>2. (SpaceMade => SpaceMade') /\ (PutInOrder => PutInOrder')
    BY <1>1, <1>2 DEF SpaceMade, PutInOrder, WillFit
  <2>3. QED BY <2>1, <2>2 DEF FaultFree, Indexable
<1>7. AccidentFree => AccidentFree'
  BY <1>1, <1>2 DEF AccidentFree, PairedBodies, WillFit
<1>8. QED BY <1>1, <1>3, <1>4, <1>5, <1>6, <1>7 DEF CacheInv

LEMMA CacheSteps ==
  ASSUME CacheAssumption, CacheInv, [Next]_vars
  PROVE  CacheInv'
<1>1. CASE Removing
  BY <1>1, RowIsDeleted, RowIsNotDeleted, FileIsDeleted, FileIsNotDeleted DEF Removing
<1>2. CASE Enumerating
  BY <1>2, RowIsEnumerated, EnumeratedRowIsAdded DEF Enumerating
<1>3. CASE Putting
  BY <1>3, PutChecks, PutMakesSpace, PutMovesFile, PutGivesUp, EnumerationStarts, PutWritesRow,
     PutCannotWriteRow, PutEntersKey DEF Putting
<1>4. CASE Reading
  BY <1>4, MetadataIsRead, DataIsRead, DataIsReleased DEF Reading
<1>5. CASE Calling
  BY <1>5, MetadataIsWritten, RemovalIsReserved, RemovalStarts, PutStarts DEF Calling
<1>6. CASE Failing
  BY <1>6, CorruptionIsFound, CorruptionLeavesPut, FilesAreCleaned, ProcessDies DEF Failing
<1>7. CASE GetSize \/ PurgeDone \/ Finish
  BY <1>7, EnumerationStarts, PurgeEnds, OperationFinishes
<1>8. CASE UNCHANGED vars
  BY <1>8, CacheStutters
<1>9. QED BY <1>1, <1>2, <1>3, <1>4, <1>5, <1>6, <1>7, <1>8 DEF Next

-----------------------------------------------------------------------------
(* Whatever operations, failures, corruptions and crashes follow each other, *)
(* the index stays a list without repetitions whose map, reference counts    *)
(* and total size agree with it, and the operation that holds the mutex      *)
(* leaves no stage of it half done.                                          *)
THEOREM CacheInvariant == Spec => []CacheInv
<1>1. Init => CacheInv
  BY CacheStarts, CacheAssumption
<1>2. CacheInv /\ [Next]_vars => CacheInv'
  BY CacheSteps, CacheAssumption
<1>3. QED BY <1>1, <1>2, PTL DEF Spec

LEMMA TotalIsNatural ==
  ASSUME CacheInv
  PROVE  totalSize \in Nat
<1>1. IsFiniteSet(Indexed) /\ Indexed \subseteq Key /\ info \in Infos
  BY IndexIsFinite DEF CacheInv, CacheTypes, Infos
<1>2. IsFiniteSet(BytesIn(info, Indexed))
  BY <1>1, BytesAreFinite
<1>3. QED BY <1>2, TotalIsASum, FS_CardinalityType DEF CacheInv, Sum

LEMMA IndexFollows == CacheInv => IndexInv
<1> SUFFICES ASSUME CacheInv PROVE IndexInv
  OBVIOUS
<1> USE DEF CacheInv
<1>1. TypeOK
  <2>1. \A i \in DOMAIN lruList : lruList[i] \in Key
    BY IndexIsFinite DEF Indexed
  <2>2. QED BY <2>1, TotalIsNatural DEF CacheTypes, ListIsIndex, TypeOK
<1>2. TotalWithinMax
  BY DEF TotalWithinMax, FaultFree, SpaceMade
<1>3. IndexIsRows
  <2>1. SUFFICES ASSUME Idle, initialized, NothingFailed
                 PROVE  /\ \A k \in Indexed : row[k] # NoBody
                        /\ \A k \in Key : Indexable(k) => k \in Indexed
                        /\ \A k \in Indexed \ stale : info[k].size = Size[row[k]]
    BY DEF IndexIsRows
  <2>2. rest = {} /\ cur = NoKey /\ victim = NoKey
    BY <2>1 DEF Stages
  <2>3. NoKey \notin Key /\ Indexed \subseteq Key
    BY Sentinels, CacheAssumption
  <2>4. QED BY <2>1, <2>2, <2>3 DEF FaultFree, RowsOfIndex
<1>4. QED BY <1>1, <1>2, <1>3 DEF IndexInv

(* m_totalSize is the sum of the sizes of the indexed entries after every    *)
(* add, replacement, partial removal and reset, and, while no step has       *)
(* failed, never above m_maxSize; between operations the index then holds    *)
(* exactly the rows that fit into the cache, with their sizes.               *)
THEOREM IndexIsRight == Spec => []IndexInv
BY CacheInvariant, IndexFollows, PTL

(* An entry is pinned by its open streams and by nothing else, its file      *)
(* stays what they read until the last of them is closed, and a removal      *)
(* that waits for them is done then.                                         *)
THEOREM ReadersAreSafe == Spec => []ReadersInv
<1>1. CacheInv => ReadersInv
  <2>1. CacheInv => ReservedHasReaders
    <3>1. CacheInv /\ Idle => Removals = {}
      BY DEF CacheInv, Stages, Removals
    <3>2. QED BY <3>1 DEF CacheInv, FaultFree, ReservedIsPending, ReservedHasReaders
  <2>2. QED BY <2>1 DEF CacheInv, ReadersInv
<1>2. QED BY <1>1, CacheInvariant, PTL

(* Wherever the process dies or finds the database corrupt, while no step    *)
(* has failed a row that can be indexed has the body it was written for.     *)
THEOREM RowsHaveBodies == Spec => []RowHasItsBody
<1>1. CacheInv => RowHasItsBody
  BY DEF CacheInv, FaultFree, RowHasItsBody
<1>2. QED BY <1>1, CacheInvariant, PTL

(* Two failures of steps cannot pair the metadata of one response with the   *)
(* body of another: put takes the body away again when it cannot write the   *)
(* row, and that this fails too is a third failure.                          *)
THEOREM MixedOnlyAfterThree == Spec => []MixedOnlyAfterThreeFailures
<1>1. CacheInv => MixedOnlyAfterThreeFailures
  BY DEF CacheInv, AccidentFree, PairedBodies, MixedOnlyAfterThreeFailures
<1>2. QED BY <1>1, CacheInvariant, PTL
=============================================================================
