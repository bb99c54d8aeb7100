--------------------------- MODULE CacheStrategy ---------------------------
(***************************************************************************)
(* The decisions of the cache (HttpCacheStrategy, CacheControl, the header *)
(* part of HttpUtil) over the life of one entry: a request is answered     *)
(* from the entry, or sent with or without a condition; the answer         *)
(* validates the entry, replaces it, removes it or leaves it.  Time passes *)
(* meanwhile, on the network and in the cache.  (CachedExchange leaves     *)
(* these decisions open and models what several requests do at once.)      *)
(*                                                                         *)
(* Times are seconds.  A header is Absent, or Unreadable when its value is *)
(* no date, or no number from 0 on for Age.  Sums and casts are modulo     *)
(* 2 * (LLMax + 1), a power of two on a machine.                           *)
(***************************************************************************)
EXTENDS Integers, Sequences, SequencesExt

CONSTANTS
  LLMax,     \* LLONG_MAX, the largest long long
  Day,       \* OneDaySec
  Start,     \* the clock at first
  MaxTime,
  Requests,  \* requests that users make
  Answers    \* what the server may answer

Absent == -1
Unreadable == -2
IsDate(t) == t >= 0

NothingKept == [kind |-> "none"]

ASSUME StrategyAssumption ==
  /\ LLMax \in Nat /\ Day \in Nat /\ Start \in Nat /\ MaxTime \in Nat
  /\ Start <= MaxTime

(* Clocks and delays are far from the end of a long long.                    *)
ASSUME RangeAssumption == MaxTime <= LLMax /\ 3 * (MaxTime - Start) <= LLMax

LongLong == -LLMax - 1..LLMax
Time == Start..MaxTime

VARIABLES
  query,    \* the URL has a query
  now,
  kept,     \* the stored response with its history, or NothingKept
  call,     \* the request being served, and what the strategy made of it
  stepped   \* history: the clock was set back

strategyVars == <<query, now, kept, call, stepped>>

-----------------------------------------------------------------------------
(* CacheControl::createFromHeaders on lines of directives <<name, argument>>:*)
(* the last argument counts, and one that is missing or is no number counts  *)
(* as -1.  parseNumber lets negative numbers through.                        *)
Param(ds, d) ==
  LET at == {i \in DOMAIN ds : ds[i][1] = d}
  IN  IF at = {} THEN -1 ELSE ds[Max(at)][2]

CacheControl(h) ==
  LET ds == FlattenSeq(h.cc)
      flag(d) == \E i \in DOMAIN ds : ds[i][1] = d
  IN  [maxAge |-> Param(ds, "max-age"), mustRevalidate |-> flag("must-revalidate"),
       noCache |-> flag("no-cache") \/ h.pragma, noStore |-> flag("no-store"),
       public |-> flag("public"), private |-> flag("private")]

(* What the builder of a request makes, and the two ready-made ones.         *)
NoControl == [maxAge |-> -1, minFresh |-> -1, maxStale |-> -1,
              noCache |-> FALSE, noStore |-> FALSE, onlyIfCached |-> FALSE]
Controls == [maxAge : LongLong, minFresh : LongLong, maxStale : LongLong,
             noCache : BOOLEAN, noStore : BOOLEAN, onlyIfCached : BOOLEAN]
ForceCache == [NoControl EXCEPT !.onlyIfCached = TRUE, !.maxStale = LLMax]
ForceNetwork == [NoControl EXCEPT !.noCache = TRUE]

ASSUME RequestsAssumption == \A r \in Requests : r.method \in {"GET", "POST"} /\ r.cc \in Controls

(* Header lines as they are parsed: directives with numbers of a long long,  *)
(* any Age that is one, and dates from the epoch on.                         *)
Lines == Seq(Seq(STRING \X LongLong))

ASSUME AnswersAssumption ==
  \A a \in Answers :
    a.cc \in Lines /\ {a.date, a.age, a.expires, a.modified} \subseteq Unreadable..LLMax

(* The database keeps headers as a JSON object: of the lines of one name the *)
(* last one stays.                                                           *)
Stored(h) == [h EXCEPT !.cc = IF @ = << >> THEN @ ELSE <<Last(@)>>]

-----------------------------------------------------------------------------
(* Age and freshness, in signed and in unsigned arithmetic.  The sum of the  *)
(* age is signed: where it overflows C++ leaves its value open, and adding   *)
(* as machines do makes it wrap.                                             *)
Larger(a, b) == IF a > b THEN a ELSE b
Unsigned(n) == n % (2 * (LLMax + 1))
Plus(a, b) == Unsigned(a + b)

SignedAge_FromDate(e, t) ==  \* forgets the time on the network
  LET apparent == IF IsDate(e.h.date) THEN Larger(0, e.received - e.h.date) ELSE 0
  IN  (IF e.h.age = Absent THEN apparent ELSE Larger(apparent, e.h.age)) + (t - e.received)

SignedAge(e, t) ==
  LET apparent == IF IsDate(e.h.date) THEN Larger(0, e.received - e.h.date) ELSE 0
      receivedAge == IF e.h.age = Absent THEN apparent ELSE Larger(apparent, e.h.age)
  IN  receivedAge + (e.received - e.sent) + (t - e.received)

CalculateCacheResponseAge(e, t) == Unsigned(SignedAge(e, t))

ResponseTime(e, otherwise) == IF IsDate(e.h.date) THEN e.h.date ELSE otherwise

SignedLifetime(e) ==
  IF CacheControl(e.h).maxAge # -1 THEN CacheControl(e.h).maxAge
  ELSE IF IsDate(e.h.expires)
       THEN Larger(0, e.h.expires - ResponseTime(e, e.received))
  ELSE IF IsDate(e.h.modified) /\ ~query
       THEN Larger(0, ResponseTime(e, e.sent) - e.h.modified) \div 10
  ELSE 0

CalculateFreshnessLifetime(e) == Unsigned(SignedLifetime(e))

Smaller(a, b) == IF a < b THEN a ELSE b

(* The four terms of the comparison for the control c of a request.          *)
Terms(e, c, t) ==
  LET fresh == CalculateFreshnessLifetime(e)
  IN  [age |-> CalculateCacheResponseAge(e, t),
       minFresh |-> IF c.minFresh = -1 THEN 0 ELSE Unsigned(c.minFresh),
       fresh |-> IF c.maxAge = -1 THEN fresh ELSE Smaller(fresh, Unsigned(c.maxAge)),
       maxStale |-> IF CacheControl(e.h).mustRevalidate \/ c.maxStale = -1 THEN 0
                    ELSE Unsigned(c.maxStale)]

UseCache_Narrow(e, c, t) ==  \* one sum is kept in a long long
  LET x == Terms(e, c, t)
  IN  ~CacheControl(e.h).noCache /\ Plus(x.age, x.minFresh) < Plus(x.fresh, x.maxStale) % (LLMax + 1)

UseCache(e, c, t) ==
  LET x == Terms(e, c, t)
  IN  ~CacheControl(e.h).noCache /\ Plus(x.age, x.minFresh) < Plus(x.fresh, x.maxStale)

Warnings_OfAge(e, c, t) ==  \* does not count min-fresh and max-age
  LET x == Terms(e, NoControl, t)
  IN  {w \in {"stale", "heuristic"} :
         \/ w = "stale" /\ x.age > Plus(x.fresh, Unsigned(Larger(0, c.maxStale)))
         \/ w = "heuristic" /\ x.age > Day /\ CacheControl(e.h).maxAge = -1 /\ ~IsDate(e.h.expires)}

(* The Warning headers of a response that is used.                           *)
Warnings(e, c, t) ==
  LET x == Terms(e, c, t)
  IN  {w \in {"stale", "heuristic"} :
         \/ w = "stale" /\ Plus(x.age, x.minFresh) >= x.fresh
         \/ w = "heuristic" /\ x.age > Day /\ CacheControl(e.h).maxAge = -1 /\ ~IsDate(e.h.expires)}

(* The condition of the network request; without any the entry is not used.  *)
Condition(e) ==
  IF e.h.etag THEN "If-None-Match"
  ELSE IF e.h.modified # Absent \/ e.h.date # Absent THEN "If-Modified-Since"
  ELSE "none"

IsAvailableToCache(r) ==
  r.method = "GET" /\ ~r.authorization /\ ~r.cc.noCache /\ ~r.conditional

(* The status codes stand for their classes: 200 for those that may be       *)
(* stored, 307 for those that need leave, 500 for those that may not.        *)
IsCacheable(r, code, h) ==
  /\ r.method = "GET"
  /\ \/ code = 200
     \/ code = 307 /\ \/ h.expires # Absent
                      \/ CacheControl(h).maxAge # -1 \/ CacheControl(h).public \/ CacheControl(h).private
  /\ ~r.cc.noStore /\ ~r.authorization
  /\ ~CacheControl(h).noStore
  /\ h.framed  \* by a Content-Length or by chunks

IsValidCacheResponse(cached, code, h) ==
  \/ code = 304
  \/ IsDate(cached.modified) /\ IsDate(h.modified) /\ h.modified < cached.modified

IsInvalidCacheMethod(r, code) == code = 200 /\ r.method = "POST"

CombineCacheAndNetworkHeader_OwnAge(cached, h) ==  \* takes Age for a hop-by-hop header
  LET or(x, y) == IF x = Absent THEN y ELSE x
  IN  [cc |-> IF h.cc = << >> THEN cached.cc ELSE h.cc, pragma |-> cached.pragma \/ h.pragma,
       date |-> or(h.date, cached.date), age |-> cached.age,
       expires |-> or(h.expires, cached.expires), modified |-> or(h.modified, cached.modified),
       etag |-> cached.etag \/ h.etag, framed |-> cached.framed]

(* Lines the answer has take the place of those of the entry, but for        *)
(* hop-by-hop headers and Content-Length (framed).                           *)
CombineCacheAndNetworkHeader(cached, h) ==
  LET or(x, y) == IF x = Absent THEN y ELSE x
  IN  [cc |-> IF h.cc = << >> THEN cached.cc ELSE h.cc, pragma |-> cached.pragma \/ h.pragma,
       date |-> or(h.date, cached.date), age |-> or(h.age, cached.age),
       expires |-> or(h.expires, cached.expires), modified |-> or(h.modified, cached.modified),
       etag |-> cached.etag \/ h.etag, framed |-> cached.framed]

-----------------------------------------------------------------------------
Idle == [at |-> "idle"]

StrategyInit == query \in BOOLEAN /\ now = Start /\ kept = NothingKept /\ call = Idle /\ stepped = FALSE

(* What checkCacheBeforeSendRequest makes of a request.                      *)
Call(at, r, cached) == [at |-> at, r |-> r, cached |-> cached, sent |-> now]

AskNetwork(r) == call' = Call("sent", r, NothingKept)

AskWithoutEntry(r) ==
  /\ kept = NothingKept
  /\ IF r.cc.onlyIfCached THEN call' = Call("refused", r, NothingKept) ELSE AskNetwork(r)

AskWithEntry(r) ==
  /\ kept # NothingKept
  /\ IF UseCache(kept, r.cc, now) THEN call' = Call("served", r, kept)
     ELSE IF r.cc.onlyIfCached THEN call' = Call("refused", r, NothingKept)
     ELSE IF Condition(kept) = "none" THEN AskNetwork(r)
     ELSE call' = Call("sent", r, kept)

CheckCacheBeforeSendRequest(r) ==
  IF IsAvailableToCache(r) THEN AskWithoutEntry(r) \/ AskWithEntry(r) ELSE AskNetwork(r)

Ask == /\ call = Idle
       /\ \E r \in Requests : CheckCacheBeforeSendRequest(r)
       /\ UNCHANGED <<query, now, kept, stepped>>

(* The server made the answer at time born, after the request came or before *)
(* it: then the answer went through another cache.  Date and Age tell of it  *)
(* (dated, relayed), or they are whatever the answer says.                   *)
Stamped(a, born) ==
  [cc |-> a.cc, pragma |-> a.pragma, date |-> IF a.dated THEN born ELSE a.date,
   age |-> IF a.relayed THEN Larger(0, call.sent - born) ELSE a.age,
   expires |-> a.expires, modified |-> a.modified, etag |-> a.etag, framed |-> a.framed]

Honest(a) == (a.dated \/ ~IsDate(a.date)) /\ (a.relayed \/ a.age < 0)

(* The entry of an answer.  History: said is what the server has said in all,*)
(* born when it said it last; lost, a line went with the others of its name; *)
(* leftover, a Date or Age is from before the last validation; honest, every *)
(* Date and Age the entry has had was true.                                  *)
Entry(h, said, born, lost, leftover, honest) ==
  [kind |-> "entry", h |-> Stored(h), said |-> said, sent |-> call.sent, received |-> now,
   born |-> born, lost |-> lost, leftover |-> leftover, honest |-> honest]

(* execute() behind the exchange: validated, stored, invalidated or neither. *)
KeepResponse(code, h, born, honest) ==
  IF call.cached # NothingKept /\ IsValidCacheResponse(call.cached.h, code, h)
  THEN LET c == CombineCacheAndNetworkHeader(call.cached.h, h)
       IN  kept' = Entry(c, CombineCacheAndNetworkHeader(call.cached.said, h), born,
                          Len(c.cc) > 1 \/ (h.cc = << >> /\ call.cached.lost),
                          h.date = Absent \/ (h.age = Absent /\ call.cached.h.age # Absent),
                          honest /\ call.cached.honest)
  ELSE IF IsCacheable(call.r, code, h)
       THEN kept' = Entry(h, h, born, Len(h.cc) > 1, FALSE, honest)
  ELSE IF IsInvalidCacheMethod(call.r, code) THEN kept' = NothingKept
  ELSE UNCHANGED kept

Answer ==
  /\ call.at = "sent"
  /\ \E a \in Answers, born \in Start..now :
       /\ born < call.sent => a.relayed
       /\ KeepResponse(a.code, Stamped(a, born), born, Honest(a))
  /\ call' = Idle
  /\ UNCHANGED <<query, now, stepped>>

Return == call.at \in {"served", "refused"} /\ call' = Idle /\ UNCHANGED <<query, now, kept, stepped>>

Tick == now < MaxTime /\ now' = now + 1 /\ UNCHANGED <<query, kept, call, stepped>>

StepBack == /\ ~stepped /\ now > Start
            /\ now' = now - 1 /\ stepped' = TRUE
            /\ UNCHANGED <<query, kept, call>>

StrategyNext == Ask \/ Answer \/ Return \/ Tick \/ StepBack

StrategySpec == StrategyInit /\ [][StrategyNext]_strategyVars

-----------------------------------------------------------------------------
StrategyTypeOK ==
  /\ query \in BOOLEAN /\ stepped \in BOOLEAN /\ now \in Start - 1..MaxTime
  /\ kept # NothingKept =>
       /\ Len(kept.h.cc) <= 1 /\ kept.born \in Start..MaxTime
       /\ kept.sent \in Start..MaxTime /\ kept.received \in Start..MaxTime
  /\ call.at \in {"idle", "sent", "served", "refused"}
  /\ call # Idle => call.r \in Requests /\ call.sent \in Start..MaxTime

(* Unsigned sums decide as sums of integers would, whatever Date and Age an  *)
(* answer had and also with the LLONG_MAX of FORCE_CACHE.  The comparison    *)
(* wraps around only when a term is negative, which takes a clock set back   *)
(* or a negative argument, or when the age has left the long long that line  *)
(* 217 adds it in, which takes an Age header close to LLONG_MAX.             *)
Negative(e, c) ==
  \/ CacheControl(e.h).maxAge < -1
  \/ \E p \in {c.maxAge, c.minFresh, c.maxStale} : p < -1

Exact(e, c, t) ==
  LET least(p) == Larger(0, p)
      fresh == IF c.maxAge = -1 THEN SignedLifetime(e) ELSE Smaller(SignedLifetime(e), c.maxAge)
      stale == IF CacheControl(e.h).mustRevalidate THEN 0 ELSE least(c.maxStale)
  IN  ~CacheControl(e.h).noCache /\ SignedAge(e, t) + least(c.minFresh) < fresh + stale

DecisionIsExact ==
  call = Idle /\ kept # NothingKept /\ SignedAge(kept, now) \in 0..LLMax =>
    \A r \in Requests :
      ~Negative(kept, r.cc) => (UseCache(kept, r.cc, now) <=> Exact(kept, r.cc, now))

(* If every Date and Age was true, the age of a stored response is never     *)
(* less than the time since the server made or validated it, and at most the *)
(* delay of its exchange more, through other caches and validations, unless  *)
(* a header from before a validation makes it older.                         *)
AgeIsWithinDelay ==
  kept # NothingKept /\ kept.honest /\ ~stepped =>
    LET age == SignedAge(kept, now) - (now - kept.born)
    IN  age >= 0 /\ (~kept.leftover => age <= kept.received - kept.sent)

(* The moment at which the entry is no longer fresh by what the server said;  *)
(* a validation counts as fresh at its own moment.                            *)
Deadline(e) ==
  IF CacheControl(e.said).maxAge # -1 THEN e.born + CacheControl(e.said).maxAge
  ELSE IF e.said.expires # Absent THEN Larger(e.born, e.said.expires)
  ELSE e.born + SignedLifetime(e)

Doubtful(e, c) ==
  \/ stepped \/ e.lost \/ ~e.honest \/ Negative(e, c)
  \/ CacheControl(e.said).maxAge = -1 /\ e.said.expires = Unreadable

(* A response is served without validation only before its deadline, as far  *)
(* as the request moves it: except after the clock was set back, with a      *)
(* negative argument, with a Cache-Control line that the database lost, with *)
(* an Expires that is no date (which should mean expired), or with a Date or *)
(* Age that was false: it moves the age, or makes its sum wrap.              *)
ServedBeforeDeadline ==
  call.at = "served" =>
    LET e == call.cached
        c == call.r.cc
        t == call.sent + Larger(0, c.minFresh)
              - IF CacheControl(e.said).mustRevalidate THEN 0 ELSE Larger(0, c.maxStale)
    IN  \/ Doubtful(e, c)
        \/ t < Deadline(e) /\ (c.maxAge # -1 => t < e.born + c.maxAge)

(* A response that is served past its deadline says so, but for the same     *)
(* exceptions: an honest Date and Age above all.                             *)
StaleIsMarked ==
  call.at = "served" /\ ~Doubtful(call.cached, call.r.cc) /\ call.sent >= Deadline(call.cached) =>
    "stale" \in Warnings(call.cached, call.r.cc, call.sent)

(* A response with no-cache is not served without validation, whatever       *)
(* validations have made of its headers, unless the database lost the line.  *)
NoCacheIsValidated ==
  call.at = "served" => ~CacheControl(call.cached.said).noCache \/ call.cached.lost

(* What the cache serves without asking the server, it may serve.            *)
ServedRightly == StrategyTypeOK /\ ServedBeforeDeadline /\ NoCacheIsValidated
=============================================================================
