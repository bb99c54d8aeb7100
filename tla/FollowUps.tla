----------------------------- MODULE FollowUps -----------------------------
(***************************************************************************)
(* A call from the caller's Request to the body that the caller reads: the *)
(* interceptors around it, the engine of every hop of a chain of redirects *)
(* (HttpRequestExecutor, HttpEngine), what each sends, and the streams of  *)
(* the responses (CachingStream).                                          *)
(*                                                                         *)
(* One thread executes and then reads, another may cancel.  The responses  *)
(* of hops h and h + 2 share a stream of CachingStream: the first is       *)
(* destroyed before the other exists.  What the cache holds, and whether   *)
(* it is fresh, is left to other calls (CachedExchange, CacheStrategy);    *)
(* connections are those of HttpEngine.  The caller's Request may have     *)
(* been used by a call before (setting.fresh).                             *)
(***************************************************************************)
EXTENDS CachingStream, Messages

CONSTANTS
  OriginOf,        \* scheme, host and port of a url
  MaxRetryCount,
  Interceptors, NetworkInterceptors,  \* how many there are of each
  Callers          \* bound: what callers ask for

ASSUME FollowUpsAssumption ==
  /\ MaxRetryCount \in Nat /\ Interceptors \in Nat /\ NetworkInterceptors \in Nat
  /\ Stream = {0, 1} /\ {NoUrl, BadUrl, Own} \cap Url = {} /\ Own # NoUrl

(* A Request that no call has used has no other validator than its caller's, *)
(* and its body has not been read.                                           *)
ASSUME CallersAssumption == \A c \in Callers :
  /\ c.setting \in [cache : BOOLEAN, fresh : BOOLEAN]
  /\ c.url \in Url /\ c.method \in {"GET", "POST"} /\ c.control \in Controls
  /\ c.body \in {"none", "buffer", "whole", "part", "spent", "bad"}
  /\ DOMAIN c.headers = HeaderName /\ GetValue(c.headers, "Cache-Control", "none") \in Controls
  /\ c.setting.fresh => /\ GetValue(c.headers, "Validator", NoUrl) \in {NoUrl, Own}
                        /\ c.body \notin {"part", "spent"}

VARIABLES
  setting,    \* what stays as it is: [cache (there is one), fresh]
  given,      \* the caller's Request
  body,       \* its RequestBody: none, a buffer, or how far its stream is read
  follow,     \* the request of a follow-up
  sent,       \* the network request
  heap,       \* the headers of these requests
  sentBody,   \* what of the body was sent with it
  reused,     \* the exchange runs on a connection that was idle
  candidate,  \* m_pCacheResponse
  answer,     \* the response in hand
  prior,      \* m_pPriorResponse
  phase, hop,
  cancelled,  \* cancel() came before the response was assigned, after that, or not
  callChain, netChain

requestVars == <<given, body, follow, sent, heap, sentBody>>
engineVars == <<reused, candidate, answer, prior>>
chainVars == <<callChain, netChain>>
progressVars == <<phase, hop, cancelled>>
callVars == <<setting, requestVars, engineVars, progressVars, chainVars>>
allVars == <<callVars, streamVars>>

CallInterceptors == INSTANCE InterceptorChain WITH K <- Interceptors, chain <- callChain
NetInterceptors == INSTANCE InterceptorChain WITH K <- NetworkInterceptors, chain <- netChain

Validator(r) == GetValue(heap[r.headers], "Validator", NoUrl)
Authorized(r) == Has(heap[r.headers], "Authorization")

(* The streams of earlier responses alternate.                               *)
Slot(h) == h % 2
Mine == Slot(hop)

CallInit ==
  /\ StreamInit
  /\ \E c \in Callers :
       /\ setting = c.setting /\ body = c.body
       /\ given = Build(SetCacheControl(HttpMethod(SetUrl(NewBuilder, c.url), c.method, c.body # "none"),
                                        c.control), c.headers, "given")
       /\ heap = [[ref \in Ref |-> NoHeaders] EXCEPT !["given"] = c.headers]
  /\ follow = NoRequest /\ sent = NoRequest /\ sentBody = "none"
  /\ reused = "may" /\ candidate = NoResponse /\ answer = NoResponse /\ prior = NoResponse
  /\ phase = "idle" /\ hop = 0 /\ cancelled = "no"
  /\ callChain = CallInterceptors!Rest /\ netChain = NetInterceptors!Rest

-----------------------------------------------------------------------------
(* The engine of hop 0 has the caller's own Request, not a copy.             *)
Current == IF hop = 0 THEN given ELSE follow

(* What the engine knew of its exchange is of no use any more.               *)
ExchangeOver ==
  /\ sent' = NoRequest /\ sentBody' = "none" /\ reused' = "may" /\ candidate' = NoResponse
  /\ netChain' = NetInterceptors!Rest

Goes(p) == phase' = p /\ UNCHANGED <<hop, cancelled>>

Start ==
  /\ phase = "idle"
  /\ CallInterceptors!Begin
  /\ Goes(IF callChain'.control = "inner" THEN "create" ELSE "call")
  /\ UNCHANGED <<setting, requestVars, engineVars, netChain, streamVars>>

(* An interceptor of the call proceeds, or returns: what came back to it, a  *)
(* response of its own in place of an exception, or the exception.           *)
CallProceeds ==
  /\ phase = "call" /\ CallInterceptors!Proceed
  /\ phase' = CASE callChain'.control = "inner" -> "create"
                [] callChain'.control = "undefined" -> "undefined"
                [] OTHER -> "call"
  /\ UNCHANGED <<setting, requestVars, engineVars, netChain, hop, cancelled, streamVars>>

CallEnds(control) ==
  Goes(IF control # "out" THEN "call" ELSE IF answer' = NoResponse THEN "failed" ELSE "returned")

CallInterceptorReturns ==
  /\ phase = "call" /\ CallInterceptors!InterceptorEnds
  /\ \/ UNCHANGED answer
     \/ answer = NoResponse /\ answer' = NewResponse
  /\ CallEnds(callChain'.control)
  /\ UNCHANGED <<setting, requestVars, reused, candidate, prior, netChain, streamVars>>

-----------------------------------------------------------------------------
(* executeWithRetry makes the engine of a hop.  The engine before it goes,   *)
(* and with it the response of the hop before that one.                      *)
CreateEngine_ResponseKept ==  \* the response still has its body
  /\ phase = "create"
  /\ IF cancelled # "no"
     THEN /\ phase' = "failing" /\ hop' = IF hop = 0 THEN 0 ELSE hop - 1
          /\ UNCHANGED <<engineVars, cancelled, streamVars>>
     ELSE /\ UNCHANGED streamVars
          /\ prior' = (IF hop = 0 THEN NoResponse ELSE answer) /\ answer' = NoResponse
          /\ candidate' = NoResponse /\ reused' = "may"
          /\ Goes("lookup")
  /\ UNCHANGED <<setting, requestVars, chainVars>>

CreateEngine ==
  /\ phase = "create"
  /\ IF cancelled # "no"
     THEN /\ phase' = "failing" /\ hop' = IF hop = 0 THEN 0 ELSE hop - 1
          /\ UNCHANGED <<engineVars, cancelled, streamVars>>
     ELSE /\ Destroy(Mine)
          /\ prior' = (IF hop = 0 THEN NoResponse ELSE answer) /\ answer' = NoResponse
          /\ candidate' = NoResponse /\ reused' = "may"
          /\ Goes("lookup")
  /\ UNCHANGED <<setting, requestVars, chainVars>>

CloseEarlier ==
  /\ phase = "create" /\ cancelled = "no"
  /\ BeginClose(Mine) /\ UNCHANGED callVars

(* isAvailableToCache.                                                       *)
IsAvailableToCache ==
  /\ setting.cache /\ Current.method = "GET"
  /\ ~Authorized(Current) /\ Validator(Current) = NoUrl

OnlyIfCached == Current.control = "only-if-cached"

(* The request goes to the network interceptors and to the network.          *)
GoesOut(r) ==
  /\ sent' = r /\ UNCHANGED <<given, follow, prior>>
  /\ NetInterceptors!Begin
  /\ Goes(IF netChain'.control = "inner" THEN "connect" ELSE "net")
  /\ UNCHANGED <<body, sentBody, callChain, reused, answer>>

LookupMisses_Ask ==  \* only-if-cached is not looked at
  /\ phase = "lookup"
  /\ GoesOut(Current)
  /\ UNCHANGED <<setting, heap, candidate, streamVars>>

LookupMisses ==
  /\ phase = "lookup"
  /\ IsAvailableToCache => ~OnlyIfCached
  /\ GoesOut(Current)
  /\ UNCHANGED <<setting, heap, candidate, streamVars>>

(* only-if-cached, and nothing fresh is stored: 504.                         *)
LookupRefuses ==
  /\ phase = "lookup" /\ IsAvailableToCache /\ OnlyIfCached
  /\ answer' = GatewayTimeout(Current, prior) /\ Goes("decide")
  /\ UNCHANGED <<setting, requestVars, reused, candidate, prior, chainVars, streamVars>>

Redirect(url) == SetLocation(SetCode(NewResponse, "redirect"), url)
Answers == {NewResponse} \cup {Redirect(u) : u \in Url \cup {NoUrl, BadUrl}}
Stored == {SetRequest(r, Current) : r \in {NewResponse} \cup {Redirect(u) : u \in Url}}

(* A fresh response, of which the body may be gone by now.  (Redirects that  *)
(* lead nowhere come from the network.)                                      *)
LookupHits ==
  /\ phase = "lookup" /\ IsAvailableToCache
  /\ \/ \E r \in Stored : answer' = FromCache(r, NoResponse, Current, prior) /\ Goes("decide")
     \/ answer' = NoResponse /\ Goes("failing")
  /\ UNCHANGED <<setting, requestVars, reused, candidate, prior, chainVars, streamVars>>

(* A stale one is validated: the builder made from the request shares its    *)
(* headers, so that the request itself gets the validator too.               *)
Validates ==
  LET after == SetHeader(heap, Current, "Validator", Current.url)
      h == after[Current.headers]
  IN  /\ heap' = [after EXCEPT !["sent"] = h]
      /\ GoesOut(Build(Current, h, "sent"))

LookupValidates ==
  /\ phase = "lookup" /\ IsAvailableToCache /\ ~OnlyIfCached
  /\ candidate' \in Stored
  /\ Validates
  /\ UNCHANGED <<setting, streamVars>>

-----------------------------------------------------------------------------
NetProceeds ==
  /\ phase = "net" /\ NetInterceptors!Proceed
  /\ Goes(CASE netChain'.control = "inner" -> "connect"
            [] netChain'.control = "undefined" -> "undefined"
            [] OTHER -> "net")
  /\ UNCHANGED <<setting, requestVars, engineVars, callChain, streamVars>>

(* One that has not proceeded has no response to return.                     *)
NetInterceptorReturns ==
  /\ phase = "net" /\ NetInterceptors!Again /\ NetInterceptors!InterceptorEnds
  /\ Goes(IF netChain'.control = "out" THEN "judge" ELSE "net")
  /\ UNCHANGED <<setting, requestVars, engineVars, callChain, streamVars>>

(* An exception leaves the engine.                                           *)
Throws == Goes("failing") /\ netChain' = NetInterceptors!Rest

GetConnection ==
  /\ phase = "connect"
  /\ IF cancelled # "no" THEN Throws /\ UNCHANGED reused
     ELSE /\ Goes("write") /\ UNCHANGED netChain
          /\ reused' \in IF reused = "may" THEN {"yes", "no"} ELSE {reused}
  /\ UNCHANGED <<setting, requestVars, candidate, answer, prior, callChain, streamVars>>

(* writeTo, of a stream and of a buffer.  A stream that has failed without   *)
(* being at its end ("bad") is read for ever.                                *)
WrittenOfStream(b) == CASE b = "whole" -> "whole"
                        [] b = "part" -> "rest"
                        [] b = "spent" -> "empty"
                        [] OTHER -> "none"
Written(b) == IF b = "buffer" THEN "whole" ELSE WrittenOfStream(b)

SendRequest ==
  /\ phase = "write"
  /\ sentBody' = IF sent.hasBody THEN Written(body) ELSE "none"
  /\ body' = IF body \in {"whole", "part"} THEN "spent" ELSE body
  /\ IF cancelled # "no" /\ body # "bad" THEN Throws
     ELSE Goes(IF body = "bad" THEN "endless" ELSE "receive") /\ UNCHANGED netChain
  /\ UNCHANGED <<setting, given, follow, sent, heap, engineVars, callChain, streamVars>>

(* The exchange fails, the body read up to b.  On a connection that was idle *)
(* it is repeated once, on a new one, if the body can be read again: a       *)
(* stream that has been read to its end has its fail bit set, and seekg()    *)
(* does nothing.                                                             *)
Rewound(b) == IF b = "part" THEN "whole" ELSE b

CanReset_Any(b) == TRUE  \* reset() is not looked at
CanReset(b) == b \notin {"spent", "bad"}

ExchangeFails ==
  /\ phase \in {"write", "receive"}
  /\ \E b \in {body} \cup CASE phase = "write" /\ body = "whole" -> {"part", "spent"}
                            [] phase = "write" /\ body = "part" -> {"spent"}
                            [] OTHER -> {} :
       IF reused = "yes" /\ cancelled = "no" /\ CanReset(b)
       THEN body' = Rewound(b) /\ reused' = "no" /\ Goes("connect") /\ UNCHANGED netChain
       ELSE body' = b /\ Throws /\ UNCHANGED reused
  /\ UNCHANGED <<setting, given, follow, sent, heap, sentBody, candidate, answer, prior, callChain, streamVars>>

(* A timeout is not retried.                                                 *)
ExchangeTimesOut ==
  /\ phase = "receive" /\ Throws
  /\ UNCHANGED <<setting, requestVars, engineVars, callChain, streamVars>>

Codes == Answers
          \cup {SetCode(NewResponse, "notModified") : v \in {Validator(sent)} \ {NoUrl}}
Replies == {SetBody(SetRequest(r, sent), "net") : r \in Codes}

ReceiveResponse ==
  /\ phase = "receive"
  /\ answer' \in Replies
  /\ \E hasLength \in BOOLEAN : Open(Mine, "plain", hasLength)
  /\ NetInterceptors!InnerEnds
  /\ Goes(IF netChain'.control = "out" THEN "judge" ELSE "net")
  /\ UNCHANGED <<setting, requestVars, reused, candidate, prior, callChain>>

-----------------------------------------------------------------------------
(* isCacheable; some redirects are not, and a 304 never is.                  *)
IsCacheable ==
  setting.cache /\ sent.method = "GET" /\ ~Authorized(sent) /\ answer.code \in {"ok", "redirect"}

JudgeNetwork ==
  /\ phase = "judge"
  /\ candidate # NoResponse => answer.code # "notModified"
  /\ \/ answer' = FromNetwork(answer, prior) /\ UNCHANGED streamVars
     \/ /\ IsCacheable
        /\ answer' = WithCaching(answer, prior) /\ kind' = [kind EXCEPT ![Mine] = "caching"]
        /\ UNCHANGED <<sized, contentVars, readerVars, at, conn, fileVars>>
  /\ Goes("decide")
  /\ UNCHANGED <<setting, requestVars, reused, candidate, prior, chainVars>>

(* isValidCacheResponse: Not Modified, or an answer older than the stored    *)
(* response.  The body of the answer is dropped.                             *)
JudgeValid ==
  /\ phase = "judge" /\ candidate # NoResponse
  /\ \/ answer' = FromCache(candidate, answer, Current, prior) /\ Goes("discard")
     \/ answer' = NoResponse /\ Goes("failing")
  /\ UNCHANGED <<setting, requestVars, reused, candidate, prior, chainVars, streamVars>>

Discard ==
  /\ phase = "discard"
  /\ \/ BeginClose(Mine) /\ UNCHANGED callVars
     \/ /\ at[Mine] = "closed" /\ Goes("decide")
        /\ UNCHANGED <<setting, requestVars, engineVars, chainVars, streamVars>>

-----------------------------------------------------------------------------
(* makeRetryRequest: all headers of the request that the response answers,   *)
(* Authorization only if scheme, host and port stay.                         *)
RetryHeaders_Trusting(h, from, to) == h

RetryHeaders(h, from, to) ==
  IF OriginOf[from] = OriginOf[to] THEN h ELSE [h EXCEPT !["Authorization"] = << >>]

IsRetry == answer.request.method = "GET" /\ answer.code = "redirect" /\ answer.location # NoUrl

(* Of the response the caller's side is modelled to read code and body.      *)
Assign ==
  /\ phase = "decide" /\ ~IsRetry
  /\ answer' = SetBody(SetCode(NewResponse, answer.code), answer.body)
  /\ CallInterceptors!InnerEnds
  /\ ExchangeOver /\ follow' = NoRequest /\ prior' = NoResponse
  /\ heap' = [heap EXCEPT !["follow"] = NoHeaders, !["sent"] = NoHeaders]
  /\ UNCHANGED <<setting, given, body, streamVars>>
  /\ CallEnds(callChain'.control)

(* The next hop, unless there were too many.                                 *)
NextHop_Unbounded == phase' = "create" /\ hop' = (hop + 1) % (MaxRetryCount + 1)

NextHop ==
  IF hop < MaxRetryCount THEN phase' = "create" /\ hop' = hop + 1
  ELSE phase' = "failing" /\ hop' = hop

RetryRequest ==
  LET from == answer.request
      h == RetryHeaders(heap[from.headers], from.url, answer.location)
  IN  /\ follow' = Build(SetUrl(from, answer.location), h, "follow")
      /\ heap' = [heap EXCEPT !["follow"] = h, !["sent"] = NoHeaders]

Retry ==
  /\ phase = "decide" /\ IsRetry /\ Accepts(answer.location)
  /\ RetryRequest
  /\ IF setting.cache /\ answer.body = "net" THEN phase' = "drain" /\ hop' = hop ELSE NextHop
  /\ ExchangeOver
  /\ UNCHANGED <<setting, given, body, answer, prior, cancelled, callChain, streamVars>>

(* Poco::URI throws, outside of the try block.                               *)
RetryThrows ==
  /\ phase = "decide" /\ IsRetry /\ ~Accepts(answer.location)
  /\ Goes("failing")
  /\ UNCHANGED <<setting, requestVars, engineVars, chainVars, streamVars>>

(* readAllResponseBodyForCache: to the end, for the cache, then close().     *)
DrainReads ==
  /\ phase = "drain" /\ content[Mine] = "more"
  /\ BeginRead(Mine) /\ UNCHANGED callVars

DrainCloses ==
  /\ phase = "drain" /\ IsEof(Mine) /\ reader[Mine] = "out"
  /\ BeginClose(Mine) /\ UNCHANGED callVars

DrainEnds ==
  /\ phase = "drain" /\ reader[Mine] = "out"
  /\ \/ at[Mine] = "closed" /\ NextHop
     \/ at[Mine] = "open" /\ content[Mine] = "bad" /\ phase' = "failing" /\ hop' = hop
  /\ UNCHANGED <<setting, requestVars, engineVars, cancelled, chainVars, streamVars>>

(* An exception leaves executeWithRetry: its response goes with it.          *)
Fail ==
  /\ phase = "failing"
  /\ \/ BeginClose(Mine) /\ UNCHANGED callVars
     \/ /\ at[Mine] = "closed"
        /\ answer' = NoResponse /\ CallInterceptors!InnerEnds
        /\ CallEnds(callChain'.control)
        /\ ExchangeOver /\ follow' = NoRequest /\ prior' = NoResponse
        /\ heap' = [heap EXCEPT !["follow"] = NoHeaders, !["sent"] = NoHeaders]
        /\ UNCHANGED <<setting, given, body, streamVars>>

-----------------------------------------------------------------------------
(* What the caller does with the response.                                   *)
InHand == phase = "returned" /\ HasBody(answer, "net")
UserReads == InHand /\ BeginRead(Mine) /\ UNCHANGED callVars
UserCloses == InHand /\ BeginClose(Mine) /\ UNCHANGED callVars

(* Call and response go, with the last engine and the response before.       *)
Release ==
  /\ phase \in {"returned", "failed"} /\ \A s \in Stream : reader[s] = "out"
  /\ Goes("releasing")
  /\ UNCHANGED <<setting, requestVars, engineVars, chainVars, streamVars>>

DestroyRest == phase = "releasing" /\ \E s \in Stream : BeginClose(s) /\ UNCHANGED callVars

(* cancel() on another thread.  It shuts the connection down, which may fail *)
(* any step of the exchange and any read, and closes the stream of the       *)
(* response once the executor has assigned it.  While an earlier response is *)
(* destroyed with its engine it waits for the mutex.                         *)
Assigned == phase \in {"call", "returned"} /\ HasBody(answer, "net")

Cancel ==
  /\ phase \notin {"idle", "releasing", "undefined"} /\ cancelled = "no"
  /\ phase = "create" => at[Mine] \in {"open", "closed"}
  /\ cancelled' = IF Assigned THEN "after" ELSE "before"
  /\ IF Assigned /\ at[Mine] = "open" THEN BeginClose(Mine) ELSE UNCHANGED streamVars
  /\ UNCHANGED <<setting, requestVars, engineVars, chainVars, phase, hop>>

StreamStep == \E s \in Stream : (Reading(s) \/ Closing(s)) /\ UNCHANGED callVars

(* What the executing thread does of itself.                                 *)
Executes ==
  \/ CallProceeds \/ CallInterceptorReturns \/ CreateEngine \/ CloseEarlier
  \/ LookupMisses \/ LookupRefuses \/ LookupHits \/ LookupValidates
  \/ NetProceeds \/ NetInterceptorReturns \/ GetConnection \/ SendRequest
  \/ ExchangeFails \/ ExchangeTimesOut \/ ReceiveResponse
  \/ JudgeNetwork \/ JudgeValid \/ Discard \/ Assign \/ Retry \/ RetryThrows
  \/ DrainReads \/ DrainCloses \/ DrainEnds \/ Fail

CallNext ==
  \/ Start \/ Executes \/ UserReads \/ UserCloses \/ Release \/ DestroyRest \/ Cancel \/ StreamStep

CallSpec == CallInit /\ [][CallNext]_allVars

(* The executing thread goes on, and so do the streams (CachingStream).      *)
CallFairSpec == CallSpec /\ WF_allVars(Executes) /\ Fairness
-----------------------------------------------------------------------------
CallTypeOK ==
  /\ StreamTypeOK
  /\ setting \in [cache : BOOLEAN, fresh : BOOLEAN]
  /\ given \in Requests /\ {follow, sent} \subseteq Requests \cup {NoRequest}
  /\ DOMAIN heap = Ref /\ \A ref \in Ref : DOMAIN heap[ref] = HeaderName
  /\ body \in {"none", "buffer", "whole", "part", "spent", "bad"}
  /\ sentBody \in {"none", "whole", "rest", "empty"} /\ reused \in {"may", "yes", "no"}
  /\ \A r \in {candidate, answer, prior} \ {NoResponse} : IsResponse(r)
  /\ hop \in 0..MaxRetryCount /\ cancelled \in {"no", "before", "after"}
  /\ callChain \in CallInterceptors!ChainType /\ netChain \in NetInterceptors!ChainType

Outside == phase \in {"net", "connect", "write", "receive"}

(* Credentials go to the origin that the caller gave them for, however the   *)
(* redirects lead through others and back.                                   *)
AuthorizationOnlyToItsOrigin ==
  Outside /\ Authorized(sent) => OriginOf[sent.url] = OriginOf[given.url]

(* only-if-cached holds for the whole chain of redirects: nothing is sent,   *)
(* unless the cache is not asked at all, for a conditional request, one with *)
(* Authorization, or one of another method than GET.                         *)
OnlyIfCachedStaysHome ==
  given.control = "only-if-cached" /\ setting.cache /\ Outside =>
    Authorized(sent) \/ Validator(sent) # NoUrl \/ sent.method # "GET"

(* The caller of an unconditional request is given no 304, which has no      *)
(* body, unless its Request was validated by a call before, or a stored      *)
(* redirect was validated and the answer was a redirect again: both leave    *)
(* the validator in a request that later goes past the cache.                *)
NotModifiedOnlyIfAsked ==
  phase = "returned" /\ answer.code = "notModified" =>
    Validator(given) = Own \/ ~setting.fresh \/ hop > 0

(* While an engine is at work, of the responses before it at most the one    *)
(* that it follows is open, and none with a cache: their connections are     *)
(* free for it.                                                              *)
EarlierAreClosed ==
  phase \in {"lookup", "connect", "write", "receive"} =>
    /\ at[Mine] = "closed"
    /\ setting.cache => at[Slot(hop + 1)] = "closed"

(* Connections come back in a state to be used again: drained streams give   *)
(* theirs back, and no earlier response of the call keeps one.               *)
ConnectionsComeBack == CallTypeOK /\ ReusedIsDrained /\ EarlierAreClosed

(* The request's rules for the cache hold along the whole chain.             *)
CacheRulesHold == OnlyIfCachedStaysHome /\ NotModifiedOnlyIfAsked

(* What is repeated on a new connection has the whole body again.  Only a    *)
(* Request whose body was sent before, by an earlier call or hop, goes out   *)
(* with a part of it, or an empty one.                                       *)
BodyArrivesWhole ==
  phase = "receive" /\ sentBody \in {"rest", "empty"} => hop > 0 \/ ~setting.fresh

(* What the response tells of its own making is true: it has a network       *)
(* response, to the request that was sent, exactly if its last hop went      *)
(* outside; a cache response only of the key that was asked for; and its     *)
(* prior responses are all the redirects before, each to the url that the    *)
(* next one answers, and none with a body.                                   *)
Tells(r) == {r.cache, r.network, r.prior} \ {NoResponse}

HistoryIsTrue ==
  phase = "decide" =>
    /\ IF sent = NoRequest THEN answer.network = NoResponse ELSE answer.network.request = sent
    /\ answer.cache # NoResponse => CacheKey(answer.cache.request) = CacheKey(Current)
    /\ Earlier(answer, hop + 1) = NoResponse
    /\ \A n \in 0..hop :
         LET r == Earlier(answer, n)
         IN  /\ \A t \in Tells(r) : t.body = "none"
             /\ r.prior # NoResponse =>
                  r.prior.code = "redirect" /\ r.prior.location = r.request.url

(* Every exchange was seen by all interceptors, first to last, and every     *)
(* call too, unless one of them proceeds a second time.                      *)
EveryInterceptorSees == CallInterceptors!SeenByAll /\ NetInterceptors!SeenByAll

(* A call comes back, whatever redirects the servers and the cache answer    *)
(* with, cancelled or not; except for a body that is read for ever, which is *)
(* the request's or, with a cache, that of a redirect, and an interceptor    *)
(* that proceeds beyond the end of the chain.                                *)
DrainsForEver == phase = "drain" /\ "endless" \in harm[Mine]

CallReturns ==
  phase = "create" ~>
    phase \in {"returned", "failed", "endless", "undefined"} \/ DrainsForEver

(* The call, its reads and its closes end.                                   *)
CallEndsInTime == CallReturns /\ StreamReturns

(* The Request that a caller has built stays as it was built.                *)
RequestKept == [][given' = given /\ heap'[given.headers] = heap[given.headers]]_allVars
=============================================================================
