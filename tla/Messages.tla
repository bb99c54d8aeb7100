------------------------------ MODULE Messages ------------------------------
(***************************************************************************)
(* Headers, requests and responses.  They do not change once they are      *)
(* built, but for one thing: a builder made from a Request or Response     *)
(* shares the Headers object of its original (Request.cpp, Response.cpp)   *)
(* and writes into it; only build() makes a copy.  So a request has a      *)
(* reference to its headers, and its user a heap: [Ref -> headers].        *)
(*                                                                         *)
(* Nobody adds a header to a response whose original is used again: a      *)
(* response has the one header that matters to a call, Location, as a      *)
(* field.  Status text, length, times and tag are left out.                *)
(***************************************************************************)
EXTENDS Naturals, Sequences

CONSTANTS
  Url,
  NoUrl,    \* no Location, one that cannot be decoded, or of another scheme
  BadUrl,   \* a Location that can be decoded but is no URI
  Own       \* a validator that the caller put into its Request

(* Headers: of each name the values in the order in which they were added;   *)
(* a validator is If-None-Match or If-Modified-Since.                        *)
HeaderName == {"Authorization", "Cache-Control", "Validator"}
NoHeaders == [n \in HeaderName |-> << >>]

Add(h, name, value) == [h EXCEPT ![name] = Append(@, value)]
Set(h, name, value) == [h EXCEPT ![name] = <<value>>]
Has(h, name) == h[name] # << >>
GetValue(h, name, default) == IF Has(h, name) THEN h[name][1] ELSE default

-----------------------------------------------------------------------------
(* Requests, and the builders they are built from.  Only builders have no    *)
(* url, or no headers.                                                       *)
Ref == {"given", "follow", "sent"}
Controls == {"none", "only-if-cached"}
Requests == [method : {"GET", "POST"}, url : Url, hasBody : BOOLEAN, control : Controls,
             headers : Ref]
NoRequest == [method |-> "none"]

NewBuilder == [method |-> "GET", url |-> NoUrl, hasBody |-> FALSE, control |-> "none",
               headers |-> "none"]

(* httpGet(), httpPost(pBody), ...: a body that was there before stays.      *)
HttpMethod(builder, method, hasBody) ==
  [builder EXCEPT !.method = method, !.hasBody = @ \/ hasBody]

SetCacheControl(builder, control) == [builder EXCEPT !.control = control]

(* An empty url, or one that is no URI, is refused.                          *)
SetUrl(builder, url) == [builder EXCEPT !.url = url]
Accepts(url) == url \in Url

CacheKey(request) == <<request.method, request.url>>

(* setHeader() writes into the headers the builder refers to.                *)
SetHeader(heap, builder, name, value) == [heap EXCEPT ![builder.headers] = Set(@, name, value)]

(* build(): with its own copy h of the builder's headers, from which it      *)
(* takes the Cache-Control that the builder does not have.                   *)
Build(builder, h, ref) ==
  [builder EXCEPT !.headers = ref,
                  !.control = IF @ # "none" THEN @ ELSE GetValue(h, "Cache-Control", "none")]

-----------------------------------------------------------------------------
(* Responses.  body: where it is read from; request: what it answers;        *)
(* cache and network: of the responses it was made from the request and the  *)
(* body; prior: the response whose redirect it follows.                      *)
NoResponse == [code |-> "none"]
NewResponse == [code |-> "ok", location |-> NoUrl, body |-> "none", request |-> NoRequest,
                cache |-> NoResponse, network |-> NoResponse, prior |-> NoResponse]

IsResponse(r) == /\ DOMAIN r = DOMAIN NewResponse
                 /\ r.code \in {"ok", "redirect", "notModified", "timeout"}
                 /\ r.location \in Url \cup {NoUrl, BadUrl} /\ r.body \in {"none", "net", "cache"}
                 /\ r.request \in Requests \cup {NoRequest}

HasBody(r, kind) == r # NoResponse /\ r.body = kind

SetBody(r, body) == [r EXCEPT !.body = body]
SetCode(r, code) == [r EXCEPT !.code = code]
SetLocation(r, url) == [r EXCEPT !.location = url]
SetRequest(r, request) == [r EXCEPT !.request = request]
Brief(r) == IF r = NoResponse THEN r ELSE SetRequest(SetBody(NewResponse, r.body), r.request)
SetCacheResponse(r, cache) == [r EXCEPT !.cache = Brief(cache)]
SetNetworkResponse(r, network) == [r EXCEPT !.network = Brief(network)]
SetPriorResponse(r, prior) == [r EXCEPT !.prior = prior]

StripBody_Shared(r) == r  \* setBody(NULL) is not called

StripBody(r) == IF r = NoResponse THEN r ELSE SetBody(r, "none")

(* What the engine gives its user, of a stored response, after a validation  *)
(* (network) or without; of a network response, to be stored or not; and     *)
(* when there may be no exchange and nothing is stored.                      *)
FromCache(cache, network, request, prior) ==
  SetNetworkResponse(
    SetBody(SetCacheResponse(SetPriorResponse(SetRequest(cache, request), StripBody(prior)),
                             StripBody(cache)), "cache"),
    StripBody(network))

FromNetwork(network, prior) ==
  SetPriorResponse(SetNetworkResponse(network, StripBody(network)), StripBody(prior))

WithCaching(network, prior) ==
  LET stripped == StripBody(network)
  IN  SetPriorResponse(SetNetworkResponse(SetBody(stripped, "net"), stripped), StripBody(prior))

GatewayTimeout(request, prior) ==
  SetCode(SetPriorResponse(SetRequest(NewResponse, request), StripBody(prior)), "timeout")

(* The n-th response before r.                                               *)
Earlier(r, n) == LET back[i \in 0..n] == IF i = 0 THEN r ELSE back[i - 1].prior IN back[n]
=============================================================================
