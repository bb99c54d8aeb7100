--------------------------- MODULE MCCacheStrategy ---------------------------
(* Instance of CacheStrategy for TLC: requests and answers that reach every  *)
(* branch of the decisions, with one feature or two each.                    *)
EXTENDS CacheStrategy

Get == [method |-> "GET", authorization |-> FALSE, conditional |-> FALSE, cc |-> NoControl]
With(c) == [Get EXCEPT !.cc = c]

MCRequests ==
  {Get, With(ForceCache), With(ForceNetwork), With([NoControl EXCEPT !.noStore = TRUE]),
   [Get EXCEPT !.method = "POST"], [With(ForceCache) EXCEPT !.authorization = TRUE],
   [Get EXCEPT !.conditional = TRUE]}
  \cup {With([NoControl EXCEPT !.maxAge = n]) : n \in {1, LLMax}}
  \cup {With([NoControl EXCEPT !.minFresh = n]) : n \in {-2, 1, LLMax}}
  \cup {With([NoControl EXCEPT !.maxStale = 1])}

Plain == [code |-> 200, cc |-> << >>, pragma |-> FALSE, dated |-> TRUE, date |-> Absent,
          relayed |-> FALSE, age |-> Absent, expires |-> Absent, modified |-> Absent, etag |-> FALSE, framed |-> TRUE]
Says(ds) == [Plain EXCEPT !.cc = <<ds>>]
For(n) == Says(<< <<"max-age", n>> >>)
Validates(a) == [a EXCEPT !.code = 304]

Undated(a, d) == [a EXCEPT !.dated = FALSE, !.date = d]

MCAnswers ==
  {Plain, For(2), [For(2) EXCEPT !.relayed = TRUE], Undated([For(2) EXCEPT !.relayed = TRUE], Absent),
   For(-2), For(LLMax), Says(<< <<"max-age", 3>>, <<"must-revalidate", -1>> >>),
   [Plain EXCEPT !.cc = << << <<"no-cache", -1>> >>, << <<"max-age", 2>> >> >>, !.etag = TRUE],
   [For(2) EXCEPT !.pragma = TRUE], Says(<< <<"no-store", -1>> >>),
   [Plain EXCEPT !.expires = 52], Undated([Plain EXCEPT !.expires = 52], Absent),
   [Plain EXCEPT !.expires = Unreadable, !.modified = 30], [Plain EXCEPT !.modified = 29],
   Undated(For(2), Absent),
   [For(2) EXCEPT !.age = LLMax], Undated([Plain EXCEPT !.expires = LLMax], 0),
   [Plain EXCEPT !.code = 307], [For(2) EXCEPT !.code = 307], [For(2) EXCEPT !.framed = FALSE],
   [Plain EXCEPT !.code = 500],
   Validates(Plain), Validates(For(2)), Validates(Undated(Plain, Absent)),
   Validates(Undated([For(2) EXCEPT !.relayed = TRUE], Unreadable)),
   Validates([Says(<< <<"no-cache", -1>> >>) EXCEPT !.age = Unreadable])}
=============================================================================
