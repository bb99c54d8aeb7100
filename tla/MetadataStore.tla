--------------------------- MODULE MetadataStore ---------------------------
(***************************************************************************)
(* What HttpCacheDatabase promises the file cache (HttpCacheDatabase.h and *)
(* the callers in HttpFileCache.cpp): a table of rows on which each call   *)
(* either takes effect at one instant, and then reports success, or        *)
(* changes nothing and reports failure.  A process that dies loses calls   *)
(* that were under way, never rows.                                        *)
(*                                                                         *)
(* The promise has one way out: a store is degraded when a failed change   *)
(* could not be undone.  From then on reads may show that change and every *)
(* change is refused, until the session is closed or the process ends.     *)
(***************************************************************************)
CONSTANTS Client, Key, Value, NoRow, NoCall

VARIABLES
  rows,      \* the row of each key, as every later session will find it
  call,      \* the call under way of each client
  outcome,   \* what its last call reported, or "open"
  answer,    \* the value its last call returned
  degraded

storeVars == <<rows, call, outcome, answer, degraded>>

Calls == [op : {"get", "put", "delete", "touch"}, key : Key, value : Value]
         \cup [op : {"list", "walk", "discard"}]

NoRows == [k \in Key |-> NoRow]
Present(content) == {k \in Key : content[k] # NoRow}

RowsAfter(q, content) ==
  CASE q.op = "put" -> [content EXCEPT ![q.key] = q.value]
    [] q.op = "delete" -> [content EXCEPT ![q.key] = NoRow]
    [] q.op = "discard" -> NoRows
    [] OTHER -> content

AnswerFrom(q, content) ==
  CASE q.op \in {"get", "delete", "touch"} -> content[q.key]
    [] q.op \in {"list", "walk"} -> Present(content)
    [] OTHER -> NoRow

Pending(c) == call[c] # NoCall /\ outcome[c] = "open"
ReadOnly(q) == q.op \in {"get", "list", "walk"}

StoreInit ==
  /\ rows \in [Key -> Value \cup {NoRow}]
  /\ call = [c \in Client |-> NoCall]
  /\ outcome = [c \in Client |-> "open"] /\ answer = [c \in Client |-> NoRow]
  /\ degraded = FALSE

Start(c) ==
  /\ call[c] = NoCall
  /\ \E q \in Calls : call' = [call EXCEPT ![c] = q]
  /\ outcome' = [outcome EXCEPT ![c] = "open"] /\ answer' = [answer EXCEPT ![c] = NoRow]
  /\ UNCHANGED <<rows, degraded>>

TakeEffect(c) ==
  /\ Pending(c)
  /\ degraded => ReadOnly(call[c])
  /\ rows' = RowsAfter(call[c], rows)
  /\ outcome' = [outcome EXCEPT ![c] = "ok"]
  /\ \E content \in [Key -> Value \cup {NoRow}] :
       /\ ~degraded => content = rows
       /\ answer' = [answer EXCEPT ![c] = AnswerFrom(call[c], content)]
  /\ UNCHANGED <<call, degraded>>

Refuse(c) ==
  /\ Pending(c)
  /\ outcome' = [outcome EXCEPT ![c] = "failed"]
  /\ UNCHANGED <<rows, call, answer, degraded>>

Finish(c) ==
  /\ call[c] # NoCall /\ outcome[c] # "open"
  /\ call' = [call EXCEPT ![c] = NoCall]
  /\ UNCHANGED <<rows, outcome, answer, degraded>>

(* Only a refused change that could not be undone degrades the store.        *)
Degrade(c) ==
  /\ call[c] # NoCall /\ outcome[c] = "failed" /\ ~ReadOnly(call[c])
  /\ degraded' = TRUE
  /\ UNCHANGED <<rows, call, outcome, answer>>

Restore ==
  /\ degraded' = FALSE
  /\ UNCHANGED <<rows, call, outcome, answer>>

Die ==
  /\ call' = [c \in Client |-> NoCall]
  /\ outcome' = [c \in Client |-> "open"] /\ answer' = [c \in Client |-> NoRow]
  /\ degraded' = FALSE
  /\ UNCHANGED rows

StoreNext ==
  \/ \E c \in Client : Start(c) \/ TakeEffect(c) \/ Refuse(c) \/ Finish(c) \/ Degrade(c)
  \/ Restore \/ Die

StoreSpec == StoreInit /\ [][StoreNext]_storeVars
=============================================================================
