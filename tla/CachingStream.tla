--------------------------- MODULE CachingStream ---------------------------
(***************************************************************************)
(* The streams over the body of a network response: one reader, and a      *)
(* close() that any thread may call meanwhile (ResponseBodyStreamInternal, *)
(* ...WithoutCaching, ...WithCaching).  A stream with caching copies what  *)
(* is read to a temporary file and offers the file to the cache when it is *)
(* closed.                                                                 *)
(*                                                                         *)
(* The body is the sequence of chunks 1..N; read() looks at the content    *)
(* without the mutex and writes to the file with it.  A step ends where    *)
(* the mutex is released, and, while close() holds it, at each chunk that  *)
(* it skips: the reader's look at the content needs no mutex.              *)
(***************************************************************************)
EXTENDS Naturals, Sequences

CONSTANTS
  Stream,
  N,        \* chunks of a complete body
  Faults    \* what may go wrong: a subset of FaultKinds

FaultKinds == {"dropped",    \* the connection ends early and looks like the end
               "unstored",   \* no temporary file can be created
               "unwritten",  \* the file system is full: write() fails silently
               "endless"}    \* chunks that never end come after the first N

ASSUME StreamAssumption == N \in Nat \ {0} /\ Faults \subseteq FaultKinds

VARIABLES
  kind,     \* with caching, without, or none yet
  sized,    \* the response has a Content-Length
  content,  \* m_content: more to come, at its end, or failed
  taken,    \* chunks taken from m_content
  reader,   \* out of read(), behind the test of m_closed, or with its chunk
  hand,     \* the chunk the reader has (0: an empty read)
  at,       \* open, or how far close() is
  conn,     \* the connection: held by the stream, released or removed
  temp,     \* the chunks in the temporary file, or NoFile
  written,  \* m_writtenDataSize, in chunks
  harm      \* history: the faults this stream met

contentVars == <<content, taken>>
readerVars == <<reader, hand>>
fileVars == <<temp, written, harm>>
streamVars == <<kind, sized, contentVars, readerVars, at, conn, fileVars>>

NoFile == <<0>>

StreamInit ==
  /\ kind = [s \in Stream |-> "none"] /\ sized = [s \in Stream |-> FALSE]
  /\ content = [s \in Stream |-> "more"] /\ taken = [s \in Stream |-> 0]
  /\ reader = [s \in Stream |-> "out"] /\ hand = [s \in Stream |-> 0]
  /\ at = [s \in Stream |-> "closed"] /\ conn = [s \in Stream |-> "none"]
  /\ temp = [s \in Stream |-> NoFile] /\ written = [s \in Stream |-> 0]
  /\ harm = [s \in Stream |-> {}]

(* A stream with caching makes its file at the first chunk that is read.     *)
NoFileYet(s) ==
  /\ temp' = [temp EXCEPT ![s] = NoFile] /\ written' = [written EXCEPT ![s] = 0]
  /\ harm' = [harm EXCEPT ![s] = {}]

(* createResponseBody, and exchangeToResponseBodyStreamWithCaching for a     *)
(* response that may be cached.  Without Content-Length it is chunked.       *)
Open(s, k, hasLength) ==
  /\ kind' = [kind EXCEPT ![s] = k] /\ sized' = [sized EXCEPT ![s] = hasLength]
  /\ content' = [content EXCEPT ![s] = "more"] /\ taken' = [taken EXCEPT ![s] = 0]
  /\ reader' = [reader EXCEPT ![s] = "out"] /\ hand' = [hand EXCEPT ![s] = 0]
  /\ at' = [at EXCEPT ![s] = "open"] /\ conn' = [conn EXCEPT ![s] = "held"]
  /\ NoFileYet(s)

(* A closed stream is destroyed with its body.                               *)
Destroy(s) ==
  /\ at[s] = "closed" /\ reader[s] = "out"
  /\ conn' = [conn EXCEPT ![s] = "none"]
  /\ UNCHANGED <<kind, sized, contentVars, readerVars, at, fileVars>>

-----------------------------------------------------------------------------
(* m_content.read(): the next chunk, of which the last may or may not show   *)
(* the end, an empty read (0) at the end, or an end before its time.  Of a   *)
(* chunked body that does not end, what follows the first N chunks is not    *)
(* told apart (0); it is the first thing to go wrong with its stream.        *)
Deliveries(s) ==
  LET next == taken[s] + 1
      chunk(k, c, met) == [chunk |-> k, content |-> c, met |-> met]
  IN  {d \in {chunk(next, "more", {}), chunk(next, "eof", {}), chunk(0, "eof", {}),
              chunk(0, "eof", {"dropped"}), chunk(0, "more", {"endless"})} :
         /\ d.chunk = next => next <= N /\ (d.content = "eof" => next = N)
         /\ d.chunk = 0 => (next <= N <=> d.met = {"dropped"})
         /\ "endless" \in d.met => ~sized[s]
         /\ "endless" \in harm[s] => d.met = {"endless"}
         /\ "endless" \in d.met => harm[s] \subseteq {"endless"}
         /\ d.met \subseteq Faults}

Deliver(s, d) ==
  /\ taken' = [taken EXCEPT ![s] = IF d.chunk = 0 THEN @ ELSE d.chunk]
  /\ content' = [content EXCEPT ![s] = d.content]

IsEof(s) == content[s] = "eof"

(* read(): behind the tests of m_closed (in read and in isEof), no mutex.    *)
BeginRead(s) ==
  /\ at[s] = "open" /\ reader[s] = "out"
  /\ reader' = [reader EXCEPT ![s] = "in"]
  /\ UNCHANGED <<kind, sized, contentVars, hand, at, conn, fileVars>>

TakeChunk(s) ==
  /\ reader[s] = "in" /\ at[s] # "closed" /\ content[s] = "more"
  /\ \E d \in Deliveries(s) :
       /\ Deliver(s, d)
       /\ hand' = [hand EXCEPT ![s] = d.chunk]
       /\ harm' = [harm EXCEPT ![s] = @ \cup d.met]
  /\ reader' = [reader EXCEPT ![s] = "has"]
  /\ UNCHANGED <<kind, sized, at, conn, temp, written>>

ContentFails(s) ==
  /\ reader[s] = "in" /\ at[s] # "closed" /\ content[s] = "more"
  /\ content' = [content EXCEPT ![s] = "bad"]
  /\ reader' = [reader EXCEPT ![s] = "out"]
  /\ UNCHANGED <<kind, sized, taken, hand, at, conn, fileVars>>

(* read() returns -1, or throws because the content failed, or because the   *)
(* stream was closed meanwhile.                                              *)
ReadReturnsNothing(s) ==
  /\ \/ reader[s] = "in" /\ content[s] # "more"
     \/ reader[s] # "out" /\ at[s] = "closed"
  /\ reader' = [reader EXCEPT ![s] = "out"] /\ hand' = [hand EXCEPT ![s] = 0]
  /\ UNCHANGED <<kind, sized, contentVars, at, conn, fileVars>>

-----------------------------------------------------------------------------
(* createTempFile and the write to it.  A write that fails throws nothing,   *)
(* is counted, and spoils the file for those after it.                       *)
InFile(s) == IF temp[s] = NoFile THEN << >> ELSE temp[s]
Counted(s, k) == (IF temp[s] = NoFile THEN 0 ELSE written[s]) + IF k = 0 THEN 0 ELSE 1

Appends(s, k, met) ==
  /\ temp' = [temp EXCEPT ![s] = IF k = 0 \/ "unwritten" \in met THEN InFile(s)
                                 ELSE Append(InFile(s), k)]
  /\ written' = [written EXCEPT ![s] = Counted(s, k)]
  /\ harm' = [harm EXCEPT ![s] = met]

(* No temporary directory, or no file in it.                                 *)
MayLackFile(s) == "unstored" \in Faults /\ temp[s] = NoFile

Write(s, k, met) ==
  \/ kind[s] = "caching" /\ Appends(s, k, met)
  \/ kind[s] = "caching" /\ "unwritten" \in Faults /\ k # 0
     /\ Appends(s, k, met \cup {"unwritten"})
  \/ /\ kind[s] = "caching" /\ MayLackFile(s)
     /\ harm' = [harm EXCEPT ![s] = met \cup {"unstored"}]
     /\ UNCHANGED <<temp, written>>
  \/ kind[s] # "caching" /\ harm' = [harm EXCEPT ![s] = met] /\ UNCHANGED <<temp, written>>

(* The second half of read(), with the mutex.                                *)
StoreChunk(s) ==
  /\ reader[s] = "has" /\ at[s] = "open"
  /\ Write(s, hand[s], harm[s])
  /\ reader' = [reader EXCEPT ![s] = "out"] /\ hand' = [hand EXCEPT ![s] = 0]
  /\ UNCHANGED <<kind, sized, contentVars, at, conn>>

-----------------------------------------------------------------------------
(* close(), which holds the mutex from here on.                              *)
BeginClose(s) ==
  /\ at[s] = "open"
  /\ at' = [at EXCEPT ![s] = "skipping"]
  /\ UNCHANGED <<kind, sized, contentVars, readerVars, conn, fileVars>>

(* skipAll reads what is left through read(): it goes into the file too.     *)
SkipChunk(s) ==
  /\ at[s] = "skipping" /\ content[s] = "more"
  /\ \E d \in Deliveries(s) : Deliver(s, d) /\ Write(s, d.chunk, harm[s] \cup d.met)
  /\ UNCHANGED <<kind, sized, readerVars, at, conn>>

(* The loop has a limit of time, which a body that does not end runs into.   *)
SkipFails_OnError(s) ==
  /\ at[s] = "skipping" /\ content[s] = "bad"
  /\ conn' = [conn EXCEPT ![s] = "removed"]
  /\ at' = [at EXCEPT ![s] = "judging"]
  /\ UNCHANGED <<kind, sized, contentVars, readerVars, fileVars>>

(* The connection goes back to the pool if the body was read to its end, and *)
(* is removed if reading took more than ResponseBodySkipTimeout or failed.   *)
GiveBack(s) ==
  /\ at[s] = "skipping" /\ IsEof(s)
  /\ conn' = [conn EXCEPT ![s] = "released"]
  /\ at' = [at EXCEPT ![s] = "judging"]
  /\ UNCHANGED <<kind, sized, contentVars, readerVars, fileVars>>

SkipFails(s) ==
  /\ at[s] = "skipping" /\ ~IsEof(s)
  /\ conn' = [conn EXCEPT ![s] = "removed"]
  /\ at' = [at EXCEPT ![s] = "judging"]
  /\ UNCHANGED <<kind, sized, contentVars, readerVars, fileVars>>

IsValidResponseBody_Received(s) == kind[s] = "caching" /\ IsEof(s)

IsValidResponseBody(s) ==
  /\ kind[s] = "caching"
  /\ IF sized[s] THEN written[s] = N ELSE IsEof(s)

(* m_closed; the file is closed, and moved into the cache (CachedExchange)   *)
(* or removed.  What the stream knew of its body is of no use any more.      *)
FileGoes(s) ==
  /\ temp' = [temp EXCEPT ![s] = NoFile] /\ written' = [written EXCEPT ![s] = 0]
  /\ harm' = [harm EXCEPT ![s] = {}]

Shut(s) ==
  /\ kind' = [kind EXCEPT ![s] = "none"] /\ sized' = [sized EXCEPT ![s] = FALSE]
  /\ content' = [content EXCEPT ![s] = "more"] /\ taken' = [taken EXCEPT ![s] = 0]
  /\ at' = [at EXCEPT ![s] = "closed"]

Close(s) ==
  /\ at[s] = "judging"
  /\ FileGoes(s) /\ Shut(s)
  /\ UNCHANGED <<readerVars, conn>>

Reading(s) == TakeChunk(s) \/ ContentFails(s) \/ ReadReturnsNothing(s) \/ StoreChunk(s)
Closing(s) == SkipChunk(s) \/ GiveBack(s) \/ SkipFails(s) \/ Close(s)

(* A read of the content ends (the socket has a timeout), and the mutex is   *)
(* served: a reader that has waited for it gets it, unless the stream closes *)
(* before.                                                                   *)
Fairness == \A s \in Stream : WF_streamVars(Reading(s)) /\ WF_streamVars(Closing(s))

-----------------------------------------------------------------------------
StreamTypeOK ==
  /\ kind \in [Stream -> {"none", "caching", "plain"}] /\ sized \in [Stream -> BOOLEAN]
  /\ content \in [Stream -> {"more", "eof", "bad"}] /\ taken \in [Stream -> 0..N]
  /\ reader \in [Stream -> {"out", "in", "has"}] /\ hand \in [Stream -> 0..N]
  /\ at \in [Stream -> {"open", "skipping", "judging", "closed"}]
  /\ conn \in [Stream -> {"none", "held", "released", "removed"}]
  /\ \A s \in Stream : temp[s] = NoFile \/ \A i \in DOMAIN temp[s] : temp[s][i] \in 1..N
  /\ written \in [Stream -> 0..N] /\ harm \in [Stream -> SUBSET FaultKinds]

(* The body that close() offers to the cache is the whole body in its order, *)
(* whatever close() overtakes, however the body ends and whatever the reader *)
(* has seen of it.  Only a full file system deceives it, and, for a body     *)
(* without Content-Length, a connection that ends early, a temporary file    *)
(* that could not be made at first, and a reader caught between taking a     *)
(* chunk and writing it.                                                     *)
Overtaken(s) == reader[s] = "has" /\ hand[s] # 0

Suspect(s) == \/ "unwritten" \in harm[s]
              \/ ~sized[s] /\ (harm[s] # {} \/ Overtaken(s))

OfferedIsWhole ==
  \A s \in Stream :
    at[s] = "judging" /\ IsValidResponseBody(s) =>
      temp[s] = [i \in 1..N |-> i] \/ Suspect(s)

(* A connection goes back to the pool for reuse only with the body behind    *)
(* it, also when the reader is in read() meanwhile: the next response is not *)
(* read out of this one's rest.                                              *)
ReusedIsDrained ==
  \A s \in Stream :
    at[s] = "judging" /\ conn[s] = "released" =>
      IsEof(s) /\ (taken[s] = N \/ "dropped" \in harm[s])

(* close() ends, though the body may not, and so does a read() that it       *)
(* overtakes.                                                                *)
Busy(s) == at[s] = "skipping" \/ reader[s] # "out"
StreamReturns == \A s \in Stream : Busy(s) ~> ~Busy(s)
=============================================================================
