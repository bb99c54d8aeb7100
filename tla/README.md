# A TLA+ model of easyhttpcpp

easyhttpcpp is an HTTP client library in C++ on top of POCO and SQLite: calls
run synchronously or on a pool of threads, connections are kept alive and
reused, redirects are followed through interceptors, and responses are cached
in files indexed by an SQLite database. These modules model the parts whose
correctness depends on the order in which threads, timers, failures and crashes
interleave, and the decisions and conversions those parts rest on. Paths below
are relative to the repository (`src/...` is the library's implementation).

## The system

| component | state | operations | interacts with |
|---|---|---|---|
| Connection pool (`ConnectionPoolInternal`, `ConnectionInternal`, `KeepAliveTimeoutTask`) | map from connection to keep-alive task; per connection status, cancel flag, listener | find and reuse, create, remove, release, expire, limit idle connections | called by engines and body streams; calls back the engine (`onIdle`); a `Poco::Util::Timer` thread calls it |
| HTTP engine (`HttpEngine`) | current connection, cancel flag, cached response | execute, retry, cancel, update cache, redirect request | pool, cache, streams, interceptors |
| Body streams (`ResponseBodyStream*`) | closed flag, connection or cached file, temporary file | read, close, destroy | pool (release, remove), cache (put, release) |
| Cache front end (`HttpCacheInternal`, `CacheManager`, `HttpCacheMetadata`) | one mutex | metadata, body, put, remove, evict | engine, streams, file cache |
| File cache (`HttpFileCache`, `HttpLruCacheStrategy`, `HttpCacheDatabase`) | LRU index with sizes, reference counts and pending removals; rows; files | get, put, remove, release, purge, initialise, enumerate | SQLite, file system, streams, engine |
| Cache strategy (`HttpCacheStrategy`, `CacheControl`) | none | freshness, validation, cacheability | engine |
| Calls (`CallInternal`, `HttpRequestExecutor`) | executed and cancelled flags, current engine, response | execute, executeAsync, cancel | engine, task manager |
| Interceptors (`*InterceptorChain`) | an iterator shared by all links | proceed | calls, engine, application |
| Requests, responses, headers, bodies | immutable once built, headers shared by builders | build, add, set, write | everything |
| Asynchronous execution (`HttpExecutionTaskManager`, `HttpAsyncExecutionTask`) | running tasks, terminated flag | start, complete, graceful shutdown | thread pool, user callbacks |
| Executor service (`QueuedThreadPool`, `RunnableWorker`, queues, `FutureTask`) | queue, active workers, terminated flag, result | start, next task, shutdown, cancel, get | POCO threads |
| SQLite wrapper (`SqliteOpenHelper`, `SqliteDatabase`, `SqliteCursor`) | open handle, version, transaction, cursor position | open, create, upgrade, transactions, queries, moves | file cache |
| Utilities (strings, logging, digests, TLS context) | none | conversions | everything |

What makes these parts hard to test:

* an engine is used by the thread that runs it, by `cancel()`, by whoever closes
  the stream, and by the pool's callback, each under a mutex of its own;
* keep-alive timers fire while their connection is being reused;
* an engine reads metadata, opens the body, validates and writes back in
  separate calls to the cache, between which other engines change the entry;
* the file cache keeps the same fact in three places (index, row, file), and
  each of the three updates may fail or be the last before a crash;
* readers keep entries pinned across purges and database corruption;
* a stream is closed by another thread in the middle of a read, and decides then
  whether the file it has copied is complete;
* requests made for redirects and validations share headers with the caller's;
* ages and lifetimes are sums of unsigned numbers from headers that lie;
* shutdown waits for tasks whose callbacks may call back into the library.

PROJECT.json lists these hazards at their lines, each with the properties that
cover it.

## Modules

| module | models |
|---|---|
| `ConnectionPool` | the pool under the most general client and the timer thread |
| `ConnectionPool_proof` | its inductive invariant and the theorems |
| `HttpEngine` | engines, their cancellers and their streams, sharing one pool (`Pool == INSTANCE ConnectionPool`) |
| `HttpEngine_proof` | the ownership of connections, the theorems, and the refinement of `ConnectionPool` |
| `HttpFileCache` | the file cache with its LRU index, database rows and body files, under failures, corruption and crashes |
| `HttpFileCache_proof` | what holds at each stage of each operation, and the theorems |
| `QueuedThreadPool` | the executor: start, workers, queue, shutdown and join |
| `QueuedThreadPool_proof` | its inductive invariant and the theorems |
| `CallExecution` | the calls of one `EasyHttp` object: execution, cancel, tasks, callbacks, graceful shutdown |
| `CallExecution_proof` | its inductive invariant and the theorems |
| `CachingStream` | the streams over the body of a network response, read by one thread and closed by another |
| `InterceptorChain` | one chain of interceptors with its shared iterator |
| `Messages` | headers, requests, responses and their builders (operators only) |
| `FollowUps` | a whole call: interceptors, cache lookup, exchange, redirects and streams (extends the three above) |
| `FollowUps_proof` | what holds at each place of a call, and the theorems |
| `CachedExchange` | several engines on one entry of the cache |
| `CacheStrategy` | freshness, validation, cacheability and combination of headers, over the life of an entry |
| `CacheFrontEnd_proof` | the inductive invariants of these two and their theorems |
| `MetadataStore` | the abstract specification of the metadata database |
| `SqliteCursor` | the cursor of a query (operators only) |
| `CacheDatabase` | the metadata database over SQLite, which implements `MetadataStore` |
| `CacheDatabase_proof` | what the session sees at each step, the theorems, and the refinement of `MetadataStore` |
| `MC...` | instances for TLC |

How they fit together. `HttpEngine` uses the operations of `ConnectionPool` and is
shown to be a client in its sense. `FollowUps` is built from `CachingStream`,
`Messages` and two instances of `InterceptorChain`. `CallExecution` abstracts the
exchange that `HttpEngine` and `FollowUps` detail, and the pool of threads to what
`QueuedThreadPool` promises: an accepted task is run once, and a queue is looked at
again. `CachedExchange` sees the cache as one entry whose calls are atomic, which is
what the mutexes of `CacheManager` and `HttpFileCache` give; what happens inside such a
call is `HttpFileCache`, whose rows are in turn those of `CacheDatabase`. It leaves open
what `CacheStrategy` decides.

### ConnectionPool

`pool` and `task` are the map `m_connectionControls`; `status` and `cancelled`
are the connection's `m_connectionStatus` and `m_cancelled`; `route` stands for
everything `setInuseIfReusable` compares (scheme, host, port, proxy, root CA,
timeout). `timer` and `ttl` describe POCO's timer queue: a task is *scheduled*,
then taken by the timer thread (*running*), and cancelling it after that is too
late, which is the race `onKeepAliveTimeoutExpired` has to survive. `ttl` counts
down in abstract ticks; only the order of expirations matters. A task is
allocated by `releaseConnection` and is free again once it ran or was cancelled
in the queue.

Every operation of the pool takes `m_instanceMutex` for its whole body and is one
step. `ConnectionInternal::cancel` does not take that mutex and is a step of its
own. The client of the specification is the most general one: any thread may
call any operation with a connection it still refers to (`held`), so what holds
here holds for every caller.

### HttpEngine

`pc[e]` is where the thread that runs `execute()` of engine `e` is; a step ends
where the code unlocks a mutex or waits for the network. `econn` is
`m_pConnectionInternal`, `lconn` the local variable `pConnectionInternal` and then
the stream's pointer, `cconn` the copy made by `cancel()`, whose three parts (copy,
shut down, remove) are three steps because the engine's mutex is released after
the first. The search for an idle connection and the insertion of a new one are
separate critical sections of the pool, and so are separate steps. Sending and receiving may
succeed, fail with `HttpExecutionException`, or fail with another exception. The
stream may be closed by any thread at any time after the response was received,
after which the connection is released or (when the rest of the body cannot be
skipped) removed; whoever holds the body closes it before it goes. The engine may
be destroyed while the stream is open, and the destructor's unlocked test of
`m_pConnectionInternal` is separate from its use. Pool operations are those of
`ConnectionPool`, instantiated with the references the engines hold, and the
property `PoolSpec` shows the engines to be clients in that module's sense, so
its theorems apply.

### HttpFileCache

`row` and `file` are the disk: which response's metadata and bytes it has for
each key. `lruList`, `info` and `totalSize` are the members of the LRU strategy
(`info` holds `HttpCacheInfo`: size, readers, reserved removal), `initialized` is
`m_cacheInitialized`, `stream` the open streams that `getData` handed out, `draft` what
`HttpEngine::updateCache` read before it calls `putMetadata`.

Every public operation holds `m_instanceMutex` from beginning to end, so
operations do not interleave. What can come between two of their steps is the
outside world: a step on the database or a file may fail (`Fault`), may find the
database corrupt (`Corrupted`, then `CleanFiles`), or may be the last one before the
process dies (`Crash`). So each such step is an action and the operation keeps its
place in `at` and its arguments in `call`. Work that several operations share is
kept apart from that: `todo` and `victim` are the removals under way (`onRemove`
deletes the row, then the file, then the index entry), `rest` and `cur` the rows of
`initializeCache` still to be added. A stage of an operation goes on when these are
finished (`Ready`). Steps that touch neither the disk nor the clients are merged.

An operation that needs the index initialises it first; in the model that is a
`GetSize` before it, except for `put`, which alone does more than fail when
initialising finds corruption. The order in which rows are enumerated
(`lastAccessedAt`) is left open. `CacheManager` passes calls through under its own
mutex and adds nothing. Left out: a cache directory that cannot be created, an
evicted file that cannot be deleted while open (Windows), and `updateLastAccessedSec`,
whose result the code ignores.

Two history variables say where the code gives no promise. `muddled` holds keys
whose entry was discarded while a stream was reading it (`evictAll`, corruption),
until no stream reads them. `stale` holds keys whose row `updateCache`
overwrote with metadata older than the row, which can happen because
it reads and writes in two operations.

### QueuedThreadPool

`queue`, `active` and `terminated` are `m_pBlockingQueue`, `m_activeWorkerCount` and
`m_terminated`; `queueMutex` is the task whose `start()` holds `m_queueMutex` (a worker
holds it for one step only). `at` and `work` are the threads of `Poco::ThreadPool`:
*running* a task, *fetching* the next one (`RunnableWorker::run`), *leaving* because the queue
was empty, and *idle* again, which POCO knows only some time after the worker has left.
That delay is why `start()` may find no thread although no worker is active, and
then tries again with the mutex held. `phase` follows each task; every task is started by a
thread of its own, so any number of `start()` calls overlap. The test of `m_terminated`
is a step of its own because its mutex is released before the other is taken.

From POCO the model takes that `start` finds an idle thread, or throws
`NoThreadAvailableException`, or fails otherwise; that `joinAll` waits until all threads are idle; and
that both hold the mutex of the pool, `joinAll` while it waits. The sizes of the pool enter
only as the number of threads, since threads that time out are made again on demand.
`UnboundBlockingQueue` is the case of a queue no smaller than the number of tasks.
Whether `m_cancelled` is set makes no difference to `Task::run`. What a task does, and its future, is in `CallExecution`.

### CallExecution

`pc[c]` is where the thread that runs call `c` is, be it the user's or a worker's.
`wanted` is the flag of `CallInternal`, `cancelled` that of the executor, which exists once
`executed`. `engines` counts the engines that the loop of `HttpRequestExecutor` has made;
an engine is reduced to a response, a redirect or an exception. `taskList`, `copy`,
`terminated` and `shutdown` are the task manager and the phases of `gracefulShutdown`, which
holds `m_instanceMutex` while it joins (`ManagerFree`). A call's callback may start another
call (`FollowUp`). A step ends where a mutex is released or the network is waited for.
A `start()` of the task manager that the pool refuses leaves its task in the list
until it takes the mutex again (`RemoveRefused`).

### CachingStream

A body is the chunks 1..N. `read()` looks at the content without the mutex and writes
the chunk to the temporary file with it, so `reader` and `hand` keep what it has in
between. `close()` of another thread skips the rest of the content with the mutex held, one
step a chunk, because the reader's look at the content needs none. `Faults` are the ways in
which a body gets damaged in silence: the connection ends early and looks like the end
of the body, the temporary file cannot be created, a write to it fails. `harm` is the
history of those. `IsValidResponseBody` is the test by which `close()` offers the file to
the cache.

### Messages, InterceptorChain and FollowUps

`Messages` has headers as lists of values by name, and requests that hold a reference to
headers on a `heap`, because a builder made from a request or response shares the
`Headers` object and writes into it. `InterceptorChain` has the iterator that all
links share: an interceptor that proceeds a second time finds it where the first time left
it, and may come to stand beyond the end (`undefined`).

`FollowUps` puts them together for one call: `phase` is where the executing thread is,
`hop` the number of redirects followed. Each hop looks into the cache (which
may answer, be stale or miss, and whose content other calls decide), writes
the request with its body to a reused or new connection, receives a response that any
server might give, judges it, and follows it. A request body is a buffer or a
stream of which only a seekable one can be sent again. The responses of hops h and h + 2 share
one of two streams, because the executor destroys the first before the second exists;
`DestroyRest` and `CloseEarlier` are those destructors. `Cancel` may come at any time. Interceptors are
arbitrary: they proceed, proceed again, return or throw. `setting.fresh` says that the
caller's `Request` was not used by a call before.

### CachedExchange

A response is its version: the origin server moves to the next when a request modifies
the resource. `entry` has the versions of its headers and of its body; `pins` and `reserved` are
its reference count and pending removal. Each call to the cache is one step: metadata
(`BeginFresh`, `BeginStale`), `ReadMetadata` and `WriteMetadata` of `updateCache`, `GetBody`, the put when a stream closes,
`RemoveFromCache`, `ReleaseData`, `Evict` for want of space and `EvictAll`, which waits for nobody and
removes the temporary directory in a second step. Reading and writing metadata, the body, the put and the removal may each
fail, which the code notices only where it needs a result: a failed removal or write changes nothing and the exchange goes on.
The reference count does not fail here; that is `HttpFileCache`'s. `excused`, `raced` and `orphaned` are history
variables: pairs of headers and body that the code cannot tell apart, engines whose entry was
replaced since they looked at it, readers that outlived an `evictAll`.

### CacheStrategy

`kept` is the stored response with the times of its exchange, and with the history that the
properties speak of (`born`: when the server made or last validated it; `said`: the headers
as the server sent them; `honest`: every Date and Age it has had was true). Time passes between any two
steps, answers may come through a cache on the way (`relayed`), and the clock may be set back once.
What an answer says of time is free: Date, Expires and Last-Modified are any number of seconds or unreadable, Age is any
`long long` or no number, and `dated` and `relayed` say that Date or Age are the true ones instead (`Honest`).
`DecisionIsExact` asks nothing of them; the other three properties compare the computed age with the true one and
speak of an entry whose Date and Age were true. Sums are `Plus` and casts are
`Unsigned`, modulo `2 * (LLMax + 1)`, where `LLMax` is `LLONG_MAX` (63 in the run, so that sums wrap at 128); `Exact` is
the same decision in integers. Directives come as lines of
`<<name, argument>>` pairs; parsing is modelled by what it makes of a value it cannot read:
a date that is none is `Unreadable`, a missing argument counts as absent, a negative number is let through. Headers
pass through the JSON object of the database, which keeps the last of several lines
(`Stored`).

### MetadataStore, SqliteCursor and CacheDatabase

`MetadataStore` is what `HttpFileCache` relies on: each call takes effect at one instant and
reports success, or changes nothing and reports failure; a crash loses calls, never rows.
Its one way out is `degraded`: a failed change that could not be undone.

`CacheDatabase` has the file (`disk`: version, table, rows), the open session (`db` with what it
`sees` and whether a transaction is active, beside what `isTransaction` says), the mutex of `HttpCacheDatabase`
(`holder`) and per client where its call is. Every call opens the database through
`SqliteOpenHelper` (creating the table and setting the version in one transaction, upgrading
or downgrading a file of another version), does its statement and closes it through
`AutoSqliteDatabase`. Each call of SQLite is a step that may fail, and the process may die before
it. The cursor of `enumerate` and of any other query is moved by `SqliteCursor`, whose two
positions (`row`, `record`) are kept apart; offsets are `int`, whose largest value is `IntMax`, and wrap beyond it. `StoreSpec` is the refinement.

## Runs

| run | instance | shows |
|---|---|---|
| `pool` | 2 connections, 2 routes, 3 tasks, at most 1 idle, timeout 1 tick | `IdleIffTimed`, `IdleWithinLimit`, `InuseNotEvicted` under the most general client; `IdleExpires` under the fairness of the timer thread |
| `engine` | 3 engines with a canceller each, 2 connections, 3 tasks | `EngineInv` (no shared connection `SoleUser`, no reference to another's `ReferenceIsOwn`, `NoDanglingListener`, `RetriesOnce`), `CancelNotLost`, `NoStrandedConnection`, refinement of the pool (`PoolSpec`) |
| `engine_cancel_race` | 2 engines | violated: the connection that `cancel()` shuts down may already be idle again |
| `file_cache` | 2 keys, bodies of size 1, 2 and 4 (limit 3), 2 streams, 1 `updateCache`; 1 crash or corruption and 2 failing steps | `IndexInv` (`TotalIsSum`, `TotalWithinMax`, `IndexIsRows`), `ReadersInv` (`PinsMatchReaders`, `ReadersKeepTheirBody`, `ReservedHasReaders`), `RowHasItsBody`, `MixedOnlyAfterThreeFailures` |
| `executor` | 4 tasks, 2 threads, queue of 1 | `ExecutorInv` (`ActiveIsBusy`, `NoStrandedTask`), `EachTaskOnce`, `JoinLeavesNoTask`, `ExecutorGoesOn` (`QueuedTasksRun`, `StartReturns`, `JoinReturns` but for one circle) |
| `calls` | 2 calls, the callback of the first may start the second, 1 redirect, 1 worker | `CallbackOnce`, `ShutdownInv`, `CancelStopsExchanges`, `CallsEnd` (`AcceptedCallsBack`, `ShutdownEnds`) with two named ways of waiting for ever |
| `calls_shutdown_callback` | the same without refused threads | violated: `gracefulShutdown` need not return |
| `follow_ups` | 11 kinds of callers, 2 urls of two origins, 2 redirects, bodies of 2 chunks with every fault, 2 call and 1 network interceptor | `OfferedIsWhole`, `ConnectionsComeBack`, `AuthorizationOnlyToItsOrigin`, `CacheRulesHold`, `BodyArrivesWhole`, `EveryInterceptorSees`, `HistoryIsTrue`, `CallEndsInTime` |
| `follow_ups_request_rewritten` | the same | violated: the caller's `Request` does not stay as it was built |
| `exchange` | 3 engines, 2 versions | `HeadersMatchBody`, `RemovedStaysRemoved`, `ReadersInv` |
| `decisions` | 13 requests, 26 answers, 4 instants, arithmetic of 7 bits | `DecisionIsExact`, `AgeIsWithinDelay`, `ServedRightly` (`ServedBeforeDeadline`, `NoCacheIsValidated`), `StaleIsMarked` |
| `database` | 2 clients, 2 keys, file of an older, the present or a newer version or none; 2 failures and 1 crash | `DatabaseInv` (`VersionHasTable`, `StatementsHaveADatabase`, `LeftOpenOnlyAfterTwoFailures`), `CursorInv`, refinement of `MetadataStore` (`StoreSpec`), `MutexIsReleased` |

Several invariants are conjunctions of parts that each have a comment of their own, and one
of the parts is the type invariant. Where the code does not keep a promise in some corner, the
property names that corner as its exception (`Suspect`, `Doubtful`, `excused`, `orphaned`,
`muddled`, `CallbackWaits`, `JoinCircle`, `DrainsForEver`), so that it still says that nothing else
breaks it.

### Bounds

*Pool and engines.* Two connections with a limit of one idle make an eviction take place on every second
release, and two routes make a reuse possible or not; the theorems hold for every number. Tasks outnumber the
connections so that a task already taken by the timer can coexist with the next task of the
same connection. For the engines two connections suffice, one that is passed from engine to engine and one that is
created beside it; three engines let a third one take the connection while a canceller of the
first still holds its copy. The timeout is 0 ticks there: a task may fire at any moment after it was
scheduled, which only adds behaviours. Engines are interchangeable, hence the symmetry set. Deadlock is not
checked: the specification of the pool may run out of identities, and engines end when their exchange does.

*File cache.* A small and a large body fill the cache together, two large ones do not fit, and a huge
one never does, so eviction and refusal happen. Two
streams make a first and a last reader. Two failures let the cleaning up after a
failure fail as well; without that bound `MixedOnlyAfterThreeFailures` is false: a row
that could not be deleted, then a crash after the new file was moved into place,
leaves the old metadata with the new body.

*Executor.* Four tasks on two threads with a queue of one are two running, one queued and one
inside `start()` that finds the queue full. The first two are also enough for the circle of `JoinCircle`. Deadlock is not
checked because all tasks may be done.

*Calls.* Two calls on one worker are one running and one queued, or one that is started by the other's
callback, with `cancel` and shutdown at every point; the two known ways of waiting for ever need no more. Deadlock
is not checked because all calls may be done.

*Follow-ups.* The faults of a body are an early end, a file that cannot be made or written, and chunks that never
end (`FaultKinds`); what follows the first two chunks of an endless body is not told apart, as it is never offered to the cache, and only a
body without another fault before is endless. Two chunks tell a partial body from an empty and a whole one. `MaxRetryCount` is 2 instead of 5: three
hops show a redirect to another origin and home again, and reuse both streams. Stored redirects lead only to
the two urls. Two interceptors make an order, and let the first proceed twice. The callers differ in cache, only-if-cached,
`Authorization`, validators, method and body; some have a `Request` that a call used before. Deadlock is not checked because a
call ends.

*Exchange.* Three engines are one that reads, one that revalidates and one that replaces or invalidates. Two versions tell
old from new. *Decisions.* 7 bits hold every sum of relative times without wrapping unless a term is
negative or near the largest number, as 64 bits do; Age at the largest number makes the age leave the `long long` one second
after it came, and with a min-fresh at the largest number the comparison wraps; `OneDaySec` is 1 so that an age beyond a day is reached
within the four instants. *Database.* Two clients compete for the mutex and share a session that was left open; two failures are a
statement and its rollback; an `IntMax` of 3 makes the range of `int` end close to the positions of a cursor over two rows.

### Fairness

`IdleExpires` assumes that time passes and that the timer thread runs
due tasks: weak fairness for the clock and for a task that runs, strong fairness
for taking a due task, because other due tasks may be taken before it
(`Poco::Util::Timer` serves its queue in the order of time, so none is overtaken for
ever). Nothing is assumed of the clients.

The liveness of the executor assumes that tasks end and that threads go on, that
POCO answers a `start()`, and strong fairness for taking
`m_queueMutex`: a thread that waits for it is not overtaken for ever. A loop that tries again is an
action that is not enabled yet, which is the same as an attempt every millisecond.
Failures of POCO are possible and never assumed to happen.

For the calls: exchanges end (sockets have a timeout), callbacks return, and threads and mutexes are served, of two
that wait neither being overtaken for ever (strong fairness for starting, taking from the queue and completing). The users
need not do anything. For a call with its streams: the executing thread goes on, and a read or a close that has begun goes on.
For the database: a thread inside a call goes on; its caller need not call again, nor finish its walk.

## Proofs

Eight modules prove theorems for every value of the constants. Each component's safety properties
follow from one inductive invariant, which is stated in its proof module as a conjunction of named
parts and was model-checked on the component's run before it was proved. One lemma per action (or per group of
actions that disturb the same parts) shows that the step preserves it; the theorem of the module that ends in
`Invariant` combines them, and the others derive the checked properties from it.

| theorem | states | of run |
|---|---|---|
| `ConnectionPool_proof`: `IdleConnectionsAreTimed`, `IdleCountIsBounded`, `InuseConnectionsStay` | `IdleIffTimed`, `IdleWithinLimit`, `InuseNotEvicted` | `pool` |
| `HttpEngine_proof`: `EngineIsSafe`, `CancelReachesTheWaiter`, `NothingIsStranded`, `EnginesAreClients` | `EngineInv`, `CancelNotLost`, `NoStrandedConnection`, `PoolSpec` | `engine` |
| `QueuedThreadPool_proof`: `ExecutorInvariant`, `TasksRunOnce`, `JoinLeavesNone` | `ExecutorInv`, `EachTaskOnce`, `JoinLeavesNoTask` | `executor` |
| `CallExecution_proof`: `CallsBackOnce`, `ShutdownIsComplete`, `CancelledCallsStop` | `CallbackOnce`, `ShutdownInv`, `CancelStopsExchanges` | `calls` |
| `HttpFileCache_proof`: `IndexIsRight`, `ReadersAreSafe`, `RowsHaveBodies`, `MixedOnlyAfterThree` | `IndexInv`, `ReadersInv`, `RowHasItsBody`, `MixedOnlyAfterThreeFailures` | `file_cache` |
| `CacheFrontEnd_proof`: `HeadersAreOfTheBody`, `RemovalsLast`, `ReadersAreSafe` | `HeadersMatchBody`, `RemovedStaysRemoved`, `ReadersInv` | `exchange` |
| `CacheFrontEnd_proof`: `DecisionsAreExact`, `AgesAreWithinDelay`, `WhatIsServedMayBe`, `StaleIsAlwaysMarked` | `DecisionIsExact`, `AgeIsWithinDelay`, `ServedRightly`, `StaleIsMarked` | `decisions` |
| `CacheDatabase_proof`: `DatabaseIsSound`, `CursorsKeepTheirPlace`, `DatabaseIsAStore` | `DatabaseInv`, `CursorInv`, `StoreSpec` | `database` |
| `FollowUps_proof`: `BodiesAreOfferedWhole`, `ConnectionsAreFree`, `CredentialsStayHome`, `RulesAreKept`, `BodiesArrive`, `InterceptorsSee`, `ResponsesTellTheTruth` | `OfferedIsWhole`, `ConnectionsComeBack`, `AuthorizationOnlyToItsOrigin`, `CacheRulesHold`, `BodyArrivesWhole`, `EveryInterceptorSees`, `HistoryIsTrue` | `follow_ups` |

The assumptions are those of the modules (`PoolAssumption`, `EngineAssumption`, ...), which TLC evaluates in the
runs. Most say that the null values are no members of the sets they stand beside. The others are: the set is finite
where its members are counted (idle connections, threads, streams, engines, keys); sizes and limits are natural
numbers; `RowsAssumption`, that the number of rows in the table is an `int`, because `SqliteCursor::move` casts
a position to one; and for the strategy that every number a header or a user gives is a `long long` and every date
fits one (`RequestsAssumption`, `AnswersAssumption`: any Age that fits a `long long`, and dates from the epoch to the same
bound, true or false), and that the clock stays below `LLONG_MAX` and the process runs less than
a third of that many seconds (`RangeAssumption`: at 2^63 that is 97 billion years).

### The arguments

*Pool.* `PoolInv`: types; a pooled connection is idle exactly if it maps to a task; that task is still with
the timer; two pooled connections never share a task; and the idle limit. The uniqueness of tasks is
what makes expiry and eviction touch one connection only, and it needs in turn
that a task the pool refers to is not free, so that `releaseConnection` cannot be
handed it again. The idle limit is preserved because one call makes at most one
connection idle and evicts one when that is one too many (`EvictOne`).

*Engines.* None of the properties is inductive; all follow from who owns a connection.
`ExchangeInv` says which pointers an engine has at each place (`Pointers`), that `lconn` of two engines never names the
same connection (`OneOwner`), that the listener of a connection is its owner (`ListenerIsOwner`), that
every connection in use has one (`InuseIsOwned`), and that what `cancel()` has passed is visible to the engine it is for
(`CancelReached`). `EnginesAreClients` shows that each step of an engine is a call of the general client of
`ConnectionPool` with a connection that is held, or changes nothing there. The theorems about the pool therefore hold for
it with any number of engines.

*Executor.* `NoStrandedTask` is not inductive alone: `start()` queues a task when the counter is positive, and
that this means a worker is `ActiveIsBusy`. `TypeOK` in turn needs it where the counter is decremented, which is
why the unsigned counter never wraps. `TasksRunOnce` needs to know where each task is: in the queue, with the thread that
starts it, or with one worker (a task in the queue comes once there). `JoinLeavesNone` follows from the
invariant at the step that ends the join: all threads are idle, so no worker is active, and a task in the queue would have one.

*Calls.* `CallInv` ties the flags of each call to the place of its thread (`CallState`), and adds what `gracefulShutdown`
relies on: every unfinished task is in the manager's list (`TasksAreKnown`), and after `Terminate` in the copy of the list
that is cancelled and joined.

*File cache.* The properties speak of the cache between operations or of single variables; `CacheInv`
follows the operation that holds the mutex: what is still to be removed (`Pending`), where the key that `put` stores stands
at each stage (`Stages`), and what holds as long as no step has failed (`FaultFree`) or nothing was corrupted
(`AccidentFree`). The total size is a sum over the set of keys. The model counts it byte by byte, as the
cardinality of a set of pairs (key, byte), so that the theorems of `FiniteSetTheorems` apply and no
induction is needed. What `makeSpace` removes begins at the last place of the list from which the unused entries make enough room (`Max(Cuts(size))`),
which exists because the places are finite in number (the set form of well-foundedness).

*Exchange.* `ExchangeInv` follows every engine from its first look at the entry: as long as nobody replaced it
(`raced`), what the engine read is still what the body file is of. `RemovedStaysRemoved`
needs that too: an engine whose entry was not replaced writes back the `epoch` the entry has. `RemovalsOrdered` (each removal belongs to a
request that moved the server to a new version) bounds the count of removals for the types.

*Decisions.* `StrategyInv` says of the entry, and of the copy a call under way has of it, what types its headers have (`KeptTypes`), that
they are those the server has said unless a line was lost (`KeptOfSaid`), and, until the clock is set back and if every Date and Age was true
(`honest`), that the age it had when the answer came lies between the time the answer took through other caches and the time since it was made (`KeptInTime`). A validation keeps the lower
bound whatever it leaves of the old headers, and the upper one unless a Date or Age is left over. The rest is about one moment: if the age still fits a `long long` (its signed sum is
otherwise undefined, and wraps), with the bounds on clocks and numbers no sum reaches the modulus (`UnsignedIsExact`, `TermsAreExact`), so the comparison is one of integers, and solved for the time
of the request it gives the deadline (`FreshIsBeforeDeadline`), whether freshness comes from max-age, Expires or Last-Modified. The exceptions are those the
properties name; nothing is assumed about the number of validations, or about the order of requests and answers.

*Database.* There is one session for all clients, and its transaction flag may disagree with the transaction SQLite has
open. `Inv` says that one client at a time is inside the database (`Exclusion`: by `m_mutex`, or because
`list`, `walk` and `discard` have the other clients idle) and what that client finds at each place (`Sees`): between `begin` and `commit` the
session shows the file and then the effect of the call on it. Between calls a session that is still
open has a transaction, and an active one needs two failures in one call (`Undone`). `DatabaseIsAStore` is the step refinement with that
invariant: a read takes effect at its query, a change at its commit, `discard` when the file is deleted; a failed
rollback is `Degrade`. Every other step changes nothing of `MetadataStore`. For the cursor, `StepsFromFirst`
is a recursive function; `StepsArrive` shows where it ends by taking the smallest number of steps for which it would end elsewhere
(`LeastNumber`), and `Wrapping` that a sum of two `int`s that leaves the range comes back at a negative position or beyond
the last row.

*Whole call.* `FollowUpsInv` follows one call through all its hops, and each part of it needs the ones before.

- `Streams` (`Copied`) relates what was taken from the connection, what the reader and `close()` have in hand and what the temporary
  file holds. While the copy keeps up the file is `1..n` in order; a reader that `close()` overtakes can leave one chunk out or add it late,
  so that the order is claimed only if the length is that of what was taken, or one less with the overtaken reader still to write.
  `OfferedIsWhole` compares lengths as the code does, and that is why it holds.
- `Chains`: the links on the stack of an interceptor chain are the numbers of the interceptors in order as long as none proceeded twice, `at` is
  one beyond the top while the chain goes in, and the phase says who has control. Nothing else tells whether a network interceptor
  runs before or after the reply, on which all further parts depend (`BeforeReply`, `AfterReply`).
- `Slots`: of the two streams, `Mine` belongs to the running engine and `Other` to the response it follows. With a cache `Other` is closed
  because a redirect's body is drained or closed before the next hop. Only a response in the caller's hands or the draining engine has a reader.
- `RequestsInv` and `ResponseState`: whose headers each request has, that a follow-up exists after the first hop, that a request carries
  Authorization only to the origin of the caller's (`Trusted`) and keeps its only-if-cached (`SameRules`). `Trusted` is inductive
  because a redirect removes the header when it leaves the origin, and nothing adds it again on the way back.
- `AsGiven`: at the first hop the request that is sent is the caller's own unless a stored response is validated, so
  that only the candidate's validator can bring a 304. `WholeBody` says the same of the body: a fresh one is not yet read at the first hop when it
  is sent, or was reset.
- `History`, proved on top of these: at each place the response to be followed, or the prior one, tells a true story of as many hops as there
  were (`Told`: a function that gives the responses back to the first). `EarlierIs` shows that the recursive function `Earlier` finds these, by
  the smallest index at which it would not (`LeastNumber`). Bodies are dropped on the way (`StripBody`), which changes nothing of what is told.

The assumptions on the constants are `FollowUpsAssumption` (the numbers of hops and interceptors are natural, the null urls no urls, and two
slots suffice for the streams, since a hop reuses the slot of the last but one) and `CallersAssumption`, the requests that the builder makes.

### What stays with TLC

* Liveness under fairness (`IdleExpires`, `ExecutorGoesOn`, `CallsEnd`, `CallEndsInTime`, `MutexIsReleased`).
* What a recursive definition computes for every input, where no smallest counterexample can be named.

## Findings

Disagreements of code and comments that a run shows:

* `HttpEngine::cancel` (src/src/HttpEngine.cpp:535-554) shuts down a copied connection
  after unlocking, while the comment in src/src/ConnectionInternal.cpp:178-180 claims that
  such a connection has no keep-alive task. `engine_cancel_race` shows the
  interleaving. The consequence is bounded: `InuseNotEvicted` and `SoleUser` still
  hold, but another request that reused the connection may be shut down by a
  cancel that was not meant for it.
* `HttpExecutionTaskManager::gracefulShutdown` joins the workers with its mutex held
  (src/src/HttpExecutionTaskManager.cpp:106), which a callback that calls `executeAsync` needs:
  `calls_shutdown_callback`. In the run `calls` this and the wait for a refused task
  (`RefusedAwaited`) are the only two ways in which it does not return.
* A `Request::Builder` made from a `Request` shares its headers (src/src/Request.cpp:115), so the validator
  that src/src/HttpCacheStrategy.cpp:171-174 adds for a stored response is written into the caller's own
  `Request`: `follow_ups_request_rewritten`. A later call with it passes the cache by and may be answered with a 304.

Named as exceptions in properties that hold otherwise, or met while modelling:

* `QueuedThreadPool::shutdownAndJoinAll` (src/src/executorservice/QueuedThreadPool.cpp:134-153)
  can block for ever with a `start()` that tested `m_terminated` before (`JoinCircle`).
  Inside the library `HttpExecutionTaskManager` calls both under a mutex of its
  own, so this needs another user of the executor, which is a public class.
* `HttpFileCache::put` continues after it found the database corrupt, without having made
  space (src/src/HttpFileCache.cpp:247-249). A body larger than the limit then reaches
  the update at line 287, which the index refuses although the comment there says that it never fails; row and file stay
  on disk outside the accounting. Later initialisations refuse the row as well, so it is never served.
* A body without Content-Length whose connection ends early, a temporary file that could be made only at a later
  read, and a reader overtaken by `close()` between taking a chunk and writing it, put an incomplete body into the
  cache (`Suspect`).
* Cancelling or closing a partly read response still stores it when the rest could be skipped, contrary to the
  comment at src/src/HttpRequestExecutor.cpp:67-68.
* A request body stream that fails without reaching its end is read for ever (src/src/RequestBodyUtil.cpp:38; the phase *endless*).
* An interceptor that proceeds twice passes the ones behind it by, and may step beyond the end of the list when it proceeds again.
* Requests with `only-if-cached` and `Authorization` or a condition of their own go to the network.
* The validator of a stored redirect travels on to the next request, whose 304 then reaches the caller.
* `max-stale` without a value counts as absent; an `Expires` that is no date counts as absent instead of expired; negative
  arguments become the largest unsigned number; of several `Cache-Control` lines the database keeps one (`Doubtful`).
* An `Age` near `LLONG_MAX`, which any 64-bit number may be (src/src/HttpCacheStrategy.cpp:47-56), overflows the signed sum of
  line 217, and the cast makes it an age that together with a large min-fresh wraps at line 115: a stale response is then served
  without a warning. `DecisionIsExact` is stated for an age that fits a `long long`.
* With a cache, the body of a redirect is read to its end without a limit of time (src/src/HttpEngine.cpp:579-581), so that a body that
  never ends keeps the call (`DrainsForEver`); `close()` has such a limit.
* A relative `Location` is not followed, and one that is no URI escapes as an exception of POCO (`RetryThrows`).
* A rollback that fails leaves the transaction open for the next call (`degraded`).
* `Future.h:24` says that cancelling fails when the task has completed; `FutureTask::cancel` succeeds and turns the result into a
  `FutureCancellationException`.

## Plan

Done: every module above with its runs, and every invariant that a passing run checks as a theorem. What is left to TLC is liveness.

## Not modelled

* Network interceptors that make up a response of their own without proceeding, and `HEAD` requests.
* A future's timed `get`, and scheduled futures, which the library itself does not use.
* `setAutoVacuum` of a new database file, whose failure `SqliteOpenHelper` swallows (src/src/db/SqliteOpenHelper.cpp:149-158): it decides how much
  of the disk a database takes.
* TLS and proxies, which only change how a session is made; the destructor of the connection pool.
* The configuration classes (`EasyHttp::Builder`, `EasyHttpContext`), `SqliteQueryBuilder`, `ContentValues`, `MediaType`, `Proxy`,
  conversions of a body to a string, `ByteArrayBuffer`, digests, string helpers and logging: they convert or carry data, wrap one library
  call, and hold no state that another part depends on.
* A cache directory that cannot be created, an evicted file that cannot be deleted while open (Windows), and
  `updateLastAccessedSec` inside the file cache, whose result the code ignores (it is an operation of `CacheDatabase`).
