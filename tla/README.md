# Claude Gate in TLA+

Claude Gate is a reverse proxy: clients present a *gate token*, the proxy replaces
it by one of a pool of *real tokens* and forwards the request upstream. This
directory holds TLA+ models of its state-changing core, configurations that check
them with TLC, and proofs that the TLA+ proof system TLAPS checks. Every module is
written from the Go source; `PROJECT.json` maps each definition to the lines it
stands for.

    tlc -config TokenPool.cfg TokenPool        # check a model
    tlapm TokenPoolProofs.tla                  # check the proofs

## The system

| Component | State | Operations | Talks to |
|---|---|---|---|
| Store (`internal/store`) | SQLite tables `real_tokens`, `gate_tokens`, `sticky_sessions`, `usage_logs`; one write connection, four read connections | single statements; transactions for deletion (with its cascade) and for usage batches | everybody |
| Token pool (`token/pool.go`) | cached list of usable real tokens, round-robin counter | `Refresh`, `Select`, `GetByID` | store |
| Manager (`token/manager.go`) | debounce timer | `ResolveToken`, `RecordFailure`, `RefreshPool` | pool, sticky manager, store |
| Sticky manager (`token/sticky.go`) | cache gate token -> real token | `Resolve`, `Bind`, cleanup loop | store |
| Proxy handler (`proxy/proxy.go`) | drop counter | `ServeHTTP`, `ModifyResponse`, `ErrorHandler`, `sendUsage` | manager, store, usage channel |
| SSE tap (`proxy/tap.go`) | partial line, counts, completion callback | `Read`, `Close` | proxy handler |
| Usage writer (`proxy/usage_writer.go`) | batch, retry batch, retry counter | `Run`, `drain`, `flush` | usage channel, store |
| Admin API (`internal/admin`) | none | create, activate, deactivate, delete, list tokens; usage | store; calls `RefreshPool` after it changed a real token; asks the web UI about sessions |
| Web UI (`web`) | session cache | login, logout, pages | store, admin API |
| Migrations (`store.go`) | table `schema_migrations` | `migrate` at every start | the database file, other processes that start on it |
| `main.go` | where the process is | start, signal, shutdown | all |
| Replication (`entrypoint.sh`) | a copy of the file | restore, replicate | the database file |
| Config, logging | none | | all |

What is hard about it:

- **Several goroutines, no transaction around them.** `RecordFailure` is three
  statements and a call; the admin handlers write first and notify afterwards; the
  refresh reads first and installs afterwards; `ResolveToken` looks up, selects and
  binds. Anything can happen in between.
- **Copies of the database.** The pool and the sticky cache may disagree with the
  tables, and have to catch up.
- **Contexts end.** Some time after a client has left, the context that `RecordFailure`
  runs on ends; the signal cancels the writer's context while it has entries to write.
- **Batches and retries.** A batch fails as a whole and is retried with what came
  since.
- **Time.** The debounce, the two expiry times of a binding, the cleanup, the sliding
  expiry of sessions, the timeout of the shutdown.
- **Revocation.** Administrators change and delete gate tokens, and reuse their
  strings, while requests that present them are under way.
- **Two processes on one file.** A new process migrates while the old one serves or
  migrates too; either may die, and the file may be replaced by an older copy.

What makes each component correct:

- *Pool and failures*: a token that reached the threshold is deactivated; the pool
  catches up with the table after every change.
- *Routing*: a binding holds until it expires or its token leaves the pool, over
  restarts too; cache and table agree; selections are even.
- *Tap*: the reported counts do not depend on how the stream is cut, and are
  reported once.
- *Usage pipeline*: no report is recorded twice or out of order; totals agree with
  the log; memory is bounded; nothing waits for ever.
- *Proxy handler*: a request acts only for a token that was valid while it ran; its
  usage is reported once, or not at all when there is none; a failure is reported
  once, and not counted for a client that leaves after its request was sent; a request
  that was sent ends when its client has left.
- *Administration*: the secret and live sessions are let through, nothing else is.
- *Start and stop*: the schema agrees with its record; nobody serves without the
  migrations of its release; the store is closed after its users; every phase ends.

## Modules

| Module | Models | Kind |
|---|---|---|
| `RealTokenStore` | the statements on `real_tokens` | operators on a table |
| `TokenPool` | pool, manager's failure handling, debounced refresh, admin writes | state machine, extends `RealTokenStore` |
| `TokenPoolProofs` | | theorems about `TokenPool` |
| `TokenRouting`, `MCTokenRouting` | `ResolveToken`, sticky sessions, round robin | state machine and its instances |
| `TokenRoutingProofs` | | theorems about `TokenRouting` |
| `SSETap` | the tapping reader | state machine over all short answers |
| `SSETapLemmas` | | lemmas on the scan of a chunk and on the form of an answer |
| `SSETapProofs` | | theorems about `SSETap` |
| `UsageLedger` | what the usage pipeline promises | abstract specification |
| `UsagePipeline` | channel, writer, tables | state machine, implements `UsageLedger` |
| `UsagePipelineProofs` | | theorems about `UsagePipeline` |
| `UsageRefinement` | | the proof that `UsagePipeline` implements `UsageLedger`; the order of the rows |
| `GateTokenStore` | the statements on `gate_tokens` | operators on a table |
| `ProxyHandler` | `ServeHTTP`, `ModifyResponse`, `ErrorHandler`, the copy of the body | actions of a request, extends `GateTokenStore` |
| `AdminPlane` | `AdminAuth`, the gate token handlers, sessions | actions of administrators, extends `GateTokenStore` |
| `Gate` | both on one table, restarts | state machine, composes `ProxyHandler` and `AdminPlane` |
| `GateProofs` | | theorems about `Gate` |
| `Lifecycle` | `main`, `migrate`, replication | state machine |
| `LifecycleProofs` | | theorems about `Lifecycle` |

Definitions named `...OffByOne`, `...Silently` and the like, with a comment that
begins with *Mutant*, are faulty variants of the definition after them. No
specification uses them: they serve to confirm that each property notices such a
fault.

### TokenPool

A proxied request (`pc`, `using`) takes any token of the pool, since which one is
the matter of `TokenRouting`, and after a failure goes through `RecordFailure`
(manager.go:102-122) one statement at a time: `IncrementFailure`, `CheckFailures`,
`Deactivate`, `RequestRefresh`. `TokenGone` is `sql.ErrNoRows`; `CancelReport` is
any other error, such as the end of the request's context. An admin handler is
`Create`, `SetActive` or `Delete` and then `NotifyPool`. `refreshTimer` is the time
left until the callback of `time.AfterFunc` runs; `TimerFires`, `ListTokens` and
`SwapPool` are its parts. How many callbacks can run at once is the parameter
`Refreshers`: nothing in the code prevents a second one, but it takes a query
longer than the debounce, so the properties are stated for one and the effect of
two is shown separately. Ids are random and never reused, hence "unissued", "live",
"deleted". `failure_count` stops at the threshold, because it is only compared with
it and reset.

`interrupted` is a history variable: the tokens at the threshold whose report was
cut short, which no code will deactivate. `overtaken` is another: the reports that
had passed their check when an administrator activated their token (`Past`).

### TokenRouting

A request walks through `Resolve` (cache, table, cache again), `GetByID`, `Select`
and `Bind` (table, cache). `cache` has the touch-on-hit expiry of the ttlcache
library, which the code relies on by default; `table` keeps its own. Times are what
is left until expiry, counted down by `Tick`, so the clock is unbounded. `Select`
reads the slice first and draws the counter second, as the code does after it gave
up the lock. `bound` (history) is the promise: from the end of `Bind` until the
expiry it stored, the deletion of a token, a pool without the token, or a failed
read of the table. `picks` (history) holds the latest selections from one slice.
The pool takes any set of tokens at a refresh: why it has them is the matter of
`TokenPool`, and the listing may be older than a deletion.

### SSETap

An answer is a sequence of symbols: line ends, the prefixes `data: ` and `event: `,
and payloads. A payload is known by the event's type, the event names that occur
anywhere in its text (that is what `bytes.Contains` sees), one count and whether it
is valid JSON. The initial states are all answers of up to `MaxLines` lines, with
and without the last line end, and `Read` cuts them anywhere, with an end of file
or another error alone or together with the last symbols. `ScanLines` is the loop of
`scan` as a recursive function: the counts after each symbol of the chunk, which change
at a line end, by the line before it (`LineUpTo`).

### UsagePipeline and UsageLedger

`SendUsage` is the non-blocking send. The writer's `select` is `Receive`, `Tick`
and `NoticeDone`; `flush` is `InsertSucceeds`, followed by one `UpdateTotal` per
token and `FlushDone`, or `KeepForRetry`, or `DiscardBatch`. The insert is one
transaction: it fails on a cancelled context, when an entry names a deleted token
(foreign keys are on), or when the database fails. `DeleteToken` takes the token's
rows with it. A report may name tokens that were deleted while its request ran
(`usable`). After `Shutdown` the loop ends by `Drain`, `DrainDone` and a last flush.

`UsageLedger` says what this amounts to: a queue, from whose front a batch is
recorded as a whole or thrown away after `MaxRetries` failed attempts in a row.
`Pending` is the refinement mapping: retry batch, batch, channel.

### ProxyHandler, AdminPlane and Gate

A request is a record: where it is in `ServeHTTP` and `ReverseProxy` (`pc`), what it
read, what upstream answered, what the client got. An answer is known by the branch
of `ModifyResponse` it takes: content type and class of status. `Authenticate` is the
query with the check of `is_active`; `ResolveToken` stands for the walk modelled in
`TokenRouting`; `RecordFailure` returns what the call can do on the request's context:
nothing once that has ended. A client that leaves (`ClientLeaves`) does not end it by
itself: `ContextEnds` is a later step, in which net/http sees that the client has left,
or that the rest of the request does not come within `ReadTimeout`. `sent` says that the
request has been read to its end and sent on (`RequestSent`), before or after upstream
has answered; only from then on does net/http watch the connection. `NoAnswerComes` and
`ReadBodyFails` lead to `ErrorHandler`, as `ReverseProxy` has it for a failed round trip
and for an error of `ModifyResponse`. `Culprits` says who can be the cause: upstream at
any time; the client while its request is being sent, since an upload that stops or is
malformed and an Upgrade header that is not passed on fail the exchange with the context
still open; and the client through the end of the context. A body that breaks off during
the copy (`CopyBreaks`), through upstream or through a client that cannot be written to,
ends the handler without `ErrorHandler`. A stream
read to its end is reported by its tap, whether the last bytes reach the client
(`CopyEnds`) or not (`LastWriteFails`). `charged`, `failure`, `fault` and `entitled`
are history: the reports made, who has failed the exchange, and the tokens that were
active under the client's string at some time since it arrived.

An admin request is authorized by the secret or by a session; `Get` is the lookup
that renews what it finds, in `AdminAuth` and in the pages alike. `login` and `idle`
are the history of a session, kept apart from the cache so that `SessionsHonoured`
does not refer to it. A random session value is drawn once. Ids of gate tokens are
drawn once too, but their strings can be chosen, so a string can come back under
another id. `Gate` puts the two sides on one table: neither locks anything, so every
statement of one may come between two of the other.

### Lifecycle

A process goes through `main()` from `Start` to `CloseStore`; `Exit` is the end of a
process however it comes (`log.Fatalf`, an error of the start, a crash, the last
deferred call) and rolls its transaction back. `migrate` is `ReadApplied`, then per
version `ExecMigration`, `RecordMigration`, `Commit`. `tx` is SQLite's write lock: the
first statement of a migration writes, so the transaction has the lock from then on,
and others wait up to the busy timeout or fail (`MigrationFails`). What a version
creates is reduced to how often it took effect, and to the one thing existing rows
can prevent: the unique index over access tokens, which fails while two rows share
one (`duplicates`). The processes may be of different releases; release *n* knows the
first *n* versions. `replica` is a copy of the file that lags behind; a new container
starts from it.

## Runs

| Run | Instance | Result |
|---|---|---|
| `TokenPool` | 2 tokens, threshold 2, 2 requests, 1 admin, 1 callback, debounce 2, all faults | holds (1 100 000 states) |
| `TokenPoolStarvation` | 1 token, threshold 1, 1 client | `PoolConverges` violated |
| `TokenPoolOverlap` | 1 token, threshold 1, 2 callbacks | `RefreshedAfterward` violated |
| `TokenRouting` | 2 gate tokens with a client each, 2 real tokens, TTL 2, 1 deletion, all faults | holds (2 500 000 states, up to symmetry) |
| `TokenRoutingConcurrent` | 1 gate token, 2 requests, no fault | `StickyAffinity` violated |
| `SSETap` | all answers of up to 3 lines, 2 counts | holds (79 000 states) |
| `SSETapText` | all answers of up to 2 lines | `TextDoesNotMatter` violated |
| `UsagePipeline` | 1 gate, 2 real tokens, 3 reports, channel 2, batch 2, 2 retries, all faults | holds (190 000 states) |
| `UsageShutdown` | the same with 1 retry, no fault | `ShutdownDrains` violated |
| `UsagePoisonBatch` | the same with 1 retry, no fault | `NoCollateralLoss` violated |
| `Gate` | 2 gate tokens, 2 strings, 1 request, 1 admin, 1 session, TTL 2, all faults | holds (1 940 000 states) |
| `Lifecycle` | 2 processes, 3 versions, the second one unique, 1 request each | holds (40 000 states) |

What holds:

- `PoolCoherent`: a pool entry that disagrees with its row has a refresh coming, a
  writer that has not finished, a callback holding the right rows, or an error to
  explain it. `PoolSettles` is the liveness side: once nothing re-arms the timer,
  the pool equals the table for good, errors aside.
- `ThresholdEnforced`, `DeactivationDue`: concurrent reports do not step over the
  threshold, and none deactivates a token below it, unless the token was activated
  between the report's check and its deactivation.
- `StickyAffinity`, `CacheAgrees`: with one request of a gate token at a time, the
  binding survives expiry, cleanup, failing statements, deletions and restarts.
- `EvenTurns`: a round of selections from one slice has no token twice, whoever
  makes them, except across the turn of the counter.
- `ChunksDoNotMatter`, `ReportedOnce`: see above.
- `ImplementsLedger`, `TotalsAgree`, `BufferBound`, `EntriesSettle`: see above.
- `TotalsCoverLogs`: the totals of a token and its rows in `usage_logs`, which different
  statements write and different pages show, agree; rows that went with the other token
  they name, failed updates and the flush in progress are all that can lie between them.
- `RecordedInOrder`: entries kept for a retry are inserted with newer ones, neither
  twice nor after them.
- `RevocationHolds`: a token that was revoked before a request arrived does not serve
  it, nor does the next owner of its string pay for it; one revoked after the
  authentication still serves the request in progress, since it is not looked at again.
- `Accounted`: one report of usage at most, for the token that was authenticated; always
  before the end of an answer that has usage and was read to its end, even when its last
  bytes cannot be written; none for a stream that was cut before (the JSON answer is the
  exception: it was read whole before the client has any of it).
- `FailuresDeserved`: a failure is reported at most once, exactly when upstream answered
  5xx or `ErrorHandler` ran. What counts against the real token is upstream's doing, or
  the client's while its request was still being sent, which the code cannot tell from
  it; a client that leaves later ends in `ErrorHandler` too but is not counted, because
  the context its report runs on has ended. A body that upstream breaks off while it is
  copied is a failure of upstream that is never reported.
- `SessionsHonoured`: `AdminAuth` grants exactly the secret and the live sessions.
- `LeavingEnds`: once it has been sent and its client has left, a request ends, although
  nothing limits the time of an answer. Of a request that upstream does not take in, the
  body is not read, so nobody sees that its client has left.
- `SchemaConsistent`, `ServesMigrated`: two starts that both have read "nothing applied"
  do not apply a version twice, because its record is a primary key in the same
  transaction; the loser of the race exits.
- `CloseAfterUsers`, `PhasesEnd`: the deferred calls wait for what they have to, and no
  phase but service lasts.

What does not hold is listed under `findings`, each with the sentence of the
repository it contradicts: the refresh that is postponed for ever by failures less
than 100 ms apart; the older of two overlapping refreshes that is installed last;
two first requests of a gate token that bind different real tokens (`CacheAgrees`
fails in that instance as well); event names inside generated text that reset a
count; the last flush that runs on a cancelled context; the entry of a deleted token
that takes its batch with it.

### Bounds

Two tokens are enough for one to be affected by what is done about the other; two
requests for concurrent reports; threshold 2 for a count that has been started and
is not complete; debounce 2 for a timer that is re-armed half-way. Routing needs two
real tokens for a wrong one, two gate tokens for one to move the other's turn, TTL 2
for a binding that is half used up; `MaxDeletions` bounds the administrator: one
deletion is enough to leave a cache entry, a pool member or a write in progress
without its row. The counter turns at 3, which
like 2^64 and a pool of three is no multiple of the pool. Three lines are a count,
something that changes it, and a text. Three reports are one more than a batch and
than the channel; `MaxEntries` bounds the requests that report. Units of usage are
all 1. In `Gate` one request is enough, because requests share nothing but the table,
which they only read; two ids and two strings let a string change hands; one
administrator, because a handler is one statement; TTL 2 lets a session be renewed
half-way. In `Lifecycle` two processes race and three releases let either be the older
one; a row of `schema_migrations` before and one after the unique index.
`MaxHandlers` bounds the requests of a process, of which only their existence matters.

`SYMMETRY` in `TokenRouting` exchanges the two clients together with their gate
tokens; the properties checked there are invariants and an action property, for
which this is sound. Deadlock is checked except where the system may come to rest: a
stream that ends, a process that stops, and instances without crashes in which every
id has been used.

### Fairness

`TokenPool` assumes weak fairness of the clock, of timer callbacks, of a report that
has begun and of a handler that has written its row: these are running goroutines
whose next step waits for nobody. Nothing is assumed of clients, administrators or
upstream. `UsagePipeline` assumes weak fairness of the writer and strong fairness of
`Receive` and `Tick`: Go's `select` picks among ready cases at random, so a case that
is ready again and again is taken. `Gate` assumes weak fairness of a handler's next
step, except where it waits for upstream or for the client: a goroutine that is blocked
on a connection whose context has ended is woken by it. It also assumes it of
`ContextEnds`, for a request that was sent and whose client has left: net/http has a
read under way on that connection, without a deadline. `Lifecycle`
assumes it of `migrate`, of the start and of the end of `main()`, not of requests,
signals or operators; the cleanup goroutine waits in a `select` with `ctx.Done()`, and
SQLite's lock is waited for no longer than the busy timeout. The other specifications have safety properties
only. `PoolConverges` is refuted under the same fairness.

## Proofs

`TokenPoolProofs` proves, for all tokens, requests, administrators, callbacks and all
values of the numbers:

- `TypeCorrect`: `Spec => []TypeOK`.
- `ThresholdIsEnforced`: `Spec => []ThresholdEnforced`, assuming `MaxFailures > 0`
  (a new row is at a threshold of zero without any report).
- `CoherentUnlessOverlap`: `Spec /\ []OneSnapshot => []PoolCoherent`, for any number of
  callbacks of the timer. `OneSnapshot` says that none reads the table while another
  holds what it read and has not installed it; callbacks may well start one before the
  other has ended. The property is not inductive. `Coherent(t)` adds what a stale or
  changing row needs: a source of the next refresh (`Owed`), or else a pool, or a
  snapshot that is about to become the pool, that agrees with the row (`Incoming`).
  Every write to the row of `t` leaves a source behind (a report on its way to
  `RequestRefresh`, a handler before `NotifyPool`), every source ends in another one
  or in a snapshot taken after the write, and a snapshot stays right as long as the
  row does. With a second snapshot the last step fails, as the run `TokenPoolOverlap`
  shows. `Holding` says a request that is reporting holds a token.
- `RefreshedUnlessOverlap`: `Spec /\ []OneSnapshot => []RefreshedAfterward`. The
  sentence of the comment which that run refutes is true whenever snapshots do not
  overlap: nothing else can leave a wrong pool behind.
- `PoolIsCoherent`: hence `Spec => []PoolCoherent`, assuming a single callback, as in
  the run.
- `DeactivationIsDue`: `Spec => DeactivationDue`. `Due` says that a report past its
  check holds a token at the threshold, unless `overtaken`. What could lower the count
  meanwhile is an activation, which puts the report into `overtaken`, or the end of the
  row, after which `Deactivate` has no row to work on.

`GateProofs` proves, for any number of requests, administrators, sessions and tokens:
`TypeCorrect`, `RevocationIsHeld`, `UsageIsAccounted`, `FailuresAreDeserved` and
`SessionsAreHonoured`. The invariant has two independent halves. `Sound(q)` says of one
request what the place it is at implies: `Course` for the answer and the result,
`Reported` for the usage, `Blamed` for the failure, `Entitled` for the token. `Blamed`
has to know more than `FailuresDeserved` says: a 5xx answer is upstream's doing, so what
was counted while the request was still being sent remains deserved when it has been
sent; and in `ErrorHandler` it was upstream, or the client, whose request is not sent or
whose context has ended (`CulpritKnown`, `TransferSound`). A step of
one request leaves the others alone (`OneRequest`), and a change of the table is seen
by the requests that wait for their authentication only (`ChangeSound`).
`SessionsSound` says that the cache holds for each session exactly what its history
entitles it to.

`LifecycleProofs` proves, for any number of processes, versions and requests:
`TypeCorrect`, `SchemaIsConsistent`, `MigratedBeforeServing` and `StoreClosedLast`. The
schema's consistency is not inductive: it needs `Owned` (the open transaction belongs
to the process between its statements), `Known` (what a process takes for applied is
on record) and `Ordered` (the version in the transaction is the one after those on
record, can be executed and, when it is about to be committed, is not on record), of
which the last holds because nobody else can write while the transaction is open.

`UsagePipelineProofs` proves for all sizes:

- `TypeCorrect`: `Spec => []TypeOK`.
- `BuffersAreBounded`: `Spec => []BufferBound`. The invariant `Bounded` ties each
  buffer to the place the writer is at: the batch is short of its limit while the
  writer selects, and the retry batch never exceeds `retryCount` batches, so a failed
  flush adds at most one batch and one to the counter.
- `TotalsAreAgreed`: `Spec => []TotalsAgree`. `Balanced` adds that what a token's
  totals lack while a flush updates them (`Outstanding`) is its share of the batch that
  was inserted, and that nothing is due at any other place. `HealthyTotalsAreExact`
  follows: without faults nothing is missed until the process is told to stop.
- `TotalsCoverTheLogs`: `Spec => []TotalsCoverLogs`. `Logged` compares a token's rows
  with the units inserted for it: a batch adds as many rows that name the token as it
  holds units for it (`RowsCounted`, by a bijection), under ids that no row has yet
  (`LoggedUnitsAdd`), and a deletion only takes rows away. `TotalsAgree` does the rest.
- `RetriesAreOfDeleted`, `LossesAreOfDeleted`: when no statement fails by itself
  (`"store" \notin Faults`), a running process delays entries (`RetriesAwaitDeleted`) and
  loses them (`LossesAreDeletions`) for one reason only, the deletion of a token it
  started with. `InUse` says that whatever waits in the channel and the buffers names
  tokens this process started with, so a foreign key that fails has been deleted since
  (`FailureNeedsDeletion`). The run `UsagePoisonBatch` shows that the lost entries need
  not be those of the deleted token; the theorems, that there is always such a one
  among them.

`UsageRefinement` proves for all sizes:

- `PipelineImplementsLedger`: `Spec => ImplementsLedger`. Each action of the pipeline
  is shown to be a step of the ledger or to leave the queue `Pending` as it is:
  `SendUsage` appends, a full channel loses the report, `InsertSucceeds`, `DiscardBatch`
  and `Restart` take entries off, and what only moves between channel, batch and retry
  batch stutters (`MoveKeepsOrder`). Besides the types it needs `FlushHasBatch`: a
  flush has something to insert, as the ledger records no empty batch.
- `EachRecordedOnce`: `Spec => []RecordedInOrder`. `Queued` adds that what waits is in
  the order of the reports, and later than everything that has a row; `QueueMoves` says
  how a step changes the queue.
- `StoppedHoldsLastBatch`: when the writer has stopped, its context is cancelled and the
  new entries are flushed; `ShutdownDrains`, which the run `UsageShutdown` refutes, holds
  exactly when the retry counter is zero. `Attempts` says that the counter tells whether
  anything waits.
- `DrainRecordsNothing`: the flush after the drain never inserts anything, whatever the
  size of what was drained and however well the database does: the drain starts only when
  the context is cancelled, and stays so until the process ends.

`TokenRoutingProofs` proves, for any number of tokens and requests, any sticky period
and any turn of the counter:

- `TypeCorrect`: `Spec => []TypeOK`; `Typed` adds that a request has a token where it
  uses one and draws from a slice that is not empty.
- `TurnsAreEven`: `Spec => []EvenTurns`. `InTurn` ties the latest selections to the
  latest values of the counter.
- `OnlyClientKeepsItsToken`: the promise of stickiness, for each request that is the
  only one of its gate token, whatever the others do. `Bonded(r)` is what is needed:
  `PromiseKept` (a promised token is in the pool and in the table for as long as
  promised, the cache names no other, and the client has not begun to select another),
  `CacheFollows` (cache and table name one token, unless the client is at the cache
  next) and `RowStored` (what the client is about to cache is in the table for as long).
- `StickyWithOneClient` and `CacheNeverContradictsTable`: hence `StickyAffinity` and
  `CacheAgrees`, assuming `OneClientPerGate`: no two requests use one gate token. The
  assumption cannot be dropped: the code takes no lock over `Resolve`, `Select` and
  `Bind`, and the run `TokenRoutingConcurrent` shows what two clients do to each other.
  A request of the model stands for a client that sends one request after another, so
  the instances the assumption allows are those of clients that wait for each answer.

`SSETapProofs` proves, for answers of any number of lines, any counts and any chunks:

- `UsageReportedOnce`: `Spec => []ReportedOnce`. `Reporting` adds that the callback is
  forgotten when it has been called, and that an answer that ended has been reported.
- `CountsIgnoreChunks`: `Spec => []ChunksDoNotMatter`. `Tapped` says of the state after
  any number of reads: the kept part of a line is the line that is not complete at
  `read`, and the counts are those at `read` (`UsageAt`). The kept part and the next
  chunk are together a piece of the answer that begins with a line (`PiecesJoin`), and
  the scan of such a piece takes the counts at its beginning to those at its end
  (`ScanPiece`), because processing one line does (`ProcessLineCounts`). That needs the
  answer to be `Regular`: prefixes begin lines, payloads follow prefixes, line ends
  follow line ends or payloads; which `AnswersAreWhole` shows of every answer, through
  the recursion of `FlattenSeq`.
- `TypeCorrect`: `Spec => []TypeOK`: the kept part is shorter than a line, and every
  count is one that upstream sent.
- `PlainTextDoesNotMatter`: `Spec => [](PlainText => TextDoesNotMatter)`. The run
  `SSETapText` refutes `TextDoesNotMatter` by a text that mentions an event; the theorem
  says that there is no other way to break it.

The recursive functions in these definitions are reasoned about with `SetInduction`,
which is induction over the natural numbers for a set in place of a predicate, proved
from the fact that every non-empty set of numbers has a least element.

The assumptions are those the modules state about their constants, and those named
above. Every invariant and action property of the passing runs has a theorem.
Model-checked only is liveness under fairness (`PoolSettles`, `EntriesSettle`,
`LeavingEnds`, `PhasesEnd`), which is out of the prover's reach, and so is the fairness
of the refinement: `UsageLedger` states none.

## Not modelled

Usage queries: they read and sum, and what `since` selects depends on how the driver
formats a time. Configuration parsing, logging and the HTTP helpers: no state that
changes. The pages of the web UI, the form of the API's answers, and names of tokens:
nothing depends on them. Encodings: the tap and the JSON parser are modelled on the
text they get, so a compressed answer, which they cannot read, is outside the models.
A switch of protocols: `ReverseProxy` then copies in both directions, and none of the
API's answers does it. A client that pipelines its next request, which takes the place
of the read that watches for its leaving.
The replicator, SQLite, the HTTP server and the ttlcache library are external and taken
to do what they document: a read through another connection sees what has been
committed, as WAL mode has it. The usage writer and a refresh that is running when
`main()` returns are not waited for by the code; what the writer loses by it is
`ShutdownDrains`, and `CloseAfterUsers` speaks of the users the code does wait for. A
sticky TTL of zero or less, which the configuration accepts, is excluded by an
assumption.

## Plan

Done, in this order: `RealTokenStore` and `TokenPool` with its proofs; `UsageLedger`
and `UsagePipeline`; `SSETap`; `TokenRouting`; `Gate` with its proofs; `Lifecycle` with
its proofs; the proofs about `UsagePipeline`, its refinement of `UsageLedger`,
`TokenRouting` and `SSETap`; for every safety property that a run refutes, the theorem
that says what remains true of it: `RefreshedUnlessOverlap` (`TokenPoolOverlap`),
`StickyWithOneClient` (`TokenRoutingConcurrent`), `PlainTextDoesNotMatter`
(`SSETapText`), `StoppedHoldsLastBatch` (`UsageShutdown`) and `LossesAreOfDeleted`
(`UsagePoisonBatch`). What remains of `PoolConverges`, a liveness property, is
`PoolSettles`, which is model-checked.
