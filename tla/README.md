# A TLA+ model of ctwatch

ctwatch mirrors Certificate Transparency logs: it polls each log for new
precertificates, stores them in Postgres, raises webhook alerts for watched
domains and serves a live WebSocket stream. A second command, `ctwatch
backfill`, walks a log's past. The modules here describe the parts of the
program that keep state and run concurrently. TLC checks them on small
instances, and the TLA+ proof system proves their safety properties for every
value of the constants.

Run everything from this directory:

    tlc -workers 2 -config pipeline_serve.cfg MCPipeline.tla     (any row of "Runs")
    tlapm PipelineProofs.tla                                     (any *Proofs module)

`PROJECT.json` lists the runs, the source lines each definition stands for,
the hazards and the theorems. Paths below are relative to the repository's
crate (`src/src/` in `PROJECT.json`).


## 1. Inventory

### Components

| component | code | state | operations |
|---|---|---|---|
| CT client | `ingest/client.rs`, `ingest/entry.rs` | none; the logs' own trees | get_sth, get_entries, decode_leaf |
| ingest worker | `ingest/worker.rs`, `store/cursors.rs` | table `ingest_cursors`; cursor, tree size and batch of the current tick | spawn, tick (skip to head, fetch, send, advance) |
| writer | `writer.rs` | the job channel, the batch, the counts of this flush | receive, drain, flush |
| tables of the writer | `store/certs.rs`, `store/names.rs`, `store/outbox.rs` | `certs` and `cert_names`, `names_observed`, `webhook_outbox`; the rows a transaction has locked | insert_batch, names::upsert, outbox::enqueue |
| watch list | `watchlist/*`, `store/watchlist.rs`, `api/watchlist.rs`, `cmd/serve.rs` | the matcher in memory; its source: table `watchlist`, a file or a URL; the list a reload has read | first listing at start, reload (list, then replace), add, remove |
| webhook dispatcher | `webhook.rs`, `store/outbox.rs` | the due rows of this round | due, POST, mark_delivered, mark_attempt |
| admin API | `api/admin.rs` | none | re-deliver |
| backfill | `ingest/backfill_worker.rs`, `store/backfill_jobs.rs`, `cmd/backfill.rs` | table `backfill_jobs`; search bounds, position and semaphore of each task | search, find or insert the job, walk, update progress, complete |
| live stream | `stream/*`, `api/stream.rs` | the broadcast ring, one handler per connection, the subscriber gauge | upgrade, forward, ping, close |
| log roster | `ingest/log_list.rs`, `cmd/serve.rs` | which logs have a worker (through `ingest_cursors`) | start, refresh |
| names pruner | `cmd/serve.rs`, `store/names.rs` | `names_observed` | delete old names once a day |
| counters, snapshot | `stats/*` | atomics, ring buffers of rates | add, tick, read |
| read API | `api/*` | none | SELECTs |
| parsing | `parse/*` | the public suffix list | SANs and registered domains of a certificate |
| setup | `main.rs`, `config.rs`, `observability.rs`, `cmd/migrate.rs`, `cmd/healthcheck.rs` | none | wiring |

### How they interact

    log list --> roster --> ingest workers --(channel, 10 000 jobs)--> writer
                              |  ^                                      |
                        ingest_cursors                certs, names_observed, webhook_outbox
                                                          |                    |     |
                       backfill --(its own channel and    |            dispatcher   broadcast ring
                       writer, in its own process)--------+               |             |
                                                          admin API --> outbox     subscribers

* Workers and writer share only the channel. `send().await` blocks a worker
  when the channel is full.
* The dispatcher, the admin API and the writer meet in `webhook_outbox`. No
  transaction spans more than one statement there.
* Overlapping backfill invocations meet in `backfill_jobs`. A partial unique
  index allows one running job per log and `--since`.
* `serve` and any number of backfill processes share `certs`, `cert_names` and
  `names_observed`. The unique index of `certs` is all that orders their
  inserts; an INSERT waits for the open transaction that has its row.
* The pruner deletes from `names_observed` beside all of them.
* The API edits the table `watchlist`; the matcher learns of it at the next
  reload, the writer uses the matcher row by row.
* The roster reads `ingest_cursors` to learn which logs have a worker.
* All of `serve` is one process: a crash loses the channel, the batch, the
  dispatcher's rows, the matcher and all connections, and keeps the tables.

### What is hard here

* **Two durable positions that run ahead of the data.** The ingest cursor and
  the backfill progress are written when the *channel* took the entries.
* **A flush of many statements.** One transaction for the certificates, then
  one statement per name and per alert, each of which may fail alone, with the
  watch list changing in between, and a crash anywhere.
* **State read before an await and used after it.** The tick's cursor, the
  outbox row's attempts, the backfill job's progress, the subscriber gauge.
* **Transactions of several processes over the same rows.** Each batch is
  inserted row by row in the order of the batch; two batches may wait for one
  another, and which process sees a certificate as new decides who counts it
  and who alerts on it.
* **Retries that repeat what was done.** A tick that failed half way sends its
  entries again; an alert whose answer was lost is posted again.
* **Scheduling.** A biased select in the stream handler; permits held while
  waiting for the channel; more due alerts than a round reads.

For each component, what makes it correct is stated in section 3.


## 2. Modules

| module | models | built from |
|---|---|---|
| `CTLogs` | logs, entries, retention, the failures an instance allows | |
| `JobQueue` | the channel between workers (or backfill tasks) and the writer | `CTLogs` |
| `IngestWorker` | `worker.rs`, `cursors.rs` | `JobQueue` |
| `Writer` | `writer.rs`, `certs::insert_batch`, `names::upsert`, `outbox::enqueue`, the matcher | `JobQueue` |
| `Pipeline` | `serve` from a log to the tables: workers, channel, writer, crash | `IngestWorker`, `Writer`; implements `Mirror` and `AtomicInsert` |
| `Mirror` | abstract: what the whole promises of a log | |
| `CertInsert` | `certs::insert_batch` as the database runs it, row by row, for the writers of several processes | |
| `SharedTables` | flushes of several processes over `certs` and `names_observed`, the pruner, days | `CertInsert`; implements `AtomicInsert` |
| `AtomicInsert` | abstract: what `insert_batch` promises a writer | |
| `WatchList` | `watchlist/*`, `api/watchlist.rs`, the start of the process in `cmd/serve.rs` | |
| `Webhook` | `webhook.rs`, `outbox.rs`, `api/admin.rs` | implements `Delivery` |
| `Delivery` | abstract: what the webhook promises an alert | |
| `BackfillTasks` | `backfill_worker.rs`, `backfill_jobs.rs`, overlapping invocations | `CTLogs` |
| `BackfillRun` | one process of `cmd/backfill.rs`: tasks, channel, writer, exit | `BackfillTasks`, `Writer` |
| `Stream` | `stream/handler.rs`: upgrade, events, the broadcast ring, the gauge | |
| `StreamLoop` | the select loop of `stream/handler.rs` in time: heartbeats, pongs, closes, sends | |
| `LogRoster` | `spawn_ingest_workers` of `cmd/serve.rs` | |
| `MC*` | constants of the instances TLC checks | one each of the above |
| `*Proofs` | theorems and their lemmas | one each of the above; `BackfillProofs` is about `BackfillTasks` and `BackfillRun`, `TablesProofs` about `SharedTables`, `LoopProofs` about `StreamLoop` |

Each operation of the code is one action, from one `await` to the next: what
the code does without awaiting cannot be interleaved within a task, and every
statement to the database is atomic by itself (`CertInsert` takes the one
transaction of several statements apart). Operators named in a "Mutant:"
comment are deliberate mistakes in the definition that follows them. They are
part of no specification; they show that the properties notice.

The same flush appears twice. `Writer` has the channel, the drain loop, every
statement after the insert and the watch list changing in between, with the
insert as one step. `SharedTables` has the insert row by row, several
processes and the days, with the batches given. `AtomicInsert` stands between
them, and both are shown to implement it: the first in that its writer makes one
call at a time and goes by the number it gets, the second in that the database
gives any number of such writers whole batches, one after the other.

### What is abstracted

* An **entry** is a member of `Certs` (it decodes and parses), `Ignored` (it
  decodes and makes no row: a final certificate, or one x509 parsing rejects)
  or `Undecodable` (`decode_leaf` fails). A certificate carries its date,
  names and domains as functions. Retention is `NotBefore[c] >= Cutoff`; the
  clock does not move, except in `SharedTables`, which counts days.
* A **job** is the log and the index of its entry; everything else in
  `WriterJob` is a function of these.
* **Sleeps** (poll interval, error backoff, rate limits) are left out: the next
  step may come at any time.
* **A log's answers.** `get_sth` may answer with any size the log has had
  (frontends lag), `get_entries` with fewer entries than asked for.
* **Failures** are switched on per instance by `Faults`. Those some property
  makes an exception of are remembered in the variable `faults`. A failed statement may have been committed (its answer was lost),
  wherever the code does not learn which.

### State and code

* `IngestWorker`: `wpc` is the place in `spawn`/`run`/`tick`; `pos` the local
  `cursor`, then the index of the next entry to send; `target` the `tree_size`,
  then `last_index`. `cursor` is the table. `base` (from which index the mirror
  follows a log) and `handed` (all jobs ever sent) are history.
* `Writer`: `phase` is `recv`, `drain`, `insert` or `flush`; `batch` the
  `Vec<WriterJob>`; `naming` and `matching` are what the two loops of
  `flush_batch` have still to do, fixed when the insert returns.
* `Webhook`: `todo` and `snapshot` are the rows `outbox::due` returned and
  their attempts as read; `current` is the row posted and not yet updated;
  `wait` is `next_attempt` as the delay it was set to (0: due).
* `Delivery` under `Webhook`: `status` is what the row says (`pending`: neither
  delivered nor parked), `tries` its `attempts`, `received` the alerts the
  receiver accepted. Rounds, rows read ahead, the passing of delays, failed
  updates and restarts are stutters.
* `AtomicInsert` under `Pipeline`: `asked` is the batch while `phase` is `insert`,
  `returned` the number of new certificates while it is `flush`.
* `BackfillTasks`: `my[t]` holds a task's locals, `jobs[l]` the rows of a log
  for one `--since`. The unique index is the guard of `InsertJob` and the
  action `InsertRefused`.
* `Mirror` under `Pipeline`: `position` is the cursor, `from` is `base`, `taken`
  is `handed`, `alerted` the certificates with a row in the outbox. Ticks,
  channel and batches are stutters.
* `CertInsert`: `stage[w]` is where the flush of process `w` is, `rows[w]` its
  `CertRow`s, `done[w]` how many INSERTs have been executed, `inserted[w]` the
  running count `inserted_certs`. `owner[c]` is the open transaction that has
  inserted row `c`: the row lock. `by` (who committed it) is history.
* `SharedTables`: `began[w]` is the `now` of the flush, `naming[w]` the names
  still to upsert, `seen[n]` the `last_seen` of a name. The batches a process
  may draw are a constant; `Begin` takes one whose certificates are all inside
  the retention, since the others make no row.
* `WatchList`: `up` and `loop` are the places of `run` and of the reload loop,
  `loaded` is what the loop listed and has not yet replaced the matcher with.
  `since` and `fresh` are history: the contents the source has had since the
  listing that is in memory was read, and since the one just read. A row of the
  table is a normalised domain; file and URL entries are lower-cased by the
  matcher only.
* `Stream`: `conn[c]` is a connection and its handler; `next` is its receiver's
  position. `Quit` stands for all that ends the loop but a failed event or a lag.
* `StreamLoop`: one connection. `age` is `last_pong.elapsed()`, `toBeat` the time
  to the next heartbeat not yet taken (it is due from 0 down, and a heartbeat
  taken late leaves the next one due earlier: tokio's Burst), `unread` the events
  the receiver has before it. `Tick` is a unit of time, which may pass between any
  two steps. `silent`, `owing`, `slow`, `held` and `worst` are history: how long
  the client has been silent, how long a ping has waited for a pong, now and at
  most, and how long the handler has had something to do, now and at most.
  `held` counts whatever keeps the handler from its select: a send that waits for
  a client that does not read, a burst of events, a scheduler that is late.
* `LogRoster`: `rows` is the set of logs with a row in `ingest_cursors`;
  `starting` and `polling` count the workers of a log before and after they
  made sure of the row.


## 3. Runs

TLC finishes each passing run with no error. Actions fire in at least one of
them, every failure kind included.

| run | module | question | states |
|---|---|---|---|
| `pipeline_serve` | `MCPipeline` | does the flush keep its promises when any statement fails, and is everything stored in the end? | 100 000 |
| `pipeline_two_workers` | `MCPipeline` | does the cursor ever pass an unsent entry, or go back, and what do failures cost? | 793 000 |
| `webhook` | `MCWebhook` | is every alert delivered or given up, as promised, with consistent bookkeeping? | 145 000 |
| `backfill_overlap` | `MCBackfill` | do overlapping invocations leave part of the window out? | 2 851 000 |
| `backfill_run` | `MCBackfillRun` | how much can a run lose, and does it end? | 205 000 |
| `stream_fanout` | `MCStream` | can a subscriber miss an event unknowingly? | 85 000 |
| `stream_loop` | `MCStreamLoop` | who is closed as idle, how late, and does a closed connection end? | 932 000 |
| `roster` | `MCLogRoster` | has each usable log a worker, and which refresh gives it a second? | 43 000 |
| `shared_tables` | `MCSharedTables` | do the writers of two processes and the pruner keep the tables right? | 84 000 |
| `watchlist` | `MCWatchList` | what are certificates matched against, and does it become current? | 47 000 |
| `doc_cursor_after_write` | `MCPipeline` | refutes a document, see section 6 | |
| `doc_without_conflict` | `MCSharedTables` | refutes a document, see section 6 | |

**Pipeline.** `LossBounded` says what a failure can cost: of the storable
entries handed over, a crash loses at most what the channel and one batch
hold, a failed insert one batch, and no other step of any worker or of the
writer loses any, however the failures pile up. `MissBounded` says the same of
the watchers: of the certificates every watch list matches, a crash or a failed
insert leaves at most a batch in the table without an alert, a failed enqueue
one, and no other step any, though lists are replaced during the flush and
duplicates share the batch. `SkippedOnce`: a log followed from an index above 0
is not skipped to its head again, by no restart or retry, as long as it has
one worker. `NamesAgree`:
`names_observed` holds only dates of stored certificates, and every name of a
stored certificate unless a failure explains its absence.
`PublishedAfterCommit`: nothing is alerted on or broadcast before it is
committed, whatever fails. `NoGap`: no entry between the index a log is
followed from and its cursor was left out, with two workers per log, retries
and crashes. `CursorNeverRegresses` is the action property beside it.
`EventuallyStored`: every storable entry before the log's first undecodable
one is stored, unless the process crashes, an insert fails, or the worker's
first statement failed and the worker is gone. (The entries after an undecodable
one are never reached: section 6.) `MirrorSpec`: every step is a step of
`Mirror` or none. That says in one formula what no single invariant does: the
position moves only over entries taken over, only what was taken over is stored,
only what is stored is alerted on and streamed, and nothing is undone, not even
by a crash.

**Shared tables.** `InsertsAtomically`: row by row, with waits, rollbacks and
deadlocks, the batches of all processes go into the table one after the other,
each as a whole or not at all, with the right count returned. `CountedOnce`:
each certificate is counted as new by the process that committed it and by no
other; a process that dies or misses an answer counts too little, never too
much. `NobodyStuck`: while a transaction is open, one can go on or is in a cycle
the database's deadlock detector finds. `FirstInserterAlerts`:
a certificate that a process with a watch list was first to insert is alerted on.
`PrunedLate`: `last_seen` may go back, and still a name is deleted only once more
than `ColdDays - HotDays` have passed since a flush observed it. `FlushEnds`:
every flush ends, through the database's deadlock detector if need be, without
the help of a failure.

**Watch list.** `MatcherIsOneList`: what is matched against is one content of
the source, as a whole, never a mixture of two, and not older than the last
listing that succeeded: a listing that fails leaves it, and only until the first
one succeeds (in db mode the process serves even when the first fails) is
nothing matched. `EventuallyCurrent`: when failures and edits stop the matcher
becomes the source's list and stays so.

**Webhook.** `KeepsPromise`: every step is a step of `Delivery` or none. So an
alert is sent only while its row is pending, is delivered only when the receiver
has it, counts each failed attempt once, and is given up by the attempt that
brings the count to the limit and by nothing else, although the dispatcher acts
on rows it read before it posted, its updates carry no condition and may fail,
and an operator writes to the same rows. `DeliveredAccepted`: delivery is at
least once. `BackoffMatchesAttempts`: the decision is taken on attempts read
before the post, the row is incremented in SQL, and still the two agree.
`DeliveredNotPosted`: the dispatcher never holds a row that is already
delivered, though it posts a round row by row and reads the next one only when
every answer of this one is settled. `RedeliverKept`: an operator's request
keeps the row due until it is posted, unless it came in while that row's answer
was awaited.
`EventuallySettled`: delivered or given up in the end, although a round reads
fewer rows than are due.

**Backfill.** `StartsAtSince`: the search, on a log in order of time, starts
no walk after an entry of the window, whatever tree size it was told.
`ProgressCovered`: everything of the window below a job's progress was
handed over, though invocations overwrite one another's progress, ahead or
behind. `CompletionCost` is what completing a job costs, for a completed job is
never taken up again: of the window up to and including the row's `end_index`
at most one entry was not handed over (the strict loop may leave the last one
out), and those beyond the tree head of the invocation that completes it, if it
resumed a job another had made with a newer one. Both bounds are reached. In
`backfill_run`, `LossBounded`: an exit or a death costs at most a channel and a
batch, a failed insert a batch, and nothing else, a new start of the command
included, costs anything.
`EveryRunEnds`: permits and the full channel never wait for one another for
ever, as long as each log answers in the end.

**Stream.** `NoSilentGap`: a subscriber still connected has got every event its
filter passes; one that falls off the ring is closed.
`TypeOK` holds the gauge at zero or above although its updates get lost.

The three properties of `StreamLoop` say what the loop promises of time, and
with it what it does not. `IdleWasSlow`: a connection is closed for want of a
pong only if what the client took for a pong, and twice what its handler was
held up, are more than what the limit leaves after one interval: 60 s of 90.
`DroppedInTime`: while a connection is up, its client sent its last pong no
longer ago than 90 s, 30 s for the next heartbeat, and twice what the handler
was held up. Both bounds are reached, so the 90 s of the documents are neither
what a slow client is allowed nor what a dead one is dropped after.
`ClosedEnds`: a connection whose client is gone ends, unless from some moment on
an event is ready at every turn of the loop. Not promised, and not so: a client
that is alive and does not read holds its handler in `send().await`, which has no
timeout (`stream/handler.rs:73`, `:93`), and is neither lagged nor idle for as
long as that lasts; and events that never stop keep heartbeats and the client's
messages from being looked at, since the select is biased.

**Roster.** `OnlyBlindDoubles`: a log that has a worker gets another only in a
refresh that could not list the cursors, one at a time; a start, another refresh
or a change of the list never doubles a worker, also after that has happened.
`UsablePickedUp`: a usable log gets a worker, across restarts, unless an
upsert failed.

### Bounds

* **Pipeline.** One log (logs only share the writer, and each has its own
  worker and cursor). `BatchSize` 2 gives whole, short and empty answers;
  `ChannelCapacity` 1 or 2 makes workers wait in the middle of a batch;
  `BatchMax` 2 gives batches of one and of two, so a duplicate meets a new
  certificate. `MCServe` has an ignored entry, an expired certificate, and a
  certificate before and after another. `MCSparse` has three entries, the last
  one undecodable, because two workers with crashes multiply; its names and
  lists are trivial, as none of its properties depends on them. The numbers in
  `LossBounded` are larger than what so few certificates can lose at once: TLC
  shows that no step loses anything that should not, the theorem the numbers.
  `MCServe` does not crash: crashes would multiply its states by more than sixty.
  What `MissBounded` and `SkippedOnce` say of a crash is shown by their theorems;
  `MCSparse` and `MCBackfillRun` do crash.
* **Shared tables.** Two processes, one with a watch list, and two certificates
  they meet in opposite orders: the smallest deadlock. One batch has a
  certificate twice, one is empty. Two processes cannot wait in a longer chain;
  that `NobodyStuck` holds for chains and cycles of any length is proved. Three days with retentions of 0 and 1 day:
  one certificate is too old from the second day on, and a name may be pruned
  after it was observed, but not at once.
* **Watch list.** Two spellings of one registered domain and a host that has
  none; a source that is empty, has one entry or two. Nothing counts up, so the
  instance is otherwise unbounded: any number of restarts, edits and failures.
* **Webhook.** Three alerts and `Limit` 2: one may be left out of a round, and
  one is held while the other of its round is posted. `MaxAttempts` 2 gives a
  retry and then parking. The exponents of the later delays and their cap at 7
  are in `RetryDelay`, and no run reaches them: `BackoffMatchesAttempts` is about
  the attempts both sides go by, for any number of them by its theorem.
  `MaxTries` 3 bounds only how often the operator asks again.
* **Backfill.** `MCBackfill`: six entries, two before `Since` and two with that
  very timestamp, the first and the last undecodable: a search that looks at the
  first fails, a walk that reaches the last skips it. Two invocations, one
  `--since`, at most two job rows before a new start, which gives a resumed job,
  a refused insert and a job after a completed one. The two invocations are
  interchangeable (symmetry; the run has no liveness property).
  `MCBackfillRun`: two logs of two entries that share a certificate, one permit,
  a channel of one job and batches of two: four jobs, one more than channel and
  batch hold together. `MaxJobs` 2.
* **Stream.** Four events and a ring of two: a subscriber can be current, one
  behind, or off the ring. `stream_fanout` lets no time pass. In `stream_loop` a
  unit of time is 15 s (`Interval` 2, `Limit` 6); the handler may be held up for
  three (`MaxHeld`), longer than between two heartbeats, and two pongs may be
  unread. No bound is put on the time in all, on the events, or on how long the
  client is silent: the properties themselves keep those finite.
* **Roster.** Three logs: one usable from the start, one that becomes usable,
  one retired, in all combinations. `MaxWorkers` 2 bounds how often blind
  refreshes may double a log's workers.

Deadlock is checked where the system cannot stop: `pipeline_two_workers`,
`backfill_overlap`, `roster`, `shared_tables` and `watchlist`. It is switched off where a
bound or the world does stop it: a worker whose first statement failed is gone
(`pipeline_serve`), all alerts may be settled and `MaxTries` reached
(`webhook`), the table may have `MaxJobs` rows (`backfill_run`), all clients may be
gone (`stream_*`).

### Fairness

Fairness is only assumed of what the code schedules.

* Tokio runs every ready task again and again: weak fairness of each step of a
  worker, the writer, the dispatcher, a backfill task.
* A stream handler takes an event that stays ready (weak fairness), and goes on
  with a heartbeat or a message if its select finds no event ready again and
  again (strong fairness of `NoEvent`). That a send ends is assumed only once the
  client is gone. `Tick` has no fairness.
* Semaphore permits and channel slots are handed out in the order they are
  asked for, so a task that keeps asking gets one: strong fairness of
  `Acquire`, `SendEntry` and `Send`.
* Polls repeat for ever (`run` loops with a backoff). A log polled again and
  again answers, again and again, with its current head and with at least one
  entry: strong fairness of `FreshSth` and `SomeEntries`. This is an assumption
  about the logs, and what `EventuallyStored` needs of them.
* `outbox::due` orders by `next_attempt`, so a row that stays due is read:
  strong fairness of a round that contains it.
* An INSERT that waits goes on when the other transaction ends, the waiters of a
  row are served in turn, and Postgres looks for deadlocks: strong fairness of
  the steps by which a flush goes on (`Proceed`: an insert, a row skipped, the
  commit, the end of a deadlock's victim). Failures and lost answers are not
  among them.
* A walk of a backfill retries its request until the log answers it: weak
  fairness of a task's steps. Like the above about polls this is an assumption
  about the logs, the only one `EveryRunEnds` needs.
* The reload loop and the start of the process run: weak fairness (`WatchList`).
* `StableSpec` (webhook, roster, watch list) adds that from some moment on the process does
  not die and updates succeed; before that anything may fail any number of
  times.
* For the watch list `StableSpec` also says that the edits stop: the list is only
  current once it is left alone.
* Nothing is assumed of clients, receivers, operators, the publishing of logs
  or failures.


## 4. Proofs

| theorem | module | property |
|---|---|---|
| `TypeCorrect` | `PipelineProofs` | `TypeOK` |
| `NothingSkipped` | | `NoGap` |
| `CursorMonotone` | | `CursorNeverRegresses` |
| `SkipsOnce` | | `SkippedOnce` |
| `NothingLost`, `FailureCost` | | `InFlightOrStored`\*, `LossBounded` |
| `CursorStored` | | `CursorCovered`\* |
| `NoMatchMissed`, `MissCost` | | `EveryMatchAlerted`\*, `MissBounded` |
| `CommittedFirst` | | `PublishedAfterCommit` |
| `NamesFollowCerts` | | `NamesAgree` |
| `ImplementsMirror` | | `MirrorSpec` |
| `ImplementsAtomicInsert` | | `OneCallAtATime`\* |
| `WebhookTypes`, `AtLeastOnce`, `GivenUpAtMax`, `DelayInStep`, `NoneTwice`, `RequestKept` | `WebhookProofs` | `TypeOK`, `DeliveredAccepted`, `ParkedAfterMax`\*, `BackoffMatchesAttempts`, `DeliveredNotPosted`, `RedeliverKept` |
| `WebhookKeepsPromise` | | `KeepsPromise` |
| `TasksTypes`, `SearchRight`, `ResumeSkipsNothing`, `CompletedAtCost` | `BackfillProofs` | `TasksTypeOK`, `StartsAtSince`, `ProgressCovered`, `CompletionCost` |
| `ProcessSkipsNothing` | | the last three, of the whole process |
| `NothingSentLost`, `RunCost` | | `SentOrStored`\*, `LossBounded` |
| `StreamTypes`, `NothingLeftOut` | `StreamProofs` | `TypeOK`, `NoSilentGap` |
| `IdleOnlyWhenSlow`, `SilentDropped` | `LoopProofs` | `IdleWasSlow`, `DroppedInTime` |
| `RosterTypes`, `DoubledOnlyBlind`, `OneEach` | `RosterProofs` | `TypeOK`, `OnlyBlindDoubles`, `OneWorkerPerLog`\* |
| `CountsRight`, `AlertedWhereNew`, `PrunedInTime` | `TablesProofs` | `CountedOnce`, `FirstInserterAlerts`, `PrunedLate` |
| `InsertIsAtomic`, `AlwaysAWay` | | `InsertsAtomically`, `NobodyStuck` |
| `OneWholeList` | `WatchListProofs` | `MatcherIsOneList` |

\* No run checks these any more. `InFlightOrStored`, `EveryMatchAlerted` and
`SentOrStored` say that all is well until the first failure, and are what
`LossBounded` and `MissBounded` say step by step of every behaviour;
`ParkedAfterMax` follows from `KeepsPromise`; `OneWorkerPerLog` is the sum of the
steps of `OnlyBlindDoubles`. They are kept because they are easier to read, and
some are part of an inductive invariant. `CursorCovered` joins `NoGap` and
`InFlightOrStored`: the cursor runs ahead of the tables by what is in flight, and
by nothing when the writer waits on an empty channel.

They hold for any sets of logs, workers, processes, certificates, alerts,
clients and invocations, any capacities, batch sizes, retentions and watch
lists, and any subset of the failures.
The assumptions are the ASSUMEs of the modules, which TLC evaluates in the
runs: they fix the types of the constants, that capacities, batch sizes and
limits are positive, that a batch holds at least two jobs (the code's constant
is 100), that an undecodable and an ignored entry are not certificates, and that
finitely many processes share the tables.
`SearchRight`, `ResumeSkipsNothing` and `CompletedAtCost` are about logs whose
timestamps do not decrease: the search relies on it, and the properties say so.

The arguments:

* **NoGap** is not inductive: the cursor is advanced to a local `target`. Its
  strengthening `HandedInv` adds `PosHanded`: a worker between reading the
  cursor and advancing it has handed over, or found handed over, everything
  below its next entry. This is stable because `handed` only grows and `base`
  never goes back while a cursor is in use (`BaseBelowCursor`), whatever the
  other workers of the log do. A crash throws the locals away.
* **LossBounded, InFlightOrStored** follow a job from the channel to the batch to
  the table. `JobKept`: each step of the writer takes it out of one place only by
  putting it in the next, except the failed insert and the crash. What those take
  is the batch, or channel and batch, and both are sequences of bounded length: a
  set indexed by a sequence has no more members than the sequence (`Covered`,
  `SizeOfUnion`).
* **SkippedOnce** needs `SkipInv`: where one worker follows a log, and it is
  about to skip or has read a cursor of 0, the log is not yet followed from an index
  above 0. By `BaseBelowCursor` a log followed from above 0 has a cursor above 0,
  so no later read of the cursor, before or after a restart, finds 0.
* **PublishedAfterCommit** needs the writer's `FlushInv`: from the insert to the
  broadcast, every row of the batch is in `certs`; and `QueueHanded`: what is in
  channel or batch was handed over.
* **MissBounded, EveryMatchAlerted** need that the matcher is always one of the lists
  (`MatcherInv`), and that the loop visits all rows whenever the batch inserted
  anything, the new ones included (`MatchKept`). What a crash or a failed insert
  leaves without an alert was in `matching` or in the batch.
* **NamesAgree** keeps two facts apart. Every date in `names_observed` is that of
  a stored certificate with the name, because the upserts of a batch come after
  its insert (`FlushInv`). Every name of a new certificate is in `naming` from
  the insert on and leaves it by its own upsert only.
* **ImplementsMirror** goes through the actions of `Pipeline` and names, for each,
  the action of `Mirror` it is: `Publish` is Publish, the first statement of a new
  worker Register, `SkipToHead` Follow, a send TakeOver, `AdvanceCursor` MoveOn
  (this is where `HandedInv` is needed), the insert Store, `MatchRow` Alert,
  `Broadcast` Stream; everything else stutters.
* **ImplementsAtomicInsert** maps the end of the drain to Call, the insert to
  Insert, a failed one to AnswerLost or Refuse, the end of the flush to EndFlush,
  and a crash to Refuse or EndFlush. With `InsertIsAtomic` the two models of
  the flush fit together: what one asks is what the other gives.
* **SharedTables.** `TransactionOK`: what a transaction owns is not in the table
  yet and is as many certificates as it has counted; what it executed is in the
  table or its own. So its commit adds exactly its batch and returns exactly the
  number that was new (`InsertIsAtomic`: a flush in its transaction maps to
  `asked`, one past it to `returned`; row steps, waits and rollbacks of others
  stutter), and the counts add up to the table (`CountedOnce`, with `Attributed`:
  a committer is known exactly for what is in the table). `FirstAlerted` adds that
  a flush which inserted something new will match its rows. For `PrunedLate`, rows
  are no older than the hot retention was when they were made (`RowsHot`), hence
  neither is `last_seen` (`SeenHot`), wherever it goes back to.
* **NobodyStuck**, for any number of processes: rows are owned by open
  transactions only (`WaitsForOpen`), so if every open one waits, everyone waited
  for waits. Among the sets of waiters closed under "waits for" take a least one
  (there is one, the processes being finitely many): those its members wait for
  are such a set, too, hence all of it, and it is what `Deadlocked` looks for
  (`CycleAmongWaiters`).
* **WatchList.** What the loop has loaded and not yet put in place is one content
  the source has had since that listing (`fresh`), so when it replaces the matcher
  it is one of those since the listing in memory (`since`).
* **BackfillRun** has the invariant of the tasks, what channel and batch may hold
  (`QueueOK`) and `SentOrStored`. A step of the process is a step of `BackfillTasks`
  or leaves the tasks as they are (`TasksKept`; a send that must wait for room is a
  send with one more guard), hence `ProcessSkipsNothing`. `RunCost` is the argument
  of `LossBounded` for a channel filled by several tasks, up to the exit.
* **Webhook** rests on `HeldAsRead`: a row in the dispatcher's hands has the
  attempts it was read with, since only the dispatcher changes them, one row at
  a time; and on `PostedOnce`: the row being updated was held and is not
  delivered. For **KeepsPromise** each action is named with the step of `Delivery`
  it is: `Enqueue` Queue, a post the receiver accepts Receive, `MarkDelivered`
  Settle, `MarkAttempt` Fail, `Redeliver` AskAgain. Settle and Fail ask for a
  pending row, and the table is not asked: that the row read a round ago still is
  pending is what `HeldAsRead`, `PostedOnce` and `NewRowsDue` (a row
  starts without a delay) say.
* **Backfill** carries the search's invariant (all below `lo` is older than
  `Since`, `hi` is not) through to the start of the job, then `HandedBelow` for
  every progress and every walking task's position: a task only writes a
  progress it walked up to from a start or a progress below which all had been
  handed over, whoever wrote that row meanwhile. For `CompletionCost` a task that
  is about to complete has handed over all below its position, which is at least
  its last index; what is missing up to the row's end is that index and those
  between it and the end, and an interval has no more members than its length.
* **Stream** counts, per connection, the events between subscription and the
  receiver's position.
* **StreamLoop** keeps an account of `age`, for each state a pong can be in. If
  none is unread and none was asked for, `age` and the time to the next heartbeat
  add up to at most one interval (`PongNotAsked`); asked for, to one interval,
  what the ping was held up, and what the client has taken since (`PongAsked`);
  unread, to the same and what the handler has been busy since (`PongUnread`). A
  heartbeat is overdue by no more than the handler was busy (`Clocks`), so what
  was asked of the heartbeat before bounds what the next one finds (`Aged`). From
  the first three follows `IdleWasSlow`, from the last, with how old the pong was
  when it was read (`Heard`), `DroppedInTime`.
* **Roster** has one worker per log because a polling worker has its row and a
  refresh spawns only for rows that do not exist; the refresh starts only when
  no worker is between its spawn and its row. None of this needs that the cursors
  could be listed before, hence `OnlyBlindDoubles`.

### Checked only, not proved

The liveness properties (`EventuallyStored`, `EventuallySettled`,
`EveryRunEnds`, `ClosedEnds`, `UsablePickedUp`, `FlushEnds`,
`EventuallyCurrent`): liveness under fairness is outside what the provers at
hand do. Every safety property of the passing runs, invariants, action
properties and the three refinements a run checks, is proved, and so is a fourth
(`ImplementsAtomicInsert`).


## 5. What is not modelled

* The byte layout of leaves, x509 and the public suffix list: pure functions
  of external parsers.
* The read API: single SELECTs, no state.
* Configuration, migrations, logging, metrics text.
* The counters (but for the subscriber gauge, in `Stream`, and the count of new
  certificates, in `SharedTables`): they are only ever added to. The ring buffers
  of the rates and the snapshot are read by the statistics page alone; nothing
  decides on them, and the ticker that writes them is a single task.
* The retention policies of the database (`migrations/0009`), which drop old
  chunks of `certs`: what they remove, no writer inserts again.
* An invalid file path or URL at start, which ends the process before anything
  is spawned.
* `cursors::set_state` and `backfill_jobs::fail`: nothing calls them.


## 6. Where code and documents part

Two disagreements have a run that ends in a counterexample:

* **`CursorAfterWrite`** (`doc_cursor_after_write`). `ARCHITECTURE.md:151`:
  "After successful write batch, update `ingest_cursors.last_tree_size`".
  `ingest/worker.rs:95` advances the cursor when the channel has the entries; a
  crash then loses them for good.
* **`WithoutConflict`** (`doc_without_conflict`). `ARCHITECTURE.md:1136`: backfill
  "runs concurrently with live ingest without conflict" (and `:210`: "The only
  contention is on the writer channel"). `store/certs.rs:25` inserts the rows of a
  batch in the order of the batch, in one transaction. Two processes that insert
  the same two certificates in opposite orders deadlock; the database ends one
  of the transactions, and `flush_batch` drops that batch for good.

The others were met while modelling, are visible in the actions named, and
have no run of their own:

* "enqueue for newly-inserted only. (Conservative: dedup matches don't refire the
  webhook.)" (`writer.rs:149-150`): the loop is skipped only when the *whole*
  batch inserted nothing (`writer.rs:152`); a duplicate beside a new certificate
  is alerted on again. (`ToMatch`)
* Backfill "populates the historical window" (`ARCHITECTURE.md:12`):
  `cmd/backfill.rs:69` returns when the tasks have; entries of completed jobs
  still in the channel are lost. (`Exit`; `LossBounded` says how many)
* The same sentence: a run that resumes a job and is told an older tree size
  completes it there, though its `end_index` is larger
  (`ingest/backfill_worker.rs:60`). (`GetSth`, `Complete`; `Behind` in
  `CompletionCost` says how many entries that leaves out)
* "backfill batches are tagged and the writer prioritises live entries"
  (`ARCHITECTURE.md:210`): a backfill has a process, a channel and a writer of its
  own, and no job is tagged. (`BackfillRun`)
* Every match writes a row (`README.md:62`): not when the process dies between
  the insert and the alert (`writer.rs:165`); the entry comes back as a
  duplicate, and a batch of duplicates is not matched. (`Crash`, `ToMatch`)
* The stream sends "each newly-observed precert" (`ARCHITECTURE.md:478`):
  duplicates are broadcast, too (`writer.rs:172`). (`Broadcast`)
* A name on a duplicate "still advances last_seen" (`writer.rs:138-139`):
  last_seen is set to the row's `not_before`, which may be earlier
  (`store/names.rs:15`). (`Observe`)
* "First run for this log: skip to the head" (`ingest/worker.rs:56`): the test
  is `cursor == 0`, so a log that was empty at first is skipped ahead later,
  over what it published since. (`AfterSth`, `SkipToHead`; hence `0 < base[l]`
  in `EventuallyStored` and `SkippedOnce`. Where a log has two workers, see below,
  the second may read a cursor of 0, wait, and skip the log again after the first
  has followed it for a while; hence `Alone` in `SkippedOnce`.)
* "all log cursors advancing" (`ARCHITECTURE.md:1130`): an entry that does not
  decode ends every tick before the cursor moves (`ingest/worker.rs:82`), and
  the entries before it are sent again each time. (`DecodeFails`)
* "an operator can re-deliver" (`ARCHITECTURE.md:619`): a request made while the
  answer to that row is awaited is undone by the update after it
  (`webhook.rs:64`, `:87`). (`Redeliver`, `Awaited`)
* Backoff "1s, 4s, 16s, ..." (`ARCHITECTURE.md:616`): the first delay is 4 s
  (`webhook.rs:91`). (`RetryDelay`)
* "walk forward to the current STH" (`ingest/backfill_worker.rs:17-18`):
  `end_index` is inclusive and the loop's test strict (`:60`), so the last entry
  is left out when a batch ends just before it. (`AfterBatch`; hence the one
  entry in `CompletionCost`)
* Re-running is "a no-op" for completed jobs (`ARCHITECTURE.md:214`):
  `find_active` looks for running jobs only (`store/backfill_jobs.rs:60`), and
  another job is inserted and walked. (`FindActive`)
* Progress is updated "after each successful batch insert"
  (`ARCHITECTURE.md:207`): it is updated when the channel took the batch
  (`ingest/backfill_worker.rs:82`). (`UpdateProgress`)
* `STREAM_MAX_SUBSCRIBERS` rejects new connections (`ARCHITECTURE.md:654`): the
  check comes before the upgrade and the gauge is raised after it
  (`stream/handler.rs:31`, `:54`). (`Upgrade`, `EnterStore`)
* `stream.subscribers` is the "live consumers connected"
  (`ARCHITECTURE.md:1208`): the gauge is loaded and stored in two steps, and
  overlapping updates leave it wrong. (`EnterLoad`, `LeaveStore`)
* "Idle disconnect after 90s without a `pong`" (`ARCHITECTURE.md:482`): a handler
  held up in a send takes the overdue heartbeat before the pongs that have come
  in (`stream/handler.rs:87`), so a client that answered may be disconnected; and
  one that did not stays until the next heartbeat, and for as long as a send to it
  or events hold up the handler. (`Heartbeat`; `IdleWasSlow` and `DroppedInTime`
  say by how much)
* `?domains=` "missing/empty = firehose" (`ARCHITECTURE.md:473`): an empty one
  passes nothing (`stream/handler.rs:37`). (`Passes`)
* "when 2025 logs decommission, it stops polling them" (`ARCHITECTURE.md:135`):
  no worker is ever stopped (`cmd/serve.rs:150`). (`Refresh`)
* "One async task per active log" (`ARCHITECTURE.md:141`): when the cursors
  cannot be listed, every usable log gets another (`cmd/serve.rs:146`).
  (`RefreshBlind`)
* "when 2027 logs go live, ctwatch picks them up" (`ARCHITECTURE.md:135`): not
  when the worker's first statement was committed and reported as failed; the
  worker is gone and its row keeps the refresh away (`ingest/worker.rs:20`).
  (`RegisterFails`)
* Every match writes a row, again: a certificate a backfill was first to insert
  is a duplicate for `serve`, and a batch of duplicates is not matched. The
  backfill itself has an empty watch list. (`EndFlush`)
* Write endpoints return 405 in file and URL mode (`ARCHITECTURE.md:466`): they
  return 400 (`api/watchlist.rs:27`). (`Put` is not possible then)
* The file is "reloaded on SIGHUP" (`ARCHITECTURE.md:575`): on the timer only
  (`watchlist/mod.rs:28`). (`Wake`)
* Entries are normalised to registered domains (`ARCHITECTURE.md:586`): by the API
  only; those of a file or URL are lower-cased, and a host name among them never
  matches. (`Normal`, `InMemory`)
* The URL is fetched with a bearer credential (`ARCHITECTURE.md:1195`): none is
  sent (`watchlist/url_source.rs`).
* `duplicates_dropped` is the "cross-log dedup rate" (`ARCHITECTURE.md:1205`):
  certificates past the retention are counted, too (`writer.rs:99`).
* `RETENTION_DAYS_HOT` (`ARCHITECTURE.md:643`) is what the writer goes by; the
  database's own policy has 90 days written into it (`migrations/0009`).
* The statistics count as failed what had 7 attempts (`stats/snapshot.rs:19`),
  whatever `webhook_max_attempts` is.


## 7. Plan

The number of runs is limited on purpose: one for each question. New
properties go into the run whose instance reaches them.

Done: every component that keeps state and is shared has a module; the
three abstract specifications are implemented by refinement, one of them by two
modules; every safety property of the passing runs is proved.

Left, in order of worth:

1. One composition of `Pipeline` with `WatchList`, so that the lists the writer
   uses are those of the source. Today each assumes of the other only what it
   shows: the writer takes any sequence of lists, the watch list gives whole ones.
2. Several whole pipelines over one table in a module. That each is a client of
   `AtomicInsert` and that the table serves any number of them is proved; what is
   missing is the composition of the two theorems as a third.
3. A proof that each liveness property follows from its fairness, when the
   provers can do it; the leads-to chains are those of the comments beside them.
