# Verification of the Omnivore Go services

TLA+ models of the Go backend of Omnivore (API, content-fetcher,
queue-processor), the TLC runs that check them on small instances, and proofs
for the TLA+ proof system. Paths are relative to `src/`.

## 1. The system

Three programs share one PostgreSQL database, one Redis for caches, one Redis
for BullMQ queues, and an object store.

| part | code | state | operations |
|---|---|---|---|
| BullMQ client | `internal/bullmq/bullmq.go` | per queue: job hashes, id counter, `wait` list, `prioritized`, `delayed`, `completed`, `failed` sorted sets, `active` list | AddBulk, PopJob, CompleteJob, FailJob |
| Content-fetch worker | `internal/queue/worker.go` | loop, semaphore of 4, WaitGroup, context | run, processJob, Wait |
| Backend queue worker | `internal/queueprocessor/worker.go` | the same | the same; dispatches to `internal/jobs` |
| Content-fetcher | `cmd/server/content_fetcher.go`, `internal/server/server.go` | HTTP server, worker, browser, Redis | POST /, prestop, SIGTERM, close |
| Queue-processor | `cmd/server/queue_processor.go` | HTTP server, worker, pool, Redis, signal goroutine | prestop, SIGTERM, close |
| Save services | `internal/service/save_url.go`, `save_page.go` | library row, job, blob | SaveURL, SavePage |
| Fetch handler | `internal/handler/handler.go` | result cache, failure counter of a domain, blob | ProcessFetchContentJob |
| save-page job | `internal/jobs/save_page.go` | library row | content lookup, parse, upsert |
| Feed refresh | `internal/jobs/refresh_feed.go`, `refresh_all_feeds.go` | subscriptions, feed failure counter, cache keys | HandleRefreshAllFeeds, HandleRefreshFeed |
| Library edits | `internal/graphql/resolver`, `internal/api/handler`, `internal/repository` | library rows, labels, highlights | resolvers and REST handlers |
| Read positions | `internal/jobs/sync_read_positions.go` | a Redis set for each item, columns of the row | SMEMBERS, UPDATE, SREM |
| Background edits | `internal/jobs/bulk_action.go`, `trigger_rule.go`, `prune_trash.go` | library rows, labels | bulk actions, rules, trash |
| Labels | `internal/repository/library_item.go`, `label.go`, `internal/jobs/update_labels.go` | `labels`, `entity_labels`, `library_item.label_names` | CreateLabel, SetLabels, label jobs |
| Search | `internal/service/search.go` | none; reads the rows | a page of a listing |
| Accounts | `internal/service/user_create.go` | `user`, `user_profile` | CreateEmailUser |
| Subscriptions | resolver `Subscribe`, `internal/repository/subscription.go` | `subscriptions` | Subscribe |
| Rate limit | `internal/api/middleware/ratelimit.go` | a map of token buckets in memory | Middleware, getLimiter, sweepers |
| API program | `cmd/server/api.go` | HTTP server, pool, Redis | start, SIGTERM, close |
| API keys | `internal/auth/apikey.go` | `api_key` rows, Redis cache | create, validate |
| Fetching | `internal/fetch`, `internal/browser` | browser allocator | FetchContent |
| The rest | configuration, metrics, connections, models, migrations, generated GraphQL | none or constant | |

How they interact:

- The API writes a row in state PROCESSING and then adds a job
  (`saveUrl`: *fetch-content*; `savePage`: upload, then *save-page*). Nothing
  ties the two writes together.
- The content-fetch worker pops *fetch-content*, asks the failure counter of the
  domain and the result cache, fetches, uploads the content and adds a
  *save-page* job to the backend queue.
- The backend worker pops *save-page*, looks the content up in the cache and
  then in the object store, parses it and upserts the row.
- The feed refresh makes *save-page* and *fetch-content* jobs for new entries.
- Users edit the same rows meanwhile, through handlers that read a row in one
  transaction and save every column of it in another; bulk actions, rules,
  read positions and the trash write them from the backend queue.
- SetLabels writes the labels of an item and the column that repeats their
  names; rules and bulk actions write only the first, update-labels jobs only the
  second.
- The TypeScript service that ran before these programs still reports read
  positions, adds sync, prune, bulk and update-labels jobs, schedules refreshes
  and deletes labels; no Go code does.
- Finished jobs are kept by Redis for 1 h (completed) or 24 h (failed) and are
  what the deduplication of chosen job ids looks at.

What is hard here: jobs are popped by several processes and several goroutines
of each; every Redis command can fail or lose its reply; workers are stopped by
a context that is also the context of the calls that record a result; keys
expire under the readers; check and write are separate round trips; statements
of READ COMMITTED transactions see what others commit between them; and nine
kinds of actors write one row.

What makes each part correct:

- **Queue**: a job is in one place and with one worker at a time; it is run at
  most as often as its attempts say; it can be read while it is to be run; it
  ends completed, failed, or with a worker that died or gave it up; a chosen id
  is queued once; jobs settle.
- **Programs**: resources outlive their users, with two exceptions that the code
  makes (section 3); a signal or a prestop call ends the process; a cancelled worker starts no new work but the one in its hands.
- **Save**: a job is about the row that the user sees; a row does not stay
  PROCESSING without a job to come or a nameable reason; what was stored for a
  dated entry of a feed is found again (what `savePage`, `saveUrl` and undated entries store is
  not, section 3); a domain does not stay blocked by its failures, unless too many EXPIREs failed
  (`localhost` and `weibo.com` always are).
- **Feeds**: every new entry is handed over, or given up for a reason the code
  has, whatever refreshes overlap; a feed that was blocked or a subscription
  whose first refresh was not added catches up.
- **Library**: read positions only advance and none is dropped; a bulk action
  reaches every row that matched, and ends; what is put in the trash waits
  there; a client that pages through a listing misses and repeats nothing
  without a reason it can name.
- **Labels**: a call gives an item all of its labels or none; the column of
  names is right when no call has been at work behind its back.
- **API**: no address gets more than its bucket; accounts are whole and unique;
  the limit of feeds holds but for calls that overlap.

PROJECT.json lists every component with its status, and the hazards with their
lines and the properties that cover them.

## 2. Modules

| module | what it is |
|---|---|
| `BullMQ` | the Redis state of one queue; one operator per round trip |
| `JobQueue` | producers, worker processes, faults, the scheduler: the steps that send those round trips |
| `JobLifecycle` | abstract: the life a job is promised |
| `JobOutcome` | abstract: what those who add a job count on, the start and the end of it |
| `WorkerLoop` | abstract: what a worker promises the process it runs in |
| `JobQueueProofs` | the theorems about `JobQueue`, its implementing `JobLifecycle`, `JobOutcome` and `WorkerLoop` among them |
| `Shutdown` | start to end of one content-fetcher, queue-processor or API process |
| `SaveFlow` | one URL of one user, from SaveURL, SavePage or a feed to the parsed row |
| `FeedRefresh` | one feed: Subscribe, refresh-all-feeds, refresh-feed |
| `LibraryItem` | the rows of one user's items: what the three modules below share |
| `ReadPositions` | the positions reported for one item, and the jobs that apply them |
| `Search` | a client that walks through the pages of the default listing |
| `Library` | composes these two with everything else that writes the rows |
| `Labels` | labels of one item, statement by statement |
| `RateLimit` | the token buckets, getLimiter and the sweepers |
| `Accounts` | CreateEmailUser |
| `Subscriptions` | the limit of `Subscribe` |
| `Api` | composes these three behind the middleware |
| `TokenBucket` | abstract: one bucket for an address, of which no client sees that it is deleted and made again |
| `AtomicSignup` | abstract: a sign-up as one step |
| `ApiProofs`, `FeedProofs`, `LabelsProofs`, `LibraryProofs`, `SaveProofs`, `ShutdownProofs` | the theorems about these modules |
| `SearchProofs` | lemmas about pages, for `LibraryProofs` |
| `MCJobQueue`, `MCSaveFlow`, `MCFeedRefresh`, `MCLibrary`, `MCLabels`, `MCApi` | instances for TLC |

### BullMQ and JobQueue

A job is an id. Ids of `AutoIds` come from `INCR`; those of `CallerIds` are
chosen (`AddJobOpts.JobID`) and go through `EXISTS`. A hash is what later code
asks of it: is it there, are its fields there, `attemptsMade`, does it expire.
`active` is a bag: LPUSH adds, `LREM 0` removes all, and no command reads the
order.

| action | code |
|---|---|
| `CheckExists`, `NextJobID`, `StoreJob`, `PushJob`, `AddFails` | `AddBulk`, `bullmq.go` 100-186 |
| `Pop`, `PopReplyLost` | `moveToActive`, 188-237 |
| `GetJob`, `GetJobFails` | `getJob`, 247-273 |
| `Dispatch`, `Drain` | `run`, `queue/worker.go` 51-90 |
| `HandlerReturns`, `CompleteJob`, `FailJob`, `FailJobMoves`, `ResultLost` | `processJob`; `CompleteJob` and `FailJob` of `bullmq.go` 275-322 |
| `Cancel`, `Kill`, `Restart` | the worker's process |
| `HashExpires`, `PromoteDelayed` | Redis; the BullMQ scheduler (external) |

The pipeline of `AddBulk` is split after its HSET, because it is not a
transaction and a popper may come between. The pipelines of `CompleteJob` and
`FailJob` are single steps: between their commands the id is in no list that
any Go code reads. A command sent with a cancelled context fails and has no effect.
A command that fails otherwise is either one that had no effect (`AddFails`,
`GetJobFails`, `ResultLost`) or one whose reply was lost (`PopReplyLost`); the
automatic retries of the Redis library are not modelled.

`JobLifecycle` keeps a state and a number of handler calls per job. `JobQueue`
implements it with the state computed from the lists and from who holds the job
(`JobState`); "lost" is an active job that nobody holds.

`JobOutcome` leaves out how: a job is added, its attempts fail one by one, and it succeeds, is
given up with the last attempt, or is lost with the worker that had it; the record of a finished
job expires and its id is free again. `JobQueue` implements it for the ids of its counter, `SaveFlow`
with each of its two queues, where no job is lost: what `SaveFlow` makes of a queue is what
`JobQueue` shows of one. Callers' ids are the exception: in `JobQueue`
one may be queued twice by two overlapping calls (section 3), in `SaveFlow` the check and the
write are one step.

`WorkerLoop` is the worker without Redis: it polls, has a job that waits for a slot,
or is down; it runs at most `Concurrency` handlers; and its context may be
done. `JobQueue` implements it with any number of workers and all their faults, `Shutdown`
with the one worker of a process that ends: what `Shutdown` assumes of the worker is what
`JobQueue` shows of it. The content-fetch worker and the backend worker have the same loop.

### Shutdown

`service` is chosen in `Init`. `main`, `watcher` and `loop` are program counters
of the goroutine that returns from `run*`, of the signal goroutine of
`runQueueProcessor`, and of `run`. The API has no worker and no prestop: its
server's `Shutdown` waits for the handlers or gives up after 30 s (`gaveUp`, the
number of requests it leaves running), and what is deferred is closed then.
`ServeFails` is an error of `ListenAndServe`, at any time while it serves: the content-fetcher and the
API exit at once, but `runQueueProcessor` returns past `worker.Wait`, and its deferred calls close the pool,
then Redis, and cancel the worker's context last (`failed` is the history of it). Here the drain takes slots one by one, which
`JobQueue` has as one step; a job that was popped before the cancellation
still starts. The queue-processor's main does not wait for its
signal goroutine, so that it may exit while `srv.Shutdown` waits.

### SaveFlow

One row, at most: the unique index on user and URL. Savers go
find, write, upload, enqueue; editors go read, save back. Fetch and parse jobs
are records with their own small state machine; a queue is reduced to what
`JobQueue` shows of it when no process crashes, and implements `JobOutcome` as
`JobQueue` does: run until done or out of attempts. A fetch job has one user; a save-page job that an AddBulk added before it
failed (for the users before, or with its reply lost) is there beside the one of the
retry (`Again`). Asking the failure counter and the cache is
one step. A domain is blocked because it is one of the two that `isDomainBlocked` knows
(`Listed`) or by its counter (`CountedOut`). Redis failures are modelled where the code goes on after
them: a GET of the counter or of the cache that fails, which lets the fetch go on, an INCR, which is then not
followed by the EXPIRE, an EXPIRE (`lost`), a cache write, an upload, an AddBulk. `excused` is a history variable: what happened last is a
named reason for which the row stays PROCESSING.

Times are milliseconds with `MsPerSec` of them in a second, and `Time` is one
second long, so that a time with and without a fraction both occur. A date that
a feed gives passes through RFC 3339 and loses its fraction. The jobs of `Undated` entries have no
`savedAt`, nor have those of `saveUrl`: their content is stored under the milliseconds of the upload.

### FeedRefresh

An entry is its date of publication, and a feed changes once a date at most, so
that the date of its last change stands for its checksum and its build date.
`row` holds what the code reads of a subscription: the most recent date and the
checksum (0 for NULL or empty) and whether `scheduled_at` is NULL, past or to
come. A job id is a set of users, as `refreshFeedJobID` makes it. `Strangers` are
other subscribers, due at any time, whose rows need not be modelled to have
jobs of other groups overlap with a user's own. A job keeps its payload
(`know`), the feed as it was fetched (`page`), the subscriptions that are not
processed yet (`left`) and `fetchContentTasks` (`tasks`).

| action | code |
|---|---|
| `Subscribe` | `Subscribe` of a new feed, `enqueueRefreshFeed` |
| `HandleRefreshAllFeeds` | the query and AddBulk, `refresh_all_feeds.go` |
| `RefuseBlocked`, `FetchFails`, `Fetch` | `HandleRefreshFeed` 91-123 |
| `SkipSubscription`, `ProcessSubscription` | `processSubscription` 164-326 |
| `EnqueueTasks` | `enqueueFetchContentTasks` and the end of the job |
| `Kill`, `JobExpires`, `FailuresExpire` | the process; Redis |

`got` and `leftOut` are histories: what a job was added for, and what the code
gave up: over the cap, too old for a subscription without a date, a save or an
AddBulk that failed and was logged, a worker that was killed. The row and the
AddBulk of `Subscribe`, and the query and AddBulk of `HandleRefreshAllFeeds`, are one step:
the job waits with its payload in any case. Items without a date and items that
appear after a younger one are left out, and so is subscribing again to a feed
that was given up, which no Go code allows to give up.
`recent-saved-item` keys are read by the refresh and set by no Go code.

### LibraryItem, ReadPositions, Search, Library

A row is its state, folder, read position and deleted_at (days, up to the first on
which it counts as overdue). A step is one transaction: an UPDATE with a
subselect writes what it selects, so a batch of a bulk action is one step that takes
any rows PostgreSQL may choose. A handler is two: GetByID, and a Save of the
columns that were read. `Save` falls back to an INSERT when the row is gone.

| action | code |
|---|---|
| `Post`, `MinutePasses` | the clients (external), time |
| `ReadMembers`, `UpdateProgress`, `RemoveMembers`, `SyncFails` | `syncReadKey`: SMEMBERS, UPDATE, SREM |
| `NextPage` | `SearchService.Search` |
| `GetByID`, `SetLinkArchived`, `DeleteItem`, `UpdateItem` | resolvers and `internal/api/handler/article.go` |
| `HandleBulkAction`, `UpdateBatch`, `BulkFails` | `bulk_action.go` |
| `ApplyRules` | `applyRuleAction`, `trigger_rule.go` |
| `PruneTrash`, `DayPasses` | `prune_trash.go`, its procedure of migration 0181 |
| `SaveItem` | the INSERT of a save |

`model.LibraryItem` has no `deleted_at`: jobs set the column, the API neither
reads nor writes it, and so `Saved` keeps it. Histories: `posted`, `applied` and
`restarted` (columns that a position of 0 or an edit set back), `came` and `left`
(items that entered and left the listing during a walk), `want`, `hit` and
`disturbed` of a bulk action, and `bin`, who put an item in the trash and how many
days ago.

### Labels

Transactions are READ COMMITTED, so SetLabels is five steps: the DELETE takes its
snapshot, gets its row locks once nobody else has deleted one of those rows, the
INSERTs, the UPDATE reads the names, and writes them when it has the item's row,
with the COMMIT. An INSERT whose label is gone aborts the whole transaction: in
SetLabels as an error, in rules and bulk actions although the error is only logged
and the transaction goes on to its COMMIT. `CreateLabel` looks for a name
regardless of case in one transaction and inserts in another. The
highlight of an `entity_labels` row is NULL, so that its unique constraint never
holds a second row back; rows are therefore named after the call that wrote them.
`missed` is a history: commits of rows since the names were read.

### RateLimit, Accounts, Subscriptions, Api

A limiter is a number: the map has the current one of each address, and calls may
hold one that has left the map. `Middleware` is called for every request
(`ApplyToPrefix`), so each request starts a sweeper that never stops. The window of
`OpenWindow` may begin at any moment. A sign-up inserts a user and a profile in one
transaction whose uncommitted rows (`open`) block equal INSERTs; a lost
connection leaves it rolled back, or committed with the reply lost. Subscribe looks the
feed up, counts and saves in three transactions. `Api` lets a sign-up or a Subscribe
begin once its call was admitted.

`RateLimit` implements `TokenBucket`: the level of an address is that of the limiter in the map,
or a full bucket when there is none, and a call that holds a limiter the sweeper has removed is
`late`. `Accounts` implements `AtomicSignup`: the account appears with the COMMIT, and a
call is turned away while the account it collides with exists.

## 3. Runs

| run | instance | what it shows |
|---|---|---|
| `queue_faults` | 2 producers, 2 workers x 2 slots, 2 ids, all faults | the invariants of the counter's jobs, and both refinements |
| `queue_live` | 1 producer, 2 workers x 1 slot, an id of each kind, stops, fair | jobs settle, a cancelled worker exits, one producer keeps a chosen id single, a job is left active only by a worker that is stopped |
| `queue_stop` | 1 worker that may be stopped | *violated*: an in-flight job gets no result |
| `shutdown` | the three programs, 2 slots, 1 request, a server that may fail, fair | resources, the worker's loop, ending: no circular wait, each step is one of a bounded number, and under fairness the process ends |
| `save` | casts of saveUrl, savePage, a feed's dated and undated entry, a listed domain, an edit, late failures, fair | one row, why it may stay PROCESSING, the names of dated entries agree, what a counter without an EXPIRE has counted, saves settle, blocks by the counter end, both queues implement `JobOutcome` |
| `feed` | a user among others, 3 dates, one fault, fair | no entry is lost silently; each arrives |
| `feed_seen_once` | one user, no faults | *violated*: an entry is handed over again |
| `save_page_blob` | one savePage, or one saveUrl | *violated*: the page is not found where it was put |
| `library` | eight scenes over one to three items, fair | positions, pages, bulk actions, trash |
| `trash` | one item, a rule, two edits, time | *violated*: an item is pruned too soon |
| `labels` | three casts over four labels and one item | whole label sets, current names |
| `api` | three casts of sign-ups and Subscribe calls, two addresses | rate bound, whole accounts, the limit of feeds, and both refinements |

Why the bounds are enough. Two workers and two producers are the smallest
number that race; two slots let one worker hold two jobs, and drain while both
run. Attempts are 2 for one id, so that it fails, is retried and is given up,
and 1 for the other; one id has a priority and one has not, so that both lists are
used. `MaxAdds` lets a chosen id be added again after its hash has expired. In
`SaveFlow` two savers of each kind meet at the unique index and at the
deduplication of job ids. `Casts` are the sets of calls that meet in a behaviour: every pair of
kinds that touch the same row or key meets in one of them, two saveUrls that share a request
and a savePage in one more, where the domain is a listed one. `MaxFailures` of 1 lets a domain be blocked within the
attempts of the jobs there are; `MaxLost` of 2 lets so many EXPIREs fail that the block
stays: a blocked domain is not fetched, so nothing sets the EXPIRE again. The run reaches such a block, and
`BlockIsLifted` excepts it by name (`lost > MaxFailures`). The undated entry is alone with late failures: without
a date its job is what a saveUrl's is, with another number of attempts.
In `FeedRefresh` two groups have the user, so that two refreshes with payloads of
different age overlap; three dates give an entry that is seen, one that is
published and one change more; `Day` of 1 makes the first entry old at the end, `MaxItems` of 1
lets the cap drop an entry, `MaxFailures` of 0 lets the one fault block the feed.
The one fault is any failing fetch, failing command or killed worker, at any
moment; the theorem about `NothingMissed` is for any number of faults and dates.
In `Library` a scene is a set of rows and of actors: the actors that write or read the same
columns meet in one of them, in twos or threes; all at once would only add
independent steps. Three items and a `BatchSize` of 2 make two batches of which the
second is not full, and a `PageSize` of 2 makes two pages; two positions are each
further in one column; `NumDays` of 1 has a day before, on and after the limit; one fault
falls at any moment. In `Labels` two calls of SetLabels, a rule and a job
overlap, or three calls of SetLabels, for the waiting of a DELETE for a DELETE. In `Api` the bucket has two
tokens, so that the third call needs a refill or a new limiter, and two limiters
let a sweeper replace one; one tick of the clock refills, and more would repeat it; three sign-ups share an email two by two and a username
two by two. The theorems hold for all of these numbers.
Deadlock checking is off: producers run out of ids, calls and processes end.

Symmetry is used in `queue_faults` only, over producers and workers; it checks
no liveness property.

Fairness. `JobQueue`: the goroutine of a running worker is scheduled, handlers
return (fetches and transactions have timeouts) and Redis answers; a pushed
AddBulk goes on; nothing makes a producer begin. `PromoteDelayed` is fair: a
BullMQ scheduler is assumed, which only the TypeScript service has.
`Shutdown`: goroutines and the handlers that fetch content go on, which run under timeouts; a request to the
API need never end, which is what its 30 s are for; signals, requests and prestop calls
need not come, nor the server fail; `Pop` may find no job for ever. `SaveFlow`: calls that have begun
and jobs go on, and Redis expires the failure counter; edits, feeds and the
expiry of the cache need not happen. `FeedRefresh`: refresh-all-feeds comes again
and again (its scheduler is outside this repository), jobs go on, scheduled
times come, finished jobs and the failure counter expire; failed jobs are promoted there at once.
`Library`: only the batches of a bulk action that has begun; nobody need report, edit,
prune or page. `Labels` and `Api` state no liveness.

Where code and documentation differ. A run shows each of these:

1. `Wait` "blocks until all in-flight jobs complete"; they are abandoned in the
   active list, because their results are sent with the cancelled context (`queue_stop`).
2. Blob names are documented in milliseconds; `SavePage` writes seconds, and the
   job it adds has no `savedAt` to look with (`save_page_blob`). For a job without `savedAt`, that of a `saveUrl` or of an
   undated entry, `ProcessFetchContentJob` does the reverse: it stores under `time.Now()` in milliseconds, and
   its save-page job looks for the second. That job reads the cache first, so it fails only once the cached result
   has expired or was never cached.
3. `IsOldItem` skips, for an "existing subscription", what was seen; a refresh
   that finds the feed changed and nothing new sets the date to NULL, and the
   subscription counts as new: the newest entry is handed over again, and
   entries that are a day old when the next refresh comes are skipped.
   `NothingMissed` counts these as given up (`feed_seen_once`).
4. `HandlePruneTrash` deletes "trash items older than numDays"; an item that a rule or a bulk action
   put in the trash keeps its `deleted_at` when it is restored, and is pruned
   at once when it is deleted again through the API (`trash`). One that was only ever deleted
   through the API has no `deleted_at` and is never pruned.

These are read from the code, and visible in the models, without a run of their own:

- `AddJobOpts.JobID` promises that an existing id is not added again
  (`bullmq.go` 95); `AddBulk` checks and stores in two round trips, so that two producers
  of one id both add it. `OneCopy` is proved for calls that do not overlap (`NoOverlap`).
- `FailJob` "re-queues it for retry" (`bullmq.go` 288); the delayed set is read by
  no Go code, and without the TypeScript scheduler no job is retried.
- When `ListenAndServe` of the queue-processor fails (`queue_processor.go` 84: the port is taken, Accept
  fails), the pool and Redis are closed under the jobs that run: `worker.Wait` is skipped and the
  context is cancelled last. The API closes its pool under requests that take longer than 30 s. `NoUseAfterClose`
  names these two, and no others.
- The content-fetcher's prestop "signals the worker to stop" (`server.go` 48); it only
  waits, and `httpServer.Shutdown` waits for it before the worker is cancelled.
  `ProcessEnds` excepts this case.
- `SetLabels` "replaces all labels for a library item" (`library_item.go` 71); two
  overlapping calls leave the union, because the DELETE of the second does not see
  the rows of the first. Rules and bulk actions leave `label_names` stale until an
  update-labels job comes. Two labels may differ in case only.
- MARK_AS_READ, MARK_AS_SEEN and a move that stays within its query may take the
  rows of an earlier batch again and leave others; `BulkReaches` excepts them.
- The anchor of a position is compared with the percentage (`sync_read_positions.go`
  127), so it may go back; `FurthestKept` is about the percentages.
- `Save` of a row that was pruned meanwhile inserts it again.
- The upsert of a save-page job sets SUCCEEDED over an item that was archived or
  deleted while it was parsed.
- `highlight.deleted_at` (`model/highlight.go` 38) is created by no migration, so
  the statements that name or write it (the two lists, Create and Update) fail on this schema, while
  GetByID and Delete work; `expire_folders` (migration
  0182) has a parameter inside a quoted interval and fails when it is run.

## 4. Proofs

`JobQueueProofs` proves for all finite or infinite sets of jobs, producers, workers and slots,
for all attempts and priorities, and with every fault allowed or not:
`TypeCorrect`, `SinglePlaceCorrect`, `SingleRunnerCorrect`,
`RunsBoundedCorrect`, `RetryBudgetCorrect`, `JobReadableCorrect`, and the
refinement `ImplementsLifecycleCorrect`. The
assumptions are those of the modules: the two kinds of ids are disjoint,
attempts and priorities are naturals, `NoJob` is no job, and the slots are finitely many.

`RunsBounded` and `RetryBudget` are named for these theorems; the run checks them as part of
`JobLifecycle`, whose guards they are. None of the five properties is inductive. That a job is in one list
only says nothing of the producer that is about to push it, nor of the
goroutine that is about to move it out of `active`. The invariant `IndInv` says,
for each job of the counter, where its single token is: not issued, in the
hands of one producer, in one list, or active and then held by at most one loop
or goroutine; and for each of these places what its hash, its `attemptsMade` and
the number of its runs are (`runs` at most one ahead of `attemptsMade` while a
goroutine holds it, `attemptsMade` below the limit while it is delayed or
waiting again, and so on). Facts about single steps come first (what a push or
a pop does to a sequence), then one lemma per group of actions (`ProduceJob`,
`PollJob`, `ProcessJob`, `OutsideJob`), then `Inductive`; each property follows
from `IndInv` in a state. For the refinement, `StatesAre` reads off the invariant which abstract
state a job has in each place, and `Same` says what leaves it there; then every step moves one job as
an action of `JobLifecycle` (`ProduceStep`, `PollStep`, `ProcessStep`), loses what a killed
process holds (`OutsideStep`), or stutters. That a job starts only with an attempt left,
and is delayed or given up by the counter, is where the invariant's counts are needed.

Five more theorems about the queue:

- `OneCopyCorrect`: with `[]NoOverlap`, an id chosen by the caller is queued, delayed or active
  at most once and held by one goroutine. The hypothesis is about the callers only: no two
  calls of `AddBulk` work on the same chosen id at a time. Without it the code does break the
  property (section 3). `IndInv` says nothing of these ids, which may be
  added again; `CallersInv` does: where an id is (`OnePlace`), who holds it (`OneHolder`), and
  that whatever is queued or held has a hash that does not expire, which
  is what makes `EXISTS` refuse a second copy (`Guarded`).
- `OneProducerOneCopy`: one producer never overlaps with itself, so that there the
  property has no hypothesis.
- `LostOnlyToStopCorrect`: a job of the counter is left behind in `active` only in a step of a
  worker that was cancelled or is killed, unless a Redis call may fail (`Faulty`). Each of the steps
  that moves a job out of a goroutine's hands is followed to the abstract state that it leaves the job in.
- `ImplementsOutcomeCorrect`: `JobQueue` implements `JobOutcome`. It follows from the refinement of
  `JobLifecycle`, step by step: a run that starts is an attempt that has not failed yet, one
  that is delayed has failed, and moves between lists and hands are stutters (`LifeOutcome`). For this
  reason no run checks it: `queue_faults` checks what implies it.
- `ImplementsLoopCorrect`: `JobQueue` implements `WorkerLoop`, with `Concurrency` the number
  of slots. A handler ends in the step that empties its task, and a worker that exits has none left because it
  drained every slot.

`ShutdownProofs` proves `TypeCorrect` and `NoUseAfterCloseCorrect` for any number of slots and requests. `NoUseAfterClose` is about
the moment something is closed; what makes it true is spread over three
goroutines: main gets to the closing only after the loop has exited, the loop exits only
with every slot drained, a drained slot was free, and no request begins once the
server is shut. Its two exceptions are what the code does: the jobs of a queue-processor whose server
failed, and the requests that the API gave up on. The invariant counts slots (`busy` and the drained ones
fit in the semaphore) and ties each program counter to what the others
have passed. `ImplementsLoopCorrect` follows from
the same invariant, and with it that one handler at most starts after the context is done.

That a process ends is liveness; two theorems hold its core, without any fairness.
`NoCircularWaitCorrect`: once the end has been asked for, some goroutine of the process can move,
except where the content-fetcher's prestop handler and main wait for each other. The guards it
names (`WorkerCan`, `HandlerCan`, `WatcherCan`, `MainCan`) are written out, since ENABLED is beyond the prover.
`EndInv` adds what waits rest on: a watcher that has woken has cancelled the
context, a prestop handler that replies is one whose worker has ended, main does not
get to the waits of another program. `EndingShrinksCorrect`: once the listener is closed and
the context is done, every step makes `Distance`, a natural, smaller. So there are
finitely many steps left, one of them can be taken, and nothing but fairness is
missing from `ProcessEnds`.

`LabelsProofs` proves `LabelsWholeCorrect` and `NamesCurrentCorrect` for any calls,
labels and names. `NamesCurrent` speaks of the column after a COMMIT, while
the names were read before: the invariant `IndInv` says for each transaction that what it
has read is what it would read now, unless one of the commits in `unseen` came between
(`ColumnInv`); this in turn needs that nobody else deletes a row that a transaction has
deleted (`GoneInv`, `SeenInv`), that rows of open transactions are not yet
there (`AddedInv`) and that a call wrote either all of its labels that still exist, or none (`RowsInv`).

`ApiProofs` proves `RateBoundCorrect`, `AccountsWholeCorrect` and `QuotaKeptCorrect`,
for any calls, addresses, burst, window and limit. For the rate: the calls that were allowed
plus the tokens left in the limiter of the map are at most a full bucket plus time plus
the strays; a sweeper only takes a full bucket, whose successor is no fuller. For
accounts: an open transaction has its user and nobody else's email. For the
limit: as long as a counted call is not stale, the count it made still stands.

`ImplementsBucketCorrect`: every step of the limiters is one of `TokenBucket` or a stutter. A limiter
that is made is full, and so was the bucket, since a sweeper deletes only what is full; two
calls that both miss the map agree on the limiter of the one that comes first. `ImplementsAtomicSignupCorrect`: the
step that answers a call is the step that makes the account, or that finds one in the way; a lookup before
it is a stutter. It needs that an account once committed stays, so that a
refusal that is decided by a lookup is still true when it is given.

`SaveProofs` proves `TypeCorrect`, `RowBeforeJobCorrect`,
`ProcessingIsPendingCorrect` and `FeedPathsAgreeCorrect` for any calls, requests,
feed jobs, edits, times and failures. `RowBeforeJob` speaks of jobs, which have
their item from a call or from the job before them: `SaverInv` says that a call that knows an
item knows the row's, `JobInv` that a job's item is that of a call, of its feed or of the
fetch that added it. `FeedPathsAgree` compares a stored name with one that is computed later, in another process:
`DateInv` says that the date of a dated entry is one that printing and parsing keep (a multiple of the seconds)
and that all its jobs have it; `BlobInv` that whatever was stored for
its item, if no call has saved it, carries that date, which a retried fetch and a second job keep.
For undated entries and for saveUrl neither is so, and the theorem says nothing.
`ProcessingIsPending` needs `JobInv` and `EditorInv`: a state that is written back
was read from a row.

`ImplementsQueuesCorrect`: every step of `SaveFlow` does to its fetch-content jobs, and to its
save-page jobs, one action of `JobOutcome` or nothing. Two things could go wrong: an AddBulk that
puts its job over one that is there, and a count of failures that outlives its job. `QueueInv` excludes both: the second
save-page job of a retried fetch is the last thing that it adds, so that it is not there
when it is added, and a job that is new or finished has counted no failures. A fetch
job adds to the other queue in the step that may end it, so that each queue is followed alone.
No run checks `TypeOK` of `SaveFlow`, which is proved.

`UntimedFailuresCorrect`: a counter without an EXPIRE has counted no more failures than there were EXPIRE
calls that failed and jobs that are between their INCR and their EXPIRE. `CounterInv`
adds only that these jobs are finitely many; the lemmas follow one job into and out of
`Counting` and the counter through its expiry. `BlockHasTimer` is what follows for a
domain that its counter blocks and no job is counting for, as long as no more than `MaxFailures` EXPIREs have
failed: its counter has an EXPIRE. This is the part of `BlockIsLifted` that needs no fairness.

`FeedProofs` proves `TypeCorrect` and `NothingMissedCorrect` for any users, groups, dates,
caps and failures. An entry that a subscriber has yet to get and a refresh that is about to leave it out
are far apart: the page was fetched under a payload that was made from the row before. The invariant says that a
page is the feed up to the date of its last change (`Copy`), and that whatever a payload that is
queued or in work says to be seen has been handed over or given up (`Payload`), which stays so.

`LibraryProofs` proves `TypeCorrect`, `NoneDroppedCorrect`, `FurthestKeptCorrect`,
`WalkExactCorrect`, `BulkReachesCorrect` and `TrashWaitsCorrect`, for any items, members,
calls, jobs and scenes, any batch size and any size of page. Facts about rows come first: what each
statement may make of one (`RowMoves`, one disjunct for each writer). Then
- `SyncInv`: what a call has read was posted, and is applied before it is removed;
- `BulkInv`: what the filter matches now is what the job wanted less what it hit, and
  the job has counted nothing twice in an attempt, until somebody else moves an item;
- `BinInv`: what a job put in the trash has been there for at least as long as `deleted_at` says;
- `WalkInv`: the rank of an item is the number of items up to it (`RankCounts`, two pigeonholes), and so what the
  walk has yet to show ranks behind its offset while nothing leaves, and what it has shown does not while nothing comes.

All of these assume only what the modules assume of their constants, each an
ASSUME that TLC evaluates. One of them is about data: reported positions are percentages, at most
100, as the clients send them (MARK_AS_READ writes 100, which must be the furthest).

Only model-checked: the seven liveness properties, `EveryJobSettles`, `DrainFinishes`, `ProcessEnds`,
`SaveSettles`, `BlockIsLifted`, `EntriesArrive` and `BulkEnds`. Liveness under
fairness is beyond the prover. Every other property of a passing run is a theorem.

## 5. Not modelled

- Generated GraphQL code and models, more than half of the lines of the
  repository's Go code, are data types and marshalling; parsing, readability, slugs, URL cleaning,
  query parsing, templates, configuration and metrics are functions of their input with no
  protocol.
- Network and browser I/O: their outcomes are choices of `SaveFlow` and `FeedRefresh`.
- Thumbnails, content uploads and webhooks: one request or one UPDATE that needs no
  agreement with anything. Highlights: what works on this schema (section 3) is a read and a
  DELETE of one row. Folder expiry: its statement fails on it.
- API keys and tokens: functions of a request and a row; the cache of keys has an
  expiry and no promise about it. Sign-in and cookies change no shared state.
- Migrations, run once by an operator.

PROJECT.json gives the reason for each component.
