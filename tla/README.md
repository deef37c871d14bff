# A verification project for DigitFlow

DigitFlow downloads a catalog of digit files from an external HTTP service exactly once, stores them with per-digit
statistics, and shows progress and totals on a web page. This directory holds TLA+ models of its core, the TLC runs that
check them on small instances, and TLAPS proofs for every value of the constants. Paths below are relative to the
repository root.

## 1. The system

| component | state it keeps | operations | talks to |
|---|---|---|---|
| Run lifecycle (`app/services/runs.py`, `app/models.py`) | rows of `download_run`: status, error, started_at; a partial unique index over active rows | `claim_run`, `start_running`, `set_run_status`, `finish_run`, `fail_unpublished_run`, `reap_orphan_runs`, `find_active_run` | PostgreSQL; reads the owner of the lock |
| Runs API (`app/api/runs.py`, `app/task_queue.py`) | none of its own | `POST /api/runs`, `GET /api/runs/current` | rows, the reaper, RabbitMQ, progress store |
| Task adapter (`app/worker/tasks.py`, `celery_app.py`) | one asyncio program per delivery | `execute_run`: claim, lock, verify, reap, start, reset the limiter, run, release | everything |
| Download lock (`app/worker/lock.py`) | one Redis key with a TTL; a heartbeat task and a `lost` flag per holder | acquire (or re-adopt), `ensure_owned`, extend, release | Redis |
| Download loop (`app/worker/downloader.py`) | counters of the run, the stale counter, the chunk in hand | names, chunks, save, confirm, isolate, pause | client, lock, file table, run row |
| Client and archive validation (`client.py`, `archive.py`, `errors.py`) | the attempt counter of a request | the three endpoints, retries, parsing | limiter, external service |
| Rate limiter (`ratelimit.py`) | two Redis keys: next allowed moment, interval | reserve, penalize, reset | Redis |
| Progress store (`app/progress.py`) | one Redis hash | publish, read | worker writes, API reads |
| Files and statistics (`app/api/files.py`, `stats.py`, `app/services/stats.py`) | none | paged listing, totals and breakdown as of a moment | file table |
| Front end (`static/app.js`) | the run shown, poll timer, selection, statistics snapshot, two generation counters | start, poll, load, calculate, turn | the API |
| Schema, configuration, time, wiring, stub service, deployment | settings | - | - |

How a run goes: the API inserts a `pending` row and publishes a task; a worker claims the row (`starting`), takes the lock,
verifies it, reaps orphans, moves the row to `running`, and hands over to the loop; the loop repeats names, download,
save, confirm, moving the row between `running` and `waiting_retry`, and closes it (`done` or `failed`); the lock is
released. Meanwhile the page polls, and every poll reaps as well.

What makes it hard:

- several parties change one row, and each has read something (a status, the owner of the lock, an age) some awaits earlier;
- the queue delivers at least once, a failed publish may be a successful one, and a lost answer of Redis, PostgreSQL or the
  external service may be a successful operation;
- the lock expires, so its loser keeps working until its next check, beside the winner;
- confirming a file to the external service cannot be undone, and an empty list of names is the only sign of completion;
- after a crash nothing but a poll gets the service out of an active row that nobody works on.

What makes each component correct: the lifecycle keeps at most one active run, only moves rows forward, and never closes
a run that owns the slot behind its back; the task adapter lets one delivery of a run work and releases only its own
lock; the loop confirms only what is committed and sound, never calls a partial catalog done, loses no healthy name to
a bad one, and ends; the limiter keeps requests apart and remembers what a 429 taught it; the statistics describe one moment; the
screens never show an answer that has been superseded. `PROJECT.json` lists under `hazards` each place where one of these can go
wrong, with its line and the properties that would notice.

## 2. Modules

| module | role |
|---|---|
| `RunLifecycle` | API handlers, broker, workers, lock and rows together |
| `DownloadService` | what the lifecycle promises, independent of who drives it |
| `MCRunLifecycle` | symmetry of the instances |
| `RunLifecycle_proofs` | theorems about `RunLifecycle` |
| `DownloadLoop` | the loop, the client's retries, the file table and the external service |
| `CatalogSync` | what downloading a catalog promises |
| `MCDownloadLoop` | symmetry of the instances |
| `DownloadLoop_proofs` | theorems about `DownloadLoop` |
| `RateLimiter` | the pace of requests, with a clock, key lifetimes and overlapping runs |
| `MCRateLimiter` | symmetry of the instances |
| `RateLimiter_proofs` | theorems about `RateLimiter` |
| `RunLock` | the download lock on a clock: TTL, heartbeat, late round trips |
| `RunLock_proofs` | theorems about `RunLock` |
| `RunProgress` | the row of a run, the progress record, and an observer that reads one after the other |
| `RunProgress_proofs` | theorems about `RunProgress` |
| `DownloadScreen` | the download page over the two endpoints for runs |
| `DownloadScreen_proofs` | theorems about `DownloadScreen` |
| `FilesApi` | the file table as transactions write it and as the two paged requests read it |
| `FilesScreen` | the files page over `FilesApi` |
| `FilesScreen_proofs` | theorems about `FilesScreen` |
| `LatestRow` | a lemma for both models of the latest run |
| `MCRunLock`, `MCDownloadScreen`, `MCFilesScreen` | model values and symmetry of the instances |

### RunLifecycle

| variable | code |
|---|---|
| `status`, `error` | the columns of `download_run`; `"absent"` is an id not inserted yet |
| `overdue` | `started_at` is further back than `run_pending_grace_s` or `run_starting_grace_s`; `claim_run` writes a new `started_at` |
| `lock` | the key `dl:lock:run` |
| `queue` | the tasks the broker will still deliver |
| `pc`, `job` | where a handler or a task stands between two awaits, and for which run |
| `seen` | the candidate `reap_orphan_runs` has read and will judge later |
| `hold` | `RedisRunLock`: not held, held with a live heartbeat, or marked lost |
| `verdict` | what the next `finish_run` of the task will record |
| `requested` | the runs for which an external request was sent |

Everything between two awaits that touches shared state once is one action. A conditional UPDATE is atomic in PostgreSQL, so each is
one action, and a miss leaves the row alone. The reaper is three actions (`ReapSelect`, `ReapOwner`, `ReapClose`), shared by both
endpoints and the worker as `reap_orphan_runs` is. Its age test is exact while the row is as it was read and free once the row has
moved, since `started_at` may have been rewritten. The set of source statuses of each UPDATE has a name (`ClaimFrom`, `StartFrom`, ...).

What the environment may do at any moment: the lock's TTL runs out or Redis restarts empty (`LockExpires`), a heartbeat fails, a
statement of PostgreSQL fails (`DatabaseFails`), Redis does not answer (`ReapOwnerUnavailable`, `AcquireUnavailable`, the
failing branch of `EnsureOwned`, `ReserveUnavailable`), a handler or a worker dies, a task is delivered again while its worker lives.

### DownloadLoop

| variable | code |
|---|---|
| `owner` | the run in the lock |
| `stored` | committed rows of `file`; `Corrupt` is a row whose hash, length or counters disagree |
| `marked` | what the external service takes for downloaded |
| `late` | confirmations the client gave up that may still arrive |
| `frame[r]` | the local variables of the coroutines of run `r`: the operation `_await_pauses` runs, the attempt of `_request`, the chunk, the refused chunk being isolated, the open transaction, the counters |

`Insert` is one `INSERT .. ON CONFLICT DO NOTHING` with `_verify_existing`; it waits while another open transaction holds the
name, as the unique index makes it, and `DeadlockVictim` is PostgreSQL ending a cycle of such waits. The names of an answer
are a set taken in any order, which is every order of the list. Downloads may be refused at will: a 404 and a bad archive
have the same effect in `_process_chunk`. Validation is what it lets through: exactly the names asked for. The service is
external: it answers names that need not be new, an empty list only when everything is marked, and counts what it had not
marked before. A content is a value; two runs may be handed different contents for a name.
The ownership check the code makes twice in a row before a confirmation is one step.

### RateLimiter

| variable | code |
|---|---|
| `now` | the clock of Redis, in units of the model |
| `next_allowed`, `interval` | the two keys with the moment each one lapses |
| `owner` | the run in the lock |
| `frame[r]` | where run `r` stands: clock read, script, sleep, request, the two commands of `penalize`, pause, the resets; and what it carries from one round trip to the next |
| `reset_at`, `sent` | history: when the keys were last cleared, and how many requests went out since |

A step takes no time and any time may pass between two steps, so a stalled event loop, a slow Redis and an oversleeping timer
are all covered. The reservation is two round trips, as in the code: the script is atomic, the clock it is given may be
old. A 429 is three steps (answer, read, write), so that overlapping runs and resets fall in between. Resets ask
nobody for ownership, and the last one comes after the lock is released. The attempts of a request are counted in
`DownloadLoop`; here a request is retried any number of times.

### RunLock

| variable | code |
|---|---|
| `owner`, `left` | the key `dl:lock:run` and its remaining lifetime |
| `at` | where the coroutine of `hold()` stands |
| `sent`, `leg`, `answer` | the script the task has sent last; whether the command, its answer or the heartbeat's sleep is under way; what the script returned |
| `wait` | how long until the next step is due, below zero by how much it is late |
| `lost` | `RedisRunLock.lost` |
| `disturbed`, `flushed`, `unaware`, `abandoned` | history: the task may have been late or was failed by Redis; Redis has restarted; how long a task has worked on a lock it does not have; how long a key has named a task that is over |

`RunLifecycle` lets the lock expire at any moment, which is what its parties must survive; `RunLock` says when that happens. The two
are kept apart, as a clock in the former would multiply its states without adding a behaviour. Each leg of a round trip and each wake-up may be
late by `Delay`; a `disturbed` task may be late for ever. A task that dies, or gives up an acquire, leaves what it has sent under way.
The heartbeat that is cancelled at the end may have a command under way, which is left out: before the release it is undone by it, after it it finds no key.
The heartbeat and `ensure_owned` are separate commands in the code; `ensure_owned` is one step here,
which only marks the lock lost when it is.

### RunProgress

| variable | code |
|---|---|
| `row` | status, counters and the pause (`waiting_retry`) of a row of `download_run` |
| `worker` | where the runner stands, `_names_seen` and `_files_saved` as one counter, the pauses it has had |
| `progress` | the Redis hash `dl:progress`: the run, the counters, the deadline, named by the number of its pause |
| `dropped` | history: runs one of whose publications was lost |
| `poll` | how far `GET /api/runs/current` is, and its answer |

The record is one for the service, the row is closed by whoever comes first, and the runner works on until it notices. What moves a row and when is in
`RunLifecycle`; here any of its moves may come at any time. `read` answers with the record or, when Redis or the decoding fails, with nothing.

### DownloadScreen

| variable | code |
|---|---|
| `status` | the rows |
| `shown`, `enabled`, `starting` | `downloadScreen.run`, the start button, `downloadScreen.starting` |
| `timer`, `poll` | `pollTimer`; the polls under way and what they have read |
| `post` | the request of a start, with the row it has created |

A poll reads the row at some moment between sending and answer, and answers overtake each other. A start that fails may have created a row. Somebody else's
start and the end of a run come at any time.

### FilesApi and FilesScreen

| variable | code |
|---|---|
| `file` | a row of `file`: not there, inserted by an open transaction, committed, rolled back |
| `page`, `order`, `items`, `buttons`, `table` | the controls of the table, the answer it was drawn from, its buttons, whether it shows rows, an error, or rows redrawn over an error |
| `listing`, `latestListing` | requests of the table, and the one whose generation is `filesGeneration` |
| `selected`, `selectAll`, `noticeHidden` | the selection that is edited; the notice `stats-stale` |
| `snapshot`, `statsPage`, `statsPages`, `statsButtons` | `filesScreen.stats` and its buttons |
| `stats`, `latestStats`, `result`, `statsFailed` | the requests for statistics, the latest one, what is on the card, whether the last one failed |

Rows are named by their stamps: `downloaded_at` is taken before the insert, and rows become visible in the order of the commits. Each request is its statements:
two for a listing; cut-off, totals and breakdown for statistics. The order of a listing stands for its page size too, since both go back to
page one and load again. The id of a row breaks ties of stamps in the code; here stamps differ.

## 3. Runs

One run is expected to end in a violation: it states what a document says and the code does not do (section 6).

| run | instance | checks | states, about |
|---|---|---|---|
| `lifecycle_takeover` | 2 runs, 2 workers, 1 start handler | `TypeOK`, `OwnersRowIsOpen`, `UnstartedRunsAreSilent`, `ReaperSparesOwners`, `SlotStaysWithItsRun`, `RunsOnlyAdvance`, `ExecutedOnce` | 1.2 million |
| `lifecycle_starts` | 2 runs, 1 worker, 2 start handlers | `OneActiveRun`, `ImplementsService` | 1.4 million |
| `lifecycle_liveness` | 1 run, 2 workers, 1 start handler, 1 poller | `EveryRunCloses` | 130 thousand |
| `sync_alone` | 3 names, chunks of 2, 1 run, 2 attempts everywhere | `TypeOK`, `DoneCountsAgree`, `HealthyNamesSurvive` | 1.1 million |
| `sync_liveness` | 2 names, 1 run, 2 attempts everywhere | `HandedOutIsBounded`, `EveryStepCounts`, `EveryRunEnds` | 87 thousand |
| `sync_takeover` | 2 names, 2 contents, 2 runs, 1 attempt everywhere | `ConfirmedAreStored`, `ImplementsCatalogSync` | 640 thousand |
| `pace_shared` | 2 runs, clock to 6, interval 2 to 4 | `TypeOK`, `RateIsBounded`, `QueueIsShort`, `PaceSurvivesPause` | 3.8 million |
| `lock_timed` | 2 tasks, TTL 6, heartbeat 2, delay 1 | `TypeOK`, `HeartbeatKeepsLock`, `LossIsNoticed`, `AbandonedLockExpires` | 720 thousand |
| `progress_read` | 2 runs, 1 count and 2 pauses each | `TypeOK`, `CountersAreTheRunsOwn`, `CountdownIsNotStale` | 1.8 million |
| `screen_download` | 2 runs, 2 polls under way | `TypeOK`, `PollingNeverStops`, `ScreenSettles`, `StartIsOffered` | 8 thousand |
| `screen_files` | 2 rows, pages of 1, 2 transactions, 2 requests of each kind, 4 clicks | `TypeOK`, `ListingMatchesControls`, `ShownBelongsToSnapshot`, `OneCutOff`, `SettledPagesAgree`, `NoRowIsMissing`, `NoticeIsTrue` | 1.3 million |
| `lifecycle_parallel` | 2 runs, 2 workers, 1 start handler | `RequestsNeverParallel` (section 6) | violation |

Why the bounds are enough. A conflict in the lifecycle needs a run that is being left behind and one that takes over, hence two
runs; a second delivery needs a second worker; the race past `find_active_run` needs two handlers. Ids are used once, so
two runs bound the history to one takeover; the proofs lift this. The poller appears where liveness needs it: for safety it
is a start handler that stops after reaping. Three names with chunks of two give a full and a short chunk in one
iteration, and a bad name beside a healthy one in both orders; two attempts give a retry that succeeds and one that is the
last. Two runs, two names and two contents give overlapping transactions, waits in both directions, a deadlock, and rows that diverge.
Attempts are cut to one there because retries only repeat what overlap already allows.
Three intervals of time and two runs are enough for a slot, a stale clock, a reset and a second slot of each run in any order.
`lock_timed` has the shortest times for which three late steps fit into a lifetime: with a TTL of 5 the lock of an undisturbed task is lost, and
each of the two bounds that `LossIsNoticed` and `AbandonedLockExpires` state is reached, as lowering it by one gives a counterexample. A loss
needs a second task to take the key. In `progress_read` the record may be about the other run, a run is closed before its runner
notices, and a second pause begins between the two reads; one count tells an old publication from a new one. Two polls are one that overtakes another; two
runs are one on the screen and one that was just started. In `screen_files` pages of one row give two pages, four clicks are a selection, a calculation,
a turned page and an edit, and two transactions commit in either order. Names, contents, runs, tasks, transactions, requests and
processes are interchangeable wherever no number stands for them, and the safety runs use that symmetry; the runs with liveness do not. Deadlock checking is off where the
instance may come to its end: all runs over (`sync`), the clock at `Horizon` (`pace_shared`), all ids and counts used up (`progress_read`, `screen_download`),
no clicks left (`screen_files`). The lifecycle never stops, as requests keep coming, and neither does the clock of `RunLock`.

What the properties say, in short:

- `OneActiveRun`: requests race past the fast path of the 409, and the index decides.
- `OwnersRowIsOpen`: while a run works with its slot, no reaper, failed publish or second task has closed its row.
- `UnstartedRunsAreSilent`: what is reported as never started has sent no request.
- `ReaperSparesOwners`: the reaper closes no working run that owns the lock, although it reads the rows before the owner.
- `SlotStaysWithItsRun`: the slot leaves a working run by expiry only; neither a second delivery nor the release of an old holder takes it.
- `ExecutedOnce`: what a delivery wins at the claim was never worked on, neither beside a live worker (`OneExecutor`, an invariant of its own in the proofs) nor before. A crash leaves the row, the lock and the task behind,
  and none of the three lets the redelivery resume the run; polling closes it (`EveryRunCloses`).
- `RunsOnlyAdvance`, `ImplementsService`: rows move forward, are settled once, for a reason that fits how far the run got.
- `EveryRunCloses`: whatever died, an active run is settled in the end.
- `ConfirmedAreStored`: no confirmation, sent, on the wire or applied, is ahead of its committed sound row.
- `ImplementsCatalogSync`: overlapping runs overwrite no row and call the catalog done only when it is.
- `DoneCountsAgree`: a done run shows "saved X of X".
- `HealthyNamesSurvive`: isolation confirms every name it can before it fails the run.
- `RateIsBounded`: the service never sees more than one request per interval since the keys were cleared, plus one per run.
- `QueueIsShort`: slots are never handed out further ahead than one per run.
- `PaceSurvivesPause`: a pause does not make the limiter forget the 429 that caused it.
- `EveryRunEnds`: the limits on attempts and on stale iterations end the loop.
- `EveryStepCounts`: why they do. What a run still has to do is a tuple (`Work`), the outermost loop first: whether it has begun or ended, its budget of iterations, the part of the
  iteration, chunks, names to be tried alone, the stage of a chunk, the legs of a request. Every step but a pause lowers it in the lexicographic order, and what other runs mark never raises it.
- `HandedOutIsBounded`: `names_seen` stays bounded although the service may name the same files again and other runs mark them.
- `HeartbeatKeepsLock`: an undisturbed task keeps its lock through pauses of any length, if `Heartbeat + 3 * Delay < Ttl`. What
  `config.py:86-92` demands, heartbeat below TTL, does not suffice alone: the margin must hold the wake-up, the command and its answer.
- `LossIsNoticed`: two tasks do not work side by side for longer than a heartbeat and four late steps, unless the loser is stalled itself.
- `AbandonedLockExpires`: whatever died or got lost, the slot is free after the TTL and one late command.
- `CountersAreTheRunsOwn`: no status answer shows another run's counters, and that of a done run is complete.
- `CountdownIsNotStale`: a countdown never belongs to a pause that is over, although row and record are read at different times.
- `PollingNeverStops`: no failure leaves the page without a timer, a poll or a start that will set one.
- `ScreenSettles`, `StartIsOffered`: overtaken answers are put right, and the button comes back when no run is active.
- `ListingMatchesControls`, `ShownBelongsToSnapshot`, `OneCutOff`: no superseded answer is drawn, and all pages of a calculation have one cut-off.
- `SettledPagesAgree`, `NoRowIsMissing`: a page depends on the snapshot alone if no transaction with an earlier stamp was open at the cut-off;
  no page is shorter than its own total promises.
- `NoticeIsTrue`: a result without the notice fits the boxes.

### Fairness

`lifecycle_liveness`: grace periods elapse and an unrenewed lock expires, because time passes. A live worker takes its next step:
each is an await with a timeout. The answers do not keep one run in the loop for ever; that is a property of the loop, checked as
`EveryRunEnds`. The poller keeps polling and Redis and PostgreSQL answer it now and then (strong fairness of its three
steps): the page polls every one to five seconds (`static/app.js:179-183`). Nothing is assumed about the
delivery of tasks, and workers may die at any point.

`screen_download`: the page runs, so a timer fires and the request of a start returns, with or without an answer (weak fairness of `StartFailed`, which `StartAnswered` preempts);
polls are answered now and then, if they are sent again and again (strong fairness of the three steps of a poll). Runs start and end without any fairness: ids are
bounded, so they stop changing in the end, and `ScreenSettles` says what the page shows then. No poll is assumed to succeed at a given time.

`sync_liveness`: a run takes its own steps, and a request gets an answer other than 429, 403, a network error or a 5xx if it is
tried often enough. The code bounds the repetitions of the last two (`network_max_attempts`) and the length of one pause
(`max_retry_wait_s`), but not the number of pauses: against a service that answers 429 for ever a run never ends, and that is
the assumption made here. `EveryStepCounts` shows that there is no other: network errors and 5xx lower the measure like any step, so only pauses (429, 403) could keep a
run that takes its steps from ending.

## 4. Proofs

`RunLifecycle_proofs` proves, for any sets of runs, workers and handlers, with the two assumptions of `RunLifecycle` (the
kinds of actors are disjoint; `None` is no run):

- `TypeCorrect`: `Spec => [](TypeOK /\ Bookkeeping)`;
- `Safety`: `Spec => []Inv`, and from it `OneActiveRunHolds`, `OneExecutorHolds`, `OwnersRowIsOpenHolds`, `UnstartedRunsAreSilentHolds`;
- the action properties `ReaperSparesOwnersHolds`, `SlotStaysHolds`, `RunsOnlyAdvanceHolds`, `ExecutedOnceHolds`;
- `RequestsTakeTurns`: `Spec /\ SlotOutlivesRequests => []RequestsNeverParallel`;
- `ServiceImplemented`: every step of the system is a step of `DownloadService` or a stutter.

None of the properties is inductive. `OwnersRowIsOpen`, say, needs that a reaper about to close a row as abandoned cannot have seen
`running` against a lock that was taken since; that a row in `starting` or beyond has left the grasp of a failed publish; that at most
one task is past the claim of a run, whichever worker has the lock; and that a run whose task has ended has a settled row,
or an open one without anybody to work on it. `Inv` conjoins these facts by name: where a task stands tells which statuses its row may have, a
row that has not been claimed has no task past the claim and has caused no request, and what a reaper has seen limits what it may find.
The proof splits `Next` by action; the lemma `OneRowMoves` says once that a step changes at most one row, and from and to what,
and the theorems about rows (`RunsOnlyAdvance`, `ImplementsService`) follow from it and `Inv`.

`RequestsNeverParallel` itself is false (section 6). `RequestsTakeTurns` says what it takes: `SlotOutlivesRequests`, that the lock does not expire between its
owner's look at it and the answer. Then whoever sends owns the lock (`RequestersOwn`), since by `SlotStaysHolds` nothing else takes it away: no other acquire or release, no second delivery, no
retry of the client that skips the check. `HeartbeatSuffices` of `RunLock_proofs` says when a lock does not expire: nobody is disturbed, Redis keeps its data, and the TTL has room for
a heartbeat and three late steps. The two modules are not composed, so that last link is an argument here and not a proof.

`DownloadLoop_proofs` proves, for any finite catalog, any contents, any set of runs and any positive limits (`CatalogIsFinite`,
`LimitsArePositive`, `RowsAreDistinct`, `NoRunIsNobody`):

- `LoopTyping`: `Spec => []TypeOK`, the size of a request and the names tried alone included;
- `ConfirmedOnlyWhenStored`: `Spec => []ConfirmedAreStored`;
- `CatalogSyncImplemented`: `Spec => ImplementsCatalogSync`;
- `DoneCountsHold`, `HealthyNamesHold`: `Spec => []P` for `DoneCountsAgree` and `HealthyNamesSurvive`;
- `EveryStepCountsHolds`: `Spec => EveryStepCounts`, and `WorkIsCounted`: the measure is a sequence of natural numbers in every reachable state;
- `HandedOutIsBoundedHolds`: `Spec => []HandedOutIsBounded`.

`ConfirmedAreStored` says what is true while a confirmation is on its way; why it is true is decided earlier, so the invariant
adds what a run relies on before (`Promises`): from the answer to the commit every name of the chunk is still to be inserted, inserted or
stored; at the commit nothing is left to insert; and no row exists for what is inserted and not committed. The last one
holds although runs overlap because two open transactions never hold the same name (`Apart`). Nearly every step is
quiet: it moves one run, leaves the table alone and tells the service only of stored files. `QuietKeeps` says once that
such a step keeps the invariant, `QuietIsSync` that it is a step of `CatalogSync`; one lemma per action shows that it is
quiet, and the commit, alone or at the moment the worker dies, has lemmas of its own (`CommitKeeps`, `CommitIsSync`).

`DoneCountsHold` and `HealthyNamesHold` speak of the end of a run; what leads there is kept in a ledger of the names a run has been handed (`Ledger`). As long as
nothing was given up, the names seen are those saved, those still in the iteration, those to be tried alone and those in hand (`Balanced`); and a name of the refused
chunk that is none of these, and was not given up, is marked (`Tried`). `Tidy` says where these sets are empty: between chunks nothing is left of an isolation, between
iterations nothing at all. Between a question and its answer nothing is booked (`OnTheWay`); the other steps have a lemma each.

The measure goes down for a different reason at each step (`StepIsLess`); most steps are inside an iteration and leave the budget alone (`Inside`). The budget is the number
of iterations the loop can still afford: `max_stale_iterations` for each name not marked yet and once more, less the stale ones in a row. An iteration costs one when it ends
empty-handed; when it has marked something the stale ones are forgiven, and the names it marked pay for that (`BudgetFalls`, `IterationIsLess`, `CountIsLess`, which needs `Tidy` to know
that no name waits to be tried alone while several are confirmed together). Others' marks lower the budget and nothing else (`OthersHelp`). A count of names that grows by at most the catalog with each answer is
then charged to the budget: `Charged` keeps it below what has been spent, an iteration under way being paid in advance (`Due`, `NamesAreCharged`), and only
an answer to `/names` adds to it (`NamesSeenStays`). A pause raises the measure again and the budget never, which is why this bound needs no fairness at all.

`RunLock_proofs` proves, for any set of tasks, any TTL and delay and any heartbeat below the TTL (`HeartbeatAssumption`,
`NoOneAssumption`):

- `LockTyping`, `HeartbeatSuffices`, `LossesAreNoticed`, `AbandonedLocksExpire`: `Spec => []P` for the four properties of `lock_timed`.

Each bound is true for a reason that changes from leg to leg, so the invariant says for every leg what is left then: asleep, the key still has what
the sleep needs and two legs; with the command under way, one leg less, and a fresh lifetime when the answer comes (`Remaining`). `Missed` is the same
for the time since a loss, and `Leaves` adds what has passed since the end of a task to what the key still has. A tick lowers both
sides by one. `Shape` says what may be under way where. `Sound` is about one task: a step of another task keeps it because a script touches
only a key that is free or its own (`OthersKeep`, `ExecuteIsFair`).

`RateLimiter_proofs` proves, for any finite set of runs and any intervals and limits (`PaceIsSensible`, `RunsAreFinite`):

- `PaceTyping`, `QueueIsShortHolds`, `PaceSurvivesPauseHolds`: `Spec => []P` for three of the four properties of `pace_shared`;
- `RateIsBoundedHolds`: `KeyOutlivesQueue => (Spec => []RateIsBounded)`.

`KeyOutlivesQueue` says that a key lives for `N + 1` of the longest intervals and `N` of the shortest, `N` the number of runs. With the default settings (3800 s,
15 s and 1 s) that is so for 236 runs; a run of the model starts once, so the bounds count every run of a behaviour, overlapping or not. `QueueIsShort` speaks of now; its invariant `Queue` speaks of every
moment to come: by then the next slot is at most one interval ahead for each run that still sleeps, or has ended with its slot unused (`Ahead`).
`RateIsBounded` is about requests that went out, and depends on those that will: `Paced` bounds, for every moment to come, the requests sent and those due by then.
A new slot keeps that because of `Since`: all slots handed out since the key was last absent are one interval apart, but for the runs that had read the clock before and
reserve a slot in the past (`Early`). When the keys are cleared the count starts again and all runs but one may be early; when the key lapses
all of them may be, and the time since the last slot pays for it. That is where `KeyOutlivesQueue` is needed, and the only place where a clock that `pace_shared` has no room for
matters: in its six units no key lapses that was written.

`RunProgress_proofs` proves, for any number of runs, counts and pauses (`BoundsAreNumbers`):

- `ProgressTyping`, `CountersHold`, `CountdownHolds`: `Spec => []P` for the three properties of `progress_read`.

Row, record and answer are three copies of what the runner knows, each of another age. The invariant says of each that it is behind the runner, and
when it may not be: the row is level once the run is done (`Behind`); a deadline in the record is that of the last pause and is found there only while the runner is in that pause, leaves it, or has ended, if no
publication was lost (`RecordSound`); an answer keeps what held when it was read, since counters and pauses only grow and a done row does
not move (`AnswerSound`). Every step of a run moves one row and one runner and publishes or does not (`Moves`, `MovesKeep`). That `Current` is a run at all
rests on the latest id among the rows, which well-foundedness of the numbers gives (`LatestExists`, in `LatestRow`).

`DownloadScreen_proofs` proves, for any number of runs and requests (the assumptions of `DownloadScreen`):

- `PageTyping`, `PollingHolds`: `Spec => []P` for `TypeOK` and `PollingNeverStops`.

`TypeOK` and `PollingNeverStops` are inductive together. What has to be seen is that every handler that takes something from the page's side (a
timer that fires, an answer, a refusal) gives the next one back in the same step, also when the answer is not drawn.

`FilesScreen_proofs` proves, for any number of rows, transactions, requests and clicks and any page size (the assumptions of
`FilesApi` and `FilesScreen`):

- `FilesTyping`, `ListingHolds`, `ShownHolds`, `NoticeHolds`: `Spec => []P` for `TypeOK`, `ListingMatchesControls`, `ShownBelongsToSnapshot`
  and `NoticeIsTrue`;
- `OneCutOffHolds`: `Spec => OneCutOff`;
- `SettledPagesHold`, `NoRowIsMissingHolds`: `Spec => []P` for `SettledPagesAgree` and `NoRowIsMissing`.

What is shown is right because of what was asked. The invariant follows the latest request, by generation, from its sending to its answer: it carries the
page and the order of the controls (`Table`), the snapshot and the page of the pager, and the cut-off if the snapshot has one (`Card`); whoever changes one of
these sends another request. `Notice` says that the notice fits the snapshot unless an answer is due, after which it is drawn again. `Known` keeps the
ids in sight among the stored rows, which only grow (`StoredStays`). The service's steps touch one request each and only what it still lacks (`ListingServed`,
`StatsServed`).

What a page holds rests on a second invariant, `Paged`. Stamps are given in order (`InOrder`), so every row up to the cut-off has been inserted (`NowCovers`), and has ended
if nothing was open: from then on the selection does not change (`Decided`, `LaterStats`). Without that it can still only grow, so a total is never more than
the rows that are there to be cut. That the cut gives them all is counting: positions in a list are different, there are as many as rows, so each number from one
to the count is taken (`RanksAreDense`, by the pigeonhole principle for injections), and a page is an interval of them (`PagesAreFull`).

Only model-checked: the liveness properties `EveryRunCloses`, `EveryRunEnds`, `ScreenSettles` and `StartIsOffered`. Fairness and ENABLED are out of the prover's
reach. Of `EveryRunEnds` the part that is about the code is a theorem: the loop makes progress with every step. That nothing descends for ever in the order of such sequences is an
induction the prover cannot instantiate. Every invariant and every action property that a passing run checks is also a theorem.

## 5. Not modelled, and the plan

In order of importance:

1. A refinement from `RunLock` to the lock of `RunLifecycle`, once the latter is a module of its own.
2. Pure operators against reference definitions: `parse_archive`, `parse_marked`, `parse_retry_after`, `backoff_delay`.

Left out for good: the page's `loadConfig` and demo switch, its countdown and log; migrations (straight-line SQL whose result the models assume), configuration and wiring, the stub service,
deployment, wording of messages and rendering.

## 6. Where the code and its documents disagree

- `RequestsNeverParallel`, run `lifecycle_parallel` (`README.md:94`): ownership is checked before a request, and nothing holds the lock until its answer.
  When the heartbeat stalls past the TTL, two requests are in flight. `RequestsTakeTurns` proves that there is no other way: only a lock that expires under a request lets
  the next run send its own beside it.

Other places where the text promises more than the code does, seen while modelling and not kept as runs:

- `app/worker/tasks.py:117-119` takes a lock that names another run for a run that is executing. A lock left by a crash, by an acquire whose answer was lost or by a
  run closed a moment ago makes the next run fail as "another run is executing" with no other run active.
- `app/worker/downloader.py:173` says `already_marked` means a name was handed out again. A confirmation whose answer was lost is repeated by the client and answered
  `already_marked`, and counts as stale although nothing was handed out twice.
- `app/worker/ratelimit.py:8` says the interval is not lowered until the run ends. Its key has a lifetime that nothing renews, so it lapses under a run that goes
  on for longer than that after its last 429.
- `README.md:192-193` says the cut-off keeps the pages of one calculation apart from a running download. A transaction that is open at the cut-off commits rows with
  earlier stamps afterwards: the next page is cut from a larger selection. `SettledPagesAgree` has that as its precondition.
- In `static/app.js`, after a listing that failed, a box redraws the old rows under the page that was not received (`table` is `"redrawn"`), and after a calculation that failed the notice
  speaks of the new snapshot while the old result is still shown. `ListingMatchesControls` and `NoticeIsTrue` have these as their preconditions.
