----------------------------- MODULE RunLifecycle -----------------------------
(***************************************************************************)
(* The life of a download run, from POST /api/runs to a terminal row.      *)
(*                                                                         *)
(* Four parties share a run: the API handlers that create, publish and     *)
(* reap it, the broker that delivers its task at least once, the workers   *)
(* that claim and execute it, and Redis, which keeps the download lock.    *)
(* PostgreSQL is the row itself (app/services/runs.py): every transition   *)
(* is one conditional UPDATE, so each is one action here.  Everything      *)
(* between two awaits of a handler or of the Celery task is one action;    *)
(* what was read before an await (`seen') is kept and may be stale.        *)
(*                                                                         *)
(* The two grace periods and the lock's TTL are not counted: GraceElapses  *)
(* and LockExpires may happen at any moment the code cannot rule out.      *)
(***************************************************************************)
EXTENDS Naturals, FiniteSets

CONSTANTS
    Runs,      \* ids of the rows of download_run that can be created
    Workers,   \* Celery worker processes, --concurrency 1 each
    Starters,  \* concurrent handlers of POST /api/runs
    Pollers,   \* concurrent handlers of GET /api/runs/current
    None       \* no run

ASSUME ActorsAreDistinct ==
    /\ Workers \cap Starters = {}
    /\ Workers \cap Pollers = {}
    /\ Starters \cap Pollers = {}

ASSUME NoneIsNoRun == None \notin Runs

Actors == Workers \cup Starters \cup Pollers

WaitingStatuses     == {"pending", "starting"}
LockHoldingStatuses == {"running", "waiting_retry"}
ActiveStatuses      == WaitingStatuses \cup LockHoldingStatuses
TerminalStatuses    == {"done", "failed"}
Statuses            == ActiveStatuses \cup TerminalStatuses \cup {"absent"}

\* The source states each conditional UPDATE names, and the two other places
\* where the code tells active rows from settled ones.
ClaimFrom       == {"pending"}
StartFrom       == {"starting"}
PauseFrom       == LockHoldingStatuses
UnpublishedFrom == {"pending"}
EarlyFrom       == {"starting", "running"}
RunnerFrom      == ActiveStatuses
Indexed         == ActiveStatuses      \* the partial unique index of models.py
Reapable        == ActiveStatuses      \* the candidates of reap_orphan_runs

\* What a row's `error' column says.  The runner's own reports are one class.
ReaperDiagnoses == {"unclaimed", "stalled", "abandoned"}
EarlyDiagnoses  == {"busy", "lock_lost", "redis_down"}
Diagnoses == ReaperDiagnoses \cup EarlyDiagnoses
                \cup {"none", "unpublished", "runner"}

VARIABLES
    status,     \* [Runs -> status column], "absent" before the INSERT
    error,      \* [Runs -> Diagnoses], the error column
    overdue,    \* [Runs -> BOOLEAN], started_at is further back than the grace
    lock,       \* the Redis key dl:lock:run: the owning run, or None
    queue,      \* the runs whose task the broker will still deliver
    pc,         \* [Actors -> where the handler or the task stands]
    job,        \* [Actors -> the run it works for]
    seen,       \* [Actors -> the candidate row reap_orphan_runs has read]
    hold,       \* [Workers -> "off", "on" or "lost"]: RedisRunLock.hold()
    verdict,    \* [Workers -> what the next finish_run will record]
    requested   \* the runs on whose behalf the external API was called

rowVars  == <<status, error, overdue>>
taskVars == <<hold, verdict>>
vars == <<status, error, overdue, lock, queue, pc, job, seen, hold, verdict,
          requested>>

Nothing == [run |-> None, status |-> "absent"]

PreparationSteps == {"claim", "acquire", "verify", "reap_select", "reap_owner",
                     "reap_close", "start", "reset", "finish_early"}
RunnerSteps == {"begin", "check", "cleared", "inflight", "pause", "waiting",
                "finish"}
StarterSteps == {"reap_select", "reap_owner", "reap_close", "find_active",
                 "insert", "publish", "fail_unpublished"}
Steps == PreparationSteps \cup RunnerSteps \cup StarterSteps
            \cup {"idle", "release"}

\* Every variable ranges over the values the columns, the Redis key and the
\* coroutines can hold; in particular a reaper never considers a settled row.
TypeOK ==
    /\ status \in [Runs -> Statuses]
    /\ error \in [Runs -> Diagnoses]
    /\ overdue \in [Runs -> BOOLEAN]
    /\ lock \in Runs \cup {None}
    /\ queue \subseteq Runs
    /\ pc \in [Actors -> Steps]
    /\ job \in [Actors -> Runs \cup {None}]
    /\ seen \in [Actors -> [run : Runs \cup {None},
                            status : ActiveStatuses \cup {"absent"}]]
    /\ hold \in [Workers -> {"off", "on", "lost"}]
    /\ verdict \in [Workers -> Diagnoses \cup {"done"}]
    /\ requested \subseteq Runs

Init ==
    /\ status = [r \in Runs |-> "absent"]
    /\ error = [r \in Runs |-> "none"]
    /\ overdue = [r \in Runs |-> FALSE]
    /\ lock = None
    /\ queue = {}
    /\ pc = [a \in Actors |-> "idle"]
    /\ job = [a \in Actors |-> None]
    /\ seen = [a \in Actors |-> Nothing]
    /\ hold = [w \in Workers |-> "off"]
    /\ verdict = [w \in Workers |-> "none"]
    /\ requested = {}

Active(r) == status[r] \in ActiveStatuses
Open(r)   == status[r] \in LockHoldingStatuses

GoTo(a, step) == pc' = [pc EXCEPT ![a] = step]

-----------------------------------------------------------------------------
(* The transitions of app/services/runs.py, as the UPDATE they issue.      *)

\* A conditional UPDATE of the row of r out of `expected': rowcount tells the
\* caller whether it matched, and a miss leaves the row alone.  The claim starts
\* the row's age anew, and past `starting' nobody reads it any more.
Transition(r, expected, new) ==
    IF status[r] \in expected
    THEN /\ status' = [status EXCEPT ![r] = new]
         /\ overdue' = [overdue EXCEPT ![r] = FALSE]
    ELSE UNCHANGED <<status, overdue>>

\* finish_run: the outcome and its diagnosis are written together or not at all.
FinishRun(r, outcome, diagnosis, expected) ==
    /\ Transition(r, expected, outcome)
    /\ error' = IF status[r] \in expected
                THEN [error EXCEPT ![r] = diagnosis]
                ELSE error

\* What _orphan_reason closes a candidate for.
OrphanReason(observed) ==
    CASE observed = "pending"  -> "unclaimed"
      [] observed = "starting" -> "stalled"
      [] OTHER                 -> "abandoned"

\* Whether it finds a reason.  started_at was read with the row: it tells the
\* present age only while the run is still in the status that was observed, and
\* otherwise either answer is possible.
Moved(candidate)       == status[candidate.run] # candidate.status
MayBeOrphan(candidate) == \/ candidate.status \in LockHoldingStatuses
                          \/ overdue[candidate.run]
                          \/ Moved(candidate)
MayBeSpared(candidate) == /\ candidate.status \notin LockHoldingStatuses
                          /\ ~overdue[candidate.run] \/ Moved(candidate)

\* The UPDATE names the exact status that was observed (mutant: any active one).
AnyActive(observed) == ActiveStatuses
ReapFrom(observed) == {observed}

-----------------------------------------------------------------------------
(* reap_orphan_runs, called by both endpoints and by the worker's task.    *)

AfterReap(a) == IF a \in Workers THEN "start"
                ELSE IF a \in Starters THEN "find_active" ELSE "idle"

\* The candidates: one at most, since the index admits one active row.
ReapSelect(a) ==
    /\ pc[a] = "reap_select"
    /\ \/ /\ \E r \in Runs :
                /\ status[r] \in Reapable
                /\ seen' = [seen EXCEPT ![a] = [run |-> r, status |-> status[r]]]
          /\ GoTo(a, "reap_owner")
       \/ /\ \A r \in Runs : status[r] \notin Reapable
          /\ GoTo(a, AfterReap(a))
          /\ UNCHANGED seen
    /\ UNCHANGED <<rowVars, lock, queue, job, taskVars, requested>>

\* The owner of the slot is read after the rows; an owner is never an orphan.
ReapOwner(a) ==
    /\ pc[a] = "reap_owner"
    /\ \/ /\ lock # seen[a].run /\ MayBeOrphan(seen[a])
          /\ GoTo(a, "reap_close")
          /\ UNCHANGED seen
       \/ /\ lock = seen[a].run \/ MayBeSpared(seen[a])
          /\ GoTo(a, AfterReap(a))
          /\ seen' = [seen EXCEPT ![a] = Nothing]
    /\ UNCHANGED <<rowVars, lock, queue, job, taskVars, requested>>

\* Redis does not answer: the task closes its run, POST answers 503, and
\* GET /current answers without having reaped.
ReapOwnerUnavailable(a) ==
    /\ pc[a] = "reap_owner"
    /\ seen' = [seen EXCEPT ![a] = Nothing]
    /\ IF a \in Workers
       THEN /\ GoTo(a, "finish_early")
            /\ verdict' = [verdict EXCEPT ![a] = "redis_down"]
       ELSE GoTo(a, "idle") /\ UNCHANGED verdict
    /\ UNCHANGED <<rowVars, lock, queue, job, hold, requested>>

\* A run that moved since it was observed is alive after all: the UPDATE misses.
ReapClose(a) ==
    /\ pc[a] = "reap_close"
    /\ FinishRun(seen[a].run, "failed", OrphanReason(seen[a].status),
                 ReapFrom(seen[a].status))
    /\ GoTo(a, AfterReap(a))
    /\ seen' = [seen EXCEPT ![a] = Nothing]
    /\ UNCHANGED <<lock, queue, job, taskVars, requested>>

-----------------------------------------------------------------------------
(* POST /api/runs and GET /api/runs/current (app/api/runs.py).             *)

StartRequest(h) ==
    /\ pc[h] = "idle"
    /\ GoTo(h, "reap_select")
    /\ UNCHANGED <<rowVars, lock, queue, job, seen, taskVars, requested>>

\* The fast path of the 409, which two requests can both get past.
FindActive(h) ==
    /\ pc[h] = "find_active"
    /\ GoTo(h, IF \E r \in Runs : Active(r) THEN "idle" ELSE "insert")
    /\ UNCHANGED <<rowVars, lock, queue, job, seen, taskVars, requested>>

\* The row and its first event are one transaction, which the partial unique
\* index rejects while another row is active: 409, and nothing is published.
Insert(h) ==
    /\ pc[h] = "insert"
    /\ \/ /\ \E r \in Runs : status[r] \in Indexed
          /\ GoTo(h, "idle")
          /\ UNCHANGED <<status, job>>
       \/ /\ \A r \in Runs : status[r] \notin Indexed
          /\ \E r \in Runs :
                /\ status[r] = "absent"          \* bound: the ids left
                /\ status' = [status EXCEPT ![r] = "pending"]
                /\ job' = [job EXCEPT ![h] = r]
          /\ GoTo(h, "publish")
    /\ UNCHANGED <<error, overdue, lock, queue, seen, taskVars, requested>>

Publish(h) ==
    /\ pc[h] = "publish"
    /\ queue' = queue \cup {job[h]}
    /\ GoTo(h, "idle")
    /\ job' = [job EXCEPT ![h] = None]
    /\ UNCHANGED <<rowVars, lock, seen, taskVars, requested>>

\* A failed publish is not a failed delivery: the broker may have the task.
PublishFails(h) ==
    /\ pc[h] = "publish"
    /\ queue' \in {queue, queue \cup {job[h]}}
    /\ GoTo(h, "fail_unpublished")
    /\ UNCHANGED <<rowVars, lock, job, seen, taskVars, requested>>

FailUnpublished(h) ==
    /\ pc[h] = "fail_unpublished"
    /\ FinishRun(job[h], "failed", "unpublished", UnpublishedFrom)
    /\ GoTo(h, "idle")
    /\ job' = [job EXCEPT ![h] = None]
    /\ UNCHANGED <<lock, queue, seen, taskVars, requested>>

\* Mutant: an endpoint that reports without reaping.
ReadOnlyPoll(p) == pc[p] = "idle" /\ UNCHANGED vars

\* The page's status poll; the rows it goes on to read change nothing.
Poll(p) ==
    /\ pc[p] = "idle"
    /\ GoTo(p, "reap_select")
    /\ UNCHANGED <<rowVars, lock, queue, job, seen, taskVars, requested>>

\* The API process dies, or PostgreSQL fails it: the request goes no further.
HandlerDies(h) ==
    /\ pc[h] # "idle"
    /\ GoTo(h, "idle")
    /\ job' = [job EXCEPT ![h] = None]
    /\ seen' = [seen EXCEPT ![h] = Nothing]
    /\ UNCHANGED <<rowVars, lock, queue, taskVars, requested>>

-----------------------------------------------------------------------------
(* execute_run up to the hand-over to the runner (app/worker/tasks.py).    *)

\* The verdict the next finish_run of w records, and where that call is.
Conclude(w, outcome, step) ==
    /\ GoTo(w, step)
    /\ verdict' = [verdict EXCEPT ![w] = outcome]

\* The task returns or raises, and late acknowledgement removes it.
TaskEnds(w) ==
    /\ GoTo(w, "idle")
    /\ job' = [job EXCEPT ![w] = None]
    /\ hold' = [hold EXCEPT ![w] = "off"]
    /\ verdict' = [verdict EXCEPT ![w] = "none"]

Deliver(w) ==
    /\ pc[w] = "idle"
    /\ \E r \in queue :
          /\ queue' = queue \ {r}
          /\ job' = [job EXCEPT ![w] = r]
    /\ GoTo(w, "claim")
    /\ UNCHANGED <<rowVars, lock, seen, taskVars, requested>>

TakeRow(r) == Transition(r, ClaimFrom, "starting") /\ UNCHANGED error

\* A delivery that does not win the claim returns without touching the lock.
ClaimRun(w) ==
    /\ pc[w] = "claim"
    /\ TakeRow(job[w])
    /\ IF status[job[w]] \in ClaimFrom
       THEN GoTo(w, "acquire") /\ UNCHANGED <<job, taskVars>>
       ELSE TaskEnds(w)
    /\ UNCHANGED <<lock, queue, seen, requested>>

\* The acquire script takes a free lock or re-adopts the run's own, atomically.
AcquireLock(w) ==
    /\ pc[w] = "acquire"
    /\ IF lock \in {None, job[w]}
       THEN /\ lock' = job[w]
            /\ hold' = [hold EXCEPT ![w] = "on"]
            /\ GoTo(w, "verify")
            /\ UNCHANGED verdict
       ELSE /\ Conclude(w, "busy", "finish_early")
            /\ UNCHANGED <<lock, hold>>
    /\ UNCHANGED <<rowVars, queue, job, seen, requested>>

\* Redis answers with an error, having run the script or not.  hold() was not
\* entered, so nobody will release what the script took.
AcquireUnavailable(w) ==
    /\ pc[w] = "acquire"
    /\ \/ UNCHANGED lock
       \/ lock \in {None, job[w]} /\ lock' = job[w]
    /\ Conclude(w, "lock_lost", "finish_early")
    /\ UNCHANGED <<rowVars, queue, job, seen, hold, requested>>

\* ensure_owned: the heartbeat's flag first, then Redis, which may not answer.
Owned(w) == hold[w] = "on" /\ lock = job[w]

EnsureOwned(w, next, outcome, stop) ==
    \/ /\ Owned(w)
       /\ GoTo(w, next)
       /\ UNCHANGED taskVars
    \/ /\ Conclude(w, outcome, stop)
       /\ hold' = [hold EXCEPT ![w] = "lost"]

VerifyOwnership(w) ==
    /\ pc[w] = "verify"
    /\ EnsureOwned(w, "reap_select", "lock_lost", "finish_early")
    /\ UNCHANGED <<rowVars, lock, queue, job, seen, requested>>

StartRunning(w) ==
    /\ pc[w] = "start"
    /\ Transition(job[w], StartFrom, "running")
    /\ GoTo(w, IF status[job[w]] \in StartFrom THEN "reset" ELSE "release")
    /\ UNCHANGED <<error, lock, queue, job, seen, taskVars, requested>>

\* limiter.reset() and the catalog's address; Redis may fail the former.
ResetLimiter(w) ==
    /\ pc[w] = "reset"
    /\ \/ GoTo(w, "begin") /\ UNCHANGED verdict
       \/ Conclude(w, "redis_down", "finish_early")
    /\ UNCHANGED <<rowVars, lock, queue, job, seen, hold, requested>>

\* hold() yielded False, or raised, when it has nothing to release.
FinishEarly(w) ==
    /\ pc[w] = "finish_early"
    /\ FinishRun(job[w], "failed", verdict[w], EarlyFrom)
    /\ IF hold[w] = "off"
       THEN TaskEnds(w)
       ELSE GoTo(w, "release") /\ UNCHANGED <<job, taskVars>>
    /\ UNCHANGED <<lock, queue, seen, requested>>

\* The release script: the lock goes if it is still this run's (mutant: a DEL).
BareDel(r)  == None
Released(r) == IF lock = r THEN None ELSE lock

\* The exit of hold(): the heartbeat is cancelled, the lock released, and a
\* Redis error swallowed.
Release(w) ==
    /\ pc[w] = "release"
    /\ lock' \in {Released(job[w]), lock}
    /\ TaskEnds(w)
    /\ UNCHANGED <<rowVars, queue, seen, requested>>

-----------------------------------------------------------------------------
(* DownloadRunner.execute (app/worker/downloader.py), down to what it does  *)
(* with the row, the lock and the wire.                                     *)

Begin(w) ==
    /\ pc[w] = "begin"
    /\ IF status[job[w]] = "running"
       THEN GoTo(w, "check") /\ UNCHANGED verdict
       ELSE Conclude(w, "runner", "finish")
    /\ UNCHANGED <<rowVars, lock, queue, job, seen, hold, requested>>

Check(w) ==
    /\ pc[w] = "check"
    /\ EnsureOwned(w, "cleared", "runner", "finish")
    /\ UNCHANGED <<rowVars, lock, queue, job, seen, requested>>

\* limiter.reserve(), the sleep it asks for, and the request goes out.
SendRequest(w) ==
    /\ pc[w] = "cleared"
    /\ GoTo(w, "inflight")
    /\ requested' = requested \cup {job[w]}
    /\ UNCHANGED <<rowVars, lock, queue, job, seen, taskVars>>

ReserveUnavailable(w) ==
    /\ pc[w] = "cleared"
    /\ Conclude(w, "runner", "finish")
    /\ UNCHANGED <<rowVars, lock, queue, job, seen, hold, requested>>

\* The answer leads to the next operation, to the client's own retry (which
\* checks nothing), or to a Retry-After pause.
Answer(w) ==
    /\ pc[w] = "inflight"
    /\ \E step \in {"check", "cleared", "pause"} : GoTo(w, step)
    /\ UNCHANGED <<rowVars, lock, queue, job, seen, taskVars, requested>>

\* ... or it ends the loop: no names left, or an error of the whole run.
LastAnswer(w) ==
    /\ pc[w] = "inflight"
    /\ \E outcome \in {"done", "runner"} : Conclude(w, outcome, "finish")
    /\ UNCHANGED <<rowVars, lock, queue, job, seen, hold, requested>>

EnterWaiting(w) ==
    /\ pc[w] = "pause"
    /\ Transition(job[w], PauseFrom, "waiting_retry")
    /\ GoTo(w, "waiting")
    /\ UNCHANGED <<error, lock, queue, job, seen, taskVars, requested>>

LeaveWaiting(w) ==
    /\ pc[w] = "waiting"
    /\ Transition(job[w], PauseFrom, "running")
    /\ GoTo(w, "check")
    /\ UNCHANGED <<error, lock, queue, job, seen, taskVars, requested>>

\* A run already closed by the reaper keeps its outcome.
Finish(w) ==
    /\ pc[w] = "finish"
    /\ IF verdict[w] = "done"
       THEN FinishRun(job[w], "done", "none", RunnerFrom)
       ELSE FinishRun(job[w], "failed", verdict[w], RunnerFrom)
    /\ GoTo(w, "release")
    /\ UNCHANGED <<lock, queue, job, seen, taskVars, requested>>

-----------------------------------------------------------------------------
(* What the environment may do at any moment.                              *)

\* The heartbeat cannot extend the lock: Redis fails, or it is not ours now.
HeartbeatFails(w) ==
    /\ hold[w] = "on"
    /\ hold' = [hold EXCEPT ![w] = "lost"]
    /\ UNCHANGED <<rowVars, lock, queue, pc, job, seen, verdict, requested>>

\* PostgreSQL fails a statement of the task.  Before hold() the task just ends,
\* the claim having landed or not; within it the lock is released; the runner
\* closes the run, unless that is what failed.
DatabaseFails(w) ==
    /\ \/ /\ pc[w] = "claim"
          /\ TakeRow(job[w]) \/ UNCHANGED rowVars
          /\ TaskEnds(w)
       \/ /\ pc[w] = "finish_early" /\ hold[w] = "off"
          /\ TaskEnds(w)
          /\ UNCHANGED rowVars
       \/ /\ \/ pc[w] \in {"reap_select", "reap_close", "start", "reset", "finish"}
             \/ pc[w] = "finish_early" /\ hold[w] # "off"
          /\ GoTo(w, "release")
          /\ UNCHANGED <<rowVars, job, taskVars>>
       \/ /\ pc[w] \in {"begin", "pause", "waiting"}
          /\ Conclude(w, "runner", "finish")
          /\ UNCHANGED <<rowVars, job, hold>>
    /\ seen' = [seen EXCEPT ![w] = Nothing]
    /\ UNCHANGED <<lock, queue, requested>>

\* The worker process dies: the broker has the task back (task_acks_late,
\* task_reject_on_worker_lost), and the lock stays behind.
Crash(w) ==
    /\ pc[w] # "idle"
    /\ queue' = queue \cup {job[w]}
    /\ TaskEnds(w)
    /\ seen' = [seen EXCEPT ![w] = Nothing]
    /\ UNCHANGED <<rowVars, lock, requested>>

\* The broker gives the unacknowledged task to somebody else while w lives.
Redeliver(w) ==
    /\ pc[w] # "idle"
    /\ queue' = queue \cup {job[w]}
    /\ UNCHANGED <<rowVars, lock, pc, job, seen, taskVars, requested>>

GraceElapses(r) ==
    /\ status[r] \in WaitingStatuses
    /\ overdue' = [overdue EXCEPT ![r] = TRUE]
    /\ UNCHANGED <<status, error, lock, queue, pc, job, seen, taskVars, requested>>

\* The TTL runs out, or Redis restarts empty.
LockExpires ==
    /\ lock # None
    /\ lock' = None
    /\ UNCHANGED <<rowVars, queue, pc, job, seen, taskVars, requested>>

-----------------------------------------------------------------------------
Reap(a) == ReapSelect(a) \/ ReapOwner(a) \/ ReapOwnerUnavailable(a) \/ ReapClose(a)

Prepare(w) == ClaimRun(w) \/ AcquireLock(w) \/ AcquireUnavailable(w)
                \/ VerifyOwnership(w) \/ StartRunning(w) \/ ResetLimiter(w)
                \/ FinishEarly(w) \/ Release(w)

Execute(w) == Begin(w) \/ Check(w) \/ SendRequest(w) \/ ReserveUnavailable(w)
                \/ Answer(w) \/ LastAnswer(w) \/ EnterWaiting(w)
                \/ LeaveWaiting(w) \/ Finish(w)

Start(h) == StartRequest(h) \/ FindActive(h) \/ Insert(h) \/ Publish(h)
                \/ PublishFails(h) \/ FailUnpublished(h)

Next ==
    \/ \E a \in Actors : Reap(a)
    \/ \E h \in Starters : Start(h)
    \/ \E p \in Pollers : Poll(p)
    \/ \E h \in Starters \cup Pollers : HandlerDies(h)
    \/ \E w \in Workers : \/ Deliver(w) \/ Prepare(w) \/ Execute(w)
                          \/ HeartbeatFails(w) \/ DatabaseFails(w)
                          \/ Crash(w) \/ Redeliver(w)
    \/ \E r \in Runs : GraceElapses(r)
    \/ LockExpires

Spec == Init /\ [][Next]_vars

\* A lock nobody renews: its run has no live holder with a beating heartbeat.
OrphanLockExpires ==
    /\ \A w \in Workers : ~(hold[w] = "on" /\ job[w] = lock)
    /\ LockExpires

\* Time passes; a live worker takes its steps, and the service it talks to
\* does not keep it in one loop for ever; and the page goes on polling, against
\* a Redis and a PostgreSQL that are not down every time.  Nothing makes a
\* worker pick a task up, or survive.
Fairness ==
    /\ \A w \in Workers : /\ WF_vars(Prepare(w) \/ Reap(w) \/ Execute(w))
                          /\ SF_vars(LastAnswer(w))
    /\ \A p \in Pollers : /\ WF_vars(Poll(p))
                          /\ SF_vars(ReapSelect(p))
                          /\ SF_vars(ReapOwner(p))
                          /\ SF_vars(ReapClose(p))
    /\ \A r \in Runs : WF_vars(GraceElapses(r))
    /\ WF_vars(OrphanLockExpires)

FairSpec == Spec /\ Fairness

-----------------------------------------------------------------------------
(* Safety.                                                                 *)

\* At most one run is active in the whole service, however many requests race
\* past find_active_run (api/runs.py:75-84, the index of models.py).
OneActiveRun == \A r, s \in Runs : Active(r) /\ Active(s) => r = s

\* At most one delivery of a run gets past the claim: a redelivered or doubled
\* task never works beside the first (claim_run, services/runs.py:83-105).
Executing(w) == pc[w] \notin {"idle", "claim"}

OneExecutor ==
    \A v, w \in Workers :
        Executing(v) /\ Executing(w) /\ job[v] = job[w] => v = w

\* The runner never works under a closed row while the slot is still its own:
\* no reaper, failed publish or other task closes it behind its back
\* (the `expected' argument of finish_run, services/runs.py:162-166).
WorkSteps == RunnerSteps \ {"begin"}

OwnersRowIsOpen ==
    \A w \in Workers : pc[w] \in WorkSteps /\ lock = job[w] => Open(job[w])

\* A run closed before it started working has caused no external request: an
\* "unpublished", "unclaimed" or "stalled" run really did nothing (api/runs.py
\* 137-155 tells the client so; test_startup_race.py counts the requests).
UnstartedRunsAreSilent ==
    \A r \in requested :
        error[r] \notin {"unpublished", "unclaimed", "stalled"} \cup EarlyDiagnoses

-----------------------------------------------------------------------------
(* What a step may never do.                                               *)

\* The reaper does not close a working run that owns the lock, whatever it had
\* read before (the order of the two reads, services/runs.py:233-238).
ReaperSparesOwners ==
    [][\A r \in Runs :
        /\ Open(r) /\ status'[r] = "failed"
        /\ error'[r] \in ReaperDiagnoses
        => lock # r]_vars

\* A run only moves on, and a settled one keeps its outcome and its diagnosis
\* for ever (set_run_status and finish_run, services/runs.py:57, 128-166).
Rank(s) == CASE s = "absent" -> 0 [] s = "pending" -> 1 [] s = "starting" -> 2
             [] s \in LockHoldingStatuses -> 3 [] OTHER -> 4

RunsOnlyAdvance ==
    [][\A r \in Runs :
        /\ Rank(status[r]) <= Rank(status'[r])
        /\ status[r] \in TerminalStatuses =>
              status'[r] = status[r] /\ error'[r] = error[r]]_vars

\* While a run works with its slot, the slot leaves it by expiry or not at all:
\* a second delivery of its task does not release it (tasks.py:56-58).
SlotStaysWithItsRun ==
    [][\A w \in Workers :
        /\ pc[w] \in RunnerSteps /\ lock = job[w] /\ lock' # lock
        => LockExpires]_vars

\* A run is executed once: what a delivery wins at the claim nobody works at, owns no
\* slot and has sent nothing yet.  A redelivery, be it after a crash that left the row
\* and the lock behind, resumes nothing (claim_run, services/runs.py:83-105).
ExecutedOnce ==
    [][\A w \in Workers :
        ~Executing(w) /\ Executing(w)' =>
            /\ lock # job'[w] /\ job'[w] \notin requested
            /\ \A v \in Workers : Executing(v) => job[v] # job'[w]]_vars

-----------------------------------------------------------------------------
(* The abstract service, and liveness.                                     *)

Phase(s) == CASE s = "absent"   -> "new"
              [] s = "pending"  -> "queued"
              [] s = "starting" -> "preparing"
              [] s \in LockHoldingStatuses -> "working"
              [] OTHER -> "closed"

Service == INSTANCE DownloadService WITH
    phase   <- [r \in Runs |-> Phase(status[r])],
    outcome <- [r \in Runs |-> IF status[r] = "done" THEN "done" ELSE error[r]]

\* Every step of the four parties is a step of the abstract service or none.
ImplementsService == Service!Spec

\* No run blocks the service for ever: whoever died, polling closes it
\* (GET /api/runs/current, api/runs.py:166-170).
EveryRunCloses == \A r \in Runs : Active(r) ~> status[r] \in TerminalStatuses

-----------------------------------------------------------------------------
(* What the documentation says and the code does not.                      *)

\* "External requests are never executed in parallel" (README.md:94).
RequestsNeverParallel ==
    \A v, w \in Workers : pc[v] = "inflight" /\ pc[w] = "inflight" => v = w

=============================================================================
