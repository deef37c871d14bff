------------------------------ MODULE RunProgress ------------------------------
(***************************************************************************)
(* What an observer learns of a run while it works: GET /api/runs/current  *)
(* reads the run's row in PostgreSQL, then the one progress record of the  *)
(* service in Redis (app/progress.py), and puts the two together.          *)
(*                                                                         *)
(* The counters live in the memory of the runner.  They reach the record   *)
(* with each publication, which may be lost, and the row only when the     *)
(* runner closes it.  A pause is first written to the row and published    *)
(* afterwards, and so is its end.  A run whose row was closed by somebody  *)
(* else goes on publishing until it notices.                               *)
(*                                                                         *)
(* A row moves as RunLifecycle shows; who closes it from outside, and the  *)
(* claim, make no difference to what is known and are left out.            *)
(***************************************************************************)
EXTENDS Naturals

CONSTANTS
    LastRun,     \* the highest id that a row gets
    MaxCount,    \* bound: how often the counters of a run move
    MaxPauses    \* bound: the pauses of a run

ASSUME BoundsAreNumbers == LastRun \in Nat /\ MaxCount \in Nat /\ MaxPauses \in Nat

\* Ids are numbers and grow, as latest_run assumes; 0 stands for no run.
Runs  == 1..LastRun
NoRun == 0

VARIABLES
    row,         \* [Runs -> the row]: its status, the pause it is in, the counters
    worker,      \* [Runs -> the runner]: where it stands, its counters and pauses
    progress,    \* the Redis hash dl:progress
    dropped,     \* history: the runs one of whose publications was lost
    poll         \* the observer: how far the request is, and the answer so far

vars == <<row, worker, progress, dropped, poll>>

\* `pending' stands for `starting' too, and `running' with a pause for `waiting_retry'.
ActiveStatuses == {"pending", "running"}
Statuses       == ActiveStatuses \cup {"absent", "failed", "done"}

Active(r) == row[r].status \in ActiveStatuses

\* `retry' is the number of the pause whose deadline is published, 0 for none.
NoProgress == [run |-> NoRun, count |-> 0, retry |-> 0]

Places == {"off", "begin", "running", "enter", "paused", "leave", "finished", "gone"}

\* What an answer says: the run, how far it is, the pause its row is in, the
\* counters, and the pause whose deadline is given.  Null when there is no run.
Answers  == [run : Runs \cup {NoRun}, status : Statuses,
             pause : 0..MaxPauses, count : 0..MaxCount, retry : 0..MaxPauses]
NoAnswer == [run |-> NoRun, status |-> "absent", pause |-> 0, count |-> 0, retry |-> 0]

\* A closed row is in no pause, and an answer gives a deadline only with a pause.
TypeOK ==
    /\ row \in [Runs -> [status : Statuses, pause : 0..MaxPauses, count : 0..MaxCount]]
    /\ \A r \in Runs : row[r].pause # 0 => row[r].status = "running"
    /\ worker \in [Runs -> [at : Places, count : 0..MaxCount, pauses : 0..MaxPauses]]
    /\ progress \in [run : Runs \cup {NoRun}, count : 0..MaxCount, retry : 0..MaxPauses]
    /\ dropped \subseteq Runs
    /\ poll \in [at : {"idle", "row", "answered"}, answer : Answers]
    /\ poll.answer.retry # 0 => poll.answer.pause # 0

Init ==
    /\ row = [r \in Runs |-> [status |-> "absent", pause |-> 0, count |-> 0]]
    /\ worker = [r \in Runs |-> [at |-> "off", count |-> 0, pauses |-> 0]]
    /\ progress = NoProgress
    /\ dropped = {}
    /\ poll = [at |-> "idle", answer |-> NoAnswer]

Stands(r, place) == worker[r].at = place
Goes(r, place)   == worker' = [worker EXCEPT ![r].at = place]

-----------------------------------------------------------------------------
(* The row, seen from outside the runner.                                  *)

\* The ids of rows are given in order, and the index admits one active row.
Open(r) ==
    /\ row[r].status = "absent"
    /\ \A s \in Runs : ~Active(s) /\ (s < r => row[s].status # "absent")
    /\ row' = [row EXCEPT ![r].status = "pending"]
    /\ UNCHANGED <<worker, progress, dropped, poll>>

\* start_running: the runner may come into being.
StartRunning(r) ==
    /\ row[r].status = "pending"
    /\ row' = [row EXCEPT ![r].status = "running"]
    /\ Goes(r, "begin")
    /\ UNCHANGED <<progress, dropped, poll>>

\* The reaper, a failed publish or the task adapter closes the row: the counters
\* stay as they are, and a runner that is alive does not hear of it.
CloseFromOutside(r) ==
    /\ Active(r)
    /\ row' = [row EXCEPT ![r] = [status |-> "failed", pause |-> 0, count |-> @.count]]
    /\ UNCHANGED <<worker, progress, dropped, poll>>

-----------------------------------------------------------------------------
(* The runner.                                                             *)

\* The record is replaced as a whole, and an error of Redis is swallowed.
Publish(r, count, retry) ==
    \/ /\ progress' = [run |-> r, count |-> count, retry |-> retry]
       /\ UNCHANGED dropped
    \/ /\ dropped' = dropped \cup {r}
       /\ UNCHANGED progress

\* The deadline that is published when a pause is over (mutant: the one of the
\* pause, as it stays in the hash when it is not deleted first).
StillThere(pause) == pause
NoDeadline(pause) == 0

\* set_run_status: only a row that is still worked on takes it (mutant: any row does).
AnyRow(r)    == TRUE
Takes(r)     == row[r].status = "running"
SetPause(r, pause) ==
    row' = IF Takes(r) THEN [row EXCEPT ![r].pause = pause] ELSE row

\* _begin reads the row back, and refuses to work under any but a running one.
Begin(r) ==
    /\ Stands(r, "begin") /\ row[r].status = "running"
    /\ Goes(r, "running")
    /\ Publish(r, 0, NoDeadline(0))
    /\ UNCHANGED <<row, poll>>

\* Names were received, or a chunk was confirmed.
Advance(r) ==
    /\ Stands(r, "running") /\ worker[r].count < MaxCount
    /\ worker' = [worker EXCEPT ![r].count = @ + 1]
    /\ Publish(r, worker'[r].count, NoDeadline(worker[r].pauses))
    /\ UNCHANGED <<row, poll>>

EnterWaiting(r) ==
    /\ Stands(r, "running") /\ worker[r].pauses < MaxPauses
    /\ worker' = [worker EXCEPT
                     ![r] = [at |-> "enter", count |-> @.count, pauses |-> @.pauses + 1]]
    /\ SetPause(r, worker'[r].pauses)
    /\ UNCHANGED <<progress, dropped, poll>>

PublishPause(r) ==
    /\ Stands(r, "enter")
    /\ Goes(r, "paused")
    /\ Publish(r, worker[r].count, worker[r].pauses)
    /\ UNCHANGED <<row, poll>>

LeaveWaiting(r) ==
    /\ Stands(r, "paused")
    /\ Goes(r, "leave")
    /\ SetPause(r, 0)
    /\ UNCHANGED <<progress, dropped, poll>>

PublishResumed(r) ==
    /\ Stands(r, "leave")
    /\ Goes(r, "running")
    /\ Publish(r, worker[r].count, NoDeadline(worker[r].pauses))
    /\ UNCHANGED <<row, poll>>

\* The counters the runner writes to the row it closes (mutant: none).
NotWritten(r) == row[r].count
Written(r)    == worker[r].count

\* _finish, at the end of the catalog or after a failure anywhere: the row is closed
\* with its counters, unless somebody else has closed it.
Finish(r) ==
    /\ worker[r].at \notin {"off", "finished", "gone"}
    /\ Goes(r, "finished")
    /\ \/ /\ Active(r)
          /\ \E status \in {"failed", "done"} :
                /\ status = "done" => Stands(r, "running")
                /\ row' = [row EXCEPT ![r] =
                              [status |-> status, pause |-> 0, count |-> Written(r)]]
       \/ ~Active(r) /\ UNCHANGED row
    /\ UNCHANGED <<progress, dropped, poll>>

PublishFinal(r) ==
    /\ Stands(r, "finished")
    /\ Goes(r, "gone")
    /\ Publish(r, worker[r].count, NoDeadline(worker[r].pauses))
    /\ UNCHANGED <<row, poll>>

\* The worker dies, or never gets to begin.
Dies(r) ==
    /\ worker[r].at \notin {"off", "gone"}
    /\ Goes(r, "gone")
    /\ UNCHANGED <<row, progress, dropped, poll>>

\* Four hours without news, or Redis restarts empty.
ProgressExpires ==
    /\ progress # NoProgress
    /\ progress' = NoProgress
    /\ UNCHANGED <<row, worker, dropped, poll>>

-----------------------------------------------------------------------------
(* The observer: GET /api/runs/current.                                    *)

Created == {r \in Runs : row[r].status # "absent"}

\* find_active_run, and latest_run when there is none.  While one row is active no
\* later one is created, so what the second statement finds is what the first would find then.
Current == CHOOSE r \in Created : Active(r) \/ \A s \in Created : ~Active(s) /\ s <= r

ReadRow ==
    /\ poll.at # "row" /\ Created # {}
    /\ poll' = [at |-> "row",
                answer |-> [run |-> Current, status |-> row[Current].status, retry |-> 0,
                            pause |-> row[Current].pause, count |-> row[Current].count]]
    /\ UNCHANGED <<row, worker, progress, dropped>>

\* The one record may describe another run (mutant: it is taken for this one's).
AnyRun(record, r)  == record.run # NoRun
IsAbout(record, r) == record.run = r

\* _serialize: the counters of a run that is active come from the record, and so
\* does the deadline of a run that waits.
Serialized(stored, record) ==
    LET live == IsAbout(record, stored.run) IN
    [run    |-> stored.run,
     status |-> stored.status,
     pause  |-> stored.pause,
     count  |-> IF live /\ stored.status \in ActiveStatuses THEN record.count ELSE stored.count,
     retry  |-> IF live /\ stored.pause # 0 THEN record.retry ELSE 0]

\* read() never raises: without Redis there is no progress.
ReadProgress ==
    /\ poll.at = "row"
    /\ \E record \in {progress, NoProgress} :
          poll' = [at |-> "answered", answer |-> Serialized(poll.answer, record)]
    /\ UNCHANGED <<row, worker, progress, dropped>>

-----------------------------------------------------------------------------
Next ==
    \/ \E r \in Runs :
          \/ Open(r) \/ StartRunning(r) \/ CloseFromOutside(r)
          \/ Begin(r) \/ Advance(r) \/ EnterWaiting(r) \/ PublishPause(r)
          \/ LeaveWaiting(r) \/ PublishResumed(r) \/ Finish(r) \/ PublishFinal(r)
          \/ Dies(r)
    \/ ProgressExpires \/ ReadRow \/ ReadProgress

Spec == Init /\ [][Next]_vars

-----------------------------------------------------------------------------
(* Properties.                                                             *)

\* The counters of an answer are the run's own: never more than it has counted,
\* whichever run the single record is about, and all of it once the run is done
\* (_serialize, app/api/runs.py:243-250).
CountersAreTheRunsOwn ==
    LET answer == poll.answer IN
    answer.run # NoRun =>
        /\ answer.count <= worker[answer.run].count
        /\ poll.at = "answered" /\ answer.status = "done"
               => answer.count = worker[answer.run].count

\* A countdown is never that of a pause that was over when the row was read, unless
\* a publication was lost: the row and the record are read one after the other, and
\* a second pause may begin in between (progress.py:56-63, _leave_waiting).
CountdownIsNotStale ==
    LET answer == poll.answer IN
    answer.retry # 0 /\ answer.run \notin dropped => answer.retry >= answer.pause

=============================================================================
