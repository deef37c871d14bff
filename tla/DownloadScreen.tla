----------------------------- MODULE DownloadScreen -----------------------------
(***************************************************************************)
(* The download page (static/app.js) over GET /api/runs/current and POST   *)
(* /api/runs (app/api/runs.py).                                            *)
(*                                                                         *)
(* One timer drives the polling.  The server reads a run at some moment    *)
(* between the sending of a poll and its answer; the answer may fail, and  *)
(* answers may overtake each other.  A start polls at once when it is      *)
(* over, so that several polls can be under way.  Nothing tells the page   *)
(* of the age of an answer: the last one to arrive is drawn.               *)
(*                                                                         *)
(* What an answer says of counters and pauses is in RunProgress.           *)
(***************************************************************************)
EXTENDS Naturals

CONSTANTS
    LastRun,    \* the highest id that a row gets
    Polls       \* bound: polls under way at the same time

ASSUME LastRunIsNumber == LastRun \in Nat

\* Ids are numbers and grow; 0 stands for no run.
Runs  == 1..LastRun
NoRun == 0

VARIABLES
    status,      \* [Runs -> the status of the row]
    shown,       \* downloadScreen.run: the answer on the screen
    enabled,     \* the start button
    starting,    \* downloadScreen.starting
    post,        \* the request of the start: where it stands, the run it has created
    timer,       \* pollTimer is set
    poll         \* [Polls -> where the poll stands, its answer]

vars == <<status, shown, enabled, starting, post, timer, poll>>

\* `active' stands for pending, starting, running and waiting_retry.
Statuses == {"absent", "active", "failed", "done"}

\* An answer is null when there is no run.
Answers  == [run : Runs \cup {NoRun}, status : Statuses]
NoAnswer == [run |-> NoRun, status |-> "absent"]

IsActive(answer) == answer.status = "active"

-----------------------------------------------------------------------------
Free    == [at |-> "free", answer |-> NoAnswer]
NoStart == [at |-> "idle", run |-> NoRun]

\* What the requests carry, and that the page never offers the button while a start is under way.
TypeOK ==
    /\ status \in [Runs -> Statuses]
    /\ shown \in Answers
    /\ enabled \in BOOLEAN /\ starting \in BOOLEAN /\ timer \in BOOLEAN
    /\ post \in [at : {"idle", "sent", "created"}, run : Runs \cup {NoRun}]
    /\ (starting <=> post # NoStart)
    /\ (enabled => ~starting)
    /\ poll \in [Polls -> [at : {"free", "sent", "answered"}, answer : Answers]]

Init ==
    /\ status = [r \in Runs |-> "absent"]
    /\ shown = NoAnswer
    /\ enabled = TRUE
    /\ starting = FALSE
    /\ post = NoStart
    /\ timer = TRUE              \* the page polls as soon as it is loaded
    /\ poll = [p \in Polls |-> Free]

-----------------------------------------------------------------------------
(* The rows.                                                               *)

Created == {r \in Runs : status[r] # "absent"}

\* The ids of rows are given in order, and the index admits one active row.
Open(r) ==
    /\ status[r] = "absent"
    /\ \A s \in Runs : status[s] # "active" /\ (s < r => s \in Created)
    /\ status' = [status EXCEPT ![r] = "active"]

\* Another browser starts a run.
OpenedElsewhere(r) ==
    /\ Open(r)
    /\ UNCHANGED <<shown, enabled, starting, post, timer, poll>>

\* The run ends, or the reaper that every poll calls closes it.
Close(r) ==
    /\ status[r] = "active"
    /\ \E outcome \in {"failed", "done"} : status' = [status EXCEPT ![r] = outcome]
    /\ UNCHANGED <<shown, enabled, starting, post, timer, poll>>

\* find_active_run, and latest_run when there is none; null when there are no runs.
CurrentRun ==
    IF Created = {} THEN NoAnswer
    ELSE LET r == CHOOSE r \in Created : \/ status[r] = "active"
                                         \/ \A s \in Created : status[s] # "active" /\ s <= r
         IN [run |-> r, status |-> status[r]]

-----------------------------------------------------------------------------
PollGoes(p, stage, answer) == poll' = [poll EXCEPT ![p] = [at |-> stage, answer |-> answer]]

\* render(): the button follows the answer that is drawn (mutants: once off, off; a
\* start under way does not count).
StaysOff(answer, busy) == enabled /\ ~IsActive(answer) /\ ~busy
WhenIdle(answer, busy) == ~IsActive(answer)
Offered(answer, busy)  == ~IsActive(answer) /\ ~busy
Draw(answer) ==
    /\ shown' = answer
    /\ enabled' = Offered(answer, starting)

-----------------------------------------------------------------------------
(* The poll.                                                               *)

SendPoll(p) ==
    /\ timer /\ poll[p] = Free
    /\ timer' = FALSE
    /\ PollGoes(p, "sent", NoAnswer)
    /\ UNCHANGED <<status, shown, enabled, starting, post>>

ReadRow(p) ==
    /\ poll[p].at = "sent"
    /\ PollGoes(p, "answered", CurrentRun)
    /\ UNCHANGED <<status, shown, enabled, starting, post, timer>>

\* Only the delay of schedule() depends on the answer (mutant: a run that is over is
\* not polled any more).
WhileActive(answer) == IsActive(answer)
Rescheduled(answer) == TRUE

PollAnswered(p) ==
    /\ poll[p].at = "answered"
    /\ Draw(poll[p].answer)
    /\ timer' = Rescheduled(poll[p].answer)
    /\ poll' = [poll EXCEPT ![p] = Free]
    /\ UNCHANGED <<status, starting, post>>

\* The catch of poll() falls through to schedule() (mutant: only a success does).
OnlyAfterSuccess == timer
AfterFailure     == TRUE

\* PostgreSQL, the API or the network, at any time before the answer is there.
PollFailed(p) ==
    /\ poll[p] # Free
    /\ timer' = AfterFailure
    /\ poll' = [poll EXCEPT ![p] = Free]
    /\ UNCHANGED <<status, shown, enabled, starting, post>>

-----------------------------------------------------------------------------
(* The start.                                                              *)

\* Somebody presses the button as long as there are ids left.
PressStart ==
    /\ enabled /\ ~starting /\ Created # Runs
    /\ starting' = TRUE /\ enabled' = FALSE
    /\ post' = [post EXCEPT !.at = "sent"]
    /\ UNCHANGED <<status, shown, timer, poll>>

StartCreates(r) ==
    /\ post.at = "sent"
    /\ Open(r)
    /\ post' = [at |-> "created", run |-> r]
    /\ UNCHANGED <<shown, enabled, starting, timer, poll>>

\* The finally clause of start(): the page polls at once.
StartOver ==
    /\ starting' = FALSE
    /\ post' = NoStart
    /\ timer' = TRUE
    /\ UNCHANGED <<status, poll>>

\* The answer is the row as it was inserted, and is drawn while `starting' still holds.
StartAnswered ==
    /\ post.at = "created"
    /\ Draw([run |-> post.run, status |-> "active"])
    /\ StartOver

\* 409, 422, 503, or an answer that never arrives, with or without a row.
StartFailed ==
    /\ starting
    /\ StartOver
    /\ UNCHANGED <<shown, enabled>>

-----------------------------------------------------------------------------
Next ==
    \/ \E r \in Runs : OpenedElsewhere(r) \/ Close(r) \/ StartCreates(r)
    \/ PressStart \/ StartAnswered \/ StartFailed
    \/ \E p \in Polls : SendPoll(p) \/ ReadRow(p) \/ PollAnswered(p) \/ PollFailed(p)

\* The page runs, a request ends, and a server that is asked again and again
\* answers now and then.
Fairness ==
    /\ WF_vars(StartFailed)
    /\ \A p \in Polls :
          SF_vars(SendPoll(p)) /\ SF_vars(ReadRow(p)) /\ SF_vars(PollAnswered(p))

Spec     == Init /\ [][Next]_vars
FairSpec == Spec /\ Fairness

-----------------------------------------------------------------------------
(* Properties.                                                             *)

\* Polling is the way back to a working page, and what reaps dead runs: whatever
\* fails or overtakes, a timer is set, a poll is under way, or a start that will
\* set the timer when it returns (app.js: poll, schedule, start).
PollingNeverStops == timer \/ starting \/ \E p \in Polls : poll[p] # Free

\* The page comes to rest on the run the service would name, and does not offer the
\* button while that run is active: an older answer that overtook a start, or a newer
\* answer, is put right by a later poll (app.js:163-177, 150-160).
ScreenSettles == <>[](shown = CurrentRun /\ (IsActive(shown) => ~enabled))

\* When no run is active the button comes back, after a refused start too: a start
\* leaves it off, and only a later poll can switch it on (app.js:142-160, 209).
StartIsOffered == []<>(IsActive(CurrentRun) \/ enabled)

=============================================================================
