-------------------------- MODULE RunProgress_proofs --------------------------
(* What an observer learns, for any number of runs, counts and pauses. *)
EXTENDS RunProgress, LatestRow, TLAPS

Rows    == [status : Statuses, pause : 0..MaxPauses, count : 0..MaxCount]
Runners == [at : Places, count : 0..MaxCount, pauses : 0..MaxPauses]

\* Where a runner stands while the deadline it published last may be in the record.
Late == {"paused", "leave", "finished", "gone"}

\* The row is behind its runner, and level with it once the run is done.
Behind(x, w) ==
    /\ x.status \in {"absent", "pending"} => w.at = "off"
    /\ x.count <= w.count
    /\ x.pause <= w.pauses
    /\ x.status = "done" => x.count = w.count /\ w.at \in {"finished", "gone"}

\* The record is behind the runner it is about; its deadline is that of the last pause.
RecordSound ==
    \A r \in Runs : progress.run = r =>
        /\ progress.count <= worker[r].count
        /\ r \notin dropped /\ progress.retry # 0 =>
              worker[r].at \in Late /\ progress.retry = worker[r].pauses

\* The answer is behind the runner it is about, and a done run counts no further.
About(r, answer) ==
    /\ answer.count <= worker[r].count
    /\ answer.pause <= worker[r].pauses
    /\ answer.status = "done" => row[r].status = "done" /\ answer.count = worker[r].count
    /\ answer.retry # 0 /\ r \notin dropped => answer.retry >= answer.pause

AnswerSound ==
    /\ poll.at = "row" => poll.answer.run # NoRun /\ poll.answer.retry = 0
    /\ poll.answer.run = NoRun => poll.answer.retry = 0
    /\ \A r \in Runs : poll.answer.run = r => About(r, poll.answer)

Inv ==
    /\ TypeOK
    /\ \A r \in Runs : Behind(row[r], worker[r])
    /\ RecordSound
    /\ AnswerSound

USE BoundsAreNumbers DEF Runs, NoRun

-----------------------------------------------------------------------------
(* The steps of a run.                                                     *)

\* The row and the runner of one run change; the record stays, tells of the runner
\* as it is now, or misses it.
Moves(r, x, w) ==
    /\ row' = [row EXCEPT ![r] = x]
    /\ worker' = [worker EXCEPT ![r] = w]
    /\ poll' = poll
    /\ Behind(x, w)
    /\ x.pause # 0 => x.status = "running"
    /\ w.count >= worker[r].count /\ w.pauses >= worker[r].pauses
    /\ row[r].status = "done" => x.status = "done" /\ w.count = worker[r].count
    /\ \/ /\ UNCHANGED <<progress, dropped>>
          /\ worker[r].at \in Late => w.at \in Late /\ w.pauses = worker[r].pauses
       \/ /\ progress' = progress
          /\ dropped' = dropped \cup {r}
       \/ /\ progress'.run = r /\ progress'.count <= w.count
          /\ progress' \in [run : Runs \cup {NoRun}, count : 0..MaxCount, retry : 0..MaxPauses]
          /\ progress'.retry # 0 => w.at \in Late /\ progress'.retry = w.pauses
          /\ dropped' = dropped

LEMMA MovesKeep ==
    ASSUME Inv, NEW r \in Runs, NEW x \in Rows, NEW w \in Runners, Moves(r, x, w)
    PROVE  Inv'
  <1>1. /\ row \in [Runs -> Rows] /\ worker \in [Runs -> Runners]
        /\ row' \in [Runs -> Rows] /\ worker' \in [Runs -> Runners]
        /\ row'[r] = x /\ worker'[r] = w
        /\ \A s \in Runs : s # r => row'[s] = row[s] /\ worker'[s] = worker[s]
    BY DEF Moves, Inv, TypeOK, Rows, Runners
  <1>2. /\ progress \in [run : Runs \cup {NoRun}, count : 0..MaxCount, retry : 0..MaxPauses]
        /\ progress' \in [run : Runs \cup {NoRun}, count : 0..MaxCount, retry : 0..MaxPauses]
        /\ dropped' \subseteq Runs /\ dropped \subseteq dropped'
    BY DEF Moves, Inv, TypeOK
  <1>3. TypeOK'
    BY <1>1, <1>2 DEF Moves, Inv, TypeOK, Rows, Runners
  <1>4. \A s \in Runs : Behind(row[s], worker[s])'
    BY <1>1 DEF Moves, Inv, Behind
  <1>5. ASSUME NEW s \in Runs
        PROVE  /\ worker[s].count <= worker'[s].count /\ worker[s].pauses <= worker'[s].pauses
               /\ row[s].status = "done" =>
                     row'[s].status = "done" /\ worker'[s].count = worker[s].count
    BY <1>1, SMT DEF Moves, Runners
  <1>6. ASSUME NEW s \in Runs, progress'.run = s
        PROVE  /\ progress'.count <= worker'[s].count
               /\ s \notin dropped' /\ progress'.retry # 0 =>
                     worker'[s].at \in Late /\ progress'.retry = worker'[s].pauses
    <2>0. progress'.count \in Nat /\ worker[s].count \in Nat /\ worker'[s].count \in Nat
      BY <1>1, <1>2, SMT DEF Runners
    <2>1. CASE /\ UNCHANGED <<progress, dropped>>
               /\ worker[r].at \in Late => w.at \in Late /\ w.pauses = worker[r].pauses
      <3>1. /\ progress'.count <= worker[s].count
            /\ s \notin dropped' /\ progress'.retry # 0 =>
                  worker[s].at \in Late /\ progress'.retry = worker[s].pauses
        BY <1>6, <2>1 DEF Inv, RecordSound
      <3>2. progress'.count <= worker'[s].count
        BY <1>5, <2>0, <3>1, SMT
      <3> QED
        BY <1>1, <2>1, <3>1, <3>2, Zenon
    <2>2. CASE progress' = progress /\ dropped' = dropped \cup {r}
      <3>1. /\ progress'.count <= worker[s].count
            /\ s \notin dropped /\ progress'.retry # 0 =>
                  worker[s].at \in Late /\ progress'.retry = worker[s].pauses
        BY <1>6, <2>2 DEF Inv, RecordSound
      <3>2. progress'.count <= worker'[s].count
        BY <1>5, <2>0, <3>1, SMT
      <3> QED
        BY <1>1, <2>2, <3>1, <3>2, Zenon
    <2>3. CASE /\ progress'.run = r /\ progress'.count <= w.count
               /\ progress'.retry # 0 => w.at \in Late /\ progress'.retry = w.pauses
      <3>1. s = r
        BY <1>6, <2>3
      <3> QED
        BY <1>1, <2>0, <2>3, <3>1, SMT
    <2> QED
      BY <2>1, <2>2, <2>3, Zenon DEF Moves
  <1>7. AnswerSound'
    <2>1. poll' = poll /\ poll.answer \in Answers
      BY DEF Moves, Inv, TypeOK
    <2>2. ASSUME NEW s \in Runs, poll.answer.run = s PROVE About(s, poll.answer)'
      <3>1. About(s, poll.answer)
        BY <2>2 DEF Inv, AnswerSound
      <3>2. /\ poll.answer.count \in Nat /\ poll.answer.pause \in Nat
            /\ worker[s] \in Runners /\ worker'[s] \in Runners
        BY <1>1, <2>1, SMT DEF Answers
      <3>3. poll.answer.count <= worker'[s].count /\ poll.answer.pause <= worker'[s].pauses
        BY <1>5, <3>1, <3>2, SMT DEF About, Runners
      <3>4. s \notin dropped' => s \notin dropped
        BY <1>2
      <3> QED
        BY <1>5, <2>1, <3>1, <3>3, <3>4, Zenon DEF About
    <2> QED
      BY <2>1, <2>2 DEF Inv, AnswerSound
  <1> QED
    BY <1>3, <1>4, <1>6, <1>7 DEF Inv, RecordSound

\* The row of a run moves and its runner stays as it is, but for its start.
LEMMA RowSteps ==
    ASSUME Inv, NEW r \in Runs, Open(r) \/ StartRunning(r) \/ CloseFromOutside(r)
    PROVE  Inv'
  <1>1. row[r] \in Rows /\ worker[r] \in Runners /\ Behind(row[r], worker[r])
    BY DEF Inv, TypeOK, Rows, Runners
  <1>2. row[r].pause # 0 => row[r].status = "running"
    BY DEF Inv, TypeOK
  <1>3. CASE Open(r)
    <2> DEFINE x == [row[r] EXCEPT !.status = "pending"]
    <2>1. x \in Rows /\ x.status = "pending" /\ x.count = row[r].count /\ x.pause = row[r].pause
      BY <1>1 DEF Rows, Statuses, ActiveStatuses
    <2>2. row' = [row EXCEPT ![r] = x] /\ worker' = [worker EXCEPT ![r] = worker[r]]
          /\ UNCHANGED <<progress, dropped, poll>> /\ row[r].status = "absent"
      BY <1>3 DEF Open, Inv, TypeOK
    <2> HIDE DEF x
    <2>3. Moves(r, x, worker[r])
      BY <1>1, <1>2, <2>1, <2>2, SMT DEF Moves, Behind, Runners
    <2> QED
      BY <1>1, <2>1, <2>3, MovesKeep
  <1>4. CASE StartRunning(r)
    <2> DEFINE x == [row[r] EXCEPT !.status = "running"]
               w == [worker[r] EXCEPT !.at = "begin"]
    <2>1. /\ x \in Rows /\ x.status = "running" /\ x.count = row[r].count /\ x.pause = row[r].pause
          /\ w \in Runners /\ w.at = "begin" /\ w.count = worker[r].count
          /\ w.pauses = worker[r].pauses
      BY <1>1 DEF Rows, Runners, Statuses, ActiveStatuses, Places
    <2>2. row' = [row EXCEPT ![r] = x] /\ worker' = [worker EXCEPT ![r] = w]
          /\ UNCHANGED <<progress, dropped, poll>> /\ row[r].status = "pending"
      BY <1>4 DEF StartRunning, Goes
    <2> HIDE DEF x, w
    <2>3. worker[r].at = "off"
      BY <1>1, <2>2 DEF Behind
    <2>4. Moves(r, x, w)
      BY <1>1, <2>1, <2>2, <2>3, SMT DEF Moves, Behind, Runners, Late
    <2> QED
      BY <2>1, <2>4, MovesKeep
  <1>5. CASE CloseFromOutside(r)
    <2> DEFINE x == [status |-> "failed", pause |-> 0, count |-> row[r].count]
    <2>1. x \in Rows /\ x.status = "failed" /\ x.count = row[r].count /\ x.pause = 0
      BY <1>1, SMT DEF Rows, Statuses
    <2>2. row' = [row EXCEPT ![r] = x]
      BY <1>5 DEF CloseFromOutside
    <2>3. worker' = [worker EXCEPT ![r] = worker[r]]
          /\ UNCHANGED <<progress, dropped, poll>> /\ row[r].status \in ActiveStatuses
      BY <1>5 DEF CloseFromOutside, Active, Inv, TypeOK
    <2> HIDE DEF x
    <2>4. Moves(r, x, worker[r])
      BY <1>1, <2>1, <2>2, <2>3, SMT DEF Moves, Behind, Runners, ActiveStatuses
    <2> QED
      BY <1>1, <2>1, <2>4, MovesKeep
  <1> QED
    BY <1>3, <1>4, <1>5

\* A runner goes on and publishes, or not, what it counts.
Publishes(r, w) ==
    \/ UNCHANGED <<progress, dropped>> /\ (worker[r].at \in Late =>
                                             w.at \in Late /\ w.pauses = worker[r].pauses)
    \/ \E count \in {0, w.count} : Publish(r, count, 0)
    \/ Publish(r, w.count, w.pauses) /\ w.at \in Late

LEMMA RunnerKeeps ==
    ASSUME Inv, NEW r \in Runs, NEW x \in Rows, NEW w \in Runners,
           row' = [row EXCEPT ![r] = x], worker' = [worker EXCEPT ![r] = w], poll' = poll,
           Publishes(r, w), Behind(x, w), x.pause # 0 => x.status = "running",
           w.count >= worker[r].count, w.pauses >= worker[r].pauses,
           row[r].status = "done" => x.status = "done" /\ w.count = worker[r].count
    PROVE  Inv'
  <1>0. w.count \in 0..MaxCount /\ w.pauses \in 0..MaxPauses /\ 0 \in 0..MaxPauses
        /\ r \in Runs \cup {NoRun}
    BY SMT DEF Runners
  <1>1. CASE progress' = progress /\ dropped' = dropped \cup {r}
    <2>1. Moves(r, x, w)
      BY <1>1, Zenon DEF Moves
    <2> QED
      BY <2>1, MovesKeep
  <1>2. ASSUME NEW count \in {0, w.count}, NEW retry \in {0, w.pauses},
               retry = 0 \/ w.at \in Late,
               progress' = [run |-> r, count |-> count, retry |-> retry], dropped' = dropped
        PROVE  Inv'
    <2>0. count \in 0..MaxCount /\ count <= w.count
      BY <1>0, <1>2, SMT
    <2>1. /\ progress'.run = r /\ progress'.count <= w.count /\ progress'.retry = retry
          /\ progress' \in [run : Runs \cup {NoRun}, count : 0..MaxCount, retry : 0..MaxPauses]
      BY <1>0, <1>2, <2>0
    <2>2. progress'.retry # 0 => w.at \in Late /\ progress'.retry = w.pauses
      BY <1>2, <2>1
    <2>3. Moves(r, x, w)
      BY <1>2, <2>1, <2>2, Zenon DEF Moves
    <2> QED
      BY <2>3, MovesKeep
  <1>3. CASE UNCHANGED <<progress, dropped>> /\ (worker[r].at \in Late =>
                                                   w.at \in Late /\ w.pauses = worker[r].pauses)
    <2>1. Moves(r, x, w)
      BY <1>3, Zenon DEF Moves
    <2> QED
      BY <2>1, MovesKeep
  <1> QED
    BY <1>1, <1>2, <1>3, Zenon DEF Publishes, Publish

LEMMA RunnerFacts ==
    ASSUME Inv, NEW r \in Runs, worker[r].at # "off"
    PROVE  /\ row[r] \in Rows /\ worker[r] \in Runners /\ Behind(row[r], worker[r])
           /\ row[r].pause # 0 => row[r].status = "running"
           /\ row[r].status \notin {"absent", "pending"}
           /\ worker[r].at \notin {"finished", "gone"} => row[r].status # "done"
           /\ row = [row EXCEPT ![r] = row[r]]
           /\ worker[r].count \in Nat /\ worker[r].pauses \in Nat
           /\ row[r].count \in Nat /\ row[r].pause \in Nat
  <1>1. /\ row[r] \in Rows /\ worker[r] \in Runners /\ Behind(row[r], worker[r])
        /\ row[r].pause # 0 => row[r].status = "running"
        /\ row = [row EXCEPT ![r] = row[r]]
    BY DEF Inv, TypeOK, Rows, Runners
  <1>2. /\ worker[r].count \in Nat /\ worker[r].pauses \in Nat
        /\ row[r].count \in Nat /\ row[r].pause \in Nat
    BY <1>1, SMT DEF Rows, Runners
  <1> QED
    BY <1>1, <1>2 DEF Behind

\* The runner gets to a place with its counters as they were, and the row stays.
LEMMA PlaceSteps ==
    ASSUME Inv, NEW r \in Runs, NEW place \in Places, Goes(r, place), row' = row, poll' = poll,
           worker[r].at # "off", place \notin {"off"},
           worker[r].at \in {"finished", "gone"} => place \in {"finished", "gone"},
           \/ UNCHANGED <<progress, dropped>> /\ (worker[r].at \in Late => place \in Late)
           \/ \E count \in {0, worker[r].count} : Publish(r, count, 0)
           \/ Publish(r, worker[r].count, worker[r].pauses) /\ place \in Late
    PROVE  Inv'
  <1> DEFINE w == [worker[r] EXCEPT !.at = place]
  <1>1. w \in Runners /\ w.at = place /\ w.count = worker[r].count /\ w.pauses = worker[r].pauses
    BY RunnerFacts DEF Runners
  <1>2. row' = [row EXCEPT ![r] = row[r]] /\ worker' = [worker EXCEPT ![r] = w]
    BY RunnerFacts DEF Goes
  <1> HIDE DEF w
  <1>3. Publishes(r, w)
    BY <1>1, Zenon DEF Publishes
  <1>4. Behind(row[r], w)
    BY <1>1, RunnerFacts DEF Behind
  <1>5. w.count >= worker[r].count /\ w.pauses >= worker[r].pauses
    BY <1>1, RunnerFacts, SMT
  <1> QED
    BY <1>1, <1>2, <1>3, <1>4, <1>5, RunnerFacts, RunnerKeeps

LEMMA PublishingSteps ==
    ASSUME Inv, NEW r \in Runs,
           Begin(r) \/ PublishPause(r) \/ PublishResumed(r) \/ PublishFinal(r) \/ Dies(r)
    PROVE  Inv'
  <1>1. CASE Begin(r)
    BY <1>1, PlaceSteps DEF Begin, Stands, NoDeadline, Places
  <1>2. CASE PublishPause(r)
    BY <1>2, PlaceSteps DEF PublishPause, Stands, Places, Late
  <1>3. CASE PublishResumed(r)
    BY <1>3, PlaceSteps DEF PublishResumed, Stands, NoDeadline, Places
  <1>4. CASE PublishFinal(r)
    BY <1>4, PlaceSteps DEF PublishFinal, Stands, NoDeadline, Places
  <1>5. CASE Dies(r)
    BY <1>5, PlaceSteps DEF Dies, Places, Late
  <1> QED
    BY <1>1, <1>2, <1>3, <1>4, <1>5

LEMMA AdvanceKeeps == ASSUME Inv, NEW r \in Runs, Advance(r) PROVE Inv'
  <1> DEFINE w == [worker[r] EXCEPT !.count = @ + 1]
  <1>1. worker[r].at = "running" /\ worker[r].count < MaxCount /\ worker[r] \in Runners
        /\ worker[r].at # "off" /\ worker[r].count \in Nat /\ worker[r].pauses \in Nat
    BY RunnerFacts DEF Advance, Stands
  <1>2. w \in Runners /\ w.at = "running" /\ w.count = worker[r].count + 1
        /\ w.pauses = worker[r].pauses
    BY <1>1, SMT DEF Runners
  <1>3. /\ row' = [row EXCEPT ![r] = row[r]] /\ worker' = [worker EXCEPT ![r] = w]
        /\ worker'[r] = w /\ poll' = poll
    BY <1>1, RunnerFacts DEF Advance, Inv, TypeOK
  <1> HIDE DEF w
  <1>4. Publishes(r, w)
    BY <1>3 DEF Advance, Publishes, NoDeadline
  <1>5. Behind(row[r], w)
    <2>1. row[r].status \notin {"absent", "pending", "done"}
          /\ row[r].count <= worker[r].count /\ row[r].pause <= worker[r].pauses
          /\ row[r].count \in Nat
      BY <1>1, RunnerFacts DEF Behind
    <2> QED
      BY <1>1, <1>2, <2>1, SMT DEF Behind
  <1>6. w.count >= worker[r].count /\ w.pauses >= worker[r].pauses /\ row[r].status # "done"
    BY <1>1, <1>2, RunnerFacts, SMT
  <1> QED
    BY <1>1, <1>2, <1>3, <1>4, <1>5, <1>6, RunnerFacts, RunnerKeeps

\* The row takes a pause, or its end, while the run is worked on.
LEMMA SetPauseIs ==
    ASSUME Inv, NEW r \in Runs, worker[r].at # "off", NEW pause \in 0..MaxPauses, SetPause(r, pause)
    PROVE  \E x \in Rows :
              /\ row' = [row EXCEPT ![r] = x]
              /\ x.status = row[r].status /\ x.count = row[r].count
              /\ x.pause \in {pause, row[r].pause}
              /\ x.pause # 0 => x.status = "running"
  <1>1. CASE Takes(r)
    <2> DEFINE x == [row[r] EXCEPT !.pause = pause]
    <2>1. x \in Rows /\ x.status = row[r].status /\ x.count = row[r].count /\ x.pause = pause
      BY RunnerFacts DEF Rows
    <2>2. row' = [row EXCEPT ![r] = x]
      BY <1>1 DEF SetPause
    <2> QED
      BY <1>1, <2>1, <2>2 DEF Takes
  <1>2. CASE ~Takes(r)
    BY <1>2, RunnerFacts DEF SetPause
  <1> QED
    BY <1>1, <1>2

LEMMA WaitingSteps == ASSUME Inv, NEW r \in Runs, EnterWaiting(r) \/ LeaveWaiting(r) PROVE Inv'
  <1>1. worker[r].at \in {"running", "paused"} /\ worker[r].at # "off"
    BY DEF EnterWaiting, LeaveWaiting, Stands
  <1>2. /\ worker[r] \in Runners /\ worker[r].count \in Nat /\ worker[r].pauses \in Nat
        /\ row[r].status \notin {"absent", "pending", "done"}
        /\ row[r].count <= worker[r].count /\ row[r].pause <= worker[r].pauses
        /\ row[r].count \in Nat /\ row[r].pause \in Nat
    BY <1>1, RunnerFacts DEF Behind
  <1>3. UNCHANGED <<progress, dropped, poll>>
    BY DEF EnterWaiting, LeaveWaiting
  <1>4. ASSUME NEW x \in Rows, NEW w \in Runners,
               row' = [row EXCEPT ![r] = x], worker' = [worker EXCEPT ![r] = w],
               x.status = row[r].status, x.count = row[r].count,
               x.pause \in {0, w.pauses, row[r].pause}, x.pause # 0 => x.status = "running",
               w.count = worker[r].count, w.pauses >= worker[r].pauses,
               worker[r].at \in Late => w.at \in Late /\ w.pauses = worker[r].pauses
        PROVE  Inv'
    <2>0. w.pauses \in Nat
      BY SMT DEF Runners
    <2>1. Behind(x, w)
      BY <1>2, <1>4, <2>0, SMT DEF Behind
    <2>2. Publishes(r, w)
      BY <1>3, <1>4 DEF Publishes
    <2>3. w.count >= worker[r].count /\ row[r].status # "done"
      BY <1>2, <1>4, SMT
    <2> QED
      BY <1>3, <1>4, <2>1, <2>2, <2>3, RunnerKeeps
  <1>5. CASE EnterWaiting(r)
    <2> DEFINE w == [at |-> "enter", count |-> worker[r].count, pauses |-> worker[r].pauses + 1]
    <2>1. w \in Runners /\ w.count = worker[r].count /\ w.pauses = worker[r].pauses + 1
          /\ w.pauses \in 0..MaxPauses
      BY <1>2, <1>5, SMT DEF EnterWaiting, Runners, Places
    <2>2. worker' = [worker EXCEPT ![r] = w] /\ worker'[r] = w
      BY <1>5 DEF EnterWaiting, Inv, TypeOK
    <2> HIDE DEF w
    <2>3. SetPause(r, w.pauses)
      BY <1>5, <2>2 DEF EnterWaiting
    <2>4. PICK x \in Rows :
              /\ row' = [row EXCEPT ![r] = x]
              /\ x.status = row[r].status /\ x.count = row[r].count
              /\ x.pause \in {w.pauses, row[r].pause}
              /\ x.pause # 0 => x.status = "running"
      BY <1>1, <2>1, <2>3, SetPauseIs
    <2>5. w.pauses >= worker[r].pauses
      BY <1>2, <2>1, SMT
    <2>6. worker[r].at \notin Late
      BY <1>5 DEF EnterWaiting, Stands, Late
    <2> QED
      BY <1>4, <2>1, <2>2, <2>4, <2>5, <2>6
  <1>6. CASE LeaveWaiting(r)
    <2> DEFINE w == [worker[r] EXCEPT !.at = "leave"]
    <2>1. w \in Runners /\ w.count = worker[r].count /\ w.pauses = worker[r].pauses
          /\ w.at = "leave"
      BY <1>2 DEF Runners, Places
    <2>2. worker' = [worker EXCEPT ![r] = w] /\ SetPause(r, 0) /\ 0 \in 0..MaxPauses
      BY <1>6, SMT DEF LeaveWaiting, Goes
    <2> HIDE DEF w
    <2>3. PICK x \in Rows :
              /\ row' = [row EXCEPT ![r] = x]
              /\ x.status = row[r].status /\ x.count = row[r].count
              /\ x.pause \in {0, row[r].pause}
              /\ x.pause # 0 => x.status = "running"
      BY <1>1, <2>2, SetPauseIs
    <2>4. w.pauses >= worker[r].pauses
      BY <1>2, <2>1, SMT
    <2> QED
      BY <1>4, <2>1, <2>2, <2>3, <2>4 DEF Late
  <1> QED
    BY <1>5, <1>6

LEMMA FinishKeeps == ASSUME Inv, NEW r \in Runs, Finish(r) PROVE Inv'
  <1>1. worker[r].at \notin {"off", "finished", "gone"} /\ worker[r].at # "off"
        /\ Goes(r, "finished") /\ UNCHANGED <<progress, dropped, poll>>
    BY DEF Finish
  <1>2. CASE row' = row
    BY <1>1, <1>2, PlaceSteps DEF Places, Late
  <1>3. ASSUME NEW status \in {"failed", "done"},
               row' = [row EXCEPT ![r] = [status |-> status, pause |-> 0, count |-> Written(r)]]
        PROVE  Inv'
    <2> DEFINE x == [status |-> status, pause |-> 0, count |-> Written(r)]
               w == [worker[r] EXCEPT !.at = "finished"]
    <2>1. w \in Runners /\ w.at = "finished" /\ w.count = worker[r].count
          /\ w.pauses = worker[r].pauses /\ w.count \in 0..MaxCount /\ w.pauses \in Nat
      BY <1>1, RunnerFacts DEF Runners, Places
    <2>2. x \in Rows /\ x.status = status /\ x.pause = 0 /\ x.count = w.count
      BY <1>3, <2>1, SMT DEF Written, Rows, Statuses
    <2>3. row' = [row EXCEPT ![r] = x] /\ worker' = [worker EXCEPT ![r] = w]
      BY <1>1, <1>3 DEF Goes
    <2> HIDE DEF x, w
    <2>4. Behind(x, w)
      BY <1>3, <2>1, <2>2, SMT DEF Behind
    <2>5. w.count >= worker[r].count /\ w.pauses >= worker[r].pauses /\ row[r].status # "done"
      BY <1>1, <2>1, RunnerFacts, SMT
    <2>6. Publishes(r, w)
      BY <1>1, <2>1 DEF Publishes, Late
    <2> QED
      BY <1>1, <2>1, <2>2, <2>3, <2>4, <2>5, <2>6, RunnerKeeps
  <1> QED
    BY <1>2, <1>3 DEF Finish

-----------------------------------------------------------------------------
(* The observer.                                                           *)

LEMMA CurrentIsCreated == Created # {} => Current \in Created
  <1> SUFFICES ASSUME Created # {} PROVE Current \in Created
    OBVIOUS
  <1>1. \E r \in Created : Active(r) \/ \A s \in Created : ~Active(s) /\ s <= r
    <2>1. CASE \E r \in Created : Active(r)
      BY <2>1
    <2>2. CASE \A r \in Created : ~Active(r)
      <3>1. Created \in SUBSET (1..LastRun)
        BY DEF Created
      <3> QED
        BY <2>2, <3>1, LatestExists
    <2> QED
      BY <2>1, <2>2
  <1> QED
    BY <1>1, Zenon DEF Current

\* The record of no run says nothing.
LEMMA ExpireKeeps == ASSUME Inv, ProgressExpires PROVE Inv'
  <1>1. /\ UNCHANGED <<row, worker, dropped, poll>>
        /\ progress' = [run |-> 0, count |-> 0, retry |-> 0]
    BY DEF ProgressExpires, NoProgress
  <1>2. TypeOK'
    <2>1. 0 \in Runs \cup {0} /\ 0 \in 0..MaxCount /\ 0 \in 0..MaxPauses
      BY SMT
    <2> QED
      BY <1>1, <2>1 DEF Inv, TypeOK
  <1>3. (\A r \in Runs : Behind(row[r], worker[r])') /\ AnswerSound'
    BY <1>1 DEF Inv, Behind, AnswerSound, About
  <1>4. RecordSound'
    <2>1. \A r \in Runs : progress'.run # r
      BY <1>1, SMT
    <2> QED
      BY <2>1 DEF RecordSound
  <1> QED
    BY <1>2, <1>3, <1>4 DEF Inv

\* Only the answer changes: what it must satisfy.
LEMMA AnswerKeeps ==
    ASSUME Inv, UNCHANGED <<row, worker, progress, dropped>>,
           NEW place \in {"row", "answered"}, NEW answer \in Answers,
           poll' = [at |-> place, answer |-> answer],
           answer.retry # 0 => answer.pause # 0,
           place = "row" => answer.run # NoRun /\ answer.retry = 0,
           answer.run = NoRun => answer.retry = 0,
           \A r \in Runs : answer.run = r => About(r, answer)
    PROVE  Inv'
  <1>1. poll'.at = place /\ poll'.answer = answer
    OBVIOUS
  <1>2. TypeOK'
    BY <1>1 DEF Inv, TypeOK
  <1>3. (\A r \in Runs : Behind(row[r], worker[r])') /\ RecordSound'
    BY DEF Inv, Behind, RecordSound
  <1>4. AnswerSound'
    BY <1>1 DEF AnswerSound, About
  <1> QED
    BY <1>2, <1>3, <1>4 DEF Inv

LEMMA ReadRowKeeps == ASSUME Inv, ReadRow PROVE Inv'
  <1> DEFINE r == Current
             answer == [run |-> r, status |-> row[r].status, retry |-> 0,
                        pause |-> row[r].pause, count |-> row[r].count]
  <1>1. r \in Runs
    BY CurrentIsCreated DEF ReadRow, Created
  <1>2. poll' = [at |-> "row", answer |-> answer] /\ UNCHANGED <<row, worker, progress, dropped>>
    BY DEF ReadRow
  <1> HIDE DEF r
  <1>3. row[r] \in Rows /\ Behind(row[r], worker[r])
    BY <1>1 DEF Inv, TypeOK, Rows
  <1>4. answer \in Answers
    <2>1. 0 \in 0..MaxPauses
      BY SMT
    <2> QED
      BY <1>1, <1>3, <2>1 DEF Answers, Rows
  <1>5. About(r, answer)
    BY <1>3 DEF Behind, About
  <1>6. answer.run = r /\ answer.retry = 0 /\ r # 0
    BY <1>1, SMT
  <1> HIDE DEF answer
  <1> QED
    BY <1>2, <1>4, <1>5, <1>6, AnswerKeeps

LEMMA ReadProgressKeeps == ASSUME Inv, ReadProgress PROVE Inv'
  <1> DEFINE stored == poll.answer
  <1>1. PICK record \in {progress, NoProgress} :
              poll' = [at |-> "answered", answer |-> Serialized(stored, record)]
    BY DEF ReadProgress
  <1>2. UNCHANGED <<row, worker, progress, dropped>> /\ poll.at = "row"
    BY DEF ReadProgress
  <1> DEFINE live  == IsAbout(record, stored.run)
             count == IF live /\ stored.status \in ActiveStatuses THEN record.count ELSE stored.count
             retry == IF live /\ stored.pause # 0 THEN record.retry ELSE 0
             answer == Serialized(stored, record)
  <1>3. stored \in Answers /\ stored.retry = 0
        /\ record \in [run : Runs \cup {NoRun}, count : 0..MaxCount, retry : 0..MaxPauses]
    <2>1. NoProgress \in [run : Runs \cup {NoRun}, count : 0..MaxCount, retry : 0..MaxPauses]
      BY SMT DEF NoProgress
    <2> QED
      BY <1>2, <2>1 DEF Inv, TypeOK, AnswerSound
  <1>4. /\ answer.run = stored.run /\ answer.status = stored.status
        /\ answer.pause = stored.pause /\ answer.count = count /\ answer.retry = retry
        /\ answer \in Answers
    <2>1. count \in 0..MaxCount /\ retry \in 0..MaxPauses
      BY <1>3, SMT DEF Answers
    <2>2. answer = [run |-> stored.run, status |-> stored.status, pause |-> stored.pause,
                    count |-> count, retry |-> retry]
      BY DEF Serialized
    <2> HIDE DEF count, retry, answer
    <2> QED
      BY <1>3, <2>1, <2>2 DEF Answers
  <1>5. answer.retry # 0 => answer.pause # 0
    BY <1>4
  <1>6. answer.run # NoRun
    BY <1>2, <1>4 DEF Inv, AnswerSound
  <1>7. ASSUME NEW r \in Runs, answer.run = r PROVE About(r, answer)
    <2>1. About(r, stored)
      BY <1>4, <1>7 DEF Inv, AnswerSound
    <2>2. CASE ~live
      BY <1>4, <2>1, <2>2 DEF About
    <2>3. CASE live
      <3>1. record.run = r
        BY <1>4, <1>7, <2>3 DEF IsAbout
      <3>2. record = progress
        <4>1. r # 0
          BY SMT
        <4> QED
          BY <1>1, <3>1, <4>1 DEF NoProgress
      <3>3. /\ record.count <= worker[r].count
            /\ r \notin dropped /\ record.retry # 0 => record.retry = worker[r].pauses
        BY <3>1, <3>2 DEF Inv, RecordSound
      <3>4. answer.count <= worker[r].count
        BY <1>4, <2>1, <3>3 DEF About
      <3>5. answer.status = "done" => answer.count = stored.count
        BY <1>4 DEF ActiveStatuses
      <3>6. answer.retry # 0 /\ r \notin dropped => answer.retry >= answer.pause
        BY <1>3, <1>4, <2>1, <3>3, SMT DEF About, Answers
      <3> QED
        BY <1>4, <2>1, <3>4, <3>5, <3>6, Zenon DEF About
    <2> QED
      BY <2>2, <2>3
  <1> HIDE DEF answer
  <1> QED
    BY <1>1, <1>2, <1>4, <1>5, <1>6, <1>7, AnswerKeeps DEF answer

-----------------------------------------------------------------------------
(* The theorems.                                                           *)

LEMMA InvInit == Init => Inv
  <1> SUFFICES ASSUME Init PROVE Inv
    OBVIOUS
  <1>1. 0 \in Runs \cup {0} /\ 0 \in 0..MaxCount /\ 0 \in 0..MaxPauses /\ 0 \notin Runs
    BY SMT
  <1>2. TypeOK
    BY <1>1 DEF Init, TypeOK, NoProgress, NoAnswer, Answers, Statuses, Places
  <1>3. \A r \in Runs : Behind(row[r], worker[r])
    BY SMT DEF Init, Behind
  <1>4. RecordSound /\ AnswerSound
    BY <1>1 DEF Init, RecordSound, AnswerSound, NoProgress, NoAnswer
  <1> QED
    BY <1>2, <1>3, <1>4 DEF Inv

THEOREM ProgressInvariant == Spec => []Inv
  <1>1. Init => Inv
    BY InvInit
  <1>2. Inv /\ [Next]_vars => Inv'
    <2> SUFFICES ASSUME Inv, [Next]_vars PROVE Inv'
      OBVIOUS
    <2>1. CASE UNCHANGED vars
      BY <2>1 DEF vars, Inv, TypeOK, Behind, RecordSound, AnswerSound, About
    <2> QED
      BY <2>1, RowSteps, PublishingSteps, AdvanceKeeps, WaitingSteps, FinishKeeps,
         ExpireKeeps, ReadRowKeeps, ReadProgressKeeps DEF Next
  <1> QED
    BY <1>1, <1>2, PTL DEF Spec

\* A closed row is in no pause, and a deadline comes only with a pause.
THEOREM ProgressTyping == Spec => []TypeOK
  <1>1. Inv => TypeOK
    BY DEF Inv
  <1> QED
    BY <1>1, ProgressInvariant, PTL

\* The counters of an answer are those of the run it names.
THEOREM CountersHold == Spec => []CountersAreTheRunsOwn
  <1>1. Inv => CountersAreTheRunsOwn
    BY DEF Inv, TypeOK, Answers, AnswerSound, About, CountersAreTheRunsOwn
  <1> QED
    BY <1>1, ProgressInvariant, PTL

\* A countdown is not that of a pause that was over before the row was read.
THEOREM CountdownHolds == Spec => []CountdownIsNotStale
  <1>1. Inv => CountdownIsNotStale
    BY DEF Inv, TypeOK, Answers, AnswerSound, About, CountdownIsNotStale
  <1> QED
    BY <1>1, ProgressInvariant, PTL

=============================================================================
