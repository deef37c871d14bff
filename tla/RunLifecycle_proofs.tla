------------------------ MODULE RunLifecycle_proofs ------------------------
(* The safety of RunLifecycle, for any number of runs, workers and handlers. *)
EXTENDS RunLifecycle, TLAPS

\* What the coroutines carry where they need it: a task has its run, a handler
\* its row, a reaper its candidate, and a closing worker its verdict.
Bookkeeping ==
    /\ \A w \in Workers : pc[w] # "idle" => job[w] \in Runs
    /\ \A h \in Starters :
          pc[h] \in {"publish", "fail_unpublished"} => job[h] \in Runs
    /\ \A a \in Actors :
          pc[a] \in {"reap_owner", "reap_close"} =>
              seen[a].run \in Runs /\ seen[a].status \in ActiveStatuses
    /\ \A w \in Workers :
          /\ pc[w] = "finish_early" => verdict[w] \in EarlyDiagnoses
          /\ pc[w] = "finish" => verdict[w] \in {"runner", "done"}

\* An open row has no diagnosis yet.
OpenRowsAreClean == \A r \in Runs : status[r] \notin TerminalStatuses => error[r] = "none"

\* How far the row of a task is, by how far the task is: its row is `starting'
\* before start_running and was `running' after it, unless somebody closed it.
BeforeStart == {"acquire", "verify", "reap_select", "reap_owner", "reap_close",
                "start"}
AfterStart  == {"reset"} \cup RunnerSteps

Settled(r) == status[r] \in TerminalStatuses
Claimed(r) == status[r] \notin {"absent", "pending"}

RowFits(w) ==
    /\ pc[w] \in BeforeStart => status[job[w]] = "starting" \/ Settled(job[w])
    /\ pc[w] \in AfterStart => Open(job[w]) \/ Settled(job[w])
    /\ pc[w] = "finish_early" /\ verdict[w] # "redis_down" =>
          status[job[w]] = "starting" \/ Settled(job[w])
    /\ Executing(w) => Claimed(job[w])

RowFitsTask == \A w \in Workers : RowFits(w)

\* Only a claimed run can own the lock, and one that a reaper has seen working
\* is past taking it: once it does not own the lock, it never will.
NobodyTakes(r) == \A w \in Workers : job[w] = r => pc[w] # "acquire"

Reaping(a) == pc[a] \in {"reap_owner", "reap_close"}

SlotFitsRows ==
    /\ lock # None => Claimed(lock)
    /\ \A a \in Actors :
          Reaping(a) /\ seen[a].status \in LockHoldingStatuses =>
              /\ Claimed(seen[a].run)
              /\ NobodyTakes(seen[a].run)
              /\ pc[a] = "reap_close" => lock # seen[a].run

\* While a task past start_running owns the lock, its row is open.
OwnersWork ==
    \A w \in Workers : pc[w] \in AfterStart /\ lock = job[w] => Open(job[w])

\* A run that reached `running' is never closed as one that had not.
Unstarted == {"unpublished", "unclaimed", "stalled"} \cup EarlyDiagnoses

Reached ==
    /\ \A w \in Workers : pc[w] \in AfterStart => error[job[w]] \notin Unstarted
    /\ \A r \in requested :
          /\ Open(r) \/ Settled(r)
          /\ error[r] \notin Unstarted
          /\ \A w \in Workers : job[w] = r =>
                pc[w] \in {"idle", "claim", "release"} \cup RunnerSteps

Inv == /\ TypeOK /\ Bookkeeping /\ OneActiveRun /\ OpenRowsAreClean
       /\ OneExecutor /\ RowFitsTask /\ SlotFitsRows /\ OwnersWork /\ Reached

-----------------------------------------------------------------------------
USE DEF Actors, GoTo, Conclude, TaskEnds, EnsureOwned, Owned, AfterReap,
        Nothing, Diagnoses, ReaperDiagnoses, EarlyDiagnoses, rowVars, taskVars

\* The sets of statuses and steps, spelled out.
LEMMA Constants ==
    /\ ActiveStatuses = {"pending", "starting", "running", "waiting_retry"}
    /\ Statuses = {"pending", "starting", "running", "waiting_retry", "done",
                   "failed", "absent"}
    /\ ClaimFrom = {"pending"} /\ StartFrom = {"starting"}
    /\ PauseFrom = {"running", "waiting_retry"} /\ UnpublishedFrom = {"pending"}
    /\ EarlyFrom = {"starting", "running"} /\ RunnerFrom = ActiveStatuses
    /\ Indexed = ActiveStatuses /\ Reapable = ActiveStatuses
  BY DEF ActiveStatuses, WaitingStatuses, LockHoldingStatuses, Statuses,
         TerminalStatuses, ClaimFrom, StartFrom, PauseFrom, UnpublishedFrom,
         EarlyFrom, RunnerFrom, Indexed, Reapable

\* What the two UPDATEs leave in the rows, row by row.
LEMMA TransitionRows ==
  ASSUME TypeOK, NEW r \in Runs, NEW from, NEW new \in Statuses,
         Transition(r, from, new)
  PROVE  /\ status' \in [Runs -> Statuses] /\ overdue' \in [Runs -> BOOLEAN]
         /\ \A s \in Runs : status'[s] =
               IF s = r /\ status[r] \in from THEN new ELSE status[s]
<1>1. CASE status[r] \in from
  BY <1>1 DEF Transition, TypeOK
<1>2. CASE status[r] \notin from
  BY <1>2 DEF Transition, TypeOK
<1>3. QED
  BY <1>1, <1>2

\* What finish_run leaves in them: outcome and diagnosis move together.
LEMMA FinishRows ==
  ASSUME TypeOK, NEW r \in Runs, NEW outcome \in TerminalStatuses,
         NEW diagnosis \in Diagnoses, NEW from,
         FinishRun(r, outcome, diagnosis, from)
  PROVE  /\ status' \in [Runs -> Statuses] /\ overdue' \in [Runs -> BOOLEAN]
         /\ error' \in [Runs -> Diagnoses]
         /\ \A s \in Runs :
               /\ status'[s] =
                     IF s = r /\ status[r] \in from THEN outcome ELSE status[s]
               /\ error'[s] =
                     IF s = r /\ status[r] \in from THEN diagnosis ELSE error[s]
<1>1. outcome \in Statuses
  BY DEF Statuses
<1>2. Transition(r, from, outcome)
  BY DEF FinishRun
<1>3. error' \in [Runs -> Diagnoses] /\
      \A s \in Runs : error'[s] =
          IF s = r /\ status[r] \in from THEN diagnosis ELSE error[s]
  BY DEF FinishRun, TypeOK
<1>4. QED
  BY <1>1, <1>2, <1>3, TransitionRows

\* The initial values are of their types.
THEOREM TypingInit == Init => TypeOK /\ Bookkeeping
  BY SMTT(30) DEF Init, TypeOK, Bookkeeping, Steps, PreparationSteps, RunnerSteps,
         StarterSteps, Statuses

\* Every step keeps the variables in their types, and what a coroutine carries.
LEMMA TypingStep == TypeOK /\ Bookkeeping /\ [Next]_vars => TypeOK' /\ Bookkeeping'
<1> SUFFICES ASSUME TypeOK, Bookkeeping, [Next]_vars
             PROVE  TypeOK' /\ Bookkeeping'
  OBVIOUS
<1> USE Constants, NoneIsNoRun, ActorsAreDistinct
    DEF TypeOK, Bookkeeping, Steps, PreparationSteps, RunnerSteps, StarterSteps
<1>1. ASSUME NEW a \in Actors, ReapSelect(a)
      PROVE  TypeOK' /\ Bookkeeping'
  <2>1. TypeOK'
    BY <1>1, SMTT(30) DEF ReapSelect
  <2>2. Bookkeeping'
    BY <1>1, SMTT(30) DEF ReapSelect
  <2>3. QED
    BY <2>1, <2>2
<1>2. ASSUME NEW a \in Actors, ReapOwner(a)
      PROVE  TypeOK' /\ Bookkeeping'
  <2> HIDE DEF TypeOK, Bookkeeping
  <2>0. /\ pc' \in [Actors -> Steps]
        /\ seen' \in [Actors -> [run : Runs \cup {None},
                                 status : ActiveStatuses \cup {"absent"}]]
    <3>1. AfterReap(a) \in Steps /\ "reap_close" \in Steps
      OBVIOUS
    <3>2. Nothing \in [run : Runs \cup {None}, status : ActiveStatuses \cup {"absent"}]
      OBVIOUS
    <3>3. seen' = seen \/ seen' = [seen EXCEPT ![a] = Nothing]
      BY <1>2 DEF ReapOwner
    <3>4. pc' = [pc EXCEPT ![a] = AfterReap(a)] \/ pc' = [pc EXCEPT ![a] = "reap_close"]
      BY <1>2 DEF ReapOwner
    <3> HIDE DEF AfterReap, Nothing
    <3>5. QED
      BY <3>1, <3>2, <3>3, <3>4 DEF TypeOK
  <2> USE DEF TypeOK, Bookkeeping
  <2>1. TypeOK'
    BY <1>2, <2>0 DEF ReapOwner
  <2>2. Bookkeeping'
    BY <1>2 DEF ReapOwner
  <2>3. QED
    BY <2>1, <2>2
<1>3. ASSUME NEW a \in Actors, ReapOwnerUnavailable(a)
      PROVE  TypeOK' /\ Bookkeeping'
  <2>1. TypeOK'
    BY <1>3, SMTT(30) DEF ReapOwnerUnavailable
  <2>2. Bookkeeping'
    BY <1>3, SMTT(30) DEF ReapOwnerUnavailable
  <2>3. QED
    BY <2>1, <2>2
<1>4. ASSUME NEW a \in Actors, ReapClose(a)
      PROVE  TypeOK' /\ Bookkeeping'
  <2>1. seen[a].run \in Runs /\ OrphanReason(seen[a].status) \in Diagnoses
    BY <1>4 DEF ReapClose, OrphanReason
  <2>2. FinishRun(seen[a].run, "failed", OrphanReason(seen[a].status),
                  ReapFrom(seen[a].status))
    BY <1>4 DEF ReapClose
  <2>3. /\ status' \in [Runs -> Statuses] /\ overdue' \in [Runs -> BOOLEAN]
        /\ error' \in [Runs -> Diagnoses]
    BY <1>4, <2>1, <2>2, FinishRows DEF ReapClose, TerminalStatuses
  <2>4. QED
    BY <1>4, <2>1, <2>3 DEF ReapClose
<1>5. ASSUME NEW h \in Starters, StartRequest(h)
      PROVE  TypeOK' /\ Bookkeeping'
  BY <1>5 DEF StartRequest
<1>6. ASSUME NEW h \in Starters, FindActive(h)
      PROVE  TypeOK' /\ Bookkeeping'
  BY <1>6 DEF FindActive
<1>7. ASSUME NEW h \in Starters, Insert(h)
      PROVE  TypeOK' /\ Bookkeeping'
  <2>0. status' \in [Runs -> Statuses] /\ job' \in [Actors -> Runs \cup {None}]
    BY <1>7 DEF Insert
  <2>1. TypeOK'
    BY <1>7, <2>0 DEF Insert
  <2>2. Bookkeeping'
    BY <1>7 DEF Insert
  <2>3. QED
    BY <2>1, <2>2
<1>8. ASSUME NEW h \in Starters, Publish(h)
      PROVE  TypeOK' /\ Bookkeeping'
  BY <1>8 DEF Publish
<1>9. ASSUME NEW h \in Starters, PublishFails(h)
      PROVE  TypeOK' /\ Bookkeeping'
  BY <1>9 DEF PublishFails
<1>10. ASSUME NEW h \in Starters, FailUnpublished(h)
      PROVE  TypeOK' /\ Bookkeeping'
  <2>1. job[h] \in Runs
    BY <1>10 DEF FailUnpublished
  <2>2. FinishRun(job[h], "failed", "unpublished", UnpublishedFrom)
    BY <1>10 DEF FailUnpublished
  <2>3. /\ status' \in [Runs -> Statuses] /\ overdue' \in [Runs -> BOOLEAN]
        /\ error' \in [Runs -> Diagnoses]
    BY <1>10, <2>1, <2>2, FinishRows DEF FailUnpublished, TerminalStatuses
  <2>4. QED
    BY <1>10, <2>1, <2>3 DEF FailUnpublished
<1>11. ASSUME NEW p \in Pollers, Poll(p)
      PROVE  TypeOK' /\ Bookkeeping'
  BY <1>11 DEF Poll
<1>12. ASSUME NEW h \in Starters \cup Pollers, HandlerDies(h)
      PROVE  TypeOK' /\ Bookkeeping'
  BY <1>12 DEF HandlerDies
<1>13. ASSUME NEW w \in Workers, Deliver(w)
      PROVE  TypeOK' /\ Bookkeeping'
  BY <1>13 DEF Deliver
<1>14. ASSUME NEW w \in Workers, ClaimRun(w)
      PROVE  TypeOK' /\ Bookkeeping'
  <2>1. job[w] \in Runs
    BY <1>14 DEF ClaimRun
  <2>2. /\ status' \in [Runs -> Statuses] /\ overdue' \in [Runs -> BOOLEAN]
        /\ UNCHANGED error
    BY <1>14, <2>1, TransitionRows DEF ClaimRun, TakeRow
  <2>3. CASE status[job[w]] \in ClaimFrom
    BY <1>14, <2>1, <2>2, <2>3 DEF ClaimRun
  <2>4. CASE status[job[w]] \notin ClaimFrom
    <3>1. TaskEnds(w) /\ UNCHANGED <<lock, queue, seen, requested>>
      BY <1>14, <2>4 DEF ClaimRun
    <3>2. QED
      BY <2>1, <2>2, <3>1
  <2>5. QED
    BY <2>3, <2>4
<1>15. ASSUME NEW w \in Workers, AcquireLock(w)
      PROVE  TypeOK' /\ Bookkeeping'
  <2>1. job[w] \in Runs
    BY <1>15 DEF AcquireLock
  <2>2. TypeOK'
    BY <1>15, <2>1, SMTT(30) DEF AcquireLock
  <2>3. Bookkeeping'
    BY <1>15, <2>1, SMTT(30) DEF AcquireLock
  <2>4. QED
    BY <2>2, <2>3
<1>16. ASSUME NEW w \in Workers, AcquireUnavailable(w)
      PROVE  TypeOK' /\ Bookkeeping'
  <2>1. TypeOK'
    BY <1>16, SMTT(30) DEF AcquireUnavailable
  <2>2. Bookkeeping'
    BY <1>16, SMTT(30) DEF AcquireUnavailable
  <2>3. QED
    BY <2>1, <2>2
<1>17. ASSUME NEW w \in Workers, VerifyOwnership(w)
      PROVE  TypeOK' /\ Bookkeeping'
  <2>1. TypeOK'
    BY <1>17, SMTT(30) DEF VerifyOwnership
  <2>2. Bookkeeping'
    BY <1>17, SMTT(30) DEF VerifyOwnership
  <2>3. QED
    BY <2>1, <2>2
<1>18. ASSUME NEW w \in Workers, StartRunning(w)
      PROVE  TypeOK' /\ Bookkeeping'
  <2>1. job[w] \in Runs
    BY <1>18 DEF StartRunning
  <2>2. Transition(job[w], StartFrom, "running")
    BY <1>18 DEF StartRunning
  <2>3. /\ status' \in [Runs -> Statuses] /\ overdue' \in [Runs -> BOOLEAN]
        /\ error' \in [Runs -> Diagnoses]
    BY <1>18, <2>1, <2>2, TransitionRows DEF StartRunning, TerminalStatuses
  <2>4. TypeOK'
    BY <1>18, <2>1, <2>3, SMTT(30) DEF StartRunning
  <2>5. Bookkeeping'
    BY <1>18, <2>1, <2>3, SMTT(30) DEF StartRunning
  <2>6. QED
    BY <2>4, <2>5
<1>19. ASSUME NEW w \in Workers, ResetLimiter(w)
      PROVE  TypeOK' /\ Bookkeeping'
  <2>1. TypeOK'
    BY <1>19, SMTT(30) DEF ResetLimiter
  <2>2. Bookkeeping'
    BY <1>19, SMTT(30) DEF ResetLimiter
  <2>3. QED
    BY <2>1, <2>2
<1>20. ASSUME NEW w \in Workers, FinishEarly(w)
      PROVE  TypeOK' /\ Bookkeeping'
  <2>1. job[w] \in Runs /\ verdict[w] \in EarlyDiagnoses
    BY <1>20 DEF FinishEarly
  <2>2. FinishRun(job[w], "failed", verdict[w], EarlyFrom)
    BY <1>20 DEF FinishEarly
  <2>3. /\ status' \in [Runs -> Statuses] /\ overdue' \in [Runs -> BOOLEAN]
        /\ error' \in [Runs -> Diagnoses]
    BY <1>20, <2>1, <2>2, FinishRows DEF FinishEarly, TerminalStatuses
  <2>4. CASE hold[w] = "off"
    <3>1. TaskEnds(w) /\ UNCHANGED <<lock, queue, seen, requested>>
      BY <1>20, <2>4 DEF FinishEarly
    <3>2. QED
      BY <2>1, <2>3, <3>1
  <2>5. CASE hold[w] # "off"
    BY <1>20, <2>1, <2>3, <2>5 DEF FinishEarly
  <2>6. QED
    BY <2>4, <2>5
<1>21. ASSUME NEW w \in Workers, Release(w)
      PROVE  TypeOK' /\ Bookkeeping'
  BY <1>21 DEF Release, Released
<1>22. ASSUME NEW w \in Workers, Begin(w)
      PROVE  TypeOK' /\ Bookkeeping'
  BY <1>22, SMTT(30) DEF Begin
<1>23. ASSUME NEW w \in Workers, Check(w)
      PROVE  TypeOK' /\ Bookkeeping'
  <2>1. TypeOK'
    BY <1>23, ZenonT(40) DEF Check
  <2>2. Bookkeeping'
    BY <1>23 DEF Check
  <2>3. QED
    BY <2>1, <2>2
<1>24. ASSUME NEW w \in Workers, SendRequest(w)
      PROVE  TypeOK' /\ Bookkeeping'
  BY <1>24 DEF SendRequest
<1>25. ASSUME NEW w \in Workers, ReserveUnavailable(w)
      PROVE  TypeOK' /\ Bookkeeping'
  BY <1>25 DEF ReserveUnavailable
<1>26. ASSUME NEW w \in Workers, Answer(w)
      PROVE  TypeOK' /\ Bookkeeping'
  BY <1>26 DEF Answer
<1>27. ASSUME NEW w \in Workers, LastAnswer(w)
      PROVE  TypeOK' /\ Bookkeeping'
  BY <1>27 DEF LastAnswer
<1>28. ASSUME NEW w \in Workers, EnterWaiting(w)
      PROVE  TypeOK' /\ Bookkeeping'
  <2>1. job[w] \in Runs
    BY <1>28 DEF EnterWaiting
  <2>2. Transition(job[w], PauseFrom, "waiting_retry")
    BY <1>28 DEF EnterWaiting
  <2>3. /\ status' \in [Runs -> Statuses] /\ overdue' \in [Runs -> BOOLEAN]
        /\ error' \in [Runs -> Diagnoses]
    BY <1>28, <2>1, <2>2, TransitionRows DEF EnterWaiting, TerminalStatuses
  <2>4. QED
    BY <1>28, <2>1, <2>3 DEF EnterWaiting
<1>29. ASSUME NEW w \in Workers, LeaveWaiting(w)
      PROVE  TypeOK' /\ Bookkeeping'
  <2>1. job[w] \in Runs
    BY <1>29 DEF LeaveWaiting
  <2>2. Transition(job[w], PauseFrom, "running")
    BY <1>29 DEF LeaveWaiting
  <2>3. /\ status' \in [Runs -> Statuses] /\ overdue' \in [Runs -> BOOLEAN]
        /\ error' \in [Runs -> Diagnoses]
    BY <1>29, <2>1, <2>2, TransitionRows DEF LeaveWaiting, TerminalStatuses
  <2>4. QED
    BY <1>29, <2>1, <2>3 DEF LeaveWaiting
<1>30. ASSUME NEW w \in Workers, Finish(w)
      PROVE  TypeOK' /\ Bookkeeping'
  <2>1. job[w] \in Runs /\ verdict[w] \in {"runner", "done"}
    BY <1>30 DEF Finish
  <2>2. \/ FinishRun(job[w], "done", "none", RunnerFrom)
        \/ FinishRun(job[w], "failed", verdict[w], RunnerFrom) /\ verdict[w] = "runner"
    BY <1>30, <2>1 DEF Finish
  <2>3. /\ status' \in [Runs -> Statuses] /\ overdue' \in [Runs -> BOOLEAN]
        /\ error' \in [Runs -> Diagnoses]
    BY <2>1, <2>2, FinishRows DEF TerminalStatuses
  <2>4. QED
    BY <1>30, <2>1, <2>3 DEF Finish
<1>31. ASSUME NEW w \in Workers, HeartbeatFails(w)
      PROVE  TypeOK' /\ Bookkeeping'
  BY <1>31 DEF HeartbeatFails
<1>32. ASSUME NEW w \in Workers, DatabaseFails(w)
      PROVE  TypeOK' /\ Bookkeeping'
  <2>1. job[w] \in Runs
    BY <1>32 DEF DatabaseFails
  <2>2. UNCHANGED rowVars \/ TakeRow(job[w])
    BY <1>32 DEF DatabaseFails
  <2>3. /\ status' \in [Runs -> Statuses] /\ overdue' \in [Runs -> BOOLEAN]
        /\ UNCHANGED error
    BY <2>1, <2>2, TransitionRows DEF TakeRow
  <2>4. /\ seen' = [seen EXCEPT ![w] = Nothing] /\ UNCHANGED <<lock, queue, requested>>
        /\ \/ TaskEnds(w)
           \/ GoTo(w, "release") /\ UNCHANGED <<job, taskVars>>
           \/ Conclude(w, "runner", "finish") /\ UNCHANGED <<job, hold>>
    BY <1>32 DEF DatabaseFails
  <2>5. CASE TaskEnds(w)
    BY <2>1, <2>3, <2>4, <2>5
  <2>6. CASE GoTo(w, "release") /\ UNCHANGED <<job, taskVars>>
    BY <2>1, <2>3, <2>4, <2>6
  <2>7. CASE Conclude(w, "runner", "finish") /\ UNCHANGED <<job, hold>>
    BY <2>1, <2>3, <2>4, <2>7
  <2>8. QED
    BY <2>4, <2>5, <2>6, <2>7
<1>33. ASSUME NEW w \in Workers, Crash(w)
      PROVE  TypeOK' /\ Bookkeeping'
  BY <1>33 DEF Crash
<1>34. ASSUME NEW w \in Workers, Redeliver(w)
      PROVE  TypeOK' /\ Bookkeeping'
  BY <1>34 DEF Redeliver
<1>35. ASSUME NEW r \in Runs, GraceElapses(r)
      PROVE  TypeOK' /\ Bookkeeping'
  BY <1>35 DEF GraceElapses
<1>36. ASSUME LockExpires PROVE TypeOK' /\ Bookkeeping'
  BY <1>36 DEF LockExpires
<1>37. CASE UNCHANGED vars
  BY <1>37 DEF vars
<1>99. QED
  BY <1>1, <1>2, <1>3, <1>4, <1>5, <1>6, <1>7, <1>8, <1>9, <1>10, <1>11, <1>12, <1>13,
     <1>14, <1>15, <1>16, <1>17, <1>18, <1>19, <1>20, <1>21, <1>22, <1>23, <1>24, <1>25,
     <1>26, <1>27, <1>28, <1>29, <1>30, <1>31, <1>32, <1>33, <1>34, <1>35, <1>36, <1>37
     DEF Next, Reap, Start, Prepare, Execute

\* Every variable stays in its type, and every coroutine has what it needs: in
\* particular finish_run is never called with a settled candidate or no verdict.
THEOREM TypeCorrect == Spec => [](TypeOK /\ Bookkeeping)
<1>1. Init => TypeOK /\ Bookkeeping
  BY TypingInit
<1>2. TypeOK /\ Bookkeeping /\ [Next]_vars => (TypeOK /\ Bookkeeping)'
  BY TypingStep
<1>3. QED
  BY <1>1, <1>2, PTL DEF Spec

-----------------------------------------------------------------------------
(* What each of the actions that write a row does to the rows.             *)

\* The reaper closes its candidate if it is still as observed.
LEMMA ReapCloseRows ==
  ASSUME TypeOK, Bookkeeping, NEW a \in Actors, ReapClose(a)
  PROVE  /\ seen[a].run \in Runs /\ seen[a].status \in ActiveStatuses
         /\ \A s \in Runs :
              LET hit == s = seen[a].run /\ status[s] = seen[a].status IN
              /\ status'[s] = IF hit THEN "failed" ELSE status[s]
              /\ error'[s] = IF hit THEN OrphanReason(seen[a].status) ELSE error[s]
<1>1. /\ seen[a].run \in Runs /\ seen[a].status \in ActiveStatuses
      /\ OrphanReason(seen[a].status) \in Diagnoses
      /\ FinishRun(seen[a].run, "failed", OrphanReason(seen[a].status),
                   ReapFrom(seen[a].status))
  BY DEF ReapClose, Bookkeeping, OrphanReason
<1>2. QED
  BY <1>1, FinishRows DEF TerminalStatuses, ReapFrom

\* A failed publish closes a run nobody has claimed.
LEMMA FailUnpublishedRows ==
  ASSUME TypeOK, Bookkeeping, NEW h \in Starters, FailUnpublished(h)
  PROVE  /\ job[h] \in Runs
         /\ \A s \in Runs :
              LET hit == s = job[h] /\ status[s] = "pending" IN
              /\ status'[s] = IF hit THEN "failed" ELSE status[s]
              /\ error'[s] = IF hit THEN "unpublished" ELSE error[s]
<1>1. job[h] \in Runs /\ FinishRun(job[h], "failed", "unpublished", UnpublishedFrom)
  BY DEF FailUnpublished, Bookkeeping
<1>2. QED
  BY <1>1, FinishRows DEF TerminalStatuses, UnpublishedFrom

\* _finish_early closes a run that was starting or had just started.
LEMMA FinishEarlyRows ==
  ASSUME TypeOK, Bookkeeping, NEW w \in Workers, FinishEarly(w)
  PROVE  /\ job[w] \in Runs /\ verdict[w] \in EarlyDiagnoses
         /\ \A s \in Runs :
              LET hit == s = job[w] /\ status[s] \in {"starting", "running"} IN
              /\ status'[s] = IF hit THEN "failed" ELSE status[s]
              /\ error'[s] = IF hit THEN verdict[w] ELSE error[s]
<1>1. /\ job[w] \in Runs /\ verdict[w] \in EarlyDiagnoses
      /\ FinishRun(job[w], "failed", verdict[w], EarlyFrom)
  BY DEF FinishEarly, Bookkeeping
<1>2. QED
  BY <1>1, FinishRows DEF TerminalStatuses, EarlyFrom

\* The runner closes its run, done or failed, if it is still active.
LEMMA FinishRunnerRows ==
  ASSUME TypeOK, Bookkeeping, NEW w \in Workers, Finish(w)
  PROVE  /\ job[w] \in Runs
         /\ \E outcome \in TerminalStatuses, diagnosis \in {"none", "runner"} :
              /\ outcome = "done" <=> diagnosis = "none"
              /\ \A s \in Runs :
                   LET hit == s = job[w] /\ status[s] \in ActiveStatuses IN
                   /\ status'[s] = IF hit THEN outcome ELSE status[s]
                   /\ error'[s] = IF hit THEN diagnosis ELSE error[s]
<1>1. job[w] \in Runs /\ verdict[w] \in {"done", "runner"}
  BY DEF Finish, Bookkeeping
<1>2. CASE verdict[w] = "done"
  <2>1. FinishRun(job[w], "done", "none", RunnerFrom)
    BY <1>2 DEF Finish
  <2>2. QED
    BY <1>1, <2>1, FinishRows DEF TerminalStatuses, RunnerFrom
<1>3. CASE verdict[w] = "runner"
  <2>1. FinishRun(job[w], "failed", "runner", RunnerFrom)
    BY <1>3 DEF Finish
  <2>2. QED
    BY <1>1, <2>1, FinishRows DEF TerminalStatuses, RunnerFrom
<1>4. QED
  BY <1>1, <1>2, <1>3

\* The claim takes a pending run to `starting'.
LEMMA ClaimRows ==
  ASSUME TypeOK, NEW r \in Runs, TakeRow(r)
  PROVE  /\ UNCHANGED error
         /\ \A s \in Runs : status'[s] =
              IF s = r /\ status[s] = "pending" THEN "starting" ELSE status[s]
  BY TransitionRows DEF TakeRow, ClaimFrom, Statuses, ActiveStatuses, WaitingStatuses

\* start_running takes a starting run to `running'.
LEMMA StartRows ==
  ASSUME TypeOK, Bookkeeping, NEW w \in Workers, StartRunning(w)
  PROVE  /\ job[w] \in Runs /\ UNCHANGED error
         /\ \A s \in Runs : status'[s] =
              IF s = job[w] /\ status[s] = "starting" THEN "running" ELSE status[s]
<1>1. job[w] \in Runs
  BY DEF StartRunning, Bookkeeping
<1>2. QED
  BY <1>1, TransitionRows, Constants DEF StartRunning, StartFrom

\* A pause moves an open row between the two statuses that hold the lock.
LEMMA PauseRows ==
  ASSUME TypeOK, Bookkeeping, NEW w \in Workers, EnterWaiting(w) \/ LeaveWaiting(w)
  PROVE  /\ job[w] \in Runs /\ UNCHANGED error
         /\ \E new \in LockHoldingStatuses :
              \A s \in Runs : status'[s] =
                 IF s = job[w] /\ Open(s) THEN new ELSE status[s]
<1>1. job[w] \in Runs /\ UNCHANGED error
  BY DEF EnterWaiting, LeaveWaiting, Bookkeeping
<1>2. PICK new \in LockHoldingStatuses : Transition(job[w], PauseFrom, new)
  BY DEF EnterWaiting, LeaveWaiting, LockHoldingStatuses
<1>3. new \in Statuses
  BY DEF Statuses, ActiveStatuses
<1>4. QED
  BY <1>1, <1>2, <1>3, TransitionRows DEF PauseFrom, Open

\* The INSERT happens only when no run is active.
LEMMA InsertRows ==
  ASSUME TypeOK, NEW h \in Starters, Insert(h)
  PROVE  /\ UNCHANGED error
         /\ \/ UNCHANGED status
            \/ /\ \A s \in Runs : ~Active(s)
               /\ \E r \in Runs : /\ status[r] = "absent"
                                  /\ status' = [status EXCEPT ![r] = "pending"]
  BY DEF Insert, Indexed, Active

\* A failing database changes nothing, but for a claim that had landed.
LEMMA DatabaseFailsRows ==
  ASSUME TypeOK, Bookkeeping, NEW w \in Workers, DatabaseFails(w)
  PROVE  /\ job[w] \in Runs /\ UNCHANGED error
         /\ UNCHANGED status \/ (pc[w] = "claim" /\ TakeRow(job[w]))
<1>1. job[w] \in Runs
  BY DEF DatabaseFails, Bookkeeping
<1>2. \/ UNCHANGED rowVars
      \/ pc[w] = "claim" /\ TakeRow(job[w])
  BY DEF DatabaseFails
<1>3. QED
  BY <1>1, <1>2 DEF TakeRow

\* No other step touches a row.
LEMMA RowActions ==
  ASSUME [Next]_vars
  PROVE  \/ UNCHANGED <<status, error>>
         \/ \E a \in Actors : ReapClose(a)
         \/ \E h \in Starters : Insert(h) \/ FailUnpublished(h)
         \/ \E w \in Workers :
               \/ ClaimRun(w) \/ StartRunning(w) \/ FinishEarly(w)
               \/ EnterWaiting(w) \/ LeaveWaiting(w) \/ Finish(w)
               \/ DatabaseFails(w)
  BY DEF Next, vars, Reap, Start, Prepare, Execute, ReapSelect, ReapOwner,
         ReapOwnerUnavailable, StartRequest, FindActive, Publish, PublishFails,
         Poll, HandlerDies, Deliver, AcquireLock, AcquireUnavailable,
         VerifyOwnership, ResetLimiter, Release, Begin, Check, SendRequest,
         ReserveUnavailable, Answer, LastAnswer, HeartbeatFails, Crash,
         Redeliver, GraceElapses, LockExpires

-----------------------------------------------------------------------------
(* One active run, and no diagnosis on an open row.                        *)

\* No step makes a second run active or leaves a diagnosis on an open row.
LEMMA RowsStep ==
  ASSUME TypeOK, Bookkeeping, OneActiveRun, OpenRowsAreClean, [Next]_vars
  PROVE  OneActiveRun' /\ OpenRowsAreClean'
<1> USE Constants DEF OneActiveRun, OpenRowsAreClean, Active, TerminalStatuses,
                      LockHoldingStatuses
<1>1. CASE UNCHANGED <<status, error>>
  BY <1>1
<1>2. ASSUME NEW a \in Actors, ReapClose(a)
      PROVE  OneActiveRun' /\ OpenRowsAreClean'
  BY <1>2, ReapCloseRows
<1>3. ASSUME NEW h \in Starters, Insert(h)
      PROVE  OneActiveRun' /\ OpenRowsAreClean'
  <2>1. CASE UNCHANGED status
    BY <1>3, <2>1, InsertRows
  <2>2. ASSUME NEW r \in Runs, status[r] = "absent",
               \A s \in Runs : ~Active(s),
               status' = [status EXCEPT ![r] = "pending"]
        PROVE  OneActiveRun' /\ OpenRowsAreClean'
    <3>1. \A s \in Runs : status'[s] = IF s = r THEN "pending" ELSE status[s]
      BY <2>2 DEF TypeOK
    <3>2. UNCHANGED error
      BY <1>3, InsertRows
    <3>3. QED
      BY <2>2, <3>1, <3>2
  <2>3. QED
    BY <1>3, <2>1, <2>2, InsertRows
<1>4. ASSUME NEW h \in Starters, FailUnpublished(h)
      PROVE  OneActiveRun' /\ OpenRowsAreClean'
  BY <1>4, FailUnpublishedRows
<1>5. ASSUME NEW w \in Workers, ClaimRun(w)
      PROVE  OneActiveRun' /\ OpenRowsAreClean'
  <2>1. job[w] \in Runs /\ TakeRow(job[w])
    BY <1>5 DEF ClaimRun, Bookkeeping
  <2>2. QED
    BY <2>1, ClaimRows
<1>6. ASSUME NEW w \in Workers, StartRunning(w)
      PROVE  OneActiveRun' /\ OpenRowsAreClean'
  BY <1>6, StartRows
<1>7. ASSUME NEW w \in Workers, FinishEarly(w)
      PROVE  OneActiveRun' /\ OpenRowsAreClean'
  BY <1>7, FinishEarlyRows
<1>8. ASSUME NEW w \in Workers, EnterWaiting(w) \/ LeaveWaiting(w)
      PROVE  OneActiveRun' /\ OpenRowsAreClean'
  BY <1>8, PauseRows DEF Open
<1>9. ASSUME NEW w \in Workers, Finish(w)
      PROVE  OneActiveRun' /\ OpenRowsAreClean'
  BY <1>9, FinishRunnerRows
<1>10. ASSUME NEW w \in Workers, DatabaseFails(w)
       PROVE  OneActiveRun' /\ OpenRowsAreClean'
  BY <1>10, DatabaseFailsRows, ClaimRows
<1>11. QED
  BY <1>1, <1>2, <1>3, <1>4, <1>5, <1>6, <1>7, <1>8, <1>9, <1>10, RowActions

-----------------------------------------------------------------------------
(* One executor for a run, whose row is as far as its task.                *)

\* A step of one task, or of none, leaves the others' rows alone or settles them.
LEMMA OthersFit ==
  ASSUME Bookkeeping, OneExecutor, RowFitsTask, NEW W \in SUBSET Workers,
         \A v \in Workers \ W : /\ pc'[v] = pc[v] /\ job'[v] = job[v]
                                /\ verdict'[v] = verdict[v],
         \A r \in Runs : \/ status'[r] = status[r]
                         \/ Settled(r)'
                         \/ \E w \in W : Executing(w) /\ job[w] = r,
         \A w \in W : /\ Executing(w)' => Executing(w) /\ job'[w] = job[w]
                      /\ RowFits(w)'
  PROVE  OneExecutor' /\ RowFitsTask'
<1>1. OneExecutor'
  BY DEF OneExecutor, Executing
<1>2. ASSUME NEW v \in Workers \ W
      PROVE  RowFits(v)'
  <2>1. CASE ~Executing(v)
    BY <1>2, <2>1 DEF RowFits, Executing, BeforeStart, AfterStart, RunnerSteps
  <2>2. CASE Executing(v)
    <3>1. /\ job[v] \in Runs /\ RowFits(v)
          /\ pc'[v] = pc[v] /\ job'[v] = job[v] /\ verdict'[v] = verdict[v]
      BY <1>2, <2>2 DEF Bookkeeping, RowFitsTask, Executing
    <3>2. status'[job[v]] = status[job[v]] \/ Settled(job[v])'
      BY <2>2, <3>1 DEF OneExecutor
    <3>3. QED
      BY <3>1, <3>2 DEF RowFits, Executing, Settled, Open, Claimed, TerminalStatuses
  <2>3. QED
    BY <2>1, <2>2
<1>3. QED
  BY <1>1, <1>2 DEF RowFitsTask

\* No step makes a second worker execute a run, or lets a task run ahead of its
\* row: only the claim lets a task in, and it takes the row out of `pending'.
LEMMA ExecutorStep ==
  ASSUME TypeOK, Bookkeeping, OneExecutor, RowFitsTask, [Next]_vars
  PROVE  OneExecutor' /\ RowFitsTask'
<1> DEFINE Fits(w) ==
       /\ \A v \in Workers \ {w} : /\ pc'[v] = pc[v] /\ job'[v] = job[v]
                                   /\ verdict'[v] = verdict[v]
       /\ \A r \in Runs : \/ status'[r] = status[r]
                          \/ Settled(r)'
                          \/ Executing(w) /\ job[w] = r
       /\ Executing(w)' => Executing(w) /\ job'[w] = job[w]
       /\ RowFits(w)'
    Stays == /\ \A v \in Workers : /\ pc'[v] = pc[v] /\ job'[v] = job[v]
                                   /\ verdict'[v] = verdict[v]
             /\ \A r \in Runs : status'[r] = status[r] \/ Settled(r)'
<1>a. ASSUME NEW w \in Workers, Fits(w)
      PROVE  OneExecutor' /\ RowFitsTask'
  BY <1>a, OthersFit, {w} \in SUBSET Workers
<1>b. ASSUME Stays
      PROVE  OneExecutor' /\ RowFitsTask'
  BY <1>b, OthersFit, {} \in SUBSET Workers
<1>c. \A w \in Workers : RowFits(w) /\ (pc[w] # "idle" => job[w] \in Runs)
  BY DEF RowFitsTask, Bookkeeping
<1> HIDE DEF Fits, Stays
<1> USE Constants, NoneIsNoRun, ActorsAreDistinct
    DEF Executing, Claimed, Settled, Open, TerminalStatuses,
        LockHoldingStatuses, TypeOK
<1>1. ASSUME NEW a \in Actors, ReapSelect(a)
      PROVE  OneExecutor' /\ RowFitsTask'
  <2>1. CASE a \in Workers
    <3>1. Fits(a)
      BY <1>1, <2>1, <1>c DEF Fits, RowFits, BeforeStart, AfterStart, RunnerSteps, ReapSelect
    <3>2. QED
      BY <2>1, <3>1, <1>a
  <2>2. CASE a \notin Workers
    <3>1. Stays
      BY <1>1, <2>2 DEF Stays, ReapSelect
    <3>2. QED
      BY <3>1, <1>b
  <2>3. QED
    BY <2>1, <2>2
<1>2. ASSUME NEW a \in Actors, ReapOwner(a)
      PROVE  OneExecutor' /\ RowFitsTask'
  <2>1. CASE a \in Workers
    <3>1. Fits(a)
      BY <1>2, <2>1, <1>c DEF Fits, RowFits, BeforeStart, AfterStart, RunnerSteps, ReapOwner
    <3>2. QED
      BY <2>1, <3>1, <1>a
  <2>2. CASE a \notin Workers
    <3>1. Stays
      BY <1>2, <2>2 DEF Stays, ReapOwner
    <3>2. QED
      BY <3>1, <1>b
  <2>3. QED
    BY <2>1, <2>2
<1>3. ASSUME NEW a \in Actors, ReapOwnerUnavailable(a)
      PROVE  OneExecutor' /\ RowFitsTask'
  <2>1. CASE a \in Workers
    <3>1. Fits(a)
      BY <1>3, <2>1, <1>c
         DEF Fits, RowFits, BeforeStart, AfterStart, RunnerSteps, ReapOwnerUnavailable
    <3>2. QED
      BY <2>1, <3>1, <1>a
  <2>2. CASE a \notin Workers
    <3>1. Stays
      BY <1>3, <2>2 DEF Stays, ReapOwnerUnavailable
    <3>2. QED
      BY <3>1, <1>b
  <2>3. QED
    BY <2>1, <2>2
<1>4. ASSUME NEW a \in Actors, ReapClose(a)
      PROVE  OneExecutor' /\ RowFitsTask'
  <2>1. CASE a \in Workers
    <3>1. Fits(a)
      BY <1>4, <2>1, ReapCloseRows, <1>c, ZenonT(40)
         DEF Fits, RowFits, BeforeStart, AfterStart, RunnerSteps, ReapClose
    <3>2. QED
      BY <2>1, <3>1, <1>a
  <2>2. CASE a \notin Workers
    <3>1. Stays
      BY <1>4, <2>2, ReapCloseRows DEF Stays, ReapClose
    <3>2. QED
      BY <3>1, <1>b
  <2>3. QED
    BY <2>1, <2>2
<1>5. ASSUME NEW h \in Starters, StartRequest(h)
      PROVE  OneExecutor' /\ RowFitsTask'
  <2>1. Stays
    BY <1>5 DEF Stays, StartRequest
  <2>2. QED
    BY <2>1, <1>b
<1>6. ASSUME NEW h \in Starters, FindActive(h)
      PROVE  OneExecutor' /\ RowFitsTask'
  <2>1. Stays
    BY <1>6 DEF Stays, FindActive
  <2>2. QED
    BY <2>1, <1>b
<1>7. ASSUME NEW h \in Starters, Insert(h)
      PROVE  OneExecutor' /\ RowFitsTask'
  BY <1>7, InsertRows DEF Insert, OneExecutor, RowFitsTask, RowFits,
     BeforeStart, AfterStart, RunnerSteps, Bookkeeping
<1>8. ASSUME NEW h \in Starters, Publish(h)
      PROVE  OneExecutor' /\ RowFitsTask'
  <2>1. Stays
    BY <1>8 DEF Stays, Publish
  <2>2. QED
    BY <2>1, <1>b
<1>9. ASSUME NEW h \in Starters, PublishFails(h)
      PROVE  OneExecutor' /\ RowFitsTask'
  <2>1. Stays
    BY <1>9 DEF Stays, PublishFails
  <2>2. QED
    BY <2>1, <1>b
<1>10. ASSUME NEW h \in Starters, FailUnpublished(h)
       PROVE  OneExecutor' /\ RowFitsTask'
  <2>1. Stays
    BY <1>10, FailUnpublishedRows DEF Stays, FailUnpublished
  <2>2. QED
    BY <2>1, <1>b
<1>11. ASSUME NEW p \in Pollers, Poll(p)
       PROVE  OneExecutor' /\ RowFitsTask'
  <2>1. Stays
    BY <1>11 DEF Stays, Poll
  <2>2. QED
    BY <2>1, <1>b
<1>12. ASSUME NEW h \in Starters \cup Pollers, HandlerDies(h)
       PROVE  OneExecutor' /\ RowFitsTask'
  <2>1. Stays
    BY <1>12 DEF Stays, HandlerDies
  <2>2. QED
    BY <2>1, <1>b
<1>13. ASSUME NEW w \in Workers, Deliver(w)
       PROVE  OneExecutor' /\ RowFitsTask'
  <2>1. Fits(w)
    BY <1>13, <1>c DEF Fits, RowFits, BeforeStart, AfterStart, RunnerSteps, Deliver
  <2>2. QED
    BY <2>1, <1>a
<1>14. ASSUME NEW w \in Workers, ClaimRun(w)
       PROVE  OneExecutor' /\ RowFitsTask'
  <2>1. QED
    BY <1>14, ClaimRows, <1>c
       DEF ClaimRun, OneExecutor, RowFitsTask, RowFits, BeforeStart, AfterStart, RunnerSteps, Bookkeeping
<1>15. ASSUME NEW w \in Workers, AcquireLock(w)
       PROVE  OneExecutor' /\ RowFitsTask'
  <2>1. Fits(w)
    BY <1>15, <1>c DEF Fits, RowFits, BeforeStart, AfterStart, RunnerSteps, AcquireLock
  <2>2. QED
    BY <2>1, <1>a
<1>16. ASSUME NEW w \in Workers, AcquireUnavailable(w)
       PROVE  OneExecutor' /\ RowFitsTask'
  <2>1. Fits(w)
    BY <1>16, <1>c DEF Fits, RowFits, BeforeStart, AfterStart, RunnerSteps, AcquireUnavailable
  <2>2. QED
    BY <2>1, <1>a
<1>17. ASSUME NEW w \in Workers, VerifyOwnership(w)
       PROVE  OneExecutor' /\ RowFitsTask'
  <2>1. Fits(w)
    BY <1>17, <1>c DEF Fits, RowFits, BeforeStart, AfterStart, RunnerSteps, VerifyOwnership
  <2>2. QED
    BY <2>1, <1>a
<1>18. ASSUME NEW w \in Workers, StartRunning(w)
       PROVE  OneExecutor' /\ RowFitsTask'
  <2>1. Fits(w)
    <3>1. /\ job[w] \in Runs
          /\ status[job[w]] \in StartFrom => pc' = [pc EXCEPT ![w] = "reset"]
          /\ status[job[w]] \notin StartFrom => pc' = [pc EXCEPT ![w] = "release"]
          /\ pc[w] = "start" /\ UNCHANGED <<job, verdict>>
      BY <1>18, <1>c DEF StartRunning
    <3>2. status[job[w]] = "starting" \/ Settled(job[w])
      BY <3>1, <1>c DEF RowFits, BeforeStart
    <3>3. CASE status[job[w]] \in StartFrom
      BY <1>18, <3>1, <3>2, <3>3, StartRows, <1>c
         DEF Fits, RowFits, BeforeStart, AfterStart, RunnerSteps
    <3>4. CASE status[job[w]] \notin StartFrom
      BY <1>18, <3>1, <3>2, <3>4, StartRows, <1>c
         DEF Fits, RowFits, BeforeStart, AfterStart, RunnerSteps
    <3>5. QED
      BY <3>3, <3>4
  <2>2. QED
    BY <2>1, <1>a
<1>19. ASSUME NEW w \in Workers, ResetLimiter(w)
       PROVE  OneExecutor' /\ RowFitsTask'
  <2>1. Fits(w)
    BY <1>19, <1>c DEF Fits, RowFits, BeforeStart, AfterStart, RunnerSteps, ResetLimiter
  <2>2. QED
    BY <2>1, <1>a
<1>20. ASSUME NEW w \in Workers, FinishEarly(w)
       PROVE  OneExecutor' /\ RowFitsTask'
  <2>1. Fits(w)
    <3>1. /\ job[w] \in Runs /\ pc[w] = "finish_early"
          /\ \/ TaskEnds(w)
             \/ GoTo(w, "release") /\ UNCHANGED <<job, taskVars>>
      BY <1>20, <1>c DEF FinishEarly
    <3>2. CASE TaskEnds(w)
      BY <1>20, <3>1, <3>2, FinishEarlyRows, <1>c
         DEF Fits, RowFits, BeforeStart, AfterStart, RunnerSteps
    <3>3. CASE GoTo(w, "release") /\ UNCHANGED <<job, taskVars>>
      BY <1>20, <3>1, <3>3, FinishEarlyRows, <1>c
         DEF Fits, RowFits, BeforeStart, AfterStart, RunnerSteps
    <3>4. QED
      BY <3>1, <3>2, <3>3
  <2>2. QED
    BY <2>1, <1>a
<1>21. ASSUME NEW w \in Workers, Release(w)
       PROVE  OneExecutor' /\ RowFitsTask'
  <2>1. Fits(w)
    BY <1>21, <1>c DEF Fits, RowFits, BeforeStart, AfterStart, RunnerSteps, Release
  <2>2. QED
    BY <2>1, <1>a
<1>22. ASSUME NEW w \in Workers, Begin(w)
       PROVE  OneExecutor' /\ RowFitsTask'
  <2>1. Fits(w)
    BY <1>22, <1>c DEF Fits, RowFits, BeforeStart, AfterStart, RunnerSteps, Begin
  <2>2. QED
    BY <2>1, <1>a
<1>23. ASSUME NEW w \in Workers, Check(w)
       PROVE  OneExecutor' /\ RowFitsTask'
  <2>1. Fits(w)
    BY <1>23, <1>c DEF Fits, RowFits, BeforeStart, AfterStart, RunnerSteps, Check
  <2>2. QED
    BY <2>1, <1>a
<1>24. ASSUME NEW w \in Workers, SendRequest(w)
       PROVE  OneExecutor' /\ RowFitsTask'
  <2>1. Fits(w)
    BY <1>24, <1>c DEF Fits, RowFits, BeforeStart, AfterStart, RunnerSteps, SendRequest
  <2>2. QED
    BY <2>1, <1>a
<1>25. ASSUME NEW w \in Workers, ReserveUnavailable(w)
       PROVE  OneExecutor' /\ RowFitsTask'
  <2>1. Fits(w)
    BY <1>25, <1>c DEF Fits, RowFits, BeforeStart, AfterStart, RunnerSteps, ReserveUnavailable
  <2>2. QED
    BY <2>1, <1>a
<1>26. ASSUME NEW w \in Workers, Answer(w)
       PROVE  OneExecutor' /\ RowFitsTask'
  <2>1. Fits(w)
    BY <1>26, <1>c DEF Fits, RowFits, BeforeStart, AfterStart, RunnerSteps, Answer
  <2>2. QED
    BY <2>1, <1>a
<1>27. ASSUME NEW w \in Workers, LastAnswer(w)
       PROVE  OneExecutor' /\ RowFitsTask'
  <2>1. Fits(w)
    BY <1>27, <1>c DEF Fits, RowFits, BeforeStart, AfterStart, RunnerSteps, LastAnswer
  <2>2. QED
    BY <2>1, <1>a
<1>28. ASSUME NEW w \in Workers, EnterWaiting(w)
       PROVE  OneExecutor' /\ RowFitsTask'
  <2>1. Fits(w)
    BY <1>28, PauseRows, <1>c, ZenonT(40)
       DEF Fits, RowFits, BeforeStart, AfterStart, RunnerSteps, EnterWaiting
  <2>2. QED
    BY <2>1, <1>a
<1>29. ASSUME NEW w \in Workers, LeaveWaiting(w)
       PROVE  OneExecutor' /\ RowFitsTask'
  <2>1. Fits(w)
    BY <1>29, PauseRows, <1>c, ZenonT(40)
       DEF Fits, RowFits, BeforeStart, AfterStart, RunnerSteps, LeaveWaiting
  <2>2. QED
    BY <2>1, <1>a
<1>30. ASSUME NEW w \in Workers, Finish(w)
       PROVE  OneExecutor' /\ RowFitsTask'
  <2>1. Fits(w)
    BY <1>30, FinishRunnerRows, <1>c DEF Fits, RowFits, BeforeStart, AfterStart, RunnerSteps, Finish
  <2>2. QED
    BY <2>1, <1>a
<1>31. ASSUME NEW w \in Workers, HeartbeatFails(w)
       PROVE  OneExecutor' /\ RowFitsTask'
  <2>1. Fits(w)
    BY <1>31, <1>c DEF Fits, RowFits, BeforeStart, AfterStart, RunnerSteps, HeartbeatFails
  <2>2. QED
    BY <2>1, <1>a
<1>32. ASSUME NEW w \in Workers, DatabaseFails(w)
       PROVE  OneExecutor' /\ RowFitsTask'
  <2>1. CASE UNCHANGED status
    <3>1. Fits(w)
      BY <1>32, <2>1, <1>c DEF Fits, RowFits, BeforeStart, AfterStart, RunnerSteps, DatabaseFails
    <3>2. QED
      BY <3>1, <1>a
  <2>2. CASE pc[w] = "claim" /\ TakeRow(job[w])
    <3>1. job[w] \in Runs /\ TaskEnds(w)
      BY <1>32, <2>2, <1>c DEF DatabaseFails
    <3>2. \A s \in Runs : status'[s] =
             IF s = job[w] /\ status[s] = "pending" THEN "starting" ELSE status[s]
      BY <2>2, <3>1, ClaimRows
    <3>3. QED
      BY <2>2, <3>1, <3>2 DEF OneExecutor, RowFitsTask, RowFits, BeforeStart,
         AfterStart, RunnerSteps, Bookkeeping
  <2>3. QED
    BY <1>32, <2>1, <2>2, DatabaseFailsRows
<1>33. ASSUME NEW w \in Workers, Crash(w)
       PROVE  OneExecutor' /\ RowFitsTask'
  <2>1. Fits(w)
    BY <1>33, <1>c DEF Fits, RowFits, BeforeStart, AfterStart, RunnerSteps, Crash
  <2>2. QED
    BY <2>1, <1>a
<1>34. ASSUME NEW w \in Workers, Redeliver(w)
       PROVE  OneExecutor' /\ RowFitsTask'
  <2>1. Fits(w)
    BY <1>34, <1>c DEF Fits, RowFits, BeforeStart, AfterStart, RunnerSteps, Redeliver
  <2>2. QED
    BY <2>1, <1>a
<1>35. ASSUME NEW r \in Runs, GraceElapses(r)
       PROVE  OneExecutor' /\ RowFitsTask'
  <2>1. Stays
    BY <1>35 DEF Stays, GraceElapses
  <2>2. QED
    BY <2>1, <1>b
<1>36. CASE LockExpires
  <2>1. Stays
    BY <1>36 DEF Stays, LockExpires
  <2>2. QED
    BY <2>1, <1>b
<1>37. CASE UNCHANGED vars
  <2>1. Stays
    BY <1>37 DEF Stays, vars
  <2>2. QED
    BY <2>1, <1>b
<1>99. QED
  BY <1>1, <1>2, <1>3, <1>4, <1>5, <1>6, <1>7, <1>8, <1>9, <1>10,
     <1>11, <1>12, <1>13, <1>14, <1>15, <1>16, <1>17, <1>18,
     <1>19, <1>20, <1>21, <1>22, <1>23, <1>24, <1>25, <1>26,
     <1>27, <1>28, <1>29, <1>30, <1>31, <1>32, <1>33, <1>34,
     <1>35, <1>36, <1>37
     DEF Next, Reap, Start, Prepare, Execute

-----------------------------------------------------------------------------
(* The lock and the rows: who may still own it, and under which row.       *)

\* A claimed run stays claimed, and the pool of would-be owners of a claimed
\* run's lock only shrinks: just the claim itself leads to `acquire'.
LEMMA ClaimedStays ==
  ASSUME TypeOK, Bookkeeping, [Next]_vars, NEW r \in Runs, Claimed(r)
  PROVE  Claimed(r)'
<1> USE Constants DEF Claimed, TerminalStatuses, LockHoldingStatuses, Open
<1>1. CASE UNCHANGED <<status, error>>
  BY <1>1
<1>2. ASSUME NEW a \in Actors, ReapClose(a) PROVE Claimed(r)'
  BY <1>2, ReapCloseRows
<1>3. ASSUME NEW h \in Starters, Insert(h) PROVE Claimed(r)'
  BY <1>3, InsertRows DEF TypeOK
<1>4. ASSUME NEW h \in Starters, FailUnpublished(h) PROVE Claimed(r)'
  BY <1>4, FailUnpublishedRows
<1>5. ASSUME NEW w \in Workers, ClaimRun(w) PROVE Claimed(r)'
  BY <1>5, ClaimRows DEF ClaimRun, Bookkeeping
<1>6. ASSUME NEW w \in Workers, StartRunning(w) PROVE Claimed(r)'
  BY <1>6, StartRows
<1>7. ASSUME NEW w \in Workers, FinishEarly(w) PROVE Claimed(r)'
  BY <1>7, FinishEarlyRows
<1>8. ASSUME NEW w \in Workers, EnterWaiting(w) \/ LeaveWaiting(w)
      PROVE  Claimed(r)'
  BY <1>8, PauseRows
<1>9. ASSUME NEW w \in Workers, Finish(w) PROVE Claimed(r)'
  BY <1>9, FinishRunnerRows
<1>10. ASSUME NEW w \in Workers, DatabaseFails(w) PROVE Claimed(r)'
  BY <1>10, DatabaseFailsRows, ClaimRows
<1>11. QED
  BY <1>1, <1>2, <1>3, <1>4, <1>5, <1>6, <1>7, <1>8, <1>9, <1>10, RowActions

\* Once nobody is about to acquire the lock for a claimed run, nobody will be.
LEMMA TakersOnlyLeave ==
  ASSUME TypeOK, Bookkeeping, [Next]_vars, NEW r \in Runs, Claimed(r),
         NobodyTakes(r)
  PROVE  NobodyTakes(r)'
<1> USE Constants, ActorsAreDistinct DEF NobodyTakes, TypeOK, Claimed
<1>1. ASSUME NEW w \in Workers, ClaimRun(w) PROVE NobodyTakes(r)'
  BY <1>1 DEF ClaimRun
<1>2. ASSUME NEW w \in Workers, Deliver(w) PROVE NobodyTakes(r)'
  BY <1>2 DEF Deliver
<1>3. ASSUME NEW w \in Workers,
             (Prepare(w) /\ ~ClaimRun(w)) \/ Execute(w) \/ HeartbeatFails(w)
                \/ DatabaseFails(w) \/ Crash(w) \/ Redeliver(w)
      PROVE  NobodyTakes(r)'
  <2>1. \A v \in Workers : pc'[v] = "acquire" => pc[v] = "acquire" /\ job'[v] = job[v]
    BY <1>3, NoneIsNoRun
       DEF Prepare, Execute, AcquireLock, AcquireUnavailable, VerifyOwnership,
           StartRunning, ResetLimiter, FinishEarly, Release, Begin, Check,
           SendRequest, ReserveUnavailable, Answer, LastAnswer, EnterWaiting,
           LeaveWaiting, Finish, HeartbeatFails, DatabaseFails, Crash, Redeliver
  <2>2. QED
    BY <2>1
<1>4. ASSUME NEW a \in Actors, Reap(a) PROVE NobodyTakes(r)'
  BY <1>4 DEF Reap, ReapSelect, ReapOwner, ReapOwnerUnavailable, ReapClose
<1>5. ASSUME NEW h \in Starters \cup Pollers,
             (h \in Starters /\ Start(h)) \/ (h \in Pollers /\ Poll(h)) \/ HandlerDies(h)
      PROVE  NobodyTakes(r)'
  BY <1>5 DEF Start, StartRequest, FindActive, Insert, Publish, PublishFails,
     FailUnpublished, Poll, HandlerDies
<1>6. ASSUME NEW s \in Runs, GraceElapses(s) PROVE NobodyTakes(r)'
  BY <1>6 DEF GraceElapses
<1>7. CASE LockExpires \/ UNCHANGED vars
  BY <1>7 DEF LockExpires, vars
<1>8. QED
  BY <1>1, <1>2, <1>3, <1>4, <1>5, <1>6, <1>7 DEF Next

\* The lock is taken by a task at `acquire' or given up.
LEMMA LockMoves ==
  ASSUME [Next]_vars
  PROVE  \/ lock' = lock \/ lock' = None
         \/ \E w \in Workers : pc[w] = "acquire" /\ lock' = job[w]
<1>1. ASSUME NEW w \in Workers, Prepare(w)
      PROVE  \/ lock' = lock \/ lock' = None
             \/ (pc[w] = "acquire" /\ lock' = job[w])
  BY <1>1 DEF Prepare, ClaimRun, AcquireLock, AcquireUnavailable,
     VerifyOwnership, StartRunning, ResetLimiter, FinishEarly, Release, Released
<1>2. ASSUME NEW w \in Workers,
             Deliver(w) \/ Execute(w) \/ HeartbeatFails(w) \/ DatabaseFails(w)
                \/ Crash(w) \/ Redeliver(w)
      PROVE  lock' = lock
  BY <1>2 DEF Deliver, Execute, Begin, Check, SendRequest, ReserveUnavailable,
     Answer, LastAnswer, EnterWaiting, LeaveWaiting, Finish, HeartbeatFails,
     DatabaseFails, Crash, Redeliver
<1>3. ASSUME NEW a \in Actors, Reap(a) PROVE lock' = lock
  BY <1>3 DEF Reap, ReapSelect, ReapOwner, ReapOwnerUnavailable, ReapClose
<1>4. ASSUME NEW h, Start(h) \/ Poll(h) \/ HandlerDies(h) PROVE lock' = lock
  BY <1>4 DEF Start, StartRequest, FindActive, Insert, Publish, PublishFails,
     FailUnpublished, Poll, HandlerDies
<1>5. ASSUME NEW r \in Runs, GraceElapses(r) PROVE lock' = lock
  BY <1>5 DEF GraceElapses
<1>6. CASE LockExpires \/ UNCHANGED vars
  BY <1>6 DEF LockExpires, vars
<1>7. QED
  BY <1>1, <1>2, <1>3, <1>4, <1>5, <1>6 DEF Next

\* What a reaper has seen is what it will act on.
LEMMA SeenMoves ==
  ASSUME TypeOK, [Next]_vars, NEW a \in Actors, Reaping(a)'
  PROVE  \/ pc'[a] = pc[a] /\ seen'[a] = seen[a]
         \/ /\ pc'[a] = "reap_owner" /\ UNCHANGED <<status, lock>>
            /\ seen'[a].run \in Runs /\ seen'[a].status = status[seen'[a].run]
         \/ /\ pc[a] = "reap_owner" /\ UNCHANGED <<seen, lock>>
            /\ lock # seen[a].run
<1> USE ActorsAreDistinct DEF Reaping, TypeOK
<1>1. ASSUME NEW b \in Actors, ReapSelect(b)
      PROVE  \/ pc'[a] = pc[a] /\ seen'[a] = seen[a]
             \/ /\ pc'[a] = "reap_owner" /\ UNCHANGED <<status, lock>>
                /\ seen'[a].run \in Runs /\ seen'[a].status = status[seen'[a].run]
  BY <1>1 DEF ReapSelect
<1>2. ASSUME NEW b \in Actors, ReapOwner(b)
      PROVE  \/ pc'[a] = pc[a] /\ seen'[a] = seen[a]
             \/ /\ pc[a] = "reap_owner" /\ UNCHANGED <<seen, lock>>
                /\ lock # seen[a].run
  BY <1>2 DEF ReapOwner
<1>3. ASSUME NEW b \in Actors, ReapOwnerUnavailable(b) \/ ReapClose(b)
      PROVE  pc'[a] = pc[a] /\ seen'[a] = seen[a]
  BY <1>3 DEF ReapOwnerUnavailable, ReapClose
<1>4. ASSUME NEW h \in Actors, Start(h) \/ Poll(h) \/ HandlerDies(h)
      PROVE  pc'[a] = pc[a] /\ seen'[a] = seen[a]
  BY <1>4 DEF Start, StartRequest, FindActive, Insert, Publish, PublishFails,
     FailUnpublished, Poll, HandlerDies
<1>5. ASSUME NEW w \in Workers,
             Deliver(w) \/ Prepare(w) \/ Execute(w) \/ HeartbeatFails(w)
                \/ DatabaseFails(w) \/ Crash(w) \/ Redeliver(w)
      PROVE  pc'[a] = pc[a] /\ seen'[a] = seen[a]
  BY <1>5 DEF Deliver, Prepare, Execute, ClaimRun, AcquireLock, AcquireUnavailable,
     VerifyOwnership, StartRunning, ResetLimiter, FinishEarly, Release, Begin,
     Check, SendRequest, ReserveUnavailable, Answer, LastAnswer, EnterWaiting,
     LeaveWaiting, Finish, HeartbeatFails, DatabaseFails, Crash, Redeliver
<1>6. ASSUME NEW r \in Runs, GraceElapses(r)
      PROVE  pc'[a] = pc[a] /\ seen'[a] = seen[a]
  BY <1>6 DEF GraceElapses
<1>7. CASE LockExpires \/ UNCHANGED vars
  BY <1>7 DEF LockExpires, vars
<1>8. QED
  BY <1>1, <1>2, <1>3, <1>4, <1>5, <1>6, <1>7 DEF Next, Reap

\* What a reaper has seen stays true enough: a working run it found without the
\* lock cannot get the lock back before the reaper closes it.
LEMMA SlotStep ==
  ASSUME TypeOK, Bookkeeping, RowFitsTask, SlotFitsRows, [Next]_vars
  PROVE  SlotFitsRows'
<1>1. TypeOK' /\ Bookkeeping'
  BY TypingStep
<1>2. lock' # None => status'[lock'] \notin {"absent", "pending"}
  <2>1. \A w \in Workers : pc[w] = "acquire" => job[w] \in Runs /\ Claimed(job[w])
    BY DEF RowFitsTask, RowFits, Executing, Bookkeeping
  <2>2. lock' # None => lock' \in Runs /\ Claimed(lock')
    BY <2>1, <1>1, LockMoves DEF SlotFitsRows, TypeOK
  <2>3. ASSUME NEW r \in Runs, Claimed(r)
        PROVE  status'[r] \notin {"absent", "pending"}
    BY <2>3, ClaimedStays DEF Claimed
  <2>4. QED
    BY <2>2, <2>3
<1>3. ASSUME NEW r \in Runs, Claimed(r), NobodyTakes(r)
      PROVE  /\ status'[r] \notin {"absent", "pending"}
             /\ \A w \in Workers : job'[w] = r => pc'[w] # "acquire"
  BY <1>3, ClaimedStays, TakersOnlyLeave DEF Claimed, NobodyTakes
<1>4. ASSUME NEW a \in Actors, Reaping(a)', seen'[a].status \in LockHoldingStatuses
      PROVE  /\ seen'[a].run \in Runs
             /\ Claimed(seen'[a].run) /\ NobodyTakes(seen'[a].run)
             /\ pc'[a] = "reap_close" => lock' # seen'[a].run
  <2>1. CASE /\ pc'[a] = "reap_owner" /\ UNCHANGED <<status, lock>>
             /\ seen'[a].run \in Runs /\ seen'[a].status = status[seen'[a].run]
    BY <1>4, <2>1 DEF Claimed, LockHoldingStatuses, NobodyTakes, RowFitsTask,
       RowFits, BeforeStart, Settled, TerminalStatuses
  <2>2. CASE /\ Reaping(a) /\ seen'[a] = seen[a]
             /\ pc'[a] = "reap_close" => (pc[a] = "reap_close" \/ lock # seen[a].run)
    <3>1. /\ seen[a].run \in Runs
          /\ Claimed(seen[a].run) /\ NobodyTakes(seen[a].run)
          /\ pc'[a] = "reap_close" => lock # seen[a].run
      BY <1>4, <2>2 DEF SlotFitsRows, Bookkeeping, Reaping
    <3>2. pc'[a] = "reap_close" => lock' # seen[a].run
      BY <3>1, LockMoves, NoneIsNoRun DEF NobodyTakes
    <3>3. QED
      BY <2>2, <3>1, <3>2
  <2>3. \/ pc'[a] = pc[a] /\ seen'[a] = seen[a]
        \/ /\ pc'[a] = "reap_owner" /\ UNCHANGED <<status, lock>>
           /\ seen'[a].run \in Runs /\ seen'[a].status = status[seen'[a].run]
        \/ /\ pc[a] = "reap_owner" /\ UNCHANGED <<seen, lock>>
           /\ lock # seen[a].run
    BY <1>4, SeenMoves
  <2>4. QED
    BY <1>4, <2>1, <2>2, <2>3 DEF Reaping
<1>5. QED
  BY <1>2, <1>3, <1>4 DEF SlotFitsRows, Claimed, NobodyTakes, Reaping

-----------------------------------------------------------------------------
(* The runner's row: open while the slot is its own, and never closed as    *)
(* the row of a run that had not started.                                  *)

\* Only start_running leads past it, with its row `starting'.
LEMMA WorkMoves ==
  ASSUME TypeOK, Bookkeeping, [Next]_vars, NEW w \in Workers, pc'[w] \in AfterStart
  PROVE  /\ job'[w] = job[w]
         /\ \/ pc[w] \in AfterStart
            \/ StartRunning(w) /\ status[job[w]] = "starting"
<1> USE ActorsAreDistinct DEF AfterStart, RunnerSteps, TypeOK
<1> DEFINE Goal == /\ job'[w] = job[w]
                   /\ \/ pc[w] \in AfterStart
                      \/ StartRunning(w) /\ status[job[w]] = "starting"
<1>1. ASSUME NEW a \in Actors, Reap(a) PROVE Goal
  BY <1>1 DEF Reap, ReapSelect, ReapOwner, ReapOwnerUnavailable, ReapClose
<1>2. ASSUME NEW h \in Starters \cup Pollers, Start(h) \/ Poll(h) \/ HandlerDies(h)
      PROVE  Goal
  BY <1>2 DEF Start, StartRequest, FindActive, Insert, Publish, PublishFails,
     FailUnpublished, Poll, HandlerDies
<1>3. ASSUME NEW v \in Workers, StartRunning(v) PROVE Goal
  BY <1>3 DEF StartRunning, StartFrom
<1>4. ASSUME NEW v \in Workers,
             ClaimRun(v) \/ FinishEarly(v) \/ Release(v) \/ Crash(v)
      PROVE  Goal
  BY <1>4 DEF ClaimRun, FinishEarly, Release, Crash
<1>5. ASSUME NEW v \in Workers,
             AcquireLock(v) \/ AcquireUnavailable(v) \/ VerifyOwnership(v)
                \/ ResetLimiter(v) \/ Deliver(v) \/ Execute(v)
                \/ HeartbeatFails(v) \/ DatabaseFails(v) \/ Redeliver(v)
      PROVE  Goal
  BY <1>5 DEF AcquireLock, AcquireUnavailable, VerifyOwnership, ResetLimiter,
     Deliver, Execute, Begin, Check, SendRequest, ReserveUnavailable, Answer,
     LastAnswer, EnterWaiting, LeaveWaiting, Finish, HeartbeatFails,
     DatabaseFails, Redeliver
<1>6. ASSUME NEW r \in Runs, GraceElapses(r) PROVE Goal
  BY <1>6 DEF GraceElapses
<1>7. CASE LockExpires \/ UNCHANGED vars
  BY <1>7 DEF LockExpires, vars
<1>8. QED
  BY <1>1, <1>2, <1>3, <1>4, <1>5, <1>6, <1>7 DEF Next, Prepare

\* The row of a run that reached `running' is only ever closed by its own
\* runner, or by a reaper that saw it working and without the lock.
LEMMA WorkedRows ==
  ASSUME TypeOK, Bookkeeping, OneExecutor, [Next]_vars, NEW r \in Runs,
         Open(r) \/ Settled(r),
         \A v \in Workers : job[v] = r => pc[v] # "finish_early"
  PROVE  /\ (Open(r) \/ Settled(r))'
         /\ error'[r] \in {error[r], "abandoned", "runner", "none"}
         /\ Open(r) => \/ Open(r)'
                       \/ \E a \in Actors :
                             /\ pc[a] = "reap_close" /\ seen[a].run = r
                             /\ seen[a].status \in LockHoldingStatuses
                             /\ UNCHANGED lock
                       \/ \E v \in Workers : pc[v] = "finish" /\ job[v] = r
                                             /\ pc'[v] = "release"
<1> USE Constants DEF Open, Settled, LockHoldingStatuses, TerminalStatuses
<1> DEFINE Goal ==
         /\ (Open(r) \/ Settled(r))'
         /\ error'[r] \in {error[r], "abandoned", "runner", "none"}
         /\ Open(r) => \/ Open(r)'
                       \/ \E a \in Actors :
                             /\ pc[a] = "reap_close" /\ seen[a].run = r
                             /\ seen[a].status \in LockHoldingStatuses
                             /\ UNCHANGED lock
                       \/ \E v \in Workers : pc[v] = "finish" /\ job[v] = r
                                             /\ pc'[v] = "release"
<1>1. CASE UNCHANGED <<status, error>>
  BY <1>1
<1>2. ASSUME NEW a \in Actors, ReapClose(a) PROVE Goal
  BY <1>2, ReapCloseRows DEF ReapClose, OrphanReason
<1>3. ASSUME NEW h \in Starters, Insert(h) PROVE Goal
  BY <1>3, InsertRows DEF TypeOK
<1>4. ASSUME NEW h \in Starters, FailUnpublished(h) PROVE Goal
  BY <1>4, FailUnpublishedRows
<1>5. ASSUME NEW w \in Workers, ClaimRun(w) PROVE Goal
  BY <1>5, ClaimRows DEF ClaimRun, Bookkeeping
<1>6. ASSUME NEW w \in Workers, StartRunning(w) PROVE Goal
  BY <1>6, StartRows
<1>7. ASSUME NEW w \in Workers, FinishEarly(w) PROVE Goal
  BY <1>7, FinishEarlyRows DEF FinishEarly
<1>8. ASSUME NEW w \in Workers, EnterWaiting(w) \/ LeaveWaiting(w) PROVE Goal
  BY <1>8, PauseRows
<1>9. ASSUME NEW w \in Workers, Finish(w) PROVE Goal
  BY <1>9, FinishRunnerRows DEF Finish, TypeOK
<1>10. ASSUME NEW w \in Workers, DatabaseFails(w) PROVE Goal
  BY <1>10, DatabaseFailsRows, ClaimRows
<1>11. QED
  BY <1>1, <1>2, <1>3, <1>4, <1>5, <1>6, <1>7, <1>8, <1>9, <1>10, RowActions

\* While the slot is the runner's, only the runner itself closes the row.
LEMMA OwnersStep ==
  ASSUME TypeOK, Bookkeeping, OneExecutor, RowFitsTask, SlotFitsRows, OwnersWork,
         [Next]_vars
  PROVE  OwnersWork'
<1> SUFFICES ASSUME NEW w \in Workers, pc'[w] \in AfterStart, lock' = job'[w]
             PROVE  status'[job'[w]] \in LockHoldingStatuses
  BY DEF OwnersWork, Open
<1>1. job'[w] = job[w] /\ job[w] \in Runs /\ Executing(w)
  BY WorkMoves DEF Bookkeeping, AfterStart, RunnerSteps, Executing, StartRunning
<1>2. CASE StartRunning(w) /\ status[job[w]] = "starting"
  BY <1>1, <1>2, StartRows DEF Open, LockHoldingStatuses
<1>3. CASE pc[w] \in AfterStart
  <2>1. lock = job[w]
    BY <1>1, <1>3, LockMoves, NoneIsNoRun
       DEF OneExecutor, Executing, AfterStart, RunnerSteps
  <2>2. Open(job[w])
    BY <1>3, <2>1 DEF OwnersWork
  <2>3. \A v \in Workers : job[v] = job[w] => pc[v] # "finish_early"
    BY <1>1, <1>3 DEF OneExecutor, Executing, AfterStart, RunnerSteps
  <2>4. \A a \in Actors :
           ~(/\ pc[a] = "reap_close" /\ seen[a].run = job[w]
             /\ seen[a].status \in LockHoldingStatuses)
    BY <2>1 DEF SlotFitsRows, Reaping
  <2>5. \A v \in Workers : ~(pc[v] = "finish" /\ job[v] = job[w] /\ pc'[v] = "release")
    BY <1>1 DEF OneExecutor, Executing, AfterStart, RunnerSteps
  <2>6. Open(job[w])'
    BY <1>1, <2>2, <2>3, <2>4, <2>5, WorkedRows
  <2>7. QED
    BY <1>1, <2>6 DEF Open
<1>4. QED
  BY <1>2, <1>3, WorkMoves

\* Only the runner sends, and it leaves only for `release'.
LEMMA RequestMoves ==
  ASSUME TypeOK, Bookkeeping, [Next]_vars
  PROVE  \/ UNCHANGED requested
         \/ \E w \in Workers : /\ SendRequest(w)
                               /\ requested' = requested \cup {job[w]}
  BY DEF Next, vars, Reap, Start, Prepare, Execute, ReapSelect, ReapOwner,
     ReapOwnerUnavailable, ReapClose, StartRequest, FindActive, Insert, Publish,
     PublishFails, FailUnpublished, Poll, HandlerDies, Deliver, ClaimRun,
     AcquireLock, AcquireUnavailable, VerifyOwnership, StartRunning,
     ResetLimiter, FinishEarly, Release, Begin, Check, SendRequest,
     ReserveUnavailable, Answer, LastAnswer, EnterWaiting, LeaveWaiting, Finish,
     HeartbeatFails, DatabaseFails, Crash, Redeliver, GraceElapses, LockExpires

WorkingOrDone == {"idle", "claim", "release"} \cup RunnerSteps

\* A task that has sent a request never goes back to the preparation.
LEMMA RequestersStay ==
  ASSUME TypeOK, Bookkeeping, [Next]_vars, NEW r \in Runs, Open(r) \/ Settled(r),
         NEW w \in Workers, job[w] = r => pc[w] \in WorkingOrDone
  PROVE  job'[w] = r => pc'[w] \in WorkingOrDone
<1> USE ActorsAreDistinct, NoneIsNoRun
    DEF WorkingOrDone, RunnerSteps, TypeOK, Open, Settled, LockHoldingStatuses,
        TerminalStatuses
<1> DEFINE Goal == job'[w] = r => pc'[w] \in WorkingOrDone
<1>1. ASSUME NEW a \in Actors, Reap(a) PROVE Goal
  BY <1>1 DEF Reap, ReapSelect, ReapOwner, ReapOwnerUnavailable, ReapClose
<1>2. ASSUME NEW h \in Starters \cup Pollers,
             (h \in Starters /\ Start(h)) \/ Poll(h) \/ HandlerDies(h)
      PROVE  Goal
  BY <1>2 DEF Start, StartRequest, FindActive, Insert, Publish, PublishFails,
     FailUnpublished, Poll, HandlerDies
<1>3. ASSUME NEW v \in Workers, ClaimRun(v) PROVE Goal
  BY <1>3 DEF ClaimRun, ClaimFrom
<1>4. ASSUME NEW v \in Workers,
             FinishEarly(v) \/ Release(v) \/ Crash(v) \/ Deliver(v) \/ Redeliver(v)
      PROVE  Goal
  BY <1>4 DEF FinishEarly, Release, Crash, Deliver, Redeliver
<1>5. ASSUME NEW v \in Workers, DatabaseFails(v) PROVE Goal
  <2>1. \/ TaskEnds(v)
        \/ GoTo(v, "release") /\ UNCHANGED job
        \/ pc[v] \in RunnerSteps /\ GoTo(v, "finish") /\ UNCHANGED job
    BY <1>5 DEF DatabaseFails
  <2>2. QED
    BY <2>1
<1>6. ASSUME NEW v \in Workers,
             AcquireLock(v) \/ AcquireUnavailable(v) \/ VerifyOwnership(v)
                \/ StartRunning(v) \/ ResetLimiter(v)
      PROVE  Goal
  BY <1>6 DEF AcquireLock, AcquireUnavailable, VerifyOwnership, StartRunning,
     ResetLimiter
<1>7. ASSUME NEW v \in Workers, Execute(v) \/ HeartbeatFails(v) PROVE Goal
  BY <1>7 DEF Execute, Begin, Check, SendRequest, ReserveUnavailable, Answer,
     LastAnswer, EnterWaiting, LeaveWaiting, Finish, HeartbeatFails
<1>8. ASSUME NEW q \in Runs, GraceElapses(q) PROVE Goal
  BY <1>8 DEF GraceElapses
<1>9. CASE LockExpires \/ UNCHANGED vars
  BY <1>9 DEF LockExpires, vars
<1>10. QED
  BY <1>1, <1>2, <1>3, <1>4, <1>5, <1>6, <1>7, <1>8, <1>9 DEF Next, Prepare

\* No step closes a run that reached `running' as one that had not.
LEMMA ReachedStep ==
  ASSUME TypeOK, Bookkeeping, OpenRowsAreClean, OneExecutor, RowFitsTask, Reached,
         [Next]_vars
  PROVE  Reached'
<1> DEFINE Clean(r) == error[r] \notin Unstarted
<1>0. {"abandoned", "runner", "none"} \cap Unstarted = {}
  BY DEF Unstarted
<1>1. ASSUME NEW w \in Workers, pc'[w] \in AfterStart
      PROVE  error'[job'[w]] \notin Unstarted
  <2>1. job'[w] = job[w] /\ job[w] \in Runs /\ Executing(w)
    BY <1>1, WorkMoves DEF Bookkeeping, AfterStart, RunnerSteps, Executing, StartRunning
  <2>2. CASE StartRunning(w) /\ status[job[w]] = "starting"
    <3>1. error[job[w]] = "none" /\ UNCHANGED error
      BY <2>1, <2>2, StartRows DEF OpenRowsAreClean, TerminalStatuses
    <3>2. QED
      BY <1>0, <2>1, <3>1
  <2>3. CASE pc[w] \in AfterStart
    <3>1. error[job[w]] \notin Unstarted /\ (Open(job[w]) \/ Settled(job[w]))
      BY <2>3 DEF Reached, RowFitsTask, RowFits
    <3>2. \A v \in Workers : job[v] = job[w] => pc[v] # "finish_early"
      BY <2>1, <2>3 DEF OneExecutor, Executing, AfterStart, RunnerSteps
    <3>3. error'[job[w]] \in {error[job[w]], "abandoned", "runner", "none"}
      BY <2>1, <3>1, <3>2, WorkedRows
    <3>4. QED
      BY <1>0, <2>1, <3>1, <3>3
  <2>4. QED
    BY <1>1, <2>2, <2>3, WorkMoves
<1>2. ASSUME NEW r \in Runs, Open(r) \/ Settled(r), error[r] \notin Unstarted,
             \A w \in Workers : job[w] = r => pc[w] \in WorkingOrDone
      PROVE  /\ (Open(r) \/ Settled(r))' /\ error'[r] \notin Unstarted
             /\ \A w \in Workers : job'[w] = r => pc'[w] \in WorkingOrDone
  <2>1. \A v \in Workers : job[v] = r => pc[v] # "finish_early"
    BY <1>2 DEF WorkingOrDone, RunnerSteps
  <2>2. QED
    BY <1>0, <1>2, <2>1, WorkedRows, RequestersStay
<1>3. ASSUME NEW r \in requested'
      PROVE  /\ r \in Runs
             /\ Open(r) \/ Settled(r)
             /\ error[r] \notin Unstarted
             /\ \A w \in Workers : job[w] = r => pc[w] \in WorkingOrDone
  <2>1. CASE r \in requested
    BY <2>1 DEF Reached, WorkingOrDone, TypeOK
  <2>2. ASSUME NEW w \in Workers, SendRequest(w), r = job[w]
        PROVE  /\ r \in Runs
               /\ Open(r) \/ Settled(r)
               /\ error[r] \notin Unstarted
               /\ \A v \in Workers : job[v] = r => pc[v] \in WorkingOrDone
    <3>1. pc[w] \in AfterStart /\ pc[w] \in RunnerSteps /\ Executing(w) /\ r \in Runs
      BY <2>2 DEF SendRequest, AfterStart, RunnerSteps, Executing, Bookkeeping
    <3>2. \A v \in Workers : job[v] = r => pc[v] \in WorkingOrDone
      BY <2>2, <3>1 DEF OneExecutor, Executing, WorkingOrDone
    <3>3. QED
      BY <2>2, <3>1, <3>2 DEF Reached, RowFitsTask, RowFits
  <2>3. QED
    BY <1>3, <2>1, <2>2, RequestMoves
<1>4. QED
  BY <1>1, <1>2, <1>3 DEF Reached, WorkingOrDone, Open, Settled


-----------------------------------------------------------------------------
(* The theorems.                                                           *)

\* The invariant holds when nothing has happened yet.
LEMMA InvInit == Init => Inv
<1> SUFFICES ASSUME Init PROVE Inv
  OBVIOUS
<1>1. TypeOK /\ Bookkeeping
  BY TypingInit
<1>2. OneActiveRun /\ OpenRowsAreClean
  BY Constants DEF Init, OneActiveRun, Active, OpenRowsAreClean
<1>3. OneExecutor /\ RowFitsTask /\ OwnersWork
  BY DEF Init, OneExecutor, Executing, RowFitsTask, RowFits, OwnersWork,
     BeforeStart, AfterStart, RunnerSteps
<1>4. SlotFitsRows /\ Reached
  BY DEF Init, SlotFitsRows, Reaping, Reached, AfterStart, RunnerSteps
<1>5. QED
  BY <1>1, <1>2, <1>3, <1>4 DEF Inv

\* Every step of the four parties, and of what happens to them, preserves it.
LEMMA InvStep == Inv /\ [Next]_vars => Inv'
  BY TypingStep, RowsStep, ExecutorStep, SlotStep, OwnersStep, ReachedStep DEF Inv

\* The inductive invariant is an invariant: the rows, the lock, the tasks and
\* the reapers' candidates fit each other in every reachable state.
THEOREM Safety == Spec => []Inv
<1>1. QED
  BY InvInit, InvStep, PTL DEF Spec

\* However many requests race, at most one run is active (the index of models.py).
THEOREM OneActiveRunHolds == Spec => []OneActiveRun
<1>1. Inv => OneActiveRun
  BY DEF Inv
<1>2. QED
  BY <1>1, Safety, PTL

\* However often its task is delivered, one worker at most executes a run.
THEOREM OneExecutorHolds == Spec => []OneExecutor
<1>1. Inv => OneExecutor
  BY DEF Inv
<1>2. QED
  BY <1>1, Safety, PTL

\* Nobody closes a working run behind the back of the task that owns the slot.
THEOREM OwnersRowIsOpenHolds == Spec => []OwnersRowIsOpen
<1>1. Inv => OwnersRowIsOpen
  BY DEF Inv, OwnersWork, OwnersRowIsOpen, WorkSteps, AfterStart
<1>2. QED
  BY <1>1, Safety, PTL

\* A run closed as one that did not start has sent no request.
THEOREM UnstartedRunsAreSilentHolds == Spec => []UnstartedRunsAreSilent
<1>1. Inv => UnstartedRunsAreSilent
  BY DEF Inv, Reached, Unstarted, UnstartedRunsAreSilent
<1>2. QED
  BY <1>1, Safety, PTL

\* A reaper never closes a working run that owns the lock at that moment, though
\* it read the row and the owner earlier, in two steps.
THEOREM ReaperSparesOwnersHolds == Spec => ReaperSparesOwners
<1> DEFINE Closed(r) == /\ Open(r) /\ status'[r] = "failed"
                        /\ error'[r] \in ReaperDiagnoses
<1>1. ASSUME Inv, [Next]_vars, NEW r \in Runs, Closed(r)
      PROVE  lock # r
  <2> USE <1>1 DEF Open, LockHoldingStatuses
  <2>0. TypeOK /\ Bookkeeping /\ SlotFitsRows
    BY DEF Inv
  <2>1. ~UNCHANGED <<status, error>>
    OBVIOUS
  <2>2. ASSUME NEW a \in Actors, ReapClose(a) PROVE lock # r
    <3>1. /\ seen[a].run = r /\ seen[a].status = status[r]
          /\ pc[a] = "reap_close"
      BY <2>0, <2>2, ReapCloseRows DEF ReapClose
    <3>2. QED
      BY <2>0, <3>1 DEF SlotFitsRows, Reaping
  <2>3. ASSUME NEW h \in Starters PROVE ~Insert(h) /\ ~FailUnpublished(h)
    BY <2>0, InsertRows, FailUnpublishedRows DEF TypeOK
  <2>4. ASSUME NEW w \in Workers, ClaimRun(w) \/ DatabaseFails(w) PROVE FALSE
    BY <2>0, <2>4, ClaimRows, DatabaseFailsRows DEF ClaimRun, Bookkeeping
  <2>5. ASSUME NEW w \in Workers, StartRunning(w) PROVE FALSE
    BY <2>0, <2>5, StartRows
  <2>6. ASSUME NEW w \in Workers, FinishEarly(w) PROVE FALSE
    BY <2>0, <2>6, FinishEarlyRows
  <2>7. ASSUME NEW w \in Workers, EnterWaiting(w) \/ LeaveWaiting(w) PROVE FALSE
    BY <2>0, <2>7, PauseRows
  <2>8. ASSUME NEW w \in Workers, Finish(w) PROVE FALSE
    BY <2>0, <2>8, FinishRunnerRows
  <2>9. QED
    BY <2>1, <2>2, <2>3, <2>4, <2>5, <2>6, <2>7, <2>8, RowActions
<1>2. Inv /\ [Next]_vars =>
        [\A r \in Runs : Closed(r) => lock # r]_vars
  BY <1>1
<1>3. QED
  BY <1>2, Safety, PTL DEF Spec, ReaperSparesOwners

\* The slot leaves a run that works with it by expiry only: no other delivery of
\* its task, and no other run's, releases or overwrites it.
THEOREM SlotStaysHolds == Spec => SlotStaysWithItsRun
<1> DEFINE Leaves(w) == pc[w] \in RunnerSteps /\ lock = job[w] /\ lock' # lock
<1>1. ASSUME Inv, [Next]_vars, NEW w \in Workers, Leaves(w)
      PROVE  LockExpires
  <2>0. /\ OneExecutor /\ Executing(w) /\ job[w] \in Runs
        /\ lock = job[w] /\ lock' # lock
    BY <1>1 DEF Inv, Bookkeeping, Executing, RunnerSteps
  <2>1. ASSUME NEW v \in Workers, AcquireLock(v) \/ AcquireUnavailable(v) PROVE FALSE
    BY <2>0, <2>1, NoneIsNoRun DEF AcquireLock, AcquireUnavailable
  <2>2. ASSUME NEW v \in Workers, Release(v) PROVE FALSE
    <3>1. job[v] = job[w] /\ Executing(v)
      BY <2>0, <2>2 DEF Release, Released, Executing
    <3>2. QED
      BY <1>1, <2>0, <2>2, <3>1 DEF OneExecutor, Release, RunnerSteps
  <2>3. \/ UNCHANGED lock \/ LockExpires
        \/ \E v \in Workers : AcquireLock(v) \/ AcquireUnavailable(v) \/ Release(v)
    BY <1>1 DEF Next, vars, Reap, Start, Prepare, Execute, ReapSelect, ReapOwner,
       ReapOwnerUnavailable, ReapClose, StartRequest, FindActive, Insert, Publish,
       PublishFails, FailUnpublished, Poll, HandlerDies, Deliver, ClaimRun,
       VerifyOwnership, StartRunning, ResetLimiter, FinishEarly, Begin, Check,
       SendRequest, ReserveUnavailable, Answer, LastAnswer, EnterWaiting,
       LeaveWaiting, Finish, HeartbeatFails, DatabaseFails, Crash, Redeliver,
       GraceElapses
  <2>4. QED
    BY <2>0, <2>1, <2>2, <2>3
<1>2. Inv /\ [Next]_vars =>
        [\A w \in Workers :
            /\ pc[w] \in RunnerSteps /\ lock = job[w] /\ lock' # lock
            => LockExpires]_vars
  BY <1>1
<1>3. QED
  BY <1>2, Safety, PTL DEF Spec, SlotStaysWithItsRun

-----------------------------------------------------------------------------
(* The life of one row, and what it is an implementation of.               *)

Untouched(r) == status'[r] = status[r] /\ error'[r] = error[r]

\* The moves of a row: on by one stage, or closed for a reason fit for its stage.
Advances(r) ==
    /\ error'[r] = error[r]
    /\ \/ /\ status[r] = "absent" /\ status'[r] = "pending"
          /\ \A s \in Runs : ~Active(s)
       \/ status[r] = "pending" /\ status'[r] = "starting"
       \/ status[r] = "starting" /\ status'[r] = "running"
       \/ Open(r) /\ Open(r)'

Closes(r) ==
    \/ /\ status[r] = "pending" /\ status'[r] = "failed"
       /\ error'[r] \in {"unpublished", "unclaimed"}
    \/ /\ status[r] = "starting" /\ status'[r] = "failed"
       /\ error'[r] \in {"stalled", "busy", "lock_lost", "redis_down"}
    \/ /\ Open(r) /\ status'[r] = "failed"
       /\ error'[r] \in {"abandoned", "redis_down", "runner"}
    \/ Open(r) /\ status'[r] = "done" /\ error'[r] = "none"

\* A step moves one row at most, and moves it like this.
LEMMA OneRowMoves ==
  ASSUME Inv, [Next]_vars
  PROVE  \/ \A r \in Runs : Untouched(r)
         \/ \E r \in Runs : /\ Advances(r) \/ Closes(r)
                            /\ \A s \in Runs \ {r} : Untouched(s)
<1> DEFINE Goal == \/ \A r \in Runs : Untouched(r)
                   \/ \E r \in Runs : /\ Advances(r) \/ Closes(r)
                                      /\ \A s \in Runs \ {r} : Untouched(s)
<1>0. TypeOK /\ Bookkeeping /\ RowFitsTask
  BY DEF Inv
<1> USE Constants DEF Untouched, LockHoldingStatuses, Open
<1>1. CASE UNCHANGED <<status, error>>
  BY <1>1
<1>2. ASSUME NEW a \in Actors, ReapClose(a) PROVE Goal
  <2>1. seen[a].status \in {"pending", "starting"} \/ Open(seen[a].run)
        \/ status[seen[a].run] # seen[a].status
    BY <1>0, <1>2, ReapCloseRows
  <2>2. CASE status[seen[a].run] = seen[a].status
    <3>1. Closes(seen[a].run)
      BY <1>0, <1>2, <2>1, <2>2, ReapCloseRows DEF Closes, OrphanReason
    <3>2. QED
      BY <1>0, <1>2, <3>1, ReapCloseRows
  <2>3. CASE status[seen[a].run] # seen[a].status
    BY <1>0, <1>2, <2>3, ReapCloseRows
  <2>4. QED
    BY <2>2, <2>3
<1>3. ASSUME NEW h \in Starters, Insert(h) PROVE Goal
  BY <1>0, <1>3, InsertRows DEF TypeOK, Advances
<1>4. ASSUME NEW h \in Starters, FailUnpublished(h) PROVE Goal
  BY <1>0, <1>4, FailUnpublishedRows DEF Closes
<1>5. ASSUME NEW w \in Workers, ClaimRun(w) PROVE Goal
  <2>1. job[w] \in Runs /\ TakeRow(job[w])
    BY <1>0, <1>5 DEF ClaimRun, Bookkeeping
  <2>2. QED
    BY <1>0, <2>1, ClaimRows DEF Advances
<1>6. ASSUME NEW w \in Workers, StartRunning(w) PROVE Goal
  BY <1>0, <1>6, StartRows DEF Advances
<1>7. ASSUME NEW w \in Workers, FinishEarly(w) PROVE Goal
  <2>1. verdict[w] # "redis_down" => status[job[w]] # "running"
    BY <1>0, <1>7 DEF RowFitsTask, RowFits, FinishEarly, Settled, TerminalStatuses
  <2>2. CASE status[job[w]] \in {"starting", "running"}
    <3>1. Closes(job[w])
      BY <1>0, <1>7, <2>1, <2>2, FinishEarlyRows DEF Closes
    <3>2. QED
      BY <1>0, <1>7, <3>1, FinishEarlyRows
  <2>3. CASE status[job[w]] \notin {"starting", "running"}
    BY <1>0, <1>7, <2>3, FinishEarlyRows
  <2>4. QED
    BY <2>2, <2>3
<1>8. ASSUME NEW w \in Workers, EnterWaiting(w) \/ LeaveWaiting(w) PROVE Goal
  BY <1>0, <1>8, PauseRows DEF Advances
<1>9. ASSUME NEW w \in Workers, Finish(w) PROVE Goal
  <2>1. Open(job[w]) \/ Settled(job[w])
    BY <1>0, <1>9 DEF RowFitsTask, RowFits, Finish, AfterStart, RunnerSteps
  <2>2. CASE Open(job[w])
    <3>1. Closes(job[w])
      BY <1>0, <1>9, <2>2, FinishRunnerRows DEF Closes, TerminalStatuses
    <3>2. QED
      BY <1>0, <1>9, <3>1, FinishRunnerRows
  <2>3. CASE Settled(job[w])
    BY <1>0, <1>9, <2>3, FinishRunnerRows DEF Settled, TerminalStatuses
  <2>4. QED
    BY <2>1, <2>2, <2>3
<1>10. ASSUME NEW w \in Workers, DatabaseFails(w) PROVE Goal
  BY <1>0, <1>10, DatabaseFailsRows, ClaimRows DEF Advances
<1>11. QED
  BY <1>1, <1>2, <1>3, <1>4, <1>5, <1>6, <1>7, <1>8, <1>9, <1>10, RowActions

\* A run only moves on, and keeps the outcome it was closed with for ever.
THEOREM RunsOnlyAdvanceHolds == Spec => RunsOnlyAdvance
<1>1. ASSUME Inv, [Next]_vars, NEW r \in Runs
      PROVE  /\ Rank(status[r]) <= Rank(status'[r])
             /\ status[r] \in TerminalStatuses =>
                   status'[r] = status[r] /\ error'[r] = error[r]
  <2>1. Untouched(r) \/ Advances(r) \/ Closes(r)
    BY <1>1, OneRowMoves
  <2>2. Rank(status[r]) \in 0..4
    BY DEF Rank
  <2>3. CASE Untouched(r)
    BY <2>2, <2>3 DEF Untouched
  <2>4. CASE Advances(r) \/ Closes(r)
    BY <2>4 DEF Advances, Closes, Open, LockHoldingStatuses, TerminalStatuses, Rank
  <2>5. QED
    BY <2>1, <2>3, <2>4 DEF Untouched
<1>2. Inv /\ [Next]_vars =>
        [\A r \in Runs :
            /\ Rank(status[r]) <= Rank(status'[r])
            /\ status[r] \in TerminalStatuses =>
                  status'[r] = status[r] /\ error'[r] = error[r]]_vars
  BY <1>1
<1>3. QED
  BY <1>2, Safety, PTL DEF Spec, RunsOnlyAdvance

\* The refinement mapping, named.
PhaseOf   == [r \in Runs |-> Phase(status[r])]
OutcomeOf == [r \in Runs |-> IF status[r] = "done" THEN "done" ELSE error[r]]

\* The mapping changes where the row does.
LEMMA MappedRow ==
  ASSUME NEW r \in Runs, \A s \in Runs \ {r} : Untouched(s)
  PROVE  /\ PhaseOf' = [PhaseOf EXCEPT ![r] = Phase(status'[r])]
         /\ OutcomeOf' = [OutcomeOf EXCEPT ![r] =
                             IF status'[r] = "done" THEN "done" ELSE error'[r]]
  BY DEF PhaseOf, OutcomeOf, Untouched

\* The four parties, whatever fails under them, implement the abstract service:
\* one run at a time, in order, closed once and for a reason fit for its stage.
THEOREM ServiceImplemented == Spec => ImplementsService
<1>1. Init => Service!Init
  BY DEF Init, Service!Init, Phase, LockHoldingStatuses
<1>2. ASSUME Inv, [Next]_vars
      PROVE  [Service!Next]_(Service!vars)
  <2> USE DEF Phase, Open, LockHoldingStatuses
  <2>1. CASE \A r \in Runs : Untouched(r)
    BY <2>1 DEF Service!vars, Untouched
  <2>2. ASSUME NEW r \in Runs, Advances(r), \A s \in Runs \ {r} : Untouched(s)
        PROVE  [Service!Next]_(Service!vars)
    <3>0. /\ PhaseOf' = [PhaseOf EXCEPT ![r] = Phase(status'[r])]
          /\ OutcomeOf' = OutcomeOf
      BY <2>2, MappedRow DEF Advances, OutcomeOf
    <3>1. CASE status[r] = "absent"
      <4>1. Service!Open(r)
        BY <2>2, <3>0, <3>1, Constants
           DEF Advances, Active, PhaseOf, OutcomeOf, Service!Open, Service!Occupying
      <4>2. QED
        BY <4>1 DEF Service!Next
    <3>2. CASE status[r] = "pending"
      <4>1. Service!Prepare(r)
        BY <2>2, <3>0, <3>2 DEF Advances, PhaseOf, OutcomeOf, Service!Prepare
      <4>2. QED
        BY <4>1 DEF Service!Next
    <3>3. CASE status[r] = "starting"
      <4>1. Service!Work(r)
        BY <2>2, <3>0, <3>3 DEF Advances, PhaseOf, OutcomeOf, Service!Work
      <4>2. QED
        BY <4>1 DEF Service!Next
    <3>4. CASE Open(r) /\ Open(r)'
      BY <2>2, <3>0, <3>4 DEF PhaseOf, OutcomeOf, Service!vars
    <3>5. QED
      BY <2>2, <3>1, <3>2, <3>3, <3>4 DEF Advances
  <2>3. ASSUME NEW r \in Runs, Closes(r), \A s \in Runs \ {r} : Untouched(s)
        PROVE  [Service!Next]_(Service!vars)
    <3>1. Service!Close(r)
      <4>1. /\ PhaseOf[r] = Phase(status[r]) /\ PhaseOf'[r] = Phase(status'[r])
            /\ OutcomeOf' = [OutcomeOf EXCEPT ![r] =
                                IF status'[r] = "done" THEN "done" ELSE error'[r]]
            /\ PhaseOf' = [PhaseOf EXCEPT ![r] = Phase(status'[r])]
        BY <2>3, MappedRow DEF PhaseOf
      <4>2. Phase(status[r]) \in Service!Occupying /\ Phase(status'[r]) = "closed"
        BY <2>3 DEF Closes, Service!Occupying
      <4>3. \E reason \in Service!Reasons(Phase(status[r])) :
               reason = IF status'[r] = "done" THEN "done" ELSE error'[r]
        BY <2>3 DEF Closes, Service!Reasons
      <4> HIDE DEF Phase, Open, LockHoldingStatuses
      <4>4. PICK reason \in Service!Reasons(PhaseOf[r]) :
                OutcomeOf' = [OutcomeOf EXCEPT ![r] = reason]
        BY <4>1, <4>3
      <4>5. /\ PhaseOf[r] \in Service!Occupying /\ PhaseOf'[r] = "closed"
            /\ PhaseOf' = [PhaseOf EXCEPT ![r] = "closed"]
        BY <4>1, <4>2
      <4>6. QED
        BY <4>4, <4>5 DEF PhaseOf, OutcomeOf, Service!Close
    <3>2. QED
      BY <3>1 DEF Service!Next
  <2>4. QED
    BY <1>2, <2>1, <2>2, <2>3, OneRowMoves
<1>3. QED
  BY <1>1, <1>2, Safety, PTL DEF Spec, ImplementsService, Service!Spec

-----------------------------------------------------------------------------
(* What a delivery takes up.                                               *)

\* Only a won claim makes a delivery an execution.
LEMMA ExecutionBegins ==
  ASSUME TypeOK, Bookkeeping, [Next]_vars, NEW w \in Workers,
         ~Executing(w), pc'[w] \notin {"idle", "claim"}
  PROVE  job'[w] = job[w] /\ job[w] \in Runs /\ status[job[w]] = "pending"
<1> USE ActorsAreDistinct DEF TypeOK, Executing
<1> DEFINE Goal == job'[w] = job[w] /\ job[w] \in Runs /\ status[job[w]] = "pending"
<1>1. ASSUME NEW a \in Actors, Reap(a) PROVE Goal
  BY <1>1 DEF Reap, ReapSelect, ReapOwner, ReapOwnerUnavailable, ReapClose
<1>2. ASSUME NEW h \in Starters \cup Pollers, Start(h) \/ Poll(h) \/ HandlerDies(h)
      PROVE  Goal
  BY <1>2 DEF Start, StartRequest, FindActive, Insert, Publish, PublishFails,
     FailUnpublished, Poll, HandlerDies
<1>3. ASSUME NEW v \in Workers, ClaimRun(v) PROVE Goal
  BY <1>3 DEF ClaimRun, ClaimFrom, Bookkeeping
<1>4. ASSUME NEW v \in Workers,
             AcquireLock(v) \/ AcquireUnavailable(v) \/ VerifyOwnership(v)
                \/ StartRunning(v) \/ ResetLimiter(v) \/ FinishEarly(v) \/ Release(v)
      PROVE  Goal
  BY <1>4 DEF AcquireLock, AcquireUnavailable, VerifyOwnership, StartRunning,
     ResetLimiter, FinishEarly, Release
<1>5. ASSUME NEW v \in Workers, Execute(v) PROVE Goal
  BY <1>5 DEF Execute, Begin, Check, SendRequest, ReserveUnavailable, Answer, LastAnswer,
     EnterWaiting, LeaveWaiting, Finish
<1>6. ASSUME NEW v \in Workers,
             Deliver(v) \/ HeartbeatFails(v) \/ DatabaseFails(v) \/ Crash(v) \/ Redeliver(v)
      PROVE  Goal
  BY <1>6 DEF Deliver, HeartbeatFails, DatabaseFails, Crash, Redeliver
<1>7. CASE LockExpires \/ UNCHANGED vars \/ \E r \in Runs : GraceElapses(r)
  BY <1>7 DEF LockExpires, GraceElapses, vars
<1>8. QED
  BY <1>1, <1>2, <1>3, <1>4, <1>5, <1>6, <1>7 DEF Next, Prepare

\* No run is executed twice, one after the other or side by side: a delivery that gets
\* past the claim (claim_run) takes up a run that left no trace.
THEOREM ExecutedOnceHolds == Spec => ExecutedOnce
<1> DEFINE Fresh(w) == /\ lock # job'[w] /\ job'[w] \notin requested
                       /\ \A v \in Workers : Executing(v) => job[v] # job'[w]
<1>1. Inv /\ [Next]_vars =>
        [\A w \in Workers : ~Executing(w) /\ Executing(w)' => Fresh(w)]_vars
  <2> SUFFICES ASSUME Inv, [Next]_vars, NEW w \in Workers, ~Executing(w), Executing(w)'
               PROVE  Fresh(w)
    OBVIOUS
  <2>1. job'[w] = job[w] /\ job[w] \in Runs /\ status[job[w]] = "pending"
    BY ExecutionBegins DEF Inv, Executing
  <2>2. ~Claimed(job[w]) /\ ~Open(job[w]) /\ ~Settled(job[w])
    BY <2>1 DEF Claimed, Open, Settled, LockHoldingStatuses, TerminalStatuses
  <2>3. lock # job[w]
    BY <2>1, <2>2, NoneIsNoRun DEF Inv, SlotFitsRows
  <2>4. job[w] \notin requested
    BY <2>2 DEF Inv, Reached
  <2>5. \A v \in Workers : Executing(v) => job[v] # job[w]
    BY <2>2 DEF Inv, RowFitsTask, RowFits
  <2>6. QED
    BY <2>1, <2>3, <2>4, <2>5
<1>2. QED
  BY <1>1, Safety, PTL DEF Spec, ExecutedOnce

-----------------------------------------------------------------------------
(* When requests do not overlap.                                           *)

\* From the look at the lock to the answer; a retry of the client comes back to
\* "cleared" without another look.
Requesting(w) == pc[w] \in {"cleared", "inflight"}

\* The lock does not run out under a request its owner has been cleared for.
SlotOutlivesRequests ==
    [][\A w \in Workers : Requesting(w) /\ lock = job[w] => ~LockExpires]_vars

RequestersOwn == \A w \in Workers : Requesting(w) => lock = job[w]

\* A request is begun by the check, or goes on.
LEMMA RequestingMoves ==
  ASSUME TypeOK, Bookkeeping, [Next]_vars, NEW w \in Workers, pc'[w] \in {"cleared", "inflight"}
  PROVE  /\ job'[w] = job[w]
         /\ Requesting(w) \/ (Check(w) /\ lock = job[w] /\ lock' = lock)
<1> USE ActorsAreDistinct DEF TypeOK, Requesting
<1> DEFINE Goal == /\ job'[w] = job[w]
                   /\ Requesting(w) \/ (Check(w) /\ lock = job[w] /\ lock' = lock)
<1>1. ASSUME NEW a \in Actors, Reap(a) PROVE Goal
  BY <1>1 DEF Reap, ReapSelect, ReapOwner, ReapOwnerUnavailable, ReapClose
<1>2. ASSUME NEW h \in Starters \cup Pollers, Start(h) \/ Poll(h) \/ HandlerDies(h)
      PROVE  Goal
  BY <1>2 DEF Start, StartRequest, FindActive, Insert, Publish, PublishFails,
     FailUnpublished, Poll, HandlerDies
<1>3. ASSUME NEW v \in Workers, Check(v) PROVE Goal
  BY <1>3 DEF Check
<1>4. ASSUME NEW v \in Workers, Prepare(v) PROVE Goal
  BY <1>4 DEF Prepare, ClaimRun, AcquireLock, AcquireUnavailable, VerifyOwnership,
     StartRunning, ResetLimiter, FinishEarly, Release
<1>5. ASSUME NEW v \in Workers,
             Begin(v) \/ SendRequest(v) \/ ReserveUnavailable(v) \/ Answer(v)
                \/ LastAnswer(v) \/ EnterWaiting(v) \/ LeaveWaiting(v) \/ Finish(v)
      PROVE  Goal
  BY <1>5 DEF Begin, SendRequest, ReserveUnavailable, Answer, LastAnswer, EnterWaiting,
     LeaveWaiting, Finish
<1>6. ASSUME NEW v \in Workers,
             Deliver(v) \/ HeartbeatFails(v) \/ DatabaseFails(v) \/ Crash(v) \/ Redeliver(v)
      PROVE  Goal
  BY <1>6 DEF Deliver, HeartbeatFails, DatabaseFails, Crash, Redeliver
<1>7. CASE LockExpires \/ UNCHANGED vars \/ \E r \in Runs : GraceElapses(r)
  BY <1>7 DEF LockExpires, GraceElapses, vars
<1>8. QED
  BY <1>1, <1>2, <1>3, <1>4, <1>5, <1>6, <1>7 DEF Next, Execute

\* External requests are never parallel, as README.md:94 says, as long as no lock runs
\* out under a request: a run that has the lock when it is cleared to ask keeps it then,
\* through retries, deliveries of its task, and other workers' acquires and releases.
THEOREM RequestsTakeTurns == Spec /\ SlotOutlivesRequests => []RequestsNeverParallel
<1>1. Init => RequestersOwn
  BY DEF Init, RequestersOwn, Requesting
<1>2. /\ Inv /\ RequestersOwn /\ [Next]_vars
      /\ [\A w \in Workers : /\ pc[w] \in RunnerSteps /\ lock = job[w] /\ lock' # lock
                            => LockExpires]_vars
      /\ [\A w \in Workers : Requesting(w) /\ lock = job[w] => ~LockExpires]_vars
      => RequestersOwn'
  <2> SUFFICES ASSUME Inv, RequestersOwn, [Next]_vars,
                      [\A w \in Workers : pc[w] \in RunnerSteps /\ lock = job[w] /\ lock' # lock
                          => LockExpires]_vars,
                      [\A w \in Workers : Requesting(w) /\ lock = job[w] => ~LockExpires]_vars,
                      NEW w \in Workers, pc'[w] \in {"cleared", "inflight"}
               PROVE  lock' = job'[w]
    BY DEF RequestersOwn, Requesting
  <2>1. /\ job'[w] = job[w]
        /\ Requesting(w) \/ (Check(w) /\ lock = job[w] /\ lock' = lock)
    BY RequestingMoves DEF Inv
  <2>2. CASE Requesting(w)
    <3>1. lock = job[w] /\ pc[w] \in RunnerSteps
      BY <2>2 DEF RequestersOwn, Requesting, RunnerSteps
    <3>2. lock' = lock
      BY <2>2, <3>1 DEF vars
    <3> QED
      BY <2>1, <3>1, <3>2
  <2>3. QED
    BY <2>1, <2>2
<1>3. Inv /\ RequestersOwn => RequestsNeverParallel
  BY DEF Inv, RequestersOwn, Requesting, OneExecutor, Executing, RequestsNeverParallel
<1>4. QED
  BY <1>1, <1>2, <1>3, Safety, SlotStaysHolds, PTL
     DEF Spec, SlotStaysWithItsRun, SlotOutlivesRequests

============================================================================
