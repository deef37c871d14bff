------------------------- MODULE DownloadScreen_proofs -------------------------
(* The download page, for any number of runs and of polls under way. *)
EXTENDS DownloadScreen, LatestRow, TLAPS

USE LastRunIsNumber DEF Runs, NoRun

\* The service names a run, or none.
LEMMA CurrentRunType ==
    ASSUME status \in [Runs -> Statuses]
    PROVE  CurrentRun \in Answers
  <1>1. Created \in SUBSET (1..LastRun)
    BY DEF Created
  <1>2. CASE Created = {}
    BY <1>2 DEF CurrentRun, NoAnswer, Answers, Statuses
  <1>3. CASE Created # {}
    <2> DEFINE Named(r) == \/ status[r] = "active"
                           \/ \A s \in Created : status[s] # "active" /\ s <= r
               named == CHOOSE r \in Created : Named(r)
    <2>1. \E r \in Created : Named(r)
      <3>1. CASE \E r \in Created : status[r] = "active"
        BY <3>1
      <3>2. CASE \A r \in Created : status[r] # "active"
        BY <1>1, <1>3, <3>2, LatestExists
      <3> QED
        BY <3>1, <3>2
    <2> HIDE DEF Named
    <2>2. named \in Created
      BY <2>1, Zenon
    <2>3. CurrentRun = [run |-> named, status |-> status[named]]
      BY <1>3, Zenon DEF CurrentRun, Named
    <2> HIDE DEF named
    <2>4. named \in Runs /\ status[named] \in Statuses
      BY <1>1, <2>2
    <2> QED
      BY <2>3, <2>4 DEF Answers
  <1> QED
    BY <1>2, <1>3

LEMMA NothingIsTyped ==
    /\ NoAnswer \in Answers
    /\ Free \in [at : {"free", "sent", "answered"}, answer : Answers]
    /\ NoStart \in [at : {"idle", "sent", "created"}, run : Runs \cup {NoRun}]
    /\ NoStart.at = "idle"
  BY DEF NoAnswer, Answers, Statuses, Free, NoStart

LEMMA TypesInit == Init => TypeOK
  BY NothingIsTyped DEF Init, TypeOK, Statuses

LEMMA TypesKept ==
    ASSUME TypeOK, [Next]_vars
    PROVE  TypeOK'
  <1> USE NothingIsTyped
  <1>1. ASSUME NEW r \in Runs, OpenedElsewhere(r) PROVE TypeOK'
    BY <1>1 DEF TypeOK, OpenedElsewhere, Open, Statuses
  <1>2. ASSUME NEW r \in Runs, Close(r) PROVE TypeOK'
    BY <1>2 DEF TypeOK, Close, Statuses
  <1>3. ASSUME NEW r \in Runs, StartCreates(r) PROVE TypeOK'
    <2>1. post'.at = "created" /\ post' \in [at : {"idle", "sent", "created"}, run : Runs \cup {NoRun}]
      BY <1>3 DEF StartCreates
    <2>2. starting /\ post' # NoStart
      BY <1>3, <2>1 DEF TypeOK, StartCreates
    <2> QED
      BY <1>3, <2>1, <2>2 DEF TypeOK, StartCreates, Open, Statuses
  <1>4. CASE PressStart
    <2>1. post'.at = "sent" /\ post' \in [at : {"idle", "sent", "created"}, run : Runs \cup {NoRun}]
      BY <1>4 DEF TypeOK, PressStart
    <2> QED
      BY <1>4, <2>1 DEF TypeOK, PressStart
  <1>5. ASSUME NEW answer \in Answers, Draw(answer) PROVE shown' \in Answers /\ enabled' \in BOOLEAN
                                                          /\ (enabled' => ~starting)
    BY <1>5 DEF Draw, Offered
  <1>6. CASE StartAnswered
    <2>1. [run |-> post.run, status |-> "active"] \in Answers
      BY DEF TypeOK, Answers, Statuses
    <2> QED
      BY <1>5, <1>6, <2>1 DEF TypeOK, StartAnswered, StartOver
  <1>7. CASE StartFailed
    BY <1>7 DEF TypeOK, StartFailed, StartOver
  <1>8. ASSUME NEW p \in Polls, SendPoll(p) PROVE TypeOK'
    BY <1>8 DEF TypeOK, SendPoll, PollGoes
  <1>9. ASSUME NEW p \in Polls, ReadRow(p) PROVE TypeOK'
    BY <1>9, CurrentRunType DEF TypeOK, ReadRow, PollGoes
  <1>10. ASSUME NEW p \in Polls, PollAnswered(p) PROVE TypeOK'
    <2>1. poll[p].answer \in Answers
      BY DEF TypeOK
    <2> QED
      BY <1>5, <1>10, <2>1 DEF TypeOK, PollAnswered, Rescheduled
  <1>11. ASSUME NEW p \in Polls, PollFailed(p) PROVE TypeOK'
    BY <1>11 DEF TypeOK, PollFailed, AfterFailure
  <1>12. CASE UNCHANGED vars
    BY <1>12 DEF TypeOK, vars
  <1> QED
    BY <1>1, <1>2, <1>3, <1>4, <1>6, <1>7, <1>8, <1>9, <1>10, <1>11, <1>12 DEF Next

\* The button is never offered while a start is under way, and answers name runs.
THEOREM PageTyping == Spec => []TypeOK
  <1> QED
    BY TypesInit, TypesKept, PTL DEF Spec

\* There is always something that leads to the next poll.
THEOREM PollingHolds == Spec => []PollingNeverStops
  <1>1. Init => PollingNeverStops
    BY DEF Init, PollingNeverStops
  <1>2. TypeOK /\ PollingNeverStops /\ [Next]_vars => PollingNeverStops'
    <2> SUFFICES ASSUME TypeOK, PollingNeverStops, [Next]_vars PROVE PollingNeverStops'
      OBVIOUS
    <2>1. ASSUME UNCHANGED <<timer, starting, poll>> PROVE PollingNeverStops'
      BY <2>1 DEF PollingNeverStops
    <2>2. ASSUME timer' PROVE PollingNeverStops'
      BY <2>2 DEF PollingNeverStops
    <2>3. ASSUME NEW r \in Runs, OpenedElsewhere(r) \/ Close(r) \/ StartCreates(r)
          PROVE  PollingNeverStops'
      BY <2>1, <2>3 DEF OpenedElsewhere, Close, StartCreates
    <2>4. CASE PressStart
      BY <2>4 DEF PressStart, PollingNeverStops
    <2>5. CASE StartAnswered \/ StartFailed
      BY <2>2, <2>5 DEF StartAnswered, StartFailed, StartOver
    <2>6. ASSUME NEW p \in Polls, SendPoll(p) \/ ReadRow(p) PROVE PollingNeverStops'
      <3>1. poll'[p].at \in {"sent", "answered"}
        BY <2>6 DEF SendPoll, ReadRow, PollGoes, TypeOK
      <3>2. poll'[p] # Free
        BY <3>1 DEF Free
      <3> QED
        BY <3>2 DEF PollingNeverStops, Free, NoAnswer
    <2>7. ASSUME NEW p \in Polls, PollAnswered(p) \/ PollFailed(p) PROVE PollingNeverStops'
      BY <2>2, <2>7 DEF PollAnswered, PollFailed, Rescheduled, AfterFailure
    <2>8. CASE UNCHANGED vars
      BY <2>1, <2>8 DEF vars
    <2> QED
      BY <2>3, <2>4, <2>5, <2>6, <2>7, <2>8 DEF Next
  <1> QED
    BY <1>1, <1>2, PageTyping, PTL DEF Spec

=============================================================================
