-------------------------- MODULE RateLimiter_proofs --------------------------
(* The pace of requests, for any finite set of runs and any intervals. *)
EXTENDS RateLimiter, FiniteSetTheorems, TLAPS

N == Cardinality(Runs)

\* The interval that penalize() read is one it may double.
ReadIntervals ==
    \A r \in Runs : frame[r].pc = "set" => frame[r].current \in min_interval..max_interval

\* A pause that was taught an interval ends before the key that holds it does.
Taught(r) ==
    frame[r].learned # 0 =>
        /\ frame[r].pc = "pause"
        /\ interval.at = frame[r].learned
        /\ frame[r].wake < interval.until

\* The runs whose slot may still lie ahead of a moment, used or not.
Gone     == {"leave", "cleanup", "over"}
Ahead(T) == {r \in Runs : \/ frame[r].pc \in Gone
                          \/ frame[r].pc = "sleep" /\ frame[r].wake > T}

\* The next slot is no further from a moment than one interval for each of them.
Queue ==
    \A T \in Nat : T >= now =>
        NextAllowed <= T + (Cardinality(Ahead(T)) + 1) * max_interval

\* So it was when the key was written.
QueueAtWrite ==
    Live(next_allowed) => next_allowed.at + Ttl <= next_allowed.until + (N + 1) * max_interval

Inv == TypeOK /\ ReadIntervals /\ (\A r \in Runs : Taught(r)) /\ Queue /\ QueueAtWrite

-----------------------------------------------------------------------------
(* Counting.                                                               *)

USE PaceIsSensible, RunsAreFinite

LEMMA CountType == ASSUME NEW S \in SUBSET Runs
                   PROVE  IsFiniteSet(S) /\ Cardinality(S) \in Nat /\ Cardinality(S) <= N
  BY FS_Subset, FS_CardinalityType DEF N

LEMMA RunsCount == N \in Nat
  BY FS_CardinalityType DEF N

LEMMA CountOrder == ASSUME NEW S \in SUBSET Runs, NEW T \in SUBSET Runs, S \subseteq T
                    PROVE  Cardinality(S) <= Cardinality(T)
  BY CountType, FS_Subset

LEMMA CountAdd == ASSUME NEW S \in SUBSET Runs, NEW T \in SUBSET Runs, NEW r \in Runs,
                         r \notin S, S \cup {r} \subseteq T
                  PROVE  Cardinality(S) + 1 <= Cardinality(T)
  <1>1. Cardinality(S \cup {r}) = Cardinality(S) + 1
    BY CountType, FS_AddElement
  <1> QED
    BY <1>1, CountOrder

LEMMA CountGrow == ASSUME NEW S \in SUBSET Runs, NEW T \in SUBSET Runs, NEW r \in Runs,
                          T \subseteq S \cup {r}
                   PROVE  Cardinality(T) <= Cardinality(S) + 1
  <1>1. CASE r \in S
    BY <1>1, CountOrder, CountType
  <1>2. CASE r \notin S
    <2>1. Cardinality(S \cup {r}) = Cardinality(S) + 1
      BY <1>2, CountType, FS_AddElement
    <2> QED
      BY <2>1, CountOrder
  <1> QED
    BY <1>1, <1>2

\* The products of the bounds grow with what they count.
LEMMA TimesOrder == ASSUME NEW a \in Nat, NEW b \in Nat, NEW m \in Nat, a <= b
                    PROVE  a * m \in Nat /\ a * m <= b * m
  BY SMT
LEMMA TimesNext == ASSUME NEW a \in Nat, NEW m \in Nat
                   PROVE  (a + 1) * m = a * m + m /\ a * m \in Nat
  BY SMT

LEMMA TtlType == Ttl \in Nat /\ Ttl > max_retry_wait
  BY SMT DEF Ttl, Larger

-----------------------------------------------------------------------------
(* What a step keeps.                                                      *)

LEMMA NextAllowedType == TypeOK => NextAllowed \in Nat
  BY SMT DEF TypeOK, NextAllowed

\* The queue gets no longer when no run leaves the set of those that lengthen it.
LEMMA QueueKept ==
    ASSUME TypeOK, TypeOK', Queue, now' >= now,
           NextAllowed' <= NextAllowed,
           \A T \in Nat : T >= now' => Ahead(T) \subseteq Ahead(T)'
    PROVE  Queue'
  <1> SUFFICES ASSUME NEW T \in Nat, T >= now'
               PROVE  NextAllowed' <= T + (Cardinality(Ahead(T)') + 1) * max_interval
    BY Zenon DEF Queue
  <1>1. Ahead(T) \in SUBSET Runs /\ Ahead(T)' \in SUBSET Runs
    BY DEF Ahead
  <1>2. Cardinality(Ahead(T)) <= Cardinality(Ahead(T)')
    BY <1>1, CountOrder
  <1>3. Cardinality(Ahead(T)) \in Nat /\ Cardinality(Ahead(T)') \in Nat
    BY <1>1, CountType
  <1>4. (Cardinality(Ahead(T)) + 1) * max_interval
          <= (Cardinality(Ahead(T)') + 1) * max_interval
    BY <1>2, <1>3, TimesOrder, SMT
  <1>5. NextAllowed <= T + (Cardinality(Ahead(T)) + 1) * max_interval
    BY SMT DEF Queue, TypeOK
  <1>6. /\ (Cardinality(Ahead(T)) + 1) * max_interval \in Nat
        /\ (Cardinality(Ahead(T)') + 1) * max_interval \in Nat
    BY <1>3, TimesOrder, SMT
  <1>7. NextAllowed \in Nat /\ NextAllowed' \in Nat
    BY NextAllowedType, SMT DEF NextAllowed, TypeOK
  <1> HIDE DEF Ahead, NextAllowed
  <1> QED
    BY <1>4, <1>5, <1>6, <1>7, SMT

\* A run goes on by itself: the keys stay, and it gets to no sleep.
LEMMA QuietKeeps ==
    ASSUME Inv, NEW r \in Runs, NEW f \in Frames, Goes(r, f),
           UNCHANGED <<now, keys, history>>, owner' \in Runs \cup {NoRun},
           f.learned = 0, f.pc # "sleep", f.seen <= now,
           f.pc = "set" => f.current \in min_interval..max_interval,
           frame[r].pc \in Gone \cup {"sleep"} => f.pc \in Gone
    PROVE  Inv'
  <1>1. /\ now' = now /\ next_allowed' = next_allowed /\ interval' = interval
        /\ reset_at' = reset_at /\ sent' = sent
    BY DEF keys, history
  <1>2. /\ frame' \in [Runs -> Frames]
        /\ frame'[r] = f
        /\ \A s \in Runs : s # r => frame'[s] = frame[s]
    BY DEF Goes, Inv, TypeOK
  <1>3. NextAllowed' = NextAllowed /\ Interval' = Interval
    BY <1>1 DEF NextAllowed, Interval, Live
  <1>4. TypeOK'
    <2>1. \A s \in Runs : frame'[s].seen <= now'
      BY <1>1, <1>2 DEF Inv, TypeOK
    <2> QED
      BY <1>1, <1>2, <1>3, <2>1 DEF Inv, TypeOK
  <1>5. ReadIntervals'
    BY <1>2 DEF Inv, ReadIntervals
  <1>6. \A s \in Runs : Taught(s)'
    BY <1>1, <1>2 DEF Inv, Taught
  <1>7. Queue'
    <2>1. \A T \in Nat : T >= now' => Ahead(T) \subseteq Ahead(T)'
      BY <1>2 DEF Ahead, Gone
    <2>2. now' >= now /\ NextAllowed' <= NextAllowed
      BY <1>1, <1>3, NextAllowedType, SMT DEF Inv, TypeOK
    <2> QED
      BY <1>4, <2>1, <2>2, QueueKept DEF Inv
  <1>8. QueueAtWrite'
    BY <1>1 DEF Inv, QueueAtWrite, Live
  <1> QED
    BY <1>4, <1>5, <1>6, <1>7, <1>8 DEF Inv

\* The keys are cleared, by a run that is not pausing.
LEMMA DropKeeps ==
    ASSUME Inv, NEW r \in Runs, NEW place \in {"ready", "over"}, GoesAlone(r, At(place)),
           DropPenalty, UNCHANGED <<now, owner>>
    PROVE  Inv'
  <1>1. now' = now /\ owner' = owner /\ next_allowed' = NoKey /\ interval' = NoKey
        /\ reset_at' = now /\ sent' = 0
    BY DEF DropPenalty
  <1>2. /\ frame' \in [Runs -> Frames]
        /\ \A s \in Runs : frame'[s].learned = 0 /\ frame'[s].seen <= now
                           /\ (frame'[s].pc = "set" =>
                                 frame'[s].current \in min_interval..max_interval)
    <2> SUFFICES ASSUME NEW s \in Runs
                 PROVE  /\ frame'[s] \in Frames
                        /\ frame'[s].learned = 0 /\ frame'[s].seen <= now
                        /\ (frame'[s].pc = "set" =>
                              frame'[s].current \in min_interval..max_interval)
      BY DEF GoesAlone
    <2>1. CASE s = r
      BY <2>1, SMT DEF GoesAlone, At, Frames, Places, Inv, TypeOK
    <2>2. CASE s # r
      <3>1. frame[s] \in Frames /\ frame[s].seen <= now
            /\ (frame[s].pc = "set" => frame[s].current \in min_interval..max_interval)
        BY DEF Inv, TypeOK, ReadIntervals
      <3>2. frame'[s] = [frame[s] EXCEPT !.learned = 0]
        BY <2>2 DEF GoesAlone
      <3> QED
        BY <3>1, <3>2, SMT DEF Frames
    <2> QED
      BY <2>1, <2>2
  <1>3. NextAllowed' = 0 /\ Interval' = min_interval
    BY <1>1, SMT DEF NextAllowed, Interval, Live, NoKey, Inv, TypeOK
  <1>4. TypeOK'
    BY <1>1, <1>2, <1>3, SMT DEF Inv, TypeOK, NoKey
  <1>5. ReadIntervals' /\ \A s \in Runs : Taught(s)'
    BY <1>2 DEF ReadIntervals, Taught
  <1>6. Queue'
    <2> SUFFICES ASSUME NEW T \in Nat
                 PROVE  0 <= T + (Cardinality(Ahead(T)') + 1) * max_interval
      BY <1>3, Zenon DEF Queue
    <2>1. Cardinality(Ahead(T)') + 1 \in Nat
      BY CountType DEF Ahead
    <2> QED
      BY <2>1, TimesOrder, SMT
  <1>7. QueueAtWrite'
    BY <1>1, SMT DEF QueueAtWrite, Live, NoKey, Inv, TypeOK
  <1> QED
    BY <1>4, <1>5, <1>6, <1>7 DEF Inv

\* The slot, as reserve() hands it out.
LEMMA ReserveSteps ==
    ASSUME Inv, NEW r \in Runs, Reserve(r)
    PROVE  \E start, wake \in Nat :
              /\ start = Larger(frame[r].seen, NextAllowed)
              /\ start <= wake /\ now <= wake
              /\ Interval \in min_interval..max_interval
              /\ next_allowed' = [at |-> start + Interval, until |-> now + Ttl]
              /\ NextAllowed' = start + Interval
              /\ frame' \in [Runs -> Frames]
              /\ frame'[r] = [At("sleep") EXCEPT !.wake = wake]
              /\ \A s \in Runs : s # r => frame'[s] = frame[s]
              /\ frame[r].pc = "reserve" /\ frame[r].seen \in 0..now
              /\ UNCHANGED <<now, owner, interval, reset_at, sent>>
  <1> DEFINE start == Larger(frame[r].seen, NextAllowed)
             wake == SleepUntil(frame[r].seen, start)
  <1>1. frame[r].seen \in 0..now /\ NextAllowed \in Nat /\ now \in Nat
        /\ Interval \in min_interval..max_interval
    BY NextAllowedType, SMT DEF Inv, TypeOK, Frames
  <1> HIDE DEF NextAllowed, Interval
  <1>2. start \in Nat /\ wake \in Nat /\ start <= wake /\ now <= wake
    BY <1>1, SMT DEF Larger, SleepUntil
  <1>3. /\ next_allowed' = [at |-> start + Interval, until |-> now + Ttl]
        /\ Goes(r, [At("sleep") EXCEPT !.wake = wake])
        /\ UNCHANGED <<now, owner, interval, reset_at, sent>>
        /\ frame[r].pc = "reserve"
    BY Zenon DEF Reserve, AfterSlot, history
  <1> HIDE DEF start, wake
  <1>4. [At("sleep") EXCEPT !.wake = wake] \in Frames
    BY <1>2, SMT DEF At, Frames, Places
  <1>5. NextAllowed' = start + Interval
    BY <1>1, <1>3, TtlType, SMT DEF NextAllowed, Live
  <1>6. /\ frame' \in [Runs -> Frames]
        /\ frame'[r] = [At("sleep") EXCEPT !.wake = wake]
        /\ \A s \in Runs : s # r => frame'[s] = frame[s]
    BY <1>3, <1>4, Zenon DEF Goes, Inv, TypeOK
  <1> QED
    BY <1>1, <1>2, <1>3, <1>5, <1>6, Zenon DEF start

LEMMA ReserveKeeps ==
    ASSUME Inv, NEW r \in Runs, Reserve(r)
    PROVE  Inv'
  <1>1. PICK start \in Nat, wake \in Nat :
              /\ start = Larger(frame[r].seen, NextAllowed)
              /\ start <= wake /\ now <= wake
              /\ Interval \in min_interval..max_interval
              /\ next_allowed' = [at |-> start + Interval, until |-> now + Ttl]
              /\ NextAllowed' = start + Interval
              /\ frame' \in [Runs -> Frames]
              /\ frame'[r] = [At("sleep") EXCEPT !.wake = wake]
              /\ \A s \in Runs : s # r => frame'[s] = frame[s]
              /\ frame[r].pc = "reserve" /\ frame[r].seen \in 0..now
              /\ UNCHANGED <<now, owner, interval, reset_at, sent>>
    BY ReserveSteps
  <1>2. TypeOK'
    <2>1. next_allowed' \in [at : Nat, until : Nat]
      BY <1>1, TtlType, SMT DEF Inv, TypeOK
    <2>2. Interval' = Interval
      BY <1>1 DEF Interval, Live
    <2>3. \A s \in Runs : frame'[s].seen <= now'
      BY <1>1, SMT DEF At, Inv, TypeOK
    <2> QED
      BY <1>1, <2>1, <2>2, <2>3 DEF Inv, TypeOK
  <1>3. ReadIntervals' /\ \A s \in Runs : Taught(s)'
    BY <1>1 DEF At, Inv, ReadIntervals, Taught
  <1>4. Queue'
    <2> SUFFICES ASSUME NEW T \in Nat, T >= now
                 PROVE  NextAllowed' <= T + (Cardinality(Ahead(T)') + 1) * max_interval
      BY <1>1, Zenon DEF Queue
    <2> DEFINE c == Cardinality(Ahead(T))
               d == Cardinality(Ahead(T)')
    <2>1. Ahead(T) \in SUBSET Runs /\ Ahead(T)' \in SUBSET Runs
      BY DEF Ahead
    <2>2. c \in Nat /\ d \in Nat
      BY <2>1, CountType
    <2>3. NextAllowed <= T + (c + 1) * max_interval
      BY Zenon DEF Inv, Queue
    <2>4. NextAllowed \in Nat /\ now \in Nat
      BY NextAllowedType DEF Inv, TypeOK
    <2>5. (d + 1) * max_interval = d * max_interval + max_interval /\ d * max_interval \in Nat
      BY <2>2, TimesNext
    <2>6. CASE wake <= T
      <3> HIDE DEF NextAllowed, Interval, c, d
      <3> QED
        BY <1>1, <2>4, <2>5, <2>6, SMT DEF c, d
    <2>7. CASE wake > T
      <3>1. r \notin Ahead(T) /\ Ahead(T) \cup {r} \subseteq Ahead(T)'
        BY <1>1, <2>7, SMT DEF Ahead, Gone, At
      <3>2. c + 1 <= d
        BY <2>1, <3>1, CountAdd
      <3>3. (c + 1) * max_interval <= d * max_interval /\ (c + 1) * max_interval \in Nat
        BY <2>2, <3>2, TimesOrder
      <3> HIDE DEF NextAllowed, Interval, c, d
      <3>4. start <= T + (c + 1) * max_interval
        BY <1>1, <2>3, <2>4, <3>3, SMT DEF Larger
      <3>5. NextAllowed' <= T + (d + 1) * max_interval
        BY <1>1, <2>4, <2>5, <3>3, <3>4, SMT
      <3> QED
        BY <3>5 DEF c, d
    <2> QED
      BY <1>1, <2>6, <2>7, SMT
  <1>5. QueueAtWrite'
    <2> PICK T \in Nat : T = now
      BY DEF Inv, TypeOK
    <2>1. NextAllowed' <= T + (Cardinality(Ahead(T)') + 1) * max_interval
      BY <1>1, <1>4, SMT DEF Queue
    <2>2. Cardinality(Ahead(T)') \in Nat /\ Cardinality(Ahead(T)') <= N /\ N \in Nat
      BY CountType, RunsCount DEF Ahead
    <2>3. (Cardinality(Ahead(T)') + 1) * max_interval <= (N + 1) * max_interval
          /\ (N + 1) * max_interval \in Nat
          /\ (Cardinality(Ahead(T)') + 1) * max_interval \in Nat
      BY <2>2, TimesOrder, SMT
    <2>4. /\ next_allowed'.at = NextAllowed' /\ next_allowed'.until = now + Ttl
          /\ NextAllowed' \in Nat /\ now \in Nat
      BY <1>1, SMT DEF Inv, TypeOK
    <2> HIDE DEF NextAllowed, Ahead
    <2> QED
      BY <2>1, <2>3, <2>4, TtlType, SMT DEF QueueAtWrite
  <1> QED
    BY <1>2, <1>3, <1>4, <1>5 DEF Inv

LEMMA SendKeeps ==
    ASSUME Inv, NEW r \in Runs, Send(r)
    PROVE  Inv'
  <1>1. /\ now' = now /\ owner' = owner /\ next_allowed' = next_allowed
        /\ interval' = interval /\ reset_at' = reset_at /\ sent' = sent + 1
        /\ frame[r].pc = "sleep" /\ frame[r].wake <= now
    BY DEF Send, keys
  <1>2. At("inflight") \in Frames
    BY SMT DEF At, Frames, Places
  <1>3. /\ frame' \in [Runs -> Frames]
        /\ frame'[r] = At("inflight")
        /\ \A s \in Runs : s # r => frame'[s] = frame[s]
    BY <1>2 DEF Send, Goes, Inv, TypeOK
  <1>4. NextAllowed' = NextAllowed /\ Interval' = Interval
    BY <1>1 DEF NextAllowed, Interval, Live
  <1>5. TypeOK'
    <2>1. \A s \in Runs : frame'[s].seen <= now'
      BY <1>1, <1>3, SMT DEF At, Inv, TypeOK
    <2>2. sent' \in Nat
      BY <1>1, SMT DEF Inv, TypeOK
    <2> QED
      BY <1>1, <1>3, <1>4, <2>1, <2>2 DEF Inv, TypeOK
  <1>6. ReadIntervals' /\ \A s \in Runs : Taught(s)'
    BY <1>1, <1>3 DEF At, Inv, ReadIntervals, Taught
  <1>7. Queue'
    <2>1. \A T \in Nat : T >= now' => Ahead(T) \subseteq Ahead(T)'
      <3> SUFFICES ASSUME NEW T \in Nat, T >= now, NEW s \in Runs, s \in Ahead(T)
                   PROVE  s \in Ahead(T)'
        BY <1>1 DEF Ahead
      <3>1. s # r
        BY <1>1, SMT DEF Ahead, Gone, Inv, TypeOK, Frames
      <3> QED
        BY <1>3, <3>1 DEF Ahead
    <2>2. now' >= now /\ NextAllowed' <= NextAllowed
      BY <1>1, <1>4, NextAllowedType, SMT DEF Inv, TypeOK
    <2> QED
      BY <1>5, <2>1, <2>2, QueueKept DEF Inv
  <1>8. QueueAtWrite'
    BY <1>1 DEF Inv, QueueAtWrite, Live
  <1> QED
    BY <1>5, <1>6, <1>7, <1>8 DEF Inv

LEMMA PausedIs ==
    ASSUME NEW learned \in Nat, NEW delay \in 0..max_retry_wait, now \in Nat
    PROVE  /\ Paused(learned, delay) \in Frames
           /\ Paused(learned, delay).pc = "pause" /\ Paused(learned, delay).seen = 0
           /\ Paused(learned, delay).wake = now + delay
           /\ Paused(learned, delay).learned = learned
  <1>1. now + delay \in Nat
    BY SMT
  <1> QED
    BY <1>1 DEF Paused, Frames, Places

\* What penalize() sets, and what the pauses after it know of it.
LEMMA SetIntervalKeeps ==
    ASSUME Inv, NEW r \in Runs, SetInterval(r)
    PROVE  Inv'
  <1> DEFINE updated == Doubled(frame[r].current)
  <1>1. updated \in min_interval..max_interval /\ updated \in Nat
    BY SMT DEF SetInterval, Doubled, Smaller, Inv, ReadIntervals
  <1>2. PICK delay \in 0..max_retry_wait :
           /\ interval' = [at |-> updated, until |-> now + Ttl]
           /\ GoesAlone(r, Paused(updated, delay))
           /\ UNCHANGED <<now, owner, next_allowed, reset_at, sent>>
           /\ frame[r].pc = "set"
    BY Zenon DEF SetInterval, history
  <1> DEFINE f == Paused(updated, delay)
  <1> HIDE DEF updated
  <1>3. now \in Nat /\ now + Ttl \in Nat /\ now < now + Ttl /\ now + delay < now + Ttl
    BY TtlType, SMT DEF Inv, TypeOK
  <1>4. /\ f \in Frames /\ f.pc = "pause" /\ f.seen = 0
        /\ f.learned = updated /\ f.wake = now + delay
    BY <1>1, <1>3, PausedIs
  <1> HIDE DEF f
  <1>5. /\ frame' \in [Runs -> Frames]
        /\ frame'[r] = f
        /\ \A s \in Runs : s # r =>
              /\ frame'[s].learned = 0
              /\ frame'[s].pc = frame[s].pc /\ frame'[s].seen = frame[s].seen
              /\ frame'[s].wake = frame[s].wake /\ frame'[s].current = frame[s].current
    <2>1. frame'[r] = f /\ DOMAIN frame' = Runs /\ frame' = [s \in Runs |-> frame'[s]]
      BY <1>2, <1>4 DEF GoesAlone, f
    <2>2. ASSUME NEW s \in Runs, s # r
          PROVE  /\ frame'[s] \in Frames
                 /\ frame'[s].learned = 0
                 /\ frame'[s].pc = frame[s].pc /\ frame'[s].seen = frame[s].seen
                 /\ frame'[s].wake = frame[s].wake /\ frame'[s].current = frame[s].current
      <3>1. frame[s] \in Frames
        BY DEF Inv, TypeOK
      <3>2. frame'[s] = [frame[s] EXCEPT !.learned = 0]
        BY <1>2, <2>2 DEF GoesAlone
      <3> QED
        BY <3>1, <3>2, SMT DEF Frames
    <2>3. \A s \in Runs : frame'[s] \in Frames
      BY <1>4, <2>1, <2>2
    <2> QED
      BY <2>1, <2>2, <2>3
  <1>6. NextAllowed' = NextAllowed /\ Interval' = updated
    BY <1>2, <1>3, SMT DEF NextAllowed, Interval, Live
  <1>7. TypeOK'
    <2>1. \A s \in Runs : frame'[s].seen <= now'
      BY <1>2, <1>3, <1>4, <1>5, SMT DEF Inv, TypeOK
    <2>2. interval' \in [at : Nat, until : Nat]
      BY <1>1, <1>2, <1>3
    <2> QED
      BY <1>1, <1>2, <1>5, <1>6, <2>1, <2>2 DEF Inv, TypeOK
  <1>8. ReadIntervals'
    BY <1>4, <1>5 DEF Inv, ReadIntervals
  <1>9. \A s \in Runs : Taught(s)'
    <2>1. Taught(r)'
      BY <1>2, <1>3, <1>4, <1>5, SMT DEF Taught
    <2> QED
      BY <1>5, <2>1 DEF Taught
  <1>10. Queue'
    <2>1. \A T \in Nat : T >= now' => Ahead(T) \subseteq Ahead(T)'
      <3> SUFFICES ASSUME NEW T \in Nat, NEW s \in Ahead(T)
                   PROVE  s \in Ahead(T)'
        OBVIOUS
      <3>1. s \in Runs /\ s # r
        BY <1>2 DEF Ahead, Gone
      <3> QED
        BY <1>5, <3>1 DEF Ahead
    <2>2. now' >= now /\ NextAllowed' <= NextAllowed
      BY <1>2, <1>3, <1>6, NextAllowedType, SMT DEF Inv
    <2> QED
      BY <1>7, <2>1, <2>2, QueueKept DEF Inv
  <1>11. QueueAtWrite'
    BY <1>2 DEF Inv, QueueAtWrite, Live
  <1> QED
    BY <1>7, <1>8, <1>9, <1>10, <1>11 DEF Inv

LEMMA LoseLockKeeps == ASSUME Inv, LoseLock \/ UNCHANGED vars PROVE Inv'
  <1>1. UNCHANGED <<now, next_allowed, interval, frame, reset_at, sent>>
        /\ owner' \in Runs \cup {NoRun}
    BY DEF LoseLock, vars, keys, history, Inv, TypeOK
  <1>2. NextAllowed' = NextAllowed /\ Interval' = Interval
    BY <1>1 DEF NextAllowed, Interval, Live
  <1>3. TypeOK'
    BY <1>1, <1>2 DEF Inv, TypeOK
  <1>4. ReadIntervals' /\ (\A r \in Runs : Taught(r)') /\ QueueAtWrite'
    BY <1>1 DEF Inv, ReadIntervals, Taught, QueueAtWrite, Live
  <1>5. Queue'
    BY <1>1, <1>2 DEF Inv, Queue, Ahead
  <1> QED
    BY <1>3, <1>4, <1>5 DEF Inv

\* Time passes: a key may go, and nothing else changes.
LEMMA TickKeeps == ASSUME Inv, Tick PROVE Inv'
  <1>1. UNCHANGED <<owner, next_allowed, interval, frame, reset_at, sent>>
        /\ now' = now + 1 /\ now \in Nat /\ reset_at \in 0..now
    BY DEF Tick, keys, history, Inv, TypeOK
  <1>2. NextAllowed' <= NextAllowed /\ Interval' \in min_interval..max_interval
    BY <1>1, SMT DEF NextAllowed, Interval, Live, Inv, TypeOK
  <1>3. TypeOK'
    <2>1. reset_at' \in 0..now' /\ \A s \in Runs : frame'[s].seen <= now'
      BY <1>1, SMT DEF Inv, TypeOK, Frames
    <2> QED
      BY <1>1, <1>2, <2>1 DEF Inv, TypeOK
  <1>4. ReadIntervals' /\ \A s \in Runs : Taught(s)'
    BY <1>1 DEF Inv, ReadIntervals, Taught
  <1>5. Queue'
    <2>1. \A T \in Nat : T >= now' => Ahead(T) \subseteq Ahead(T)'
      BY <1>1 DEF Ahead
    <2>2. now' >= now
      BY <1>1, SMT
    <2> QED
      BY <1>2, <1>3, <2>1, <2>2, QueueKept DEF Inv
  <1>6. QueueAtWrite'
    BY <1>1, SMT DEF Inv, TypeOK, QueueAtWrite, Live
  <1> QED
    BY <1>3, <1>4, <1>5, <1>6 DEF Inv

-----------------------------------------------------------------------------
(* The steps of a run that leave the keys alone.                           *)

\* Nobody but a run that clears the keys, reserves, sends or sets the interval
\* changes more than its own place.
Quietly(r) ==
    \E f \in Frames :
        /\ Goes(r, f)
        /\ UNCHANGED <<now, keys, history>> /\ owner' \in Runs \cup {NoRun}
        /\ f.learned = 0 /\ f.pc # "sleep"
        /\ f.pc = "reserve" => f.seen = now
        /\ f.seen <= now
        /\ f.pc = "set" => f.current \in min_interval..max_interval
        /\ frame[r].pc \in Gone \cup {"sleep"} => f.pc \in Gone

Moves(r) ==
    \/ Start(r) \/ ResetFails(r) \/ EnsureOwned(r) \/ Ends(r) \/ Release(r) \/ Dies(r)
    \/ Answered(r) \/ Retry(r) \/ TooManyRequests(r) \/ Wake(r)
    \/ Goes(r, At("over")) /\ frame[r].pc = "cleanup" /\ UNCHANGED <<now, owner, keys, history>>

LEMMA MovesAreQuiet == ASSUME Inv, NEW r \in Runs, Moves(r) PROVE Quietly(r)
  <1>1. PICK place \in Places \ {"sleep", "reserve", "set"} :
           /\ Goes(r, At(place))
           /\ UNCHANGED <<now, keys, history>> /\ owner' \in Runs \cup {NoRun}
           /\ frame[r].pc \in Gone \cup {"sleep"} => place \in Gone
    BY Zenon DEF Moves, Start, ResetFails, EnsureOwned, Ends, Release, Dies, Answered, Retry,
           TooManyRequests, Wake, Released, Gone, Places, Working, Inv, TypeOK
  <1>2. At(place) \in Frames /\ At(place).learned = 0 /\ At(place).pc = place
        /\ At(place).seen = 0
    BY SMT DEF At, Frames
  <1>3. 0 <= now
    BY SMT DEF Inv, TypeOK
  <1> QED
    BY <1>1, <1>2, <1>3 DEF Quietly

LEMMA WaitsAreQuiet ==
    ASSUME Inv, NEW r \in Runs, ReadClock(r) \/ Forbidden(r) \/ ReadInterval(r)
    PROVE  Quietly(r)
  <1>0. now \in Nat /\ Interval \in Nat /\ Interval \in min_interval..max_interval
        /\ owner \in Runs \cup {NoRun}
    BY SMT DEF Inv, TypeOK
  <1>1. CASE ReadClock(r)
    <2> DEFINE f == [At("reserve") EXCEPT !.seen = now]
    <2>1. f \in Frames /\ f.learned = 0 /\ f.pc = "reserve" /\ f.seen = now
      BY <1>0, SMT DEF At, Frames, Places
    <2>2. Goes(r, f) /\ UNCHANGED <<now, owner, keys, history>> /\ frame[r].pc = "clock"
      BY <1>1 DEF ReadClock
    <2> HIDE DEF f
    <2> QED
      BY <1>0, <2>1, <2>2, SMT DEF Quietly, Gone
  <1>2. CASE Forbidden(r)
    <2>1. PICK delay \in 0..max_retry_wait : Goes(r, Paused(0, delay))
      BY <1>2 DEF Forbidden
    <2> DEFINE f == Paused(0, delay)
    <2>2. f \in Frames /\ f.learned = 0 /\ f.pc = "pause" /\ f.seen = 0
      BY <1>0, PausedIs
    <2>3. Goes(r, f) /\ UNCHANGED <<now, owner, keys, history>> /\ frame[r].pc = "inflight"
      BY <1>2, <2>1 DEF Forbidden
    <2> HIDE DEF f
    <2> QED
      BY <1>0, <2>2, <2>3, SMT DEF Quietly, Gone
  <1>3. CASE ReadInterval(r)
    <2> DEFINE f == [At("set") EXCEPT !.current = Interval]
    <2> HIDE DEF Interval
    <2>1. f \in Frames /\ f.learned = 0 /\ f.pc = "set" /\ f.seen = 0 /\ f.current = Interval
      BY <1>0, SMT DEF At, Frames, Places
    <2>2. Goes(r, f) /\ UNCHANGED <<now, owner, keys, history>> /\ frame[r].pc = "penalize"
      BY <1>3 DEF ReadInterval
    <2> HIDE DEF f
    <2> QED
      BY <1>0, <2>1, <2>2, SMT DEF Quietly, Gone
  <1> QED
    BY <1>1, <1>2, <1>3

\* The keys are cleared, before the run or after it.
Drops(r) ==
    /\ frame[r].pc \in {"reset", "cleanup"}
    /\ DropPenalty
    /\ \E place \in {"ready", "over"} : GoesAlone(r, At(place))
    /\ UNCHANGED <<now, owner>>

\* Every step is one of the kinds above.
LEMMA Steps ==
    ASSUME Inv, [Next]_vars
    PROVE  \/ \E r \in Runs : \/ Quietly(r) \/ Drops(r)
                              \/ Reserve(r) \/ Send(r) \/ SetInterval(r)
           \/ LoseLock \/ UNCHANGED vars \/ Tick
  <1> SUFFICES ASSUME NEW r \in Runs,
                      \/ Start(r) \/ Reset(r) \/ ResetFails(r) \/ EnsureOwned(r) \/ Ends(r)
                      \/ Release(r) \/ Cleanup(r) \/ Dies(r)
                      \/ ReadClock(r) \/ Answered(r) \/ Retry(r)
                      \/ Forbidden(r) \/ TooManyRequests(r) \/ ReadInterval(r) \/ Wake(r)
               PROVE  Quietly(r) \/ Drops(r)
    BY Zenon DEF Next
  <1>1. CASE Reset(r)
    BY <1>1 DEF Reset, Drops
  <1>2. CASE Cleanup(r)
    <2>1. CASE DropPenalty /\ GoesAlone(r, At("over"))
      BY <1>2, <2>1 DEF Cleanup, Drops
    <2>2. CASE UNCHANGED <<keys, history>> /\ Goes(r, At("over"))
      BY <1>2, <2>2, MovesAreQuiet, Zenon DEF Cleanup, Moves
    <2> QED
      BY <1>2, <2>1, <2>2 DEF Cleanup
  <1> QED
    BY <1>1, <1>2, MovesAreQuiet, WaitsAreQuiet, Zenon DEF Moves

LEMMA InvInit == Init => Inv
  <1> SUFFICES ASSUME Init PROVE Inv
    OBVIOUS
  <1>1. /\ now = 0 /\ owner = NoRun /\ next_allowed = NoKey /\ interval = NoKey
        /\ reset_at = 0 /\ sent = 0
        /\ \A r \in Runs : frame[r] = At("idle")
        /\ frame \in [Runs -> Frames]
    BY SMT DEF Init, At, Frames, Places
  <1>2. NextAllowed = 0 /\ Interval = min_interval /\ ~Live(next_allowed)
    BY <1>1, SMT DEF NextAllowed, Interval, Live, NoKey
  <1>3. TypeOK
    BY <1>1, <1>2, SMT DEF TypeOK, NoKey, At
  <1>4. ReadIntervals /\ (\A r \in Runs : Taught(r)) /\ QueueAtWrite
    BY <1>1, <1>2 DEF ReadIntervals, Taught, QueueAtWrite, At
  <1>5. Queue
    <2> SUFFICES ASSUME NEW T \in Nat
                 PROVE  0 <= T + (Cardinality(Ahead(T)) + 1) * max_interval
      BY <1>2, Zenon DEF Queue
    <2>1. Cardinality(Ahead(T)) + 1 \in Nat
      BY CountType DEF Ahead
    <2> QED
      BY <2>1, TimesOrder, SMT
  <1> QED
    BY <1>3, <1>4, <1>5 DEF Inv

LEMMA InvKept == Inv /\ [Next]_vars => Inv'
  <1> SUFFICES ASSUME Inv, [Next]_vars PROVE Inv'
    OBVIOUS
  <1>1. ASSUME NEW r \in Runs, Quietly(r) PROVE Inv'
    BY <1>1, QuietKeeps DEF Quietly
  <1>2. ASSUME NEW r \in Runs, Drops(r) PROVE Inv'
    BY <1>2, DropKeeps DEF Drops
  <1> QED
    BY <1>1, <1>2, Steps, ReserveKeeps, SendKeeps, SetIntervalKeeps, LoseLockKeeps, TickKeeps

THEOREM PaceInvariant == Spec => []Inv
  <1>1. Init => Inv
    BY InvInit
  <1>2. Inv /\ [Next]_vars => Inv'
    BY InvKept
  <1> QED
    BY <1>1, <1>2, PTL DEF Spec

\* The interval stays between its bounds, whoever doubles or clears it.
THEOREM PaceTyping == Spec => []TypeOK
  <1>1. Inv => TypeOK
    BY DEF Inv
  <1> QED
    BY <1>1, PaceInvariant, PTL

\* Slots are handed out no further ahead than one for each run, and one more.
THEOREM QueueIsShortHolds == Spec => []QueueIsShort
  <1>1. Inv => QueueIsShort
    <2> SUFFICES ASSUME Inv PROVE QueueIsShort
      OBVIOUS
    <2> PICK T \in Nat : T = now
      BY DEF Inv, TypeOK
    <2>1. NextAllowed <= T + (Cardinality(Ahead(T)) + 1) * max_interval
      BY SMT DEF Inv, Queue
    <2>2. Cardinality(Ahead(T)) \in Nat /\ Cardinality(Ahead(T)) <= N /\ N \in Nat
      BY CountType, RunsCount DEF Ahead
    <2>3. /\ (Cardinality(Ahead(T)) + 1) * max_interval <= (N + 1) * max_interval
          /\ (Cardinality(Ahead(T)) + 1) * max_interval \in Nat
          /\ (N + 1) * max_interval \in Nat
      BY <2>2, TimesOrder, SMT
    <2>4. NextAllowed \in Nat
      BY NextAllowedType DEF Inv
    <2> HIDE DEF NextAllowed, Ahead
    <2>5. NextAllowed <= T + (N + 1) * max_interval
      BY <2>1, <2>3, <2>4, SMT
    <2> QED
      BY <2>5 DEF QueueIsShort, N
  <1> QED
    BY <1>1, PaceInvariant, PTL

\* A pause never outlives the interval the 429 before it set.
THEOREM PaceSurvivesPauseHolds == Spec => []PaceSurvivesPause
  <1>1. Inv => PaceSurvivesPause
    <2> SUFFICES ASSUME Inv, NEW r \in Runs, frame[r].pc = "pause", now <= frame[r].wake
                 PROVE  Interval >= frame[r].learned
      BY DEF PaceSurvivesPause
    <2>1. frame[r].wake \in Nat /\ frame[r].learned \in Nat /\ Interval \in Nat
      BY SMT DEF Inv, TypeOK, Frames
    <2>2. CASE frame[r].learned = 0
      BY <2>1, <2>2, SMT
    <2>3. CASE frame[r].learned # 0
      <3>1. interval.at = frame[r].learned /\ frame[r].wake < interval.until
        BY <2>3 DEF Inv, Taught
      <3>2. Live(interval)
        BY <2>1, <3>1, SMT DEF Live, Inv, TypeOK
      <3> QED
        BY <2>1, <3>1, <3>2, SMT DEF Interval
    <2> QED
      BY <2>2, <2>3
  <1> QED
    BY <1>1, PaceInvariant, PTL

-----------------------------------------------------------------------------
(* The rate.  Slots are one interval apart while the key lives.  A run that *)
(* read the clock before the key was cleared or went may still reserve a    *)
(* slot in the past; there is one such slot for each run.  When the key     *)
(* goes, the time that has passed since pays for those.                     *)

\* No run sleeps beyond the moment.
Due(T) == {r \in Runs : frame[r].pc = "sleep" /\ frame[r].wake <= T}

\* The runs with a request to come that slots handed out later do not account for.
Early(b) == {r \in Runs : \/ frame[r].pc = "sleep"
                          \/ frame[r].pc = "reserve" /\ frame[r].seen < b}

\* The requests that may have gone out at a moment to come.
Paced ==
    \A T \in Nat : T >= now =>
        (sent + Cardinality(Due(T))) * min_interval + reset_at <= N * min_interval + T

\* The slots have been one interval apart since b, when the key was last absent.
Since(b) ==
    /\ reset_at <= b /\ b <= now
    /\ Live(next_allowed) => b + Ttl <= next_allowed.until
    /\ (sent + Cardinality(Early(b)) + 1) * min_interval + reset_at
          <= N * min_interval + Larger(b, NextAllowed)

Rate == Paced /\ (Runs # {} => \E b \in Nat : Since(b))

\* A key lives long enough for the slots that all the runs can hand out.
KeyOutlivesQueue == (N + 1) * max_interval + N * min_interval <= Ttl

LEMMA SetsOfRuns ==
    ASSUME NEW T
    PROVE  /\ Due(T) \in SUBSET Runs /\ Due(T)' \in SUBSET Runs
           /\ Early(T) \in SUBSET Runs /\ Early(T)' \in SUBSET Runs
  BY DEF Due, Early

\* A sum of requests, as the bounds multiply it.
LEMMA Fewer ==
    ASSUME NEW a \in Nat, NEW b \in Nat, NEW m \in Nat, NEW c \in Nat, NEW d \in Nat,
           a <= b, b * m + c <= d
    PROVE  a * m + c <= d
  <1>1. a * m <= b * m /\ a * m \in Nat /\ b * m \in Nat
    BY TimesOrder
  <1> QED
    BY <1>1, SMT

LEMMA RateFacts ==
    ASSUME TypeOK
    PROVE  now \in Nat /\ reset_at \in Nat /\ sent \in Nat /\ NextAllowed \in Nat
           /\ N * min_interval \in Nat
  BY NextAllowedType, RunsCount, TimesOrder, SMT DEF TypeOK

\* No run gets to a sleep or is left behind.
LEMMA RateKept ==
    ASSUME TypeOK, Rate, UNCHANGED <<now, next_allowed, reset_at, sent>>,
           \A T \in Nat : Due(T)' \subseteq Due(T),
           \A b \in Nat : b <= now => Early(b)' \subseteq Early(b)
    PROVE  Rate'
  <1>1. Paced'
    <2> SUFFICES ASSUME NEW T \in Nat, T >= now
                 PROVE  (sent + Cardinality(Due(T)')) * min_interval + reset_at
                          <= N * min_interval + T
      BY Zenon DEF Paced, N
    <2>1. Cardinality(Due(T)') <= Cardinality(Due(T))
          /\ Cardinality(Due(T)') \in Nat /\ Cardinality(Due(T)) \in Nat
      BY SetsOfRuns, CountOrder, CountType
    <2>2. (sent + Cardinality(Due(T))) * min_interval + reset_at <= N * min_interval + T
      BY DEF Rate, Paced
    <2> HIDE DEF Due, N
    <2> QED
      BY <2>1, <2>2, RateFacts, Fewer, SMT
  <1>2. ASSUME NEW b \in Nat, Since(b) PROVE Since(b)'
    <2>1. NextAllowed' = NextAllowed
      BY DEF NextAllowed, Live
    <2>2. Cardinality(Early(b)') <= Cardinality(Early(b))
          /\ Cardinality(Early(b)') \in Nat /\ Cardinality(Early(b)) \in Nat
      BY <1>2, SetsOfRuns, CountOrder, CountType DEF Since
    <2>3. Larger(b, NextAllowed) \in Nat
      BY RateFacts, SMT DEF Larger
    <2>4. (sent + Cardinality(Early(b)') + 1) * min_interval + reset_at
            <= N * min_interval + Larger(b, NextAllowed)
      <3> DEFINE fewer == sent + Cardinality(Early(b)') + 1
                 more  == sent + Cardinality(Early(b)) + 1
                 bound == N * min_interval + Larger(b, NextAllowed)
      <3> HIDE DEF Early, NextAllowed, N, Larger
      <3>1. more * min_interval + reset_at <= bound
        BY <1>2 DEF Since
      <3>2. fewer <= more /\ fewer \in Nat /\ more \in Nat /\ bound \in Nat
        BY <2>2, <2>3, RateFacts, SMT
      <3> HIDE DEF fewer, more, bound
      <3>3. fewer * min_interval + reset_at <= bound
        BY <3>1, <3>2, RateFacts, Fewer, SMT
      <3> QED
        BY <3>3 DEF fewer, bound
    <2> QED
      BY <1>2, <2>1, <2>4, Zenon DEF Since, Live, N
  <1> QED
    BY <1>1, <1>2 DEF Rate

LEMMA QuietRate ==
    ASSUME Inv, Rate, NEW r \in Runs, Quietly(r)
    PROVE  Rate'
  <1>1. PICK f \in Frames :
        /\ Goes(r, f)
        /\ UNCHANGED <<now, keys, history>>
        /\ f.pc # "sleep"
        /\ f.pc = "reserve" => f.seen = now
    BY DEF Quietly
  <1>2. /\ frame'[r] = f
        /\ \A s \in Runs : s # r => frame'[s] = frame[s]
    BY <1>1 DEF Goes, Inv, TypeOK
  <1>3. \A T \in Nat : Due(T)' \subseteq Due(T)
    BY <1>1, <1>2 DEF Due
  <1>4. \A b \in Nat : b <= now => Early(b)' \subseteq Early(b)
    <2>1. now \in Nat
      BY DEF Inv, TypeOK
    <2> QED
      BY <1>1, <1>2, <2>1, SMT DEF Early
  <1> QED
    BY <1>1, <1>3, <1>4, RateKept DEF Inv, keys, history

LEMMA SetIntervalRate ==
    ASSUME Inv, Rate, NEW r \in Runs, SetInterval(r)
    PROVE  Rate'
  <1>1. PICK f : GoesAlone(r, f) /\ f.pc = "pause"
    BY DEF SetInterval, Paused
  <1>2. UNCHANGED <<now, next_allowed, reset_at, sent>>
    BY DEF SetInterval, history
  <1>3. ASSUME NEW s \in Runs
        PROVE  \/ frame'[s].pc = "pause"
               \/ /\ frame'[s].pc = frame[s].pc /\ frame'[s].seen = frame[s].seen
                  /\ frame'[s].wake = frame[s].wake
    <2>1. CASE s = r
      BY <1>1, <2>1 DEF GoesAlone
    <2>2. CASE s # r
      <3>1. frame[s] \in Frames /\ frame'[s] = [frame[s] EXCEPT !.learned = 0]
        BY <1>1, <2>2 DEF GoesAlone, Inv, TypeOK
      <3> QED
        BY <3>1, SMT DEF Frames
    <2> QED
      BY <2>1, <2>2
  <1>4. \A T \in Nat : Due(T)' \subseteq Due(T)
    BY <1>3 DEF Due
  <1>5. \A b \in Nat : b <= now => Early(b)' \subseteq Early(b)
    BY <1>3 DEF Early
  <1> QED
    BY <1>2, <1>4, <1>5, RateKept DEF Inv

\* Cleared keys: every run but one may be left behind.
LEMMA DropRate ==
    ASSUME Inv, Rate, NEW r \in Runs, Drops(r)
    PROVE  Rate'
  <1>1. now' = now /\ next_allowed' = NoKey /\ reset_at' = now /\ sent' = 0
    BY DEF Drops, DropPenalty
  <1>2. NextAllowed' = 0 /\ ~Live(next_allowed)' /\ now \in Nat
    BY <1>1, SMT DEF NextAllowed, Live, NoKey, Inv, TypeOK
  <1>3. Paced'
    <2> SUFFICES ASSUME NEW T \in Nat, T >= now
                 PROVE  (0 + Cardinality(Due(T)')) * min_interval + now
                          <= N * min_interval + T
      BY <1>1, Zenon DEF Paced, N
    <2>1. Cardinality(Due(T)') \in Nat /\ Cardinality(Due(T)') <= N /\ N \in Nat
      BY SetsOfRuns, CountType, RunsCount
    <2>2. Cardinality(Due(T)') * min_interval <= N * min_interval
          /\ Cardinality(Due(T)') * min_interval \in Nat /\ N * min_interval \in Nat
      BY <2>1, TimesOrder
    <2> HIDE DEF Due, N
    <2> QED
      BY <1>2, <2>1, <2>2, SMT
  <1>4. PICK b \in Nat : b = now
    BY <1>2
  <1>5. Since(b)'
    <2>1. r \notin Early(b)' /\ Early(b)' \cup {r} \subseteq Runs
      <3>1. PICK place \in {"ready", "over"} : GoesAlone(r, At(place))
        BY DEF Drops
      <3>2. frame'[r].pc = place
        BY <3>1 DEF GoesAlone, At
      <3> QED
        BY <3>2 DEF Early
    <2>2. Cardinality(Early(b)') + 1 <= N /\ Cardinality(Early(b)') \in Nat
      BY <2>1, SetsOfRuns, CountAdd, CountType DEF N
    <2>3. (0 + Cardinality(Early(b)') + 1) * min_interval + now <= N * min_interval + b
      <3> DEFINE few == Cardinality(Early(b)') + 1
      <3>1. few \in Nat /\ few <= N
        BY <2>2, SMT
      <3> HIDE DEF few
      <3>2. few * min_interval <= N * min_interval /\ few * min_interval \in Nat
            /\ N * min_interval \in Nat
        BY <3>1, TimesOrder, RunsCount
      <3>3. 0 + Cardinality(Early(b)') + 1 = few
        BY <2>2, SMT DEF few
      <3> HIDE DEF Early, N
      <3> QED
        BY <1>2, <1>4, <3>2, <3>3, SMT
    <2>4. Larger(b, NextAllowed)' = b
      BY <1>2, SMT DEF Larger
    <2>5. b <= now
      BY <1>2, <1>4, SMT
    <2> QED
      BY <1>1, <1>2, <1>4, <2>3, <2>4, <2>5, Zenon DEF Since, N
  <1> QED
    BY <1>3, <1>5 DEF Rate

\* The request that was due has gone out.
LEMMA SendRate ==
    ASSUME Inv, Rate, NEW r \in Runs, Send(r)
    PROVE  Rate'
  <1>1. /\ now' = now /\ next_allowed' = next_allowed /\ reset_at' = reset_at
        /\ sent' = sent + 1
        /\ frame[r].pc = "sleep" /\ frame[r].wake <= now /\ frame[r].wake \in Nat
    BY DEF Send, keys, Inv, TypeOK, Frames
  <1>2. /\ frame'[r].pc = "inflight"
        /\ \A s \in Runs : s # r => frame'[s] = frame[s]
    BY DEF Send, Goes, At, Inv, TypeOK
  <1>3. TypeOK /\ sent \in Nat /\ now \in Nat
    BY DEF Inv, TypeOK
  <1>4. Paced'
    <2> SUFFICES ASSUME NEW T \in Nat, T >= now
                 PROVE  (sent + 1 + Cardinality(Due(T)')) * min_interval + reset_at
                          <= N * min_interval + T
      BY <1>1, Zenon DEF Paced, N
    <2>1. r \notin Due(T)' /\ Due(T)' \cup {r} \subseteq Due(T)
      BY <1>1, <1>2, <1>3, SMT DEF Due
    <2>2. Cardinality(Due(T)') + 1 <= Cardinality(Due(T))
          /\ Cardinality(Due(T)') \in Nat /\ Cardinality(Due(T)) \in Nat
      BY <2>1, SetsOfRuns, CountAdd, CountType
    <2> DEFINE fewer == sent + 1 + Cardinality(Due(T)')
               more  == sent + Cardinality(Due(T))
               bound == N * min_interval + T
    <2>3. more * min_interval + reset_at <= bound
      BY DEF Rate, Paced
    <2>4. fewer <= more /\ fewer \in Nat /\ more \in Nat /\ bound \in Nat
      BY <1>3, <2>2, RateFacts, SMT
    <2> HIDE DEF fewer, more, bound
    <2>5. fewer * min_interval + reset_at <= bound
      BY <1>3, <2>3, <2>4, RateFacts, Fewer, SMT
    <2> QED
      BY <2>5 DEF fewer, bound
  <1>5. ASSUME NEW b \in Nat, Since(b) PROVE Since(b)'
    <2>1. NextAllowed' = NextAllowed
      BY <1>1 DEF NextAllowed, Live
    <2>2. r \notin Early(b)' /\ Early(b)' \cup {r} \subseteq Early(b)
      BY <1>1, <1>2 DEF Early
    <2>3. Cardinality(Early(b)') + 1 <= Cardinality(Early(b))
          /\ Cardinality(Early(b)') \in Nat /\ Cardinality(Early(b)) \in Nat
      BY <2>2, SetsOfRuns, CountAdd, CountType
    <2>4. Larger(b, NextAllowed) \in Nat
      BY <1>3, RateFacts, SMT DEF Larger
    <2>5. (sent + 1 + Cardinality(Early(b)') + 1) * min_interval + reset_at
            <= N * min_interval + Larger(b, NextAllowed)
      <3> DEFINE fewer == sent + 1 + Cardinality(Early(b)') + 1
                 more  == sent + Cardinality(Early(b)) + 1
                 bound == N * min_interval + Larger(b, NextAllowed)
      <3> HIDE DEF Early, NextAllowed, N, Larger
      <3>1. more * min_interval + reset_at <= bound
        BY <1>5 DEF Since
      <3>2. fewer <= more /\ fewer \in Nat /\ more \in Nat /\ bound \in Nat
        BY <1>3, <2>3, <2>4, RateFacts, SMT
      <3> HIDE DEF fewer, more, bound
      <3>3. fewer * min_interval + reset_at <= bound
        BY <1>3, <3>1, <3>2, RateFacts, Fewer, SMT
      <3> QED
        BY <3>3 DEF fewer, bound
    <2> QED
      BY <1>1, <1>5, <2>1, <2>5, Zenon DEF Since, Live, N
  <1> QED
    BY <1>4, <1>5 DEF Rate

\* A slot follows the one before it, or takes the place of one left behind.
LEMMA ReserveRate ==
    ASSUME Inv, Rate, NEW r \in Runs, Reserve(r)
    PROVE  Rate'
  <1>1. PICK start \in Nat, wake \in Nat :
              /\ start = Larger(frame[r].seen, NextAllowed)
              /\ start <= wake /\ now <= wake
              /\ Interval \in min_interval..max_interval
              /\ next_allowed' = [at |-> start + Interval, until |-> now + Ttl]
              /\ NextAllowed' = start + Interval
              /\ frame' \in [Runs -> Frames]
              /\ frame'[r] = [At("sleep") EXCEPT !.wake = wake]
              /\ \A s \in Runs : s # r => frame'[s] = frame[s]
              /\ frame[r].pc = "reserve" /\ frame[r].seen \in 0..now
              /\ UNCHANGED <<now, owner, interval, reset_at, sent>>
    BY ReserveSteps
  <1>2. PICK b \in Nat : Since(b)
    BY DEF Rate
  <1>3. TypeOK /\ sent \in Nat /\ now \in Nat /\ NextAllowed \in Nat /\ Interval \in Nat
        /\ reset_at \in Nat /\ N * min_interval \in Nat
    BY <1>1, RateFacts, SMT DEF Inv
  <1>4. frame'[r].pc = "sleep" /\ frame'[r].wake = wake
    BY <1>1 DEF At
  <1> DEFINE early == Cardinality(Early(b))
             early_next == Cardinality(Early(b)')
             last == Larger(b, NextAllowed)
             next == Larger(b, start + Interval)
  <1>5. early \in Nat /\ early_next \in Nat
    BY SetsOfRuns, CountType
  <1>6. (sent + early + 1) * min_interval + reset_at <= N * min_interval + last
        /\ b <= now
    BY <1>2 DEF Since
  <1>7. last \in Nat /\ last <= wake /\ next \in Nat /\ last <= next
        /\ (frame[r].seen >= b => last + min_interval <= next)
    <2> HIDE DEF NextAllowed, Interval
    <2> QED
      BY <1>1, <1>3, <1>6, SMT DEF Larger
  <1>8. Paced'
    <2> SUFFICES ASSUME NEW T \in Nat, T >= now
                 PROVE  (sent + Cardinality(Due(T)')) * min_interval + reset_at
                          <= N * min_interval + T
      BY <1>1, Zenon DEF Paced, N
    <2> DEFINE due == Cardinality(Due(T)')
               bound == N * min_interval + T
               fewer == sent + due
    <2>1. due \in Nat /\ Cardinality(Due(T)) \in Nat
      BY SetsOfRuns, CountType
    <2>2. CASE T < wake
      <3>1. Due(T)' \subseteq Due(T)
        <4>1. ~(wake <= T)
          BY <2>2, SMT
        <4> QED
          BY <1>1, <1>4, <4>1, Zenon DEF Due
      <3>2. due <= Cardinality(Due(T))
        BY <3>1, SetsOfRuns, CountOrder
      <3> DEFINE more == sent + Cardinality(Due(T))
      <3>3. more * min_interval + reset_at <= bound
        BY DEF Rate, Paced
      <3>4. fewer <= more /\ fewer \in Nat /\ more \in Nat /\ bound \in Nat
        BY <1>3, <2>1, <3>2, SMT
      <3> HIDE DEF fewer, more, bound
      <3>5. fewer * min_interval + reset_at <= bound
        BY <1>3, <3>3, <3>4, Fewer, SMT
      <3> QED
        BY <3>5 DEF fewer, bound, due
    <2>3. CASE wake <= T
      <3>1. Due(T)' \subseteq Early(b) \cup {r}
        BY <1>1, <1>4 DEF Due, Early
      <3>2. due <= early + 1
        BY <3>1, SetsOfRuns, CountGrow
      <3> DEFINE more == sent + early + 1
      <3>3. more * min_interval + reset_at <= bound
        <4>1. last <= T
          BY <1>7, <2>3, SMT
        <4> HIDE DEF early, last, N
        <4>2. (sent + early + 1) * min_interval \in Nat
          BY <1>3, <1>5, TimesOrder, SMT
        <4> QED
          BY <1>3, <1>6, <1>7, <4>1, <4>2, SMT
      <3>4. fewer <= more /\ fewer \in Nat /\ more \in Nat /\ bound \in Nat
        BY <1>3, <1>5, <2>1, <3>2, SMT
      <3> HIDE DEF fewer, more, bound
      <3>5. fewer * min_interval + reset_at <= bound
        BY <1>3, <3>3, <3>4, Fewer, SMT
      <3> QED
        BY <3>5 DEF fewer, bound, due
    <2> QED
      BY <1>1, <1>3, <2>2, <2>3, SMT
  <1>9. Since(b)'
    <2>1. (sent + early_next + 1) * min_interval + reset_at <= N * min_interval + next
      <3>1. CASE frame[r].seen < b
        <4>1. Early(b)' = Early(b)
          BY <1>1, <1>4, <3>1 DEF Early
        <4> HIDE DEF early, last, next, N
        <4>2. (sent + early + 1) * min_interval \in Nat
          BY <1>3, <1>5, TimesOrder, SMT
        <4>3. (sent + early + 1) * min_interval + reset_at <= N * min_interval + next
          BY <1>3, <1>6, <1>7, <4>2, SMT
        <4> QED
          BY <4>1, <4>3 DEF early
      <3>2. CASE frame[r].seen >= b
        <4>1. Early(b)' \subseteq Early(b) \cup {r}
          BY <1>1 DEF Early
        <4>2. early_next <= early + 1
          BY <4>1, SetsOfRuns, CountGrow
        <4> DEFINE more == sent + early + 1
                   fewer == sent + early_next + 1
        <4> HIDE DEF early, early_next, last, next, N
        <4>3. more \in Nat /\ fewer \in Nat /\ fewer <= more + 1
          BY <1>3, <1>5, <4>2, SMT
        <4>4. more * min_interval + reset_at <= N * min_interval + last
          BY <1>6
        <4> HIDE DEF more, fewer
        <4>5. (more + 1) * min_interval = more * min_interval + min_interval
              /\ more * min_interval \in Nat
          BY <4>3, TimesNext
        <4>6. fewer * min_interval <= (more + 1) * min_interval /\ fewer * min_interval \in Nat
          BY <4>3, TimesOrder, SMT
        <4>7. last + min_interval <= next
          BY <1>7, <3>2
        <4>8. fewer * min_interval + reset_at <= N * min_interval + next
          BY <1>3, <1>7, <4>4, <4>5, <4>6, <4>7, SMT
        <4> QED
          BY <4>8 DEF fewer
      <3> QED
        BY <1>1, <3>1, <3>2, SMT
    <2>2. b + Ttl <= next_allowed'.until
      BY <1>1, <1>3, <1>6, TtlType, SMT
    <2>3. Larger(b, NextAllowed)' = next
      BY <1>1, Zenon DEF Larger
    <2> HIDE DEF next
    <2> QED
      BY <1>1, <1>2, <2>1, <2>2, <2>3, Zenon DEF Since, N
  <1> QED
    BY <1>8, <1>9 DEF Rate

\* While the key lives the slots go on from it; when it goes, what has been handed
\* out lies far enough back for every run to be left behind.
LEMMA TickRate ==
    ASSUME Inv, Rate, Tick, KeyOutlivesQueue
    PROVE  Rate'
  <1>1. UNCHANGED <<next_allowed, interval, frame, reset_at, sent>>
        /\ now' = now + 1 /\ now \in Nat
    BY DEF Tick, keys, history, Inv, TypeOK
  <1>2. Paced'
    <2> SUFFICES ASSUME NEW T \in Nat, T >= now + 1
                 PROVE  (sent + Cardinality(Due(T))) * min_interval + reset_at
                          <= N * min_interval + T
      BY <1>1, Zenon DEF Paced, N, Due
    <2>1. T >= now
      BY <1>1, SMT
    <2> QED
      BY <2>1 DEF Rate, Paced
  <1>3. ASSUME NEW b \in Nat, Since(b)
        PROVE  \E c \in Nat : Since(c)'
    <2> DEFINE last == Larger(b, NextAllowed)
               more == sent + Cardinality(Early(b)) + 1
    <2>0. sent \in Nat /\ reset_at \in Nat /\ NextAllowed \in Nat /\ N * min_interval \in Nat
          /\ Cardinality(Early(b)) \in Nat /\ last \in Nat /\ more \in Nat
      BY RateFacts, SetsOfRuns, CountType, SMT DEF Inv, Larger
    <2>1. more * min_interval + reset_at <= N * min_interval + last
      BY <1>3 DEF Since
    <2>2. reset_at <= b /\ b <= now
      BY <1>3 DEF Since
    <2>3. CASE Live(next_allowed)' \/ ~Live(next_allowed)
      <3>1. Early(b)' = Early(b)
        BY <1>1 DEF Early
      <3>2. NextAllowed' = NextAllowed
        BY <1>1, <2>3, SMT DEF NextAllowed, Live, Inv, TypeOK
      <3>3. Live(next_allowed)' => Live(next_allowed)
        BY <1>1, SMT DEF Live, Inv, TypeOK
      <3>4. b <= now'
        BY <1>1, <2>2, SMT
      <3> QED
        BY <1>1, <1>3, <3>1, <3>2, <3>3, <3>4, Zenon DEF Since, Larger, N
    <2>4. CASE ~Live(next_allowed)' /\ Live(next_allowed)
      <3>1. PICK c \in Nat : c = now + 1
        BY <1>1
      <3>2. /\ NextAllowed = next_allowed.at /\ next_allowed.until <= c
            /\ next_allowed.until \in Nat /\ next_allowed.at \in Nat
        BY <1>1, <2>4, <3>1, SMT DEF Live, NextAllowed, Inv, TypeOK
      <3>3. last + N * min_interval <= c
        <4>1. b + Ttl <= next_allowed.until
          BY <1>3, <2>4 DEF Since
        <4>2. next_allowed.at + Ttl <= next_allowed.until + (N + 1) * max_interval
          BY <2>4 DEF Inv, QueueAtWrite
        <4>3. (N + 1) * max_interval \in Nat
          BY RunsCount, TimesOrder, SMT
        <4>4. NextAllowed + N * min_interval <= c /\ b + N * min_interval <= c
          <5> HIDE DEF NextAllowed, N
          <5> QED
            BY <2>0, <3>2, <4>1, <4>2, <4>3, TtlType, SMT DEF KeyOutlivesQueue
        <4> QED
          BY <4>4 DEF Larger
      <3> DEFINE early == Cardinality(Early(c)')
                 fewer == sent + early + 1
      <3>4. early \in Nat /\ early <= N /\ N \in Nat
        BY SetsOfRuns, CountType, RunsCount
      <3>5. fewer \in Nat /\ fewer <= more + N /\ more + N \in Nat
        <4> HIDE DEF early, N
        <4> QED
          BY <2>0, <3>4, SMT
      <3> HIDE DEF fewer, more, last
      <3>6. (more + N) * min_interval = more * min_interval + N * min_interval
            /\ more * min_interval \in Nat
        BY <2>0, <3>4, SMT
      <3>7. fewer * min_interval <= (more + N) * min_interval /\ fewer * min_interval \in Nat
        BY <3>5, TimesOrder
      <3>8. fewer * min_interval + reset_at <= N * min_interval + c
        <4> HIDE DEF N
        <4> QED
          BY <2>0, <2>1, <3>3, <3>6, <3>7, SMT
      <3>9. NextAllowed' = 0
        BY <2>4, Zenon DEF NextAllowed
      <3>10. Larger(c, NextAllowed)' = c /\ reset_at <= c
        BY <1>1, <2>0, <2>2, <3>1, <3>9, SMT DEF Larger
      <3>11. Since(c)'
        <4> HIDE DEF NextAllowed
        <4>1. c <= now'
          BY <1>1, <3>1, SMT
        <4> QED
          BY <1>1, <2>4, <3>8, <3>10, <4>1, Zenon DEF Since, fewer, N
      <3> QED
        BY <3>11
    <2> QED
      BY <2>3, <2>4
  <1> QED
    BY <1>2, <1>3 DEF Rate

LEMMA RateInit == Init => Rate
  <1> SUFFICES ASSUME Init PROVE Rate
    OBVIOUS
  <1>1. /\ now = 0 /\ next_allowed = NoKey /\ reset_at = 0 /\ sent = 0
        /\ \A r \in Runs : frame[r].pc = "idle"
    BY DEF Init, At
  <1>2. NextAllowed = 0 /\ ~Live(next_allowed)
    BY <1>1, SMT DEF NextAllowed, Live, NoKey
  <1>3. Paced
    <2> SUFFICES ASSUME NEW T \in Nat
                 PROVE  (0 + Cardinality(Due(T))) * min_interval + 0 <= N * min_interval + T
      BY <1>1, Zenon DEF Paced
    <2>1. Due(T) = {}
      BY <1>1 DEF Due
    <2>2. Cardinality(Due(T)) = 0
      BY <2>1, FS_EmptySet
    <2>3. N * min_interval \in Nat
      BY RunsCount, TimesOrder
    <2> HIDE DEF N, Due
    <2> QED
      BY <2>2, <2>3, SMT
  <1>4. ASSUME NEW r \in Runs PROVE Since(0)
    <2>1. Early(0) = {}
      BY <1>1 DEF Early
    <2>2. Cardinality(Early(0)) = 0 /\ Cardinality({}) = 0
      BY <2>1, FS_EmptySet
    <2>3. 1 <= N /\ N \in Nat
      BY <2>2, CountAdd, RunsCount, SMT DEF N
    <2>4. min_interval <= N * min_interval /\ N * min_interval \in Nat
      BY <2>3, TimesOrder, SMT
    <2> HIDE DEF N, Early
    <2>5. (0 + 0 + 1) * min_interval + 0 <= N * min_interval + 0
      BY <2>4, SMT
    <2> QED
      BY <1>1, <1>2, <2>2, <2>5, SMT DEF Since, Larger
  <1> QED
    BY <1>3, <1>4 DEF Rate

\* What the multiplied bound says of the quotient.
LEMMA Quotient ==
    ASSUME NEW s \in Nat, NEW n \in Nat, NEW x \in Nat, NEW m \in Nat \ {0},
           s * m <= n * m + x
    PROVE  s <= n + x \div m
  <1> DEFINE q == x \div m
  <1>1. q \in Nat /\ x < q * m + m
    BY SMT
  <1> HIDE DEF q
  <1>2. (n + q + 1) * m = n * m + q * m + m
    BY <1>1, SMT
  <1>3. s * m < (n + q + 1) * m
    BY <1>1, <1>2, SMT
  <1>4. s < n + q + 1
    <2> SUFFICES ASSUME n + q + 1 <= s PROVE FALSE
      BY <1>1, SMT
    <2>1. (n + q + 1) * m <= s * m /\ (n + q + 1) * m \in Nat
      BY <1>1, TimesOrder, SMT
    <2>2. s * m \in Nat
      BY TimesOrder
    <2> QED
      BY <1>3, <2>1, <2>2, SMT
  <1>5. s <= n + q
    BY <1>1, <1>4, SMT
  <1> QED
    BY <1>5 DEF q

\* No more requests than one per interval since the keys were cleared and one for
\* each run, while a key outlives the slots that it can be ahead.
THEOREM RateIsBoundedHolds == KeyOutlivesQueue => (Spec => []RateIsBounded)
  <1> SUFFICES ASSUME KeyOutlivesQueue PROVE Spec => []RateIsBounded
    OBVIOUS
  <1>1. Init => Rate
    BY RateInit
  <1>2. Inv /\ Rate /\ [Next]_vars => Rate'
    <2> SUFFICES ASSUME Inv, Rate, [Next]_vars PROVE Rate'
      OBVIOUS
    <2>1. CASE LoseLock \/ UNCHANGED vars
      <3>1. UNCHANGED <<now, next_allowed, reset_at, sent, frame>>
        BY <2>1 DEF LoseLock, vars, keys, history
      <3> QED
        BY <3>1, RateKept DEF Inv, Due, Early
    <2> QED
      BY <2>1, Steps, QuietRate, DropRate, ReserveRate, SendRate, SetIntervalRate, TickRate
  <1>3. Inv /\ Rate => RateIsBounded
    <2> SUFFICES ASSUME Inv, Rate PROVE RateIsBounded
      OBVIOUS
    <2>1. PICK T \in Nat : T = now
      BY DEF Inv, TypeOK
    <2>2. (sent + Cardinality(Due(T))) * min_interval + reset_at <= N * min_interval + T
      BY <2>1, SMT DEF Rate, Paced
    <2>3. sent \in Nat /\ Cardinality(Due(T)) \in Nat /\ N \in Nat /\ N * min_interval \in Nat
          /\ reset_at \in Nat /\ reset_at <= now
      BY RateFacts, SetsOfRuns, CountType, RunsCount, SMT DEF Inv, TypeOK
    <2>4. sent <= sent + Cardinality(Due(T)) /\ sent + Cardinality(Due(T)) \in Nat
      BY <2>3, SMT
    <2>5. sent * min_interval + reset_at <= N * min_interval + T
      <3>1. N * min_interval + T \in Nat
        BY <2>3, SMT
      <3> QED
        BY <2>2, <2>3, <2>4, <3>1, Fewer, SMT
    <2>6. T - reset_at \in Nat
      BY <2>1, <2>3, SMT
    <2>7. sent * min_interval <= N * min_interval + (T - reset_at)
      <3>1. sent * min_interval \in Nat
        BY <2>3, TimesOrder
      <3> HIDE DEF N
      <3> QED
        BY <2>1, <2>3, <2>5, <3>1, SMT
    <2>8. sent <= N + (T - reset_at) \div min_interval
      BY <2>3, <2>6, <2>7, Quotient
    <2> QED
      BY <2>1, <2>8 DEF RateIsBounded, N
  <1> QED
    BY <1>1, <1>2, <1>3, PaceInvariant, PTL DEF Spec

=============================================================================
