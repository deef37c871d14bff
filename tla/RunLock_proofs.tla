---------------------------- MODULE RunLock_proofs ----------------------------
(* The lock on a clock, for any number of tasks, any TTL, heartbeat and delay. *)
EXTENDS RunLock, TLAPS

\* Where a task stands tells what it has under way, and what is counted of it.
Shape(t) ==
    /\ at[t] = "idle" => leg[t] = "none" /\ owner # t
    /\ at[t] = "acquiring" => leg[t] \in {"script", "answer"} /\ sent[t] = "acquire"
    /\ at[t] \in {"idle", "acquiring"} => ~lost[t] /\ unaware[t] = 0
    /\ at[t] = "working" /\ leg[t] = "script" => sent[t] = "extend"
    /\ at[t] = "working" /\ leg[t] = "none" => lost[t]
    /\ at[t] \in {"idle", "over"} => leg[t] \in {"none", "script"}
    /\ leg[t] = "script" /\ sent[t] = "acquire" =>
          at[t] \in {"acquiring", "over"} /\ owner # t /\ abandoned[t] = 0
    /\ leg[t] \in {"script", "answer"} => wait[t] <= 0
    /\ at[t] # "over" => abandoned[t] = 0

\* The lifetime a key still has, by how far its owner is on the way to renew it.
Remaining(t) ==
    /\ at[t] = "acquiring" /\ leg[t] = "answer" /\ answer[t] =>
          owner = t /\ left >= Ttl + wait[t]
    /\ at[t] = "working" =>
          /\ owner = t /\ ~lost[t]
          /\ leg[t] = "sleep"  => left >= Ttl - Delay - Heartbeat + wait[t]
          /\ leg[t] = "script" => left >= Ttl - 2 * Delay - Heartbeat + wait[t]
          /\ leg[t] = "answer" => answer[t] /\ left >= Ttl + wait[t]

Keeps(t) ==
    Heartbeat + 3 * Delay < Ttl /\ ~flushed /\ ~disturbed[t] => Remaining(t)

\* For how long a task can have missed a loss, by how far it is on the way to notice it.
Missed(t) ==
    /\ leg[t] = "sleep"  => unaware[t] <= Delay + Heartbeat - wait[t]
    /\ leg[t] = "script" => unaware[t] <= 2 * Delay + Heartbeat - wait[t]
    /\ leg[t] = "answer" /\ ~answer[t] => unaware[t] <= 3 * Delay + Heartbeat - wait[t]
    /\ leg[t] = "answer" /\ answer[t] => unaware[t] <= -wait[t]

Notices(t) ==
    ~disturbed[t] =>
        /\ unaware[t] <= NoticeWithin
        /\ at[t] = "working" /\ ~lost[t] =>
              /\ owner = t => unaware[t] = 0
              /\ Missed(t)

\* A key that is left behind has what is left of one lifetime, unless a script is
\* still under way that gives it another one.
Leaves(t) ==
    ~disturbed[t] =>
        /\ abandoned[t] <= FreeWithin
        /\ at[t] = "over" /\ owner = t =>
              /\ leg[t] = "script" => abandoned[t] <= -wait[t]
              /\ leg[t] = "none" => abandoned[t] + left <= FreeWithin

Sound(t) == Shape(t) /\ Keeps(t) /\ Notices(t) /\ Leaves(t)

Inv == TypeOK /\ \A t \in Tasks : Sound(t)

-----------------------------------------------------------------------------
(* Types.                                                                  *)

USE HeartbeatAssumption, NoOneAssumption
USE DEF Goes, Awaits, Sends, clockVars, NoticeWithin, FreeWithin

\* The initial states have the types.
LEMMA InitTypes == Init => TypeOK
  <1> SUFFICES ASSUME Init PROVE TypeOK
    OBVIOUS
  <1>1. owner \in Tasks \cup {NoOne} /\ left \in 0..Ttl /\ (owner = NoOne <=> left = 0)
    BY SMT DEF Init
  <1>2. /\ wait \in [Tasks -> (-Delay)..Heartbeat]
        /\ unaware \in [Tasks -> 0..(NoticeWithin + 1)]
        /\ abandoned \in [Tasks -> 0..(FreeWithin + 1)]
    BY SMT DEF Init
  <1> QED
    BY <1>1, <1>2 DEF Init, TypeOK

LEMMA TaskTypes ==
    ASSUME TypeOK, NEW t \in Tasks,
           \/ Acquire(t) \/ Acquired(t) \/ Beat(t) \/ Extended(t) \/ RedisFails(t)
           \/ Refused(t) \/ Release(t) \/ Released(t) \/ Dies(t) \/ Disturb(t)
    PROVE  TypeOK'
  <1>1. CASE Acquire(t)
    BY <1>1, SMT DEF Acquire, TypeOK
  <1>2. CASE Acquired(t)
    BY <1>2, SMT DEF Acquired, Nap, TypeOK
  <1>3. CASE Beat(t)
    BY <1>3, SMT DEF Beat, TypeOK
  <1>4. CASE Extended(t)
    <2>1. /\ leg' \in [Tasks -> {"none", "script", "answer", "sleep"}]
          /\ wait' \in [Tasks -> (-Delay)..Heartbeat]
      BY <1>4, SMT DEF Extended, Nap, TypeOK
    <2>2. lost' \in [Tasks -> BOOLEAN]
      BY <1>4 DEF Extended, TypeOK
    <2> QED
      BY <1>4, <2>1, <2>2 DEF Extended, TypeOK
  <1>5. CASE RedisFails(t)
    BY <1>5, SMT DEF RedisFails, TypeOK
  <1>6. CASE Refused(t)
    BY <1>6, SMT DEF Refused, TypeOK
  <1>7. CASE Release(t)
    BY <1>7, SMT DEF Release, TypeOK
  <1>8. CASE Released(t)
    BY <1>8, SMT DEF Released, TypeOK
  <1>9. CASE Dies(t)
    BY <1>9, SMT DEF Dies, TypeOK
  <1>10. CASE Disturb(t)
    BY <1>10, SMT DEF Disturb, TypeOK
  <1> QED
    BY <1>1, <1>2, <1>3, <1>4, <1>5, <1>6, <1>7, <1>8, <1>9, <1>10

LEMMA ExecuteTypes ==
    ASSUME TypeOK, NEW t \in Tasks, Execute(t)
    PROVE  TypeOK'
  <1>1. Succeeds(t) \in BOOLEAN
    BY DEF Succeeds
  <1>2. answer' \in [Tasks -> BOOLEAN]
    BY <1>1 DEF Execute, TypeOK
  <1>3. owner' \in Tasks \cup {NoOne} /\ left' \in 0..Ttl /\ (owner' = NoOne <=> left' = 0)
    BY SMT DEF Execute, Lifetime, TypeOK
  <1>4. /\ leg' \in [Tasks -> {"none", "script", "answer", "sleep"}]
        /\ wait' \in [Tasks -> (-Delay)..Heartbeat]
    BY SMT DEF Execute, TypeOK
  <1> QED
    BY <1>2, <1>3, <1>4 DEF Execute, TypeOK

LEMMA TickTypes ==
    ASSUME TypeOK, Tick
    PROVE  TypeOK'
  <1>1. owner' \in Tasks \cup {NoOne} /\ left' \in 0..Ttl /\ (owner' = NoOne <=> left' = 0)
    BY SMT DEF Tick, TypeOK
  <1>2. wait' \in [Tasks -> (-Delay)..Heartbeat]
    BY SMT DEF Tick, TypeOK
  <1>3. unaware' \in [Tasks -> 0..(NoticeWithin + 1)]
    BY SMT DEF Tick, Longer, TypeOK
  <1>4. abandoned' \in [Tasks -> 0..(FreeWithin + 1)]
    BY SMT DEF Tick, Longer, TypeOK
  <1> QED
    BY <1>1, <1>2, <1>3, <1>4 DEF Tick, TypeOK

-----------------------------------------------------------------------------
(* The steps of one task.                                                  *)

\* What a step of another task leaves alone.
Same(x) ==
    /\ at'[x] = at[x] /\ sent'[x] = sent[x] /\ leg'[x] = leg[x] /\ answer'[x] = answer[x]
    /\ wait'[x] = wait[x] /\ lost'[x] = lost[x] /\ disturbed'[x] = disturbed[x]
    /\ unaware'[x] = unaware[x] /\ abandoned'[x] = abandoned[x]

\* Redis may work for others, as long as it leaves the key of this task alone.
LEMMA OthersKeep ==
    ASSUME NEW x \in Tasks, Sound(x), Same(x), flushed' = flushed,
           owner' = x <=> owner = x, owner = x => left' = left
    PROVE  Sound(x)'
  <1>1. Shape(x)'
    BY DEF Sound, Shape, Same
  <1>2. Keeps(x)'
    BY DEF Sound, Keeps, Remaining, Same
  <1>3. Notices(x)'
    BY DEF Sound, Notices, Missed, Same
  <1>4. Leaves(x)'
    BY DEF Sound, Leaves, Same
  <1> QED
    BY <1>1, <1>2, <1>3, <1>4 DEF Sound

LEMMA AcquireKeeps ==
    ASSUME TypeOK, NEW t \in Tasks, Sound(t), Acquire(t)
    PROVE  Sound(t)'
  <1>1. /\ at'[t] = "acquiring" /\ sent'[t] = "acquire" /\ leg'[t] = "script"
        /\ wait'[t] = 0 /\ owner' = owner /\ lost'[t] = lost[t]
        /\ disturbed' = disturbed /\ unaware' = unaware /\ abandoned' = abandoned
    BY SMT DEF Acquire, TypeOK
  <1>2. at[t] = "idle"
    BY DEF Acquire
  <1> QED
    BY <1>1, <1>2, SMT DEF Sound, Shape, Keeps, Remaining, Notices, Missed, Leaves, TypeOK

LEMMA AcquiredKeeps ==
    ASSUME TypeOK, NEW t \in Tasks, Sound(t), Acquired(t)
    PROVE  Sound(t)'
  <1>1. /\ at[t] = "acquiring" /\ leg[t] = "answer"
        /\ owner' = owner /\ left' = left /\ flushed' = flushed /\ lost' = lost
        /\ sent' = sent /\ answer' = answer
        /\ disturbed' = disturbed /\ unaware' = unaware /\ abandoned' = abandoned
    BY DEF Acquired
  <1>2. CASE answer[t]
    <2>1. at'[t] = "working" /\ leg'[t] = "sleep" /\ wait'[t] = Heartbeat
      BY <1>2, SMT DEF Acquired, Nap, TypeOK
    <2> QED
      BY <1>1, <1>2, <2>1, SMT
         DEF Sound, Shape, Keeps, Remaining, Notices, Missed, Leaves, TypeOK
  <1>3. CASE ~answer[t]
    <2>1. at'[t] = "over" /\ leg'[t] = "none" /\ wait'[t] = 0
      BY <1>3, SMT DEF Acquired, TypeOK
    <2> QED
      BY <1>1, <2>1, SMT
         DEF Sound, Shape, Keeps, Remaining, Notices, Missed, Leaves, TypeOK
  <1> QED
    BY <1>2, <1>3

LEMMA BeatKeeps ==
    ASSUME TypeOK, NEW t \in Tasks, Sound(t), Beat(t)
    PROVE  Sound(t)'
  <1>1. /\ at[t] = "working" /\ leg[t] = "sleep" /\ wait[t] <= 0
        /\ at'[t] = "working" /\ sent'[t] = "extend" /\ leg'[t] = "script" /\ wait'[t] = 0
        /\ owner' = owner /\ left' = left /\ flushed' = flushed /\ lost' = lost
        /\ disturbed' = disturbed /\ unaware' = unaware /\ abandoned' = abandoned
    BY SMT DEF Beat, TypeOK
  <1> QED
    BY <1>1, SMT DEF Sound, Shape, Keeps, Remaining, Notices, Missed, Leaves, TypeOK

LEMMA ExtendedKeeps ==
    ASSUME TypeOK, NEW t \in Tasks, Sound(t), Extended(t)
    PROVE  Sound(t)'
  <1>1. /\ at[t] = "working" /\ leg[t] = "answer"
        /\ at' = at /\ sent' = sent /\ answer' = answer
        /\ owner' = owner /\ left' = left /\ flushed' = flushed
        /\ disturbed' = disturbed /\ unaware' = unaware /\ abandoned' = abandoned
    BY DEF Extended
  <1>2. CASE answer[t]
    <2>1. leg'[t] = "sleep" /\ wait'[t] = Heartbeat /\ lost' = lost
      BY <1>2, SMT DEF Extended, IsOurs, Nap, TypeOK
    <2> QED
      BY <1>1, <1>2, <2>1, SMT
         DEF Sound, Shape, Keeps, Remaining, Notices, Missed, Leaves, TypeOK
  <1>3. CASE ~answer[t]
    <2>1. leg'[t] = "none" /\ wait'[t] = 0 /\ lost'[t]
      BY <1>3, SMT DEF Extended, IsOurs, TypeOK
    <2> QED
      BY <1>1, <1>3, <2>1, SMT
         DEF Sound, Shape, Keeps, Remaining, Notices, Missed, Leaves, TypeOK
  <1> QED
    BY <1>2, <1>3

\* After an error, and after a stall, only the shape is left to keep.
LEMMA RedisFailsKeeps ==
    ASSUME TypeOK, NEW t \in Tasks, Sound(t), RedisFails(t)
    PROVE  Sound(t)'
  <1>1. /\ at[t] = "working" /\ at' = at /\ sent' = sent /\ lost'[t] /\ disturbed'[t]
        /\ owner' = owner /\ left' = left /\ unaware' = unaware /\ abandoned' = abandoned
    BY SMT DEF RedisFails, TypeOK
  <1>2. \/ leg'[t] = leg[t] /\ wait'[t] = wait[t]
        \/ leg'[t] = "none"
    BY SMT DEF RedisFails, TypeOK
  <1> QED
    BY <1>1, <1>2, SMT DEF Sound, Shape, Keeps, Notices, Leaves, TypeOK

LEMMA DisturbKeeps ==
    ASSUME TypeOK, NEW t \in Tasks, Sound(t), Disturb(t)
    PROVE  Sound(t)'
  <1>1. disturbed'[t]
    BY SMT DEF Disturb, TypeOK
  <1> QED
    BY <1>1 DEF Disturb, Sound, Shape, Keeps, Notices, Leaves

LEMMA RefusedKeeps ==
    ASSUME TypeOK, NEW t \in Tasks, Sound(t), Refused(t)
    PROVE  Sound(t)'
  <1>1. lost'[t] /\ at[t] = "working" /\ owner # t
    BY SMT DEF Refused, TypeOK
  <1> QED
    BY <1>1 DEF Refused, Sound, Shape, Keeps, Remaining, Notices, Missed, Leaves

LEMMA ReleaseKeeps ==
    ASSUME TypeOK, NEW t \in Tasks, Sound(t), Release(t)
    PROVE  Sound(t)'
  <1>1. /\ at[t] = "working" /\ at'[t] = "releasing"
        /\ sent'[t] = "release" /\ leg'[t] = "script" /\ wait'[t] = 0
        /\ disturbed' = disturbed /\ unaware' = unaware /\ abandoned' = abandoned
    BY SMT DEF Release, TypeOK
  <1> QED
    BY <1>1, SMT DEF Sound, Shape, Keeps, Remaining, Notices, Missed, Leaves, TypeOK

LEMMA ReleasedKeeps ==
    ASSUME TypeOK, NEW t \in Tasks, Sound(t), Released(t)
    PROVE  Sound(t)'
  <1>1. /\ at[t] = "releasing" /\ at'[t] = "over" /\ leg'[t] = "none" /\ left' = left
        /\ disturbed' = disturbed /\ unaware' = unaware /\ abandoned' = abandoned
    BY SMT DEF Released, TypeOK
  <1> QED
    BY <1>1, SMT DEF Sound, Shape, Keeps, Remaining, Notices, Missed, Leaves, TypeOK

LEMMA DiesKeeps ==
    ASSUME TypeOK, NEW t \in Tasks, Sound(t), Dies(t)
    PROVE  Sound(t)'
  <1>1. /\ at[t] \notin {"idle", "over"} /\ at'[t] = "over"
        /\ owner' = owner /\ left' = left /\ sent' = sent
        /\ disturbed' = disturbed /\ unaware' = unaware /\ abandoned' = abandoned
    BY SMT DEF Dies, TypeOK
  <1>2. \/ leg[t] = "script" /\ leg'[t] = "script" /\ wait'[t] = wait[t]
        \/ leg'[t] = "none"
    BY SMT DEF Dies, TypeOK
  <1> QED
    BY <1>1, <1>2, SMT
       DEF Sound, Shape, Keeps, Remaining, Notices, Missed, Leaves, TypeOK

-----------------------------------------------------------------------------
(* Redis and time.                                                         *)

LEMMA ExecuteKeeps ==
    ASSUME TypeOK, NEW t \in Tasks, Sound(t), Execute(t)
    PROVE  Sound(t)'
  <1>1. /\ leg[t] = "script" /\ at' = at /\ sent' = sent /\ lost' = lost /\ wait'[t] = 0
        /\ leg'[t] = IF at[t] = "over" THEN "none" ELSE "answer"
        /\ flushed' = flushed /\ disturbed' = disturbed
        /\ unaware' = unaware /\ abandoned' = abandoned
    BY SMT DEF Execute, TypeOK
  <1>2. CASE Succeeds(t)
    <2>1. answer'[t]
      BY <1>2 DEF Execute, TypeOK
    <2>2. CASE sent[t] = "release"
      <3>1. owner' = NoOne /\ left' = 0
        BY <1>2, <2>2 DEF Execute
      <3>2. owner' # t
        BY <3>1
      <3>3. at[t] \in {"releasing", "over"}
        BY <1>1, <2>2 DEF Sound, Shape, TypeOK
      <3> QED
        BY <1>1, <2>1, <2>2, <3>2, <3>3, SMT
           DEF Sound, Shape, Keeps, Remaining, Notices, Missed, Leaves, TypeOK
    <2>3. CASE sent[t] # "release"
      <3>1. owner' = t /\ left' = Ttl
        BY <1>2, <2>3 DEF Execute, Lifetime
      <3>2. sent[t] = "extend" => owner = t
        BY <1>2 DEF Succeeds
      <3>3. sent[t] \in {"acquire", "extend"}
        BY <2>3 DEF TypeOK
      <3> QED
        BY <1>1, <2>1, <3>1, <3>2, <3>3, SMT
           DEF Sound, Shape, Keeps, Remaining, Notices, Missed, Leaves, TypeOK
    <2> QED
      BY <2>2, <2>3
  <1>3. CASE ~Succeeds(t)
    <2>1. ~answer'[t] /\ owner' = owner /\ left' = left
      BY <1>3 DEF Execute, TypeOK
    <2>2. owner # t
      BY <1>3 DEF Succeeds
    <2> QED
      BY <1>1, <2>1, <2>2, SMT
         DEF Sound, Shape, Keeps, Remaining, Notices, Missed, Leaves, TypeOK
  <1> QED
    BY <1>2, <1>3

\* A script changes the key of nobody but its sender.
LEMMA ExecuteIsFair ==
    ASSUME TypeOK, NEW t \in Tasks, NEW x \in Tasks, x # t, Sound(x), Execute(t)
    PROVE  Sound(x)'
  <1>1. Same(x)
    BY SMT DEF Execute, Same, TypeOK
  <1>2. owner' = x <=> owner = x
    BY DEF Execute, Succeeds
  <1>3. owner = x => left' = left
    BY DEF Execute, Succeeds
  <1> QED
    BY <1>1, <1>2, <1>3, OthersKeep DEF Execute

LEMMA RedisRestartsKeeps ==
    ASSUME TypeOK, NEW x \in Tasks, Sound(x), RedisRestarts
    PROVE  Sound(x)'
  <1>1. owner' # x /\ flushed'
    BY DEF RedisRestarts
  <1>2. Notices(x)'
    BY <1>1, SMT DEF RedisRestarts, Sound, Shape, Notices, Missed, TypeOK
  <1> QED
    BY <1>1, <1>2 DEF RedisRestarts, Sound, Shape, Keeps, Leaves

\* An undisturbed task has an appointment that is still to come, and every bound moves
\* with it.
LEMMA TickKeeps ==
    ASSUME TypeOK, NEW x \in Tasks, Sound(x), Tick
    PROVE  Sound(x)'
  <1>1. /\ at' = at /\ sent' = sent /\ leg' = leg /\ answer' = answer /\ lost' = lost
        /\ disturbed' = disturbed /\ flushed' = flushed
    BY DEF Tick
  <1>2. leg[x] # "none" /\ ~disturbed[x] => wait[x] > -Delay /\ wait'[x] = wait[x] - 1
    BY SMT DEF Tick, TypeOK
  <1>3. wait'[x] <= wait[x] /\ wait[x] \in Int /\ wait'[x] \in Int
    BY SMT DEF Tick, TypeOK
  <1>4. owner' = x => owner = x
    BY DEF Tick
  <1>5. owner = x => left >= 1 /\ left' = left - 1 /\ (left >= 2 => owner' = x)
    BY SMT DEF Tick, TypeOK
  <1>6. unaware'[x] = IF at[x] = "working" /\ ~lost[x] /\ owner # x
                      THEN Longer(unaware[x], NoticeWithin) ELSE 0
    BY DEF Tick, TypeOK
  <1>7. abandoned'[x] = IF at[x] = "over" /\ owner = x
                        THEN Longer(abandoned[x], FreeWithin) ELSE 0
    BY DEF Tick, TypeOK
  <1>8. Shape(x)'
    BY <1>1, <1>3, <1>4, <1>6, <1>7, SMT DEF Sound, Shape, TypeOK
  <1>9. Keeps(x)'
    BY <1>1, <1>2, <1>4, <1>5, SMT DEF Sound, Shape, Keeps, Remaining, TypeOK
  <1>10. Notices(x)'
    BY <1>1, <1>2, <1>3, <1>4, <1>6, SMT DEF Sound, Shape, Notices, Missed, Longer, TypeOK
  <1>11. Leaves(x)'
    BY <1>1, <1>2, <1>3, <1>4, <1>5, <1>7, SMT DEF Sound, Shape, Leaves, Longer, TypeOK
  <1> QED
    BY <1>8, <1>9, <1>10, <1>11 DEF Sound

-----------------------------------------------------------------------------
(* The invariant.                                                          *)

LEMMA InitSound == Init => Inv
  <1> SUFFICES ASSUME Init PROVE Inv
    OBVIOUS
  <1>1. TypeOK
    BY InitTypes
  <1>2. ASSUME NEW t \in Tasks PROVE Sound(t)
    <2>1. /\ at[t] = "idle" /\ leg[t] = "none" /\ owner # t /\ wait[t] = 0 /\ ~lost[t]
          /\ unaware[t] = 0 /\ abandoned[t] = 0 /\ sent[t] = "acquire"
      BY DEF Init
    <2> QED
      BY <2>1, SMT DEF Sound, Shape, Keeps, Remaining, Notices, Missed, Leaves
  <1> QED
    BY <1>1, <1>2 DEF Inv

\* A step of one task that leaves the key alone.
TaskStep(t) ==
    \/ Acquire(t) \/ Acquired(t) \/ Beat(t) \/ Extended(t) \/ RedisFails(t)
    \/ Refused(t) \/ Release(t) \/ Released(t) \/ Dies(t) \/ Disturb(t)

LEMMA TaskStepKeeps ==
    ASSUME Inv, NEW t \in Tasks, TaskStep(t)
    PROVE  Inv'
  <1>1. TypeOK /\ \A x \in Tasks : Sound(x)
    BY DEF Inv
  <1>2. TypeOK'
    BY <1>1, TaskTypes DEF TaskStep
  <1>3. Sound(t)'
    BY <1>1, AcquireKeeps, AcquiredKeeps, BeatKeeps, ExtendedKeeps, RedisFailsKeeps,
       RefusedKeeps, ReleaseKeeps, ReleasedKeeps, DiesKeeps, DisturbKeeps DEF TaskStep
  <1>4. ASSUME NEW x \in Tasks, x # t PROVE Sound(x)'
    <2>1. Same(x) /\ owner' = owner /\ left' = left /\ flushed' = flushed
      BY <1>1, <1>4 DEF TaskStep, Same, TypeOK, Acquire, Acquired, Beat, Extended,
         RedisFails, Refused, Release, Released, Dies, Disturb
    <2> QED
      BY <1>1, <2>1, OthersKeep
  <1> QED
    BY <1>2, <1>3, <1>4 DEF Inv

LEMMA StepKeeps == Inv /\ [Next]_vars => Inv'
  <1> SUFFICES ASSUME Inv, [Next]_vars PROVE Inv'
    OBVIOUS
  <1>1. TypeOK /\ \A x \in Tasks : Sound(x)
    BY DEF Inv
  <1>2. ASSUME NEW t \in Tasks, TaskStep(t) PROVE Inv'
    BY <1>2, TaskStepKeeps
  <1>3. ASSUME NEW t \in Tasks, Execute(t) PROVE Inv'
    <2>1. ASSUME NEW x \in Tasks PROVE Sound(x)'
      BY <1>1, <1>3, ExecuteKeeps, ExecuteIsFair
    <2> QED
      BY <1>1, <1>3, <2>1, ExecuteTypes DEF Inv
  <1>4. CASE RedisRestarts
    <2>1. TypeOK'
      BY <1>1, <1>4 DEF RedisRestarts, TypeOK
    <2> QED
      BY <1>1, <1>4, <2>1, RedisRestartsKeeps DEF Inv
  <1>5. CASE Tick
    BY <1>1, <1>5, TickKeeps, TickTypes DEF Inv
  <1>6. CASE UNCHANGED vars
    BY <1>6 DEF vars, Inv, TypeOK, Sound, Shape, Keeps, Remaining, Notices, Missed, Leaves
  <1> QED
    BY <1>2, <1>3, <1>4, <1>5, <1>6 DEF Next, TaskStep

\* Every reachable state is sound.
THEOREM Soundness == Spec => []Inv
  BY InitSound, StepKeeps, PTL DEF Spec

\* The variables keep their types; the key has a lifetime as long as it exists.
THEOREM LockTyping == Spec => []TypeOK
  <1>1. Inv => TypeOK
    BY DEF Inv
  <1> QED
    BY <1>1, Soundness, PTL

\* A task that is not disturbed has its lock for as long as it works, if the key
\* outlives three late steps in a row.
THEOREM HeartbeatSuffices == Spec => []HeartbeatKeepsLock
  <1>1. Inv => HeartbeatKeepsLock
    BY DEF Inv, Sound, Keeps, Remaining, HeartbeatKeepsLock
  <1> QED
    BY <1>1, Soundness, PTL

\* A task that is not disturbed learns of a loss within a heartbeat and four late steps.
THEOREM LossesAreNoticed == Spec => []LossIsNoticed
  <1>1. Inv => LossIsNoticed
    BY DEF Inv, Sound, Notices, LossIsNoticed
  <1> QED
    BY <1>1, Soundness, PTL

\* A key whose task is over is gone after the TTL and one late command.
THEOREM AbandonedLocksExpire == Spec => []AbandonedLockExpires
  <1>1. Inv => AbandonedLockExpires
    BY DEF Inv, Sound, Leaves, AbandonedLockExpires
  <1> QED
    BY <1>1, Soundness, PTL

=============================================================================
