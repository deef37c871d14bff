-------------------------------- MODULE RunLock --------------------------------
(***************************************************************************)
(* The download lock in time (app/worker/lock.py): its TTL, the heartbeat  *)
(* that renews it, and the round trips in between.  RunLifecycle lets the  *)
(* lock expire at any moment; this module says when it can.                *)
(*                                                                         *)
(* Time is counted down: `left' is what Redis still gives the key, `wait'  *)
(* what a task still sleeps; below zero, by how much the next step is      *)
(* late.  As long as the event loop and the connection are not disturbed   *)
(* no step is later than Delay: neither a wake-up, nor a command on its    *)
(* way to Redis, nor its answer.  A disturbed task may be late for ever.   *)
(*                                                                         *)
(* A task stands for one run, whose token no other task uses; it acquires  *)
(* the lock once.                                                          *)
(***************************************************************************)
EXTENDS Integers

CONSTANTS
    Tasks,        \* the tasks that hold the lock at some time
    NoOne,        \* the key does not exist
    Ttl,          \* run_lock_ttl_s
    Heartbeat,    \* run_lock_heartbeat_s
    Delay         \* how late a step may be

\* Settings._check_invariants (app/config.py:86-92).
ASSUME HeartbeatAssumption ==
    /\ Ttl \in Nat /\ Heartbeat \in Nat /\ Delay \in Nat
    /\ 0 < Heartbeat /\ Heartbeat < Ttl
ASSUME NoOneAssumption == NoOne \notin Tasks

VARIABLES
    owner,        \* the value of dl:lock:run
    left,         \* its remaining lifetime
    at,           \* [Tasks -> where the task stands]
    sent,         \* [Tasks -> the script that was sent last]
    leg,          \* [Tasks -> what is under way: the script, its answer, a sleep]
    answer,       \* [Tasks -> what the script returned]
    wait,         \* [Tasks -> when the next step is due]
    lost,         \* [Tasks -> RedisRunLock.lost]
    disturbed,    \* history: the tasks that may have been late, or that Redis failed
    flushed,      \* history: Redis has restarted empty
    unaware,      \* history: [Tasks -> for how long it works on a lock it does not have]
    abandoned     \* history: [Tasks -> for how long the key names it though it is over]

clockVars == <<disturbed, flushed, unaware, abandoned>>
vars == <<owner, left, at, sent, leg, answer, wait, lost,
          disturbed, flushed, unaware, abandoned>>

\* The longest a loss is not noticed, and the longest a key is left behind.
NoticeWithin == Heartbeat + 4 * Delay
FreeWithin   == Ttl + Delay

\* The key has a lifetime exactly as long as it exists, and never one beyond the TTL.
TypeOK ==
    /\ owner \in Tasks \cup {NoOne} /\ left \in 0..Ttl
    /\ owner = NoOne <=> left = 0
    /\ at \in [Tasks -> {"idle", "acquiring", "working", "releasing", "over"}]
    /\ sent \in [Tasks -> {"acquire", "extend", "release"}]
    /\ leg \in [Tasks -> {"none", "script", "answer", "sleep"}]
    /\ answer \in [Tasks -> BOOLEAN]
    /\ wait \in [Tasks -> (-Delay)..Heartbeat]
    /\ lost \in [Tasks -> BOOLEAN]
    /\ disturbed \in [Tasks -> BOOLEAN] /\ flushed \in BOOLEAN
    /\ unaware \in [Tasks -> 0..(NoticeWithin + 1)]
    /\ abandoned \in [Tasks -> 0..(FreeWithin + 1)]

Init ==
    /\ owner = NoOne /\ left = 0
    /\ at = [t \in Tasks |-> "idle"]
    /\ sent = [t \in Tasks |-> "acquire"]
    /\ leg = [t \in Tasks |-> "none"]
    /\ answer = [t \in Tasks |-> FALSE]
    /\ wait = [t \in Tasks |-> 0]
    /\ lost = [t \in Tasks |-> FALSE]
    /\ disturbed = [t \in Tasks |-> FALSE]
    /\ flushed = FALSE
    /\ unaware = [t \in Tasks |-> 0]
    /\ abandoned = [t \in Tasks |-> 0]

Goes(t, place) == at' = [at EXCEPT ![t] = place]

\* The next step of the task, due after some time.
Awaits(t, what, time) ==
    /\ leg' = [leg EXCEPT ![t] = what]
    /\ wait' = [wait EXCEPT ![t] = time]

Sends(t, script) ==
    /\ sent' = [sent EXCEPT ![t] = script]
    /\ Awaits(t, "script", 0)

-----------------------------------------------------------------------------
(* The task.                                                               *)

\* hold() begins.
Acquire(t) ==
    /\ at[t] = "idle"
    /\ Goes(t, "acquiring")
    /\ Sends(t, "acquire")
    /\ UNCHANGED <<owner, left, answer, lost, clockVars>>

\* The heartbeat sleeps first (mutant: for the whole lifetime of the key).
WholeLife == Ttl
Nap       == Heartbeat

Acquired(t) ==
    /\ at[t] = "acquiring" /\ leg[t] = "answer"
    /\ IF answer[t] THEN Goes(t, "working") /\ Awaits(t, "sleep", Nap)
                    ELSE Goes(t, "over") /\ Awaits(t, "none", 0)
    /\ UNCHANGED <<owner, left, sent, answer, lost, clockVars>>

Beat(t) ==
    /\ at[t] = "working" /\ leg[t] = "sleep" /\ wait[t] <= 0
    /\ Sends(t, "extend")
    /\ UNCHANGED <<owner, left, at, answer, lost, clockVars>>

\* What the heartbeat makes of the answer (mutant: it goes on trying).
GoesOn(t) == TRUE
IsOurs(t) == answer[t]

Extended(t) ==
    /\ at[t] = "working" /\ leg[t] = "answer"
    /\ IF IsOurs(t)
       THEN Awaits(t, "sleep", Nap) /\ UNCHANGED lost
       ELSE Awaits(t, "none", 0) /\ lost' = [lost EXCEPT ![t] = TRUE]
    /\ UNCHANGED <<owner, left, at, sent, answer, clockVars>>

\* Redis answers with an error: ensure_owned, beside which the heartbeat goes on, or the
\* heartbeat itself, which ends.
RedisFails(t) ==
    /\ at[t] = "working"
    /\ \/ UNCHANGED <<leg, wait>>
       \/ leg[t] \in {"script", "answer"} /\ Awaits(t, "none", 0)
    /\ lost' = [lost EXCEPT ![t] = TRUE]
    /\ disturbed' = [disturbed EXCEPT ![t] = TRUE]
    /\ UNCHANGED <<owner, left, at, sent, answer, flushed, unaware, abandoned>>

\* ensure_owned finds another token, or none.
Refused(t) ==
    /\ at[t] = "working" /\ owner # t
    /\ lost' = [lost EXCEPT ![t] = TRUE]
    /\ UNCHANGED <<owner, left, at, sent, leg, answer, wait, clockVars>>

\* The finally clause of hold(): the heartbeat is cancelled, with what it has under way.
Release(t) ==
    /\ at[t] = "working"
    /\ Goes(t, "releasing")
    /\ Sends(t, "release")
    /\ UNCHANGED <<owner, left, answer, lost, clockVars>>

Released(t) ==
    /\ at[t] = "releasing" /\ leg[t] = "answer"
    /\ Goes(t, "over")
    /\ Awaits(t, "none", 0)
    /\ UNCHANGED <<owner, left, sent, answer, lost, clockVars>>

\* The worker dies, or an acquire fails: a script that was sent may still be executed.
Dies(t) ==
    /\ at[t] \notin {"idle", "over"}
    /\ Goes(t, "over")
    /\ IF leg[t] = "script" THEN UNCHANGED <<leg, wait>> ELSE Awaits(t, "none", 0)
    /\ UNCHANGED <<owner, left, sent, answer, lost, clockVars>>

-----------------------------------------------------------------------------
(* Redis.                                                                  *)

\* The lifetime that both scripts give (mutant: seconds and milliseconds mixed up).
LongLife == 2 * Ttl
Lifetime == Ttl

Succeeds(t) == owner = t \/ (sent[t] = "acquire" /\ owner = NoOne)

\* The script is executed, and its answer is on its way to a task that is still there.
Execute(t) ==
    /\ leg[t] = "script"
    /\ answer' = [answer EXCEPT ![t] = Succeeds(t)]
    /\ IF Succeeds(t)
       THEN IF sent[t] = "release" THEN owner' = NoOne /\ left' = 0
                                   ELSE owner' = t /\ left' = Lifetime
       ELSE UNCHANGED <<owner, left>>
    /\ Awaits(t, IF at[t] = "over" THEN "none" ELSE "answer", 0)
    /\ UNCHANGED <<at, sent, lost, clockVars>>

RedisRestarts ==
    /\ owner # NoOne
    /\ owner' = NoOne /\ left' = 0 /\ flushed' = TRUE
    /\ UNCHANGED <<at, sent, leg, answer, wait, lost, disturbed, unaware, abandoned>>

-----------------------------------------------------------------------------
(* Time.                                                                   *)

\* The event loop of the task stalls, or its connection does.
Disturb(t) ==
    /\ ~disturbed[t]
    /\ disturbed' = [disturbed EXCEPT ![t] = TRUE]
    /\ UNCHANGED <<owner, left, at, sent, leg, answer, wait, lost, flushed, unaware, abandoned>>

\* A history counter stops one above the bound that is asserted of it.
Longer(time, bound) == IF time <= bound THEN time + 1 ELSE time

Tick ==
    /\ \A t \in Tasks : leg[t] # "none" /\ ~disturbed[t] => wait[t] > -Delay
    /\ wait' = [t \in Tasks |-> IF wait[t] > -Delay THEN wait[t] - 1 ELSE wait[t]]
    /\ left' = IF left = 0 THEN 0 ELSE left - 1
    /\ owner' = IF left <= 1 THEN NoOne ELSE owner
    /\ unaware' = [t \in Tasks |->
                      IF at[t] = "working" /\ ~lost[t] /\ owner # t
                      THEN Longer(unaware[t], NoticeWithin) ELSE 0]
    /\ abandoned' = [t \in Tasks |->
                        IF at[t] = "over" /\ owner = t
                        THEN Longer(abandoned[t], FreeWithin) ELSE 0]
    /\ UNCHANGED <<at, sent, leg, answer, lost, disturbed, flushed>>

Next ==
    \/ \E t \in Tasks :
          \/ Acquire(t) \/ Acquired(t) \/ Beat(t) \/ Extended(t) \/ RedisFails(t)
          \/ Refused(t) \/ Release(t) \/ Released(t) \/ Dies(t)
          \/ Execute(t) \/ Disturb(t)
    \/ RedisRestarts \/ Tick

Spec == Init /\ [][Next]_vars

-----------------------------------------------------------------------------
(* Properties.                                                             *)

\* The heartbeat keeps the lock and raises no false alarm, whatever the lengths of the
\* pauses: as long as three steps can be late in a row without the key expiring, a task
\* that was not disturbed has its lock (lock.py:195-213).  The settings only demand
\* Heartbeat < Ttl.
HeartbeatKeepsLock ==
    Heartbeat + 3 * Delay < Ttl /\ ~flushed =>
        \A t \in Tasks : at[t] = "working" /\ ~disturbed[t] => owner = t /\ ~lost[t]

\* A task that is not late itself learns of a loss soon, so that it and the next
\* owner do not work side by side for longer than that (lock.py:195-213).
LossIsNoticed ==
    \A t \in Tasks : ~disturbed[t] => unaware[t] <= NoticeWithin

\* A task that ends without releasing, or whose acquire was executed though its answer
\* was lost, blocks the slot for no longer than the TTL and one late command
\* (lock.py:36-46, 156-163).
AbandonedLockExpires ==
    \A t \in Tasks : ~disturbed[t] => abandoned[t] <= FreeWithin

=============================================================================
