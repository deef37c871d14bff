------------------------------ MODULE RateLimiter ------------------------------
(***************************************************************************)
(* The pace of requests to the external service (app/worker/ratelimit.py), *)
(* as the runs use it (tasks.py, client.py, _await_pauses).                *)
(*                                                                         *)
(* Two Redis keys are shared by every run: the next moment a request may   *)
(* go out, and the interval, which doubles with each 429.  A run reserves  *)
(* a slot in two round trips, the clock and a script, sleeps until the     *)
(* slot, and sends.  Runs overlap when the lock is lost, and one that has  *)
(* released it still clears the keys.                                      *)
(*                                                                         *)
(* Time is the clock of Redis in units of the model's own; a step takes no *)
(* time, and any time may pass between two steps.                          *)
(***************************************************************************)
EXTENDS Naturals, FiniteSets

CONSTANTS
    Runs,
    NoRun,
    min_interval,      \* external_min_interval_ms
    max_interval,      \* external_min_interval_max_ms
    max_retry_wait,    \* max_retry_wait_s: the longest pause a run sits through
    ttl_floor,         \* the hour that a key lives at least
    Horizon            \* where the clock of the model stops

ASSUME PaceIsSensible ==
    /\ min_interval \in Nat \ {0}
    /\ max_interval \in Nat /\ max_interval >= min_interval
    /\ max_retry_wait \in Nat \ {0}
    /\ ttl_floor \in Nat
    /\ Horizon \in Nat

ASSUME RunsAreFinite == IsFiniteSet(Runs)
ASSUME NoRunIsNobody == NoRun \notin Runs

VARIABLES
    now,            \* the clock of Redis
    owner,          \* the run that owns the lock, or NoRun
    next_allowed,   \* the key next_allowed_ms: [at, until]
    interval,       \* the key interval_ms: [at, until]
    frame,          \* [Runs -> local variables of the run]
    \* The history the properties speak of:
    reset_at,       \* when the keys were last cleared
    sent            \* the requests that went out since

keys    == <<next_allowed, interval>>
history == <<reset_at, sent>>
vars    == <<now, owner, next_allowed, interval, frame, reset_at, sent>>

Larger(a, b)  == IF a > b THEN a ELSE b
Smaller(a, b) == IF a < b THEN a ELSE b

\* How long a key lives (mutant: as long as a pause).
AsLongAsAPause == max_retry_wait
Ttl == Larger(max_retry_wait * 2, ttl_floor)

\* A key is gone when its time is up.
NoKey    == [at |-> 0, until |-> 0]
Live(key) == now < key.until

\* GET with the default of the script and of current_interval_ms.
NextAllowed == IF Live(next_allowed) THEN next_allowed.at ELSE 0
Interval    == IF Live(interval) THEN interval.at ELSE min_interval

Places == {"idle", "reset", "ready", "clock", "reserve", "sleep", "inflight",
           "penalize", "set", "pause", "leave", "cleanup", "over"}
Working == {"ready", "clock", "reserve", "sleep", "inflight", "penalize", "set", "pause"}

Frames == [pc      : Places,
           seen    : Nat,     \* the clock, as reserve() read it
           wake    : Nat,     \* the end of the sleep or pause
           current : Nat,     \* the interval, as penalize() read it
           learned : Nat]     \* history: the interval penalize() set before this pause,
                              \* as long as no other run writes or clears the key

\* The interval stays between its bounds, and nothing is known ahead of the clock.
TypeOK ==
    /\ now \in Nat /\ reset_at \in 0..now /\ sent \in Nat
    /\ owner \in Runs \cup {NoRun}
    /\ next_allowed \in [at : Nat, until : Nat]
    /\ interval \in [at : Nat, until : Nat]
    /\ Interval \in min_interval..max_interval
    /\ frame \in [Runs -> Frames]
    /\ \A r \in Runs : frame[r].seen <= now

\* The local variables of a run that has just got to a place.
At(place) == [pc |-> place, seen |-> 0, wake |-> 0, current |-> 0, learned |-> 0]

Goes(r, f) == frame' = [frame EXCEPT ![r] = f]

\* The same, of a step that writes or clears the interval.
GoesAlone(r, f) ==
    frame' = [s \in Runs |-> IF s = r THEN f ELSE [frame[s] EXCEPT !.learned = 0]]

Init ==
    /\ now = 0
    /\ owner = NoRun
    /\ next_allowed = NoKey /\ interval = NoKey
    /\ frame = [r \in Runs |-> At("idle")]
    /\ reset_at = 0 /\ sent = 0

-----------------------------------------------------------------------------
(* The run around the limiter.                                             *)

\* The task got the lock and is about to clear the keys.
Start(r) ==
    /\ frame[r].pc = "idle" /\ owner = NoRun
    /\ owner' = r
    /\ Goes(r, At("reset"))
    /\ UNCHANGED <<now, keys, history>>

DropPenalty ==
    /\ next_allowed' = NoKey /\ interval' = NoKey
    /\ reset_at' = now /\ sent' = 0

\* reset() before the first request.
Reset(r) ==
    /\ frame[r].pc = "reset"
    /\ DropPenalty
    /\ GoesAlone(r, At("ready"))
    /\ UNCHANGED <<now, owner>>

Released(r) == IF owner = r THEN NoRun ELSE owner

\* Redis does not answer it: the run fails on preparation.
ResetFails(r) ==
    /\ frame[r].pc = "reset"
    /\ owner' = Released(r)
    /\ Goes(r, At("over"))
    /\ UNCHANGED <<now, keys, history>>

\* ensure_owned, before an operation and after a pause.
EnsureOwned(r) ==
    /\ frame[r].pc = "ready" /\ owner = r
    /\ Goes(r, At("clock"))
    /\ UNCHANGED <<now, owner, keys, history>>

\* The run is done, or fails: no ownership, no attempt left, a pause beyond the
\* limit, an answer it cannot use, Redis or PostgreSQL not answering.
Ends(r) ==
    /\ frame[r].pc \in Working
    /\ Goes(r, At("leave"))
    /\ UNCHANGED <<now, owner, keys, history>>

\* hold() lets the lock go before the keys are cleared.
Release(r) ==
    /\ frame[r].pc = "leave"
    /\ owner' = Released(r)
    /\ Goes(r, At("cleanup"))
    /\ UNCHANGED <<now, keys, history>>

\* reset() after the run; an error of Redis is suppressed.
Cleanup(r) ==
    /\ frame[r].pc = "cleanup"
    /\ \/ DropPenalty /\ GoesAlone(r, At("over"))
       \/ UNCHANGED <<keys, history>> /\ Goes(r, At("over"))
    /\ UNCHANGED <<now, owner>>

\* The worker dies; its lock expires later.
Dies(r) ==
    /\ frame[r].pc \notin {"idle", "over"}
    /\ Goes(r, At("over"))
    /\ UNCHANGED <<now, owner, keys, history>>

LoseLock ==
    /\ owner # NoRun
    /\ owner' = NoRun
    /\ UNCHANGED <<now, keys, frame, history>>

-----------------------------------------------------------------------------
(* reserve, and the request.                                               *)

ReadClock(r) ==
    /\ frame[r].pc = "clock"
    /\ Goes(r, [At("reserve") EXCEPT !.seen = now])
    /\ UNCHANGED <<now, owner, keys, history>>

\* The slot and the wait are computed from the clock as it was read.  (Mutants: the
\* next slot follows from the clock instead of from this slot; the sleep is dropped.)
AfterClock(seen, start) == seen + Interval
AfterSlot(seen, start)  == start + Interval

NoSleep(seen, start)     == now
SleepUntil(seen, start)  == now + (start - seen)

Reserve(r) ==
    /\ frame[r].pc = "reserve"
    /\ LET seen  == frame[r].seen
           start == Larger(seen, NextAllowed)
       IN  /\ next_allowed' = [at |-> AfterSlot(seen, start), until |-> now + Ttl]
           /\ Goes(r, [At("sleep") EXCEPT !.wake = SleepUntil(seen, start)])
    /\ UNCHANGED <<now, owner, interval, history>>

Send(r) ==
    /\ frame[r].pc = "sleep" /\ frame[r].wake <= now
    /\ sent' = sent + 1
    /\ Goes(r, At("inflight"))
    /\ UNCHANGED <<now, owner, keys, reset_at>>

\* An answer that lets the run go on.
Answered(r) ==
    /\ frame[r].pc = "inflight"
    /\ Goes(r, At("ready"))
    /\ UNCHANGED <<now, owner, keys, history>>

\* A network error or a 5xx: _request reserves again by itself, after its backoff.
Retry(r) ==
    /\ frame[r].pc = "inflight"
    /\ Goes(r, At("clock"))
    /\ UNCHANGED <<now, owner, keys, history>>

-----------------------------------------------------------------------------
(* penalize, and the pause.                                                *)

Paused(learned, delay) ==
    [pc |-> "pause", seen |-> 0, wake |-> now + delay, current |-> 0, learned |-> learned]

\* 403 pauses the run and teaches it nothing.
Forbidden(r) ==
    /\ frame[r].pc = "inflight"
    /\ \E delay \in 0..max_retry_wait : Goes(r, Paused(0, delay))
    /\ UNCHANGED <<now, owner, keys, history>>

TooManyRequests(r) ==
    /\ frame[r].pc = "inflight"
    /\ Goes(r, At("penalize"))
    /\ UNCHANGED <<now, owner, keys, history>>

ReadInterval(r) ==
    /\ frame[r].pc = "penalize"
    /\ Goes(r, [At("set") EXCEPT !.current = Interval])
    /\ UNCHANGED <<now, owner, keys, history>>

\* Doubled, up to the ceiling (mutant: without it).
Unlimited(current) == current * 2
Doubled(current)   == Smaller(current * 2, max_interval)

SetInterval(r) ==
    /\ frame[r].pc = "set"
    /\ LET updated == Doubled(frame[r].current) IN
          /\ interval' = [at |-> updated, until |-> now + Ttl]
          /\ \E delay \in 0..max_retry_wait : GoesAlone(r, Paused(updated, delay))
    /\ UNCHANGED <<now, owner, next_allowed, history>>

Wake(r) ==
    /\ frame[r].pc = "pause" /\ frame[r].wake <= now
    /\ Goes(r, At("ready"))
    /\ UNCHANGED <<now, owner, keys, history>>

-----------------------------------------------------------------------------
Tick ==
    /\ now < Horizon
    /\ now' = now + 1
    /\ UNCHANGED <<owner, keys, frame, history>>

Next ==
    \/ \E r \in Runs :
          \/ Start(r) \/ Reset(r) \/ ResetFails(r) \/ EnsureOwned(r) \/ Ends(r)
          \/ Release(r) \/ Cleanup(r) \/ Dies(r)
          \/ ReadClock(r) \/ Reserve(r) \/ Send(r) \/ Answered(r) \/ Retry(r)
          \/ Forbidden(r) \/ TooManyRequests(r) \/ ReadInterval(r) \/ SetInterval(r)
          \/ Wake(r)
    \/ LoseLock
    \/ Tick

Spec == Init /\ [][Next]_vars

-----------------------------------------------------------------------------
(* Properties.                                                             *)

\* Whatever overlaps, sleeps too long or reads the clock too early, the service
\* sees no more requests than one per interval since the keys were last cleared,
\* one to begin with, and one of each other run that was already under way then:
\* ratelimit.py:3-7.
RateIsBounded ==
    sent <= Cardinality(Runs) + (now - reset_at) \div min_interval

\* Slots are not handed out further ahead than one for each run, so no run is kept
\* from its request by slots that nobody uses.
QueueIsShort ==
    NextAllowed <= now + (Cardinality(Runs) + 1) * max_interval

\* The pace a 429 taught is still in force when the pause it asked for is over
\* (ratelimit.py:50-52), unless another run wrote or cleared the interval meanwhile.
PaceSurvivesPause ==
    \A r \in Runs :
        frame[r].pc = "pause" /\ now <= frame[r].wake => Interval >= frame[r].learned

=============================================================================
