--------------------------- MODULE DownloadService ---------------------------
(* What the service promises about its runs, whoever drives them: one run   *)
(* occupies the slot at a time; it is queued, prepared and worked on in     *)
(* that order; and it is closed once, for a reason that fits how far it got. *)
CONSTANT Runs

VARIABLES
    phase,     \* [Runs -> how far the run is]
    outcome    \* [Runs -> why it was closed, "none" while it was not]

vars == <<phase, outcome>>

Occupying == {"queued", "preparing", "working"}

\* The reasons a run can be closed for, by how far it got.
Reasons(stage) ==
    CASE stage = "queued"    -> {"unpublished", "unclaimed"}
      [] stage = "preparing" -> {"stalled", "busy", "lock_lost", "redis_down"}
      [] stage = "working"   -> {"abandoned", "redis_down", "runner", "done"}
      [] OTHER               -> {}

Init ==
    /\ phase = [r \in Runs |-> "new"]
    /\ outcome = [r \in Runs |-> "none"]

Open(r) ==
    /\ phase[r] = "new"
    /\ \A s \in Runs : phase[s] \notin Occupying
    /\ phase' = [phase EXCEPT ![r] = "queued"]
    /\ UNCHANGED outcome

Prepare(r) ==
    /\ phase[r] = "queued"
    /\ phase' = [phase EXCEPT ![r] = "preparing"]
    /\ UNCHANGED outcome

Work(r) ==
    /\ phase[r] = "preparing"
    /\ phase' = [phase EXCEPT ![r] = "working"]
    /\ UNCHANGED outcome

\* (The first line says nothing new: it spares TLC the rest in a step that closes nothing.)
Close(r) ==
    /\ phase[r] \in Occupying /\ phase'[r] = "closed"
    /\ phase' = [phase EXCEPT ![r] = "closed"]
    /\ \E reason \in Reasons(phase[r]) :
          outcome' = [outcome EXCEPT ![r] = reason]

Next == \E r \in Runs : Open(r) \/ Prepare(r) \/ Work(r) \/ Close(r)

Spec == Init /\ [][Next]_vars

=============================================================================
