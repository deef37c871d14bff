----------------------------- MODULE CatalogSync -----------------------------
(* What downloading a catalog promises, however many runs do it, overlap or  *)
(* fail: a row of the file table is written once and never changed, a name   *)
(* is confirmed to the external service only while its row is there and      *)
(* sound, and a run is done only when the whole catalog is confirmed.        *)
CONSTANTS Names, Contents, Runs, Absent

VARIABLES
    stored,    \* [Names -> the committed row], Absent when there is none
    marked,    \* the names the service has been told about
    complete   \* the runs that ended as done

vars == <<stored, marked, complete>>

Sound == {n \in Names : stored[n] \in Contents}

Init == marked = {} /\ complete = {}

\* Rows that were missing appear, in one transaction.
Save ==
    /\ \E S \in SUBSET Names :
          /\ \A n \in S : stored[n] = Absent
          /\ \E row \in [S -> Contents] :
                stored' = [n \in Names |-> IF n \in S THEN row[n] ELSE stored[n]]
    /\ UNCHANGED <<marked, complete>>

Confirm ==
    /\ \E S \in SUBSET Sound : marked' = marked \cup S
    /\ UNCHANGED <<stored, complete>>

Complete ==
    /\ marked = Names
    /\ \E r \in Runs : complete' = complete \cup {r}
    /\ UNCHANGED <<stored, marked>>

Next == Save \/ Confirm \/ Complete

Spec == Init /\ [][Next]_vars

=============================================================================
