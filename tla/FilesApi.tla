------------------------------- MODULE FilesApi -------------------------------
(***************************************************************************)
(* The table of files while downloads write it, as GET /api/files and      *)
(* POST /api/stats read it (app/api/files.py, app/services/stats.py).      *)
(*                                                                         *)
(* A row gets its downloaded_at before it is inserted and becomes visible  *)
(* when its transaction commits: rows become visible in another order than *)
(* their stamps.  Both requests are two statements, each of which sees the *)
(* rows committed when it begins.  Rows are never deleted.                 *)
(***************************************************************************)
EXTENDS Integers, FiniteSets

CONSTANTS
    LastRow,     \* the number of rows
    PageSize,    \* rows on a page, of either table
    Writers      \* the transactions that may be open at the same time

ASSUME SizesAreNumbers == LastRow \in Nat /\ PageSize \in Nat \ {0}
ASSUME WritersAreNotStates == Writers \cap {"new", "stored", "undone"} = {}

\* Rows are named by their stamps.  What is called time here is the number of stamps given.
Rows  == 1..LastRow
Times == 0..LastRow

VARIABLE file    \* [Rows -> where the row stands; a writer stands for its open transaction]

FileType == file \in [Rows -> {"new", "stored", "undone"} \cup Writers]

Stored  == {r \in Rows : file[r] = "stored"}
Pending == {r \in Rows : file[r] \in Writers}
Now     == Cardinality({r \in Rows : file[r] # "new"})

-----------------------------------------------------------------------------
(* The writers: _save of the downloader.                                   *)

Insert(r, w) ==
    /\ file[r] = "new" /\ \A s \in Rows : s < r => file[s] # "new"
    /\ file' = [file EXCEPT ![r] = w]

End(w, state) ==
    /\ \E r \in Rows : file[r] = w
    /\ file' = [r \in Rows |-> IF file[r] = w THEN state ELSE file[r]]

Commit(w)   == End(w, "stored")
Rollback(w) == End(w, "undone")

FilesStep == \E w \in Writers : Commit(w) \/ Rollback(w) \/ \E r \in Rows : Insert(r, w)

-----------------------------------------------------------------------------
(* Pages.                                                                  *)

Orders == {"asc", "desc"}

\* The position of a row among those that are listed.
Rank(r, rows, order) ==
    Cardinality({s \in rows : IF order = "asc" THEN s <= r ELSE s >= r})

PageOf(rows, order, page) ==
    {r \in rows : (Rank(r, rows, order) - 1) \div PageSize = page - 1}

PagesOf(total) == (total + PageSize - 1) \div PageSize

-----------------------------------------------------------------------------
(* The two requests.  A request that has been counted has had its first    *)
(* statement, and its second one when it is answered.                      *)

Stages == {"free", "sent", "cut", "counted", "answered"}

\* list_files.
NoListing == [at |-> "free", page |-> 1, order |-> "desc", total |-> 0, rows |-> {}]

CountListing(q) == [q EXCEPT !.at = "counted", !.total = Cardinality(Stored)]
ListRows(q)     == [q EXCEPT !.at = "answered", !.rows = PageOf(Stored, q.order, q.page)]

\* compute_stats.  A request without a cut-off carries Null; `pending' is history: the rows
\* whose transactions were open when the cut-off was chosen.
Null    == -1
NoStats == [at |-> "free", all |-> FALSE, ids |-> {}, asOf |-> Null, pending |-> {},
            page |-> 1, total |-> 0, rows |-> {}]

CutOff(q) == [q EXCEPT !.at      = "cut",
                       !.asOf    = IF @ = Null THEN Now ELSE @,
                       !.pending = IF q.asOf = Null THEN Pending ELSE @]

\* selection_condition (mutant: no cut-off).
AnyTime(q, r)      == q.all \/ r \in q.ids
UntilCutOff(q, r)  == r <= q.asOf /\ (q.all \/ r \in q.ids)
Selection(q, rows) == {r \in rows : UntilCutOff(q, r)}

\* The condition of the breakdown (mutant: a stricter one than that of the totals).
Earlier(q) == Selection(q, Stored) \ {q.asOf}
Listed(q)  == Selection(q, Stored)

CountStats(q) == [q EXCEPT !.at = "counted", !.total = Cardinality(Selection(q, Stored))]
ListStats(q)  == [q EXCEPT !.at = "answered", !.rows = PageOf(Listed(q), "asc", q.page)]

=============================================================================
