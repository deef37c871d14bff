------------------------------ MODULE FilesScreen ------------------------------
(***************************************************************************)
(* The files page (filesScreen of static/app.js): a table of files, a      *)
(* selection that is being edited, and the statistics of a selection that  *)
(* was frozen earlier.                                                     *)
(*                                                                         *)
(* Several requests of each kind may be under way, and their answers come  *)
(* in any order; one of each kind is the latest, and only its answer may   *)
(* touch the page.  The order of the listing stands for its page size too: *)
(* both go back to the first page and load again.                          *)
(***************************************************************************)
EXTENDS FilesApi

CONSTANTS
    Requests,     \* bound: requests of each kind under way at the same time
    MaxClicks     \* bound: what the user does

ASSUME MaxClicksIsNumber == MaxClicks \in Nat

VARIABLES
    page, order,          \* what the controls of the table say
    listing,              \* [Requests -> a request of the table]
    latestListing,        \* the request whose generation is filesGeneration
    items,                \* the answer the table was drawn from; its total is totalPages
    buttons,              \* the previous and next buttons of the table, as last rendered
    table,                \* the rows; an error; or the rows of before, redrawn over it
    selected, selectAll,  \* the selection that is being edited
    noticeHidden,         \* stats-stale is hidden
    snapshot,             \* stats.snapshot, as a request
    statsPage,            \* stats.page
    statsPages,           \* stats.totalPages
    statsButtons,         \* its buttons, as last rendered
    stats,                \* [Requests -> a request for statistics]
    latestStats,          \* the request whose generation is stats.generation
    result,               \* the statistics on the page
    statsFailed,          \* the last request for statistics that ended had failed
    clicks

tableVars     == <<page, order, listing, latestListing, items, buttons, table>>
selectionVars == <<selected, selectAll>>
statsVars     == <<snapshot, statsPage, statsPages, statsButtons, stats, latestStats,
                   result, statsFailed>>
vars == <<file, page, order, listing, latestListing, items, buttons, table,
          selected, selectAll, noticeHidden, snapshot, statsPage, statsPages,
          statsButtons, stats, latestStats, result, statsFailed, clicks>>

\* No request of the kind has been sent.
NoRequest == "none"
ASSUME NoRequestIsNone == NoRequest \notin Requests

\* Buttons work until something is rendered.
BothButtons == [prev |-> TRUE, next |-> TRUE]
ButtonsAt(number, of) == [prev |-> number > 1, next |-> of # 0 /\ number < of]

Asked(snap) == <<snap.all, snap.ids>>

Init ==
    /\ file = [r \in Rows |-> "new"]
    /\ page = 1 /\ order = "desc"
    /\ listing = [q \in Requests |-> NoListing]
    /\ latestListing = NoRequest
    /\ items = NoListing
    /\ buttons = BothButtons
    /\ table = "rows"
    /\ selected = {} /\ selectAll = FALSE
    /\ noticeHidden = TRUE
    /\ snapshot = NoStats
    /\ statsPage = 1 /\ statsPages = 0
    /\ statsButtons = BothButtons
    /\ stats = [q \in Requests |-> NoStats]
    /\ latestStats = NoRequest
    /\ result = NoStats
    /\ statsFailed = FALSE
    /\ clicks = 0

Click == clicks < MaxClicks /\ clicks' = clicks + 1

-----------------------------------------------------------------------------
(* The selection.                                                          *)

\* selectionMatchesShown: there is a snapshot once something was calculated.
Calculated == snapshot.all \/ snapshot.ids # {}
Matches(snap, chosen, all) ==
    snap.all = all /\ (all \/ snap.ids = chosen)
SelectionMatchesShown(snap, chosen, all) == ~Calculated' \/ Matches(snap, chosen, all)

\* renderSelection.
RenderSelection == noticeHidden' = SelectionMatchesShown(snapshot', selected', selectAll')

\* render(): what was received last is drawn under the controls of now.
Render ==
    /\ buttons' = ButtonsAt(page', PagesOf(items'.total))
    /\ RenderSelection

\* A box of a row renders the selection only (mutant: nothing).
Forgotten     == UNCHANGED noticeHidden
RenderToggled == RenderSelection

\* The boxes over the table call render() too, whatever the table shows.
RenderAgain ==
    /\ UNCHANGED <<file, page, order, listing, latestListing, items, statsVars>>
    /\ table' = IF table = "error" THEN "redrawn" ELSE table
    /\ Render

Toggle(r) ==
    /\ Click
    /\ r \in items.rows /\ table # "error" /\ ~selectAll
    /\ selected' = IF r \in selected THEN selected \ {r} ELSE selected \cup {r}
    /\ UNCHANGED <<file, tableVars, selectAll, statsVars>>
    /\ RenderToggled

SelectPage ==
    /\ Click
    /\ items.rows # {} /\ ~selectAll
    /\ selected' = IF items.rows \subseteq selected THEN selected \ items.rows
                                                    ELSE selected \cup items.rows
    /\ UNCHANGED selectAll
    /\ RenderAgain

SetSelectAll ==
    /\ Click
    /\ selectAll' = ~selectAll
    /\ UNCHANGED selected
    /\ RenderAgain

ClearSelection ==
    /\ Click
    /\ selected' = {} /\ selectAll' = FALSE
    /\ RenderAgain

-----------------------------------------------------------------------------
(* The table.                                                              *)

\* load() with the page and the order given: the generation goes up.
Load(p, o) ==
    /\ page' = p /\ order' = o
    /\ \E q \in Requests :
          /\ listing[q].at = "free"
          /\ latestListing' = q
          /\ listing' = [listing EXCEPT ![q] =
                            [NoListing EXCEPT !.at = "sent", !.page = p, !.order = o]]
    /\ UNCHANGED <<file, items, buttons, table, selectionVars, noticeHidden, statsVars>>

\* Back to this screen: the same page is loaded again.
EnterScreen == Click /\ Load(page, order)

ChangeOrder == Click /\ \E o \in Orders \ {order} : Load(1, o)

\* The bound of both pagers: buttons are those of the last rendering, and the page may
\* have been turned since (mutant: only the end is checked).
NotPastTheEnd(next, pages) == pages # 0 => next <= pages
IsAPage(next, pages)       == next >= 1 /\ (pages # 0 => next <= pages)

Turn(step) ==
    LET next == page + step IN
    /\ Click
    /\ IF step = 1 THEN buttons.next ELSE buttons.prev
    /\ IsAPage(next, PagesOf(items.total))
    /\ Load(next, order)

\* Answers of superseded requests are dropped (mutant: they are not).
AnyAnswer(latest, q) == TRUE
IsLatest(latest, q)  == latest = q

Without(latest, q) == IF latest = q THEN NoRequest ELSE latest

ListingAnswered(q) ==
    /\ listing[q].at = "answered"
    /\ listing' = [listing EXCEPT ![q] = NoListing]
    /\ IF IsLatest(latestListing, q)
       THEN /\ items' = listing[q]
            /\ table' = "rows"
            /\ latestListing' = Without(latestListing, q)
            /\ UNCHANGED <<page, selectionVars, statsVars>>
            /\ Render
       ELSE UNCHANGED <<page, latestListing, items, table, buttons, selectionVars,
                        statsVars, noticeHidden>>
    /\ UNCHANGED <<file, order, clicks>>

\* The rows are gone from the table, not from `items'.
ListingFailed(q) ==
    /\ listing[q].at # "free"
    /\ listing' = [listing EXCEPT ![q] = NoListing]
    /\ IF IsLatest(latestListing, q)
       THEN table' = "error" /\ latestListing' = Without(latestListing, q)
       ELSE UNCHANGED <<table, latestListing>>
    /\ UNCHANGED <<file, page, order, items, buttons, selectionVars, noticeHidden,
                   statsVars, clicks>>

-----------------------------------------------------------------------------
(* The statistics.                                                         *)

\* What of a snapshot a request carries (mutant: not the cut-off).
NoCutOff(snap) == [snap EXCEPT !.asOf = Null]
Carried(snap)  == snap

\* loadStats() of a snapshot: the answer is for this page of it.
LoadStats(snap, number) ==
    /\ snapshot' = snap /\ statsPage' = number
    /\ \E q \in Requests :
          /\ stats[q].at = "free"
          /\ latestStats' = q
          /\ stats' = [stats EXCEPT ![q] = [Carried(snap) EXCEPT !.at = "sent", !.page = number]]
    /\ UNCHANGED <<file, tableVars, selectionVars, noticeHidden, statsButtons, result,
                   statsFailed>>

Calculate ==
    /\ Click
    /\ selectAll \/ selected # {}
    /\ statsPages' = 0
    /\ LoadStats([NoStats EXCEPT !.all = selectAll, !.ids = IF selectAll THEN {} ELSE selected], 1)

TurnStats(step) ==
    LET next == statsPage + step IN
    /\ Click
    /\ result # NoStats \/ statsFailed             \* the card is shown
    /\ IF step = 1 THEN statsButtons.next ELSE statsButtons.prev
    /\ IsAPage(next, statsPages)
    /\ UNCHANGED statsPages
    /\ LoadStats(snapshot, next)

\* The cut-off is kept with the snapshot, which is the one that was asked for.
StatsAnswered(q) ==
    /\ stats[q].at = "answered"
    /\ stats' = [stats EXCEPT ![q] = NoStats]
    /\ IF IsLatest(latestStats, q)
       THEN /\ snapshot' = [snapshot EXCEPT !.asOf = stats[q].asOf, !.pending = stats[q].pending]
            /\ statsPages' = PagesOf(stats[q].total)
            /\ statsButtons' = ButtonsAt(statsPage, statsPages')
            /\ result' = stats[q]
            /\ statsFailed' = FALSE
            /\ latestStats' = Without(latestStats, q)
            /\ UNCHANGED selectionVars
            /\ RenderSelection
       ELSE UNCHANGED <<snapshot, statsPages, statsButtons, result, statsFailed,
                        latestStats, selectionVars, noticeHidden>>
    /\ UNCHANGED <<file, tableVars, statsPage, clicks>>

\* The result of before stays on the page, under the error.
StatsFailed(q) ==
    /\ stats[q].at # "free"
    /\ stats' = [stats EXCEPT ![q] = NoStats]
    /\ IF IsLatest(latestStats, q)
       THEN statsFailed' = TRUE /\ latestStats' = Without(latestStats, q)
       ELSE UNCHANGED <<statsFailed, latestStats>>
    /\ UNCHANGED <<file, tableVars, selectionVars, noticeHidden, snapshot, statsPage,
                   statsPages, statsButtons, result, clicks>>

-----------------------------------------------------------------------------
\* The service works on the requests.
Serve(q) ==
    /\ \/ /\ \/ /\ listing[q].at = "sent"
                /\ listing' = [listing EXCEPT ![q] = CountListing(@)]
             \/ /\ listing[q].at = "counted"
                /\ listing' = [listing EXCEPT ![q] = ListRows(@)]
          /\ UNCHANGED stats
       \/ /\ \/ stats[q].at = "sent"    /\ stats' = [stats EXCEPT ![q] = CutOff(@)]
             \/ stats[q].at = "cut"     /\ stats' = [stats EXCEPT ![q] = CountStats(@)]
             \/ stats[q].at = "counted" /\ stats' = [stats EXCEPT ![q] = ListStats(@)]
          /\ UNCHANGED listing
    /\ UNCHANGED <<file, page, order, latestListing, items, buttons, table, selectionVars,
                   noticeHidden, snapshot, statsPage, statsPages, statsButtons,
                   latestStats, result, statsFailed, clicks>>

Next ==
    \/ FilesStep /\ UNCHANGED <<tableVars, selectionVars, noticeHidden, statsVars, clicks>>
    \/ \E r \in Rows : Toggle(r)
    \/ SelectPage \/ SetSelectAll \/ ClearSelection
    \/ EnterScreen \/ ChangeOrder \/ Calculate
    \/ \E step \in {-1, 1} : Turn(step) \/ TurnStats(step)
    \/ \E q \in Requests :
          \/ Serve(q)
          \/ ListingAnswered(q) \/ ListingFailed(q) \/ StatsAnswered(q) \/ StatsFailed(q)

Spec == Init /\ [][Next]_vars

-----------------------------------------------------------------------------
(* Properties.                                                             *)

\* Only a stored file can be selected, calculated or shown, and no pager asks for a page
\* below the first, however quickly its button is pressed.
TypeOK ==
    /\ FileType
    /\ page \in Nat \ {0} /\ order \in Orders
    /\ latestListing \in Requests \cup {NoRequest}
    /\ latestStats \in Requests \cup {NoRequest}
    /\ table \in {"rows", "error", "redrawn"}
    /\ selected \subseteq Stored /\ selectAll \in BOOLEAN /\ noticeHidden \in BOOLEAN
    /\ snapshot.ids \subseteq Stored /\ snapshot.asOf \in Times \cup {Null}
    /\ result.rows \subseteq Stored
    /\ statsPage \in Nat \ {0} /\ statsPages \in Nat /\ statsFailed \in BOOLEAN
    /\ \A q \in Requests : listing[q].at \in Stages /\ stats[q].at \in Stages

Quiet(latest) == latest = NoRequest

\* The table shows the page and the order of its controls, once the latest request was
\* answered: an overtaken answer is never drawn (app.js:333-356).  A failed request
\* leaves the rows of before to be drawn again, under the page that was not received.
ListingMatchesControls ==
    Quiet(latestListing) /\ table = "rows" /\ items # NoListing
        => items.page = page /\ items.order = order

\* The same for the statistics: what is shown answers the snapshot and the page of the
\* pager, with the snapshot's cut-off (app.js:473-503).
ShownBelongsToSnapshot ==
    Quiet(latestStats) /\ ~statsFailed /\ result # NoStats =>
        /\ Asked(result) = Asked(snapshot)
        /\ result.asOf = snapshot.asOf /\ result.page = statsPage

\* A snapshot has one cut-off: pages turned before the first answer came do not give it
\* a second one (app.js:463-503, services/stats.py:33-36).
OneCutOff ==
    [][snapshot.asOf # Null /\ snapshot'.asOf # snapshot.asOf => snapshot'.asOf = Null]_vars

\* A page of statistics depends on the snapshot alone, whatever is downloaded meanwhile
\* and whenever it is asked for, provided that no transaction with a stamp below the
\* cut-off was open when the cut-off was chosen (services/stats.py:33-58).
SettledPagesAgree ==
    LET settled == {r \in Stored : r <= result.asOf /\ (result.all \/ r \in result.ids)} IN
    result # NoStats /\ result.pending = {} =>
        /\ result.total = Cardinality(settled)
        /\ result.rows = PageOf(settled, "asc", result.page)

\* A page is never shorter than its own total says: the rows are read after the total,
\* and rows only come (api/files.py:34-50, services/stats.py:39-58).
NoRowIsMissing ==
    \A shownPage \in {items, result} :
        LET ahead == shownPage.total - (shownPage.page - 1) * PageSize IN
        Cardinality(shownPage.rows) >= IF ahead < PageSize THEN ahead ELSE PageSize

\* When nothing says that the selection has changed, it has not: the result on the page
\* is that of the boxes (app.js:423-425), unless its request is under way or has failed.
NoticeIsTrue ==
    Quiet(latestStats) /\ ~statsFailed /\ result # NoStats /\ noticeHidden
        => Matches(result, selected, selectAll)

=============================================================================
