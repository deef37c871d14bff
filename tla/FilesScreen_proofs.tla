-------------------------- MODULE FilesScreen_proofs --------------------------
(* The files page, for any number of rows, transactions, requests and clicks. *)
EXTENDS FilesScreen, FiniteSetTheorems, TLAPS

\* What a request of each kind, and its answer, may hold.
Listings == [at : Stages, page : Nat \ {0}, order : Orders, total : Nat, rows : SUBSET Rows]
Selects  == [at : Stages, all : BOOLEAN, ids : SUBSET Rows, asOf : Times \cup {Null},
             pending : SUBSET Rows, page : Nat \ {0}, total : Nat, rows : SUBSET Rows]

Typed ==
    /\ FileType
    /\ page \in Nat \ {0} /\ order \in Orders
    /\ listing \in [Requests -> Listings] /\ items \in Listings
    /\ latestListing \in Requests \cup {NoRequest}
    /\ table \in {"rows", "error", "redrawn"}
    /\ selected \subseteq Rows /\ selectAll \in BOOLEAN /\ noticeHidden \in BOOLEAN
    /\ stats \in [Requests -> Selects] /\ snapshot \in Selects /\ result \in Selects
    /\ latestStats \in Requests \cup {NoRequest}
    /\ statsPage \in Nat \ {0} /\ statsPages \in Nat /\ statsFailed \in BOOLEAN

\* Whatever the page has heard of is stored.
Known ==
    /\ items.rows \subseteq Stored /\ result.rows \subseteq Stored
    /\ \A q \in Requests : listing[q].rows \subseteq Stored /\ stats[q].rows \subseteq Stored
    /\ selected \subseteq Stored /\ snapshot.ids \subseteq Stored /\ snapshot.rows = {}

\* The latest request of the table is for what its controls say, until it is answered.
Table ==
    /\ \A q \in Requests : latestListing = q =>
          listing[q].at # "free" /\ listing[q].page = page /\ listing[q].order = order
    /\ ListingMatchesControls

\* The latest request for statistics carries the snapshot, and its cut-off if it has one.
Card ==
    /\ \A q \in Requests : latestStats = q =>
          /\ stats[q].at # "free" /\ stats[q].page = statsPage
          /\ stats[q].all = snapshot.all /\ stats[q].ids = snapshot.ids
          /\ snapshot.asOf # Null => stats[q].asOf = snapshot.asOf
    /\ latestStats = NoRequest /\ ~statsFailed /\ result # NoStats =>
          /\ result.all = snapshot.all /\ result.ids = snapshot.ids
          /\ result.asOf = snapshot.asOf /\ result.page = statsPage

\* The notice is that of the selection and the snapshot, unless an answer is due that
\* has it drawn again.
Notice ==
    /\ result # NoStats \/ statsFailed \/ latestStats # NoRequest => Calculated
    /\ latestStats = NoRequest /\ ~statsFailed =>
          (noticeHidden <=> ~Calculated \/ Matches(snapshot, selected, selectAll))

Inv == Typed /\ Known /\ Table /\ Card /\ Notice

USE SizesAreNumbers, WritersAreNotStates, MaxClicksIsNumber, NoRequestIsNone

-----------------------------------------------------------------------------
(* Rows, counts and pages.                                                 *)

LEMMA RowsFinite == ASSUME NEW S \in SUBSET Rows
                    PROVE  Cardinality(S) \in Nat /\ Cardinality(S) <= LastRow
  <1>1. IsFiniteSet(Rows) /\ Cardinality(Rows) = LastRow
    BY FS_Interval, SMT DEF Rows
  <1> QED
    BY <1>1, FS_Subset, FS_CardinalityType

LEMMA NowType == Now \in Times
  <1>1. Now \in Nat /\ Now <= LastRow
    BY RowsFinite DEF Now
  <1> QED
    BY <1>1, SMT DEF Times

LEMMA PagesType == ASSUME NEW total \in Nat PROVE PagesOf(total) \in Nat
  BY SMT DEF PagesOf

\* The transactions that begin and end leave what is stored alone.
LEMMA StoredStays ==
    ASSUME Typed, FilesStep
    PROVE  FileType' /\ Stored \subseteq Stored'
  <1>1. CASE \E w \in Writers : Commit(w) \/ Rollback(w)
    BY <1>1 DEF Typed, FileType, Commit, Rollback, End, Stored
  <1>2. CASE \E w \in Writers, r \in Rows : Insert(r, w)
    BY <1>2 DEF Typed, FileType, Insert, Stored
  <1> QED
    BY <1>1, <1>2 DEF FilesStep

LEMMA NothingIsTyped == NoListing \in Listings /\ NoStats \in Selects
  <1>1. 1 \in Nat \ {0} /\ 0 \in Nat
    OBVIOUS
  <1> QED
    BY <1>1 DEF NoListing, NoStats, Listings, Selects, Stages, Orders

\* What each statement of the service makes of a request.
LEMMA ListingServed ==
    ASSUME FileType, NEW q \in Listings
    PROVE  /\ CountListing(q) \in Listings /\ CountListing(q).at = "counted"
           /\ CountListing(q).page = q.page /\ CountListing(q).order = q.order
           /\ CountListing(q).rows = q.rows
           /\ ListRows(q) \in Listings /\ ListRows(q).at = "answered"
           /\ ListRows(q).page = q.page /\ ListRows(q).order = q.order
           /\ ListRows(q).rows \subseteq Stored
  <1>1. Cardinality(Stored) \in Nat
    BY RowsFinite DEF Stored
  <1>2. PageOf(Stored, q.order, q.page) \subseteq Stored /\ Stored \subseteq Rows
    BY DEF PageOf, Stored
  <1> DEFINE total == Cardinality(Stored)
             rows  == PageOf(Stored, q.order, q.page)
  <1> HIDE DEF total, rows
  <1>3. CountListing(q) = [q EXCEPT !.at = "counted", !.total = total]
        /\ ListRows(q) = [q EXCEPT !.at = "answered", !.rows = rows]
    BY DEF CountListing, ListRows, total, rows
  <1>4. total \in Nat /\ rows \subseteq Stored /\ rows \in SUBSET Rows
    BY <1>1, <1>2 DEF total, rows
  <1> QED
    BY <1>3, <1>4 DEF Listings, Stages

LEMMA StatsServed ==
    ASSUME FileType, NEW q \in Selects
    PROVE  /\ CutOff(q) \in Selects /\ CutOff(q).at = "cut"
           /\ CutOff(q).all = q.all /\ CutOff(q).ids = q.ids /\ CutOff(q).page = q.page
           /\ CutOff(q).rows = q.rows
           /\ q.asOf # Null => CutOff(q).asOf = q.asOf
           /\ CountStats(q) \in Selects /\ CountStats(q).at = "counted"
           /\ CountStats(q).all = q.all /\ CountStats(q).ids = q.ids
           /\ CountStats(q).page = q.page /\ CountStats(q).rows = q.rows
           /\ CountStats(q).asOf = q.asOf
           /\ ListStats(q) \in Selects /\ ListStats(q).at = "answered"
           /\ ListStats(q).all = q.all /\ ListStats(q).ids = q.ids
           /\ ListStats(q).page = q.page /\ ListStats(q).asOf = q.asOf
           /\ ListStats(q).rows \subseteq Stored
  <1>1. Selection(q, Stored) \subseteq Stored /\ Stored \subseteq Rows /\ Pending \subseteq Rows
    BY DEF Selection, Stored, Pending
  <1> DEFINE total   == Cardinality(Selection(q, Stored))
             rows    == PageOf(Listed(q), "asc", q.page)
             as_of   == IF q.asOf = Null THEN Now ELSE q.asOf
             pending == IF q.asOf = Null THEN Pending ELSE q.pending
  <1>2. total \in Nat
    BY <1>1, RowsFinite
  <1>3. rows \subseteq Stored /\ rows \in SUBSET Rows
    BY <1>1 DEF PageOf, Listed
  <1>4. as_of \in Times \cup {Null} /\ pending \in SUBSET Rows
        /\ (q.asOf # Null => as_of = q.asOf)
    BY <1>1, NowType DEF Selects
  <1>5. /\ CountStats(q) = [q EXCEPT !.at = "counted", !.total = total]
        /\ ListStats(q) = [q EXCEPT !.at = "answered", !.rows = rows]
        /\ CutOff(q) = [q EXCEPT !.at = "cut", !.asOf = as_of, !.pending = pending]
    BY DEF CountStats, ListStats, CutOff, Selects
  <1> HIDE DEF total, rows, as_of, pending
  <1>6. /\ CutOff(q) \in Selects /\ CutOff(q).at = "cut"
        /\ CutOff(q).all = q.all /\ CutOff(q).ids = q.ids /\ CutOff(q).page = q.page
        /\ CutOff(q).rows = q.rows /\ CutOff(q).asOf = as_of
    BY <1>4, <1>5, ZenonT(60) DEF Selects, Stages
  <1>7. /\ CountStats(q) \in Selects /\ CountStats(q).at = "counted"
        /\ CountStats(q).all = q.all /\ CountStats(q).ids = q.ids
        /\ CountStats(q).page = q.page /\ CountStats(q).rows = q.rows
        /\ CountStats(q).asOf = q.asOf
    BY <1>2, <1>5, ZenonT(60) DEF Selects, Stages
  <1>8. /\ ListStats(q) \in Selects /\ ListStats(q).at = "answered"
        /\ ListStats(q).all = q.all /\ ListStats(q).ids = q.ids
        /\ ListStats(q).page = q.page /\ ListStats(q).asOf = q.asOf
        /\ ListStats(q).rows = rows
    BY <1>3, <1>5, ZenonT(60) DEF Selects, Stages
  <1> QED
    BY <1>3, <1>4, <1>6, <1>7, <1>8

-----------------------------------------------------------------------------
(* What a step keeps of the parts it does not touch.                       *)

LEMMA TableStays ==
    ASSUME Table, UNCHANGED <<page, order, listing, latestListing, items>>,
           table' = table \/ table' = "redrawn"
    PROVE  Table'
  BY DEF Table, ListingMatchesControls, Quiet

LEMMA CardStays ==
    ASSUME Card, UNCHANGED <<snapshot, statsPage, stats, latestStats, result, statsFailed>>
    PROVE  Card'
  BY DEF Card

LEMMA NoticeStays ==
    ASSUME Notice, UNCHANGED <<snapshot, latestStats, result, statsFailed, selected, selectAll,
                               noticeHidden>>
    PROVE  Notice'
  BY DEF Notice, Calculated, Matches

\* A drawn notice is true.
LEMMA NoticeDrawn ==
    ASSUME RenderSelection,
           (result # NoStats \/ statsFailed \/ latestStats # NoRequest => Calculated)'
    PROVE  Notice' /\ noticeHidden' \in BOOLEAN
  <1>1. noticeHidden' = (~Calculated' \/ Matches(snapshot', selected', selectAll'))
    BY Zenon DEF RenderSelection, SelectionMatchesShown
  <1>2. Matches(snapshot, selected, selectAll)' = Matches(snapshot', selected', selectAll')
    BY DEF Matches
  <1>3. noticeHidden' \in BOOLEAN
    BY <1>1
  <1>4. noticeHidden' <=> ~Calculated' \/ Matches(snapshot', selected', selectAll')
    BY <1>1, Zenon
  <1> QED
    BY <1>2, <1>3, <1>4, Zenon DEF Notice

-----------------------------------------------------------------------------
(* The transactions, and the boxes.                                        *)

LEMMA FilesKeep ==
    ASSUME Inv, FilesStep, UNCHANGED <<tableVars, selectionVars, noticeHidden, statsVars, clicks>>
    PROVE  Inv'
  <1>1. UNCHANGED <<page, order, listing, latestListing, items, table, selected, selectAll,
                    noticeHidden, snapshot, statsPage, statsPages, stats, latestStats,
                    result, statsFailed>>
    BY DEF tableVars, selectionVars, statsVars
  <1>2. FileType' /\ Stored \subseteq Stored'
    BY StoredStays DEF Inv
  <1>3. Typed'
    BY <1>1, <1>2 DEF Inv, Typed
  <1>4. Known'
    BY <1>1, <1>2 DEF Inv, Known
  <1>5. Table' /\ Card' /\ Notice'
    BY <1>1, TableStays, CardStays, NoticeStays DEF Inv
  <1> QED
    BY <1>3, <1>4, <1>5 DEF Inv

\* The selection changes, among what is stored, and the notice with it.
Chooses ==
    /\ UNCHANGED <<file, page, order, listing, latestListing, items, statsVars>>
    /\ table' = table \/ table' = "redrawn"
    /\ selected' \subseteq Stored /\ selectAll' \in BOOLEAN
    /\ RenderSelection

LEMMA ChoosesKeeps == ASSUME Inv, Chooses PROVE Inv'
  <1>1. UNCHANGED <<file, page, order, listing, latestListing, items,
                    snapshot, statsPage, statsPages, stats, latestStats, result, statsFailed>>
    BY DEF Chooses, statsVars
  <1>2. Stored' = Stored /\ Stored \subseteq Rows
    BY <1>1 DEF Stored
  <1>3. Notice' /\ noticeHidden' \in BOOLEAN
    <2>1. (result # NoStats \/ statsFailed \/ latestStats # NoRequest => Calculated)'
      BY <1>1 DEF Inv, Notice, Calculated
    <2> QED
      BY <2>1, NoticeDrawn DEF Chooses
  <1>4. Typed'
    BY <1>1, <1>2, <1>3 DEF Inv, Typed, Chooses, FileType
  <1>5. Known'
    BY <1>1, <1>2 DEF Inv, Known, Chooses
  <1>6. Table' /\ Card'
    BY <1>1, TableStays, CardStays DEF Inv, Chooses
  <1> QED
    BY <1>3, <1>4, <1>5, <1>6 DEF Inv

LEMMA BoxesKeep ==
    ASSUME Inv, SelectPage \/ SetSelectAll \/ ClearSelection \/ \E r \in Rows : Toggle(r)
    PROVE  Inv'
  <1>1. selected \subseteq Stored /\ items.rows \subseteq Stored /\ selectAll \in BOOLEAN
    BY DEF Inv, Known, Typed
  <1>2. ASSUME NEW r \in Rows, Toggle(r) PROVE Chooses
    <2>1. UNCHANGED <<file, page, order, listing, latestListing, items, table, selectAll, statsVars>>
      BY <1>2 DEF Toggle, tableVars
    <2>2. selected' \subseteq Stored /\ RenderSelection
      BY <1>1, <1>2 DEF Toggle, RenderToggled
    <2> QED
      BY <1>1, <2>1, <2>2, Zenon DEF Chooses
  <1>3. ASSUME RenderAgain, selected' \subseteq Stored, selectAll' \in BOOLEAN PROVE Chooses
    BY <1>3, Zenon DEF RenderAgain, Render, Chooses
  <1>4. CASE SelectPage
    BY <1>1, <1>3, <1>4, ChoosesKeeps DEF SelectPage
  <1>5. CASE SetSelectAll
    BY <1>1, <1>3, <1>5, ChoosesKeeps DEF SetSelectAll
  <1>6. CASE ClearSelection
    BY <1>3, <1>6, ChoosesKeeps DEF ClearSelection
  <1> QED
    BY <1>2, <1>4, <1>5, <1>6, ChoosesKeeps

-----------------------------------------------------------------------------
(* The table.                                                              *)

LEMMA LoadKeeps ==
    ASSUME Inv, NEW p \in Nat \ {0}, NEW o \in Orders, Load(p, o)
    PROVE  Inv'
  <1>1. UNCHANGED <<file, items, table, selected, selectAll, noticeHidden,
                    snapshot, statsPage, statsPages, stats, latestStats, result, statsFailed>>
        /\ page' = p /\ order' = o
    BY DEF Load, selectionVars, statsVars
  <1> DEFINE asked == [NoListing EXCEPT !.at = "sent", !.page = p, !.order = o]
  <1>2. /\ asked \in Listings /\ asked.at = "sent" /\ asked.page = p /\ asked.order = o
        /\ asked.rows = {}
    <2>1. NoListing.rows = {}
      BY DEF NoListing
    <2> QED
      BY <2>1, NothingIsTyped DEF Listings, Stages
  <1>3. PICK q \in Requests : latestListing' = q /\ listing' = [listing EXCEPT ![q] = asked]
    BY DEF Load
  <1> HIDE DEF asked
  <1>4. /\ listing' \in [Requests -> Listings] /\ listing'[q] = asked
        /\ \A s \in Requests : s # q => listing'[s] = listing[s]
    BY <1>2, <1>3 DEF Inv, Typed
  <1>5. Stored' = Stored
    BY <1>1 DEF Stored
  <1>6. Typed'
    BY <1>1, <1>3, <1>4 DEF Inv, Typed, FileType
  <1>7. Known'
    BY <1>1, <1>2, <1>4, <1>5 DEF Inv, Known
  <1>8. Table'
    BY <1>1, <1>2, <1>3, <1>4 DEF Table, ListingMatchesControls, Quiet
  <1>9. Card' /\ Notice'
    BY <1>1, CardStays, NoticeStays DEF Inv
  <1> QED
    BY <1>6, <1>7, <1>8, <1>9 DEF Inv

LEMMA LoadsKeep ==
    ASSUME Inv, EnterScreen \/ ChangeOrder \/ \E step \in {-1, 1} : Turn(step)
    PROVE  Inv'
  <1>1. page \in Nat \ {0} /\ order \in Orders
    BY DEF Inv, Typed
  <1>2. CASE EnterScreen
    BY <1>1, <1>2, LoadKeeps DEF EnterScreen
  <1>3. CASE ChangeOrder
    BY <1>3, LoadKeeps DEF ChangeOrder
  <1>4. ASSUME NEW step \in {-1, 1}, Turn(step) PROVE Inv'
    <2>1. page + step \in Nat \ {0}
      BY <1>1, <1>4, SMT DEF Turn, IsAPage
    <2>2. Load(page + step, order)
      BY <1>4 DEF Turn
    <2> QED
      BY <1>1, <2>1, <2>2, LoadKeeps
  <1> QED
    BY <1>2, <1>3, <1>4

LEMMA ListingEnds ==
    ASSUME Inv, NEW q \in Requests, listing' = [listing EXCEPT ![q] = NoListing]
    PROVE  /\ listing' \in [Requests -> Listings] /\ listing'[q] = NoListing
           /\ \A s \in Requests : s # q => listing'[s] = listing[s]
           /\ NoListing.rows = {}
  <1>1. NoListing.rows = {}
    BY DEF NoListing
  <1> QED
    BY <1>1, NothingIsTyped DEF Inv, Typed

LEMMA ListingAnsweredKeeps == ASSUME Inv, NEW q \in Requests, ListingAnswered(q) PROVE Inv'
  <1>1. UNCHANGED <<file, order>> /\ listing' = [listing EXCEPT ![q] = NoListing]
    BY DEF ListingAnswered
  <1>2. Stored' = Stored
    BY <1>1 DEF Stored
  <1>3. CASE latestListing = q
    <2>1. /\ items' = listing[q] /\ table' = "rows" /\ latestListing' = NoRequest
          /\ UNCHANGED <<page, selected, selectAll, statsVars>> /\ RenderSelection
      BY <1>3, Zenon DEF ListingAnswered, IsLatest, Without, Render, selectionVars
    <2>2. UNCHANGED <<snapshot, statsPage, statsPages, stats, latestStats, result, statsFailed>>
      BY <2>1 DEF statsVars
    <2>3. Notice' /\ noticeHidden' \in BOOLEAN
      <3>1. (result # NoStats \/ statsFailed \/ latestStats # NoRequest => Calculated)'
        BY <2>2 DEF Inv, Notice, Calculated
      <3> QED
        BY <2>1, <3>1, NoticeDrawn
    <2>4. Typed'
      BY <1>1, <2>1, <2>2, <2>3, ListingEnds DEF Inv, Typed, FileType
    <2>5. Known'
      BY <1>1, <1>2, <2>1, <2>2, ListingEnds DEF Inv, Known
    <2>6. Table'
      <3>1. items'.page = page' /\ items'.order = order'
        BY <1>1, <1>3, <2>1 DEF Inv, Table
      <3> QED
        BY <2>1, <3>1 DEF Table, ListingMatchesControls
    <2>7. Card'
      BY <2>2, CardStays DEF Inv
    <2> QED
      BY <2>3, <2>4, <2>5, <2>6, <2>7 DEF Inv
  <1>4. CASE latestListing # q
    <2>1. UNCHANGED <<page, latestListing, items, table, selected, selectAll, statsVars, noticeHidden>>
      BY <1>4, Zenon DEF ListingAnswered, IsLatest, selectionVars
    <2>2. UNCHANGED <<snapshot, statsPage, statsPages, stats, latestStats, result, statsFailed>>
      BY <2>1 DEF statsVars
    <2>3. Typed'
      BY <1>1, <2>1, <2>2, ListingEnds DEF Inv, Typed, FileType
    <2>4. Known'
      BY <1>1, <1>2, <2>1, <2>2, ListingEnds DEF Inv, Known
    <2>5. Table'
      BY <1>1, <1>4, <2>1, ListingEnds DEF Inv, Table, ListingMatchesControls, Quiet
    <2>6. Card' /\ Notice'
      BY <2>1, <2>2, CardStays, NoticeStays DEF Inv
    <2> QED
      BY <2>3, <2>4, <2>5, <2>6 DEF Inv
  <1> QED
    BY <1>3, <1>4

LEMMA ListingFailedKeeps == ASSUME Inv, NEW q \in Requests, ListingFailed(q) PROVE Inv'
  <1>1. /\ UNCHANGED <<file, page, order, items, selected, selectAll, noticeHidden, statsVars>>
        /\ listing' = [listing EXCEPT ![q] = NoListing]
        /\ \/ latestListing = q /\ table' = "error" /\ latestListing' = NoRequest
           \/ latestListing # q /\ UNCHANGED <<table, latestListing>>
    BY Zenon DEF ListingFailed, IsLatest, Without, selectionVars
  <1>2. Stored' = Stored
    BY <1>1 DEF Stored
  <1>3. UNCHANGED <<snapshot, statsPage, statsPages, stats, latestStats, result, statsFailed>>
    BY <1>1 DEF statsVars
  <1>4. Typed'
    BY <1>1, <1>3, ListingEnds DEF Inv, Typed, FileType
  <1>5. Known'
    BY <1>1, <1>2, <1>3, ListingEnds DEF Inv, Known
  <1>6. Table'
    BY <1>1, ListingEnds DEF Inv, Table, ListingMatchesControls, Quiet
  <1>7. Card' /\ Notice'
    BY <1>1, <1>3, CardStays, NoticeStays DEF Inv
  <1> QED
    BY <1>4, <1>5, <1>6, <1>7 DEF Inv

-----------------------------------------------------------------------------
(* The statistics.                                                         *)

LEMMA LoadStatsKeeps ==
    ASSUME Inv, NEW snap \in Selects, NEW number \in Nat \ {0}, LoadStats(snap, number),
           statsPages' \in Nat, snap.ids \subseteq Stored, snap.rows = {},
           snap.all \/ snap.ids # {}
    PROVE  Inv'
  <1>1. /\ UNCHANGED <<file, page, order, listing, latestListing, items, table,
                       selected, selectAll, noticeHidden, result, statsFailed>>
        /\ snapshot' = snap /\ statsPage' = number
    BY DEF LoadStats, tableVars, selectionVars
  <1> DEFINE asked == [snap EXCEPT !.at = "sent", !.page = number]
  <1>2. /\ asked \in Selects /\ asked.at = "sent" /\ asked.page = number
        /\ asked.all = snap.all /\ asked.ids = snap.ids /\ asked.asOf = snap.asOf
        /\ asked.rows = {}
    BY DEF Selects, Stages
  <1>3. PICK q \in Requests : latestStats' = q /\ stats' = [stats EXCEPT ![q] = asked]
    BY DEF LoadStats, Carried
  <1> HIDE DEF asked
  <1>4. /\ stats' \in [Requests -> Selects] /\ stats'[q] = asked
        /\ \A s \in Requests : s # q => stats'[s] = stats[s]
    BY <1>2, <1>3 DEF Inv, Typed
  <1>5. Stored' = Stored
    BY <1>1 DEF Stored
  <1>6. Typed'
    BY <1>1, <1>3, <1>4 DEF Inv, Typed, FileType
  <1>7. Known'
    BY <1>1, <1>2, <1>4, <1>5 DEF Inv, Known
  <1>8. Table'
    BY <1>1, TableStays DEF Inv
  <1>9. Card'
    BY <1>1, <1>2, <1>3, <1>4 DEF Card
  <1>10. Notice'
    <2>1. Calculated'
      BY <1>1 DEF Calculated
    <2> QED
      BY <1>3, <2>1 DEF Notice
  <1> QED
    BY <1>6, <1>7, <1>8, <1>9, <1>10 DEF Inv

LEMMA CalculateKeeps == ASSUME Inv, Calculate PROVE Inv'
  <1> DEFINE ids  == IF selectAll THEN {} ELSE selected
             snap == [NoStats EXCEPT !.all = selectAll, !.ids = ids]
  <1>1. selectAll \in BOOLEAN /\ ids \in SUBSET Rows /\ ids \subseteq Stored
        /\ (selectAll \/ ids # {})
    BY DEF Calculate, Inv, Typed, Known
  <1>2. LoadStats(snap, 1) /\ statsPages' = 0
    BY DEF Calculate
  <1> HIDE DEF ids
  <1>3. snap \in Selects /\ snap.all = selectAll /\ snap.ids = ids /\ snap.rows = {}
    <2>1. NoStats.rows = {}
      BY DEF NoStats
    <2> QED
      BY <1>1, <2>1, NothingIsTyped DEF Selects
  <1> HIDE DEF snap
  <1>4. 1 \in Nat \ {0} /\ 0 \in Nat
    OBVIOUS
  <1> QED
    BY <1>1, <1>2, <1>3, <1>4, LoadStatsKeeps

LEMMA TurnStatsKeeps == ASSUME Inv, NEW step \in {-1, 1}, TurnStats(step) PROVE Inv'
  <1>1. statsPage + step \in Nat \ {0}
    BY SMT DEF TurnStats, IsAPage, Inv, Typed
  <1>2. LoadStats(snapshot, statsPage + step) /\ statsPages' = statsPages
        /\ (result # NoStats \/ statsFailed)
    BY DEF TurnStats
  <1>3. /\ snapshot \in Selects /\ snapshot.ids \subseteq Stored /\ snapshot.rows = {}
        /\ statsPages \in Nat
        /\ snapshot.all \/ snapshot.ids # {}
    BY <1>2 DEF Inv, Typed, Known, Notice, Calculated
  <1> QED
    BY <1>1, <1>2, <1>3, LoadStatsKeeps

LEMMA StatsEnds ==
    ASSUME Inv, NEW q \in Requests, stats' = [stats EXCEPT ![q] = NoStats]
    PROVE  /\ stats' \in [Requests -> Selects] /\ stats'[q] = NoStats
           /\ \A s \in Requests : s # q => stats'[s] = stats[s]
           /\ NoStats.rows = {}
  <1>1. NoStats.rows = {}
    BY DEF NoStats
  <1> QED
    BY <1>1, NothingIsTyped DEF Inv, Typed

LEMMA StatsAnsweredKeeps == ASSUME Inv, NEW q \in Requests, StatsAnswered(q) PROVE Inv'
  <1>1. UNCHANGED <<file, page, order, listing, latestListing, items, table, statsPage>>
        /\ stats' = [stats EXCEPT ![q] = NoStats]
    BY DEF StatsAnswered, tableVars
  <1>2. Stored' = Stored
    BY <1>1 DEF Stored
  <1>3. Table'
    BY <1>1, TableStays DEF Inv
  <1>4. CASE latestStats = q
    <2> DEFINE snap == [snapshot EXCEPT !.asOf = stats[q].asOf, !.pending = stats[q].pending]
    <2>1. /\ snapshot' = snap /\ statsPages' = PagesOf(stats[q].total)
          /\ result' = stats[q] /\ statsFailed' = FALSE /\ latestStats' = NoRequest
          /\ UNCHANGED <<selected, selectAll>> /\ RenderSelection
      BY <1>4, Zenon DEF StatsAnswered, IsLatest, Without, selectionVars
    <2>2. stats[q] \in Selects /\ snapshot \in Selects
      BY DEF Inv, Typed
    <2>3. /\ snap \in Selects /\ snap.all = snapshot.all /\ snap.ids = snapshot.ids
          /\ snap.asOf = stats[q].asOf /\ snap.rows = snapshot.rows
      BY <2>2 DEF Selects
    <2> HIDE DEF snap
    <2>4. statsPages' \in Nat
      BY <2>1, <2>2, PagesType DEF Selects
    <2>5. Notice' /\ noticeHidden' \in BOOLEAN
      <3>1. Calculated
        BY <1>4 DEF Inv, Notice
      <3>2. Calculated'
        BY <2>1, <2>3, <3>1 DEF Calculated
      <3> QED
        BY <2>1, <3>2, NoticeDrawn
    <2>6. Typed'
      BY <1>1, <2>1, <2>2, <2>3, <2>4, <2>5, StatsEnds DEF Inv, Typed, FileType
    <2>7. Known'
      BY <1>1, <1>2, <2>1, <2>3, StatsEnds DEF Inv, Known
    <2>8. Card'
      <3>1. stats[q].page = statsPage /\ stats[q].all = snapshot.all /\ stats[q].ids = snapshot.ids
        BY <1>4 DEF Inv, Card
      <3> QED
        BY <1>1, <2>1, <2>3, <3>1 DEF Card
    <2> QED
      BY <1>3, <2>5, <2>6, <2>7, <2>8 DEF Inv
  <1>5. CASE latestStats # q
    <2>1. UNCHANGED <<snapshot, statsPages, result, statsFailed, latestStats,
                      selected, selectAll, noticeHidden>>
      BY <1>5, Zenon DEF StatsAnswered, IsLatest, selectionVars
    <2>2. Typed'
      BY <1>1, <2>1, StatsEnds DEF Inv, Typed, FileType
    <2>3. Known'
      BY <1>1, <1>2, <2>1, StatsEnds DEF Inv, Known
    <2>4. Card'
      BY <1>1, <1>5, <2>1, StatsEnds DEF Inv, Card
    <2>5. Notice'
      BY <2>1, NoticeStays DEF Inv
    <2> QED
      BY <1>3, <2>2, <2>3, <2>4, <2>5 DEF Inv
  <1> QED
    BY <1>4, <1>5

LEMMA StatsFailedKeeps == ASSUME Inv, NEW q \in Requests, StatsFailed(q) PROVE Inv'
  <1>1. /\ UNCHANGED <<file, page, order, listing, latestListing, items, table, selected, selectAll,
                       noticeHidden, snapshot, statsPage, statsPages, result>>
        /\ stats' = [stats EXCEPT ![q] = NoStats]
        /\ \/ latestStats = q /\ statsFailed' = TRUE /\ latestStats' = NoRequest
           \/ latestStats # q /\ UNCHANGED <<statsFailed, latestStats>>
    BY Zenon DEF StatsFailed, IsLatest, Without, tableVars, selectionVars
  <1>2. Stored' = Stored
    BY <1>1 DEF Stored
  <1>3. Typed'
    BY <1>1, StatsEnds DEF Inv, Typed, FileType
  <1>4. Known'
    BY <1>1, <1>2, StatsEnds DEF Inv, Known
  <1>5. Table'
    BY <1>1, TableStays DEF Inv
  <1>6. Card'
    BY <1>1, StatsEnds DEF Inv, Card
  <1>7. Notice'
    BY <1>1 DEF Inv, Notice, Calculated, Matches
  <1> QED
    BY <1>3, <1>4, <1>5, <1>6, <1>7 DEF Inv

-----------------------------------------------------------------------------
(* The service.                                                            *)

LEMMA ServeKeeps == ASSUME Inv, NEW q \in Requests, Serve(q) PROVE Inv'
  <1>1. UNCHANGED <<file, page, order, latestListing, items, table, selected, selectAll,
                    noticeHidden, snapshot, statsPage, statsPages, latestStats, result, statsFailed>>
    BY DEF Serve, selectionVars
  <1>2. Stored' = Stored
    BY <1>1 DEF Stored
  <1>3. listing[q] \in Listings /\ stats[q] \in Selects /\ FileType
    BY DEF Inv, Typed
  <1>4. Notice'
    BY <1>1, NoticeStays DEF Inv
  <1>5. ASSUME NEW answer \in Listings, listing' = [listing EXCEPT ![q] = answer],
               answer.at # "free", answer.page = listing[q].page, answer.order = listing[q].order,
               answer.rows \subseteq Stored, stats' = stats
        PROVE  Inv'
    <2>1. /\ listing' \in [Requests -> Listings] /\ listing'[q] = answer
          /\ \A s \in Requests : s # q => listing'[s] = listing[s]
      BY <1>5 DEF Inv, Typed
    <2>2. Typed'
      BY <1>1, <1>5, <2>1 DEF Inv, Typed, FileType
    <2>3. Known'
      BY <1>1, <1>2, <1>5, <2>1 DEF Inv, Known
    <2>4. Table'
      BY <1>1, <1>5, <2>1 DEF Inv, Table, ListingMatchesControls, Quiet
    <2>5. Card'
      BY <1>1, <1>5, CardStays DEF Inv
    <2> QED
      BY <1>4, <2>2, <2>3, <2>4, <2>5 DEF Inv
  <1>6. ASSUME NEW answer \in Selects, stats' = [stats EXCEPT ![q] = answer],
               answer.at # "free", answer.page = stats[q].page, answer.all = stats[q].all,
               answer.ids = stats[q].ids, stats[q].asOf # Null => answer.asOf = stats[q].asOf,
               answer.rows \subseteq Stored, listing' = listing
        PROVE  Inv'
    <2>1. /\ stats' \in [Requests -> Selects] /\ stats'[q] = answer
          /\ \A s \in Requests : s # q => stats'[s] = stats[s]
      BY <1>6 DEF Inv, Typed
    <2>2. Typed'
      BY <1>1, <1>6, <2>1 DEF Inv, Typed, FileType
    <2>3. Known'
      BY <1>1, <1>2, <1>6, <2>1 DEF Inv, Known
    <2>4. Table'
      BY <1>1, <1>6, TableStays DEF Inv
    <2>5. Card'
      BY <1>1, <1>6, <2>1 DEF Inv, Card
    <2> QED
      BY <1>4, <2>2, <2>3, <2>4, <2>5 DEF Inv
  <1>7. listing[q].rows \subseteq Stored /\ stats[q].rows \subseteq Stored
    BY DEF Inv, Known
  <1>8. CASE /\ \/ listing' = [listing EXCEPT ![q] = CountListing(listing[q])]
                \/ listing' = [listing EXCEPT ![q] = ListRows(listing[q])]
             /\ stats' = stats
    BY <1>3, <1>5, <1>7, <1>8, ListingServed, Zenon
  <1>9. CASE stats' = [stats EXCEPT ![q] = CutOff(stats[q])] /\ listing' = listing
    <2> DEFINE answer == CutOff(stats[q])
    <2>1. /\ answer \in Selects /\ answer.at = "cut" /\ answer.page = stats[q].page
          /\ answer.all = stats[q].all /\ answer.ids = stats[q].ids
          /\ answer.rows = stats[q].rows
          /\ stats[q].asOf # Null => answer.asOf = stats[q].asOf
      BY <1>3, StatsServed, Zenon
    <2> HIDE DEF answer
    <2> QED
      BY <1>6, <1>7, <1>9, <2>1 DEF answer
  <1>10. CASE \E answer \in {CountStats(stats[q]), ListStats(stats[q])} :
              stats' = [stats EXCEPT ![q] = answer] /\ listing' = listing
    <2>1. PICK answer \in {CountStats(stats[q]), ListStats(stats[q])} :
              stats' = [stats EXCEPT ![q] = answer] /\ listing' = listing
      BY <1>10
    <2>2. /\ answer \in Selects /\ answer.at \in {"counted", "answered"}
          /\ answer.page = stats[q].page /\ answer.all = stats[q].all
          /\ answer.ids = stats[q].ids /\ answer.asOf = stats[q].asOf
          /\ answer.rows \subseteq Stored
      <3>1. CASE answer = CountStats(stats[q])
        BY <1>3, <1>7, <3>1, StatsServed, Zenon
      <3>2. CASE answer = ListStats(stats[q])
        BY <1>3, <3>2, StatsServed, Zenon
      <3> QED
        BY <3>1, <3>2
    <2> QED
      BY <1>6, <2>1, <2>2
  <1> QED
    BY <1>8, <1>9, <1>10 DEF Serve

-----------------------------------------------------------------------------
(* The theorems.                                                           *)

LEMMA InvInit == Init => Inv
  <1> SUFFICES ASSUME Init PROVE Inv
    OBVIOUS
  <1>1. /\ page = 1 /\ order = "desc" /\ statsPage = 1 /\ statsPages = 0
        /\ listing = [q \in Requests |-> NoListing] /\ items = NoListing
        /\ stats = [q \in Requests |-> NoStats] /\ snapshot = NoStats /\ result = NoStats
        /\ latestListing = NoRequest /\ latestStats = NoRequest /\ table = "rows"
        /\ selected = {} /\ selectAll = FALSE /\ noticeHidden = TRUE /\ statsFailed = FALSE
        /\ file = [r \in Rows |-> "new"]
    BY DEF Init
  <1>2. NoListing.rows = {} /\ NoStats.rows = {} /\ NoStats.ids = {} /\ NoStats.all = FALSE
    BY DEF NoListing, NoStats
  <1>3. 1 \in Nat \ {0} /\ 0 \in Nat /\ "desc" \in Orders
    BY DEF Orders
  <1>4. Typed
    BY <1>1, <1>3, NothingIsTyped DEF Typed, FileType
  <1>5. Known
    BY <1>1, <1>2 DEF Known
  <1>6. Table
    BY <1>1 DEF Table, ListingMatchesControls
  <1>7. Card
    BY <1>1 DEF Card
  <1>8. Notice
    <2>1. ~Calculated
      BY <1>1, <1>2 DEF Calculated
    <2> QED
      BY <1>1, <2>1 DEF Notice
  <1> QED
    BY <1>4, <1>5, <1>6, <1>7, <1>8 DEF Inv

LEMMA InvKept == Inv /\ [Next]_vars => Inv'
  <1> SUFFICES ASSUME Inv, [Next]_vars PROVE Inv'
    OBVIOUS
  <1>1. CASE UNCHANGED vars
    <2>1. UNCHANGED <<page, order, listing, latestListing, items, table, selected, selectAll,
                      noticeHidden, snapshot, statsPage, statsPages, stats, latestStats,
                      result, statsFailed, file>>
      BY <1>1 DEF vars
    <2>2. Typed' /\ Known'
      BY <2>1 DEF Inv, Typed, Known, FileType, Stored
    <2>3. Table' /\ Card' /\ Notice'
      BY <2>1, TableStays, CardStays, NoticeStays DEF Inv
    <2> QED
      BY <2>2, <2>3 DEF Inv
  <1> QED
    BY <1>1, FilesKeep, BoxesKeep, LoadsKeep, CalculateKeeps, TurnStatsKeeps, ServeKeeps,
       ListingAnsweredKeeps, ListingFailedKeeps, StatsAnsweredKeeps, StatsFailedKeeps, Zenon DEF Next

\* What every state of the page satisfies: the page and its requests agree on what is due.
THEOREM ScreenInvariant == Spec => []Inv
  <1> QED
    BY InvInit, InvKept, PTL DEF Spec

\* Only what is stored is selected, calculated or shown, and no page below the first is
\* asked for.
THEOREM FilesTyping == Spec => []TypeOK
  <1>1. Inv => TypeOK
    BY DEF Inv, Typed, Known, TypeOK, Listings, Selects
  <1> QED
    BY <1>1, ScreenInvariant, PTL

\* The table shows the page and the order of its controls.
THEOREM ListingHolds == Spec => []ListingMatchesControls
  <1>1. Inv => ListingMatchesControls
    BY DEF Inv, Table
  <1> QED
    BY <1>1, ScreenInvariant, PTL

\* The statistics shown are those of the snapshot, at its cut-off.
THEOREM ShownHolds == Spec => []ShownBelongsToSnapshot
  <1>1. Inv => ShownBelongsToSnapshot
    BY DEF Inv, Card, ShownBelongsToSnapshot, Quiet, Asked
  <1> QED
    BY <1>1, ScreenInvariant, PTL

\* Without a notice, the statistics are those of the boxes.
THEOREM NoticeHolds == Spec => []NoticeIsTrue
  <1>1. Inv => NoticeIsTrue
    BY DEF Inv, Card, Notice, NoticeIsTrue, Quiet, Matches
  <1> QED
    BY <1>1, ScreenInvariant, PTL

\* A snapshot gets one cut-off and keeps it, until another selection is calculated.
THEOREM OneCutOffHolds == Spec => OneCutOff
  <1> DEFINE Keeps == snapshot.asOf # Null /\ snapshot'.asOf # snapshot.asOf
                         => snapshot'.asOf = Null
  <1>1. Inv /\ [Next]_vars => [Keeps]_vars
    <2> SUFFICES ASSUME Inv, Next PROVE Keeps
      OBVIOUS
    <2>1. ASSUME snapshot' = snapshot PROVE Keeps
      BY <2>1
    <2>2. CASE Calculate
      <3>1. snapshot' = [NoStats EXCEPT !.all = selectAll,
                                        !.ids = IF selectAll THEN {} ELSE selected]
        BY <2>2 DEF Calculate, LoadStats
      <3>2. snapshot'.asOf = Null
        BY <3>1, NothingIsTyped DEF NoStats, Selects
      <3> QED
        BY <3>2
    <2>3. ASSUME NEW q \in Requests, StatsAnswered(q) PROVE Keeps
      <3>1. CASE latestStats = q
        <4>1. snapshot' = [snapshot EXCEPT !.asOf = stats[q].asOf, !.pending = stats[q].pending]
          BY <2>3, <3>1 DEF StatsAnswered, IsLatest
        <4>2. snapshot'.asOf = stats[q].asOf
          BY <4>1 DEF Inv, Typed, Selects
        <4> QED
          BY <3>1, <4>2 DEF Inv, Card
      <3>2. CASE latestStats # q
        BY <2>1, <2>3, <3>2 DEF StatsAnswered, IsLatest
      <3> QED
        BY <3>1, <3>2
    <2>4. CASE FilesStep /\ UNCHANGED <<tableVars, selectionVars, noticeHidden, statsVars, clicks>>
      BY <2>1, <2>4 DEF statsVars
    <2>5. CASE SelectPage \/ SetSelectAll \/ ClearSelection \/ \E r \in Rows : Toggle(r)
      <3>1. UNCHANGED statsVars
        BY <2>5, Zenon DEF SelectPage, SetSelectAll, ClearSelection, Toggle, RenderAgain
      <3> QED
        BY <2>1, <3>1 DEF statsVars
    <2>6. CASE EnterScreen \/ ChangeOrder \/ \E step \in {-1, 1} : Turn(step)
      <3>1. UNCHANGED statsVars
        BY <2>6, Zenon DEF EnterScreen, ChangeOrder, Turn, Load
      <3> QED
        BY <2>1, <3>1 DEF statsVars
    <2>7. ASSUME NEW step \in {-1, 1}, TurnStats(step) PROVE Keeps
      BY <2>1, <2>7 DEF TurnStats, LoadStats
    <2>8. ASSUME NEW q \in Requests, Serve(q) \/ StatsFailed(q) PROVE Keeps
      BY <2>1, <2>8 DEF Serve, StatsFailed
    <2>9. ASSUME NEW q \in Requests, ListingAnswered(q) \/ ListingFailed(q) PROVE Keeps
      <3>1. UNCHANGED statsVars
        BY <2>9, Zenon DEF ListingAnswered, ListingFailed
      <3> QED
        BY <2>1, <3>1 DEF statsVars
    <2> HIDE DEF Keeps
    <2> QED
      BY <2>2, <2>3, <2>4, <2>5, <2>6, <2>7, <2>8, <2>9, Zenon DEF Next
  <1> QED
    BY <1>1, ScreenInvariant, PTL DEF Spec, OneCutOff

-----------------------------------------------------------------------------
(* The length of a page.                                                   *)

Before(r, s, o) == IF o = "asc" THEN r <= s ELSE r >= s

\* The rows of a list have different positions.
LEMMA RankGrows ==
    ASSUME NEW S \in SUBSET Rows, NEW o \in Orders, NEW r \in S, NEW s \in S,
           r # s, Before(r, s, o)
    PROVE  Rank(r, S, o) < Rank(s, S, o)
  <1> DEFINE A(t) == {u \in S : IF o = "asc" THEN u <= t ELSE u >= t}
  <1>1. r \in Int /\ s \in Int /\ S \subseteq Int
    BY SMT DEF Rows
  <1>2. A(r) \subseteq A(s) /\ s \in A(s) /\ s \notin A(r)
    <2>1. CASE o = "asc"
      <3>1. r <= s /\ ~(s <= r)
        BY <1>1, <2>1, SMT DEF Before
      <3>2. /\ A(r) = {u \in S : u <= r}
            /\ A(s) = {u \in S : u <= s}
            /\ s <= s
        BY <1>1, <2>1
      <3>3. \A u \in S : u <= r => u <= s
        BY <1>1, <3>1, SMT
      <3> HIDE DEF A
      <3> QED
        BY <3>1, <3>2, <3>3
    <2>2. CASE o = "desc"
      <3>1. r >= s /\ ~(s >= r)
        BY <1>1, <2>2, SMT DEF Before
      <3>2. /\ A(r) = {u \in S : u >= r}
            /\ A(s) = {u \in S : u >= s}
            /\ s >= s
        BY <1>1, <2>2
      <3>3. \A u \in S : u >= r => u >= s
        BY <1>1, <3>1, SMT
      <3> HIDE DEF A
      <3> QED
        BY <3>1, <3>2, <3>3
    <2> QED
      BY <2>1, <2>2 DEF Orders
  <1>3. IsFiniteSet(A(s)) /\ A(s) \subseteq Rows /\ A(r) \subseteq Rows
    <2>1. IsFiniteSet(Rows)
      BY FS_Interval, SMT DEF Rows
    <2> QED
      BY <2>1, FS_Subset
  <1>4. Cardinality(A(r)) \in Nat /\ Cardinality(A(s)) \in Nat
    BY <1>3, RowsFinite
  <1>5. Cardinality(A(r)) <= Cardinality(A(s)) /\ Cardinality(A(r)) # Cardinality(A(s))
    <2> HIDE DEF A
    <2> QED
      BY <1>2, <1>3, FS_Subset
  <1>6. Rank(r, S, o) = Cardinality(A(r)) /\ Rank(s, S, o) = Cardinality(A(s))
    BY DEF Rank
  <1> HIDE DEF A
  <1> QED
    BY <1>4, <1>5, <1>6, SMT

\* The positions are those from 1 to the number of rows.
LEMMA RanksAreDense ==
    ASSUME NEW S \in SUBSET Rows, NEW o \in Orders
    PROVE  /\ Cardinality(S) \in Nat
           /\ \A r \in S : Rank(r, S, o) \in 1..Cardinality(S)
           /\ \A k \in 1..Cardinality(S) : \E r \in S : Rank(r, S, o) = k
  <1> DEFINE f == [r \in S |-> Rank(r, S, o)]
             n == Cardinality(S)
  <1>1. n \in Nat /\ IsFiniteSet(S)
    <2>1. IsFiniteSet(Rows)
      BY FS_Interval, SMT DEF Rows
    <2> QED
      BY <2>1, RowsFinite, FS_Subset
  <1>2. ASSUME NEW r \in S PROVE Rank(r, S, o) \in 1..n
    <2> DEFINE A == {u \in S : IF o = "asc" THEN u <= r ELSE u >= r}
    <2>1. r \in A /\ A \in SUBSET S
      BY SMT DEF Rows
    <2>2. Rank(r, S, o) = Cardinality(A)
      BY DEF Rank
    <2> HIDE DEF A
    <2>3. IsFiniteSet(A) /\ Cardinality(A) <= n
      BY <1>1, <2>1, FS_Subset
    <2>4. Cardinality(A) \in Nat /\ Cardinality(A) # 0
      BY <2>1, <2>3, FS_CardinalityType, FS_EmptySet
    <2> HIDE DEF n
    <2> QED
      BY <1>1, <2>2, <2>3, <2>4, SMT
  <1>3. \A r, s \in S : f[r] = f[s] => r = s
    <2> SUFFICES ASSUME NEW r \in S, NEW s \in S, Rank(r, S, o) = Rank(s, S, o), r # s
                 PROVE  FALSE
      BY Zenon
    <2>1. Before(r, s, o) \/ Before(s, r, o)
      BY SMT DEF Before, Rows
    <2>2. Rank(r, S, o) \in Int /\ Rank(s, S, o) \in Int
      BY <1>1, <1>2, SMT
    <2>3. Rank(r, S, o) < Rank(s, S, o) \/ Rank(s, S, o) < Rank(r, S, o)
      BY <2>1, RankGrows
    <2> QED
      BY <2>2, <2>3, SMT
  <1>4. f \in Injection(S, 1..n)
    <2> HIDE DEF n
    <2> QED
      BY <1>2, <1>3, Zenon DEF Injection, IsInjective
  <1>5. IsFiniteSet(1..n) /\ Cardinality(1..n) = n
    <2> HIDE DEF n
    <2>1. 1 \in Int /\ n \in Int /\ (IF 1 > n THEN 0 ELSE n - 1 + 1) = n
      BY <1>1, SMT
    <2> QED
      BY <2>1, FS_Interval
  <1>6. f \in Surjection(S, 1..n)
    BY <1>4, <1>5, FS_Injection
  <1>7. \A k \in 1..n : \E r \in S : f[r] = k
    BY <1>6, Zenon DEF Surjection
  <1> QED
    BY <1>1, <1>2, <1>7, Zenon

Full(q) ==
    LET ahead == q.total - (q.page - 1) * PageSize IN
    Cardinality(q.rows) >= IF ahead < PageSize THEN ahead ELSE PageSize

\* A page of a list has all its rows.
LEMMA PagesAreFull ==
    ASSUME NEW S \in SUBSET Rows, NEW o \in Orders, NEW p \in Nat \ {0}, NEW total \in Nat,
           total <= Cardinality(S)
    PROVE  Cardinality(PageOf(S, o, p)) >=
              IF total - (p - 1) * PageSize < PageSize
              THEN total - (p - 1) * PageSize ELSE PageSize
  <1> DEFINE n == Cardinality(S)
             off == (p - 1) * PageSize
             b == IF total < off + PageSize THEN total ELSE off + PageSize
             P == PageOf(S, o, p)
             Q == {r \in S : Rank(r, S, o) \in (off + 1)..b}
             g == [r \in Q |-> Rank(r, S, o)]
  <1>1. n \in Nat /\ off \in Nat /\ b \in Nat /\ b <= n /\ PageSize \in Nat \ {0}
        /\ total \in Nat /\ total <= n
    <2>1. n \in Nat
      BY RowsFinite
    <2>2. off \in Nat
      BY SMT
    <2> QED
      BY <2>1, <2>2, SMT
  <1>2. P \subseteq S /\ P \in SUBSET Rows /\ Cardinality(P) \in Nat
    BY RowsFinite DEF PageOf
  <1>3. Q \subseteq P
    <2> SUFFICES ASSUME NEW r \in S, Rank(r, S, o) \in (off + 1)..b
                 PROVE  (Rank(r, S, o) - 1) \div PageSize = p - 1
      BY Zenon DEF PageOf
    <2>1. Rank(r, S, o) \in Nat
      BY <1>1, RanksAreDense, SMT
    <2> DEFINE x == Rank(r, S, o) - 1
    <2> HIDE DEF off
    <2>2. off <= x /\ x < off + PageSize /\ x \in Nat
      BY <1>1, <2>1, SMT
    <2>3. off = (p - 1) * PageSize
      BY DEF off
    <2> HIDE DEF x
    <2>4. PICK k \in Nat : k = x - off
      BY <1>1, <2>2, SMT
    <2>5. x = (p - 1) * PageSize + k /\ k < PageSize
      BY <1>1, <2>2, <2>3, <2>4, SMT
    <2>6. x \div PageSize = p - 1
      BY <2>5, SMT
    <2> QED
      BY <2>6 DEF x
  <1>4. g \in Surjection(Q, (off + 1)..b)
    <2> HIDE DEF off, b
    <2>1. g \in [Q -> (off + 1)..b]
      BY Zenon
    <2>2. ASSUME NEW k \in (off + 1)..b PROVE \E r \in Q : g[r] = k
      <3>1. k \in 1..n
        BY <1>1, <2>2, SMT
      <3>2. PICK r \in S : Rank(r, S, o) = k
        BY <3>1, RanksAreDense
      <3> QED
        BY <2>2, <3>2, Zenon
    <2> QED
      BY <2>1, <2>2, Zenon DEF Surjection
  <1>5. IsFiniteSet(P) /\ IsFiniteSet(Q) /\ Cardinality(Q) <= Cardinality(P)
    <2>1. IsFiniteSet(Rows)
      BY FS_Interval, SMT DEF Rows
    <2>2. IsFiniteSet(P)
      BY <1>2, <2>1, FS_Subset
    <2> HIDE DEF P, Q
    <2> QED
      BY <1>3, <2>2, FS_Subset
  <1>6. Cardinality((off + 1)..b) <= Cardinality(Q)
    BY <1>4, <1>5, FS_Surjection
  <1>7. Cardinality((off + 1)..b) = IF off + 1 > b THEN 0 ELSE b - (off + 1) + 1
    <2> HIDE DEF off, b
    <2>1. off + 1 \in Int /\ b \in Int
      BY <1>1, SMT
    <2> QED
      BY <2>1, FS_Interval
  <1>8. Cardinality(Q) \in Nat
    BY <1>5, FS_CardinalityType
  <1>9. b = IF total < off + PageSize THEN total ELSE off + PageSize
    BY DEF b
  <1> HIDE DEF off, b, n, Q, g
  <1>10. Cardinality(P) >= IF total - off < PageSize THEN total - off ELSE PageSize
    <2> HIDE DEF P
    <2> QED
      BY <1>1, <1>2, <1>5, <1>6, <1>7, <1>8, <1>9, SMT
  <1> QED
    BY <1>10 DEF off

-----------------------------------------------------------------------------
(* What a request was told, while rows go on being stored.                 *)

Visible(f)   == {r \in Rows : f[r] = "stored"}
Chosen(q, f) == {r \in Visible(f) : UntilCutOff(q, r)}

\* Stamps are given in order, and what has ended has ended.
InOrder(f)  == \A r, s \in Rows : r < s /\ f[s] # "new" => f[r] # "new"
Later(f, g) == \A r \in Rows : f[r] \in {"stored", "undone"} => g[r] = f[r]

\* Up to the cut-off everything has ended, if it had when the cut-off was chosen.
Decided(q, f) ==
    q.asOf # Null /\ q.pending = {}
        => \A r \in Rows : r <= q.asOf => f[r] \in {"stored", "undone"}

ListingPaged(q, f) ==
    /\ q.at = "counted" => q.total <= Cardinality(Visible(f))
    /\ q.at = "answered" => Full(q)

StatsPaged(q, f) ==
    /\ Decided(q, f)
    /\ q.at \in {"cut", "counted", "answered"} => q.asOf # Null
    /\ q.at = "counted" => q.total <= Cardinality(Chosen(q, f))
    /\ q.at \in {"counted", "answered"} /\ q.pending = {} => q.total = Cardinality(Chosen(q, f))
    /\ q.at = "answered" => Full(q)
    /\ q.at = "answered" /\ q.pending = {} => q.rows = PageOf(Chosen(q, f), "asc", q.page)

Paged ==
    /\ InOrder(file)
    /\ \A q \in Requests : ListingPaged(listing[q], file) /\ StatsPaged(stats[q], file)
    /\ Full(items) /\ Full(result)
    /\ StatsPaged(result, file) /\ (result # NoStats => result.at = "answered")
    /\ Decided(snapshot, file)

LEMMA ChosenCounts ==
    ASSUME NEW q, NEW f
    PROVE  /\ Chosen(q, f) \in SUBSET Rows /\ Visible(f) \in SUBSET Rows
           /\ IsFiniteSet(Chosen(q, f)) /\ IsFiniteSet(Visible(f))
           /\ Cardinality(Chosen(q, f)) \in Nat /\ Cardinality(Visible(f)) \in Nat
  <1>1. Chosen(q, f) \in SUBSET Rows /\ Visible(f) \in SUBSET Rows
    BY DEF Chosen, Visible
  <1>2. IsFiniteSet(Rows)
    BY FS_Interval, SMT DEF Rows
  <1> QED
    BY <1>1, <1>2, FS_Subset, RowsFinite

LEMMA LaterListing ==
    ASSUME NEW f, NEW g, Later(f, g), NEW q \in Listings, ListingPaged(q, f)
    PROVE  ListingPaged(q, g)
  <1>1. Visible(f) \subseteq Visible(g)
    BY DEF Later, Visible
  <1>2. Cardinality(Visible(f)) <= Cardinality(Visible(g))
    BY <1>1, ChosenCounts, FS_Subset
  <1>3. /\ Cardinality(Visible(f)) \in Nat /\ Cardinality(Visible(g)) \in Nat
        /\ q.total \in Nat
    BY ChosenCounts DEF Listings
  <1>4. q.at = "counted" => q.total <= Cardinality(Visible(g))
    BY <1>2, <1>3, SMT DEF ListingPaged
  <1> QED
    BY <1>4 DEF ListingPaged

LEMMA LaterDecided ==
    ASSUME NEW f, NEW g, Later(f, g), NEW q, Decided(q, f)
    PROVE  Decided(q, g)
  BY DEF Later, Decided

LEMMA LaterStats ==
    ASSUME NEW f, NEW g, Later(f, g), NEW q \in Selects, StatsPaged(q, f)
    PROVE  StatsPaged(q, g)
  <1>1. Decided(q, f) /\ Decided(q, g)
    BY LaterDecided DEF StatsPaged
  <1>2. Chosen(q, f) \subseteq Chosen(q, g)
    BY DEF Later, Chosen, Visible
  <1>3. Cardinality(Chosen(q, f)) <= Cardinality(Chosen(q, g))
    BY <1>2, ChosenCounts, FS_Subset
  <1>4. q.asOf # Null /\ q.pending = {} => Chosen(q, g) = Chosen(q, f)
    <2> SUFFICES ASSUME q.asOf # Null, q.pending = {}, NEW r \in Chosen(q, g)
                 PROVE  r \in Chosen(q, f)
      BY <1>2
    <2>1. r \in Rows /\ g[r] = "stored" /\ UntilCutOff(q, r) /\ r <= q.asOf
      BY DEF Chosen, Visible, UntilCutOff
    <2>2. f[r] = "stored"
      BY <1>1, <2>1 DEF Decided, Later
    <2> QED
      BY <2>1, <2>2 DEF Chosen, Visible
  <1>5. /\ Cardinality(Chosen(q, f)) \in Nat /\ Cardinality(Chosen(q, g)) \in Nat
        /\ q.total \in Nat
    BY ChosenCounts DEF Selects
  <1>6. q.at = "counted" => q.total <= Cardinality(Chosen(q, g))
    BY <1>3, <1>5, SMT DEF StatsPaged
  <1>7. q.at \in {"counted", "answered"} /\ q.pending = {}
           => q.total = Cardinality(Chosen(q, g)) /\ Chosen(q, g) = Chosen(q, f)
    BY <1>4 DEF StatsPaged
  <1> QED
    BY <1>1, <1>6, <1>7 DEF StatsPaged

LEMMA FilesMoveOn ==
    ASSUME Typed, InOrder(file), FilesStep
    PROVE  InOrder(file') /\ Later(file, file')
  <1>1. \A r \in Rows : file[r] \in {"new", "stored", "undone"} \cup Writers
    BY DEF Typed, FileType
  <1>2. ASSUME NEW w \in Writers, Commit(w) \/ Rollback(w)
        PROVE  InOrder(file') /\ Later(file, file')
    <2>1. PICK state \in {"stored", "undone"} :
             file' = [r \in Rows |-> IF file[r] = w THEN state ELSE file[r]]
      BY <1>2 DEF Commit, Rollback, End
    <2>2. w \notin {"new", "stored", "undone"}
      OBVIOUS
    <2>3. \A r \in Rows : (file'[r] = "new" <=> file[r] = "new")
                          /\ (file[r] \in {"stored", "undone"} => file'[r] = file[r])
      BY <2>1, <2>2
    <2> QED
      BY <2>3 DEF InOrder, Later
  <1>3. ASSUME NEW w \in Writers, NEW r \in Rows, Insert(r, w)
        PROVE  InOrder(file') /\ Later(file, file')
    <2>1. w \notin {"new", "stored", "undone"}
      OBVIOUS
    <2>2. /\ file[r] = "new" /\ file'[r] # "new"
          /\ \A s \in Rows : s # r => file'[s] = file[s]
          /\ \A s \in Rows : s < r => file[s] # "new"
      BY <1>3, <2>1 DEF Insert, Typed, FileType
    <2>3. Later(file, file')
      BY <2>2 DEF Later
    <2>4. InOrder(file')
      <3> SUFFICES ASSUME NEW s \in Rows, NEW t \in Rows, s < t, file'[t] # "new",
                          file'[s] = "new"
                   PROVE  FALSE
        BY DEF InOrder
      <3>1. s # r /\ file[s] = "new"
        BY <2>2
      <3>2. CASE t = r
        BY <2>2, <3>1, <3>2
      <3>3. CASE t # r
        BY <2>2, <3>1, <3>3 DEF InOrder
      <3> QED
        BY <3>2, <3>3
    <2> QED
      BY <2>3, <2>4
  <1> QED
    BY <1>2, <1>3 DEF FilesStep

\* A cut-off lies behind every stamp that was given, and no other.
LEMMA NowCovers ==
    ASSUME InOrder(file), NEW r \in Rows, r <= Now
    PROVE  file[r] # "new"
  <1> SUFFICES ASSUME file[r] = "new" PROVE FALSE
    OBVIOUS
  <1> DEFINE given == {s \in Rows : file[s] # "new"}
             below == 1..(r - 1)
  <1>1. given \subseteq below
    <2> SUFFICES ASSUME NEW s \in Rows, file[s] # "new" PROVE s \in 1..(r - 1)
      OBVIOUS
    <2>1. ~(r < s) /\ s # r
      BY DEF InOrder
    <2> QED
      BY <2>1, SMT DEF Rows
  <1>2. r \in Nat \ {0} /\ r - 1 \in Int /\ 1 \in Int
    BY SMT DEF Rows
  <1>3. IsFiniteSet(below) /\ Cardinality(below) = r - 1
    <2>1. (IF 1 > r - 1 THEN 0 ELSE r - 1 - 1 + 1) = r - 1
      BY <1>2, SMT
    <2> QED
      BY <1>2, <2>1, FS_Interval
  <1>4. Cardinality(given) <= Cardinality(below)
    <2> HIDE DEF given, below
    <2> QED
      BY <1>1, <1>3, FS_Subset
  <1>5. Now = Cardinality(given) /\ Now \in Int
    BY NowType, SMT DEF Now, Times
  <1> HIDE DEF given, below
  <1> QED
    BY <1>2, <1>3, <1>4, <1>5, SMT

-----------------------------------------------------------------------------
(* The statements of the service.                                          *)

LEMMA ListingCounted ==
    ASSUME FileType, NEW q \in Listings
    PROVE  ListingPaged(CountListing(q), file)
  <1>1. Visible(file) = Stored
    BY DEF Visible, Stored
  <1>2. CountListing(q).at = "counted" /\ CountListing(q).total = Cardinality(Stored)
    BY DEF CountListing, Listings
  <1>3. Cardinality(Stored) \in Nat
    BY <1>1, ChosenCounts
  <1> QED
    BY <1>1, <1>2, <1>3, SMT DEF ListingPaged

LEMMA ListingListed ==
    ASSUME FileType, NEW q \in Listings, q.at = "counted", ListingPaged(q, file)
    PROVE  ListingPaged(ListRows(q), file)
  <1>1. Visible(file) = Stored /\ Stored \in SUBSET Rows
    BY DEF Visible, Stored
  <1> DEFINE a == ListRows(q)
  <1>2. /\ a.at = "answered" /\ a.total = q.total /\ a.page = q.page
        /\ a.rows = PageOf(Stored, q.order, q.page)
    BY DEF ListRows, Listings
  <1>3. q.total \in Nat /\ q.page \in Nat \ {0} /\ q.order \in Orders
        /\ q.total <= Cardinality(Stored)
    BY <1>1 DEF Listings, ListingPaged
  <1> HIDE DEF a
  <1>4. Full(a)
    BY <1>1, <1>2, <1>3, PagesAreFull DEF Full
  <1> QED
    BY <1>2, <1>4 DEF ListingPaged, a

LEMMA StatsCutOff ==
    ASSUME FileType, InOrder(file), NEW q \in Selects, q.at = "sent", StatsPaged(q, file)
    PROVE  StatsPaged(CutOff(q), file)
  <1> DEFINE a == CutOff(q)
  <1>1. /\ a.at = "cut" /\ a.asOf = (IF q.asOf = Null THEN Now ELSE q.asOf)
        /\ a.pending = IF q.asOf = Null THEN Pending ELSE q.pending
    BY DEF CutOff, Selects
  <1>2. Now # Null
    BY NowType, SMT DEF Times, Null
  <1> HIDE DEF a
  <1>3. Decided(a, file)
    <2>1. CASE q.asOf # Null
      BY <1>1, <2>1 DEF StatsPaged, Decided
    <2>2. CASE q.asOf = Null
      <3> SUFFICES ASSUME Pending = {}, NEW r \in Rows, r <= Now
                   PROVE  file[r] \in {"stored", "undone"}
        BY <1>1, <2>2 DEF Decided
      <3>1. file[r] # "new" /\ file[r] \notin Writers
        BY NowCovers DEF Pending
      <3> QED
        BY <3>1 DEF FileType
    <2> QED
      BY <2>1, <2>2
  <1> QED
    BY <1>1, <1>2, <1>3 DEF StatsPaged, a

\* The condition of a request asks for its selection and its cut-off only.
LEMMA SameChosen ==
    ASSUME NEW q, NEW a, a.all = q.all, a.ids = q.ids, a.asOf = q.asOf
    PROVE  Chosen(a, file) = Chosen(q, file) /\ Selection(q, Stored) = Chosen(q, file)
  BY DEF Chosen, Visible, Selection, Stored, UntilCutOff

LEMMA StatsCounted ==
    ASSUME FileType, NEW q \in Selects, q.at = "cut", StatsPaged(q, file)
    PROVE  StatsPaged(CountStats(q), file)
  <1> DEFINE a == CountStats(q)
  <1>1. /\ a.at = "counted" /\ a.all = q.all /\ a.ids = q.ids /\ a.asOf = q.asOf
        /\ a.pending = q.pending /\ a.total = Cardinality(Selection(q, Stored))
    BY DEF CountStats, Selects
  <1> HIDE DEF a
  <1>2. a.total = Cardinality(Chosen(a, file)) /\ a.total \in Nat
    BY <1>1, SameChosen, ChosenCounts
  <1>3. a.total <= Cardinality(Chosen(a, file))
    BY <1>2, SMT
  <1>4. Decided(a, file) /\ a.asOf # Null
    BY <1>1 DEF StatsPaged, Decided
  <1> QED
    BY <1>1, <1>2, <1>3, <1>4 DEF StatsPaged, a

LEMMA StatsListed ==
    ASSUME FileType, NEW q \in Selects, q.at = "counted", StatsPaged(q, file)
    PROVE  StatsPaged(ListStats(q), file)
  <1> DEFINE a == ListStats(q)
  <1>1. /\ a.at = "answered" /\ a.all = q.all /\ a.ids = q.ids /\ a.asOf = q.asOf
        /\ a.pending = q.pending /\ a.total = q.total /\ a.page = q.page
        /\ a.rows = PageOf(Selection(q, Stored), "asc", q.page)
    BY DEF ListStats, Listed, Selects
  <1> HIDE DEF a
  <1>2. Chosen(a, file) = Chosen(q, file) /\ Selection(q, Stored) = Chosen(q, file)
    BY <1>1, SameChosen
  <1>3. /\ q.total \in Nat /\ q.page \in Nat \ {0} /\ "asc" \in Orders
        /\ q.total <= Cardinality(Chosen(q, file)) /\ Chosen(q, file) \in SUBSET Rows
    BY ChosenCounts DEF StatsPaged, Selects, Orders
  <1>4. Full(a)
    BY <1>1, <1>2, <1>3, PagesAreFull DEF Full
  <1>5. Decided(a, file) /\ a.asOf # Null
    BY <1>1 DEF StatsPaged, Decided
  <1>6. a.pending = {} => a.total = Cardinality(Chosen(a, file))
    BY <1>1, <1>2 DEF StatsPaged
  <1> QED
    BY <1>1, <1>2, <1>4, <1>5, <1>6 DEF StatsPaged, a

-----------------------------------------------------------------------------
(* The steps.                                                              *)

LEMMA FreeIsPaged ==
    /\ \A f : ListingPaged(NoListing, f) /\ StatsPaged(NoStats, f)
    /\ Full(NoListing) /\ Full(NoStats)
  <1>1. /\ NoListing.at = "free" /\ NoStats.at = "free" /\ NoStats.asOf = Null
        /\ NoListing.rows = {} /\ NoListing.total = 0 /\ NoListing.page = 1
        /\ NoStats.rows = {} /\ NoStats.total = 0 /\ NoStats.page = 1
    BY DEF NoListing, NoStats
  <1>2. Full(NoListing) /\ Full(NoStats)
    <2>1. Cardinality({}) = 0
      BY FS_EmptySet
    <2>2. 0 - (1 - 1) * PageSize = 0
      BY SMT
    <2> QED
      BY <1>1, <2>1, <2>2, SMT DEF Full
  <1> QED
    BY <1>1, <1>2 DEF ListingPaged, StatsPaged, Decided

LEMMA FilesPaged ==
    ASSUME Inv, Paged, FilesStep, UNCHANGED <<tableVars, selectionVars, noticeHidden, statsVars, clicks>>
    PROVE  Paged'
  <1>1. UNCHANGED <<listing, items, snapshot, stats, result>>
    BY DEF tableVars, statsVars
  <1>2. InOrder(file') /\ Later(file, file')
    BY FilesMoveOn DEF Inv, Paged
  <1>3. \A q \in Requests : ListingPaged(listing[q], file') /\ StatsPaged(stats[q], file')
    BY <1>2, LaterListing, LaterStats DEF Paged, Inv, Typed
  <1>4. StatsPaged(result, file') /\ Decided(snapshot, file')
    BY <1>2, LaterStats, LaterDecided DEF Paged, Inv, Typed
  <1>5. InOrder(file)' /\ Full(items)' /\ Full(result)' /\ (result # NoStats => result.at = "answered")'
    BY <1>1, <1>2 DEF Paged, InOrder, Full
  <1> QED
    BY <1>1, <1>2, <1>3, <1>4, <1>5 DEF Paged

\* Any other step changes what some requests and the page know, and nothing else.
LEMMA OthersPaged ==
    ASSUME Paged, file' = file,
           \/ listing' = listing
           \/ \A q \in Requests : listing'[q] = listing[q] \/ ListingPaged(listing'[q], file),
           \/ stats' = stats
           \/ \A q \in Requests : stats'[q] = stats[q] \/ StatsPaged(stats'[q], file),
           items' = items \/ Full(items'),
           \/ result' = result
           \/ Full(result') /\ StatsPaged(result', file) /\ result'.at = "answered",
           snapshot' = snapshot \/ Decided(snapshot', file)
    PROVE  Paged'
  <1>1. \A q \in Requests : ListingPaged(listing'[q], file') /\ StatsPaged(stats'[q], file')
    BY DEF Paged
  <1>2. Full(items') /\ Full(result') /\ StatsPaged(result', file')
        /\ (result' # NoStats => result'.at = "answered") /\ Decided(snapshot', file')
    BY DEF Paged
  <1>3. InOrder(file')
    BY DEF Paged
  <1> QED
    BY <1>1, <1>2, <1>3
       DEF Paged, ListingPaged, StatsPaged, Full, InOrder, Decided, Chosen, Visible, UntilCutOff

LEMMA BoxesPaged ==
    ASSUME Paged, SelectPage \/ SetSelectAll \/ ClearSelection \/ \E r \in Rows : Toggle(r)
    PROVE  Paged'
  <1>1. CASE RenderAgain
    BY <1>1, OthersPaged DEF RenderAgain, statsVars
  <1>2. CASE \E r \in Rows : Toggle(r)
    BY <1>2, OthersPaged DEF Toggle, tableVars, statsVars
  <1> QED
    BY <1>1, <1>2 DEF SelectPage, SetSelectAll, ClearSelection

LEMMA LoadPaged ==
    ASSUME Inv, Paged, NEW p, NEW o, Load(p, o)
    PROVE  Paged'
  <1> DEFINE asked == [NoListing EXCEPT !.at = "sent", !.page = p, !.order = o]
  <1>1. asked.at = "sent"
    BY DEF NoListing
  <1>2. PICK q \in Requests : listing' = [listing EXCEPT ![q] = asked]
    BY DEF Load
  <1>3. UNCHANGED <<file, items, snapshot, stats, result>>
    BY DEF Load, statsVars
  <1> HIDE DEF asked
  <1>4. ListingPaged(asked, file)
    BY <1>1 DEF ListingPaged
  <1>5. \A s \in Requests : listing'[s] = listing[s] \/ ListingPaged(listing'[s], file)
    BY <1>2, <1>4 DEF Inv, Typed
  <1> QED
    BY <1>3, <1>5, OthersPaged

LEMMA ListingAnsweredPaged ==
    ASSUME Inv, Paged, NEW q \in Requests, ListingAnswered(q)
    PROVE  Paged'
  <1>1. file' = file /\ UNCHANGED <<snapshot, stats, result>>
    BY DEF ListingAnswered, statsVars
  <1>2. \A s \in Requests : listing'[s] = listing[s] \/ ListingPaged(listing'[s], file)
    BY FreeIsPaged DEF ListingAnswered, Inv, Typed
  <1>3. items' = items \/ items' = listing[q]
    BY DEF ListingAnswered
  <1>4. Full(listing[q])
    BY DEF ListingAnswered, Paged, ListingPaged
  <1> QED
    BY <1>1, <1>2, <1>3, <1>4, OthersPaged

LEMMA ListingFailedPaged ==
    ASSUME Inv, Paged, NEW q \in Requests, ListingFailed(q)
    PROVE  Paged'
  <1>1. UNCHANGED <<file, items, snapshot, stats, result>>
    BY DEF ListingFailed, statsVars
  <1>2. \A s \in Requests : listing'[s] = listing[s] \/ ListingPaged(listing'[s], file)
    BY FreeIsPaged DEF ListingFailed, Inv, Typed
  <1> QED
    BY <1>1, <1>2, OthersPaged

LEMMA LoadStatsPaged ==
    ASSUME Inv, Paged, NEW snap \in Selects, NEW number, Decided(snap, file), LoadStats(snap, number)
    PROVE  Paged'
  <1> DEFINE asked == [Carried(snap) EXCEPT !.at = "sent", !.page = number]
  <1>1. asked.at = "sent" /\ asked.asOf = snap.asOf /\ asked.pending = snap.pending
    BY DEF Carried, Selects
  <1>2. PICK q \in Requests : stats' = [stats EXCEPT ![q] = asked]
    BY DEF LoadStats
  <1>3. UNCHANGED <<file, items, listing, result>> /\ snapshot' = snap
    BY DEF LoadStats, tableVars
  <1> HIDE DEF asked
  <1>4. StatsPaged(asked, file)
    BY <1>1 DEF StatsPaged, Decided
  <1>5. \A s \in Requests : stats'[s] = stats[s] \/ StatsPaged(stats'[s], file)
    BY <1>2, <1>4 DEF Inv, Typed
  <1> QED
    BY <1>3, <1>5, OthersPaged

LEMMA CalculatePaged == ASSUME Inv, Paged, Calculate PROVE Paged'
  <1> DEFINE ids  == IF selectAll THEN {} ELSE selected
             snap == [NoStats EXCEPT !.all = selectAll, !.ids = ids]
  <1>1. ids \in SUBSET Rows /\ selectAll \in BOOLEAN
    BY DEF Inv, Typed
  <1>2. LoadStats(snap, 1)
    BY DEF Calculate
  <1> HIDE DEF ids
  <1>3. snap \in Selects /\ snap.asOf = Null
    <2>1. NoStats.asOf = Null
      BY DEF NoStats
    <2> QED
      BY <1>1, <2>1, NothingIsTyped DEF Selects
  <1> HIDE DEF snap
  <1>4. Decided(snap, file)
    BY <1>3 DEF Decided
  <1> QED
    BY <1>2, <1>3, <1>4, LoadStatsPaged

LEMMA StatsAnsweredPaged ==
    ASSUME Inv, Paged, NEW q \in Requests, StatsAnswered(q)
    PROVE  Paged'
  <1>1. UNCHANGED <<file, items, listing>>
    BY DEF StatsAnswered, tableVars
  <1>2. \A s \in Requests : stats'[s] = stats[s] \/ StatsPaged(stats'[s], file)
    BY FreeIsPaged DEF StatsAnswered, Inv, Typed
  <1>3. StatsPaged(stats[q], file) /\ stats[q].at = "answered"
    BY DEF StatsAnswered, Paged
  <1>4. Full(stats[q]) /\ Decided(stats[q], file)
    BY <1>3 DEF StatsPaged
  <1>5. CASE IsLatest(latestStats, q)
    <2>1. /\ snapshot' = [snapshot EXCEPT !.asOf = stats[q].asOf, !.pending = stats[q].pending]
          /\ result' = stats[q]
      BY <1>5 DEF StatsAnswered
    <2>2. snapshot'.asOf = stats[q].asOf /\ snapshot'.pending = stats[q].pending
      BY <2>1 DEF Inv, Typed, Selects
    <2>3. Decided(snapshot', file)
      BY <1>4, <2>2 DEF Decided
    <2> QED
      BY <1>1, <1>2, <1>3, <1>4, <2>1, <2>3, OthersPaged
  <1>6. CASE ~IsLatest(latestStats, q)
    <2>1. UNCHANGED <<snapshot, result>>
      BY <1>6 DEF StatsAnswered
    <2> QED
      BY <1>1, <1>2, <2>1, OthersPaged
  <1> QED
    BY <1>5, <1>6

LEMMA StatsFailedPaged ==
    ASSUME Inv, Paged, NEW q \in Requests, StatsFailed(q)
    PROVE  Paged'
  <1>1. UNCHANGED <<file, items, listing, snapshot, result>>
    BY DEF StatsFailed, tableVars
  <1>2. \A s \in Requests : stats'[s] = stats[s] \/ StatsPaged(stats'[s], file)
    BY FreeIsPaged DEF StatsFailed, Inv, Typed
  <1> QED
    BY <1>1, <1>2, OthersPaged

LEMMA ServePaged == ASSUME Inv, Paged, NEW q \in Requests, Serve(q) PROVE Paged'
  <1>1. UNCHANGED <<file, items, snapshot, result>>
    BY DEF Serve
  <1>2. /\ listing[q] \in Listings /\ stats[q] \in Selects /\ FileType /\ InOrder(file)
        /\ ListingPaged(listing[q], file) /\ StatsPaged(stats[q], file)
    BY DEF Inv, Typed, Paged
  <1>3. ASSUME NEW answer, listing' = [listing EXCEPT ![q] = answer],
               ListingPaged(answer, file), stats' = stats
        PROVE  Paged'
    <2>1. \A s \in Requests : listing'[s] = listing[s] \/ ListingPaged(listing'[s], file)
      BY <1>3 DEF Inv, Typed
    <2> QED
      BY <1>1, <1>3, <2>1, OthersPaged
  <1>4. ASSUME NEW answer, stats' = [stats EXCEPT ![q] = answer],
               StatsPaged(answer, file), listing' = listing
        PROVE  Paged'
    <2>1. \A s \in Requests : stats'[s] = stats[s] \/ StatsPaged(stats'[s], file)
      BY <1>4 DEF Inv, Typed
    <2> QED
      BY <1>1, <1>4, <2>1, OthersPaged
  <1>5. CASE listing' = [listing EXCEPT ![q] = CountListing(listing[q])] /\ stats' = stats
    BY <1>2, <1>3, <1>5, ListingCounted
  <1>6. CASE /\ listing[q].at = "counted" /\ stats' = stats
             /\ listing' = [listing EXCEPT ![q] = ListRows(listing[q])]
    BY <1>2, <1>3, <1>6, ListingListed
  <1>7. CASE /\ stats[q].at = "sent" /\ listing' = listing
             /\ stats' = [stats EXCEPT ![q] = CutOff(stats[q])]
    BY <1>2, <1>4, <1>7, StatsCutOff
  <1>8. CASE /\ stats[q].at = "cut" /\ listing' = listing
             /\ stats' = [stats EXCEPT ![q] = CountStats(stats[q])]
    BY <1>2, <1>4, <1>8, StatsCounted
  <1>9. CASE /\ stats[q].at = "counted" /\ listing' = listing
             /\ stats' = [stats EXCEPT ![q] = ListStats(stats[q])]
    BY <1>2, <1>4, <1>9, StatsListed
  <1> QED
    BY <1>5, <1>6, <1>7, <1>8, <1>9 DEF Serve

LEMMA PagedInit == Init => Paged
  <1> SUFFICES ASSUME Init PROVE Paged
    OBVIOUS
  <1>1. /\ listing = [q \in Requests |-> NoListing] /\ items = NoListing
        /\ stats = [q \in Requests |-> NoStats] /\ snapshot = NoStats /\ result = NoStats
        /\ file = [r \in Rows |-> "new"]
    BY DEF Init
  <1>2. InOrder(file) /\ Decided(NoStats, file)
    BY <1>1, FreeIsPaged DEF InOrder, StatsPaged
  <1> QED
    BY <1>1, <1>2, FreeIsPaged DEF Paged

LEMMA PagedKept == Inv /\ Paged /\ [Next]_vars => Paged'
  <1> SUFFICES ASSUME Inv, Paged, [Next]_vars PROVE Paged'
    OBVIOUS
  <1>1. CASE UNCHANGED vars
    BY <1>1, OthersPaged DEF vars
  <1>2. ASSUME NEW p, NEW o, Load(p, o) PROVE Paged'
    BY <1>2, LoadPaged
  <1>3. CASE EnterScreen \/ ChangeOrder
    BY <1>2, <1>3 DEF EnterScreen, ChangeOrder
  <1>4. CASE \E step \in {-1, 1} : Turn(step)
    BY <1>2, <1>4 DEF Turn
  <1>5. CASE \E step \in {-1, 1} : TurnStats(step)
    <2>1. PICK step \in {-1, 1} : LoadStats(snapshot, statsPage + step)
      BY <1>5 DEF TurnStats
    <2>2. snapshot \in Selects /\ Decided(snapshot, file)
      BY DEF Inv, Typed, Paged
    <2> QED
      BY <2>1, <2>2, LoadStatsPaged
  <1> QED
    BY <1>1, <1>3, <1>4, <1>5, FilesPaged, BoxesPaged, CalculatePaged, ListingAnsweredPaged,
       ListingFailedPaged, StatsAnsweredPaged, StatsFailedPaged, ServePaged, Zenon DEF Next

LEMMA PagedHolds == Spec => []Paged
  <1> QED
    BY PagedInit, PagedKept, ScreenInvariant, InvInit, InvKept, PTL DEF Spec

\* A page of statistics depends on the snapshot alone, if nothing was open at its cut-off
\* (compute_stats, whenever it is asked).
THEOREM SettledPagesHold == Spec => []SettledPagesAgree
  <1>1. Paged => SettledPagesAgree
    <2> SUFFICES ASSUME Paged, result # NoStats, result.pending = {}
                 PROVE  /\ result.total = Cardinality(Chosen(result, file))
                        /\ result.rows = PageOf(Chosen(result, file), "asc", result.page)
      BY DEF SettledPagesAgree, Chosen, Visible, Stored, UntilCutOff
    <2> QED
      BY DEF Paged, StatsPaged
  <1> QED
    BY <1>1, PagedHolds, PTL

\* A page has as many rows as its total says, although rows come between its two statements.
THEOREM NoRowIsMissingHolds == Spec => []NoRowIsMissing
  <1>1. Paged => NoRowIsMissing
    BY DEF Paged, Full, NoRowIsMissing
  <1> QED
    BY <1>1, PagedHolds, PTL

=============================================================================
