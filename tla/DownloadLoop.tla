----------------------------- MODULE DownloadLoop -----------------------------
(***************************************************************************)
(* The download loop of the worker (app/worker/downloader.py) with its     *)
(* HTTP client (app/worker/client.py): ask for names, download a chunk,    *)
(* validate it, save it in one transaction, confirm it; isolate the chunk  *)
(* name by name when it is refused; stop when nothing converges.           *)
(*                                                                         *)
(* Several runs may be in it at once: one that has lost the lock goes on   *)
(* until its next ownership check, beside the run that took over.  They    *)
(* share the file table, whose unique index makes one wait for the other's *)
(* transaction, and the external service, which forgets nothing.           *)
(*                                                                         *)
(* A frame holds the local variables of one run's coroutines.  How the run *)
(* got the lock and what becomes of its row is RunLifecycle.               *)
(***************************************************************************)
EXTENDS Naturals, FiniteSets, Sequences

CONSTANTS
    Names,      \* the catalog of the external service
    Contents,   \* what a valid file can contain
    Runs,       \* runs of the download loop
    Absent,     \* no row in the file table
    Corrupt,    \* a row whose hash, length or counters disagree
    NoRun,      \* nobody owns the lock
    MAX_NAMES_PER_DOWNLOAD,
    single_404_attempts,
    max_stale_iterations,
    network_max_attempts

ASSUME RowsAreDistinct ==
    Absent \notin Contents /\ Corrupt \notin Contents /\ Absent # Corrupt

ASSUME CatalogIsFinite == IsFiniteSet(Names)

ASSUME LimitsArePositive ==
    /\ MAX_NAMES_PER_DOWNLOAD \in Nat \ {0}
    /\ single_404_attempts \in Nat \ {0}
    /\ max_stale_iterations \in Nat \ {0}
    /\ network_max_attempts \in Nat \ {0}

ASSUME NoRunIsNobody == NoRun \notin Runs

VARIABLES
    owner,    \* the run that owns the lock, or NoRun
    stored,   \* [Names -> committed row of the file table, or Absent]
    marked,   \* the names the service takes for downloaded
    late,     \* confirmations sent, given up, and still on their way
    frame     \* [Runs -> local variables of the run]

vars == <<owner, stored, marked, late, frame>>

Files == [name : Names, content : Contents]

Operations == {"get_names", "download", "mark_downloaded"}

\* Where the coroutines of a run stand, and why it failed if it did.
Places  == {"idle", "check", "send", "inflight", "insert", "commit", "next_name",
            "next_chunk", "over"}
Reasons == {"none", "unavailable", "stale", "stopped"}
Parsed  == Seq(Files)

Frames == [
    pc       : Places,
    reason   : Reasons,
    op       : Operations,       \* the operation _await_pauses is running
    attempt  : 0..network_max_attempts,    \* of _request
    todo     : SUBSET Names,     \* names of this iteration not yet in a chunk
    chunk    : SUBSET Names,     \* the names of the current request
    tries    : 0..single_404_attempts,     \* `attempt' of _process_chunk
    suspects : SUBSET Names,     \* the refused chunk that _isolate goes through
    solo     : SUBSET Names,     \* those of them still to be tried alone
    unavailable : SUBSET Names,
    left     : Parsed,           \* parsed files still to insert
    txn      : SUBSET Files,     \* rows inserted and not yet committed
    marked_total : Nat,          \* confirmed in this iteration
    stale_iterations : 0..max_stale_iterations,
    names_seen  : Nat,
    files_saved : Nat]

\* The variables are of their types; a request names no more files than the
\* service takes, and only the names of a refused chunk are tried alone.
TypeOK ==
    /\ owner \in Runs \cup {NoRun}
    /\ stored \in [Names -> Contents \cup {Absent, Corrupt}]
    /\ marked \subseteq Names
    /\ late \subseteq SUBSET Names
    /\ frame \in [Runs -> Frames]
    /\ \A r \in Runs :
          /\ Cardinality(frame[r].chunk) <= MAX_NAMES_PER_DOWNLOAD
          /\ frame[r].solo \subseteq frame[r].suspects

NewFrame == [
    pc |-> "idle", reason |-> "none", op |-> "get_names", attempt |-> 0,
    todo |-> {}, chunk |-> {}, tries |-> 0, suspects |-> {}, solo |-> {},
    unavailable |-> {}, left |-> <<>>, txn |-> {}, marked_total |-> 0,
    stale_iterations |-> 0, names_seen |-> 0, files_saved |-> 0]

\* The table may hold rows of earlier runs, and damaged ones.
Init ==
    /\ owner = NoRun
    /\ stored \in [Names -> Contents \cup {Absent, Corrupt}]
    /\ marked = {}
    /\ late = {}
    /\ frame = [r \in Runs |-> NewFrame]

Uncommitted(r) == {file.name : file \in frame[r].txn}

\* _await_pauses(op) about to check the lock before its request.
Ask(f, op) == [f EXCEPT !.pc = "check", !.op = op]

\* The run ends with an error; an open transaction rolls back.
Failed(f, why) == [f EXCEPT !.pc = "over", !.reason = why, !.txn = {}, !.left = <<>>,
                            !.todo = {}, !.chunk = {}, !.solo = {},
                            !.attempt = 0, !.tries = 0]

-----------------------------------------------------------------------------
(* Ownership, and what goes on the wire.                                   *)

\* The task has the lock and hands over to DownloadRunner.execute.
Begin(r) ==
    /\ owner = NoRun /\ frame[r].pc = "idle"
    /\ owner' = r
    /\ frame' = [frame EXCEPT ![r] = Ask(@, "get_names")]
    /\ UNCHANGED <<stored, marked, late>>

\* The lock expires, or the run is over and releases it.
LoseLock ==
    /\ owner # NoRun
    /\ owner' = NoRun
    /\ UNCHANGED <<stored, marked, late, frame>>

\* ensure_owned before every operation, again after a pause, and twice before
\* a confirmation; it fails when the lock is gone or Redis does not answer.
CheckLock(r) ==
    /\ frame[r].pc = "check"
    /\ \/ /\ owner = r
          /\ frame' = [frame EXCEPT ![r] = [@ EXCEPT !.pc = "send", !.attempt = 1]]
       \/ frame' = [frame EXCEPT ![r] = Failed(@, "stopped")]
    /\ UNCHANGED <<owner, stored, marked, late>>

\* The pause the limiter asked for is over and the request goes out.
Send(r) ==
    /\ frame[r].pc = "send"
    /\ frame' = [frame EXCEPT ![r] = [@ EXCEPT !.pc = "inflight"]]
    /\ UNCHANGED <<owner, stored, marked, late>>

\* A confirmation whose answer is lost, or cannot be used, may have been applied;
\* one the client has given up may also be still on its way.
Unknown(f) ==
    /\ \/ UNCHANGED marked
       \/ f.op = "mark_downloaded" /\ marked' = marked \cup f.chunk
    /\ UNCHANGED late

Abandoned(f) ==
    \/ Unknown(f)
    \/ /\ f.op = "mark_downloaded"
       /\ late' = late \cup {f.chunk}
       /\ UNCHANGED marked

\* _request tries once more (mutant: through the check, which counts from one again).
Afresh(f) == [f EXCEPT !.pc = "check"]
Again(f) == [f EXCEPT !.pc = "send", !.attempt = f.attempt + 1]

\* A network error or a 5xx is retried by _request alone, without another look
\* at the lock, until its attempts are used up.
NetworkError(r) ==
    /\ frame[r].pc = "inflight"
    /\ Abandoned(frame[r])
    /\ frame' = [frame EXCEPT ![r] =
          IF @.attempt < network_max_attempts
          THEN Again(@)
          ELSE Failed(@, "stopped")]
    /\ UNCHANGED <<owner, stored>>

\* 429 or 403: the run waits, and asks again from the check on.
RetryAfter(r) ==
    /\ frame[r].pc = "inflight"
    /\ frame' = [frame EXCEPT ![r] = [@ EXCEPT !.pc = "check"]]
    /\ UNCHANGED <<owner, stored, marked, late>>

\* An answer that ends the run: a pause beyond the limit, 422 or another status,
\* a body that breaks the contract, 404 where no chunk can be isolated.
FatalAnswer(r) ==
    /\ frame[r].pc = "inflight"
    /\ Unknown(frame[r])
    /\ frame' = [frame EXCEPT ![r] = Failed(@, "stopped")]
    /\ UNCHANGED <<owner, stored>>

\* A confirmation nobody waits for reaches the service.
ArrivesLate ==
    /\ \E S \in late :
          /\ marked' = marked \cup S
          /\ late' = late \ {S}
    /\ UNCHANGED <<owner, stored, frame>>

-----------------------------------------------------------------------------
(* _loop: names, and the end of an iteration.                              *)

\* What /names may answer with 200: names, that need not be new, a body that is
\* not the documented one, or an empty list, but only when everything is marked.
Bodies == {[valid |-> FALSE, file_names |-> {}]}
             \cup {[valid |-> TRUE, file_names |-> S] : S \in (SUBSET Names) \ {{}}}
             \cup {[valid |-> TRUE, file_names |-> {}] : all \in {marked} \cap {Names}}

\* parse_names insists on the documented body (mutant: a field that is not there
\* is an empty list).
LenientParse(body) == TRUE
parse_names(body) == body.valid

\* An iteration over the names of one answer.
Iterate(f, names) ==
    [f EXCEPT !.pc = "next_chunk", !.todo = names, !.marked_total = 0,
              !.names_seen = f.names_seen + Cardinality(names)]

NamesAnswer(r) ==
    /\ frame[r].pc = "inflight" /\ frame[r].op = "get_names"
    /\ \E body \in Bodies :
          frame' = [frame EXCEPT ![r] =
              IF ~parse_names(body) THEN Failed(@, "stopped")
              ELSE IF body.file_names = {} THEN [@ EXCEPT !.pc = "over"]
              ELSE Iterate(@, body.file_names)]
    /\ UNCHANGED <<owner, stored, marked, late>>

\* Chunks of three, the last one shorter (mutant: all the names at once).
AllAtOnce(names) == {names}
Chunks(names) ==
    {c \in SUBSET names :
        Cardinality(c) = IF Cardinality(names) < MAX_NAMES_PER_DOWNLOAD
                         THEN Cardinality(names) ELSE MAX_NAMES_PER_DOWNLOAD}

\* _process_chunk starts on the names c.
Process(f, c) == [Ask(f, "download") EXCEPT !.chunk = c, !.todo = f.todo \ c, !.tries = 1]

NextChunk(r) ==
    /\ frame[r].pc = "next_chunk" /\ frame[r].todo # {}
    /\ \E c \in Chunks(frame[r].todo) :
          frame' = [frame EXCEPT ![r] = Process(@, c)]
    /\ UNCHANGED <<owner, stored, marked, late>>

\* The guard against a loop that confirms nothing (mutant: that has never saved a thing).
NothingSaved(f) == IF f.files_saved = 0 THEN f.stale_iterations + 1 ELSE 0
StaleAfter(f) == IF f.marked_total = 0 THEN f.stale_iterations + 1 ELSE 0

EndIteration(r) ==
    /\ frame[r].pc = "next_chunk" /\ frame[r].todo = {}
    /\ LET stale == StaleAfter(frame[r])
           next  == [frame[r] EXCEPT !.stale_iterations = stale]
       IN  frame' = [frame EXCEPT ![r] =
               IF stale >= max_stale_iterations THEN Failed(next, "stale")
                                                ELSE Ask(next, "get_names")]
    /\ UNCHANGED <<owner, stored, marked, late>>

-----------------------------------------------------------------------------
(* _process_chunk, _save and _isolate.                                     *)

\* A valid archive holds exactly the chunk, in an order of its own.
Archives(names) ==
    {a \in [1..Cardinality(names) -> Files] : {a[i].name : i \in DOMAIN a} = names}

DownloadAnswer(r) ==
    /\ frame[r].pc = "inflight" /\ frame[r].op = "download"
    /\ \E archive \in Archives(frame[r].chunk) :
          frame' = [frame EXCEPT ![r] = [@ EXCEPT !.pc = "insert", !.left = archive]]
    /\ UNCHANGED <<owner, stored, marked, late>>

\* INSERT .. ON CONFLICT DO NOTHING waits while another open transaction holds
\* the name.  A row that is there already must be sound and the same.  (Mutant:
\* an existing row is taken as it is.)
HeldByOther(r, n) == \E s \in Runs \ {r} : n \in Uncommitted(s)

TrustsExisting(file) == TRUE
Verified(file) == stored[file.name] = file.content

Skipped(f)  == [f EXCEPT !.left = Tail(f.left)]
Inserted(f) == [Skipped(f) EXCEPT !.txn = f.txn \cup {Head(f.left)}]

Insert(r) ==
    /\ frame[r].pc = "insert" /\ frame[r].left # <<>>
    /\ LET file == Head(frame[r].left) IN
       /\ ~HeldByOther(r, file.name)
       /\ frame' = [frame EXCEPT ![r] =
             IF stored[file.name] = Absent THEN Inserted(@)
             ELSE IF Verified(file) THEN Skipped(@)
             ELSE Failed(@, "stopped")]
    /\ UNCHANGED <<owner, stored, marked, late>>

\* The last look at the lock before the commit.
VerifyBeforeCommit(r) ==
    /\ frame[r].pc = "insert" /\ frame[r].left = <<>>
    /\ \/ owner = r /\ frame' = [frame EXCEPT ![r] = [@ EXCEPT !.pc = "commit"]]
       \/ frame' = [frame EXCEPT ![r] = Failed(@, "stopped")]
    /\ UNCHANGED <<owner, stored, marked, late>>

\* The table once the open transaction of r has committed.
Committed(r) ==
    [n \in Names |-> IF n \in Uncommitted(r)
                     THEN (CHOOSE file \in frame[r].txn : file.name = n).content
                     ELSE stored[n]]

Commit(r) ==
    /\ frame[r].pc = "commit"
    /\ stored' = Committed(r)
    /\ frame' = [frame EXCEPT ![r] = [Ask(@, "mark_downloaded") EXCEPT !.txn = {}]]
    /\ UNCHANGED <<owner, marked, late>>

\* The chunk is confirmed; the service counts what it had not marked before.
Count(f) ==
    [f EXCEPT !.pc = "next_name",
              !.marked_total = f.marked_total + Cardinality(f.chunk \ marked),
              !.files_saved = f.files_saved + Cardinality(f.chunk)]

MarkAnswer(r) ==
    /\ frame[r].pc = "inflight" /\ frame[r].op = "mark_downloaded"
    /\ marked' = marked \cup frame[r].chunk
    /\ frame' = [frame EXCEPT ![r] = Count(@)]
    /\ UNCHANGED <<owner, stored, late>>

\* 404 or a bad archive: a chunk is taken apart, a single name tried again, and
\* at last given up.  (Mutants: a retry counts as the attempt before it; the first
\* name given up ends the isolation.)
SameAttempt(f) == f.tries
NextAttempt(f) == f.tries + 1

GivesUpAtOnce(f) == {}
StillToTry(f) == f.solo

Isolate(f) == [f EXCEPT !.pc = "next_name", !.suspects = f.chunk, !.solo = f.chunk]
TryAgain(f) == [Ask(f, "download") EXCEPT !.tries = NextAttempt(f)]
GiveUp(f) == [f EXCEPT !.pc = "next_name", !.solo = StillToTry(f),
                       !.unavailable = f.unavailable \cup f.chunk]

DownloadRefused(r) ==
    /\ frame[r].pc = "inflight" /\ frame[r].op = "download"
    /\ frame' = [frame EXCEPT ![r] =
          IF Cardinality(@.chunk) > 1 THEN Isolate(@)
          ELSE IF @.tries < single_404_attempts THEN TryAgain(@)
          ELSE IF @.suspects = {} THEN Failed(GiveUp(@), "unavailable")
          ELSE GiveUp(@)]
    /\ UNCHANGED <<owner, stored, marked, late>>

\* The next name of a refused chunk is asked for alone.
Alone(f, n) == [Ask(f, "download") EXCEPT !.chunk = {n}, !.solo = f.solo \ {n}, !.tries = 1]

NextName(r) ==
    /\ frame[r].pc = "next_name" /\ frame[r].solo # {}
    /\ \E n \in frame[r].solo :
          frame' = [frame EXCEPT ![r] = Alone(@, n)]
    /\ UNCHANGED <<owner, stored, marked, late>>

\* All its names were tried: the run cannot go on without those it did not get.
\* (Mutant: it goes on.)
CarriesOn(f) == FALSE
MustStop(f) == f.unavailable # {}

EndChunk(r) ==
    /\ frame[r].pc = "next_name" /\ frame[r].solo = {}
    /\ frame' = [frame EXCEPT ![r] =
          IF MustStop(@) THEN Failed(@, "unavailable")
          ELSE [@ EXCEPT !.pc = "next_chunk", !.suspects = {}, !.chunk = {}]]
    /\ UNCHANGED <<owner, stored, marked, late>>

-----------------------------------------------------------------------------
(* Failures.                                                               *)

\* PostgreSQL fails a statement, or the worker dies: the run stops where it is,
\* a commit under way having landed or not, and so has a request.
Dies(r) ==
    /\ frame[r].pc \notin {"idle", "over"}
    /\ frame' = [frame EXCEPT ![r] = Failed(@, "stopped")]
    /\ \/ frame[r].pc = "commit" /\ stored' = Committed(r)
       \/ UNCHANGED stored
    /\ IF frame[r].pc = "inflight" THEN Abandoned(frame[r])
                                   ELSE UNCHANGED <<marked, late>>
    /\ UNCHANGED owner

\* PostgreSQL ends a cycle of transactions that wait for each other.
WaitsFor(r, s) ==
    /\ frame[r].pc = "insert" /\ frame[r].left # <<>>
    /\ s # r /\ Head(frame[r].left).name \in Uncommitted(s)

DeadlockVictim(r) ==
    /\ \E cycle \in SUBSET Runs :
          /\ r \in cycle
          /\ \A s \in cycle : (\E t \in cycle : WaitsFor(s, t))
                               /\ (\E u \in cycle : WaitsFor(u, s))
    /\ frame' = [frame EXCEPT ![r] = Failed(@, "stopped")]
    /\ UNCHANGED <<owner, stored, marked, late>>

-----------------------------------------------------------------------------
\* An answer other than "later" and "try again".
Answered(r) == FatalAnswer(r) \/ NamesAnswer(r) \/ DownloadAnswer(r)
                  \/ DownloadRefused(r) \/ MarkAnswer(r)

Step(r) == CheckLock(r) \/ Send(r) \/ NextChunk(r) \/ EndIteration(r)
              \/ Insert(r) \/ VerifyBeforeCommit(r) \/ Commit(r)
              \/ NextName(r) \/ EndChunk(r) \/ DeadlockVictim(r)

Next == \/ \E r \in Runs : Begin(r) \/ Step(r) \/ Answered(r) \/ NetworkError(r)
                              \/ RetryAfter(r) \/ Dies(r)
        \/ LoseLock
        \/ ArrivesLate

Spec == Init /\ [][Next]_vars

\* The worker takes its steps, every request is answered or times out, and the
\* service does not put the same run off for ever with 429, 403 and 5xx.
FairSpec == /\ Spec
            /\ \A r \in Runs : WF_vars(Step(r)) /\ SF_vars(Answered(r))

-----------------------------------------------------------------------------
(* Properties.                                                             *)

Sound == {n \in Names : stored[n] \in Contents}

\* A file is confirmed, or about to be, only if its sound row is committed:
\* README.md:93, and the order of commit and confirmation in _process_chunk.
ConfirmedAreStored ==
    /\ marked \subseteq Sound
    /\ \A S \in late : S \subseteq Sound
    /\ \A r \in Runs :
          frame[r].op = "mark_downloaded" /\ frame[r].pc \in {"check", "send", "inflight"}
              => frame[r].chunk \subseteq Sound

Done(r) == frame[r].pc = "over" /\ frame[r].reason = "none"

\* A run that is done has saved and confirmed every name it was handed, each time
\* it was handed it: "saved X of X" (files_saved and names_seen of the row).
DoneCountsAgree ==
    \A r \in Runs : Done(r) => frame[r].files_saved = frame[r].names_seen

\* Whatever order the names come in, a name that cannot be had costs the others
\* of its chunk nothing: they are all confirmed before the run fails (_isolate,
\* downloader.py:181-186).
HealthyNamesSurvive ==
    \A r \in Runs :
        frame[r].reason = "unavailable"
            => frame[r].suspects \ frame[r].unavailable \subseteq marked

\* What a run still has to do at most, the outermost loop first: iterations, as long as
\* some mark a name and few in a row do not; the parts of one; its chunks; the names
\* of a refused chunk; the steps from a request to its confirmation; the attempts.
Asking(f) == f.pc \in {"check", "send", "inflight"}

Status(f) == CASE f.pc = "idle" -> 2 [] f.pc = "over" -> 0 [] OTHER -> 1

Budget(f, told) ==
    IF f.marked_total > 0
    THEN (Cardinality(Names \ told) + 1) * max_stale_iterations
    ELSE (Cardinality(Names \ told) + 1) * max_stale_iterations - f.stale_iterations

Part(f) == IF f.op = "get_names" /\ Asking(f) THEN 1
           ELSE IF f.marked_total = 0 THEN 0 ELSE 2

ChunksLeft(f) == 2 * Cardinality(f.todo) + (IF f.pc = "next_chunk" THEN 0 ELSE 1)

NamesLeft(f) == IF Cardinality(f.chunk) > 1 /\ f.pc # "next_name"
                THEN MAX_NAMES_PER_DOWNLOAD + 1 ELSE Cardinality(f.solo)

Stage(f) == CASE f.pc = "insert" -> 3
              [] f.pc = "commit" -> 2
              [] Asking(f) /\ f.op = "download" -> 4 + single_404_attempts - f.tries
              [] Asking(f) /\ f.op # "download" -> 1
              [] OTHER -> 0

Legs(f) == CASE f.pc = "insert"   -> Len(f.left)
             [] f.pc = "check"    -> 2 * network_max_attempts
             [] f.pc = "send"     -> 2 * (network_max_attempts - f.attempt) + 1
             [] f.pc = "inflight" -> 2 * (network_max_attempts - f.attempt)
             [] OTHER -> 0

Work(f, told) == <<Status(f), Budget(f, told), Part(f), ChunksLeft(f), NamesLeft(f),
                   Stage(f), Legs(f)>>

\* The lexicographic order.
Less(v, w) == \E i \in DOMAIN v : v[i] < w[i] /\ \A j \in 1..(i - 1) : v[j] = w[j]

\* Nothing but a pause (429 or 403) sets a run back: any other step it takes, and any
\* confirmation anybody makes, leaves it less to do.  No cycle of chunks, isolations,
\* retries and empty-handed iterations escapes the limits.
EveryStepCounts ==
    [][\A r \in Runs :
        \/ RetryAfter(r)
        \/ Less(Work(frame[r], marked)', Work(frame[r], marked))
        \/ frame'[r] = frame[r] /\ Work(frame[r], marked)' = Work(frame[r], marked)]_vars

\* However often the service names the same files again, a run is handed a bounded
\* number of them (names_seen of the row), beside any other runs.
HandedOutIsBounded ==
    \A r \in Runs : frame[r].names_seen <=
        Cardinality(Names) * (Cardinality(Names) + 1) * max_stale_iterations

\* Overlapping runs and failures change nothing in what the catalog promises.
Sync == INSTANCE CatalogSync WITH
    complete <- {r \in Runs : Done(r)}

ImplementsCatalogSync == Sync!Spec

\* Every run ends: the catalog is finite, and what does not converge is stopped
\* (max_stale_iterations, single_404_attempts, network_max_attempts).
EveryRunEnds == \A r \in Runs : frame[r].pc # "idle" ~> frame[r].pc = "over"

=============================================================================
