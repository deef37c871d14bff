------------------------- MODULE DownloadLoop_proofs -------------------------
(* The safety of DownloadLoop, for any catalog and any number of runs. *)
EXTENDS DownloadLoop, FiniteSetTheorems, SequenceTheorems, TLAPS

NamesIn(files)     == {files[i].name : i \in DOMAIN files}
UncommittedIn(f)   == {file.name : file \in f.txn}

\* The types of one run, and that it has stale iterations left while it goes on.
FrameOK(f) ==
    /\ f \in Frames
    /\ Cardinality(f.chunk) <= MAX_NAMES_PER_DOWNLOAD
    /\ f.solo \subseteq f.suspects
    /\ f.pc # "over" => f.stale_iterations < max_stale_iterations

\* What a run relies on: from the answer to the commit each name of its chunk is
\* parsed, inserted or stored, and stored from the commit to the confirmation;
\* what it has inserted is still missing from the table.
Confirming(f) == f.op = "mark_downloaded" /\ f.pc \in {"check", "send", "inflight"}

Promises(f) ==
    /\ Confirming(f) => f.chunk \subseteq Sound
    /\ f.pc = "insert" => f.chunk \subseteq NamesIn(f.left) \cup UncommittedIn(f) \cup Sound
    /\ f.pc = "commit" => f.chunk \subseteq UncommittedIn(f) \cup Sound
    /\ \A n \in UncommittedIn(f) : stored[n] = Absent

Kept(f) == FrameOK(f) /\ Promises(f)

\* Two open transactions hold different names: the unique index of the table.
Apart == \A r, s \in Runs : r # s =>
            UncommittedIn(frame[r]) \cap UncommittedIn(frame[s]) = {}

\* What the service knows, or is about to hear, is stored.
Told == marked \subseteq Sound /\ \A S \in late : S \subseteq Sound

Shared == /\ owner \in Runs \cup {NoRun}
          /\ stored \in [Names -> Contents \cup {Absent, Corrupt}]
          /\ marked \subseteq Names
          /\ late \subseteq SUBSET Names

Inv == /\ Shared
       /\ frame \in [Runs -> Frames]
       /\ \A r \in Runs : Kept(frame[r])
       /\ Apart
       /\ Told

-----------------------------------------------------------------------------
(* Frames. *)

\* A frame with one field replaced by a value of its type is a frame.
LEMMA Update ==
    ASSUME NEW g \in Frames
    PROVE  /\ \A v \in Places : [g EXCEPT !.pc = v] \in Frames
           /\ \A v \in Reasons : [g EXCEPT !.reason = v] \in Frames
           /\ \A v \in Operations : [g EXCEPT !.op = v] \in Frames
           /\ \A v \in 0..network_max_attempts : [g EXCEPT !.attempt = v] \in Frames
           /\ \A v \in SUBSET Names : [g EXCEPT !.todo = v] \in Frames
           /\ \A v \in SUBSET Names : [g EXCEPT !.chunk = v] \in Frames
           /\ \A v \in 0..single_404_attempts : [g EXCEPT !.tries = v] \in Frames
           /\ \A v \in SUBSET Names : [g EXCEPT !.suspects = v] \in Frames
           /\ \A v \in SUBSET Names : [g EXCEPT !.solo = v] \in Frames
           /\ \A v \in SUBSET Names : [g EXCEPT !.unavailable = v] \in Frames
           /\ \A v \in Parsed : [g EXCEPT !.left = v] \in Frames
           /\ \A v \in SUBSET Files : [g EXCEPT !.txn = v] \in Frames
           /\ \A v \in Nat : [g EXCEPT !.marked_total = v] \in Frames
           /\ \A v \in 0..max_stale_iterations : [g EXCEPT !.stale_iterations = v] \in Frames
           /\ \A v \in Nat : [g EXCEPT !.names_seen = v] \in Frames
           /\ \A v \in Nat : [g EXCEPT !.files_saved = v] \in Frames
  <1>1. \A v \in Places : [g EXCEPT !.pc = v] \in Frames
    BY DEF Frames
  <1>2. \A v \in Reasons : [g EXCEPT !.reason = v] \in Frames
    BY DEF Frames
  <1>3. \A v \in Operations : [g EXCEPT !.op = v] \in Frames
    BY DEF Frames
  <1>4. \A v \in 0..network_max_attempts : [g EXCEPT !.attempt = v] \in Frames
    BY DEF Frames
  <1>5. \A v \in SUBSET Names : [g EXCEPT !.todo = v] \in Frames
    BY DEF Frames
  <1>6. \A v \in SUBSET Names : [g EXCEPT !.chunk = v] \in Frames
    BY DEF Frames
  <1>7. \A v \in 0..single_404_attempts : [g EXCEPT !.tries = v] \in Frames
    BY DEF Frames
  <1>8. \A v \in SUBSET Names : [g EXCEPT !.suspects = v] \in Frames
    BY DEF Frames
  <1>9. \A v \in SUBSET Names : [g EXCEPT !.solo = v] \in Frames
    BY DEF Frames
  <1>10. \A v \in SUBSET Names : [g EXCEPT !.unavailable = v] \in Frames
    BY DEF Frames
  <1>11. \A v \in Parsed : [g EXCEPT !.left = v] \in Frames
    BY DEF Frames
  <1>12. \A v \in SUBSET Files : [g EXCEPT !.txn = v] \in Frames
    BY DEF Frames
  <1>13. \A v \in Nat : [g EXCEPT !.marked_total = v] \in Frames
    BY DEF Frames
  <1>14. \A v \in 0..max_stale_iterations : [g EXCEPT !.stale_iterations = v] \in Frames
    BY DEF Frames
  <1>15. \A v \in Nat : [g EXCEPT !.names_seen = v] \in Frames
    BY DEF Frames
  <1>16. \A v \in Nat : [g EXCEPT !.files_saved = v] \in Frames
    BY DEF Frames
  <1> QED
    BY <1>1, <1>2, <1>3, <1>4, <1>5, <1>6, <1>7, <1>8, <1>9, <1>10, <1>11, <1>12,
       <1>13, <1>14, <1>15, <1>16

\* The values the code writes as literals are of their types.
LEMMA Literals ==
    /\ \A p \in {"idle", "check", "send", "inflight", "insert", "commit",
                 "next_name", "next_chunk", "over"} : p \in Places
    /\ \A why \in {"unavailable", "stale", "stopped"} : why \in Reasons /\ why # "none"
    /\ <<>> \in Parsed
    /\ 0 \in 0..network_max_attempts /\ 1 \in 0..network_max_attempts
    /\ 0 \in 0..single_404_attempts /\ 1 \in 0..single_404_attempts
    /\ 0 < max_stale_iterations /\ 0 \in 0..max_stale_iterations
    /\ Cardinality({}) = 0 /\ 0 <= MAX_NAMES_PER_DOWNLOAD /\ 1 <= MAX_NAMES_PER_DOWNLOAD
  <1>1. \A p \in {"idle", "check", "send", "inflight", "insert", "commit",
                   "next_name", "next_chunk", "over"} : p \in Places
    BY DEF Places
  <1>2. \A why \in {"unavailable", "stale", "stopped"} : why \in Reasons /\ why # "none"
    BY DEF Reasons
  <1>3. <<>> \in Parsed
    BY DEF Parsed
  <1>4. /\ 0 \in 0..network_max_attempts /\ 1 \in 0..network_max_attempts
        /\ 0 \in 0..single_404_attempts /\ 1 \in 0..single_404_attempts
        /\ 0 < max_stale_iterations /\ 0 \in 0..max_stale_iterations
    BY LimitsArePositive
  <1>5. Cardinality({}) = 0 /\ 0 <= MAX_NAMES_PER_DOWNLOAD /\ 1 <= MAX_NAMES_PER_DOWNLOAD
    BY LimitsArePositive, FS_EmptySet
  <1> QED
    BY <1>1, <1>2, <1>3, <1>4, <1>5

\* An error ends a run, rolls its transaction back and leaves nothing pending.
LEMMA FailedIsKept ==
    ASSUME NEW f \in Frames, NEW why \in {"unavailable", "stale", "stopped"}
    PROVE  /\ Kept(Failed(f, why))
           /\ Failed(f, why).pc = "over"
           /\ Failed(f, why).reason = why
           /\ Failed(f, why).txn = {}
  <1>1. Failed(f, why) \in Frames
    <2>1. \A h \in Frames : [h EXCEPT !.pc = "over", !.reason = why, !.txn = {}] \in Frames
      BY Update, Literals
    <2>2. \A h \in Frames : [h EXCEPT !.left = <<>>, !.todo = {}, !.chunk = {}] \in Frames
      BY Update, Literals
    <2>3. \A h \in Frames : [h EXCEPT !.solo = {}, !.attempt = 0, !.tries = 0] \in Frames
      BY Update, Literals
    <2> QED
      BY <2>1, <2>2, <2>3 DEF Failed
  <1>2. /\ Failed(f, why).pc = "over" /\ Failed(f, why).reason = why
        /\ Failed(f, why).txn = {} /\ Failed(f, why).chunk = {}
        /\ Failed(f, why).solo = {}
    BY DEF Failed, Frames
  <1>3. FrameOK(Failed(f, why))
    BY <1>1, <1>2, Literals DEF FrameOK
  <1>4. Promises(Failed(f, why))
    BY <1>2 DEF Promises, Confirming, UncommittedIn
  <1> QED
    BY <1>2, <1>3, <1>4 DEF Kept

\* A run about to ask changes its place and its operation only.
LEMMA AskChanges ==
    ASSUME NEW f \in Frames, NEW op \in Operations
    PROVE  /\ Ask(f, op) \in Frames
           /\ Ask(f, op).pc = "check" /\ Ask(f, op).op = op
           /\ Ask(f, op).chunk = f.chunk /\ Ask(f, op).txn = f.txn
           /\ Ask(f, op).solo = f.solo /\ Ask(f, op).suspects = f.suspects
           /\ Ask(f, op).stale_iterations = f.stale_iterations
  <1>1. Ask(f, op) \in Frames
    BY Update, Literals DEF Ask
  <1> QED
    BY <1>1 DEF Ask, Frames

-----------------------------------------------------------------------------
(* Steps of one run that commit nothing. *)

Ended(f) == f.pc = "over" /\ f.reason = "none"

\* What may reach the service.
Wire == /\ \E S \in SUBSET Sound : marked' = marked \cup S
        /\ late' \subseteq late \cup SUBSET Sound

\* Run r moves, holds no name another run holds, and the table stays as it is.
Quiet(r) ==
    /\ frame[r].pc # "over"
    /\ frame' = [frame EXCEPT ![r] = frame'[r]]
    /\ Kept(frame'[r])
    /\ \A s \in Runs \ {r} : UncommittedIn(frame'[r]) \cap UncommittedIn(frame[s]) = {}
    /\ UNCHANGED stored
    /\ owner' \in Runs \cup {NoRun}
    /\ Wire

\* A quiet step preserves the invariant.
LEMMA QuietKeeps ==
    ASSUME Inv, NEW r \in Runs, Quiet(r)
    PROVE  Inv'
  <1>1. /\ frame' \in [Runs -> Frames]
        /\ \A s \in Runs : s # r => frame'[s] = frame[s]
    BY DEF Inv, Quiet, Kept, FrameOK
  <1>2. Sound' = Sound
    BY DEF Quiet, Sound
  <1>3. \A s \in Runs : Kept(frame[s])'
    <2> SUFFICES ASSUME NEW s \in Runs PROVE Kept(frame[s])'
      OBVIOUS
    <2>1. Kept(frame'[s])
      BY <1>1 DEF Inv, Quiet
    <2> QED
      BY <2>1, <1>2 DEF Kept, Promises, Quiet, FrameOK, Confirming, UncommittedIn, NamesIn
  <1>4. Apart'
    <2> SUFFICES ASSUME NEW s \in Runs, NEW t \in Runs, s # t
                 PROVE  UncommittedIn(frame'[s]) \cap UncommittedIn(frame'[t]) = {}
      BY DEF Apart, UncommittedIn
    <2>1. CASE s # r /\ t # r
      <3>1. frame'[s] = frame[s] /\ frame'[t] = frame[t]
        BY <1>1, <2>1
      <3> QED
        BY <3>1 DEF Inv, Apart
    <2>2. CASE s = r
      <3>1. frame'[t] = frame[t]
        BY <1>1, <2>2
      <3> QED
        BY <2>2, <3>1 DEF Quiet
    <2>3. CASE t = r
      <3>1. frame'[s] = frame[s]
        BY <1>1, <2>3
      <3> QED
        BY <2>3, <3>1 DEF Quiet
    <2> QED
      BY <2>1, <2>2, <2>3
  <1>5. Shared'
    BY DEF Inv, Quiet, Shared, Wire, Sound
  <1>6. Told'
    BY <1>2 DEF Inv, Quiet, Told, Wire
  <1> QED
    BY <1>1, <1>3, <1>4, <1>5, <1>6 DEF Inv

\* Replacing the frame of r replaces nothing else.
LEMMA Replaced ==
    ASSUME Inv, NEW r \in Runs, NEW f, frame' = [frame EXCEPT ![r] = f]
    PROVE  frame'[r] = f /\ frame' = [frame EXCEPT ![r] = frame'[r]]
  BY DEF Inv

\* Nothing on the wire is nothing new.
LEMMA Silence ==
    ASSUME UNCHANGED <<marked, late>>
    PROVE  Wire
  <1>1. marked' = marked \cup {}
    OBVIOUS
  <1> QED
    BY <1>1 DEF Wire

\* A confirmation that is in flight, given up or answered names stored files only.
LEMMA Confirmed ==
    ASSUME Inv, NEW r \in Runs, frame[r].pc = "inflight", Abandoned(frame[r])
    PROVE  Wire
  <1>1. CASE UNCHANGED <<marked, late>>
    BY <1>1, Silence
  <1>2. CASE frame[r].op = "mark_downloaded"
    <2>1. frame[r].chunk \in SUBSET Sound
      BY <1>2 DEF Inv, Kept, Promises, Confirming
    <2>2. CASE marked' = marked \cup frame[r].chunk /\ UNCHANGED late
      BY <2>1, <2>2 DEF Wire
    <2>3. CASE late' = late \cup {frame[r].chunk} /\ UNCHANGED marked
      <3>1. marked' = marked \cup {}
        BY <2>3
      <3> QED
        BY <2>1, <2>3, <3>1 DEF Wire
    <2> QED
      BY <1>1, <1>2, <2>2, <2>3 DEF Abandoned, Unknown
  <1> QED
    BY <1>1, <1>2 DEF Abandoned, Unknown

\* A run that fails does so quietly, and is not done.
LEMMA FailsQuietly ==
    ASSUME Inv, NEW r \in Runs, frame[r].pc # "over",
           NEW why \in {"unavailable", "stale", "stopped"},
           NEW f \in Frames, frame' = [frame EXCEPT ![r] = Failed(f, why)],
           UNCHANGED <<owner, stored>>, Wire
    PROVE  Quiet(r) /\ ~Ended(frame'[r])
  <1>1. frame'[r] = Failed(f, why) /\ frame' = [frame EXCEPT ![r] = frame'[r]]
    BY Replaced
  <1>2. Kept(frame'[r]) /\ frame'[r].reason = why /\ frame'[r].txn = {}
    BY <1>1, FailedIsKept
  <1>3. UncommittedIn(frame'[r]) = {}
    BY <1>2 DEF UncommittedIn
  <1> QED
    BY <1>1, <1>2, <1>3 DEF Quiet, Ended, Inv, Shared

\* A run that moves on without an error, keeping its transaction.
LEMMA MovesQuietly ==
    ASSUME Inv, NEW r \in Runs, frame[r].pc # "over",
           NEW f \in Frames, frame' = [frame EXCEPT ![r] = f],
           Cardinality(f.chunk) <= MAX_NAMES_PER_DOWNLOAD,
           f.solo \subseteq f.suspects,
           f.stale_iterations < max_stale_iterations,
           f.txn = frame[r].txn, Promises(f),
           UNCHANGED stored, owner' \in Runs \cup {NoRun}, Wire
    PROVE  Quiet(r) /\ frame'[r] = f
  <1>1. frame'[r] = f /\ frame' = [frame EXCEPT ![r] = frame'[r]]
    BY Replaced
  <1>2. Kept(f)
    BY DEF Kept, FrameOK
  <1>3. UncommittedIn(f) = UncommittedIn(frame[r])
    BY DEF UncommittedIn
  <1>4. \A s \in Runs \ {r} : UncommittedIn(f) \cap UncommittedIn(frame[s]) = {}
    BY <1>3 DEF Inv, Apart
  <1> QED
    BY <1>1, <1>2, <1>4 DEF Quiet

\* What the invariant says of one run that is not over.
LEMMA Running ==
    ASSUME Inv, NEW r \in Runs
    PROVE  /\ frame[r] \in Frames
           /\ Cardinality(frame[r].chunk) <= MAX_NAMES_PER_DOWNLOAD
           /\ frame[r].solo \subseteq frame[r].suspects
           /\ frame[r].pc # "over" => frame[r].stale_iterations < max_stale_iterations
           /\ Promises(frame[r])
           /\ owner \in Runs \cup {NoRun}
  BY DEF Inv, Kept, FrameOK, Shared

\* A run that gets the lock begins by asking for names.
LEMMA BeginIsQuiet ==
    ASSUME Inv, NEW r \in Runs, Begin(r)
    PROVE  Quiet(r) /\ ~Ended(frame'[r])
  <1> DEFINE f == Ask(frame[r], "get_names")
  <1>1. f \in Frames /\ f.pc = "check" /\ f.op = "get_names" /\ f.chunk = frame[r].chunk
        /\ f.txn = frame[r].txn /\ f.solo = frame[r].solo
        /\ f.suspects = frame[r].suspects
        /\ f.stale_iterations = frame[r].stale_iterations
    BY Running, AskChanges DEF Operations
  <1>2. Promises(f)
    BY <1>1, Running DEF Promises, Confirming, UncommittedIn
  <1>3. frame' = [frame EXCEPT ![r] = f] /\ frame[r].pc # "over"
    BY DEF Begin
  <1>4. UNCHANGED stored /\ owner' \in Runs \cup {NoRun} /\ Wire
    BY Silence DEF Begin
  <1> HIDE DEF f
  <1>5. Quiet(r) /\ frame'[r] = f
    BY <1>1, <1>2, <1>3, <1>4, Running, MovesQuietly
  <1> QED
    BY <1>1, <1>5 DEF Ended

\* The ownership check lets the run go on or ends it.
LEMMA CheckLockIsQuiet ==
    ASSUME Inv, NEW r \in Runs, CheckLock(r)
    PROVE  Quiet(r) /\ ~Ended(frame'[r])
  <1> DEFINE f == [frame[r] EXCEPT !.pc = "send", !.attempt = 1]
  <1>1. UNCHANGED <<owner, stored>> /\ Wire /\ frame[r].pc = "check"
    BY Silence DEF CheckLock
  <1>2. CASE frame' = [frame EXCEPT ![r] = Failed(frame[r], "stopped")]
    BY <1>1, <1>2, Running, FailsQuietly
  <1>3. CASE frame' = [frame EXCEPT ![r] = f]
    <2>1. f \in Frames
      BY Running, Update, Literals
    <2>2. f.pc = "send" /\ f.op = frame[r].op /\ f.chunk = frame[r].chunk
          /\ f.txn = frame[r].txn /\ f.solo = frame[r].solo
          /\ f.suspects = frame[r].suspects
          /\ f.stale_iterations = frame[r].stale_iterations
      BY Running DEF Frames
    <2> HIDE DEF f
    <2>3. Promises(f)
      BY <1>1, <2>2, Running DEF Promises, Confirming, UncommittedIn
    <2>4. Quiet(r) /\ frame'[r] = f
      BY <1>1, <1>3, <2>1, <2>2, <2>3, Running, MovesQuietly
    <2> QED
      BY <2>2, <2>4 DEF Ended
  <1> QED
    BY <1>2, <1>3 DEF CheckLock

\* Sending a request changes the place of the run only.
LEMMA SendIsQuiet ==
    ASSUME Inv, NEW r \in Runs, Send(r)
    PROVE  Quiet(r) /\ ~Ended(frame'[r])
  <1> DEFINE f == [frame[r] EXCEPT !.pc = "inflight"]
  <1>1. UNCHANGED <<owner, stored>> /\ Wire /\ frame[r].pc = "send"
        /\ frame' = [frame EXCEPT ![r] = f]
    BY Silence DEF Send
  <1>2. f \in Frames
    BY Running, Update, Literals
  <1>3. f.pc = "inflight" /\ f.op = frame[r].op /\ f.chunk = frame[r].chunk
        /\ f.txn = frame[r].txn /\ f.solo = frame[r].solo
        /\ f.suspects = frame[r].suspects
        /\ f.stale_iterations = frame[r].stale_iterations
    BY Running DEF Frames
  <1> HIDE DEF f
  <1>4. Promises(f)
    BY <1>1, <1>3, Running DEF Promises, Confirming, UncommittedIn
  <1>5. Quiet(r) /\ frame'[r] = f
    BY <1>1, <1>2, <1>3, <1>4, Running, MovesQuietly
  <1> QED
    BY <1>3, <1>5 DEF Ended

\* A network error is retried or ends the run; the confirmation it may have let
\* through names stored files.
LEMMA NetworkErrorIsQuiet ==
    ASSUME Inv, NEW r \in Runs, NetworkError(r)
    PROVE  Quiet(r) /\ ~Ended(frame'[r])
  <1> DEFINE f == Again(frame[r])
  <1>1. UNCHANGED <<owner, stored>> /\ Wire /\ frame[r].pc = "inflight"
    BY Confirmed DEF NetworkError
  <1>2. CASE ~(frame[r].attempt < network_max_attempts)
    <2>1. frame' = [frame EXCEPT ![r] = Failed(frame[r], "stopped")]
      BY <1>2 DEF NetworkError
    <2> QED
      BY <1>1, <2>1, Running, FailsQuietly
  <1>3. CASE frame[r].attempt < network_max_attempts
    <2>0. frame' = [frame EXCEPT ![r] = f]
      BY <1>3 DEF NetworkError
    <2>1. frame[r].attempt + 1 \in 0..network_max_attempts
      <3>1. frame[r].attempt \in 0..network_max_attempts
        BY Running DEF Frames
      <3> QED
        BY <1>3, <3>1, LimitsArePositive
    <2>3. f \in Frames
      BY <2>1, Running, Update, Literals DEF Again
    <2>4. f.pc = "send" /\ f.op = frame[r].op /\ f.chunk = frame[r].chunk
          /\ f.txn = frame[r].txn /\ f.solo = frame[r].solo
          /\ f.suspects = frame[r].suspects
          /\ f.stale_iterations = frame[r].stale_iterations
      BY Running DEF Frames, Again
    <2> HIDE DEF f
    <2>5. Promises(f)
      BY <1>1, <2>4, Running DEF Promises, Confirming, UncommittedIn
    <2>6. Quiet(r) /\ frame'[r] = f
      BY <1>1, <2>0, <2>3, <2>4, <2>5, Running, MovesQuietly
    <2> QED
      BY <2>4, <2>6 DEF Ended
  <1> QED
    BY <1>2, <1>3

\* 429 and 403 send the run back to the check, with all it has.
LEMMA RetryAfterIsQuiet ==
    ASSUME Inv, NEW r \in Runs, RetryAfter(r)
    PROVE  Quiet(r) /\ ~Ended(frame'[r])
  <1> DEFINE f == [frame[r] EXCEPT !.pc = "check"]
  <1>1. UNCHANGED <<owner, stored>> /\ Wire /\ frame[r].pc = "inflight"
        /\ frame' = [frame EXCEPT ![r] = f]
    BY Silence DEF RetryAfter
  <1>2. f \in Frames
    BY Running, Update, Literals
  <1>3. f.pc = "check" /\ f.op = frame[r].op /\ f.chunk = frame[r].chunk
        /\ f.txn = frame[r].txn /\ f.solo = frame[r].solo
        /\ f.suspects = frame[r].suspects
        /\ f.stale_iterations = frame[r].stale_iterations
    BY Running DEF Frames
  <1> HIDE DEF f
  <1>4. Promises(f)
    BY <1>1, <1>3, Running DEF Promises, Confirming, UncommittedIn
  <1>5. Quiet(r) /\ frame'[r] = f
    BY <1>1, <1>2, <1>3, <1>4, Running, MovesQuietly
  <1> QED
    BY <1>3, <1>5 DEF Ended

\* A fatal answer ends the run; the confirmation it answers names stored files.
LEMMA FatalAnswerIsQuiet ==
    ASSUME Inv, NEW r \in Runs, FatalAnswer(r)
    PROVE  Quiet(r) /\ ~Ended(frame'[r])
  <1>1. UNCHANGED <<owner, stored>> /\ frame[r].pc = "inflight"
        /\ frame' = [frame EXCEPT ![r] = Failed(frame[r], "stopped")]
        /\ Abandoned(frame[r])
    BY DEF FatalAnswer, Abandoned
  <1>2. Wire
    BY <1>1, Confirmed
  <1> QED
    BY <1>1, <1>2, Running, FailsQuietly

\* The chunks of an iteration are subsets of its names, and small enough.
LEMMA ChunksAreSmall ==
    ASSUME NEW names \in SUBSET Names, NEW c \in Chunks(names)
    PROVE  c \in SUBSET Names /\ Cardinality(c) <= MAX_NAMES_PER_DOWNLOAD
  <1>1. Cardinality(names) \in Nat
    BY CatalogIsFinite, FS_Subset, FS_CardinalityType
  <1> QED
    BY <1>1, LimitsArePositive DEF Chunks

\* The next chunk is asked for, and nothing is open while it is.
LEMMA NextChunkIsQuiet ==
    ASSUME Inv, NEW r \in Runs, NextChunk(r)
    PROVE  Quiet(r) /\ ~Ended(frame'[r])
  <1>1. PICK c \in Chunks(frame[r].todo) : frame' = [frame EXCEPT ![r] = Process(frame[r], c)]
    BY DEF NextChunk
  <1>2. UNCHANGED <<owner, stored>> /\ Wire /\ frame[r].pc = "next_chunk"
    BY Silence DEF NextChunk
  <1>3. c \in SUBSET Names /\ Cardinality(c) <= MAX_NAMES_PER_DOWNLOAD
    <2>1. frame[r].todo \in SUBSET Names
      BY Running DEF Frames
    <2> QED
      BY <2>1, ChunksAreSmall
  <1> DEFINE a == Ask(frame[r], "download")
             f == [a EXCEPT !.chunk = c, !.todo = frame[r].todo \ c, !.tries = 1]
  <1>4. f = Process(frame[r], c)
    BY DEF Process
  <1>5. /\ a \in Frames /\ a.pc = "check" /\ a.op = "download" /\ a.txn = frame[r].txn
        /\ a.solo = frame[r].solo /\ a.suspects = frame[r].suspects
        /\ a.stale_iterations = frame[r].stale_iterations
        /\ frame[r].todo \ c \in SUBSET Names
    BY Running, AskChanges DEF Operations, Frames
  <1> HIDE DEF a
  <1>6. f \in Frames
    BY <1>3, <1>5, Update, Literals
  <1>7. f.pc = "check" /\ f.op = "download" /\ f.chunk = c /\ f.txn = frame[r].txn
        /\ f.solo = frame[r].solo /\ f.suspects = frame[r].suspects
        /\ f.stale_iterations = frame[r].stale_iterations
    BY <1>5 DEF Frames
  <1> HIDE DEF f
  <1>8. Promises(f)
    BY <1>2, <1>7, Running DEF Promises, Confirming, UncommittedIn
  <1>9. Quiet(r) /\ frame'[r] = f
    BY <1>1, <1>2, <1>3, <1>4, <1>6, <1>7, <1>8, Running, MovesQuietly
  <1> QED
    BY <1>7, <1>9 DEF Ended

\* A name of a refused chunk is asked for alone.
LEMMA NextNameIsQuiet ==
    ASSUME Inv, NEW r \in Runs, NextName(r)
    PROVE  Quiet(r) /\ ~Ended(frame'[r])
  <1>1. PICK n \in frame[r].solo : frame' = [frame EXCEPT ![r] = Alone(frame[r], n)]
    BY DEF NextName
  <1>2. UNCHANGED <<owner, stored>> /\ Wire /\ frame[r].pc = "next_name"
    BY Silence DEF NextName
  <1>3. {n} \in SUBSET Names /\ Cardinality({n}) <= MAX_NAMES_PER_DOWNLOAD
    <2>1. frame[r].solo \in SUBSET Names
      BY Running DEF Frames
    <2>2. Cardinality({n}) = 1
      BY FS_Singleton
    <2> QED
      BY <2>1, <2>2, Literals
  <1> DEFINE a == Ask(frame[r], "download")
             f == [a EXCEPT !.chunk = {n}, !.solo = frame[r].solo \ {n}, !.tries = 1]
  <1>4. f = Alone(frame[r], n)
    BY DEF Alone
  <1>5. /\ a \in Frames /\ a.pc = "check" /\ a.op = "download" /\ a.txn = frame[r].txn
        /\ a.solo = frame[r].solo /\ a.suspects = frame[r].suspects
        /\ a.stale_iterations = frame[r].stale_iterations
        /\ frame[r].solo \ {n} \in SUBSET Names
    BY Running, AskChanges DEF Operations, Frames
  <1> HIDE DEF a
  <1>6. f \in Frames
    BY <1>3, <1>5, Update, Literals
  <1>7. f.pc = "check" /\ f.op = "download" /\ f.chunk = {n} /\ f.txn = frame[r].txn
        /\ f.solo = frame[r].solo \ {n} /\ f.suspects = frame[r].suspects
        /\ f.stale_iterations = frame[r].stale_iterations
    BY <1>5 DEF Frames
  <1> HIDE DEF f
  <1>8. Promises(f)
    BY <1>2, <1>7, Running DEF Promises, Confirming, UncommittedIn
  <1>9. f.solo \subseteq f.suspects
    BY <1>7, Running
  <1>10. Quiet(r) /\ frame'[r] = f
    BY <1>1, <1>2, <1>3, <1>4, <1>6, <1>7, <1>8, <1>9, Running, MovesQuietly
  <1> QED
    BY <1>7, <1>10 DEF Ended

\* An iteration ends; the run that has no stale iteration left fails.
LEMMA EndIterationIsQuiet ==
    ASSUME Inv, NEW r \in Runs, EndIteration(r)
    PROVE  Quiet(r) /\ ~Ended(frame'[r])
  <1> DEFINE stale == StaleAfter(frame[r])
             next  == [frame[r] EXCEPT !.stale_iterations = stale]
             f == Ask(next, "get_names")
  <1>1. UNCHANGED <<owner, stored>> /\ Wire /\ frame[r].pc = "next_chunk"
    BY Silence DEF EndIteration
  <1>2. stale \in 0..max_stale_iterations
    <2>1. frame[r].stale_iterations \in Nat /\ frame[r].stale_iterations < max_stale_iterations
      BY <1>1, Running DEF Frames
    <2> QED
      BY <2>1, LimitsArePositive DEF StaleAfter
  <1> HIDE DEF stale
  <1>3. next \in Frames
    BY <1>2, Running, Update
  <1>4. /\ next.pc = "next_chunk" /\ next.chunk = frame[r].chunk /\ next.txn = frame[r].txn
        /\ next.solo = frame[r].solo /\ next.suspects = frame[r].suspects
        /\ next.stale_iterations = stale
    BY <1>1, Running DEF Frames
  <1>5. frame' = [frame EXCEPT ![r] = IF stale >= max_stale_iterations
                                      THEN Failed(next, "stale") ELSE f]
    BY DEF EndIteration, stale
  <1> HIDE DEF next
  <1>6. CASE stale >= max_stale_iterations
    <2>1. frame' = [frame EXCEPT ![r] = Failed(next, "stale")]
      BY <1>5, <1>6
    <2> QED
      BY <1>1, <1>3, <2>1, FailsQuietly
  <1>7. CASE ~(stale >= max_stale_iterations)
    <2>1. frame' = [frame EXCEPT ![r] = f]
      BY <1>5, <1>7
    <2>2. /\ f \in Frames /\ f.pc = "check" /\ f.op = "get_names"
          /\ f.chunk = frame[r].chunk /\ f.txn = frame[r].txn
          /\ f.solo = frame[r].solo /\ f.suspects = frame[r].suspects
          /\ f.stale_iterations = stale
      BY <1>3, <1>4, AskChanges DEF Operations
    <2>3. f.stale_iterations < max_stale_iterations
      BY <1>2, <1>7, <2>2, LimitsArePositive
    <2> HIDE DEF f
    <2>4. Promises(f)
      BY <1>1, <2>2, Running DEF Promises, Confirming, UncommittedIn
    <2>5. Quiet(r) /\ frame'[r] = f
      BY <1>1, <2>1, <2>2, <2>3, <2>4, Running, MovesQuietly
    <2> QED
      BY <2>2, <2>5 DEF Ended
  <1> QED
    BY <1>6, <1>7

\* A valid archive has every name of the chunk.
LEMMA DownloadAnswerIsQuiet ==
    ASSUME Inv, NEW r \in Runs, DownloadAnswer(r)
    PROVE  Quiet(r) /\ ~Ended(frame'[r])
  <1>1. PICK archive \in Archives(frame[r].chunk) :
            frame' = [frame EXCEPT ![r] = [frame[r] EXCEPT !.pc = "insert", !.left = archive]]
    BY DEF DownloadAnswer
  <1>2. UNCHANGED <<owner, stored>> /\ Wire /\ frame[r].pc = "inflight"
    BY Silence DEF DownloadAnswer
  <1>3. archive \in Parsed /\ NamesIn(archive) = frame[r].chunk
    <2>1. frame[r].chunk \in SUBSET Names
      BY Running DEF Frames
    <2>2. Cardinality(frame[r].chunk) \in Nat
      BY <2>1, CatalogIsFinite, FS_Subset, FS_CardinalityType
    <2> QED
      BY <2>2, SeqDef DEF Archives, Parsed, NamesIn
  <1> DEFINE f == [frame[r] EXCEPT !.pc = "insert", !.left = archive]
  <1>4. f \in Frames
    BY <1>3, Running, Update, Literals
  <1>5. /\ f.pc = "insert" /\ f.left = archive /\ f.chunk = frame[r].chunk
        /\ f.txn = frame[r].txn /\ f.solo = frame[r].solo
        /\ f.suspects = frame[r].suspects
        /\ f.stale_iterations = frame[r].stale_iterations
    BY Running DEF Frames
  <1>6. frame' = [frame EXCEPT ![r] = f]
    BY <1>1
  <1> HIDE DEF f
  <1>7. Promises(f)
    BY <1>3, <1>5, Running DEF Promises, Confirming, UncommittedIn
  <1>8. Quiet(r) /\ frame'[r] = f
    BY <1>2, <1>4, <1>5, <1>6, <1>7, Running, MovesQuietly
  <1> QED
    BY <1>5, <1>8 DEF Ended

\* The run commits only when every name of its chunk is inserted or stored.
LEMMA VerifyBeforeCommitIsQuiet ==
    ASSUME Inv, NEW r \in Runs, VerifyBeforeCommit(r)
    PROVE  Quiet(r) /\ ~Ended(frame'[r])
  <1> DEFINE f == [frame[r] EXCEPT !.pc = "commit"]
  <1>1. UNCHANGED <<owner, stored>> /\ Wire /\ frame[r].pc = "insert" /\ frame[r].left = <<>>
    BY Silence DEF VerifyBeforeCommit
  <1>2. CASE frame' = [frame EXCEPT ![r] = Failed(frame[r], "stopped")]
    BY <1>1, <1>2, Running, FailsQuietly
  <1>3. CASE frame' = [frame EXCEPT ![r] = f]
    <2>1. f \in Frames
      BY Running, Update, Literals
    <2>2. f.pc = "commit" /\ f.chunk = frame[r].chunk
          /\ f.txn = frame[r].txn /\ f.solo = frame[r].solo
          /\ f.suspects = frame[r].suspects
          /\ f.stale_iterations = frame[r].stale_iterations
      BY Running DEF Frames
    <2> HIDE DEF f
    <2>3. NamesIn(frame[r].left) = {}
      BY <1>1 DEF NamesIn
    <2>4. Promises(f)
      BY <1>1, <2>2, <2>3, Running DEF Promises, Confirming, UncommittedIn
    <2>5. Quiet(r) /\ frame'[r] = f
      BY <1>1, <1>3, <2>1, <2>2, <2>4, Running, MovesQuietly
    <2> QED
      BY <2>2, <2>5 DEF Ended
  <1> QED
    BY <1>2, <1>3 DEF VerifyBeforeCommit

\* The number of names in a chunk, or in a part of one, is a natural number.
LEMMA Countable ==
    ASSUME NEW S \in SUBSET Names
    PROVE  Cardinality(S) \in Nat
  BY CatalogIsFinite, FS_Subset, FS_CardinalityType

\* The answer to a confirmation: what it names was stored before it was sent.
LEMMA MarkAnswerIsQuiet ==
    ASSUME Inv, NEW r \in Runs, MarkAnswer(r)
    PROVE  Quiet(r) /\ ~Ended(frame'[r])
  <1> DEFINE f == [frame[r] EXCEPT !.pc = "next_name",
              !.marked_total = frame[r].marked_total + Cardinality(frame[r].chunk \ marked),
              !.files_saved = frame[r].files_saved + Cardinality(frame[r].chunk)]
  <1>1. /\ UNCHANGED <<owner, stored>> /\ frame[r].pc = "inflight"
        /\ frame' = [frame EXCEPT ![r] = f] /\ Abandoned(frame[r])
    BY DEF MarkAnswer, Abandoned, Unknown, Count
  <1>2. Wire
    BY <1>1, Confirmed
  <1>3. /\ frame[r].marked_total + Cardinality(frame[r].chunk \ marked) \in Nat
        /\ frame[r].files_saved + Cardinality(frame[r].chunk) \in Nat
    <2>1. /\ frame[r].chunk \in SUBSET Names /\ frame[r].chunk \ marked \in SUBSET Names
          /\ frame[r].marked_total \in Nat /\ frame[r].files_saved \in Nat
      BY Running DEF Frames
    <2>2. /\ Cardinality(frame[r].chunk) \in Nat
          /\ Cardinality(frame[r].chunk \ marked) \in Nat
      BY <2>1, Countable
    <2> QED
      BY <2>1, <2>2
  <1>4. f \in Frames
    BY <1>3, Running, Update, Literals
  <1>5. f.pc = "next_name" /\ f.op = frame[r].op /\ f.chunk = frame[r].chunk
        /\ f.txn = frame[r].txn /\ f.solo = frame[r].solo
        /\ f.suspects = frame[r].suspects
        /\ f.stale_iterations = frame[r].stale_iterations
    BY Running DEF Frames
  <1> HIDE DEF f
  <1>6. Promises(f)
    BY <1>1, <1>5, Running DEF Promises, Confirming, UncommittedIn
  <1>7. Quiet(r) /\ frame'[r] = f
    BY <1>1, <1>2, <1>4, <1>5, <1>6, Running, MovesQuietly
  <1> QED
    BY <1>5, <1>7 DEF Ended

\* A cycle of transactions ends one of them.
LEMMA DeadlockVictimIsQuiet ==
    ASSUME Inv, NEW r \in Runs, DeadlockVictim(r)
    PROVE  Quiet(r) /\ ~Ended(frame'[r])
  <1>1. UNCHANGED <<owner, stored>> /\ Wire
        /\ frame' = [frame EXCEPT ![r] = Failed(frame[r], "stopped")]
    BY Silence DEF DeadlockVictim
  <1>2. frame[r].pc # "over"
    BY DEF DeadlockVictim, WaitsFor
  <1> QED
    BY <1>1, <1>2, Running, FailsQuietly

\* A refused download takes a chunk apart, tries a name again or gives it up; the
\* names still to be tried alone are always among the suspects.
LEMMA DownloadRefusedIsQuiet ==
    ASSUME Inv, NEW r \in Runs, DownloadRefused(r)
    PROVE  Quiet(r) /\ ~Ended(frame'[r])
  <1> DEFINE g == frame[r]
             taken == Isolate(g)
             again == TryAgain(g)
             given == GiveUp(g)
  <1>1. UNCHANGED <<owner, stored>> /\ Wire /\ frame[r].pc = "inflight"
        /\ frame[r].op = "download"
    BY Silence DEF DownloadRefused
  <1>2. /\ taken \in Frames /\ taken.pc = "next_name"
        /\ taken.chunk = frame[r].chunk /\ taken.txn = frame[r].txn
        /\ taken.solo = taken.suspects
        /\ taken.stale_iterations = frame[r].stale_iterations
    <2>1. frame[r].chunk \in SUBSET Names
      BY Running DEF Frames
    <2>2. taken \in Frames
      BY <2>1, Running, Update, Literals DEF Isolate
    <2> QED
      BY <2>2, Running DEF Isolate, Frames
  <1>3. ASSUME frame[r].tries < single_404_attempts
        PROVE  /\ again \in Frames /\ again.pc = "check" /\ again.op = "download"
               /\ again.chunk = frame[r].chunk /\ again.txn = frame[r].txn
               /\ again.solo = frame[r].solo /\ again.suspects = frame[r].suspects
               /\ again.stale_iterations = frame[r].stale_iterations
    <2> DEFINE a == Ask(g, "download")
    <2>1. NextAttempt(g) \in 0..single_404_attempts
      <3>1. frame[r].tries \in Nat
        BY Running DEF Frames
      <3> QED
        BY <1>3, <3>1, LimitsArePositive DEF NextAttempt
    <2>2. /\ a \in Frames /\ a.pc = "check" /\ a.op = "download"
          /\ a.chunk = frame[r].chunk /\ a.txn = frame[r].txn
          /\ a.solo = frame[r].solo /\ a.suspects = frame[r].suspects
          /\ a.stale_iterations = frame[r].stale_iterations
      BY Running, AskChanges DEF Operations
    <2>3. again = [a EXCEPT !.tries = NextAttempt(g)]
      BY DEF TryAgain
    <2> HIDE DEF a
    <2>4. again \in Frames
      BY <2>1, <2>2, <2>3, Update
    <2> QED
      BY <2>2, <2>3, <2>4 DEF Frames
  <1>4. /\ given \in Frames /\ given.pc = "next_name"
        /\ given.chunk = frame[r].chunk /\ given.txn = frame[r].txn
        /\ given.solo = frame[r].solo /\ given.suspects = frame[r].suspects
        /\ given.stale_iterations = frame[r].stale_iterations
    <2>1. frame[r].solo \in SUBSET Names
          /\ frame[r].unavailable \cup frame[r].chunk \in SUBSET Names
      BY Running DEF Frames
    <2>2. given \in Frames
      BY <2>1, Running, Update, Literals DEF GiveUp, StillToTry
    <2> QED
      BY <2>2, Running DEF GiveUp, StillToTry, Frames
  <1> HIDE DEF taken, again, given
  <1>5. CASE frame' = [frame EXCEPT ![r] = taken]
    <2>1. Promises(taken)
      BY <1>2, Running DEF Promises, Confirming, UncommittedIn
    <2>2. Quiet(r) /\ frame'[r] = taken
      BY <1>1, <1>2, <1>5, <2>1, Running, MovesQuietly
    <2> QED
      BY <1>2, <2>2 DEF Ended
  <1>6. CASE frame[r].tries < single_404_attempts /\ frame' = [frame EXCEPT ![r] = again]
    <2>1. Promises(again)
      BY <1>3, <1>6, Running DEF Promises, Confirming, UncommittedIn
    <2>2. Quiet(r) /\ frame'[r] = again
      BY <1>1, <1>3, <1>6, <2>1, Running, MovesQuietly
    <2> QED
      BY <1>3, <1>6, <2>2 DEF Ended
  <1>7. CASE frame' = [frame EXCEPT ![r] = Failed(given, "unavailable")]
    BY <1>1, <1>4, <1>7, FailsQuietly
  <1>8. CASE frame' = [frame EXCEPT ![r] = given]
    <2>1. Promises(given)
      BY <1>4, Running DEF Promises, Confirming, UncommittedIn
    <2>2. given.solo \subseteq given.suspects
      BY <1>4, Running
    <2>3. Quiet(r) /\ frame'[r] = given
      BY <1>1, <1>4, <1>8, <2>1, <2>2, Running, MovesQuietly
    <2> QED
      BY <1>4, <2>3 DEF Ended
  <1> QED
    BY <1>5, <1>6, <1>7, <1>8 DEF DownloadRefused, taken, again, given

\* The run goes on to the next chunk or fails over the names it could not get.
LEMMA EndChunkIsQuiet ==
    ASSUME Inv, NEW r \in Runs, EndChunk(r)
    PROVE  Quiet(r) /\ ~Ended(frame'[r])
  <1> DEFINE f == [frame[r] EXCEPT !.pc = "next_chunk", !.suspects = {}, !.chunk = {}]
  <1>1. UNCHANGED <<owner, stored>> /\ Wire /\ frame[r].pc = "next_name"
        /\ frame[r].solo = {}
    BY Silence DEF EndChunk
  <1>2. CASE MustStop(frame[r])
    <2>1. frame' = [frame EXCEPT ![r] = Failed(frame[r], "unavailable")]
      BY <1>2 DEF EndChunk
    <2> QED
      BY <1>1, <2>1, Running, FailsQuietly
  <1>3. CASE ~MustStop(frame[r])
    <2>1. frame' = [frame EXCEPT ![r] = f]
      BY <1>3 DEF EndChunk
    <2>2. f \in Frames
      BY Running, Update, Literals
    <2>3. f.pc = "next_chunk" /\ f.chunk = {} /\ f.txn = frame[r].txn /\ f.solo = {}
          /\ f.stale_iterations = frame[r].stale_iterations
      BY <1>1, Running DEF Frames
    <2> HIDE DEF f
    <2>4. Promises(f)
      BY <2>3, Running DEF Promises, Confirming, UncommittedIn
    <2>5. Quiet(r) /\ frame'[r] = f
      BY <1>1, <2>1, <2>2, <2>3, <2>4, Running, Literals, MovesQuietly
    <2> QED
      BY <2>3, <2>5 DEF Ended
  <1> QED
    BY <1>2, <1>3

\* Names to download, a body that is refused, or the end: an empty list is sent
\* only when everything is marked.
LEMMA NamesAnswerIsQuiet ==
    ASSUME Inv, NEW r \in Runs, NamesAnswer(r)
    PROVE  Quiet(r) /\ (Ended(frame'[r]) => marked = Names /\ UNCHANGED marked)
  <1>1. PICK body \in Bodies :
            frame' = [frame EXCEPT ![r] =
                IF ~parse_names(body) THEN Failed(frame[r], "stopped")
                ELSE IF body.file_names = {} THEN [frame[r] EXCEPT !.pc = "over"]
                ELSE Iterate(frame[r], body.file_names)]
    BY DEF NamesAnswer
  <1>2. UNCHANGED <<owner, stored, marked>> /\ Wire /\ frame[r].pc = "inflight"
        /\ frame[r].op = "get_names"
    BY Silence DEF NamesAnswer
  <1>3. body.file_names \in SUBSET Names
        /\ (body.valid /\ body.file_names = {} => marked = Names)
    <2>1. CASE body = [valid |-> FALSE, file_names |-> {}]
      BY <2>1
    <2>2. CASE \E S \in (SUBSET Names) \ {{}} : body = [valid |-> TRUE, file_names |-> S]
      <3>1. PICK S \in (SUBSET Names) \ {{}} : body = [valid |-> TRUE, file_names |-> S]
        BY <2>2
      <3>2. body.file_names = S
        BY <3>1
      <3>3. S \in SUBSET Names /\ S # {}
        BY <3>1
      <3> QED
        BY <3>2, <3>3
    <2>3. CASE \E all \in {marked} \cap {Names} : body = [valid |-> TRUE, file_names |-> {}]
      BY <2>3
    <2> QED
      BY <1>1, <2>1, <2>2, <2>3 DEF Bodies
  <1>4. CASE ~parse_names(body)
    <2>1. frame' = [frame EXCEPT ![r] = Failed(frame[r], "stopped")]
      BY <1>1, <1>4
    <2> QED
      BY <1>2, <2>1, Running, FailsQuietly
  <1>5. CASE parse_names(body) /\ body.file_names = {}
    <2> DEFINE f == [frame[r] EXCEPT !.pc = "over"]
    <2>1. frame' = [frame EXCEPT ![r] = f]
      BY <1>1, <1>5
    <2>2. f \in Frames
      BY Running, Update, Literals
    <2>3. f.pc = "over" /\ f.chunk = frame[r].chunk /\ f.txn = frame[r].txn
          /\ f.solo = frame[r].solo /\ f.suspects = frame[r].suspects
          /\ f.stale_iterations = frame[r].stale_iterations
      BY Running DEF Frames
    <2> HIDE DEF f
    <2>4. Promises(f)
      BY <2>3, Running DEF Promises, Confirming, UncommittedIn
    <2>5. Quiet(r)
      BY <1>2, <2>1, <2>2, <2>3, <2>4, Running, MovesQuietly
    <2> QED
      BY <1>2, <1>3, <1>5, <2>5 DEF parse_names
  <1>6. CASE parse_names(body) /\ body.file_names # {}
    <2> DEFINE names == body.file_names
               f == [frame[r] EXCEPT !.pc = "next_chunk", !.todo = names, !.marked_total = 0,
                        !.names_seen = frame[r].names_seen + Cardinality(names)]
    <2>1. frame' = [frame EXCEPT ![r] = f]
      BY <1>1, <1>6 DEF Iterate
    <2>2. frame[r].names_seen + Cardinality(names) \in Nat
      <3>1. frame[r].names_seen \in Nat
        BY Running DEF Frames
      <3> QED
        BY <1>3, <3>1, Countable
    <2>3. f \in Frames
      <3> DEFINE f1 == [frame[r] EXCEPT !.pc = "next_chunk"]
                 f2 == [f1 EXCEPT !.todo = names]
                 f3 == [f2 EXCEPT !.marked_total = 0]
                 f4 == [f3 EXCEPT !.names_seen = frame[r].names_seen + Cardinality(names)]
      <3>1. f1 \in Frames
        BY Running, Update, Literals
      <3> HIDE DEF f1
      <3>2. f2 \in Frames
        BY <1>3, <3>1, Update
      <3> HIDE DEF f2
      <3>3. f3 \in Frames
        BY <3>2, Update
      <3> HIDE DEF f3
      <3>4. f4 \in Frames
        BY <2>2, <3>3, Update
      <3> QED
        BY <3>4 DEF f1, f2, f3, f4
    <2>4. f.pc = "next_chunk" /\ f.chunk = frame[r].chunk /\ f.txn = frame[r].txn
          /\ f.solo = frame[r].solo /\ f.suspects = frame[r].suspects
          /\ f.stale_iterations = frame[r].stale_iterations
      BY Running DEF Frames
    <2> HIDE DEF f
    <2>5. Promises(f)
      BY <2>4, Running DEF Promises, Confirming, UncommittedIn
    <2>6. Quiet(r) /\ frame'[r] = f
      BY <1>2, <2>1, <2>3, <2>4, <2>5, Running, MovesQuietly
    <2> QED
      BY <2>4, <2>6 DEF Ended
  <1> QED
    BY <1>4, <1>5, <1>6

\* The names still to insert are the first one and those of the rest.
LEMMA Unfold ==
    ASSUME NEW files \in Parsed, files # <<>>
    PROVE  /\ Head(files) \in Files /\ Tail(files) \in Parsed
           /\ NamesIn(files) \subseteq {Head(files).name} \cup NamesIn(Tail(files))
  <1>1. Head(files) \in Files /\ Tail(files) \in Parsed
    BY DEF Parsed
  <1>2. ASSUME NEW i \in DOMAIN files
        PROVE  files[i] = Head(files) \/ \E j \in DOMAIN Tail(files) : files[i] = Tail(files)[j]
    <2>1. i \in 1..Len(files) /\ Len(files) \in Nat
      BY DEF Parsed
    <2>2. CASE i = 1
      BY <2>2 DEF Parsed
    <2>3. CASE i # 1
      <3>1. i - 1 \in DOMAIN Tail(files) /\ files[i] = Tail(files)[i - 1]
        BY <2>1, <2>3 DEF Parsed
      <3> QED
        BY <3>1
    <2> QED
      BY <2>2, <2>3
  <1> QED
    BY <1>1, <1>2 DEF NamesIn

\* A file is inserted while nobody else holds its name, found sound and the same,
\* or the run fails.
LEMMA InsertIsQuiet ==
    ASSUME Inv, NEW r \in Runs, Insert(r)
    PROVE  Quiet(r) /\ ~Ended(frame'[r])
  <1> DEFINE file == Head(frame[r].left)
             skipped == [frame[r] EXCEPT !.left = Tail(frame[r].left)]
             inserted == [skipped EXCEPT !.txn = frame[r].txn \cup {file}]
  <1>1. /\ UNCHANGED <<owner, stored>> /\ Wire /\ frame[r].pc = "insert"
        /\ frame[r].left # <<>> /\ frame[r].left \in Parsed
        /\ frame[r].txn \in SUBSET Files
    BY Silence, Running DEF Insert, Frames
  <1>2. /\ file \in Files /\ Tail(frame[r].left) \in Parsed
        /\ NamesIn(frame[r].left) \subseteq {file.name} \cup NamesIn(Tail(frame[r].left))
    BY <1>1, Unfold
  <1>3. /\ file.name \in Names /\ file.content \in Contents
    BY <1>2 DEF Files
  <1>4. /\ skipped \in Frames /\ skipped.left = Tail(frame[r].left)
        /\ skipped.pc = "insert" /\ skipped.chunk = frame[r].chunk
        /\ skipped.txn = frame[r].txn
        /\ skipped.solo = frame[r].solo /\ skipped.suspects = frame[r].suspects
        /\ skipped.stale_iterations = frame[r].stale_iterations
    <2>1. skipped \in Frames
      BY <1>2, Running, Update
    <2> QED
      BY <1>1, <2>1, Running DEF Frames
  <1>5. \A s \in Runs \ {r} : file.name \notin UncommittedIn(frame[s])
    BY DEF Insert, HeldByOther, Uncommitted, UncommittedIn
  <1>6. frame' = [frame EXCEPT ![r] = IF stored[file.name] = Absent THEN inserted
                                      ELSE IF Verified(file) THEN skipped
                                      ELSE Failed(frame[r], "stopped")]
    BY DEF Insert, Inserted, Skipped
  <1> HIDE DEF skipped, file
  <1>7. CASE stored[file.name] = Absent
    <2>1. frame' = [frame EXCEPT ![r] = inserted]
      BY <1>6, <1>7
    <2>2. frame[r].txn \cup {file} \in SUBSET Files
      BY <1>1, <1>2
    <2>3. inserted \in Frames
      BY <1>4, <2>2, Update
    <2>4. /\ inserted.left = Tail(frame[r].left) /\ inserted.txn = frame[r].txn \cup {file}
          /\ inserted.pc = "insert" /\ inserted.chunk = frame[r].chunk
          /\ inserted.solo = frame[r].solo /\ inserted.suspects = frame[r].suspects
          /\ inserted.stale_iterations = frame[r].stale_iterations
      BY <1>4 DEF Frames
    <2> HIDE DEF inserted
    <2>5. UncommittedIn(inserted) = UncommittedIn(frame[r]) \cup {file.name}
      BY <2>4 DEF UncommittedIn
    <2>6. Promises(inserted)
      <3>1. inserted.chunk \subseteq NamesIn(inserted.left) \cup UncommittedIn(inserted) \cup Sound
        BY <1>1, <1>2, <2>4, <2>5, Running DEF Promises
      <3>2. \A n \in UncommittedIn(inserted) : stored[n] = Absent
        BY <1>7, <2>5, Running DEF Promises
      <3> QED
        BY <2>4, <3>1, <3>2 DEF Promises, Confirming
    <2>7. Kept(inserted)
      BY <1>1, <2>3, <2>4, <2>6, Running DEF Kept, FrameOK
    <2>8. \A s \in Runs \ {r} : UncommittedIn(inserted) \cap UncommittedIn(frame[s]) = {}
      <3>1. \A s \in Runs \ {r} : UncommittedIn(frame[r]) \cap UncommittedIn(frame[s]) = {}
        BY DEF Inv, Apart
      <3> QED
        BY <1>5, <2>5, <3>1
    <2>9. frame'[r] = inserted /\ frame' = [frame EXCEPT ![r] = frame'[r]]
      BY <2>1, Replaced
    <2> QED
      BY <1>1, <2>4, <2>7, <2>8, <2>9, Running DEF Quiet, Ended
  <1>8. CASE stored[file.name] # Absent /\ Verified(file)
    <2>1. frame' = [frame EXCEPT ![r] = skipped]
      BY <1>6, <1>8
    <2>2. file.name \in Sound
      BY <1>3, <1>8 DEF Verified, Sound
    <2>3. Promises(skipped)
      <3>1. skipped.chunk \subseteq NamesIn(skipped.left) \cup UncommittedIn(skipped) \cup Sound
        BY <1>1, <1>2, <1>4, <2>2, Running DEF Promises, UncommittedIn
      <3>2. \A n \in UncommittedIn(skipped) : stored[n] = Absent
        BY <1>4, Running DEF Promises, UncommittedIn
      <3> QED
        BY <1>4, <3>1, <3>2 DEF Promises, Confirming
    <2>4. Quiet(r) /\ frame'[r] = skipped
      BY <1>1, <1>4, <2>1, <2>3, Running, MovesQuietly
    <2> QED
      BY <1>4, <2>4 DEF Ended
  <1>9. CASE stored[file.name] # Absent /\ ~Verified(file)
    <2>1. frame' = [frame EXCEPT ![r] = Failed(frame[r], "stopped")]
      BY <1>6, <1>9
    <2> QED
      BY <1>1, <2>1, Running, FailsQuietly
  <1> QED
    BY <1>7, <1>8, <1>9

-----------------------------------------------------------------------------
(* Steps that commit. *)

\* A commit only fills in rows that were missing, with the files of one transaction.
LEMMA CommitFillsIn ==
    ASSUME Inv, NEW r \in Runs, stored' = Committed(r)
    PROVE  /\ stored' \in [Names -> Contents \cup {Absent, Corrupt}]
           /\ UncommittedIn(frame[r]) \subseteq Sound'
           /\ Sound \subseteq Sound'
           /\ \A n \in Names \ UncommittedIn(frame[r]) : stored'[n] = stored[n]
           /\ \A n \in UncommittedIn(frame[r]) :
                 n \in Names /\ stored[n] = Absent /\ stored'[n] \in Contents
  <1>1. /\ frame[r].txn \subseteq Files
        /\ \A n \in UncommittedIn(frame[r]) : stored[n] = Absent
        /\ stored \in [Names -> Contents \cup {Absent, Corrupt}]
    BY Running DEF Frames, Promises, Inv, Shared
  <1>2. \A n \in UncommittedIn(frame[r]) :
            n \in Names /\ (CHOOSE file \in frame[r].txn : file.name = n).content \in Contents
    <2> SUFFICES ASSUME NEW n \in UncommittedIn(frame[r])
                 PROVE  n \in Names
                        /\ (CHOOSE file \in frame[r].txn : file.name = n).content \in Contents
      OBVIOUS
    <2>1. \E file \in frame[r].txn : file.name = n
      BY DEF UncommittedIn
    <2>2. PICK file \in Files : file.name = n
      BY <1>1, <2>1
    <2>3. (CHOOSE f \in frame[r].txn : f.name = n) \in Files
      BY <1>1, <2>1
    <2> QED
      BY <2>2, <2>3 DEF Files
  <1>3. /\ \A n \in Names : stored'[n] =
              IF n \in UncommittedIn(frame[r])
              THEN (CHOOSE file \in frame[r].txn : file.name = n).content ELSE stored[n]
        /\ DOMAIN stored' = Names
        /\ stored' = [n \in Names |-> stored'[n]]
    BY DEF Committed, Uncommitted, UncommittedIn
  <1>4. /\ \A n \in UncommittedIn(frame[r]) :
                 n \in Names /\ stored[n] = Absent /\ stored'[n] \in Contents
        /\ \A n \in Names \ UncommittedIn(frame[r]) : stored'[n] = stored[n]
    BY <1>1, <1>2, <1>3
  <1>5. stored' \in [Names -> Contents \cup {Absent, Corrupt}]
    BY <1>1, <1>3, <1>4
  <1>6. UncommittedIn(frame[r]) \subseteq Sound' /\ Sound \subseteq Sound'
    BY <1>4 DEF Sound
  <1> QED
    BY <1>4, <1>5, <1>6

\* A commit with which run r goes over to the frame f preserves the invariant.
LEMMA CommitKeeps ==
    ASSUME Inv, NEW r \in Runs, stored' = Committed(r), UNCHANGED <<owner, marked, late>>,
           NEW f, frame' = [frame EXCEPT ![r] = f], FrameOK(f), f.txn = {},
           f.pc \notin {"insert", "commit"},
           Confirming(f) => f.chunk \subseteq UncommittedIn(frame[r]) \cup Sound
    PROVE  Inv'
  <1>1. /\ UncommittedIn(frame[r]) \subseteq Sound' /\ Sound \subseteq Sound'
        /\ \A n \in Names \ UncommittedIn(frame[r]) : stored'[n] = stored[n]
        /\ stored' \in [Names -> Contents \cup {Absent, Corrupt}]
    BY CommitFillsIn
  <1>2. frame'[r] = f /\ \A s \in Runs \ {r} : frame'[s] = frame[s]
    BY Replaced DEF Inv
  <1>3. frame' \in [Runs -> Frames]
    BY <1>2 DEF Inv, FrameOK
  <1>4. \A s \in Runs : Kept(frame[s])'
    <2> SUFFICES ASSUME NEW s \in Runs PROVE Kept(frame[s])'
      OBVIOUS
    <2>1. CASE s = r
      <3>1. FrameOK(frame'[s]) /\ frame'[s] = f
        BY <1>2, <2>1
      <3>2. UncommittedIn(f) = {}
        BY DEF UncommittedIn
      <3>3. Confirming(f) => f.chunk \subseteq Sound'
        BY <1>1
      <3> QED
        BY <3>1, <3>2, <3>3 DEF Kept, Promises, FrameOK, Confirming, UncommittedIn, NamesIn
    <2>2. CASE s # r
      <3>1. frame'[s] = frame[s] /\ Kept(frame[s])
        BY <1>2, <2>2 DEF Inv
      <3>2. \A n \in UncommittedIn(frame[s]) : stored'[n] = Absent
        <4>1. UncommittedIn(frame[s]) \cap UncommittedIn(frame[r]) = {}
          BY <2>2 DEF Inv, Apart
        <4>2. UncommittedIn(frame[s]) \subseteq Names
          BY Running DEF Frames, Files, UncommittedIn
        <4> QED
          BY <1>1, <3>1, <4>1, <4>2 DEF Kept, Promises
      <3> QED
        BY <1>1, <3>1, <3>2 DEF Kept, Promises, FrameOK, Confirming, UncommittedIn, NamesIn
    <2> QED
      BY <2>1, <2>2
  <1>5. Apart'
    <2> SUFFICES ASSUME NEW s \in Runs, NEW t \in Runs, s # t
                 PROVE  UncommittedIn(frame'[s]) \cap UncommittedIn(frame'[t]) = {}
      BY DEF Apart, UncommittedIn
    <2>1. UncommittedIn(f) = {}
      BY DEF UncommittedIn
    <2>2. CASE s = r \/ t = r
      BY <1>2, <2>1, <2>2
    <2>3. CASE s # r /\ t # r
      <3>1. frame'[s] = frame[s] /\ frame'[t] = frame[t]
        BY <1>2, <2>3
      <3> QED
        BY <3>1 DEF Inv, Apart
    <2> QED
      BY <2>2, <2>3
  <1>6. Shared' /\ Told'
    BY <1>1 DEF Inv, Shared, Told
  <1> QED
    BY <1>3, <1>4, <1>5, <1>6 DEF Inv

\* The commit: the whole chunk is stored when the confirmation is prepared.
LEMMA CommitPreserves ==
    ASSUME Inv, NEW r \in Runs, Commit(r)
    PROVE  Inv' /\ ~Ended(frame'[r]) /\ stored' = Committed(r)
  <1> DEFINE a == Ask(frame[r], "mark_downloaded")
             f == [a EXCEPT !.txn = {}]
  <1>1. /\ frame[r].pc = "commit" /\ stored' = Committed(r)
        /\ UNCHANGED <<owner, marked, late>> /\ frame' = [frame EXCEPT ![r] = f]
    BY DEF Commit
  <1>2. /\ a \in Frames /\ a.pc = "check" /\ a.chunk = frame[r].chunk
        /\ a.solo = frame[r].solo /\ a.suspects = frame[r].suspects
        /\ a.stale_iterations = frame[r].stale_iterations
    BY Running, AskChanges DEF Operations
  <1> HIDE DEF a
  <1>3. f \in Frames
    BY <1>2, Update
  <1>4. /\ f.pc = "check" /\ f.chunk = frame[r].chunk /\ f.txn = {}
        /\ f.solo = frame[r].solo /\ f.suspects = frame[r].suspects
        /\ f.stale_iterations = frame[r].stale_iterations
    BY <1>2 DEF Frames
  <1> HIDE DEF f
  <1>5. FrameOK(f)
    BY <1>1, <1>3, <1>4, Running DEF FrameOK
  <1>6. f.chunk \subseteq UncommittedIn(frame[r]) \cup Sound
    BY <1>1, <1>4, Running DEF Promises
  <1>7. Inv'
    BY <1>1, <1>4, <1>5, <1>6, CommitKeeps
  <1>8. frame'[r] = f
    BY <1>1, Replaced
  <1> QED
    BY <1>1, <1>4, <1>7, <1>8 DEF Ended

\* A worker that dies takes its transaction with it, or leaves it committed.
LEMMA DiesPreserves ==
    ASSUME Inv, NEW r \in Runs, Dies(r)
    PROVE  \/ Quiet(r) /\ ~Ended(frame'[r])
           \/ /\ Inv' /\ ~Ended(frame'[r]) /\ stored' = Committed(r)
              /\ frame[r].pc = "commit" /\ UNCHANGED <<owner, marked, late>>
              /\ frame' = [frame EXCEPT ![r] = frame'[r]]
  <1>1. /\ frame[r].pc # "over" /\ UNCHANGED owner
        /\ frame' = [frame EXCEPT ![r] = Failed(frame[r], "stopped")]
    BY DEF Dies
  <1>2. CASE UNCHANGED stored
    <2>1. Wire
      BY Confirmed, Silence DEF Dies
    <2> QED
      BY <1>1, <1>2, <2>1, Running, FailsQuietly
  <1>3. CASE frame[r].pc = "commit" /\ stored' = Committed(r)
    <2>1. UNCHANGED <<owner, marked, late>>
      BY <1>1, <1>3 DEF Dies
    <2> DEFINE f == Failed(frame[r], "stopped")
    <2>2. Kept(f) /\ f.pc = "over" /\ f.reason = "stopped" /\ f.txn = {}
      BY Running, FailedIsKept
    <2>3. frame' = [frame EXCEPT ![r] = f]
      BY <1>1
    <2> HIDE DEF f
    <2>4. Inv'
      BY <1>3, <2>1, <2>2, <2>3, CommitKeeps DEF Kept, Confirming
    <2>5. frame'[r] = f /\ frame' = [frame EXCEPT ![r] = frame'[r]]
      BY <2>3, Replaced
    <2> QED
      BY <1>3, <2>1, <2>2, <2>4, <2>5 DEF Ended
  <1> QED
    BY <1>2, <1>3 DEF Dies

-----------------------------------------------------------------------------
(* The invariant, the theorems. *)

\* The steps of a run, but its commit and its death, are quiet, and a run that ends
\* as done does so when everything is marked.
LEMMA StepsAreQuiet ==
    ASSUME Inv, NEW r \in Runs,
           \/ Begin(r) \/ CheckLock(r) \/ Send(r) \/ NextChunk(r) \/ EndIteration(r)
           \/ Insert(r) \/ VerifyBeforeCommit(r) \/ NextName(r) \/ EndChunk(r)
           \/ DeadlockVictim(r) \/ Answered(r) \/ NetworkError(r) \/ RetryAfter(r)
    PROVE  Quiet(r) /\ (Ended(frame'[r]) => marked = Names /\ UNCHANGED marked)
  BY BeginIsQuiet, CheckLockIsQuiet, SendIsQuiet, NextChunkIsQuiet, EndIterationIsQuiet,
     InsertIsQuiet, VerifyBeforeCommitIsQuiet, NextNameIsQuiet, EndChunkIsQuiet,
     DeadlockVictimIsQuiet, FatalAnswerIsQuiet, NamesAnswerIsQuiet, DownloadAnswerIsQuiet,
     DownloadRefusedIsQuiet, MarkAnswerIsQuiet, NetworkErrorIsQuiet, RetryAfterIsQuiet
     DEF Answered

\* The loop starts with nothing asked, nothing open and nothing told.
LEMMA InvInit == Init => Inv
  <1> SUFFICES ASSUME Init PROVE Inv
    OBVIOUS
  <1>1. NewFrame \in Frames
    BY Literals DEF NewFrame, Frames, Operations, Places, Reasons, Parsed
  <1>2. FrameOK(NewFrame)
    BY <1>1, Literals DEF FrameOK, NewFrame
  <1>3. Promises(NewFrame) /\ UncommittedIn(NewFrame) = {}
    BY DEF Promises, NewFrame, Confirming, UncommittedIn
  <1>4. frame \in [Runs -> Frames] /\ \A r \in Runs : frame[r] = NewFrame
    BY <1>1 DEF Init
  <1>5. Apart /\ \A r \in Runs : Kept(frame[r])
    BY <1>2, <1>3, <1>4 DEF Apart, Kept
  <1>6. Shared /\ Told
    BY DEF Init, Shared, Told
  <1> QED
    BY <1>4, <1>5, <1>6 DEF Inv

\* The lock and the confirmations on their way change nothing a run holds.
LEMMA FramesStay ==
    ASSUME Inv, UNCHANGED <<stored, frame>>, Shared', Told'
    PROVE  Inv'
  <1>1. Sound' = Sound
    BY DEF Sound
  <1>2. \A r \in Runs : Kept(frame[r])'
    BY <1>1 DEF Inv, Kept, FrameOK, Promises, Confirming, UncommittedIn, NamesIn
  <1>3. Apart'
    BY DEF Inv, Apart, UncommittedIn
  <1> QED
    BY <1>2, <1>3 DEF Inv

\* A confirmation that comes late names stored files.
LEMMA ArrivesLatePreserves ==
    ASSUME Inv, ArrivesLate
    PROVE  Inv' /\ \E S \in SUBSET Sound : marked' = marked \cup S
  <1>1. PICK S \in late : marked' = marked \cup S /\ late' = late \ {S}
    BY DEF ArrivesLate
  <1>2. S \in SUBSET Sound /\ UNCHANGED <<owner, stored, frame>>
    BY DEF ArrivesLate, Inv, Told
  <1>3. Sound' = Sound /\ Sound \subseteq Names
    BY <1>2 DEF Sound
  <1>4. Shared'
    BY <1>1, <1>2, <1>3 DEF Inv, Shared
  <1>5. Told'
    BY <1>1, <1>2, <1>3 DEF Inv, Told
  <1> QED
    BY <1>1, <1>2, <1>4, <1>5, FramesStay

\* Every step preserves the invariant.
LEMMA InvStep == Inv /\ [Next]_vars => Inv'
  <1> SUFFICES ASSUME Inv, [Next]_vars PROVE Inv'
    OBVIOUS
  <1>1. ASSUME NEW r \in Runs,
               \/ Begin(r) \/ CheckLock(r) \/ Send(r) \/ NextChunk(r) \/ EndIteration(r)
               \/ Insert(r) \/ VerifyBeforeCommit(r) \/ NextName(r) \/ EndChunk(r)
               \/ DeadlockVictim(r) \/ Answered(r) \/ NetworkError(r) \/ RetryAfter(r)
        PROVE  Inv'
    BY <1>1, StepsAreQuiet, QuietKeeps
  <1>2. ASSUME NEW r \in Runs, Commit(r) PROVE Inv'
    BY <1>2, CommitPreserves
  <1>3. ASSUME NEW r \in Runs, Dies(r) PROVE Inv'
    BY <1>3, DiesPreserves, QuietKeeps
  <1>4. CASE LoseLock
    BY <1>4, FramesStay DEF LoseLock, Inv, Shared, Told, Sound
  <1>5. CASE ArrivesLate
    BY <1>5, ArrivesLatePreserves
  <1>6. CASE UNCHANGED vars
    BY <1>6, FramesStay DEF vars, Inv, Shared, Told, Sound
  <1> QED
    BY <1>1, <1>2, <1>3, <1>4, <1>5, <1>6 DEF Next, Step

\* What a run relies on always holds.
LEMMA Invariant == Spec => []Inv
  <1> QED
    BY InvInit, InvStep, PTL DEF Spec

\* The variables of the download loop stay of their types, a request names no more
\* than MAX_NAMES_PER_DOWNLOAD files, and only refused names are tried alone.
THEOREM LoopTyping == Spec => []TypeOK
  <1>1. Inv => TypeOK
    BY DEF Inv, Shared, Kept, FrameOK, TypeOK
  <1> QED
    BY <1>1, Invariant, PTL

\* The service is told of a file only when its sound row is committed: whatever the
\* order of the runs, whatever is lost, late or retried (_process_chunk).
THEOREM ConfirmedOnlyWhenStored == Spec => []ConfirmedAreStored
  <1>1. Inv => ConfirmedAreStored
    BY DEF Inv, Told, Kept, Promises, Confirming, ConfirmedAreStored
  <1> QED
    BY <1>1, Invariant, PTL

-----------------------------------------------------------------------------
(* The download loop keeps the promises of CatalogSync. *)

Complete == {r \in Runs : Done(r)}

\* A step of run r that leaves it unfinished finishes no other run.
LEMMA NoneCompletes ==
    ASSUME Inv, NEW r \in Runs, frame[r].pc # "over", ~Ended(frame'[r]),
           frame' = [frame EXCEPT ![r] = frame'[r]]
    PROVE  UNCHANGED Complete
  <1>1. \A s \in Runs \ {r} : frame'[s] = frame[s]
    BY DEF Inv
  <1>2. \A s \in Runs : Done(s)' <=> Done(s)
    BY <1>1 DEF Done, Ended
  <1> QED
    BY <1>2 DEF Complete

\* A quiet step confirms stored names, or completes the catalog, or changes nothing
\* that is promised.
LEMMA QuietIsSync ==
    ASSUME Inv, NEW r \in Runs, Quiet(r),
           Ended(frame'[r]) => marked = Names /\ UNCHANGED marked
    PROVE  [Sync!Next]_(Sync!vars)
  <1>1. Complete = {s \in Runs : Done(s)} /\ Complete' = {s \in Runs : Done(s)'}
    BY DEF Complete
  <1>2. UNCHANGED stored /\ \E S \in SUBSET Sound : marked' = marked \cup S
    BY DEF Quiet, Wire
  <1>3. CASE ~Ended(frame'[r])
    <2>1. UNCHANGED Complete
      BY <1>3, NoneCompletes DEF Quiet
    <2>2. Sync!Confirm
      BY <1>2, <2>1 DEF Sync!Confirm, Sync!Sound, Sound, Complete
    <2> QED
      BY <2>2 DEF Sync!Next
  <1>4. CASE Ended(frame'[r])
    <2>1. \A s \in Runs \ {r} : frame'[s] = frame[s]
      BY DEF Inv, Quiet
    <2>2. Complete' = Complete \cup {r}
      BY <1>4, <2>1 DEF Complete, Done, Ended
    <2>3. Sync!Complete
      BY <1>2, <1>4, <2>2 DEF Sync!Complete, Complete
    <2> QED
      BY <2>3 DEF Sync!Next
  <1> QED
    BY <1>3, <1>4

\* A commit saves rows that were missing.
LEMMA CommitIsSync ==
    ASSUME Inv, NEW r \in Runs, stored' = Committed(r), UNCHANGED <<marked, Complete>>
    PROVE  Sync!Save
  <1> DEFINE S   == UncommittedIn(frame[r])
             row == [n \in S |-> stored'[n]]
  <1>1. /\ S \subseteq Names /\ \A n \in S : stored[n] = Absent
        /\ row \in [S -> Contents]
    BY CommitFillsIn
  <1>2. stored' = [n \in Names |-> IF n \in S THEN row[n] ELSE stored[n]]
    <2>1. stored' = [n \in Names |-> stored'[n]]
      BY DEF Committed
    <2>2. \A n \in Names : stored'[n] = IF n \in S THEN row[n] ELSE stored[n]
      BY CommitFillsIn
    <2> QED
      BY <2>1, <2>2
  <1> HIDE DEF S, row
  <1> QED
    BY <1>1, <1>2 DEF Sync!Save, Complete

\* Overlapping runs, lost locks, late confirmations and dying workers change nothing
\* in what the catalog promises: no row is overwritten, nothing is confirmed that is
\* not stored, and no run is done before the whole catalog is confirmed.
THEOREM CatalogSyncImplemented == Spec => ImplementsCatalogSync
  <1>1. Init => Sync!Init
    BY DEF Init, Sync!Init, Done, NewFrame
  <1>2. Inv /\ [Next]_vars => [Sync!Next]_(Sync!vars)
    <2> SUFFICES ASSUME Inv, [Next]_vars PROVE [Sync!Next]_(Sync!vars)
      OBVIOUS
    <2>1. ASSUME NEW r \in Runs,
                 \/ Begin(r) \/ CheckLock(r) \/ Send(r) \/ NextChunk(r) \/ EndIteration(r)
                 \/ Insert(r) \/ VerifyBeforeCommit(r) \/ NextName(r) \/ EndChunk(r)
                 \/ DeadlockVictim(r) \/ Answered(r) \/ NetworkError(r) \/ RetryAfter(r)
          PROVE  [Sync!Next]_(Sync!vars)
      BY <2>1, StepsAreQuiet, QuietIsSync
    <2>2. ASSUME NEW r \in Runs, Commit(r) PROVE [Sync!Next]_(Sync!vars)
      <3>1. /\ frame[r].pc # "over" /\ ~Ended(frame'[r]) /\ stored' = Committed(r)
            /\ UNCHANGED marked
        BY <2>2, CommitPreserves DEF Commit
      <3>2. frame' = [frame EXCEPT ![r] = frame'[r]]
        BY <2>2, Replaced DEF Commit
      <3>3. UNCHANGED Complete
        BY <3>1, <3>2, NoneCompletes
      <3> QED
        BY <3>1, <3>3, CommitIsSync DEF Sync!Next
    <2>3. ASSUME NEW r \in Runs, Dies(r) PROVE [Sync!Next]_(Sync!vars)
      <3>1. CASE Quiet(r) /\ ~Ended(frame'[r])
        BY <3>1, QuietIsSync
      <3>2. CASE /\ ~Ended(frame'[r]) /\ stored' = Committed(r) /\ frame[r].pc = "commit"
                 /\ UNCHANGED <<owner, marked, late>>
                 /\ frame' = [frame EXCEPT ![r] = frame'[r]]
        <4>1. UNCHANGED Complete
          BY <3>2, NoneCompletes
        <4> QED
          BY <3>2, <4>1, CommitIsSync DEF Sync!Next
      <3> QED
        BY <2>3, <3>1, <3>2, DiesPreserves
    <2>4. CASE ArrivesLate
      <3>1. /\ UNCHANGED <<stored, frame>>
            /\ \E S \in SUBSET Sound : marked' = marked \cup S
        BY <2>4, ArrivesLatePreserves DEF ArrivesLate
      <3> QED
        BY <3>1 DEF Sync!Next, Sync!Confirm, Sync!Sound, Sound, Done
    <2>5. CASE LoseLock \/ UNCHANGED vars
      BY <2>5 DEF LoseLock, vars, Sync!vars, Done
    <2> QED
      BY <2>1, <2>2, <2>3, <2>4, <2>5 DEF Next, Step
  <1> QED
    BY <1>1, <1>2, Invariant, PTL DEF Spec, ImplementsCatalogSync, Sync!Spec

-----------------------------------------------------------------------------
(* What a run has asked for, got and given up. *)

\* The names a run is getting or confirming.
InHand(f) == IF f.op = "get_names" \/ f.pc \in {"next_name", "next_chunk"}
             THEN {} ELSE f.chunk

\* Between two chunks nothing is left of an isolation, between two iterations no
\* name at all; a chunk is isolated only when nothing else is.
Tidy(f) ==
    /\ f.pc = "idle" => f.op = "get_names"
    /\ f.pc \in {"insert", "commit"} => f.op # "get_names"
    /\ f.pc = "next_chunk" \/ f.op = "get_names"
          => f.suspects = {} /\ f.solo = {} /\ f.unavailable = {}
    /\ f.op = "get_names" /\ f.pc # "next_chunk" => f.todo = {}
    /\ Cardinality(InHand(f)) > 1 => f.solo = {}

\* As long as nothing was given up, what is not saved is still to be had.
Balanced(f) ==
    f.unavailable = {} =>
        f.names_seen = f.files_saved + Cardinality(f.todo) + Cardinality(f.solo)
                                     + Cardinality(InHand(f))

Tried(f) == f.suspects \ (f.solo \cup f.unavailable \cup InHand(f))

Going(f, told)  == f.reason = "none" /\ Tidy(f) /\ Balanced(f) /\ Tried(f) \subseteq told
Closed(f, told) == /\ f.reason = "none" => f.files_saved = f.names_seen
                   /\ f.reason = "unavailable" => f.suspects \ f.unavailable \subseteq told
Booked(f, told) == IF f.pc = "over" THEN Closed(f, told) ELSE Going(f, told)

Ledger == \A r \in Runs : Booked(frame[r], marked)

\* Sets of names can be counted.
LEMMA Counting ==
    ASSUME NEW S \in SUBSET Names
    PROVE  /\ Cardinality(S) \in Nat
           /\ \A n \in S : Cardinality(S \ {n}) = Cardinality(S) - 1 /\ Cardinality({n}) = 1
           /\ \A T \in SUBSET S : Cardinality(S \ T) = Cardinality(S) - Cardinality(T)
                                  /\ Cardinality(T) \in Nat
  <1>1. IsFiniteSet(S)
    BY CatalogIsFinite, FS_Subset
  <1>2. Cardinality(S) \in Nat
    BY <1>1, FS_CardinalityType
  <1>3. ASSUME NEW n \in S
        PROVE  Cardinality(S \ {n}) = Cardinality(S) - 1 /\ Cardinality({n}) = 1
    BY <1>1, FS_RemoveElement, FS_Singleton
  <1>4. ASSUME NEW T \in SUBSET S
        PROVE  Cardinality(S \ T) = Cardinality(S) - Cardinality(T) /\ Cardinality(T) \in Nat
    <2>1. IsFiniteSet(T) /\ S \cap T = T
      BY <1>1, FS_Subset
    <2> QED
      BY <1>1, <2>1, FS_Difference, FS_CardinalityType
  <1> QED
    BY <1>2, <1>3, <1>4

\* A run that fails has nothing in hand.
LEMMA FailedIsBooked ==
    ASSUME NEW f \in Frames, NEW why \in {"stale", "stopped"}, NEW told
    PROVE  Booked(Failed(f, why), told)
  <1>1. Failed(f, why).pc = "over" /\ Failed(f, why).reason = why
    BY FailedIsKept
  <1> QED
    BY <1>1 DEF Booked, Closed

\* On its way from the question to the answer a run books nothing.
Working == {"idle", "check", "send", "inflight", "insert", "commit"}

LEMMA OnTheWay ==
    ASSUME NEW f, NEW g, NEW told, Booked(f, told),
           f.pc \in Working, g.pc \in Working \ {"idle"}, g.reason = f.reason,
           g.op = "get_names" <=> f.op = "get_names",
           g.pc \in {"insert", "commit"} => g.op # "get_names",
           g.todo = f.todo, g.chunk = f.chunk, g.solo = f.solo, g.suspects = f.suspects,
           g.unavailable = f.unavailable, g.names_seen = f.names_seen,
           g.files_saved = f.files_saved
    PROVE  Booked(g, told)
  <1>1. f.pc \notin {"over", "next_name", "next_chunk"} /\ g.pc \notin {"over", "next_name", "next_chunk"}
    BY DEF Working
  <1>2. InHand(g) = InHand(f)
    BY <1>1 DEF InHand
  <1>3. Tidy(f) /\ Balanced(f) /\ Tried(f) \subseteq told /\ f.reason = "none"
    BY <1>1 DEF Booked, Going
  <1>4. Tidy(g)
    BY <1>1, <1>2, <1>3 DEF Tidy
  <1>5. Balanced(g)
    BY <1>2, <1>3 DEF Balanced
  <1>6. Tried(g) = Tried(f)
    BY <1>2 DEF Tried
  <1> QED
    BY <1>1, <1>3, <1>4, <1>5, <1>6 DEF Booked, Going

\* An answer with names opens an iteration, one without ends the run.
LEMMA NamesAreBooked ==
    ASSUME NEW f \in Frames, NEW told, Booked(f, told), f.pc = "inflight", f.op = "get_names",
           NEW names \in SUBSET Names
    PROVE  Booked(Iterate(f, names), told) /\ Booked([f EXCEPT !.pc = "over"], told)
  <1>1. /\ f.suspects = {} /\ f.solo = {} /\ f.unavailable = {} /\ f.todo = {}
        /\ f.reason = "none" /\ Balanced(f) /\ InHand(f) = {}
    BY DEF Booked, Going, Tidy, InHand
  <1>2. f.names_seen = f.files_saved /\ f.files_saved \in Nat
    BY <1>1, FS_EmptySet DEF Balanced, Frames
  <1>3. Booked([f EXCEPT !.pc = "over"], told)
    BY <1>1, <1>2 DEF Booked, Closed, Frames
  <1> DEFINE g == Iterate(f, names)
  <1>4. /\ g.pc = "next_chunk" /\ g.op = "get_names" /\ g.reason = "none" /\ g.todo = names
        /\ g.suspects = {} /\ g.solo = {} /\ g.unavailable = {}
        /\ g.names_seen = f.names_seen + Cardinality(names) /\ g.files_saved = f.files_saved
    BY <1>1 DEF Iterate, Frames
  <1> HIDE DEF g
  <1>5. InHand(g) = {}
    BY <1>4 DEF InHand
  <1>6. Tidy(g) /\ Tried(g) = {}
    BY <1>4, <1>5, FS_EmptySet DEF Tidy, Tried
  <1>7. Balanced(g)
    BY <1>2, <1>4, <1>5, Counting, FS_EmptySet DEF Balanced
  <1>8. Booked(g, told)
    BY <1>4, <1>6, <1>7 DEF Booked, Going
  <1> QED
    BY <1>3, <1>8 DEF g

\* The names of a chunk go from the iteration into the hand.
LEMMA ChunkIsBooked ==
    ASSUME NEW f \in Frames, NEW told, Booked(f, told), f.pc = "next_chunk",
           NEW c \in SUBSET f.todo
    PROVE  Booked(Process(f, c), told)
  <1>1. /\ f.suspects = {} /\ f.solo = {} /\ f.unavailable = {}
        /\ f.reason = "none" /\ Balanced(f) /\ InHand(f) = {}
    BY DEF Booked, Going, Tidy, InHand
  <1> DEFINE g == Process(f, c)
  <1>2. /\ g.pc = "check" /\ g.op = "download" /\ g.reason = "none"
        /\ g.todo = f.todo \ c /\ g.chunk = c
        /\ g.suspects = {} /\ g.solo = {} /\ g.unavailable = {}
        /\ g.names_seen = f.names_seen /\ g.files_saved = f.files_saved
    BY <1>1 DEF Process, Ask, Frames
  <1> HIDE DEF g
  <1>3. InHand(g) = c
    BY <1>2 DEF InHand
  <1>4. Tidy(g) /\ Tried(g) = {}
    BY <1>2 DEF Tidy, Tried
  <1>5. f.todo \in SUBSET Names /\ f.files_saved \in Nat /\ f.names_seen \in Nat
    BY DEF Frames
  <1>6. Cardinality(f.todo \ c) = Cardinality(f.todo) - Cardinality(c)
        /\ Cardinality(c) \in Nat /\ Cardinality(f.todo) \in Nat
    BY <1>5, Counting
  <1>7. f.names_seen = f.files_saved + Cardinality(f.todo)
    BY <1>1, <1>5, <1>6, FS_EmptySet DEF Balanced
  <1>8. Balanced(g)
    BY <1>2, <1>3, <1>5, <1>6, <1>7, FS_EmptySet DEF Balanced
  <1> QED
    BY <1>2, <1>4, <1>8 DEF Booked, Going, g

\* An iteration ends when its names are used up.
LEMMA IterationIsBooked ==
    ASSUME NEW f \in Frames, NEW told, Booked(f, told), f.pc = "next_chunk", f.todo = {},
           NEW stale
    PROVE  Booked(Ask([f EXCEPT !.stale_iterations = stale], "get_names"), told)
  <1>1. /\ f.suspects = {} /\ f.solo = {} /\ f.unavailable = {}
        /\ f.reason = "none" /\ Balanced(f) /\ InHand(f) = {}
    BY DEF Booked, Going, Tidy, InHand
  <1> DEFINE g == Ask([f EXCEPT !.stale_iterations = stale], "get_names")
  <1>2. /\ g.pc = "check" /\ g.op = "get_names" /\ g.reason = "none" /\ g.todo = {}
        /\ g.suspects = {} /\ g.solo = {} /\ g.unavailable = {}
        /\ g.names_seen = f.names_seen /\ g.files_saved = f.files_saved
    BY <1>1 DEF Ask, Frames
  <1> HIDE DEF g
  <1>3. InHand(g) = {}
    BY <1>2 DEF InHand
  <1>4. Tidy(g) /\ Tried(g) = {} /\ Balanced(g)
    BY <1>1, <1>2, <1>3, FS_EmptySet DEF Tidy, Tried, Balanced
  <1> QED
    BY <1>2, <1>4 DEF Booked, Going, g

\* Confirmed names count as saved, and are marked.
LEMMA CountIsBooked ==
    ASSUME NEW f \in Frames, NEW told, Booked(f, told), f.pc = "inflight",
           f.op = "mark_downloaded", marked \subseteq Names
    PROVE  Booked(Count(f), told \cup f.chunk)
  <1> DEFINE g == Count(f)
  <1>1. f.reason = "none" /\ Balanced(f) /\ InHand(f) = f.chunk /\ Tried(f) \subseteq told
    BY DEF Booked, Going, InHand
  <1>2. /\ g.pc = "next_name" /\ g.op = "mark_downloaded" /\ g.reason = "none"
        /\ g.todo = f.todo /\ g.solo = f.solo /\ g.suspects = f.suspects
        /\ g.unavailable = f.unavailable /\ g.names_seen = f.names_seen
        /\ g.files_saved = f.files_saved + Cardinality(f.chunk)
    BY <1>1 DEF Count, Frames
  <1> HIDE DEF g
  <1>3. InHand(g) = {} /\ Cardinality(InHand(g)) = 0
    BY <1>2, FS_EmptySet DEF InHand
  <1>4. Tidy(g) /\ Tried(g) \subseteq told \cup f.chunk
    BY <1>1, <1>2, <1>3 DEF Tidy, Tried
  <1>5. /\ f.files_saved \in Nat /\ Cardinality(f.chunk) \in Nat
        /\ Cardinality(f.todo) \in Nat /\ Cardinality(f.solo) \in Nat
    BY Counting DEF Frames
  <1>6. Balanced(g)
    BY <1>1, <1>2, <1>3, <1>5 DEF Balanced
  <1> QED
    BY <1>2, <1>4, <1>6 DEF Booked, Going, g

\* A refused chunk becomes the names to be tried alone.
LEMMA IsolationIsBooked ==
    ASSUME NEW f \in Frames, NEW told, Booked(f, told), f.pc = "inflight", f.op = "download",
           Cardinality(f.chunk) > 1
    PROVE  Booked(Isolate(f), told)
  <1> DEFINE g == Isolate(f)
  <1>1. /\ f.reason = "none" /\ Balanced(f) /\ InHand(f) = f.chunk /\ f.solo = {}
    BY DEF Booked, Going, InHand, Tidy
  <1>2. /\ g.pc = "next_name" /\ g.op = "download" /\ g.reason = "none"
        /\ g.todo = f.todo /\ g.solo = f.chunk /\ g.suspects = f.chunk
        /\ g.unavailable = f.unavailable /\ g.names_seen = f.names_seen
        /\ g.files_saved = f.files_saved
    BY <1>1 DEF Isolate, Frames
  <1> HIDE DEF g
  <1>3. InHand(g) = {} /\ Cardinality({}) = 0
    BY <1>2, FS_EmptySet DEF InHand
  <1>4. Tidy(g) /\ Tried(g) = {}
    BY <1>2, <1>3 DEF Tidy, Tried
  <1>5. /\ f.files_saved \in Nat /\ Cardinality(f.chunk) \in Nat /\ Cardinality(f.todo) \in Nat
    BY Counting DEF Frames
  <1>6. Balanced(g)
    BY <1>1, <1>2, <1>3, <1>5 DEF Balanced
  <1> QED
    BY <1>2, <1>4, <1>6 DEF Booked, Going, g

\* A name that is given up is one of those the run cannot do without.
LEMMA GivingUpIsBooked ==
    ASSUME NEW f \in Frames, NEW told, Booked(f, told), f.pc = "inflight", f.op = "download"
    PROVE  /\ Booked(GiveUp(f), told)
           /\ f.suspects = {} => Booked(Failed(GiveUp(f), "unavailable"), told)
  <1> DEFINE g == GiveUp(f)
  <1>1. f.reason = "none" /\ Balanced(f) /\ InHand(f) = f.chunk /\ Tried(f) \subseteq told
    BY DEF Booked, Going, InHand
  <1>2. /\ g.pc = "next_name" /\ g.op = "download" /\ g.reason = "none"
        /\ g.todo = f.todo /\ g.solo = f.solo /\ g.suspects = f.suspects
        /\ g.unavailable = f.unavailable \cup f.chunk /\ g.names_seen = f.names_seen
        /\ g.files_saved = f.files_saved
    BY <1>1 DEF GiveUp, StillToTry, Frames
  <1>3. Failed(g, "unavailable").pc = "over" /\ Failed(g, "unavailable").suspects = g.suspects
        /\ Failed(g, "unavailable").reason = "unavailable"
    BY DEF Failed, Frames, GiveUp
  <1> HIDE DEF g
  <1>4. InHand(g) = {} /\ Cardinality({}) = 0
    BY <1>2, FS_EmptySet DEF InHand
  <1>5. Tidy(g) /\ Tried(g) \subseteq told
    BY <1>1, <1>2, <1>4 DEF Tidy, Tried
  <1>6. Balanced(g)
    <2> SUFFICES ASSUME g.unavailable = {}
                 PROVE  g.names_seen = g.files_saved + Cardinality(g.todo)
                                + Cardinality(g.solo) + Cardinality(InHand(g))
      BY DEF Balanced
    <2>1. f.unavailable = {} /\ f.chunk = {}
      BY <1>2
    <2> QED
      BY <1>1, <1>2, <1>4, <2>1 DEF Balanced
  <1>7. Booked(g, told)
    BY <1>2, <1>5, <1>6 DEF Booked, Going
  <1>8. f.suspects = {} => Booked(Failed(g, "unavailable"), told)
    BY <1>2, <1>3 DEF Booked, Closed
  <1> QED
    BY <1>7, <1>8 DEF g

\* One of the names to be tried alone is taken in hand.
LEMMA AloneIsBooked ==
    ASSUME NEW f \in Frames, NEW told, Booked(f, told), f.pc = "next_name", NEW n \in f.solo
    PROVE  Booked(Alone(f, n), told)
  <1> DEFINE g == Alone(f, n)
  <1>1. f.reason = "none" /\ Balanced(f) /\ InHand(f) = {} /\ Tried(f) \subseteq told
    BY DEF Booked, Going, InHand
  <1>2. /\ g.pc = "check" /\ g.op = "download" /\ g.reason = "none" /\ g.chunk = {n}
        /\ g.todo = f.todo /\ g.solo = f.solo \ {n} /\ g.suspects = f.suspects
        /\ g.unavailable = f.unavailable /\ g.names_seen = f.names_seen
        /\ g.files_saved = f.files_saved
    BY <1>1 DEF Alone, Ask, Frames
  <1> HIDE DEF g
  <1>3. f.solo \in SUBSET Names /\ f.todo \in SUBSET Names /\ f.files_saved \in Nat
    BY DEF Frames
  <1>4. /\ InHand(g) = {n} /\ Cardinality({n}) = 1 /\ Cardinality({}) = 0
        /\ Cardinality(f.solo \ {n}) = Cardinality(f.solo) - 1
        /\ Cardinality(f.solo) \in Nat /\ Cardinality(f.todo) \in Nat
    BY <1>2, <1>3, Counting, FS_EmptySet DEF InHand
  <1>5. Tried(g) \subseteq Tried(f)
    BY <1>1, <1>2, <1>4 DEF Tried
  <1>6. Tidy(g)
    BY <1>2, <1>4 DEF Tidy
  <1>7. Balanced(g)
    BY <1>1, <1>2, <1>3, <1>4 DEF Balanced
  <1> QED
    BY <1>1, <1>2, <1>5, <1>6, <1>7 DEF Booked, Going, g

\* When all names of a chunk were tried, the others of it are confirmed.
LEMMA ChunkEndIsBooked ==
    ASSUME NEW f \in Frames, NEW told, Booked(f, told), f.pc = "next_name", f.solo = {}
    PROVE  /\ Booked(Failed(f, "unavailable"), told)
           /\ f.unavailable = {}
                => Booked([f EXCEPT !.pc = "next_chunk", !.suspects = {}, !.chunk = {}], told)
  <1> DEFINE g == [f EXCEPT !.pc = "next_chunk", !.suspects = {}, !.chunk = {}]
  <1>1. /\ f.reason = "none" /\ Balanced(f) /\ InHand(f) = {} /\ Tried(f) \subseteq told
        /\ f.op # "get_names" \/ f.todo = {}
    BY DEF Booked, Going, InHand, Tidy
  <1>2. /\ Failed(f, "unavailable").pc = "over" /\ Failed(f, "unavailable").reason = "unavailable"
        /\ Failed(f, "unavailable").suspects = f.suspects
        /\ Failed(f, "unavailable").unavailable = f.unavailable
    BY DEF Failed, Frames
  <1>3. Booked(Failed(f, "unavailable"), told)
    BY <1>1, <1>2 DEF Booked, Closed, Tried
  <1>4. ASSUME f.unavailable = {} PROVE Booked(g, told)
    <2>1. /\ g.pc = "next_chunk" /\ g.op = f.op /\ g.reason = "none"
          /\ g.todo = f.todo /\ g.solo = {} /\ g.suspects = {} /\ g.unavailable = {}
          /\ g.names_seen = f.names_seen /\ g.files_saved = f.files_saved
      BY <1>1, <1>4 DEF Frames
    <2> HIDE DEF g
    <2>2. InHand(g) = {} /\ Cardinality({}) = 0
      BY <2>1, FS_EmptySet DEF InHand
    <2>3. Tidy(g) /\ Tried(g) = {} /\ Balanced(g)
      BY <1>1, <1>4, <2>1, <2>2 DEF Tidy, Tried, Balanced
    <2> QED
      BY <2>1, <2>3 DEF Booked, Going
  <1> QED
    BY <1>3, <1>4

\* The service forgets nothing: what was booked stays booked.
LEMMA MoreIsMarked ==
    ASSUME NEW f, NEW told, NEW more, told \subseteq more, Booked(f, told)
    PROVE  Booked(f, more)
  BY DEF Booked, Going, Closed

LEMMA OneBooks ==
    ASSUME Inv, Ledger, NEW r \in Runs, NEW f, frame' = [frame EXCEPT ![r] = f],
           marked \subseteq marked', Booked(f, marked')
    PROVE  Ledger'
  <1> SUFFICES ASSUME NEW s \in Runs PROVE Booked(frame'[s], marked')
    BY DEF Ledger, Booked, Going, Closed, Tidy, Balanced, Tried, InHand
  <1>1. CASE s = r
    BY <1>1 DEF Inv
  <1>2. CASE s # r
    <2>1. frame'[s] = frame[s] /\ Booked(frame[s], marked)
      BY <1>2 DEF Inv, Ledger
    <2> QED
      BY <2>1, MoreIsMarked
  <1> QED
    BY <1>1, <1>2

LEMMA FramesStayBooked ==
    ASSUME Ledger, frame' = frame, marked \subseteq marked'
    PROVE  Ledger'
  <1> SUFFICES ASSUME NEW s \in Runs PROVE Booked(frame'[s], marked')
    BY DEF Ledger, Booked, Going, Closed, Tidy, Balanced, Tried, InHand
  <1> QED
    BY MoreIsMarked DEF Ledger

\* Each action of a run keeps the books.
LEMMA LedgerKept ==
    ASSUME Inv, Ledger, NEW r \in Runs,
           Begin(r) \/ Step(r) \/ Answered(r) \/ NetworkError(r) \/ RetryAfter(r) \/ Dies(r)
    PROVE  Ledger'
  <1> DEFINE f == frame[r]
  <1>1. f \in Frames /\ Booked(f, marked) /\ marked \subseteq Names
    BY DEF Inv, Kept, FrameOK, Ledger, Shared
  <1>2. ASSUME NEW why \in {"stale", "stopped"}, NEW g \in Frames,
               frame' = [frame EXCEPT ![r] = Failed(g, why)], marked \subseteq marked'
        PROVE  Ledger'
    BY <1>2, FailedIsBooked, OneBooks
  <1>3. ASSUME NEW g, frame' = [frame EXCEPT ![r] = g], marked \subseteq marked',
               Booked(g, marked)
        PROVE  Ledger'
    BY <1>3, MoreIsMarked, OneBooks
  <1>4. ASSUME NEW g, frame' = [frame EXCEPT ![r] = g], marked \subseteq marked',
               f.pc \in Working, g.pc \in Working \ {"idle"}, g.reason = f.reason,
               g.op = "get_names" <=> f.op = "get_names",
               g.pc \in {"insert", "commit"} => g.op # "get_names",
               g.todo = f.todo, g.chunk = f.chunk, g.solo = f.solo, g.suspects = f.suspects,
               g.unavailable = f.unavailable, g.names_seen = f.names_seen,
               g.files_saved = f.files_saved
        PROVE  Ledger'
    <2>1. Booked(g, marked)
      BY <1>1, <1>4, OnTheWay
    <2> QED
      BY <1>3, <1>4, <2>1
  <1>5. CASE Begin(r)
    <2>1. frame' = [frame EXCEPT ![r] = Ask(f, "get_names")] /\ marked' = marked /\ f.pc = "idle"
      BY <1>5 DEF Begin
    <2>2. f.op = "get_names"
      BY <1>1, <2>1 DEF Booked, Going, Tidy
    <2> QED
      BY <1>1, <1>4, <2>1, <2>2 DEF Ask, Frames, Working
  <1>6. CASE CheckLock(r)
    <2>1. CASE frame' = [frame EXCEPT ![r] = [@ EXCEPT !.pc = "send", !.attempt = 1]]
      <3>1. marked' = marked /\ f.pc = "check"
        BY <1>6 DEF CheckLock
      <3> QED
        BY <1>1, <1>4, <2>1, <3>1 DEF Frames, Working
    <2>2. CASE frame' = [frame EXCEPT ![r] = Failed(@, "stopped")]
      BY <1>1, <1>2, <1>6, <2>2 DEF CheckLock
    <2> QED
      BY <1>6, <2>1, <2>2 DEF CheckLock
  <1>7. CASE Send(r)
    <2>1. marked' = marked /\ f.pc = "send" /\ frame' = [frame EXCEPT ![r] = [@ EXCEPT !.pc = "inflight"]]
      BY <1>7 DEF Send
    <2> QED
      BY <1>1, <1>4, <2>1 DEF Frames, Working
  <1>8. CASE NextChunk(r)
    <2>1. PICK c \in Chunks(f.todo) : frame' = [frame EXCEPT ![r] = Process(f, c)]
      BY <1>8 DEF NextChunk
    <2>2. c \in SUBSET f.todo /\ marked' = marked /\ f.pc = "next_chunk"
      BY <1>8 DEF NextChunk, Chunks
    <2>3. Booked(Process(f, c), marked)
      BY <1>1, <2>2, ChunkIsBooked
    <2> QED
      BY <1>3, <2>1, <2>2, <2>3
  <1>9. CASE EndIteration(r)
    <2> DEFINE stale == StaleAfter(f)
               next  == [f EXCEPT !.stale_iterations = stale]
    <2>1. marked' = marked /\ f.pc = "next_chunk" /\ f.todo = {}
          /\ frame' = [frame EXCEPT ![r] = IF stale >= max_stale_iterations
                                           THEN Failed(next, "stale")
                                           ELSE Ask(next, "get_names")]
      BY <1>9 DEF EndIteration
    <2>2. CASE stale >= max_stale_iterations
      <3>1. Booked(Failed(next, "stale"), marked)
        <4>1. Failed(next, "stale").pc = "over" /\ Failed(next, "stale").reason = "stale"
          BY <1>1 DEF Failed, Frames
        <4> QED
          BY <4>1 DEF Booked, Closed
      <3> QED
        BY <1>3, <2>1, <2>2, <3>1
    <2>3. CASE ~(stale >= max_stale_iterations)
      <3>1. Booked(Ask(next, "get_names"), marked)
        BY <1>1, <2>1, IterationIsBooked
      <3> QED
        BY <1>3, <2>1, <2>3, <3>1
    <2> QED
      BY <2>2, <2>3
  <1>10. CASE Insert(r)
    <2>1. marked' = marked /\ f.pc = "insert"
          /\ \/ frame' = [frame EXCEPT ![r] = Inserted(f)]
             \/ frame' = [frame EXCEPT ![r] = Skipped(f)]
             \/ frame' = [frame EXCEPT ![r] = Failed(f, "stopped")]
      BY <1>10 DEF Insert
    <2>2. f.op # "get_names"
      BY <1>1, <2>1 DEF Booked, Going, Tidy
    <2>3. CASE frame' = [frame EXCEPT ![r] = Inserted(f)]
      BY <1>1, <1>4, <2>1, <2>2, <2>3 DEF Inserted, Skipped, Frames, Working
    <2>4. CASE frame' = [frame EXCEPT ![r] = Skipped(f)]
      BY <1>1, <1>4, <2>1, <2>2, <2>4 DEF Skipped, Frames, Working
    <2> QED
      BY <1>1, <1>2, <2>1, <2>3, <2>4
  <1>11. CASE VerifyBeforeCommit(r)
    <2>1. marked' = marked /\ f.pc = "insert"
          /\ \/ frame' = [frame EXCEPT ![r] = [@ EXCEPT !.pc = "commit"]]
             \/ frame' = [frame EXCEPT ![r] = Failed(f, "stopped")]
      BY <1>11 DEF VerifyBeforeCommit
    <2>2. f.op # "get_names"
      BY <1>1, <2>1 DEF Booked, Going, Tidy
    <2>3. CASE frame' = [frame EXCEPT ![r] = [@ EXCEPT !.pc = "commit"]]
      BY <1>1, <1>4, <2>1, <2>2, <2>3 DEF Frames, Working
    <2> QED
      BY <1>1, <1>2, <2>1, <2>3
  <1>12. CASE Commit(r)
    <2>1. marked' = marked /\ f.pc = "commit"
          /\ frame' = [frame EXCEPT ![r] = [Ask(f, "mark_downloaded") EXCEPT !.txn = {}]]
      BY <1>12 DEF Commit
    <2>2. f.op # "get_names"
      BY <1>1, <2>1 DEF Booked, Going, Tidy
    <2> QED
      BY <1>1, <1>4, <2>1, <2>2 DEF Ask, Frames, Working
  <1>13. CASE NextName(r)
    <2>1. PICK n \in f.solo : frame' = [frame EXCEPT ![r] = Alone(f, n)]
      BY <1>13 DEF NextName
    <2>2. Booked(Alone(f, n), marked) /\ marked' = marked
      BY <1>1, <1>13, AloneIsBooked DEF NextName
    <2> QED
      BY <1>3, <2>1, <2>2
  <1>14. CASE EndChunk(r)
    <2> DEFINE g == [f EXCEPT !.pc = "next_chunk", !.suspects = {}, !.chunk = {}]
    <2>1. f.pc = "next_name" /\ f.solo = {} /\ marked' = marked
          /\ frame' = [frame EXCEPT ![r] = IF MustStop(f) THEN Failed(f, "unavailable") ELSE g]
      BY <1>14 DEF EndChunk
    <2>2. Booked(Failed(f, "unavailable"), marked) /\ (~MustStop(f) => Booked(g, marked))
      BY <1>1, <2>1, ChunkEndIsBooked DEF MustStop
    <2> QED
      BY <1>3, <2>1, <2>2
  <1>15. CASE DeadlockVictim(r)
    BY <1>1, <1>2, <1>15 DEF DeadlockVictim
  <1>16. CASE FatalAnswer(r)
    <2>1. marked \subseteq marked' /\ frame' = [frame EXCEPT ![r] = Failed(f, "stopped")]
      BY <1>16 DEF FatalAnswer, Unknown
    <2> QED
      BY <1>1, <1>2, <2>1
  <1>17. CASE NamesAnswer(r)
    <2>1. PICK body \in Bodies :
             frame' = [frame EXCEPT ![r] = IF ~parse_names(body) THEN Failed(f, "stopped")
                          ELSE IF body.file_names = {} THEN [f EXCEPT !.pc = "over"]
                          ELSE Iterate(f, body.file_names)]
      BY <1>17 DEF NamesAnswer
    <2>2. body.file_names \in SUBSET Names /\ marked' = marked
          /\ f.pc = "inflight" /\ f.op = "get_names"
      BY <1>17 DEF NamesAnswer, Bodies
    <2>3. Booked(Iterate(f, body.file_names), marked) /\ Booked([f EXCEPT !.pc = "over"], marked)
          /\ Booked(Failed(f, "stopped"), marked)
      BY <1>1, <2>2, NamesAreBooked, FailedIsBooked
    <2> QED
      BY <1>3, <2>1, <2>2, <2>3
  <1>18. CASE DownloadAnswer(r)
    <2>1. PICK archive \in Archives(f.chunk) :
             frame' = [frame EXCEPT ![r] = [@ EXCEPT !.pc = "insert", !.left = archive]]
      BY <1>18 DEF DownloadAnswer
    <2>2. marked' = marked /\ f.pc = "inflight" /\ f.op = "download"
      BY <1>18 DEF DownloadAnswer
    <2> QED
      BY <1>1, <1>4, <2>1, <2>2 DEF Frames, Working
  <1>19. CASE DownloadRefused(r)
    <2>1. marked' = marked /\ f.pc = "inflight" /\ f.op = "download"
          /\ frame' = [frame EXCEPT ![r] =
                IF Cardinality(f.chunk) > 1 THEN Isolate(f)
                ELSE IF f.tries < single_404_attempts THEN TryAgain(f)
                ELSE IF f.suspects = {} THEN Failed(GiveUp(f), "unavailable")
                ELSE GiveUp(f)]
      BY <1>19 DEF DownloadRefused
    <2>2. CASE Cardinality(f.chunk) > 1
      BY <1>1, <1>3, <2>1, <2>2, IsolationIsBooked
    <2>3. CASE frame' = [frame EXCEPT ![r] = TryAgain(f)]
      BY <1>1, <1>4, <2>1, <2>3 DEF TryAgain, Ask, Frames, Working
    <2>4. Booked(GiveUp(f), marked)
          /\ (f.suspects = {} => Booked(Failed(GiveUp(f), "unavailable"), marked))
      BY <1>1, <2>1, GivingUpIsBooked
    <2> QED
      BY <1>3, <2>1, <2>2, <2>3, <2>4
  <1>20. CASE MarkAnswer(r)
    <2>1. f.pc = "inflight" /\ f.op = "mark_downloaded" /\ marked' = marked \cup f.chunk
          /\ frame' = [frame EXCEPT ![r] = Count(f)]
      BY <1>20 DEF MarkAnswer
    <2>2. Booked(Count(f), marked')
      BY <1>1, <2>1, CountIsBooked
    <2> QED
      BY <2>1, <2>2, OneBooks
  <1>21. CASE NetworkError(r)
    <2>1. f.pc = "inflight" /\ marked \subseteq marked'
          /\ \/ frame' = [frame EXCEPT ![r] = Again(f)]
             \/ frame' = [frame EXCEPT ![r] = Failed(f, "stopped")]
      BY <1>21 DEF NetworkError, Abandoned, Unknown
    <2>2. CASE frame' = [frame EXCEPT ![r] = Again(f)]
      BY <1>1, <1>4, <2>1, <2>2 DEF Again, Frames, Working
    <2> QED
      BY <1>1, <1>2, <2>1, <2>2
  <1>22. CASE RetryAfter(r)
    <2>1. f.pc = "inflight" /\ marked' = marked /\ frame' = [frame EXCEPT ![r] = [@ EXCEPT !.pc = "check"]]
      BY <1>22 DEF RetryAfter
    <2> QED
      BY <1>1, <1>4, <2>1 DEF Frames, Working
  <1>23. CASE Dies(r)
    <2>1. marked \subseteq marked' /\ frame' = [frame EXCEPT ![r] = Failed(f, "stopped")]
      BY <1>23 DEF Dies, Abandoned, Unknown
    <2> QED
      BY <1>1, <1>2, <2>1
  <1> HIDE DEF f
  <1> QED
    BY <1>5, <1>6, <1>7, <1>8, <1>9, <1>10, <1>11, <1>12, <1>13, <1>14, <1>15, <1>16,
       <1>17, <1>18, <1>19, <1>20, <1>21, <1>22, <1>23 DEF Step, Answered

LEMMA LedgerInit == Init => Ledger
  <1> SUFFICES ASSUME Init, NEW r \in Runs PROVE Booked(NewFrame, marked)
    BY DEF Init, Ledger
  <1>1. InHand(NewFrame) = {} /\ Cardinality({}) = 0
    BY FS_EmptySet DEF InHand, NewFrame
  <1> QED
    BY <1>1 DEF Booked, Going, Tidy, Balanced, Tried, NewFrame

LEMMA LedgerStep == Inv /\ Ledger /\ [Next]_vars => Ledger'
  <1>1. ASSUME LoseLock \/ UNCHANGED vars PROVE frame' = frame /\ marked' = marked
    BY <1>1 DEF LoseLock, vars
  <1>2. ASSUME ArrivesLate PROVE frame' = frame /\ marked \subseteq marked'
    BY <1>2 DEF ArrivesLate
  <1> QED
    BY <1>1, <1>2, FramesStayBooked, LedgerKept DEF Next

LEMMA LedgerHolds == Spec => []Ledger
  <1> QED
    BY LedgerInit, LedgerStep, Invariant, PTL DEF Spec

\* A run that is done has saved and confirmed as many names as it was handed
\* (files_saved and names_seen of _loop), for any catalog and interference of runs.
THEOREM DoneCountsHold == Spec => []DoneCountsAgree
  <1>1. Ledger => DoneCountsAgree
    BY DEF Ledger, Booked, Closed, DoneCountsAgree, Done
  <1> QED
    BY <1>1, LedgerHolds, PTL

\* A run that fails for names that cannot be had has confirmed the other names of
\* their chunk (_isolate).
THEOREM HealthyNamesHold == Spec => []HealthyNamesSurvive
  <1>1. Ledger => HealthyNamesSurvive
    BY DEF Ledger, Booked, Going, Closed, HealthyNamesSurvive
  <1> QED
    BY <1>1, LedgerHolds, PTL

-----------------------------------------------------------------------------
(* The measure: what is left of a run. *)

LEMMA Times ==
    ASSUME NEW a \in Nat, NEW b \in Nat, NEW s \in Nat, a <= b
    PROVE  /\ a * s \in Nat /\ b * s \in Nat
           /\ a * s <= b * s
           /\ a < b => a * s + s <= b * s
           /\ (a + 1) * s = a * s + s
  OBVIOUS

LEMMA Products == \A a \in Nat, s \in Nat : (a + 1) * s \in Nat
  OBVIOUS

LEMMA Unmarked ==
    ASSUME NEW told \in SUBSET Names, NEW more \in SUBSET Names, told \subseteq more
    PROVE  /\ Cardinality(Names \ told) \in Nat
           /\ Cardinality(Names \ more) \in Nat
           /\ Cardinality(more \ told) \in Nat
           /\ Cardinality(Names \ more) = Cardinality(Names \ told) - Cardinality(more \ told)
  <1>1. Names \ more = (Names \ told) \ (more \ told)
    OBVIOUS
  <1> QED
    BY <1>1, Counting

LEMMA Descends ==
    ASSUME NEW f, NEW g, NEW told, NEW more,
           \/ Status(g) < Status(f)
           \/ /\ Status(g) = Status(f)
              /\ \/ Budget(g, more) < Budget(f, told)
                 \/ /\ Budget(g, more) = Budget(f, told)
                    /\ \/ Part(g) < Part(f)
                       \/ /\ Part(g) = Part(f)
                          /\ \/ ChunksLeft(g) < ChunksLeft(f)
                             \/ /\ ChunksLeft(g) = ChunksLeft(f)
                                /\ \/ NamesLeft(g) < NamesLeft(f)
                                   \/ /\ NamesLeft(g) = NamesLeft(f)
                                      /\ \/ Stage(g) < Stage(f)
                                         \/ Stage(g) = Stage(f) /\ Legs(g) < Legs(f)
    PROVE  Less(Work(g, more), Work(f, told))
  <1> DEFINE v == Work(g, more)
             w == Work(f, told)
  <1>1. /\ v[1] = Status(g) /\ v[2] = Budget(g, more) /\ v[3] = Part(g) /\ v[4] = ChunksLeft(g)
        /\ v[5] = NamesLeft(g) /\ v[6] = Stage(g) /\ v[7] = Legs(g)
        /\ w[1] = Status(f) /\ w[2] = Budget(f, told) /\ w[3] = Part(f) /\ w[4] = ChunksLeft(f)
        /\ w[5] = NamesLeft(f) /\ w[6] = Stage(f) /\ w[7] = Legs(f)
        /\ DOMAIN v = 1..7
    BY DEF Work
  <1>2. \E i \in 1..7 : v[i] < w[i] /\ \A j \in 1..(i - 1) : v[j] = w[j]
    <2> HIDE DEF v, w
    <2>1. CASE v[1] < w[1]
      BY <2>1
    <2>2. CASE v[1] = w[1] /\ v[2] < w[2]
      BY <2>2
    <2>3. CASE v[1] = w[1] /\ v[2] = w[2] /\ v[3] < w[3]
      BY <2>3
    <2>4. CASE v[1] = w[1] /\ v[2] = w[2] /\ v[3] = w[3] /\ v[4] < w[4]
      BY <2>4
    <2>5. CASE v[1] = w[1] /\ v[2] = w[2] /\ v[3] = w[3] /\ v[4] = w[4] /\ v[5] < w[5]
      BY <2>5
    <2>6. CASE v[1] = w[1] /\ v[2] = w[2] /\ v[3] = w[3] /\ v[4] = w[4] /\ v[5] = w[5]
               /\ v[6] < w[6]
      BY <2>6
    <2>7. CASE v[1] = w[1] /\ v[2] = w[2] /\ v[3] = w[3] /\ v[4] = w[4] /\ v[5] = w[5]
               /\ v[6] = w[6] /\ v[7] < w[7]
      BY <2>7
    <2> QED
      BY <1>1, <2>1, <2>2, <2>3, <2>4, <2>5, <2>6, <2>7
  <1> QED
    BY <1>1, <1>2 DEF Less

\* What the place of a run says of the work left.
LEMMA Components ==
    ASSUME NEW f
    PROVE  /\ f.pc \notin {"idle", "over"} => Status(f) = 1
           /\ f.op = "get_names" /\ Asking(f) => Part(f) = 1
           /\ ~(f.op = "get_names" /\ Asking(f)) /\ f.marked_total = 0 => Part(f) = 0
           /\ ~(f.op = "get_names" /\ Asking(f)) /\ f.marked_total # 0 => Part(f) = 2
           /\ f.pc = "insert" => Stage(f) = 3 /\ Legs(f) = Len(f.left)
           /\ f.pc = "commit" => Stage(f) = 2
           /\ Asking(f) /\ f.op = "download" => Stage(f) = 4 + single_404_attempts - f.tries
           /\ Asking(f) /\ f.op # "download" => Stage(f) = 1
           /\ f.pc \in {"idle", "next_name", "next_chunk", "over"} => Stage(f) = 0 /\ Legs(f) = 0
           /\ f.pc = "check" => Legs(f) = 2 * network_max_attempts
           /\ f.pc = "send" => Legs(f) = 2 * (network_max_attempts - f.attempt) + 1
           /\ f.pc = "inflight" => Legs(f) = 2 * (network_max_attempts - f.attempt)
  <1>1. f.pc \notin {"idle", "over"} => Status(f) = 1
    BY DEF Status
  <1>2. /\ f.op = "get_names" /\ Asking(f) => Part(f) = 1
        /\ ~(f.op = "get_names" /\ Asking(f)) /\ f.marked_total = 0 => Part(f) = 0
        /\ ~(f.op = "get_names" /\ Asking(f)) /\ f.marked_total # 0 => Part(f) = 2
    <2>1. ASSUME f.op = "get_names", Asking(f) PROVE Part(f) = 1
      BY <2>1 DEF Part
    <2>2. ASSUME ~(f.op = "get_names" /\ Asking(f)), f.marked_total = 0 PROVE Part(f) = 0
      BY <2>2 DEF Part
    <2>3. ASSUME ~(f.op = "get_names" /\ Asking(f)), f.marked_total # 0 PROVE Part(f) = 2
      BY <2>3 DEF Part
    <2> QED
      BY <2>1, <2>2, <2>3
  <1>3. f.pc = "insert" => Stage(f) = 3 /\ Legs(f) = Len(f.left)
    BY DEF Stage, Legs, Asking
  <1>4. f.pc = "commit" => Stage(f) = 2
    BY DEF Stage, Asking
  <1>5. ASSUME Asking(f)
        PROVE  /\ f.op = "download" => Stage(f) = 4 + single_404_attempts - f.tries
               /\ f.op # "download" => Stage(f) = 1
    <2>1. f.pc # "insert" /\ f.pc # "commit"
      BY <1>5 DEF Asking
    <2> HIDE DEF Asking
    <2>2. CASE f.op = "download"
      BY <1>5, <2>1, <2>2 DEF Stage
    <2>3. CASE f.op # "download"
      BY <1>5, <2>1, <2>3 DEF Stage
    <2> QED
      BY <2>2, <2>3
  <1>6. ASSUME f.pc \in {"idle", "next_name", "next_chunk", "over"}
        PROVE  Stage(f) = 0 /\ Legs(f) = 0
    <2>1. ~Asking(f) /\ f.pc \notin {"insert", "commit", "check", "send", "inflight"}
      BY <1>6 DEF Asking
    <2> QED
      BY <2>1 DEF Stage, Legs
  <1>7. ASSUME f.pc = "check" PROVE Legs(f) = 2 * network_max_attempts
    BY <1>7 DEF Legs
  <1>8. ASSUME f.pc = "send" PROVE Legs(f) = 2 * (network_max_attempts - f.attempt) + 1
    BY <1>8 DEF Legs
  <1>9. ASSUME f.pc = "inflight" PROVE Legs(f) = 2 * (network_max_attempts - f.attempt)
    BY <1>9 DEF Legs
  <1> QED
    BY <1>1, <1>2, <1>3, <1>4, <1>5, <1>6, <1>7, <1>8, <1>9

\* All of it is counted in natural numbers.
LEMMA Counted ==
    ASSUME NEW f, FrameOK(f), NEW told \in SUBSET Names
    PROVE  /\ Status(f) \in Nat /\ Budget(f, told) \in Nat /\ Part(f) \in Nat
           /\ ChunksLeft(f) \in Nat /\ NamesLeft(f) \in Nat /\ Stage(f) \in Nat /\ Legs(f) \in Nat
  <1>1. /\ Cardinality(Names \ told) \in Nat /\ Cardinality(f.todo) \in Nat
        /\ Cardinality(f.solo) \in Nat /\ f.stale_iterations \in 0..max_stale_iterations
        /\ f.tries \in 0..single_404_attempts /\ f.attempt \in 0..network_max_attempts
        /\ Len(f.left) \in Nat
    BY Unmarked, Counting, LenProperties DEF FrameOK, Frames, Parsed
  <1>2. Budget(f, told) \in Nat
    <2>1. (Cardinality(Names \ told) + 1) * max_stale_iterations
             = Cardinality(Names \ told) * max_stale_iterations + max_stale_iterations
          /\ Cardinality(Names \ told) * max_stale_iterations \in Nat
      BY <1>1, Times, LimitsArePositive
    <2>2. f.stale_iterations \in Nat /\ f.stale_iterations <= max_stale_iterations
          /\ max_stale_iterations \in Nat
      BY <1>1, LimitsArePositive
    <2>3. /\ (Cardinality(Names \ told) + 1) * max_stale_iterations \in Nat
          /\ (Cardinality(Names \ told) + 1) * max_stale_iterations - f.stale_iterations \in Nat
      BY <2>1, <2>2
    <2> QED
      BY <2>3 DEF Budget
  <1>3. Status(f) \in Nat /\ Part(f) \in Nat
    BY DEF Status, Part
  <1>4. ChunksLeft(f) \in Nat /\ NamesLeft(f) \in Nat
    BY <1>1, LimitsArePositive DEF ChunksLeft, NamesLeft
  <1>5. Stage(f) \in Nat
    BY <1>1, LimitsArePositive DEF Stage
  <1>6. Legs(f) \in Nat
    <2>1. /\ 2 * network_max_attempts \in Nat
          /\ 2 * (network_max_attempts - f.attempt) \in Nat
          /\ 2 * (network_max_attempts - f.attempt) + 1 \in Nat
      <3>1. network_max_attempts \in Nat /\ network_max_attempts - f.attempt \in Nat
        BY <1>1, LimitsArePositive
      <3> QED
        BY <3>1
    <2>2. CASE f.pc \in {"insert", "check", "send", "inflight"}
      BY <1>1, <2>1, <2>2, Components
    <2>3. CASE f.pc \notin {"insert", "check", "send", "inflight"}
      BY <2>3 DEF Legs
    <2> QED
      BY <2>2, <2>3
  <1> QED
    BY <1>2, <1>3, <1>4, <1>5, <1>6

\* What others confirm takes nothing from the budget but what it was for.
LEMMA BudgetFalls ==
    ASSUME NEW f, FrameOK(f), NEW g, FrameOK(g),
           g.marked_total = f.marked_total, g.stale_iterations = f.stale_iterations,
           NEW told \in SUBSET Names, NEW more \in SUBSET Names, told \subseteq more
    PROVE  Budget(g, more) <= Budget(f, told)
  <1> DEFINE a == Cardinality(Names \ more) + 1
             b == Cardinality(Names \ told) + 1
  <1>1. a \in Nat /\ b \in Nat /\ a <= b
    <2>1. /\ Cardinality(Names \ told) \in Nat /\ Cardinality(Names \ more) \in Nat
          /\ Cardinality(more \ told) \in Nat
          /\ Cardinality(Names \ more) = Cardinality(Names \ told) - Cardinality(more \ told)
      BY Unmarked
    <2> QED
      BY <2>1
  <1>2. a * max_stale_iterations <= b * max_stale_iterations
        /\ a * max_stale_iterations \in Nat /\ b * max_stale_iterations \in Nat
    <2> HIDE DEF a, b
    <2> QED
      BY <1>1, Times, LimitsArePositive
  <1>3. f.stale_iterations \in Nat
    BY LimitsArePositive DEF FrameOK, Frames
  <1> QED
    BY <1>2, <1>3 DEF Budget

\* A step within an iteration.
LEMMA Inside ==
    ASSUME NEW f, FrameOK(f), NEW g, FrameOK(g), Status(g) = Status(f),
           g.marked_total = f.marked_total, g.stale_iterations = f.stale_iterations,
           NEW told \in SUBSET Names, NEW more \in SUBSET Names, told \subseteq more,
           \/ Part(g) < Part(f)
           \/ /\ Part(g) = Part(f)
              /\ \/ ChunksLeft(g) < ChunksLeft(f)
                 \/ /\ ChunksLeft(g) = ChunksLeft(f)
                    /\ \/ NamesLeft(g) < NamesLeft(f)
                       \/ /\ NamesLeft(g) = NamesLeft(f)
                          /\ \/ Stage(g) < Stage(f)
                             \/ Stage(g) = Stage(f) /\ Legs(g) < Legs(f)
    PROVE  Less(Work(g, more), Work(f, told))
  <1>1. Budget(g, more) \in Nat /\ Budget(f, told) \in Nat /\ Budget(g, more) <= Budget(f, told)
    BY BudgetFalls, Counted
  <1> QED
    BY <1>1, Descends

LEMMA OverIsLess ==
    ASSUME NEW f, NEW g, f.pc # "over", g.pc = "over", NEW told, NEW more
    PROVE  Less(Work(g, more), Work(f, told))
  <1>1. Status(g) < Status(f)
    BY DEF Status
  <1> QED
    BY <1>1, Descends

\* The names left are asked for again only when the iteration before has had its effect
\* on the budget.
LEMMA IterationIsLess ==
    ASSUME NEW f, FrameOK(f), f.pc = "next_chunk", NEW told \in SUBSET Names,
           StaleAfter(f) < max_stale_iterations,
           NEW g, g = Ask([f EXCEPT !.stale_iterations = StaleAfter(f)], "get_names"), FrameOK(g)
    PROVE  Less(Work(g, told), Work(f, told))
  <1>1. /\ f \in Frames /\ f.marked_total \in Nat /\ f.stale_iterations \in Nat
        /\ g.pc = "check" /\ g.op = "get_names" /\ g.marked_total = f.marked_total
        /\ g.stale_iterations = StaleAfter(f)
    BY LimitsArePositive DEF FrameOK, Frames, Ask
  <1>2. Status(g) = Status(f)
    BY <1>1 DEF Status
  <1>3. Budget(g, told) \in Nat /\ Budget(f, told) \in Nat
    BY Counted
  <1>4. CASE f.marked_total > 0
    <2>1. Budget(g, told) = Budget(f, told)
      BY <1>1, <1>4 DEF Budget
    <2>2. Part(g) = 1 /\ Part(f) = 2
      BY <1>1, <1>4 DEF Part, Asking
    <2> QED
      BY <1>2, <2>1, <2>2, Descends
  <1>5. CASE ~(f.marked_total > 0)
    <2>1. f.marked_total = 0 /\ StaleAfter(f) = f.stale_iterations + 1
      BY <1>1, <1>5 DEF StaleAfter
    <2>2. /\ Budget(f, told) = (Cardinality(Names \ told) + 1) * max_stale_iterations - f.stale_iterations
          /\ Budget(g, told) = (Cardinality(Names \ told) + 1) * max_stale_iterations - (f.stale_iterations + 1)
      BY <1>1, <1>5, <2>1 DEF Budget
    <2>3. (Cardinality(Names \ told) + 1) * max_stale_iterations \in Nat
      BY Counting, LimitsArePositive, Products
    <2>4. Budget(g, told) < Budget(f, told)
      BY <1>1, <2>2, <2>3
    <2> QED
      BY <1>2, <2>4, Descends
  <1> QED
    BY <1>4, <1>5

\* An answer with names opens an iteration that has marked nothing yet.
LEMMA NamesAreLess ==
    ASSUME NEW f, FrameOK(f), f.pc = "inflight", f.op = "get_names",
           NEW told \in SUBSET Names, NEW names \in SUBSET Names,
           NEW g, g = Iterate(f, names), FrameOK(g)
    PROVE  Less(Work(g, told), Work(f, told))
  <1>1. /\ f \in Frames /\ f.marked_total \in Nat /\ f.stale_iterations \in Nat
        /\ g.pc = "next_chunk" /\ g.marked_total = 0 /\ g.stale_iterations = f.stale_iterations
    BY LimitsArePositive DEF FrameOK, Frames, Iterate
  <1>2. Status(g) = Status(f)
    BY <1>1 DEF Status
  <1>3. Part(g) = 0 /\ Part(f) = 1
    BY <1>1, Components DEF Asking
  <1>4. Budget(g, told) <= Budget(f, told)
    <2>1. (Cardinality(Names \ told) + 1) * max_stale_iterations \in Nat
      BY Counting, LimitsArePositive, Products
    <2>2. /\ Budget(g, told) = (Cardinality(Names \ told) + 1) * max_stale_iterations - f.stale_iterations
          /\ Budget(f, told) \in {(Cardinality(Names \ told) + 1) * max_stale_iterations,
                (Cardinality(Names \ told) + 1) * max_stale_iterations - f.stale_iterations}
      BY <1>1 DEF Budget
    <2> QED
      BY <1>1, <2>1, <2>2
  <1>5. Budget(g, told) \in Nat /\ Budget(f, told) \in Nat
    BY Counted
  <1> QED
    BY <1>2, <1>3, <1>4, <1>5, Descends

\* The first name an iteration marks is paid for by the budget; one that was marked
\* already leaves the rest of the iteration.
LEMMA CountIsLess ==
    ASSUME NEW f, FrameOK(f), f.pc = "inflight", f.op = "mark_downloaded",
           Tidy(f), NEW g, FrameOK(g), marked \in SUBSET Names, g = Count(f)
    PROVE  Less(Work(g, marked \cup f.chunk), Work(f, marked))
  <1> DEFINE new  == f.chunk \ marked
             more == marked \cup f.chunk
             a == Cardinality(Names \ more)
             b == Cardinality(Names \ marked)
  <1>1. /\ f \in Frames /\ f.marked_total \in Nat /\ f.stale_iterations \in Nat
        /\ f.stale_iterations < max_stale_iterations
        /\ f.chunk \in SUBSET Names /\ f.tries \in Nat
        /\ g.pc = "next_name" /\ g.op = f.op /\ g.marked_total = f.marked_total + Cardinality(new)
        /\ g.stale_iterations = f.stale_iterations
        /\ g.todo = f.todo /\ g.chunk = f.chunk /\ g.solo = f.solo
    BY LimitsArePositive DEF FrameOK, Frames, Count
  <1>2. more \ marked = new /\ more \in SUBSET Names /\ new \in SUBSET Names
    BY <1>1
  <1>3. a \in Nat /\ b \in Nat /\ Cardinality(new) \in Nat /\ a = b - Cardinality(new)
    BY <1>2, Unmarked
  <1>4. Status(g) = Status(f)
    BY <1>1 DEF Status
  <1>5. CASE new = {}
    <2>1. Cardinality(new) = 0
      BY <1>5, FS_EmptySet
    <2>2. g.marked_total = f.marked_total
      BY <1>1, <2>1
    <2>3. Part(g) = Part(f)
      BY <1>1, <2>2 DEF Part, Asking
    <2>4. ChunksLeft(g) = ChunksLeft(f)
      BY <1>1 DEF ChunksLeft
    <2>5. Stage(g) = 0 /\ Stage(f) = 1
      BY <1>1 DEF Stage, Asking
    <2>6. NamesLeft(g) = NamesLeft(f) \/ NamesLeft(g) < NamesLeft(f)
      <3>1. Cardinality(f.chunk) > 1 => Cardinality(f.solo) = 0
        BY FS_EmptySet DEF Tidy, InHand
      <3> QED
        BY <1>1, <3>1, LimitsArePositive DEF NamesLeft
    <2> HIDE DEF new, more
    <2> QED
      BY <1>1, <1>2, <1>4, <2>2, <2>3, <2>4, <2>5, <2>6, Inside
  <1>6. CASE new # {}
    <2>1. Cardinality(new) >= 1
      <3>1. PICK n \in new : TRUE
        BY <1>6
      <3>2. Cardinality(new \ {n}) = Cardinality(new) - 1 /\ Cardinality(new \ {n}) \in Nat
        BY <1>2, Counting
      <3> QED
        BY <1>3, <3>2
    <2>2. g.marked_total > 0
      BY <1>1, <1>3, <2>1
    <2>3. a + 1 <= b /\ a + 1 < b + 1 /\ a + 1 \in Nat /\ b + 1 \in Nat
      BY <1>3, <2>1
    <2>4. /\ (a + 1) * max_stale_iterations \in Nat /\ (b + 1) * max_stale_iterations \in Nat
          /\ (a + 1) * max_stale_iterations + max_stale_iterations <= (b + 1) * max_stale_iterations
      <3> HIDE DEF a, b
      <3> QED
        BY <2>3, Times, LimitsArePositive
    <2>5. Budget(g, more) = (a + 1) * max_stale_iterations
      BY <2>2 DEF Budget
    <2>6. Budget(f, marked) \in {(b + 1) * max_stale_iterations,
                                 (b + 1) * max_stale_iterations - f.stale_iterations}
      BY DEF Budget
    <2>7. Budget(g, more) < Budget(f, marked)
      <3> HIDE DEF a, b, more
      <3> QED
        BY <1>1, <2>4, <2>5, <2>6, LimitsArePositive
    <2> QED
      BY <1>4, <2>7, Descends
  <1> QED
    BY <1>5, <1>6

\* The steps of a run but its pauses, by the frame they leave.
LEMMA StepIsLess ==
    ASSUME Inv, Inv', Ledger, NEW r \in Runs,
           Begin(r) \/ Step(r) \/ Answered(r) \/ NetworkError(r) \/ Dies(r)
    PROVE  Less(Work(frame'[r], marked'), Work(frame[r], marked))
  <1> DEFINE f == frame[r]
             g == frame'[r]
  <1> SUFFICES Less(Work(g, marked'), Work(f, marked))
    OBVIOUS
  <1>1. /\ f \in Frames /\ FrameOK(f) /\ FrameOK(g) /\ marked \in SUBSET Names /\ marked' \in SUBSET Names
        /\ frame \in [Runs -> Frames]
    BY DEF Inv, Kept, FrameOK, Shared
  <1>2. ASSUME NEW h \in Frames, NEW why, frame' = [frame EXCEPT ![r] = Failed(h, why)], f.pc # "over"
        PROVE  Less(Work(g, marked'), Work(f, marked))
    <2>1. g.pc = "over"
      BY <1>1, <1>2 DEF Failed, Frames
    <2> HIDE DEF f, g
    <2> QED
      BY <1>2, <2>1, OverIsLess
  <1>3. ASSUME marked \subseteq marked', f.pc \notin {"idle", "over"}, g.pc \notin {"idle", "over"},
               g.marked_total = f.marked_total, g.stale_iterations = f.stale_iterations,
               Part(g) = Part(f),
               \/ ChunksLeft(g) < ChunksLeft(f)
               \/ /\ ChunksLeft(g) = ChunksLeft(f)
                  /\ \/ NamesLeft(g) < NamesLeft(f)
                     \/ /\ NamesLeft(g) = NamesLeft(f)
                        /\ \/ Stage(g) < Stage(f)
                           \/ Stage(g) = Stage(f) /\ Legs(g) < Legs(f)
        PROVE  Less(Work(g, marked'), Work(f, marked))
    <2>1. Status(g) = Status(f)
      BY <1>3 DEF Status
    <2> HIDE DEF f, g
    <2> QED
      BY <1>1, <1>3, <2>1, Inside
  \* A step of a request: the same names, another place or attempt.
  <1>4. ASSUME marked \subseteq marked', f.pc \in {"check", "send", "inflight", "insert", "commit"},
               g.pc \in {"check", "send", "inflight", "insert", "commit"},
               g.op = "get_names" /\ Asking(g) <=> f.op = "get_names" /\ Asking(f),
               g.marked_total = f.marked_total, g.stale_iterations = f.stale_iterations,
               g.todo = f.todo, g.chunk = f.chunk, g.solo = f.solo,
               \/ Stage(g) < Stage(f)
               \/ Stage(g) = Stage(f) /\ Legs(g) < Legs(f)
        PROVE  Less(Work(g, marked'), Work(f, marked))
    <2>1. Part(g) = Part(f)
      <3> HIDE DEF f, g
      <3> QED
        BY <1>4, Components
    <2>2. ChunksLeft(g) = ChunksLeft(f) /\ NamesLeft(g) = NamesLeft(f)
      BY <1>4 DEF ChunksLeft, NamesLeft
    <2> HIDE DEF f, g
    <2> QED
      BY <1>3, <1>4, <2>1, <2>2
  <1>5. CASE Begin(r)
    <2>1. f.pc = "idle" /\ g.pc = "check"
      BY <1>1, <1>5 DEF Begin, Ask, Frames
    <2>2. Status(g) < Status(f)
      BY <2>1 DEF Status
    <2> HIDE DEF f, g
    <2> QED
      BY <2>2, Descends
  <1>6. CASE CheckLock(r)
    <2>1. CASE frame' = [frame EXCEPT ![r] = [@ EXCEPT !.pc = "send", !.attempt = 1]]
      <3>1. /\ marked' = marked /\ f.pc = "check" /\ g.pc = "send" /\ g.attempt = 1 /\ g.op = f.op
            /\ g.tries = f.tries
            /\ g.marked_total = f.marked_total /\ g.stale_iterations = f.stale_iterations
            /\ g.todo = f.todo /\ g.chunk = f.chunk /\ g.solo = f.solo
        BY <1>1, <1>6, <2>1 DEF CheckLock, Frames
      <3>2. Asking(f) /\ Asking(g)
        BY <3>1 DEF Asking
      <3> HIDE DEF f, g
      <3>3. Stage(g) = Stage(f)
        BY <3>1, <3>2, Components
      <3>4. Legs(g) < Legs(f)
        BY <3>1, Components, LimitsArePositive
      <3> QED
        BY <1>4, <3>1, <3>2, <3>3, <3>4
    <2>2. CASE frame' = [frame EXCEPT ![r] = Failed(@, "stopped")]
      BY <1>1, <1>2, <1>6, <2>2 DEF CheckLock
    <2> QED
      BY <1>6, <2>1, <2>2 DEF CheckLock
  <1>7. CASE Send(r)
    <2>1. /\ marked' = marked /\ f.pc = "send" /\ g.pc = "inflight" /\ g.attempt = f.attempt
          /\ g.op = f.op /\ g.tries = f.tries
          /\ g.marked_total = f.marked_total /\ g.stale_iterations = f.stale_iterations
          /\ g.todo = f.todo /\ g.chunk = f.chunk /\ g.solo = f.solo
      BY <1>1, <1>7 DEF Send, Frames
    <2>2. Asking(f) /\ Asking(g) /\ f.attempt \in Nat
      BY <1>1, <2>1 DEF Asking, Frames
    <2> HIDE DEF f, g
    <2>3. Stage(g) = Stage(f)
      BY <2>1, <2>2, Components
    <2>4. Legs(g) < Legs(f)
      BY <2>1, <2>2, Components, LimitsArePositive
    <2> QED
      BY <1>4, <2>1, <2>2, <2>3, <2>4
  <1>8. CASE NextChunk(r)
    <2>1. PICK c \in Chunks(f.todo) : frame' = [frame EXCEPT ![r] = Process(f, c)]
      BY <1>8 DEF NextChunk
    <2>2. /\ marked' = marked /\ f.pc = "next_chunk" /\ f.todo # {} /\ f.todo \in SUBSET Names
          /\ c \in SUBSET f.todo
          /\ g.pc = "check" /\ g.op = "download" /\ g.todo = f.todo \ c
          /\ g.marked_total = f.marked_total /\ g.stale_iterations = f.stale_iterations
      BY <1>1, <1>8, <2>1 DEF NextChunk, Chunks, Process, Ask, Frames
    <2>3. Cardinality(c) >= 1
      <3>1. Cardinality(f.todo) \in Nat /\ Cardinality(f.todo) >= 1
        <4>1. PICK n \in f.todo : TRUE
          BY <2>2
        <4>2. Cardinality(f.todo \ {n}) = Cardinality(f.todo) - 1
          BY <2>2, <4>1, Counting
        <4>3. Cardinality(f.todo \ {n}) \in Nat /\ Cardinality(f.todo) \in Nat
          BY <2>2, Counting
        <4> QED
          BY <4>2, <4>3
      <3>2. Cardinality(c) = IF Cardinality(f.todo) < MAX_NAMES_PER_DOWNLOAD
                             THEN Cardinality(f.todo) ELSE MAX_NAMES_PER_DOWNLOAD
        BY <2>1 DEF Chunks
      <3> QED
        BY <3>1, <3>2, LimitsArePositive
    <2>4. /\ Cardinality(g.todo) = Cardinality(f.todo) - Cardinality(c)
          /\ Cardinality(c) \in Nat /\ Cardinality(f.todo) \in Nat
      BY <2>2, Counting
    <2>5. Part(g) = Part(f)
      <3> HIDE DEF f, g
      <3> QED
        BY <2>2, Components DEF Asking
    <2>6. ChunksLeft(g) = 2 * Cardinality(g.todo) + 1 /\ ChunksLeft(f) = 2 * Cardinality(f.todo)
      <3> HIDE DEF f, g
      <3> QED
        BY <2>2, <2>4 DEF ChunksLeft
    <2> HIDE DEF f, g
    <2>7. ChunksLeft(g) < ChunksLeft(f)
      BY <2>3, <2>4, <2>6
    <2> QED
      BY <1>3, <2>2, <2>5, <2>7
  <1>9. CASE EndIteration(r)
    <2> DEFINE next == [f EXCEPT !.stale_iterations = StaleAfter(f)]
    <2>1. /\ marked' = marked /\ f.pc = "next_chunk"
          /\ frame' = [frame EXCEPT ![r] = IF StaleAfter(f) >= max_stale_iterations
                                           THEN Failed(next, "stale")
                                           ELSE Ask(next, "get_names")]
      BY <1>9 DEF EndIteration
    <2>2. StaleAfter(f) \in Nat /\ max_stale_iterations \in Nat
      BY <1>1, LimitsArePositive DEF StaleAfter, Frames
    <2>3. CASE StaleAfter(f) >= max_stale_iterations
      <3>1. g.pc = "over"
        BY <1>1, <2>1, <2>3 DEF Failed, Frames
      <3> HIDE DEF f, g
      <3> QED
        BY <2>1, <3>1, OverIsLess
    <2>4. CASE StaleAfter(f) < max_stale_iterations
      <3>1. g = Ask(next, "get_names")
        BY <1>1, <2>1, <2>2, <2>4
      <3> HIDE DEF f, g
      <3> QED
        BY <1>1, <2>1, <2>4, <3>1, IterationIsLess
    <2> QED
      BY <2>2, <2>3, <2>4
  <1>10. CASE Insert(r)
    <2>1. /\ marked' = marked /\ f.pc = "insert" /\ f.left # <<>> /\ f.left \in Seq(Files)
          /\ \/ frame' = [frame EXCEPT ![r] = Inserted(f)]
             \/ frame' = [frame EXCEPT ![r] = Skipped(f)]
             \/ frame' = [frame EXCEPT ![r] = Failed(f, "stopped")]
      BY <1>1, <1>10 DEF Insert, Frames, Parsed
    <2>2. CASE \/ frame' = [frame EXCEPT ![r] = Inserted(f)]
               \/ frame' = [frame EXCEPT ![r] = Skipped(f)]
      <3>1. /\ g.pc = "insert" /\ g.left = Tail(f.left) /\ g.op = f.op
            /\ g.marked_total = f.marked_total /\ g.stale_iterations = f.stale_iterations
            /\ g.todo = f.todo /\ g.chunk = f.chunk /\ g.solo = f.solo
        <4>1. CASE frame' = [frame EXCEPT ![r] = Inserted(f)]
          BY <1>1, <2>1, <4>1 DEF Inserted, Skipped, Frames
        <4>2. CASE frame' = [frame EXCEPT ![r] = Skipped(f)]
          BY <1>1, <2>1, <4>2 DEF Skipped, Frames
        <4> QED
          BY <2>2, <4>1, <4>2
      <3>2. Len(g.left) \in Nat /\ Len(f.left) \in Nat /\ Len(g.left) < Len(f.left)
        BY <2>1, <3>1, HeadTailProperties, LenProperties
      <3> HIDE DEF f, g
      <3>3. Stage(g) = Stage(f) /\ Legs(g) < Legs(f)
        BY <2>1, <3>1, <3>2, Components
      <3>4. ~Asking(f) /\ ~Asking(g)
        BY <2>1, <3>1 DEF Asking
      <3> QED
        BY <1>4, <2>1, <3>1, <3>3, <3>4
    <2> QED
      BY <1>1, <1>2, <2>1, <2>2
  <1>11. CASE VerifyBeforeCommit(r)
    <2>1. CASE frame' = [frame EXCEPT ![r] = [@ EXCEPT !.pc = "commit"]]
      <3>1. /\ marked' = marked /\ f.pc = "insert" /\ g.pc = "commit" /\ g.op = f.op
            /\ g.marked_total = f.marked_total /\ g.stale_iterations = f.stale_iterations
            /\ g.todo = f.todo /\ g.chunk = f.chunk /\ g.solo = f.solo
        BY <1>1, <1>11, <2>1 DEF VerifyBeforeCommit, Frames
      <3> HIDE DEF f, g
      <3>2. Stage(g) = 2 /\ Stage(f) = 3
        BY <3>1, Components
      <3>3. ~Asking(f) /\ ~Asking(g)
        BY <3>1 DEF Asking
      <3> QED
        BY <1>4, <3>1, <3>2, <3>3
    <2>2. CASE frame' = [frame EXCEPT ![r] = Failed(@, "stopped")]
      BY <1>1, <1>2, <1>11, <2>2 DEF VerifyBeforeCommit
    <2> QED
      BY <1>11, <2>1, <2>2 DEF VerifyBeforeCommit
  <1>12. CASE Commit(r)
    <2>1. /\ marked' = marked /\ f.pc = "commit" /\ g.pc = "check" /\ g.op = "mark_downloaded"
          /\ g.marked_total = f.marked_total /\ g.stale_iterations = f.stale_iterations
          /\ g.todo = f.todo /\ g.chunk = f.chunk /\ g.solo = f.solo
      BY <1>1, <1>12 DEF Commit, Ask, Frames
    <2>2. ~Asking(f) /\ Asking(g)
      BY <2>1 DEF Asking
    <2> HIDE DEF f, g
    <2>3. Stage(g) = 1 /\ Stage(f) = 2
      BY <2>1, <2>2, Components
    <2> QED
      BY <1>4, <2>1, <2>2, <2>3
  <1>13. CASE NextName(r)
    <2>1. PICK n \in f.solo : frame' = [frame EXCEPT ![r] = Alone(f, n)]
      BY <1>13 DEF NextName
    <2>2. /\ marked' = marked /\ f.pc = "next_name" /\ f.solo \in SUBSET Names
          /\ g.pc = "check" /\ g.op = "download" /\ g.chunk = {n} /\ g.solo = f.solo \ {n}
          /\ g.todo = f.todo
          /\ g.marked_total = f.marked_total /\ g.stale_iterations = f.stale_iterations
      BY <1>1, <1>13, <2>1 DEF NextName, Alone, Ask, Frames
    <2>3. /\ Cardinality(f.solo) \in Nat /\ Cardinality({n}) = 1
          /\ Cardinality(g.solo) = Cardinality(f.solo) - 1
      BY <2>1, <2>2, Counting
    <2> HIDE DEF f, g
    <2>4. Part(g) = Part(f) /\ ChunksLeft(g) = ChunksLeft(f)
      BY <2>2, Components DEF Asking, ChunksLeft
    <2>5. NamesLeft(g) < NamesLeft(f)
      BY <2>2, <2>3 DEF NamesLeft
    <2> QED
      BY <1>3, <2>2, <2>4, <2>5
  <1>14. CASE EndChunk(r)
    <2>1. CASE MustStop(f)
      <3>1. frame' = [frame EXCEPT ![r] = Failed(f, "unavailable")] /\ f.pc # "over"
        BY <1>14, <2>1 DEF EndChunk
      <3> QED
        BY <1>1, <1>2, <3>1
    <2>2. CASE ~MustStop(f)
      <3>1. /\ marked' = marked /\ f.pc = "next_name" /\ g.pc = "next_chunk" /\ g.op = f.op
            /\ g.todo = f.todo /\ f.todo \in SUBSET Names
            /\ g.marked_total = f.marked_total /\ g.stale_iterations = f.stale_iterations
        BY <1>1, <1>14, <2>2 DEF EndChunk, Frames
      <3>2. Cardinality(f.todo) \in Nat
        BY <3>1, Counting
      <3> HIDE DEF f, g
      <3>3. Part(g) = Part(f)
        BY <3>1, Components DEF Asking
      <3>4. ChunksLeft(g) < ChunksLeft(f)
        BY <3>1, <3>2 DEF ChunksLeft
      <3> QED
        BY <1>3, <3>1, <3>3, <3>4
    <2> QED
      BY <2>1, <2>2
  <1>15. CASE DeadlockVictim(r)
    <2>1. frame' = [frame EXCEPT ![r] = Failed(f, "stopped")] /\ f.pc = "insert"
      BY <1>15 DEF DeadlockVictim, WaitsFor
    <2> QED
      BY <1>1, <1>2, <2>1
  <1>16. CASE FatalAnswer(r)
    <2>1. frame' = [frame EXCEPT ![r] = Failed(f, "stopped")] /\ f.pc # "over"
      BY <1>16 DEF FatalAnswer
    <2> QED
      BY <1>1, <1>2, <2>1
  <1>17. CASE NamesAnswer(r)
    <2>1. PICK body \in Bodies :
             frame' = [frame EXCEPT ![r] = IF ~parse_names(body) THEN Failed(f, "stopped")
                          ELSE IF body.file_names = {} THEN [f EXCEPT !.pc = "over"]
                          ELSE Iterate(f, body.file_names)]
      BY <1>17 DEF NamesAnswer
    <2>2. body.file_names \in SUBSET Names /\ marked' = marked
          /\ f.pc = "inflight" /\ f.op = "get_names"
      BY <1>17 DEF NamesAnswer, Bodies
    <2>3. CASE g.pc = "over"
      <3> HIDE DEF f, g
      <3> QED
        BY <2>2, <2>3, OverIsLess
    <2>4. CASE g.pc # "over"
      <3>1. g = Iterate(f, body.file_names)
        BY <1>1, <2>1, <2>4 DEF Failed, Frames
      <3> HIDE DEF f, g
      <3> QED
        BY <1>1, <2>2, <3>1, NamesAreLess
    <2> QED
      BY <2>3, <2>4
  <1>18. CASE DownloadAnswer(r)
    <2>1. /\ marked' = marked /\ f.pc = "inflight" /\ f.op = "download" /\ g.pc = "insert"
          /\ g.op = f.op /\ f.tries \in 0..single_404_attempts
          /\ g.marked_total = f.marked_total /\ g.stale_iterations = f.stale_iterations
          /\ g.todo = f.todo /\ g.chunk = f.chunk /\ g.solo = f.solo
      BY <1>1, <1>18 DEF DownloadAnswer, Frames
    <2>2. Asking(f) /\ ~Asking(g)
      BY <2>1 DEF Asking
    <2> HIDE DEF f, g
    <2>3. Stage(g) < Stage(f)
      BY <2>1, <2>2, Components, LimitsArePositive
    <2> QED
      BY <1>4, <2>1, <2>2, <2>3
  <1>19. CASE DownloadRefused(r)
    <2>1. marked' = marked /\ f.pc = "inflight" /\ f.op = "download" /\ f.tries \in 0..single_404_attempts
          /\ f.chunk \in SUBSET Names /\ f.solo \in SUBSET Names
          /\ frame' = [frame EXCEPT ![r] =
                IF Cardinality(f.chunk) > 1 THEN Isolate(f)
                ELSE IF f.tries < single_404_attempts THEN TryAgain(f)
                ELSE IF f.suspects = {} THEN Failed(GiveUp(f), "unavailable")
                ELSE GiveUp(f)]
      BY <1>1, <1>19 DEF DownloadRefused, Frames
    <2>2. Asking(f) /\ Cardinality(f.chunk) \in Nat /\ Cardinality(f.solo) \in Nat
      BY <2>1, Counting DEF Asking
    <2>3. CASE Cardinality(f.chunk) > 1
      <3>1. /\ g.pc = "next_name" /\ g.op = f.op /\ g.solo = f.chunk /\ g.todo = f.todo
            /\ g.marked_total = f.marked_total /\ g.stale_iterations = f.stale_iterations
        BY <1>1, <2>1, <2>3 DEF Isolate, Frames
      <3>2. Cardinality(f.chunk) <= MAX_NAMES_PER_DOWNLOAD
        BY <1>1 DEF FrameOK
      <3> HIDE DEF f, g
      <3>3. Part(g) = Part(f) /\ ChunksLeft(g) = ChunksLeft(f)
        BY <2>1, <3>1, Components DEF Asking, ChunksLeft
      <3>4. NamesLeft(g) < NamesLeft(f)
        BY <2>1, <2>2, <2>3, <3>1, <3>2, LimitsArePositive DEF NamesLeft
      <3> QED
        BY <1>3, <2>1, <3>1, <3>3, <3>4
    <2>4. CASE ~(Cardinality(f.chunk) > 1) /\ f.tries < single_404_attempts
      <3>1. /\ g.pc = "check" /\ g.op = "download" /\ g.tries = f.tries + 1
            /\ g.marked_total = f.marked_total /\ g.stale_iterations = f.stale_iterations
            /\ g.todo = f.todo /\ g.chunk = f.chunk /\ g.solo = f.solo
        BY <1>1, <2>1, <2>4 DEF TryAgain, NextAttempt, Ask, Frames
      <3>2. Asking(g)
        BY <3>1 DEF Asking
      <3> HIDE DEF f, g
      <3>3. Stage(g) < Stage(f)
        BY <2>1, <2>2, <3>1, <3>2, Components, LimitsArePositive
      <3> QED
        BY <1>4, <2>1, <2>2, <3>1, <3>2, <3>3
    <2>5. CASE ~(Cardinality(f.chunk) > 1) /\ ~(f.tries < single_404_attempts) /\ f.suspects = {}
      <3>1. g.pc = "over"
        BY <1>1, <2>1, <2>5 DEF Failed, GiveUp, StillToTry, Frames
      <3> HIDE DEF f, g
      <3> QED
        BY <2>1, <3>1, OverIsLess
    <2>6. CASE ~(Cardinality(f.chunk) > 1) /\ ~(f.tries < single_404_attempts) /\ f.suspects # {}
      <3>1. /\ g.pc = "next_name" /\ g.op = f.op
            /\ g.marked_total = f.marked_total /\ g.stale_iterations = f.stale_iterations
            /\ g.todo = f.todo /\ g.chunk = f.chunk /\ g.solo = f.solo
        BY <1>1, <2>1, <2>6 DEF GiveUp, StillToTry, Frames
      <3> HIDE DEF f, g
      <3>2. Part(g) = Part(f) /\ ChunksLeft(g) = ChunksLeft(f) /\ NamesLeft(g) = NamesLeft(f)
        BY <2>1, <2>6, <3>1, Components DEF Asking, ChunksLeft, NamesLeft
      <3>3. Stage(g) < Stage(f)
        BY <2>1, <2>2, <3>1, Components, LimitsArePositive
      <3> QED
        BY <1>3, <2>1, <3>1, <3>2, <3>3
    <2> QED
      BY <2>3, <2>4, <2>5, <2>6
  <1>20. CASE MarkAnswer(r)
    <2>1. f.pc = "inflight" /\ f.op = "mark_downloaded" /\ marked' = marked \cup f.chunk
          /\ g = Count(f)
      BY <1>1, <1>20 DEF MarkAnswer
    <2>2. Tidy(f)
      BY <2>1 DEF Ledger, Booked, Going
    <2> HIDE DEF f, g
    <2> QED
      BY <1>1, <2>1, <2>2, CountIsLess
  <1>21. CASE NetworkError(r)
    <2>1. f.pc = "inflight" /\ marked \subseteq marked'
          /\ frame' = [frame EXCEPT ![r] =
                IF f.attempt < network_max_attempts THEN Again(f) ELSE Failed(f, "stopped")]
      BY <1>21 DEF NetworkError, Abandoned, Unknown
    <2>2. CASE f.attempt < network_max_attempts
      <3>1. /\ g.pc = "send" /\ g.attempt = f.attempt + 1 /\ f.attempt \in Nat
            /\ g.op = f.op /\ g.tries = f.tries
            /\ g.marked_total = f.marked_total /\ g.stale_iterations = f.stale_iterations
            /\ g.todo = f.todo /\ g.chunk = f.chunk /\ g.solo = f.solo
        BY <1>1, <2>1, <2>2 DEF Again, Frames
      <3>2. Asking(f) /\ Asking(g)
        BY <2>1, <3>1 DEF Asking
      <3> HIDE DEF f, g
      <3>3. Stage(g) = Stage(f)
        BY <2>1, <3>1, <3>2, Components
      <3>4. Legs(g) < Legs(f)
        BY <2>1, <2>2, <3>1, Components, LimitsArePositive
      <3> QED
        BY <1>4, <2>1, <3>1, <3>2, <3>3, <3>4
    <2> QED
      BY <1>1, <1>2, <2>1, <2>2
  <1>22. CASE Dies(r)
    <2>1. frame' = [frame EXCEPT ![r] = Failed(f, "stopped")] /\ f.pc # "over"
      BY <1>22 DEF Dies
    <2> QED
      BY <1>1, <1>2, <2>1
  <1> HIDE DEF f, g
  <1> QED
    BY <1>5, <1>6, <1>7, <1>8, <1>9, <1>10, <1>11, <1>12, <1>13, <1>14, <1>15, <1>16,
       <1>17, <1>18, <1>19, <1>20, <1>21, <1>22 DEF Step, Answered

\* A step of a run changes its frame only, and takes no mark away.
LEMMA OneFrameMoves ==
    ASSUME NEW s \in Runs,
           Begin(s) \/ Step(s) \/ Answered(s) \/ NetworkError(s) \/ RetryAfter(s) \/ Dies(s)
    PROVE  (\E g : frame' = [frame EXCEPT ![s] = g]) /\ marked \subseteq marked'
  <1>1. CASE Begin(s) \/ RetryAfter(s)
    BY <1>1 DEF Begin, RetryAfter
  <1>2. CASE Step(s)
    <2>1. CASE CheckLock(s) \/ Send(s) \/ NextChunk(s)
      BY <2>1 DEF CheckLock, Send, NextChunk
    <2>2. CASE EndIteration(s) \/ Insert(s) \/ VerifyBeforeCommit(s)
      BY <2>2 DEF EndIteration, Insert, VerifyBeforeCommit
    <2>3. CASE Commit(s) \/ NextName(s) \/ EndChunk(s) \/ DeadlockVictim(s)
      BY <2>3 DEF Commit, NextName, EndChunk, DeadlockVictim
    <2> QED
      BY <1>2, <2>1, <2>2, <2>3 DEF Step
  <1>3. CASE Answered(s)
    <2>1. CASE FatalAnswer(s)
      BY <2>1 DEF FatalAnswer, Unknown
    <2>2. CASE NamesAnswer(s)
      BY <2>2 DEF NamesAnswer
    <2>3. CASE DownloadAnswer(s) \/ DownloadRefused(s) \/ MarkAnswer(s)
      BY <2>3 DEF DownloadAnswer, DownloadRefused, MarkAnswer
    <2> QED
      BY <1>3, <2>1, <2>2, <2>3 DEF Answered
  <1>4. CASE NetworkError(s) \/ Dies(s)
    BY <1>4 DEF NetworkError, Dies, Abandoned, Unknown
  <1> QED
    BY <1>1, <1>2, <1>3, <1>4

\* What others mark leaves a run no more to do.
LEMMA OthersHelp ==
    ASSUME NEW f, FrameOK(f), NEW told \in SUBSET Names, NEW more \in SUBSET Names,
           told \subseteq more
    PROVE  Work(f, more) = Work(f, told) \/ Less(Work(f, more), Work(f, told))
  <1>1. Budget(f, more) \in Nat /\ Budget(f, told) \in Nat /\ Budget(f, more) <= Budget(f, told)
    BY Counted, BudgetFalls
  <1>2. CASE Budget(f, more) = Budget(f, told)
    BY <1>2 DEF Work
  <1>3. CASE Budget(f, more) < Budget(f, told)
    BY <1>3, Descends
  <1> QED
    BY <1>1, <1>2, <1>3

\* Any step but a pause leaves a run less to do, or does not concern it: with
\* WorkIsCounted, what EveryRunEnds needs beside fairness, for any limits and catalog.
THEOREM EveryStepCountsHolds == Spec => EveryStepCounts
  <1> DEFINE Counts(r) ==
                \/ RetryAfter(r)
                \/ Less(Work(frame[r], marked)', Work(frame[r], marked))
                \/ frame'[r] = frame[r] /\ Work(frame[r], marked)' = Work(frame[r], marked)
  <1>1. Inv /\ Inv' /\ Ledger /\ [Next]_vars => [\A r \in Runs : Counts(r)]_vars
    <2> SUFFICES ASSUME Inv, Inv', Ledger, Next, NEW r \in Runs
                 PROVE  Counts(r)
      BY DEF vars
    <2>1. /\ FrameOK(frame[r]) /\ marked \in SUBSET Names /\ marked' \in SUBSET Names
          /\ frame \in [Runs -> Frames]
      BY DEF Inv, Kept, Shared
    <2>2. Work(frame[r], marked)' = Work(frame'[r], marked')
      BY DEF Work, Status, Budget, Part, ChunksLeft, NamesLeft, Stage, Legs, Asking
    <2>3. ASSUME frame'[r] = frame[r], marked \subseteq marked'
          PROVE  Counts(r)
      <3>1. Work(frame[r], marked') = Work(frame[r], marked)
              \/ Less(Work(frame[r], marked'), Work(frame[r], marked))
        BY <2>1, <2>3, OthersHelp
      <3> QED
        BY <2>2, <2>3, <3>1
    <2>4. ASSUME NEW s \in Runs,
                 Begin(s) \/ Step(s) \/ Answered(s) \/ NetworkError(s) \/ RetryAfter(s) \/ Dies(s)
          PROVE  Counts(r)
      <3>1. CASE s = r
        <4>1. CASE RetryAfter(r)
          BY <4>1
        <4>2. CASE ~RetryAfter(r)
          BY <2>2, <2>4, <3>1, <4>2, StepIsLess
        <4> QED
          BY <4>1, <4>2
      <3>2. CASE s # r
        <4>1. (\E g : frame' = [frame EXCEPT ![s] = g]) /\ marked \subseteq marked'
          BY <2>4, OneFrameMoves
        <4>2. frame'[r] = frame[r]
          BY <2>1, <3>2, <4>1
        <4> QED
          BY <2>3, <4>1, <4>2
      <3> QED
        BY <3>1, <3>2
    <2>5. CASE LoseLock \/ ArrivesLate
      BY <2>3, <2>5 DEF LoseLock, ArrivesLate
    <2> QED
      BY <2>4, <2>5 DEF Next
  <1> QED
    BY <1>1, Invariant, LedgerHolds, PTL DEF Spec, EveryStepCounts

\* What is left to do is a sequence of natural numbers, in whose order nothing descends
\* for ever.
THEOREM WorkIsCounted == Spec => [](\A r \in Runs : Work(frame[r], marked) \in Seq(Nat))
  <1>1. Inv => \A r \in Runs : Work(frame[r], marked) \in Seq(Nat)
    <2> SUFFICES ASSUME Inv, NEW r \in Runs PROVE Work(frame[r], marked) \in Seq(Nat)
      OBVIOUS
    <2>1. FrameOK(frame[r]) /\ marked \in SUBSET Names
      BY DEF Inv, Kept, Shared
    <2> QED
      BY <2>1, Counted DEF Work
  <1> QED
    BY <1>1, Invariant, PTL

-----------------------------------------------------------------------------
(* The names a run has been handed are charged to its budget. *)

\* The budget less what the iteration under way has been charged for.
Due(f, told) == IF Part(f) = 0 THEN Budget(f, told) - 1 ELSE Budget(f, told)
AllDue == (Cardinality(Names) + 1) * max_stale_iterations

Charged(f, told) ==
    /\ f.pc = "idle" => f.names_seen = 0
    /\ f.pc = "over" => f.names_seen <= Cardinality(Names) * AllDue
    /\ f.pc \notin {"idle", "over"}
          => f.names_seen <= Cardinality(Names) * (AllDue - Due(f, told))

LEMMA Multiply ==
    ASSUME NEW n \in Nat, NEW a \in Nat, NEW b \in Nat, a <= b
    PROVE  n * a \in Nat /\ n * b \in Nat /\ n * a <= n * b /\ (a < b => n * a + n <= n * b)
  OBVIOUS

\* A run that goes on has something of its budget left, and never had more than all of it.
LEMMA DueIsBounded ==
    ASSUME NEW f, FrameOK(f), f.pc # "over", NEW told \in SUBSET Names
    PROVE  /\ AllDue \in Nat /\ Due(f, told) \in Nat /\ Due(f, told) <= AllDue
           /\ AllDue - Due(f, told) \in Nat
  <1> DEFINE a == Cardinality(Names \ told)
             n == Cardinality(Names)
             S == max_stale_iterations
  <1>1. a \in Nat /\ n \in Nat /\ a <= n
    <2>1. /\ a \in Nat /\ Cardinality(Names \ {}) \in Nat /\ Cardinality(told \ {}) \in Nat
          /\ a = Cardinality(Names \ {}) - Cardinality(told \ {})
      BY Unmarked
    <2>2. Names \ {} = Names
      OBVIOUS
    <2> QED
      BY <2>1, <2>2
  <1>2. S \in Nat /\ f.stale_iterations \in Nat /\ f.stale_iterations < S
    BY LimitsArePositive DEF FrameOK, Frames
  <1>3. /\ (a + 1) * S \in Nat /\ (n + 1) * S \in Nat /\ (a + 1) * S <= (n + 1) * S
        /\ S <= (a + 1) * S
    <2> HIDE DEF a, n, S
    <2>1. a + 1 \in Nat /\ n + 1 \in Nat /\ a + 1 <= n + 1 /\ (a + 1) * S = a * S + S
          /\ a * S \in Nat
      BY <1>1, <1>2, Times
    <2> QED
      BY <1>2, <2>1, Times
  <1>4. AllDue = (n + 1) * S
    BY DEF AllDue
  <1>5. Budget(f, told) \in {(a + 1) * S, (a + 1) * S - f.stale_iterations}
    BY DEF Budget
  <1>6. Due(f, told) \in {Budget(f, told), Budget(f, told) - 1}
    BY DEF Due
  <1> HIDE DEF a, n, S
  <1> QED
    BY <1>2, <1>3, <1>4, <1>5, <1>6

\* Less work never means that more is due; opening an iteration takes one.
LEMMA DueFalls ==
    ASSUME NEW f, FrameOK(f), NEW told \in SUBSET Names,
           NEW g, FrameOK(g), NEW more \in SUBSET Names,
           Status(g) = Status(f), Less(Work(g, more), Work(f, told))
    PROVE  /\ Due(g, more) <= Due(f, told)
           /\ Part(f) = 1 /\ Part(g) = 0 => Due(g, more) <= Due(f, told) - 1
  <1>1. /\ Budget(g, more) \in Nat /\ Part(g) \in Nat
        /\ Budget(f, told) \in Nat /\ Part(f) \in Nat
        /\ Status(f) \in Nat
    BY Counted
  <1>2. \/ Budget(g, more) < Budget(f, told)
        \/ Budget(g, more) = Budget(f, told) /\ Part(g) <= Part(f)
    <2> DEFINE v == Work(g, more)
               w == Work(f, told)
    <2>1. /\ v[1] = Status(g) /\ v[2] = Budget(g, more) /\ v[3] = Part(g)
          /\ w[1] = Status(f) /\ w[2] = Budget(f, told) /\ w[3] = Part(f)
          /\ DOMAIN v = 1..7
      BY DEF Work
    <2>2. PICK i \in 1..7 : v[i] < w[i] /\ \A j \in 1..(i - 1) : v[j] = w[j]
      BY <2>1 DEF Less
    <2> HIDE DEF v, w
    <2>3. i # 1
      BY <1>1, <2>1, <2>2
    <2>4. CASE i = 2
      BY <2>1, <2>2, <2>4
    <2>5. CASE i = 3
      BY <1>1, <2>1, <2>2, <2>5
    <2>6. CASE i > 3
      BY <1>1, <2>1, <2>2, <2>6
    <2> QED
      BY <2>3, <2>4, <2>5, <2>6
  <1> QED
    BY <1>1, <1>2 DEF Due

LEMMA ChargedStays ==
    ASSUME NEW f, FrameOK(f), NEW told \in SUBSET Names, Charged(f, told),
           NEW more \in SUBSET Names, told \subseteq more
    PROVE  Charged(f, more)
  <1>1. CASE f.pc \in {"idle", "over"}
    BY <1>1 DEF Charged
  <1>2. CASE f.pc \notin {"idle", "over"}
    <2>1. /\ AllDue \in Nat /\ Due(f, told) \in Nat /\ Due(f, more) \in Nat
          /\ AllDue - Due(f, told) \in Nat /\ AllDue - Due(f, more) \in Nat
      BY <1>2, DueIsBounded
    <2>2. Due(f, more) <= Due(f, told)
      <3>1. Budget(f, more) \in Nat /\ Budget(f, told) \in Nat /\ Budget(f, more) <= Budget(f, told)
        BY Counted, BudgetFalls
      <3> QED
        BY <3>1 DEF Due
    <2>3. Cardinality(Names) \in Nat
      BY Counting
    <2>4. Cardinality(Names) * (AllDue - Due(f, told)) <= Cardinality(Names) * (AllDue - Due(f, more))
          /\ Cardinality(Names) * (AllDue - Due(f, told)) \in Nat
          /\ Cardinality(Names) * (AllDue - Due(f, more)) \in Nat
      BY <2>1, <2>2, <2>3, Multiply
    <2>5. f.names_seen \in Nat
      BY DEF FrameOK, Frames
    <2> QED
      BY <1>2, <2>4, <2>5 DEF Charged
  <1> QED
    BY <1>1, <1>2

\* A step that brings no names.
LEMMA QuietIsCharged ==
    ASSUME NEW f, FrameOK(f), NEW told \in SUBSET Names, Charged(f, told),
           NEW g, FrameOK(g), NEW more \in SUBSET Names, g.names_seen = f.names_seen,
           f.pc # "over", g.pc # "idle", f.pc = "idle" => g.pc = "check",
           Less(Work(g, more), Work(f, told))
    PROVE  Charged(g, more)
  <1> DEFINE n == Cardinality(Names)
  <1>1. /\ AllDue \in Nat /\ Due(f, told) \in Nat /\ AllDue - Due(f, told) \in Nat
        /\ n \in Nat /\ f.names_seen \in Nat
    BY DueIsBounded, Counting DEF FrameOK, Frames
  <1>2. f.names_seen <= n * AllDue /\ n * AllDue \in Nat
    <2>1. n * (AllDue - Due(f, told)) <= n * AllDue /\ n * AllDue \in Nat
          /\ n * (AllDue - Due(f, told)) \in Nat
      <3>1. AllDue - Due(f, told) <= AllDue
        BY <1>1
      <3> HIDE DEF n
      <3> QED
        BY <1>1, <3>1, Multiply
    <2>2. f.names_seen = 0 \/ f.names_seen <= n * (AllDue - Due(f, told))
      BY DEF Charged
    <2> HIDE DEF n
    <2> QED
      BY <1>1, <2>1, <2>2
  <1>3. CASE g.pc = "over"
    BY <1>2, <1>3 DEF Charged
  <1>4. CASE g.pc # "over"
    <2>1. Due(g, more) \in Nat /\ AllDue - Due(g, more) \in Nat
      BY <1>4, DueIsBounded
    <2>2. f.names_seen <= n * (AllDue - Due(g, more))
      <3>1. CASE f.pc = "idle"
        <4>1. f.names_seen = 0
          BY <3>1 DEF Charged
        <4> HIDE DEF n
        <4> QED
          BY <1>1, <2>1, <4>1, Multiply
      <3>2. CASE f.pc # "idle"
        <4>1. Status(g) = Status(f)
          BY <1>4, <3>2 DEF Status
        <4>2. Due(g, more) <= Due(f, told)
          BY <4>1, DueFalls
        <4>3. f.names_seen <= n * (AllDue - Due(f, told))
          BY <3>2 DEF Charged
        <4> HIDE DEF n
        <4>4. AllDue - Due(f, told) <= AllDue - Due(g, more)
          BY <1>1, <2>1, <4>2
        <4>5. n * (AllDue - Due(f, told)) <= n * (AllDue - Due(g, more))
              /\ n * (AllDue - Due(f, told)) \in Nat /\ n * (AllDue - Due(g, more)) \in Nat
          BY <1>1, <2>1, <4>4, Multiply
        <4> QED
          BY <1>1, <4>3, <4>5
      <3> QED
        BY <3>1, <3>2
    <2> QED
      BY <1>4, <2>2 DEF Charged
  <1> QED
    BY <1>3, <1>4

\* An answer with names.
LEMMA NamesAreCharged ==
    ASSUME NEW f, FrameOK(f), f.pc = "inflight", f.op = "get_names",
           NEW told \in SUBSET Names, Charged(f, told), NEW names \in SUBSET Names,
           NEW g, g = Iterate(f, names), FrameOK(g)
    PROVE  Charged(g, told)
  <1> DEFINE n == Cardinality(Names)
  <1>1. /\ g.pc = "next_chunk" /\ g.names_seen = f.names_seen + Cardinality(names)
        /\ g.marked_total = 0 /\ f.names_seen \in Nat
    BY DEF FrameOK, Frames, Iterate
  <1>2. Part(f) = 1 /\ Part(g) = 0 /\ Status(g) = Status(f)
    BY <1>1, Components DEF Asking
  <1>3. Due(g, told) <= Due(f, told) - 1
    BY <1>2, NamesAreLess, DueFalls
  <1>4. /\ AllDue \in Nat /\ Due(f, told) \in Nat /\ Due(g, told) \in Nat
        /\ AllDue - Due(f, told) \in Nat /\ AllDue - Due(g, told) \in Nat
    BY <1>1, DueIsBounded
  <1>5. n \in Nat /\ Cardinality(names) \in Nat /\ Cardinality(names) <= n
    <2>1. Cardinality(Names \ names) = n - Cardinality(names) /\ Cardinality(Names \ names) \in Nat
          /\ n \in Nat /\ Cardinality(names) \in Nat
      BY Counting
    <2> QED
      BY <2>1
  <1>6. f.names_seen <= n * (AllDue - Due(f, told))
    BY DEF Charged
  <1>7. n * (AllDue - Due(f, told)) + n <= n * (AllDue - Due(g, told))
        /\ n * (AllDue - Due(f, told)) \in Nat /\ n * (AllDue - Due(g, told)) \in Nat
    <2> HIDE DEF n
    <2>1. AllDue - Due(f, told) < AllDue - Due(g, told) /\ AllDue - Due(f, told) <= AllDue - Due(g, told)
      BY <1>3, <1>4
    <2> QED
      BY <1>4, <1>5, <2>1, Multiply
  <1>8. g.names_seen <= n * (AllDue - Due(g, told))
    <2> HIDE DEF n
    <2> QED
      BY <1>1, <1>5, <1>6, <1>7
  <1> QED
    BY <1>1, <1>8 DEF Charged

\* Only an answer with names adds to those a run was handed, and no step starts it anew.
LEMMA NamesSeenStays ==
    ASSUME Inv, NEW r \in Runs,
           \/ Begin(r) \/ Step(r) \/ FatalAnswer(r) \/ DownloadAnswer(r) \/ DownloadRefused(r)
           \/ MarkAnswer(r) \/ NetworkError(r) \/ RetryAfter(r) \/ Dies(r)
    PROVE  /\ frame'[r].names_seen = frame[r].names_seen
           /\ frame[r].pc # "over" /\ frame'[r].pc # "idle"
           /\ frame[r].pc = "idle" => frame'[r].pc = "check"
  <1> DEFINE f == frame[r]
             g == frame'[r]
             Stays == /\ g.names_seen = f.names_seen
                      /\ f.pc # "over" /\ g.pc # "idle"
                      /\ f.pc = "idle" => g.pc = "check"
  <1> SUFFICES Stays
    OBVIOUS
  <1>1. f \in Frames /\ frame \in [Runs -> Frames]
    BY DEF Inv, Kept, FrameOK, Shared
  <1>2. ASSUME NEW h \in Frames, NEW why, frame' = [frame EXCEPT ![r] = Failed(h, why)],
               h.names_seen = f.names_seen, f.pc \notin {"idle", "over"}
        PROVE  Stays
    BY <1>1, <1>2 DEF Failed, Frames
  <1>3. CASE Begin(r)
    BY <1>1, <1>3 DEF Begin, Ask, Frames
  <1>4. CASE CheckLock(r)
    <2>1. CASE frame' = [frame EXCEPT ![r] = [@ EXCEPT !.pc = "send", !.attempt = 1]]
      BY <1>1, <1>4, <2>1 DEF CheckLock, Frames
    <2>2. CASE frame' = [frame EXCEPT ![r] = Failed(@, "stopped")]
      BY <1>1, <1>2, <1>4, <2>2 DEF CheckLock
    <2> QED
      BY <1>4, <2>1, <2>2 DEF CheckLock
  <1>5. CASE Send(r) \/ RetryAfter(r)
    BY <1>1, <1>5 DEF Send, RetryAfter, Frames
  <1>6. CASE NextChunk(r)
    BY <1>1, <1>6 DEF NextChunk, Process, Ask, Frames
  <1>7. CASE EndIteration(r)
    <2> DEFINE next == [f EXCEPT !.stale_iterations = StaleAfter(f)]
    <2>1. f.pc = "next_chunk"
      BY <1>7 DEF EndIteration
    <2>2. CASE frame' = [frame EXCEPT ![r] = Failed(next, "stale")]
      BY <1>1, <2>1, <2>2 DEF Failed, Frames
    <2>3. CASE frame' = [frame EXCEPT ![r] = Ask(next, "get_names")]
      BY <1>1, <2>1, <2>3 DEF Ask, Frames
    <2> QED
      BY <1>7, <2>2, <2>3 DEF EndIteration
  <1>8. CASE Insert(r)
    <2>1. f.pc = "insert"
      BY <1>8 DEF Insert
    <2>2. CASE frame' = [frame EXCEPT ![r] = Inserted(f)]
      BY <1>1, <2>1, <2>2 DEF Inserted, Skipped, Frames
    <2>3. CASE frame' = [frame EXCEPT ![r] = Skipped(f)]
      BY <1>1, <2>1, <2>3 DEF Skipped, Frames
    <2>4. CASE frame' = [frame EXCEPT ![r] = Failed(f, "stopped")]
      BY <1>1, <1>2, <2>1, <2>4
    <2> QED
      BY <1>8, <2>2, <2>3, <2>4 DEF Insert
  <1>9. CASE VerifyBeforeCommit(r)
    <2>1. CASE frame' = [frame EXCEPT ![r] = [@ EXCEPT !.pc = "commit"]]
      BY <1>1, <1>9, <2>1 DEF VerifyBeforeCommit, Frames
    <2>2. CASE frame' = [frame EXCEPT ![r] = Failed(@, "stopped")]
      BY <1>1, <1>2, <1>9, <2>2 DEF VerifyBeforeCommit
    <2> QED
      BY <1>9, <2>1, <2>2 DEF VerifyBeforeCommit
  <1>10. CASE Commit(r)
    BY <1>1, <1>10 DEF Commit, Ask, Frames
  <1>11. CASE NextName(r)
    BY <1>1, <1>11 DEF NextName, Alone, Ask, Frames
  <1>12. CASE EndChunk(r)
    <2>1. f.pc = "next_name"
      BY <1>12 DEF EndChunk
    <2>2. CASE frame' = [frame EXCEPT ![r] = Failed(f, "unavailable")]
      BY <1>1, <1>2, <2>1, <2>2
    <2>3. CASE frame' = [frame EXCEPT ![r] =
                            [f EXCEPT !.pc = "next_chunk", !.suspects = {}, !.chunk = {}]]
      BY <1>1, <2>1, <2>3 DEF Frames
    <2> QED
      BY <1>12, <2>2, <2>3 DEF EndChunk
  <1>13. CASE DeadlockVictim(r)
    <2>1. /\ frame' = [frame EXCEPT ![r] = Failed(f, "stopped")]
          /\ f.pc = "insert"
      BY <1>13 DEF DeadlockVictim, WaitsFor
    <2> QED
      BY <1>1, <1>2, <2>1
  <1>14. CASE FatalAnswer(r)
    <2>1. frame' = [frame EXCEPT ![r] = Failed(f, "stopped")] /\ f.pc = "inflight"
      BY <1>14 DEF FatalAnswer
    <2> QED
      BY <1>1, <1>2, <2>1
  <1>15. CASE DownloadAnswer(r)
    <2>1. PICK archive \in Archives(f.chunk) :
             frame' = [frame EXCEPT ![r] = [f EXCEPT !.pc = "insert", !.left = archive]]
      BY <1>15 DEF DownloadAnswer
    <2>2. f.pc = "inflight"
      BY <1>15 DEF DownloadAnswer
    <2> QED
      BY <1>1, <2>1, <2>2 DEF Frames
  <1>16. CASE DownloadRefused(r)
    <2>1. f.pc = "inflight"
      BY <1>16 DEF DownloadRefused
    <2>2. CASE frame' = [frame EXCEPT ![r] = Isolate(f)]
      BY <1>1, <2>1, <2>2 DEF Isolate, Frames
    <2>3. CASE frame' = [frame EXCEPT ![r] = TryAgain(f)]
      BY <1>1, <2>1, <2>3 DEF TryAgain, Ask, Frames
    <2>4. CASE frame' = [frame EXCEPT ![r] = GiveUp(f)]
      BY <1>1, <2>1, <2>4 DEF GiveUp, Frames
    <2>5. CASE frame' = [frame EXCEPT ![r] = Failed(GiveUp(f), "unavailable")]
      BY <1>1, <2>1, <2>5 DEF Failed, GiveUp, Frames
    <2> QED
      BY <1>16, <2>2, <2>3, <2>4, <2>5 DEF DownloadRefused
  <1>17. CASE MarkAnswer(r)
    BY <1>1, <1>17 DEF MarkAnswer, Count, Frames
  <1>18. CASE NetworkError(r)
    <2>1. f.pc = "inflight"
      BY <1>18 DEF NetworkError
    <2>2. CASE frame' = [frame EXCEPT ![r] = Again(f)]
      BY <1>1, <2>1, <2>2 DEF Again, Frames
    <2>3. CASE frame' = [frame EXCEPT ![r] = Failed(f, "stopped")]
      BY <1>1, <1>2, <2>1, <2>3
    <2> QED
      BY <1>18, <2>2, <2>3 DEF NetworkError
  <1>19. CASE Dies(r)
    <2>1. frame' = [frame EXCEPT ![r] = Failed(f, "stopped")] /\ f.pc \notin {"idle", "over"}
      BY <1>19 DEF Dies
    <2> QED
      BY <1>1, <1>2, <2>1
  <1> HIDE DEF Stays
  <1> QED
    BY <1>3, <1>4, <1>5, <1>6, <1>7, <1>8, <1>9, <1>10, <1>11, <1>12, <1>13, <1>14, <1>15,
       <1>16, <1>17, <1>18, <1>19 DEF Step

\* A pause makes no more due.
LEMMA PauseIsCharged ==
    ASSUME Inv, Inv', NEW r \in Runs, RetryAfter(r), Charged(frame[r], marked)
    PROVE  Charged(frame'[r], marked')
  <1> DEFINE f == frame[r]
             g == frame'[r]
  <1>1. /\ f \in Frames /\ frame \in [Runs -> Frames] /\ marked' = marked
    BY DEF Inv, Kept, FrameOK, Shared, RetryAfter
  <1>2. /\ f.pc = "inflight" /\ g.pc = "check" /\ g.op = f.op /\ g.marked_total = f.marked_total
        /\ g.stale_iterations = f.stale_iterations /\ g.names_seen = f.names_seen
    BY <1>1 DEF RetryAfter, Frames
  <1> HIDE DEF f, g
  <1>3. Part(g) = Part(f)
    BY <1>2 DEF Part, Asking
  <1>4. Budget(g, marked) = Budget(f, marked)
    BY <1>2 DEF Budget
  <1>5. Due(g, marked) = Due(f, marked)
    BY <1>3, <1>4 DEF Due
  <1> QED
    BY <1>1, <1>2, <1>5 DEF Charged, f, g

\* Any step of a run.
LEMMA StepIsCharged ==
    ASSUME Inv, Inv', Ledger, NEW r \in Runs, Charged(frame[r], marked),
           Begin(r) \/ Step(r) \/ Answered(r) \/ NetworkError(r) \/ RetryAfter(r) \/ Dies(r)
    PROVE  Charged(frame'[r], marked')
  <1>1. /\ FrameOK(frame[r]) /\ FrameOK(frame'[r]) /\ frame[r] \in Frames
        /\ marked \in SUBSET Names /\ marked' \in SUBSET Names /\ frame \in [Runs -> Frames]
    BY DEF Inv, Kept, Shared, FrameOK
  <1>2. CASE RetryAfter(r)
    BY <1>2, PauseIsCharged
  <1>3. CASE NamesAnswer(r)
    <2>1. /\ frame[r].pc = "inflight" /\ frame[r].op = "get_names" /\ marked' = marked
      BY <1>3 DEF NamesAnswer
    <2>2. CASE frame' = [frame EXCEPT ![r] = Failed(@, "stopped")]
      <3>1. frame'[r].pc = "over" /\ frame'[r].names_seen = frame[r].names_seen
        BY <1>1, <2>2 DEF Failed, Frames
      <3>2. Less(Work(frame'[r], marked'), Work(frame[r], marked))
        BY <2>1, <3>1, OverIsLess
      <3> QED
        BY <1>1, <2>1, <3>1, <3>2, QuietIsCharged
    <2>3. CASE frame' = [frame EXCEPT ![r] = [@ EXCEPT !.pc = "over"]]
      <3>1. frame'[r].pc = "over" /\ frame'[r].names_seen = frame[r].names_seen
        BY <1>1, <2>3 DEF Frames
      <3>2. Less(Work(frame'[r], marked'), Work(frame[r], marked))
        BY <2>1, <3>1, OverIsLess
      <3> QED
        BY <1>1, <2>1, <3>1, <3>2, QuietIsCharged
    <2>4. ASSUME NEW names \in SUBSET Names, frame' = [frame EXCEPT ![r] = Iterate(@, names)]
          PROVE  Charged(frame'[r], marked')
      <3>1. frame'[r] = Iterate(frame[r], names)
        BY <1>1, <2>4
      <3> QED
        BY <1>1, <2>1, <3>1, NamesAreCharged
    <2>5. \A body \in Bodies : body.file_names \in SUBSET Names
      BY DEF Bodies
    <2> QED
      BY <1>3, <2>2, <2>3, <2>4, <2>5 DEF NamesAnswer
  <1>4. CASE ~RetryAfter(r) /\ ~NamesAnswer(r)
    <2>1. Less(Work(frame'[r], marked'), Work(frame[r], marked))
      BY <1>4, StepIsLess
    <2>2. /\ frame'[r].names_seen = frame[r].names_seen
          /\ frame[r].pc # "over" /\ frame'[r].pc # "idle"
          /\ frame[r].pc = "idle" => frame'[r].pc = "check"
      BY <1>4, NamesSeenStays DEF Answered
    <2> QED
      BY <1>1, <2>1, <2>2, QuietIsCharged
  <1> QED
    BY <1>2, <1>3, <1>4

AllCharged == \A r \in Runs : Charged(frame[r], marked)

LEMMA ChargedInit == Init => AllCharged
  <1> SUFFICES ASSUME Init, NEW r \in Runs PROVE Charged(frame[r], marked)
    BY DEF AllCharged
  <1>1. frame[r] = NewFrame
    BY DEF Init
  <1> QED
    BY <1>1 DEF Charged, NewFrame

LEMMA ChargedStep == Inv /\ Inv' /\ Ledger /\ AllCharged /\ [Next]_vars => AllCharged'
  <1> SUFFICES ASSUME Inv, Inv', Ledger, AllCharged, [Next]_vars, NEW r \in Runs
               PROVE  Charged(frame'[r], marked')
    BY DEF AllCharged, Charged, Due, Budget, Part, Asking
  <1>1. /\ FrameOK(frame[r]) /\ marked \in SUBSET Names /\ marked' \in SUBSET Names
        /\ frame \in [Runs -> Frames] /\ Charged(frame[r], marked)
    BY DEF Inv, Kept, Shared, AllCharged
  <1>2. ASSUME frame'[r] = frame[r], marked \subseteq marked'
        PROVE  Charged(frame'[r], marked')
    BY <1>1, <1>2, ChargedStays
  <1>3. ASSUME NEW s \in Runs,
               Begin(s) \/ Step(s) \/ Answered(s) \/ NetworkError(s) \/ RetryAfter(s) \/ Dies(s)
        PROVE  Charged(frame'[r], marked')
    <2>1. CASE s = r
      BY <1>1, <1>3, <2>1, StepIsCharged
    <2>2. CASE s # r
      <3>1. (\E g : frame' = [frame EXCEPT ![s] = g]) /\ marked \subseteq marked'
        BY <1>3, OneFrameMoves
      <3>2. frame'[r] = frame[r]
        BY <1>1, <2>2, <3>1
      <3> QED
        BY <1>2, <3>1, <3>2
    <2> QED
      BY <2>1, <2>2
  <1>4. CASE LoseLock \/ ArrivesLate
    BY <1>2, <1>4 DEF LoseLock, ArrivesLate
  <1>5. CASE UNCHANGED vars
    BY <1>2, <1>5 DEF vars
  <1> QED
    BY <1>3, <1>4, <1>5 DEF Next

\* A run is handed a bounded number of names, whatever the service answers: the catalog
\* once for each iteration its budget pays for.
THEOREM HandedOutIsBoundedHolds == Spec => []HandedOutIsBounded
  <1>1. Inv /\ AllCharged => HandedOutIsBounded
    <2> DEFINE n == Cardinality(Names)
               S == max_stale_iterations
    <2> SUFFICES ASSUME Inv, AllCharged, NEW r \in Runs
                 PROVE  frame[r].names_seen <= n * (n + 1) * S
      BY DEF HandedOutIsBounded
    <2>1. /\ FrameOK(frame[r]) /\ marked \in SUBSET Names /\ Charged(frame[r], marked)
          /\ frame[r].names_seen \in Nat /\ n \in Nat /\ S \in Nat
      BY Counting, LimitsArePositive DEF Inv, Kept, Shared, AllCharged, FrameOK, Frames
    <2>2. AllDue \in Nat /\ n * AllDue = n * (n + 1) * S /\ n * AllDue \in Nat
      <3>1. AllDue = (n + 1) * S
        BY DEF AllDue
      <3> HIDE DEF n, S
      <3>2. (n + 1) * S \in Nat /\ n * ((n + 1) * S) = n * (n + 1) * S
        BY <2>1
      <3> QED
        BY <2>1, <3>1, <3>2, Multiply
    <2>3. CASE frame[r].pc \in {"idle", "over"}
      <3> HIDE DEF n, S
      <3> QED
        BY <2>1, <2>2, <2>3 DEF Charged, n
    <2>4. CASE frame[r].pc \notin {"idle", "over"}
      <3>1. AllDue - Due(frame[r], marked) \in Nat /\ AllDue - Due(frame[r], marked) <= AllDue
        BY <2>1, <2>2, <2>4, DueIsBounded
      <3>2. n * (AllDue - Due(frame[r], marked)) <= n * AllDue
            /\ n * (AllDue - Due(frame[r], marked)) \in Nat
        <4> HIDE DEF n, S
        <4> QED
          BY <2>1, <2>2, <3>1, Multiply
      <3>3. frame[r].names_seen <= n * (AllDue - Due(frame[r], marked))
        BY <2>1, <2>4 DEF Charged
      <3> HIDE DEF n, S
      <3> QED
        BY <2>1, <2>2, <3>2, <3>3
    <2> QED
      BY <2>3, <2>4
  <1>2. Spec => []AllCharged
    BY ChargedInit, ChargedStep, Invariant, LedgerHolds, PTL DEF Spec
  <1> QED
    BY <1>1, <1>2, Invariant, PTL

=============================================================================
