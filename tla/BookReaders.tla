----------------------------- MODULE BookReaders -----------------------------
(***************************************************************************)
(* One book stream, three readers of it, each with a Reconstructor of its  *)
(* own: the live book of run_capture (crates/astra-record/src/capture.rs), *)
(* the reconstruct command (reconstruct.rs), and the BookTop strategy of   *)
(* the replay (crates/astra-replay/src/strategies.rs).  The live book sees *)
(* the frames; the other two read what the capture recorded, so they also  *)
(* see the markers that its SequenceTracker and its reconnects put in.     *)
(*                                                                         *)
(* The readers treat a marker each in its own way: the live book knows of  *)
(* none, reconstruct drops its baseline at a connection gap and keeps the  *)
(* book, BookTop falls silent at every marker until the next snapshot.     *)
(* Snapshots arrive in the stream, as Bybit sends them.                    *)
(***************************************************************************)
EXTENDS OrderBook

CONSTANTS
    MaxId,      \* u64::MAX
    None,       \* Option::None; no top emitted
    Truth,      \* Truth[i] is the venue's book after update i
    Events,     \* diff frames the venue may send
    Snapshots,  \* snapshot frames the venue may send
    MaxFrames   \* bound on frames and reconnects

VARIABLES
    delivered,     \* last id this connection has delivered
    previousLast,  \* SequenceTracker.previous_last of the capture
    steps,         \* frames and reconnects so far
    liveBook, liveSnapshotId, liveLastId, liveBroken, liveCounts,
    bookUpdates, bookErrors,  \* what the capture reports of its live book
    recBook, recSnapshotId, recLastId, recBroken, recCounts,
    aborted,       \* reconstruct has returned an error
    topBook, topSnapshotId, topLastId, topQuarantine, topCounts,
    topBroken,     \* BookTop.broken, next to its Reconstructor's own flag
    emitted,       \* the top BookTop emitted in the last step, or None
    spoiled        \* observer: BookTop half applied a diff, and no snapshot since

Live == INSTANCE Reconstructor WITH
    book <- liveBook, snapshotId <- liveSnapshotId, lastUpdateId <- liveLastId,
    broken <- liveBroken, counts <- liveCounts
Rec == INSTANCE Reconstructor WITH
    book <- recBook, snapshotId <- recSnapshotId, lastUpdateId <- recLastId,
    broken <- recBroken, counts <- recCounts
Top == INSTANCE Reconstructor WITH
    book <- topBook, snapshotId <- topSnapshotId, lastUpdateId <- topLastId,
    broken <- topQuarantine, counts <- topCounts

\* Diffs are faithful and snapshots that the book takes are the venue's.  One that it
\* refuses does not have the last id there is: no marker can be recorded after that.
ASSUME ReadersAssumption ==
    /\ MaxId \in Nat /\ None \notin Nat
    /\ MaxFrames \in Nat
    /\ Truth \in [0..MaxId -> Book]
    /\ \A e \in Events : e \in Live!Event /\ Faithful(Truth, e)
    /\ \A s \in Snapshots :
          /\ s \in Live!Snapshot
          /\ IF LoadOk(s.levels) THEN LoadedBook(s.levels) = Truth[s.last_update_id]
             ELSE s.last_update_id < MaxId

live == <<liveBook, liveSnapshotId, liveLastId, liveBroken, liveCounts>>
rec == <<recBook, recSnapshotId, recLastId, recBroken, recCounts>>
top == <<topBook, topSnapshotId, topLastId, topQuarantine, topCounts>>
vars == <<delivered, previousLast, steps, live, bookUpdates, bookErrors,
          rec, aborted, top, topBroken, emitted, spoiled>>

Init ==
    /\ delivered = 0
    /\ previousLast = None
    /\ steps = 0
    /\ Live!ReconstructorInit
    /\ bookUpdates = 0
    /\ bookErrors = 0
    /\ Rec!ReconstructorInit
    /\ aborted = FALSE
    /\ Top!ReconstructorInit
    /\ topBroken = FALSE
    /\ emitted = None
    /\ spoiled = FALSE

Step == steps < MaxFrames /\ steps' = steps + 1

\* SequenceTracker::check of a span: a marker is recorded in front of the frame.
Marked(first) ==
    /\ previousLast # None
    /\ previousLast < MaxId
    /\ first # previousLast + 1

-----------------------------------------------------------------------------
\* update_live_book with a diff, and with a snapshot.
LiveDiff(e) ==
    /\ Live!ApplyEvent(e)
    /\ bookUpdates' = IF Live!Reaches(e) /\ ApplyOk(e.diff) THEN bookUpdates + 1 ELSE bookUpdates
    /\ bookErrors' = IF Live!Reaches(e) /\ ~ApplyOk(e.diff) THEN bookErrors + 1 ELSE bookErrors

\* Mutant of LiveSnapshot: only the first snapshot is loaded.
LiveSnapshot_bootstraps_once(s) ==
    IF liveSnapshotId = None
    THEN /\ Live!LoadSnapshot(s)
         /\ bookUpdates' = IF LoadOk(s.levels) THEN bookUpdates + 1 ELSE bookUpdates
         /\ bookErrors' = IF LoadOk(s.levels) THEN bookErrors ELSE bookErrors + 1
    ELSE UNCHANGED <<live, bookUpdates, bookErrors>>

LiveSnapshot(s) ==
    /\ Live!LoadSnapshot(s)
    /\ bookUpdates' = IF LoadOk(s.levels) THEN bookUpdates + 1 ELSE bookUpdates
    /\ bookErrors' = IF LoadOk(s.levels) THEN bookErrors ELSE bookErrors + 1

-----------------------------------------------------------------------------
\* The loop of reconstruct, until a `?` ends it.  A marker of a continuity gap
\* goes past it, so a frame is all it sees of a marked frame.
RecDiff(e) ==
    \/ ~aborted /\ Rec!ApplyEvent(e) /\ UNCHANGED aborted
    \/ aborted /\ UNCHANGED <<rec, aborted>>

RecSnapshot(s) ==
    \/ ~aborted /\ Rec!LoadSnapshot(s) /\ aborted' = ~LoadOk(s.levels)
    \/ aborted /\ UNCHANGED <<rec, aborted>>

RecConnectionGap ==
    \/ ~aborted /\ Rec!ResetSequence /\ UNCHANGED aborted
    \/ aborted /\ UNCHANGED <<rec, aborted>>

-----------------------------------------------------------------------------
\* emit_top.
TopOf(book) ==
    [s \in Sides |->
        IF Quoted(book, s) = {}
        THEN None
        ELSE [price |-> BestPrice(book, s), quantity |-> book[s][BestPrice(book, s)]]]

\* Mutant of TopSilenced: BookTop leaves continuity gaps to its Reconstructor,
\* which does not hear of a span that comes again.
TopSilenced_by_quarantine(marked) == topBroken

\* on_gap, when the frame has a marker in front, then the early return.
TopSilenced(marked) == topBroken \/ marked

\* on_book_diff.  The result of apply_event is dropped.
TopDiff(e, marked) ==
    \/ /\ TopSilenced(marked)
       /\ topBroken' = TRUE
       /\ emitted' = None
       /\ UNCHANGED <<top, spoiled>>
    \/ /\ ~TopSilenced(marked)
       /\ Top!ApplyEvent(e)
       /\ spoiled' = (spoiled \/ (Top!Reaches(e) /\ ~ApplyOk(e.diff)))
       /\ topBroken' = topQuarantine'
       /\ emitted' = IF topQuarantine' THEN None ELSE TopOf(topBook')

\* on_snapshot.
TopSnapshot(s, marked) ==
    /\ Top!LoadSnapshot(s)
    /\ topBroken' = (TopSilenced(marked) /\ ~LoadOk(s.levels))
    /\ emitted' = IF LoadOk(s.levels) THEN TopOf(topBook') ELSE None
    /\ spoiled' = (spoiled /\ ~LoadOk(s.levels))

\* Mutant of TopConnectionGap: the marker is passed over, the book stays in use.
TopConnectionGap_passed_over == emitted' = None /\ UNCHANGED <<top, topBroken, spoiled>>

TopConnectionGap ==
    /\ topBroken' = TRUE
    /\ emitted' = None
    /\ UNCHANGED <<top, spoiled>>

-----------------------------------------------------------------------------
\* The venue sends a diff: in order within a connection, any of them lost, the
\* last one repeated, spans overlapping.
Diff(e) ==
    /\ Step
    /\ e.last >= delivered
    /\ delivered' = e.last
    /\ previousLast' = e.last
    /\ LiveDiff(e)
    /\ RecDiff(e)
    /\ TopDiff(e, Marked(e.first))

\* The venue sends its book.  The snapshot has a span of one id in the tracker.
Snapshot(s) ==
    /\ Step
    /\ s.last_update_id >= delivered
    /\ delivered' = s.last_update_id
    /\ previousLast' = s.last_update_id
    /\ LiveSnapshot(s)
    /\ RecSnapshot(s)
    /\ TopSnapshot(s, Marked(s.last_update_id))

\* The connection is lost and made again; the capture marks it and starts over.
Reconnect ==
    /\ Step
    /\ delivered' = 0
    /\ previousLast' = None
    /\ RecConnectionGap
    /\ TopConnectionGap
    /\ UNCHANGED <<live, bookUpdates, bookErrors>>

Next ==
    \/ \E e \in Events : Diff(e)
    \/ \E s \in Snapshots : Snapshot(s)
    \/ Reconnect

Spec == Init /\ [][Next]_vars

-----------------------------------------------------------------------------
\* A top that BookTop emits is the venue's own top at the id its book stands for,
\* once a snapshot gave it a whole book: no loss, repeat, overlap, reconnect or
\* refused snapshot lets it emit from anything else.  (A diff that is refused at its
\* last level it half applies, and speaks on until the next snapshot.)
EmittedTopIsTheVenues ==
    emitted # None /\ topSnapshotId # None /\ ~spoiled =>
        emitted = TopOf(Truth[topLastId])

\* While BookTop may speak, all three readers hold the same book at the same id,
\* though each has seen a different history of markers and rejections.
ReadersAgree ==
    ~topBroken /\ ~aborted =>
        /\ <<topBook, topSnapshotId, topLastId>> = <<recBook, recSnapshotId, recLastId>>
        /\ <<topBook, topSnapshotId, topLastId>> = <<liveBook, liveSnapshotId, liveLastId>>
        /\ ~recBroken /\ ~liveBroken

\* The live book errs on the safe side of reconstruct: it is quarantined at least
\* whenever that is, and while it is not the two books are the same.
LiveIsStricter ==
    ~aborted =>
        /\ recBroken => liveBroken
        /\ ~liveBroken => liveBook = recBook

\* crates/astra-record/src/capture.rs:66-68 says of book_errors that a live book
\* that stopped tracking, broken book included, is counted and not hidden.
BrokenLiveBookIsCounted ==
    liveCounts["rejected_after_gap"] > 0 => bookErrors > 0
=============================================================================
