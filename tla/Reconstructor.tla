---------------------------- MODULE Reconstructor ----------------------------
(***************************************************************************)
(* The Reconstructor of crates/astra-book/src/lib.rs: an order book kept   *)
(* in step with a venue by update ids.  Every reader of the project (the   *)
(* capture's live book, reconstruct, compare, the book-top strategy) calls *)
(* the three operations below and nothing else; this module states them    *)
(* and says nothing of who calls them when.                                *)
(***************************************************************************)
EXTENDS OrderBook

CONSTANTS
    MaxId,  \* u64::MAX: update ids do not go past it
    None    \* Option::None

ASSUME IdAssumption == MaxId \in Nat /\ None \notin Nat

Ids == 0..MaxId

\* What apply_event counts, one counter per ApplyDecision it returns, with
\* the two ways to a Discontinuity apart.
Counters == {"applied", "skipped_before_snapshot", "gaps", "rejected_after_gap"}

\* UpdateSpan and BookDiff of one venue frame, and a BookSnapshot.
Event == [first : Ids, last : Ids, diff : Seq(Level)]
Snapshot == [last_update_id : Ids, levels : Seq(Level)]

VARIABLES
    book,          \* the OrderBook
    snapshotId,    \* id of the last snapshot accepted, or None
    lastUpdateId,  \* id the next span must follow on from, or None
    broken,        \* quarantined: events are rejected until a snapshot
    counts         \* the public counters

reconstructor == <<book, snapshotId, lastUpdateId, broken, counts>>

ReconstructorInit ==
    /\ book = EmptyBook
    /\ snapshotId = None
    /\ lastUpdateId = None
    /\ broken = FALSE
    /\ counts = [c \in Counters |-> 0]

ReconstructorTypeOK ==
    /\ book \in Book
    /\ snapshotId \in Ids \cup {None}
    /\ lastUpdateId \in Ids \cup {None}
    /\ broken \in BOOLEAN
    /\ counts \in [Counters -> Nat]

Count(c) == counts' = [counts EXCEPT ![c] = @ + 1]

-----------------------------------------------------------------------------
\* load_snapshot returning Ok: the book is the snapshot and the quarantine ends.
AcceptSnapshot(s) ==
    /\ LoadOk(s.levels)
    /\ book' = LoadedBook(s.levels)
    /\ snapshotId' = s.last_update_id
    /\ lastUpdateId' = s.last_update_id
    /\ broken' = FALSE
    /\ UNCHANGED counts

\* load_snapshot returning Err: the `?` leaves before any id is touched, but
\* OrderBook::load_snapshot has already cleared the book.
RefuseSnapshot(s) ==
    /\ ~LoadOk(s.levels)
    /\ book' = LoadedBook(s.levels)
    /\ UNCHANGED <<snapshotId, lastUpdateId, broken, counts>>

LoadSnapshot(s) == AcceptSnapshot(s) \/ RefuseSnapshot(s)

ResetSequence ==
    /\ lastUpdateId' = None
    /\ UNCHANGED <<book, snapshotId, broken, counts>>

-----------------------------------------------------------------------------
\* The conditions of apply_event, in the order it tests them.
BeforeSnapshot(e) == snapshotId # None /\ e.last <= snapshotId

\* Mutants of JumpsAhead: off by one; and the id after MaxId wraps to zero.
JumpsAhead_off_by_one(e) ==
    /\ lastUpdateId # None
    /\ lastUpdateId < MaxId
    /\ e.first > lastUpdateId + 2

JumpsAhead_wraps(e) ==
    /\ lastUpdateId # None
    /\ e.first > (lastUpdateId + 1) % (MaxId + 1)

\* checked_add: no id follows MaxId, so nothing can jump past it.
JumpsAhead(e) ==
    /\ lastUpdateId # None
    /\ lastUpdateId < MaxId
    /\ e.first > lastUpdateId + 1

Reaches(e) == ~broken /\ ~BeforeSnapshot(e) /\ ~JumpsAhead(e)

RejectEvent(e) ==
    /\ broken
    /\ Count("rejected_after_gap")
    /\ UNCHANGED <<book, snapshotId, lastUpdateId, broken>>

\* Mutant of SkipEvent: the baseline follows the skipped event back.
SkipEvent_moves_baseline(e) ==
    /\ ~broken
    /\ BeforeSnapshot(e)
    /\ lastUpdateId' = e.last
    /\ Count("skipped_before_snapshot")
    /\ UNCHANGED <<book, snapshotId, broken>>

SkipEvent(e) ==
    /\ ~broken
    /\ BeforeSnapshot(e)
    /\ Count("skipped_before_snapshot")
    /\ UNCHANGED <<book, snapshotId, lastUpdateId, broken>>

\* Mutant of BreakOnEvent: the gap is counted but the book not quarantined.
BreakOnEvent_stays_open(e) ==
    /\ ~broken
    /\ ~BeforeSnapshot(e)
    /\ JumpsAhead(e)
    /\ Count("gaps")
    /\ UNCHANGED <<book, snapshotId, lastUpdateId, broken>>

BreakOnEvent(e) ==
    /\ ~broken
    /\ ~BeforeSnapshot(e)
    /\ JumpsAhead(e)
    /\ broken' = TRUE
    /\ Count("gaps")
    /\ UNCHANGED <<book, snapshotId, lastUpdateId>>

\* apply_diff returned Err: the levels before the refused one stay applied,
\* and neither the id nor a counter says that anything happened.
RefuseEvent(e) ==
    /\ Reaches(e)
    /\ ~ApplyOk(e.diff)
    /\ book' = AppliedBook(book, e.diff)
    /\ UNCHANGED <<snapshotId, lastUpdateId, broken, counts>>

\* Mutant of TakeEvent: the id kept is the next one expected.
TakeEvent_next_id(e) ==
    /\ Reaches(e)
    /\ ApplyOk(e.diff)
    /\ book' = AppliedBook(book, e.diff)
    /\ lastUpdateId' = e.last + 1
    /\ Count("applied")
    /\ UNCHANGED <<snapshotId, broken>>

TakeEvent(e) ==
    /\ Reaches(e)
    /\ ApplyOk(e.diff)
    /\ book' = AppliedBook(book, e.diff)
    /\ lastUpdateId' = e.last
    /\ Count("applied")
    /\ UNCHANGED <<snapshotId, broken>>

ApplyEvent(e) ==
    \/ RejectEvent(e)
    \/ SkipEvent(e)
    \/ BreakOnEvent(e)
    \/ RefuseEvent(e)
    \/ TakeEvent(e)
=============================================================================
