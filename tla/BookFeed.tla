------------------------------- MODULE BookFeed -------------------------------
(***************************************************************************)
(* A Reconstructor fed by a venue.  The venue's book has a history, Truth; *)
(* an event tells what its span of updates did to the book, a snapshot     *)
(* tells the whole book at one id.  A connection delivers events in order, *)
(* but may lose any of them, deliver the last one again, let spans         *)
(* overlap, and end; a snapshot may be older or newer than the stream, and *)
(* a snapshot or an event may carry a level or a book that is refused.     *)
(* With Redeliver an event that was applied may come again at any time.    *)
(*                                                                         *)
(* The variables of this module are the observer's.  anchored records      *)
(* whether, by the history of calls so far, the caller may take the book   *)
(* for the venue's: the code has no such flag, is_reliable (not broken) is *)
(* what it offers in its place.  handed and complete compare what the      *)
(* caller passed in since the anchor with what the venue produced.         *)
(***************************************************************************)
EXTENDS Reconstructor

CONSTANTS
    Truth,      \* Truth[i] is the venue's book after update i
    Events,     \* events a connection may deliver
    Snapshots,  \* snapshots that may be loaded
    Redeliver,  \* old events may be delivered again
    MaxCalls    \* bound on the number of calls

ASSUME FeedAssumption ==
    /\ MaxCalls \in Nat
    /\ Redeliver \in BOOLEAN
    /\ Truth \in [Ids -> Book]
    /\ Events \subseteq Event
    /\ \A e \in Events : Faithful(Truth, e)
    /\ Snapshots \subseteq Snapshot
    /\ \A s \in Snapshots :
          LoadOk(s.levels) => LoadedBook(s.levels) = Truth[s.last_update_id]

VARIABLES
    delivered,  \* last id this connection has delivered
    anchored,   \* the book is the venue's at lastUpdateId, as far as the calls made tell
    handed,     \* highest id passed in since the anchor
    complete,   \* nothing up to handed is missing from what was passed in
    taken,      \* events applied since the anchor (kept only with Redeliver)
    loads,      \* snapshots accepted
    calls       \* calls made

feed == <<delivered, anchored, handed, complete, taken, loads, calls>>
vars == <<reconstructor, feed>>

Init ==
    /\ ReconstructorInit
    /\ delivered = 0
    /\ anchored = FALSE
    /\ handed = 0
    /\ complete = FALSE
    /\ taken = {}
    /\ loads = 0
    /\ calls = 0

Called == calls < MaxCalls /\ calls' = calls + 1

InOrder(e) == e.last >= delivered \/ e \in taken

Deliver(e) ==
    /\ Called
    /\ InOrder(e)
    /\ ApplyEvent(e)
    /\ delivered' = e.last
    /\ anchored' = (anchored /\ ~(Reaches(e) /\ ~ApplyOk(e.diff)))
    /\ complete' = (complete /\ anchored' /\ e.first <= handed + 1)
    /\ handed' = IF e.last > handed THEN e.last ELSE handed
    /\ taken' = IF Redeliver THEN taken \cup {e} ELSE taken
    /\ UNCHANGED loads

Bootstrap(s) ==
    /\ Called
    /\ LoadSnapshot(s)
    /\ anchored' = LoadOk(s.levels)
    /\ complete' = LoadOk(s.levels)
    /\ handed' = s.last_update_id
    /\ taken' = {}
    /\ loads' = IF LoadOk(s.levels) THEN loads + 1 ELSE loads
    /\ UNCHANGED delivered

\* The caller met a connection gap.
Reconnect ==
    /\ Called
    /\ ResetSequence
    /\ delivered' = 0
    /\ anchored' = FALSE
    /\ complete' = FALSE
    /\ handed' = 0
    /\ taken' = {}
    /\ UNCHANGED loads

Next ==
    \/ \E e \in Events : Deliver(e)
    \/ \E s \in Snapshots : Bootstrap(s)
    \/ Reconnect

Spec == Init /\ [][Next]_vars

-----------------------------------------------------------------------------
TypeOK ==
    /\ ReconstructorTypeOK
    /\ delivered \in Ids
    /\ anchored \in BOOLEAN
    /\ handed \in Ids
    /\ complete \in BOOLEAN
    /\ taken \subseteq Events
    /\ loads \in Nat
    /\ calls \in 0..MaxCalls

\* Whatever was lost, repeated, overlapping, skipped or rejected since the last
\* accepted snapshot, the book is exactly the venue's at the id it stands for:
\* apply_event lets no span through that leaves out an update, and an event it
\* turns away leaves no trace.
MirrorsVenue ==
    anchored => lastUpdateId # None /\ book = Truth[lastUpdateId]

\* No false alarm and nothing withheld: as long as every update since the
\* snapshot was passed in, in whatever overlapping spans, apply_event neither
\* quarantines the book nor leaves it behind the last id it was handed.
CompleteStreamIsFollowed ==
    anchored /\ complete => ~broken /\ lastUpdateId = handed

\* Why the two above are inductive: events that the snapshot covers are skipped,
\* so the id the book stands for is the snapshot's or one already delivered, and
\* an event delivered in order cannot end before it.
FeedInv ==
    /\ taken = {}
    /\ MirrorsVenue
    /\ CompleteStreamIsFollowed
    /\ anchored => snapshotId # None /\ snapshotId <= lastUpdateId
    /\ anchored => lastUpdateId <= delivered \/ lastUpdateId = snapshotId

\* A quarantine is counted once: between two gaps a snapshot was accepted, and
\* only an unhealed gap rejects events.
OneGapPerQuarantine ==
    /\ counts["gaps"] <= loads + (IF broken THEN 1 ELSE 0)
    /\ counts["rejected_after_gap"] > 0 => counts["gaps"] > 0

\* docs/failure-policy.md:23 says a duplicate span is applied twice, harmlessly:
\* an event that was already applied changes nothing when it is applied again.
RepeatsAreHarmless ==
    [][\A e \in taken : Deliver(e) /\ anchored => book' = book]_vars

\* The book as an abstract view of the venue.
Mirror == INSTANCE VenueMirror WITH
    phase <- IF ~anchored THEN "unsynced" ELSE IF broken THEN "frozen" ELSE "live",
    at <- IF anchored THEN lastUpdateId ELSE 0,
    view <- IF anchored THEN book ELSE Truth[0]

\* The Reconstructor implements VenueMirror: its view of the venue moves forward
\* through exact books, freezes on a loss, and leaves the quarantine only by a
\* snapshot.
ImplementsMirror == Mirror!Spec
=============================================================================
