--------------------------- MODULE BookFeed_proofs ---------------------------
(***************************************************************************)
(* Theorems about a Reconstructor fed by a venue, for every price grid,    *)
(* every history of the venue, every set of faithful events and snapshots, *)
(* every number of calls.                                                  *)
(***************************************************************************)
EXTENDS BookFeed, SequenceLemmas

-----------------------------------------------------------------------------
(* What a walk over levels leaves behind.                                  *)

\* The last write to a price was accepted, and was to that price.
LEMMA LastWrite ==
    ASSUME NEW levels \in Seq(Level), NEW ok, NEW s, NEW p,
           Writes(levels, ok, s, p) # {}
    PROVE  LET m == Max(Writes(levels, ok, s, p))
           IN  /\ m \in DOMAIN levels
               /\ levels[m] \in ok
               /\ levels[m].side = s /\ levels[m].price = p
<1>1. Writes(levels, ok, s, p) \in SUBSET (1..Len(levels))
  BY DEF Writes, Walked
<1>2. Len(levels) \in Nat
  OBVIOUS
<1>3. Max(Writes(levels, ok, s, p)) \in Writes(levels, ok, s, p)
  BY <1>1, <1>2, GreatestIndex
<1> QED
  BY <1>3 DEF Writes, Walked

\* A walk that refuses negative quantities keeps a book a book.
LEMMA OverlayType ==
    ASSUME NEW b \in Book, NEW levels \in Seq(Level), NEW ok \in SUBSET Appliable
    PROVE  Overlay(b, levels, ok) \in Book
<1>1. ASSUME NEW s \in Sides, NEW p \in Prices, Writes(levels, ok, s, p) # {}
      PROVE  levels[Max(Writes(levels, ok, s, p))].quantity \in Quantities \cup {Absent}
  <2>1. levels[Max(Writes(levels, ok, s, p))] \in Appliable
    BY <1>1, LastWrite
  <2> QED
    BY <2>1 DEF Appliable, Level, Absent
<1>2. \A s \in Sides, p \in Prices : b[s][p] \in Quantities \cup {Absent}
  BY DEF Book
<1> QED
  BY <1>1, <1>2 DEF Overlay, Book

LEMMA EmptyBookType == EmptyBook \in Book
BY DEF EmptyBook, Book

LEMMA LoadedBookType ==
    ASSUME NEW levels \in Seq(Level)
    PROVE  LoadedBook(levels) \in Book
<1>1. ASSUME NEW l \in Storable
      PROVE  l \in Appliable
  <2>1. l \in Level /\ l.price > 0 /\ l.quantity > 0
    BY DEF Storable
  <2>2. l.quantity \in Quantities \cup {0, -1}
    BY <2>1 DEF Level
  <2>3. \A q \in Quantities : q >= 0
    BY BookAssumption
  <2> QED
    BY <2>1, <2>2, <2>3 DEF Appliable
<1>2. Overlay(EmptyBook, levels, Storable) \in Book
  BY <1>1, EmptyBookType, OverlayType
<1> QED
  BY <1>2, EmptyBookType DEF LoadedBook

LEMMA AppliedBookType ==
    ASSUME NEW b \in Book, NEW levels \in Seq(Level)
    PROVE  AppliedBook(b, levels) \in Book
BY OverlayType DEF AppliedBook

\* A faithful event that follows on from, or overlaps, the id a book is exact
\* for makes it exact for the event's last id.
LEMMA FaithfulStep ==
    ASSUME NEW truth, NEW e, Faithful(truth, e), ApplyOk(e.diff),
           e.first \in Nat, e.last \in Nat, e.diff \in Seq(Level),
           NEW k \in Nat, e.first <= k + 1, k <= e.last,
           truth[k] \in Book, truth[e.last] \in Book
    PROVE  AppliedBook(truth[k], e.diff) = truth[e.last]
<1>1. k \in e.first - 1 .. e.last
  OBVIOUS
<1>2. \A i \in DOMAIN e.diff : e.diff[i] \in Appliable
  BY DEF ApplyOk, Accepted
<1>3. Walked(e.diff, Appliable) = DOMAIN e.diff
  BY <1>2 DEF Walked
<1>4. ASSUME NEW s \in Sides, NEW p \in Prices
      PROVE  AppliedBook(truth[k], e.diff)[s][p] = truth[e.last][s][p]
  <2> DEFINE W == Writes(e.diff, Appliable, s, p)
  <2>1. CASE W = {}
    <3>1. ~ \E i \in DOMAIN e.diff : e.diff[i].side = s /\ e.diff[i].price = p
      BY <2>1, <1>3 DEF Writes
    <3>2. truth[k][s][p] = truth[e.last][s][p]
      BY <3>1, <1>1 DEF Faithful
    <3> QED
      BY <2>1, <3>2 DEF AppliedBook, Overlay
  <2>2. CASE W # {}
    <3>1. /\ Max(W) \in DOMAIN e.diff
          /\ e.diff[Max(W)].side = s /\ e.diff[Max(W)].price = p
      BY <2>2, LastWrite
    <3>2. e.diff[Max(W)].quantity = truth[e.last][s][p]
      BY <3>1, <1>2 DEF Faithful
    <3> QED
      BY <2>2, <3>2 DEF AppliedBook, Overlay
  <2> QED
    BY <2>1, <2>2
<1>5. AppliedBook(truth[k], e.diff) \in Book
  BY AppliedBookType
<1> QED
  BY <1>4, <1>5 DEF Book

-----------------------------------------------------------------------------
(* Type correctness.                                                       *)

LEMMA EventType ==
    ASSUME NEW e \in Events
    PROVE  /\ e.first \in Nat /\ e.last \in Nat
           /\ e.first \in Ids /\ e.last \in Ids /\ e.diff \in Seq(Level)
           /\ e.first >= 1 /\ e.first <= e.last
BY FeedAssumption, IdAssumption DEF Event, Faithful, Ids

LEMMA SnapshotType ==
    ASSUME NEW s \in Snapshots
    PROVE  s.last_update_id \in Ids /\ s.levels \in Seq(Level)
BY FeedAssumption DEF Snapshot

LEMMA CountType ==
    ASSUME NEW c \in Counters, counts \in [Counters -> Nat], Count(c)
    PROVE  counts' \in [Counters -> Nat]
BY DEF Count

\* Whichever way apply_event goes, it leaves a well-formed Reconstructor.
LEMMA ApplyEventType ==
    ASSUME NEW e \in Events, ReconstructorTypeOK, ApplyEvent(e)
    PROVE  ReconstructorTypeOK'
<1> USE DEF ReconstructorTypeOK
<1>1. CASE RejectEvent(e)
  BY <1>1, CountType DEF RejectEvent, Counters
<1>2. CASE SkipEvent(e)
  BY <1>2, CountType DEF SkipEvent, Counters
<1>3. CASE BreakOnEvent(e)
  BY <1>3, CountType DEF BreakOnEvent, Counters
<1>4. CASE RefuseEvent(e)
  BY <1>4, EventType, AppliedBookType DEF RefuseEvent
<1>5. CASE TakeEvent(e)
  BY <1>5, EventType, AppliedBookType, CountType DEF TakeEvent, Counters
<1> QED
  BY <1>1, <1>2, <1>3, <1>4, <1>5 DEF ApplyEvent

LEMMA LoadSnapshotType ==
    ASSUME NEW s \in Snapshots, ReconstructorTypeOK, LoadSnapshot(s)
    PROVE  ReconstructorTypeOK'
BY SnapshotType, LoadedBookType
DEF ReconstructorTypeOK, LoadSnapshot, AcceptSnapshot, RefuseSnapshot

\* Every state the feed can bring a Reconstructor to is well-formed.
THEOREM TypeCorrect == Spec => []TypeOK
<1>1. Init => TypeOK
  <2>1. 0 \in Ids /\ 0 \in 0..MaxCalls
    BY IdAssumption, FeedAssumption DEF Ids
  <2>2. ReconstructorInit => ReconstructorTypeOK
    <3> SUFFICES ASSUME ReconstructorInit
                 PROVE  ReconstructorTypeOK
      OBVIOUS
    <3>1. counts \in [Counters -> Nat] /\ book \in Book
      BY EmptyBookType DEF ReconstructorInit
    <3>2. broken \in BOOLEAN
      BY DEF ReconstructorInit
    <3> QED
      BY <3>1, <3>2 DEF ReconstructorInit, ReconstructorTypeOK
  <2>3. Init => anchored \in BOOLEAN /\ complete \in BOOLEAN
    BY DEF Init
  <2> QED
    BY <2>1, <2>2, <2>3 DEF Init, TypeOK
<1>2. TypeOK /\ [Next]_vars => TypeOK'
  <2> SUFFICES ASSUME TypeOK, [Next]_vars
               PROVE  TypeOK'
    OBVIOUS
  <2> USE DEF TypeOK
  <2>1. ASSUME Called
        PROVE  calls' \in 0..MaxCalls
    BY <2>1, FeedAssumption DEF Called
  <2>2. ASSUME NEW e \in Events, Deliver(e)
        PROVE  TypeOK'
    <3>1. ReconstructorTypeOK'
      BY <2>2, ApplyEventType DEF Deliver
    <3>2. handed' \in Ids /\ delivered' \in Ids /\ taken' \subseteq Events
      BY <2>2, EventType DEF Deliver
    <3>3. anchored' \in BOOLEAN /\ complete' \in BOOLEAN
      BY <2>2 DEF Deliver
    <3>4. calls' \in 0..MaxCalls /\ loads' \in Nat
      BY <2>1, <2>2 DEF Deliver
    <3> QED
      BY <3>1, <3>2, <3>3, <3>4
  <2>3. ASSUME NEW s \in Snapshots, Bootstrap(s)
        PROVE  TypeOK'
    <3>1. ReconstructorTypeOK'
      BY <2>3, LoadSnapshotType DEF Bootstrap
    <3>2. handed' \in Ids /\ delivered' \in Ids /\ taken' \subseteq Events
      BY <2>3, SnapshotType DEF Bootstrap
    <3>3. anchored' \in BOOLEAN /\ complete' \in BOOLEAN
      BY <2>3 DEF Bootstrap, LoadOk
    <3>4. calls' \in 0..MaxCalls /\ loads' \in Nat
      BY <2>1, <2>3 DEF Bootstrap
    <3> QED
      BY <3>1, <3>2, <3>3, <3>4
  <2>4. CASE Reconnect
    <3>1. ReconstructorTypeOK'
      BY <2>4 DEF Reconnect, ResetSequence, ReconstructorTypeOK
    <3>2. 0 \in Ids
      BY IdAssumption DEF Ids
    <3>3. anchored' \in BOOLEAN /\ complete' \in BOOLEAN
      BY <2>4 DEF Reconnect
    <3> QED
      BY <2>1, <2>4, <3>1, <3>2, <3>3 DEF Reconnect
  <2>5. CASE UNCHANGED vars
    <3>1. ReconstructorTypeOK'
      BY <2>5 DEF vars, reconstructor, ReconstructorTypeOK
    <3> QED
      BY <2>5, <3>1 DEF vars, feed
  <2> QED
    BY <2>2, <2>3, <2>4, <2>5 DEF Next
<1> QED
  BY <1>1, <1>2, PTL DEF Spec

-----------------------------------------------------------------------------
(* The book is the venue's, and a complete stream is followed.             *)

\* An anchored book's ids are ids.
LEMMA AnchoredIds ==
    ASSUME TypeOK, FeedInv, anchored
    PROVE  /\ lastUpdateId \in Ids /\ snapshotId \in Ids
           /\ lastUpdateId \in Nat /\ snapshotId \in Nat
           /\ lastUpdateId # None /\ snapshotId # None
           /\ book = Truth[lastUpdateId]
           /\ snapshotId <= lastUpdateId
           /\ lastUpdateId <= delivered \/ lastUpdateId = snapshotId
BY IdAssumption DEF TypeOK, ReconstructorTypeOK, FeedInv, MirrorsVenue, Ids

\* An event that reaches an anchored book follows on from the id it stands for
\* and does not end before it.
LEMMA ReachingEvent ==
    ASSUME TypeOK, FeedInv, anchored,
           NEW e \in Events, e.last >= delivered, Reaches(e)
    PROVE  e.first <= lastUpdateId + 1 /\ lastUpdateId <= e.last
<1>1. /\ lastUpdateId \in 0..MaxId /\ lastUpdateId \in Nat /\ snapshotId \in Nat
      /\ lastUpdateId # None /\ snapshotId # None
      /\ lastUpdateId <= delivered \/ lastUpdateId = snapshotId
  BY AnchoredIds DEF Ids
<1>2. e.first \in Nat /\ e.last \in Nat /\ e.first <= e.last /\ e.last \in 0..MaxId
  BY EventType DEF Ids
<1>3. delivered \in Nat
  BY IdAssumption DEF TypeOK, Ids
<1>4. e.first <= lastUpdateId + 1
  BY <1>1, <1>2, IdAssumption DEF Reaches, JumpsAhead
<1>5. lastUpdateId <= e.last
  BY <1>1, <1>2, <1>3 DEF Reaches, BeforeSnapshot
<1> QED
  BY <1>4, <1>5

\* Delivering an event, in order, keeps the invariant.
LEMMA DeliverKeepsFeedInv ==
    ASSUME Redeliver = FALSE, TypeOK, FeedInv, NEW e \in Events, Deliver(e)
    PROVE  FeedInv'
<1>1. e.last >= delivered /\ delivered' = e.last /\ taken' = {}
  BY DEF Deliver, InOrder, FeedInv
<1>2. /\ e.first \in Nat /\ e.last \in Nat /\ e.first <= e.last
      /\ e.last \in Ids
  BY EventType
<1>3. delivered \in Nat /\ handed \in Nat
  BY IdAssumption DEF TypeOK, Ids
<1>4. CASE ~anchored'
  BY <1>1, <1>4 DEF Deliver, FeedInv, MirrorsVenue, CompleteStreamIsFollowed
<1>5. CASE anchored'
  <2>1. anchored /\ ~(Reaches(e) /\ ~ApplyOk(e.diff))
    BY <1>5 DEF Deliver
  <2>2. /\ lastUpdateId \in Ids /\ snapshotId \in Ids
        /\ lastUpdateId \in Nat /\ snapshotId \in Nat
        /\ lastUpdateId # None /\ snapshotId # None
        /\ book = Truth[lastUpdateId] /\ snapshotId <= lastUpdateId
        /\ lastUpdateId <= delivered \/ lastUpdateId = snapshotId
    BY <2>1, AnchoredIds
  <2>3. complete' => /\ complete /\ ~broken /\ lastUpdateId = handed
                     /\ e.first <= lastUpdateId + 1
    BY <2>1, <1>5 DEF Deliver, FeedInv, CompleteStreamIsFollowed
  <2>4. CASE RejectEvent(e) \/ SkipEvent(e) \/ BreakOnEvent(e)
    <3>1. UNCHANGED <<book, snapshotId, lastUpdateId>>
      BY <2>4 DEF RejectEvent, SkipEvent, BreakOnEvent
    <3>2. MirrorsVenue'
      BY <2>2, <3>1 DEF MirrorsVenue
    <3>3. complete' => SkipEvent(e)
      BY <2>2, <2>3, <2>4, <1>2 DEF RejectEvent, BreakOnEvent, JumpsAhead
    <3>4. SkipEvent(e) => broken' = broken /\ e.last <= snapshotId
      BY DEF SkipEvent, BeforeSnapshot
    <3>5. complete' => handed' = handed
      BY <2>2, <2>3, <3>3, <3>4, <1>2, <1>3 DEF Deliver
    <3>6. CompleteStreamIsFollowed'
      BY <2>3, <3>1, <3>3, <3>4, <3>5 DEF CompleteStreamIsFollowed
    <3>7. lastUpdateId' <= delivered' \/ lastUpdateId' = snapshotId'
      BY <1>1, <1>2, <1>3, <2>2, <3>1
    <3> QED
      BY <1>1, <2>2, <3>1, <3>2, <3>6, <3>7 DEF FeedInv
  <2>5. CASE TakeEvent(e)
    <3>1. /\ Reaches(e) /\ ApplyOk(e.diff)
          /\ book' = AppliedBook(book, e.diff) /\ lastUpdateId' = e.last
          /\ snapshotId' = snapshotId /\ broken' = broken
      BY <2>5 DEF TakeEvent
    <3>2. e.first <= lastUpdateId + 1 /\ lastUpdateId <= e.last
      BY <1>1, <2>1, <3>1, ReachingEvent
    <3>3. book' = Truth[e.last]
      <4>1. /\ Faithful(Truth, e) /\ e.diff \in Seq(Level)
            /\ Truth[lastUpdateId] \in Book /\ Truth[e.last] \in Book
        BY <1>2, <2>2, FeedAssumption, EventType
      <4> QED
        BY <1>2, <2>2, <3>1, <3>2, <4>1, FaithfulStep
    <3>4. MirrorsVenue'
      BY <1>2, <3>1, <3>3, IdAssumption DEF MirrorsVenue, Ids
    <3>5. complete' => handed' = e.last
      BY <1>2, <1>3, <2>3, <3>2 DEF Deliver
    <3>6. CompleteStreamIsFollowed'
      BY <2>3, <3>1, <3>5 DEF CompleteStreamIsFollowed
    <3>7. snapshotId' <= lastUpdateId' /\ lastUpdateId' <= delivered'
      BY <1>1, <1>2, <2>2, <3>1, <3>2
    <3> QED
      BY <1>1, <2>2, <3>1, <3>4, <3>6, <3>7 DEF FeedInv
  <2>6. CASE RefuseEvent(e)
    BY <2>1, <2>6 DEF RefuseEvent
  <2> QED
    BY <2>4, <2>5, <2>6 DEF Deliver, ApplyEvent
<1> QED
  BY <1>4, <1>5

\* Loading a snapshot anchors the book at the snapshot's id or gives it up.
LEMMA BootstrapKeepsFeedInv ==
    ASSUME TypeOK, FeedInv, NEW s \in Snapshots, Bootstrap(s)
    PROVE  FeedInv'
<1>1. s.last_update_id \in Ids /\ s.last_update_id \in Nat /\ s.last_update_id # None
  BY SnapshotType, IdAssumption DEF Ids
<1>2. CASE ~LoadOk(s.levels)
  BY <1>2 DEF Bootstrap, FeedInv, MirrorsVenue, CompleteStreamIsFollowed
<1>3. CASE LoadOk(s.levels)
  <2>1. /\ book' = LoadedBook(s.levels) /\ broken' = FALSE
        /\ snapshotId' = s.last_update_id /\ lastUpdateId' = s.last_update_id
        /\ handed' = s.last_update_id /\ taken' = {}
    BY <1>3 DEF Bootstrap, LoadSnapshot, AcceptSnapshot, RefuseSnapshot
  <2>2. book' = Truth[s.last_update_id]
    BY <1>3, <2>1, FeedAssumption
  <2> QED
    BY <1>1, <2>1, <2>2 DEF FeedInv, MirrorsVenue, CompleteStreamIsFollowed
<1> QED
  BY <1>2, <1>3

\* The invariant from which the two theorems follow.
THEOREM FeedInvariant ==
    ASSUME Redeliver = FALSE
    PROVE  Spec => [](TypeOK /\ FeedInv)
<1>1. Init => FeedInv
  BY DEF Init, FeedInv, MirrorsVenue, CompleteStreamIsFollowed
<1>2. TypeOK /\ FeedInv /\ [Next]_vars => FeedInv'
  <2> SUFFICES ASSUME TypeOK, FeedInv, [Next]_vars
               PROVE  FeedInv'
    OBVIOUS
  <2>1. ASSUME NEW e \in Events, Deliver(e)
        PROVE  FeedInv'
    BY <2>1, DeliverKeepsFeedInv
  <2>2. ASSUME NEW s \in Snapshots, Bootstrap(s)
        PROVE  FeedInv'
    BY <2>2, BootstrapKeepsFeedInv
  <2>3. CASE Reconnect
    BY <2>3 DEF Reconnect, FeedInv, MirrorsVenue, CompleteStreamIsFollowed
  <2>4. CASE UNCHANGED vars
    BY <2>4 DEF vars, reconstructor, feed, FeedInv, MirrorsVenue, CompleteStreamIsFollowed
  <2> QED
    BY <2>1, <2>2, <2>3, <2>4 DEF Next
<1> QED
  BY <1>1, <1>2, TypeCorrect, PTL DEF Spec

\* Reconstructor::apply_event keeps an anchored book exactly the venue's, for
\* every loss, overlap, immediate repeat, stale snapshot and refusal.
THEOREM BookMirrorsVenue ==
    ASSUME Redeliver = FALSE
    PROVE  Spec => []MirrorsVenue
<1>1. FeedInv => MirrorsVenue
  BY DEF FeedInv
<1> QED
  BY <1>1, FeedInvariant, PTL

\* Reconstructor::apply_event raises no false alarm and withholds nothing: a
\* stream with no update missing is followed to its last id.
THEOREM CompleteStreamFollowed ==
    ASSUME Redeliver = FALSE
    PROVE  Spec => []CompleteStreamIsFollowed
<1>1. FeedInv => CompleteStreamIsFollowed
  BY DEF FeedInv
<1> QED
  BY <1>1, FeedInvariant, PTL

-----------------------------------------------------------------------------
(* The Reconstructor implements VenueMirror.                               *)

\* Delivering an event is an Advance, a Freeze, a Lose or a stutter of the mirror.
LEMMA DeliverRefines ==
    ASSUME Redeliver = FALSE, TypeOK, FeedInv, FeedInv', NEW e \in Events, Deliver(e)
    PROVE  [Mirror!Next]_(Mirror!mirror)
<1>1. CASE ~anchored'
  BY <1>1 DEF Mirror!Next, Mirror!Lose
<1>2. CASE anchored'
  <2>1. anchored /\ ~(Reaches(e) /\ ~ApplyOk(e.diff)) /\ e.last >= delivered
    BY <1>2 DEF Deliver, InOrder, FeedInv
  <2>2. broken \in BOOLEAN
    BY DEF TypeOK, ReconstructorTypeOK
  <2>3. CASE RejectEvent(e) \/ SkipEvent(e)
    <3>1. UNCHANGED <<book, lastUpdateId, broken>>
      BY <2>3 DEF RejectEvent, SkipEvent
    <3> QED
      BY <1>2, <2>1, <3>1 DEF Mirror!mirror
  <2>4. CASE BreakOnEvent(e)
    <3>1. ~broken /\ broken' /\ UNCHANGED <<book, lastUpdateId>>
      BY <2>4 DEF BreakOnEvent
    <3> QED
      BY <1>2, <2>1, <3>1 DEF Mirror!Next, Mirror!Freeze
  <2>5. CASE TakeEvent(e)
    <3>1. Reaches(e) /\ lastUpdateId' = e.last /\ broken' = broken /\ ~broken
      BY <2>5 DEF TakeEvent, Reaches
    <3>2. lastUpdateId <= e.last
      BY <2>1, <3>1, ReachingEvent
    <3>3. e.last \in Ids /\ e.last >= lastUpdateId
      BY <2>1, <3>2, EventType, AnchoredIds
    <3>4. book' = Truth[lastUpdateId']
      BY <1>2 DEF FeedInv, MirrorsVenue
    <3> QED
      BY <1>2, <2>1, <3>1, <3>3, <3>4 DEF Mirror!Next, Mirror!Advance
  <2>6. CASE RefuseEvent(e)
    BY <2>1, <2>6 DEF RefuseEvent
  <2> QED
    BY <2>3, <2>4, <2>5, <2>6 DEF Deliver, ApplyEvent
<1> QED
  BY <1>1, <1>2

\* The Reconstructor implements VenueMirror: an exact view that moves forward,
\* freezes on a loss, and thaws only by a snapshot.
THEOREM FeedImplementsMirror ==
    ASSUME Redeliver = FALSE
    PROVE  Spec => ImplementsMirror
<1>1. Init => Mirror!Init
  BY DEF Init, Mirror!Init, Mirror!Unsynced
<1>2. /\ TypeOK /\ FeedInv /\ FeedInv' /\ [Next]_vars
      => [Mirror!Next]_(Mirror!mirror)
  <2> SUFFICES ASSUME TypeOK, FeedInv, FeedInv', [Next]_vars
               PROVE  [Mirror!Next]_(Mirror!mirror)
    OBVIOUS
  <2>1. ASSUME NEW e \in Events, Deliver(e)
        PROVE  [Mirror!Next]_(Mirror!mirror)
    BY <2>1, DeliverRefines
  <2>2. ASSUME NEW s \in Snapshots, Bootstrap(s)
        PROVE  [Mirror!Next]_(Mirror!mirror)
    <3>1. CASE ~anchored'
      BY <3>1 DEF Mirror!Next, Mirror!Lose
    <3>2. CASE anchored'
      <4>1. LoadOk(s.levels)
        BY <2>2, <3>2 DEF Bootstrap
      <4>2. broken' = FALSE /\ lastUpdateId' = s.last_update_id
        BY <2>2, <4>1 DEF Bootstrap, LoadSnapshot, AcceptSnapshot, RefuseSnapshot
      <4>3. lastUpdateId' \in Ids /\ book' = Truth[lastUpdateId']
        BY <3>2, <4>2, SnapshotType DEF FeedInv, MirrorsVenue
      <4> QED
        BY <3>2, <4>2, <4>3 DEF Mirror!Next, Mirror!Anchor
    <3> QED
      BY <3>1, <3>2
  <2>3. CASE Reconnect
    BY <2>3 DEF Reconnect, Mirror!Next, Mirror!Lose
  <2>4. CASE UNCHANGED vars
    BY <2>4 DEF vars, reconstructor, feed, Mirror!mirror
  <2> QED
    BY <2>1, <2>2, <2>3, <2>4 DEF Next
<1> QED
  BY <1>1, <1>2, FeedInvariant, PTL DEF Spec, ImplementsMirror, Mirror!Spec

-----------------------------------------------------------------------------
(* Quarantines are counted.                                                *)

\* OneGapPerQuarantine with what makes it inductive: a quarantine has its gap.
GapsInv ==
    /\ broken => counts["gaps"] <= loads + 1
    /\ ~broken => counts["gaps"] <= loads
    /\ broken => counts["gaps"] > 0
    /\ counts["rejected_after_gap"] > 0 => counts["gaps"] > 0

\* The two counters the property is about, after one of the four is raised.
LEMMA CountedOnce ==
    ASSUME TypeOK, NEW c \in Counters, Count(c)
    PROVE  /\ counts'["gaps"] = IF c = "gaps" THEN counts["gaps"] + 1 ELSE counts["gaps"]
           /\ counts'["rejected_after_gap"] =
                 IF c = "rejected_after_gap" THEN counts["rejected_after_gap"] + 1
                 ELSE counts["rejected_after_gap"]
BY DEF TypeOK, ReconstructorTypeOK, Count, Counters

LEMMA CountsAreNat ==
    ASSUME TypeOK
    PROVE  counts["gaps"] \in Nat /\ counts["rejected_after_gap"] \in Nat /\ loads \in Nat
BY DEF TypeOK, ReconstructorTypeOK, Counters

LEMMA DeliverKeepsGapsInv ==
    ASSUME TypeOK, GapsInv, NEW e \in Events, Deliver(e)
    PROVE  GapsInv'
<1>1. loads' = loads /\ ApplyEvent(e)
  BY DEF Deliver
<1>2. {"applied", "skipped_before_snapshot", "gaps", "rejected_after_gap"} = Counters
  BY DEF Counters
<1>3. CASE RejectEvent(e)
  <2>1. broken /\ broken' = broken /\ Count("rejected_after_gap")
    BY <1>3 DEF RejectEvent
  <2> QED
    BY <1>1, <1>2, <2>1, CountedOnce, CountsAreNat DEF GapsInv
<1>4. CASE SkipEvent(e) \/ TakeEvent(e)
  <2>1. broken' = broken /\ (Count("skipped_before_snapshot") \/ Count("applied"))
    BY <1>4 DEF SkipEvent, TakeEvent
  <2> QED
    BY <1>1, <1>2, <2>1, CountedOnce, CountsAreNat DEF GapsInv
<1>5. CASE BreakOnEvent(e)
  <2>1. ~broken /\ broken' /\ Count("gaps")
    BY <1>5 DEF BreakOnEvent
  <2> QED
    BY <1>1, <1>2, <2>1, CountedOnce, CountsAreNat DEF GapsInv
<1>6. CASE RefuseEvent(e)
  BY <1>1, <1>6 DEF RefuseEvent, GapsInv
<1> QED
  BY <1>1, <1>3, <1>4, <1>5, <1>6 DEF ApplyEvent

LEMMA BootstrapKeepsGapsInv ==
    ASSUME TypeOK, GapsInv, NEW s \in Snapshots, Bootstrap(s)
    PROVE  GapsInv'
<1>1. CASE LoadOk(s.levels)
  <2>1. counts' = counts /\ broken' = FALSE /\ loads' = loads + 1
    BY <1>1 DEF Bootstrap, LoadSnapshot, AcceptSnapshot, RefuseSnapshot
  <2>2. counts["gaps"] <= loads + 1
    BY CountsAreNat DEF GapsInv
  <2> QED
    BY <2>1, <2>2, CountsAreNat DEF GapsInv
<1>2. CASE ~LoadOk(s.levels)
  <2>1. counts' = counts /\ broken' = broken /\ loads' = loads
    BY <1>2 DEF Bootstrap, LoadSnapshot, AcceptSnapshot, RefuseSnapshot
  <2> QED
    BY <2>1 DEF GapsInv
<1> QED
  BY <1>1, <1>2

\* Reconstructor::apply_event counts a quarantine once, however long it lasts, and
\* rejects events only in one it counted.
THEOREM GapCountedOncePerQuarantine == Spec => []OneGapPerQuarantine
<1>1. Init => GapsInv
  BY DEF Init, ReconstructorInit, GapsInv, Counters
<1>2. TypeOK /\ GapsInv /\ [Next]_vars => GapsInv'
  <2> SUFFICES ASSUME TypeOK, GapsInv, [Next]_vars
               PROVE  GapsInv'
    OBVIOUS
  <2>1. CASE Reconnect
    BY <2>1 DEF Reconnect, ResetSequence, GapsInv
  <2>2. CASE UNCHANGED vars
    BY <2>2 DEF vars, reconstructor, feed, GapsInv
  <2> QED
    BY <2>1, <2>2, DeliverKeepsGapsInv, BootstrapKeepsGapsInv DEF Next
<1>3. TypeOK /\ GapsInv => OneGapPerQuarantine
  <2> SUFFICES ASSUME TypeOK, GapsInv
               PROVE  OneGapPerQuarantine
    OBVIOUS
  <2>1. CASE broken
    BY <2>1, CountsAreNat DEF GapsInv, OneGapPerQuarantine
  <2>2. CASE ~broken
    BY <2>2, CountsAreNat DEF GapsInv, OneGapPerQuarantine
  <2> QED
    BY <2>1, <2>2
<1> QED
  BY <1>1, <1>2, <1>3, TypeCorrect, PTL DEF Spec
=============================================================================
