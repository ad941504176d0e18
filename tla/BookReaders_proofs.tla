-------------------------- MODULE BookReaders_proofs --------------------------
(***************************************************************************)
(* Theorems about the three readers of a book stream, for every price      *)
(* grid, every history of the venue, every stream of diffs, snapshots and  *)
(* reconnects.                                                             *)
(***************************************************************************)
EXTENDS BookReaders, SequenceLemmas

Ids == 0..MaxId

\* The live book and reconstruct: their snapshots are the same, and while the live
\* book is not quarantined so are their books; reconstruct may have dropped its
\* baseline, which only makes it more patient.
LiveInv ==
    ~aborted =>
        /\ liveSnapshotId = recSnapshotId
        /\ ~liveBroken => /\ liveBook = recBook
                          /\ ~recBroken
                          /\ recLastId = None \/ recLastId = liveLastId

\* While BookTop may speak, nothing has happened yet that the readers take
\* differently.
AgreeInv == ReadersAgree /\ (~topBroken => ~topQuarantine)

\* While BookTop may speak, it stands at the last frame and has the venue's book
\* there; or a snapshot was refused, and then its baseline is behind the recorder's,
\* so that the next frame has a marker or is a jump.
ExactInv ==
    ~topBroken /\ topSnapshotId # None /\ ~spoiled =>
        /\ topSnapshotId \in Ids /\ topLastId \in Ids /\ previousLast \in Ids
        /\ delivered = previousLast
        /\ topSnapshotId <= topLastId
        /\ \/ topLastId = previousLast /\ topBook = Truth[topLastId]
           \/ topLastId < previousLast /\ previousLast < MaxId

\* A top is emitted from the book as it stands.
EmitInv ==
    emitted # None =>
        /\ ~topBroken
        /\ emitted = TopOf(topBook)
        /\ topSnapshotId # None /\ ~spoiled => topBook = Truth[topLastId]

TypeInv ==
    /\ delivered \in Ids
    /\ previousLast \in Ids \cup {None}
    /\ topSnapshotId \in Ids \cup {None}
    /\ topLastId \in Ids \cup {None}
    /\ liveBroken \in BOOLEAN /\ recBroken \in BOOLEAN
    /\ topQuarantine \in BOOLEAN /\ topBroken \in BOOLEAN
    /\ spoiled \in BOOLEAN /\ aborted \in BOOLEAN

Inv == TypeInv /\ LiveInv /\ AgreeInv /\ ExactInv /\ EmitInv

-----------------------------------------------------------------------------
(* What a walk over levels leaves behind.                                  *)

\* The last write to a price was accepted, and was to that price.
LEMMA LastWrite ==
    ASSUME NEW levels \in Seq(Level), NEW ok, NEW s, NEW p,
           Writes(levels, ok, s, p) # {}
    PROVE  LET m == Max(Writes(levels, ok, s, p))
           IN  /\ m \in DOMAIN levels
               /\ levels[m] \in ok
               /\ levels[m].side = s /\ levels[m].price = p
<1>1. Writes(levels, ok, s, p) \in SUBSET (1..Len(levels))
  BY DEF Writes, Walked
<1>2. Len(levels) \in Nat
  OBVIOUS
<1>3. Max(Writes(levels, ok, s, p)) \in Writes(levels, ok, s, p)
  BY <1>1, <1>2, GreatestIndex
<1> QED
  BY <1>3 DEF Writes, Walked

\* A walk that refuses negative quantities keeps a book a book.
LEMMA OverlayType ==
    ASSUME NEW b \in Book, NEW levels \in Seq(Level), NEW ok \in SUBSET Appliable
    PROVE  Overlay(b, levels, ok) \in Book
<1>1. ASSUME NEW s \in Sides, NEW p \in Prices, Writes(levels, ok, s, p) # {}
      PROVE  levels[Max(Writes(levels, ok, s, p))].quantity \in Quantities \cup {Absent}
  <2>1. levels[Max(Writes(levels, ok, s, p))] \in Appliable
    BY <1>1, LastWrite
  <2> QED
    BY <2>1 DEF Appliable, Level, Absent
<1>2. \A s \in Sides, p \in Prices : b[s][p] \in Quantities \cup {Absent}
  BY DEF Book
<1> QED
  BY <1>1, <1>2 DEF Overlay, Book

LEMMA AppliedBookType ==
    ASSUME NEW b \in Book, NEW levels \in Seq(Level)
    PROVE  AppliedBook(b, levels) \in Book
BY OverlayType DEF AppliedBook

\* A faithful event that follows on from, or overlaps, the id a book is exact
\* for makes it exact for the event's last id.
LEMMA FaithfulStep ==
    ASSUME NEW truth, NEW e, Faithful(truth, e), ApplyOk(e.diff),
           e.first \in Nat, e.last \in Nat, e.diff \in Seq(Level),
           NEW k \in Nat, e.first <= k + 1, k <= e.last,
           truth[k] \in Book, truth[e.last] \in Book
    PROVE  AppliedBook(truth[k], e.diff) = truth[e.last]
<1>1. k \in e.first - 1 .. e.last
  OBVIOUS
<1>2. \A i \in DOMAIN e.diff : e.diff[i] \in Appliable
  BY DEF ApplyOk, Accepted
<1>3. Walked(e.diff, Appliable) = DOMAIN e.diff
  BY <1>2 DEF Walked
<1>4. ASSUME NEW s \in Sides, NEW p \in Prices
      PROVE  AppliedBook(truth[k], e.diff)[s][p] = truth[e.last][s][p]
  <2> DEFINE W == Writes(e.diff, Appliable, s, p)
  <2>1. CASE W = {}
    <3>1. ~ \E i \in DOMAIN e.diff : e.diff[i].side = s /\ e.diff[i].price = p
      BY <2>1, <1>3 DEF Writes
    <3>2. truth[k][s][p] = truth[e.last][s][p]
      BY <3>1, <1>1 DEF Faithful
    <3> QED
      BY <2>1, <3>2 DEF AppliedBook, Overlay
  <2>2. CASE W # {}
    <3>1. /\ Max(W) \in DOMAIN e.diff
          /\ e.diff[Max(W)].side = s /\ e.diff[Max(W)].price = p
      BY <2>2, LastWrite
    <3>2. e.diff[Max(W)].quantity = truth[e.last][s][p]
      BY <3>1, <1>2 DEF Faithful
    <3> QED
      BY <2>2, <3>2 DEF AppliedBook, Overlay
  <2> QED
    BY <2>1, <2>2
<1>5. AppliedBook(truth[k], e.diff) \in Book
  BY AppliedBookType
<1> QED
  BY <1>4, <1>5 DEF Book

-----------------------------------------------------------------------------
(* Each reader's Reconstructor stores its book as OrderBook says, and goes *)
(* the same ways.                                                          *)

LEMMA LiveIsOrderBook ==
    /\ \A levels : Live!LoadOk(levels) <=> LoadOk(levels)
    /\ \A levels : Live!LoadedBook(levels) = LoadedBook(levels)
    /\ \A levels : Live!ApplyOk(levels) <=> ApplyOk(levels)
    /\ \A b, levels : Live!AppliedBook(b, levels) = AppliedBook(b, levels)
<1>1. Live!Storable = Storable /\ Live!Appliable = Appliable
  BY DEF Live!Storable, Storable, Live!Appliable, Appliable, Live!Level, Level, Live!Sides, Sides
<1>2. \A levels, ok : Live!Accepted(levels, ok) <=> Accepted(levels, ok)
  BY DEF Live!Accepted, Accepted
<1>3. \A b, levels, ok : Live!Overlay(b, levels, ok) = Overlay(b, levels, ok)
  BY DEF Live!Overlay, Overlay, Live!Writes, Writes, Live!Walked, Walked, Live!Sides, Sides,
         Live!Max, Max
<1>4. \A b : Live!IsCrossed(b) <=> IsCrossed(b)
  BY DEF Live!IsCrossed, IsCrossed, Live!Quoted, Quoted, Live!BestPrice, BestPrice,
         Live!Sides, Sides, Live!Absent, Absent, Live!Max, Max, Live!Min, Min
<1>5. Live!EmptyBook = EmptyBook
  BY DEF Live!EmptyBook, EmptyBook, Live!Sides, Sides, Live!Absent, Absent
<1> QED
  BY <1>1, <1>2, <1>3, <1>4, <1>5
  DEF Live!LoadOk, LoadOk, Live!LoadedBook, LoadedBook, Live!ApplyOk, ApplyOk,
      Live!AppliedBook, AppliedBook

LEMMA RecIsOrderBook ==
    /\ \A levels : Rec!LoadOk(levels) <=> LoadOk(levels)
    /\ \A levels : Rec!LoadedBook(levels) = LoadedBook(levels)
    /\ \A levels : Rec!ApplyOk(levels) <=> ApplyOk(levels)
    /\ \A b, levels : Rec!AppliedBook(b, levels) = AppliedBook(b, levels)
<1>1. Rec!Storable = Storable /\ Rec!Appliable = Appliable
  BY DEF Rec!Storable, Storable, Rec!Appliable, Appliable, Rec!Level, Level, Rec!Sides, Sides
<1>2. \A levels, ok : Rec!Accepted(levels, ok) <=> Accepted(levels, ok)
  BY DEF Rec!Accepted, Accepted
<1>3. \A b, levels, ok : Rec!Overlay(b, levels, ok) = Overlay(b, levels, ok)
  BY DEF Rec!Overlay, Overlay, Rec!Writes, Writes, Rec!Walked, Walked, Rec!Sides, Sides,
         Rec!Max, Max
<1>4. \A b : Rec!IsCrossed(b) <=> IsCrossed(b)
  BY DEF Rec!IsCrossed, IsCrossed, Rec!Quoted, Quoted, Rec!BestPrice, BestPrice,
         Rec!Sides, Sides, Rec!Absent, Absent, Rec!Max, Max, Rec!Min, Min
<1>5. Rec!EmptyBook = EmptyBook
  BY DEF Rec!EmptyBook, EmptyBook, Rec!Sides, Sides, Rec!Absent, Absent
<1> QED
  BY <1>1, <1>2, <1>3, <1>4, <1>5
  DEF Rec!LoadOk, LoadOk, Rec!LoadedBook, LoadedBook, Rec!ApplyOk, ApplyOk,
      Rec!AppliedBook, AppliedBook

LEMMA TopIsOrderBook ==
    /\ \A levels : Top!LoadOk(levels) <=> LoadOk(levels)
    /\ \A levels : Top!LoadedBook(levels) = LoadedBook(levels)
    /\ \A levels : Top!ApplyOk(levels) <=> ApplyOk(levels)
    /\ \A b, levels : Top!AppliedBook(b, levels) = AppliedBook(b, levels)
<1>1. Top!Storable = Storable /\ Top!Appliable = Appliable
  BY DEF Top!Storable, Storable, Top!Appliable, Appliable, Top!Level, Level, Top!Sides, Sides
<1>2. \A levels, ok : Top!Accepted(levels, ok) <=> Accepted(levels, ok)
  BY DEF Top!Accepted, Accepted
<1>3. \A b, levels, ok : Top!Overlay(b, levels, ok) = Overlay(b, levels, ok)
  BY DEF Top!Overlay, Overlay, Top!Writes, Writes, Top!Walked, Walked, Top!Sides, Sides,
         Top!Max, Max
<1>4. \A b : Top!IsCrossed(b) <=> IsCrossed(b)
  BY DEF Top!IsCrossed, IsCrossed, Top!Quoted, Quoted, Top!BestPrice, BestPrice,
         Top!Sides, Sides, Top!Absent, Absent, Top!Max, Max, Top!Min, Min
<1>5. Top!EmptyBook = EmptyBook
  BY DEF Top!EmptyBook, EmptyBook, Top!Sides, Sides, Top!Absent, Absent
<1> QED
  BY <1>1, <1>2, <1>3, <1>4, <1>5
  DEF Top!LoadOk, LoadOk, Top!LoadedBook, LoadedBook, Top!ApplyOk, ApplyOk,
      Top!AppliedBook, AppliedBook

-----------------------------------------------------------------------------
Covered(snapshot, e) == snapshot # None /\ e.last <= snapshot
Jumps(last, e) == last # None /\ last < MaxId /\ e.first > last + 1

(* What a snapshot and a diff do to each reader.                           *)

LEMMA LiveLoads ==
    ASSUME NEW s, Live!LoadSnapshot(s)
    PROVE  /\ liveBook' = LoadedBook(s.levels)
           /\ LoadOk(s.levels) =>
                  liveSnapshotId' = s.last_update_id /\ liveLastId' = s.last_update_id /\ liveBroken' = FALSE
           /\ ~LoadOk(s.levels) => UNCHANGED <<liveSnapshotId, liveLastId, liveBroken>>
BY LiveIsOrderBook DEF Live!LoadSnapshot, Live!AcceptSnapshot, Live!RefuseSnapshot

LEMMA LiveApplies ==
    ASSUME NEW e, Live!ApplyEvent(e)
    PROVE  /\ liveSnapshotId' = liveSnapshotId
           /\ liveBroken \/ Covered(liveSnapshotId, e) => UNCHANGED <<liveBook, liveLastId, liveBroken>>
           /\ ~liveBroken /\ ~Covered(liveSnapshotId, e) /\ Jumps(liveLastId, e) =>
                  liveBroken' = TRUE /\ UNCHANGED <<liveBook, liveLastId>>
           /\ ~liveBroken /\ ~Covered(liveSnapshotId, e) /\ ~Jumps(liveLastId, e) =>
                  /\ liveBook' = AppliedBook(liveBook, e.diff)
                  /\ liveLastId' = IF ApplyOk(e.diff) THEN e.last ELSE liveLastId
                  /\ liveBroken' = liveBroken
BY LiveIsOrderBook DEF Live!ApplyEvent, Live!RejectEvent, Live!SkipEvent, Live!BreakOnEvent, Live!RefuseEvent,
   Live!TakeEvent, Live!Reaches, Live!BeforeSnapshot, Live!JumpsAhead, Covered, Jumps

LEMMA RecLoads ==
    ASSUME NEW s, Rec!LoadSnapshot(s)
    PROVE  /\ recBook' = LoadedBook(s.levels)
           /\ LoadOk(s.levels) =>
                  recSnapshotId' = s.last_update_id /\ recLastId' = s.last_update_id /\ recBroken' = FALSE
           /\ ~LoadOk(s.levels) => UNCHANGED <<recSnapshotId, recLastId, recBroken>>
BY RecIsOrderBook DEF Rec!LoadSnapshot, Rec!AcceptSnapshot, Rec!RefuseSnapshot

LEMMA RecApplies ==
    ASSUME NEW e, Rec!ApplyEvent(e)
    PROVE  /\ recSnapshotId' = recSnapshotId
           /\ recBroken \/ Covered(recSnapshotId, e) => UNCHANGED <<recBook, recLastId, recBroken>>
           /\ ~recBroken /\ ~Covered(recSnapshotId, e) /\ Jumps(recLastId, e) =>
                  recBroken' = TRUE /\ UNCHANGED <<recBook, recLastId>>
           /\ ~recBroken /\ ~Covered(recSnapshotId, e) /\ ~Jumps(recLastId, e) =>
                  /\ recBook' = AppliedBook(recBook, e.diff)
                  /\ recLastId' = IF ApplyOk(e.diff) THEN e.last ELSE recLastId
                  /\ recBroken' = recBroken
BY RecIsOrderBook DEF Rec!ApplyEvent, Rec!RejectEvent, Rec!SkipEvent, Rec!BreakOnEvent, Rec!RefuseEvent,
   Rec!TakeEvent, Rec!Reaches, Rec!BeforeSnapshot, Rec!JumpsAhead, Covered, Jumps

LEMMA TopLoads ==
    ASSUME NEW s, Top!LoadSnapshot(s)
    PROVE  /\ topBook' = LoadedBook(s.levels)
           /\ LoadOk(s.levels) =>
                  topSnapshotId' = s.last_update_id /\ topLastId' = s.last_update_id /\ topQuarantine' = FALSE
           /\ ~LoadOk(s.levels) => UNCHANGED <<topSnapshotId, topLastId, topQuarantine>>
BY TopIsOrderBook DEF Top!LoadSnapshot, Top!AcceptSnapshot, Top!RefuseSnapshot

LEMMA TopApplies ==
    ASSUME NEW e, Top!ApplyEvent(e)
    PROVE  /\ topSnapshotId' = topSnapshotId
           /\ topQuarantine \/ Covered(topSnapshotId, e) => UNCHANGED <<topBook, topLastId, topQuarantine>>
           /\ ~topQuarantine /\ ~Covered(topSnapshotId, e) /\ Jumps(topLastId, e) =>
                  topQuarantine' = TRUE /\ UNCHANGED <<topBook, topLastId>>
           /\ ~topQuarantine /\ ~Covered(topSnapshotId, e) /\ ~Jumps(topLastId, e) =>
                  /\ topBook' = AppliedBook(topBook, e.diff)
                  /\ topLastId' = IF ApplyOk(e.diff) THEN e.last ELSE topLastId
                  /\ topQuarantine' = topQuarantine
BY TopIsOrderBook DEF Top!ApplyEvent, Top!RejectEvent, Top!SkipEvent, Top!BreakOnEvent, Top!RefuseEvent,
   Top!TakeEvent, Top!Reaches, Top!BeforeSnapshot, Top!JumpsAhead, Covered, Jumps

-----------------------------------------------------------------------------
LEMMA EventType ==
    ASSUME NEW e \in Events
    PROVE  /\ e.first \in Nat /\ e.last \in Nat /\ e.last \in Ids
           /\ e.first >= 1 /\ e.first <= e.last
           /\ e.diff \in Seq(Level) /\ Faithful(Truth, e)
<1>1. e \in Live!Event /\ Faithful(Truth, e) /\ MaxId \in Nat
  BY ReadersAssumption
<1>2. Live!Level = Level
  BY DEF Live!Level, Level, Live!Sides, Sides
<1> QED
  BY <1>1, <1>2 DEF Live!Event, Live!Ids, Ids, Faithful

LEMMA SnapshotType ==
    ASSUME NEW s \in Snapshots
    PROVE  /\ s.last_update_id \in Ids /\ s.last_update_id \in Nat
           /\ LoadOk(s.levels) => LoadedBook(s.levels) = Truth[s.last_update_id]
           /\ ~LoadOk(s.levels) => s.last_update_id < MaxId
BY ReadersAssumption DEF Live!Snapshot, Live!Ids, Ids

LEMMA IdType ==
    /\ MaxId \in Nat /\ None \notin Ids /\ 0 \in Ids
    /\ \A i \in Ids : i \in Nat /\ i <= MaxId /\ Truth[i] \in Book
BY ReadersAssumption DEF Ids

LEMMA InitInv == Init => Inv
<1> SUFFICES ASSUME Init
    PROVE  Inv
  OBVIOUS
<1>1. /\ liveBook = recBook /\ topBook = recBook
      /\ liveSnapshotId = None /\ recSnapshotId = None /\ topSnapshotId = None
      /\ liveLastId = None /\ recLastId = None /\ topLastId = None
      /\ liveBroken = FALSE /\ recBroken = FALSE /\ topQuarantine = FALSE
  BY DEF Init, Live!ReconstructorInit, Rec!ReconstructorInit, Top!ReconstructorInit,
         Live!EmptyBook, Rec!EmptyBook, Top!EmptyBook, Live!Sides, Rec!Sides, Top!Sides,
         Live!Absent, Rec!Absent, Top!Absent
<1>2. TypeInv
  BY <1>1, IdType DEF Init, TypeInv
<1>3. LiveInv /\ AgreeInv
  BY <1>1 DEF LiveInv, AgreeInv, ReadersAgree
<1>4. ExactInv /\ EmitInv
  BY <1>1 DEF Init, ExactInv, EmitInv
<1> QED
  BY <1>2, <1>3, <1>4 DEF Inv

-----------------------------------------------------------------------------
LEMMA DiffInv ==
    ASSUME Inv, NEW e \in Events, Diff(e)
    PROVE  Inv'
<1>1. /\ e.last \in Ids /\ e.last >= delivered
      /\ delivered' = e.last /\ previousLast' = e.last
  BY EventType DEF Diff
<1>2. aborted' = aborted /\ Live!ApplyEvent(e)
  BY DEF Diff, RecDiff, LiveDiff
<1>3. ~aborted => Rec!ApplyEvent(e)
  BY DEF Diff, RecDiff
<1>4. \/ /\ TopSilenced(Marked(e.first)) /\ topBroken' = TRUE /\ emitted' = None
         /\ UNCHANGED <<topBook, topSnapshotId, topLastId, topQuarantine, spoiled>>
      \/ /\ ~topBroken /\ ~Marked(e.first)
         /\ Top!ApplyEvent(e)
         /\ spoiled' = (spoiled \/ (Top!Reaches(e) /\ ~ApplyOk(e.diff)))
         /\ topBroken' = topQuarantine'
         /\ emitted' = IF topQuarantine' THEN None ELSE TopOf(topBook')
  BY DEF Diff, TopDiff, TopSilenced, top
<1>5. TypeInv'
  <2>1. topQuarantine \in BOOLEAN /\ topQuarantine' \in BOOLEAN
    <3>1. CASE Top!ApplyEvent(e)
      BY <3>1, TopApplies DEF Inv, TypeInv
    <3> QED
      BY <1>4, <3>1 DEF Inv, TypeInv
  <2>2. topLastId' \in Ids \cup {None} /\ topSnapshotId' \in Ids \cup {None}
    <3>1. CASE Top!ApplyEvent(e)
      <4>1. topSnapshotId' = topSnapshotId /\ topLastId' \in {topLastId, e.last}
        BY <3>1, TopApplies DEF Inv, TypeInv
      <4> QED
        BY <1>1, <4>1 DEF Inv, TypeInv
    <3> QED
      BY <1>4, <3>1 DEF Inv, TypeInv
  <2>3. liveBroken' \in BOOLEAN
    BY <1>2, LiveApplies DEF Inv, TypeInv
  <2>4. recBroken' \in BOOLEAN
    <3>1. CASE aborted
      BY <3>1 DEF Diff, RecDiff, rec, Inv, TypeInv
    <3>2. CASE ~aborted
      BY <1>3, <3>2, RecApplies DEF Inv, TypeInv
    <3> QED
      BY <3>1, <3>2
  <2>5. topBroken' \in BOOLEAN
    BY <1>4, <2>1
  <2>6. spoiled' \in BOOLEAN
    BY <1>4 DEF Inv, TypeInv
  <2> QED
    BY <1>1, <1>2, <2>1, <2>2, <2>3, <2>4, <2>5, <2>6 DEF Inv, TypeInv
<1>6. LiveInv'
  <2> SUFFICES ASSUME ~aborted
      PROVE  /\ liveSnapshotId' = recSnapshotId'
             /\ ~liveBroken' => /\ liveBook' = recBook'
                                /\ ~recBroken'
                                /\ recLastId' = None \/ recLastId' = liveLastId'
    BY <1>2 DEF LiveInv
  <2>1. liveSnapshotId' = recSnapshotId'
    BY <1>2, <1>3, LiveApplies, RecApplies DEF Inv, LiveInv
  <2>2. ASSUME ~liveBroken'
        PROVE  /\ liveBook' = recBook' /\ ~recBroken'
               /\ recLastId' = None \/ recLastId' = liveLastId'
    <3>1. ~liveBroken /\ (~Covered(liveSnapshotId, e) => ~Jumps(liveLastId, e))
      <4>1. liveBroken \in BOOLEAN
        BY DEF Inv, TypeInv
      <4>2. ~liveBroken
        BY <1>2, <2>2, <4>1, LiveApplies
      <4> QED
        BY <1>2, <2>2, <4>2, LiveApplies
    <3>2. /\ liveBook = recBook /\ ~recBroken /\ liveSnapshotId = recSnapshotId
          /\ recLastId = None \/ recLastId = liveLastId
      BY <3>1 DEF Inv, LiveInv
    <3>3. Jumps(recLastId, e) => Jumps(liveLastId, e)
      BY <3>2 DEF Jumps
    <3>4. CASE Covered(liveSnapshotId, e)
      BY <1>2, <1>3, <3>2, <3>4, LiveApplies, RecApplies
    <3>5. CASE ~Covered(liveSnapshotId, e)
      <4>1. liveBook' = AppliedBook(liveBook, e.diff) /\ recBook' = AppliedBook(recBook, e.diff)
        BY <1>2, <1>3, <3>1, <3>2, <3>3, <3>5, LiveApplies, RecApplies
      <4>2. recBroken' = recBroken
        BY <1>3, <3>1, <3>2, <3>3, <3>5, RecApplies
      <4>3. /\ liveLastId' = IF ApplyOk(e.diff) THEN e.last ELSE liveLastId
            /\ recLastId' = IF ApplyOk(e.diff) THEN e.last ELSE recLastId
        BY <1>2, <1>3, <3>1, <3>2, <3>3, <3>5, LiveApplies, RecApplies
      <4> QED
        BY <3>2, <4>1, <4>2, <4>3
    <3> QED
      BY <3>4, <3>5
  <2> QED
    BY <2>1, <2>2
<1>7. AgreeInv'
  <2>1. CASE topBroken'
    BY <2>1 DEF AgreeInv, ReadersAgree
  <2>2. CASE ~topBroken'
    <3>1. /\ ~topBroken /\ Top!ApplyEvent(e) /\ ~topQuarantine' /\ ~topQuarantine
          /\ topBroken' = topQuarantine'
      BY <1>4, <2>2 DEF Inv, AgreeInv
    <3>2. Covered(topSnapshotId, e) \/ ~Jumps(topLastId, e)
      BY <3>1, TopApplies
    <3>3. ASSUME ~aborted
          PROVE  /\ <<topBook, topSnapshotId, topLastId>>' = <<recBook, recSnapshotId, recLastId>>'
                 /\ <<topBook, topSnapshotId, topLastId>>' = <<liveBook, liveSnapshotId, liveLastId>>'
                 /\ ~recBroken' /\ ~liveBroken'
      <4>1. /\ topBook = recBook /\ topSnapshotId = recSnapshotId /\ topLastId = recLastId
            /\ topBook = liveBook /\ topSnapshotId = liveSnapshotId /\ topLastId = liveLastId
            /\ ~recBroken /\ ~liveBroken
        BY <3>1, <3>3 DEF Inv, AgreeInv, ReadersAgree
      <4>2. CASE Covered(topSnapshotId, e)
        BY <1>2, <1>3, <3>1, <3>3, <4>1, <4>2, TopApplies, RecApplies, LiveApplies
      <4>3. CASE ~Covered(topSnapshotId, e)
        <5>1. ~Jumps(topLastId, e)
          BY <3>2, <4>3
        <5>2. /\ topBook' = AppliedBook(topBook, e.diff) /\ topSnapshotId' = topSnapshotId
              /\ topLastId' = IF ApplyOk(e.diff) THEN e.last ELSE topLastId
          BY <3>1, <4>3, <5>1, TopApplies
        <5>3. /\ recBook' = AppliedBook(topBook, e.diff) /\ recSnapshotId' = topSnapshotId
              /\ recLastId' = IF ApplyOk(e.diff) THEN e.last ELSE topLastId
              /\ ~recBroken'
          BY <1>3, <3>3, <4>1, <4>3, <5>1, RecApplies
        <5>4. /\ liveBook' = AppliedBook(topBook, e.diff) /\ liveSnapshotId' = topSnapshotId
              /\ liveLastId' = IF ApplyOk(e.diff) THEN e.last ELSE topLastId
              /\ ~liveBroken'
          BY <1>2, <4>1, <4>3, <5>1, LiveApplies
        <5> QED
          BY <5>2, <5>3, <5>4
      <4> QED
        BY <4>2, <4>3
    <3> QED
      BY <1>2, <3>1, <3>3 DEF AgreeInv, ReadersAgree
  <2> QED
    BY <2>1, <2>2
<1>8. ExactInv' /\ EmitInv'
  <2>1. CASE topBroken'
    BY <1>4, <2>1 DEF ExactInv, EmitInv
  <2>2. CASE ~topBroken'
    <3>1. /\ ~topBroken /\ ~Marked(e.first) /\ Top!ApplyEvent(e)
          /\ ~topQuarantine' /\ ~topQuarantine
          /\ emitted' = TopOf(topBook') /\ topSnapshotId' = topSnapshotId
          /\ spoiled' = (spoiled \/ (Top!Reaches(e) /\ ~ApplyOk(e.diff)))
      <4>1. ~topBroken /\ Top!ApplyEvent(e)
        BY <1>4, <2>2
      <4>2. topSnapshotId' = topSnapshotId
        BY <4>1, TopApplies
      <4>3. ~topQuarantine
        BY <4>1 DEF Inv, AgreeInv
      <4>4. ~topQuarantine'
        BY <1>4, <2>2
      <4> QED
        BY <1>4, <2>2, <4>1, <4>2, <4>3, <4>4
    <3>2. SUFFICES ASSUME topSnapshotId # None, ~spoiled'
          PROVE  /\ topLastId' \in Ids /\ topSnapshotId <= topLastId'
                 /\ topLastId' = e.last /\ topBook' = Truth[topLastId']
                 /\ topSnapshotId \in Ids
      BY <1>1, <2>2, <3>1 DEF ExactInv, EmitInv
    <3>3. /\ topSnapshotId \in Ids /\ topLastId \in Ids /\ previousLast \in Ids
          /\ delivered = previousLast /\ topSnapshotId <= topLastId
          /\ \/ topLastId = previousLast /\ topBook = Truth[topLastId]
             \/ topLastId < previousLast /\ previousLast < MaxId
      BY <3>1, <3>2 DEF Inv, ExactInv
    <3>4. /\ topSnapshotId \in Nat /\ topLastId \in Nat /\ previousLast \in Nat
          /\ e.first \in Nat /\ e.last \in Nat /\ MaxId \in Nat /\ e.first <= e.last
          /\ topLastId # None /\ previousLast # None /\ e.last <= MaxId
      BY <1>1, <3>3, IdType, EventType
    <3>5. Covered(topSnapshotId, e) \/ ~Jumps(topLastId, e)
      BY <3>1, TopApplies
    <3>6. CASE Covered(topSnapshotId, e)
      <4>1. UNCHANGED <<topBook, topLastId>> /\ e.last <= topSnapshotId
        BY <3>1, <3>6, TopApplies DEF Covered
      <4>2. topLastId = previousLast /\ topBook = Truth[topLastId] /\ topLastId = e.last
        BY <1>1, <3>3, <3>4, <4>1
      <4> QED
        BY <3>3, <4>1, <4>2
    <3>7. CASE ~Covered(topSnapshotId, e)
      <4>1. ~Jumps(topLastId, e)
        BY <3>5, <3>7
      <4>2. e.last > topSnapshotId
        BY <3>2, <3>4, <3>7 DEF Covered
      <4>3. ApplyOk(e.diff)
        BY <3>1, <3>2, <3>7, <4>1
        DEF Top!Reaches, Top!BeforeSnapshot, Top!JumpsAhead, Covered, Jumps
      <4>4. topBook' = AppliedBook(topBook, e.diff) /\ topLastId' = e.last
        BY <3>1, <3>7, <4>1, <4>3, TopApplies
      <4>5. e.first <= topLastId + 1
        BY <3>4, <4>1 DEF Jumps
      <4>6. topLastId = previousLast /\ topBook = Truth[topLastId]
        <5>1. CASE topLastId < previousLast /\ previousLast < MaxId
          <6>1. e.first = previousLast + 1
            BY <3>1, <3>4, <5>1 DEF Marked
          <6> QED
            BY <3>4, <4>5, <5>1, <6>1
        <5> QED
          BY <3>3, <5>1
      <4>7. topLastId <= e.last
        BY <1>1, <3>3, <4>6
      <4>8. topBook' = Truth[e.last]
        <5>1. Faithful(Truth, e) /\ e.diff \in Seq(Level)
              /\ Truth[topLastId] \in Book /\ Truth[e.last] \in Book
          BY <1>1, <3>3, EventType, IdType
        <5> QED
          BY <3>4, <4>3, <4>4, <4>5, <4>6, <4>7, <5>1, FaithfulStep
      <4> QED
        BY <1>1, <3>3, <3>4, <4>2, <4>4, <4>8
    <3> QED
      BY <3>6, <3>7
  <2> QED
    BY <1>5, <2>1, <2>2
<1> QED
  BY <1>5, <1>6, <1>7, <1>8 DEF Inv

-----------------------------------------------------------------------------
LEMMA SnapshotInv ==
    ASSUME Inv, NEW s \in Snapshots, Snapshot(s)
    PROVE  Inv'
<1>1. /\ s.last_update_id \in Ids /\ s.last_update_id \in Nat /\ s.last_update_id >= delivered
      /\ delivered' = s.last_update_id /\ previousLast' = s.last_update_id
  BY SnapshotType DEF Snapshot
<1>2. Live!LoadSnapshot(s) /\ Top!LoadSnapshot(s)
  BY DEF Snapshot, LiveSnapshot, TopSnapshot
<1>3. /\ ~aborted => Rec!LoadSnapshot(s) /\ aborted' = ~LoadOk(s.levels)
      /\ aborted => aborted' /\ UNCHANGED <<recBook, recSnapshotId, recLastId, recBroken>>
  BY DEF Snapshot, RecSnapshot, rec
<1>4. /\ topBroken' = ((topBroken \/ Marked(s.last_update_id)) /\ ~LoadOk(s.levels))
      /\ emitted' = IF LoadOk(s.levels) THEN TopOf(topBook') ELSE None
      /\ spoiled' = (spoiled /\ ~LoadOk(s.levels))
  BY DEF Snapshot, TopSnapshot, TopSilenced
<1>5. TypeInv'
  <2>1. topQuarantine' \in BOOLEAN /\ topSnapshotId' \in Ids \cup {None} /\ topLastId' \in Ids \cup {None}
    BY <1>1, <1>2, TopLoads DEF Inv, TypeInv
  <2>2. aborted' \in BOOLEAN
    BY <1>3 DEF Inv, TypeInv
  <2>3. liveBroken' \in BOOLEAN
    BY <1>2, LiveLoads DEF Inv, TypeInv
  <2>4. recBroken' \in BOOLEAN
    BY <1>3, RecLoads DEF Inv, TypeInv
  <2>5. topBroken' \in BOOLEAN /\ spoiled' \in BOOLEAN
    BY <1>4
  <2> QED
    BY <1>1, <2>1, <2>2, <2>3, <2>4, <2>5 DEF Inv, TypeInv
<1>6. CASE LoadOk(s.levels)
  <2>1. /\ topBook' = LoadedBook(s.levels) /\ topSnapshotId' = s.last_update_id
        /\ topLastId' = s.last_update_id /\ topQuarantine' = FALSE
        /\ liveBook' = LoadedBook(s.levels) /\ liveSnapshotId' = s.last_update_id
        /\ liveLastId' = s.last_update_id /\ liveBroken' = FALSE
    BY <1>2, <1>6, TopLoads, LiveLoads
  <2>2. ~aborted' => /\ recBook' = LoadedBook(s.levels) /\ recSnapshotId' = s.last_update_id
                     /\ recLastId' = s.last_update_id /\ recBroken' = FALSE
    BY <1>3, <1>6, RecLoads
  <2>3. LiveInv'
    BY <2>1, <2>2 DEF LiveInv
  <2>4. AgreeInv'
    BY <2>1, <2>2 DEF AgreeInv, ReadersAgree
  <2>5. topBook' = Truth[topLastId'] /\ topBroken' = FALSE /\ emitted' = TopOf(topBook')
    BY <1>4, <1>6, <2>1, SnapshotType
  <2>6. ExactInv' /\ EmitInv'
    BY <1>1, <2>1, <2>5 DEF ExactInv, EmitInv
  <2> QED
    BY <1>5, <2>3, <2>4, <2>6 DEF Inv
<1>7. CASE ~LoadOk(s.levels)
  <2>1. UNCHANGED <<topSnapshotId, topLastId, topQuarantine>> /\ emitted' = None /\ aborted'
    BY <1>2, <1>3, <1>4, <1>7, TopLoads
  <2>2. LiveInv'
    BY <2>1 DEF LiveInv
  <2>3. AgreeInv'
    BY <1>4, <1>7, <2>1 DEF Inv, AgreeInv, ReadersAgree
  <2>4. ExactInv'
    <3> SUFFICES ASSUME ~topBroken', topSnapshotId' # None, ~spoiled'
        PROVE  /\ topSnapshotId \in Ids /\ topLastId \in Ids /\ topSnapshotId <= topLastId
               /\ topLastId < s.last_update_id /\ s.last_update_id < MaxId
      BY <1>1, <2>1 DEF ExactInv
    <3>1. /\ topSnapshotId \in Ids /\ topLastId \in Ids /\ previousLast \in Ids
          /\ delivered = previousLast /\ topSnapshotId <= topLastId /\ topLastId <= previousLast
          /\ ~Marked(s.last_update_id)
      <4>1. ~topBroken /\ ~Marked(s.last_update_id) /\ ~spoiled
        BY <1>4, <1>7
      <4>2. topSnapshotId # None
        BY <2>1
      <4>3. ExactInv
        BY DEF Inv
      <4>4. \A i \in Ids : i \in Nat
        BY IdType
      <4> QED
        BY <4>1, <4>2, <4>3, <4>4 DEF ExactInv
    <3>2. s.last_update_id < MaxId
      BY <1>7, SnapshotType
    <3>3. previousLast # None /\ previousLast < MaxId
      BY <1>1, <3>1, <3>2, IdType
    <3>4. s.last_update_id = previousLast + 1
      BY <3>1, <3>3 DEF Marked
    <3> QED
      BY <3>1, <3>2, <3>4, IdType
  <2>5. EmitInv'
    BY <2>1 DEF EmitInv
  <2> QED
    BY <1>5, <2>2, <2>3, <2>4, <2>5 DEF Inv
<1> QED
  BY <1>6, <1>7

LEMMA ReconnectInv ==
    ASSUME Inv, Reconnect
    PROVE  Inv'
<1>1. /\ delivered' = 0 /\ previousLast' = None /\ topBroken' = TRUE /\ emitted' = None
      /\ aborted' = aborted
      /\ UNCHANGED <<liveBook, liveSnapshotId, liveLastId, liveBroken>>
      /\ UNCHANGED <<topSnapshotId, topLastId, topQuarantine, spoiled>>
  BY DEF Reconnect, TopConnectionGap, RecConnectionGap, live, top
<1>2. ~aborted => recLastId' = None /\ UNCHANGED <<recBook, recSnapshotId, recBroken>>
  BY DEF Reconnect, RecConnectionGap, Rec!ResetSequence
<1>3. TypeInv'
  <2>1. recBroken' \in BOOLEAN
    BY DEF Reconnect, RecConnectionGap, Rec!ResetSequence, rec, Inv, TypeInv
  <2>2. liveBroken' \in BOOLEAN /\ topQuarantine' \in BOOLEAN /\ topBroken' \in BOOLEAN
        /\ spoiled' \in BOOLEAN /\ aborted' \in BOOLEAN
    BY <1>1 DEF Inv, TypeInv
  <2> QED
    BY <1>1, <2>1, <2>2, IdType DEF Inv, TypeInv
<1>4. LiveInv'
  BY <1>1, <1>2 DEF Inv, LiveInv
<1>5. AgreeInv' /\ ExactInv' /\ EmitInv'
  BY <1>1 DEF AgreeInv, ReadersAgree, ExactInv, EmitInv
<1> QED
  BY <1>3, <1>4, <1>5 DEF Inv

LEMMA NextInv == Inv /\ [Next]_vars => Inv'
<1> SUFFICES ASSUME Inv, [Next]_vars
    PROVE  Inv'
  OBVIOUS
<1>1. CASE UNCHANGED vars
  <2>1. UNCHANGED <<delivered, previousLast, aborted, topBroken, emitted, spoiled>>
    BY <1>1 DEF vars
  <2>2. /\ UNCHANGED <<liveBook, liveSnapshotId, liveLastId, liveBroken>>
        /\ UNCHANGED <<recBook, recSnapshotId, recLastId, recBroken>>
        /\ UNCHANGED <<topBook, topSnapshotId, topLastId, topQuarantine>>
    BY <1>1 DEF vars, live, rec, top
  <2> QED
    BY <2>1, <2>2 DEF Inv, TypeInv, LiveInv, AgreeInv, ReadersAgree, ExactInv, EmitInv
<1> QED
  BY <1>1, DiffInv, SnapshotInv, ReconnectInv DEF Next

-----------------------------------------------------------------------------
\* BookTop never quotes anything but the venue's own top, whatever was lost, repeated
\* or refused and however often the connection was made again.
THEOREM EmittedTopIsTheVenuesTheorem == Spec => []EmittedTopIsTheVenues
<1>1. Inv => EmittedTopIsTheVenues
  BY DEF Inv, EmitInv, EmittedTopIsTheVenues
<1> QED
  BY InitInv, NextInv, <1>1, PTL DEF Spec

\* While BookTop may speak, the live book, reconstruct and BookTop have one book at
\* one id.
THEOREM ReadersAgreeTheorem == Spec => []ReadersAgree
<1>1. Inv => ReadersAgree
  BY DEF Inv, AgreeInv
<1> QED
  BY InitInv, NextInv, <1>1, PTL DEF Spec

\* The live book of the capture is quarantined whenever reconstruct is, and while it
\* is not the two books are the same.
THEOREM LiveIsStricterTheorem == Spec => []LiveIsStricter
<1>1. Inv => LiveIsStricter
  BY DEF Inv, LiveInv, LiveIsStricter
<1> QED
  BY InitInv, NextInv, <1>1, PTL DEF Spec
=============================================================================
