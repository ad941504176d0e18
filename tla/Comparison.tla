----------------------------- MODULE Comparison -----------------------------
(***************************************************************************)
(* astra-record reconstruct (crates/astra-record/src/reconstruct.rs) and   *)
(* verify (compare.rs).  The first builds the book of a capture; the       *)
(* second holds it against the snapshots of another capture, at the update *)
(* ids those were taken at.                                                *)
(*                                                                         *)
(* Both are functions of what is on disk, so their loops over records,     *)
(* references and events are functions here, and so is apply_event.        *)
(***************************************************************************)
EXTENDS OrderBookLoop, SequencesExt, Feed, Sorting

CONSTANT MaxId  \* u64::MAX

-----------------------------------------------------------------------------
\* A Reconstructor, with how often it returned what; failed is its last call's Err.
Outcomes == {"applied", "skipped", "gap", "rejected", "invalid"}

Fresh ==
    [book |-> EmptyBook, snapshotId |-> None, lastUpdateId |-> None, broken |-> FALSE,
     failed |-> FALSE, returned |-> [o \in Outcomes |-> 0]]

\* load_snapshot.
LoadSnapshot(r, snapshot) ==
    LET load == LoadLoop(snapshot.levels)
    IN  IF ~load.ok THEN [r EXCEPT !.book = load.book, !.failed = TRUE]
        ELSE [r EXCEPT !.book = load.book, !.snapshotId = snapshot.last_update_id,
                       !.lastUpdateId = snapshot.last_update_id, !.broken = FALSE]

\* apply_event's tests, in their order.
OutcomeOf(r, event) ==
    IF r.broken THEN "rejected"
    ELSE IF r.snapshotId # None /\ event.last <= r.snapshotId THEN "skipped"
    ELSE IF r.lastUpdateId # None /\ r.lastUpdateId < MaxId /\ event.first > r.lastUpdateId + 1 THEN "gap"
    ELSE IF ApplyLoop(r.book, event.diff).ok THEN "applied"
    ELSE "invalid"

ApplyEvent(r, event) ==
    LET o == OutcomeOf(r, event)
        counted == [r EXCEPT !.returned[o] = @ + 1, !.broken = @ \/ o = "gap", !.failed = (o = "invalid")]
    IN  IF o \in {"applied", "invalid"}
        THEN [counted EXCEPT !.book = ApplyLoop(@, event.diff).book,
                             !.lastUpdateId = IF o = "applied" THEN event.last ELSE @]
        ELSE counted

-----------------------------------------------------------------------------
\* OrderBook::levels: the best levels of a side.
Better(s, p, q) == IF s = "bid" THEN p > q ELSE p < q
Levels(book, s, limit) ==
    LET prices == Sorted([p \in Quoted(book, s) |-> {q \in Quoted(book, s) : Better(s, q, p)}])
    IN  [i \in 1..Min({limit, Len(prices)}) |->
            [side |-> s, price |-> prices[i], quantity |-> book[s][prices[i]]]]

\* What a side of a message lists, best first; the sort keeps the order of equals.
ListedBefore(s, levels, i, j) ==
    \/ Better(s, levels[i].price, levels[j].price)
    \/ levels[i].price = levels[j].price /\ i < j
Listed(levels, s) ==
    LET side == {i \in DOMAIN levels : levels[i].side = s}
        order == Sorted([i \in side |-> {j \in side : ListedBefore(s, levels, j, i)}])
    IN  [i \in DOMAIN order |-> levels[order[i]]]
Truncated(seq, limit) == SubSeq(seq, 1, Min({limit, Len(seq)}))

\* Mutant of Expected: cut before it is sorted.
Expected_cut_first(reference, s, limit) ==
    LET side == SelectSeq(reference.levels, LAMBDA l : l.side = s)
    IN  Listed(Truncated(side, limit), s)

\* compare_side: what a side of the reference lists, best first and cut.
Expected(reference, s, limit) == Truncated(Listed(reference.levels, s), limit)

\* compare_top_levels: the positions they disagree on, 0 for the depth.
Mismatches(book, reference, limit) ==
    UNION {LET actual == Levels(book, s, limit)
               expected == Expected(reference, s, limit)
           IN  {<<s, i>> : i \in {j \in DOMAIN actual \cap DOMAIN expected : actual[j] # expected[j]}}
               \cup (IF Len(actual) # Len(expected) THEN {<<s, 0>>} ELSE {})
           : s \in Sides}

-----------------------------------------------------------------------------
\* Mutant of Window: the event that ended the window is not looked at again.
Window_eats_one(events, index, reference) ==
    LET over == {i \in index..Len(events) : events[i].last > reference.last_update_id}
    IN  [events |-> SubSeq(events, index, IF over = {} THEN Len(events) ELSE Min(over) - 1),
         next |-> IF over = {} THEN Len(events) + 1 ELSE Min(over) + 1]

\* Mutant of Window: an event that ends at the reference is left to the next one.
Window_strict(events, index, reference) ==
    LET over == {i \in index..Len(events) : events[i].last >= reference.last_update_id}
        next == IF over = {} THEN Len(events) + 1 ELSE Min(over)
    IN  [events |-> SubSeq(events, index, next - 1), next |-> next]

\* The events up to the first that goes past the reference; the next window begins
\* with that one.
Window(events, index, reference) ==
    LET over == {i \in index..Len(events) : events[i].last > reference.last_update_id}
        next == IF over = {} THEN Len(events) + 1 ELSE Min(over)
    IN  [events |-> SubSeq(events, index, next - 1), next |-> next]

\* The events of a window, until one is refused.
Unless(r, event) == IF r.failed THEN r ELSE ApplyEvent(r, event)
ApplyAll(r, events) ==
    LET after[i \in 0..Len(events)] == IF i = 0 THEN r ELSE Unless(after[i - 1], events[i])
    IN  after[Len(events)]

\* After each reference: the reconstructor there, and the event to go on with.
AtNext(was, events, reference) ==
    LET window == Window(events, was.index, reference)
    IN  [r |-> ApplyAll(was.r, window.events), index |-> window.next]
AtReferences(snapshot, events, references) ==
    LET after[i \in 0..Len(references)] ==
            IF i = 0 THEN [r |-> LoadSnapshot(Fresh, snapshot), index |-> 1]
            ELSE AtNext(after[i - 1], events, references[i])
    IN  after

\* compare_streams: None for its Err.  checks has, for each reference, the
\* mismatches found there.
CompareFrom(snapshot, events, references, limit) ==
    LET after == AtReferences(snapshot, events, references)
        end == after[Len(references)].r
    IN  IF end.failed THEN None
        ELSE [returned |-> end.returned,
              checks |-> [i \in DOMAIN references |-> Mismatches(after[i].r.book, references[i], limit)]]

\* The bootstrap is the file that was named, or the first reference, which is then
\* not checked; without either there is nothing to do.
CompareStreams(events, references, limit, bootstrap) ==
    IF bootstrap # None THEN CompareFrom(bootstrap, events, references, limit)
    ELSE IF references # <<>> THEN CompareFrom(references[1], events, Tail(references), limit)
    ELSE [returned |-> Fresh.returned, checks |-> <<>>]

-----------------------------------------------------------------------------
\* A record of a capture: a venue frame; or a marker, of a reconnect, of ids that
\* jumped, or one that does not decode.
Frames(records) == {i \in DOMAIN records : records[i].kind = "frame"}
FrameCount(records) == Cardinality(Frames(records))
Undecodable(records) == \E i \in DOMAIN records : records[i].kind = "undecodable"

\* load_events: a frame that gives no span or no levels is counted and left out.
Understood(r) ==
    /\ UpdateSpan(r.venue, r.channel, r.payload) # None
    /\ DecodeDiff(r.venue, r.channel, r.payload) # None
EventOf(r) ==
    LET span == UpdateSpan(r.venue, r.channel, r.payload)
        diff == DecodeDiff(r.venue, r.channel, r.payload)
    IN  [first |-> span.first, last |-> span.last, diff |-> diff.bids \o diff.asks]
LoadEvents(records) ==
    FlattenSeq([i \in DOMAIN records |->
        IF i \in Frames(records) /\ Understood(records[i]) THEN <<EventOf(records[i])>> ELSE <<>>])

\* load_references: the frames that decode to a snapshot, by their update ids; the sort
\* keeps the order of equals.
SnapshotOf(r) == BookSnapshot(r.venue, r.channel, r.payload)
ReferenceOf(r) ==
    [last_update_id |-> SnapshotOf(r).last_update_id, levels |-> SnapshotOf(r).bids \o SnapshotOf(r).asks]
Decoded(records) ==
    FlattenSeq([i \in DOMAIN records |->
        IF i \in Frames(records) /\ SnapshotOf(records[i]) # None THEN <<ReferenceOf(records[i])>> ELSE <<>>])
ById(snapshots, i, j) ==
    \/ snapshots[i].last_update_id < snapshots[j].last_update_id
    \/ snapshots[i].last_update_id = snapshots[j].last_update_id /\ i < j
LoadReferences(records) ==
    LET snapshots == Decoded(records)
        order == Sorted([i \in DOMAIN snapshots |-> {j \in DOMAIN snapshots : ById(snapshots, j, i)}])
    IN  [i \in DOMAIN order |-> snapshots[order[i]]]

\* compare.  Both manifests' counts are of venue frames, whatever these decode to.
Compare(input, reference, limit, bootstrap) ==
    IF \/ Undecodable(input.records) \/ FrameCount(input.records) # input.frames_written
       \/ Undecodable(reference.records) \/ FrameCount(reference.records) # reference.frames_written
    THEN None
    ELSE LET events == LoadEvents(input.records)
             report == CompareStreams(events, LoadReferences(reference.records), limit, bootstrap)
         IN  IF report = None THEN None
             ELSE [returned |-> report.returned, checks |-> report.checks, events |-> Len(events),
                   unparseable |-> FrameCount(input.records) - Len(events)]

-----------------------------------------------------------------------------
\* The loop of reconstruct: a snapshot in the stream is loaded, and ends everything
\* when it is refused; an event that is refused is counted, and half applied.
Inband(record) == InbandSnapshot(record.venue, record.channel, record.payload)
Rebuild(r, record) ==
    IF record.kind = "connection_gap" THEN [r EXCEPT !.lastUpdateId = None]
    ELSE IF record.kind # "frame" THEN r
    ELSE IF Inband(record) # None
         THEN LoadSnapshot(r, [last_update_id |-> Inband(record).last_update_id,
                               levels |-> Inband(record).bids \o Inband(record).asks])
    ELSE IF Understood(record) THEN [ApplyEvent(r, EventOf(record)) EXCEPT !.failed = FALSE]
    ELSE r
RebuildUnless(r, record) == IF r.failed THEN r ELSE Rebuild(r, record)
RebuildAll(start, records) ==
    LET after[i \in 0..Len(records)] == IF i = 0 THEN start ELSE RebuildUnless(after[i - 1], records[i])
    IN  after[Len(records)]

\* reconstruct.
Reconstruct(input, snapshot) ==
    LET start == IF snapshot = None THEN Fresh ELSE LoadSnapshot(Fresh, snapshot)
        end == RebuildAll(start, input.records)
    IN  IF end.failed \/ Undecodable(input.records) \/ FrameCount(input.records) # input.frames_written
        THEN None
        ELSE [book |-> end.book, returned |-> end.returned,
              inband |-> Cardinality({i \in Frames(input.records) : Inband(input.records[i]) # None}),
              without_a_book |-> Cardinality({i \in Frames(input.records) : ~Understood(input.records[i])})]
=============================================================================
