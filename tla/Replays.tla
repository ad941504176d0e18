------------------------------- MODULE Replays -------------------------------
(***************************************************************************)
(* The two replays of one capture: replay_normalized (crates/astra-replay/ *)
(* src/normalized.rs) over the tree that Normalize has published, beside   *)
(* replay (replay.rs) over the capture itself.  A strategy is a function   *)
(* of the calls it gets, so equal calls give equal signals.                *)
(***************************************************************************)
EXTENDS Normalize, Sorting

\* A path by its components: symbol, channel, date and part number.
ChannelOrder == <<1, 3, 2>>   \* book_diff, book_ticker, trade: the tables' places
Path(file) == <<file[1][2], ChannelOrder[file[1][1]], file[1][3], file[2]>>
PathOrder(f, g) ==
    \E i \in 1..4 : Path(f)[i] < Path(g)[i] /\ \A j \in 1..i - 1 : Path(f)[j] = Path(g)[j]

\* What parquet_files finds, sorted and read by read_table_events: staging files have
\* another extension.
TreeRows(files) ==
    LET sorted == Sorted([f \in DOMAIN files |-> {g \in DOMAIN files : PathOrder(g, f)}])
    IN  FlattenSeq([i \in DOMAIN sorted |->
            LET rows == files[sorted[i]].rows
            IN  [j \in DOMAIN rows |-> [table |-> Tables[sorted[i][1][1]], row |-> rows[j]]]])

\* Mutant of EventOrder: the prints of a bundle come last first.
EventOrder_by_seq(events, i, j) ==
    events[i].row.seq < events[j].row.seq \/ (events[i].row.seq = events[j].row.seq /\ i > j)

\* sort_by_key of (seq, print_index), which is stable.
EventOrder(events, i, j) ==
    LET k == KeyOf(events[i].table, events[i].row)
        l == KeyOf(events[j].table, events[j].row)
    IN  \/ k[1] < l[1]
        \/ k[1] = l[1] /\ k[2] < l[2]
        \/ k = l /\ i < j

SortedEvents(events) ==
    LET order == Sorted([i \in DOMAIN events |-> {j \in DOMAIN events : EventOrder(events, j, i)}])
    IN  [i \in DOMAIN order |-> events[order[i]]]

\* A tree that replay_normalized refuses, and the calls it makes for one it does not,
\* feed_event for every event in order.
RefusesTree(files) ==
    \/ DOMAIN files = {}
    \/ LET events == SortedEvents(TreeRows(files))
       IN  \E i \in DOMAIN events : Refuses(events[i].table, events[i].row)
NormalizedReplay(files) ==
    LET events == SortedEvents(TreeRows(files))
    IN  FlattenSeq([i \in DOMAIN events |-> ReadRow(events[i].table, events[i].row)])

\* A capture that replay refuses: seq must count from zero, every marker decode, every
\* chunk and the manifest's count be right.  And the calls it makes for one it does not.
RefusesCapture(c) ==
    LET records == Records(c)
    IN  \/ ~c.readable
        \/ \E i \in DOMAIN c.chunks : ~c.chunks[i].intact
        \/ \E i \in DOMAIN records : records[i].seq # i - 1 \/ BadMarker(records[i])
        \/ Frames(records) # c.frames_written
RawReplay(c) ==
    LET records == Records(c)
    IN  FlattenSeq([i \in DOMAIN records |-> FeedRecord(records[i])])

-----------------------------------------------------------------------------
\* No marker is on a channel that normalize skips.
Kept(c) ==
    \A i \in DOMAIN Records(c) : Records(c)[i].synthetic => TableOf(Records(c)[i].channel) # None

\* What becomes of a call on the normalized road: a snapshot frame of Bybit is stored
\* as the diff it also decodes as.
OnceNormalized(call) ==
    IF call.on = "snapshot"
    THEN BookDiffEvent(call.seq, call.now, None, call.snapshot.last_update_id,
                       call.snapshot.last_update_id, call.snapshot.bids, call.snapshot.asks)
    ELSE call

\* A run into a fresh directory has succeeded on a capture that replay accepts, that
\* has something to replay and no marker on a channel that normalize skips; the recorder
\* gives no exchange time of its own.
Comparable ==
    /\ pc = "ok"
    /\ \A file \in DOMAIN parts : parts[file].run = runs
    /\ parts # <<>>
    /\ Kept(capture)
    /\ \A i \in DOMAIN Records(capture) : Records(capture)[i].ts_exchange = None
    /\ ~RefusesCapture(capture)

\* A strategy cannot tell the two replays apart but by Bybit's snapshots, which come
\* as diffs: the same calls, with the same clock, in the same order, though the rows
\* went through three tables and a file a day; frames that did not parse, or whose
\* channel normalize skips, make no call on either road.
ReplaysAgree ==
    Comparable =>
        LET calls == RawReplay(capture)
        IN  /\ ~RefusesTree(parts)
            /\ NormalizedReplay(parts) = [i \in DOMAIN calls |-> OnceNormalized(calls[i])]

\* What normalize publishes, replay_normalized can read, whatever was in the
\* capture: no row is refused.
PublishedIsReplayable ==
    pc = "ok" /\ parts # <<>> => ~RefusesTree(parts)
=============================================================================
