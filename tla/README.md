# Astral: a TLA+ model of the recording and replay of exchange feeds

This directory holds TLA+ models of the Rust workspace in this repository, the
TLC configurations that check them, and TLAPS proofs about them. Paths below are
relative to `src/`.

Astral records the market-data feed of an exchange to disk exactly as it arrived,
rebuilds the exchange's order book from the recording, and replays recordings to
trading strategies. Everything downstream rests on three promises: the recording
says where it is incomplete, the rebuilt book is the exchange's book or says that it
is not, and nothing that a crash leaves behind is taken for whole. The models are
about those three.

Contents: [inventory](#1-inventory), [modules](#2-modules-and-the-code-they-model),
[runs](#3-runs), [findings](#4-findings), [proofs](#5-proofs),
[abstractions and limits](#6-abstractions-and-limits), [plan](#7-plan).

## 1. Inventory

### How the parts interact

```
 venue --ws frames--> capture --chunks, index, manifest--> { check, reconstruct, compare,
                        |  live book (astra-book)             normalize, replay }
                        |                                            |         |
                     signal, duration                           Parquet --> normalized replay
                                                                                |
                                                            strategies, exec, harness
```

There is no shared memory and there are no locks: each command is one process and,
in the capture, one thread plus a signal handler that sets one flag. The parts meet
on disk. That is where the concurrency is: a reader may run while a capture records,
after it died anywhere, or after a second capture was started on the same directory.

### Components

**Order book** (`crates/astra-book/src/lib.rs`, `OrderBook`). State: two maps from
price to quantity. Operations: `load_snapshot` (clears the book, then stores level by
level, refuses non-positive prices and quantities and crossed books), `apply_diff`
(overlays level by level; quantity zero removes). Hard: a call that fails at a level in
the middle keeps the levels before it, and a refused snapshot has already destroyed the
old book. Correct when a whole call leaves exactly the overlay of the accepted prefix.

**Reconstructor** (same file). State: the book, the id of the last snapshot, the id the
next span must follow on from, the quarantine flag, four counters. Operations:
`load_snapshot`, `apply_event`, `reset_sequence`. Hard: lost, repeated and overlapping
update spans, snapshots older or newer than the stream, refused data, ids at
`u64::MAX`, reconnects. Correct when the book is the venue's at the id it claims,
when a complete stream is never refused, and when a loss is never passed over.

**Capture recorder** (`crates/astra-record/src/capture.rs`). State per session: the
next sequence number, counters, the continuity baseline (`SequenceTracker`), the chunk
writer; for the process: the socket, the interrupt flag, the reconnects used, a live
book. Operations: open sessions, connect, read, record a frame (with the marker of a
gap in front of it), reconnect with backoff (and mark it in every session), stop for
one of seven reasons, finish sessions. Hard: sequence numbers shared by frames and
markers, a marker and its frame on both sides of a chunk boundary, per-session
baselines across reconnects, a crash anywhere, a second run on the same directory, a
signal at any moment. Correct when a recording says everything that was received and
marks every hole at its place, and when the capture ends when it should.

**Chunk store** (`crates/astra-record/src/store.rs`). State: the open chunk in memory,
`frames/index.json` and the chunk files on disk. Operations: `open`, `append`,
`close_chunk` (the chunk file, then the whole index again), `finish`, `read_index`,
`verify_chunk`, `read_chunk`. Hard: neither file is written atomically. Correct when an
index that can be read describes whole files.

**Capture audit** (`crates/astra-record/src/check.rs`). Stateless: manifest, index and
chunks in, a report and a verdict out. Hard: its continuity rule is not the recorder's,
and it may run at any moment of a capture's life. Correct when it judges a capture by
what the venue sent, and calls nothing healthy that is not.

**Readers of the book stream**: the capture's **live book** (`update_live_book`),
**reconstruct** (`reconstruct.rs`) and the **BookTop** strategy
(`crates/astra-replay/src/strategies.rs`), plus **compare** (`compare.rs`, the `verify`
command, which holds the book against snapshots of another capture). Each drives
a Reconstructor of its own over the same stream and treats markers in its own way. Hard:
they see different histories (the live book sees no markers) and must not
disagree silently.

**Replay engine** (`crates/astra-replay/src/replay.rs`). State: the expected sequence
number, the clock, the strategy's signals. Walks the chunks, aborts on a sequence break or
a count mismatch, hands out events. Correct when the same recording and seed give the same
signals, and nothing is handed out twice or out of order. **Normalized replay**
(`normalized.rs`) does the same from Parquet rows and must give the same signals.

**Normalizer** (`crates/astra-normalize/src/normalize.rs`). State: row buffers,
validation sets, one staging writer per partition. Ingests chunk by chunk, stages to
`*.parquet.tmp`, publishes by renaming at the end. Hard: errors are ranked, not raised in
stream order; a failure between two renames publishes a part of the output; an error
returned from the middle of the stream leaves the staging files.

**Execution simulator** (`crates/astra-exec/src/lib.rs`). Pure: `simulate` reads the
prints and gaps of a capture for one resting order, `simulate_batched` does so a venue
millisecond at a time, `markout` looks past the fill. Hard: bundles share a sequence number,
clocks are set back, prints have no venue time, gaps fall anywhere. Correct when both
simulators return the same, fill on the first evidence in front of a hole, and a markout reads
the print it should.

**Experiment harness** (`crates/astra-harness/src/lib.rs`). State on disk: a registry of
runs by hash. `run_benchmark`, `record_run` (two files), `list_runs`, `verify_run`.
Hard: the input directory is read twice for one report, and a capture may end in between; death
between or inside the two files, two processes at once on one registry, two config texts for one run;
which calls of a replay reach the strategy.

**Core types** (`crates/astra-types`): `Fixed` (checked i128 arithmetic at eight places,
ties away from zero), records, markers, manifests, instruments, time. **Feed adapters**
(`crates/astra-record/src/feed.rs`): stateless; the names under which streams are asked for
and recognised, and the decoding of venue payloads. Hard: one frame may decode in several ways or
by halves. **Command
line programs**, **Python bindings** (`crates/astra-python`), **`ops/`**, **`research/`**
and **`website/`** keep no state of the running system.

`PROJECT.json` lists every component with its status, and every hazard with its line and
the properties that are aimed at it.

## 2. Modules and the code they model

| Module | Models | Role |
|---|---|---|
| `OrderBook` | `OrderBook` of astra-book | operators: what a whole call leaves behind |
| `OrderBookLoop` | the loops of `load_snapshot`, `apply_diff` | the same level by level |
| `Reconstructor` | `Reconstructor` of astra-book | one action per outcome of each operation; open, no `Next` |
| `VenueMirror` | nothing: abstract | what a reconstructed book promises |
| `BookFeed` | `Reconstructor` under a venue | closed system; implements `VenueMirror` |
| `BookReaders` | live book, reconstruct, BookTop | three `INSTANCE`s of `Reconstructor` on one stream |
| `Capture` | `run_capture` and `ChunkWriter` | the recorder, its files, crashes and restarts |
| `Check` | `check`, `is_healthy` | the audit, evaluated on the disk of `Capture` in every state |
| `Readers` | the gates of replay, reconstruct, verify, normalize | a process that reads beside `Capture` |
| `Feed` | `feed.rs` | operators: stream names, subscriptions, decoders |
| `Tables` | `feed_record`, row building and row reading | one record on the raw and the normalized road |
| `Normalize` | the normalize command | streaming, staging, judging, publishing, dying, running again |
| `Replays` | `replay`, `replay_normalized` | the calls a strategy gets from either, over `Normalize` |
| `FixedPoint` | `Fixed`, `maker_fee` | operators at a small base and width |
| `Exec` | astra-exec | both simulators in step over one stream, then `markout` |
| `Harness` | astra-harness | commands, output files, registry, several processes |
| `Framing` | chunk bodies of `store.rs` | operators: length prefixes, counts |
| `Comparison` | `reconstruct`, `compare` | both commands as functions of what is on disk |
| `Calculations` | all functions without state | one call, one answer |
| `Option`, `Sorting` | `None`; `sort`, `sort_by_key` | what is returned for nothing; order by how many come before |
| `SequenceLemmas` | | induction and recursion, and what they give for sequences |
| `Calculations_proofs` | | theorems about the functions, of `verify` and `reconstruct` too |
| `BookFeed_proofs`, `BookReaders_proofs` | | theorems about the books |
| `Capture_proofs` | | theorems about the recorder, its audit and those who read beside it |
| `Exec_proofs`, `Normalize_proofs`, `Harness_proofs` | | theorems about the simulators, the normalizer, the harness |
| `MCVenue` | a small venue | shared by the `MC` modules on books |

How they compose: `Reconstructor` extends `OrderBook`; `BookFeed` and `BookReaders` instantiate
`Reconstructor`; `Check` extends `Capture` and `Readers` extends `Check`; `Normalize` extends
`Tables` extends `Feed`, and `Replays` extends `Normalize` and `Sorting`; `Exec` extends `FixedPoint`;
`Comparison` extends `OrderBookLoop`, `Feed` and `Sorting`, and `Calculations` extends `Comparison`,
`FixedPoint` and `Framing`. `Feed`, `FixedPoint` and `Framing` share `Option`. What the code computes
in a loop or by recursion is a recursive function or a fold. The `MC` modules give the constants
values for TLC.

Operators whose name is another definition's with a suffix (`JumpsAhead_off_by_one`,
`CloseChunk_index_first`) are mutants: that definition with a plausible bug. No
specification uses one; each is there so that a property can be seen to fail when the
definition is replaced by it. `PROJECT.json` pairs them.

### OrderBook, OrderBookLoop

A side is a function from `Prices` to a quantity, zero for a price without an entry. A
message is one sequence of levels, bids first, as both loops walk it. `Walked` is the
prefix a loop gets through before the first refused level, `Overlay` the book it leaves
(the last accepted write to a price wins), `LoadOk`/`LoadedBook` and `ApplyOk`/`AppliedBook`
the outcome and effect of the two calls, failures included. `OrderBookLoop` runs the code's
loop level by level with the guards of `set_level` and `apply_level` as they stand;
`Calculations` compares the two.

### Reconstructor, BookFeed, VenueMirror

`apply_event` has five outcomes, each an action with the conditions in the order the code
tests them: `RejectEvent` (quarantined), `SkipEvent` (covered by the snapshot),
`BreakOnEvent` (jumps ahead), `RefuseEvent` (`apply_diff` returned `Err`: the prefix stays
applied and no id moves), `TakeEvent`. `load_snapshot` has two.

`BookFeed` adds a venue: `Truth[i]` is its book after update `i`, an event is *faithful* if
it says where each level that its span changed ended up. A connection delivers events in
order of their last id and may lose any, repeat the last, overlap; snapshots have any id;
some events and snapshots are refused by the book. `anchored` is the observer's knowledge
(a snapshot was accepted, and no reset or refused event since), which the code
does not keep: `is_reliable` is what it offers instead. `VenueMirror` is the promise without
the mechanism: unsynced, live at an id that only moves forward, or frozen.

### Capture

One step of the process is one action: a session opened, a connection made, the top of
the loop, one `socket.read` with all that `handle_frame` does to the session, one session
marked, one finished. What a step writes is queued in `todo` and carried out file by file
by `Write` before the next step, so `Crash` falls between any two writes and `TearWrite`
inside one (`fs::write` truncates, then fills). `TearWrite` and `Crash` also stand
for an I/O error, which `run_capture` returns at once. `Restart` runs the same
command again on what is there. `Interrupt` may come at any moment, `Elapse` at any after the
first connection, which starts the clock. `Dial` are the steps in which `open_connection` returns,
with a connection or an error; they are the other side's, and `Process` are those that are the
program's own.

`received` is the observer's record of what the venue sent each session, with a `Cut`
between connections. `Annotated(stream)` says from that alone what a recording should
hold, by looking back for each frame's baseline instead of keeping one.

### Check, Readers

`Check` states `check` as a fold over the records the index lists, with
the audit's own forward-only rule (`JumpsForward`). It adds no variable: its properties
ask for the verdict in every state of `Capture`, which is the audit run at any moment.

`Readers` adds one reader that takes the manifest, the index and the chunks one after the
other, between any steps of the capture. A file that the capture is in the middle of writing
may be seen torn. Chunks are compared with their index entry (the hash), sequence
numbers are counted from zero, and the manifest's count is held against what was delivered
at the end, when the strategy, the book or the rows already have the records.

### BookReaders

`Diff`, `Snapshot` and `Reconnect` hand one frame (or the loss of the connection) to the
three readers in one step; whether the recorder put a marker in front of it is the
`SequenceTracker` rule on `previousLast`. The live book hears of neither markers nor
reconnects; reconstruct drops its baseline at a connection gap, ignores continuity
markers and ends at a refused snapshot; BookTop is silenced by every marker until a snapshot
is accepted, and drops the result of `apply_event`. `spoiled` is the observer's: BookTop has
half applied a diff and had no snapshot since (see section 4).

### Feed, Tables, Normalize, Replays

A payload is the record of the JSON fields it has; a decoder gives `None` where a field that
its struct names is missing, so a frame may decode as a span without levels or as an event and a
snapshot both. `Tables` takes one record through `RowsOf` (the rows normalize writes, null
columns as `None`; none for a `BadMarker` or a skipped channel), the judgement of a row, and `ReadRow` back to a
strategy's calls, unless the reader `Refuses` it; and through `FeedRecord`, the calls of the raw
replay.

`Normalize` is the streaming run: `ReadChunk` ingests a chunk and drains the buffers into a set of
groups, one a partition, `FlushGroup` appends the foremost (table after table, keys sorted) to its
staging file (the writer opened at first touch, under the number `part_path` finds by counting), `Judge` picks the error in the documented order,
`Publish` renames one file, `AbortWriter` deletes one. `RefuseChunk`, `FlushFails`,
`PublishFails` and `Crash` end a run where they fall; `Rerun` gives the command again on the same
output, for the same or another capture. The abstract side is `Verdict` and `RowsFor`: the
capture judged and partitioned as a whole, as if it had been loaded at once, which is what the
code was before it streamed. `Replays` evaluates both replays in every state: what each refuses
(`RefusesTree`, `RefusesCapture`) and the calls it makes otherwise. Both of its sorts, of paths and of
events, are `Sorted`, which puts each element behind as many as come before it.

### FixedPoint, Exec

`FixedPoint` has the code's operations in the width `MinRaw..MaxRaw`, refusals included, with
`RoundDiv` in its branches; a literal is its sign, whole part and digits. `Exec` delivers one
event after the other to both simulators: `Simulate` has returned or not, the batched one holds
a batch and its key. A bundle's prints come with `NextPrint`, under the seq of the print before.
`End` is what is left to do when the events are read. `Markout` is evaluated on the result.

### Harness

A process is idle or in the middle of a command. `run_benchmark` reads its input directory twice:
`Replay` replays it and simulates the probes, `ReadCaptureId` takes `capture_id` and `frames` for the
report from the manifest that is there then. `Verify` begins the same for a stored config and ends
in a verdict. Of a run, a file is then emptied and filled in two steps, for the report file and, when
recorded, for `report.json` and `config.json`. `Crash` may come between any two steps, and so may
`ChangeInput`: the capture in the directory goes on or ends, or the operator puts another one there.
Texts have a length, because of two processes that empty and fill the same `config.json` the second to fill it
may leave the end of the first's. `HarnessStrategy` hands on the calls in `Forwarded`. `answer` is what
the last step printed. `made` is the observer's: of each report recorded, what was replayed for it.
`alone` says who worked while no other did.

### Framing, Comparison, Calculations

`Comparison` states `reconstruct` and `compare` as functions of the records in a capture, the
references and the bootstrap, with their own rules for markers, in-band snapshots, refused
diffs and counts. `Calculations` makes one call of one function with any input of the domain, and
answers it: the properties relate the answer to the input, or to what another function of the
code gives for it. Two assumptions are about its inputs. `InputsAssumption` gives them their types:
what a record decodes to, if it decodes, are ids and levels. `VenueAssumption` says what
`CompleteStreamsMatch` is about: a venue with the books `Truth`, none of them crossed, whose events
tell what changed and whose snapshots list its whole book at their id, each level once. The ids, the
number and the order of events and references, and what is missing, are free.

## 3. Runs

Passing runs, with their distinct states:

| Run | Question | Bounds | States |
|---|---|---|---|
| `book_feed` | does the book mirror the venue, without false alarms, and implement `VenueMirror` | 4 updates, all 10 spans, 2 refused events, 7 snapshots, 6 calls | 21 k |
| `capture` | does a recording say what was received, does it end, what does a crash leave, and what does `check` say of it | 2 sessions, 3 book frames and a trade, 4 reads, 1 reconnect, frame limit 3, a duration, chunks of 2, 2 runs | 364 k |
| `capture_read` | what can a reader take from a directory that is being written | 1 session, 4 kinds of frame, 3 reads, 1 reconnect, 2 runs, 1 reader | 1.06 M |
| `book_readers` | do three readers agree, does BookTop emit only what was true | 10 spans, 4 refused events, 7 snapshots, 6 frames or reconnects | 153 k |
| `normalize` | are parts whole, final and complete, is streaming the whole-capture judgement, do both replays make the same calls | captures of 3 records over 15 shapes and 9 sound or unsound rows, every cut into chunks, 2 days, 2 runs | 241 k |
| `exec` | do both simulators agree, on the right print, and the markouts | 5 orders, 4 prints or gaps, clock steps of -1 and 1, 2 venue milliseconds or none | 4.16 M |
| `harness` | is what is printed on disk, and what is recorded reproducible | 2 processes, 2 commands that write, 1 change of the directory, 4 captures, 4 config texts, 4 lists of them | 949 k (with symmetry) |
| `calculations` | do the functions answer as they should | every input of the domains in `MCCalculations` | 989 k |

Runs that end in a counterexample (section 4): `book_feed_repeats`, `check_half_written`,
`book_readers_counted`, `harness_tally`.

What the properties say is in the comment above each; in short:

- `LoopsMatch`: the loops against the operators, failures included.
- `MirrorsVenue`, `CompleteStreamIsFollowed`, `OneGapPerQuarantine`, `ImplementsMirror`:
  the book is exact or unclaimed; nothing complete is turned away; quarantines are counted.
- `LogIsAnnotatedStream`, `CountersMatchLog`: the recording in memory and
  on disk is the stream with its holes marked in place, and the reported counts are those. Of a
  reconnect all sessions are told, or the process died at telling them and none has recorded
  anything since that another does not know to come after it.
- `IndexDescribesDisk`, `ChunksAreFinal`, `FinalManifestIsTrue`: what a crash leaves is
  honest: a readable index names whole chunks, a chunk is written once, and a manifest
  that names a stop reason was written after everything it speaks of.
- `InterruptStops`, `DurationStops`: the capture ends, unless an attempt to connect never returns.
  A signal that finds the capture connected, marking or asleep before a reconnect ends it
  without another attempt; the end of the duration ends it, or it stays in one attempt for ever.
- `EndedIsJudgedByItsStream`, `HealthyMeansComplete`: the verdict of the audit is a function of the
  stream, and "healthy" over any frame means complete.
- `ReadIsTrue`: a reader that accepts has delivered the whole stream; one that refuses has
  delivered a beginning of it.
- `EmittedTopIsTheVenues`, `ReadersAgree`, `LiveIsStricter`: three readers, one book.
- `OutputIsTheCapture`, `VerdictIsTheWholes`, `JudgedWrongLeavesNothing`:
  streaming, cut anywhere, does what a whole-capture pass would.
- `PartsAreNumbered`, `PartsAreFinal`: the next part's name is free, after crashes too.
- `ReplaysAgree`, `PublishedIsReplayable`: no strategy can tell the roads apart.
- `BatchedAgrees`, `FillIsTheFirstEvidence`, `MarkoutsReadLaterPrints`: the simulator.
- `TableIsOnDisk`, `BookSignalsAreTheReplays`: what the harness prints is there, and is what a replay gives.
- `RegistryReproduces`: a stored config makes its report; and `verify`, if it replays what the run
  had replayed, says reproduced exactly when the manifest it reads is the one the report names.
- `FixedIsExact`: `Fixed`, at every value: nearest, refused only for want of room, read back.
- `StreamsComeBack`, `FramingIsFaithful`: what goes out under a name or into a
  frame is what comes back.
- `CompleteStreamsMatch`, `EveryFrameIsCounted`, `VerifyJudgesTheRebuilt`: verify and reconstruct.

A property that is a conjunction of named parts (`OutputIsTheCapture`, `CountersMatchLog`,
`RegistryReproduces`, `FixedIsExact`, `LoopsMatch`, `FramingIsFaithful`) is checked as one; each part
has its own comment. Type invariants are checked in `BookFeed`, `Capture` and `Exec`, where
proofs or other properties rest on them.

### Why the bounds are enough

*Books and capture.* `MaxId` stands for `u64::MAX`, so the last id is reachable and saturation
is exercised: frames end at it and more follow. Four updates let a span be lost in front of,
inside and behind another, and one price changes twice (`MCVenue`), so old and new values can be
told apart. Chunks of two records put the boundary between a marker and its frame. Four reads
and a reconnect close two chunks and leave a third open; two runs are one crash and
what the next run makes of the leftovers, and a third run finds no directory a second could
not have found. Two sessions suffice for one to be ahead of the other at every point
of a loop over sessions; what is proved holds for any number.

*Readers.* One reader is enough, for readers do not write. Three reads close a chunk and leave the
next open, so index and chunks move while the reader is between them, and the second run rewrites
the manifest under it.

*Normalize.* Three records are two of a partition with one of another between them, or a repeat
of a key two chunks away. `Reused` are the captures after which the directory is used again:
damaged and sound ones of the same keys. The other captures differ only in what is judged
and replayed, which a second run into the directory does not change.

*Exec.* Four events are the least for a batch of two, a print of another millisecond and a gap.
The clock may step back. `Prices` has a corrupt 0, one price that fills each order and one that
does not; one order overflows its notional and one is not sound.

*Harness.* Two processes at one file are the least for a write to be overtaken; of two commands one
may be dead and the other meet what it left. `Captures` are one capture at three moments (with
nothing indexed, when replay accepts it as empty; with chunks and a manifest that says 0, when replay
refuses it; at its end) and another one. `Sweeps` are one config in either of its texts, two
strategies, and an error behind a good config. One change may fall between the two reads of a run, between
those of `verify`, or in between: either the report or the verdict is of a directory that was replayed
as one capture and named as another. What is proved holds for any number of changes.

*Calculations.* 32 values on each side of zero at two binary places: a product of two prices just
fits, and every operation is called for every pair. Records go one past what the length
prefix of the instance can say.

`CHECK_DEADLOCK FALSE` stands in every configuration because a bounded run ends: a feed
after its last call, a capture that stopped or died in its last run, a command that has
answered.

### Fairness

Only `capture` uses fairness: `FairSpec` is `Spec` with weak fairness of `Process`,
which is the process taking some step of its own, never a particular one. The sleep before a reconnect
ends, writes of files return, and `socket.read` returns because the stream has a 250 ms read timeout
(`ReadNothing`). `Dial` is under no fairness: `open_connection` calls a blocking `connect`
(`capture.rs:715`) and sets the read timeout after it (716), so a peer that is silent in the
TLS or WebSocket handshake may keep the process there, and nothing in the code says otherwise. The
two liveness properties are conditional for that reason, and section 4 names the divergence.
Neither is there fairness of the duration's passing, of the venue (it may send nothing, or frames without
end), of signals, crashes or restarts. Which step is taken is free, so the properties hold whether the
venue floods the socket or falls silent.

Two assumptions remain in `WF_vars(Process)`. A read returns: the timeout is one of the socket, and a
peer that sends the bytes of one message for ever, each in time, would be read for ever. A send returns:
the socket has no write timeout, and a peer that takes no bytes could hold a subscription or a pong.

## 4. Findings

Four statements of the repository are contradicted by a run. Others that the code does not keep are listed
below them.

1. `docs/failure-policy.md:23` says that reconstruct applies duplicate update spans
   "harmlessly". An event that comes again after later ones writes its old values over the
   newer ones and moves the baseline back, and the book stays reliable
   (`RepeatsAreHarmless`, run `book_feed_repeats`). An immediate repeat is harmless, and is
   among the deliveries of `book_feed`.
2. `docs/failure-policy.md:24` says that a half-written capture is a finding of `check`. The
   verdict looks at counts and not at the stop reason: a capture that dies before its first
   chunk is indexed compares 0 with 0 and is healthy (`HalfWrittenIsFound`, run
   `check_half_written`). Once a chunk is indexed, `HealthyMeansComplete` shows the verdict
   to be right.
3. `crates/astra-record/src/capture.rs:66-68` says of `book_errors` that a broken live book
   is counted. A quarantined book rejects with `Ok(Discontinuity)`, which touches no
   counter (`BrokenLiveBookIsCounted`, run `book_readers_counted`).
4. `docs/benchmark-harness.md:41-43` says that the signals of `trade-tally` are its print
   counts. `HarnessStrategy::on_trade` hands trades to the collectors and not to the strategy, so
   the harness reports a tally of nothing whatever the capture holds (`TallyCountsThePrints`, run
   `harness_tally`).

### Divergences met while modelling, without a run of their own

The properties of the passing runs are stated so as to be true of the code; where that meant
to leave out something a document or comment promises, it is this:

- `README.md:484`: a capture stops at the end of the duration and on Ctrl-C. While it dials, it looks neither
  at the clock nor at the flag that the signal handler sets, and `connect` has no timeout
  (`crates/astra-record/src/capture.rs:715`; the read timeout is set at 716): a peer that accepts the
  connection and is then silent in the handshake holds it for as long as it likes. `InterruptStops`
  leaves out an attempt that had begun before the signal, `DurationStops` one that never returns.
- `docs/failure-policy.md:23`, in the column of `check`: duplicate update spans are "not detected (forward
  jumps only)". The audit's own rule does not detect them. But the recorder writes a marker in front of a
  repeated span, and `check` counts every such marker as a gap (`check.rs:96-108`), so that a capture whose
  only fault is a span delivered twice is not healthy. `EndedIsJudgedByItsStream` says what the code does.
- `docs/benchmark-harness.md:24-26`: a report is the reproducible result for anyone with the
  capture. `run_benchmark` replays the directory (`crates/astra-harness/src/lib.rs:273`) and reads its manifest again for
  `capture_id` and `frames` (307, 342-368). If the capture ends in between (it is replayed as empty, 0
  frames of 0, and then named with its N), or another takes its place, the report has the results of
  one and the name of the other, and `verify` over the capture that it names says MISMATCH. The model
  has both reads; `RegistryReproduces` tells what was replayed from what was named, and says reproduced
  only of the two together.
- `crates/astra-normalize/src/normalize.rs:136` and `docs/streaming-design.md:91`: a failed run
  deletes its staging files. One that fails while reading a chunk or writing a batch returns
  before `finish` and leaves them (`RefuseChunk`, `FlushFails`);
  `JudgedWrongLeavesNothing` speaks of the runs that are judged.
- `normalize.rs:68`: a failed run leaves no parquet. One that fails between two renames leaves
  the parts before (`PublishFails`); each of them is whole (`PartsAreWhole`, in
  `OutputIsTheCapture`).
- `crates/astra-replay/src/normalized.rs:6-7`: both replays give identical signals. A Bybit
  snapshot frame also decodes as a diff, is stored as one, and comes back as one;
  `ReplaysAgree` says so with `OnceNormalized`. And a gap marker on a channel that normalize skips
  (funding, liquidations) is a call of the raw replay and no row: `ReplaysAgree` speaks of captures
  without one (`Kept`). Frames of such channels make no call on either road, and are in.
- `docs/normalized-schema.md:147` and `normalized.rs:99-101`: keys are unique in a capture. They
  are unique in a table; two records of one seq and different channels both pass.
  `ReplaysAgree` compares captures that the raw replay accepts, where seq is unique.
- `crates/astra-exec/src/lib.rs:438-439`: a markout reads a *later* print. With a horizon of
  zero, which the command line refuses and a benchmark config does not, it reads a print of the
  fill's own bundle. `MarkoutsReadLaterPrints` has the horizons that `parse_horizons` accepts.
- `crates/astra-harness/src/lib.rs:381-382`: recording a run again is a no-op. It writes both
  files again; a process that dies there tears a recorded run, and `list_runs` fails for the
  whole registry. The model has it; `RegistryReproduces` holds
  nevertheless.
- `crates/astra-replay/src/strategies.rs:36-38`: a broken book emits nothing. A diff refused at
  a level in the middle stays half applied, the book counts as reliable, and its top is emitted;
  `EmittedTopIsTheVenues` excepts that with `spoiled`.
- `verify` passes over the marker of a reconnect where `reconstruct` drops its baseline: after a
  reconnect it judges a book that stopped at the jump. `VerifyJudgesTheRebuilt` speaks of captures
  without one.

## 5. Proofs

TLAPS proves the following for every value of the constants, under the named assumptions.

**`BookFeed_proofs`** (`BookAssumption`, `IdAssumption`, `FeedAssumption`: prices and
quantities are positive naturals, events are faithful, accepted snapshots are the venue's
book). `TypeCorrect` and `GapCountedOncePerQuarantine` hold for every feed. With
`Redeliver = FALSE` (without it the first finding applies) `FeedInvariant` proves the inductive
`FeedInv`, and from it `BookMirrorsVenue`, `CompleteStreamFollowed` and
`FeedImplementsMirror`. `MirrorsVenue` is not inductive alone: that an applied event does
not end before the book's id needs to know where that id came from. `FeedInv` says: it is
the snapshot's, and then older events are skipped, or one that was delivered, and then older
events do not come. The arithmetic core is `FaithfulStep`: overlaying a faithful event on the
venue's book at any id in its span, or just before it, gives the venue's book at its end. It and
the few lemmas on overlays in front of it stand in each of the three modules on books.

**`Calculations_proofs`** (`BookAssumption`, `FixedAssumption`, `FramingAssumption`,
`InputsAssumption`, and for `CompleteStreamsMatch` alone `VenueAssumption`). `AnswersAreReturned`
proves `AnswerInv`: an answer is what the function gives for the call, which was made with
an input there is. Everything else is about the functions, for inputs of any length and number.

*The loops.* `LoopsAlwaysMatch`, from `LoadLoopLoads` and `ApplyLoopApplies`: the code's loops with
their early returns give what the operators say that all models of readers use. A price holds the
quantity of its last level (`BookAfterOne`), and `WalkIsBookAfter` carries that over the loop, as long
as no level was refused.

*The arithmetic.* `FixedIsAlwaysExact`, for every base, scale and width.
`ProductsAndQuotientsAreNearest` and `FeesAreNearest` say what rounding gives and when it is refused:
half of the divisor is added and the rest dropped (`HalfUp`), and the two sides of zero mirror
each other. That a text reads back as its value is an induction over its digits.

*What comes back.* `StreamsAlwaysComeBack`: no name of a channel is recognised as another's, whatever
the symbol (`ChannelComesBack`), and no list that starts names a channel twice
(`CombinedStreams`). `FramingIsAlwaysFaithful`: a length below the prefix's weight is read
back from its bytes, `BodyLaidOut` says where each record lies in a body, and from there a turn of the
reader takes the next record if it is all there and fails if it was cut (`ReadsNext`), so that a cut
body has failed, or gives fewer records than were counted.

*verify and reconstruct.* A reconstructor along a sequence of events is a fold (`Folded`).
`WindowsFollow`: verify's windows lie end to end, so at each reference it has the fold of all events
up to it and no more; references are sorted by id (`ReferencesInOrder`, from `SortedInOrder`).
From that, `EveryFrameIsAlwaysCounted`: verify's counts are those of its fold, which
counts an event once; reconstruct's follow its walk over the records, and the frames it tells the
reconstructor of, loads or has no book for are disjoint and all. `VerifyAlwaysJudgesTheRebuilt`:
without reconnects and in-band snapshots a walk over the records is the fold over the events
decoded from them, because decoding record by record lays the events end to end (`FlattenAppend`).
`CompleteStreamsAlwaysMatch`: `Exact` says that the reconstructor is live at an id with the venue's book,
`StaysExact` keeps it over events that leave none out, the id being the highest so far; a snapshot
that lists a book loads as it (`ListedBookLoads`), and its levels in order of price are those of
the book (`ListedInOrder`), because a map of positions onto positions that keeps the order is the
identity (`OntoInOrderIsIdentity`).

**`BookReaders_proofs`** (`ReadersAssumption`: the same of prices, quantities and events, snapshots
in the stream). `EmittedTopIsTheVenuesTheorem`, `ReadersAgreeTheorem` and `LiveIsStricterTheorem`:
three readers that treat markers in three ways hold the venue's book when they say they do, agree when
two of them say so, and the live book is never reliable where the others are not. Each of the three
carries the invariant of a followed book; what relates them is that all have been given the same
snapshots and that a marker costs the recorded readers their baseline where the live book finds the
jump itself.

**`Capture_proofs`** (`CaptureAssumption`: at least one session, chunks of at least one
record, the sentinels differ; `FilesAssumption`: a missing or torn file is no chunk, index or
manifest), for any number of sessions, frames, reconnects, runs and crashes.

*The store.* `TypeCorrect`, `IndexIsHonest` (`IndexDescribesDisk`) and `ChunkFilesAreFinal`
(`ChunksAreFinal`). The argument has two halves. A session's step *grows* its list of closed
chunks: the writes it orders are one chunk write per new chunk, each in front of any index
write that lists it (`Grows`). Growth composes (`GrowsTwice`), which covers a marker and its
frame closing a chunk each. `StoreInv` then says of the writes still ordered what makes
every prefix of them safe: a chunk to be written has a number that was never used, an index
to be written lists only chunks that are on disk or ordered before it, and each chunk a
running session has closed is on disk or ordered. That last part is needed for
`IndexDescribesDisk`, which says nothing of what is still ordered; and
`FilesInv` carries that a directory without chunk files has no index, which is why
a second run may begin its list empty.

*The log.* `LogIsAnnotatedStreamTheorem` and `CountersMatchLogTheorem`. `Tells` says of one session
what both claim, and `Tracks` what keeps it going: the recorder's baseline, one number, is the end of
the last span on this connection, found by looking back over the whole stream. `SessionChange` reduces
every action to four things that can happen to a session (it begins, gets a frame, gets a cut, stays
the same), and `GapIsShown` that the recorder's test at a frame is the property's. Closing a chunk moves
records from memory to disk and changes none (`CloseChunkLog`, by `FlattenAppend`).

*The sessions beside each other.* `SessionsKeepStep`, the last part of `CountersMatchLog`, is of all sessions at
once. It does not say where the process is in its loop over the sessions; `PaceInv` does: all sessions have recorded the same reconnects, but
for those in front of the one that is marked next, which have one more and that last. A death leaves
what it finds, and a restart begins with nothing.

*The end.* `FinalManifestIsTrueTheorem`. `FinishInv` says that a directory whose manifest is final has
its whole log in the index, that no write is ordered to such a directory but the one that starts it again,
that a final manifest is the last write of its step, and that once the writes of a step are through, the
index lists every closed chunk. A capture may be started in a directory that ended, if it has no chunk;
then what ended there recorded nothing, and the manifest of the first run stays true until the second
one's is written (`FinishInvOpen`).

*The audit and the reader.* `EndedIsJudgedByItsStreamTheorem`: `Judges` says what the
audit would report of the records a session has so far, in terms of its stream, and each step of the
recorder keeps it; `HoleIsShown` is where the audit's rule, forward jumps only, meets the recorder's.
`HealthyMeansCompleteTheorem` adds that a manifest which is not final counts no frame (`StartInv`).
`ReadIsTrueTheorem`, for a reader whose steps fall anywhere between the capture's: `ReaderInv` says that
what it has read is still so. The chunks its index lists are on disk for ever; the manifest may change
under it, but not one that is final with frames in it, for a directory with chunks refuses a new start
and gets no other write (`FilledStays`).

**`Exec_proofs`** (`FixedAssumption`, `ExecAssumption`). `BatchedAgreesTheorem`: for every order, fee and
stream of prints and gaps, `simulate_batched` returns what `simulate` returns.
`BatchedAgrees` speaks of the end; the invariant (`Ahead`) says of every moment that `simulate` is
ahead by no more than the batch that is held: if it has not returned, nothing in the batch fills;
if it has and the other has not, it returned the first print of the batch that fills. A batch
ends at a print of another millisecond, at a gap or at the end, and `BatchCatchesUp` says
that there the two meet. `FillIsTheFirstEvidenceTheorem`: the verdict is what the whole stream
says; `EvidenceInv` has the same for every prefix, and `EarliestStays` that a later event does not
change which evidence came first. `MarkoutsReadLaterPrintsTheorem`: horizons are at least one
millisecond (`parse_horizons`), and then the print a markout reads is not the fill nor of its bundle,
and no print in between is due. `TypeCorrect` is `TypeOK`.

**`Normalize_proofs`** (`NormalizeAssumption`: a capture is a list of chunks, a chunk a list of
records of known instruments with the types of their fields, and a field that a frame has is not null:
the decoders' fields are none of them optional, so that serde fails where one is missing or null;
`TablesAssumption`: a null is no value, and an instrument is of a venue), for any captures,
damaged ones included, and any number of runs into one directory. The two invariants that the theorems
below share are theorems too, `PublishInvariant` and `TreeInvariant`.

*The names.* `PublishedPartsAreFinal` and `PartsNumbered` rest on `NumberInv`: the parts of a
partition carry exactly the numbers below how many there are, and a writer's number is the next one.
`PartsAreNumbered` alone is not inductive: it does not say that the name a writer got when it was
opened is still free when its file is renamed, chunks later. It is, because a partition has one
writer and only renames add parts. `JudgedWrongLeavesNothingTheorem` rests on `TidyInv`: while a
first run streams, no part is there and every staging file has an open writer, so that deleting the
writers' files deletes all.

*The verdict.* `VerdictIsTheWholesTheorem`. The property speaks of the end of the stream; `StreamInv`
says of every moment that the counters, the keys seen and the first errors of `StreamRun` are those of
the records given so far, judged as one sequence (`Describes`). `IngestRowJudges`, `IngestDescribes` and
`IngestAllDescribes` carry that over a row, a record and a chunk. Two details decide it: a table stops
noting keys once it has an error, so `Judges` speaks of keys only while there is none; and a record with
a marker that does not decode gives no row to judge. That the run never ends in a refused batch
(`GroupsMakeBatches`) is about the rows: whatever a frame decodes to, its row has the columns of its
table's schema and values where the schema asks for them (`RowsSit`).

*The output.* `OutputIsTheCaptureTheorem`. `FlushInv` says of a partition that what its staging file has
and what waits for it in memory are together its rows among the records given so far. It needs that two
groups in memory never share a partition, that a partition without writer and group was not met
yet (`Touched`), and that selecting the rows of a key goes through concatenation (`RowsWithConcat`), which
is why cutting the capture elsewhere changes nothing. `PublishInv` then follows the renames: a
partition of a capture that passed has its writer or exactly one part of this run.

*The tree read back.* `PublishedIsReplayableTheorem`: `TreeInv` says that the parts are finitely
many, each of a capture and named for a table; with `OutputIsTheCapture`, each of their rows is one that
`RowsOf` makes of a record, which has every column that the table's reader asks for and, if it stands for a gap, all four gap columns
(`RowsSit`). That the reader meets these rows and no others is about the two sorts: `SortedInOrder` says that
`Sorted` lists a finite set, each element once, if what comes before is a strict total order, which paths
(`PathsAreOrdered`) and events with their positions (`EventsSorted`) have.

*The two replays.* `ReplaysAgreeTheorem`, of a run into a fresh directory on a capture that the raw replay
accepts. It has two halves. Of one record: what its rows read back as is what the raw replay makes
of it (`RecordReadBack`; one lemma a table and one for the marker), and so for the records in a row
(`RoadsAgree`). Of their order: a *place* is a record's index and one of its rows, and `Places` is
what is to be told. The rows of a table, split by partition, visit the places of that partition one by one
(`TaggedPlaces`, `PartitionPlaces`), all files together each place once (`TreePlaces`), and the key that
events are sorted by is their place (`PlaceIsKey`: seq is unique, and counts from zero, in a
capture the raw replay accepts), so sorting gives the rows of the records in the order of the capture (`TreeInOrder`).
`FreshInv` says that the parts of the present run are of the present capture. That there is no
marker on a channel that normalize skips is a hypothesis of the property (`Comparable`, `Kept`), for the raw
replay would tell of it; frames of such channels have no rows and make no call (`SkippedHasNoRows`). That the recorder
gives no exchange time of its own is a hypothesis as well: `capture` writes `ts_exchange: None` in frames and markers. Were there one, the two would differ on a
print or a quote without a time of its own, where normalize alone falls back on the record's.

**`Harness_proofs`** (`HarnessAssumption`: calls and probes are sequences; `FilesAssumption`: a report is
neither a missing nor a torn file), for any number of processes, captures, configs and sweeps, a death
between any two writes, and changes of the directory anywhere. `RegistryReproducesTheorem`: neither half of
`RegistryReproduces` is inductive, for it says nothing of the processes in the middle of `record_run`.
`RegistryInv` does: the run a process holds is what the text it is at makes of what it replayed and what it
read (`JobInv`), and the report of an entry, once emptied, is never missing again. `verify` may read a
text that another process stored, for another capture that gave the same report. That makes no
difference, because a report has its config in it but for the spelling (`OneConfig`), so any text stored under it is of
that config; and what is replayed and what is named enter a report apart (`OneName`). `MadeInv` carries that
each entry of `made` is a report of what it says was replayed. `TableIsOnDiskTheorem`: of a process that works alone `DiskInv` says
that each row so far is on the disk, save the one file it may be writing over again, because two configs
of a sweep can make one report; who is alone is the only one that writes (`DiskStep`).
`BookSignalsTheorem`: BookTop's recursion over the calls (`BrokenAgree`) cannot tell the calls it is
handed from all of them.

**`SequenceLemmas`.** The induction theorems of the library take an operator, which none of the provers
can instantiate. They are not needed: `SetInduction` states induction of a *set* of numbers, from
`LeastNatural` (a non-empty set of naturals has a least element), and a set can be cited
(`InductionUpTo` for the first n). So can the steps of a loop: `RepetitionThere` says that a
function which takes each value from the one before exists, given a function that makes the step, and
from that a recursive definition of the models unfolds. With them come what `FlattenSeq` gives
(`FlattenAppend`, `FlattenType`, `FlattenBegins`, `FlattenMapConcat`), where each element of a
flattening comes from (`FlattenPlaces`), and what `Sorted` gives (`SortedInOrder`), for sequences of
every length; `Capture_proofs` unfolds the walk of the audit likewise (`WalkExists`, `AuditAppend`).

**Only model-checked.** Every invariant that a run checks is a theorem, and so are the action
properties `ChunksAreFinal`, `PartsAreFinal` and the refinement `ImplementsMirror`. Liveness under
fairness (`InterruptStops`, `DurationStops`) is outside the prover and rests on the instance of run
`capture`, as the counterexamples of section 4 rest on theirs.

## 6. Abstractions and limits

- A chunk's SHA-256 is modelled by the chunk's contents, a report's by the report. zstd, postcard,
  Parquet and JSON give back what they were given; which JSON fields are there is modelled. A file
  is absent, whole or torn; `fs::write` is two steps.
- `Fixed` prices and quantities are small integers outside `FixedPoint`. Payloads that do not
  parse as a book message are frames without a span. Timestamps are kept where a date, a clock or
  a markout depends on them; latency statistics and report wording are left out.
- In `Capture`, which session a frame belongs to is an input (`ReadFrame(s, span)`), and one that
  names none is `ReadUnknown`; that the routing gives just these is `StreamsComeBack`. A `--url`
  of the user's own is not modelled.
- The live book of `run_capture` is in `BookReaders`, not in `Capture`: nothing the
  recorder writes depends on it except two counts in the printed summary.
- In `BookReaders` snapshots come in the stream, as Bybit sends them. `EmittedTopIsTheVenues`
  speaks of a BookTop that had a snapshot: without one, BookTop quotes what the diffs alone add
  up to. The refused snapshots of the instance have ids below `MaxId`; at `u64::MAX` itself
  no marker can be recorded for what follows.
- The recorder writes only decodable markers; those that do not decode are among the inputs of
  `Normalize`, `Replays` and `Comparison`. Sequence breaks, which reconstruct counts and prints,
  are not in `Comparison`.
- In `CompleteStreamsMatch` a snapshot lists the whole book of its venue. A venue's REST snapshot stops
  at some depth, and of a book that began with one nothing is claimed.
- In `Normalize` the removal of a staging file succeeds, and one process runs at a time: nothing
  in the repository says that two may. In `Harness`, where a registry is shared, two do. Two
  captures on one directory at once are not modelled.
- In `Exec` both simulators are stepped together over one stream, which says the same of two
  passes; markouts are price differences, without the `f64` of basis points, and marks do not
  saturate.

### Not modelled

Serde of the types, the printing of reports, argument parsing, Python object building, the
WebSocket library and its TLS; `ops/` (a shell loop around `capture`), `research/` and
`website/` (text). Of the Rust files the unit tests make up a good half of the lines.

## 7. Plan

Every safety property that a run checks is a theorem, so what could follow is new questions rather than
proofs of old ones:

1. `CompleteStreamsMatch` for snapshots that list the best levels of a book only, as the REST snapshots
   of a venue do: which depths can then be judged, and until when.
2. Two captures started in one directory, and two normalize runs into one tree, should the code
   come to allow them.
3. The live book of `run_capture` inside `Capture`, should the recorder come to write what depends on it.
