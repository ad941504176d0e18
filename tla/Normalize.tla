------------------------------ MODULE Normalize ------------------------------
(***************************************************************************)
(* The normalize command: crates/astra-normalize/src/normalize.rs.  One    *)
(* process reads a capture chunk by chunk, judges every row as it comes,   *)
(* appends the rows of each partition to a staging file, and when the      *)
(* stream is through either renames the staging files into place, one      *)
(* after another, or deletes them.  It may die anywhere, and it may be run *)
(* again, on this capture or another, into the same output directory.      *)
(***************************************************************************)
EXTENDS Tables, SequencesExt

CONSTANTS
    Captures,  \* the capture directories that may be given to it
    Reused,    \* bound: those after which the output directory is used again
    MaxRuns    \* bound on the runs into one output directory

\* A capture directory: is its manifest of this schema and its index readable,
\* the manifest's count, and the chunks the index lists.  An intact chunk has the
\* hash and the count the index says.
\* [readable, frames_written, chunks : Seq([intact, records])]

\* What reading a chunk gives: a Vec of records, typed.  What JSON calls an array in a
\* payload is one; a field that is there has a value, save a time that is no date; and
\* what a frame decodes to is not None.
IsList(s) == s \in Seq({s[i] : i \in DOMAIN s})
Filled(fields) == \A field \in DOMAIN fields \ {"time"} : fields[field] # None
IsRecord(r) ==
    /\ r.instrument \in Instruments
    /\ r.seq \in Int /\ r.ts_socket \in Int /\ r.synthetic \in BOOLEAN
    /\ Has(r.payload, {"data"}) => IsList(r.payload.data)
    /\ ~r.synthetic =>
          /\ Filled(r.payload)
          /\ Has(r.payload, {"data"}) => \A i \in DOMAIN r.payload.data : Filled(r.payload.data[i])
          /\ BybitBook(r.payload) => None \notin {UpdateSpan("bybit", "book_diff", r.payload),
                                                 DecodeDiff("bybit", "book_diff", r.payload)}

ASSUME NormalizeAssumption ==
    /\ MaxRuns \in Nat
    /\ Reused \subseteq Captures
    /\ \A c \in Captures :
          /\ IsList(c.chunks)
          /\ \A i \in DOMAIN c.chunks :
                /\ IsList(c.chunks[i].records)
                /\ \A j \in DOMAIN c.chunks[i].records : IsRecord(c.chunks[i].records[j])

VARIABLES
    pc,        \* where the process is
    capture,   \* its input
    chunk,     \* the chunk it reads next
    run,       \* StreamRun, but for the writers
    todo,      \* the groups of the chunk in memory still to be written, a set
    writers,   \* the part number of each partition with an open staging file
    failure,   \* the error it returns, or None
    staging,   \* staging[<<key, n>>]: the rows in part n of a partition, as .tmp
    parts,     \* parts[<<key, n>>]: the same under its final name, and its capture
    runs       \* runs so far

vars == <<pc, capture, chunk, run, todo, writers, failure, staging, parts, runs>>

\* A partition: table rank, instrument (and with it the channel), date.
KeyOrder(k, l) ==
    \/ k[1] < l[1]
    \/ k[1] = l[1] /\ k[2] < l[2]
    \/ k[1] = l[1] /\ k[2] = l[2] /\ k[3] < l[3]

Rank(table) == CHOOSE i \in DOMAIN Tables : Tables[i] = table
PartitionKey(table, r) == <<Rank(table), r.instrument, DateOf(r.ts_socket)>>

\* StreamRun::new.
NewRun ==
    [buffer |-> [t \in TableNames |-> <<>>], seen |-> [t \in TableNames |-> {}],
     error |-> [t \in TableNames |-> None], decode_error |-> None,
     records |-> 0, venue_frames |-> 0, rows_written |-> 0, skipped |-> 0]

Init ==
    /\ pc = "start"
    /\ capture \in Captures
    /\ chunk = 1
    /\ run = NewRun
    /\ todo = {}
    /\ writers = <<>>
    /\ failure = None
    /\ staging = <<>>
    /\ parts = <<>>
    /\ runs = 1

-----------------------------------------------------------------------------
Error(kind, seq, why) == [kind |-> kind, seq |-> seq, why |-> why]

\* One row of ingest: judged while its table has no error yet, buffered always.
IngestRow(so, table, key, row) ==
    LET fault == IF KeyOf(table, row) \in so.seen[table] THEN "duplicate" ELSE RowFault(table, row)
        judged == IF so.error[table] # None THEN so
                  ELSE [so EXCEPT !.seen[table] = @ \cup {KeyOf(table, row)},
                                  !.error[table] = IF fault = None THEN None
                                                   ELSE Error(table, row.seq, fault)]
    IN  [judged EXCEPT !.buffer[table] = Append(@, [key |-> key, row |-> row])]

IngestRows(so, table, key, rows) ==
    LET after[i \in 0..Len(rows)] ==
            IF i = 0 THEN so ELSE IngestRow(after[i - 1], table, key, rows[i])
    IN  after[Len(rows)]

\* ingest.
Ingest(so, r) ==
    LET table == TableOf(r.channel)
        counted == [so EXCEPT !.records = @ + 1,
                              !.venue_frames = IF r.synthetic THEN @ ELSE @ + 1]
    IN  IF table = None THEN [counted EXCEPT !.skipped = @ + 1]
        ELSE IF BadMarker(r)
        THEN [counted EXCEPT !.decode_error = IF @ = None THEN Error("decode", r.seq, "marker") ELSE @]
        ELSE IngestRows(counted, table, PartitionKey(table, r), RowsOf(r))

IngestAll(so, records) ==
    LET after[i \in 0..Len(records)] ==
            IF i = 0 THEN so ELSE Ingest(after[i - 1], records[i])
    IN  after[Len(records)]

\* The partitions some rows go to, and the rows of one, in the order of the stream.
KeysIn(tagged) == {tagged[i].key : i \in DOMAIN tagged}
RowsWith(tagged, key) ==
    FlattenSeq([i \in DOMAIN tagged |-> IF tagged[i].key = key THEN <<tagged[i].row>> ELSE <<>>])

\* by_partition.
Groups(buffer, table) ==
    {[table |-> table, key |-> key, rows |-> RowsWith(buffer, key)] : key \in KeysIn(buffer)}

\* flush_chunk takes the buffers.
Drained(so) ==
    [so EXCEPT !.rows_written = @ + Len(so.buffer["diff"]) + Len(so.buffer["trade"])
                                  + Len(so.buffer["topbook"]),
               !.buffer = [t \in TableNames |-> <<>>]]
AllGroups(so) == UNION {Groups(so.buffer[t], t) : t \in TableNames}

\* Table after table, and the keys of a table sorted: a key begins with its table.
Foremost(group) == group \in todo /\ \A other \in todo \ {group} : KeyOrder(group.key, other.key)

\* Mutants of NextPart: staging files count too; the number is fixed.
NextPart_counts_staging(key) ==
    Cardinality({file \in DOMAIN parts : file[1] = key})
    + Cardinality({file \in DOMAIN staging : file[1] = key})
NextPart_fixed(key) == 0

\* part_path: the number of parts there are.
NextPart(key) == Cardinality({file \in DOMAIN parts : file[1] = key})

-----------------------------------------------------------------------------
\* A map, or a directory, with one more entry, or one entry less.
With(f, x, v) == [y \in DOMAIN f \cup {x} |-> IF y = x THEN v ELSE f[y]]
Without(f, x) == [y \in DOMAIN f \ {x} |-> f[y]]

Fail(error) == failure' = error /\ pc' = "failed"

\* read_manifest and read_index.
Start ==
    /\ pc = "start"
    /\ IF capture.readable THEN pc' = "read" /\ UNCHANGED failure ELSE Fail(Error("input", 0, "unreadable"))
    /\ UNCHANGED <<capture, chunk, run, todo, writers, staging, parts, runs>>

\* read_verified_chunk, then ingest of every record in it.
ReadChunk ==
    /\ pc = "read"
    /\ chunk <= Len(capture.chunks)
    /\ capture.chunks[chunk].intact
    /\ LET so == IngestAll(run, capture.chunks[chunk].records)
       IN  run' = Drained(so) /\ todo' = AllGroups(so)
    /\ chunk' = chunk + 1
    /\ pc' = "flush"
    /\ UNCHANGED <<capture, writers, failure, staging, parts, runs>>

\* The chunk is not what the index says: the error is returned as it is.
RefuseChunk ==
    /\ pc = "read"
    /\ chunk <= Len(capture.chunks)
    /\ ~capture.chunks[chunk].intact
    /\ Fail(Error("store", chunk, "chunk"))
    /\ UNCHANGED <<capture, chunk, run, todo, writers, staging, parts, runs>>

\* Mutant of FlushGroup: the staging file is made anew for every chunk.
FlushGroup_reopens ==
    /\ pc = "flush"
    /\ \E group \in todo :
          /\ Foremost(group)
          /\ LET key == group.key
                 n == IF key \in DOMAIN writers THEN writers[key] ELSE NextPart(key)
             IN  /\ writers' = With(writers, key, n)
                 /\ staging' = With(staging, <<key, n>>, group.rows)
          /\ todo' = todo \ {group}
    /\ UNCHANGED <<pc, capture, chunk, run, failure, parts, runs>>

\* flush_table for one partition: its writer is opened at first touch, under the
\* number the directory has next, and the rows are written and flushed.
FlushGroup ==
    /\ pc = "flush"
    /\ \E group \in todo :
          /\ Foremost(group)
          /\ MakesBatch(group.table, group.rows)
          /\ LET key == group.key
                 n == IF key \in DOMAIN writers THEN writers[key] ELSE NextPart(key)
                 had == IF key \in DOMAIN writers THEN staging[<<key, n>>] ELSE <<>>
             IN  /\ writers' = With(writers, key, n)
                 /\ staging' = With(staging, <<key, n>>, had \o group.rows)
          /\ todo' = todo \ {group}
    /\ UNCHANGED <<pc, capture, chunk, run, failure, parts, runs>>

\* The batch is refused, or the disk is.
FlushFails ==
    /\ pc = "flush"
    /\ \E group \in todo :
          /\ Foremost(group)
          /\ IF MakesBatch(group.table, group.rows)
             THEN Fail(Error("io", 0, "write")) ELSE Fail(Error("arrow", 0, "batch"))
    /\ UNCHANGED <<capture, chunk, run, todo, writers, staging, parts, runs>>

ChunkDone ==
    /\ pc = "flush"
    /\ todo = {}
    /\ pc' = "read"
    /\ UNCHANGED <<capture, chunk, run, todo, writers, failure, staging, parts, runs>>

\* The first of a sequence of Options that is one.
Or(options) == FirstFault(options)

\* Mutant of Judgement: the tables are asked before the markers.
Judgement_tables_first(so) ==
    IF so.venue_frames # capture.frames_written
    THEN Error("manifest", 0, "count")
    ELSE Or(<<so.error["diff"], so.error["trade"], so.error["topbook"], so.decode_error>>)

\* finish: what it finds wrong, in its order.
Judgement(so) ==
    IF so.venue_frames # capture.frames_written
    THEN Error("manifest", 0, "count")
    ELSE Or(<<so.decode_error, so.error["diff"], so.error["trade"], so.error["topbook"]>>)

Judge ==
    /\ pc = "read"
    /\ chunk > Len(capture.chunks)
    /\ failure' = Judgement(run)
    /\ pc' = IF Judgement(run) = None THEN "publish" ELSE "abort"
    /\ UNCHANGED <<capture, chunk, run, todo, writers, staging, parts, runs>>

\* Mutant of AbortWriter: a writer is dropped, its file stays.
AbortWriter_keeps_file ==
    /\ pc = "abort"
    /\ \E key \in DOMAIN writers : writers' = Without(writers, key)
    /\ UNCHANGED <<pc, capture, chunk, run, todo, failure, staging, parts, runs>>

\* abort_writers: the staging files go, in any order.
AbortWriter ==
    /\ pc = "abort"
    /\ \E key \in DOMAIN writers :
          /\ staging' = Without(staging, <<key, writers[key]>>)
          /\ writers' = Without(writers, key)
    /\ UNCHANGED <<pc, capture, chunk, run, todo, failure, parts, runs>>

Aborted ==
    /\ pc = "abort"
    /\ writers = <<>>
    /\ pc' = "failed"
    /\ UNCHANGED <<capture, chunk, run, todo, writers, failure, staging, parts, runs>>

\* finish: close the next writer, in the order of the keys, and rename its file.
Publish ==
    /\ pc = "publish"
    /\ \E key \in DOMAIN writers :
          /\ \A other \in DOMAIN writers \ {key} : KeyOrder(key, other)
          /\ LET file == <<key, writers[key]>>
             IN  /\ parts' = With(parts, file, [rows |-> staging[file], of |-> capture, run |-> runs])
                 /\ staging' = Without(staging, file)
                 /\ writers' = Without(writers, key)
    /\ UNCHANGED <<pc, capture, chunk, run, todo, failure, runs>>

\* A close or a rename fails: the error is returned at once.
PublishFails ==
    /\ pc = "publish"
    /\ writers # <<>>
    /\ Fail(Error("io", 0, "rename"))
    /\ UNCHANGED <<capture, chunk, run, todo, writers, staging, parts, runs>>

\* normalize returns its summary.
Published ==
    /\ pc = "publish"
    /\ writers = <<>>
    /\ pc' = "ok"
    /\ UNCHANGED <<capture, chunk, run, todo, writers, failure, staging, parts, runs>>

-----------------------------------------------------------------------------
Over == pc \in {"ok", "failed", "dead"}

Crash ==
    /\ ~Over
    /\ pc' = "dead"
    /\ UNCHANGED <<capture, chunk, run, todo, writers, failure, staging, parts, runs>>

\* The command is given again, with the same output directory.
Rerun ==
    /\ Over
    /\ runs < MaxRuns
    /\ capture \in Reused
    /\ runs' = runs + 1
    /\ capture' \in Reused
    /\ pc' = "start"
    /\ chunk' = 1
    /\ run' = NewRun
    /\ todo' = {}
    /\ writers' = <<>>
    /\ failure' = None
    /\ UNCHANGED <<staging, parts>>

Process ==
    \/ Start \/ ReadChunk \/ RefuseChunk
    \/ FlushGroup \/ FlushFails \/ ChunkDone
    \/ Judge
    \/ AbortWriter \/ Aborted
    \/ Publish \/ PublishFails \/ Published

Next == Process \/ Crash \/ Rerun

Spec == Init /\ [][Next]_vars

-----------------------------------------------------------------------------
\* The capture as a whole, as if it had been loaded at once.
Records(c) == FlattenSeq([i \in DOMAIN c.chunks |-> c.chunks[i].records])

\* Its frames of the venue, the rows of a record, and those of a table, in order.
Frames(records) == Cardinality({i \in DOMAIN records : ~records[i].synthetic})

Tagged(key, rows) == [i \in DOMAIN rows |-> [key |-> key, row |-> rows[i]]]
TaggedOf(table, r) ==
    IF TableOf(r.channel) # table \/ BadMarker(r) THEN <<>>
    ELSE Tagged(PartitionKey(table, r), RowsOf(r))
TaggedIn(table, records) == FlattenSeq([i \in DOMAIN records |-> TaggedOf(table, records[i])])
TaggedRows(c, table) == TaggedIn(table, Records(c))

\* The first row of a table that is faulty or repeats the key of an earlier one.
Offence(table, rows, i) ==
    IF \E j \in 1..i - 1 : KeyOf(table, rows[j]) = KeyOf(table, rows[i])
    THEN "duplicate" ELSE RowFault(table, rows[i])
ErrorAt(table, rows, i) ==
    LET why == Offence(table, rows, i)
    IN  IF why = None THEN None ELSE Error(table, rows[i].seq, why)
FirstError(table, tagged) ==
    LET rows == [i \in DOMAIN tagged |-> tagged[i].row]
    IN  Or([i \in DOMAIN rows |-> ErrorAt(table, rows, i)])
TableError(c, table) == FirstError(table, TaggedRows(c, table))

\* The first marker that does not decode.
MarkerError(r) ==
    IF TableOf(r.channel) # None /\ BadMarker(r) THEN Error("decode", r.seq, "marker") ELSE None
FirstMarkerError(records) == Or([i \in DOMAIN records |-> MarkerError(records[i])])

\* What is wrong with a capture: the precedence promised in
\* normalize.rs:70-72.
Verdict(c) ==
    IF Frames(Records(c)) # c.frames_written THEN Error("manifest", 0, "count")
    ELSE Or(<<FirstMarkerError(Records(c)),
              TableError(c, "diff"), TableError(c, "trade"), TableError(c, "topbook")>>)

Sound(c) == c.readable /\ (\A i \in DOMAIN c.chunks : c.chunks[i].intact) /\ Verdict(c) = None

\* The rows that belong into a partition, and the partitions there are.
RowsFor(c, key) == RowsWith(TaggedRows(c, Tables[key[1]]), key)
KeysOf(c) == UNION {KeysIn(TaggedRows(c, t)) : t \in TableNames}

\* Whatever the run died or failed in, a published part is whole: it comes from a
\* capture that passed every check to its last record, and it holds the rows of
\* its partition, all of them and in the order of the capture, however that was
\* cut into chunks and however many chunks the partition was met in.
PartsAreWhole ==
    \A file \in DOMAIN parts :
        /\ Sound(parts[file].of)
        /\ parts[file].rows = RowsFor(parts[file].of, file[1])

\* A run that returns Ok has published every partition of its capture, once, and
\* its summary counts what is there.
SuccessIsComplete ==
    pc = "ok" =>
        /\ \A key \in KeysOf(capture) :
              Cardinality({f \in DOMAIN parts : f[1] = key /\ parts[f].run = runs}) = 1
        /\ run.records = Len(Records(capture))
        /\ run.rows_written = Len(TaggedRows(capture, "diff")) + Len(TaggedRows(capture, "trade"))
                                + Len(TaggedRows(capture, "topbook"))

\* Nothing is published that is not the capture's, and nothing of it is left out when
\* the run says it succeeded.
OutputIsTheCapture == PartsAreWhole /\ SuccessIsComplete

\* Streaming does not change what a run reports: when it judges its capture, it
\* gives the error that judging it whole gives, whichever chunk each offence is in.
Reports(verdict) ==
    /\ pc \in {"publish", "ok"} => verdict = None
    /\ pc = "abort" => failure = verdict
    /\ pc = "failed" => failure.kind \in {"io", "input", "store"} \/ failure = verdict
VerdictIsTheWholes == Reports(Verdict(capture))

\* part_path counts files to find a free name: that works because the parts of a
\* partition are numbered from zero without a hole, after crashes and halves too.
PartsAreNumbered ==
    \A file \in DOMAIN parts : \A n \in 0..file[2] : <<file[1], n>> \in DOMAIN parts

\* A published part is never overwritten, renamed away or deleted: not by a later
\* run, not by one that fails.
PartsAreFinal ==
    [][\A file \in DOMAIN parts : file \in DOMAIN parts' /\ parts'[file] = parts[file]]_parts

\* A run that read its capture through and found it wrong leaves nothing behind, not
\* a staging file and not a part.  (One that stops in the middle of the stream, or
\* of the renames, does: nothing cleans up after it.)
JudgedWrongLeavesNothing ==
    pc = "failed" /\ failure.kind \notin {"io", "input", "store", "arrow"} /\ runs = 1 =>
        staging = <<>> /\ parts = <<>>
=============================================================================
