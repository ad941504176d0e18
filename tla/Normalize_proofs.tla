--------------------------- MODULE Normalize_proofs ---------------------------
(***************************************************************************)
(* Proofs about Normalize for any captures, cut into chunks anyhow, and    *)
(* any number of runs into one output directory: a published part is       *)
(* final, the parts of a partition are numbered without a hole, a first    *)
(* run that judges its capture wrong leaves nothing behind, a run reports  *)
(* what judging its capture whole would report, what it publishes is the   *)
(* capture's rows, all of them and in order, and what is published can be  *)
(* replayed, with the calls that replaying the capture makes.              *)
(*                                                                         *)
(* The arguments:                                                          *)
(*   NumberInv   part_path names a part by how many there are, so the name *)
(*               is free if the numbers in use are the first ones.  A      *)
(*               writer keeps its number; it is still free when its file   *)
(*               is renamed, for each partition has one writer and only    *)
(*               renames add parts.                                        *)
(*   TidyInv     while the first run reads, every staging file has its     *)
(*               writer, and abort_writers deletes the files of writers.   *)
(*   StreamInv   the counters, keys seen and errors of StreamRun are those *)
(*               of the records given so far, judged as one sequence       *)
(*               (Describes), for ingest keeps that record by record.      *)
(*   FlushInv    what a staging file has, and what waits in memory for it, *)
(*               are together the rows of its partition among the records  *)
(*               given so far; the rows of every group fit their schema.   *)
(*   PublishInv  a partition of a capture that passed has a writer or just *)
(*               one part of this run, and the parts there are are whole.  *)
(*   TreeInv     the parts are finitely many, each of a capture and under  *)
(*               a table's name; so the tree, sorted and read, gives the   *)
(*               rows of sound captures, which have every column asked for *)
(*   FreshInv    what the present run published is of the present capture; *)
(*               so in a fresh directory the parts are a tree of that      *)
(*               capture (TreeOf): its rows are the capture's, each once,  *)
(*               each names its place in the capture (PlaceIsKey), and     *)
(*               sorting by that name undoes the spreading (TreeInOrder).  *)
(*               A row alone reads back as its record's call (RoadsAgree). *)
(***************************************************************************)
EXTENDS Replays, SequenceLemmas

PartsOf(key) == {file \in DOMAIN parts : file[1] = key}

\* The parts of a partition carry the first numbers.
Numbered(key) ==
    /\ IsFiniteSet(PartsOf(key))
    /\ PartsOf(key) = {<<key, n>> : n \in 0..NextPart(key) - 1}

NumberInv ==
    /\ \A file \in DOMAIN parts : Numbered(file[1])
    /\ \A key \in DOMAIN writers : writers[key] = NextPart(key)

\* While the first run reads, no part is there, and every staging file has its writer.
Streaming == pc \in {"start", "read", "flush", "abort"}
HasWriter(file) == \E key \in DOMAIN writers : file = <<key, writers[key]>>

TidyInv ==
    /\ runs \in Nat \ {0}
    /\ staging = [file \in DOMAIN staging |-> staging[file]]
    /\ runs = 1 /\ Streaming => parts = <<>> /\ \A file \in DOMAIN staging : HasWriter(file)
    /\ JudgedWrongLeavesNothing

-----------------------------------------------------------------------------
\* A partition without parts has its parts numbered too.
LEMMA AllNumbered ==
    ASSUME NumberInv, NEW key
    PROVE  Numbered(key) /\ NextPart(key) \in Nat
<1>1. CASE \E file \in DOMAIN parts : file[1] = key
  <2>1. Numbered(key)
    BY <1>1 DEF NumberInv
  <2>2. NextPart(key) = Cardinality(PartsOf(key))
    BY DEF NextPart, PartsOf
  <2> QED
    BY <2>1, <2>2, FS_CardinalityType DEF Numbered
<1>2. CASE ~\E file \in DOMAIN parts : file[1] = key
  <2>1. PartsOf(key) = {}
    BY <1>2 DEF PartsOf
  <2>2. NextPart(key) = 0
    BY <2>1, FS_EmptySet DEF NextPart, PartsOf
  <2>3. {<<key, n>> : n \in 0..NextPart(key) - 1} = {}
    BY <2>2
  <2> QED
    BY <2>1, <2>2, <2>3, FS_EmptySet DEF Numbered
<1> QED
  BY <1>1, <1>2

\* A rename takes the name that is free, and the partition stays numbered.
LEMMA PublishKeepsNumbers ==
    ASSUME NumberInv, Publish
    PROVE  /\ NumberInv'
           /\ \A file \in DOMAIN parts : file \in DOMAIN parts' /\ parts'[file] = parts[file]
<1>1. PICK key \in DOMAIN writers :
        LET file == <<key, writers[key]>>
        IN  /\ parts' = With(parts, file, [rows |-> staging[file], of |-> capture, run |-> runs])
            /\ writers' = Without(writers, key)
  BY DEF Publish
<1> DEFINE file == <<key, writers[key]>>
<1>2. DOMAIN parts' = DOMAIN parts \cup {file}
  BY <1>1 DEF With
<1>3. Numbered(key) /\ NextPart(key) \in Nat /\ writers[key] = NextPart(key)
  BY AllNumbered DEF NumberInv
<1>4. file \notin DOMAIN parts
  <2>1. file \notin PartsOf(key)
    BY <1>3 DEF Numbered
  <2> QED
    BY <2>1 DEF PartsOf
<1>5. \A old \in DOMAIN parts : old \in DOMAIN parts' /\ parts'[old] = parts[old]
  BY <1>1, <1>4 DEF With
<1>6. \A k : k # key => PartsOf(k)' = PartsOf(k) /\ NextPart(k)' = NextPart(k)
  <2> SUFFICES ASSUME NEW k, k # key
               PROVE  PartsOf(k)' = PartsOf(k) /\ NextPart(k)' = NextPart(k)
    OBVIOUS
  <2>1. PartsOf(k)' = PartsOf(k)
    BY <1>2 DEF PartsOf
  <2> QED
    BY <2>1 DEF NextPart, PartsOf
<1>7. PartsOf(key)' = PartsOf(key) \cup {file}
  BY <1>2 DEF PartsOf
<1>8. IsFiniteSet(PartsOf(key)') /\ NextPart(key)' = NextPart(key) + 1
  <2>1. file \notin PartsOf(key)
    BY <1>4 DEF PartsOf
  <2>2. /\ IsFiniteSet(PartsOf(key) \cup {file})
        /\ Cardinality(PartsOf(key) \cup {file}) = Cardinality(PartsOf(key)) + 1
    BY <1>3, <2>1, FS_AddElement DEF Numbered
  <2>3. NextPart(key) = Cardinality(PartsOf(key)) /\ NextPart(key)' = Cardinality(PartsOf(key)')
    BY DEF NextPart, PartsOf
  <2> QED
    BY <1>7, <2>2, <2>3
<1>9. Numbered(key)'
  <2>1. PartsOf(key)' = {<<key, n>> : n \in 0..NextPart(key)' - 1}
    BY <1>3, <1>7, <1>8 DEF Numbered
  <2> QED
    BY <1>8, <2>1 DEF Numbered
<1>10. ASSUME NEW f \in DOMAIN parts'
       PROVE  Numbered(f[1])'
  <2>1. CASE f[1] = key
    BY <1>9, <2>1
  <2>2. CASE f[1] # key
    <3>1. Numbered(f[1])
      BY AllNumbered
    <3> QED
      BY <1>6, <2>2, <3>1 DEF Numbered
  <2> QED
    BY <2>1, <2>2
<1>11. ASSUME NEW k \in DOMAIN writers'
       PROVE  writers'[k] = NextPart(k)'
  <2>1. k \in DOMAIN writers /\ k # key /\ writers'[k] = writers[k]
    BY <1>1 DEF Without
  <2> QED
    BY <1>6, <2>1 DEF NumberInv
<1> QED
  BY <1>5, <1>10, <1>11 DEF NumberInv

\* Steps that add no part: writers are opened with the next number, or dropped.
LEMMA OthersKeepNumbers ==
    ASSUME NumberInv, [Next]_vars, ~Publish
    PROVE  NumberInv' /\ parts' = parts
<1>1. parts' = parts
  BY DEF Next, Process, Start, ReadChunk, RefuseChunk, FlushGroup, FlushFails, ChunkDone, Judge,
         AbortWriter, Aborted, PublishFails, Published, Crash, Rerun, vars
<1>2. \A k : PartsOf(k)' = PartsOf(k) /\ NextPart(k)' = NextPart(k)
  BY <1>1 DEF PartsOf, NextPart
<1>3. \A k \in DOMAIN writers' : writers'[k] = NextPart(k)
  <2>1. CASE UNCHANGED writers
    BY <2>1 DEF NumberInv
  <2>2. CASE FlushGroup
    <3>1. PICK key : \E n :
            /\ writers' = With(writers, key, n)
            /\ n = IF key \in DOMAIN writers THEN writers[key] ELSE NextPart(key)
      BY <2>2 DEF FlushGroup
    <3> QED
      BY <3>1 DEF NumberInv, With
  <2>3. CASE AbortWriter
    BY <2>3 DEF AbortWriter, Without, NumberInv
  <2>4. CASE Rerun
    BY <2>4 DEF Rerun
  <2> QED
    BY <2>1, <2>2, <2>3, <2>4
    DEF Next, Process, Start, ReadChunk, RefuseChunk, FlushFails, ChunkDone, Judge,
        Aborted, PublishFails, Published, Crash, vars
<1>4. \A f \in DOMAIN parts' : Numbered(f[1])'
  BY <1>1, <1>2 DEF NumberInv, Numbered
<1> QED
  BY <1>1, <1>2, <1>3, <1>4 DEF NumberInv

\* The numbers stay in order, whichever steps are taken.
THEOREM NumberInvariant == Spec => []NumberInv
<1>1. Init => NumberInv
  BY DEF Init, NumberInv
<1>2. NumberInv /\ [Next]_vars => NumberInv'
  BY PublishKeepsNumbers, OthersKeepNumbers
<1> QED
  BY <1>1, <1>2, PTL DEF Spec

\* Whatever is normalized into an output directory, how often, and wherever the runs
\* die, fail or are judged wrong: counting the parts (part_path) never gives a name
\* that is taken, so a rename of finish never overwrites a published part.
THEOREM PublishedPartsAreFinal == Spec => PartsAreFinal
<1>1. NumberInv /\ [Next]_vars =>
        [\A file \in DOMAIN parts : file \in DOMAIN parts' /\ parts'[file] = parts[file]]_parts
  BY PublishKeepsNumbers, OthersKeepNumbers
<1> QED
  BY <1>1, NumberInvariant, PTL DEF Spec, PartsAreFinal

\* The numbers of a partition's parts have no hole, after crashes and halves too.
THEOREM PartsNumbered == Spec => []PartsAreNumbered
<1>1. NumberInv => PartsAreNumbered
  <2> SUFFICES ASSUME NumberInv, NEW file \in DOMAIN parts, NEW n \in 0..file[2]
               PROVE  <<file[1], n>> \in DOMAIN parts
    BY DEF PartsAreNumbered
  <2>1. Numbered(file[1]) /\ NextPart(file[1]) \in Nat
    BY AllNumbered
  <2>2. file \in PartsOf(file[1])
    BY DEF PartsOf
  <2>3. PICK m \in 0..NextPart(file[1]) - 1 : file = <<file[1], m>>
    BY <2>1, <2>2 DEF Numbered
  <2>4. file[2] = m
    BY <2>3
  <2>5. n \in 0..NextPart(file[1]) - 1
    BY <2>1, <2>3, <2>4
  <2>6. <<file[1], n>> \in PartsOf(file[1])
    BY <2>1, <2>5 DEF Numbered
  <2> QED
    BY <2>6 DEF PartsOf
<1> QED
  BY <1>1, NumberInvariant, PTL

-----------------------------------------------------------------------------
\* A map without keys is the empty one.
LEMMA EmptyStaging ==
    ASSUME staging = [file \in DOMAIN staging |-> staging[file]], DOMAIN staging = {}
    PROVE  staging = <<>>
OBVIOUS

\* A writer is opened with its staging file, in the same step.
LEMMA FlushTidy ==
    ASSUME TidyInv, FlushGroup
    PROVE  TidyInv'
<1>1. PICK key, n, rows :
        /\ writers' = With(writers, key, n)
        /\ staging' = With(staging, <<key, n>>, rows)
        /\ key \in DOMAIN writers => n = writers[key]
  BY DEF FlushGroup
<1>2. /\ pc = "flush" /\ pc' = "flush"
      /\ UNCHANGED <<failure, parts, runs>>
  BY DEF FlushGroup
<1>3. \A k \in DOMAIN writers : k \in DOMAIN writers' /\ writers'[k] = writers[k]
  BY <1>1 DEF With
<1>4. key \in DOMAIN writers' /\ writers'[key] = n
  BY <1>1 DEF With
<1>5. \A file \in DOMAIN staging : HasWriter(file) => HasWriter(file)'
  BY <1>3 DEF HasWriter
<1>6. HasWriter(<<key, n>>)'
  BY <1>4 DEF HasWriter
<1>7. DOMAIN staging' = DOMAIN staging \cup {<<key, n>>}
  BY <1>1 DEF With
<1>8. staging' = [file \in DOMAIN staging' |-> staging'[file]]
  BY <1>1 DEF With
<1>9. runs' = 1 /\ Streaming' => parts' = <<>> /\ \A file \in DOMAIN staging' : HasWriter(file)'
  BY <1>2, <1>5, <1>6, <1>7 DEF TidyInv, Streaming
<1>10. JudgedWrongLeavesNothing'
  BY <1>2 DEF JudgedWrongLeavesNothing
<1> QED
  BY <1>2, <1>8, <1>9, <1>10 DEF TidyInv

\* A staging file goes with its writer; those that stay keep theirs.
LEMMA AbortTidy ==
    ASSUME TidyInv, AbortWriter
    PROVE  TidyInv'
<1>1. PICK key \in DOMAIN writers :
        /\ staging' = Without(staging, <<key, writers[key]>>)
        /\ writers' = Without(writers, key)
  BY DEF AbortWriter
<1>2. /\ pc = "abort" /\ pc' = "abort"
      /\ UNCHANGED <<failure, parts, runs>>
  BY DEF AbortWriter
<1>3. DOMAIN staging' = DOMAIN staging \ {<<key, writers[key]>>}
  BY <1>1 DEF Without
<1>4. \A k \in DOMAIN writers \ {key} : k \in DOMAIN writers' /\ writers'[k] = writers[k]
  BY <1>1 DEF Without
<1>5. ASSUME NEW file \in DOMAIN staging', HasWriter(file)
      PROVE  HasWriter(file)'
  <2>1. PICK k \in DOMAIN writers : file = <<k, writers[k]>>
    BY <1>5 DEF HasWriter
  <2>2. k # key
    BY <1>3, <2>1
  <2> QED
    BY <1>4, <2>1, <2>2 DEF HasWriter
<1>6. staging' = [file \in DOMAIN staging' |-> staging'[file]]
  BY <1>1 DEF Without
<1>7. runs' = 1 /\ Streaming' => parts' = <<>> /\ \A file \in DOMAIN staging' : HasWriter(file)'
  BY <1>2, <1>3, <1>5 DEF TidyInv, Streaming
<1>8. JudgedWrongLeavesNothing'
  BY <1>2 DEF JudgedWrongLeavesNothing
<1> QED
  BY <1>2, <1>6, <1>7, <1>8 DEF TidyInv

\* When the last writer is gone, so is the last staging file.
LEMMA AbortedTidy ==
    ASSUME TidyInv, Aborted
    PROVE  TidyInv'
<1>1. /\ pc = "abort" /\ pc' = "failed"
      /\ DOMAIN writers = {}
      /\ UNCHANGED <<failure, staging, parts, runs>>
  BY DEF Aborted
<1>2. runs = 1 => parts = <<>> /\ DOMAIN staging = {}
  BY <1>1 DEF TidyInv, Streaming, HasWriter
<1>3. runs = 1 => staging = <<>>
  BY <1>2, EmptyStaging DEF TidyInv
<1>4. ~Streaming'
  BY <1>1 DEF Streaming
<1> QED
  BY <1>1, <1>2, <1>3, <1>4 DEF TidyInv, JudgedWrongLeavesNothing

\* A part is published when the run streams no more, and is not failed.
LEMMA PublishTidy ==
    ASSUME TidyInv, Publish
    PROVE  TidyInv'
<1>1. pc' = "publish" /\ runs' = runs
  BY DEF Publish
<1>2. staging' = [file \in DOMAIN staging' |-> staging'[file]]
  BY DEF Publish, Without
<1> QED
  BY <1>1, <1>2 DEF TidyInv, Streaming, JudgedWrongLeavesNothing

\* The steps that leave staging files, writers and parts alone.
LEMMA QuietTidy ==
    ASSUME TidyInv, UNCHANGED <<writers, staging, parts, runs>>,
           Streaming' => Streaming,
           pc' = "failed" => \/ failure'.kind \in {"io", "input", "store", "arrow"}
                             \/ UNCHANGED <<pc, failure>>
    PROVE  TidyInv'
BY DEF TidyInv, HasWriter, JudgedWrongLeavesNothing

\* A first run that read its capture through and found it wrong leaves neither a
\* staging file nor a part: abort_writers deletes the files of all open writers, and
\* those are all the files there are.
THEOREM JudgedWrongLeavesNothingTheorem == Spec => []JudgedWrongLeavesNothing
<1>1. Init => TidyInv
  BY DEF Init, TidyInv, JudgedWrongLeavesNothing
<1>2. TidyInv /\ [Next]_vars => TidyInv'
  <2> SUFFICES ASSUME TidyInv, [Next]_vars
               PROVE  TidyInv'
    OBVIOUS
  <2>1. CASE FlushGroup
    BY <2>1, FlushTidy
  <2>2. CASE AbortWriter
    BY <2>2, AbortTidy
  <2>3. CASE Aborted
    BY <2>3, AbortedTidy
  <2>4. CASE Publish
    BY <2>4, PublishTidy
  <2>5. CASE Rerun
    <3>1. /\ runs' \in Nat \ {0} /\ runs' # 1
          /\ staging' = staging
      BY <2>5 DEF Rerun, TidyInv
    <3> QED
      BY <3>1 DEF TidyInv, JudgedWrongLeavesNothing
  <2>6. CASE Start \/ RefuseChunk \/ FlushFails \/ PublishFails
    BY <2>6, QuietTidy
    DEF Start, RefuseChunk, FlushFails, PublishFails, Fail, Error, Streaming
  <2>7. CASE ReadChunk \/ ChunkDone \/ Judge \/ Published \/ Crash \/ UNCHANGED vars
    BY <2>7, QuietTidy DEF ReadChunk, ChunkDone, Judge, Published, Crash, vars, Streaming
  <2> QED
    BY <2>1, <2>2, <2>3, <2>4, <2>5, <2>6, <2>7 DEF Next, Process
<1>3. TidyInv => JudgedWrongLeavesNothing
  BY DEF TidyInv
<1> QED
  BY <1>1, <1>2, <1>3, PTL DEF Spec
-----------------------------------------------------------------------------
\* Ingest, row by row and record by record, is judging the rows one after another.

\* The first fault of a longer list is the first of the shorter, or the new one.
LEMMA FirstFaultAppend ==
    ASSUME NEW n \in Nat, NEW s, NEW t, DOMAIN s = 1..n, DOMAIN t = 1..n + 1,
           \A i \in 1..n : t[i] = s[i]
    PROVE  Or(t) = IF Or(s) # None THEN Or(s) ELSE t[n + 1]
<1> DEFINE Bad(f) == {i \in DOMAIN f : f[i] # None}
           Least(i, f) == i \in Bad(f) /\ \A j \in Bad(f) : i <= j
<1>1. ASSUME NEW f, DOMAIN f \in SUBSET Nat
      PROVE  /\ Bad(f) = {} => Or(f) = None
             /\ Bad(f) # {} => Or(f) # None
             /\ \A i : Least(i, f) => Or(f) = f[i]
             /\ Bad(f) # {} => \E i : Least(i, f)
  <2>1. Or(f) = IF Bad(f) = {} THEN None ELSE f[CHOOSE i \in Bad(f) : \A j \in Bad(f) : i <= j]
    BY DEF Or, FirstFault
  <2>2. Bad(f) # {} => \E i : Least(i, f)
    BY <1>1, LeastNatural
  <2>3. ASSUME NEW i, Least(i, f)
        PROVE  Or(f) = f[i] /\ f[i] # None
    <3>1. PICK k : k = CHOOSE i2 \in Bad(f) : \A j \in Bad(f) : i2 <= j
      OBVIOUS
    <3>2. k \in Bad(f) /\ \A j \in Bad(f) : k <= j
      BY <2>3, <3>1
    <3>3. k = i
      BY <1>1, <2>3, <3>2
    <3> QED
      BY <2>1, <2>3, <3>1, <3>3
  <2> HIDE DEF Bad, Least
  <2> QED
    BY <2>1, <2>2, <2>3
<1>2. DOMAIN s \in SUBSET Nat /\ DOMAIN t \in SUBSET Nat
  OBVIOUS
<1>3. Bad(t) = Bad(s) \cup {i \in {n + 1} : t[n + 1] # None}
  OBVIOUS
<1>4. CASE Bad(s) = {}
  <2>1. Or(s) = None
    BY <1>1, <1>2, <1>4
  <2>2. CASE t[n + 1] = None
    <3>1. Bad(t) = {}
      BY <1>3, <1>4, <2>2
    <3> QED
      BY <1>1, <1>2, <2>1, <2>2, <3>1
  <2>3. CASE t[n + 1] # None
    <3>1. Bad(t) = {n + 1}
      BY <1>3, <1>4, <2>3
    <3>2. Least(n + 1, t)
      BY <3>1
    <3> QED
      BY <1>1, <1>2, <2>1, <3>2
  <2> QED
    BY <2>2, <2>3
<1>5. CASE Bad(s) # {}
  <2>1. PICK i : Least(i, s) /\ Or(s) = s[i] /\ Or(s) # None
    BY <1>1, <1>2, <1>5
  <2>2. i \in 1..n /\ t[i] = s[i]
    BY <2>1
  <2>3. Least(i, t)
    BY <1>3, <2>1, <2>2
  <2> QED
    BY <1>1, <1>2, <2>1, <2>2, <2>3
<1> QED
  BY <1>4, <1>5

-----------------------------------------------------------------------------
Fields == {"buffer", "seen", "error", "decode_error", "records", "venue_frames", "rows_written", "skipped"}
IsRun(so) ==
    /\ DOMAIN so = Fields
    /\ DOMAIN so.buffer = TableNames
    /\ DOMAIN so.seen = TableNames
    /\ DOMAIN so.error = TableNames

\* The fields that no row of a record changes.
SameCounts(so, new) ==
    /\ new.decode_error = so.decode_error
    /\ new.records = so.records
    /\ new.venue_frames = so.venue_frames
    /\ new.rows_written = so.rows_written

SameElsewhere(so, new, table) ==
    \A t \in TableNames \ {table} :
        new.buffer[t] = so.buffer[t] /\ new.seen[t] = so.seen[t] /\ new.error[t] = so.error[t]

\* What one row changes in StreamRun: its table, and nothing else.
LEMMA IngestRowFields ==
    ASSUME NEW so, IsRun(so), NEW table \in TableNames, NEW key, NEW row,
           NEW new, new = IngestRow(so, table, key, row),
           NEW why, why = IF KeyOf(table, row) \in so.seen[table] THEN "duplicate" ELSE RowFault(table, row)
    PROVE  /\ IsRun(new) /\ SameCounts(so, new) /\ SameElsewhere(so, new, table)
           /\ new.buffer[table] = Append(so.buffer[table], [key |-> key, row |-> row])
           /\ so.error[table] # None => new.error[table] = so.error[table]
           /\ so.error[table] = None =>
                  /\ new.seen[table] = so.seen[table] \cup {KeyOf(table, row)}
                  /\ new.error[table] = IF why = None THEN None ELSE Error(table, row.seq, why)
<1>1. PICK judged : judged = IF so.error[table] # None THEN so
                     ELSE [so EXCEPT !.seen[table] = @ \cup {KeyOf(table, row)},
                                     !.error[table] = IF why = None THEN None ELSE Error(table, row.seq, why)]
  OBVIOUS
<1>2. new = [judged EXCEPT !.buffer[table] = Append(@, [key |-> key, row |-> row])]
  BY <1>1 DEF IngestRow
<1>3. /\ IsRun(judged) /\ SameCounts(so, judged) /\ SameElsewhere(so, judged, table)
      /\ judged.buffer = so.buffer
      /\ so.error[table] # None => judged.error[table] = so.error[table]
      /\ so.error[table] = None =>
             /\ judged.seen[table] = so.seen[table] \cup {KeyOf(table, row)}
             /\ judged.error[table] = IF why = None THEN None ELSE Error(table, row.seq, why)
  <2>1. CASE so.error[table] # None
    BY <1>1, <2>1 DEF SameCounts, SameElsewhere
  <2>2. CASE so.error[table] = None
    <3> DEFINE keys == so.seen[table] \cup {KeyOf(table, row)}
               error == IF why = None THEN None ELSE Error(table, row.seq, why)
    <3>1. judged = [so EXCEPT !.seen[table] = keys, !.error[table] = error]
      BY <1>1, <2>2
    <3> HIDE DEF keys, error
    <3>2. /\ DOMAIN judged = Fields
          /\ judged.seen = [so.seen EXCEPT ![table] = keys]
          /\ judged.error = [so.error EXCEPT ![table] = error]
          /\ judged.buffer = so.buffer
          /\ judged.decode_error = so.decode_error /\ judged.records = so.records
          /\ judged.venue_frames = so.venue_frames /\ judged.rows_written = so.rows_written
      BY <3>1 DEF IsRun, Fields
    <3>3. IsRun(judged) /\ SameCounts(so, judged) /\ SameElsewhere(so, judged, table)
      BY <3>2 DEF IsRun, SameCounts, SameElsewhere
    <3>4. judged.seen[table] = keys /\ judged.error[table] = error
      BY <3>2 DEF IsRun
    <3> QED
      BY <2>2, <3>2, <3>3, <3>4 DEF keys, error
  <2> QED
    BY <2>1, <2>2
<1>4. /\ DOMAIN new = Fields
      /\ new.buffer = [judged.buffer EXCEPT ![table] = Append(judged.buffer[table], [key |-> key, row |-> row])]
      /\ new.seen = judged.seen /\ new.error = judged.error
      /\ SameCounts(judged, new)
  BY <1>2, <1>3 DEF IsRun, Fields, SameCounts
<1>5. IsRun(new) /\ SameCounts(so, new) /\ SameElsewhere(so, new, table)
  BY <1>3, <1>4 DEF IsRun, SameCounts, SameElsewhere
<1>6. new.buffer[table] = Append(so.buffer[table], [key |-> key, row |-> row])
  BY <1>3, <1>4 DEF IsRun
<1> QED
  BY <1>3, <1>4, <1>5, <1>6

\* The keys of rows, and what ingest knows of the rows of a table so far: the first
\* that is wrong and, until there is one, the keys.
KeysSeen(table, tagged) == {KeyOf(table, tagged[i].row) : i \in DOMAIN tagged}
Judges(so, table, tagged) ==
    /\ so.error[table] = FirstError(table, tagged)
    /\ so.error[table] = None => so.seen[table] = KeysSeen(table, tagged)

\* One more row: the first error of a table, and the keys seen in it.
LEMMA FirstErrorAppend ==
    ASSUME NEW T, NEW tagged \in Seq(T), NEW x \in T, NEW table,
           NEW why, why = IF KeyOf(table, x.row) \in KeysSeen(table, tagged)
                          THEN "duplicate" ELSE RowFault(table, x.row)
    PROVE  /\ FirstError(table, Append(tagged, x)) =
                  IF FirstError(table, tagged) # None THEN FirstError(table, tagged)
                  ELSE IF why = None THEN None ELSE Error(table, x.row.seq, why)
           /\ KeysSeen(table, Append(tagged, x)) = KeysSeen(table, tagged) \cup {KeyOf(table, x.row)}
<1> DEFINE n == Len(tagged)
           more == Append(tagged, x)
<1>1. /\ n \in Nat /\ DOMAIN tagged = 1..n /\ DOMAIN more = 1..n + 1
      /\ more[n + 1] = x /\ \A i \in 1..n : more[i] = tagged[i]
  OBVIOUS
<1> HIDE DEF n, more
<1> DEFINE rows == [i \in DOMAIN tagged |-> tagged[i].row]
           rows2 == [i \in DOMAIN more |-> more[i].row]
<1>2. /\ DOMAIN rows = 1..n /\ DOMAIN rows2 = 1..n + 1 /\ rows2[n + 1] = x.row
      /\ \A i \in 1..n : rows2[i] = rows[i]
      /\ \A i \in 1..n : rows[i] = tagged[i].row
  BY <1>1
<1> HIDE DEF rows, rows2
<1>3. \A i \in 1..n : ErrorAt(table, rows2, i) = ErrorAt(table, rows, i)
  <2> SUFFICES ASSUME NEW i \in 1..n
      PROVE  ErrorAt(table, rows2, i) = ErrorAt(table, rows, i)
    OBVIOUS
  <2>1. \A j \in 1..i - 1 : rows2[j] = rows[j]
    BY <1>1, <1>2
  <2>2. rows2[i] = rows[i]
    BY <1>2
  <2>3. Offence(table, rows2, i) = Offence(table, rows, i)
    BY <2>1, <2>2 DEF Offence
  <2> QED
    BY <2>2, <2>3 DEF ErrorAt
<1>4. ErrorAt(table, rows2, n + 1) = IF why = None THEN None ELSE Error(table, x.row.seq, why)
  <2>1. (n + 1) - 1 = n
    BY <1>1
  <2>2. (\E j \in 1..n : KeyOf(table, rows2[j]) = KeyOf(table, x.row)) <=> KeyOf(table, x.row) \in KeysSeen(table, tagged)
    BY <1>1, <1>2 DEF KeysSeen
  <2>3. Offence(table, rows2, n + 1) = why
    BY <1>2, <2>1, <2>2 DEF Offence
  <2> QED
    BY <1>2, <2>3 DEF ErrorAt
<1>5. FirstError(table, tagged) = Or([i \in DOMAIN rows |-> ErrorAt(table, rows, i)])
  BY DEF FirstError, rows
<1>6. FirstError(table, more) = Or([i \in DOMAIN rows2 |-> ErrorAt(table, rows2, i)])
  BY DEF FirstError, rows2
<1> DEFINE s == [i \in DOMAIN rows |-> ErrorAt(table, rows, i)]
           t == [i \in DOMAIN rows2 |-> ErrorAt(table, rows2, i)]
<1>7. DOMAIN s = 1..n /\ DOMAIN t = 1..n + 1 /\ \A i \in 1..n : t[i] = s[i]
  BY <1>1, <1>2, <1>3
<1>8. t[n + 1] = IF why = None THEN None ELSE Error(table, x.row.seq, why)
  BY <1>1, <1>2, <1>4
<1>9. FirstError(table, tagged) = Or(s) /\ FirstError(table, more) = Or(t)
  BY <1>5, <1>6
<1> HIDE DEF s, t
<1>10. Or(t) = IF Or(s) # None THEN Or(s) ELSE t[n + 1]
  BY <1>1, <1>7, FirstFaultAppend
<1>11. KeysSeen(table, more) = KeysSeen(table, tagged) \cup {KeyOf(table, x.row)}
  BY <1>1 DEF KeysSeen
<1> QED
  BY <1>8, <1>9, <1>10, <1>11 DEF more

\* A row is judged as the row after those already judged.
LEMMA IngestRowJudges ==
    ASSUME NEW so, IsRun(so), NEW table \in TableNames, NEW key, NEW row,
           NEW T, NEW tagged \in Seq(T), [key |-> key, row |-> row] \in T,
           Judges(so, table, tagged),
           NEW new, new = IngestRow(so, table, key, row)
    PROVE  Judges(new, table, Append(tagged, [key |-> key, row |-> row]))
<1>1. PICK x \in T : x = [key |-> key, row |-> row] /\ x.row = row
  OBVIOUS
<1>2. PICK why : why = IF KeyOf(table, row) \in so.seen[table] THEN "duplicate" ELSE RowFault(table, row)
  OBVIOUS
<1>3. /\ so.error[table] # None => new.error[table] = so.error[table]
      /\ so.error[table] = None =>
             /\ new.seen[table] = so.seen[table] \cup {KeyOf(table, row)}
             /\ new.error[table] = IF why = None THEN None ELSE Error(table, row.seq, why)
  BY <1>2, IngestRowFields
<1>4. CASE so.error[table] # None
  <2>1. PICK y : y = IF KeyOf(table, x.row) \in KeysSeen(table, tagged) THEN "duplicate" ELSE RowFault(table, x.row)
    OBVIOUS
  <2>2. FirstError(table, Append(tagged, x)) = FirstError(table, tagged)
    BY <1>4, <2>1, FirstErrorAppend DEF Judges
  <2> QED
    BY <1>1, <1>3, <1>4, <2>2 DEF Judges
<1>5. CASE so.error[table] = None
  <2>1. so.seen[table] = KeysSeen(table, tagged) /\ FirstError(table, tagged) = None
    BY <1>5 DEF Judges
  <2>2. /\ FirstError(table, Append(tagged, x)) = IF why = None THEN None ELSE Error(table, row.seq, why)
        /\ KeysSeen(table, Append(tagged, x)) = KeysSeen(table, tagged) \cup {KeyOf(table, row)}
    BY <1>1, <1>2, <2>1, FirstErrorAppend
  <2> QED
    BY <1>1, <1>3, <1>5, <2>1, <2>2 DEF Judges
<1> QED
  BY <1>4, <1>5

-----------------------------------------------------------------------------
\* What the loops over the rows of a record and the records of a chunk have after
\* each of them.
RowLoop(g, so, table, key, rows, n) ==
    g = [i \in 0..n |-> IF i = 0 THEN so ELSE IngestRow(g[i - 1], table, key, rows[i])]
RecordLoop(g, so, records, n) ==
    g = [i \in 0..n |-> IF i = 0 THEN so ELSE Ingest(g[i - 1], records[i])]

\* The loop over the rows of a record is a function that exists,
LEMMA RowLoopThere ==
    ASSUME NEW so, NEW table, NEW key, NEW rows, NEW n \in Nat
    PROVE  \E g : RowLoop(g, so, table, key, rows, n)
<1> DEFINE S == {k \in Nat : \E g : RowLoop(g, so, table, key, rows, k)}
           At(f, i) == IF i = 0 THEN so ELSE IngestRow(f[i - 1], table, key, rows[i])
<1>1. 0 \in S
  <2> DEFINE g == [i \in 0..0 |-> so]
  <2>1. RowLoop(g, so, table, key, rows, 0)
    BY DEF RowLoop
  <2> HIDE DEF g
  <2> QED
    BY <2>1
<1>2. ASSUME NEW k \in Nat, k \in S
      PROVE  k + 1 \in S
  <2>1. PICK g : RowLoop(g, so, table, key, rows, k)
    BY <1>2
  <2> DEFINE h == [i \in 0..k + 1 |-> At(g, i)]
  <2>2. \A i \in 0..k : h[i] = g[i]
    <3>1. g = [i \in 0..k |-> At(g, i)]
      BY <2>1 DEF RowLoop
    <3>2. \A i \in 0..k : i \in 0..k + 1
      OBVIOUS
    <3> HIDE DEF At
    <3> QED
      BY <3>1, <3>2
  <2>3. \A i \in 0..k + 1 : i # 0 => i - 1 \in 0..k
    OBVIOUS
  <2>4. \A i \in 0..k + 1 : At(h, i) = At(g, i)
    <3> HIDE DEF h
    <3> QED
      BY <2>2, <2>3
  <2>5. h = [i \in 0..k + 1 |-> At(h, i)]
    <3> HIDE DEF At
    <3> QED
      BY <2>4
  <2>6. RowLoop(h, so, table, key, rows, k + 1)
    <3> HIDE DEF h
    <3> QED
      BY <2>5 DEF RowLoop
  <2> HIDE DEF h
  <2> QED
    BY <2>6
<1> HIDE DEF S
<1>3. Nat \subseteq S
  BY <1>1, <1>2, SetInduction
<1> QED
  BY <1>3 DEF S

\* and so is the loop over the records of a chunk,
LEMMA RecordLoopThere ==
    ASSUME NEW so, NEW records, NEW n \in Nat
    PROVE  \E g : RecordLoop(g, so, records, n)
<1> DEFINE S == {k \in Nat : \E g : RecordLoop(g, so, records, k)}
           At(f, i) == IF i = 0 THEN so ELSE Ingest(f[i - 1], records[i])
<1>1. 0 \in S
  <2> DEFINE g == [i \in 0..0 |-> so]
  <2>1. RecordLoop(g, so, records, 0)
    BY DEF RecordLoop
  <2> HIDE DEF g
  <2> QED
    BY <2>1
<1>2. ASSUME NEW k \in Nat, k \in S
      PROVE  k + 1 \in S
  <2>1. PICK g : RecordLoop(g, so, records, k)
    BY <1>2
  <2> DEFINE h == [i \in 0..k + 1 |-> At(g, i)]
  <2>2. \A i \in 0..k : h[i] = g[i]
    <3>1. g = [i \in 0..k |-> At(g, i)]
      BY <2>1 DEF RecordLoop
    <3>2. \A i \in 0..k : i \in 0..k + 1
      OBVIOUS
    <3> HIDE DEF At
    <3> QED
      BY <3>1, <3>2
  <2>3. \A i \in 0..k + 1 : i # 0 => i - 1 \in 0..k
    OBVIOUS
  <2>4. \A i \in 0..k + 1 : At(h, i) = At(g, i)
    <3> HIDE DEF h
    <3> QED
      BY <2>2, <2>3
  <2>5. h = [i \in 0..k + 1 |-> At(h, i)]
    <3> HIDE DEF At
    <3> QED
      BY <2>4
  <2>6. RecordLoop(h, so, records, k + 1)
    <3> HIDE DEF h
    <3> QED
      BY <2>5 DEF RecordLoop
  <2> HIDE DEF h
  <2> QED
    BY <2>6
<1> HIDE DEF S
<1>3. Nat \subseteq S
  BY <1>1, <1>2, SetInduction
<1> QED
  BY <1>3 DEF S

\* so each of their steps does what the body of the loop says.
LEMMA IngestRowsIsTheLoop ==
    ASSUME NEW so, NEW table, NEW key, NEW rows, Len(rows) \in Nat
    PROVE  \E g : /\ IngestRows(so, table, key, rows) = g[Len(rows)]
                  /\ g[0] = so
                  /\ \A i \in 0..Len(rows) - 1 : g[i + 1] = IngestRow(g[i], table, key, rows[i + 1])
<1> DEFINE n == Len(rows)
           f == CHOOSE g : RowLoop(g, so, table, key, rows, n)
<1>1. IngestRows(so, table, key, rows) = f[n]
  BY DEF IngestRows, RowLoop
<1>2. RowLoop(f, so, table, key, rows, n)
  BY RowLoopThere
<1> HIDE DEF f
<1>3. f[0] = so
  BY <1>2 DEF RowLoop
<1>4. \A i \in 0..n - 1 : i + 1 \in 0..n /\ i + 1 # 0 /\ (i + 1) - 1 = i
  OBVIOUS
<1>5. \A i \in 0..n - 1 : f[i + 1] = IngestRow(f[i], table, key, rows[i + 1])
  BY <1>2, <1>4 DEF RowLoop
<1> QED
  BY <1>1, <1>3, <1>5

\* The same for the records.
LEMMA IngestAllIsTheLoop ==
    ASSUME NEW so, NEW records, Len(records) \in Nat
    PROVE  \E g : /\ IngestAll(so, records) = g[Len(records)]
                  /\ g[0] = so
                  /\ \A i \in 0..Len(records) - 1 : g[i + 1] = Ingest(g[i], records[i + 1])
<1> DEFINE n == Len(records)
           f == CHOOSE g : RecordLoop(g, so, records, n)
<1>1. IngestAll(so, records) = f[n]
  BY DEF IngestAll, RecordLoop
<1>2. RecordLoop(f, so, records, n)
  BY RecordLoopThere
<1> HIDE DEF f
<1>3. f[0] = so
  BY <1>2 DEF RecordLoop
<1>4. \A i \in 0..n - 1 : i + 1 \in 0..n /\ i + 1 # 0 /\ (i + 1) - 1 = i
  OBVIOUS
<1>5. \A i \in 0..n - 1 : f[i + 1] = Ingest(f[i], records[i + 1])
  BY <1>2, <1>4 DEF RecordLoop
<1> QED
  BY <1>1, <1>3, <1>5

\* The rows of a record go to the end of the buffer of its table, and what is known
\* of the table is known of them too.
LEMMA IngestRowsJudges ==
    ASSUME NEW so, IsRun(so), NEW table \in TableNames, NEW key, NEW rows, Len(rows) \in Nat,
           NEW T, NEW tagged \in Seq(T), NEW adds \in Seq(T), so.buffer[table] \in Seq(T),
           Len(adds) = Len(rows), \A i \in 1..Len(rows) : adds[i] = [key |-> key, row |-> rows[i]],
           Judges(so, table, tagged),
           NEW new, new = IngestRows(so, table, key, rows)
    PROVE  /\ IsRun(new) /\ SameCounts(so, new) /\ SameElsewhere(so, new, table)
           /\ new.buffer[table] = so.buffer[table] \o adds
           /\ Judges(new, table, tagged \o adds)
<1> DEFINE n == Len(rows)
           First(i) == SubSeq(adds, 1, i)
           Good(u, i) == /\ IsRun(u) /\ SameCounts(so, u) /\ SameElsewhere(so, u, table)
                         /\ u.buffer[table] = so.buffer[table] \o First(i)
                         /\ Judges(u, table, tagged \o First(i))
<1>1. PICK g : /\ new = g[n]
               /\ g[0] = so
               /\ \A i \in 0..n - 1 : g[i + 1] = IngestRow(g[i], table, key, rows[i + 1])
  BY IngestRowsIsTheLoop
<1> DEFINE S == {i \in Nat : i \in 0..n => Good(g[i], i)}
<1>2. 0 \in S
  <2>1. First(0) = <<>> /\ tagged \o <<>> = tagged /\ so.buffer[table] \o <<>> = so.buffer[table]
    OBVIOUS
  <2>2. SameCounts(so, so) /\ SameElsewhere(so, so, table)
    BY DEF SameCounts, SameElsewhere
  <2>3. Good(so, 0)
    <3> HIDE DEF First
    <3> QED
      BY <2>1, <2>2
  <2> HIDE DEF Good
  <2> QED
    BY <1>1, <2>3
<1>0. n \in Nat /\ Len(adds) = n
  OBVIOUS
<1>3. ASSUME NEW i \in Nat, i \in S, i + 1 \in 0..n
      PROVE  Good(g[i + 1], i + 1)
  <2>1. i \in 0..n /\ i \in 0..n - 1 /\ i + 1 \in 1..n /\ Good(g[i], i)
    <3> HIDE DEF Good
    <3> QED
      BY <1>0, <1>3
  <2> HIDE DEF n
  <2>2. PICK was, is, row : was = g[i] /\ is = g[i + 1] /\ row = rows[i + 1] /\ is = IngestRow(was, table, key, row)
    BY <1>1, <2>1
  <2>3. PICK x \in T : x = [key |-> key, row |-> row] /\ x = adds[i + 1]
    <3>1. adds[i + 1] \in T
      BY <1>0, <2>1
    <3>2. adds[i + 1] = [key |-> key, row |-> rows[i + 1]]
      BY <2>1 DEF n
    <3> QED
      BY <2>2, <3>1, <3>2
  <2>4. First(i) \in Seq(T) /\ First(i + 1) = Append(First(i), x)
    BY <1>0, <2>1, <2>3
  <2> HIDE DEF First
  <2>5. /\ tagged \o First(i) \in Seq(T)
        /\ tagged \o First(i + 1) = Append(tagged \o First(i), x)
        /\ so.buffer[table] \o First(i + 1) = Append(so.buffer[table] \o First(i), x)
    <3>1. tagged \o Append(First(i), x) = Append(tagged \o First(i), x)
      BY <2>4, ConcatAppend
    <3>2. so.buffer[table] \o Append(First(i), x) = Append(so.buffer[table] \o First(i), x)
      <4>1. PICK b \in Seq(T) : b = so.buffer[table]
        OBVIOUS
      <4>2. b \o Append(First(i), x) = Append(b \o First(i), x)
        BY <2>4, ConcatAppend
      <4> QED
        BY <4>1, <4>2
    <3>3. tagged \o First(i) \in Seq(T)
      BY <2>4
    <3> QED
      BY <2>4, <3>1, <3>2, <3>3
  <2>6. /\ IsRun(was) /\ SameCounts(so, was) /\ SameElsewhere(so, was, table)
        /\ was.buffer[table] = so.buffer[table] \o First(i)
        /\ Judges(was, table, tagged \o First(i))
    BY <2>1, <2>2
  <2>7. PICK why : why = IF KeyOf(table, row) \in was.seen[table] THEN "duplicate" ELSE RowFault(table, row)
    OBVIOUS
  <2>8. /\ IsRun(is) /\ SameCounts(was, is) /\ SameElsewhere(was, is, table)
        /\ is.buffer[table] = Append(was.buffer[table], x)
    <3>1. IsRun(was) /\ is = IngestRow(was, table, key, row) /\ table \in TableNames
      BY <2>2, <2>6
    <3>2. /\ IsRun(is) /\ SameCounts(was, is) /\ SameElsewhere(was, is, table)
          /\ is.buffer[table] = Append(was.buffer[table], [key |-> key, row |-> row])
      <4> HIDE DEF Good
      <4> QED
        BY ONLY <2>7, <3>1, IngestRowFields
    <3> QED
      BY <2>3, <3>2
  <2>9. Judges(is, table, Append(tagged \o First(i), x))
    BY <2>2, <2>3, <2>5, <2>6, IngestRowJudges
  <2>10. SameCounts(so, is) /\ SameElsewhere(so, is, table)
    BY <2>6, <2>8 DEF SameCounts, SameElsewhere
  <2>11. is.buffer[table] = so.buffer[table] \o First(i + 1)
    BY <2>5, <2>6, <2>8
  <2>12. Judges(is, table, tagged \o First(i + 1))
    BY <2>5, <2>9
  <2> QED
    BY <2>2, <2>8, <2>10, <2>11, <2>12
<1>4. Nat \subseteq S
  <2>1. \A i \in Nat : i \in S => i + 1 \in S
    <3> HIDE DEF Good, n
    <3> QED
      BY <1>3
  <2> HIDE DEF S
  <2> QED
    BY <1>2, <2>1, SetInduction
<1>5. Good(g[n], n)
  <2> HIDE DEF Good
  <2> QED
    BY <1>4
<1>6. First(n) = adds
  OBVIOUS
<1> HIDE DEF First
<1> QED
  BY <1>1, <1>5, <1>6

-----------------------------------------------------------------------------
\* What ingest knows of the records it has been given, and what the buffers hold of
\* those of the chunk.
Describes(so, records) ==
    /\ so.records = Len(records)
    /\ so.venue_frames = Frames(records)
    /\ so.decode_error = FirstMarkerError(records)
    /\ \A t \in TableNames : Judges(so, t, TaggedIn(t, records))
Holds(so, records) == \A t \in TableNames : so.buffer[t] = TaggedIn(t, records)

\* Records whose rows are lists, of elements of T once they are tagged.
Tags(R, T) ==
    \A r \in R :
        /\ TableOf(r.channel) # None /\ ~BadMarker(r) => IsList(RowsOf(r))
        /\ \A t \in TableNames : TaggedOf(t, r) \in Seq(T)

\* A list has a length and counts from one.
LEMMA ListType ==
    ASSUME NEW s, IsList(s)
    PROVE  Len(s) \in Nat /\ DOMAIN s = 1..Len(s)
<1>1. s \in Seq({s[i] : i \in DOMAIN s})
  BY DEF IsList
<1>2. PICK S : s \in Seq(S)
  BY <1>1
<1> QED
  BY <1>2

TagsOf(t, R, T) == \A r \in R : TaggedOf(t, r) \in Seq(T)
Tagger(t, R) == [r \in R |-> TaggedOf(t, r)]

\* The rows of some records, as a map over the records.
LEMMA TaggedInIsMapped ==
    ASSUME NEW R, NEW T, NEW t, TagsOf(t, R, T)
    PROVE  /\ Maps(Tagger(t, R), R, T)
           /\ \A recs \in Seq(R) : TaggedIn(t, recs) = FlattenSeq(Mapped(Tagger(t, R), recs))
<1> DEFINE F == Tagger(t, R)
<1>1. Maps(F, R, T)
  BY DEF Tagger, Maps, TagsOf
<1>2. ASSUME NEW recs \in Seq(R)
      PROVE  TaggedIn(t, recs) = FlattenSeq(Mapped(F, recs))
  <2>1. \A i \in DOMAIN recs : F[recs[i]] = TaggedOf(t, recs[i])
    BY DEF Tagger
  <2> HIDE DEF F
  <2>2. Mapped(F, recs) = [i \in DOMAIN recs |-> TaggedOf(t, recs[i])]
    BY <2>1 DEF Mapped
  <2> QED
    BY <2>2 DEF TaggedIn
<1> QED
  BY <1>1, <1>2

\* They are tagged rows,
LEMMA TaggedInType ==
    ASSUME NEW R, NEW T, NEW t, TagsOf(t, R, T), NEW recs \in Seq(R)
    PROVE  TaggedIn(t, recs) \in Seq(T)
<1> DEFINE F == Tagger(t, R)
<1>1. Maps(F, R, T) /\ TaggedIn(t, recs) = FlattenSeq(Mapped(F, recs))
  BY TaggedInIsMapped
<1> HIDE DEF F
<1>2. Mapped(F, recs) \in Seq(Seq(T))
  BY <1>1, MapType DEF Maps
<1> QED
  BY <1>1, <1>2, FlattenType

\* none for no record,
LEMMA TaggedInEmpty == \A t : TaggedIn(t, <<>>) = <<>>
<1> SUFFICES ASSUME NEW t
    PROVE  TaggedIn(t, <<>>) = <<>>
  OBVIOUS
<1>1. [i \in DOMAIN <<>> |-> TaggedOf(t, <<>>[i])] = <<>>
  OBVIOUS
<1> QED
  BY <1>1, FlattenEmpty DEF TaggedIn

\* and those of two lists of records come one list after the other.
LEMMA TaggedInConcat ==
    ASSUME NEW R, NEW T, NEW t, TagsOf(t, R, T),
           NEW recs \in Seq(R), NEW more \in Seq(R)
    PROVE  TaggedIn(t, recs \o more) = TaggedIn(t, recs) \o TaggedIn(t, more)
<1> DEFINE F == Tagger(t, R)
<1>1. Maps(F, R, T) /\ \A some \in Seq(R) : TaggedIn(t, some) = FlattenSeq(Mapped(F, some))
  BY TaggedInIsMapped
<1> HIDE DEF F
<1>2. recs \o more \in Seq(R)
  OBVIOUS
<1>3. FlattenSeq(Mapped(F, recs \o more)) = FlattenSeq(Mapped(F, recs)) \o FlattenSeq(Mapped(F, more))
  BY <1>1, FlattenMapConcat
<1> QED
  BY <1>1, <1>2, <1>3

\* One record, or one record more.
LEMMA TaggedInOne ==
    ASSUME NEW R, NEW T, Tags(R, T), NEW r \in R, NEW t \in TableNames
    PROVE  TaggedIn(t, <<r>>) = TaggedOf(t, r)
<1>1. TaggedOf(t, r) \in Seq(T)
  BY DEF Tags
<1>2. [i \in DOMAIN <<r>> |-> TaggedOf(t, <<r>>[i])] = Append(<<>>, TaggedOf(t, r))
  OBVIOUS
<1>3. FlattenSeq(Append(<<>>, TaggedOf(t, r))) = FlattenSeq(<<>>) \o TaggedOf(t, r)
  <2>1. <<>> \in Seq(Seq(T))
    OBVIOUS
  <2> QED
    BY <1>1, <2>1, FlattenAppend
<1>4. <<>> \o TaggedOf(t, r) = TaggedOf(t, r)
  BY <1>1
<1> QED
  BY <1>2, <1>3, <1>4, FlattenEmpty DEF TaggedIn

\* One more record.
LEMMA TaggedInAppend ==
    ASSUME NEW R, NEW T, Tags(R, T), NEW recs \in Seq(R), NEW r \in R, NEW t \in TableNames
    PROVE  TaggedIn(t, Append(recs, r)) = TaggedIn(t, recs) \o TaggedOf(t, r)
<1>1. <<r>> \in Seq(R) /\ Append(recs, r) = recs \o <<r>>
  OBVIOUS
<1>2. TagsOf(t, R, T)
  BY DEF Tags, TagsOf
<1>3. TaggedIn(t, recs \o <<r>>) = TaggedIn(t, recs) \o TaggedIn(t, <<r>>)
  <2>1. PICK one \in Seq(R) : one = <<r>>
    BY <1>1
  <2>2. TaggedIn(t, recs \o one) = TaggedIn(t, recs) \o TaggedIn(t, one)
    BY <1>2, TaggedInConcat
  <2> QED
    BY <2>1, <2>2
<1> QED
  BY <1>1, <1>3, TaggedInOne

\* The venue's frames are counted record by record.
LEMMA FramesAppend ==
    ASSUME NEW R, NEW recs \in Seq(R), NEW r \in R
    PROVE  /\ Frames(recs) \in Nat
           /\ Frames(Append(recs, r)) = IF r.synthetic THEN Frames(recs) ELSE Frames(recs) + 1
<1> DEFINE more == Append(recs, r)
           n == Len(recs)
           Real(s) == {i \in DOMAIN s : ~s[i].synthetic}
<1>1. /\ n \in Nat /\ DOMAIN recs = 1..n /\ DOMAIN more = 1..n + 1 /\ more[n + 1] = r
      /\ \A i \in 1..n : more[i] = recs[i]
  OBVIOUS
<1>2. IsFiniteSet(Real(recs)) /\ Cardinality(Real(recs)) \in Nat
  <2>1. IsFiniteSet(1..n)
    BY <1>1, FS_Interval
  <2>2. Real(recs) \subseteq 1..n
    BY <1>1
  <2>3. IsFiniteSet(Real(recs))
    BY <2>1, <2>2, FS_Subset
  <2> QED
    BY <2>3, FS_CardinalityType
<1> HIDE DEF more
<1>3. Real(more) = IF r.synthetic THEN Real(recs) ELSE Real(recs) \cup {n + 1}
  BY <1>1
<1>4. n + 1 \notin Real(recs)
  BY <1>1
<1>5. \A s : Frames(s) = Cardinality(Real(s))
  BY DEF Frames
<1> HIDE DEF Real
<1>6. Cardinality(Real(recs) \cup {n + 1}) = Cardinality(Real(recs)) + 1
  BY <1>2, <1>4, FS_AddElement
<1> QED
  BY <1>2, <1>3, <1>5, <1>6 DEF more

\* The first marker that does not decode, with one more record.
LEMMA FirstMarkerErrorAppend ==
    ASSUME NEW R, NEW recs \in Seq(R), NEW r \in R
    PROVE  FirstMarkerError(Append(recs, r)) =
               IF FirstMarkerError(recs) # None THEN FirstMarkerError(recs) ELSE MarkerError(r)
<1> DEFINE more == Append(recs, r)
           n == Len(recs)
           s == [i \in DOMAIN recs |-> MarkerError(recs[i])]
           t == [i \in DOMAIN more |-> MarkerError(more[i])]
<1>1. /\ n \in Nat /\ DOMAIN recs = 1..n /\ DOMAIN more = 1..n + 1 /\ more[n + 1] = r
      /\ \A i \in 1..n : more[i] = recs[i]
  OBVIOUS
<1>2. FirstMarkerError(recs) = Or(s) /\ FirstMarkerError(more) = Or(t)
  BY DEF FirstMarkerError
<1> HIDE DEF more
<1>3. DOMAIN s = 1..n /\ DOMAIN t = 1..n + 1 /\ t[n + 1] = MarkerError(r) /\ \A i \in 1..n : t[i] = s[i]
  BY <1>1
<1> HIDE DEF s, t, n
<1>4. Or(t) = IF Or(s) # None THEN Or(s) ELSE t[n + 1]
  BY <1>1, <1>3, FirstFaultAppend
<1> QED
  BY <1>2, <1>3, <1>4 DEF more

\* One record more has been read: what is known, and what is buffered, are of one more.
LEMMA IngestDescribes ==
    ASSUME NEW R, NEW T, Tags(R, T), NEW recs \in Seq(R), NEW batch \in Seq(R), NEW r \in R,
           r.synthetic \in BOOLEAN,
           NEW so, IsRun(so), Describes(so, recs), Holds(so, batch),
           NEW new, new = Ingest(so, r)
    PROVE  /\ IsRun(new) /\ new.rows_written = so.rows_written
           /\ Describes(new, Append(recs, r)) /\ Holds(new, Append(batch, r))
<1> DEFINE counted == [so EXCEPT !.records = @ + 1,
                                 !.venue_frames = IF r.synthetic THEN @ ELSE @ + 1]
<1>1. PICK table, key : table = TableOf(r.channel) /\ key = PartitionKey(table, r)
  OBVIOUS
<1>2. new = IF table = None THEN [counted EXCEPT !.skipped = @ + 1]
            ELSE IF BadMarker(r)
            THEN [counted EXCEPT !.decode_error = IF @ = None THEN Error("decode", r.seq, "marker") ELSE @]
            ELSE IngestRows(counted, table, key, RowsOf(r))
  BY <1>1 DEF Ingest
<1>3. /\ IsRun(counted)
      /\ counted.buffer = so.buffer /\ counted.seen = so.seen /\ counted.error = so.error
      /\ counted.decode_error = so.decode_error /\ counted.rows_written = so.rows_written
      /\ counted.records = so.records + 1
      /\ counted.venue_frames = IF r.synthetic THEN so.venue_frames ELSE so.venue_frames + 1
  BY DEF IsRun, Fields
<1> HIDE DEF counted
<1>4. so.records = Len(recs) /\ so.venue_frames = Frames(recs) /\ so.decode_error = FirstMarkerError(recs)
  BY DEF Describes
<1>5. counted.records = Len(Append(recs, r)) /\ counted.venue_frames = Frames(Append(recs, r))
  BY <1>3, <1>4, FramesAppend
<1>6. FirstMarkerError(Append(recs, r)) = IF so.decode_error # None THEN so.decode_error ELSE MarkerError(r)
  BY <1>4, FirstMarkerErrorAppend
<1>7. \A t \in TableNames :
          /\ TaggedIn(t, Append(recs, r)) = TaggedIn(t, recs) \o TaggedOf(t, r)
          /\ TaggedIn(t, Append(batch, r)) = TaggedIn(t, batch) \o TaggedOf(t, r)
          /\ TaggedIn(t, recs) \in Seq(T) /\ TaggedIn(t, batch) \in Seq(T)
  <2>1. \A t \in TableNames : TagsOf(t, R, T)
    BY DEF Tags, TagsOf
  <2> QED
    BY <2>1, TaggedInAppend, TaggedInType
\* A table that gets no row.
<1>8. ASSUME NEW t \in TableNames, TaggedOf(t, r) = <<>>,
             new.buffer[t] = so.buffer[t], new.seen[t] = so.seen[t], new.error[t] = so.error[t]
      PROVE  /\ Judges(new, t, TaggedIn(t, Append(recs, r)))
             /\ new.buffer[t] = TaggedIn(t, Append(batch, r))
  <2>1. /\ TaggedIn(t, Append(recs, r)) = TaggedIn(t, recs)
        /\ TaggedIn(t, Append(batch, r)) = TaggedIn(t, batch)
    <3>1. \A a \in Seq(T) : a \o <<>> = a
      OBVIOUS
    <3> QED
      BY <1>7, <1>8, <3>1
  <2>2. Judges(so, t, TaggedIn(t, recs)) /\ so.buffer[t] = TaggedIn(t, batch)
    BY DEF Describes, Holds
  <2> QED
    BY <1>8, <2>1, <2>2 DEF Judges
<1>9. CASE table = None
  <2>1. /\ IsRun(new)
        /\ new.buffer = so.buffer /\ new.seen = so.seen /\ new.error = so.error
        /\ new.decode_error = so.decode_error /\ new.rows_written = so.rows_written
        /\ new.records = counted.records /\ new.venue_frames = counted.venue_frames
    BY <1>2, <1>3, <1>9 DEF IsRun, Fields
  <2>2. \A t \in TableNames : TaggedOf(t, r) = <<>>
    BY <1>1, <1>9, TablesAssumption DEF TaggedOf
  <2>3. MarkerError(r) = None
    BY <1>1, <1>9 DEF MarkerError
  <2>4. new.decode_error = FirstMarkerError(Append(recs, r))
    BY <1>6, <2>1, <2>3
  <2>5. \A t \in TableNames : /\ Judges(new, t, TaggedIn(t, Append(recs, r)))
                              /\ new.buffer[t] = TaggedIn(t, Append(batch, r))
    BY <1>8, <2>1, <2>2
  <2> QED
    BY <1>5, <2>1, <2>4, <2>5 DEF Describes, Holds
<1>10. CASE table # None /\ BadMarker(r)
  <2> DEFINE e == IF so.decode_error = None THEN Error("decode", r.seq, "marker") ELSE so.decode_error
  <2>0. new = [counted EXCEPT !.decode_error = e]
    BY <1>2, <1>3, <1>10
  <2> HIDE DEF e
  <2>1. /\ IsRun(new)
        /\ new.buffer = so.buffer /\ new.seen = so.seen /\ new.error = so.error
        /\ new.decode_error = e /\ new.rows_written = so.rows_written
        /\ new.records = counted.records /\ new.venue_frames = counted.venue_frames
    BY <1>3, <2>0 DEF IsRun, Fields
  <2>2. \A t \in TableNames : TaggedOf(t, r) = <<>>
    BY <1>10 DEF TaggedOf
  <2>3. MarkerError(r) = Error("decode", r.seq, "marker")
    BY <1>1, <1>10 DEF MarkerError
  <2>4. new.decode_error = FirstMarkerError(Append(recs, r))
    BY <1>6, <2>1, <2>3 DEF e
  <2>5. \A t \in TableNames : /\ Judges(new, t, TaggedIn(t, Append(recs, r)))
                              /\ new.buffer[t] = TaggedIn(t, Append(batch, r))
    BY <1>8, <2>1, <2>2
  <2> QED
    BY <1>5, <2>1, <2>4, <2>5 DEF Describes, Holds
<1>11. CASE table # None /\ ~BadMarker(r)
  <2>1. table \in TableNames
    BY <1>1, <1>11 DEF TableOf, TableNames
  <2>2. PICK rows, adds : rows = RowsOf(r) /\ adds = TaggedOf(table, r)
    OBVIOUS
  <2>3. IsList(rows) /\ adds \in Seq(T)
    BY <1>1, <1>11, <2>1, <2>2 DEF Tags
  <2>4. Len(rows) \in Nat /\ DOMAIN rows = 1..Len(rows)
    BY <2>3, ListType
  <2>5. adds = [i \in DOMAIN rows |-> [key |-> key, row |-> rows[i]]]
    BY <1>1, <1>11, <2>2 DEF TaggedOf, Tagged
  <2>6. Len(adds) = Len(rows) /\ \A i \in 1..Len(rows) : adds[i] = [key |-> key, row |-> rows[i]]
    BY <2>3, <2>4, <2>5
  <2>7. /\ Judges(counted, table, TaggedIn(table, recs))
        /\ TaggedIn(table, recs) \in Seq(T)
        /\ counted.buffer[table] = TaggedIn(table, batch) /\ counted.buffer[table] \in Seq(T)
    BY <1>3, <1>7, <2>1 DEF Describes, Holds, Judges
  <2>8. new = IngestRows(counted, table, key, rows)
    BY <1>2, <1>11, <2>2
  <2>9. /\ IsRun(new) /\ SameCounts(counted, new) /\ SameElsewhere(counted, new, table)
        /\ new.buffer[table] = counted.buffer[table] \o adds
        /\ Judges(new, table, TaggedIn(table, recs) \o adds)
    <3>1. PICK tagged, before : tagged = TaggedIn(table, recs) /\ before = counted
      OBVIOUS
    <3>2. /\ IsRun(before) /\ table \in TableNames /\ Len(rows) \in Nat /\ tagged \in Seq(T) /\ adds \in Seq(T)
          /\ before.buffer[table] \in Seq(T) /\ Len(adds) = Len(rows)
          /\ \A i \in 1..Len(rows) : adds[i] = [key |-> key, row |-> rows[i]]
          /\ Judges(before, table, tagged)
          /\ new = IngestRows(before, table, key, rows)
      BY <1>3, <2>1, <2>3, <2>4, <2>6, <2>7, <2>8, <3>1
    <3>3. /\ IsRun(new) /\ SameCounts(before, new) /\ SameElsewhere(before, new, table)
          /\ new.buffer[table] = before.buffer[table] \o adds
          /\ Judges(new, table, tagged \o adds)
      BY ONLY <3>2, IngestRowsJudges, SMTT(60)
    <3> QED
      BY <3>1, <3>3
  <2>10. MarkerError(r) = None
    BY <1>11 DEF MarkerError
  <2>11. new.decode_error = FirstMarkerError(Append(recs, r)) /\ new.rows_written = so.rows_written
         /\ new.records = counted.records /\ new.venue_frames = counted.venue_frames
    BY <1>3, <1>6, <2>9, <2>10 DEF SameCounts
  <2>12. ASSUME NEW t \in TableNames
         PROVE  /\ Judges(new, t, TaggedIn(t, Append(recs, r)))
                /\ new.buffer[t] = TaggedIn(t, Append(batch, r))
    <3>1. CASE t = table
      BY <1>7, <2>1, <2>2, <2>7, <2>9, <3>1
    <3>2. CASE t # table
      <4>1. TaggedOf(t, r) = <<>>
        BY <1>1, <3>2 DEF TaggedOf
      <4>2. new.buffer[t] = so.buffer[t] /\ new.seen[t] = so.seen[t] /\ new.error[t] = so.error[t]
        BY <1>3, <2>9, <3>2 DEF SameElsewhere
      <4> QED
        BY <1>8, <4>1, <4>2
    <3> QED
      BY <3>1, <3>2
  <2> QED
    BY <1>5, <2>9, <2>11, <2>12 DEF Describes, Holds
<1> QED
  BY <1>9, <1>10, <1>11

\* A chunk has been read.
LEMMA IngestAllDescribes ==
    ASSUME NEW R, NEW T, Tags(R, T), NEW recs \in Seq(R), NEW batch \in Seq(R),
           \A r \in R : r.synthetic \in BOOLEAN,
           NEW so, IsRun(so), Describes(so, recs), Holds(so, <<>>),
           NEW new, new = IngestAll(so, batch)
    PROVE  /\ IsRun(new) /\ new.rows_written = so.rows_written
           /\ Describes(new, recs \o batch) /\ Holds(new, batch)
<1> DEFINE n == Len(batch)
           Some(i) == SubSeq(batch, 1, i)
           Good(u, i) == /\ IsRun(u) /\ u.rows_written = so.rows_written
                         /\ Describes(u, recs \o Some(i)) /\ Holds(u, Some(i))
<1>0. n \in Nat
  OBVIOUS
<1>1. PICK g : /\ new = g[n]
               /\ g[0] = so
               /\ \A i \in 0..n - 1 : g[i + 1] = Ingest(g[i], batch[i + 1])
  BY IngestAllIsTheLoop
<1> DEFINE S == {i \in Nat : i \in 0..n => Good(g[i], i)}
<1>2. 0 \in S
  <2>1. Some(0) = <<>> /\ recs \o <<>> = recs
    OBVIOUS
  <2>2. Good(so, 0)
    <3> HIDE DEF Some
    <3> QED
      BY <2>1
  <2> HIDE DEF Good
  <2> QED
    BY <1>1, <2>2
<1>3. ASSUME NEW i \in Nat, i \in S, i + 1 \in 0..n
      PROVE  Good(g[i + 1], i + 1)
  <2>1. i \in 0..n /\ i \in 0..n - 1 /\ i + 1 \in 1..n /\ Good(g[i], i)
    <3> HIDE DEF Good
    <3> QED
      BY <1>0, <1>3
  <2>2. PICK was, is : was = g[i] /\ is = g[i + 1]
    OBVIOUS
  <2>3. PICK r \in R : r = batch[i + 1]
    BY <1>0, <2>1
  <2>4. is = Ingest(was, r)
    BY <1>1, <2>1, <2>2, <2>3
  <2>5. Some(i) \in Seq(R) /\ Some(i + 1) = Append(Some(i), r)
    BY <1>0, <2>1, <2>3
  <2> HIDE DEF Some, n
  <2>6. recs \o Some(i) \in Seq(R) /\ recs \o Some(i + 1) = Append(recs \o Some(i), r)
    <3>1. recs \o Append(Some(i), r) = Append(recs \o Some(i), r)
      BY <2>5, ConcatAppend
    <3>2. recs \o Some(i) \in Seq(R)
      BY <2>5
    <3> QED
      BY <2>5, <3>1, <3>2
  <2>7. /\ IsRun(was) /\ was.rows_written = so.rows_written
        /\ Describes(was, recs \o Some(i)) /\ Holds(was, Some(i))
    BY <2>1, <2>2
  <2>8. /\ IsRun(is) /\ is.rows_written = was.rows_written
        /\ Describes(is, Append(recs \o Some(i), r)) /\ Holds(is, Append(Some(i), r))
    <3>1. PICK has, held : has = recs \o Some(i) /\ held = Some(i)
      OBVIOUS
    <3>2. /\ Tags(R, T) /\ has \in Seq(R) /\ held \in Seq(R) /\ r \in R /\ r.synthetic \in BOOLEAN
          /\ IsRun(was) /\ Describes(was, has) /\ Holds(was, held) /\ is = Ingest(was, r)
      BY <2>3, <2>4, <2>5, <2>6, <2>7, <3>1
    <3>3. /\ IsRun(is) /\ is.rows_written = was.rows_written
          /\ Describes(is, Append(has, r)) /\ Holds(is, Append(held, r))
      BY ONLY <3>2, IngestDescribes
    <3> QED
      BY <3>1, <3>3
  <2> QED
    BY <2>2, <2>5, <2>6, <2>7, <2>8
<1>4. Nat \subseteq S
  <2>1. \A i \in Nat : i \in S => i + 1 \in S
    <3> HIDE DEF Good, n
    <3> QED
      BY <1>3
  <2> HIDE DEF S
  <2> QED
    BY <1>2, <2>1, SetInduction
<1>5. Good(g[n], n)
  <2> HIDE DEF Good
  <2> QED
    BY <1>0, <1>4
<1>6. Some(n) = batch
  OBVIOUS
<1> HIDE DEF Some
<1> QED
  BY <1>1, <1>5, <1>6
-----------------------------------------------------------------------------
\* The rows of a record have the columns of their table.

\* What all rows of a record have: the columns of BaseRow, and in three the record's.
BaseColumns == {"seq", "ts_socket", "ts_exchange", "ts_ready", "synthetic",
                "gap_reason", "gap_attempts", "gap_started", "gap_ended"}
HasBase(row, more, r) ==
    /\ DOMAIN row = BaseColumns \cup more
    /\ row.seq = r.seq /\ row.ts_socket = r.ts_socket /\ row.synthetic = r.synthetic

Own(table) ==
    IF table = "diff" THEN {"first_update_id", "last_update_id", "bids", "asks"}
    ELSE IF table = "trade" THEN {"trade_id", "price", "quantity", "side", "print_index"}
    ELSE {"best_bid", "best_bid_qty", "best_ask", "best_ask_qty"}

SchemaOf(table) ==
    IF table = "diff" THEN BookDiffSchema ELSE IF table = "trade" THEN TradeSchema ELSE TopBookSchema

SitsFor(table, row, r) == HasBase(row, Own(table), r) /\ (table = "trade" => row.print_index \in Nat)

\* A row of a table, of whatever record it is.
Sits(table, row) ==
    /\ DOMAIN row = BaseColumns \cup Own(table)
    /\ row.seq \in Int /\ row.ts_socket \in Int /\ row.synthetic \in BOOLEAN
    /\ table = "trade" => row.print_index \in Nat
    /\ row.synthetic => HasGap(row)

\* A joined row has the columns of both.
LEMMA JoinedColumns ==
    ASSUME NEW f, NEW g
    PROVE  /\ DOMAIN Joined(f, g) = DOMAIN f \cup DOMAIN g
           /\ \A x \in DOMAIN f : Joined(f, g)[x] = f[x]
           /\ \A x \in DOMAIN g \ DOMAIN f : Joined(f, g)[x] = g[x]
BY DEF Joined

\* BaseRow fills the columns all tables require, and so does every row built on it.
LEMMA BaseRowHasBase ==
    ASSUME NEW r, IsRecord(r), NEW time
    PROVE  /\ HasBase(BaseRow(r), {}, r)
           /\ HasBase([BaseRow(r) EXCEPT !.ts_exchange = time], {}, r)
<1>1. /\ DOMAIN BaseRow(r) = BaseColumns
      /\ BaseRow(r).seq = r.seq /\ BaseRow(r).ts_socket = r.ts_socket /\ BaseRow(r).synthetic = r.synthetic
  BY DEF BaseRow, BaseColumns
<1>2. PICK row : row = BaseRow(r)
  OBVIOUS
<1>3. PICK other : other = [row EXCEPT !.ts_exchange = time]
  OBVIOUS
<1>4. DOMAIN other = DOMAIN row /\ other.seq = row.seq /\ other.ts_socket = row.ts_socket /\ other.synthetic = row.synthetic
  BY <1>1, <1>2, <1>3 DEF BaseColumns
<1> QED
  BY <1>1, <1>2, <1>3, <1>4 DEF HasBase

\* A row that adds the columns of its table keeps the required ones.
LEMMA JoinedHasBase ==
    ASSUME NEW r, NEW base, HasBase(base, {}, r), NEW own, DOMAIN own \cap {"seq", "ts_socket", "synthetic"} = {},
           NEW columns
    PROVE  /\ DOMAIN own = columns => HasBase(Joined(own, base), columns, r)
           /\ DOMAIN own = columns \cup {"ts_exchange"} => HasBase(Joined(base, own), columns, r)
<1>1. DOMAIN base = BaseColumns /\ {"seq", "ts_socket", "synthetic", "ts_exchange"} \subseteq DOMAIN base
  BY DEF HasBase, BaseColumns
<1>2. /\ Joined(own, base).seq = base.seq /\ Joined(own, base).ts_socket = base.ts_socket
      /\ Joined(own, base).synthetic = base.synthetic
      /\ DOMAIN Joined(own, base) = DOMAIN own \cup BaseColumns
  <2>1. \A x \in DOMAIN base \ DOMAIN own : Joined(own, base)[x] = base[x]
    BY JoinedColumns
  <2>2. DOMAIN Joined(own, base) = DOMAIN own \cup BaseColumns
    BY <1>1, JoinedColumns
  <2> QED
    BY <1>1, <2>1, <2>2
<1>3. /\ Joined(base, own).seq = base.seq /\ Joined(base, own).ts_socket = base.ts_socket
      /\ Joined(base, own).synthetic = base.synthetic
      /\ DOMAIN Joined(base, own) = BaseColumns \cup DOMAIN own
  <2>1. \A x \in DOMAIN base : Joined(base, own)[x] = base[x]
    BY JoinedColumns
  <2>2. DOMAIN Joined(base, own) = BaseColumns \cup DOMAIN own
    BY <1>1, JoinedColumns
  <2> QED
    BY <1>1, <2>1, <2>2
<1>4. "ts_exchange" \in BaseColumns
  BY DEF BaseColumns
<1> QED
  BY <1>2, <1>3, <1>4 DEF HasBase

\* book_diff_row: the four columns of an update, or four nulls.
LEMMA DiffRowSits ==
    ASSUME NEW r, IsRecord(r)
    PROVE  SitsFor("diff", DiffRow(r), r)
<1> DEFINE venue == VenueOf[r.instrument]
           time == IF r.ts_exchange # None THEN r.ts_exchange
                   ELSE ExchangeTime(venue, r.channel, r.payload)
           content == IF r.synthetic THEN DiffContent(None, None)
                      ELSE DiffContent(UpdateSpan(venue, r.channel, r.payload),
                                       DecodeDiff(venue, r.channel, r.payload))
<1>1. DOMAIN content = Own("diff")
  <2>1. \A span, diff : DOMAIN DiffContent(span, diff) = Own("diff")
    BY DEF DiffContent, Own
  <2> QED
    BY <2>1
<1>2. DiffRow(r) = Joined(content, [BaseRow(r) EXCEPT !.ts_exchange = time])
  BY DEF DiffRow
<1> HIDE DEF content, time
<1>3. HasBase([BaseRow(r) EXCEPT !.ts_exchange = time], {}, r)
  BY BaseRowHasBase
<1>4. Own("diff") \cap {"seq", "ts_socket", "synthetic"} = {}
  BY DEF Own
<1>5. HasBase(DiffRow(r), Own("diff"), r)
  BY <1>1, <1>2, <1>3, <1>4, JoinedHasBase
<1> QED
  BY <1>5 DEF SitsFor

\* trade_rows_for: each row has its print and its index in the bundle.
LEMMA TradeRowsSit ==
    ASSUME NEW r, IsRecord(r)
    PROVE  IsList(TradeRows(r)) /\ \A i \in DOMAIN TradeRows(r) : SitsFor("trade", TradeRows(r)[i], r)
<1> DEFINE prints == IF r.synthetic THEN None
                     ELSE TradePrints(VenueOf[r.instrument], r.channel, r.payload)
<1>1. TradeRows(r) = IF prints = None THEN <<Joined(NullPrint, BaseRow(r))>>
                     ELSE [i \in DOMAIN prints |-> PrintRow(r, prints[i], i - 1)]
  BY DEF TradeRows
<1>2. prints # None => DOMAIN prints = 1..Len(prints) /\ Len(prints) \in Nat
  <2>1. TradePrints(VenueOf[r.instrument], r.channel, r.payload) # None =>
          \E p : /\ TradePrints(VenueOf[r.instrument], r.channel, r.payload) = p
                 /\ DOMAIN p = 1..Len(p) /\ Len(p) \in Nat
    <3> DEFINE p == TradePrints(VenueOf[r.instrument], r.channel, r.payload)
    <3>1. CASE VenueOf[r.instrument] = "bybit" /\ p # None
      <4>1. /\ Has(r.payload, {"data"})
            /\ p = [i \in DOMAIN r.payload.data |-> BybitTrade(r.payload.data[i])]
        BY <3>1 DEF TradePrints
      <4>2. DOMAIN r.payload.data = 1..Len(r.payload.data) /\ Len(r.payload.data) \in Nat
        BY <4>1, ListType DEF IsRecord
      <4>3. PICK q : q = p
        OBVIOUS
      <4>4. q = [i \in 1..Len(r.payload.data) |-> BybitTrade(r.payload.data[i])]
        BY <4>1, <4>2, <4>3
      <4>5. DOMAIN q = 1..Len(q) /\ Len(q) \in Nat
        BY <4>2, <4>4
      <4> QED
        BY <4>3, <4>5
    <3>2. CASE VenueOf[r.instrument] # "bybit" /\ p # None
      <4>1. PICK x : p = <<x>>
        BY <3>2 DEF TradePrints
      <4> HIDE DEF p
      <4>2. DOMAIN <<x>> = 1..Len(<<x>>) /\ Len(<<x>>) \in Nat
        OBVIOUS
      <4> QED
        BY <4>1, <4>2 DEF p
    <3> HIDE DEF p
    <3> QED
      BY <3>1, <3>2 DEF p
  <2> QED
    BY <2>1
<1> HIDE DEF prints
<1>3. CASE prints = None
  <2>1. Own("trade") \cap {"seq", "ts_socket", "synthetic"} = {} /\ DOMAIN NullPrint = Own("trade")
    BY DEF Own, NullPrint
  <2>2. HasBase(Joined(NullPrint, BaseRow(r)), Own("trade"), r)
    BY <2>1, BaseRowHasBase, JoinedHasBase
  <2>3. "print_index" \in DOMAIN NullPrint /\ NullPrint.print_index = 0
    BY DEF NullPrint
  <2>a. Joined(NullPrint, BaseRow(r))["print_index"] = 0
    BY <2>3, JoinedColumns
  <2>4. Joined(NullPrint, BaseRow(r)).print_index \in Nat
    BY <2>a, TablesAssumption
  <2>5. PICK row : row = Joined(NullPrint, BaseRow(r)) /\ SitsFor("trade", row, r)
    BY <2>2, <2>4 DEF SitsFor
  <2>6. TradeRows(r) = <<row>>
    BY <1>1, <1>3, <2>5
  <2>7. IsList(<<row>>) /\ \A i \in DOMAIN <<row>> : <<row>>[i] = row
    BY DEF IsList
  <2> QED
    BY <2>5, <2>6, <2>7
<1>4. CASE prints # None
  <2>1. TradeRows(r) = [i \in 1..Len(prints) |-> PrintRow(r, prints[i], i - 1)]
    BY <1>1, <1>2, <1>4
  <2>2. ASSUME NEW print, NEW index \in Nat
        PROVE  SitsFor("trade", PrintRow(r, print, index), r)
    <3> DEFINE own == [trade_id |-> print.trade_id, price |-> print.price, quantity |-> print.quantity,
                       side |-> print.side, print_index |-> index]
               time == IF print.ts_exchange # None THEN print.ts_exchange ELSE BaseRow(r).ts_exchange
               base == [BaseRow(r) EXCEPT !.ts_exchange = time]
    <3>1. PrintRow(r, print, index) = Joined(own, base)
      BY DEF PrintRow
    <3>2. DOMAIN own = Own("trade") /\ own.print_index = index /\ "print_index" \in DOMAIN own
      BY DEF Own
    <3>3. HasBase(base, {}, r)
      BY BaseRowHasBase
    <3> HIDE DEF own, base
    <3>4. Own("trade") \cap {"seq", "ts_socket", "synthetic"} = {}
      BY DEF Own
    <3>5. HasBase(Joined(own, base), Own("trade"), r)
      BY <3>2, <3>3, <3>4, JoinedHasBase
    <3>a. Joined(own, base)["print_index"] = index
      BY <3>2, JoinedColumns
    <3>6. Joined(own, base).print_index \in Nat
      BY <3>a, TablesAssumption
    <3> QED
      BY <3>1, <3>5, <3>6 DEF SitsFor
  <2>3. PICK rows : rows = TradeRows(r)
    OBVIOUS
  <2>4. DOMAIN rows = 1..Len(prints) /\ \A i \in 1..Len(prints) : rows[i] = PrintRow(r, prints[i], i - 1)
    BY <2>1, <2>3
  <2>5. IsList(rows)
    <3>1. rows = [i \in 1..Len(prints) |-> PrintRow(r, prints[i], i - 1)]
      BY <2>1, <2>3
    <3>2. rows \in Seq({rows[i] : i \in DOMAIN rows})
      BY <1>2, <1>4, <2>4, <3>1
    <3> QED
      BY <3>2 DEF IsList
  <2> QED
    BY <1>2, <1>4, <2>2, <2>3, <2>4, <2>5
<1> QED
  BY <1>3, <1>4

\* top_book_row: the best prices, or nulls.
LEMMA TopRowSits ==
    ASSUME NEW r, IsRecord(r)
    PROVE  SitsFor("topbook", TopRow(r), r)
<1> DEFINE decoded == IF r.synthetic THEN None
                      ELSE TopOfBook(VenueOf[r.instrument], r.channel, r.payload)
           top == IF decoded # None THEN decoded
                  ELSE [best_bid |-> None, best_bid_qty |-> None, best_ask |-> None,
                        best_ask_qty |-> None, ts_exchange |-> None]
           time == IF top.ts_exchange # None THEN top.ts_exchange ELSE BaseRow(r).ts_exchange
           base == [BaseRow(r) EXCEPT !.ts_exchange = time]
<1>1. TopRow(r) = Joined(base, top)
  BY DEF TopRow
<1>2. DOMAIN top = Own("topbook") \cup {"ts_exchange"}
  <2>1. \A venue, channel, payload : TopOfBook(venue, channel, payload) # None =>
            DOMAIN TopOfBook(venue, channel, payload) = Own("topbook") \cup {"ts_exchange"}
    BY DEF TopOfBook, Own
  <2> QED
    BY <2>1 DEF Own
<1>3. HasBase(base, {}, r)
  <2> HIDE DEF time
  <2> QED
    BY BaseRowHasBase
<1> HIDE DEF top, base
<1>4. (Own("topbook") \cup {"ts_exchange"}) \cap {"seq", "ts_socket", "synthetic"} = {}
  BY DEF Own
<1>5. HasBase(TopRow(r), Own("topbook"), r)
  BY <1>1, <1>2, <1>3, <1>4, JoinedHasBase
<1> QED
  BY <1>5 DEF SitsFor

\* A gap marker fills columns that are there, and fills them all.
LEMMA WithMarkerSits ==
    ASSUME NEW table, NEW row, NEW r, SitsFor(table, row, r), NEW m, IsMarker(m)
    PROVE  SitsFor(table, WithMarker(row, m), r) /\ HasGap(WithMarker(row, m))
<1>1. PICK new : new = WithMarker(row, m)
  OBVIOUS
<1>2. new = [row EXCEPT !.gap_reason = m.reason, !.gap_attempts = m.attempts,
                        !.gap_started = m.started_at, !.gap_ended = m.ended_at]
  BY <1>1 DEF WithMarker
<1>3. /\ DOMAIN new = DOMAIN row /\ new.seq = row.seq /\ new.ts_socket = row.ts_socket
      /\ new.synthetic = row.synthetic /\ new.print_index = row.print_index
  BY <1>2
<1>4. {"gap_reason", "gap_attempts", "gap_started", "gap_ended"} \subseteq DOMAIN row
  BY DEF SitsFor, HasBase, BaseColumns
<1>5. /\ new.gap_reason = m.reason /\ new.gap_attempts = m.attempts
      /\ new.gap_started = m.started_at /\ new.gap_ended = m.ended_at
  BY <1>2, <1>4
<1>6. HasGap(new)
  BY <1>5 DEF HasGap, IsMarker, MarkerFields
<1> QED
  BY <1>1, <1>3, <1>6 DEF SitsFor, HasBase

\* A row built of a record sits in its table, if a marker's has its gap.
LEMMA SitsForSits ==
    ASSUME NEW table, NEW row, NEW r, IsRecord(r), SitsFor(table, row, r), r.synthetic => HasGap(row)
    PROVE  Sits(table, row)
BY DEF SitsFor, HasBase, Sits, IsRecord

\* Every row a record has fits the schema of its table.
LEMMA RowsSit ==
    ASSUME NEW r, IsRecord(r), TableOf(r.channel) # None, ~BadMarker(r)
    PROVE  IsList(RowsOf(r)) /\ \A i \in DOMAIN RowsOf(r) : Sits(TableOf(r.channel), RowsOf(r)[i])
<1> DEFINE table == TableOf(r.channel)
           rows == IF table = "diff" THEN <<DiffRow(r)>>
                   ELSE IF table = "trade" THEN TradeRows(r)
                   ELSE IF table = "topbook" THEN <<TopRow(r)>>
                   ELSE <<>>
<1>1. table \in TableNames
  BY DEF TableOf, TableNames
<1>2. \A x : IsList(<<x>>) /\ DOMAIN <<x>> = {1} /\ <<x>>[1] = x
  BY DEF IsList
<1>3. IsList(rows) /\ \A i \in DOMAIN rows : SitsFor(table, rows[i], r)
  <2>1. CASE table = "diff"
    BY <1>2, <2>1, DiffRowSits
  <2>2. CASE table = "trade"
    BY <2>2, TradeRowsSit
  <2>3. CASE table = "topbook"
    BY <1>2, <2>3, TopRowSits
  <2> QED
    BY <1>1, <2>1, <2>2, <2>3 DEF TableNames
<1> HIDE DEF table
<1>4. RowsOf(r) = IF r.synthetic THEN <<WithMarker(rows[1], r.payload)>> ELSE rows
  BY DEF RowsOf, table
<1>5. r.synthetic => 1 \in DOMAIN rows
  <2>1. r.synthetic /\ table = "trade" => rows = <<Joined(NullPrint, BaseRow(r))>>
    BY DEF TradeRows
  <2>2. \A x : 1 \in DOMAIN <<x>>
    OBVIOUS
  <2> QED
    BY <1>1, <2>1, <2>2 DEF TableNames
<1> HIDE DEF rows
<1>6. CASE ~r.synthetic
  BY <1>3, <1>4, <1>6, SitsForSits DEF table
<1>7. CASE r.synthetic
  <2>1. IsMarker(r.payload) /\ RowsOf(r) = <<WithMarker(rows[1], r.payload)>>
    BY <1>4, <1>7 DEF BadMarker
  <2>2. SitsFor(table, WithMarker(rows[1], r.payload), r) /\ HasGap(WithMarker(rows[1], r.payload))
    BY <1>3, <1>5, <1>7, <2>1, WithMarkerSits
  <2>3. Sits(table, WithMarker(rows[1], r.payload))
    BY <2>2, SitsForSits
  <2> QED
    BY <1>2, <2>1, <2>3 DEF table
<1> QED
  BY <1>6, <1>7

\* Those are the columns of the schema, with values where it asks for them.
LEMMA SitsFits ==
    ASSUME NEW table \in TableNames, NEW row, Sits(table, row)
    PROVE  Fits(SchemaOf(table), row)
BY TablesAssumption
   DEF Sits, Own, SchemaOf, Fits, BaseColumns, TableNames, BookDiffSchema, TradeSchema, TopBookSchema,
       Required, Optional

\* The records of the first n chunks, and those the run has been given.
Prefix(c, n) == FlattenSeq([i \in 1..n |-> c.chunks[i].records])
Given == Prefix(capture, chunk - 1)

-----------------------------------------------------------------------------
\* The run stands where the records it was given put it.
Alive == pc \notin {"failed", "dead"}
StreamInv ==
    /\ capture \in Captures
    /\ chunk \in 1..Len(capture.chunks) + 1
    /\ Alive =>
          /\ \A i \in 1..chunk - 1 : capture.chunks[i].intact
          /\ IsRun(run) /\ Describes(run, Given) /\ Holds(run, <<>>)
          /\ run.rows_written = Len(TaggedIn("diff", Given)) + Len(TaggedIn("trade", Given))
                                  + Len(TaggedIn("topbook", Given))
    /\ Alive /\ pc # "start" => capture.readable
    /\ pc \in {"publish", "ok"} => chunk = Len(capture.chunks) + 1
    /\ VerdictIsTheWholes

\* What a partition is owed, what its staging file has, and what waits for it.
Owed(key) == RowsWith(TaggedIn(Tables[key[1]], Given), key)
Written(key) == IF key \in DOMAIN writers THEN staging[<<key, writers[key]>>] ELSE <<>>
Waits(key) == \E group \in todo : group.key = key

GroupInv ==
    /\ \A group \in todo :
          /\ group.key[1] \in DOMAIN Tables
          /\ group.table = Tables[group.key[1]]
          /\ \A i \in DOMAIN group.rows : Sits(group.table, group.rows[i])
          /\ Written(group.key) \o group.rows = Owed(group.key)
    /\ \A group, other \in todo : group.key = other.key => group = other

WriterInv ==
    /\ \A key \in DOMAIN writers :
          /\ key[1] \in DOMAIN Tables
          /\ <<key, writers[key]>> \in DOMAIN staging
          /\ ~Waits(key) => Written(key) = Owed(key)
    
Touched == \A t \in TableNames : \A key \in KeysIn(TaggedIn(t, Given)) : key \in DOMAIN writers \/ Waits(key)

FlushInv ==
    /\ pc \in {"start", "read", "publish", "ok"} => todo = {}
    /\ pc \in {"start", "read", "flush", "publish"} => GroupInv /\ WriterInv 
    /\ pc \in {"start", "read", "flush"} => Touched

\* The parts this run has published of a partition.
Mine(key) == {file \in DOMAIN parts : file[1] = key /\ parts[file].run = runs}
PublishInv ==
    /\ runs \in Nat
    /\ \A file \in DOMAIN parts : parts[file].run \in 0..runs
    /\ pc \in {"start", "read", "flush"} => \A file \in DOMAIN parts : parts[file].run # runs
    /\ pc \in {"publish", "ok"} =>
          /\ \A key \in DOMAIN writers : Mine(key) = {}
          /\ \A key \in KeysOf(capture) \ DOMAIN writers : \E file : Mine(key) = {file}
    /\ pc = "ok" => writers = <<>>
    /\ PartsAreWhole

\* The rows of one partition, as a map over tagged rows.
Selector(key, T) == [x \in T |-> IF x.key = key THEN <<x.row>> ELSE <<>>]
Selects(key, T, V) == \A x \in T : x.key = key => x.row \in V

\* The rows of a partition are rows of the table,
LEMMA RowsWithIsMapped ==
    ASSUME NEW T, NEW V, NEW key, Selects(key, T, V)
    PROVE  /\ Maps(Selector(key, T), T, V)
           /\ \A tagged \in Seq(T) : RowsWith(tagged, key) = FlattenSeq(Mapped(Selector(key, T), tagged))
<1> DEFINE F == Selector(key, T)
<1>1. Maps(F, T, V)
  <2>1. \A x \in T : (IF x.key = key THEN <<x.row>> ELSE <<>>) \in Seq(V)
    BY DEF Selects
  <2> QED
    BY <2>1 DEF Selector, Maps
<1>2. ASSUME NEW tagged \in Seq(T)
      PROVE  RowsWith(tagged, key) = FlattenSeq(Mapped(F, tagged))
  <2>1. \A i \in DOMAIN tagged : F[tagged[i]] = IF tagged[i].key = key THEN <<tagged[i].row>> ELSE <<>>
    <3>1. \A i \in DOMAIN tagged : tagged[i] \in T
      OBVIOUS
    <3> QED
      BY <3>1 DEF Selector
  <2> HIDE DEF F
  <2>2. Mapped(F, tagged) = [i \in DOMAIN tagged |-> IF tagged[i].key = key THEN <<tagged[i].row>> ELSE <<>>]
    BY <2>1 DEF Mapped
  <2> QED
    BY <2>2 DEF RowsWith
<1> QED
  BY <1>1, <1>2

\* each of them a row that was tagged with its key;
LEMMA RowsWithType ==
    ASSUME NEW T, NEW V, NEW key, Selects(key, T, V), NEW tagged \in Seq(T)
    PROVE  RowsWith(tagged, key) \in Seq(V)
<1> DEFINE F == Selector(key, T)
<1>1. Maps(F, T, V) /\ RowsWith(tagged, key) = FlattenSeq(Mapped(F, tagged))
  BY RowsWithIsMapped
<1> HIDE DEF F
<1>2. Mapped(F, tagged) \in Seq(Seq(V))
  BY <1>1, MapType DEF Maps
<1> QED
  BY <1>1, <1>2, FlattenType

\* those of two lists come one list after the other,
LEMMA RowsWithConcat ==
    ASSUME NEW T, NEW V, NEW key, Selects(key, T, V), NEW tagged \in Seq(T), NEW more \in Seq(T)
    PROVE  RowsWith(tagged \o more, key) = RowsWith(tagged, key) \o RowsWith(more, key)
<1> DEFINE F == Selector(key, T)
<1>1. Maps(F, T, V) /\ \A some \in Seq(T) : RowsWith(some, key) = FlattenSeq(Mapped(F, some))
  BY RowsWithIsMapped
<1> HIDE DEF F
<1>2. tagged \o more \in Seq(T)
  OBVIOUS
<1>3. FlattenSeq(Mapped(F, tagged \o more)) = FlattenSeq(Mapped(F, tagged)) \o FlattenSeq(Mapped(F, more))
  BY <1>1, FlattenMapConcat
<1> QED
  BY <1>1, <1>2, <1>3

\* and there are none where its key is not met.
LEMMA RowsWithNone ==
    ASSUME NEW T, NEW tagged \in Seq(T), NEW key, key \notin KeysIn(tagged)
    PROVE  RowsWith(tagged, key) = <<>>
<1> DEFINE U == {x \in T : x.key # key}
<1>1. tagged \in Seq(U)
  <2>1. \A i \in 1..Len(tagged) : tagged[i] \in T /\ tagged[i].key # key
    BY DEF KeysIn
  <2> QED
    BY <2>1
<1>2. Selects(key, U, {})
  BY DEF Selects
<1> HIDE DEF U
<1>3. RowsWith(tagged, key) \in Seq({})
  BY <1>1, <1>2, RowsWithType
<1>4. PICK rows \in Seq({}) : rows = RowsWith(tagged, key)
  BY <1>3
<1>5. rows = <<>>
  <2>1. Len(rows) \in Nat /\ \A i \in 1..Len(rows) : rows[i] \in {}
    OBVIOUS
  <2>2. Len(rows) = 0
    <3>1. CASE Len(rows) # 0
      <4>1. 1 \in 1..Len(rows)
        BY <2>1, <3>1
      <4> QED
        BY <2>1, <4>1
    <3> QED
      BY <3>1
  <2> QED
    BY <2>2
<1> QED
  BY <1>4, <1>5

\* The keys of two lists are those of both.
LEMMA KeysInConcat ==
    ASSUME NEW T, NEW tagged \in Seq(T), NEW more \in Seq(T)
    PROVE  KeysIn(tagged \o more) = KeysIn(tagged) \cup KeysIn(more)
<1> DEFINE n == Len(tagged)
           k == Len(more)
           both == tagged \o more
<1>1. /\ n \in Nat /\ k \in Nat /\ DOMAIN tagged = 1..n /\ DOMAIN more = 1..k /\ DOMAIN both = 1..n + k
      /\ \A i \in 1..n + k : both[i] = IF i <= n THEN tagged[i] ELSE more[i - n]
  OBVIOUS
<1> HIDE DEF both, n, k
<1>2. KeysIn(both) \subseteq KeysIn(tagged) \cup KeysIn(more)
  <2> SUFFICES ASSUME NEW i \in 1..n + k
      PROVE  both[i].key \in KeysIn(tagged) \cup KeysIn(more)
    BY <1>1 DEF KeysIn
  <2>1. CASE i <= n
    <3>1. i \in 1..n /\ both[i] = tagged[i]
      BY <1>1, <2>1
    <3> QED
      BY <1>1, <3>1 DEF KeysIn
  <2>2. CASE ~(i <= n)
    <3>1. i - n \in 1..k /\ both[i] = more[i - n]
      BY <1>1, <2>2
    <3> QED
      BY <1>1, <3>1 DEF KeysIn
  <2> QED
    BY <2>1, <2>2
<1>3. KeysIn(tagged) \subseteq KeysIn(both)
  <2> SUFFICES ASSUME NEW i \in 1..n
      PROVE  tagged[i].key \in KeysIn(both)
    BY <1>1 DEF KeysIn
  <2>1. i \in 1..n + k /\ both[i] = tagged[i]
    BY <1>1
  <2> QED
    BY <1>1, <2>1 DEF KeysIn
<1>4. KeysIn(more) \subseteq KeysIn(both)
  <2> SUFFICES ASSUME NEW i \in 1..k
      PROVE  more[i].key \in KeysIn(both)
    BY <1>1 DEF KeysIn
  <2>1. n + i \in 1..n + k /\ ~(n + i <= n) /\ (n + i) - n = i
    BY <1>1
  <2>2. both[n + i] = more[i]
    BY <1>1, <2>1
  <2> QED
    BY <1>1, <2>1, <2>2 DEF KeysIn
<1> QED
  BY <1>2, <1>3, <1>4 DEF both

-----------------------------------------------------------------------------
\* A table and its rank determine one another.
LEMMA RankTable ==
    /\ DOMAIN Tables = {1, 2, 3}
    /\ \A t \in TableNames : Rank(t) \in DOMAIN Tables /\ Tables[Rank(t)] = t
    /\ \A i \in DOMAIN Tables : Tables[i] \in TableNames /\ Rank(Tables[i]) = i
<1>1. /\ DOMAIN Tables = {1, 2, 3}
      /\ Tables[1] = "diff" /\ Tables[2] = "trade" /\ Tables[3] = "topbook"
  BY DEF Tables
<1>2. ASSUME NEW t \in TableNames
      PROVE  Rank(t) \in DOMAIN Tables /\ Tables[Rank(t)] = t
  <2>1. \E i \in DOMAIN Tables : Tables[i] = t
    BY <1>1 DEF TableNames
  <2> QED
    BY <2>1 DEF Rank
<1>3. ASSUME NEW i \in DOMAIN Tables
      PROVE  Tables[i] \in TableNames /\ Rank(Tables[i]) = i
  <2>1. Tables[i] \in TableNames
    BY <1>1, <1>3 DEF TableNames
  <2>2. Tables[Rank(Tables[i])] = Tables[i] /\ Rank(Tables[i]) \in DOMAIN Tables
    BY <1>2, <2>1
  <2> QED
    BY <1>1, <1>3, <2>1, <2>2
<1> QED
  BY <1>1, <1>2, <1>3

\* What the partitions are named by.
PartitionKeys == (1..3) \X Int \X Int

\* The rows of a record go to one of them.
LEMMA PartitionKeyType ==
    ASSUME NEW r, IsRecord(r), NEW t \in TableNames
    PROVE  PartitionKey(t, r) \in PartitionKeys /\ PartitionKey(t, r)[1] = Rank(t)
<1>1. Rank(t) \in 1..3
  BY RankTable
<1>2. r.instrument \in Instruments /\ r.ts_socket \in Int
  BY DEF IsRecord
<1>3. r.instrument \in Int
  <2>1. Instruments \subseteq Nat
    BY TablesAssumption
  <2>2. r.instrument \in Nat
    BY <1>2, <2>1
  <2> QED
    BY <2>2
<1>4. r.ts_socket \div Day \in Int
  <2>1. Day \in Nat \ {0}
    BY TablesAssumption
  <2>2. PICK ts \in Int : ts = r.ts_socket
    BY <1>2
  <2>3. ts \div Day \in Int
    BY <2>1
  <2> QED
    BY <2>2, <2>3
<1> QED
  BY <1>1, <1>3, <1>4 DEF PartitionKey, PartitionKeys, DateOf

\* The records of all captures, and the tagged rows of a table that they make.
RecordsIn(c) ==
    UNION {{c.chunks[i].records[j] : j \in DOMAIN c.chunks[i].records} : i \in DOMAIN c.chunks}
AllRecords == UNION {RecordsIn(c) : c \in Captures}
TagsAt(t) ==
    UNION {{TaggedOf(t, r)[i] : i \in DOMAIN TaggedOf(t, r)} : r \in AllRecords}
AllTags == UNION {TagsAt(t) : t \in TableNames}

\* What a capture holds is a record.
LEMMA AllRecordsAreRecords ==
    ASSUME NEW r \in AllRecords
    PROVE  IsRecord(r)
BY NormalizeAssumption DEF AllRecords, RecordsIn

\* The rows of a record go to a partition of its table, and have its columns.
LEMMA TaggedOfSits ==
    ASSUME NEW r, IsRecord(r), NEW t \in TableNames
    PROVE  /\ IsList(TaggedOf(t, r))
           /\ \A i \in DOMAIN TaggedOf(t, r) :
                  TaggedOf(t, r)[i].key = PartitionKey(t, r) /\ Sits(t, TaggedOf(t, r)[i].row)
<1> DEFINE rows == RowsOf(r)
           key == PartitionKey(t, r)
<1>1. IsList(<<>>) /\ DOMAIN <<>> = {}
  BY DEF IsList
<1>2. CASE TableOf(r.channel) # t \/ BadMarker(r)
  <2>1. TaggedOf(t, r) = <<>>
    BY <1>2 DEF TaggedOf
  <2> QED
    BY <1>1, <2>1
<1>3. CASE TableOf(r.channel) = t /\ ~BadMarker(r)
  <2>1. t # None
    BY TablesAssumption
  <2>2. IsList(rows) /\ \A i \in DOMAIN rows : Sits(t, rows[i])
    BY <1>3, <2>1, RowsSit
  <2>3. Len(rows) \in Nat /\ DOMAIN rows = 1..Len(rows)
    BY <2>2, ListType
  <2>4. PICK tagged : tagged = TaggedOf(t, r)
    OBVIOUS
  <2> HIDE DEF key, rows
  <2>5. tagged = [i \in 1..Len(rows) |-> [key |-> key, row |-> rows[i]]]
    BY <1>3, <2>3, <2>4 DEF TaggedOf, Tagged, rows, key
  <2>6. tagged \in Seq({tagged[i] : i \in DOMAIN tagged})
    BY <2>3, <2>5
  <2>7. \A i \in DOMAIN tagged : tagged[i].key = key /\ tagged[i].row = rows[i] /\ i \in DOMAIN rows
    BY <2>3, <2>5
  <2> QED
    BY <2>2, <2>4, <2>6, <2>7 DEF IsList, key
<1> QED
  BY <1>2, <1>3

\* So do those of all records of all captures.
LEMMA TagsAtAreTags ==
    ASSUME NEW t \in TableNames
    PROVE  /\ TagsOf(t, AllRecords, TagsAt(t))
           /\ \A x \in TagsAt(t) : x.key \in PartitionKeys /\ x.key[1] = Rank(t) /\ Sits(t, x.row)
           /\ TagsAt(t) \subseteq AllTags
<1>1. ASSUME NEW r \in AllRecords
      PROVE  TaggedOf(t, r) \in Seq(TagsAt(t))
  <2>1. PICK tagged : tagged = TaggedOf(t, r) /\ IsList(tagged)
    BY AllRecordsAreRecords, TaggedOfSits
  <2>2. Len(tagged) \in Nat /\ DOMAIN tagged = 1..Len(tagged)
    BY <2>1, ListType
  <2>3. \A i \in DOMAIN tagged : tagged[i] \in TagsAt(t)
    BY <2>1 DEF TagsAt
  <2>4. tagged \in Seq({tagged[i] : i \in DOMAIN tagged})
    BY <2>1 DEF IsList
  <2>5. tagged \in Seq(TagsAt(t))
    BY <2>2, <2>3, <2>4
  <2> QED
    BY <2>1, <2>5
<1>2. \A x \in TagsAt(t) : x.key \in PartitionKeys /\ x.key[1] = Rank(t) /\ Sits(t, x.row)
  BY AllRecordsAreRecords, TaggedOfSits, PartitionKeyType DEF TagsAt
<1>3. TagsAt(t) \subseteq AllTags
  BY DEF AllTags
<1> QED
  BY <1>1, <1>2, <1>3 DEF TagsOf

\* What the lemmas on ingest ask of the records holds of all of them.
LEMMA AllTagsAreTags ==
    /\ Tags(AllRecords, AllTags)
    /\ \A r \in AllRecords : r.synthetic \in BOOLEAN
<1>1. ASSUME NEW r \in AllRecords, TableOf(r.channel) # None, ~BadMarker(r)
      PROVE  IsList(RowsOf(r))
  BY <1>1, AllRecordsAreRecords, RowsSit
<1>2. ASSUME NEW r \in AllRecords, NEW t \in TableNames
      PROVE  TaggedOf(t, r) \in Seq(AllTags)
  <2>1. PICK tagged : tagged = TaggedOf(t, r)
    OBVIOUS
  <2>2. tagged \in Seq(TagsAt(t)) /\ TagsAt(t) \subseteq AllTags
    BY <2>1, TagsAtAreTags DEF TagsOf
  <2>3. tagged \in Seq(AllTags)
    BY <2>2
  <2> QED
    BY <2>1, <2>3
<1>3. \A r \in AllRecords : r.synthetic \in BOOLEAN
  BY AllRecordsAreRecords DEF IsRecord
<1> QED
  BY <1>1, <1>2, <1>3 DEF Tags

-----------------------------------------------------------------------------
\* A capture is a list of chunks, a chunk a list of records.
LEMMA ChunkRecords ==
    ASSUME NEW c \in Captures
    PROVE  /\ Len(c.chunks) \in Nat /\ DOMAIN c.chunks = 1..Len(c.chunks)
           /\ \A i \in 1..Len(c.chunks) : c.chunks[i].records \in Seq(AllRecords)
<1>1. Len(c.chunks) \in Nat /\ DOMAIN c.chunks = 1..Len(c.chunks)
  BY NormalizeAssumption, ListType
<1>2. ASSUME NEW i \in 1..Len(c.chunks)
      PROVE  c.chunks[i].records \in Seq(AllRecords)
  <2>1. PICK records : records = c.chunks[i].records /\ IsList(records)
    BY <1>1, NormalizeAssumption
  <2>2. Len(records) \in Nat /\ DOMAIN records = 1..Len(records)
    BY <2>1, ListType
  <2>3. \A j \in DOMAIN records : records[j] \in AllRecords
    BY <1>1, <2>1 DEF AllRecords, RecordsIn
  <2>4. records \in Seq({records[j] : j \in DOMAIN records})
    BY <2>1 DEF IsList
  <2>5. records \in Seq(AllRecords)
    BY <2>2, <2>3, <2>4
  <2> QED
    BY <2>1, <2>5
<1> QED
  BY <1>1, <1>2

\* The records given grow chunk by chunk, from none to all.
LEMMA PrefixGrows ==
    ASSUME NEW c \in Captures
    PROVE  /\ Prefix(c, 0) = <<>>
           /\ Prefix(c, Len(c.chunks)) = Records(c)
           /\ \A n \in 0..Len(c.chunks) : Prefix(c, n) \in Seq(AllRecords)
           /\ \A n \in 0..Len(c.chunks) - 1 :
                  Prefix(c, n + 1) = Prefix(c, n) \o c.chunks[n + 1].records
<1> DEFINE S(n) == [i \in 1..n |-> c.chunks[i].records]
           last == Len(c.chunks)
<1>1. /\ last \in Nat /\ DOMAIN c.chunks = 1..last
      /\ \A i \in 1..last : c.chunks[i].records \in Seq(AllRecords)
  BY ChunkRecords
<1>2. ASSUME NEW n \in 0..last
      PROVE  S(n) \in Seq(Seq(AllRecords))
  <2>1. \A i \in 1..n : c.chunks[i].records \in Seq(AllRecords)
    BY <1>1
  <2> QED
    BY <2>1, <1>1
<1>3. Prefix(c, 0) = <<>>
  <2>1. S(0) = <<>>
    OBVIOUS
  <2> QED
    BY <2>1, FlattenEmpty DEF Prefix
<1>4. Prefix(c, last) = Records(c)
  BY <1>1 DEF Prefix, Records
<1>5. ASSUME NEW n \in 0..last
      PROVE  Prefix(c, n) \in Seq(AllRecords)
  <2> HIDE DEF S
  <2>1. FlattenSeq(S(n)) \in Seq(AllRecords)
    BY <1>2, FlattenType
  <2> QED
    BY <2>1 DEF S, Prefix
<1>6. ASSUME NEW n \in 0..last - 1
      PROVE  Prefix(c, n + 1) = Prefix(c, n) \o c.chunks[n + 1].records
  <2>1. n \in 0..last /\ n + 1 \in 1..last
    BY <1>1
  <2>2. PICK some \in Seq(Seq(AllRecords)) : some = S(n)
    BY <1>2, <2>1
  <2>3. PICK next \in Seq(AllRecords) : next = c.chunks[n + 1].records
    BY <1>1, <2>1
  <2>4. S(n + 1) = Append(some, next)
    <3>1. Len(some) = n /\ \A i \in 1..n : some[i] = c.chunks[i].records
      BY <2>1, <2>2
    <3> QED
      BY <2>1, <2>3, <3>1
  <2> HIDE DEF S
  <2>5. FlattenSeq(Append(some, next)) = FlattenSeq(some) \o next
    BY FlattenAppend
  <2> QED
    BY <2>2, <2>3, <2>4, <2>5 DEF S, Prefix
<1> QED
  BY <1>3, <1>4, <1>5, <1>6
-----------------------------------------------------------------------------
\* The stream.

\* StreamRun::new has seen nothing.
LEMMA NewRunDescribesNothing ==
    /\ IsRun(NewRun) /\ Describes(NewRun, <<>>) /\ Holds(NewRun, <<>>)
    /\ NewRun.rows_written = 0
    /\ \A t \in TableNames : Len(TaggedIn(t, <<>>)) = 0
<1>1. /\ IsRun(NewRun) /\ NewRun.rows_written = 0
      /\ NewRun.records = 0 /\ NewRun.venue_frames = 0 /\ NewRun.decode_error = None
      /\ \A t \in TableNames : NewRun.buffer[t] = <<>> /\ NewRun.seen[t] = {} /\ NewRun.error[t] = None
  BY DEF NewRun, IsRun, Fields
<1>2. Frames(<<>>) = 0
  <2>1. {i \in DOMAIN <<>> : ~<<>>[i].synthetic} = {}
    OBVIOUS
  <2> QED
    BY <2>1, FS_EmptySet DEF Frames
<1>3. \A f : DOMAIN f = {} => Or(f) = None
  BY DEF Or, FirstFault
<1>4. FirstMarkerError(<<>>) = None
  BY <1>3 DEF FirstMarkerError
<1>5. \A t \in TableNames : Judges(NewRun, t, <<>>)
  <2>1. \A t : FirstError(t, <<>>) = None
    BY <1>3 DEF FirstError
  <2>2. \A t : KeysSeen(t, <<>>) = {}
    BY DEF KeysSeen
  <2> HIDE DEF NewRun
  <2> QED
    BY <1>1, <2>1, <2>2 DEF Judges
<1> HIDE DEF NewRun
<1> QED
  BY <1>1, <1>2, <1>4, <1>5, TaggedInEmpty DEF Describes, Holds

\* Taking the buffers changes nothing of what is known of the stream.
LEMMA DrainedDescribes ==
    ASSUME NEW so, IsRun(so), NEW recs, Describes(so, recs), NEW new, new = Drained(so)
    PROVE  /\ IsRun(new) /\ Describes(new, recs) /\ Holds(new, <<>>)
           /\ new.rows_written = so.rows_written + Len(so.buffer["diff"]) + Len(so.buffer["trade"])
                                   + Len(so.buffer["topbook"])
<1>1. /\ DOMAIN new = Fields
      /\ new.buffer = [t \in TableNames |-> <<>>]
      /\ new.seen = so.seen /\ new.error = so.error
      /\ new.records = so.records /\ new.venue_frames = so.venue_frames /\ new.decode_error = so.decode_error
      /\ new.rows_written = so.rows_written + Len(so.buffer["diff"]) + Len(so.buffer["trade"])
                              + Len(so.buffer["topbook"])
  BY DEF Drained, IsRun, Fields
<1>2. IsRun(new)
  BY <1>1 DEF IsRun
<1>3. \A t, tagged : Judges(so, t, tagged) => Judges(new, t, tagged)
  BY <1>1 DEF Judges
<1>4. Describes(new, recs)
  BY <1>1, <1>3 DEF Describes
<1>5. Holds(new, <<>>)
  BY <1>1, TaggedInEmpty DEF Holds
<1> QED
  BY <1>1, <1>2, <1>4, <1>5

\* A chunk is ingested: what the run then says of the records, and what is in its buffers.
LEMMA IngestedChunk ==
    ASSUME StreamInv, pc = "read", chunk <= Len(capture.chunks),
           NEW batch, batch = capture.chunks[chunk].records,
           NEW so, so = IngestAll(run, batch)
    PROVE  /\ batch \in Seq(AllRecords) /\ Given \in Seq(AllRecords)
           /\ Prefix(capture, chunk) = Given \o batch
           /\ IsRun(so) /\ so.rows_written = run.rows_written
           /\ Describes(so, Given \o batch) /\ Holds(so, batch)
<1>1. capture \in Captures /\ chunk \in 1..Len(capture.chunks) /\ Len(capture.chunks) \in Nat
  BY ChunkRecords DEF StreamInv
<1>2. batch \in Seq(AllRecords)
  BY <1>1, ChunkRecords
<1>3. chunk - 1 \in 0..Len(capture.chunks) - 1 /\ chunk - 1 \in 0..Len(capture.chunks) /\ (chunk - 1) + 1 = chunk
  BY <1>1
<1>4. Given \in Seq(AllRecords) /\ Prefix(capture, chunk) = Given \o batch
  BY <1>1, <1>3, PrefixGrows DEF Given
<1>5. IsRun(run) /\ Describes(run, Given) /\ Holds(run, <<>>)
  BY DEF StreamInv, Alive
<1> HIDE DEF Given
<1>6. /\ IsRun(so) /\ so.rows_written = run.rows_written
      /\ Describes(so, Given \o batch) /\ Holds(so, batch)
  BY <1>2, <1>4, <1>5, AllTagsAreTags, IngestAllDescribes
<1> QED
  BY <1>2, <1>4, <1>6

\* The rows of the records given, and of the chunk that is read.
LEMMA GivenTags ==
    ASSUME StreamInv, pc = "read", chunk <= Len(capture.chunks),
           NEW batch, batch = capture.chunks[chunk].records, NEW t \in TableNames
    PROVE  /\ TaggedIn(t, Given) \in Seq(TagsAt(t)) /\ TaggedIn(t, batch) \in Seq(TagsAt(t))
           /\ TaggedIn(t, Given \o batch) = TaggedIn(t, Given) \o TaggedIn(t, batch)
<1>1. Given \in Seq(AllRecords) /\ batch \in Seq(AllRecords)
  BY IngestedChunk
<1>2. TagsOf(t, AllRecords, TagsAt(t))
  BY TagsAtAreTags
<1> HIDE DEF Given
<1> QED
  BY <1>1, <1>2, TaggedInType, TaggedInConcat, SMTT(60)

\* A run starts where it should stand.
LEMMA StreamStarts ==
    ASSUME capture \in Captures, chunk = 1, run = NewRun, pc = "start"
    PROVE  StreamInv
<1>1. Len(capture.chunks) \in Nat
  BY ChunkRecords
<1>2. Given = <<>>
  BY PrefixGrows DEF Given
<1>3. VerdictIsTheWholes
  BY DEF VerdictIsTheWholes, Reports
<1>4. chunk \in 1..Len(capture.chunks) + 1 /\ \A i \in 1..chunk - 1 : FALSE
  BY <1>1
<1>5. /\ IsRun(run) /\ Describes(run, Given) /\ Holds(run, <<>>)
      /\ run.rows_written = Len(TaggedIn("diff", Given)) + Len(TaggedIn("trade", Given))
                              + Len(TaggedIn("topbook", Given))
  <2>1. {"diff", "trade", "topbook"} \subseteq TableNames
    BY DEF TableNames
  <2>2. 0 = 0 + 0 + 0
    OBVIOUS
  <2> HIDE DEF Given
  <2> QED
    BY <1>2, <2>1, <2>2, NewRunDescribesNothing
<1> HIDE DEF Given
<1> QED
  BY <1>3, <1>4, <1>5 DEF StreamInv

\* A chunk is read: the run stands where its records put it.
LEMMA ReadStreams ==
    ASSUME StreamInv, ReadChunk
    PROVE  StreamInv'
<1> DEFINE batch == capture.chunks[chunk].records
           so == IngestAll(run, batch)
<1>1. /\ pc = "read" /\ chunk <= Len(capture.chunks) /\ capture.chunks[chunk].intact
      /\ run' = Drained(so) /\ chunk' = chunk + 1 /\ pc' = "flush" /\ capture' = capture
  BY DEF ReadChunk
<1>2. /\ Prefix(capture, chunk) = Given \o batch
      /\ IsRun(so) /\ so.rows_written = run.rows_written
      /\ Describes(so, Given \o batch) /\ Holds(so, batch)
  BY <1>1, IngestedChunk
<1>3. \A t \in TableNames :
        /\ so.buffer[t] = TaggedIn(t, batch)
        /\ Len(TaggedIn(t, Given \o batch)) = Len(TaggedIn(t, Given)) + Len(TaggedIn(t, batch))
        /\ Len(TaggedIn(t, Given)) \in Nat /\ Len(TaggedIn(t, batch)) \in Nat
  <2> SUFFICES ASSUME NEW t \in TableNames
      PROVE  /\ so.buffer[t] = TaggedIn(t, batch)
             /\ Len(TaggedIn(t, Given \o batch)) = Len(TaggedIn(t, Given)) + Len(TaggedIn(t, batch))
             /\ Len(TaggedIn(t, Given)) \in Nat /\ Len(TaggedIn(t, batch)) \in Nat
    OBVIOUS
  <2>1. so.buffer[t] = TaggedIn(t, batch)
    BY <1>2 DEF Holds
  <2>2. PICK some \in Seq(TagsAt(t)) : some = TaggedIn(t, Given)
    BY <1>1, GivenTags
  <2>3. PICK more \in Seq(TagsAt(t)) : more = TaggedIn(t, batch)
    BY <1>1, GivenTags
  <2>4. TaggedIn(t, Given \o batch) = some \o more
    BY <1>1, <2>2, <2>3, GivenTags
  <2> HIDE DEF batch
  <2> QED
    BY <2>1, <2>2, <2>3, <2>4
<1>4. capture \in Captures /\ chunk \in Nat \ {0} /\ Len(capture.chunks) \in Nat
  BY ChunkRecords DEF StreamInv
<1>5. Given' = Given \o batch
  <2>1. chunk' - 1 = chunk
    BY <1>1, <1>4
  <2>2. Given' = Prefix(capture', chunk' - 1)
    BY DEF Given
  <2> QED
    BY <1>1, <1>2, <2>1, <2>2
<1>6. {"diff", "trade", "topbook"} \subseteq TableNames
  BY DEF TableNames
<1> HIDE DEF so, batch
<1>7. /\ IsRun(run') /\ Describes(run', Given') /\ Holds(run', <<>>)
      /\ run'.rows_written = run.rows_written + Len(so.buffer["diff"]) + Len(so.buffer["trade"])
                               + Len(so.buffer["topbook"])
  <2>1. PICK recs : recs = Given \o batch
    OBVIOUS
  <2>2. PICK new : new = Drained(so)
    OBVIOUS
  <2>3. /\ IsRun(new) /\ Describes(new, recs) /\ Holds(new, <<>>)
        /\ new.rows_written = so.rows_written + Len(so.buffer["diff"]) + Len(so.buffer["trade"])
                                + Len(so.buffer["topbook"])
    BY <1>2, <2>1, <2>2, DrainedDescribes
  <2> QED
    BY <1>1, <1>2, <1>5, <2>1, <2>2, <2>3
<1>8. run.rows_written = Len(TaggedIn("diff", Given)) + Len(TaggedIn("trade", Given))
                           + Len(TaggedIn("topbook", Given))
  BY <1>1 DEF StreamInv, Alive
<1>9. run'.rows_written = Len(TaggedIn("diff", Given')) + Len(TaggedIn("trade", Given'))
                           + Len(TaggedIn("topbook", Given'))
  <2>1. \A t \in TableNames :
          /\ Len(TaggedIn(t, Given')) = Len(TaggedIn(t, Given)) + Len(so.buffer[t])
          /\ Len(TaggedIn(t, Given)) \in Nat /\ Len(so.buffer[t]) \in Nat
    BY <1>3, <1>5
  <2> QED
    <3>1. "diff" \in TableNames /\ "trade" \in TableNames /\ "topbook" \in TableNames
      BY <1>6
    <3>2. PICK d1 \in Nat, d2 \in Nat : /\ Len(TaggedIn("diff", Given)) = d1 /\ Len(so.buffer["diff"]) = d2
                                        /\ Len(TaggedIn("diff", Given')) = d1 + d2
      BY <2>1, <3>1
    <3>3. PICK t1 \in Nat, t2 \in Nat : /\ Len(TaggedIn("trade", Given)) = t1 /\ Len(so.buffer["trade"]) = t2
                                        /\ Len(TaggedIn("trade", Given')) = t1 + t2
      BY <2>1, <3>1
    <3>4. PICK b1 \in Nat, b2 \in Nat : /\ Len(TaggedIn("topbook", Given)) = b1 /\ Len(so.buffer["topbook"]) = b2
                                        /\ Len(TaggedIn("topbook", Given')) = b1 + b2
      BY <2>1, <3>1
    <3>5. (d1 + t1 + b1) + d2 + t2 + b2 = (d1 + d2) + (t1 + t2) + (b1 + b2)
      OBVIOUS
    <3> QED
      BY <1>7, <1>8, <3>2, <3>3, <3>4, <3>5
<1>10. chunk' \in 1..Len(capture'.chunks) + 1 /\ \A i \in 1..chunk' - 1 : capture'.chunks[i].intact
  <2>1. \A i \in 1..chunk - 1 : capture.chunks[i].intact
    BY <1>1 DEF StreamInv, Alive
  <2> QED
    BY <1>1, <1>4, <2>1
<1>11. capture.readable
  BY <1>1 DEF StreamInv, Alive
<1>12. VerdictIsTheWholes'
  BY <1>1 DEF VerdictIsTheWholes, Reports
<1> HIDE DEF Given
<1> QED
  BY <1>1, <1>4, <1>7, <1>9, <1>10, <1>11, <1>12 DEF StreamInv

\* When the stream is through, finish finds what is wrong with the whole capture.
LEMMA JudgedRight ==
    ASSUME StreamInv, pc = "read", chunk > Len(capture.chunks)
    PROVE  Judgement(run) = Verdict(capture) /\ chunk = Len(capture.chunks) + 1
           /\ Given = Records(capture)
<1>1. /\ capture \in Captures /\ Len(capture.chunks) \in Nat
      /\ chunk = Len(capture.chunks) + 1
  BY ChunkRecords DEF StreamInv
<1>2. Given = Records(capture)
  <2>1. chunk - 1 = Len(capture.chunks)
    BY <1>1
  <2> QED
    BY <1>1, <2>1, PrefixGrows DEF Given
<1>3. /\ run.venue_frames = Frames(Records(capture))
      /\ run.decode_error = FirstMarkerError(Records(capture))
      /\ \A t \in TableNames : run.error[t] = TableError(capture, t)
  <2>1. Describes(run, Records(capture))
    BY <1>2 DEF StreamInv, Alive
  <2> QED
    BY <2>1 DEF Describes, Judges, TableError, TaggedRows
<1>4. {"diff", "trade", "topbook"} \subseteq TableNames
  BY DEF TableNames
<1>5. Judgement(run) = Verdict(capture)
  BY <1>3, <1>4 DEF Judgement, Verdict
<1> QED
  BY <1>1, <1>2, <1>5

\* Steps that read nothing.
LEMMA QuietStream ==
    ASSUME StreamInv, UNCHANGED <<capture, chunk, run>>,
           Alive' => Alive,
           Alive' /\ pc' # "start" => pc # "start" \/ capture.readable,
           pc' \in {"publish", "ok"} => pc \in {"publish", "ok"} \/ chunk = Len(capture.chunks) + 1,
           VerdictIsTheWholes'
    PROVE  StreamInv'
<1>1. Given' = Given
  BY DEF Given
<1> HIDE DEF Given
<1> QED
  BY <1>1 DEF StreamInv

\* A batch never is refused: the rows of every group have the columns of its table.
LEMMA GroupsMakeBatches ==
    ASSUME GroupInv, NEW group \in todo
    PROVE  MakesBatch(group.table, group.rows)
<1>1. group.table \in TableNames /\ \A i \in DOMAIN group.rows : Sits(group.table, group.rows[i])
  BY RankTable DEF GroupInv
<1>2. \A i \in DOMAIN group.rows : Fits(SchemaOf(group.table), group.rows[i])
  BY <1>1, SitsFits
<1> QED
  BY <1>1, <1>2 DEF MakesBatch, DiffRecordBatch, TradeRecordBatch, TopBookRecordBatch, SchemaOf, TableNames

\* They judge, write, publish or fail; only the judgement gives a verdict, and it is
\* that of the whole capture.
LEMMA OthersStream ==
    ASSUME StreamInv, FlushInv, [Next]_vars, ~ReadChunk, ~Rerun
    PROVE  StreamInv'
<1>1. CASE Judge
  <2>1. Judgement(run) = Verdict(capture) /\ chunk = Len(capture.chunks) + 1
    BY <1>1, JudgedRight DEF Judge
  <2>2. /\ failure' = Verdict(capture) /\ pc' = IF Verdict(capture) = None THEN "publish" ELSE "abort"
        /\ pc = "read" /\ UNCHANGED <<capture, chunk, run>>
    BY <1>1, <2>1 DEF Judge
  <2>3. VerdictIsTheWholes'
    BY <2>2 DEF VerdictIsTheWholes, Reports
  <2> QED
    BY <2>1, <2>2, <2>3, QuietStream DEF Alive
<1>2. CASE FlushFails
  <2>1. PICK group \in todo :
          IF MakesBatch(group.table, group.rows)
          THEN Fail(Error("io", 0, "write")) ELSE Fail(Error("arrow", 0, "batch"))
    BY <1>2 DEF FlushFails
  <2>2. GroupInv
    BY <1>2 DEF FlushFails, FlushInv
  <2>3. MakesBatch(group.table, group.rows)
    BY <2>2, GroupsMakeBatches
  <2>4. failure'.kind = "io" /\ pc' = "failed" /\ UNCHANGED <<capture, chunk, run>>
    BY <1>2, <2>1, <2>3 DEF FlushFails, Fail, Error
  <2>5. VerdictIsTheWholes'
    BY <2>4 DEF VerdictIsTheWholes, Reports
  <2> QED
    BY <2>4, <2>5, QuietStream DEF Alive
<1>3. CASE Start \/ RefuseChunk \/ PublishFails
  <2>1. VerdictIsTheWholes'
    BY <1>3 DEF Start, RefuseChunk, PublishFails, Fail, Error, VerdictIsTheWholes, Reports
  <2> QED
    BY <1>3, <2>1, QuietStream DEF Start, RefuseChunk, PublishFails, Fail, Alive
<1>4. CASE Aborted
  <2>1. /\ pc = "abort" /\ pc' = "failed" /\ UNCHANGED <<capture, chunk, run, failure>>
        /\ failure = Verdict(capture)
    BY <1>4 DEF Aborted, StreamInv, VerdictIsTheWholes, Reports
  <2>2. VerdictIsTheWholes'
    BY <2>1 DEF VerdictIsTheWholes, Reports
  <2> QED
    BY <2>1, <2>2, QuietStream DEF Alive
<1>5. CASE FlushGroup \/ ChunkDone \/ AbortWriter \/ Publish \/ Published \/ Crash \/ UNCHANGED vars
  <2>1. /\ UNCHANGED <<capture, chunk, run, failure>>
        /\ \/ pc' = pc
           \/ pc = "flush" /\ pc' = "read"
           \/ pc = "publish" /\ pc' = "ok"
           \/ pc' = "dead"
    BY <1>5 DEF FlushGroup, ChunkDone, AbortWriter, Publish, Published, Crash, vars
  <2>2. VerdictIsTheWholes'
    BY <2>1 DEF StreamInv, VerdictIsTheWholes, Reports
  <2> QED
    BY <2>1, <2>2, QuietStream DEF Alive
<1> QED
  BY <1>1, <1>2, <1>3, <1>4, <1>5 DEF Next, Process

StartState ==
    /\ capture \in Captures /\ chunk = 1 /\ run = NewRun /\ pc = "start"
    /\ todo = {} /\ writers = <<>>

\* A run begins with nothing written and nothing waiting, a first one or a later one.
LEMMA FlushStarts == StartState => StreamInv /\ FlushInv
<1> SUFFICES ASSUME StartState
    PROVE  StreamInv /\ FlushInv
  OBVIOUS
<1>1. StreamInv
  BY StreamStarts DEF StartState
<1>2. Given = <<>>
  BY PrefixGrows DEF StartState, Given
<1>3. DOMAIN writers = {} /\ todo = {}
  BY DEF StartState
<1>4. GroupInv /\ WriterInv
  BY <1>3 DEF GroupInv, WriterInv
<1>5. Touched
  <2>1. \A t : KeysIn(TaggedIn(t, <<>>)) = {}
    BY TaggedInEmpty DEF KeysIn
  <2> HIDE DEF Given
  <2> QED
    BY <1>2, <2>1 DEF Touched
<1> QED
  BY <1>1, <1>3, <1>4, <1>5 DEF FlushInv

\* The same of the state after a step.
LEMMA FlushStartsAgain == StartState' => (StreamInv /\ FlushInv)'
BY FlushStarts, PTL

\* Steps that write nothing.
LEMMA QuietFlush ==
    ASSUME FlushInv, UNCHANGED <<capture, chunk, todo, writers, staging>>,
           pc' \in {"start", "read", "publish", "ok"} => todo = {},
           pc' \in {"start", "read", "flush", "publish"} => pc \in {"start", "read", "flush", "publish"},
           pc' \in {"start", "read", "flush"} => pc \in {"start", "read", "flush"}
    PROVE  FlushInv'
<1>1. Given' = Given
  BY DEF Given
<1> HIDE DEF Given
<1>2. \A key : Owed(key)' = Owed(key) /\ Written(key)' = Written(key) /\ Waits(key)' = Waits(key)
  BY <1>1 DEF Owed, Written, Waits
<1>3. GroupInv => GroupInv'
  BY <1>2 DEF GroupInv
<1>4. WriterInv => WriterInv'
  BY <1>2 DEF WriterInv
<1>5. Touched => Touched'
  BY <1>1, <1>2 DEF Touched
<1> QED
  BY <1>3, <1>4, <1>5 DEF FlushInv

\* A group is written: its partition has what it is owed, the others keep what they had.
LEMMA GroupFlushes ==
    ASSUME FlushInv, FlushGroup
    PROVE  FlushInv'
<1>1. /\ pc = "flush" /\ pc' = "flush" /\ UNCHANGED <<capture, chunk>>
      /\ GroupInv /\ WriterInv /\ Touched
  BY DEF FlushGroup, FlushInv
<1>2. PICK group \in todo :
        LET key == group.key
            n == IF key \in DOMAIN writers THEN writers[key] ELSE NextPart(key)
            had == IF key \in DOMAIN writers THEN staging[<<key, n>>] ELSE <<>>
        IN  /\ writers' = With(writers, key, n)
            /\ staging' = With(staging, <<key, n>>, had \o group.rows)
            /\ todo' = todo \ {group}
  BY DEF FlushGroup
<1> DEFINE key == group.key
           n == IF key \in DOMAIN writers THEN writers[key] ELSE NextPart(key)
<1>3. /\ writers' = With(writers, key, n)
      /\ staging' = With(staging, <<key, n>>, Written(key) \o group.rows)
      /\ todo' = todo \ {group}
  BY <1>2 DEF Written
<1>4. Given' = Given
  BY <1>1 DEF Given
<1> HIDE DEF Given
<1>5. \A k : Owed(k)' = Owed(k)
  BY <1>4 DEF Owed
<1>6. DOMAIN writers' = DOMAIN writers \cup {key} /\ writers'[key] = n
      /\ \A k \in DOMAIN writers : writers'[k] = writers[k]
  BY <1>3 DEF With
<1>7. DOMAIN staging' = DOMAIN staging \cup {<<key, n>>}
      /\ staging'[<<key, n>>] = Written(key) \o group.rows
      /\ \A file \in DOMAIN staging : file # <<key, n>> => staging'[file] = staging[file]
  BY <1>3 DEF With
<1>8. group \in todo /\ Written(key) \o group.rows = Owed(key) /\ key[1] \in DOMAIN Tables
  BY <1>1 DEF GroupInv
<1> HIDE DEF n, key
<1>9. Written(key)' = Owed(key)'
  BY <1>5, <1>6, <1>7, <1>8 DEF Written
<1>10. ASSUME NEW k, k # key
       PROVE  (k \in DOMAIN writers => <<k, writers[k]>> \in DOMAIN staging) => Written(k)' = Written(k)
  <2>1. k \in DOMAIN writers' <=> k \in DOMAIN writers
    BY <1>6, <1>10
  <2>2. CASE k \in DOMAIN writers
    <3>1. writers'[k] = writers[k] /\ <<k, writers[k]>> # <<key, n>>
      BY <1>6, <1>10, <2>2
    <3>2. <<k, writers[k]>> \in DOMAIN staging =>
             staging'[<<k, writers[k]>>] = staging[<<k, writers[k]>>]
      BY <1>7, <3>1
    <3> QED
      BY <2>1, <2>2, <3>1, <3>2 DEF Written
  <2>3. CASE k \notin DOMAIN writers
    BY <2>1, <2>3 DEF Written
  <2> QED
    BY <2>2, <2>3
<1>11. \A k : k # key => Waits(k)' = Waits(k)
  BY <1>3 DEF Waits, key
<1>12. \A other \in todo' : other \in todo /\ other # group /\ other.key # key
  BY <1>1, <1>3 DEF GroupInv, key
<1>13. \A k \in DOMAIN writers : <<k, writers[k]>> \in DOMAIN staging
  BY <1>1 DEF WriterInv
<1>14. GroupInv'
  <2>1. \A other \in todo' :
          /\ other.key[1] \in DOMAIN Tables
          /\ other.table = Tables[other.key[1]]
          /\ \A i \in DOMAIN other.rows : Sits(other.table, other.rows[i])
          /\ Written(other.key) \o other.rows = Owed(other.key)
    BY <1>1, <1>12 DEF GroupInv
  <2>2. \A other \in todo' : Written(other.key)' = Written(other.key)
    BY <1>10, <1>12, <1>13
  <2>3. \A g, other \in todo' : g.key = other.key => g = other
    BY <1>1, <1>12 DEF GroupInv
  <2> QED
    BY <1>5, <2>1, <2>2, <2>3 DEF GroupInv
<1>15. WriterInv'
  <2> SUFFICES ASSUME NEW k \in DOMAIN writers'
      PROVE  /\ k[1] \in DOMAIN Tables
             /\ <<k, writers'[k]>> \in DOMAIN staging'
             /\ ~Waits(k)' => Written(k)' = Owed(k)'
    BY DEF WriterInv
  <2>1. CASE k = key
    BY <1>6, <1>7, <1>8, <1>9, <2>1
  <2>2. CASE k # key
    <3>1. k \in DOMAIN writers /\ writers'[k] = writers[k]
      BY <1>6, <2>2
    <3>2. k[1] \in DOMAIN Tables /\ <<k, writers[k]>> \in DOMAIN staging
          /\ (~Waits(k) => Written(k) = Owed(k))
      BY <1>1, <3>1 DEF WriterInv
    <3>3. Written(k)' = Written(k)
      BY <1>10, <2>2, <3>2
    <3> QED
      BY <1>5, <1>7, <1>11, <2>2, <3>1, <3>2, <3>3
  <2> QED
    BY <2>1, <2>2
<1>16. Touched'
  <2>1. \A k : k \in DOMAIN writers \/ Waits(k) => k \in DOMAIN writers' \/ Waits(k)'
    BY <1>6, <1>11
  <2> QED
    BY <1>1, <1>4, <2>1 DEF Touched
<1> QED
  BY <1>1, <1>14, <1>15, <1>16 DEF FlushInv

\* What the tables get from a chunk: the rows of each partition fit its table.
LEMMA ChunkRowsSit ==
    ASSUME StreamInv, pc = "read", chunk <= Len(capture.chunks),
           NEW batch, batch = capture.chunks[chunk].records, NEW t \in TableNames, NEW key
    PROVE  /\ \A i \in DOMAIN RowsWith(TaggedIn(t, batch), key) : Sits(t, RowsWith(TaggedIn(t, batch), key)[i])
           /\ key \in KeysIn(TaggedIn(t, batch)) => key \in PartitionKeys /\ key[1] = Rank(t)
           /\ RowsWith(TaggedIn(t, Given \o batch), key) =
                RowsWith(TaggedIn(t, Given), key) \o RowsWith(TaggedIn(t, batch), key)
           /\ key \notin KeysIn(TaggedIn(t, batch)) =>
                RowsWith(TaggedIn(t, Given \o batch), key) = RowsWith(TaggedIn(t, Given), key)
           /\ key \notin KeysIn(TaggedIn(t, Given)) => RowsWith(TaggedIn(t, Given), key) = <<>>
           /\ KeysIn(TaggedIn(t, Given \o batch)) = KeysIn(TaggedIn(t, Given)) \cup KeysIn(TaggedIn(t, batch))
<1> DEFINE V == {x.row : x \in TagsAt(t)}
<1>1. PICK some \in Seq(TagsAt(t)) : some = TaggedIn(t, Given)
  BY GivenTags
<1>2. PICK more \in Seq(TagsAt(t)) : more = TaggedIn(t, batch)
  BY GivenTags
<1>3. TaggedIn(t, Given \o batch) = some \o more
  BY <1>1, <1>2, GivenTags
<1>4. Selects(key, TagsAt(t), V) /\ \A row \in V : Sits(t, row)
  BY TagsAtAreTags DEF Selects
<1> HIDE DEF V, Given
<1>5. RowsWith(some \o more, key) = RowsWith(some, key) \o RowsWith(more, key)
  BY <1>4, RowsWithConcat
<1>6. PICK old \in Seq(V) : old = RowsWith(some, key)
  BY <1>4, RowsWithType
<1>7. PICK new \in Seq(V) : new = RowsWith(more, key)
  BY <1>4, RowsWithType
<1>8. \A i \in DOMAIN new : Sits(t, new[i])
  <2>1. \A i \in DOMAIN new : new[i] \in V
    OBVIOUS
  <2> QED
    BY <1>4, <2>1
<1>9. key \in KeysIn(more) => key \in PartitionKeys /\ key[1] = Rank(t)
  <2>1. \A i \in DOMAIN more : more[i] \in TagsAt(t)
    OBVIOUS
  <2> QED
    BY <2>1, TagsAtAreTags DEF KeysIn
<1>10. key \notin KeysIn(more) => RowsWith(some \o more, key) = RowsWith(some, key)
  <2>1. key \notin KeysIn(more) => new = <<>>
    BY <1>7, RowsWithNone
  <2>2. old \o <<>> = old
    OBVIOUS
  <2> QED
    BY <1>5, <1>6, <1>7, <2>1, <2>2
<1>11. key \notin KeysIn(some) => RowsWith(some, key) = <<>>
  BY RowsWithNone
<1>12. KeysIn(some \o more) = KeysIn(some) \cup KeysIn(more)
  BY KeysInConcat
<1>a. \A i \in DOMAIN RowsWith(TaggedIn(t, batch), key) : Sits(t, RowsWith(TaggedIn(t, batch), key)[i])
  BY <1>2, <1>7, <1>8
<1>b. key \in KeysIn(TaggedIn(t, batch)) => key \in PartitionKeys /\ key[1] = Rank(t)
  BY <1>2, <1>9
<1>c. RowsWith(TaggedIn(t, Given \o batch), key) =
        RowsWith(TaggedIn(t, Given), key) \o RowsWith(TaggedIn(t, batch), key)
  BY <1>1, <1>2, <1>3, <1>5
<1>d. key \notin KeysIn(TaggedIn(t, batch)) =>
        RowsWith(TaggedIn(t, Given \o batch), key) = RowsWith(TaggedIn(t, Given), key)
  BY <1>1, <1>2, <1>3, <1>10
<1>e. key \notin KeysIn(TaggedIn(t, Given)) => RowsWith(TaggedIn(t, Given), key) = <<>>
  BY <1>1, <1>11
<1>f. KeysIn(TaggedIn(t, Given \o batch)) = KeysIn(TaggedIn(t, Given)) \cup KeysIn(TaggedIn(t, batch))
  BY <1>1, <1>2, <1>3, <1>12
<1> QED
  BY <1>a, <1>b, <1>c, <1>d, <1>e, <1>f

\* A chunk is read: what it adds to a partition waits for the partition.
LEMMA ReadFlushes ==
    ASSUME StreamInv, FlushInv, ReadChunk
    PROVE  FlushInv'
<1>1. PICK batch : batch = capture.chunks[chunk].records
  OBVIOUS
<1>2. PICK so : so = IngestAll(run, batch)
  OBVIOUS
<1>3. /\ pc = "read" /\ chunk <= Len(capture.chunks) /\ pc' = "flush"
      /\ todo' = AllGroups(so) /\ chunk' = chunk + 1 /\ UNCHANGED <<capture, writers, staging>>
  BY <1>1, <1>2 DEF ReadChunk
<1>4. GroupInv /\ WriterInv /\ Touched /\ todo = {}
  BY <1>3 DEF FlushInv
<1>5. \A t \in TableNames : so.buffer[t] = TaggedIn(t, batch)
  BY <1>1, <1>2, <1>3, IngestedChunk DEF Holds
<1>6. Given' = Given \o batch
  <2>1. chunk' - 1 = chunk
    BY <1>3 DEF StreamInv
  <2>2. Given' = Prefix(capture', chunk' - 1) /\ Prefix(capture, chunk) = Given \o batch
    BY <1>1, <1>2, <1>3, IngestedChunk DEF Given
  <2> QED
    BY <1>3, <2>1, <2>2
<1> DEFINE Rows(t, key) == RowsWith(TaggedIn(t, batch), key)
           Keys(t) == KeysIn(TaggedIn(t, batch))
<1> HIDE DEF Given
<1>7. ASSUME NEW t \in TableNames, NEW key
      PROVE  /\ \A i \in DOMAIN Rows(t, key) : Sits(t, Rows(t, key)[i])
             /\ key \in Keys(t) => key[1] = Rank(t)
             /\ RowsWith(TaggedIn(t, Given'), key) = RowsWith(TaggedIn(t, Given), key) \o Rows(t, key)
             /\ key \notin Keys(t) => RowsWith(TaggedIn(t, Given'), key) = RowsWith(TaggedIn(t, Given), key)
             /\ key \notin KeysIn(TaggedIn(t, Given)) => RowsWith(TaggedIn(t, Given), key) = <<>>
             /\ KeysIn(TaggedIn(t, Given')) = KeysIn(TaggedIn(t, Given)) \cup Keys(t)
  BY <1>1, <1>3, <1>6, ChunkRowsSit, ZenonT(60)
<1> HIDE DEF Rows, Keys
<1>8. todo' = UNION {{[table |-> t, key |-> key, rows |-> Rows(t, key)] : key \in Keys(t)} : t \in TableNames}
  BY <1>3, <1>5 DEF AllGroups, Groups, Rows, Keys
<1>9. ASSUME NEW key, key[1] \in DOMAIN Tables
      PROVE  /\ Owed(key)' = Owed(key) \o Rows(Tables[key[1]], key)
             /\ key \notin Keys(Tables[key[1]]) => Owed(key)' = Owed(key)
             /\ Written(key)' = Written(key) /\ Written(key) = Owed(key)
  <2>1. Tables[key[1]] \in TableNames
    BY <1>9, RankTable
  <2>2. Written(key)' = Written(key)
    BY <1>3 DEF Written
  <2>3. key \in DOMAIN writers => Written(key) = Owed(key)
    BY <1>4 DEF WriterInv, Waits
  <2>4. ASSUME key \notin DOMAIN writers
        PROVE  Written(key) = Owed(key)
    <3>1. key \notin KeysIn(TaggedIn(Tables[key[1]], Given))
      BY <1>4, <2>1, <2>4 DEF Touched, Waits
    <3> QED
      BY <1>7, <2>1, <2>4, <3>1 DEF Written, Owed
  <2>5. Written(key) = Owed(key)
    BY <2>3, <2>4
  <2> QED
    BY <1>7, <2>1, <2>2, <2>5 DEF Owed
<1>10. ASSUME NEW group \in todo'
       PROVE  /\ group.key[1] \in DOMAIN Tables
              /\ group.table = Tables[group.key[1]] /\ group.key \in Keys(group.table)
              /\ group = [table |-> group.table, key |-> group.key, rows |-> Rows(group.table, group.key)]
  <2>1. PICK t, key :
          t \in TableNames /\ key \in Keys(t) /\ group = [table |-> t, key |-> key, rows |-> Rows(t, key)]
    BY <1>8
  <2>2. key[1] = Rank(t) /\ Rank(t) \in DOMAIN Tables /\ Tables[Rank(t)] = t
    BY <1>7, <2>1, RankTable
  <2> QED
    BY <2>1, <2>2
<1>11. GroupInv'
  <2>1. ASSUME NEW group \in todo'
        PROVE  /\ group.key[1] \in DOMAIN Tables
               /\ group.table = Tables[group.key[1]]
               /\ \A i \in DOMAIN group.rows : Sits(group.table, group.rows[i])
               /\ Written(group.key)' \o group.rows = Owed(group.key)'
    <3>1. PICK t, key, rows : t = group.table /\ key = group.key /\ rows = group.rows
      OBVIOUS
    <3>2. key[1] \in DOMAIN Tables /\ t = Tables[key[1]] /\ rows = Rows(t, key)
      BY <1>10, <3>1
    <3>3. t \in TableNames
      BY <3>2, RankTable
    <3>4. \A i \in DOMAIN rows : Sits(t, rows[i])
      BY <1>7, <3>2, <3>3
    <3>5. Written(key)' \o rows = Owed(key)'
      BY <1>9, <3>2
    <3> QED
      BY <3>1, <3>2, <3>4, <3>5
  <2>2. ASSUME NEW group \in todo', NEW other \in todo', group.key = other.key
        PROVE  group = other
    BY <1>10, <2>2
  <2> QED
    BY <2>1, <2>2 DEF GroupInv
<1>12. ASSUME NEW t \in TableNames, NEW key \in Keys(t)
       PROVE  Waits(key)'
  <2>1. [table |-> t, key |-> key, rows |-> Rows(t, key)] \in todo'
    BY <1>8
  <2> QED
    BY <2>1 DEF Waits
<1>13. WriterInv'
  <2> SUFFICES ASSUME NEW key \in DOMAIN writers, ~Waits(key)'
      PROVE  Written(key)' = Owed(key)'
    BY <1>3, <1>4 DEF WriterInv
  <2>1. key[1] \in DOMAIN Tables
    BY <1>4 DEF WriterInv
  <2>2. Tables[key[1]] \in TableNames
    BY <2>1, RankTable
  <2>3. key \notin Keys(Tables[key[1]])
    BY <1>12, <2>2
  <2> QED
    BY <1>9, <2>1, <2>3
<1>14. Touched'
  <2> SUFFICES ASSUME NEW t \in TableNames, NEW key \in KeysIn(TaggedIn(t, Given'))
      PROVE  key \in DOMAIN writers' \/ Waits(key)'
    BY DEF Touched
  <2>1. key \in KeysIn(TaggedIn(t, Given)) \/ key \in Keys(t)
    BY <1>7
  <2>2. key \in KeysIn(TaggedIn(t, Given)) => key \in DOMAIN writers
    BY <1>4 DEF Touched, Waits
  <2> QED
    BY <1>3, <1>12, <2>1, <2>2
<1> QED
  BY <1>3, <1>11, <1>13, <1>14 DEF FlushInv

\* A file is renamed: the other writers keep theirs.
LEMMA PublishFlushes ==
    ASSUME FlushInv, Publish
    PROVE  FlushInv'
<1>1. /\ pc = "publish" /\ pc' = "publish" /\ UNCHANGED <<capture, chunk, todo>>
      /\ GroupInv /\ WriterInv /\ todo = {}
  BY DEF Publish, FlushInv
<1>2. PICK key \in DOMAIN writers :
        /\ staging' = Without(staging, <<key, writers[key]>>)
        /\ writers' = Without(writers, key)
  BY DEF Publish
<1>3. Given' = Given
  BY <1>1 DEF Given
<1> HIDE DEF Given
<1>4. \A k \in DOMAIN writers' :
        /\ k \in DOMAIN writers /\ k # key /\ writers'[k] = writers[k]
        /\ <<k, writers[k]>> \in DOMAIN staging =>
              <<k, writers[k]>> \in DOMAIN staging' /\ staging'[<<k, writers[k]>>] = staging[<<k, writers[k]>>]
  BY <1>2 DEF Without
<1>5. WriterInv'
  <2> SUFFICES ASSUME NEW k \in DOMAIN writers'
      PROVE  /\ k[1] \in DOMAIN Tables
             /\ <<k, writers'[k]>> \in DOMAIN staging'
             /\ Written(k)' = Owed(k)'
    BY DEF WriterInv
  <2>1. k \in DOMAIN writers /\ writers'[k] = writers[k]
    BY <1>4
  <2>2. k[1] \in DOMAIN Tables /\ <<k, writers[k]>> \in DOMAIN staging /\ Written(k) = Owed(k)
    BY <1>1, <2>1 DEF WriterInv, Waits
  <2>3. <<k, writers[k]>> \in DOMAIN staging' /\ Written(k)' = Written(k)
    BY <1>4, <2>1, <2>2 DEF Written
  <2>4. Owed(k)' = Owed(k)
    BY <1>3 DEF Owed
  <2> QED
    BY <2>1, <2>2, <2>3, <2>4
<1>6. GroupInv'
  BY <1>1 DEF GroupInv
<1> QED
  BY <1>1, <1>5, <1>6 DEF FlushInv

\* Every step keeps both.
LEMMA StreamStep == StreamInv /\ FlushInv /\ [Next]_vars => StreamInv' /\ FlushInv'
<1> SUFFICES ASSUME StreamInv, FlushInv, [Next]_vars
    PROVE  StreamInv' /\ FlushInv'
  OBVIOUS
<1>1. CASE ReadChunk
  BY <1>1, ReadStreams, ReadFlushes
<1>2. CASE Rerun
  <2>1. StartState'
    BY <1>2, NormalizeAssumption DEF Rerun, StartState
  <2> QED
    BY <2>1, FlushStartsAgain
<1>3. CASE ~ReadChunk /\ ~Rerun
  <2>1. StreamInv'
    BY <1>3, OthersStream
  <2>2. CASE FlushGroup
    BY <2>1, <2>2, GroupFlushes
  <2>3. CASE Publish
    BY <2>1, <2>3, PublishFlushes
  <2>4. CASE AbortWriter
    <3>1. pc' = "abort"
      BY <2>4 DEF AbortWriter
    <3> QED
      BY <2>1, <3>1 DEF FlushInv
  <2>5. CASE Start \/ RefuseChunk \/ FlushFails \/ ChunkDone \/ Judge \/ Aborted \/ PublishFails \/ Published
             \/ Crash \/ UNCHANGED vars
    <3>1. /\ UNCHANGED <<capture, chunk, todo, writers, staging>>
          /\ \/ pc' = pc
             \/ pc' \in {"failed", "dead", "abort"}
             \/ pc = "start" /\ pc' = "read"
             \/ pc = "flush" /\ pc' = "read" /\ todo = {}
             \/ pc = "read" /\ pc' = "publish"
             \/ pc = "publish" /\ pc' = "ok"
      BY <2>5 DEF Start, RefuseChunk, FlushFails, ChunkDone, Judge, Aborted, PublishFails, Published, Crash, vars,
                  Fail
    <3>2. pc \in {"start", "read", "publish", "ok"} => todo = {}
      BY DEF FlushInv
    <3>3. FlushInv'
      BY <3>1, <3>2, QuietFlush
    <3> QED
      BY <2>1, <3>3
  <2> QED
    BY <1>3, <2>1, <2>2, <2>3, <2>4, <2>5 DEF Next, Process
<1> QED
  BY <1>1, <1>2, <1>3

\* A run stands where the records it was given put it, and has written what they owe
\* each partition or holds it in memory.
THEOREM StreamInvariant == Spec => [](StreamInv /\ FlushInv)
<1>1. Init => StreamInv /\ FlushInv
  BY FlushStarts DEF Init, StartState
<1> QED
  BY <1>1, StreamStep, PTL DEF Spec

\* However a capture is cut into chunks, wherever its offences are, and whatever was
\* normalized into the directory before: a run that judges its capture (finish) gives
\* the error, with its kind, its record and its reason, that judging all records as
\* one sequence gives, or none where that gives none.  A refused batch (arrow) is never
\* what it fails with.
THEOREM VerdictIsTheWholesTheorem == Spec => []VerdictIsTheWholes
<1>1. StreamInv => VerdictIsTheWholes
  BY DEF StreamInv
<1> QED
  BY <1>1, StreamInvariant, PTL

-----------------------------------------------------------------------------
\* When the stream is through, a partition is owed its rows of the whole capture.
LEMMA WholeCapture ==
    ASSUME StreamInv, Alive, chunk = Len(capture.chunks) + 1
    PROVE  /\ Given = Records(capture)
           /\ \A key : Owed(key) = RowsFor(capture, key)
           /\ \A i \in DOMAIN capture.chunks : capture.chunks[i].intact
           /\ run.records = Len(Records(capture))
           /\ run.rows_written = Len(TaggedRows(capture, "diff")) + Len(TaggedRows(capture, "trade"))
                                   + Len(TaggedRows(capture, "topbook"))
<1>1. capture \in Captures /\ Len(capture.chunks) \in Nat /\ DOMAIN capture.chunks = 1..Len(capture.chunks)
  BY ChunkRecords DEF StreamInv
<1>2. chunk - 1 = Len(capture.chunks)
  BY <1>1
<1>3. Given = Records(capture)
  BY <1>1, <1>2, PrefixGrows DEF Given
<1>4. \A i \in DOMAIN capture.chunks : capture.chunks[i].intact
  BY <1>1, <1>2 DEF StreamInv
<1> HIDE DEF Given
<1>5. \A key : Owed(key) = RowsFor(capture, key)
  BY <1>3 DEF Owed, RowsFor, TaggedRows
<1>6. run.records = Len(Records(capture))
  BY <1>3 DEF StreamInv, Describes
<1>7. run.rows_written = Len(TaggedRows(capture, "diff")) + Len(TaggedRows(capture, "trade"))
                           + Len(TaggedRows(capture, "topbook"))
  BY <1>3 DEF StreamInv, TaggedRows
<1> QED
  BY <1>3, <1>4, <1>5, <1>6, <1>7

\* A capture that is judged right has a writer for each of its partitions.
LEMMA JudgePublishes ==
    ASSUME StreamInv, FlushInv, PublishInv, Judge
    PROVE  PublishInv'
<1>1. /\ pc = "read" /\ chunk > Len(capture.chunks) /\ pc' \in {"publish", "abort"}
      /\ UNCHANGED <<capture, writers, parts, runs>>
  BY DEF Judge
<1>2. Given = Records(capture)
  BY <1>1, JudgedRight
<1>3. todo = {} /\ Touched
  BY <1>1 DEF FlushInv
<1> HIDE DEF Given
<1>4. KeysOf(capture) \subseteq DOMAIN writers
  BY <1>2, <1>3 DEF KeysOf, TaggedRows, Touched, Waits
<1>5. \A key : Mine(key)' = {}
  BY <1>1 DEF Mine, PublishInv
<1>6. KeysOf(capture)' \ DOMAIN writers' = {}
  BY <1>1, <1>4
<1>7. PartsAreWhole'
  BY <1>1 DEF PublishInv, PartsAreWhole
<1> QED
  BY <1>1, <1>5, <1>6, <1>7 DEF PublishInv

\* A rename adds the one part of its partition, and that part is whole.
LEMMA PublishPublishes ==
    ASSUME NumberInv, StreamInv, FlushInv, PublishInv, Publish
    PROVE  PublishInv'
<1>1. /\ pc = "publish" /\ pc' = "publish" /\ UNCHANGED <<capture, runs>>
      /\ WriterInv /\ todo = {}
  BY DEF Publish, FlushInv
<1>2. PICK key \in DOMAIN writers :
        LET file == <<key, writers[key]>>
        IN  /\ parts' = With(parts, file, [rows |-> staging[file], of |-> capture, run |-> runs])
            /\ writers' = Without(writers, key)
  BY DEF Publish
<1> DEFINE file == <<key, writers[key]>>
<1>3. /\ DOMAIN parts' = DOMAIN parts \cup {file}
      /\ parts'[file].rows = staging[file] /\ parts'[file].of = capture /\ parts'[file].run = runs
      /\ \A f \in DOMAIN parts : f # file => parts'[f] = parts[f]
  BY <1>2 DEF With
<1>4. DOMAIN writers' = DOMAIN writers \ {key}
  BY <1>2 DEF Without
<1>5. file[1] = key /\ key \in DOMAIN writers
  OBVIOUS
<1>6. chunk = Len(capture.chunks) + 1 /\ Alive /\ capture.readable /\ Verdict(capture) = None
  BY <1>1 DEF StreamInv, Alive, VerdictIsTheWholes, Reports
<1>7. Sound(capture) /\ RowsFor(capture, key) = Owed(key)
  BY <1>6, WholeCapture DEF Sound
<1>8. staging[file] = RowsFor(capture, key)
  <2>1. Written(key) = Owed(key)
    BY <1>1 DEF WriterInv, Waits
  <2> QED
    BY <1>7, <2>1 DEF Written
<1> HIDE DEF file
<1>9. PartsAreWhole'
  <2>1. \A f \in DOMAIN parts' : Sound(parts'[f].of) /\ parts'[f].rows = RowsFor(parts'[f].of, f[1])
    <3> SUFFICES ASSUME NEW f \in DOMAIN parts'
        PROVE  Sound(parts'[f].of) /\ parts'[f].rows = RowsFor(parts'[f].of, f[1])
      OBVIOUS
    <3>1. CASE f = file
      BY <1>3, <1>5, <1>7, <1>8, <3>1
    <3>2. CASE f # file
      BY <1>3, <3>2 DEF PublishInv, PartsAreWhole
    <3> QED
      BY <3>1, <3>2
  <2> QED
    BY <2>1 DEF PartsAreWhole
<1>10. Mine(key)' = {file}
  <2>1. Mine(key) = {}
    BY <1>1, <1>5 DEF PublishInv
  <2>2. \A f \in Mine(key)' : f = file
    BY <1>1, <1>3, <2>1 DEF Mine
  <2>3. file \in Mine(key)'
    BY <1>1, <1>3, <1>5 DEF Mine
  <2> QED
    BY <2>2, <2>3
<1>11. \A k : k # key => Mine(k)' = Mine(k)
  BY <1>1, <1>3, <1>5 DEF Mine
<1>12. \A k \in DOMAIN writers' : Mine(k)' = {}
  BY <1>1, <1>4, <1>11 DEF PublishInv
<1>13. \A k \in KeysOf(capture)' \ DOMAIN writers' : \E f : Mine(k)' = {f}
  <2>1. \A k \in KeysOf(capture) \ DOMAIN writers : \E f : Mine(k) = {f}
    BY <1>1 DEF PublishInv
  <2> QED
    BY <1>1, <1>4, <1>10, <1>11, <2>1
<1>14. \A f \in DOMAIN parts' : parts'[f].run \in 0..runs
  BY <1>3 DEF PublishInv
<1> QED
  BY <1>1, <1>9, <1>12, <1>13, <1>14 DEF PublishInv

\* No other step publishes.
LEMMA OthersPublish ==
    ASSUME PublishInv, [Next]_vars, ~Judge, ~Publish
    PROVE  PublishInv'
<1>1. CASE Rerun
  <2>1. /\ parts' = parts /\ runs' = runs + 1 /\ pc' = "start"
    BY <1>1 DEF Rerun
  <2>2. PartsAreWhole'
    BY <2>1 DEF PublishInv, PartsAreWhole
  <2>3. \A file \in DOMAIN parts : parts[file].run \in 0..runs' /\ parts[file].run # runs'
    BY <2>1 DEF PublishInv
  <2> QED
    BY <2>1, <2>2, <2>3 DEF PublishInv
<1>2. CASE ~Rerun
  <2>1. /\ UNCHANGED <<parts, runs>>
        /\ \/ pc' \in {"failed", "dead", "abort"}
           \/ pc \in {"start", "read", "flush"} /\ pc' \in {"start", "read", "flush"}
           \/ pc' = pc /\ UNCHANGED <<capture, writers>>
           \/ pc = "publish" /\ pc' = "ok" /\ writers = <<>> /\ UNCHANGED <<capture, writers>>
    BY <1>2 DEF Next, Process, Start, ReadChunk, RefuseChunk, FlushGroup, FlushFails, ChunkDone,
            AbortWriter, Aborted, PublishFails, Published, Crash, vars, Fail
  <2>2. PartsAreWhole' /\ \A key : Mine(key)' = Mine(key)
    BY <2>1 DEF PublishInv, PartsAreWhole, Mine
  <2> QED
    BY <2>1, <2>2 DEF PublishInv
<1> QED
  BY <1>1, <1>2

\* The parts of the run under way, and what every part holds.
THEOREM PublishInvariant == Spec => []PublishInv
<1>1. Init => PublishInv
  <2> SUFFICES ASSUME Init
      PROVE  PublishInv
    OBVIOUS
  <2>1. DOMAIN parts = {} /\ runs \in Nat /\ pc = "start"
    BY DEF Init
  <2> QED
    BY <2>1 DEF PublishInv, PartsAreWhole
<1>2. NumberInv /\ StreamInv /\ FlushInv /\ PublishInv /\ [Next]_vars => PublishInv'
  BY JudgePublishes, PublishPublishes, OthersPublish
<1> QED
  BY <1>1, <1>2, NumberInvariant, StreamInvariant, PTL DEF Spec

\* A published part holds the rows of its partition, all of them and in the order of the
\* capture, and comes from a capture that passed every check, whatever crashed or failed
\* before or since; and a run that returns Ok has published each partition of its
\* capture once, and counted records and rows right.
THEOREM OutputIsTheCaptureTheorem == Spec => []OutputIsTheCapture
<1>1. StreamInv /\ PublishInv => OutputIsTheCapture
  <2> SUFFICES ASSUME StreamInv, PublishInv, pc = "ok"
      PROVE  SuccessIsComplete
    BY DEF OutputIsTheCapture, SuccessIsComplete, PublishInv
  <2>1. chunk = Len(capture.chunks) + 1 /\ Alive
    BY DEF StreamInv, Alive
  <2>2. /\ run.records = Len(Records(capture))
        /\ run.rows_written = Len(TaggedRows(capture, "diff")) + Len(TaggedRows(capture, "trade"))
                                + Len(TaggedRows(capture, "topbook"))
    BY <2>1, WholeCapture
  <2>3. ASSUME NEW key \in KeysOf(capture)
        PROVE  Cardinality({f \in DOMAIN parts : f[1] = key /\ parts[f].run = runs}) = 1
    <3>1. PICK file : Mine(key) = {file}
      BY DEF PublishInv
    <3> QED
      BY <3>1, FS_Singleton DEF Mine
  <2> QED
    BY <2>2, <2>3 DEF SuccessIsComplete
<1> QED
  BY <1>1, StreamInvariant, PublishInvariant, PTL

-----------------------------------------------------------------------------
\* What the parts are named by.
PartFiles == PartitionKeys \X Nat

\* Paths that differ are in order, one way or the other, and the order is transitive.
LEMMA PathsAreOrdered ==
    ASSUME NEW f \in PartFiles, NEW g \in PartFiles
    PROVE  /\ ~PathOrder(f, f)
           /\ f # g => PathOrder(f, g) \/ PathOrder(g, f)
           /\ \A h \in PartFiles : PathOrder(h, f) /\ PathOrder(f, g) => PathOrder(h, g)
<1> DEFINE Before(p, q) ==
        \/ p[1] < q[1]
        \/ p[1] = q[1] /\ p[2] < q[2]
        \/ p[1] = q[1] /\ p[2] = q[2] /\ p[3] < q[3]
        \/ p[1] = q[1] /\ p[2] = q[2] /\ p[3] = q[3] /\ p[4] < q[4]
<1>1. ASSUME NEW x \in PartFiles
      PROVE  /\ x = <<<<x[1][1], x[1][2], x[1][3]>>, x[2]>>
             /\ x[1][1] \in 1..3 /\ x[1][2] \in Int /\ x[1][3] \in Int /\ x[2] \in Nat
  BY DEF PartFiles, PartitionKeys
<1>2. ASSUME NEW x \in PartFiles
      PROVE  /\ Path(x)[1] = x[1][2] /\ Path(x)[2] = ChannelOrder[x[1][1]]
             /\ Path(x)[3] = x[1][3] /\ Path(x)[4] = x[2]
             /\ \A i \in 1..4 : Path(x)[i] \in Int
  BY <1>1 DEF Path, ChannelOrder
<1>3. \A x, y \in PartFiles : ChannelOrder[x[1][1]] = ChannelOrder[y[1][1]] => x[1][1] = y[1][1]
  BY <1>1 DEF ChannelOrder
<1>4. ASSUME NEW x \in PartFiles, NEW y \in PartFiles
      PROVE  PathOrder(x, y) <=> Before(Path(x), Path(y))
  <2> DEFINE p == Path(x)
             q == Path(y)
             First(i) == p[i] < q[i] /\ \A j \in 1..i - 1 : p[j] = q[j]
  <2>1. PathOrder(x, y) <=> \E i \in 1..4 : First(i)
    BY DEF PathOrder
  <2> HIDE DEF p, q
  <2>2. First(1) <=> p[1] < q[1]
    OBVIOUS
  <2>3. First(2) <=> p[2] < q[2] /\ p[1] = q[1]
    OBVIOUS
  <2>4. First(3) <=> p[3] < q[3] /\ p[1] = q[1] /\ p[2] = q[2]
    OBVIOUS
  <2>5. First(4) <=> p[4] < q[4] /\ p[1] = q[1] /\ p[2] = q[2] /\ p[3] = q[3]
    <3>1. \A j \in 1..4 - 1 : j = 1 \/ j = 2 \/ j = 3
      OBVIOUS
    <3> QED
      BY <3>1
  <2> HIDE DEF First
  <2>6. (\E i \in 1..4 : First(i)) <=> First(1) \/ First(2) \/ First(3) \/ First(4)
    <3>1. \A i \in 1..4 : i = 1 \/ i = 2 \/ i = 3 \/ i = 4
      OBVIOUS
    <3> QED
      BY <3>1
  <2> QED
    BY <2>1, <2>2, <2>3, <2>4, <2>5, <2>6 DEF p, q
<1>5. f # g => \E i \in 1..4 : Path(f)[i] # Path(g)[i]
  BY <1>1, <1>2, <1>3
<1> HIDE DEF PathOrder
<1>6. ~PathOrder(f, f)
  BY <1>2, <1>4
<1>7. f # g => PathOrder(f, g) \/ PathOrder(g, f)
  <2>1. \A i \in 1..4 : i = 1 \/ i = 2 \/ i = 3 \/ i = 4
    OBVIOUS
  <2> QED
    BY <1>2, <1>4, <1>5, <2>1
<1>8. ASSUME NEW h \in PartFiles, PathOrder(h, f), PathOrder(f, g)
      PROVE  PathOrder(h, g)
  <2>1. /\ \A i \in 1..4 : Path(f)[i] \in Int /\ Path(g)[i] \in Int /\ Path(h)[i] \in Int
        /\ Before(Path(h), Path(f)) /\ Before(Path(f), Path(g))
    BY <1>2, <1>4, <1>8
  <2>2. Before(Path(h), Path(g))
    BY <2>1
  <2> QED
    BY <1>4, <2>2
<1> QED
  BY <1>6, <1>7, <1>8

-----------------------------------------------------------------------------
\* Every file has a path that can be put in order, and its rows come of a capture.
TreeInv ==
    /\ \A group \in todo : group.key \in PartitionKeys
    /\ DOMAIN writers \subseteq PartitionKeys
    /\ parts = [file \in DOMAIN parts |-> parts[file]]
    /\ IsFiniteSet(DOMAIN parts) /\ DOMAIN parts \subseteq PartFiles
    /\ \A file \in DOMAIN parts : parts[file].of \in Captures

\* The groups of a chunk have the keys of the records' partitions.
LEMMA ReadKeepsTree ==
    ASSUME StreamInv, TreeInv, ReadChunk
    PROVE  TreeInv'
<1>1. PICK batch : batch = capture.chunks[chunk].records
  OBVIOUS
<1>2. PICK so : so = IngestAll(run, batch)
  OBVIOUS
<1>3. /\ pc = "read" /\ chunk <= Len(capture.chunks)
      /\ todo' = AllGroups(so) /\ UNCHANGED <<writers, parts>>
  BY <1>1, <1>2 DEF ReadChunk
<1>4. \A t \in TableNames : so.buffer[t] = TaggedIn(t, batch)
  BY <1>1, <1>2, <1>3, IngestedChunk DEF Holds
<1>5. \A t \in TableNames : \A key \in KeysIn(TaggedIn(t, batch)) : key \in PartitionKeys
  BY <1>1, <1>3, ChunkRowsSit
<1>6. \A group \in todo' : group.key \in PartitionKeys
  BY <1>3, <1>4, <1>5 DEF AllGroups, Groups
<1> QED
  BY <1>3, <1>6 DEF TreeInv

\* A part gets the key of its writer and a number, and is of a capture.
LEMMA PublishKeepsTree ==
    ASSUME NumberInv, StreamInv, TreeInv, Publish
    PROVE  TreeInv'
<1>1. PICK key \in DOMAIN writers :
        LET file == <<key, writers[key]>>
        IN  /\ parts' = With(parts, file, [rows |-> staging[file], of |-> capture, run |-> runs])
            /\ writers' = Without(writers, key)
  BY DEF Publish
<1> DEFINE file == <<key, writers[key]>>
<1>2. todo' = todo /\ capture \in Captures
  BY DEF Publish, StreamInv
<1>3. /\ DOMAIN parts' = DOMAIN parts \cup {file}
      /\ parts'[file].of = capture /\ parts' = [f \in DOMAIN parts' |-> parts'[f]]
      /\ \A f \in DOMAIN parts : f # file => parts'[f] = parts[f]
  BY <1>1 DEF With
<1>4. DOMAIN writers' \subseteq DOMAIN writers
  BY <1>1 DEF Without
<1>5. file \in PartFiles
  BY AllNumbered DEF TreeInv, PartFiles, NumberInv
<1>6. IsFiniteSet(DOMAIN parts')
  BY <1>3, FS_AddElement DEF TreeInv
<1> HIDE DEF file
<1> QED
  BY <1>2, <1>3, <1>4, <1>5, <1>6 DEF TreeInv

\* The other steps add no part and no key but of a group.
LEMMA OthersKeepTree ==
    ASSUME TreeInv, [Next]_vars, ~ReadChunk, ~Publish
    PROVE  TreeInv'
<1>1. CASE FlushGroup
  <2>1. PICK group, n : group \in todo /\ writers' = With(writers, group.key, n)
    BY <1>1 DEF FlushGroup
  <2>2. DOMAIN writers' = DOMAIN writers \cup {group.key}
    BY <2>1 DEF With
  <2>3. todo' \subseteq todo /\ parts' = parts
    BY <1>1 DEF FlushGroup
  <2>4. group.key \in PartitionKeys
    BY <2>1 DEF TreeInv
  <2> QED
    BY <2>2, <2>3, <2>4 DEF TreeInv
<1>2. CASE AbortWriter
  <2>1. todo' = todo /\ parts' = parts /\ \E key : writers' = Without(writers, key)
    BY <1>2 DEF AbortWriter
  <2>2. DOMAIN writers' \subseteq DOMAIN writers
    BY <2>1 DEF Without
  <2> QED
    BY <2>1, <2>2 DEF TreeInv
<1>3. CASE Rerun
  BY <1>3 DEF Rerun, TreeInv
<1>4. CASE ~FlushGroup /\ ~AbortWriter /\ ~Rerun
  <2>1. UNCHANGED <<todo, writers, parts>>
    BY <1>4 DEF Next, Process, Start, RefuseChunk, FlushFails, ChunkDone, Judge, Aborted, PublishFails,
            Published, Crash, vars
  <2> QED
    BY <2>1 DEF TreeInv
<1> QED
  BY <1>1, <1>2, <1>3, <1>4

-----------------------------------------------------------------------------
\* The rows a capture owes a partition sit in its table.
LEMMA RowsForSit ==
    ASSUME NEW c \in Captures, NEW key \in PartitionKeys
    PROVE  /\ IsList(RowsFor(c, key))
           /\ \A i \in DOMAIN RowsFor(c, key) : Sits(Tables[key[1]], RowsFor(c, key)[i])
<1> DEFINE t == Tables[key[1]]
           V == {x.row : x \in TagsAt(t)}
<1>1. t \in TableNames
  BY RankTable DEF PartitionKeys
<1> HIDE DEF t
<1>2. Records(c) \in Seq(AllRecords)
  <2>1. Len(c.chunks) \in 0..Len(c.chunks)
    BY ChunkRecords
  <2> QED
    BY <2>1, PrefixGrows
<1>3. PICK tagged \in Seq(TagsAt(t)) : tagged = TaggedRows(c, t)
  BY <1>1, <1>2, TagsAtAreTags, TaggedInType DEF TaggedRows
<1>4. Selects(key, TagsAt(t), V) /\ \A row \in V : Sits(t, row)
  BY <1>1, TagsAtAreTags DEF Selects
<1> HIDE DEF V
<1>5. PICK rows \in Seq(V) : rows = RowsWith(tagged, key)
  BY <1>4, RowsWithType
<1>6. rows = RowsFor(c, key)
  BY <1>3, <1>5 DEF RowsFor, t
<1>7. \A i \in DOMAIN rows : rows[i] \in V
  OBVIOUS
<1>8. IsList(rows)
  <2>1. rows \in Seq({rows[i] : i \in DOMAIN rows})
    OBVIOUS
  <2> QED
    BY <2>1 DEF IsList
<1> QED
  BY <1>4, <1>6, <1>7, <1>8 DEF t

\* What the files of a tree hold, each row with its table.
RowsIn(files) ==
    UNION {{[table |-> Tables[f[1][1]], row |-> files[f].rows[j]] : j \in DOMAIN files[f].rows} :
              f \in DOMAIN files}

\* A tree of files with their rows.
IsTree(files) ==
    /\ IsFiniteSet(DOMAIN files) /\ DOMAIN files \subseteq PartFiles
    /\ \A f \in DOMAIN files :
          /\ IsList(files[f].rows)
          /\ \A j \in DOMAIN files[f].rows : Sits(Tables[f[1][1]], files[f].rows[j])

\* parquet_files in order: each file once.
SortedPaths(files) == Sorted([f \in DOMAIN files |-> {g \in DOMAIN files : PathOrder(g, f)}])

\* That is what it does: no file is missed, none comes twice.
LEMMA PathsSorted ==
    ASSUME NEW files, IsTree(files)
    PROVE  /\ SortedPaths(files) \in [1..Cardinality(DOMAIN files) -> DOMAIN files]
           /\ Cardinality(DOMAIN files) \in Nat
           /\ \A f \in DOMAIN files : \E i \in 1..Cardinality(DOMAIN files) : SortedPaths(files)[i] = f
           /\ \A i, j \in 1..Cardinality(DOMAIN files) :
                  i < j <=> PathOrder(SortedPaths(files)[i], SortedPaths(files)[j])
<1> DEFINE S == DOMAIN files
           earlier == [f \in S |-> {g \in S : PathOrder(g, f)}]
<1>1. IsFiniteSet(S) /\ \A f \in S : f \in PartFiles
  BY DEF IsTree
<1>2. earlier \in [S -> SUBSET S] /\ \A f, g \in S : g \in earlier[f] <=> PathOrder(g, f)
  OBVIOUS
<1>3. /\ \A f \in S : f \notin earlier[f]
      /\ \A f, g \in S : f # g => f \in earlier[g] \/ g \in earlier[f]
  BY <1>1, <1>2, PathsAreOrdered
<1>4. ASSUME NEW f \in S, NEW g \in S, f \in earlier[g]
      PROVE  earlier[f] \subseteq earlier[g]
  BY <1>1, <1>2, <1>4, PathsAreOrdered
<1>5. SortedPaths(files) = Sorted(earlier)
  BY DEF SortedPaths
<1> HIDE DEF S, earlier
<1>6. /\ Sorted(earlier) \in [1..Cardinality(S) -> S] /\ Cardinality(S) \in Nat
      /\ \A x \in S : \E i \in 1..Cardinality(S) : Sorted(earlier)[i] = x
      /\ \A i, j \in 1..Cardinality(S) : i < j <=> Sorted(earlier)[i] \in earlier[Sorted(earlier)[j]]
  BY <1>1, <1>2, <1>3, <1>4, SortedInOrder
<1>7. \A i, j \in 1..Cardinality(S) : i < j <=> PathOrder(Sorted(earlier)[i], Sorted(earlier)[j])
  BY <1>2, <1>6
<1> QED
  BY <1>5, <1>6, <1>7 DEF S

\* read_table_events, file after file, gives rows of the files.
LEMMA TreeRowsType ==
    ASSUME NEW files, IsTree(files)
    PROVE  TreeRows(files) \in Seq(RowsIn(files))
<1> DEFINE sorted == SortedPaths(files)
           n == Cardinality(DOMAIN files)
           Of(f) == [j \in DOMAIN files[f].rows |-> [table |-> Tables[f[1][1]], row |-> files[f].rows[j]]]
           lists == [i \in DOMAIN sorted |-> Of(sorted[i])]
<1>1. n \in Nat /\ sorted \in [1..n -> DOMAIN files]
  BY PathsSorted
<1>2. TreeRows(files) = FlattenSeq(lists)
  BY DEF TreeRows, SortedPaths
<1>3. ASSUME NEW f \in DOMAIN files
      PROVE  Of(f) \in Seq(RowsIn(files))
  <2>1. PICK rows : rows = files[f].rows
    OBVIOUS
  <2>2. Len(rows) \in Nat /\ DOMAIN rows = 1..Len(rows)
    BY <2>1, ListType DEF IsTree
  <2>3. \A j \in DOMAIN rows : [table |-> Tables[f[1][1]], row |-> rows[j]] \in RowsIn(files)
    BY <2>1 DEF RowsIn
  <2>4. [j \in DOMAIN rows |-> [table |-> Tables[f[1][1]], row |-> rows[j]]] \in Seq(RowsIn(files))
    BY <2>2, <2>3
  <2> QED
    BY <2>1, <2>4
<1> HIDE DEF sorted, n, Of
<1>4. lists \in Seq(Seq(RowsIn(files)))
  BY <1>1, <1>3
<1> QED
  BY <1>2, <1>4, FlattenType

\* sort_by_key keeps the events there are: it only moves them.
LEMMA EventsSorted ==
    ASSUME NEW T, NEW events \in Seq(T),
           \A e \in T : e.row.seq \in Int /\ KeyOf(e.table, e.row)[2] \in Int
    PROVE  \E order \in [1..Len(events) -> 1..Len(events)] :
              /\ SortedEvents(events) = [i \in 1..Len(events) |-> events[order[i]]]
              /\ \A x \in 1..Len(events) : \E i \in 1..Len(events) : order[i] = x
              /\ \A i, j \in 1..Len(events) : i < j <=> EventOrder(events, order[i], order[j])
<1> DEFINE n == Len(events)
           S == 1..n
           earlier == [i \in S |-> {j \in S : EventOrder(events, j, i)}]
           key(i) == KeyOf(events[i].table, events[i].row)
<1>1. n \in Nat /\ DOMAIN events = S /\ \A i \in S : events[i] \in T
  OBVIOUS
<1>2. IsFiniteSet(S) /\ Cardinality(S) = n
  BY <1>1, FS_Interval
<1>3. \A i \in S : /\ key(i)[1] \in Int /\ key(i)[2] \in Int
                   /\ key(i) = <<key(i)[1], key(i)[2]>>
  BY <1>1 DEF KeyOf
<1>4. \A i, j \in S : EventOrder(events, i, j) <=>
          \/ key(i)[1] < key(j)[1]
          \/ key(i)[1] = key(j)[1] /\ key(i)[2] < key(j)[2]
          \/ key(i)[1] = key(j)[1] /\ key(i)[2] = key(j)[2] /\ i < j
  BY <1>3 DEF EventOrder
<1>5. earlier \in [S -> SUBSET S] /\ \A i, j \in S : j \in earlier[i] <=> EventOrder(events, j, i)
  OBVIOUS
<1>6. SortedEvents(events) = [i \in DOMAIN Sorted(earlier) |-> events[Sorted(earlier)[i]]]
  BY <1>1 DEF SortedEvents
<1> HIDE DEF n, S, key, earlier
<1>7. \A i \in S : i \notin earlier[i]
  BY <1>1, <1>3, <1>4, <1>5 DEF S
<1>8. \A i, j \in S : i # j => i \in earlier[j] \/ j \in earlier[i]
  BY <1>1, <1>3, <1>4, <1>5, SMTT(60) DEF S
<1>9. ASSUME NEW i \in S, NEW j \in S, i \in earlier[j]
      PROVE  earlier[i] \subseteq earlier[j]
  <2> SUFFICES ASSUME NEW k \in S, k \in earlier[i]
      PROVE  k \in earlier[j]
    BY <1>5
  <2>1. EventOrder(events, k, i) /\ EventOrder(events, i, j)
    BY <1>5, <1>9
  <2>2. /\ key(i)[1] \in Int /\ key(i)[2] \in Int /\ key(j)[1] \in Int /\ key(j)[2] \in Int
        /\ key(k)[1] \in Int /\ key(k)[2] \in Int /\ i \in Int /\ j \in Int /\ k \in Int
    BY <1>1, <1>3 DEF S
  <2>3. /\ \/ key(k)[1] < key(i)[1]
           \/ key(k)[1] = key(i)[1] /\ key(k)[2] < key(i)[2]
           \/ key(k)[1] = key(i)[1] /\ key(k)[2] = key(i)[2] /\ k < i
        /\ \/ key(i)[1] < key(j)[1]
           \/ key(i)[1] = key(j)[1] /\ key(i)[2] < key(j)[2]
           \/ key(i)[1] = key(j)[1] /\ key(i)[2] = key(j)[2] /\ i < j
    BY <1>4, <2>1
  <2>4. \/ key(k)[1] < key(j)[1]
        \/ key(k)[1] = key(j)[1] /\ key(k)[2] < key(j)[2]
        \/ key(k)[1] = key(j)[1] /\ key(k)[2] = key(j)[2] /\ k < j
    BY <2>2, <2>3
  <2> QED
    BY <1>4, <1>5, <2>4
<1>10. /\ Sorted(earlier) \in [1..Cardinality(S) -> S]
       /\ \A x \in S : \E i \in 1..Cardinality(S) : Sorted(earlier)[i] = x
       /\ \A i, j \in 1..Cardinality(S) : i < j <=> Sorted(earlier)[i] \in earlier[Sorted(earlier)[j]]
  BY <1>2, <1>5, <1>7, <1>8, <1>9, SortedInOrder
<1>11. PICK order : order = Sorted(earlier)
  OBVIOUS
<1>12. order \in [S -> S] /\ SortedEvents(events) = [i \in S |-> events[order[i]]]
  BY <1>2, <1>6, <1>10, <1>11 DEF S
<1>13. \A i, j \in S : i < j <=> EventOrder(events, order[i], order[j])
  BY <1>2, <1>5, <1>10, <1>11, <1>12 DEF S
<1>14. \A x \in S : \E i \in S : order[i] = x
  BY <1>2, <1>10, <1>11 DEF S
<1> QED
  BY <1>12, <1>13, <1>14 DEF S, n

\* The readers find their columns in a row of their table, and a marker its gap.
LEMMA SitsIsRead ==
    ASSUME NEW table \in TableNames, NEW row, Sits(table, row)
    PROVE  ~Refuses(table, row)
<1>1. GapColumns \cup ReadColumns[table] \subseteq BaseColumns \cup Own(table)
  BY DEF GapColumns, ReadColumns, BaseColumns, Own, TableNames
<1> QED
  BY <1>1 DEF Sits, Refuses, HasColumns, Has

\* What the rows of a tree are: rows of their table.
LEMMA RowsInSit ==
    ASSUME NEW files, IsTree(files), NEW e \in RowsIn(files)
    PROVE  /\ e.table \in TableNames /\ Sits(e.table, e.row)
           /\ e = [table |-> e.table, row |-> e.row]
           /\ e.row.seq \in Int /\ KeyOf(e.table, e.row)[2] \in Int
<1>1. PICK f, j : /\ f \in DOMAIN files /\ j \in DOMAIN files[f].rows
                  /\ e = [table |-> Tables[f[1][1]], row |-> files[f].rows[j]]
  BY DEF RowsIn
<1>2. f[1][1] \in 1..3
  BY <1>1 DEF IsTree, PartFiles, PartitionKeys
<1>3. Tables[f[1][1]] \in TableNames
  BY <1>2, RankTable
<1>4. e.table \in TableNames /\ Sits(e.table, e.row)
  BY <1>1, <1>3 DEF IsTree
<1>5. e.row.seq \in Int /\ KeyOf(e.table, e.row)[2] \in Int
  BY <1>4 DEF Sits, KeyOf
<1> QED
  BY <1>1, <1>4, <1>5

\* A tree of rows that sit is read to its end.
LEMMA TreeIsRead ==
    ASSUME NEW files, IsTree(files), DOMAIN files # {}
    PROVE  ~RefusesTree(files)
<1>1. PICK T : T = RowsIn(files)
  OBVIOUS
<1>2. \A e \in T : /\ e.table \in TableNames /\ Sits(e.table, e.row)
                  /\ e.row.seq \in Int /\ KeyOf(e.table, e.row)[2] \in Int
  BY <1>1, RowsInSit
<1>3. PICK events \in Seq(T) : events = TreeRows(files)
  BY <1>1, TreeRowsType
<1>4. PICK order \in [1..Len(events) -> 1..Len(events)] :
          SortedEvents(events) = [i \in 1..Len(events) |-> events[order[i]]]
  <2>1. events \in Seq(T) /\ \A e \in T : e.row.seq \in Int /\ KeyOf(e.table, e.row)[2] \in Int
    BY <1>2, <1>3
  <2>2. PICK order \in [1..Len(events) -> 1..Len(events)] :
          /\ SortedEvents(events) = [i \in 1..Len(events) |-> events[order[i]]]
          /\ \A x \in 1..Len(events) : \E i \in 1..Len(events) : order[i] = x
          /\ \A i, j \in 1..Len(events) : i < j <=> EventOrder(events, order[i], order[j])
    BY <2>1, EventsSorted
  <2> QED
    BY <2>2
<1>5. ASSUME NEW i \in DOMAIN SortedEvents(events)
      PROVE  SortedEvents(events)[i] \in T
  BY <1>4
<1>6. \A i \in DOMAIN SortedEvents(events) : ~Refuses(SortedEvents(events)[i].table, SortedEvents(events)[i].row)
  BY <1>2, <1>5, SitsIsRead
<1> QED
  BY <1>3, <1>6 DEF RefusesTree

\* What is published in parts is a tree.
LEMMA PartsAreTree ==
    ASSUME TreeInv, PartsAreWhole
    PROVE  IsTree(parts)
<1>1. IsFiniteSet(DOMAIN parts) /\ DOMAIN parts \subseteq PartFiles
  BY DEF TreeInv
<1>2. ASSUME NEW f \in DOMAIN parts
      PROVE  /\ IsList(parts[f].rows)
             /\ \A j \in DOMAIN parts[f].rows : Sits(Tables[f[1][1]], parts[f].rows[j])
  <2>1. parts[f].of \in Captures /\ f[1] \in PartitionKeys /\ parts[f].rows = RowsFor(parts[f].of, f[1])
    BY <1>1 DEF TreeInv, PartsAreWhole, PartFiles
  <2> QED
    BY <2>1, RowsForSit
<1> QED
  BY <1>1, <1>2 DEF IsTree

\* Whatever runs into a directory, the part files in it make a tree of partitions.
THEOREM TreeInvariant == Spec => []TreeInv
<1>1. Init => TreeInv
  BY FS_EmptySet DEF Init, TreeInv
<1>2. NumberInv /\ StreamInv /\ TreeInv /\ [Next]_vars => TreeInv'
  BY ReadKeepsTree, PublishKeepsTree, OthersKeepTree
<1> QED
  BY <1>1, <1>2, NumberInvariant, StreamInvariant, PTL DEF Spec

\* What a run that returned Ok leaves behind, replay_normalized reads to its end: no row
\* lacks a column or a part of its gap, whatever runs filled the directory.
THEOREM PublishedIsReplayableTheorem == Spec => []PublishedIsReplayable
<1>1. OutputIsTheCapture /\ TreeInv => PublishedIsReplayable
  <2> SUFFICES ASSUME PartsAreWhole, TreeInv, parts # <<>>
      PROVE  ~RefusesTree(parts)
    BY DEF OutputIsTheCapture, PublishedIsReplayable
  <2>1. DOMAIN parts # {}
    BY DEF TreeInv
  <2> QED
    BY <2>1, PartsAreTree, TreeIsRead
<1> QED
  BY <1>1, TreeInvariant, OutputIsTheCaptureTheorem, PTL

-----------------------------------------------------------------------------
\* A record that both roads take: no marker that does not decode, nor one on a channel
\* that normalize skips.
Taken(r) == IsRecord(r) /\ ~BadMarker(r) /\ (r.synthetic => TableOf(r.channel) # None)

\* Frames of the channels it skips have no rows.
LEMMA SkippedHasNoRows ==
    ASSUME NEW r, Taken(r), TableOf(r.channel) = None
    PROVE  RowsOf(r) = <<>> /\ ~r.synthetic
BY TablesAssumption DEF Taken, IsRecord, RowsOf, TableNames

\* A marker's row is one of its table, but for the gap columns.
LEMMA MarkerRow ==
    ASSUME NEW r, Taken(r), r.synthetic
    PROVE  \E row : /\ RowsOf(r) = <<row>>
                    /\ row.seq = r.seq /\ row.ts_socket = r.ts_socket /\ row.synthetic = r.synthetic
                    /\ TableOf(r.channel) = "trade" => row.print_index = 0
                    /\ row.gap_reason = r.payload.reason /\ row.gap_attempts = r.payload.attempts
                    /\ row.gap_started = r.payload.started_at /\ row.gap_ended = r.payload.ended_at
<1> DEFINE table == TableOf(r.channel)
           rows == IF table = "diff" THEN <<DiffRow(r)>>
                   ELSE IF table = "trade" THEN TradeRows(r)
                   ELSE IF table = "topbook" THEN <<TopRow(r)>>
                   ELSE <<>>
<1>1. table \in TableNames /\ IsRecord(r)
  BY DEF Taken, TableOf, TableNames
<1>2. \E row : rows = <<row>> /\ SitsFor(table, row, r) /\ (table = "trade" => row.print_index = 0)
  <2>1. CASE table = "diff"
    BY <1>1, <2>1, DiffRowSits
  <2>2. CASE table = "trade"
    <3>1. TradeRows(r) = <<Joined(NullPrint, BaseRow(r))>>
      BY DEF TradeRows
    <3>2. PICK row : row = Joined(NullPrint, BaseRow(r))
      OBVIOUS
    <3>3. row["print_index"] = 0
      <4>1. "print_index" \in DOMAIN NullPrint /\ NullPrint.print_index = 0
        BY DEF NullPrint
      <4> QED
        BY <3>2, <4>1, JoinedColumns
    <3>4. SitsFor("trade", row, r)
      <4>1. IsList(TradeRows(r)) /\ \A i \in DOMAIN TradeRows(r) : SitsFor("trade", TradeRows(r)[i], r)
        BY <1>1, TradeRowsSit
      <4>2. TradeRows(r) = <<row>> /\ 1 \in DOMAIN <<row>> /\ <<row>>[1] = row
        BY <3>1, <3>2
      <4> QED
        BY <4>1, <4>2
    <3> QED
      BY <2>2, <3>1, <3>2, <3>3, <3>4
  <2>3. CASE table = "topbook"
    BY <1>1, <2>3, TopRowSits
  <2> QED
    BY <1>1, <2>1, <2>2, <2>3 DEF TableNames
<1> HIDE DEF table
<1>3. RowsOf(r) = <<WithMarker(rows[1], r.payload)>>
  BY DEF RowsOf, table
<1> HIDE DEF rows
<1>4. PICK row : rows = <<row>> /\ SitsFor(table, row, r) /\ (table = "trade" => row.print_index = 0)
  BY <1>2
<1>5. PICK new : new = WithMarker(row, r.payload)
  OBVIOUS
<1>6. new = [row EXCEPT !.gap_reason = r.payload.reason, !.gap_attempts = r.payload.attempts,
                        !.gap_started = r.payload.started_at, !.gap_ended = r.payload.ended_at]
  BY <1>5 DEF WithMarker
<1>7. {"gap_reason", "gap_attempts", "gap_started", "gap_ended"} \subseteq DOMAIN row
  BY <1>4 DEF SitsFor, HasBase, BaseColumns
<1>8. /\ new.seq = row.seq /\ new.ts_socket = row.ts_socket
      /\ new.synthetic = row.synthetic /\ new.print_index = row.print_index
      /\ new.gap_reason = r.payload.reason /\ new.gap_attempts = r.payload.attempts
      /\ new.gap_started = r.payload.started_at /\ new.gap_ended = r.payload.ended_at
  BY <1>6, <1>7
<1>9. RowsOf(r) = <<new>>
  BY <1>3, <1>4, <1>5
<1> QED
  BY <1>4, <1>8, <1>9 DEF SitsFor, HasBase, table

\* A print's row carries the print and its place in the bundle.
LEMMA PrintRowFields ==
    ASSUME NEW r, IsRecord(r), NEW print, NEW index, NEW row, row = PrintRow(r, print, index)
    PROVE  /\ row.seq = r.seq /\ row.ts_socket = r.ts_socket /\ row.synthetic = r.synthetic
           /\ row.print_index = index /\ row.trade_id = print.trade_id /\ row.price = print.price
           /\ row.quantity = print.quantity /\ row.side = print.side
           /\ row.ts_exchange = IF print.ts_exchange # None THEN print.ts_exchange ELSE r.ts_exchange
<1> DEFINE own == [trade_id |-> print.trade_id, price |-> print.price, quantity |-> print.quantity,
                   side |-> print.side, print_index |-> index]
           time == IF print.ts_exchange # None THEN print.ts_exchange ELSE r.ts_exchange
           base == [BaseRow(r) EXCEPT !.ts_exchange = time]
<1>1. row = Joined(own, base)
  <2>1. BaseRow(r).ts_exchange = r.ts_exchange
    BY DEF BaseRow
  <2> QED
    BY <2>1 DEF PrintRow
<1>2. /\ DOMAIN own = {"trade_id", "price", "quantity", "side", "print_index"}
      /\ own["print_index"] = index /\ own["trade_id"] = print.trade_id /\ own["price"] = print.price
      /\ own["quantity"] = print.quantity /\ own["side"] = print.side
  OBVIOUS
<1>3. /\ {"seq", "ts_socket", "synthetic", "ts_exchange"} \subseteq DOMAIN base
      /\ base["seq"] = r.seq /\ base["ts_socket"] = r.ts_socket /\ base["synthetic"] = r.synthetic
      /\ base["ts_exchange"] = time
  BY DEF BaseRow
<1> HIDE DEF own, base, time
<1>4. /\ \A x \in DOMAIN own : row[x] = own[x]
      /\ \A x \in DOMAIN base \ DOMAIN own : row[x] = base[x]
  <2>1. PICK f, g : f = own /\ g = base
    OBVIOUS
  <2>2. row = Joined(f, g)
    BY <1>1, <2>1
  <2>3. \A x \in DOMAIN f : row[x] = f[x]
    BY <2>2 DEF Joined
  <2>4. \A x \in DOMAIN g \ DOMAIN f : row[x] = g[x]
    BY <2>2 DEF Joined
  <2> QED
    BY <2>1, <2>3, <2>4
<1>5. /\ row["seq"] = r.seq /\ row["ts_socket"] = r.ts_socket /\ row["synthetic"] = r.synthetic
      /\ row["ts_exchange"] = time
  BY <1>2, <1>3, <1>4
<1>6. /\ row["print_index"] = index /\ row["trade_id"] = print.trade_id /\ row["price"] = print.price
      /\ row["quantity"] = print.quantity /\ row["side"] = print.side
  BY <1>2, <1>4
<1> QED
  BY <1>5, <1>6 DEF time

\* The rows of a record share its seq, and the number of a row is its place.
LEMMA RowKeys ==
    ASSUME NEW r, Taken(r), NEW j \in DOMAIN RowsOf(r)
    PROVE  KeyOf(TableOf(r.channel), RowsOf(r)[j]) = <<r.seq, j - 1>>
<1>1. IsRecord(r) /\ TableOf(r.channel) \in TableNames
  BY SkippedHasNoRows DEF Taken, TableOf, TableNames
<1>2. CASE r.synthetic
  <2>1. PICK row : /\ RowsOf(r) = <<row>> /\ row.seq = r.seq
                   /\ TableOf(r.channel) = "trade" => row.print_index = 0
    BY <1>2, MarkerRow
  <2>2. j = 1 /\ RowsOf(r)[j] = row
    BY <2>1
  <2> QED
    BY <2>1, <2>2 DEF KeyOf
<1>3. CASE ~r.synthetic /\ TableOf(r.channel) = "diff"
  <2>1. RowsOf(r) = <<DiffRow(r)>> /\ DiffRow(r).seq = r.seq
    BY <1>1, <1>3, DiffRowSits DEF RowsOf, SitsFor, HasBase
  <2>2. j = 1 /\ RowsOf(r)[j] = DiffRow(r)
    BY <2>1
  <2> QED
    BY <1>3, <2>1, <2>2 DEF KeyOf
<1>4. CASE ~r.synthetic /\ TableOf(r.channel) = "topbook"
  <2>1. RowsOf(r) = <<TopRow(r)>> /\ TopRow(r).seq = r.seq
    BY <1>1, <1>4, TopRowSits DEF RowsOf, SitsFor, HasBase
  <2>2. j = 1 /\ RowsOf(r)[j] = TopRow(r)
    BY <2>1
  <2> QED
    BY <1>4, <2>1, <2>2 DEF KeyOf
<1>5. CASE ~r.synthetic /\ TableOf(r.channel) = "trade"
  <2> DEFINE prints == TradePrints(VenueOf[r.instrument], r.channel, r.payload)
  <2>1. RowsOf(r) = IF prints = None THEN <<Joined(NullPrint, BaseRow(r))>>
                    ELSE [i \in DOMAIN prints |-> PrintRow(r, prints[i], i - 1)]
    BY <1>5 DEF RowsOf, TradeRows
  <2>2. \A i \in DOMAIN RowsOf(r) : RowsOf(r)[i].seq = r.seq
    BY <1>1, <1>5, TradeRowsSit DEF RowsOf, SitsFor, HasBase
  <2> HIDE DEF prints
  <2>3. RowsOf(r)[j].print_index = j - 1
    <3>1. CASE prints = None
      <4>1. "print_index" \in DOMAIN NullPrint /\ NullPrint.print_index = 0
        BY DEF NullPrint
      <4>2. Joined(NullPrint, BaseRow(r))["print_index"] = 0
        BY <4>1, JoinedColumns
      <4>3. j = 1 /\ RowsOf(r)[j] = Joined(NullPrint, BaseRow(r))
        BY <2>1, <3>1
      <4> QED
        BY <4>2, <4>3
    <3>2. CASE prints # None
      <4>1. RowsOf(r)[j] = PrintRow(r, prints[j], j - 1)
        BY <2>1, <3>2
      <4> QED
        BY <1>1, <4>1, PrintRowFields
    <3> QED
      BY <3>1, <3>2
  <2> QED
    BY <1>5, <2>2, <2>3 DEF KeyOf
<1> QED
  BY <1>1, <1>2, <1>3, <1>4, <1>5 DEF TableNames

-----------------------------------------------------------------------------
\* What a strategy is told on the normalized road of calls made on the raw one, and the
\* calls of a record's rows when they are read back.
Once(calls) == [i \in DOMAIN calls |-> OnceNormalized(calls[i])]
ReadBack(r) == FlattenSeq([j \in DOMAIN RowsOf(r) |-> ReadRow(TableOf(r.channel), RowsOf(r)[j])])

LEMMA OnceNone == Once(<<>>) = <<>>
BY DEF Once

LEMMA OnceOne ==
    ASSUME NEW call
    PROVE  Once(<<call>>) = <<OnceNormalized(call)>>
BY DEF Once

\* A list may be empty, or have one element.
LEMMA ShortLists == IsList(<<>>) /\ \A x : IsList(<<x>>)
BY DEF IsList

\* A record of one row makes the calls of that row.
LEMMA OneRowRead ==
    ASSUME NEW r, NEW row, RowsOf(r) = <<row>>, NEW calls, IsList(calls),
           calls = ReadRow(TableOf(r.channel), row)
    PROVE  ReadBack(r) = calls
<1>1. PICK T : calls \in Seq(T)
  BY DEF IsList
<1>2. [j \in DOMAIN <<row>> |-> ReadRow(TableOf(r.channel), <<row>>[j])] = <<calls>>
  OBVIOUS
<1>3. ReadBack(r) = FlattenSeq(<<calls>>)
  BY <1>2 DEF ReadBack
<1> QED
  BY <1>1, <1>3, FlattenOne

\* The channel of a table.
LEMMA ChannelOf ==
    ASSUME NEW r
    PROVE  /\ TableOf(r.channel) = "diff" <=> r.channel = "book_diff"
           /\ TableOf(r.channel) = "trade" <=> r.channel = "trade"
           /\ TableOf(r.channel) = "topbook" <=> r.channel = "book_ticker"
BY TablesAssumption DEF TableOf, TableNames

\* A marker is told of as the gap it is.
LEMMA MarkerReadBack ==
    ASSUME NEW r, Taken(r), r.synthetic
    PROVE  /\ FeedRecord(r) = <<Gap(r.ts_socket, r.payload)>>
           /\ ReadBack(r) = Once(FeedRecord(r))
<1>1. PICK row : /\ RowsOf(r) = <<row>> /\ row.ts_socket = r.ts_socket /\ row.synthetic = r.synthetic
                 /\ row.gap_reason = r.payload.reason /\ row.gap_attempts = r.payload.attempts
                 /\ row.gap_started = r.payload.started_at /\ row.gap_ended = r.payload.ended_at
  BY MarkerRow
<1>2. ReadRow(TableOf(r.channel), row) = <<ReadGap(row)>>
  BY <1>1 DEF ReadRow
<1>3. ReadGap(row) = Gap(r.ts_socket, r.payload)
  <2>1. ReadGap(row) = Gap(r.ts_socket, [reason |-> r.payload.reason, attempts |-> r.payload.attempts,
                        started_at |-> r.payload.started_at, ended_at |-> r.payload.ended_at])
    BY <1>1 DEF ReadGap
  <2>2. PICK m : m = [reason |-> r.payload.reason, attempts |-> r.payload.attempts,
                        started_at |-> r.payload.started_at, ended_at |-> r.payload.ended_at]
    OBVIOUS
  <2>3. \A field \in MarkerFields : m[field] = r.payload[field]
    BY <2>2 DEF MarkerFields
  <2> QED
    BY <2>1, <2>2, <2>3 DEF Gap
<1>4. FeedRecord(r) = <<Gap(r.ts_socket, r.payload)>>
  BY DEF FeedRecord
<1>5. OnceNormalized(Gap(r.ts_socket, r.payload)) = Gap(r.ts_socket, r.payload)
  BY DEF OnceNormalized, Gap
<1>6. ReadBack(r) = <<Gap(r.ts_socket, r.payload)>>
  BY <1>1, <1>2, <1>3, ShortLists, OneRowRead
<1> QED
  BY <1>4, <1>5, <1>6, OnceOne

\* The columns of a diff's row.
LEMMA DiffRowFields ==
    ASSUME NEW r, IsRecord(r), NEW content,
           content = DiffContent(UpdateSpan(VenueOf[r.instrument], r.channel, r.payload),
                                 DecodeDiff(VenueOf[r.instrument], r.channel, r.payload)),
           ~r.synthetic, r.ts_exchange = None
    PROVE  LET row == DiffRow(r)
           IN  /\ row.seq = r.seq /\ row.ts_socket = r.ts_socket /\ row.synthetic = r.synthetic
               /\ row.ts_exchange = ExchangeTime(VenueOf[r.instrument], r.channel, r.payload)
               /\ row.first_update_id = content.first_update_id
               /\ row.last_update_id = content.last_update_id
               /\ row.bids = content.bids /\ row.asks = content.asks
<1> DEFINE time == ExchangeTime(VenueOf[r.instrument], r.channel, r.payload)
           base == [BaseRow(r) EXCEPT !.ts_exchange = time]
<1>1. DiffRow(r) = Joined(content, base)
  BY DEF DiffRow
<1>2. DOMAIN content = {"first_update_id", "last_update_id", "bids", "asks"}
  BY DEF DiffContent
<1>3. /\ {"seq", "ts_socket", "synthetic", "ts_exchange"} \subseteq DOMAIN base
      /\ base["seq"] = r.seq /\ base["ts_socket"] = r.ts_socket /\ base["synthetic"] = r.synthetic
      /\ base["ts_exchange"] = time
  BY DEF BaseRow
<1> HIDE DEF base, time
<1>4. PICK row : row = DiffRow(r)
  OBVIOUS
<1>5. /\ \A x \in DOMAIN content : row[x] = content[x]
      /\ \A x \in DOMAIN base \ DOMAIN content : row[x] = base[x]
  BY <1>1, <1>4 DEF Joined
<1>6. /\ row["seq"] = r.seq /\ row["ts_socket"] = r.ts_socket /\ row["synthetic"] = r.synthetic
      /\ row["ts_exchange"] = time
  BY <1>2, <1>3, <1>5
<1>7. /\ row["first_update_id"] = content["first_update_id"]
      /\ row["last_update_id"] = content["last_update_id"]
      /\ row["bids"] = content["bids"] /\ row["asks"] = content["asks"]
  BY <1>2, <1>5
<1> QED
  BY <1>4, <1>6, <1>7 DEF time

\* A frame of the book is told of as the update it decodes to, or not at all.
LEMMA DiffReadBack ==
    ASSUME NEW r, Taken(r), ~r.synthetic, r.ts_exchange = None, r.channel = "book_diff"
    PROVE  /\ IsList(FeedRecord(r))
           /\ ReadBack(r) = Once(FeedRecord(r))
<1> DEFINE venue == VenueOf[r.instrument]
           span == UpdateSpan(venue, r.channel, r.payload)
           diff == DecodeDiff(venue, r.channel, r.payload)
           snapshot == InbandSnapshot(venue, r.channel, r.payload)
           time == ExchangeTime(venue, r.channel, r.payload)
<1>1. IsRecord(r) /\ TableOf(r.channel) = "diff" /\ TableOf(r.channel) # None
  BY ChannelOf, TablesAssumption DEF Taken, TableNames
<1>2. RowsOf(r) = <<DiffRow(r)>> /\ FeedRecord(r) = RawDiff(r, venue)
  BY <1>1 DEF RowsOf, FeedRecord
<1>3. PICK row : row = DiffRow(r)
  OBVIOUS
<1>4. PICK content : content = DiffContent(span, diff)
  OBVIOUS
<1>5. /\ row.seq = r.seq /\ row.ts_socket = r.ts_socket /\ row.synthetic = r.synthetic
      /\ row.ts_exchange = time
      /\ row.first_update_id = content.first_update_id /\ row.last_update_id = content.last_update_id
      /\ row.bids = content.bids /\ row.asks = content.asks
  BY <1>1, <1>3, <1>4, DiffRowFields
<1>6. ReadRow(TableOf(r.channel), row) = ReadDiff(row)
  BY <1>1, <1>5 DEF ReadRow
<1>7. snapshot # None =>
         /\ span # None /\ diff # None /\ time = None
         /\ snapshot.last_update_id = span.first /\ snapshot.last_update_id = span.last
         /\ snapshot.bids = diff.bids /\ snapshot.asks = diff.asks
  <2> SUFFICES ASSUME snapshot # None
      PROVE  /\ span # None /\ diff # None /\ time = None
             /\ snapshot.last_update_id = span.first /\ snapshot.last_update_id = span.last
             /\ snapshot.bids = diff.bids /\ snapshot.asks = diff.asks
    OBVIOUS
  <2>1. venue = "bybit" /\ BybitBook(r.payload)
        /\ snapshot = [last_update_id |-> r.payload.u, bids |-> r.payload.b, asks |-> r.payload.a]
    BY DEF InbandSnapshot
  <2>2. /\ span = UpdateSpan("bybit", "book_diff", r.payload) /\ span # None
        /\ diff = DecodeDiff("bybit", "book_diff", r.payload) /\ diff # None
    BY <1>1, <2>1 DEF IsRecord
  <2>3. span = [first |-> r.payload.u, last |-> r.payload.u]
    BY <2>1, <2>2 DEF UpdateSpan
  <2>4. diff = [bids |-> r.payload.b, asks |-> r.payload.a]
    BY <2>1, <2>2 DEF DecodeDiff
  <2>5. time = None
    BY <2>1 DEF ExchangeTime
  <2> HIDE DEF span, diff, snapshot, time
  <2> QED
    BY <2>1, <2>2, <2>3, <2>4, <2>5
<1>8. span # None => span.first # None /\ span.last # None
  <2>1. Filled(r.payload)
    BY <1>1 DEF IsRecord
  <2>2. \A field \in {"U", "u"} : field \in DOMAIN r.payload => r.payload[field] # None
    BY <2>1 DEF Filled
  <2> QED
    BY <2>2 DEF UpdateSpan, Has, BybitBook
<1>9. diff # None => diff.bids # None /\ diff.asks # None
  <2>1. Filled(r.payload)
    BY <1>1 DEF IsRecord
  <2>2. \A field \in {"b", "a"} : field \in DOMAIN r.payload => r.payload[field] # None
    BY <2>1 DEF Filled
  <2> QED
    BY <2>2 DEF DecodeDiff, Has, BybitBook
<1>10. RawDiff(r, venue) =
          IF snapshot # None THEN <<SnapshotEvent(r.seq, r.ts_socket, snapshot)>>
          ELSE IF span = None \/ diff = None THEN <<>>
          ELSE <<BookDiffEvent(r.seq, r.ts_socket, time, span.first, span.last, diff.bids, diff.asks)>>
  BY DEF RawDiff
<1> HIDE DEF span, diff, snapshot, time
<1>11. CASE span # None /\ diff # None
  <2> DEFINE event == BookDiffEvent(r.seq, r.ts_socket, time, span.first, span.last, diff.bids, diff.asks)
  <2>1. /\ content.first_update_id = span.first /\ content.last_update_id = span.last
        /\ content.bids = diff.bids /\ content.asks = diff.asks
    BY <1>4, <1>11 DEF DiffContent
  <2>2. ReadDiff(row) = <<event>>
    BY <1>5, <1>8, <1>9, <1>11, <2>1 DEF ReadDiff
  <2>3. Once(FeedRecord(r)) = <<event>>
    <3>1. CASE snapshot # None
      <4>1. PICK call : call = SnapshotEvent(r.seq, r.ts_socket, snapshot)
        OBVIOUS
      <4>2. call.on = "snapshot" /\ call.seq = r.seq /\ call.now = r.ts_socket /\ call.snapshot = snapshot
        BY <4>1 DEF SnapshotEvent
      <4>3. OnceNormalized(call) = event
        BY <1>7, <3>1, <4>2 DEF OnceNormalized
      <4>4. FeedRecord(r) = <<call>>
        BY <1>2, <1>10, <3>1, <4>1
      <4> QED
        BY <4>3, <4>4, OnceOne
    <3>2. CASE snapshot = None
      <4>1. event.on = "book_diff"
        BY DEF BookDiffEvent
      <4>2. OnceNormalized(event) = event
        BY <4>1 DEF OnceNormalized
      <4> HIDE DEF event
      <4>3. FeedRecord(r) = <<event>>
        BY <1>2, <1>10, <1>11, <3>2 DEF event
      <4> QED
        BY <4>2, <4>3, OnceOne
    <3> QED
      BY <3>1, <3>2
  <2>4. IsList(FeedRecord(r))
    BY <1>2, <1>10, <1>11, ShortLists
  <2> HIDE DEF event
  <2>5. ReadBack(r) = <<event>>
    BY <1>2, <1>3, <1>6, <2>2, ShortLists, OneRowRead
  <2> QED
    BY <2>3, <2>4, <2>5
<1>12. CASE ~(span # None /\ diff # None)
  <2>1. content.first_update_id = None
    BY <1>4, <1>12 DEF DiffContent
  <2>2. ReadDiff(row) = <<>>
    BY <1>5, <2>1 DEF ReadDiff
  <2>3. FeedRecord(r) = <<>>
    BY <1>2, <1>7, <1>10, <1>12
  <2>4. ReadBack(r) = <<>>
    BY <1>2, <1>3, <1>6, <2>2, ShortLists, OneRowRead
  <2> QED
    BY <2>3, <2>4, ShortLists, OnceNone
<1> QED
  BY <1>11, <1>12

-----------------------------------------------------------------------------
\* The best prices are told of as they came, or not at all.
LEMMA TopReadBack ==
    ASSUME NEW r, Taken(r), ~r.synthetic, r.ts_exchange = None, r.channel = "book_ticker"
    PROVE  /\ IsList(FeedRecord(r))
           /\ ReadBack(r) = Once(FeedRecord(r))
<1> DEFINE top == TopOfBook(VenueOf[r.instrument], r.channel, r.payload)
           nulls == [best_bid |-> None, best_bid_qty |-> None, best_ask |-> None,
                     best_ask_qty |-> None, ts_exchange |-> None]
           used == IF top # None THEN top ELSE nulls
           base == [BaseRow(r) EXCEPT !.ts_exchange = used.ts_exchange]
<1>1. IsRecord(r) /\ TableOf(r.channel) = "topbook" /\ TableOf(r.channel) # None
  BY ChannelOf, TablesAssumption DEF Taken, TableNames
<1>2. RowsOf(r) = <<TopRow(r)>> /\ FeedRecord(r) = IF top = None THEN <<>> ELSE <<TopBookEvent(r.seq, r.ts_socket, top)>>
  BY <1>1, TablesAssumption DEF RowsOf, FeedRecord, RawTop, TableNames
<1>3. PICK row : row = TopRow(r)
  OBVIOUS
<1>4. row = Joined(base, used)
  <2>1. BaseRow(r).ts_exchange = None
    BY DEF BaseRow
  <2> QED
    BY <1>3, <2>1 DEF TopRow
<1>5. top # None =>
         /\ top = [best_bid |-> top.best_bid, best_bid_qty |-> top.best_bid_qty,
                   best_ask |-> top.best_ask, best_ask_qty |-> top.best_ask_qty,
                   ts_exchange |-> top.ts_exchange]
         /\ None \notin {top.best_bid, top.best_bid_qty, top.best_ask, top.best_ask_qty}
  <2>1. Filled(r.payload)
    BY <1>1 DEF IsRecord
  <2>2. \A field \in {"b", "B", "a", "A", "best_bid", "best_bid_size", "best_ask", "best_ask_size"} :
            field \in DOMAIN r.payload => r.payload[field] # None
    BY <2>1 DEF Filled
  <2> QED
    BY <2>2 DEF TopOfBook, Has
<1>6. /\ {"seq", "ts_socket", "synthetic", "ts_exchange"} \subseteq DOMAIN base
      /\ base["seq"] = r.seq /\ base["ts_socket"] = r.ts_socket /\ base["synthetic"] = r.synthetic
      /\ base["ts_exchange"] = used.ts_exchange
      /\ {"best_bid", "best_bid_qty", "best_ask", "best_ask_qty"} \cap DOMAIN base = {}
  BY DEF BaseRow
<1>7. {"best_bid", "best_bid_qty", "best_ask", "best_ask_qty"} \subseteq DOMAIN used
  BY <1>5
<1> HIDE DEF base, used
<1>8. /\ \A x \in DOMAIN base : row[x] = base[x]
      /\ \A x \in DOMAIN used \ DOMAIN base : row[x] = used[x]
  BY <1>4 DEF Joined
<1>9. /\ row["seq"] = r.seq /\ row["ts_socket"] = r.ts_socket /\ row["synthetic"] = r.synthetic
      /\ row["ts_exchange"] = used.ts_exchange
  BY <1>6, <1>8
<1>10. /\ row["best_bid"] = used["best_bid"] /\ row["best_bid_qty"] = used["best_bid_qty"]
       /\ row["best_ask"] = used["best_ask"] /\ row["best_ask_qty"] = used["best_ask_qty"]
  BY <1>6, <1>7, <1>8
<1>11. ReadRow(TableOf(r.channel), row) = ReadTop(row)
  BY <1>1, <1>9 DEF ReadRow
<1>12. CASE top # None
  <2> DEFINE event == TopBookEvent(r.seq, r.ts_socket, top)
  <2>1. used = top
    BY <1>12 DEF used
  <2>2. ReadTop(row) = <<event>>
    <3>1. [best_bid |-> row.best_bid, best_bid_qty |-> row.best_bid_qty,
           best_ask |-> row.best_ask, best_ask_qty |-> row.best_ask_qty,
           ts_exchange |-> row.ts_exchange] = top
      BY <1>5, <1>9, <1>10, <1>12, <2>1
    <3>2. None \notin {row.best_bid, row.best_bid_qty, row.best_ask, row.best_ask_qty}
      BY <1>5, <1>10, <1>12, <2>1
    <3> QED
      BY <1>9, <3>1, <3>2 DEF ReadTop
  <2>3. OnceNormalized(event) = event
    BY DEF OnceNormalized, TopBookEvent
  <2> HIDE DEF event
  <2>4. FeedRecord(r) = <<event>>
    BY <1>2, <1>12 DEF event
  <2>5. ReadBack(r) = <<event>>
    BY <1>2, <1>3, <1>11, <2>2, ShortLists, OneRowRead
  <2> QED
    BY <2>3, <2>4, <2>5, ShortLists, OnceOne
<1>13. CASE top = None
  <2>1. row.best_bid = None
    BY <1>10, <1>13 DEF used
  <2>2. ReadTop(row) = <<>>
    BY <2>1 DEF ReadTop
  <2>3. ReadBack(r) = <<>>
    BY <1>2, <1>3, <1>11, <2>2, ShortLists, OneRowRead
  <2> QED
    BY <1>2, <1>13, <2>3, ShortLists, OnceNone
<1> QED
  BY <1>12, <1>13

\* A print has a price and a quantity.
LEMMA PrintsAreFilled ==
    ASSUME NEW r, IsRecord(r), ~r.synthetic, NEW prints,
           prints = TradePrints(VenueOf[r.instrument], r.channel, r.payload), prints # None
    PROVE  /\ IsList(prints)
           /\ \A i \in DOMAIN prints :
                 /\ prints[i].price # None /\ prints[i].quantity # None
                 /\ prints[i] = TradePrint(prints[i].trade_id, prints[i].price, prints[i].quantity,
                                           prints[i].side, prints[i].ts_exchange)
<1> DEFINE venue == VenueOf[r.instrument]
<1>1. venue \in Venues
  BY TablesAssumption DEF IsRecord
<1>2. /\ Filled(r.payload)
      /\ Has(r.payload, {"data"}) => IsList(r.payload.data)
                                     /\ \A i \in DOMAIN r.payload.data : Filled(r.payload.data[i])
  BY DEF IsRecord
<1> HIDE DEF venue
<1>3. CASE venue = "bybit"
  <2>1. /\ Has(r.payload, {"data"})
        /\ \A i \in DOMAIN r.payload.data : Has(r.payload.data[i], TradeFields.bybit)
        /\ prints = [i \in DOMAIN r.payload.data |-> BybitTrade(r.payload.data[i])]
    BY <1>3 DEF TradePrints, venue
  <2>2. PICK data : data = r.payload.data
    OBVIOUS
  <2>3. Len(data) \in Nat /\ DOMAIN data = 1..Len(data)
    BY <1>2, <2>1, <2>2, ListType
  <2>4. prints = [i \in 1..Len(data) |-> BybitTrade(data[i])]
    BY <2>1, <2>2, <2>3
  <2>5. DOMAIN prints = 1..Len(data) /\ \A i \in 1..Len(data) : prints[i] = BybitTrade(data[i])
    BY <2>4
  <2>6. IsList(prints)
    BY <2>3, <2>4 DEF IsList
  <2>7. \A i \in 1..Len(data) : data[i]["p"] # None /\ data[i]["v"] # None
    <3>1. \A i \in 1..Len(data) : {"p", "v"} \subseteq DOMAIN data[i] /\ Filled(data[i])
      BY <1>2, <2>1, <2>2, <2>3 DEF Has, TradeFields
    <3> QED
      BY <3>1 DEF Filled
  <2>8. ASSUME NEW i \in 1..Len(data)
        PROVE  /\ prints[i].price # None /\ prints[i].quantity # None
               /\ prints[i] = TradePrint(prints[i].trade_id, prints[i].price, prints[i].quantity,
                                         prints[i].side, prints[i].ts_exchange)
    <3>1. PICK trade, print : trade = data[i] /\ print = prints[i]
      OBVIOUS
    <3>2. trade.p # None /\ trade.v # None /\ print = BybitTrade(trade)
      BY <2>5, <2>7, <3>1
    <3>3. print = TradePrint(trade.i, trade.p, trade.v, NormalizeSide(trade.S), trade.T)
      BY <3>2 DEF BybitTrade
    <3>4. /\ print.price = trade.p /\ print.quantity = trade.v /\ print.trade_id = trade.i
          /\ print.side = NormalizeSide(trade.S) /\ print.ts_exchange = trade.T
      BY <3>3 DEF TradePrint
    <3> QED
      BY <3>1, <3>2, <3>3, <3>4
  <2> QED
    BY <2>5, <2>6, <2>8
<1>4. CASE venue \in {"binance", "coinbase"}
  <2> DEFINE print == IF venue = "binance" THEN BinanceTrade(r.payload) ELSE CoinbaseTrade(r.payload)
  <2>1. Has(r.payload, TradeFields[venue]) /\ prints = <<print>>
    BY <1>4 DEF TradePrints, venue
  <2>2. /\ venue = "binance" => r.payload["p"] # None /\ r.payload["q"] # None
        /\ venue = "coinbase" => r.payload["price"] # None /\ r.payload["size"] # None
    <3>1. /\ venue = "binance" => {"p", "q"} \subseteq DOMAIN r.payload
          /\ venue = "coinbase" => {"price", "size"} \subseteq DOMAIN r.payload
      BY <2>1 DEF Has, TradeFields
    <3> QED
      BY <1>2, <3>1 DEF Filled
  <2>3. /\ print.price # None /\ print.quantity # None
        /\ print = TradePrint(print.trade_id, print.price, print.quantity, print.side, print.ts_exchange)
    BY <1>4, <2>2 DEF BinanceTrade, CoinbaseTrade, TradePrint
  <2> HIDE DEF print
  <2>4. DOMAIN <<print>> = {1} /\ <<print>>[1] = print
    OBVIOUS
  <2> QED
    BY <2>1, <2>3, <2>4, ShortLists
<1> QED
  BY <1>1, <1>3, <1>4 DEF Venues

\* A print is told of as it came, in its place in the bundle.
LEMMA TradeReadBack ==
    ASSUME NEW r, Taken(r), ~r.synthetic, r.ts_exchange = None, r.channel = "trade"
    PROVE  /\ IsList(FeedRecord(r))
           /\ ReadBack(r) = Once(FeedRecord(r))
<1> DEFINE now == TradePrints(VenueOf[r.instrument], r.channel, r.payload)
<1>1. PICK prints : prints = now
  OBVIOUS
<1>2. IsRecord(r) /\ TableOf(r.channel) = "trade" /\ TableOf(r.channel) # None
  BY ChannelOf, TablesAssumption DEF Taken, TableNames
<1>3. /\ RowsOf(r) = IF prints = None THEN <<Joined(NullPrint, BaseRow(r))>>
                     ELSE [i \in DOMAIN prints |-> PrintRow(r, prints[i], i - 1)]
      /\ FeedRecord(r) = IF prints = None THEN <<>>
                         ELSE [i \in DOMAIN prints |-> TradeEvent(r.seq, r.ts_socket, i - 1, prints[i])]
  BY <1>1, <1>2 DEF RowsOf, TradeRows, FeedRecord, RawTrade
<1>4. CASE prints = None
  <2>1. PICK row : row = Joined(NullPrint, BaseRow(r))
    OBVIOUS
  <2>2. row["price"] = None /\ row["synthetic"] = r.synthetic
    <3>1. /\ "price" \in DOMAIN NullPrint /\ NullPrint["price"] = None
          /\ "synthetic" \in DOMAIN BaseRow(r) \ DOMAIN NullPrint /\ BaseRow(r)["synthetic"] = r.synthetic
      BY DEF NullPrint, BaseRow
    <3>2. PICK f, g : f = NullPrint /\ g = BaseRow(r)
      OBVIOUS
    <3>3. /\ \A x \in DOMAIN f : row[x] = f[x]
          /\ \A x \in DOMAIN g \ DOMAIN f : row[x] = g[x]
      BY <2>1, <3>2 DEF Joined
    <3> QED
      BY <3>1, <3>2, <3>3
  <2>3. ReadRow(TableOf(r.channel), row) = <<>>
    BY <1>2, <2>2 DEF ReadRow, ReadTrade
  <2>4. ReadBack(r) = <<>>
    BY <1>3, <1>4, <2>1, <2>3, ShortLists, OneRowRead
  <2> QED
    BY <1>3, <1>4, <2>4, ShortLists, OnceNone
<1>5. CASE prints # None
  <2>1. /\ IsList(prints)
        /\ \A i \in DOMAIN prints :
              /\ prints[i].price # None /\ prints[i].quantity # None
              /\ prints[i] = TradePrint(prints[i].trade_id, prints[i].price, prints[i].quantity,
                                        prints[i].side, prints[i].ts_exchange)
    BY <1>1, <1>2, <1>5, PrintsAreFilled
  <2>2. PICK n \in Nat : DOMAIN prints = 1..n
    BY <2>1, ListType
  <2>3. PICK calls : calls = [i \in 1..n |-> TradeEvent(r.seq, r.ts_socket, i - 1, prints[i])]
    OBVIOUS
  <2>4. FeedRecord(r) = calls
    BY <1>3, <1>5, <2>2, <2>3
  <2>5. IsList(calls) /\ DOMAIN calls = 1..n
    BY <2>3 DEF IsList
  <2>6. Once(calls) = calls
    <3>1. \A i \in 1..n : calls[i] = TradeEvent(r.seq, r.ts_socket, i - 1, prints[i])
      BY <2>3
    <3>2. ASSUME NEW i \in 1..n
          PROVE  OnceNormalized(calls[i]) = calls[i]
      <4>1. PICK print, call : print = prints[i] /\ call = TradeEvent(r.seq, r.ts_socket, i - 1, print)
        OBVIOUS
      <4>2. call = calls[i] /\ call.on = "trade"
        BY <3>1, <4>1 DEF TradeEvent
      <4>3. OnceNormalized(call) = call
        BY <4>2 DEF OnceNormalized
      <4> QED
        BY <4>2, <4>3
    <3>3. calls = [i \in 1..n |-> calls[i]]
      BY <2>3
    <3> QED
      BY <2>5, <3>2, <3>3 DEF Once
  <2>7. ASSUME NEW i \in 1..n
        PROVE  ReadRow("trade", PrintRow(r, prints[i], i - 1)) = <<calls[i]>>
    <3>1. PICK print : print = prints[i]
      OBVIOUS
    <3>2. PICK row : row = PrintRow(r, print, i - 1)
      OBVIOUS
    <3>3. /\ row.seq = r.seq /\ row.ts_socket = r.ts_socket /\ row.synthetic = r.synthetic
          /\ row.print_index = i - 1 /\ row.trade_id = print.trade_id /\ row.price = print.price
          /\ row.quantity = print.quantity /\ row.side = print.side
          /\ row.ts_exchange = IF print.ts_exchange # None THEN print.ts_exchange ELSE r.ts_exchange
      BY <1>2, <3>2, PrintRowFields
    <3>4. row.ts_exchange = print.ts_exchange
      BY <3>3
    <3>5. /\ print.price # None /\ print.quantity # None
          /\ print = TradePrint(print.trade_id, print.price, print.quantity, print.side, print.ts_exchange)
      BY <2>1, <2>2, <3>1
    <3>6. ReadRow("trade", row) = ReadTrade(row)
      BY <3>3 DEF ReadRow
    <3>7. ReadTrade(row) = <<TradeEvent(r.seq, r.ts_socket, i - 1, print)>>
      BY <3>3, <3>4, <3>5 DEF ReadTrade
    <3>8. calls[i] = TradeEvent(r.seq, r.ts_socket, i - 1, print)
      BY <2>3, <3>1
    <3> QED
      BY <3>1, <3>2, <3>6, <3>7, <3>8
  <2>8. PICK rows : rows = RowsOf(r)
    OBVIOUS
  <2>9. DOMAIN rows = 1..n /\ \A i \in 1..n : rows[i] = PrintRow(r, prints[i], i - 1)
    BY <1>3, <1>5, <2>2, <2>8
  <2>10. [j \in DOMAIN rows |-> ReadRow("trade", rows[j])] = [j \in DOMAIN calls |-> <<calls[j]>>]
    BY <2>5, <2>7, <2>9
  <2>11. ReadBack(r) = FlattenSeq([j \in DOMAIN calls |-> <<calls[j]>>])
    BY <1>2, <2>8, <2>10 DEF ReadBack
  <2>12. PICK T : calls \in Seq(T)
    BY <2>5 DEF IsList
  <2>13. ReadBack(r) = calls
    BY <2>11, <2>12, FlattenSingles
  <2> QED
    BY <2>4, <2>5, <2>6, <2>13
<1> QED
  BY <1>4, <1>5

\* The two roads of one record lead to the same calls, but for Bybit's snapshots.
LEMMA RecordReadBack ==
    ASSUME NEW r, Taken(r), r.ts_exchange = None
    PROVE  IsList(FeedRecord(r)) /\ ReadBack(r) = Once(FeedRecord(r))
<1>1. CASE TableOf(r.channel) = None
  <2>1. RowsOf(r) = <<>> /\ FeedRecord(r) = <<>>
    BY <1>1, SkippedHasNoRows DEF FeedRecord
  <2>2. ReadBack(r) = <<>>
    <3>1. [j \in DOMAIN <<>> |-> ReadRow(TableOf(r.channel), <<>>[j])] = <<>>
      OBVIOUS
    <3> QED
      BY <2>1, <3>1, FlattenEmpty DEF ReadBack
  <2> QED
    BY <2>1, <2>2, OnceNone, ShortLists
<1>2. CASE TableOf(r.channel) # None /\ r.synthetic
  BY <1>2, MarkerReadBack, ShortLists
<1>3. CASE TableOf(r.channel) # None /\ ~r.synthetic
  <2>1. r.channel \in {"book_diff", "trade", "book_ticker"}
    BY <1>3 DEF TableOf
  <2> QED
    BY <1>3, <2>1, DiffReadBack, TradeReadBack, TopReadBack
<1> QED
  BY <1>1, <1>2, <1>3 DEF Taken, IsRecord

-----------------------------------------------------------------------------
\* The events of a record as a tree holds them, and those of some records.
EventsOf(r) == [j \in DOMAIN RowsOf(r) |-> [table |-> TableOf(r.channel), row |-> RowsOf(r)[j]]]
EventsIn(R) == UNION {{EventsOf(r)[j] : j \in DOMAIN EventsOf(r)} : r \in R}
Told(recs) == FlattenSeq([i \in DOMAIN recs |-> EventsOf(recs[i])])

\* Records that both roads take and that say nothing of the exchange's time.
Untimed(R) == \A r \in R : Taken(r) /\ r.ts_exchange = None

\* An event for each row.
LEMMA EventsOfType ==
    ASSUME NEW r, Taken(r)
    PROVE  /\ IsList(RowsOf(r)) /\ DOMAIN EventsOf(r) = DOMAIN RowsOf(r)
           /\ \A R : r \in R => EventsOf(r) \in Seq(EventsIn(R))
           /\ \A j \in DOMAIN RowsOf(r) :
                 EventsOf(r)[j].table = TableOf(r.channel) /\ EventsOf(r)[j].row = RowsOf(r)[j]
<1>1. PICK rows : rows = RowsOf(r) /\ IsList(rows)
  <2>1. CASE TableOf(r.channel) = None
    BY <2>1, SkippedHasNoRows, ShortLists
  <2>2. CASE TableOf(r.channel) # None
    BY <2>2, RowsSit DEF Taken
  <2> QED
    BY <2>1, <2>2
<1>2. Len(rows) \in Nat /\ DOMAIN rows = 1..Len(rows)
  BY <1>1, ListType
<1>3. PICK events : events = EventsOf(r)
  OBVIOUS
<1>4. events = [j \in 1..Len(rows) |-> [table |-> TableOf(r.channel), row |-> rows[j]]]
  BY <1>1, <1>2, <1>3 DEF EventsOf
<1>5. DOMAIN events = 1..Len(rows) /\ \A j \in 1..Len(rows) : events[j] = [table |-> TableOf(r.channel), row |-> rows[j]]
  BY <1>4
<1>6. ASSUME NEW R, r \in R
      PROVE  events \in Seq(EventsIn(R))
  <2>1. \A j \in 1..Len(rows) : events[j] \in EventsIn(R)
    BY <1>3, <1>5, <1>6 DEF EventsIn
  <2> QED
    BY <1>2, <1>4, <1>5, <2>1
<1> QED
  BY <1>1, <1>2, <1>3, <1>5, <1>6

\* A row that is read makes a call or none.
LEMMA ReadRowIsList == \A table, row : IsList(ReadRow(table, row))
BY ShortLists DEF ReadRow, ReadDiff, ReadTrade, ReadTop

EventsMap(R) == [r \in R |-> EventsOf(r)]
Reader(E) == [e \in E |-> ReadRow(e.table, e.row)]
CallsIn(E) == UNION {{ReadRow(e.table, e.row)[i] : i \in DOMAIN ReadRow(e.table, e.row)} : e \in E}
FeedMap(R) == [r \in R |-> FeedRecord(r)]
FeedsIn(R) == UNION {{FeedRecord(r)[i] : i \in DOMAIN FeedRecord(r)} : r \in R}

\* A list is of what has its elements.
LEMMA ListOf ==
    ASSUME NEW s, IsList(s), NEW T, \A i \in DOMAIN s : s[i] \in T
    PROVE  s \in Seq(T)
<1>1. Len(s) \in Nat /\ DOMAIN s = 1..Len(s)
  BY ListType
<1>2. s \in Seq({s[i] : i \in DOMAIN s})
  BY DEF IsList
<1> QED
  BY <1>1, <1>2

\* The maps of both roads.
LEMMA RoadMaps ==
    ASSUME NEW R, Untimed(R)
    PROVE  /\ Maps(EventsMap(R), R, EventsIn(R))
           /\ Maps(Reader(EventsIn(R)), EventsIn(R), CallsIn(EventsIn(R)))
           /\ Maps(FeedMap(R), R, FeedsIn(R))
<1>1. \A r \in R : EventsOf(r) \in Seq(EventsIn(R))
  BY EventsOfType DEF Untimed
<1>2. ASSUME NEW E, NEW e \in E
      PROVE  ReadRow(e.table, e.row) \in Seq(CallsIn(E))
  <2>1. PICK s : s = ReadRow(e.table, e.row) /\ IsList(s)
    BY ReadRowIsList
  <2>2. \A i \in DOMAIN s : s[i] \in CallsIn(E)
    BY <2>1 DEF CallsIn
  <2> QED
    BY <2>1, <2>2, ListOf
<1>3. ASSUME NEW r \in R
      PROVE  FeedRecord(r) \in Seq(FeedsIn(R))
  <2>1. PICK s : s = FeedRecord(r) /\ IsList(s)
    BY RecordReadBack DEF Untimed
  <2>2. \A i \in DOMAIN s : s[i] \in FeedsIn(R)
    BY <2>1 DEF FeedsIn
  <2> QED
    BY <2>1, <2>2, ListOf
<1>4. Maps(EventsMap(R), R, EventsIn(R))
  BY <1>1 DEF EventsMap, Maps
<1>5. \A E : Maps(Reader(E), E, CallsIn(E))
  BY <1>2 DEF Reader, Maps
<1>6. Maps(FeedMap(R), R, FeedsIn(R))
  BY <1>3 DEF FeedMap, Maps
<1> QED
  BY <1>4, <1>5, <1>6

\* What the records' events are read back as is what the records are fed as.
LEMMA RoadsAgree ==
    ASSUME NEW R, Untimed(R), NEW recs \in Seq(R)
    PROVE  FlattenSeq([i \in DOMAIN Told(recs) |-> ReadRow(Told(recs)[i].table, Told(recs)[i].row)])
               = Once(FlattenSeq([i \in DOMAIN recs |-> FeedRecord(recs[i])]))
<1> DEFINE E == EventsIn(R)
           F == EventsMap(R)
           G == Reader(E)
           D == FeedMap(R)
           H == FeedsIn(R)
           once == [x \in H |-> OnceNormalized(x)]
           V == {OnceNormalized(x) : x \in H}
<1>1. Maps(F, R, E) /\ Maps(G, E, CallsIn(E)) /\ Maps(D, R, H)
  BY RoadMaps
<1>2. Turns(once, H, V)
  BY DEF Turns
<1>3. \A r \in R : F[r] = EventsOf(r) /\ D[r] = FeedRecord(r)
  BY DEF EventsMap, FeedMap
<1>4. \A e \in E : G[e] = ReadRow(e.table, e.row)
  BY DEF Reader
<1>5. \A x \in H : once[x] = OnceNormalized(x)
  OBVIOUS
<1>6. \A i \in DOMAIN recs : recs[i] \in R
  OBVIOUS
<1> HIDE DEF E, F, G, D, H, once, V
<1>7. Told(recs) = FlattenSeq(Mapped(F, recs))
  BY <1>3, <1>6 DEF Told, Mapped
<1>8. FlattenSeq([i \in DOMAIN recs |-> FeedRecord(recs[i])]) = FlattenSeq(Mapped(D, recs))
  BY <1>3, <1>6 DEF Mapped
<1>9. Told(recs) \in Seq(E) /\ FlattenSeq(Mapped(D, recs)) \in Seq(H)
  <2>1. Mapped(F, recs) \in Seq(Seq(E)) /\ Mapped(D, recs) \in Seq(Seq(H))
    BY <1>1, MapType DEF Maps
  <2> QED
    BY <1>7, <2>1, FlattenType
<1>10. PICK first, second : /\ first = [r \in R |-> FlattenSeq(Mapped(G, F[r]))]
                            /\ second = [r \in R |-> Mapped(once, D[r])]
  OBVIOUS
<1>11. /\ FlattenSeq(Mapped(G, Told(recs))) = FlattenSeq(Mapped(first, recs))
       /\ Mapped(once, FlattenSeq(Mapped(D, recs))) = FlattenSeq(Mapped(second, recs))
  <2>1. FlattenSeq(Mapped(G, Told(recs))) = FlattenSeq(Mapped(first, recs))
    BY <1>1, <1>7, <1>10, FlattenMapFlatten
  <2>2. Mapped(once, FlattenSeq(Mapped(D, recs))) = FlattenSeq(Mapped(second, recs))
    BY <1>1, <1>2, <1>10, MapFlatten
  <2> QED
    BY <2>1, <2>2
<1>12. ASSUME NEW s \in Seq(E)
       PROVE  Mapped(G, s) = [i \in DOMAIN s |-> ReadRow(s[i].table, s[i].row)]
  <2>1. \A i \in DOMAIN s : s[i] \in E
    OBVIOUS
  <2> QED
    BY <1>4, <2>1 DEF Mapped
<1>13. ASSUME NEW s \in Seq(H)
       PROVE  Mapped(once, s) = Once(s)
  <2>1. \A i \in DOMAIN s : s[i] \in H
    OBVIOUS
  <2> QED
    BY <1>5, <2>1 DEF Mapped, Once
<1>14. ASSUME NEW r \in R
       PROVE  FlattenSeq(Mapped(G, F[r])) = Mapped(once, D[r])
  <2>1. Taken(r) /\ r.ts_exchange = None
    BY DEF Untimed
  <2>2. F[r] \in Seq(E) /\ D[r] \in Seq(H)
    BY <1>1 DEF Maps
  <2>3. Mapped(once, D[r]) = Once(FeedRecord(r))
    BY <1>3, <1>13, <2>2
  <2>4. PICK events : events = EventsOf(r)
    OBVIOUS
  <2>5. Mapped(G, F[r]) = [i \in DOMAIN events |-> ReadRow(events[i].table, events[i].row)]
    BY <1>3, <1>12, <2>2, <2>4
  <2>6. /\ DOMAIN events = DOMAIN RowsOf(r)
        /\ \A j \in DOMAIN RowsOf(r) : events[j].table = TableOf(r.channel) /\ events[j].row = RowsOf(r)[j]
    BY <2>1, <2>4, EventsOfType
  <2>7. Mapped(G, F[r]) = [j \in DOMAIN RowsOf(r) |-> ReadRow(TableOf(r.channel), RowsOf(r)[j])]
    BY <2>5, <2>6
  <2>8. FlattenSeq(Mapped(G, F[r])) = ReadBack(r)
    BY <2>7 DEF ReadBack
  <2> QED
    BY <2>1, <2>3, <2>8, RecordReadBack
<1>15. first = second
  BY <1>10, <1>14
<1>16. Mapped(G, Told(recs)) = [i \in DOMAIN Told(recs) |-> ReadRow(Told(recs)[i].table, Told(recs)[i].row)]
  BY <1>9, <1>12
<1>17. Mapped(once, FlattenSeq(Mapped(D, recs))) = Once(FlattenSeq(Mapped(D, recs)))
  BY <1>9, <1>13
<1> QED
  BY <1>8, <1>11, <1>15, <1>16, <1>17

-----------------------------------------------------------------------------
\* The places of the rows of some records: which record, and which of its rows; what is
\* there, and the partition it belongs into.
Places(recs) == {s \in Nat \X Nat : s[1] \in 1..Len(recs) /\ s[2] \in DOMAIN RowsOf(recs[s[1]])}
TableAt(recs, s) == TableOf(recs[s[1]].channel)
RowAt(recs, s) == RowsOf(recs[s[1]])[s[2]]
KeyAt(recs, s) == PartitionKey(TableAt(recs, s), recs[s[1]])
PlacesOf(recs, key) == {s \in Places(recs) : KeyAt(recs, s) = key}
PlacesIn(recs, table) == {s \in Places(recs) : TableAt(recs, s) = table}

\* A numbering from one.
Enumerates(from, n, S) ==
    /\ n \in Nat
    /\ from \in [1..n -> S]
    /\ \A s \in S : \E x \in 1..n : from[x] = s
    /\ \A x, y \in 1..n : from[x] = from[y] => x = y

AllTaken(recs) == \A i \in 1..Len(recs) : Taken(recs[i])

\* The tagged rows of a table number its places.
LEMMA TaggedPlaces ==
    ASSUME NEW recs \in Seq(AllRecords), AllTaken(recs), NEW t \in TableNames,
           NEW tagged, tagged = TaggedIn(t, recs)
    PROVE  \E from : /\ Enumerates(from, Len(tagged), PlacesIn(recs, t))
                     /\ \A x \in 1..Len(tagged) : /\ tagged[x].key = KeyAt(recs, from[x])
                                                  /\ tagged[x].row = RowAt(recs, from[x])
<1> DEFINE lists == [i \in DOMAIN recs |-> TaggedOf(t, recs[i])]
<1>1. PICK n \in Nat : n = Len(recs) /\ DOMAIN recs = 1..n /\ \A i \in 1..n : recs[i] \in AllRecords
  OBVIOUS
<1>2. lists \in Seq(Seq(TagsAt(t))) /\ Len(lists) = n /\ \A i \in 1..n : lists[i] = TaggedOf(t, recs[i])
  <2>1. \A i \in 1..n : TaggedOf(t, recs[i]) \in Seq(TagsAt(t))
    BY <1>1, TagsAtAreTags DEF TagsOf
  <2> QED
    BY <1>1, <2>1
<1>3. tagged = FlattenSeq(lists)
  BY DEF TaggedIn
<1>4. ASSUME NEW i \in 1..n
      PROVE  /\ TableOf(recs[i].channel) # t => lists[i] = <<>>
             /\ TableOf(recs[i].channel) = t =>
                   /\ 1..Len(lists[i]) = DOMAIN RowsOf(recs[i])
                   /\ \A j \in DOMAIN RowsOf(recs[i]) : /\ lists[i][j].key = PartitionKey(t, recs[i])
                                                        /\ lists[i][j].row = RowsOf(recs[i])[j]
  <2>1. Taken(recs[i]) /\ lists[i] = TaggedOf(t, recs[i])
    BY <1>1, <1>2 DEF AllTaken
  <2>2. TableOf(recs[i].channel) # t => lists[i] = <<>>
    BY <2>1 DEF TaggedOf
  <2>3. ASSUME TableOf(recs[i].channel) = t
        PROVE  /\ 1..Len(lists[i]) = DOMAIN RowsOf(recs[i])
               /\ \A j \in DOMAIN RowsOf(recs[i]) : /\ lists[i][j].key = PartitionKey(t, recs[i])
                                                    /\ lists[i][j].row = RowsOf(recs[i])[j]
    <3>1. PICK list, rows, key : list = lists[i] /\ rows = RowsOf(recs[i]) /\ key = PartitionKey(t, recs[i])
      OBVIOUS
    <3>2. Len(rows) \in Nat /\ DOMAIN rows = 1..Len(rows)
      BY <2>1, <3>1, EventsOfType, ListType
    <3>3. list = [j \in 1..Len(rows) |-> [key |-> key, row |-> rows[j]]]
      BY <2>1, <2>3, <3>1, <3>2 DEF TaggedOf, Taken, Tagged
    <3>4. Len(list) = Len(rows) /\ \A j \in 1..Len(rows) : list[j].key = key /\ list[j].row = rows[j]
      BY <3>2, <3>3
    <3> QED
      BY <3>1, <3>2, <3>4
  <2> QED
    BY <2>2, <2>3
<1> HIDE DEF lists
<1>5. PICK at : IsPlaces(at, lists, tagged)
  BY <1>2, <1>3, FlattenPlaces
<1>6. Len(tagged) \in Nat
  <2>1. FlattenSeq(lists) \in Seq(TagsAt(t))
    BY <1>2, FlattenType
  <2>2. tagged \in Seq(TagsAt(t))
    BY <1>3, <2>1
  <2> QED
    BY <2>2
<1>7. ASSUME NEW x \in 1..Len(tagged)
      PROVE  /\ at[x] \in PlacesIn(recs, t)
             /\ tagged[x].key = KeyAt(recs, at[x]) /\ tagged[x].row = RowAt(recs, at[x])
  <2>1. PICK i, j : i = at[x][1] /\ j = at[x][2]
    OBVIOUS
  <2>2. at[x] \in Nat \X Nat /\ i \in 1..n /\ j \in 1..Len(lists[i]) /\ tagged[x] = lists[i][j]
    BY <1>2, <1>5, <2>1 DEF IsPlaces
  <2>3. TableOf(recs[i].channel) = t
    <3>1. lists[i] = <<>> => Len(lists[i]) = 0
      OBVIOUS
    <3> QED
      BY <1>4, <2>2, <3>1
  <2>4. j \in DOMAIN RowsOf(recs[i]) /\ tagged[x].key = PartitionKey(t, recs[i])
        /\ tagged[x].row = RowsOf(recs[i])[j]
    BY <1>4, <2>2, <2>3
  <2> QED
    BY <1>1, <2>1, <2>2, <2>3, <2>4 DEF PlacesIn, Places, TableAt, RowAt, KeyAt
<1>8. \A s \in PlacesIn(recs, t) : \E x \in 1..Len(tagged) : at[x] = s
  <2> SUFFICES ASSUME NEW s \in PlacesIn(recs, t)
      PROVE  \E x \in 1..Len(tagged) : at[x] = s
    OBVIOUS
  <2>1. PICK i, j : s = <<i, j>> /\ i = s[1] /\ j = s[2]
    BY DEF PlacesIn, Places
  <2>2. i \in 1..n /\ j \in DOMAIN RowsOf(recs[i]) /\ TableOf(recs[i].channel) = t
    BY <1>1, <2>1 DEF PlacesIn, Places, TableAt
  <2>3. i \in 1..Len(lists) /\ j \in 1..Len(lists[i])
    BY <1>2, <1>4, <2>2
  <2> QED
    BY <1>5, <2>1, <2>3 DEF IsPlaces
<1>9. \A x, y \in 1..Len(tagged) : at[x] = at[y] => x = y
  BY <1>5, <1>6, PlacesDiffer
<1>10. at \in [1..Len(tagged) -> PlacesIn(recs, t)]
  BY <1>5, <1>7 DEF IsPlaces
<1>11. Enumerates(at, Len(tagged), PlacesIn(recs, t))
  BY <1>6, <1>8, <1>9, <1>10 DEF Enumerates
<1> QED
  BY <1>7, <1>11

-----------------------------------------------------------------------------
\* The table of a place, and the partition: its key begins with the table's rank.
LEMMA PlaceKeys ==
    ASSUME NEW recs \in Seq(AllRecords), AllTaken(recs), NEW s \in Places(recs)
    PROVE  /\ TableAt(recs, s) \in TableNames
           /\ KeyAt(recs, s) \in PartitionKeys
           /\ Tables[KeyAt(recs, s)[1]] = TableAt(recs, s)
<1>1. PICK r : r = recs[s[1]]
  OBVIOUS
<1>2. Taken(r)
  BY <1>1 DEF Places, AllTaken
<1>3. IsRecord(r) /\ TableOf(r.channel) \in TableNames
  BY <1>1, <1>2, SkippedHasNoRows DEF Places, Taken, TableOf, TableNames
<1>4. /\ PartitionKey(TableOf(r.channel), r) \in PartitionKeys
      /\ PartitionKey(TableOf(r.channel), r)[1] = Rank(TableOf(r.channel))
  BY <1>3, PartitionKeyType
<1> QED
  BY <1>1, <1>3, <1>4, RankTable DEF KeyAt, TableAt

\* The rows of a partition number its places.
LEMMA PartitionPlaces ==
    ASSUME NEW recs \in Seq(AllRecords), AllTaken(recs), NEW key \in PartitionKeys,
           NEW rows, rows = RowsWith(TaggedIn(Tables[key[1]], recs), key)
    PROVE  \E from : /\ Enumerates(from, Len(rows), PlacesOf(recs, key))
                     /\ \A x \in 1..Len(rows) : rows[x] = RowAt(recs, from[x])
<1>1. PICK t \in TableNames : t = Tables[key[1]]
  BY RankTable DEF PartitionKeys
<1>2. PICK tagged : tagged = TaggedIn(t, recs)
  OBVIOUS
<1>3. PICK at : /\ Enumerates(at, Len(tagged), PlacesIn(recs, t))
                /\ \A x \in 1..Len(tagged) : /\ tagged[x].key = KeyAt(recs, at[x])
                                             /\ tagged[x].row = RowAt(recs, at[x])
  BY <1>2, TaggedPlaces
<1>4. PICK n \in Nat : n = Len(tagged) /\ tagged \in Seq(TagsAt(t)) /\ DOMAIN tagged = 1..n
  <2>1. tagged \in Seq(TagsAt(t))
    BY <1>2, TagsAtAreTags, TaggedInType
  <2> QED
    BY <2>1
<1> DEFINE lists == [i \in DOMAIN tagged |-> IF tagged[i].key = key THEN <<tagged[i].row>> ELSE <<>>]
           V == {tagged[i].row : i \in DOMAIN tagged}
<1>5. lists \in Seq(Seq(V)) /\ Len(lists) = n
      /\ \A i \in 1..n : lists[i] = IF tagged[i].key = key THEN <<tagged[i].row>> ELSE <<>>
  <2>1. \A i \in 1..n : (IF tagged[i].key = key THEN <<tagged[i].row>> ELSE <<>>) \in Seq(V)
    <3>1. \A i \in 1..n : tagged[i].row \in V
      BY <1>4
    <3> HIDE DEF V
    <3> QED
      BY <3>1
  <2> HIDE DEF V
  <2> QED
    BY <1>4, <2>1
<1>6. rows = FlattenSeq(lists)
  BY <1>1, <1>2 DEF RowsWith
<1> HIDE DEF lists, V
<1>7. PICK bt : IsPlaces(bt, lists, rows)
  BY <1>5, <1>6, FlattenPlaces
<1>8. Len(rows) \in Nat
  <2>1. FlattenSeq(lists) \in Seq(V)
    BY <1>5, FlattenType
  <2>2. rows \in Seq(V)
    BY <1>6, <2>1
  <2> QED
    BY <2>2
<1>9. ASSUME NEW x \in 1..Len(rows)
      PROVE  /\ bt[x] \in Nat \X Nat /\ bt[x][1] \in 1..n /\ bt[x][2] = 1
             /\ tagged[bt[x][1]].key = key /\ rows[x] = tagged[bt[x][1]].row
  <2>1. PICK i, j : i = bt[x][1] /\ j = bt[x][2]
    OBVIOUS
  <2>2. bt[x] \in Nat \X Nat /\ i \in 1..n /\ j \in 1..Len(lists[i]) /\ rows[x] = lists[i][j]
    BY <1>5, <1>7, <2>1 DEF IsPlaces
  <2>3. tagged[i].key = key /\ lists[i] = <<tagged[i].row>>
    <3>1. Len(<<>>) = 0
      OBVIOUS
    <3>2. lists[i] # <<>>
      BY <2>2, <3>1
    <3> QED
      BY <1>5, <2>2, <3>2
  <2>4. j = 1 /\ rows[x] = tagged[i].row
    BY <2>2, <2>3
  <2> QED
    BY <2>1, <2>2, <2>3, <2>4
<1> DEFINE from == [x \in 1..Len(rows) |-> at[bt[x][1]]]
<1>10. ASSUME NEW x \in 1..Len(rows)
       PROVE  from[x] \in PlacesOf(recs, key) /\ rows[x] = RowAt(recs, from[x])
  <2>1. bt[x][1] \in 1..n /\ tagged[bt[x][1]].key = key /\ rows[x] = tagged[bt[x][1]].row
    BY <1>9
  <2>2. PICK i \in 1..n : i = bt[x][1] /\ from[x] = at[i]
    BY <2>1
  <2>3. at[i] \in PlacesIn(recs, t) /\ KeyAt(recs, at[i]) = key /\ rows[x] = RowAt(recs, at[i])
    BY <1>3, <1>4, <2>1, <2>2 DEF Enumerates
  <2> QED
    BY <2>2, <2>3 DEF PlacesOf, PlacesIn
<1>11. ASSUME NEW s \in PlacesOf(recs, key)
       PROVE  \E x \in 1..Len(rows) : from[x] = s
  <2>1. s \in Places(recs) /\ KeyAt(recs, s) = key
    BY DEF PlacesOf
  <2>2. s \in PlacesIn(recs, t)
    BY <1>1, <2>1, PlaceKeys DEF PlacesIn
  <2>3. PICK i \in 1..n : at[i] = s
    BY <1>3, <1>4, <2>2 DEF Enumerates
  <2>4. lists[i] = <<tagged[i].row>>
    BY <1>3, <1>4, <1>5, <2>1, <2>3
  <2>5. i \in 1..Len(lists) /\ 1 \in 1..Len(lists[i])
    BY <1>5, <2>4
  <2>6. PICK x \in 1..Len(rows) : bt[x] = <<i, 1>>
    BY <1>7, <2>5 DEF IsPlaces
  <2>7. from[x] = s
    BY <2>3, <2>6
  <2> QED
    BY <2>7
<1>12. ASSUME NEW x \in 1..Len(rows), NEW y \in 1..Len(rows), from[x] = from[y]
       PROVE  x = y
  <2>1. /\ bt[x] \in Nat \X Nat /\ bt[x][1] \in 1..n /\ bt[x][2] = 1
        /\ bt[y] \in Nat \X Nat /\ bt[y][1] \in 1..n /\ bt[y][2] = 1
    BY <1>9
  <2>2. at[bt[x][1]] = at[bt[y][1]]
    BY <1>12
  <2>3. bt[x][1] = bt[y][1]
    <3>1. PICK i \in 1..n, j \in 1..n : i = bt[x][1] /\ j = bt[y][1]
      BY <2>1
    <3>2. at[i] = at[j]
      BY <2>2, <3>1
    <3>3. i = j
      BY <1>3, <1>4, <3>2 DEF Enumerates
    <3> QED
      BY <3>1, <3>3
  <2>4. bt[x] = bt[y]
    BY <2>1, <2>3
  <2> QED
    BY <1>7, <1>8, <2>4, PlacesDiffer
<1>13. from \in [1..Len(rows) -> PlacesOf(recs, key)]
  BY <1>10
<1> HIDE DEF from
<1>14. Enumerates(from, Len(rows), PlacesOf(recs, key))
  BY <1>8, <1>11, <1>12, <1>13 DEF Enumerates
<1> QED
  BY <1>10, <1>14

\* A tree with the rows of some records: one file for each partition there is a row for,
\* and in each file what its partition is owed.
TreeOf(files, recs) ==
    /\ IsTree(files)
    /\ \A f \in DOMAIN files : files[f].rows = RowsWith(TaggedIn(Tables[f[1][1]], recs), f[1])
    /\ \A s \in Places(recs) : \E file : {f \in DOMAIN files : f[1] = KeyAt(recs, s)} = {file}

\* What is read of it numbers the places of all rows.
LEMMA TreePlaces ==
    ASSUME NEW recs \in Seq(AllRecords), AllTaken(recs), NEW files, TreeOf(files, recs),
           NEW events, events = TreeRows(files)
    PROVE  \E from : /\ Enumerates(from, Len(events), Places(recs))
                     /\ \A x \in 1..Len(events) : /\ events[x].table = TableAt(recs, from[x])
                                                  /\ events[x].row = RowAt(recs, from[x])
<1> DEFINE Of(f) == [j \in DOMAIN files[f].rows |-> [table |-> Tables[f[1][1]], row |-> files[f].rows[j]]]
           T == RowsIn(files)
           Froms(f) == {from \in [1..Len(files[f].rows) -> PlacesOf(recs, f[1])] :
                            /\ Enumerates(from, Len(files[f].rows), PlacesOf(recs, f[1]))
                            /\ \A x \in 1..Len(files[f].rows) : files[f].rows[x] = RowAt(recs, from[x])}
           Chosen(f) == CHOOSE from : from \in Froms(f)
<1>0. PICK n \in Nat : n = Cardinality(DOMAIN files)
  BY PathsSorted DEF TreeOf
<1>1. PICK sorted \in [1..n -> DOMAIN files] :
         /\ sorted = SortedPaths(files)
         /\ \A f \in DOMAIN files : \E i \in 1..n : sorted[i] = f
         /\ \A i, j \in 1..n : i < j <=> PathOrder(sorted[i], sorted[j])
  BY <1>0, PathsSorted DEF TreeOf
<1>2. \A i, j \in 1..n : sorted[i] = sorted[j] => i = j
  <2> SUFFICES ASSUME NEW i \in 1..n, NEW j \in 1..n, sorted[i] = sorted[j], i # j
      PROVE  FALSE
    OBVIOUS
  <2>1. i < j \/ j < i
    OBVIOUS
  <2>2. PICK f \in PartFiles : f = sorted[i] /\ f = sorted[j]
    BY DEF TreeOf, IsTree
  <2>3. ~PathOrder(f, f)
    BY PathsAreOrdered
  <2> QED
    BY <1>1, <2>1, <2>2, <2>3
<1>3. ASSUME NEW f \in DOMAIN files
      PROVE  /\ Chosen(f) \in Froms(f)
             /\ Len(files[f].rows) \in Nat /\ DOMAIN files[f].rows = 1..Len(files[f].rows)
             /\ f[1] \in PartitionKeys
  <2>1. f[1] \in PartitionKeys
    BY DEF TreeOf, IsTree, PartFiles
  <2>2. PICK rows : rows = files[f].rows /\ rows = RowsWith(TaggedIn(Tables[f[1][1]], recs), f[1])
    BY DEF TreeOf
  <2>3. \E from : /\ Enumerates(from, Len(rows), PlacesOf(recs, f[1]))
                  /\ \A x \in 1..Len(rows) : rows[x] = RowAt(recs, from[x])
    BY <2>1, <2>2, PartitionPlaces
  <2>4. \E from : from \in Froms(f)
    BY <2>2, <2>3 DEF Enumerates
  <2>5. Len(files[f].rows) \in Nat /\ DOMAIN files[f].rows = 1..Len(files[f].rows)
    BY ListType DEF TreeOf, IsTree
  <2> HIDE DEF Froms
  <2> QED
    BY <2>1, <2>4, <2>5
<1> HIDE DEF Chosen
<1>4. ASSUME NEW f \in DOMAIN files
      PROVE  /\ Enumerates(Chosen(f), Len(files[f].rows), PlacesOf(recs, f[1]))
             /\ \A x \in 1..Len(files[f].rows) : /\ files[f].rows[x] = RowAt(recs, Chosen(f)[x])
                                                 /\ Chosen(f)[x] \in PlacesOf(recs, f[1])
             /\ \A x, y \in 1..Len(files[f].rows) : Chosen(f)[x] = Chosen(f)[y] => x = y
  <2>1. PICK from : from = Chosen(f)
    OBVIOUS
  <2>2. /\ Enumerates(from, Len(files[f].rows), PlacesOf(recs, f[1]))
        /\ \A x \in 1..Len(files[f].rows) : files[f].rows[x] = RowAt(recs, from[x])
    BY <1>3, <2>1
  <2>3. /\ \A x \in 1..Len(files[f].rows) : from[x] \in PlacesOf(recs, f[1])
        /\ \A x, y \in 1..Len(files[f].rows) : from[x] = from[y] => x = y
    BY <2>2 DEF Enumerates
  <2> QED
    BY <2>1, <2>2, <2>3
<1> HIDE DEF Froms
<1> DEFINE lists == [i \in DOMAIN sorted |-> Of(sorted[i])]
<1>5. events = FlattenSeq(lists)
  BY <1>1 DEF TreeRows, SortedPaths
<1>6. ASSUME NEW f \in DOMAIN files
      PROVE  /\ Of(f) \in Seq(T) /\ Len(Of(f)) = Len(files[f].rows)
             /\ \A j \in 1..Len(files[f].rows) : Of(f)[j].table = Tables[f[1][1]] /\ Of(f)[j].row = files[f].rows[j]
  <2>1. PICK rows, table : rows = files[f].rows /\ table = Tables[f[1][1]]
    OBVIOUS
  <2>2. Len(rows) \in Nat /\ DOMAIN rows = 1..Len(rows)
    BY <1>3, <2>1
  <2>3. \A j \in 1..Len(rows) : [table |-> table, row |-> rows[j]] \in T
    BY <2>1, <2>2 DEF RowsIn
  <2>4. PICK of : of = Of(f)
    OBVIOUS
  <2>5. of = [j \in 1..Len(rows) |-> [table |-> table, row |-> rows[j]]]
    BY <2>1, <2>2, <2>4
  <2> HIDE DEF T
  <2>6. of \in Seq(T) /\ Len(of) = Len(rows) /\ \A j \in 1..Len(rows) : of[j].table = table /\ of[j].row = rows[j]
    BY <2>2, <2>3, <2>5
  <2> QED
    BY <2>1, <2>4, <2>6
<1> HIDE DEF T, Of
<1>7. lists \in Seq(Seq(T)) /\ Len(lists) = n /\ \A i \in 1..n : lists[i] = Of(sorted[i])
  BY <1>1, <1>6
<1> HIDE DEF lists
<1>8. PICK at : IsPlaces(at, lists, events)
  BY <1>5, <1>7, FlattenPlaces
<1>9. Len(events) \in Nat
  <2>1. FlattenSeq(lists) \in Seq(T)
    BY <1>7, FlattenType
  <2>2. events \in Seq(T)
    BY <1>5, <2>1
  <2> QED
    BY <2>2
<1>10. ASSUME NEW x \in 1..Len(events)
       PROVE  \E i \in 1..n : \E f \in DOMAIN files : \E j \in 1..Len(files[f].rows) :
                 /\ at[x] = <<i, j>> /\ f = sorted[i]
                 /\ events[x].table = Tables[f[1][1]] /\ events[x].row = files[f].rows[j]
  <2>1. PICK i, j : at[x] = <<i, j>> /\ i = at[x][1] /\ j = at[x][2]
    BY <1>8 DEF IsPlaces
  <2>2. i \in 1..n /\ j \in 1..Len(lists[i]) /\ events[x] = lists[i][j]
    BY <1>7, <1>8, <2>1 DEF IsPlaces
  <2>3. PICK f \in DOMAIN files : f = sorted[i] /\ lists[i] = Of(f)
    BY <1>1, <1>7, <2>2
  <2>4. j \in 1..Len(files[f].rows) /\ events[x].table = Tables[f[1][1]] /\ events[x].row = files[f].rows[j]
    BY <1>6, <2>2, <2>3
  <2> QED
    BY <2>1, <2>2, <2>3, <2>4
<1> DEFINE from == [x \in 1..Len(events) |-> Chosen(sorted[at[x][1]])[at[x][2]]]
<1>11. ASSUME NEW x \in 1..Len(events), NEW i \in 1..n, NEW j, at[x] = <<i, j>>
       PROVE  from[x] = Chosen(sorted[i])[j]
  BY <1>11
<1> HIDE DEF from
<1>12. ASSUME NEW x \in 1..Len(events)
       PROVE  /\ from[x] \in Places(recs)
              /\ events[x].table = TableAt(recs, from[x]) /\ events[x].row = RowAt(recs, from[x])
  <2>1. PICK i, f, j :
                 /\ i \in 1..n /\ f \in DOMAIN files /\ j \in 1..Len(files[f].rows)
                 /\ at[x] = <<i, j>> /\ f = sorted[i]
                 /\ events[x].table = Tables[f[1][1]] /\ events[x].row = files[f].rows[j]
    BY <1>10
  <2>2. from[x] = Chosen(f)[j]
    BY <1>11, <2>1
  <2>3. from[x] \in PlacesOf(recs, f[1]) /\ files[f].rows[j] = RowAt(recs, from[x])
    BY <1>4, <2>1, <2>2
  <2>4. from[x] \in Places(recs) /\ KeyAt(recs, from[x]) = f[1]
    BY <2>3 DEF PlacesOf
  <2>5. Tables[f[1][1]] = TableAt(recs, from[x])
    BY <2>4, PlaceKeys
  <2> QED
    BY <2>1, <2>3, <2>4, <2>5
<1>13. ASSUME NEW s \in Places(recs)
       PROVE  \E x \in 1..Len(events) : from[x] = s
  <2>1. PICK f \in DOMAIN files : f[1] = KeyAt(recs, s)
    BY DEF TreeOf
  <2>2. s \in PlacesOf(recs, f[1])
    BY <2>1 DEF PlacesOf
  <2>3. PICK j \in 1..Len(files[f].rows) : Chosen(f)[j] = s
    BY <1>4, <2>2 DEF Enumerates
  <2>4. PICK i \in 1..n : sorted[i] = f
    BY <1>1
  <2>5. i \in 1..Len(lists) /\ j \in 1..Len(lists[i])
    BY <1>6, <1>7, <2>4
  <2>6. PICK x \in 1..Len(events) : at[x] = <<i, j>>
    BY <1>8, <2>5 DEF IsPlaces
  <2>7. from[x] = Chosen(sorted[i])[j]
    BY <1>11, <2>6
  <2> QED
    BY <2>3, <2>4, <2>7
<1>14. ASSUME NEW x \in 1..Len(events), NEW y \in 1..Len(events), from[x] = from[y]
       PROVE  x = y
  <2>1. PICK i, f, j :
                 /\ i \in 1..n /\ f \in DOMAIN files /\ j \in 1..Len(files[f].rows)
                 /\ at[x] = <<i, j>> /\ f = sorted[i]
    BY <1>10
  <2>2. PICK k, g, l :
                 /\ k \in 1..n /\ g \in DOMAIN files /\ l \in 1..Len(files[g].rows)
                 /\ at[y] = <<k, l>> /\ g = sorted[k]
    BY <1>10
  <2>3. from[x] = Chosen(f)[j] /\ from[y] = Chosen(g)[l]
    BY <1>11, <2>1, <2>2
  <2>4. Chosen(f)[j] \in PlacesOf(recs, f[1]) /\ Chosen(g)[l] \in PlacesOf(recs, g[1])
    BY <1>4, <2>1, <2>2
  <2>5. f[1] = g[1] /\ from[x] \in Places(recs) /\ f[1] = KeyAt(recs, from[x])
    BY <1>14, <2>3, <2>4 DEF PlacesOf
  <2>6. f = g
    <3>1. PICK key : key = KeyAt(recs, from[x])
      OBVIOUS
    <3>2. PICK file : {h \in DOMAIN files : h[1] = key} = {file}
      BY <2>5, <3>1 DEF TreeOf
    <3>3. f \in DOMAIN files /\ f[1] = key /\ g \in DOMAIN files /\ g[1] = key
      BY <2>1, <2>2, <2>5, <3>1
    <3> QED
      BY ONLY <3>2, <3>3
  <2>7. j = l
    <3>1. /\ f \in DOMAIN files /\ j \in 1..Len(files[f].rows) /\ l \in 1..Len(files[f].rows)
          /\ Chosen(f)[j] = Chosen(f)[l]
      BY <1>14, <2>1, <2>2, <2>3, <2>6
    <3>2. \A u, v \in 1..Len(files[f].rows) : Chosen(f)[u] = Chosen(f)[v] => u = v
      BY <1>4, <3>1
    <3> QED
      BY ONLY <3>1, <3>2
  <2>8. i = k
    BY <1>2, <2>1, <2>2, <2>6
  <2>9. at[x] = at[y]
    BY <2>1, <2>2, <2>7, <2>8
  <2> QED
    BY <1>8, <1>9, <2>9, PlacesDiffer
<1>15. from \in [1..Len(events) -> Places(recs)]
  <2>1. from = [x \in 1..Len(events) |-> from[x]]
    BY DEF from
  <2> QED
    BY <1>12, <2>1
<1>16. Enumerates(from, Len(events), Places(recs))
  BY <1>9, <1>13, <1>14, <1>15 DEF Enumerates
<1> QED
  BY <1>12, <1>16

-----------------------------------------------------------------------------
\* The key of an event is its place, counted from zero.
LEMMA PlaceIsKey ==
    ASSUME NEW recs, AllTaken(recs), \A i \in 1..Len(recs) : recs[i].seq = i - 1,
           NEW s \in Places(recs)
    PROVE  KeyOf(TableAt(recs, s), RowAt(recs, s)) = <<s[1] - 1, s[2] - 1>>
<1>1. PICK r, j : r = recs[s[1]] /\ j = s[2]
  OBVIOUS
<1>2. Taken(r) /\ j \in DOMAIN RowsOf(r) /\ r.seq = s[1] - 1
  BY <1>1 DEF Places, AllTaken
<1>3. KeyOf(TableOf(r.channel), RowsOf(r)[j]) = <<r.seq, j - 1>>
  BY <1>2, RowKeys
<1> QED
  BY <1>1, <1>2, <1>3 DEF TableAt, RowAt

\* The places of what the records say, in order.
LEMMA ToldPlaces ==
    ASSUME NEW recs \in Seq(AllRecords), AllTaken(recs), NEW told, told = Told(recs)
    PROVE  /\ Len(told) \in Nat /\ told = [p \in 1..Len(told) |-> told[p]]
           /\ \E at : /\ Enumerates(at, Len(told), Places(recs))
                      /\ \A p, q \in 1..Len(told) : p < q <=> Precedes(at[p], at[q])
                      /\ \A p \in 1..Len(told) :
                            told[p] = [table |-> TableAt(recs, at[p]), row |-> RowAt(recs, at[p])]
<1> DEFINE lists == [i \in DOMAIN recs |-> EventsOf(recs[i])]
           T == EventsIn(AllRecords)
<1>1. PICK n \in Nat : n = Len(recs) /\ DOMAIN recs = 1..n /\ \A i \in 1..n : recs[i] \in AllRecords
  OBVIOUS
<1>2. lists \in Seq(Seq(T)) /\ Len(lists) = n /\ \A i \in 1..n : lists[i] = EventsOf(recs[i])
  <2>1. \A i \in 1..n : EventsOf(recs[i]) \in Seq(T)
    BY <1>1, EventsOfType DEF AllTaken
  <2> HIDE DEF T
  <2> QED
    BY <1>1, <2>1
<1>3. told = FlattenSeq(lists)
  BY DEF Told
<1>4. ASSUME NEW i \in 1..n
      PROVE  /\ 1..Len(lists[i]) = DOMAIN RowsOf(recs[i])
             /\ \A j \in DOMAIN RowsOf(recs[i]) :
                   lists[i][j] = [table |-> TableOf(recs[i].channel), row |-> RowsOf(recs[i])[j]]
  <2>1. PICK rows, table : rows = RowsOf(recs[i]) /\ table = TableOf(recs[i].channel)
    OBVIOUS
  <2>2. Len(rows) \in Nat /\ DOMAIN rows = 1..Len(rows)
    BY <1>1, <2>1, EventsOfType, ListType DEF AllTaken
  <2>3. PICK list : list = lists[i]
    OBVIOUS
  <2>4. list = [j \in 1..Len(rows) |-> [table |-> table, row |-> rows[j]]]
    BY <1>2, <2>1, <2>2, <2>3 DEF EventsOf
  <2>5. Len(list) = Len(rows) /\ \A j \in 1..Len(rows) : list[j] = [table |-> table, row |-> rows[j]]
    BY <2>2, <2>4
  <2> QED
    BY <2>1, <2>2, <2>3, <2>5
<1> HIDE DEF lists, T
<1>5. PICK at : IsPlaces(at, lists, told)
  BY <1>2, <1>3, FlattenPlaces
<1>6. Len(told) \in Nat /\ told = [p \in 1..Len(told) |-> told[p]]
  <2>1. FlattenSeq(lists) \in Seq(T)
    BY <1>2, FlattenType
  <2>2. told \in Seq(T)
    BY <1>3, <2>1
  <2> QED
    BY <2>2
<1>7. ASSUME NEW p \in 1..Len(told)
      PROVE  /\ at[p] \in Places(recs)
             /\ told[p] = [table |-> TableAt(recs, at[p]), row |-> RowAt(recs, at[p])]
  <2>1. PICK i, j : i = at[p][1] /\ j = at[p][2]
    OBVIOUS
  <2>2. at[p] \in Nat \X Nat /\ i \in 1..n /\ j \in 1..Len(lists[i]) /\ told[p] = lists[i][j]
    BY <1>2, <1>5, <2>1 DEF IsPlaces
  <2>3. j \in DOMAIN RowsOf(recs[i])
        /\ told[p] = [table |-> TableOf(recs[i].channel), row |-> RowsOf(recs[i])[j]]
    BY <1>4, <2>2
  <2> QED
    BY <1>1, <2>1, <2>2, <2>3 DEF Places, TableAt, RowAt
<1>8. \A s \in Places(recs) : \E p \in 1..Len(told) : at[p] = s
  <2> SUFFICES ASSUME NEW s \in Places(recs)
      PROVE  \E p \in 1..Len(told) : at[p] = s
    OBVIOUS
  <2>1. PICK i, j : s = <<i, j>> /\ i = s[1] /\ j = s[2]
    BY DEF Places
  <2>2. i \in 1..n /\ j \in DOMAIN RowsOf(recs[i])
    BY <1>1, <2>1 DEF Places
  <2>3. i \in 1..Len(lists) /\ j \in 1..Len(lists[i])
    BY <1>2, <1>4, <2>2
  <2> QED
    BY <1>5, <2>1, <2>3 DEF IsPlaces
<1>9. \A p, q \in 1..Len(told) : at[p] = at[q] => p = q
  BY <1>5, <1>6, PlacesDiffer
<1>10. at \in [1..Len(told) -> Places(recs)]
  BY <1>5, <1>7 DEF IsPlaces
<1>11. Enumerates(at, Len(told), Places(recs))
  BY <1>6, <1>8, <1>9, <1>10 DEF Enumerates
<1>12. \A p, q \in 1..Len(told) : p < q <=> Precedes(at[p], at[q])
  BY <1>5 DEF IsPlaces
<1> QED
  BY <1>6, <1>7, <1>11, <1>12

\* What comes first of two events is what is at the first place of two.
LEMMA EventsInPlace ==
    ASSUME NEW recs, AllTaken(recs), \A i \in 1..Len(recs) : recs[i].seq = i - 1,
           NEW events, NEW from, Enumerates(from, Len(events), Places(recs)),
           \A x \in 1..Len(events) : /\ events[x].table = TableAt(recs, from[x])
                                     /\ events[x].row = RowAt(recs, from[x]),
           NEW x \in 1..Len(events), NEW y \in 1..Len(events)
    PROVE  EventOrder(events, x, y) => Precedes(from[x], from[y])
<1> DEFINE s == from[x]
           u == from[y]
<1>1. s \in Places(recs) /\ u \in Places(recs) /\ (s = u => x = y) /\ Len(events) \in Nat
  BY DEF Enumerates
<1>2. /\ KeyOf(events[x].table, events[x].row) = <<s[1] - 1, s[2] - 1>>
      /\ KeyOf(events[y].table, events[y].row) = <<u[1] - 1, u[2] - 1>>
  BY <1>1, PlaceIsKey
<1> HIDE DEF s, u
<1>3. /\ s[1] \in Nat /\ s[2] \in Nat /\ u[1] \in Nat /\ u[2] \in Nat
      /\ s = <<s[1], s[2]>> /\ u = <<u[1], u[2]>>
  BY <1>1 DEF Places
<1> SUFFICES ASSUME EventOrder(events, x, y)
    PROVE  Precedes(s, u)
  BY DEF s, u
<1>4. \/ s[1] - 1 < u[1] - 1
      \/ s[1] - 1 = u[1] - 1 /\ s[2] - 1 < u[2] - 1
      \/ s[1] - 1 = u[1] - 1 /\ s[2] - 1 = u[2] - 1 /\ x < y
  BY <1>2 DEF EventOrder
<1>5. CASE s[1] - 1 = u[1] - 1 /\ s[2] - 1 = u[2] - 1 /\ x < y
  <2>1. s = u
    BY <1>3, <1>5
  <2> QED
    BY <1>1, <1>5, <2>1
<1> QED
  BY <1>3, <1>4, <1>5 DEF Precedes

\* Sorted, the rows of the tree are what the records say, in the order of the capture.
LEMMA TreeInOrder ==
    ASSUME NEW recs \in Seq(AllRecords), AllTaken(recs), \A i \in 1..Len(recs) : recs[i].seq = i - 1,
           NEW files, TreeOf(files, recs)
    PROVE  SortedEvents(TreeRows(files)) = Told(recs)
<1>1. PICK events, told : events = TreeRows(files) /\ told = Told(recs)
  OBVIOUS
<1>2. PICK T : T = RowsIn(files)
  OBVIOUS
<1>3. PICK n \in Nat : n = Len(events) /\ events \in Seq(T) /\ \A x \in 1..n : events[x] \in T
  <2>1. events \in Seq(T)
    BY <1>1, <1>2, TreeRowsType DEF TreeOf
  <2> QED
    BY <2>1
<1>4. \A e \in T : /\ e.row.seq \in Int /\ KeyOf(e.table, e.row)[2] \in Int
                   /\ e = [table |-> e.table, row |-> e.row]
  BY <1>2, RowsInSit DEF TreeOf
<1>5. PICK order \in [1..n -> 1..n] :
          /\ SortedEvents(events) = [i \in 1..n |-> events[order[i]]]
          /\ \A x \in 1..n : \E i \in 1..n : order[i] = x
          /\ \A i, j \in 1..n : i < j <=> EventOrder(events, order[i], order[j])
  <2>1. PICK order \in [1..Len(events) -> 1..Len(events)] :
          /\ SortedEvents(events) = [i \in 1..Len(events) |-> events[order[i]]]
          /\ \A x \in 1..Len(events) : \E i \in 1..Len(events) : order[i] = x
          /\ \A i, j \in 1..Len(events) : i < j <=> EventOrder(events, order[i], order[j])
    BY <1>3, <1>4, EventsSorted
  <2> QED
    BY <1>3, <2>1
<1>6. PICK from : /\ Enumerates(from, n, Places(recs))
                  /\ \A x \in 1..n : /\ events[x].table = TableAt(recs, from[x])
                                     /\ events[x].row = RowAt(recs, from[x])
  BY <1>1, <1>3, TreePlaces, SMTT(60)
<1>7. PICK m \in Nat : m = Len(told) /\ told = [p \in 1..m |-> told[p]]
  BY <1>1, ToldPlaces
<1>8. PICK at : /\ Enumerates(at, m, Places(recs))
                /\ \A p, q \in 1..m : p < q <=> Precedes(at[p], at[q])
                /\ \A p \in 1..m : told[p] = [table |-> TableAt(recs, at[p]), row |-> RowAt(recs, at[p])]
  BY <1>1, <1>7, ToldPlaces
<1> DEFINE f == [i \in 1..n |-> CHOOSE p \in 1..m : at[p] = from[order[i]]]
<1>9. ASSUME NEW i \in 1..n
      PROVE  f[i] \in 1..m /\ at[f[i]] = from[order[i]]
  <2>1. from[order[i]] \in Places(recs)
    BY <1>6 DEF Enumerates
  <2>2. \E p \in 1..m : at[p] = from[order[i]]
    BY <1>8, <2>1 DEF Enumerates
  <2> QED
    BY <2>2
<1>10. f \in [1..n -> 1..m]
  BY <1>9
<1> HIDE DEF f
<1>11. ASSUME NEW i \in 1..n, NEW j \in 1..n, i < j
       PROVE  f[i] < f[j]
  <2>1. EventOrder(events, order[i], order[j])
    BY <1>5, <1>11
  <2>2. Precedes(from[order[i]], from[order[j]])
    <3>1. PICK x \in 1..n, y \in 1..n : x = order[i] /\ y = order[j]
      OBVIOUS
    <3>2. EventOrder(events, x, y) => Precedes(from[x], from[y])
      BY <1>3, <1>6, EventsInPlace
    <3> QED
      BY <2>1, <3>1, <3>2
  <2>3. Precedes(at[f[i]], at[f[j]])
    BY <1>9, <2>2
  <2> QED
    BY <1>8, <1>9, <2>3
<1>12. ASSUME NEW p \in 1..m
       PROVE  \E i \in 1..n : f[i] = p
  <2>1. at[p] \in Places(recs)
    BY <1>8 DEF Enumerates
  <2>2. PICK x \in 1..n : from[x] = at[p]
    BY <1>6, <2>1 DEF Enumerates
  <2>3. PICK i \in 1..n : order[i] = x
    BY <1>5
  <2>4. at[f[i]] = at[p] /\ f[i] \in 1..m
    BY <1>9, <2>2, <2>3
  <2>5. f[i] = p
    BY <1>8, <2>4 DEF Enumerates
  <2> QED
    BY <2>5
<1>13. n = m /\ \A i \in 1..n : f[i] = i
  <2>1. CountsUp(f, n, m)
    BY <1>10, <1>11, <1>12 DEF CountsUp
  <2> QED
    BY <2>1, OntoInOrderIsIdentity
<1>14. ASSUME NEW i \in 1..n
       PROVE  events[order[i]] = told[i]
  <2>1. PICK x \in 1..n : x = order[i]
    OBVIOUS
  <2>2. at[i] = from[x]
    BY <1>9, <1>13, <2>1
  <2>3. events[x] = [table |-> TableAt(recs, from[x]), row |-> RowAt(recs, from[x])]
    BY <1>3, <1>4, <1>6
  <2> QED
    BY <1>8, <1>13, <2>1, <2>2, <2>3
<1>15. [i \in 1..n |-> events[order[i]]] = [i \in 1..n |-> told[i]]
  BY <1>14
<1> QED
  BY <1>1, <1>5, <1>7, <1>13, <1>15

-----------------------------------------------------------------------------
\* What the present run has published is of the present capture.
FreshInv == \A file \in DOMAIN parts : parts[file].run = runs => parts[file].of = capture

\* A part of a run is published while its capture is, and a run starts without parts.
LEMMA FreshStep ==
    ASSUME PublishInv, FreshInv, [Next]_vars
    PROVE  FreshInv'
<1>1. CASE Publish
  <2>1. PICK key : LET file == <<key, writers[key]>>
                   IN  parts' = With(parts, file, [rows |-> staging[file], of |-> capture, run |-> runs])
    BY <1>1 DEF Publish
  <2> DEFINE file == <<key, writers[key]>>
  <2>2. /\ DOMAIN parts' = DOMAIN parts \cup {file} /\ parts'[file].of = capture
        /\ \A f \in DOMAIN parts : f # file => parts'[f] = parts[f]
    BY <2>1 DEF With
  <2>3. UNCHANGED <<capture, runs>>
    BY <1>1 DEF Publish
  <2> HIDE DEF file
  <2> QED
    BY <2>2, <2>3 DEF FreshInv
<1>2. CASE Rerun
  <2>1. parts' = parts /\ runs' = runs + 1
    BY <1>2 DEF Rerun
  <2>2. \A file \in DOMAIN parts : parts[file].run # runs'
    BY <2>1 DEF PublishInv
  <2> QED
    BY <2>1, <2>2 DEF FreshInv
<1>3. CASE ~Publish /\ ~Rerun
  <2>1. UNCHANGED <<parts, runs, capture>>
    BY <1>3 DEF Next, Process, Start, ReadChunk, RefuseChunk, FlushGroup, FlushFails, ChunkDone, Judge,
            AbortWriter, Aborted, PublishFails, Published, Crash, vars
  <2> QED
    BY <2>1 DEF FreshInv
<1> QED
  BY <1>1, <1>2, <1>3

\* The records of a capture that both replays take.
LEMMA ComparableRecords ==
    ASSUME StreamInv, Comparable
    PROVE  /\ Records(capture) \in Seq(AllRecords) /\ AllTaken(Records(capture))
           /\ \A i \in 1..Len(Records(capture)) : Records(capture)[i].seq = i - 1
           /\ \A i \in 1..Len(Records(capture)) : Records(capture)[i].ts_exchange = None
<1>1. PICK recs : recs = Records(capture)
  OBVIOUS
<1>2. recs \in Seq(AllRecords)
  <2>1. capture \in Captures /\ Len(capture.chunks) \in 0..Len(capture.chunks)
    BY ChunkRecords DEF StreamInv
  <2> QED
    BY <1>1, <2>1, PrefixGrows
<1>3. DOMAIN recs = 1..Len(recs) /\ \A i \in 1..Len(recs) : recs[i] \in AllRecords
  BY <1>2
<1>4. \A i \in DOMAIN recs :
         /\ recs[i].synthetic => TableOf(recs[i].channel) # None
         /\ recs[i].ts_exchange = None /\ recs[i].seq = i - 1 /\ ~BadMarker(recs[i])
  BY <1>1 DEF Comparable, Kept, RefusesCapture
<1>5. AllTaken(recs)
  BY <1>3, <1>4, AllRecordsAreRecords DEF AllTaken, Taken
<1> QED
  BY <1>1, <1>2, <1>3, <1>4, <1>5

\* What a run into a fresh directory has published is a tree of its capture.
LEMMA PublishedTree ==
    ASSUME StreamInv, PublishInv, TreeInv, FreshInv, Comparable
    PROVE  TreeOf(parts, Records(capture))
<1>1. PICK recs : recs = Records(capture)
  OBVIOUS
<1>2. recs \in Seq(AllRecords) /\ AllTaken(recs)
  BY <1>1, ComparableRecords
<1>3. IsTree(parts)
  BY PartsAreTree DEF PublishInv
<1>4. ASSUME NEW f \in DOMAIN parts
      PROVE  parts[f].rows = RowsWith(TaggedIn(Tables[f[1][1]], recs), f[1])
  <2>1. parts[f].of = capture
    BY DEF FreshInv, Comparable
  <2> QED
    BY <1>1, <2>1 DEF PublishInv, PartsAreWhole, RowsFor, TaggedRows
<1>5. ASSUME NEW s \in Places(recs)
      PROVE  \E file : {f \in DOMAIN parts : f[1] = KeyAt(recs, s)} = {file}
  <2>1. PICK key, t : key = KeyAt(recs, s) /\ t = TableAt(recs, s) /\ t \in TableNames
    BY <1>2, PlaceKeys
  <2>2. PICK tagged : tagged = TaggedIn(t, recs)
    OBVIOUS
  <2>3. PICK from : /\ Enumerates(from, Len(tagged), PlacesIn(recs, t))
                    /\ \A x \in 1..Len(tagged) : /\ tagged[x].key = KeyAt(recs, from[x])
                                                 /\ tagged[x].row = RowAt(recs, from[x])
    BY <1>2, <2>1, <2>2, TaggedPlaces
  <2>4. PICK x \in 1..Len(tagged) : from[x] = s
    BY <2>1, <2>3 DEF Enumerates, PlacesIn
  <2>5. DOMAIN tagged = 1..Len(tagged)
    <3>1. tagged \in Seq(TagsAt(t))
      BY <1>2, <2>1, <2>2, TagsAtAreTags, TaggedInType
    <3> QED
      BY <3>1
  <2>6. key \in KeysIn(tagged)
    BY <2>1, <2>3, <2>4, <2>5 DEF KeysIn
  <2>7. key \in KeysOf(capture)
    BY <1>1, <2>1, <2>2, <2>6 DEF KeysOf, TaggedRows
  <2>8. pc = "ok" /\ key \notin DOMAIN writers
    BY DEF Comparable, PublishInv
  <2>9. PICK file : Mine(key) = {file}
    BY <2>7, <2>8 DEF PublishInv
  <2>10. Mine(key) = {f \in DOMAIN parts : f[1] = key}
    BY DEF Mine, Comparable
  <2> QED
    BY <2>1, <2>9, <2>10
<1> QED
  BY <1>1, <1>3, <1>4, <1>5 DEF TreeOf

\* A strategy cannot tell the replay of a published tree from that of its capture, but by
\* Bybit's snapshots: the same calls, with the same clock, in the same order, however the
\* rows were cut into chunks and spread over tables and days.
THEOREM ReplaysAgreeTheorem == Spec => []ReplaysAgree
<1>1. Init => FreshInv
  BY DEF Init, FreshInv
<1>2. PublishInv /\ FreshInv /\ [Next]_vars => FreshInv'
  BY FreshStep
<1>3. StreamInv /\ PublishInv /\ TreeInv /\ FreshInv => ReplaysAgree
  <2> SUFFICES ASSUME StreamInv, PublishInv, TreeInv, FreshInv, Comparable
      PROVE  /\ ~RefusesTree(parts)
             /\ NormalizedReplay(parts) = Once(RawReplay(capture))
    BY DEF ReplaysAgree, Once
  <2>1. DOMAIN parts # {}
    <3>1. parts # <<>>
      BY DEF Comparable
    <3>2. parts = [file \in DOMAIN parts |-> parts[file]]
      BY DEF TreeInv
    <3> QED
      BY ONLY <3>1, <3>2
  <2>2. ~RefusesTree(parts)
    BY <2>1, PartsAreTree, TreeIsRead DEF PublishInv
  <2>3. PICK recs : recs = Records(capture)
    OBVIOUS
  <2>4. /\ recs \in Seq(AllRecords) /\ AllTaken(recs)
        /\ \A i \in 1..Len(recs) : recs[i].seq = i - 1
        /\ \A i \in 1..Len(recs) : recs[i].ts_exchange = None
    BY <2>3, ComparableRecords
  <2>5. PICK told : told = Told(recs) /\ SortedEvents(TreeRows(parts)) = told
    BY <2>3, <2>4, PublishedTree, TreeInOrder
  <2>6. NormalizedReplay(parts) = FlattenSeq([i \in DOMAIN told |-> ReadRow(told[i].table, told[i].row)])
    BY <2>5 DEF NormalizedReplay
  <2>7. RawReplay(capture) = FlattenSeq([i \in DOMAIN recs |-> FeedRecord(recs[i])])
    BY <2>3 DEF RawReplay
  <2>8. PICK R : Untimed(R) /\ recs \in Seq(R)
    <3> DEFINE R == {r \in AllRecords : Taken(r) /\ r.ts_exchange = None}
    <3>1. \A i \in 1..Len(recs) : recs[i] \in R
      BY <2>4 DEF AllTaken
    <3>2. recs \in Seq(R)
      BY <2>4, <3>1
    <3>3. Untimed(R)
      BY DEF Untimed
    <3> QED
      BY <3>2, <3>3
  <2>9. FlattenSeq([i \in DOMAIN told |-> ReadRow(told[i].table, told[i].row)])
            = Once(FlattenSeq([i \in DOMAIN recs |-> FeedRecord(recs[i])]))
    BY <2>5, <2>8, RoadsAgree
  <2> QED
    BY <2>2, <2>6, <2>7, <2>9
<1> QED
  BY <1>1, <1>2, <1>3, StreamInvariant, PublishInvariant, TreeInvariant, PTL DEF Spec
=============================================================================
