------------------------------- MODULE Readers -------------------------------
(***************************************************************************)
(* A reader of a capture directory beside the capture that writes it: the  *)
(* gates that replay (crates/astra-replay/src/replay.rs), reconstruct and  *)
(* verify (crates/astra-record/src/reconstruct.rs and compare.rs) and      *)
(* normalize put between the disk and what they do with a record.  The     *)
(* manifest is read first, then the index, then chunk after chunk; the     *)
(* count is judged last, when the records are already delivered.  Nothing  *)
(* locks the directory, so between any two of these steps the capture may  *)
(* go on, stop, die or be started again.                                   *)
(***************************************************************************)
EXTENDS Check

VARIABLE reader
\* stage     what it does next, or how it ended
\* session   whose directory it reads
\* manifest  the manifest it has read
\* index     the index it has read
\* chunks    chunks it has verified and delivered

readersVars == <<vars, reader>>

NoReader == [stage |-> "none", session |-> 1, manifest |-> None, index |-> <<>>, chunks |-> 0]

\* What reading a file gives while the capture may be inside a write of it.
BeingWritten(s, file) ==
    Running /\ todo # <<>> /\ Head(todo).session = s /\ Head(todo).file = file
Seen(s, file, content) == {content} \cup (IF BeingWritten(s, file) THEN {Torn} ELSE {})

Turn(stage) == reader.stage = stage /\ UNCHANGED vars
Refuse == reader' = [reader EXCEPT !.stage = "refused"]

-----------------------------------------------------------------------------
BeginReading ==
    /\ Turn("none")
    /\ \E s \in Sessions : reader' = [reader EXCEPT !.stage = "manifest", !.session = s]

\* read_manifest: missing or torn, the directory is refused before anything else.
ReadManifest ==
    /\ Turn("manifest")
    /\ \E m \in Seen(reader.session, "manifest", disk[reader.session].manifest) :
          IF Whole(m) THEN reader' = [reader EXCEPT !.stage = "index", !.manifest = m] ELSE Refuse

\* read_index: missing, it is empty.
ReadIndexFile ==
    /\ Turn("index")
    /\ \E i \in Seen(reader.session, "index", disk[reader.session].index) :
          IF i = Torn
          THEN Refuse
          ELSE reader' = [reader EXCEPT !.stage = "chunks", !.index = IF i = None THEN <<>> ELSE i]

\* verify_chunk and read_chunk: the file is there, and has the hash of its entry.
Intact(n) ==
    LET chunks == disk[reader.session].chunks
    IN  n \in DOMAIN chunks /\ chunks[n] = reader.index[n]

\* The records of the first n chunks of the index.
Delivered(n) == FlattenSeq(SubSeq(reader.index, 1, n))

\* The loop of replay: sequence numbers count from zero, across chunks.
InSequence(n) == \A i \in DOMAIN Delivered(n) : Delivered(n)[i].seq = i - 1

DeliverChunk ==
    /\ Turn("chunks")
    /\ reader.chunks < Len(reader.index)
    /\ IF Intact(reader.chunks + 1) /\ InSequence(reader.chunks + 1)
       THEN reader' = [reader EXCEPT !.chunks = @ + 1]
       ELSE Refuse

VenueFrames ==
    LET delivered == Delivered(reader.chunks)
    IN  Cardinality({i \in DOMAIN delivered : delivered[i].kind = "frame"})

\* Mutant of CountHolds: a capture still in progress cannot be held to its count.
CountHolds_once_final == reader.manifest.stop = "in_progress" \/ VenueFrames = reader.manifest.frames

CountHolds == VenueFrames = reader.manifest.frames

EndOfStream ==
    /\ Turn("chunks")
    /\ reader.chunks = Len(reader.index)
    /\ IF CountHolds THEN reader' = [reader EXCEPT !.stage = "ok"] ELSE Refuse

Read == BeginReading \/ ReadManifest \/ ReadIndexFile \/ DeliverChunk \/ EndOfStream

ReadersInit == Init /\ reader = NoReader
ReadersNext == (Next /\ UNCHANGED reader) \/ Read
ReadersSpec == ReadersInit /\ [][ReadersNext]_readersVars

-----------------------------------------------------------------------------
\* A reader that accepts a directory with any frame in it has delivered the whole
\* stream, though it read three kinds of file at different moments and the capture
\* ran on in between; and one that ends in an error has delivered nothing but the
\* beginning of what the capture recorded, whatever chunk it was stopped at.
ReadIsTrue ==
    LET delivered == Summary(Delivered(reader.chunks))
        stream == Annotated(received[reader.session])
    IN  /\ reader.stage # "none" => IsPrefix(delivered, stream)
        /\ reader.stage = "ok" /\ VenueFrames > 0 => delivered = stream
=============================================================================
