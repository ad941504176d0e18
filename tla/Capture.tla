------------------------------- MODULE Capture -------------------------------
(***************************************************************************)
(* run_capture of crates/astra-record/src/capture.rs with the ChunkWriter  *)
(* of store.rs under it: one process reads venue frames from a socket and  *)
(* records them, for one primary session and any number of fanout sessions *)
(* (a directory each), until it is interrupted, reaches a limit or runs    *)
(* out of reconnects.                                                      *)
(*                                                                         *)
(* What a step of the program writes to disk is queued in todo and carried *)
(* out one file at a time before the next step, so the process can die     *)
(* before, between and inside writes: fs::write truncates the file and     *)
(* then fills it, so a file caught inside is torn.  A dead or finished     *)
(* capture may be started again on the same directories.                   *)
(***************************************************************************)
EXTENDS Integers, Sequences, SequencesExt

CONSTANTS
    NumSessions,      \* the primary (session 1) and its fanouts
    Frames,           \* Frames[s]: the frames the venue may send to session s
    NoSpan,           \* update_span of a frame that carries no update id
    Cut,              \* in received: one connection ended, the next began
    MaxId,            \* u64::MAX
    RecordsPerChunk,  \* RECORDS_PER_CHUNK
    MaxFrames,        \* options.max_frames, or None
    HasDuration,      \* options.duration is set
    MaxReconnects,    \* options.max_reconnects
    MaxReads,         \* bound on the frames read in a run
    MaxRuns,          \* bound on the runs on one set of directories
    None,             \* Option::None; a file that does not exist
    Torn              \* a file whose writing was cut short

Sessions == 1..NumSessions
Ids == 0..MaxId
Span == [first : Ids, last : Ids]

ASSUME CaptureAssumption ==
    /\ NumSessions \in Nat \ {0}
    /\ MaxId \in Nat
    /\ NoSpan \notin Span /\ Cut \notin Span /\ Cut # NoSpan
    /\ Frames \in [Sessions -> SUBSET (Span \cup {NoSpan})]
    /\ RecordsPerChunk \in Nat \ {0}
    /\ MaxFrames \in Nat \cup {None}
    /\ HasDuration \in BOOLEAN
    /\ MaxReconnects \in Nat
    /\ MaxReads \in Nat
    /\ MaxRuns \in Nat
    /\ None \notin Nat /\ None # Torn

VARIABLES
    pc,           \* where the process is
    session,      \* the session it opens or finishes next
    todo,         \* writes of the current step still to be carried out
    mem,          \* mem[s]: the Session in memory
    disk,         \* disk[s]: its directory
    reason,       \* the disconnect being handled, then the stop reason
    reconnects,   \* reconnects_used
    interrupted,  \* the flag the signal handler sets
    elapsed,      \* the duration is over
    unknown,      \* unknown.count
    reads,        \* frames read in this run
    runs,         \* runs started
    received      \* observer: what the venue sent session s, and the Cuts in it

files == <<todo, disk>>
environment == <<interrupted, elapsed, runs>>
vars == <<pc, session, mem, reason, reconnects, unknown, reads, received, files, environment>>

-----------------------------------------------------------------------------
\* A Session as Session::open makes it, over what ChunkWriter::open finds indexed.
FreshSession(index) ==
    [seq |-> 0, frames |-> 0, connection_gaps |-> 0,         \* CaptureState
     previous_last |-> None, checked |-> 0, gaps |-> 0,      \* SequenceTracker
     buffer |-> <<>>, closed |-> index]                      \* ChunkWriter

\* One record.  A gap marker is told apart from a frame by its flags, and a
\* continuity gap from a connection gap by its reason.
FrameRecord(seq, span) == [seq |-> seq, kind |-> "frame", span |-> span]
GapRecord(seq, kind) == [seq |-> seq, kind |-> kind, span |-> NoSpan]

\* The directory of a session.  index.json lists the chunks by the hash of
\* their contents; the hash is modelled by the contents.
EmptyDirectory == [manifest |-> None, chunks |-> <<>>, index |-> None]

InProgress == [frames |-> 0, stop |-> "in_progress"]

ManifestWrite(s, m) == [file |-> "manifest", session |-> s, content |-> m]
ChunkWrite(s, n, c) == [file |-> "chunk", session |-> s, number |-> n, content |-> c]
IndexWrite(s, i) == [file |-> "index", session |-> s, content |-> i]

\* What a session's step made of it in memory, and the writes it ordered.
Step(m, writes) == [mem |-> m, writes |-> writes]

\* Mutant of CloseChunk: the index is rewritten before the chunk is on disk.
CloseChunk_index_first(s, m) ==
    IF m.buffer = <<>>
    THEN Step(m, <<>>)
    ELSE LET closed == Append(m.closed, m.buffer)
         IN  Step([m EXCEPT !.closed = closed, !.buffer = <<>>],
                  <<IndexWrite(s, closed), ChunkWrite(s, Len(closed), m.buffer)>>)

\* ChunkWriter::close_chunk: the chunk file, then the whole index again.
CloseChunk(s, m) ==
    IF m.buffer = <<>>
    THEN Step(m, <<>>)
    ELSE LET closed == Append(m.closed, m.buffer)
         IN  Step([m EXCEPT !.closed = closed, !.buffer = <<>>],
                  <<ChunkWrite(s, Len(closed), m.buffer), IndexWrite(s, closed)>>)

\* ChunkWriter::append and the sequence number its callers take next.
AppendRecord(s, m, record) ==
    LET added == [m EXCEPT !.buffer = Append(@, record), !.seq = @ + 1]
    IN  IF Len(added.buffer) >= RecordsPerChunk THEN CloseChunk(s, added) ELSE Step(added, <<>>)

AppendGap(s, m, kind) == AppendRecord(s, m, GapRecord(m.seq, kind))

\* SequenceTracker::check finds a gap: the strict test, saturating at MaxId.
SequenceGap(m, span) ==
    /\ span # NoSpan
    /\ m.previous_last # None
    /\ m.previous_last < MaxId
    /\ span.first # m.previous_last + 1

\* The tracker after check.
Tracked(m, span) ==
    IF span = NoSpan
    THEN m
    ELSE [m EXCEPT !.checked = @ + 1,
                   !.previous_last = span.last,
                   !.gaps = IF SequenceGap(m, span) THEN @ + 1 ELSE @]

\* Mutant of AppendFrame: the frame's number is read before its marker takes one.
AppendFrame_stale_seq(s, m, span) ==
    LET marked == IF SequenceGap(m, span)
                  THEN AppendGap(s, Tracked(m, span), "update_id_gap")
                  ELSE Step(Tracked(m, span), <<>>)
        added == AppendRecord(s, [marked.mem EXCEPT !.frames = @ + 1], FrameRecord(m.seq, span))
    IN  Step(added.mem, marked.writes \o added.writes)

\* append_frame: the marker of a gap goes in front of the frame that shows it.
AppendFrame(s, m, span) ==
    LET marked == IF SequenceGap(m, span)
                  THEN AppendGap(s, Tracked(m, span), "update_id_gap")
                  ELSE Step(Tracked(m, span), <<>>)
        added == AppendRecord(s, [marked.mem EXCEPT !.frames = @ + 1],
                              FrameRecord(marked.mem.seq, span))
    IN  Step(added.mem, marked.writes \o added.writes)

\* Mutant of MarkReconnect: the baseline survives the reconnect.
MarkReconnect_keeps_baseline(s, m) ==
    LET marked == AppendGap(s, m, "connection_gap")
    IN  Step([marked.mem EXCEPT !.connection_gaps = @ + 1], marked.writes)

\* A reconnect, for one session: the marker, the count, the fresh baseline.
MarkReconnect(s, m) ==
    LET marked == AppendGap(s, m, "connection_gap")
    IN  Step([marked.mem EXCEPT !.connection_gaps = @ + 1, !.previous_last = None],
             marked.writes)
-----------------------------------------------------------------------------
\* fs::write of one file, whole or cut short.
Written(d, w, content) ==
    CASE w.file = "manifest" -> [d EXCEPT !.manifest = content]
      [] w.file = "chunk"    -> [d EXCEPT !.chunks =
             [n \in DOMAIN d.chunks \cup {w.number} |->
                 IF n = w.number THEN content ELSE d.chunks[n]]]
      [] w.file = "index"    -> [d EXCEPT !.index = content]

\* Mutant of HasChunks: what is indexed counts, not what is there.
HasChunks_trusts_index(d) == d.index # None

\* has_chunks: any chunk file, torn or not.
HasChunks(d) == DOMAIN d.chunks # {}

\* read_index of a directory without index.json is empty.
ReadIndex(d) == IF d.index = None THEN <<>> ELSE d.index

Init ==
    /\ pc = "open"
    /\ session = 1
    /\ todo = <<>>
    /\ mem = [s \in Sessions |-> FreshSession(<<>>)]
    /\ disk = [s \in Sessions |-> EmptyDirectory]
    /\ reason = None
    /\ reconnects = 0
    /\ interrupted = FALSE
    /\ elapsed = FALSE
    /\ unknown = 0
    /\ reads = 0
    /\ runs = 1
    /\ received = [s \in Sessions |-> <<>>]

Running == pc \notin {"stopped", "dead"}

\* The process reaches its next step: the writes of the last one are done.
At(label) == pc = label /\ todo = <<>>

-----------------------------------------------------------------------------
\* Session::open, for the sessions in order.
OpenSession ==
    /\ At("open")
    /\ ~HasChunks(disk[session])
    /\ mem' = [mem EXCEPT ![session] = FreshSession(ReadIndex(disk[session]))]
    /\ received' = [received EXCEPT ![session] = <<>>]
    /\ todo' = <<ManifestWrite(session, InProgress)>>
    /\ IF session = NumSessions
       THEN pc' = "connect" /\ UNCHANGED session
       ELSE session' = session + 1 /\ UNCHANGED pc
    /\ UNCHANGED <<disk, reason, reconnects, unknown, reads, environment>>

\* CaptureExists: the sessions opened before this one stay as they are.
RefuseSession ==
    /\ At("open")
    /\ HasChunks(disk[session])
    /\ pc' = "dead"
    /\ UNCHANGED <<session, mem, reason, reconnects, unknown, reads, received, files, environment>>

\* open_connection comes back with a socket.
Connect ==
    /\ At("connect")
    /\ pc' = "top"
    /\ UNCHANGED <<session, mem, reason, reconnects, unknown, reads, received, files, environment>>

\* open_connection fails: run_capture returns without finishing a session.
ConnectFails ==
    /\ At("connect")
    /\ pc' = "dead"
    /\ UNCHANGED <<session, mem, reason, reconnects, unknown, reads, received, files, environment>>

-----------------------------------------------------------------------------
\* Leaving the loop.
StopFor(why) ==
    /\ reason' = why
    /\ pc' = "finish"
    /\ session' = 1

\* The conditions at the top of the loop, in the order it tests them.
FrameLimit == MaxFrames # None /\ mem[1].frames >= MaxFrames

\* Mutant of LoopTop: the duration is not looked at.
LoopTop_ignores_duration ==
    /\ At("top")
    /\ \/ interrupted /\ StopFor("interrupted")
       \/ ~interrupted /\ FrameLimit /\ StopFor("max_frames")
       \/ /\ ~interrupted /\ ~FrameLimit
          /\ pc' = "read"
          /\ UNCHANGED <<reason, session>>
    /\ UNCHANGED <<mem, reconnects, unknown, reads, received, files, environment>>

LoopTop ==
    /\ At("top")
    /\ \/ interrupted /\ StopFor("interrupted")
       \/ ~interrupted /\ FrameLimit /\ StopFor("max_frames")
       \/ ~interrupted /\ ~FrameLimit /\ elapsed /\ StopFor("duration")
       \/ /\ ~interrupted /\ ~FrameLimit /\ ~elapsed
          /\ pc' = "read"
          /\ UNCHANGED <<reason, session>>
    /\ UNCHANGED <<mem, reconnects, unknown, reads, received, files, environment>>

\* socket.read returns a frame, and handle_frame finds it a session.
ReadFrame(s, span) ==
    /\ At("read")
    /\ reads < MaxReads
    /\ LET step == AppendFrame(s, mem[s], span)
       IN  mem' = [mem EXCEPT ![s] = step.mem] /\ todo' = step.writes
    /\ received' = [received EXCEPT ![s] = Append(@, span)]
    /\ reads' = reads + 1
    /\ pc' = "top"
    /\ UNCHANGED <<disk, session, reason, reconnects, unknown, environment>>

\* On a combined stream a frame may name no session: it is counted, not kept.
ReadUnknown ==
    /\ At("read")
    /\ NumSessions > 1
    /\ reads < MaxReads
    /\ unknown' = unknown + 1
    /\ reads' = reads + 1
    /\ pc' = "top"
    /\ UNCHANGED <<session, mem, reason, reconnects, received, files, environment>>

\* The read timeout, a ping or a pong.
ReadNothing ==
    /\ At("read")
    /\ pc' = "top"
    /\ UNCHANGED <<session, mem, reason, reconnects, unknown, reads, received, files, environment>>

\* Mutant of Disconnect: one reconnect too many.
Disconnect_off_by_one(why) ==
    /\ At("read")
    /\ IF reconnects > MaxReconnects
       THEN StopFor(IF MaxReconnects = 0 THEN why ELSE "reconnect_exhausted")
            /\ UNCHANGED reconnects
       ELSE /\ reconnects' = reconnects + 1
            /\ reason' = why
            /\ pc' = "backoff"
            /\ UNCHANGED session
    /\ UNCHANGED <<mem, unknown, reads, received, files, environment>>

\* A close frame or a read error.
Disconnect(why) ==
    /\ At("read")
    /\ IF reconnects >= MaxReconnects
       THEN StopFor(IF MaxReconnects = 0 THEN why ELSE "reconnect_exhausted")
            /\ UNCHANGED reconnects
       ELSE /\ reconnects' = reconnects + 1
            /\ reason' = why
            /\ pc' = "backoff"
            /\ UNCHANGED session
    /\ UNCHANGED <<mem, unknown, reads, received, files, environment>>

\* Mutant of Backoff: the signal is only looked at by the loop.
Backoff_ignores_interrupt ==
    /\ At("backoff")
    /\ pc' = "reconnect"
    /\ UNCHANGED <<reason, session>>
    /\ UNCHANGED <<mem, reconnects, unknown, reads, received, files, environment>>

\* The sleep is over; the signal may have come during it.
Backoff ==
    /\ At("backoff")
    /\ IF interrupted
       THEN StopFor("interrupted")
       ELSE pc' = "reconnect" /\ UNCHANGED <<reason, session>>
    /\ UNCHANGED <<mem, reconnects, unknown, reads, received, files, environment>>

Reconnect ==
    /\ At("reconnect")
    /\ pc' = "mark"
    /\ session' = 1
    /\ UNCHANGED <<mem, reason, reconnects, unknown, reads, received, files, environment>>

\* Mutant of MarkSession: the fanouts are forgotten.
MarkSession_primary_only ==
    /\ At("mark")
    /\ LET step == MarkReconnect(session, mem[session])
       IN  mem' = [mem EXCEPT ![session] = step.mem] /\ todo' = step.writes
    /\ received' = [received EXCEPT ![session] = Append(@, Cut)]
    /\ pc' = "top" /\ reason' = None /\ UNCHANGED session
    /\ UNCHANGED <<disk, reconnects, unknown, reads, environment>>

\* After a reconnect every session gets its marker, primary first.
MarkSession ==
    /\ At("mark")
    /\ LET step == MarkReconnect(session, mem[session])
       IN  mem' = [mem EXCEPT ![session] = step.mem] /\ todo' = step.writes
    /\ received' = [received EXCEPT ![session] = Append(@, Cut)]
    /\ IF session = NumSessions
       THEN pc' = "top" /\ reason' = None /\ UNCHANGED session
       ELSE session' = session + 1 /\ UNCHANGED <<pc, reason>>
    /\ UNCHANGED <<disk, reconnects, unknown, reads, environment>>

ReconnectFails ==
    /\ At("reconnect")
    /\ StopFor("reconnect_failed")
    /\ UNCHANGED <<mem, reconnects, unknown, reads, received, files, environment>>

\* Mutant of FinishSession: the manifest is written before the last chunk.
FinishSession_manifest_first ==
    /\ At("finish")
    /\ LET step == CloseChunk(session, mem[session])
       IN  /\ mem' = [mem EXCEPT ![session] = step.mem]
           /\ todo' = <<ManifestWrite(session, [frames |-> mem[session].frames, stop |-> reason])>>
                         \o step.writes
    /\ IF session = NumSessions
       THEN pc' = "flush" /\ UNCHANGED session
       ELSE session' = session + 1 /\ UNCHANGED pc
    /\ UNCHANGED <<disk, reason, reconnects, unknown, reads, received, environment>>

\* Session::finish, for the sessions in order: the last chunk, then the manifest.
FinishSession ==
    /\ At("finish")
    /\ LET step == CloseChunk(session, mem[session])
       IN  /\ mem' = [mem EXCEPT ![session] = step.mem]
           /\ todo' = Append(step.writes,
                     ManifestWrite(session, [frames |-> mem[session].frames, stop |-> reason]))
    /\ IF session = NumSessions
       THEN pc' = "flush" /\ UNCHANGED session
       ELSE session' = session + 1 /\ UNCHANGED pc
    /\ UNCHANGED <<disk, reason, reconnects, unknown, reads, received, environment>>

\* run_capture returns Ok once the last write is through.
Return ==
    /\ At("flush")
    /\ pc' = "stopped"
    /\ UNCHANGED <<session, mem, reason, reconnects, unknown, reads, received, files, environment>>

-----------------------------------------------------------------------------
Write ==
    /\ Running
    /\ todo # <<>>
    /\ LET w == Head(todo)
       IN  disk' = [disk EXCEPT ![w.session] = Written(@, w, w.content)]
    /\ todo' = Tail(todo)
    /\ UNCHANGED <<pc, session, mem, reason, reconnects, unknown, reads, received, environment>>

\* A crash, or an I/O error that run_capture returns, inside a write.
TearWrite ==
    /\ Running
    /\ todo # <<>>
    /\ LET w == Head(todo)
       IN  disk' = [disk EXCEPT ![w.session] = Written(@, w, Torn)]
    /\ todo' = <<>>
    /\ pc' = "dead"
    /\ UNCHANGED <<session, mem, reason, reconnects, unknown, reads, received, environment>>

\* The same between two writes, or anywhere else.
Crash ==
    /\ Running
    /\ todo' = <<>>
    /\ pc' = "dead"
    /\ UNCHANGED <<session, disk, mem, reason, reconnects, unknown, reads, received, environment>>

\* The signal handler.
Interrupt ==
    /\ Running
    /\ ~interrupted
    /\ interrupted' = TRUE
    /\ UNCHANGED <<pc, session, mem, reason, reconnects, unknown, reads, received, files, elapsed, runs>>

\* options.duration has passed since the first connection was made.
Elapse ==
    /\ Running
    /\ pc \notin {"open", "connect"}
    /\ HasDuration
    /\ ~elapsed
    /\ elapsed' = TRUE
    /\ UNCHANGED <<pc, session, mem, reason, reconnects, unknown, reads, received, files, interrupted, runs>>

\* The capture command is run again with the same arguments.
Restart ==
    /\ ~Running
    /\ runs < MaxRuns
    /\ runs' = runs + 1
    /\ pc' = "open"
    /\ session' = 1
    /\ reason' = None
    /\ reconnects' = 0
    /\ unknown' = 0
    /\ reads' = 0
    /\ interrupted' = FALSE
    /\ elapsed' = FALSE
    /\ UNCHANGED <<mem, received, files>>

\* open_connection returns, which is up to the other side.
Dial == Connect \/ ConnectFails \/ Reconnect \/ ReconnectFails

\* The steps the process takes on its own, one of which it always can but when it
\* dials.
Process ==
    \/ OpenSession \/ RefuseSession
    \/ LoopTop
    \/ \E s \in Sessions : \E span \in Frames[s] : ReadFrame(s, span)
    \/ ReadUnknown \/ ReadNothing
    \/ \E why \in {"venue_close", "read_error"} : Disconnect(why)
    \/ Backoff \/ MarkSession
    \/ FinishSession \/ Return
    \/ Write

Next ==
    \/ Process
    \/ Dial
    \/ TearWrite \/ Crash
    \/ Interrupt \/ Elapse
    \/ Restart

Spec == Init /\ [][Next]_vars
\* The program is left to run: sleeps and writes end, and reads return, for the
\* socket has a read timeout.  The socket gets it when connect has returned, so
\* nothing says that connect does; nor that a signal comes.
FairSpec == Spec /\ WF_vars(Process)

-----------------------------------------------------------------------------
Stops == {"interrupted", "max_frames", "duration", "venue_close", "read_error",
          "reconnect_exhausted", "reconnect_failed"}
Record == [seq : Nat, kind : {"frame", "update_id_gap", "connection_gap"},
           span : Span \cup {NoSpan}]

Chunk == Seq(Record)
Manifest == [frames : Nat, stop : Stops \cup {"in_progress", None}]

\* A file that is missing or was cut short is none of these.
ASSUME FilesAssumption ==
    \A file \in {None, Torn} : file \notin Chunk /\ file \notin Seq(Chunk) /\ file \notin Manifest

SessionState ==
    [seq : Nat, frames : Nat, connection_gaps : Nat,
     previous_last : Ids \cup {None}, checked : Nat, gaps : Nat,
     buffer : Chunk, closed : Seq(Chunk)]

Labels == {"open", "connect", "top", "read", "backoff", "reconnect", "mark",
           "finish", "flush", "stopped", "dead"}

TypeOK ==
    /\ pc \in Labels
    /\ session \in Sessions
    /\ mem \in [Sessions -> SessionState]
    /\ \A s \in Sessions : Len(mem[s].buffer) < RecordsPerChunk
    /\ reason \in Stops \cup {None}
    /\ reconnects \in 0..MaxReconnects
    /\ reads \in 0..MaxReads
    /\ unknown \in 0..reads
    /\ interrupted \in BOOLEAN
    /\ elapsed \in BOOLEAN
    /\ runs \in Nat

\* The records of a session so far, on disk or not.
Log(m) == FlattenSeq(m.closed) \o m.buffer

\* Sequence numbers are positions: none is skipped, none is used twice, across
\* chunks, markers and reconnects.
SeqIsPosition ==
    \A s \in Sessions : \A i \in DOMAIN Log(mem[s]) : Log(mem[s])[i].seq = i - 1

\* What a log should say of a stream.  The frame at j is the baseline of the one
\* at i: the last frame with a span before it on the same connection.  A gap shows
\* at i when its span does not start right behind its baseline.
IsBaseline(stream, j, i) ==
    /\ stream[i] \notin {NoSpan, Cut}
    /\ stream[j] \notin {NoSpan, Cut}
    /\ \A k \in j + 1 .. i - 1 : stream[k] = NoSpan

ShowsGap(stream, i) ==
    \E j \in 1..i - 1 :
        /\ IsBaseline(stream, j, i)
        /\ stream[j].last < MaxId
        /\ stream[i].first # stream[j].last + 1

Entry(kind, span) == [kind |-> kind, span |-> span]

\* What the log says of what came at i.
Says(stream, i) ==
    IF stream[i] = Cut THEN <<Entry("connection_gap", NoSpan)>>
    ELSE IF ShowsGap(stream, i) THEN <<Entry("update_id_gap", NoSpan), Entry("frame", stream[i])>>
    ELSE <<Entry("frame", stream[i])>>

Annotated(stream) == FlattenSeq([i \in DOMAIN stream |-> Says(stream, i)])

\* The same view of recorded records.
Summary(log) == [i \in DOMAIN log |-> Entry(log[i].kind, log[i].span)]

\* Every frame received is recorded, in order, and every hole the venue or the
\* network left is marked at its place, in every session: a continuity gap just
\* before the frame that shows it, a connection gap between the two connections.
LogIsAnnotatedStream ==
    \A s \in Sessions : Summary(Log(mem[s])) = Annotated(received[s])

\* The counts a capture reports are the markers it wrote, session by session.
CountsMatchMarkers ==
    \A s \in Sessions :
        LET marked(kind) == Cardinality({i \in DOMAIN Log(mem[s]) : Log(mem[s])[i].kind = kind})
        IN  /\ mem[s].frames = marked("frame")
            /\ mem[s].gaps = marked("update_id_gap")
            /\ mem[s].connection_gaps = marked("connection_gap")

\* The sessions agree on the reconnects.  While they are being marked, or when the
\* process died at it, those in front are one marker ahead and have recorded nothing
\* behind it: no session holds a frame of a connection that another session does not
\* know to be a new one.
SessionsKeepStep ==
    \A s, t \in Sessions : s < t =>
        /\ mem[s].connection_gaps > mem[t].connection_gaps =>
               /\ mem[s].connection_gaps = mem[t].connection_gaps + 1
               /\ Last(Log(mem[s])).kind = "connection_gap"
        /\ Running /\ pc # "open" => mem[s].connection_gaps >= mem[t].connection_gaps

\* What the sessions count, as positions, frames and gaps, is what they recorded, and
\* of reconnects all have counted the same, wherever the process died.
CountersMatchLog == SeqIsPosition /\ CountsMatchMarkers /\ SessionsKeepStep

Whole(file) == file \notin {None, Torn}

\* Whatever the process died in, an index that can be read names chunks that are
\* on disk, whole, and the first ones the session recorded, in order.
IndexDescribesDisk ==
    \A s \in Sessions : Whole(disk[s].index) =>
        \A n \in DOMAIN disk[s].index :
            /\ n \in DOMAIN disk[s].chunks /\ disk[s].chunks[n] = disk[s].index[n]
            /\ n \in DOMAIN mem[s].closed /\ mem[s].closed[n] = disk[s].index[n]

\* Why IndexDescribesDisk is inductive.  The writes of a step are ordered, so an
\* index never overtakes the chunk it adds; a chunk's number is one that was never
\* used; and every chunk of a running session is on disk or about to be.
WriteOrder ==
    [file : {"manifest"}, session : Sessions, content : Manifest] \cup
    [file : {"chunk"}, session : Sessions, number : Nat, content : Chunk] \cup
    [file : {"index"}, session : Sessions, content : Seq(Chunk)]

\* Chunk n of what session s recorded is on disk.
OnDisk(s, n) ==
    /\ n \in DOMAIN disk[s].chunks
    /\ n \in DOMAIN mem[s].closed
    /\ disk[s].chunks[n] = mem[s].closed[n]

\* The write at i is that of chunk n of session s.
Ordered(i, s, n) == todo[i].file = "chunk" /\ todo[i].session = s /\ todo[i].number = n

\* The Session in memory is one the running process has opened.
Opened(s) == Running /\ (pc = "open" => s < session)

FilesInv(s) ==
    /\ DOMAIN disk[s] = {"manifest", "chunks", "index"}
    /\ \A n \in DOMAIN disk[s].chunks :
          n \in DOMAIN mem[s].closed /\ disk[s].chunks[n] \in {mem[s].closed[n], Torn}
    /\ disk[s].index \in Seq(Chunk) \cup {None, Torn}
    /\ disk[s].index # None => HasChunks(disk[s])
    /\ Whole(disk[s].index) =>
          \A n \in DOMAIN disk[s].index : OnDisk(s, n) /\ disk[s].index[n] = mem[s].closed[n]

ChunkOrderInv(i) ==
    LET w == todo[i]
    IN  w.file = "chunk" =>
            /\ w.number \in DOMAIN mem[w.session].closed
            /\ w.content = mem[w.session].closed[w.number]
            /\ w.number \notin DOMAIN disk[w.session].chunks
            /\ \A j \in DOMAIN todo : Ordered(j, w.session, w.number) => j = i

IndexOrderInv(i) ==
    LET w == todo[i]
    IN  w.file = "index" =>
            /\ w.content # <<>>
            /\ \A n \in DOMAIN w.content :
                  /\ n \in DOMAIN mem[w.session].closed
                  /\ w.content[n] = mem[w.session].closed[n]
                  /\ OnDisk(w.session, n) \/ \E j \in 1..i - 1 : Ordered(j, w.session, n)

StoreInv ==
    /\ todo \in Seq(WriteOrder)
    /\ ~Running => todo = <<>>
    /\ DOMAIN disk = Sessions
    /\ \A s \in Sessions : FilesInv(s)
    /\ \A s \in Sessions : Opened(s) =>
          \A n \in DOMAIN mem[s].closed : OnDisk(s, n) \/ \E i \in DOMAIN todo : Ordered(i, s, n)
    /\ \A i \in DOMAIN todo : ChunkOrderInv(i) /\ IndexOrderInv(i)

\* A manifest that says the capture ended was written last: all the session
\* received can be read back from its directory, and the count is right.
FinalManifestIsTrue ==
    \A s \in Sessions :
        Whole(disk[s].manifest) /\ disk[s].manifest.stop # "in_progress" =>
            /\ disk[s].index # Torn
            /\ Summary(FlattenSeq(ReadIndex(disk[s]))) = Annotated(received[s])
            /\ disk[s].manifest.frames = Cardinality({i \in DOMAIN received[s] : received[s][i] # Cut})

\* A chunk file, whole or torn, is never written again: not by a later chunk, not
\* by a later run in the same directory.
ChunksAreFinal ==
    [][\A s \in Sessions : \A n \in DOMAIN disk[s].chunks :
          n \in DOMAIN disk'[s].chunks /\ disk'[s].chunks[n] = disk[s].chunks[n]]_disk

\* A capture that was asked to stop stops, whatever the venue sends meanwhile and
\* wherever it was, asleep before a reconnect included: no connection is begun any
\* more.  It need not stop only if the first connection is still to be made or one
\* was already being made again.
InterruptStops == interrupted /\ pc \notin {"open", "connect", "reconnect"} ~> ~Running

\* A capture whose duration is over ends without anyone asking, whether frames keep
\* coming, the connection is silent or it is lost, again and again: all that can
\* hold it is one attempt to connect that never returns.
DurationStops == elapsed ~> ~Running \/ [](pc = "reconnect")
=============================================================================
