-------------------------------- MODULE Check --------------------------------
(***************************************************************************)
(* astra check (crates/astra-record/src/check.rs) run on the directory of  *)
(* a capture at any moment of the capture's life: while it records, after  *)
(* it stopped, after it died anywhere.  The audit walks the records of the *)
(* chunks the index lists and judges them by a continuity rule of its own, *)
(* which sees forward jumps only; the recorder's (SequenceGap) is strict.  *)
(***************************************************************************)
EXTENDS Capture

\* check returns a report and no error: the manifest parses, the index parses
\* or is missing, every chunk of the index is there and has the hash it lists.
Readable(d) ==
    /\ Whole(d.manifest)
    /\ d.index # Torn
    /\ \A n \in DOMAIN ReadIndex(d) : n \in DOMAIN d.chunks /\ d.chunks[n] = d.index[n]

Records(d) == FlattenSeq(ReadIndex(d))

EmptyReport ==
    [expected_seq |-> 0, previous_last |-> None, venue_frames |-> 0,
     connection_gaps |-> 0, update_id_gaps |-> 0, seq_breaks |-> 0]

\* The audit's own continuity rule, saturating at MaxId.
JumpsForward(previous, span) ==
    /\ previous # None
    /\ previous < MaxId
    /\ span.first > previous + 1

\* One record into the report, its sequence number first.
Numbered(report, record) ==
    [report EXCEPT !.seq_breaks = IF record.seq = report.expected_seq THEN @ ELSE @ + 1,
                   !.expected_seq = record.seq + 1]

\* Mutant of AuditMarker: no fresh baseline after a reconnect.
AuditMarker_keeps_baseline(report, record) ==
    IF record.kind = "update_id_gap"
    THEN [report EXCEPT !.update_id_gaps = @ + 1]
    ELSE [report EXCEPT !.connection_gaps = @ + 1]

\* A connection gap starts a fresh baseline, a continuity gap does not.
AuditMarker(report, record) ==
    IF record.kind = "update_id_gap"
    THEN [report EXCEPT !.update_id_gaps = @ + 1]
    ELSE [report EXCEPT !.connection_gaps = @ + 1, !.previous_last = None]

AuditFrame(report, record) ==
    LET counted == [report EXCEPT !.venue_frames = @ + 1]
    IN  IF record.span = NoSpan
        THEN counted
        ELSE [counted EXCEPT
                !.previous_last = record.span.last,
                !.update_id_gaps = IF JumpsForward(report.previous_last, record.span)
                                   THEN @ + 1 ELSE @]

Audited(report, record) ==
    IF record.kind = "frame"
    THEN AuditFrame(Numbered(report, record), record)
    ELSE AuditMarker(Numbered(report, record), record)

\* The walk over the records.
Audit(log) ==
    LET after[i \in 0..Len(log)] ==
            IF i = 0 THEN EmptyReport ELSE Audited(after[i - 1], log[i])
    IN  after[Len(log)]

Report(d) == Audit(Records(d))

\* Mutant of ManifestMismatch: a capture in progress is given the benefit of the doubt.
ManifestMismatch_only_if_short(d) == Report(d).venue_frames < d.manifest.frames

ManifestMismatch(d) == Report(d).venue_frames # d.manifest.frames

\* is_healthy.
Healthy(d) ==
    /\ Report(d).seq_breaks = 0
    /\ Report(d).update_id_gaps = 0
    /\ ~ManifestMismatch(d)

-----------------------------------------------------------------------------
Ended(d) == Whole(d.manifest) /\ d.manifest.stop # "in_progress"

GapsShown(stream) == {i \in DOMAIN stream : ShowsGap(stream, i)}

\* Those where updates are missing, not repeated.
HolesShown(stream) ==
    {i \in GapsShown(stream) :
        \E j \in 1..i - 1 : IsBaseline(stream, j, i) /\ stream[i].first > stream[j].last}

Cuts(stream) == {i \in DOMAIN stream : stream[i] = Cut}

\* A capture that ended is audited for what the venue sent and nothing else: the
\* audit can read it, finds no fault of the recorder's, and calls it unhealthy
\* exactly when the stream had a hole or a repeat within one connection.  A hole
\* is reported twice, once by its marker and once by the audit's own rule.
EndedIsJudgedByItsStream ==
    \A s \in Sessions : Ended(disk[s]) =>
        /\ Readable(disk[s])
        /\ Report(disk[s]).seq_breaks = 0
        /\ ~ManifestMismatch(disk[s])
        /\ Report(disk[s]).connection_gaps = Cardinality(Cuts(received[s]))
        /\ Report(disk[s]).update_id_gaps =
              Cardinality(GapsShown(received[s])) + Cardinality(HolesShown(received[s]))

\* A healthy verdict over any frame at all, whenever it is asked for, means that
\* the capture ended, that all it received is in the report, and that no update
\* was missed while a connection stood.
HealthyMeansComplete ==
    \A s \in Sessions :
        Readable(disk[s]) /\ Healthy(disk[s]) /\ Report(disk[s]).venue_frames > 0 =>
            /\ Ended(disk[s])
            /\ Summary(Records(disk[s])) = Annotated(received[s])
            /\ GapsShown(received[s]) = {}

\* docs/failure-policy.md:24 says check reports a half-written capture, one whose
\* manifest is still in_progress, as a finding: a capture that died with frames
\* received is not called healthy.
HalfWrittenIsFound ==
    \A s \in Sessions :
        /\ pc = "dead"
        /\ Readable(disk[s])
        /\ ~Ended(disk[s])
        /\ \E i \in DOMAIN received[s] : received[s][i] # Cut
        => ~Healthy(disk[s])
=============================================================================
