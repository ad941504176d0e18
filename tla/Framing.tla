------------------------------- MODULE Framing -------------------------------
(***************************************************************************)
(* The body of a capture chunk (crates/astra-record/src/store.rs): encoded *)
(* records one after another, each behind its length in LengthPrefixBytes  *)
(* bytes, and the count the index holds against what is read back.         *)
(*                                                                         *)
(* A record stands for its own encoding: postcard reads back what it wrote *)
(* and zstd what it packed.  Byte is 256 in the code and the prefix four.  *)
(***************************************************************************)
EXTENDS Integers, Sequences, Option

CONSTANTS
    Byte,              \* values of a byte
    LengthPrefixBytes  \* LENGTH_PREFIX_BYTES

ASSUME FramingAssumption ==
    /\ Byte \in Nat /\ Byte > 1
    /\ LengthPrefixBytes \in Nat \ {0}
    /\ None \notin Seq(Nat) /\ None \notin Seq(Seq(Nat))

\* What a byte counts at each place of a prefix; the last is more than one can say.
Weight[i \in 0..LengthPrefixBytes] == IF i = 0 THEN 1 ELSE Byte * Weight[i - 1]

\* to_le_bytes and from_le_bytes.
LeBytes(n) == [i \in 1..LengthPrefixBytes |-> (n \div Weight[i - 1]) % Byte]
FromLeBytes(bytes) ==
    LET upTo[i \in 0..LengthPrefixBytes] ==
            IF i = 0 THEN 0 ELSE upTo[i - 1] + bytes[i] * Weight[i - 1]
    IN  upTo[LengthPrefixBytes]

\* Mutant of EncodeRecord: the length is cast, not converted.
EncodeRecord_casts(record) == LeBytes(Len(record)) \o record

\* encode_record: a record that is too long for its prefix is refused.
EncodeRecord(record) ==
    IF Len(record) >= Weight[LengthPrefixBytes] THEN None ELSE LeBytes(Len(record)) \o record

\* append, record after record, as long as none is refused.
EncodeRecords(records) ==
    LET body[i \in 0..Len(records)] ==
            IF i = 0 THEN <<>>
            ELSE IF body[i - 1] = None \/ EncodeRecord(records[i]) = None THEN None
            ELSE body[i - 1] \o EncodeRecord(records[i])
    IN  body[Len(records)]

\* A turn of the loop of decode_records, as long as there is any left of the body: the
\* record whose prefix begins at was.at, unless prefix or record go past the end.
Decode(was, body) ==
    LET begin == was.at + LengthPrefixBytes
        next == begin + FromLeBytes(SubSeq(body, was.at, begin - 1))
    IN  IF ~was.ok \/ was.at > Len(body) THEN was
        ELSE IF begin - 1 > Len(body) \/ next - 1 > Len(body) THEN [was EXCEPT !.ok = FALSE]
        ELSE [was EXCEPT !.records = Append(@, SubSeq(body, begin, next - 1)), !.at = next]

\* decode_records.
DecodeRecords(body) ==
    LET after[i \in 0..Len(body)] ==
            IF i = 0 THEN [records |-> <<>>, at |-> 1, ok |-> TRUE] ELSE Decode(after[i - 1], body)
        end == after[Len(body)]
    IN  IF end.ok THEN end.records ELSE None

\* read_all and stream_verified_records: the chunk must hold what its index entry
\* claims.
ReadCounted(body, count) ==
    LET records == DecodeRecords(body)
    IN  IF records = None THEN None ELSE IF Len(records) # count THEN None ELSE records
=============================================================================
