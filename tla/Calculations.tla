---------------------------- MODULE Calculations ----------------------------
(***************************************************************************)
(* The functions of the code that keep no state, called with every input   *)
(* of a small domain: the arithmetic and the text of Fixed, the two loops  *)
(* of OrderBook, the names of streams and what comes back under them, the  *)
(* framing of chunk bodies, and the comparison of two captures.  A call is *)
(* made, and answered; the properties say what the answer must be.         *)
(***************************************************************************)
EXTENDS Comparison, FixedPoint, Framing

CONSTANTS
    Operands,                   \* raw values to operate with
    Literals,                   \* decimal literals to read
    Messages,                   \* levels of a book message, bids before asks
    ChannelLists,               \* channels a capture is asked for
    RecordLists,                \* records to frame
    Truth,                      \* Truth[i] is the venue's book after its update i
    Inputs, References,         \* captures to compare: of updates, of snapshots
    InbandInputs,               \* captures that hold snapshots of their own
    Files,                      \* what --snapshot may name, and None
    Depths                      \* --levels

Ids == 0..MaxId

\* What the records of a capture may decode to: ids and levels, and never what stands
\* for nothing.
UpdateTyped(r) ==
    /\ UpdateSpan(r.venue, r.channel, r.payload) # None =>
           /\ UpdateSpan(r.venue, r.channel, r.payload).first \in Ids
           /\ UpdateSpan(r.venue, r.channel, r.payload).last \in Ids
    /\ DecodeDiff(r.venue, r.channel, r.payload) # None =>
           /\ DecodeDiff(r.venue, r.channel, r.payload).bids \in Seq(Level)
           /\ DecodeDiff(r.venue, r.channel, r.payload).asks \in Seq(Level)
    /\ r.venue = "bybit" /\ BybitBook(r.payload) =>
           /\ [first |-> r.payload.u, last |-> r.payload.u] # None
           /\ [bids |-> r.payload.b, asks |-> r.payload.a] # None
SnapshotTyped(snapshot) ==
    snapshot # None =>
        /\ snapshot.last_update_id \in Ids
        /\ snapshot.bids \in Seq(Level) /\ snapshot.asks \in Seq(Level)
        /\ [last_update_id |-> snapshot.last_update_id, levels |-> snapshot.bids \o snapshot.asks] # None
IsCapture(capture) ==
    /\ capture.frames_written \in Nat
    /\ DOMAIN capture.records = 1..Len(capture.records) /\ Len(capture.records) \in Nat
    /\ \A i \in Frames(capture.records) :
           /\ UpdateTyped(capture.records[i])
           /\ SnapshotTyped(SnapshotOf(capture.records[i]))
           /\ SnapshotTyped(Inband(capture.records[i]))

\* A snapshot lists the venue's book at its id, each level once.
Lists(levels, book) ==
    /\ \A i \in DOMAIN levels :
           levels[i] \in Storable /\ levels[i].quantity = book[levels[i].side][levels[i].price]
    /\ \A i, j \in DOMAIN levels :
           levels[i].side = levels[j].side /\ levels[i].price = levels[j].price => i = j
    /\ \A s \in Sides : \A p \in Quoted(book, s) :
           \E i \in DOMAIN levels : levels[i].side = s /\ levels[i].price = p
FileSnapshot(file) == BookSnapshot("binance", "book_snapshot", file)

ASSUME InputsAssumption ==
    /\ MaxId \in Nat /\ None \notin Ids
    /\ Operands \subseteq Raws
    /\ \A l \in Literals : l.whole \in Nat /\ l.fraction \in Seq(Digits)
    /\ Messages \subseteq Seq(Level)
    /\ ChannelLists \subseteq Seq(Channels)
    /\ RecordLists \subseteq Seq(Seq(0..Byte - 1))
    /\ Depths \subseteq Nat
    /\ \A c \in Inputs \cup InbandInputs \cup References : IsCapture(c)
    /\ \A file \in Files \ {None} : SnapshotTyped(FileSnapshot(file))
    /\ \A m \in MarketTypes, c \in Channels :
           [stream |-> BinanceStreamName("btcusdt", m, c), data |-> <<>>] # None

\* The updates and the snapshots that are compared are of one venue, which tells what
\* happened and crosses no book.
ASSUME VenueAssumption ==
    /\ Truth \in [Ids -> Book]
    /\ \A i \in Ids : ~IsCrossed(Truth[i])
    /\ \A c \in Inputs : \A i \in DOMAIN LoadEvents(c.records) : Faithful(Truth, LoadEvents(c.records)[i])
    /\ \A c \in References : \A i \in DOMAIN Decoded(c.records) :
           Lists(Decoded(c.records)[i].levels, Truth[Decoded(c.records)[i].last_update_id])
    /\ \A file \in Files \ {None} : FileSnapshot(file) # None =>
           Lists(FileSnapshot(file).bids \o FileSnapshot(file).asks,
                 Truth[FileSnapshot(file).last_update_id])

VARIABLES
    call,   \* the function called, and with what
    answer  \* <<>>, then <<what it returned>>

vars == <<call, answer>>

-----------------------------------------------------------------------------
\* Where a capture's frames go: one session a channel, the first for --channel and
\* one for each --with, each in its own directory.
Directories(channels) == [i \in DOMAIN channels |-> IF i = 1 THEN <<>> ELSE <<channels[i]>>]

\* handle_frame: the session a frame is written to, or None for an unknown one.
SessionFor(channels, payload) ==
    IF Len(channels) = 1 THEN 1
    ELSE LET frame == UnwrapCombined(payload)
         IN  IF frame = None THEN None
             ELSE IF \A i \in DOMAIN channels : channels[i] # ChannelForStream(frame.stream) THEN None
             ELSE Min({i \in DOMAIN channels : channels[i] = ChannelForStream(frame.stream)})

\* update_live_book_combined: the channel the live book reads a frame as.
LiveBookReads(channels, payload) ==
    IF Len(channels) = 1 THEN channels[1]
    ELSE LET frame == UnwrapCombined(payload)
         IN  IF frame = None THEN None ELSE ChannelForStream(frame.stream)

\* capture of main.rs: the streams asked for, or None when it refuses to start; with
\* them, what it will do with a frame of each of them.
Streams(venue, market, channels) ==
    LET url == IF Len(channels) = 1 THEN StreamUrl(venue, market, "btcusdt", channels[1])
               ELSE CombinedStreamUrl(venue, market, "btcusdt", channels)
    IN  IF url = None THEN None
        ELSE [i \in DOMAIN url.streams |->
                 LET payload == [stream |-> url.streams[i], data |-> <<>>]
                 IN  [session |-> SessionFor(channels, payload), read |-> LiveBookReads(channels, payload)]]

-----------------------------------------------------------------------------
\* The calls there are.
Asked ==
    \/ \E op \in {"add", "sub", "mul", "div", "fee"}, a \in Raws, b \in Operands :
           call = [op |-> op, a |-> a, b |-> b]
    \/ \E op \in {"neg", "text"}, a \in Raws : call = [op |-> op, a |-> a]
    \/ \E literal \in Literals : call = [op |-> "read", literal |-> literal]
    \/ \E levels \in Messages : call = [op |-> "load", levels |-> levels]
    \/ \E before, levels \in Messages :
           call = [op |-> "apply", before |-> before, levels |-> levels]
    \/ \E venue \in Venues, market \in MarketTypes, channels \in ChannelLists :
           call = [op |-> "streams", venue |-> venue, market |-> market, channels |-> channels]
    \/ \E records \in RecordLists : call = [op |-> "frame", records |-> records]
    \/ \E input \in Inputs, reference \in References, file \in Files, limit \in Depths :
           call = [op |-> "compare", input |-> input, reference |-> reference, file |-> file,
                   limit |-> limit]
    \/ \E input \in Inputs \cup InbandInputs, file \in Files :
           call = [op |-> "reconstruct", input |-> input, file |-> file]

Init == answer = <<>> /\ Asked

Return(value) == answer' = <<value>> /\ UNCHANGED call
Calls(op) == answer = <<>> /\ call.op = op

Add == Calls("add") /\ Return(CheckedAdd(call.a, call.b))
Sub == Calls("sub") /\ Return(CheckedSub(call.a, call.b))
Mul == Calls("mul") /\ Return(CheckedMul(call.a, call.b))
Div == Calls("div") /\ Return(CheckedDiv(call.a, call.b))
Neg == Calls("neg") /\ Return(CheckedNeg(call.a))
Fee == Calls("fee") /\ call.a >= 0 /\ call.b >= 0 /\ Return(MakerFee(call.a, call.b))
Read == Calls("read") /\ Return(Parse(call.literal))
Text == Calls("text") /\ Return(Display(call.a))

Load == Calls("load") /\ Return(LoadLoop(call.levels))
Apply == Calls("apply") /\ Return(ApplyLoop(LoadLoop(call.before).book, call.levels))
Ask == Calls("streams") /\ Return(Streams(call.venue, call.market, call.channels))
Frame == Calls("frame") /\ Return(EncodeRecords(call.records))

\* load_snapshot_file, or no bootstrap; a file that is no snapshot ends the command.
Bootstrap ==
    LET file == FileSnapshot(call.file)
    IN  IF call.file = None THEN None
        ELSE [last_update_id |-> file.last_update_id, levels |-> file.bids \o file.asks]
BadFile == call.file # None /\ FileSnapshot(call.file) = None

Verify ==
    /\ Calls("compare")
    /\ Return(IF BadFile THEN None ELSE Compare(call.input, call.reference, call.limit, Bootstrap))

Rebuilt == Calls("reconstruct") /\ Return(IF BadFile THEN None ELSE Reconstruct(call.input, Bootstrap))

Next ==
    \/ Add \/ Sub \/ Mul \/ Div \/ Neg \/ Fee \/ Read \/ Text
    \/ Load \/ Apply \/ Ask \/ Frame \/ Verify \/ Rebuilt

Spec == Init /\ [][Next]_vars

-----------------------------------------------------------------------------
Did(op) == call.op = op /\ answer # <<>>
Returned == answer[1]

\* Whatever the signs, a product, a quotient and a fee is the nearest value there
\* is, ties away from zero, and a literal is read exactly; nothing that is returned
\* has wrapped around.
OnFixed == {"add", "sub", "mul", "div", "neg", "fee", "read"}
ResultsAreNearest ==
    answer # <<>> => (Returned # None =>
        /\ call.op \in OnFixed => Returned \in Raws
        /\ Did("mul") => IsNearest(Returned, call.a * call.b, Scale)
        /\ Did("div") => IsNearest(Returned, call.a * Scale, call.b)
        /\ Did("fee") => IsNearest(Returned, call.a * call.b, Bps)
        /\ Did("read") =>
               LET unit == Power[Len(call.literal.fraction)]
                   read == (call.literal.whole * unit + Value(call.literal.fraction)) * Scale
               IN  Returned * unit = IF call.literal.sign = "-" THEN -read ELSE read)

\* An operation on Fixed is refused only for a division by zero or for want of room:
\* near the ends of the width, never in the middle of it.
RefusedForWantOfRoom ==
    answer = <<None>> =>
        /\ Did("add") => ~HasRoom(call.a + call.b, 0)
        /\ Did("sub") => ~HasRoom(call.a - call.b, 0)
        /\ Did("neg") => call.a = MinRaw
        /\ Did("mul") => ~HasRoom(call.a * call.b, Scale)
        /\ Did("div") => call.b = 0 \/ call.b = MinRaw \/ ~HasRoom(call.a * Scale, call.b)
        /\ Did("fee") => ~HasRoom(call.a * call.b, Bps)
        /\ Did("read") => \/ Len(call.literal.fraction) > Places
                          \/ ~HasRoom((call.literal.whole + 1) * Scale, 0)

\* What is written is read back as it was: the JSON of a level, an order or a report
\* loses nothing.  The smallest value alone cannot be read back, for its magnitude
\* does not fit.
TextKeepsTheValue ==
    Did("text") => Parse(Returned) = IF call.a = MinRaw THEN None ELSE call.a

\* The arithmetic of Fixed over its whole width: nearest where it answers, refused
\* only where it must be, and written so that it is read back.
FixedIsExact == ResultsAreNearest /\ RefusedForWantOfRoom /\ TextKeepsTheValue

-----------------------------------------------------------------------------
\* load_snapshot leaves the book, and gives the verdict, that LoadedBook and LoadOk
\* state for the whole call: a refused level keeps the levels before it, a crossed
\* book is empty.
LoadMatches ==
    Did("load") => Returned = [book |-> LoadedBook(call.levels), ok |-> LoadOk(call.levels)]

\* apply_diff leaves the overlay of the levels before the first refused one, on
\* whatever an earlier message left: the last write to a price wins, and quantity
\* zero removes the price.
ApplyMatches ==
    Did("apply") => Returned = [book |-> AppliedBook(LoadedBook(call.before), call.levels),
                                ok |-> ApplyOk(call.levels)]

\* The loops of OrderBook do, one level at a time and with their early returns, what
\* OrderBook says of whole messages: the models of the readers rest on it.
LoopsMatch == LoadMatches /\ ApplyMatches

\* A capture that starts on a combined connection writes each of its streams into a
\* session of its own, the one for the channel it was asked for, in a directory of
\* its own, and the live book reads each as what it is.
StreamsComeBack ==
    Did("streams") /\ Returned # None =>
        /\ \A i \in DOMAIN Returned : Returned[i] = [session |-> i, read |-> call.channels[i]]
        /\ \A i, j \in DOMAIN call.channels :
               i # j => Directories(call.channels)[i] # Directories(call.channels)[j]

\* A record too long for its length prefix is refused when it is written, and the
\* rest read back as they were written.
RecordsComeBack ==
    Did("frame") =>
        IF \E i \in DOMAIN call.records : Len(call.records[i]) >= Weight[LengthPrefixBytes]
        THEN Returned = None
        ELSE ReadCounted(Returned, Len(call.records)) = call.records

\* A body that was cut short is refused wherever it was cut, between two records too.
CutChunkIsRefused ==
    Did("frame") /\ Returned # None =>
        \A n \in 0..Len(Returned) - 1 : ReadCounted(SubSeq(Returned, 1, n), Len(call.records)) = None

\* A chunk body gives its records back, or nothing: never fewer, cut or run together.
FramingIsFaithful == RecordsComeBack /\ CutChunkIsRefused

-----------------------------------------------------------------------------
\* What a comparison has to go by: its events, its references in their order, and the
\* id it starts from.
Events == LoadEvents(call.input.records)
Known == LoadReferences(call.reference.records)
Starts == call.file # None \/ Known # <<>>
Start == IF call.file # None THEN call.file.lastUpdateId ELSE Known[1].last_update_id
Compared == IF call.file # None \/ Known = <<>> THEN Known ELSE Tail(Known)

\* The events up to an id leave none out, from where the comparison starts.
Follows(events, start, id) ==
    \A i \in DOMAIN events :
        start < events[i].last /\ events[i].last <= id =>
            \E before \in {start} \cup {events[j].last : j \in 1..i - 1} : events[i].first <= before + 1
InOrder(events) == \A i, j \in DOMAIN events : i < j => events[i].last < events[j].first

\* A capture without holes is told to match each reference it reaches exactly, to any
\* depth: no event is lost between two references, however many lie between, and the
\* levels of a snapshot come in any order.
CompleteStreamsMatch ==
    Did("compare") /\ Returned # None /\ Starts =>
        \A c \in DOMAIN Compared :
            LET id == Compared[c].last_update_id
            IN  /\ id >= Start
                /\ InOrder(Events) /\ Follows(Events, Start, id)
                /\ id = Start \/ \E i \in DOMAIN Events : Events[i].last = id
                => Returned.checks[c] = {}

\* No frame vanishes from the reports: each was applied, skipped, found to jump,
\* rejected, refused or not understood, loaded as a snapshot, or lies past the last
\* reference; and none is counted twice.
Sum(n) == n.applied + n.skipped + n.gap + n.rejected + n.invalid
EveryFrameIsCounted ==
    answer # <<>> => (Returned # None =>
        /\ Did("compare") =>
               LET past == {i \in DOMAIN Events : \A c \in DOMAIN Compared :
                              \E j \in 1..i : Events[j].last > Compared[c].last_update_id}
               IN  /\ Returned.events + Returned.unparseable = call.input.frames_written
                   /\ Sum(Returned.returned) = Len(Events) - Cardinality(past)
        /\ Did("reconstruct") =>
               Sum(Returned.returned) + Returned.inband + Returned.without_a_book = call.input.frames_written)

\* What verify judges is the book that reconstruct builds: where the last reference
\* lies past all events, it finds what is wrong with that book, as long as the
\* capture was not reconnected (verify takes the jump for a hole; reconstruct does not)
\* and holds no snapshot of its own (which verify takes for a diff).
VerifyJudgesTheRebuilt ==
    Did("compare") /\ Returned # None /\ call.file # None /\ Compared # <<>> =>
        LET last == Compared[Len(Compared)]
            rebuilt == Reconstruct(call.input, Bootstrap)
        IN  /\ \A i \in DOMAIN Events : Events[i].last <= last.last_update_id
            /\ \A i \in DOMAIN call.input.records : call.input.records[i].kind # "connection_gap"
            /\ \A i \in Frames(call.input.records) : Inband(call.input.records[i]) = None
            => Returned.checks[Len(Compared)] = Mismatches(rebuilt.book, last, call.limit)
=============================================================================
