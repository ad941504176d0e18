------------------------------- MODULE Tables -------------------------------
(***************************************************************************)
(* What becomes of one capture record on the two roads to a strategy:      *)
(*   raw         feed_record of crates/astra-replay/src/replay.rs;         *)
(*   normalized  the rows of crates/astra-normalize/src/normalize.rs, the  *)
(*               columns they are stored in, and the events that           *)
(*               crates/astra-replay/src/normalized.rs reads back.         *)
(*                                                                         *)
(* A row is the record of its columns, None where a column is null.  The   *)
(* columns that only name the capture (venue, market_type, symbol,         *)
(* capture_id, flags) are left out: nothing reads them back.               *)
(***************************************************************************)
EXTENDS Feed

CONSTANTS
    VenueOf,     \* VenueOf[i] is the venue of instrument i
    DecimalMax,  \* DECIMAL_MAX_RAW
    Day          \* nanoseconds of a day

Instruments == DOMAIN VenueOf

\* TABLE_DIFF, TABLE_TRADE, TABLE_TOPBOOK: the tables in their order.
Tables == <<"diff", "trade", "topbook">>
TableNames == {"diff", "trade", "topbook"}

ASSUME TablesAssumption ==
    /\ Instruments \subseteq Nat /\ \A i \in Instruments : VenueOf[i] \in Venues
    /\ DecimalMax \in Nat /\ Day \in Nat \ {0}
    /\ None \notin Int \cup BOOLEAN \cup TableNames

\* The table of a channel, or None for the channels that are skipped.
TableOf(channel) ==
    IF channel = "book_diff" THEN "diff"
    ELSE IF channel = "trade" THEN "trade"
    ELSE IF channel = "book_ticker" THEN "topbook"
    ELSE None

MarkerFields == {"reason", "attempts", "started_at", "ended_at"}

\* A payload that is a GapMarker: it has every field, and none is null.
IsMarker(payload) ==
    Has(payload, MarkerFields) /\ \A field \in MarkerFields : payload[field] # None

-----------------------------------------------------------------------------
\* The columns of two rows, the first's where both have one.
Joined(row, other) ==
    [column \in DOMAIN row \cup DOMAIN other |->
        IF column \in DOMAIN row THEN row[column] ELSE other[column]]

\* The columns all tables have, of a record that is not a marker.
BaseRow(r) ==
    [seq |-> r.seq, ts_socket |-> r.ts_socket, ts_exchange |-> r.ts_exchange, ts_ready |-> None,
     synthetic |-> r.synthetic, gap_reason |-> None, gap_attempts |-> None,
     gap_started |-> None, gap_ended |-> None]

\* Mutant of WithMarker: the last column is left null.
WithMarker_without_end(row, m) ==
    [row EXCEPT !.gap_reason = m.reason, !.gap_attempts = m.attempts,
                !.gap_started = m.started_at]

WithMarker(row, m) ==
    [row EXCEPT !.gap_reason = m.reason, !.gap_attempts = m.attempts,
                !.gap_started = m.started_at, !.gap_ended = m.ended_at]

\* Both halves of a frame or neither.
DiffContent(span, diff) ==
    IF span # None /\ diff # None
    THEN [first_update_id |-> span.first, last_update_id |-> span.last,
          bids |-> diff.bids, asks |-> diff.asks]
    ELSE [first_update_id |-> None, last_update_id |-> None, bids |-> None, asks |-> None]

\* book_diff_row, once the marker is seen to.
DiffRow(r) ==
    LET venue == VenueOf[r.instrument]
        time == IF r.ts_exchange # None THEN r.ts_exchange
                ELSE ExchangeTime(venue, r.channel, r.payload)
        content == IF r.synthetic THEN DiffContent(None, None)
                   ELSE DiffContent(UpdateSpan(venue, r.channel, r.payload),
                                    DecodeDiff(venue, r.channel, r.payload))
    IN  Joined(content, [BaseRow(r) EXCEPT !.ts_exchange = time])

\* A row of the trade table without a print, and with one.
NullPrint == [trade_id |-> None, price |-> None, quantity |-> None, side |-> None, print_index |-> 0]

PrintRow(r, print, index) ==
    Joined([trade_id |-> print.trade_id, price |-> print.price, quantity |-> print.quantity,
            side |-> print.side, print_index |-> index],
           [BaseRow(r) EXCEPT !.ts_exchange = IF print.ts_exchange # None THEN print.ts_exchange ELSE @])

\* trade_rows_for: one row a print, none for an empty bundle.
TradeRows(r) ==
    LET prints == IF r.synthetic THEN None
                  ELSE TradePrints(VenueOf[r.instrument], r.channel, r.payload)
    IN  IF prints = None THEN <<Joined(NullPrint, BaseRow(r))>>
        ELSE [i \in DOMAIN prints |-> PrintRow(r, prints[i], i - 1)]

\* top_book_row.
TopRow(r) ==
    LET decoded == IF r.synthetic THEN None
                   ELSE TopOfBook(VenueOf[r.instrument], r.channel, r.payload)
        top == IF decoded # None THEN decoded
               ELSE [best_bid |-> None, best_bid_qty |-> None, best_ask |-> None,
                     best_ask_qty |-> None, ts_exchange |-> None]
        base == BaseRow(r)
    IN  Joined([base EXCEPT !.ts_exchange = IF top.ts_exchange # None THEN top.ts_exchange ELSE @], top)

\* A record that stands for a gap and does not decode as one; the rows of another, none
\* on a channel that has no table.
BadMarker(r) == r.synthetic /\ ~IsMarker(r.payload)
RowsOf(r) ==
    LET table == TableOf(r.channel)
        rows == IF table = "diff" THEN <<DiffRow(r)>>
                ELSE IF table = "trade" THEN TradeRows(r)
                ELSE IF table = "topbook" THEN <<TopRow(r)>>
                ELSE <<>>
    IN  IF r.synthetic THEN <<WithMarker(rows[1], r.payload)>> ELSE rows

-----------------------------------------------------------------------------
\* What is wrong with a value, the checks in their order.
PriceFault(price) ==
    IF price = None THEN None
    ELSE IF price <= 0 THEN "non-positive price"
    ELSE IF price > DecimalMax THEN "beyond decimal"
    ELSE None

QuantityFault(quantity) ==
    IF quantity = None THEN None
    ELSE IF quantity < 0 THEN "negative quantity"
    ELSE IF quantity > DecimalMax THEN "beyond decimal"
    ELSE None

\* A level is checked for its signs before its size.
LevelFault(level) ==
    IF PriceFault(level[1]) = "non-positive price" THEN PriceFault(level[1])
    ELSE IF QuantityFault(level[2]) # None THEN QuantityFault(level[2])
    ELSE PriceFault(level[1])

FirstFault(faults) ==
    LET bad == {i \in DOMAIN faults : faults[i] # None}
    IN  IF bad = {} THEN None ELSE faults[CHOOSE i \in bad : \A j \in bad : i <= j]

\* check_diff_row, check_trade_row and check_top_book_row, but for the keys.
DiffFault(row) ==
    IF row.bids = None THEN None
    ELSE FirstFault([i \in DOMAIN row.bids |-> LevelFault(row.bids[i])] \o
                    [i \in DOMAIN row.asks |-> LevelFault(row.asks[i])])
TradeFault(row) ==
    FirstFault(<<IF row.side \in {None, "Buy", "Sell"} THEN None ELSE "non-canonical side",
                 PriceFault(row.price), QuantityFault(row.quantity)>>)
TopBookFault(row) ==
    FirstFault(<<PriceFault(row.best_bid), PriceFault(row.best_ask),
                 QuantityFault(row.best_bid_qty), QuantityFault(row.best_ask_qty)>>)
RowFault(table, row) ==
    IF table = "diff" THEN DiffFault(row)
    ELSE IF table = "trade" THEN TradeFault(row)
    ELSE TopBookFault(row)

\* What a row may not share with an earlier one of its table.
KeyOf(table, row) == <<row.seq, IF table = "trade" THEN row.print_index ELSE 0>>

-----------------------------------------------------------------------------
\* The schemas: the columns that may not be null, and the ones that may.
Required == {"ts_socket", "seq", "synthetic"}
Optional == {"ts_exchange", "ts_ready", "gap_reason", "gap_attempts", "gap_started", "gap_ended"}
BookDiffSchema ==
    [required |-> Required,
     nullable |-> Optional \cup {"first_update_id", "last_update_id", "bids", "asks"}]
TradeSchema ==
    [required |-> Required \cup {"print_index"},
     nullable |-> Optional \cup {"trade_id", "price", "quantity", "side"}]
TopBookSchema ==
    [required |-> Required,
     nullable |-> Optional \cup {"best_bid", "best_bid_qty", "best_ask", "best_ask_qty"}]

\* RecordBatch::try_new: every column is filled, and with values where it must be.
Fits(schema, row) ==
    /\ DOMAIN row = schema.required \cup schema.nullable
    /\ \A column \in schema.required : row[column] # None

DiffRecordBatch(rows) == \A i \in DOMAIN rows : Fits(BookDiffSchema, rows[i])
TradeRecordBatch(rows) == \A i \in DOMAIN rows : Fits(TradeSchema, rows[i])
TopBookRecordBatch(rows) == \A i \in DOMAIN rows : Fits(TopBookSchema, rows[i])
MakesBatch(table, rows) ==
    /\ table = "diff" => DiffRecordBatch(rows)
    /\ table = "trade" => TradeRecordBatch(rows)
    /\ table = "topbook" => TopBookRecordBatch(rows)

-----------------------------------------------------------------------------
\* What a strategy is told: the call and what it is called with.
Gap(ts, marker) == [on |-> "gap", now |-> ts, marker |-> [field \in MarkerFields |-> marker[field]]]
BookDiffEvent(seq, ts, time, first, last, bids, asks) ==
    [on |-> "book_diff", now |-> ts, seq |-> seq, ts_exchange |-> time,
     span |-> <<first, last>>, bids |-> bids, asks |-> asks]
SnapshotEvent(seq, ts, snapshot) ==
    [on |-> "snapshot", now |-> ts, seq |-> seq, snapshot |-> snapshot]
TradeEvent(seq, ts, index, print) ==
    [on |-> "trade", now |-> ts, seq |-> seq, print_index |-> index, trade |-> print]
TopBookEvent(seq, ts, top) == [on |-> "top_of_book", now |-> ts, seq |-> seq, top |-> top]

\* gap_marker: all four gap columns, or an error.
HasGap(row) == None \notin {row.gap_reason, row.gap_attempts, row.gap_started, row.gap_ended}
ReadGap(row) ==
    Gap(row.ts_socket, [reason |-> row.gap_reason, attempts |-> row.gap_attempts,
                        started_at |-> row.gap_started, ended_at |-> row.gap_ended])

\* read_diff_batch and feed_event: the calls a row makes when read back, none
\* for a row without content.
ReadDiff(row) ==
    IF None \in {row.first_update_id, row.last_update_id} \/ row.bids = None \/ row.asks = None
    THEN <<>>
    ELSE <<BookDiffEvent(row.seq, row.ts_socket, row.ts_exchange,
                         row.first_update_id, row.last_update_id, row.bids, row.asks)>>

\* read_trade_batch and feed_event.
ReadTrade(row) ==
    IF None \in {row.price, row.quantity}
    THEN <<>>
    ELSE <<TradeEvent(row.seq, row.ts_socket, row.print_index,
               TradePrint(row.trade_id, row.price, row.quantity, row.side, row.ts_exchange))>>

\* read_top_batch and feed_event.
ReadTop(row) ==
    IF None \in {row.best_bid, row.best_bid_qty, row.best_ask, row.best_ask_qty}
    THEN <<>>
    ELSE <<TopBookEvent(row.seq, row.ts_socket,
               [best_bid |-> row.best_bid, best_bid_qty |-> row.best_bid_qty,
                best_ask |-> row.best_ask, best_ask_qty |-> row.best_ask_qty,
                ts_exchange |-> row.ts_exchange])>>

\* column and the typed readers on it: a column that is not there is an error, a
\* null in one that is there is None.
HasColumns(row, columns) == Has(row, columns)

\* What each reader asks for.
GapColumns == {"seq", "ts_socket", "synthetic", "gap_reason", "gap_attempts", "gap_started", "gap_ended"}
ReadColumns == [
    diff |-> {"ts_exchange", "first_update_id", "last_update_id", "bids", "asks"},
    trade |-> {"ts_exchange", "trade_id", "price", "quantity", "side", "print_index"},
    topbook |-> {"ts_exchange", "best_bid", "best_bid_qty", "best_ask", "best_ask_qty"}]

\* A row the tree is refused for, and the calls of one that is read.
Refuses(table, row) ==
    \/ ~HasColumns(row, GapColumns \cup ReadColumns[table])
    \/ row.synthetic /\ ~HasGap(row)
ReadRow(table, row) ==
    IF row.synthetic THEN <<ReadGap(row)>>
    ELSE IF table = "diff" THEN ReadDiff(row)
    ELSE IF table = "trade" THEN ReadTrade(row)
    ELSE ReadTop(row)

-----------------------------------------------------------------------------
\* feed_record of the raw replay: the calls of a record that is no bad marker.
RawDiff(r, venue) ==
    LET snapshot == InbandSnapshot(venue, r.channel, r.payload)
        span == UpdateSpan(venue, r.channel, r.payload)
        diff == DecodeDiff(venue, r.channel, r.payload)
    IN  IF snapshot # None THEN <<SnapshotEvent(r.seq, r.ts_socket, snapshot)>>
        ELSE IF span = None \/ diff = None THEN <<>>
        ELSE <<BookDiffEvent(r.seq, r.ts_socket,
                   IF r.ts_exchange # None THEN r.ts_exchange
                   ELSE ExchangeTime(venue, r.channel, r.payload),
                   span.first, span.last, diff.bids, diff.asks)>>

RawTrade(r, venue) ==
    LET prints == TradePrints(venue, r.channel, r.payload)
    IN  IF prints = None THEN <<>>
        ELSE [i \in DOMAIN prints |-> TradeEvent(r.seq, r.ts_socket, i - 1, prints[i])]

RawTop(r, venue) ==
    LET top == TopOfBook(venue, r.channel, r.payload)
    IN  IF top = None THEN <<>> ELSE <<TopBookEvent(r.seq, r.ts_socket, top)>>

FeedRecord(r) ==
    LET venue == VenueOf[r.instrument]
    IN  IF r.synthetic THEN <<Gap(r.ts_socket, r.payload)>>
        ELSE IF TableOf(r.channel) = None THEN <<>>
        ELSE IF r.channel = "trade" THEN RawTrade(r, venue)
        ELSE IF r.channel = "book_ticker" THEN RawTop(r, venue)
        ELSE RawDiff(r, venue)

\* date_of.
DateOf(ts) == ts \div Day
=============================================================================
