-------------------------------- MODULE Feed --------------------------------
(***************************************************************************)
(* The venue adapters of crates/astra-record/src/feed.rs: which streams    *)
(* exist and how they are asked for, which channel a combined stream's     *)
(* name stands for, and what each venue's payload decodes to.              *)
(*                                                                         *)
(* A payload is the record of the JSON fields it has.  serde decodes a     *)
(* struct when every field it names is there; the fields it does not name  *)
(* are passed over.  A decoder that fails gives None.                      *)
(***************************************************************************)
EXTENDS Integers, Sequences, FiniteSets, Option

Venues == {"binance", "bybit", "coinbase"}
MarketTypes == {"spot", "perp_usdt"}
Channels == {"book_diff", "book_snapshot", "trade", "book_ticker", "funding",
             "open_interest", "liquidation"}

-----------------------------------------------------------------------------
\* Streams.  A name is the sequence of its parts between the @ signs; the
\* symbol, stripped of its slash and never empty, is one part.
BinanceSuffix == [
    book_diff |-> <<"depth", "100ms">>,
    book_snapshot |-> <<"depth10", "100ms">>,
    trade |-> <<"trade">>,
    book_ticker |-> <<"bookTicker">>,
    funding |-> <<"markPrice", "1s">>,
    liquidation |-> <<"forceOrder">>]

\* binance_stream_name; None is FeedError::NotImplemented.
BinanceStreamName(symbol, market, channel) ==
    IF \/ channel \in {"book_diff", "book_snapshot", "trade", "book_ticker"}
       \/ market = "perp_usdt" /\ channel \in {"funding", "liquidation"}
    THEN <<symbol>> \o BinanceSuffix[channel]
    ELSE None

BybitStreams(market) ==
    {"book_diff", "trade"} \cup (IF market = "perp_usdt" THEN {"liquidation"} ELSE {})

CoinbaseStreams(market) == IF market = "spot" THEN {"trade", "book_ticker"} ELSE {}

\* stream_url: the host, and on Binance the stream.
StreamUrl(venue, market, symbol, channel) ==
    IF venue = "binance"
    THEN IF BinanceStreamName(symbol, market, channel) = None THEN None
         ELSE [host |-> <<venue, market>>, streams |-> <<BinanceStreamName(symbol, market, channel)>>]
    ELSE IF channel \in (IF venue = "bybit" THEN BybitStreams(market) ELSE CoinbaseStreams(market))
         THEN [host |-> <<venue, market>>, streams |-> <<>>]
    ELSE None

\* subscribe_message: the topic asked for once connected.
SubscribeMessage(venue, market, symbol, channel) ==
    IF \/ venue = "bybit" /\ channel \in {"book_diff", "trade"}
       \/ venue = "bybit" /\ channel = "liquidation" /\ market = "perp_usdt"
       \/ venue = "coinbase" /\ channel \in {"trade", "book_ticker"}
    THEN <<channel, symbol>>
    ELSE None

\* combined_stream_url.
CombinedStreamUrl(venue, market, symbol, channels) ==
    LET names == [i \in DOMAIN channels |-> BinanceStreamName(symbol, market, channels[i])]
    IN  IF \/ venue # "binance"
           \/ channels = <<>>
           \/ \E i \in DOMAIN names : names[i] = None
           \/ \E i, j \in DOMAIN names : i # j /\ names[i] = names[j]
        THEN None
        ELSE [host |-> <<venue, market>>, streams |-> names]

\* Mutant of EndsWith: the end of the name is enough.
EndsWith_any_part(stream, suffix) == stream[Len(stream)] = suffix[Len(suffix)]

\* The name ends with the suffix and the @ in front of it.
EndsWith(stream, suffix) ==
    /\ Len(stream) > Len(suffix)
    /\ SubSeq(stream, Len(stream) - Len(suffix) + 1, Len(stream)) = suffix

\* channel_for_stream, its tests in order.
ChannelForStream(stream) ==
    IF EndsWith(stream, <<"depth10", "100ms">>) THEN "book_snapshot"
    ELSE IF \/ EndsWith(stream, <<"depth", "100ms">>)
            \/ stream = <<"depth">>
            \/ EndsWith(stream, <<"depth">>)
         THEN "book_diff"
    ELSE IF EndsWith(stream, <<"trade">>) THEN "trade"
    ELSE IF EndsWith(stream, <<"bookTicker">>) THEN "book_ticker"
    ELSE IF EndsWith(stream, <<"markPrice", "1s">>) THEN "funding"
    ELSE IF EndsWith(stream, <<"forceOrder">>) THEN "liquidation"
    ELSE None

-----------------------------------------------------------------------------
Has(payload, fields) == fields \subseteq DOMAIN payload

\* unwrap_combined.
UnwrapCombined(payload) ==
    IF Has(payload, {"stream", "data"})
    THEN [stream |-> payload.stream, data |-> payload.data]
    ELSE None

\* BybitOrderbook: all of the book or none of it.
BybitBook(payload) == Has(payload, {"b", "a", "u"})

\* update_span.  Bybit has one version number a frame.
UpdateSpan(venue, channel, payload) ==
    IF channel # "book_diff" THEN None
    ELSE IF venue = "binance" /\ Has(payload, {"U", "u"}) THEN [first |-> payload.U, last |-> payload.u]
    ELSE IF venue = "bybit" /\ BybitBook(payload) THEN [first |-> payload.u, last |-> payload.u]
    ELSE None

\* book_diff.
DecodeDiff(venue, channel, payload) ==
    IF channel # "book_diff" THEN None
    ELSE IF \/ venue = "binance" /\ Has(payload, {"b", "a"})
            \/ venue = "bybit" /\ BybitBook(payload)
         THEN [bids |-> payload.b, asks |-> payload.a]
    ELSE None

\* book_snapshot, and load_snapshot_file, which takes any file for one of Binance's.
BookSnapshot(venue, channel, payload) ==
    IF venue = "binance" /\ channel = "book_snapshot" /\ Has(payload, {"lastUpdateId", "bids", "asks"})
    THEN [last_update_id |-> payload.lastUpdateId, bids |-> payload.bids, asks |-> payload.asks]
    ELSE None

\* inband_snapshot.
InbandSnapshot(venue, channel, payload) ==
    IF venue = "bybit" /\ channel = "book_diff" /\ BybitBook(payload)
       /\ Has(payload, {"type"}) /\ payload.type = "snapshot"
    THEN [last_update_id |-> payload.u, bids |-> payload.b, asks |-> payload.a]
    ELSE None

\* exchange_time.
ExchangeTime(venue, channel, payload) ==
    IF venue = "binance" /\ channel = "book_diff" /\ Has(payload, {"E"}) THEN payload.E ELSE None

\* normalize_side: a label the venue does not use is no side.
NormalizeSide(side) ==
    IF side \in {"buy", "Buy", "BUY"} THEN "Buy"
    ELSE IF side \in {"sell", "Sell", "SELL"} THEN "Sell"
    ELSE None

\* The fields a trade of each venue must have.
TradeFields == [
    binance |-> {"t", "p", "q", "m", "T"},
    bybit |-> {"T", "S", "v", "p", "i"},
    coinbase |-> {"trade_id", "price", "size", "side", "time"}]

TradePrint(id, price, quantity, side, time) ==
    [trade_id |-> id, price |-> price, quantity |-> quantity, side |-> side, ts_exchange |-> time]

\* binance_trade: m says that the buyer was the maker, so the seller took.
BinanceTrade(t) == TradePrint(t.t, t.p, t.q, IF t.m THEN "Sell" ELSE "Buy", t.T)
BybitTrade(t) == TradePrint(t.i, t.p, t.v, NormalizeSide(t.S), t.T)
\* The time is text: None when it is not a date.
CoinbaseTrade(t) == TradePrint(t.trade_id, t.price, t.size, NormalizeSide(t.side), t.time)

\* trade_prints.  Bybit sends a bundle, which may be empty, and one bad trade in
\* it spoils them all.
TradePrints(venue, channel, payload) ==
    IF channel # "trade" THEN None
    ELSE IF venue = "bybit"
         THEN IF /\ Has(payload, {"data"})
                 /\ \A i \in DOMAIN payload.data : Has(payload.data[i], TradeFields.bybit)
              THEN [i \in DOMAIN payload.data |-> BybitTrade(payload.data[i])]
              ELSE None
    ELSE IF ~Has(payload, TradeFields[venue]) THEN None
    ELSE <<IF venue = "binance" THEN BinanceTrade(payload) ELSE CoinbaseTrade(payload)>>

\* top_of_book: all four values or nothing; only Coinbase sends a time.
TopOfBook(venue, channel, payload) ==
    IF channel # "book_ticker" THEN None
    ELSE IF venue = "binance" /\ Has(payload, {"b", "B", "a", "A"})
         THEN [best_bid |-> payload.b, best_bid_qty |-> payload.B,
               best_ask |-> payload.a, best_ask_qty |-> payload.A, ts_exchange |-> None]
    ELSE IF venue = "coinbase"
            /\ Has(payload, {"best_bid", "best_bid_size", "best_ask", "best_ask_size", "time"})
         THEN [best_bid |-> payload.best_bid, best_bid_qty |-> payload.best_bid_size,
               best_ask |-> payload.best_ask, best_ask_qty |-> payload.best_ask_size,
               ts_exchange |-> payload.time]
    ELSE None
=============================================================================
