----------------------------- MODULE MCNormalize -----------------------------
(***************************************************************************)
(* Captures of three records: of every shape the venues' frames decode to, *)
(* half-parsable ones, odd sides, empty and spoiled bundles included; of   *)
(* records unsound each in a way of its own, in three tables, on two days, *)
(* cut into chunks in every way; and damaged ones.                         *)
(***************************************************************************)
EXTENDS Replays

MCVenueOf == <<"binance", "bybit", "coinbase">>

Entry(instrument, channel, synthetic, payload) ==
    [instrument |-> instrument, channel |-> channel, synthetic |-> synthetic, payload |-> payload]

Marker == [reason |-> "update_id_gap", attempts |-> 0, started_at |-> 1, ended_at |-> 2]
Levels == <<<<2, 1>>>>
Depth(price) == [U |-> 1, u |-> 2, b |-> <<<<price, 1>>>>, a |-> <<>>, E |-> 7]
Trade(price, side) == [T |-> 7, S |-> side, v |-> 1, p |-> price, i |-> "id"]
Bundle(trades) == Entry(2, "trade", FALSE, [data |-> trades])
Ticker(price) == Entry(1, "book_ticker", FALSE, [b |-> price, B |-> 0, a |-> 3, A |-> 1])

Diff == Entry(1, "book_diff", FALSE, Depth(2))
DiffMarker == Entry(1, "book_diff", TRUE, Marker)

MCSound == {Diff, DiffMarker, Bundle(<<Trade(1, "Sell"), Trade(2, "Sell")>>), Ticker(2)}

MCUnsound == {
    Entry(1, "book_diff", FALSE, Depth(0)),
    Entry(1, "trade", TRUE, [reason |-> "torn"]),
    Bundle(<<Trade(1, "Sell"), Trade(9, "Sell")>>),
    Ticker(0),
    Entry(1, "funding", FALSE, [r |-> 1])}

MCShapes == {
    Diff, DiffMarker, Ticker(2),
    Entry(1, "book_diff", FALSE, [U |-> 1, u |-> 2]),
    Entry(1, "book_diff", FALSE, [b |-> <<>>, a |-> Levels, E |-> 7]),
    Entry(2, "book_diff", FALSE, [type |-> "delta", b |-> Levels, a |-> <<>>, u |-> 3]),
    Entry(2, "book_diff", FALSE, [type |-> "snapshot", b |-> Levels, a |-> <<>>, u |-> 1]),
    Entry(1, "trade", FALSE, [t |-> 4, p |-> 2, q |-> 1, m |-> TRUE, T |-> 7]),
    Bundle(<<Trade(2, "Buy"), Trade(2, "Block")>>),
    Bundle(<<>>),
    Bundle(<<Trade(2, "Buy"), [T |-> 7]>>),
    Entry(2, "trade", TRUE, Marker),
    Entry(3, "trade", FALSE, [trade_id |-> 5, price |-> 2, size |-> 1, side |-> "buy", time |-> None]),
    Entry(1, "book_ticker", FALSE, [b |-> 2, a |-> 3, A |-> 1]),
    Entry(3, "book_ticker", FALSE, [best_bid |-> 2, best_bid_size |-> 1, best_ask |-> 3,
                                    best_ask_size |-> 1, time |-> 7])}

At(entry, seq, ts) ==
    [instrument |-> entry.instrument, channel |-> entry.channel, synthetic |-> entry.synthetic,
     payload |-> entry.payload, seq |-> seq, ts_socket |-> ts, ts_exchange |-> None]

\* The records 1..n cut in front of the positions in cuts.
Cut(records, cuts, torn) ==
    LET starts == SetToSortSeq({1} \cup cuts, <)
        end(i) == IF i = Len(starts) THEN Len(records) ELSE starts[i + 1] - 1
    IN  [i \in DOMAIN starts |->
            [intact |-> i # torn, records |-> SubSeq(records, starts[i], end(i))]]

CaptureOf(es, seqs, ts, cuts, torn, off) ==
    LET records == [i \in DOMAIN es |-> At(es[i], seqs[i], ts[i])]
    IN  [readable |-> TRUE, chunks |-> Cut(records, cuts, torn),
         frames_written |-> Len(SelectSeq(records, LAMBDA r : ~r.synthetic)) + off]

\* The last record is on another day.
MCJudged ==
    {CaptureOf(es, seqs, <<1, 2, 11>>, cuts, 0, 0) :
        es \in [1..3 -> MCSound \cup MCUnsound], seqs \in {<<0, 1, 2>>, <<0, 1, 0>>},
        cuts \in {{}, {2}, {2, 3}}}

MCReplayed == {CaptureOf(es, <<0, 1, 2>>, <<1, 2, 11>>, {3}, 0, 0) : es \in [1..3 -> MCShapes]}

\* Sound records, with all that can be wrong around them; the second record is on
\* the day of either neighbour.
MCReused ==
    {CaptureOf(es, <<0, 1, 2>>, ts, cuts, torn, off) :
        es \in {<<Diff, Diff, Diff>>, <<Ticker(2), Diff, Ticker(2)>>},
        ts \in {<<1, 2, 11>>, <<1, 11, 12>>}, cuts \in {{}, {3}, {2, 3}}, torn \in {0, 2}, off \in {0, 1}}
    \cup {[readable |-> FALSE, chunks |-> <<>>, frames_written |-> 0]}

MCCaptures == MCJudged \cup MCReplayed \cup MCReused
=============================================================================
