--------------------------- MODULE MCCalculations ---------------------------
(***************************************************************************)
(* Numbers of two binary places in a width in which a product of two       *)
(* prices just fits; book messages of up to two levels, refused ones among *)
(* them; lists of up to three channels; records up to one longer than a    *)
(* prefix of two bits can say; and captures of the venue of MCVenue, in    *)
(* any order, with frames that do not decode, decode by halves, or carry a *)
(* refused level, held against snapshots that come out of order.           *)
(***************************************************************************)
EXTENDS Calculations, MCVenue

MCOperands == Raws
MCLiterals ==
    [sign : {"-", "+", ""}, whole : 0..8 \cup {MaxRaw + 1},
     fraction : UNION {[1..n -> Digits] : n \in 0..3}]

MCLevels == {MCLevel(s, p, q) : s \in Sides, p \in 0..2, q \in {-1, 0, 1, 2}}
MCMessages == {m \in UNION {[1..n -> MCLevels] : n \in 0..2} :
                  \A i, j \in DOMAIN m : i < j /\ m[j].side = "bid" => m[i].side = "bid"}

MCChannelLists == UNION {[1..n -> Channels] : n \in 1..3}
MCRecords == UNION {[1..n -> 0..1] : n \in 0..4}
MCRecordLists == UNION {[1..n -> MCRecords] : n \in 0..2}

-----------------------------------------------------------------------------
MCSide(levels, s) == SelectSeq(levels, LAMBDA l : l.side = s)
MCFrame(channel, payload) ==
    [kind |-> "frame", venue |-> "binance", channel |-> channel, payload |-> payload]
MCUpdate(e) ==
    MCFrame("book_diff", [U |-> e.first, u |-> e.last, b |-> MCSide(e.diff, "bid"), a |-> MCSide(e.diff, "ask")])
MCPayload(id) ==
    [lastUpdateId |-> id, bids |-> MCSide(MCBookAt(id), "bid"), asks |-> MCSide(MCBookAt(id), "ask")]
MCHalf == MCFrame("book_diff", [U |-> 1, u |-> 1])
MCGap == [kind |-> "connection_gap"]

MCUpdatesSent == {MCUpdate(e) : e \in {MCSpan(1, 1), MCSpan(1, 2), MCSpan(2, 2), MCSpan(3, 3),
                                       MCSpan(4, 4)} \cup {e \in MCCorruptEvents : e.last = 2}}
MCRecorded == MCUpdatesSent \cup {MCHalf, MCGap}
MCCapture(records) ==
    [records |-> records, frames_written |-> Cardinality({i \in DOMAIN records : records[i].kind = "frame"})]

MCInputs ==
    {MCCapture(r) : r \in UNION {[1..n -> MCRecorded] : n \in 0..4}}
    \cup {[records |-> <<[kind |-> "undecodable"]>>, frames_written |-> 0],
          [records |-> <<MCHalf>>, frames_written |-> 2]}

MCBybit(type, id, levels) ==
    [kind |-> "frame", venue |-> "bybit", channel |-> "book_diff",
     payload |-> [type |-> type, u |-> id, b |-> MCSide(levels, "bid"), a |-> MCSide(levels, "ask")]]
MCJump == [kind |-> "update_id_gap"]
MCInband ==
    {MCBybit("snapshot", id, MCBookAt(id)) : id \in {1, 3}}
    \cup {MCBybit("delta", id, MCSpan(id, id).diff) : id \in 2..4}
    \cup {MCBybit("snapshot", 2, <<MCLevel("bid", 3, 1), MCLevel("ask", 3, 1)>>), MCGap, MCJump}
MCInbandInputs == {MCCapture(r) : r \in UNION {[1..n -> MCInband] : n \in 1..4}}

MCSnapshot(id) == MCFrame("book_snapshot", MCPayload(id))
MCReferences ==
    {MCCapture(r) : r \in {<<>>, <<MCSnapshot(0)>>, <<MCSnapshot(2), MCSnapshot(0)>>,
                           <<MCSnapshot(1), MCHalf, MCSnapshot(3), MCSnapshot(0)>>,
                           <<MCSnapshot(0), MCSnapshot(2), MCSnapshot(4)>>}}
    \cup {[records |-> <<MCSnapshot(0)>>, frames_written |-> 2]}

MCFiles == {None, MCPayload(0), MCPayload(2), [retCode |-> 0]}
=============================================================================
