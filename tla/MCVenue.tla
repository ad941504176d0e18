------------------------------- MODULE MCVenue -------------------------------
(***************************************************************************)
(* A venue with four updates after its first book.  Bid 1 changes twice    *)
(* (removed by update 2, back with another quantity at 4), so a level's    *)
(* old and new values can be told apart; the last id is MaxId.             *)
(***************************************************************************)
EXTENDS OrderBook, SequencesExt

MCLevel(s, p, q) == [side |-> s, price |-> p, quantity |-> q]

MCUpdates == <<MCLevel("bid", 2, 1), MCLevel("bid", 1, 0),
               MCLevel("ask", 3, 2), MCLevel("bid", 1, 2)>>

MCTruth ==
    LET first == [EmptyBook EXCEPT !["bid"][1] = 1, !["ask"][3] = 1]
        after[i \in 0..4] ==
            IF i = 0 THEN first
            ELSE [after[i - 1] EXCEPT ![MCUpdates[i].side][MCUpdates[i].price]
                                         = MCUpdates[i].quantity]
    IN  after

\* Levels of a set in the order frames list them.
MCListed(levels) ==
    SetToSeq({l \in levels : l.side = "bid"}) \o SetToSeq({l \in levels : l.side = "ask"})

\* The event of every span, listing just the levels the span touched.
MCSpan(f, l) ==
    [first |-> f, last |-> l,
     diff |-> MCListed({MCLevel(MCUpdates[i].side, MCUpdates[i].price,
                                MCTruth[l][MCUpdates[i].side][MCUpdates[i].price]) : i \in f..l})]

\* An event whose first level is fine and whose second is refused.
MCCorruptEvents ==
    {[first |-> i, last |-> i,
      diff |-> MCSpan(i, i).diff \o <<MCLevel("ask", 3, -1)>>] : i \in {2, 4}}

MCTrueEvents == {MCSpan(ij[1], ij[2]) : ij \in {x \in (1..4) \X (1..4) : x[1] <= x[2]}}

MCEvents == MCTrueEvents \cup MCCorruptEvents

MCBookAt(i) ==
    MCListed({MCLevel(s, p, MCTruth[i][s][p]) : s \in Sides, p \in Prices}
                 \cap Storable)

\* A snapshot of every id, one that is crossed and one with a refused level.
MCTrueSnapshots == {[last_update_id |-> i, levels |-> MCBookAt(i)] : i \in 0..4}

MCSnapshots ==
    MCTrueSnapshots \cup
    {[last_update_id |-> 2, levels |-> <<MCLevel("bid", 3, 1), MCLevel("ask", 3, 1)>>],
     [last_update_id |-> 3, levels |-> <<MCLevel("bid", 1, 1), MCLevel("bid", 0, 1)>>]}
=============================================================================
