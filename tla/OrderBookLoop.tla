---------------------------- MODULE OrderBookLoop ----------------------------
(***************************************************************************)
(* OrderBook::load_snapshot and OrderBook::apply_diff as the code runs     *)
(* them: level by level, until one is refused.  Module Calculations        *)
(* compares what they leave behind with the operators of OrderBook, which  *)
(* the other modules use for a whole call.                                 *)
(***************************************************************************)
EXTENDS OrderBook

\* Mutant of RefusedByLoad: quantity zero is let through, as in a diff.
RefusedByLoad_as_diff(level) == level.price <= 0 \/ level.quantity < 0

\* The guards of set_level.
RefusedByLoad(level) == level.price <= 0 \/ level.quantity <= 0

\* The guards of apply_level.
RefusedByDiff(level) == level.price <= 0 \/ level.quantity < 0

\* A loop over the levels: the book after each, as long as none is refused.  To
\* store zero and to remove the entry are one.
Walk(start, levels, Refused(_)) ==
    LET after[i \in 0..Len(levels)] ==
            IF i = 0 THEN [book |-> start, ok |-> TRUE]
            ELSE IF ~after[i - 1].ok \/ Refused(levels[i]) THEN [after[i - 1] EXCEPT !.ok = FALSE]
            ELSE [after[i - 1] EXCEPT !.book[levels[i].side][levels[i].price] = levels[i].quantity]
    IN  after[Len(levels)]

\* The book is cleared first, and once more when it turns out to be crossed.
LoadLoop(levels) ==
    LET walk == Walk(EmptyBook, levels, RefusedByLoad)
    IN  IF walk.ok /\ IsCrossed(walk.book) THEN [book |-> EmptyBook, ok |-> FALSE] ELSE walk

ApplyLoop(book, levels) == Walk(book, levels, RefusedByDiff)
=============================================================================
