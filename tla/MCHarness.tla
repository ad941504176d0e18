------------------------------ MODULE MCHarness ------------------------------
(***************************************************************************)
(* One capture at three moments of its life and another one; one config in *)
(* two texts of different length, one of the other strategy, one that does *)
(* not parse.                                                              *)
(***************************************************************************)
EXTENDS Harness, TLC

Diff == [on |-> "diff"]
Trade(side, price) == [on |-> "trade", side |-> side, price |-> price]

\* One capture as it begins, before its first chunk is indexed; with chunks and no
\* final manifest; and at its end.  And another.
Begun == [id |-> "a", frames |-> 0, replayable |-> TRUE, calls |-> <<>>]
Recording == [id |-> "a", frames |-> 0, replayable |-> FALSE, calls |-> <<>>]
Ended ==
    [id |-> "a", frames |-> 6, replayable |-> TRUE,
     calls |-> <<Diff, Trade("Buy", 3), [on |-> "gap"], Diff, [on |-> "snapshot"], Trade("Sell", 1)>>]
Other ==
    [id |-> "b", frames |-> 2, replayable |-> TRUE, calls |-> <<Trade(None, 1), [on |-> "diff_with_hole"]>>]
MCCaptures == {Begun, Recording, Ended, Other}

Config(strategy) ==
    [version |-> 1, strategy |-> strategy, seed |-> 7,
     probes |-> <<[side |-> "buy", price |-> 2], [side |-> "sell", price |-> 3]>>]

\* One config in two texts, the other strategy, and a text that is no config.
Short == [length |-> 2, config |-> Config("book-top")]
Long == [length |-> 3, config |-> Config("book-top")]
Tally == [length |-> 2, config |-> Config("trade-tally")]
Malformed == [length |-> 1, config |-> None]
MCTexts == {Short, Long, Tally, Malformed}

MCSweeps == {<<Short>>, <<Long>>, <<Tally, Long>>, <<Tally, Malformed>>}
MCSymmetry == Permutations(Processes)
=============================================================================
