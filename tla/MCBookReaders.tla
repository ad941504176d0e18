---------------------------- MODULE MCBookReaders ----------------------------
(***************************************************************************)
(* The venue of MCVenue, with updates whose last level the order book      *)
(* refuses: two that change a best price and two that do not.              *)
(***************************************************************************)
EXTENDS BookReaders, MCVenue

MCRefusedEvents ==
    {[first |-> i, last |-> i,
      diff |-> MCSpan(i, i).diff \o <<MCLevel("ask", 3, -1)>>] : i \in 1..4}

MCReaderEvents == MCTrueEvents \cup MCRefusedEvents
=============================================================================
