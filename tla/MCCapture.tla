------------------------------ MODULE MCCapture ------------------------------
(***************************************************************************)
(* A book channel whose frames have spans that continue, overlap, jump,    *)
(* repeat and reach MaxId, with a trade fanout; and the book channel alone *)
(* with frames that have no span between them.                             *)
(***************************************************************************)
EXTENDS Check

MCSpan(f, l) == [first |-> f, last |-> l]

MCBookAndTrades == <<{MCSpan(1, 1), MCSpan(2, 3), MCSpan(3, 3)}, {NoSpan}>>

MCBook == <<{MCSpan(1, 1), MCSpan(2, 3), MCSpan(3, 3), NoSpan}>>
=============================================================================
