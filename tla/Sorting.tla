------------------------------- MODULE Sorting -------------------------------
(***************************************************************************)
(* sort, of what is in a strict order.                                     *)
(***************************************************************************)
EXTENDS Integers, FiniteSets

\* What sort leaves of a set: its elements by how many come before them; earlier[x] is
\* the set of those that come before x.
Sorted(earlier) ==
    [i \in 1..Cardinality(DOMAIN earlier) |->
        CHOOSE x \in DOMAIN earlier : Cardinality(earlier[x]) = i - 1]
=============================================================================
