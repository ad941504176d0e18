------------------------------ MODULE OrderBook ------------------------------
(***************************************************************************)
(* The L2 order book of crates/astra-book/src/lib.rs: two sides, each a    *)
(* map from price to resting quantity, and the two ways a message changes  *)
(* it.  A snapshot replaces the book; a diff overlays it level by level.   *)
(* Both walk their levels in order and stop at the first level they        *)
(* refuse, leaving what was already written where it is.                   *)
(*                                                                         *)
(* The loops of the code are stated here by what they leave behind (the    *)
(* last accepted write to a price wins); module OrderBookLoop walks the    *)
(* levels one at a time and is checked against these operators.            *)
(*                                                                         *)
(* A message is one sequence of levels, its bids before its asks, which is *)
(* the order both loops take.                                              *)
(***************************************************************************)
EXTENDS Integers, Sequences, FiniteSetsExt

CONSTANTS
    Prices,      \* the prices a level may be stored under
    Quantities   \* the quantities a level may be stored with

ASSUME BookAssumption ==
    /\ Prices \subseteq Nat \ {0}
    /\ Quantities \subseteq Nat \ {0}

Sides == {"bid", "ask"}

\* A price without an entry in the BTreeMap of its side.
Absent == 0

Book == [Sides -> [Prices -> Quantities \cup {Absent}]]

EmptyBook == [s \in Sides |-> [p \in Prices |-> Absent]]

\* Levels as frames carry them: Fixed is signed, so a price of zero and a
\* negative quantity decode like any other number.
Level == [side : Sides, price : Prices \cup {0}, quantity : Quantities \cup {0, -1}]

\* set_level refuses a level outside this set, apply_level outside the next:
\* only a diff may carry quantity zero, which removes the level.
Storable == {l \in Level : l.price > 0 /\ l.quantity > 0}
Appliable == {l \in Level : l.price > 0 /\ l.quantity >= 0}

\* The indices a walk that accepts the levels in ok gets through before it stops.
Walked(levels, ok) == {i \in DOMAIN levels : \A j \in 1..i : levels[j] \in ok}

\* The walk returns Ok(()).
Accepted(levels, ok) == \A i \in DOMAIN levels : levels[i] \in ok

\* What the walk wrote to price p of side s, oldest first.
Writes(levels, ok, s, p) ==
    {i \in Walked(levels, ok) : levels[i].side = s /\ levels[i].price = p}

\* The book a walk over levels leaves behind, refused level or not.
Overlay(book, levels, ok) ==
    [s \in Sides |-> [p \in Prices |->
        IF Writes(levels, ok, s, p) = {}
        THEN book[s][p]
        ELSE levels[Max(Writes(levels, ok, s, p))].quantity]]

Quoted(book, s) == {p \in Prices : book[s][p] # Absent}

\* best_bid and best_ask, for a side that has any level.
BestPrice(book, s) == IF s = "bid" THEN Max(Quoted(book, s)) ELSE Min(Quoted(book, s))

IsCrossed(book) ==
    /\ \A s \in Sides : Quoted(book, s) # {}
    /\ BestPrice(book, "bid") >= BestPrice(book, "ask")

\* OrderBook::load_snapshot.  The book is cleared before the first level is
\* looked at, so no outcome leaves the previous book in place.
LoadOk(levels) ==
    /\ Accepted(levels, Storable)
    /\ ~IsCrossed(Overlay(EmptyBook, levels, Storable))

LoadedBook(levels) ==
    IF Accepted(levels, Storable) /\ ~LoadOk(levels)
    THEN EmptyBook
    ELSE Overlay(EmptyBook, levels, Storable)

\* OrderBook::apply_diff.
ApplyOk(levels) == Accepted(levels, Appliable)
AppliedBook(book, levels) == Overlay(book, levels, Appliable)

\* What venues promise of a diff, when truth[i] is the venue's book after update i:
\* a span says where every level that it changed ended up.  It may list other
\* levels too, with their values.
Faithful(truth, e) ==
    /\ e.first >= 1
    /\ e.first <= e.last
    /\ \A i \in DOMAIN e.diff :
          e.diff[i] \in Appliable =>
              e.diff[i].quantity = truth[e.last][e.diff[i].side][e.diff[i].price]
    /\ \A j \in e.first - 1 .. e.last, s \in Sides, p \in Prices :
          truth[j][s][p] # truth[e.last][s][p] =>
              \E i \in DOMAIN e.diff : e.diff[i].side = s /\ e.diff[i].price = p
=============================================================================
