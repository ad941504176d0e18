-------------------------- MODULE Calculations_proofs --------------------------
(***************************************************************************)
(* What every call of module Calculations answers, for every input: that   *)
(* the loops of OrderBook are overlays, that the arithmetic of Fixed is    *)
(* exact, that streams and framed records come back as they were, and what *)
(* verify and reconstruct make of two captures.                            *)
(*                                                                         *)
(* AnswerInv says that the answer is what the function gives for the call; *)
(* the rest is about the functions.  A function that the code computes in  *)
(* a loop is a recursive function here: that it is there is cited from     *)
(* RepetitionThere, and what it has after each turn is an induction over   *)
(* the turns (InductionUpTo).                                              *)
(***************************************************************************)
EXTENDS Calculations, SequenceLemmas

-----------------------------------------------------------------------------
(* What a walk over levels leaves behind.                                  *)

\* The last write to a price was accepted, and was to that price.
LEMMA LastWrite ==
    ASSUME NEW levels \in Seq(Level), NEW ok, NEW s, NEW p,
           Writes(levels, ok, s, p) # {}
    PROVE  LET m == Max(Writes(levels, ok, s, p))
           IN  /\ m \in DOMAIN levels
               /\ levels[m] \in ok
               /\ levels[m].side = s /\ levels[m].price = p
<1>1. Writes(levels, ok, s, p) \in SUBSET (1..Len(levels))
  BY DEF Writes, Walked
<1>2. Len(levels) \in Nat
  OBVIOUS
<1>3. Max(Writes(levels, ok, s, p)) \in Writes(levels, ok, s, p)
  BY <1>1, <1>2, GreatestIndex
<1> QED
  BY <1>3 DEF Writes, Walked

\* A walk that refuses negative quantities keeps a book a book.
LEMMA OverlayType ==
    ASSUME NEW b \in Book, NEW levels \in Seq(Level), NEW ok \in SUBSET Appliable
    PROVE  Overlay(b, levels, ok) \in Book
<1>1. ASSUME NEW s \in Sides, NEW p \in Prices, Writes(levels, ok, s, p) # {}
      PROVE  levels[Max(Writes(levels, ok, s, p))].quantity \in Quantities \cup {Absent}
  <2>1. levels[Max(Writes(levels, ok, s, p))] \in Appliable
    BY <1>1, LastWrite
  <2> QED
    BY <2>1 DEF Appliable, Level, Absent
<1>2. \A s \in Sides, p \in Prices : b[s][p] \in Quantities \cup {Absent}
  BY DEF Book
<1> QED
  BY <1>1, <1>2 DEF Overlay, Book

LEMMA EmptyBookType == EmptyBook \in Book
BY DEF EmptyBook, Book

\* Storable levels are appliable, so a loaded book is a book.
LEMMA LoadedBookType ==
    ASSUME NEW levels \in Seq(Level)
    PROVE  LoadedBook(levels) \in Book
<1>1. ASSUME NEW l \in Storable
      PROVE  l \in Appliable
  <2>1. l \in Level /\ l.price > 0 /\ l.quantity > 0
    BY DEF Storable
  <2>2. l.quantity \in Quantities \cup {0, -1}
    BY <2>1 DEF Level
  <2>3. \A q \in Quantities : q >= 0
    BY BookAssumption
  <2> QED
    BY <2>1, <2>2, <2>3 DEF Appliable
<1>2. Overlay(EmptyBook, levels, Storable) \in Book
  BY <1>1, EmptyBookType, OverlayType
<1> QED
  BY <1>2, EmptyBookType DEF LoadedBook

LEMMA AppliedBookType ==
    ASSUME NEW b \in Book, NEW levels \in Seq(Level)
    PROVE  AppliedBook(b, levels) \in Book
BY OverlayType DEF AppliedBook

\* A faithful event that follows on from, or overlaps, the id a book is exact
\* for makes it exact for the event's last id.
LEMMA FaithfulStep ==
    ASSUME NEW truth, NEW e, Faithful(truth, e), ApplyOk(e.diff),
           e.first \in Nat, e.last \in Nat, e.diff \in Seq(Level),
           NEW k \in Nat, e.first <= k + 1, k <= e.last,
           truth[k] \in Book, truth[e.last] \in Book
    PROVE  AppliedBook(truth[k], e.diff) = truth[e.last]
<1>1. k \in e.first - 1 .. e.last
  OBVIOUS
<1>2. \A i \in DOMAIN e.diff : e.diff[i] \in Appliable
  BY DEF ApplyOk, Accepted
<1>3. Walked(e.diff, Appliable) = DOMAIN e.diff
  BY <1>2 DEF Walked
<1>4. ASSUME NEW s \in Sides, NEW p \in Prices
      PROVE  AppliedBook(truth[k], e.diff)[s][p] = truth[e.last][s][p]
  <2> DEFINE W == Writes(e.diff, Appliable, s, p)
  <2>1. CASE W = {}
    <3>1. ~ \E i \in DOMAIN e.diff : e.diff[i].side = s /\ e.diff[i].price = p
      BY <2>1, <1>3 DEF Writes
    <3>2. truth[k][s][p] = truth[e.last][s][p]
      BY <3>1, <1>1 DEF Faithful
    <3> QED
      BY <2>1, <3>2 DEF AppliedBook, Overlay
  <2>2. CASE W # {}
    <3>1. /\ Max(W) \in DOMAIN e.diff
          /\ e.diff[Max(W)].side = s /\ e.diff[Max(W)].price = p
      BY <2>2, LastWrite
    <3>2. e.diff[Max(W)].quantity = truth[e.last][s][p]
      BY <3>1, <1>2 DEF Faithful
    <3> QED
      BY <2>2, <3>2 DEF AppliedBook, Overlay
  <2> QED
    BY <2>1, <2>2
<1>5. AppliedBook(truth[k], e.diff) \in Book
  BY AppliedBookType
<1> QED
  BY <1>4, <1>5 DEF Book

-----------------------------------------------------------------------------
(* The loops, level by level.                                              *)

\* What the loop has after one more level.
OneMore(was, level, ok) ==
    IF ~was.ok \/ level \notin ok THEN [was EXCEPT !.ok = FALSE]
    ELSE [was EXCEPT !.book[level.side][level.price] = level.quantity]

\* g[i] is what the loop has after i levels.
Walks(g, start, levels, ok, n) ==
    g = [i \in 0..n |-> IF i = 0 THEN [book |-> start, ok |-> TRUE] ELSE OneMore(g[i - 1], levels[i], ok)]

LEMMA WalkStep ==
    ASSUME NEW g, NEW start, NEW levels, NEW ok, NEW n \in Nat, Walks(g, start, levels, ok, n)
    PROVE  /\ g[0] = [book |-> start, ok |-> TRUE]
           /\ \A i \in 0..n - 1 : g[i + 1] = OneMore(g[i], levels[i + 1], ok)
<1>1. 0 \in 0..n /\ \A i \in 0..n - 1 : i + 1 \in 0..n /\ i + 1 # 0 /\ (i + 1) - 1 = i
  OBVIOUS
<1> QED
  BY <1>1 DEF Walks

\* The recursion of a loop is there, however many levels it walks.
LEMMA WalkThere ==
    ASSUME NEW start, NEW levels, NEW ok, NEW n \in Nat
    PROVE  \E g : Walks(g, start, levels, ok, n)
<1> DEFINE S == {k \in Nat : \E g : Walks(g, start, levels, ok, k)}
           At(f, i) == IF i = 0 THEN [book |-> start, ok |-> TRUE] ELSE OneMore(f[i - 1], levels[i], ok)
<1>1. 0 \in S
  <2> DEFINE g == [i \in 0..0 |-> [book |-> start, ok |-> TRUE]]
  <2>1. Walks(g, start, levels, ok, 0)
    BY DEF Walks
  <2> HIDE DEF g
  <2> QED
    BY <2>1
<1>2. ASSUME NEW k \in Nat, k \in S
      PROVE  k + 1 \in S
  <2>1. PICK g : Walks(g, start, levels, ok, k)
    BY <1>2
  <2> DEFINE h == [i \in 0..k + 1 |-> At(g, i)]
  <2>2. \A i \in 0..k : h[i] = g[i]
    <3>1. g = [i \in 0..k |-> At(g, i)]
      BY <2>1 DEF Walks
    <3>2. \A i \in 0..k : i \in 0..k + 1
      OBVIOUS
    <3> HIDE DEF At
    <3> QED
      BY <3>1, <3>2
  <2>3. \A i \in 0..k + 1 : i # 0 => i - 1 \in 0..k
    OBVIOUS
  <2>4. \A i \in 0..k + 1 : At(h, i) = At(g, i)
    <3> HIDE DEF h
    <3> QED
      BY <2>2, <2>3
  <2>5. h = [i \in 0..k + 1 |-> At(h, i)]
    <3> HIDE DEF At
    <3> QED
      BY <2>4
  <2>6. Walks(h, start, levels, ok, k + 1)
    <3> HIDE DEF h
    <3> QED
      BY <2>5 DEF Walks
  <2> HIDE DEF h
  <2> QED
    BY <2>6
<1> HIDE DEF S
<1>3. Nat \subseteq S
  BY <1>1, <1>2, SetInduction
<1> QED
  BY <1>3 DEF S

\* The writes among the first i levels, and the book they leave.
Early(levels, ok, s, p, i) == {k \in Writes(levels, ok, s, p) : k <= i}
BookAfter(book, levels, ok, i) ==
    [s \in Sides |-> [p \in Prices |->
        IF Early(levels, ok, s, p, i) = {} THEN book[s][p]
        ELSE levels[Max(Early(levels, ok, s, p, i))].quantity]]

\* The greatest of some numbers and a greater one.
LEMMA MaxOfMore ==
    ASSUME NEW n \in Nat, NEW S \in SUBSET (1..n)
    PROVE  Max(S \cup {n + 1}) = n + 1
<1>1. S \cup {n + 1} \in SUBSET (1..n + 1) /\ S \cup {n + 1} # {}
  OBVIOUS
<1>2. \A x \in S \cup {n + 1} : x <= n + 1
  OBVIOUS
<1>3. \E x \in S \cup {n + 1} : \A y \in S \cup {n + 1} : y <= x
  BY <1>2
<1>4. Max(S \cup {n + 1}) \in S \cup {n + 1} /\ \A y \in S \cup {n + 1} : y <= Max(S \cup {n + 1})
  BY <1>3 DEF Max
<1>5. Max(S \cup {n + 1}) \in 1..n + 1 /\ n + 1 <= Max(S \cup {n + 1})
  BY <1>1, <1>4
<1> QED
  BY <1>5

AllIn(levels, ok, i) == \A j \in 1..i : levels[j] \in ok
Written(book, level) == [book EXCEPT ![level.side][level.price] = level.quantity]

\* A level that is accepted after accepted ones overwrites its price and no other.
LEMMA BookAfterOne ==
    ASSUME NEW b \in Book, NEW levels \in Seq(Level), NEW ok \in SUBSET Appliable,
           NEW i \in Nat, i + 1 \in DOMAIN levels
    PROVE  /\ AllIn(levels, ok, i + 1) =>
                  BookAfter(b, levels, ok, i + 1) = Written(BookAfter(b, levels, ok, i), levels[i + 1])
           /\ ~AllIn(levels, ok, i + 1) => BookAfter(b, levels, ok, i + 1) = BookAfter(b, levels, ok, i)
<1> DEFINE new == levels[i + 1]
           W(s, p) == Early(levels, ok, s, p, i)
           More(s, p) == Early(levels, ok, s, p, i + 1)
<1>1. DOMAIN levels = 1..Len(levels) /\ Len(levels) \in Nat /\ new \in Level
  OBVIOUS
<1>2. \A s, p : W(s, p) \in SUBSET (1..i) /\ More(s, p) = W(s, p) \cup {k \in {i + 1} : k \in Writes(levels, ok, s, p)}
  BY <1>1 DEF Early, Writes, Walked
<1>3. ASSUME \A j \in 1..i + 1 : levels[j] \in ok
      PROVE  BookAfter(b, levels, ok, i + 1) =
                 [BookAfter(b, levels, ok, i) EXCEPT ![new.side][new.price] = new.quantity]
  <2>1. new \in Appliable /\ new.side \in Sides /\ new.price \in Prices
    <3>1. new \in Appliable
      BY <1>3
    <3> QED
      BY <3>1 DEF Appliable, Level
  <2>2. \A s, p : i + 1 \in Writes(levels, ok, s, p) <=> new.side = s /\ new.price = p
    BY <1>1, <1>3 DEF Writes, Walked
  <2>3. ASSUME NEW s \in Sides, NEW p \in Prices
        PROVE  BookAfter(b, levels, ok, i + 1)[s][p] =
                   IF s = new.side /\ p = new.price THEN new.quantity ELSE BookAfter(b, levels, ok, i)[s][p]
    <3>1. CASE s = new.side /\ p = new.price
      <4>1. More(s, p) = W(s, p) \cup {i + 1}
        BY <1>2, <2>2, <3>1
      <4>2. Max(More(s, p)) = i + 1 /\ More(s, p) # {}
        BY <1>2, <4>1, MaxOfMore
      <4> HIDE DEF More
      <4> QED
        BY <3>1, <4>2 DEF BookAfter, More
    <3>2. CASE ~(s = new.side /\ p = new.price)
      <4>1. More(s, p) = W(s, p)
        <5>1. i + 1 \notin Writes(levels, ok, s, p)
          BY <2>2, <3>2
        <5> HIDE DEF W, More
        <5> QED
          BY <1>2, <5>1
      <4> QED
        BY <3>2, <4>1 DEF BookAfter
    <3> QED
      BY <3>1, <3>2
  <2>4. ASSUME NEW f, f = BookAfter(b, levels, ok, i), NEW g, g = BookAfter(b, levels, ok, i + 1)
        PROVE  g = [f EXCEPT ![new.side][new.price] = new.quantity]
    <3>1. f = [s \in Sides |-> [p \in Prices |-> f[s][p]]] /\ g = [s \in Sides |-> [p \in Prices |-> g[s][p]]]
      BY <2>4 DEF BookAfter
    <3>2. \A s \in Sides, p \in Prices :
              g[s][p] = IF s = new.side /\ p = new.price THEN new.quantity ELSE f[s][p]
      BY <2>3, <2>4
    <3> HIDE DEF new
    <3>3. [f[new.side] EXCEPT ![new.price] = new.quantity] =
              [p \in Prices |-> IF p = new.price THEN new.quantity ELSE f[new.side][p]]
      BY <2>1, <3>1
    <3>4. g[new.side] = [f[new.side] EXCEPT ![new.price] = new.quantity]
      BY <2>1, <3>1, <3>2, <3>3
    <3>5. \A s \in Sides : s # new.side => g[s] = f[s]
      BY <3>1, <3>2
    <3> QED
      BY <2>1, <3>1, <3>4, <3>5
  <2> QED
    BY <2>4
<1>4. ASSUME ~(\A j \in 1..i + 1 : levels[j] \in ok)
      PROVE  BookAfter(b, levels, ok, i + 1) = BookAfter(b, levels, ok, i)
  <2>1. \A s, p : i + 1 \notin Writes(levels, ok, s, p)
    BY <1>4 DEF Writes, Walked
  <2>2. \A s, p : More(s, p) = W(s, p)
    BY <1>2, <2>1, ZenonT(60)
  <2> QED
    BY <2>2 DEF BookAfter
<1> QED
  BY <1>3, <1>4 DEF AllIn, Written

\* What the loop has after i levels: the writes before the first refused one, and
\* whether there was one.
LEMMA WalkIsBookAfter ==
    ASSUME NEW b \in Book, NEW levels \in Seq(Level), NEW ok \in SUBSET Appliable,
           NEW g, Walks(g, b, levels, ok, Len(levels)),
           NEW i \in 0..Len(levels)
    PROVE  g[i] = [book |-> BookAfter(b, levels, ok, i),
                   ok |-> IF AllIn(levels, ok, i) THEN TRUE ELSE FALSE]
<1> DEFINE n == Len(levels)
           Good(k) == AllIn(levels, ok, k)
           Mine(k) == g[k] = [book |-> BookAfter(b, levels, ok, k), ok |-> IF Good(k) THEN TRUE ELSE FALSE]
           S == {k \in Nat : k \in 0..n => Mine(k)}
<1>1. n \in Nat /\ DOMAIN levels = 1..n
  OBVIOUS
<1>2. /\ g[0] = [book |-> b, ok |-> TRUE]
      /\ \A k \in 0..n - 1 : g[k + 1] = OneMore(g[k], levels[k + 1], ok)
  BY <1>1, WalkStep
<1>3. 0 \in S
  <2>1. BookAfter(b, levels, ok, 0) = b
    <3>1. \A s, p : Early(levels, ok, s, p, 0) = {}
      BY <1>1 DEF Early, Writes, Walked
    <3> QED
      BY <3>1 DEF BookAfter, Book
  <2>2. Good(0)
    BY DEF AllIn
  <2> HIDE DEF Good
  <2> QED
    BY <1>2, <2>1, <2>2
<1>4. ASSUME NEW k \in Nat, k \in S, k + 1 \in 0..n
      PROVE  Mine(k + 1)
  <2>1. k \in 0..n /\ k \in 0..n - 1 /\ k + 1 \in DOMAIN levels /\ Mine(k)
    BY <1>1, <1>4
  <2>2. PICK was, level : was = g[k] /\ level = levels[k + 1]
    OBVIOUS
  <2>3. PICK old, new : old = BookAfter(b, levels, ok, k) /\ new = BookAfter(b, levels, ok, k + 1)
    OBVIOUS
  <2>4. Good(k + 1) <=> Good(k) /\ level \in ok
    <3>1. \A j : j \in 1..k + 1 <=> j \in 1..k \/ j = k + 1
      OBVIOUS
    <3> QED
      BY <2>2, <3>1 DEF AllIn
  <2>5. /\ Good(k + 1) => new = Written(old, level)
        /\ ~Good(k + 1) => new = old
    <3>1. k \in Nat /\ k + 1 \in DOMAIN levels
      BY <2>1
    <3>2. /\ Good(k + 1) => BookAfter(b, levels, ok, k + 1) = Written(BookAfter(b, levels, ok, k), levels[k + 1])
          /\ ~Good(k + 1) => BookAfter(b, levels, ok, k + 1) = BookAfter(b, levels, ok, k)
      <4> HIDE DEF Mine
      <4> QED
        BY <3>1, BookAfterOne
    <3> HIDE DEF Good, Mine
    <3> QED
      BY <3>2, <2>2, <2>3
  <2>6. was = [book |-> old, ok |-> IF Good(k) THEN TRUE ELSE FALSE] /\ g[k + 1] = OneMore(was, level, ok)
    BY <1>2, <2>1, <2>2, <2>3
  <2> HIDE DEF Good
  <2>7. CASE Good(k + 1)
    <3>1. was = [book |-> old, ok |-> TRUE] /\ level \in ok
      BY <2>4, <2>6, <2>7
    <3>2. OneMore(was, level, ok) = [was EXCEPT !.book[level.side][level.price] = level.quantity]
      BY <3>1 DEF OneMore
    <3>3. OneMore(was, level, ok) = [book |-> Written(old, level), ok |-> TRUE]
      BY <3>1, <3>2 DEF Written
    <3> QED
      BY <2>3, <2>5, <2>6, <2>7, <3>3
  <2>8. CASE ~Good(k + 1)
    <3>1. ~was.ok \/ level \notin ok
      BY <2>4, <2>6, <2>8
    <3>2. OneMore(was, level, ok) = [was EXCEPT !.ok = FALSE]
      BY <3>1 DEF OneMore
    <3>3. OneMore(was, level, ok) = [book |-> old, ok |-> FALSE]
      BY <2>6, <3>2
    <3> QED
      BY <2>3, <2>5, <2>6, <2>8, <3>3
  <2> QED
    BY <2>7, <2>8
<1>5. \A k \in Nat : k \in S => k + 1 \in S
  <2> HIDE DEF Mine
  <2> QED
    BY <1>4
<1> HIDE DEF S
<1>6. Nat \subseteq S
  BY <1>3, <1>5, SetInduction
<1> QED
  BY <1>1, <1>6 DEF S

\* A walk over all levels is the overlay, early return included.
LEMMA WalkIsOverlay ==
    ASSUME NEW b \in Book, NEW levels \in Seq(Level), NEW ok \in SUBSET Appliable,
           NEW g, Walks(g, b, levels, ok, Len(levels))
    PROVE  g[Len(levels)] = [book |-> Overlay(b, levels, ok),
                             ok |-> IF Accepted(levels, ok) THEN TRUE ELSE FALSE]
<1>1. Len(levels) \in Nat /\ DOMAIN levels = 1..Len(levels)
  OBVIOUS
<1>2. \A s, p : Early(levels, ok, s, p, Len(levels)) = Writes(levels, ok, s, p)
  BY <1>1 DEF Early, Writes, Walked
<1>3. BookAfter(b, levels, ok, Len(levels)) = Overlay(b, levels, ok)
  BY <1>2 DEF BookAfter, Overlay
<1>4. Accepted(levels, ok) <=> AllIn(levels, ok, Len(levels))
  BY <1>1 DEF Accepted, AllIn
<1>5. g[Len(levels)] = [book |-> BookAfter(b, levels, ok, Len(levels)),
                        ok |-> IF AllIn(levels, ok, Len(levels)) THEN TRUE ELSE FALSE]
  <2>1. PICK n : n = Len(levels) /\ n \in 0..Len(levels) /\ Walks(g, b, levels, ok, n)
    BY <1>1
  <2>2. g[n] = [book |-> BookAfter(b, levels, ok, n), ok |-> IF AllIn(levels, ok, n) THEN TRUE ELSE FALSE]
    BY <2>1, WalkIsBookAfter
  <2> QED
    BY <2>1, <2>2
<1>6. CASE Accepted(levels, ok)
  <2>1. g[Len(levels)] = [book |-> BookAfter(b, levels, ok, Len(levels)), ok |-> TRUE]
    BY <1>4, <1>5, <1>6
  <2> QED
    BY <1>3, <1>6, <2>1
<1>7. CASE ~Accepted(levels, ok)
  <2>1. g[Len(levels)] = [book |-> BookAfter(b, levels, ok, Len(levels)), ok |-> FALSE]
    BY <1>4, <1>5, <1>7
  <2> QED
    BY <1>3, <1>7, <2>1
<1> QED
  BY <1>6, <1>7

LEMMA LevelNumbers ==
    ASSUME NEW level \in Level
    PROVE  level.price \in Int /\ level.quantity \in Int
<1>1. (level.price \in Prices \/ level.price = 0)
      /\ (level.quantity \in Quantities \/ level.quantity = 0 \/ level.quantity = -1)
  BY DEF Level
<1>2. \A x : x \in Prices \cup Quantities => x \in Int
  BY BookAssumption
<1>3. 0 \in Int /\ -1 \in Int
  OBVIOUS
<1> QED
  BY <1>1, <1>2, <1>3

\* The guards of set_level and apply_level let through what OrderBook says.
LEMMA GuardsAgree ==
    ASSUME NEW level \in Level
    PROVE  /\ RefusedByLoad(level) <=> level \notin Storable
           /\ RefusedByDiff(level) <=> level \notin Appliable
<1>1. level.price \in Int /\ level.quantity \in Int
  BY LevelNumbers
<1> QED
  BY <1>1 DEF RefusedByLoad, RefusedByDiff, Storable, Appliable

LEMMA StorableIsAppliable == Storable \subseteq Appliable
<1> SUFFICES ASSUME NEW l \in Storable
    PROVE  l \in Appliable
  OBVIOUS
<1>1. l \in Level /\ l.price > 0 /\ l.quantity > 0
  BY DEF Storable
<1>2. l.quantity \in Int
  BY <1>1, LevelNumbers
<1> QED
  BY <1>1, <1>2 DEF Appliable

\* load_snapshot, walking level by level with its early returns, leaves the book and
\* gives the verdict that LoadedBook and LoadOk state of the whole call.
THEOREM LoadLoopLoads ==
    \A levels \in Seq(Level) :
        LoadLoop(levels) = [book |-> LoadedBook(levels), ok |-> LoadOk(levels)]
<1> SUFFICES ASSUME NEW levels \in Seq(Level)
    PROVE  LoadLoop(levels) = [book |-> LoadedBook(levels), ok |-> LoadOk(levels)]
  OBVIOUS
<1> DEFINE n == Len(levels)
           Is(g) == g = [i \in 0..n |->
                        IF i = 0 THEN [book |-> EmptyBook, ok |-> TRUE]
                        ELSE IF ~g[i - 1].ok \/ RefusedByLoad(levels[i]) THEN [g[i - 1] EXCEPT !.ok = FALSE]
                        ELSE [g[i - 1] EXCEPT !.book[levels[i].side][levels[i].price] = levels[i].quantity]]
           walk == (CHOOSE g : Is(g))[n]
<1>1. n \in Nat /\ \A i \in 0..n : i # 0 => levels[i] \in Level
  <2>1. n \in Nat /\ \A i \in 1..n : levels[i] \in Level
    OBVIOUS
  <2> QED
    BY <2>1
<1>2. LoadLoop(levels) = IF walk.ok /\ IsCrossed(walk.book) THEN [book |-> EmptyBook, ok |-> FALSE] ELSE walk
  BY DEF LoadLoop, Walk
<1>3. ASSUME NEW g
      PROVE  Is(g) <=> Walks(g, EmptyBook, levels, Storable, n)
  <2>1. \A i \in 0..n : i # 0 => (RefusedByLoad(levels[i]) <=> levels[i] \notin Storable)
    BY <1>1, GuardsAgree
  <2> QED
    BY <2>1 DEF Walks, OneMore
<1>4. Is(CHOOSE g : Is(g))
  <2>1. \E g : Is(g)
    <3> HIDE DEF Is
    <3> QED
      BY <1>1, <1>3, WalkThere
  <2> HIDE DEF Is
  <2> QED
    BY <2>1
<1>5. PICK g : g = (CHOOSE f : Is(f))
  OBVIOUS
<1>6. walk = [book |-> Overlay(EmptyBook, levels, Storable), ok |-> IF Accepted(levels, Storable) THEN TRUE ELSE FALSE]
  <2>1. Walks(g, EmptyBook, levels, Storable, n)
    <3> HIDE DEF Is
    <3> QED
      BY <1>3, <1>4, <1>5
  <2>2. walk = g[n]
    <3> HIDE DEF Is
    <3> QED
      BY <1>5
  <2> HIDE DEF walk
  <2> QED
    BY <2>1, <2>2, EmptyBookType, StorableIsAppliable, WalkIsOverlay
<1> HIDE DEF walk
<1>7. PICK book : book = Overlay(EmptyBook, levels, Storable)
  OBVIOUS
<1>8. CASE Accepted(levels, Storable) /\ ~IsCrossed(book)
  <2>1. walk = [book |-> book, ok |-> TRUE]
    BY <1>6, <1>7, <1>8
  <2>2. LoadOk(levels) = TRUE /\ LoadedBook(levels) = book
    BY <1>7, <1>8 DEF LoadOk, LoadedBook
  <2> QED
    BY <1>2, <1>8, <2>1, <2>2
<1>9. CASE Accepted(levels, Storable) /\ IsCrossed(book)
  <2>1. walk = [book |-> book, ok |-> TRUE]
    BY <1>6, <1>7, <1>9
  <2>2. LoadOk(levels) = FALSE /\ LoadedBook(levels) = EmptyBook
    BY <1>7, <1>9 DEF LoadOk, LoadedBook
  <2> QED
    BY <1>2, <1>9, <2>1, <2>2
<1>10. CASE ~Accepted(levels, Storable)
  <2>1. walk = [book |-> book, ok |-> FALSE]
    BY <1>6, <1>7, <1>10
  <2>2. LoadOk(levels) = FALSE /\ LoadedBook(levels) = book
    BY <1>7, <1>10 DEF LoadOk, LoadedBook
  <2> QED
    BY <1>2, <2>1, <2>2
<1> QED
  BY <1>8, <1>9, <1>10

\* apply_diff likewise, on any book: the last write to a price wins, zero removes the
\* price, and the levels after the first refused one are not looked at.
THEOREM ApplyLoopApplies ==
    \A book \in Book, levels \in Seq(Level) :
        ApplyLoop(book, levels) = [book |-> AppliedBook(book, levels), ok |-> ApplyOk(levels)]
<1> SUFFICES ASSUME NEW book \in Book, NEW levels \in Seq(Level)
    PROVE  ApplyLoop(book, levels) = [book |-> AppliedBook(book, levels), ok |-> ApplyOk(levels)]
  OBVIOUS
<1> DEFINE n == Len(levels)
           Is(g) == g = [i \in 0..n |->
                        IF i = 0 THEN [book |-> book, ok |-> TRUE]
                        ELSE IF ~g[i - 1].ok \/ RefusedByDiff(levels[i]) THEN [g[i - 1] EXCEPT !.ok = FALSE]
                        ELSE [g[i - 1] EXCEPT !.book[levels[i].side][levels[i].price] = levels[i].quantity]]
           walk == (CHOOSE g : Is(g))[n]
<1>1. n \in Nat /\ \A i \in 0..n : i # 0 => levels[i] \in Level
  <2>1. n \in Nat /\ \A i \in 1..n : levels[i] \in Level
    OBVIOUS
  <2> QED
    BY <2>1
<1>2. ApplyLoop(book, levels) = walk
  BY DEF ApplyLoop, Walk
<1>3. ASSUME NEW g
      PROVE  Is(g) <=> Walks(g, book, levels, Appliable, n)
  <2>1. \A i \in 0..n : i # 0 => (RefusedByDiff(levels[i]) <=> levels[i] \notin Appliable)
    BY <1>1, GuardsAgree
  <2> QED
    BY <2>1 DEF Walks, OneMore
<1>4. Is(CHOOSE g : Is(g))
  <2>1. \E g : Is(g)
    <3> HIDE DEF Is
    <3> QED
      BY <1>1, <1>3, WalkThere
  <2> HIDE DEF Is
  <2> QED
    BY <2>1
<1>5. PICK g : g = (CHOOSE f : Is(f))
  OBVIOUS
<1>6. walk = [book |-> Overlay(book, levels, Appliable), ok |-> IF Accepted(levels, Appliable) THEN TRUE ELSE FALSE]
  <2>1. Walks(g, book, levels, Appliable, n)
    <3> HIDE DEF Is
    <3> QED
      BY <1>3, <1>4, <1>5
  <2>2. walk = g[n]
    <3> HIDE DEF Is
    <3> QED
      BY <1>5
  <2> HIDE DEF walk
  <2> QED
    BY <2>1, <2>2, WalkIsOverlay
<1> HIDE DEF walk
<1>7. CASE Accepted(levels, Appliable)
  <2>1. ApplyOk(levels) = TRUE
    BY <1>7 DEF ApplyOk
  <2> QED
    BY <1>2, <1>6, <1>7, <2>1 DEF AppliedBook
<1>8. CASE ~Accepted(levels, Appliable)
  <2>1. ApplyOk(levels) = FALSE
    BY <1>8 DEF ApplyOk
  <2> QED
    BY <1>2, <1>6, <1>8, <2>1 DEF AppliedBook
<1> QED
  BY <1>7, <1>8

-----------------------------------------------------------------------------
LEMMA Halves ==
    ASSUME NEW d \in Nat
    PROVE  d \div 2 \in Nat /\ 2 * (d \div 2) <= d /\ d <= 2 * (d \div 2) + 1
OBVIOUS

LEMMA WholePart ==
    ASSUME NEW n \in Nat, NEW d \in Nat \ {0}
    PROVE  /\ n \div d \in Nat
           /\ (n \div d) * d <= n
           /\ n < (n \div d) * d + d
           /\ n \div d <= n
<1>1. n \div d \in Nat /\ n = d * (n \div d) + (n % d) /\ n % d \in 0..d - 1
  OBVIOUS
<1> QED
  BY <1>1

\* What is written here on one side of zero holds on the other.
LEMMA MagnitudeOfNegative == \A n \in Int : Magnitude(-n) = Magnitude(n) /\ Magnitude(n) \in Nat
BY DEF Magnitude

LEMMA NearestOfNegative ==
    ASSUME NEW r \in Int, NEW n \in Int, NEW d \in Int, IsNearest(r, n, d)
    PROVE  IsNearest(-r, -n, d) /\ IsNearest(r, -n, -d)
<1>1. PICK m \in Int : m = r * d
  OBVIOUS
<1>2. (-r) * d = -m /\ r * (-d) = -m
  BY <1>1
<1>3. (-m) - (-n) = -(m - n) /\ m - n \in Int
  OBVIOUS
<1>4. /\ 2 * Magnitude(m - n) <= Magnitude(d)
      /\ 2 * Magnitude(m - n) = Magnitude(d) => Magnitude(m) > Magnitude(n)
  BY <1>1 DEF IsNearest
<1>5. /\ Magnitude((-m) - (-n)) = Magnitude(m - n)
      /\ Magnitude(-m) = Magnitude(m) /\ Magnitude(-n) = Magnitude(n) /\ Magnitude(-d) = Magnitude(d)
  BY <1>3, MagnitudeOfNegative
<1>6. IsNearest(-r, -n, d)
  BY <1>2, <1>4, <1>5 DEF IsNearest
<1>7. IsNearest(r, -n, -d)
  BY <1>2, <1>4, <1>5 DEF IsNearest
<1> QED
  BY <1>6, <1>7

\* To add half the divisor and drop the rest rounds to the nearest.
LEMMA HalfUp ==
    ASSUME NEW n \in Nat, NEW d \in Nat \ {0}, NEW r, r = (n + (d \div 2)) \div d
    PROVE  r \in Nat /\ r <= n + (d \div 2) /\ IsNearest(r, n, d)
<1>1. PICK h \in Nat : h = d \div 2 /\ 2 * h <= d /\ d <= 2 * h + 1
  BY Halves
<1>2. r \in Nat /\ r * d <= n + h /\ n + h < r * d + d /\ r <= n + h
  BY <1>1, WholePart
<1>3. PICK m \in Nat : m = r * d
  BY <1>2
<1>4. m <= n + h /\ n + h < m + d
  BY <1>2, <1>3
<1>5. Magnitude(m - n) = IF m - n < 0 THEN n - m ELSE m - n
  BY <1>3 DEF Magnitude
<1>6. Magnitude(d) = d /\ Magnitude(m) = m /\ Magnitude(n) = n
  BY <1>3 DEF Magnitude
<1>7. 2 * Magnitude(m - n) <= d
  BY <1>1, <1>4, <1>5
<1>8. 2 * Magnitude(m - n) = d => m > n
  BY <1>1, <1>4, <1>5
<1>9. IsNearest(r, n, d)
  BY <1>3, <1>6, <1>7, <1>8 DEF IsNearest
<1> QED
  BY <1>1, <1>2, <1>9

LEMMA WidthOfRaws ==
    /\ MaxRaw \in Nat /\ None \notin Int
    /\ \A n \in Int : n \in Raws <=> n <= MaxRaw /\ -n <= MaxRaw + 1
    /\ Raws \subseteq Int
    /\ \A n \in Int : Checked(n) = None <=> n \notin Raws
    /\ \A n \in Int : n \in Raws => Checked(n) = n
BY FixedAssumption DEF Raws, MinRaw, Checked

LEMMA NoRoom ==
    ASSUME NEW n, NEW d \in Nat, NEW k \in Nat, Magnitude(n) = k, Magnitude(d) = d,
           NEW h \in Nat, h = d \div 2, k + h > MaxRaw
    PROVE  ~HasRoom(n, d)
<1>1. Magnitude(n) + (Magnitude(d) \div 2) = k + h
  OBVIOUS
<1> QED
  BY <1>1, FixedAssumption DEF HasRoom

\* What it is to answer with r when n / d is asked for.
Rounds(r, n, d) ==
    IF r = None THEN ~HasRoom(n, d) ELSE r \in Raws /\ IsNearest(r, n, d)

\* The positive half: half of the divisor is added and the rest dropped.
LEMMA RoundPositiveRounds ==
    ASSUME NEW n \in Raws, NEW d \in Nat \ {0}
    PROVE  Rounds(RoundPositive(n, d), n, d)
<1>1. PICK h \in Nat : h = d \div 2
  BY Halves
<1>2. n \in Int /\ Magnitude(d) = d
  BY WidthOfRaws DEF Magnitude
<1>3. CASE n < 0
  <2>1. PICK k \in Nat : k = -n
    BY <1>2, <1>3
  <2>2. n - h = -(k + h) /\ Magnitude(n) = k /\ n = -k
    BY <1>2, <1>3, <2>1 DEF Magnitude
  <2>3. CASE -(k + h) \notin Raws
    <3>1. RoundPositive(n, d) = None
      BY <1>1, <1>3, <2>2, <2>3, WidthOfRaws DEF RoundPositive
    <3>2. k + h > MaxRaw
      BY <2>3, WidthOfRaws
    <3> QED
      BY <1>1, <1>2, <2>2, <3>1, <3>2, NoRoom DEF Rounds
  <2>4. CASE -(k + h) \in Raws
    <3>1. PICK r : r = (k + h) \div d
      OBVIOUS
    <3>2. r \in Nat /\ r <= k + h /\ IsNearest(r, k, d)
      BY <1>1, <3>1, HalfUp
    <3>3. Checked(n - h) = -(k + h) /\ -(k + h) # None
      BY <2>2, <2>4, WidthOfRaws
    <3>4. -(k + h) < 0 /\ -(-(k + h)) = k + h
      BY <1>2, <1>3, <2>1
    <3>5. Quotient(-(k + h), d) = -r
      BY <3>1, <3>4 DEF Quotient
    <3>6. RoundPositive(n, d) = -r
      BY <1>1, <1>3, <3>3, <3>5 DEF RoundPositive
    <3>7. -r \in Raws /\ -r # None
      BY <2>4, <3>2, WidthOfRaws
    <3>8. IsNearest(-r, n, d)
      BY <2>2, <3>2, NearestOfNegative
    <3> QED
      BY <3>6, <3>7, <3>8 DEF Rounds
  <2> QED
    BY <2>3, <2>4
<1>4. CASE ~(n < 0)
  <2>1. n \in Nat /\ Magnitude(n) = n
    BY <1>2, <1>4 DEF Magnitude
  <2>2. CASE n + h \notin Raws
    <3>1. RoundPositive(n, d) = None
      BY <1>1, <1>4, <2>1, <2>2, WidthOfRaws DEF RoundPositive
    <3>2. n + h > MaxRaw
      BY <2>1, <2>2, WidthOfRaws
    <3> QED
      BY <1>1, <1>2, <2>1, <3>1, <3>2, NoRoom DEF Rounds
  <2>3. CASE n + h \in Raws
    <3>1. PICK r : r = (n + h) \div d
      OBVIOUS
    <3>2. r \in Nat /\ r <= n + h /\ IsNearest(r, n, d)
      BY <1>1, <2>1, <3>1, HalfUp
    <3>3. Checked(n + h) = n + h /\ n + h # None /\ ~(n + h < 0)
      BY <2>1, <2>3, WidthOfRaws
    <3>4. RoundPositive(n, d) = r
      BY <1>1, <1>4, <3>1, <3>3 DEF RoundPositive, Quotient
    <3>5. r \in Raws /\ r # None
      BY <2>1, <2>3, <3>2, WidthOfRaws
    <3> QED
      BY <3>2, <3>4, <3>5 DEF Rounds
  <2> QED
    BY <2>2, <2>3
<1> QED
  BY <1>3, <1>4

\* Whatever the signs; the smallest value is the one divisor that is refused for itself.
LEMMA RoundDivRounds ==
    ASSUME NEW n \in Raws, NEW d \in Raws \ {0, MinRaw}
    PROVE  Rounds(RoundDiv(n, d), n, d)
<1>1. n \in Int /\ d \in Int
  BY WidthOfRaws
<1>2. CASE d > 0
  BY <1>1, <1>2, RoundPositiveRounds DEF RoundDiv
<1>3. CASE ~(d > 0)
  <2>1. -d \in Nat \ {0} /\ -d \in Raws /\ CheckedNeg(d) # None
    BY <1>1, <1>3, FixedAssumption, WidthOfRaws DEF CheckedNeg, Raws, MinRaw
  <2>2. CASE -n \notin Raws
    <3>1. RoundDiv(n, d) = None
      BY <1>1, <1>3, <2>2, WidthOfRaws DEF RoundDiv, CheckedNeg
    <3>2. Magnitude(n) > MaxRaw
      BY <1>1, <2>2, WidthOfRaws DEF Magnitude
    <3>3. Magnitude(d) \div 2 \in Nat
      BY <1>1, MagnitudeOfNegative, Halves
    <3>4. Magnitude(n) \in Nat /\ MaxRaw \in Nat
      BY <1>1, MagnitudeOfNegative, WidthOfRaws
    <3> QED
      BY <3>1, <3>2, <3>3, <3>4 DEF Rounds, HasRoom
  <2>3. CASE -n \in Raws
    <3>1. RoundDiv(n, d) = RoundPositive(-n, -d)
      BY <1>1, <1>3, <2>1, <2>3, WidthOfRaws DEF RoundDiv, CheckedNeg
    <3>2. PICK r : r = RoundPositive(-n, -d)
      OBVIOUS
    <3>3. Rounds(r, -n, -d)
      BY <2>1, <2>3, <3>2, RoundPositiveRounds
    <3>4. CASE r = None
      BY <1>1, <3>1, <3>2, <3>3, <3>4, MagnitudeOfNegative DEF Rounds, HasRoom
    <3>5. CASE r # None
      <4>1. r \in Int /\ r \in Raws /\ IsNearest(r, -n, -d)
        BY <3>3, <3>5, WidthOfRaws DEF Rounds
      <4>2. -(-n) = n /\ -(-d) = d /\ -n \in Int /\ -d \in Int
        BY <1>1
      <4>3. IsNearest(r, n, d)
        BY <4>1, <4>2, NearestOfNegative
      <4> QED
        BY <3>1, <3>2, <3>5, <4>1, <4>3 DEF Rounds
    <3> QED
      BY <3>4, <3>5
  <2> QED
    BY <2>2, <2>3
<1> QED
  BY <1>2, <1>3

\* A product or numerator that is too wide has no room whatever it is divided by.
LEMMA TooWide ==
    ASSUME NEW n \in Int, n \notin Raws, NEW d \in Int
    PROVE  ~HasRoom(n, d)
<1>1. Magnitude(n) > MaxRaw
  BY WidthOfRaws DEF Magnitude
<1>2. Magnitude(d) \div 2 \in Nat
  BY MagnitudeOfNegative, Halves
<1>3. Magnitude(n) \in Nat /\ MaxRaw \in Nat
  BY MagnitudeOfNegative, WidthOfRaws
<1> QED
  BY <1>1, <1>2, <1>3 DEF HasRoom

\* checked_mul and checked_div: whatever the signs, the answer is the nearest value
\* there is, ties away from zero, and it is refused only for want of room, near the
\* ends of the width; besides that a quotient is refused by 0 and by the smallest
\* value there is, which cannot be negated.
THEOREM ProductsAndQuotientsAreNearest ==
    ASSUME NEW a \in Raws, NEW b \in Raws
    PROVE  /\ Rounds(CheckedMul(a, b), a * b, Scale)
           /\ b \notin {0, MinRaw} => Rounds(CheckedDiv(a, b), a * Scale, b)
           /\ b = 0 => CheckedDiv(a, b) = None
<1>1. a \in Int /\ b \in Int /\ a * b \in Int /\ a * Scale \in Int /\ Scale \in Raws \ {0, MinRaw}
  <2>1. Scale \in 1..MaxRaw
    BY FixedAssumption DEF Scale
  <2>2. Scale \in Raws \ {0, MinRaw}
    BY <2>1, FixedAssumption DEF Raws, MinRaw
  <2> QED
    BY <2>1, <2>2, WidthOfRaws
<1>2. Rounds(CheckedMul(a, b), a * b, Scale)
  <2>1. CASE a * b \in Raws
    BY <1>1, <2>1, RoundDivRounds DEF CheckedMul
  <2>2. CASE a * b \notin Raws
    BY <1>1, <2>2, TooWide DEF CheckedMul, Rounds
  <2> QED
    BY <2>1, <2>2
<1>3. ASSUME b \notin {0, MinRaw}
      PROVE  Rounds(CheckedDiv(a, b), a * Scale, b)
  <2>1. CASE a * Scale \in Raws
    <3>1. CheckedDiv(a, b) = RoundDiv(a * Scale, b)
      BY <1>3, <2>1 DEF CheckedDiv
    <3> QED
      BY <1>3, <2>1, <3>1, RoundDivRounds
  <2>2. CASE a * Scale \notin Raws
    <3>1. CheckedDiv(a, b) = None
      BY <2>2 DEF CheckedDiv
    <3> QED
      BY <1>1, <2>2, <3>1, TooWide DEF Rounds
  <2> QED
    BY <2>1, <2>2
<1>4. b = 0 => CheckedDiv(a, b) = None
  BY DEF CheckedDiv
<1> QED
  BY <1>2, <1>3, <1>4

\* maker_fee rounds by itself, from the rest alone; for a notional of any size the
\* fee is the nearest value, ties up, and it is refused only for want of room.
THEOREM FeesAreNearest ==
    ASSUME NEW notional \in Nat, NEW bps \in Nat
    PROVE  Rounds(MakerFee(notional, bps), notional * bps, Bps)
<1>1. PICK s \in Nat : s = notional * bps
  OBVIOUS
<1>2. Bps \in Nat \ {0} /\ Bps % 2 = 0 /\ Magnitude(Bps) = Bps
  BY FixedAssumption DEF Magnitude
<1>3. PICK h \in Nat : h = Bps \div 2 /\ Bps = 2 * h
  BY <1>2
<1>4. PICK q \in Nat : q = s \div Bps /\ q * Bps <= s /\ s < q * Bps + Bps /\ q <= s
  BY <1>2, WholePart
<1>5. Quotient(s, Bps) = q
  BY <1>4 DEF Quotient
<1>6. PICK m \in Nat : m = q * Bps /\ m = Bps * q
  BY <1>2
<1>7. Magnitude(s - Bps * Quotient(s, Bps)) = s - m
  BY <1>4, <1>5, <1>6 DEF Magnitude
<1>8. PICK r \in Nat : r = q + (IF s - m >= h THEN 1 ELSE 0)
  BY <1>1
<1>9. MakerFee(notional, bps) = IF s \in Raws THEN Checked(r) ELSE None
  BY <1>1, <1>3, <1>5, <1>7, <1>8 DEF MakerFee
<1>10. CASE s \notin Raws
  BY <1>1, <1>2, <1>9, <1>10, TooWide DEF Rounds
<1>11. CASE s \in Raws
  <2>1. PICK w \in Nat : w = r * Bps
    BY <1>2
  <2>2. w = IF s - m >= h THEN m + Bps ELSE m
    BY <1>2, <1>6, <1>8, <2>1
  <2>3. IsNearest(r, s, Bps)
    <3>1. Magnitude(w - s) = IF w - s < 0 THEN s - w ELSE w - s
      BY DEF Magnitude
    <3>2. Magnitude(w) = w /\ Magnitude(s) = s
      BY DEF Magnitude
    <3>3. m <= s /\ s < m + Bps
      BY <1>4, <1>6
    <3>4. Bps = 2 * h /\ Bps \in Nat
      BY <1>2, <1>3
    <3>5. CASE s - m >= h
      <4>1. w = m + Bps
        BY <2>2, <3>5
      <4>2. Magnitude(w - s) = w - s
        BY <3>1, <3>3, <3>4, <4>1
      <4> QED
        BY <3>2, <3>3, <3>4, <3>5, <4>1, <4>2, <1>2, <2>1 DEF IsNearest
    <3>6. CASE ~(s - m >= h)
      <4>1. w = m
        BY <2>2, <3>6
      <4>2. Magnitude(w - s) = s - w
        BY <3>1, <3>3, <4>1
      <4> QED
        BY <3>2, <3>3, <3>4, <3>6, <4>1, <4>2, <1>2, <2>1 DEF IsNearest
    <3> QED
      BY <3>5, <3>6
  <2>4. r <= s + h
    <3>1. s - m >= h => s >= q + 1 \/ h >= 1
      BY <1>2, <1>3
    <3> QED
      BY <1>2, <1>3, <1>4, <1>8, <3>1
  <2>5. CASE r \in Raws
    BY <1>1, <1>9, <1>11, <2>3, <2>5, WidthOfRaws DEF Rounds
  <2>6. CASE r \notin Raws
    <3>1. r > MaxRaw /\ Checked(r) = None
      BY <2>6, WidthOfRaws
    <3>2. s + h > MaxRaw
      BY <2>4, <3>1, WidthOfRaws
    <3>3. Magnitude(s) = s
      BY DEF Magnitude
    <3> QED
      BY <1>1, <1>2, <1>3, <1>9, <1>11, <3>1, <3>2, <3>3, NoRoom DEF Rounds
  <2> QED
    BY <2>5, <2>6
<1> QED
  BY <1>10, <1>11

\* The table of powers of the base is there, and each is the one before it times the base.
LEMMA Powers ==
    /\ Power \in [0..Places -> Nat \ {0}]
    /\ Power[0] = 1
    /\ \A i \in 1..Places : Power[i] = Base * Power[i - 1]
<1> DEFINE S == Nat \ {0}
           step == [i \in 1..Places |-> [x \in S |-> Base * x]]
           Is(f) == f = [i \in 0..Places |-> IF i = 0 THEN 1 ELSE Base * f[i - 1]]
<1>1. Places \in Nat /\ Base \in Nat /\ Base > 1
  BY FixedAssumption
<1>2. \A x \in S : Base * x \in S
  BY <1>1
<1>3. Steps(step, S, Places) /\ 1 \in S
  BY <1>2 DEF Steps
<1>4. PICK g \in [0..Places -> S] : Repeats(g, 1, step, Places)
  BY <1>1, <1>3, RepetitionThere
<1>5. \A i \in 0..Places : i # 0 => i - 1 \in 0..Places /\ step[i][g[i - 1]] = Base * g[i - 1]
  BY <1>1
<1> HIDE DEF step
<1>6. Is(g)
  BY <1>4, <1>5 DEF Repeats
<1>7. Is(Power)
  BY <1>6 DEF Power
<1>8. Power[0] = 1 /\ \A i \in 1..Places : Power[i] = Base * Power[i - 1]
  BY <1>1, <1>7
<1>9. \A i \in 0..Places : Power[i] \in S
  <2> HIDE DEF Is
  <2>1. Power[0] \in S /\ \A i \in 1..Places : Power[i - 1] \in S => Power[i] \in S
    BY <1>2, <1>8
  <2> HIDE DEF S
  <2> QED
    BY <1>1, <2>1, ValuesUpTo
<1> QED
  BY <1>7, <1>8, <1>9

\* g[i] is the value of the first i digits.
Values(g, digits) == g = [i \in 0..Len(digits) |-> IF i = 0 THEN 0 ELSE Base * g[i - 1] + digits[i]]

LEMMA ValueThere ==
    ASSUME NEW digits \in Seq(Digits)
    PROVE  \E g \in [0..Len(digits) -> Nat] :
               /\ g[0] = 0
               /\ \A i \in 1..Len(digits) : g[i] = Base * g[i - 1] + digits[i]
               /\ Value(digits) = g[Len(digits)]
<1> DEFINE n == Len(digits)
           step == [i \in 1..n |-> [x \in Nat |-> Base * x + digits[i]]]
<1>1. n \in Nat /\ Base \in Nat /\ \A i \in 1..n : digits[i] \in Nat
  BY FixedAssumption DEF Digits
<1>2. \A x \in Nat : \A i \in 1..n : Base * x + digits[i] \in Nat
  BY <1>1
<1>3. Steps(step, Nat, n)
  BY <1>2 DEF Steps
<1>4. PICK g \in [0..n -> Nat] : Repeats(g, 0, step, n)
  BY <1>1, <1>3, RepetitionThere
<1>5. ASSUME NEW i \in 0..n, i # 0
      PROVE  step[i][g[i - 1]] = Base * g[i - 1] + digits[i]
  <2>1. i - 1 \in 0..n /\ i \in 1..n
    BY <1>1
  <2>2. step[i] = [x \in Nat |-> Base * x + digits[i]]
    BY <2>1
  <2> QED
    BY <1>4, <2>1, <2>2
<1> HIDE DEF step
<1>6. Values(g, digits)
  BY <1>4, <1>5 DEF Repeats, Values
<1>7. PICK f : f = CHOOSE h : Values(h, digits)
  OBVIOUS
<1>8. Values(f, digits)
  BY <1>6, <1>7
<1>9. Value(digits) = f[n]
  BY <1>7 DEF Value, Values
<1>10. f[0] = 0 /\ \A i \in 1..n : f[i] = Base * f[i - 1] + digits[i]
  <2>1. 0 \in 0..n /\ \A i \in 1..n : i \in 0..n /\ i # 0
    BY <1>1
  <2> QED
    BY <1>8, <2>1 DEF Values
<1>11. f[0] \in Nat /\ \A i \in 1..n : f[i - 1] \in Nat => f[i] \in Nat
  BY <1>2, <1>10
<1>12. \A i \in 0..n : f[i] \in Nat
  BY <1>1, <1>11, ValuesUpTo
<1>13. f \in [0..n -> Nat]
  BY <1>8, <1>12 DEF Values
<1> QED
  BY <1>9, <1>10, <1>13

\* The digits up to a place are less than what the next place would count.
LEMMA ValueBound ==
    ASSUME NEW n \in 0..Places, NEW g \in [0..n -> Nat], NEW digit \in [1..n -> Digits], g[0] = 0,
           \A i \in 1..n : g[i] = Base * g[i - 1] + digit[i]
    PROVE  \A i \in 0..n : g[i] < Power[i]
<1> DEFINE T == {i \in 0..n : g[i] < Power[i]}
<1>1. n \in Nat /\ Places \in Nat /\ Base \in Nat /\ Base > 1
  BY FixedAssumption
<1>2. 0 \in T
  BY <1>1, Powers
<1>3. ASSUME NEW i \in 1..n, i - 1 \in T
      PROVE  i \in T
  <2>1. i \in 1..Places /\ i - 1 \in 0..Places /\ i - 1 \in 0..n
    BY <1>1
  <2>2. PICK p \in Nat : p = Power[i - 1] /\ Power[i] = Base * p
    BY <2>1, Powers
  <2>3. PICK x \in Nat : x = g[i - 1] /\ g[i] = Base * x + digit[i]
    BY <2>1
  <2>4. PICK d \in Nat : d = digit[i] /\ d <= Base - 1
    BY <1>1 DEF Digits
  <2>5. x + 1 <= p
    BY <1>3, <2>2, <2>3
  <2>6. Base * (x + 1) <= Base * p /\ Base * (x + 1) = Base * x + Base
    BY <1>1, <2>5
  <2>7. PICK y \in Nat, z \in Nat : y = Base * x /\ z = Base * p
    BY <1>1
  <2>8. y + d < z
    <3>1. y + Base <= z
      BY <2>6, <2>7
    <3> QED
      BY <1>1, <2>4, <3>1
  <2> QED
    BY <2>1, <2>2, <2>3, <2>4, <2>7, <2>8
<1> HIDE DEF T
<1>4. 0..n \subseteq T
  BY <1>1, <1>2, <1>3, InductionUpTo
<1> QED
  BY <1>4 DEF T

IsQuotient(y, x, p) == y = x \div p
IsProduct(c, b, p) == c = b * p

\* To divide by a product is to divide twice.
LEMMA DivideTwice ==
    ASSUME NEW x \in Nat, NEW b \in Nat \ {0}, NEW p \in Nat \ {0}, NEW c \in Nat \ {0}, NEW y \in Nat,
           IsProduct(c, b, p), IsQuotient(y, x, p)
    PROVE  IsQuotient(y \div b, x, c)
<1> USE DEF IsQuotient, IsProduct
<1>1. y * p <= x /\ x < y * p + p
  BY WholePart
<1>2. PICK q \in Nat : q = y \div b /\ q * b <= y /\ y < q * b + b
  BY WholePart
<1>3. c \in Nat \ {0} /\ c = b * p
  OBVIOUS
<1>4. PICK e \in Nat : e = q * b
  OBVIOUS
<1>5. e * p <= y * p
  BY <1>2, <1>4
<1>6. y + 1 <= e + b
  BY <1>2, <1>4
<1>7. (y + 1) * p <= (e + b) * p
  BY <1>6
<1>8. (y + 1) * p = y * p + p /\ (e + b) * p = e * p + c
  BY <1>3
<1>9. e * p = q * c
  BY <1>3, <1>4
<1>10. q * c <= x /\ x < q * c + c
  <2>1. PICK u \in Nat, v \in Nat : u = y * p /\ v = q * c
    OBVIOUS
  <2> QED
    BY <1>1, <1>5, <1>7, <1>8, <1>9, <2>1
<1>11. x \div c = q
  <2>1. PICK z \in Nat : z = x \div c /\ z * c <= x /\ x < z * c + c
    BY WholePart
  <2>2. PICK u \in Nat : u = q * c
    OBVIOUS
  <2>3. PICK v \in Nat : v = z * c
    OBVIOUS
  <2>4. ASSUME z < q PROVE FALSE
    <3>1. (z + 1) * c <= q * c /\ (z + 1) * c = z * c + c
      BY <2>4
    <3> QED
      BY <1>10, <2>1, <2>2, <2>3, <3>1
  <2>5. ASSUME q < z PROVE FALSE
    <3>1. (q + 1) * c <= z * c /\ (q + 1) * c = q * c + c
      BY <2>5
    <3> QED
      BY <1>10, <2>1, <2>2, <2>3, <3>1
  <2> QED
    BY <2>1, <2>4, <2>5
<1> QED
  BY <1>1, <1>2, <1>3, <1>11

\* The digits fmt writes of what is left of a unit read as what is left.
LEMMA FractionValue ==
    ASSUME NEW rest \in Nat, rest < Scale, NEW digits,
           digits = [i \in 1..Places |-> (rest \div Power[Places - i]) % Base]
    PROVE  digits \in Seq(Digits) /\ Len(digits) = Places /\ Value(digits) = rest
<1>1. Places \in Nat /\ Base \in Nat /\ Base > 1 /\ Power[0] = 1 /\ Scale = Power[Places]
  BY FixedAssumption, Powers DEF Scale
<1>2. ASSUME NEW i \in 0..Places
      PROVE  Places - i \in 0..Places /\ Power[Places - i] \in Nat \ {0} /\ rest \div Power[Places - i] \in Nat
  <2>1. Places - i \in 0..Places
    BY <1>1
  <2>2. Power[Places - i] \in Nat \ {0}
    BY <2>1, Powers
  <2> QED
    BY <2>1, <2>2, WholePart
<1>3. \A i \in 1..Places : (rest \div Power[Places - i]) % Base \in Digits
  <2> SUFFICES ASSUME NEW i \in 1..Places
      PROVE  (rest \div Power[Places - i]) % Base \in Digits
    OBVIOUS
  <2>1. PICK x \in Nat : x = rest \div Power[Places - i]
    BY <1>1, <1>2
  <2>2. x % Base \in 0..Base - 1
    BY <1>1
  <2> QED
    BY <2>1, <2>2 DEF Digits
<1>4. digits \in [1..Places -> Digits]
  BY <1>3
<1>5. digits \in Seq(Digits) /\ Len(digits) = Places
  BY <1>1, <1>4
<1>6. PICK g \in [0..Places -> Nat] :
          /\ g[0] = 0
          /\ \A i \in 1..Places : g[i] = Base * g[i - 1] + digits[i]
          /\ Value(digits) = g[Places]
  BY <1>5, ValueThere
<1> DEFINE T == {i \in 0..Places : g[i] = rest \div Power[Places - i]}
<1>7. 0 \in T
  <2>1. PICK p \in Nat \ {0} : p = Power[Places - 0]
    <3>1. 0 \in 0..Places
      BY <1>1
    <3> QED
      BY <1>2, <3>1
  <2>2. rest < p
    BY <1>1, <2>1
  <2>3. PICK q \in Nat : q = rest \div p /\ q * p <= rest
    BY WholePart
  <2>4. q = 0
    <3> SUFFICES ASSUME q >= 1 PROVE FALSE
      BY <2>3
    <3>1. 1 * p <= q * p
      OBVIOUS
    <3> QED
      BY <2>2, <2>3, <3>1
  <2> QED
    BY <1>1, <1>6, <2>1, <2>3, <2>4
<1>8. ASSUME NEW i \in 1..Places, i - 1 \in T
      PROVE  i \in T
  <2>1. i \in 0..Places /\ i - 1 \in 0..Places /\ Places - (i - 1) \in 1..Places
        /\ (Places - (i - 1)) - 1 = Places - i
    BY <1>1
  <2>2. PICK p \in Nat \ {0} : p = Power[Places - i]
    BY <1>2, <2>1
  <2>3. Power[Places - (i - 1)] = Base * p
    BY <2>1, <2>2, Powers
  <2>4. PICK x \in Nat : x = rest \div p
    BY <1>2, <2>1, <2>2
  <2>5. g[i - 1] = x \div Base
    <3>1. g[i - 1] = rest \div Power[Places - (i - 1)]
      BY <1>8
    <3>2. PICK c \in Nat \ {0} : c = Power[Places - (i - 1)] /\ c = Base * p
      BY <1>1, <2>1, <2>3, Powers
    <3>3. Base \in Nat \ {0}
      BY <1>1
    <3>4. IsProduct(c, Base, p) /\ IsQuotient(x, rest, p)
      BY <2>4, <3>2 DEF IsProduct, IsQuotient
    <3>5. IsQuotient(x \div Base, rest, c)
      BY <2>2, <2>4, <3>2, <3>3, <3>4, DivideTwice
    <3> QED
      BY <3>1, <3>2, <3>5 DEF IsQuotient
  <2>6. digits[i] = x % Base
    BY <1>5, <2>2, <2>4
  <2>7. g[i] = Base * (x \div Base) + (x % Base)
    BY <1>6, <2>5, <2>6
  <2>8. x = Base * (x \div Base) + (x % Base)
    BY <1>1
  <2> QED
    BY <2>1, <2>2, <2>4, <2>7, <2>8
<1> HIDE DEF T
<1>9. Places \in T
  <2>1. 0..Places \subseteq T
    BY <1>1, <1>7, <1>8, InductionUpTo
  <2> QED
    BY <1>1, <2>1
<1>10. g[Places] = rest
  <2>1. g[Places] = rest \div Power[Places - Places]
    BY <1>9 DEF T
  <2>2. Places - Places = 0 /\ rest \div 1 = rest
    BY <1>1
  <2> QED
    BY <1>1, <2>1, <2>2
<1> QED
  BY <1>5, <1>6, <1>10

\* The zeros that fill up a fraction make it count in the unit it is stored in.
LEMMA PaddedValue ==
    ASSUME NEW digits \in Seq(Digits), Len(digits) <= Places
    PROVE  /\ Padded(digits) \in Seq(Digits) /\ Len(Padded(digits)) = Places
           /\ Value(digits) \in Nat /\ Value(Padded(digits)) \in Nat
           /\ Value(Padded(digits)) = Value(digits) * Power[Places - Len(digits)]
           /\ Value(Padded(digits)) < Scale
<1> DEFINE k == Len(digits)
           padded == Padded(digits)
<1>1. Places \in Nat /\ Base \in Nat /\ Base > 1 /\ Power[0] = 1 /\ Scale = Power[Places] /\ 0 \in Digits
  BY FixedAssumption, Powers DEF Scale, Digits
<1>2. k \in Nat /\ k \in 0..Places /\ \A i \in 1..k : digits[i] \in Digits
  BY <1>1
<1>3. padded \in [1..Places -> Digits]
  BY <1>1, <1>2 DEF Padded
<1>4. padded \in Seq(Digits) /\ Len(padded) = Places
  BY <1>1, <1>3
<1>5. PICK g \in [0..k -> Nat] :
          g[0] = 0 /\ (\A i \in 1..k : g[i] = Base * g[i - 1] + digits[i]) /\ Value(digits) = g[k]
  BY ValueThere
<1>6. PICK h \in [0..Places -> Nat] :
          h[0] = 0 /\ (\A i \in 1..Places : h[i] = Base * h[i - 1] + padded[i]) /\ Value(padded) = h[Places]
  BY <1>4, ValueThere
<1>7. h[k] = g[k]
  <2> DEFINE T == {i \in 0..k : h[i] = g[i]}
  <2>1. 0 \in T
    BY <1>2, <1>5, <1>6
  <2>2. ASSUME NEW i \in 1..k, i - 1 \in T
        PROVE  i \in T
    <3>1. i \in 0..k /\ i \in 1..Places /\ padded[i] = digits[i]
      <4>1. i \in 0..k /\ i \in 1..Places /\ i <= Len(digits)
        BY <1>2
      <4>2. padded = [j \in 1..Places |-> IF j <= Len(digits) THEN digits[j] ELSE 0]
        BY DEF Padded
      <4> HIDE DEF padded
      <4> QED
        BY <4>1, <4>2
    <3> QED
      BY <1>5, <1>6, <2>2, <3>1
  <2> HIDE DEF T
  <2>3. 0..k \subseteq T
    BY <1>2, <2>1, <2>2, InductionUpTo
  <2> QED
    BY <1>2, <2>3 DEF T
<1>8. h[Places] = g[k] * Power[Places - k]
  <2> DEFINE m == Places - k
             T == {i \in 0..m : h[k + i] = g[k] * Power[i]}
  <2>1. m \in Nat /\ g[k] \in Nat
    BY <1>2
  <2>2. 0 \in T
    <3>1. h[k + 0] = g[k]
      BY <1>2, <1>7
    <3>2. Power[0] = 1 /\ g[k] * 1 = g[k]
      BY <1>1, <2>1
    <3>3. 0 \in 0..m
      BY <2>1
    <3> QED
      BY <3>1, <3>2, <3>3
  <2>3. ASSUME NEW i \in 1..m, i - 1 \in T
        PROVE  i \in T
    <3>1. i \in 0..m /\ i \in 1..Places /\ k + i \in 1..Places /\ ~(k + i <= k) /\ (k + i) - 1 = k + (i - 1)
          /\ i - 1 \in 0..Places
      BY <1>2
    <3>2. padded[k + i] = 0
      BY <3>1 DEF Padded
    <3>3. PICK p \in Nat : p = Power[i - 1] /\ Power[i] = Base * p
      BY <3>1, Powers
    <3>4. h[k + (i - 1)] = g[k] * p
      BY <2>3, <3>3
    <3>5. h[k + i] = Base * (g[k] * p)
      <4>1. h[k + i] = Base * h[k + (i - 1)] + 0
        BY <1>6, <3>1, <3>2
      <4>2. g[k] * p \in Nat
        BY <2>1
      <4> QED
        BY <1>1, <3>4, <4>1, <4>2
    <3>6. \A x \in Nat : Base * (x * p) = x * (Base * p)
      BY <1>1
    <3> QED
      BY <2>1, <3>1, <3>3, <3>5, <3>6
  <2> HIDE DEF T
  <2>4. 0..m \subseteq T
    <3> HIDE DEF m
    <3> QED
      BY <2>1, <2>2, <2>3, InductionUpTo
  <2>5. k + m = Places
    BY <1>2
  <2> QED
    BY <2>1, <2>4, <2>5 DEF T
<1>9. h[Places] < Power[Places]
  <2>1. Places \in 0..Places
    BY <1>1
  <2> HIDE DEF padded
  <2>2. \A i \in 0..Places : h[i] < Power[i]
    BY <1>3, <1>6, <2>1, ValueBound
  <2> QED
    BY <2>1, <2>2
<1> QED
  BY <1>1, <1>2, <1>4, <1>5, <1>6, <1>8, <1>9

\* The powers of what is before and after a place make up the unit.
LEMMA PowersMultiply == \A i \in 0..Places : Power[i] * Power[Places - i] = Scale
<1> DEFINE T == {i \in 0..Places : Power[i] * Power[Places - i] = Scale}
<1>1. Places \in Nat /\ Base \in Nat
  BY FixedAssumption
<1>2. 0 \in T
  BY <1>1, Powers DEF Scale
<1>3. ASSUME NEW i \in 1..Places, i - 1 \in T
      PROVE  i \in T
  <2>1. i \in 0..Places /\ i - 1 \in 0..Places /\ Places - i \in 0..Places /\ Places - (i - 1) \in 1..Places
        /\ (Places - (i - 1)) - 1 = Places - i
    BY <1>1
  <2>2. PICK p \in Nat : p = Power[i - 1] /\ Power[i] = Base * p
    BY <2>1, Powers
  <2>3. PICK q \in Nat : q = Power[Places - i] /\ Power[Places - (i - 1)] = Base * q
    BY <2>1, Powers
  <2>4. (Base * p) * q = p * (Base * q)
    BY <1>1
  <2> QED
    BY <1>3, <2>1, <2>2, <2>3, <2>4
<1> HIDE DEF T
<1>4. 0..Places \subseteq T
  BY <1>1, <1>2, <1>3, InductionUpTo
<1> QED
  BY <1>4 DEF T

\* What is returned is what the functions give for the call.
Answered ==
    /\ call.op = "add" => Returned = CheckedAdd(call.a, call.b)
    /\ call.op = "sub" => Returned = CheckedSub(call.a, call.b)
    /\ call.op = "mul" => Returned = CheckedMul(call.a, call.b)
    /\ call.op = "div" => Returned = CheckedDiv(call.a, call.b)
    /\ call.op = "neg" => Returned = CheckedNeg(call.a)
    /\ call.op = "fee" => call.a >= 0 /\ call.b >= 0 /\ Returned = MakerFee(call.a, call.b)
    /\ call.op = "read" => Returned = Parse(call.literal)
    /\ call.op = "text" => Returned = Display(call.a)
    /\ call.op = "load" => Returned = LoadLoop(call.levels)
    /\ call.op = "apply" => Returned = ApplyLoop(LoadLoop(call.before).book, call.levels)
    /\ call.op = "streams" => Returned = Streams(call.venue, call.market, call.channels)
    /\ call.op = "frame" => Returned = EncodeRecords(call.records)
    /\ call.op = "compare" =>
           Returned = IF BadFile THEN None ELSE Compare(call.input, call.reference, call.limit, Bootstrap)
    /\ call.op = "reconstruct" =>
           Returned = IF BadFile THEN None ELSE Reconstruct(call.input, Bootstrap)

AnswerInv ==
    /\ Asked
    /\ answer # <<>> => answer = <<Returned>> /\ Answered

LEMMA AnswerInvInitially == Init => AnswerInv
BY DEF Init, AnswerInv

LEMMA OneReturned ==
    ASSUME NEW value, Return(value)
    PROVE  answer' = <<value>> /\ Returned' = value /\ call' = call
BY DEF Return, Returned

\* A call is answered once, with what its function gives.
LEMMA AnswerInvKept ==
    ASSUME AnswerInv, [Next]_vars
    PROVE  AnswerInv'
<1> USE DEF AnswerInv
<1>1. CASE UNCHANGED vars
  BY <1>1 DEF vars, Asked, Answered, Returned, BadFile, Bootstrap
<1>2. CASE Next
  <2>1. Asked'
    BY <1>2 DEF Next, Add, Sub, Mul, Div, Neg, Fee, Read, Text, Load, Apply, Ask, Frame, Verify, Rebuilt,
                Return, Asked
  <2>2. CASE Add
    BY <2>1, <2>2, OneReturned DEF Add, Calls, Answered
  <2>3. CASE Sub
    BY <2>1, <2>3, OneReturned DEF Sub, Calls, Answered
  <2>4. CASE Mul
    BY <2>1, <2>4, OneReturned DEF Mul, Calls, Answered
  <2>5. CASE Div
    BY <2>1, <2>5, OneReturned DEF Div, Calls, Answered
  <2>6. CASE Neg
    BY <2>1, <2>6, OneReturned DEF Neg, Calls, Answered
  <2>7. CASE Fee
    BY <2>1, <2>7, OneReturned DEF Fee, Calls, Answered
  <2>8. CASE Read
    BY <2>1, <2>8, OneReturned DEF Read, Calls, Answered
  <2>9. CASE Text
    BY <2>1, <2>9, OneReturned DEF Text, Calls, Answered
  <2>10. CASE Load
    BY <2>1, <2>10, OneReturned DEF Load, Calls, Answered
  <2>11. CASE Apply
    BY <2>1, <2>11, OneReturned DEF Apply, Calls, Answered
  <2>12. CASE Ask
    BY <2>1, <2>12, OneReturned DEF Ask, Calls, Answered
  <2>13. CASE Frame
    BY <2>1, <2>13, OneReturned DEF Frame, Calls, Answered
  <2>14. CASE Verify
    <3>1. BadFile' <=> BadFile
      BY <2>14 DEF Verify, Return, BadFile
    <3>2. Bootstrap' = Bootstrap
      BY <2>14 DEF Verify, Return, Bootstrap
    <3> QED
      BY <2>1, <2>14, <3>1, <3>2, OneReturned DEF Verify, Calls, Answered
  <2>15. CASE Rebuilt
    <3>1. BadFile' <=> BadFile
      BY <2>15 DEF Rebuilt, Return, BadFile
    <3>2. Bootstrap' = Bootstrap
      BY <2>15 DEF Rebuilt, Return, Bootstrap
    <3> QED
      BY <2>1, <2>15, <3>1, <3>2, OneReturned DEF Rebuilt, Calls, Answered
  <2> QED
    BY <1>2, <2>2, <2>3, <2>4, <2>5, <2>6, <2>7, <2>8, <2>9, <2>10, <2>11, <2>12, <2>13, <2>14, <2>15 DEF Next
<1> QED
  BY <1>1, <1>2

\* At every moment the answer, if there is one, is what the function called gives.
THEOREM AnswersAreReturned == Spec => []AnswerInv
BY AnswerInvInitially, AnswerInvKept, PTL DEF Spec

LEMMA FactorsSwap ==
    ASSUME NEW a \in Nat, NEW b \in Nat, NEW c \in Nat
    PROVE  (a * b) * c = (a * c) * b
OBVIOUS

\* from_str gives the value that is written, or refuses it for want of room.
LEMMA ParseIsExact ==
    ASSUME NEW literal, literal.whole \in Nat, literal.fraction \in Seq(Digits)
    PROVE  LET unit == Power[Len(literal.fraction)]
               read == (literal.whole * unit + Value(literal.fraction)) * Scale
           IN  IF Parse(literal) = None
               THEN Len(literal.fraction) > Places \/ ~HasRoom((literal.whole + 1) * Scale, 0)
               ELSE /\ Parse(literal) \in Raws
                    /\ Parse(literal) * unit = IF literal.sign = "-" THEN -read ELSE read
<1>1. PICK k \in Nat : k = Len(literal.fraction)
  OBVIOUS
<1>2. Places \in Nat /\ MaxRaw \in Nat /\ Scale \in Nat \ {0} /\ Scale <= MaxRaw
  BY FixedAssumption DEF Scale
<1>3. CASE k > Places
  <2>1. Parse(literal) = None
    BY <1>1, <1>3 DEF Parse
  <2> QED
    BY <1>1, <1>3, <2>1
<1>4. CASE k <= Places
  <2>1. PICK v \in Nat, w \in Nat :
            v = Value(literal.fraction) /\ w = Value(Padded(literal.fraction))
            /\ w = v * Power[Places - k] /\ w < Scale
    BY <1>1, <1>4, PaddedValue
  <2>2. PICK u \in Nat : u = Power[k]
    BY <1>1, <1>4, <1>2, Powers
  <2>3. PICK t \in Nat : t = Power[Places - k]
    <3>1. Places - k \in 0..Places
      BY <1>1, <1>2, <1>4
    <3> QED
      BY <3>1, Powers
  <2>4. u * t = Scale
    <3>1. k \in 0..Places
      BY <1>1, <1>2, <1>4
    <3> QED
      BY <2>2, <2>3, <3>1, PowersMultiply
  <2>5. PICK n \in Nat : n = literal.whole
    OBVIOUS
  <2>6. PICK m \in Nat : m = n * Scale
    BY <1>2, <2>5
  <2>7. (n * u + v) * Scale = (m + w) * u
    <3>1. w * u = v * Scale
      <4>1. w = v * t
        BY <2>1, <2>3
      <4>2. (v * t) * u = v * (u * t)
        BY <2>1, <2>2, <2>3
      <4> QED
        BY <2>4, <4>1, <4>2
    <3>2. (n * u) * Scale = (n * Scale) * u
      <4>1. PICK z \in Nat : z = Scale
        BY <1>2
      <4>2. (n * u) * z = (n * z) * u
        BY <2>2, <2>5, <4>1, FactorsSwap
      <4> QED
        BY <4>1, <4>2
    <3>3. n * u \in Nat /\ (n * u + v) * Scale = (n * u) * Scale + v * Scale
      BY <1>2, <2>1, <2>2, <2>5
    <3>4. (m + w) * u = m * u + w * u
      BY <2>1, <2>2, <2>6
    <3> QED
      BY <2>6, <3>1, <3>2, <3>3, <3>4
  <2>8. (n + 1) * Scale = m + Scale
    BY <1>2, <2>5, <2>6
  <2>9. m + w <= MaxRaw => n <= MaxRaw
    <3>1. n <= m
      BY <1>2, <2>5, <2>6
    <3> QED
      BY <1>2, <2>1, <2>5, <2>6, <3>1
  <2>10. CASE m + w <= MaxRaw
    <3>1. n \in Raws /\ m \in Raws /\ m + w \in Raws /\ -(m + w) \in Raws
      <4>1. PICK max \in Nat : max = MaxRaw
        BY <1>2
      <4>2. n <= max /\ m + w <= max
        BY <2>9, <2>10, <4>1
      <4>3. m <= max /\ -n <= max + 1 /\ -m <= max + 1 /\ -(m + w) <= max + 1 /\ -(-(m + w)) <= max + 1
        BY <2>1, <2>5, <2>6, <4>1, <4>2
      <4>4. n \in Int /\ m \in Int /\ m + w \in Int /\ -(m + w) \in Int /\ -(m + w) <= max
        BY <2>1, <2>5, <2>6, <4>1
      <4> QED
        BY <4>1, <4>2, <4>3, <4>4, WidthOfRaws
    <3>2. Parse(literal) = IF literal.sign = "-" THEN -(m + w) ELSE m + w
      <4>1. literal.whole * Scale + Value(Padded(literal.fraction)) = m + w
        BY <2>1, <2>5, <2>6
      <4>2. ~(Len(literal.fraction) > Places) /\ literal.whole \in Raws /\ literal.whole * Scale \in Raws
        BY <1>1, <1>2, <1>4, <2>5, <2>6, <3>1
      <4> QED
        BY <3>1, <4>1, <4>2 DEF Parse
    <3>3. m + w \in Int /\ -(m + w) \in Int /\ None \notin Int
      BY <2>1, <2>6, WidthOfRaws
    <3>4. Parse(literal) # None /\ Parse(literal) \in Raws
      BY <3>1, <3>2, <3>3
    <3>5. (-(m + w)) * u = -((m + w) * u)
      BY <2>1, <2>2, <2>6
    <3>6. PICK x \in Int : x = (m + w) * u /\ x = (n * u + v) * Scale
      BY <2>1, <2>2, <2>6, <2>7
    <3>7. Parse(literal) * u = IF literal.sign = "-" THEN -x ELSE x
      BY <3>2, <3>5, <3>6
    <3> QED
      BY <1>1, <2>1, <2>2, <2>5, <3>4, <3>6, <3>7
  <2>11. CASE ~(m + w <= MaxRaw)
    <3>1. m + w \notin Raws
      BY <2>1, <2>6, <2>11, WidthOfRaws
    <3>2. Parse(literal) = None
      BY <2>1, <2>5, <2>6, <3>1 DEF Parse
    <3>3. m + Scale > MaxRaw
      BY <1>2, <2>1, <2>6, <2>11
    <3>4. ~HasRoom((n + 1) * Scale, 0)
      <4>1. PICK z \in Nat : z = (n + 1) * Scale /\ z > MaxRaw
        BY <1>2, <2>6, <2>8, <3>3
      <4>2. Magnitude(z) = z /\ Magnitude(0) = 0 /\ 0 \div 2 = 0
        BY DEF Magnitude
      <4> QED
        BY <1>2, <4>1, <4>2 DEF HasRoom
    <3> QED
      BY <2>5, <3>2, <3>4
  <2> QED
    BY <2>10, <2>11
<1> QED
  BY <1>1, <1>2, <1>3, <1>4

\* What fmt writes is read back, but for the one value whose magnitude is too wide.
LEMMA DisplayIsReadBack ==
    ASSUME NEW raw \in Raws
    PROVE  Parse(Display(raw)) = IF raw = MinRaw THEN None ELSE raw
<1>1. raw \in Int /\ MaxRaw \in Nat /\ Scale \in Nat \ {0} /\ Scale = Power[Places] /\ Places \in Nat
  BY FixedAssumption, WidthOfRaws DEF Scale
<1>2. PICK m \in Nat : m = Magnitude(raw)
  BY <1>1, MagnitudeOfNegative
<1>3. PICK rest \in Nat : rest = m % Scale /\ rest < Scale
  BY <1>1
<1>4. PICK whole \in Nat : whole = m \div Scale
  BY <1>1, WholePart
<1>5. PICK digits : digits = [i \in 1..Places |-> (rest \div Power[Places - i]) % Base]
  OBVIOUS
<1>6. digits \in Seq(Digits) /\ Len(digits) = Places /\ Value(digits) = rest
  BY <1>3, <1>5, FractionValue
<1>7. Display(raw) = [sign |-> IF raw < 0 THEN "-" ELSE "", whole |-> whole, fraction |-> digits]
  BY <1>2, <1>3, <1>4, <1>5 DEF Display
<1>8. Padded(digits) = digits
  <2>1. \A i \in 1..Places : i <= Len(digits)
    BY <1>6
  <2>2. digits = [i \in 1..Places |-> digits[i]]
    BY <1>6
  <2> QED
    BY <2>1, <2>2 DEF Padded
<1>9. PICK units \in Nat : units = whole * Scale
  BY <1>1, <1>4
<1>10. units + rest = m
  <2>1. m = Scale * (m \div Scale) + (m % Scale)
    BY <1>1, <1>2
  <2>2. Scale * whole = whole * Scale
    BY <1>1, <1>4
  <2> QED
    BY <1>3, <1>4, <1>9, <2>1, <2>2
<1>11. whole <= units
  BY <1>1, <1>4, <1>9
<1>12. ~(Len(digits) > Places)
  BY <1>1, <1>6
<1>13. PICK literal : literal = Display(raw) /\ literal.sign = (IF raw < 0 THEN "-" ELSE "")
                      /\ literal.whole = whole /\ literal.fraction = digits
  <2>1. PICK sign : sign = IF raw < 0 THEN "-" ELSE ""
    OBVIOUS
  <2>2. PICK literal : literal = Display(raw) /\ literal = [sign |-> sign, whole |-> whole, fraction |-> digits]
    BY <1>7, <2>1
  <2>3. literal.sign = sign /\ literal.whole = whole /\ literal.fraction = digits
    BY <2>2
  <2> QED
    BY <2>1, <2>2, <2>3
<1>14. CASE m <= MaxRaw
  <2>1. whole \in Raws /\ units \in Raws /\ m \in Raws
    BY <1>1, <1>2, <1>4, <1>9, <1>10, <1>11, <1>14, WidthOfRaws
  <2>2. Parse(literal) = IF literal.sign = "-" THEN -m ELSE m
    BY <1>6, <1>8, <1>9, <1>10, <1>12, <1>13, <2>1 DEF Parse
  <2>3. raw # MinRaw
    BY <1>1, <1>2, <1>14 DEF Magnitude, MinRaw
  <2>4. raw = IF raw < 0 THEN -m ELSE m
    BY <1>1, <1>2 DEF Magnitude
  <2> QED
    BY <1>13, <2>2, <2>3, <2>4
<1>15. CASE ~(m <= MaxRaw)
  <2>1. m \notin Raws
    BY <1>1, <1>2, <1>15, WidthOfRaws
  <2>2. Parse(literal) = None
    BY <1>6, <1>8, <1>9, <1>10, <1>13, <2>1 DEF Parse
  <2>3. raw = MinRaw
    BY <1>1, <1>2, <1>15, WidthOfRaws DEF Magnitude, MinRaw
  <2> QED
    BY <1>13, <2>2, <2>3
<1> QED
  BY <1>14, <1>15

LEMMA AskedNumbers ==
    ASSUME Asked
    PROVE  /\ call.op \in {"add", "sub", "mul", "div", "fee"} => call.a \in Raws /\ call.b \in Raws
           /\ call.op \in {"neg", "text"} => call.a \in Raws
           /\ call.op = "read" => call.literal.whole \in Nat /\ call.literal.fraction \in Seq(Digits)
<1>1. Operands \subseteq Raws
  BY InputsAssumption
<1>2. \A l \in Literals : l.whole \in Nat /\ l.fraction \in Seq(Digits)
  BY InputsAssumption
<1>3. ASSUME call.op \in {"add", "sub", "mul", "div", "fee"}
      PROVE  call.a \in Raws /\ call.b \in Raws
  BY <1>1, <1>3 DEF Asked
<1>4. ASSUME call.op \in {"neg", "text"}
      PROVE  call.a \in Raws
  BY <1>4 DEF Asked
<1>5. ASSUME call.op = "read"
      PROVE  call.literal \in Literals
  BY <1>5 DEF Asked
<1> QED
  BY <1>2, <1>3, <1>4, <1>5

\* A sum, a difference and a negation are what they are, or do not fit.
LEMMA CheckedIsExact ==
    ASSUME NEW n \in Int
    PROVE  /\ Checked(n) # None => Checked(n) \in Raws
           /\ Checked(n) = None => ~HasRoom(n, 0)
<1>1. CASE n \in Raws
  BY <1>1, WidthOfRaws DEF Checked
<1>2. CASE n \notin Raws
  <2>1. 0 \in Int
    OBVIOUS
  <2> QED
    BY <1>2, <2>1, TooWide DEF Checked
<1> QED
  BY <1>1, <1>2

LEMMA NegatedIsExact ==
    ASSUME NEW a \in Raws
    PROVE  IF CheckedNeg(a) = None THEN a = MinRaw ELSE CheckedNeg(a) \in Raws
<1>1. a \in Int /\ MaxRaw \in Nat /\ None \notin Int /\ Raws \subseteq Int
  BY WidthOfRaws
<1>2. CASE -a \in Raws
  BY <1>1, <1>2 DEF CheckedNeg, Checked
<1>3. CASE -a \notin Raws
  <2>1. CheckedNeg(a) = None
    BY <1>3 DEF CheckedNeg, Checked
  <2>2. a = MinRaw
    BY <1>1, <1>3 DEF Raws, MinRaw
  <2> QED
    BY <2>1, <2>2
<1> QED
  BY <1>2, <1>3

\* A quotient as checked_div gives it, whatever it is divided by.
LEMMA DivIsNearest ==
    ASSUME NEW a \in Raws, NEW b \in Raws
    PROVE  IF CheckedDiv(a, b) = None
           THEN b = 0 \/ b = MinRaw \/ ~HasRoom(a * Scale, b)
           ELSE CheckedDiv(a, b) \in Raws /\ IsNearest(CheckedDiv(a, b), a * Scale, b)
<1>1. CASE b \notin {0, MinRaw}
  <2>1. PICK r : r = CheckedDiv(a, b)
    OBVIOUS
  <2>2. Rounds(r, a * Scale, b)
    BY <1>1, <2>1, ProductsAndQuotientsAreNearest
  <2> QED
    BY <2>1, <2>2 DEF Rounds
<1>2. CASE b = 0
  BY <1>2, ProductsAndQuotientsAreNearest
<1>3. CASE b = MinRaw /\ b # 0
  <2>1. CheckedNeg(MinRaw) = None
    BY FixedAssumption DEF CheckedNeg, Checked, Raws, MinRaw
  <2>2. ~(MinRaw > 0)
    BY FixedAssumption DEF MinRaw
  <2>3. \A n : RoundDiv(n, MinRaw) = None
    BY <2>1, <2>2 DEF RoundDiv
  <2>4. CheckedDiv(a, b) = None
    BY <1>3, <2>3 DEF CheckedDiv
  <2> QED
    BY <1>3, <2>4
<1> QED
  BY <1>1, <1>2, <1>3

\* What Fixed answers for each call, put together.
LEMMA AnswersOfFixed ==
    ASSUME AnswerInv, answer # <<>>
    PROVE  /\ call.op = "add" =>
                  IF Returned = None THEN ~HasRoom(call.a + call.b, 0) ELSE Returned \in Raws
           /\ call.op = "sub" =>
                  IF Returned = None THEN ~HasRoom(call.a - call.b, 0) ELSE Returned \in Raws
           /\ call.op = "neg" => IF Returned = None THEN call.a = MinRaw ELSE Returned \in Raws
           /\ call.op = "mul" => Rounds(Returned, call.a * call.b, Scale)
           /\ call.op = "fee" => Rounds(Returned, call.a * call.b, Bps)
           /\ call.op = "div" =>
                  IF Returned = None
                  THEN call.b = 0 \/ call.b = MinRaw \/ ~HasRoom(call.a * Scale, call.b)
                  ELSE Returned \in Raws /\ IsNearest(Returned, call.a * Scale, call.b)
           /\ call.op = "read" =>
                  LET unit == Power[Len(call.literal.fraction)]
                      read == (call.literal.whole * unit + Value(call.literal.fraction)) * Scale
                  IN  IF Returned = None
                      THEN Len(call.literal.fraction) > Places \/ ~HasRoom((call.literal.whole + 1) * Scale, 0)
                      ELSE /\ Returned \in Raws
                           /\ Returned * unit = IF call.literal.sign = "-" THEN -read ELSE read
           /\ call.op = "text" => Parse(Returned) = IF call.a = MinRaw THEN None ELSE call.a
<1>1. Answered /\ Asked
  BY DEF AnswerInv
<1>2. Raws \subseteq Int
  BY WidthOfRaws
<1>3. CASE call.op = "add"
  <2>1. call.a \in Int /\ call.b \in Int
    BY <1>1, <1>2, <1>3, AskedNumbers
  <2>2. PICK n \in Int : n = call.a + call.b
    BY <2>1
  <2>3. Returned = Checked(n)
    BY <1>1, <1>3, <2>2 DEF Answered, CheckedAdd
  <2> QED
    BY <1>3, <2>2, <2>3, CheckedIsExact
<1>4. CASE call.op = "sub"
  <2>1. call.a \in Int /\ call.b \in Int
    BY <1>1, <1>2, <1>4, AskedNumbers
  <2>2. PICK n \in Int : n = call.a - call.b
    BY <2>1
  <2>3. Returned = Checked(n)
    BY <1>1, <1>4, <2>2 DEF Answered, CheckedSub
  <2> QED
    BY <1>4, <2>2, <2>3, CheckedIsExact
<1>5. CASE call.op = "neg"
  BY <1>1, <1>5, AskedNumbers, NegatedIsExact DEF Answered
<1>6. CASE call.op = "mul"
  BY <1>1, <1>6, AskedNumbers, ProductsAndQuotientsAreNearest DEF Answered
<1>7. CASE call.op = "fee"
  <2>1. call.a \in Nat /\ call.b \in Nat /\ Returned = MakerFee(call.a, call.b)
    <3>1. call.a \in Int /\ call.b \in Int
      BY <1>1, <1>2, <1>7, AskedNumbers
    <3>2. call.a >= 0 /\ call.b >= 0 /\ Returned = MakerFee(call.a, call.b)
      BY <1>1, <1>7 DEF Answered
    <3> QED
      BY <3>1, <3>2
  <2> QED
    BY <1>7, <2>1, FeesAreNearest
<1>8. CASE call.op = "div"
  BY <1>1, <1>8, AskedNumbers, DivIsNearest DEF Answered
<1>9. CASE call.op = "read"
  <2>1. Returned = Parse(call.literal) /\ call.literal.whole \in Nat /\ call.literal.fraction \in Seq(Digits)
    BY <1>1, <1>9, AskedNumbers DEF Answered
  <2>2. PICK literal : literal = call.literal
    OBVIOUS
  <2>3. literal.whole \in Nat /\ literal.fraction \in Seq(Digits) /\ Returned = Parse(literal)
    BY <2>1, <2>2
  <2> QED
    BY <1>9, <2>2, <2>3, ParseIsExact
<1>10. CASE call.op = "text"
  BY <1>1, <1>10, AskedNumbers, DisplayIsReadBack DEF Answered
<1> QED
  BY <1>3, <1>4, <1>5, <1>6, <1>7, <1>8, <1>9, <1>10

LEMMA FixedIsExactThen ==
    ASSUME AnswerInv
    PROVE  FixedIsExact
<1> SUFFICES ASSUME answer # <<>>
    PROVE  FixedIsExact
  BY DEF FixedIsExact, ResultsAreNearest, RefusedForWantOfRoom, TextKeepsTheValue, Did
<1>1. ResultsAreNearest
  <2> SUFFICES ASSUME Returned # None
      PROVE  ResultsAreNearest
    BY DEF ResultsAreNearest
  <2>1. call.op \in OnFixed => Returned \in Raws
    BY AnswersOfFixed DEF OnFixed, Rounds
  <2>2. Did("mul") => IsNearest(Returned, call.a * call.b, Scale)
    BY AnswersOfFixed DEF Did, Rounds
  <2>3. Did("div") => IsNearest(Returned, call.a * Scale, call.b)
    BY AnswersOfFixed DEF Did
  <2>4. Did("fee") => IsNearest(Returned, call.a * call.b, Bps)
    BY AnswersOfFixed DEF Did, Rounds
  <2>5. Did("read") =>
            LET unit == Power[Len(call.literal.fraction)]
                read == (call.literal.whole * unit + Value(call.literal.fraction)) * Scale
            IN  Returned * unit = IF call.literal.sign = "-" THEN -read ELSE read
    BY AnswersOfFixed DEF Did
  <2> QED
    BY <2>1, <2>2, <2>3, <2>4, <2>5 DEF ResultsAreNearest
<1>2. RefusedForWantOfRoom
  <2> SUFFICES ASSUME Returned = None
      PROVE  RefusedForWantOfRoom
    BY DEF RefusedForWantOfRoom, Returned
  <2>1. Did("add") => ~HasRoom(call.a + call.b, 0)
    BY AnswersOfFixed DEF Did
  <2>2. Did("sub") => ~HasRoom(call.a - call.b, 0)
    BY AnswersOfFixed DEF Did
  <2>3. Did("neg") => call.a = MinRaw
    BY AnswersOfFixed DEF Did
  <2>4. Did("mul") => ~HasRoom(call.a * call.b, Scale)
    BY AnswersOfFixed DEF Did, Rounds
  <2>5. Did("div") => call.b = 0 \/ call.b = MinRaw \/ ~HasRoom(call.a * Scale, call.b)
    BY AnswersOfFixed DEF Did
  <2>6. Did("fee") => ~HasRoom(call.a * call.b, Bps)
    BY AnswersOfFixed DEF Did, Rounds
  <2>7. Did("read") => Len(call.literal.fraction) > Places \/ ~HasRoom((call.literal.whole + 1) * Scale, 0)
    BY AnswersOfFixed DEF Did
  <2> QED
    BY <2>1, <2>2, <2>3, <2>4, <2>5, <2>6, <2>7 DEF RefusedForWantOfRoom
<1>3. TextKeepsTheValue
  BY AnswersOfFixed DEF TextKeepsTheValue, Did
<1> QED
  BY <1>1, <1>2, <1>3 DEF FixedIsExact

\* Fixed over its whole width, for every base, every number of places and every width:
\* products, quotients and fees are nearest, an operation is refused only for want of
\* room or a zero divisor, a literal is read as it is written, and what is written is
\* read back.
THEOREM FixedIsAlwaysExact == Spec => []FixedIsExact
BY AnswersAreReturned, FixedIsExactThen, PTL

LEMMA LoopsMatchThen ==
    ASSUME AnswerInv
    PROVE  LoopsMatch
<1>1. ASSUME Did("load")
      PROVE  LoadMatches
  <2>1. call.levels \in Seq(Level)
    BY <1>1, InputsAssumption DEF AnswerInv, Asked, Did
  <2>2. Returned = LoadLoop(call.levels)
    BY <1>1 DEF AnswerInv, Answered, Did
  <2> QED
    BY <2>1, <2>2, LoadLoopLoads DEF LoadMatches
<1>2. ASSUME Did("apply")
      PROVE  ApplyMatches
  <2>1. call.levels \in Seq(Level) /\ call.before \in Seq(Level)
    BY <1>2, InputsAssumption DEF AnswerInv, Asked, Did
  <2>2. Returned = ApplyLoop(LoadLoop(call.before).book, call.levels)
    BY <1>2 DEF AnswerInv, Answered, Did
  <2>3. LoadLoop(call.before).book = LoadedBook(call.before) /\ LoadedBook(call.before) \in Book
    BY <2>1, LoadLoopLoads, LoadedBookType
  <2> QED
    BY <2>1, <2>2, <2>3, ApplyLoopApplies DEF ApplyMatches
<1> QED
  BY <1>1, <1>2 DEF LoopsMatch, LoadMatches, ApplyMatches

\* The loops of OrderBook, level by level and with their early returns, leave what
\* OrderBook says of whole messages, for every message.
THEOREM LoopsAlwaysMatch == Spec => []LoopsMatch
BY AnswersAreReturned, LoopsMatchThen, PTL

-----------------------------------------------------------------------------
(* The names of streams.                                                   *)

\* The last m of n elements are those of a suffix.
EndsAs(stream, n, suffix, m) == \A i \in 1..m : stream[(n - m) + i] = suffix[i]

LEMMA EndsWithElements ==
    ASSUME NEW T, NEW stream \in Seq(T), NEW suffix \in Seq(T)
    PROVE  EndsWith(stream, suffix) <=>
               Len(stream) > Len(suffix) /\ EndsAs(stream, Len(stream), suffix, Len(suffix))
<1> DEFINE n == Len(stream)
           m == Len(suffix)
<1>1. CASE n > m
  <2> DEFINE last == SubSeq(stream, n - m + 1, n)
  <2>1. last \in Seq(T) /\ Len(last) = m /\ \A i \in 1..m : last[i] = stream[(n - m) + i]
    BY <1>1
  <2>2. last = suffix <=> \A i \in 1..m : last[i] = suffix[i]
    <3> HIDE DEF last
    <3> QED
      BY <2>1, SameElements
  <2>3. EndsWith(stream, suffix) <=> last = suffix
    BY <1>1 DEF EndsWith
  <2> HIDE DEF last
  <2> QED
    BY <1>1, <2>1, <2>2, <2>3 DEF EndsAs
<1>2. CASE ~(n > m)
  BY <1>2 DEF EndsWith
<1> QED
  BY <1>1, <1>2

LEMMA ShortSequences ==
    ASSUME NEW T, NEW x \in T, NEW y \in T, NEW z \in T
    PROVE  /\ <<x>> \in Seq(T) /\ Len(<<x>>) = 1 /\ <<x>>[1] = x
           /\ <<x, y>> \in Seq(T) /\ Len(<<x, y>>) = 2 /\ <<x, y>>[1] = x /\ <<x, y>>[2] = y
           /\ <<x, y, z>> \in Seq(T) /\ Len(<<x, y, z>>) = 3
           /\ <<x, y, z>>[1] = x /\ <<x, y, z>>[2] = y /\ <<x, y, z>>[3] = z
           /\ <<x>> \o <<y>> = <<x, y>>
<1>1. <<x>> \in Seq(T) /\ Len(<<x>>) = 1 /\ <<x>>[1] = x
  OBVIOUS
<1>2. <<x, y>> \in Seq(T) /\ Len(<<x, y>>) = 2 /\ <<x, y>>[1] = x /\ <<x, y>>[2] = y
  OBVIOUS
<1>4. /\ <<x, y, z>> \in Seq(T) /\ Len(<<x, y, z>>) = 3
      /\ <<x, y, z>>[1] = x /\ <<x, y, z>>[2] = y /\ <<x, y, z>>[3] = z
  OBVIOUS
<1>5. <<y>> \in Seq(T) /\ Len(<<y>>) = 1 /\ <<y>>[1] = y
  OBVIOUS
<1>6. <<x>> \o <<y>> = <<x, y>>
  <2>1. PICK one, two : one = <<x>> /\ two = <<y>>
    OBVIOUS
  <2>2. PICK s : s = one \o two
    OBVIOUS
  <2>3. s \in Seq(T) /\ Len(s) = 2 /\ s[1] = x /\ s[2] = y
    BY <1>1, <1>5, <2>1, <2>2
  <2>4. PICK t : t = <<x, y>>
    OBVIOUS
  <2>5. s = t
    BY <1>2, <2>3, <2>4, SameElements
  <2> QED
    BY <2>1, <2>2, <2>4, <2>5
<1> QED
  BY <1>1, <1>2, <1>4, <1>6

LEMMA EndsWithOne ==
    ASSUME NEW x, NEW y, NEW u, NEW v
    PROVE  /\ EndsWith(<<x, y>>, <<v>>) <=> y = v
           /\ ~EndsWith(<<x, y>>, <<u, v>>)
<1> DEFINE T == {x, y, u, v}
<1>1. PICK stream : stream = <<x, y>>
  OBVIOUS
<1>2. PICK one, two : one = <<v>> /\ two = <<u, v>>
  OBVIOUS
<1>3. x \in T /\ y \in T /\ u \in T /\ v \in T
  OBVIOUS
<1> HIDE DEF T
<1>4. /\ stream \in Seq(T) /\ Len(stream) = 2 /\ stream[2] = y
      /\ one \in Seq(T) /\ Len(one) = 1 /\ one[1] = v
      /\ two \in Seq(T) /\ Len(two) = 2
  BY <1>1, <1>2, <1>3, ShortSequences
<1>5. EndsWith(stream, one) <=> Len(stream) > Len(one) /\ EndsAs(stream, Len(stream), one, Len(one))
  BY <1>4, EndsWithElements
<1>6. EndsWith(stream, one) <=> y = v
  <2>1. EndsWith(stream, one) <=> EndsAs(stream, 2, one, 1)
    BY <1>4, <1>5
  <2> QED
    BY <1>4, <2>1 DEF EndsAs
<1>7. ~EndsWith(stream, two)
  BY <1>4 DEF EndsWith
<1> QED
  BY <1>1, <1>2, <1>6, <1>7

LEMMA EndsWithLast ==
    ASSUME NEW x, NEW y, NEW z, NEW v
    PROVE  EndsWith(<<x, y, z>>, <<v>>) <=> z = v
<1>1. PICK T : T = {x, y, z, v}
  OBVIOUS
<1>2. x \in T /\ y \in T /\ z \in T /\ v \in T
  BY <1>1
<1>3. PICK stream, one : stream = <<x, y, z>> /\ one = <<v>>
  OBVIOUS
<1>4. /\ stream \in Seq(T) /\ Len(stream) = 3 /\ stream[3] = z
      /\ one \in Seq(T) /\ Len(one) = 1 /\ one[1] = v
  BY <1>2, <1>3, ShortSequences
<1>5. EndsWith(stream, one) <=> Len(stream) > Len(one) /\ EndsAs(stream, Len(stream), one, Len(one))
  BY <1>4, EndsWithElements
<1>6. EndsWith(stream, one) <=> EndsAs(stream, 3, one, 1)
  BY <1>4, <1>5
<1> QED
  BY <1>3, <1>4, <1>6 DEF EndsAs

\* A name of three parts ends with two when its last two are those.
LEMMA EndsWithPair ==
    ASSUME NEW x, NEW y, NEW z, NEW u, NEW v
    PROVE  EndsWith(<<x, y, z>>, <<u, v>>) <=> y = u /\ z = v
<1>1. PICK T : T = {x, y, z, u, v}
  OBVIOUS
<1>2. x \in T /\ y \in T /\ z \in T /\ u \in T /\ v \in T
  BY <1>1
<1>3. PICK stream, two : stream = <<x, y, z>> /\ two = <<u, v>>
  OBVIOUS
<1>4. /\ stream \in Seq(T) /\ Len(stream) = 3 /\ stream[2] = y /\ stream[3] = z
      /\ two \in Seq(T) /\ Len(two) = 2 /\ two[1] = u /\ two[2] = v
  BY <1>2, <1>3, ShortSequences
<1>5. EndsWith(stream, two) <=> Len(stream) > Len(two) /\ EndsAs(stream, Len(stream), two, Len(two))
  BY <1>4, EndsWithElements
<1>6. EndsWith(stream, two) <=> EndsAs(stream, 3, two, 2)
  BY <1>4, <1>5
<1>7. EndsAs(stream, 3, two, 2) <=> stream[2] = two[1] /\ stream[3] = two[2]
  BY DEF EndsAs
<1> QED
  BY <1>3, <1>4, <1>6, <1>7

LEMMA JoinedThree ==
    ASSUME NEW x, NEW y, NEW z
    PROVE  <<x>> \o <<y, z>> = <<x, y, z>>
<1>1. PICK T : T = {x, y, z}
  OBVIOUS
<1>2. x \in T /\ y \in T /\ z \in T
  BY <1>1
<1>3. PICK one, two, three : one = <<x>> /\ two = <<y, z>> /\ three = <<x, y, z>>
  OBVIOUS
<1>4. /\ one \in Seq(T) /\ Len(one) = 1 /\ one[1] = x
      /\ two \in Seq(T) /\ Len(two) = 2 /\ two[1] = y /\ two[2] = z
      /\ three \in Seq(T) /\ Len(three) = 3 /\ three[1] = x /\ three[2] = y /\ three[3] = z
  BY <1>2, <1>3, ShortSequences
<1>5. PICK s : s = one \o two
  OBVIOUS
<1>6. s \in Seq(T) /\ Len(s) = 3 /\ s[1] = x /\ s[2] = y /\ s[3] = z
  <2>1. s \in Seq(T) /\ Len(s) = Len(one) + Len(two)
    BY <1>4, <1>5, ConcatElements
  <2>2. \A i \in 1..Len(one) + Len(two) : s[i] = IF i <= Len(one) THEN one[i] ELSE two[i - Len(one)]
    BY <1>4, <1>5, ConcatElements
  <2>3. s[1] = one[1] /\ s[2] = two[2 - 1] /\ s[3] = two[3 - 1]
    <3>1. 1 \in 1..Len(one) + Len(two) /\ 2 \in 1..Len(one) + Len(two) /\ 3 \in 1..Len(one) + Len(two)
      BY <1>4
    <3> QED
      BY <1>4, <2>2, <3>1
  <2> QED
    BY <1>4, <2>1, <2>3
<1>7. s = three
  BY <1>4, <1>6, SameElements
<1> QED
  BY <1>3, <1>5, <1>7

\* The name a stream of Binance is asked for under is told by its end.
LEMMA ChannelOfTwoParts ==
    ASSUME NEW symbol, NEW part
    PROVE  ChannelForStream(<<symbol, part>>) =
               IF part = "depth" THEN "book_diff"
               ELSE IF part = "trade" THEN "trade"
               ELSE IF part = "bookTicker" THEN "book_ticker"
               ELSE IF part = "forceOrder" THEN "liquidation"
               ELSE None
<1>1. PICK stream : stream = <<symbol, part>>
  OBVIOUS
<1>2. /\ EndsWith(stream, <<"depth">>) <=> part = "depth"
      /\ EndsWith(stream, <<"trade">>) <=> part = "trade"
      /\ EndsWith(stream, <<"bookTicker">>) <=> part = "bookTicker"
      /\ EndsWith(stream, <<"forceOrder">>) <=> part = "forceOrder"
  BY <1>1, EndsWithOne
<1>3. /\ ~EndsWith(stream, <<"depth10", "100ms">>)
      /\ ~EndsWith(stream, <<"depth", "100ms">>)
      /\ ~EndsWith(stream, <<"markPrice", "1s">>)
  BY <1>1, EndsWithOne
<1>4. stream # <<"depth">>
  BY <1>1, ShortSequences
<1> QED
  BY <1>1, <1>2, <1>3, <1>4 DEF ChannelForStream

LEMMA ChannelOfThreeParts ==
    ASSUME NEW symbol, NEW part, NEW rate, rate \notin {"depth", "trade", "bookTicker", "forceOrder"}
    PROVE  ChannelForStream(<<symbol, part, rate>>) =
               IF part = "depth10" /\ rate = "100ms" THEN "book_snapshot"
               ELSE IF part = "depth" /\ rate = "100ms" THEN "book_diff"
               ELSE IF part = "markPrice" /\ rate = "1s" THEN "funding"
               ELSE None
<1>1. PICK stream : stream = <<symbol, part, rate>>
  OBVIOUS
<1>2. /\ ~EndsWith(stream, <<"depth">>)
      /\ ~EndsWith(stream, <<"trade">>)
      /\ ~EndsWith(stream, <<"bookTicker">>)
      /\ ~EndsWith(stream, <<"forceOrder">>)
  BY <1>1, EndsWithLast
<1>3. /\ EndsWith(stream, <<"depth10", "100ms">>) <=> part = "depth10" /\ rate = "100ms"
      /\ EndsWith(stream, <<"depth", "100ms">>) <=> part = "depth" /\ rate = "100ms"
      /\ EndsWith(stream, <<"markPrice", "1s">>) <=> part = "markPrice" /\ rate = "1s"
  BY <1>1, EndsWithPair
<1>4. stream # <<"depth">>
  BY <1>1, ShortSequences
<1> QED
  BY <1>1, <1>2, <1>3, <1>4 DEF ChannelForStream

\* The name a channel is asked for under is recognised as that channel and no other.
LEMMA ChannelComesBack ==
    ASSUME NEW symbol, NEW market, NEW channel \in Channels,
           BinanceStreamName(symbol, market, channel) # None
    PROVE  ChannelForStream(BinanceStreamName(symbol, market, channel)) = channel
<1>1. channel \in {"book_diff", "book_snapshot", "trade", "book_ticker", "funding", "liquidation"}
  BY DEF BinanceStreamName, Channels
<1>2. BinanceStreamName(symbol, market, channel) = <<symbol>> \o BinanceSuffix[channel]
  BY DEF BinanceStreamName
<1>3. \A x, y : <<x>> \o <<y>> = <<x, y>>
  <2> SUFFICES ASSUME NEW x, NEW y PROVE <<x>> \o <<y>> = <<x, y>>
    OBVIOUS
  <2>1. x \in {x, y} /\ y \in {x, y}
    OBVIOUS
  <2> QED
    BY <2>1, ShortSequences
<1>4. \A x, y, z : <<x>> \o <<y, z>> = <<x, y, z>>
  BY JoinedThree
<1>5. CASE channel = "book_diff"
  <2>1. BinanceStreamName(symbol, market, channel) = <<symbol, "depth", "100ms">>
    BY <1>2, <1>4, <1>5 DEF BinanceSuffix
  <2> QED
    BY <1>5, <2>1, ChannelOfThreeParts
<1>6. CASE channel = "book_snapshot"
  <2>1. BinanceStreamName(symbol, market, channel) = <<symbol, "depth10", "100ms">>
    BY <1>2, <1>4, <1>6 DEF BinanceSuffix
  <2> QED
    BY <1>6, <2>1, ChannelOfThreeParts
<1>7. CASE channel = "trade"
  <2>1. BinanceStreamName(symbol, market, channel) = <<symbol, "trade">>
    BY <1>2, <1>3, <1>7 DEF BinanceSuffix
  <2> QED
    BY <1>7, <2>1, ChannelOfTwoParts
<1>8. CASE channel = "book_ticker"
  <2>1. BinanceStreamName(symbol, market, channel) = <<symbol, "bookTicker">>
    BY <1>2, <1>3, <1>8 DEF BinanceSuffix
  <2> QED
    BY <1>8, <2>1, ChannelOfTwoParts
<1>9. CASE channel = "funding"
  <2>1. BinanceStreamName(symbol, market, channel) = <<symbol, "markPrice", "1s">>
    BY <1>2, <1>4, <1>9 DEF BinanceSuffix
  <2> QED
    BY <1>9, <2>1, ChannelOfThreeParts
<1>10. CASE channel = "liquidation"
  <2>1. BinanceStreamName(symbol, market, channel) = <<symbol, "forceOrder">>
    BY <1>2, <1>3, <1>10 DEF BinanceSuffix
  <2> QED
    BY <1>10, <2>1, ChannelOfTwoParts
<1> QED
  BY <1>1, <1>5, <1>6, <1>7, <1>8, <1>9, <1>10

-----------------------------------------------------------------------------
LEMMA MinOfOne ==
    ASSUME NEW S, NEW n \in S, n \in Int, \A m \in S : m = n
    PROVE  Min(S) = n
<1>1. \E m \in S : \A k \in S : m <= k
  OBVIOUS
<1>2. Min(S) \in S
  BY <1>1 DEF Min
<1> QED
  BY <1>2

\* On a combined connection each stream has the place of its channel in the list, and
\* no channel is twice in it.
LEMMA CombinedStreams ==
    ASSUME NEW venue, NEW market, NEW channels \in Seq(Channels),
           Len(channels) # 1, Streams(venue, market, channels) # None,
           market \in MarketTypes
    PROVE  /\ \A i \in DOMAIN Streams(venue, market, channels) :
                  Streams(venue, market, channels)[i] = [session |-> i, read |-> channels[i]]
           /\ \A i, j \in DOMAIN channels : i # j => channels[i] # channels[j]
<1>1. PICK name : name = [c \in Channels |-> BinanceStreamName("btcusdt", market, c)]
  OBVIOUS
<1>2. PICK url : url = CombinedStreamUrl(venue, market, "btcusdt", channels)
  OBVIOUS
<1>3. \A i \in DOMAIN channels : channels[i] \in Channels
  OBVIOUS
<1>4. PICK names : names = [i \in DOMAIN channels |-> name[channels[i]]]
  OBVIOUS
<1>5. [i \in DOMAIN channels |-> BinanceStreamName("btcusdt", market, channels[i])] = names
  BY <1>1, <1>3, <1>4
<1>6. url # None
  BY <1>2 DEF Streams
<1>7. /\ url.streams = names
      /\ \A i \in DOMAIN names : names[i] # None
      /\ \A i, j \in DOMAIN names : names[i] = names[j] => i = j
  BY <1>2, <1>5, <1>6 DEF CombinedStreamUrl
<1>8. \A i, j \in DOMAIN channels : i # j => channels[i] # channels[j]
  BY <1>4, <1>7
<1>9. ASSUME NEW i \in DOMAIN channels, NEW payload, payload = [stream |-> names[i], data |-> <<>>]
      PROVE  SessionFor(channels, payload) = i /\ LiveBookReads(channels, payload) = channels[i]
  <2>1. names[i] = BinanceStreamName("btcusdt", market, channels[i])
    BY <1>1, <1>3, <1>4, <1>9
  <2>2. ChannelForStream(names[i]) = channels[i]
    BY <1>3, <1>4, <1>7, <1>9, <2>1, ChannelComesBack
  <2>3. PICK frame : frame = UnwrapCombined(payload)
    OBVIOUS
  <2>4. frame = [stream |-> names[i], data |-> <<>>]
    BY <1>9, <2>3 DEF UnwrapCombined, Has
  <2>5. frame # None
    BY <1>3, <1>9, <2>1, <2>4, InputsAssumption
  <2>6. ChannelForStream(frame.stream) = channels[i]
    BY <2>2, <2>4
  <2>7. LiveBookReads(channels, payload) = channels[i]
    BY <2>3, <2>5, <2>6 DEF LiveBookReads
  <2>8. PICK S : S = {j \in DOMAIN channels : channels[j] = ChannelForStream(frame.stream)}
    OBVIOUS
  <2>9. Min(S) = i
    <3>1. i \in S /\ \A m \in S : m = i
      BY <1>8, <1>9, <2>6, <2>8
    <3>2. i \in Int
      BY <1>9
    <3> QED
      BY <3>1, <3>2, MinOfOne
  <2>10. SessionFor(channels, payload) = i
    BY <1>9, <2>3, <2>5, <2>6, <2>8, <2>9 DEF SessionFor
  <2> QED
    BY <2>7, <2>10
<1>10. Streams(venue, market, channels) =
          [i \in DOMAIN url.streams |->
              LET payload == [stream |-> url.streams[i], data |-> <<>>]
              IN  [session |-> SessionFor(channels, payload), read |-> LiveBookReads(channels, payload)]]
  BY <1>2, <1>6 DEF Streams
<1>11. ASSUME NEW i \in DOMAIN Streams(venue, market, channels)
       PROVE  Streams(venue, market, channels)[i] = [session |-> i, read |-> channels[i]]
  <2>1. i \in DOMAIN names /\ i \in DOMAIN channels
    BY <1>4, <1>7, <1>10, <1>11
  <2>2. PICK payload : payload = [stream |-> names[i], data |-> <<>>]
    OBVIOUS
  <2>3. Streams(venue, market, channels)[i]
        = [session |-> SessionFor(channels, payload), read |-> LiveBookReads(channels, payload)]
    BY <1>7, <1>10, <2>1, <2>2
  <2> QED
    BY <1>9, <2>1, <2>2, <2>3
<1> QED
  BY <1>8, <1>11

LEMMA StreamsComeBackThen ==
    ASSUME AnswerInv
    PROVE  StreamsComeBack
<1> SUFFICES ASSUME Did("streams"), Returned # None
             PROVE  /\ \A i \in DOMAIN Returned : Returned[i] = [session |-> i, read |-> call.channels[i]]
                    /\ \A i, j \in DOMAIN call.channels :
                           i # j => Directories(call.channels)[i] # Directories(call.channels)[j]
  BY DEF StreamsComeBack
<1>1. PICK venue, market, channels :
          venue = call.venue /\ market = call.market /\ channels = call.channels
  OBVIOUS
<1>2. market \in MarketTypes /\ channels \in Seq(Channels)
  BY <1>1, InputsAssumption DEF AnswerInv, Asked, Did
<1>3. Returned = Streams(venue, market, channels)
  BY <1>1 DEF AnswerInv, Answered, Did
<1>4. /\ \A i \in DOMAIN Streams(venue, market, channels) :
             Streams(venue, market, channels)[i] = [session |-> i, read |-> channels[i]]
      /\ \A i, j \in DOMAIN channels : i # j => channels[i] # channels[j]
  <2>1. CASE Len(channels) = 1
    <3>1. DOMAIN channels = {1}
      BY <1>2, <2>1
    <3>2. PICK url : url = StreamUrl(venue, market, "btcusdt", channels[1])
      OBVIOUS
    <3>3. DOMAIN url.streams \subseteq {1}
      <4>1. url # None
        BY <1>3, <2>1, <3>2 DEF Streams
      <4>2. url.streams = <<>> \/ url.streams = <<BinanceStreamName("btcusdt", market, channels[1])>>
        BY <3>2, <4>1 DEF StreamUrl
      <4> QED
        BY <4>2
    <3>4. Streams(venue, market, channels) =
              [i \in DOMAIN url.streams |->
                  LET payload == [stream |-> url.streams[i], data |-> <<>>]
                  IN  [session |-> SessionFor(channels, payload), read |-> LiveBookReads(channels, payload)]]
      BY <1>3, <2>1, <3>2 DEF Streams
    <3>5. ASSUME NEW i \in DOMAIN Streams(venue, market, channels)
          PROVE  Streams(venue, market, channels)[i] = [session |-> i, read |-> channels[i]]
      <4>1. i = 1 /\ i \in DOMAIN url.streams
        BY <3>3, <3>4, <3>5
      <4>2. \A payload : SessionFor(channels, payload) = 1 /\ LiveBookReads(channels, payload) = channels[1]
        BY <2>1 DEF SessionFor, LiveBookReads
      <4> QED
        BY <3>4, <4>1, <4>2
    <3> QED
      BY <3>1, <3>5
  <2>2. CASE Len(channels) # 1
    BY <1>2, <1>3, <2>2, CombinedStreams
  <2> QED
    BY <2>1, <2>2
<1>5. ASSUME NEW i \in DOMAIN channels, NEW j \in DOMAIN channels, i # j
      PROVE  Directories(channels)[i] # Directories(channels)[j]
  <2>1. channels[i] # channels[j]
    BY <1>4, <1>5
  <2>2. <<channels[i]>> # <<channels[j]>> /\ <<channels[i]>> # <<>> /\ <<channels[j]>> # <<>>
    BY <2>1
  <2> QED
    BY <1>5, <2>2 DEF Directories
<1> QED
  BY <1>1, <1>3, <1>4, <1>5

\* A capture on a combined connection writes each stream into the session of the
\* channel it was asked for, in a directory of its own, and reads each as what it is.
THEOREM StreamsAlwaysComeBack == Spec => []StreamsComeBack
BY AnswersAreReturned, StreamsComeBackThen, PTL

-----------------------------------------------------------------------------
(* The framing of chunk bodies.                                            *)

\* What a byte of a length prefix stands for, place by place.
LEMMA Weights ==
    /\ Weight \in [0..LengthPrefixBytes -> Nat \ {0}]
    /\ Weight[0] = 1
    /\ \A i \in 1..LengthPrefixBytes : Weight[i] = Byte * Weight[i - 1]
<1> DEFINE n == LengthPrefixBytes
           S == Nat \ {0}
           step == [i \in 1..n |-> [x \in S |-> Byte * x]]
           Is(f) == f = [i \in 0..n |-> IF i = 0 THEN 1 ELSE Byte * f[i - 1]]
<1>1. n \in Nat /\ Byte \in Nat /\ Byte > 1
  BY FramingAssumption
<1>2. \A x \in S : Byte * x \in S
  BY <1>1
<1>3. Steps(step, S, n) /\ 1 \in S
  BY <1>2 DEF Steps
<1>4. PICK g \in [0..n -> S] : Repeats(g, 1, step, n)
  BY <1>1, <1>3, RepetitionThere
<1>5. \A i \in 0..n : i # 0 => i - 1 \in 0..n /\ step[i][g[i - 1]] = Byte * g[i - 1]
  BY <1>1
<1> HIDE DEF step
<1>6. Is(g)
  BY <1>4, <1>5 DEF Repeats
<1>7. Is(Weight)
  BY <1>6 DEF Weight
<1>8. Weight[0] = 1 /\ \A i \in 1..n : Weight[i] = Byte * Weight[i - 1]
  BY <1>1, <1>7
<1>9. \A i \in 0..n : Weight[i] \in S
  <2> HIDE DEF Is
  <2>1. Weight[0] \in S /\ \A i \in 1..n : Weight[i - 1] \in S => Weight[i] \in S
    BY <1>2, <1>8
  <2> HIDE DEF S
  <2> QED
    BY <1>1, <2>1, ValuesUpTo
<1> QED
  BY <1>7, <1>8, <1>9

\* g[i] is what the first i bytes of a prefix say.
LeValues(g, bytes) ==
    g = [i \in 0..LengthPrefixBytes |-> IF i = 0 THEN 0 ELSE g[i - 1] + bytes[i] * Weight[i - 1]]

LEMMA LeValueThere ==
    ASSUME NEW bytes, \A i \in 1..LengthPrefixBytes : bytes[i] \in Nat
    PROVE  \E g \in [0..LengthPrefixBytes -> Nat] :
               /\ g[0] = 0
               /\ \A i \in 1..LengthPrefixBytes : g[i] = g[i - 1] + bytes[i] * Weight[i - 1]
               /\ FromLeBytes(bytes) = g[LengthPrefixBytes]
<1> DEFINE n == LengthPrefixBytes
           step == [i \in 1..n |-> [x \in Nat |-> x + bytes[i] * Weight[i - 1]]]
<1>1. n \in Nat
  BY FramingAssumption
<1>2. \A i \in 1..n : bytes[i] * Weight[i - 1] \in Nat
  <2> SUFFICES ASSUME NEW i \in 1..n PROVE bytes[i] * Weight[i - 1] \in Nat
    OBVIOUS
  <2>1. i - 1 \in 0..n
    BY <1>1
  <2>2. bytes[i] \in Nat /\ Weight[i - 1] \in Nat
    BY <2>1, Weights
  <2> QED
    BY <2>2
<1>3. \A x \in Nat : \A i \in 1..n : x + bytes[i] * Weight[i - 1] \in Nat
  BY <1>2
<1>4. Steps(step, Nat, n)
  BY <1>3 DEF Steps
<1>5. PICK g \in [0..n -> Nat] : Repeats(g, 0, step, n)
  BY <1>1, <1>4, RepetitionThere
<1>6. ASSUME NEW i \in 0..n, i # 0
      PROVE  step[i][g[i - 1]] = g[i - 1] + bytes[i] * Weight[i - 1]
  <2>1. i - 1 \in 0..n /\ i \in 1..n
    BY <1>1, <1>6
  <2>2. step[i] = [x \in Nat |-> x + bytes[i] * Weight[i - 1]]
    BY <2>1
  <2> QED
    BY <1>5, <2>1, <2>2
<1> HIDE DEF step
<1>7. LeValues(g, bytes)
  BY <1>5, <1>6 DEF Repeats, LeValues
<1>8. PICK f : f = CHOOSE h : LeValues(h, bytes)
  OBVIOUS
<1>9. LeValues(f, bytes)
  BY <1>7, <1>8
<1>10. FromLeBytes(bytes) = f[n]
  BY <1>8 DEF FromLeBytes, LeValues
<1>11. f[0] = 0 /\ \A i \in 1..n : f[i] = f[i - 1] + bytes[i] * Weight[i - 1]
  <2>1. 0 \in 0..n /\ \A i \in 1..n : i \in 0..n /\ i # 0
    BY <1>1
  <2> QED
    BY <1>9, <2>1 DEF LeValues
<1>12. f[0] \in Nat /\ \A i \in 1..n : f[i - 1] \in Nat => f[i] \in Nat
  BY <1>3, <1>11
<1>13. \A i \in 0..n : f[i] \in Nat
  BY <1>1, <1>12, ValuesUpTo
<1>14. f \in [0..n -> Nat]
  BY <1>9, <1>13 DEF LeValues
<1> QED
  BY <1>10, <1>11, <1>14

LEMMA LeBytesType ==
    ASSUME NEW n \in Nat
    PROVE  /\ LeBytes(n) \in Seq(Nat) /\ Len(LeBytes(n)) = LengthPrefixBytes
           /\ \A i \in 1..LengthPrefixBytes : LeBytes(n)[i] = (n \div Weight[i - 1]) % Byte
<1>1. LengthPrefixBytes \in Nat /\ Byte \in Nat /\ Byte > 1
  BY FramingAssumption
<1>2. \A i \in 1..LengthPrefixBytes : (n \div Weight[i - 1]) % Byte \in Nat
  <2> SUFFICES ASSUME NEW i \in 1..LengthPrefixBytes PROVE (n \div Weight[i - 1]) % Byte \in Nat
    OBVIOUS
  <2>1. i - 1 \in 0..LengthPrefixBytes
    BY <1>1
  <2>2. PICK w \in Nat \ {0} : w = Weight[i - 1]
    BY <2>1, Weights
  <2>3. n \div w \in Nat
    BY <2>2
  <2> QED
    BY <1>1, <2>2, <2>3
<1> QED
  BY <1>1, <1>2 DEF LeBytes

LEMMA Remainder ==
    ASSUME NEW n \in Nat, NEW d \in Nat \ {0}
    PROVE  n % d \in 0..d - 1 /\ n \div d \in Nat /\ n = d * (n \div d) + (n % d)
OBVIOUS

LEMMA ThreeFactors ==
    ASSUME NEW a \in Nat, NEW b \in Nat, NEW c \in Nat
    PROVE  a * (b * c) = (c * a) * b
OBVIOUS

\* The length that was written is the length that is read.
LEMMA LengthComesBack ==
    ASSUME NEW n \in Nat, n < Weight[LengthPrefixBytes]
    PROVE  FromLeBytes(LeBytes(n)) = n
<1> DEFINE k == LengthPrefixBytes
           bytes == LeBytes(n)
<1>1. k \in Nat /\ Byte \in Nat \ {0}
  BY FramingAssumption
<1>2. \A i \in 1..k : bytes[i] \in Nat /\ bytes[i] = (n \div Weight[i - 1]) % Byte
  <2>1. /\ bytes \in Seq(Nat) /\ Len(bytes) = k
        /\ \A i \in 1..k : bytes[i] = (n \div Weight[i - 1]) % Byte
    BY LeBytesType
  <2> HIDE DEF bytes
  <2> QED
    BY <2>1
<1> HIDE DEF bytes
<1>3. PICK g \in [0..k -> Nat] :
          g[0] = 0 /\ (\A i \in 1..k : g[i] = g[i - 1] + bytes[i] * Weight[i - 1]) /\ FromLeBytes(bytes) = g[k]
  BY <1>2, LeValueThere
<1> DEFINE T == {i \in 0..k : n = g[i] + Weight[i] * (n \div Weight[i])}
<1>4. 0 \in T
  <2>1. n \div 1 = n /\ Weight[0] = 1 /\ 0 \in 0..k
    BY <1>1, Weights
  <2> QED
    BY <1>3, <2>1
<1>5. ASSUME NEW i \in 1..k, i - 1 \in T
      PROVE  i \in T
  <2>1. i \in 0..k /\ i - 1 \in 0..k
    BY <1>1
  <2>2. PICK w \in Nat \ {0} : w = Weight[i - 1]
    BY <2>1, Weights
  <2>3. PICK c \in Nat \ {0} : c = Weight[i] /\ c = Byte * w
    BY <2>1, <2>2, Weights
  <2>4. PICK q \in Nat : q = n \div w
    BY <2>2, WholePart
  <2>5. PICK r \in Nat, d \in Nat : r = q % Byte /\ d = q \div Byte /\ q = d * Byte + r
    <3>1. q % Byte \in 0..Byte - 1 /\ q \div Byte \in Nat /\ q = Byte * (q \div Byte) + (q % Byte)
      <4>1. PICK b \in Nat \ {0} : b = Byte
        BY <1>1
      <4>2. q % b \in 0..b - 1 /\ q \div b \in Nat /\ q = b * (q \div b) + (q % b)
        BY Remainder
      <4> QED
        BY <4>1, <4>2
    <3>2. PICK d \in Nat : d = q \div Byte /\ Byte * d = d * Byte
      BY <1>1, <3>1
    <3>3. q % Byte \in Nat
      BY <1>1, <3>1
    <3> QED
      BY <3>1, <3>2, <3>3
  <2>6. d = n \div c
    <3>1. IsProduct(c, Byte, w) /\ IsQuotient(q, n, w)
      BY <2>3, <2>4 DEF IsProduct, IsQuotient
    <3>2. IsQuotient(q \div Byte, n, c)
      BY <1>1, <3>1, <2>2, <2>3, <2>4, DivideTwice
    <3> QED
      BY <2>5, <3>2 DEF IsQuotient
  <2>7. PICK x \in Nat : x = g[i - 1] /\ n = x + w * q
    BY <1>5, <2>1, <2>2, <2>4
  <2>8. g[i] = x + r * w
    BY <1>2, <1>3, <2>2, <2>4, <2>5, <2>7
  <2>9. w * q = c * d + r * w
    <3>1. PICK b \in Nat : b = Byte
      BY <1>1
    <3>2. PICK e \in Nat : e = d * b
      BY <2>5, <3>1
    <3>3. w * (e + r) = w * e + r * w
      BY <2>2, <2>5, <3>2
    <3>4. w * (d * b) = (b * w) * d
      BY ThreeFactors
    <3> QED
      BY <2>3, <2>5, <3>1, <3>2, <3>3, <3>4
  <2>10. n = g[i] + c * d
    <3>1. PICK y \in Nat, z \in Nat : y = c * d /\ z = r * w
      BY <2>2, <2>3, <2>5
    <3> QED
      BY <2>7, <2>8, <2>9, <3>1
  <2> QED
    BY <2>1, <2>3, <2>6, <2>10
<1> HIDE DEF T
<1>6. 0..k \subseteq T
  BY <1>1, <1>4, <1>5, InductionUpTo
<1>7. k \in T
  BY <1>1, <1>6
<1>8. PICK w \in Nat \ {0} : w = Weight[k] /\ n < w
  BY <1>1, Weights
<1>9. n = g[k] + w * (n \div w)
  BY <1>7, <1>8 DEF T
<1>10. n \div w = 0
  <2>1. PICK z \in Nat : z = n \div w /\ z * w <= n
    BY <1>8, WholePart
  <2>2. ASSUME z >= 1 PROVE FALSE
    <3>1. z * w >= w
      BY <1>8, <2>2
    <3> QED
      BY <1>8, <2>1, <3>1
  <2> QED
    BY <2>1, <2>2
<1>11. g[k] \in Nat
  BY <1>1
<1> QED
  BY <1>3, <1>8, <1>9, <1>10, <1>11 DEF bytes

Long(record) == Len(record) >= Weight[LengthPrefixBytes]
\* A record behind its length.
Prefixed(record) == LeBytes(Len(record)) \o record

LEMMA EncodedRecord ==
    ASSUME NEW record \in Seq(Nat)
    PROVE  /\ EncodeRecord(record) = IF Long(record) THEN None ELSE Prefixed(record)
           /\ Prefixed(record) \in Seq(Nat) /\ Prefixed(record) # None
           /\ Len(Prefixed(record)) = LengthPrefixBytes + Len(record)
           /\ \A k \in 1..LengthPrefixBytes : Prefixed(record)[k] = LeBytes(Len(record))[k]
           /\ \A k \in 1..Len(record) : Prefixed(record)[LengthPrefixBytes + k] = record[k]
<1>1. PICK prefix : prefix = LeBytes(Len(record))
  OBVIOUS
<1>2. prefix \in Seq(Nat) /\ Len(prefix) = LengthPrefixBytes /\ LengthPrefixBytes \in Nat
  BY <1>1, LeBytesType, FramingAssumption
<1>3. PICK s : s = prefix \o record
  OBVIOUS
<1>4. /\ s \in Seq(Nat) /\ Len(s) = LengthPrefixBytes + Len(record)
      /\ \A i \in 1..LengthPrefixBytes + Len(record) :
             s[i] = IF i <= LengthPrefixBytes THEN prefix[i] ELSE record[i - LengthPrefixBytes]
  BY <1>2, <1>3, ConcatElements
<1>5. \A k \in 1..LengthPrefixBytes : s[k] = prefix[k]
  BY <1>2, <1>4
<1>6. \A k \in 1..Len(record) : s[LengthPrefixBytes + k] = record[k]
  <2> SUFFICES ASSUME NEW k \in 1..Len(record) PROVE s[LengthPrefixBytes + k] = record[k]
    OBVIOUS
  <2>1. LengthPrefixBytes + k \in 1..LengthPrefixBytes + Len(record) /\ ~(LengthPrefixBytes + k <= LengthPrefixBytes)
        /\ (LengthPrefixBytes + k) - LengthPrefixBytes = k
    BY <1>2
  <2> QED
    BY <1>4, <2>1
<1>7. Prefixed(record) = s
  BY <1>1, <1>3 DEF Prefixed
<1>8. EncodeRecord(record) = IF Long(record) THEN None ELSE Prefixed(record)
  BY DEF EncodeRecord, Long, Prefixed
<1> QED
  BY <1>1, <1>4, <1>5, <1>6, <1>7, <1>8, FramingAssumption

\* g[i] is the body after the first i records.
More(was, record) ==
    IF was = None \/ EncodeRecord(record) = None THEN None ELSE was \o EncodeRecord(record)
Bodies(g, records) ==
    g = [i \in 0..Len(records) |-> IF i = 0 THEN <<>> ELSE More(g[i - 1], records[i])]

LEMMA MoreType ==
    ASSUME NEW was \in Seq(Nat) \cup {None}, NEW record \in Seq(Nat)
    PROVE  More(was, record) \in Seq(Nat) \cup {None}
<1>1. CASE was = None \/ EncodeRecord(record) = None
  BY <1>1 DEF More
<1>2. CASE was # None /\ EncodeRecord(record) # None
  <2>1. PICK e : e = EncodeRecord(record) /\ e \in Seq(Nat)
    BY <1>2, EncodedRecord
  <2>2. was \in Seq(Nat) /\ was \o e \in Seq(Nat)
    BY <1>2, <2>1
  <2> QED
    BY <1>2, <2>1, <2>2 DEF More
<1> QED
  BY <1>1, <1>2

LEMMA BodiesThere ==
    ASSUME NEW records \in Seq(Seq(Nat))
    PROVE  \E g : /\ g[0] = <<>>
                  /\ \A i \in 1..Len(records) : g[i] = More(g[i - 1], records[i])
                  /\ EncodeRecords(records) = g[Len(records)]
<1> DEFINE n == Len(records)
           S == Seq(Nat) \cup {None}
           step == [i \in 1..n |-> [x \in S |-> More(x, records[i])]]
<1>1. n \in Nat /\ \A i \in 1..n : records[i] \in Seq(Nat)
  OBVIOUS
<1>2. \A x \in S : \A i \in 1..n : More(x, records[i]) \in S
  BY <1>1, MoreType
<1>3. Steps(step, S, n)
  <2> HIDE DEF S
  <2> QED
    BY <1>2 DEF Steps
<1>4. PICK g \in [0..n -> S] : Repeats(g, <<>>, step, n)
  <2>1. <<>> \in S
    OBVIOUS
  <2> HIDE DEF S, step
  <2> QED
    BY <1>1, <1>3, <2>1, RepetitionThere
<1>5. ASSUME NEW i \in 0..n, i # 0
      PROVE  step[i][g[i - 1]] = More(g[i - 1], records[i])
  <2>1. i - 1 \in 0..n /\ i \in 1..n
    BY <1>1, <1>5
  <2>2. step[i] = [x \in S |-> More(x, records[i])]
    BY <2>1
  <2>3. g[i - 1] \in S
    BY <2>1
  <2> HIDE DEF S, step
  <2> QED
    BY <2>2, <2>3
<1> HIDE DEF step
<1>6. Bodies(g, records)
  BY <1>4, <1>5 DEF Repeats, Bodies
<1>7. PICK f : f = CHOOSE h : Bodies(h, records)
  OBVIOUS
<1>8. Bodies(f, records)
  BY <1>6, <1>7
<1>9. EncodeRecords(records) = f[n]
  BY <1>7 DEF EncodeRecords, Bodies, More
<1>10. f[0] = <<>> /\ \A i \in 1..n : f[i] = More(f[i - 1], records[i])
  <2>1. 0 \in 0..n /\ \A i \in 1..n : i \in 0..n /\ i # 0
    BY <1>1
  <2> QED
    BY <1>8, <2>1 DEF Bodies
<1> QED
  BY <1>9, <1>10

\* A record that is too long leaves no body.
LEMMA LongIsRefused ==
    ASSUME NEW records \in Seq(Seq(Nat)), NEW j \in DOMAIN records, Long(records[j])
    PROVE  EncodeRecords(records) = None
<1>1. PICK g : /\ g[0] = <<>>
               /\ \A i \in 1..Len(records) : g[i] = More(g[i - 1], records[i])
               /\ EncodeRecords(records) = g[Len(records)]
  BY BodiesThere
<1> DEFINE T == {i \in 0..Len(records) : j <= i => g[i] = None}
<1>2. Len(records) \in Nat /\ j \in 1..Len(records) /\ records[j] \in Seq(Nat)
  OBVIOUS
<1>3. 0 \in T
  BY <1>2
<1>4. ASSUME NEW i \in 1..Len(records), i - 1 \in T
      PROVE  i \in T
  <2>1. CASE j = i
    <3>1. EncodeRecord(records[i]) = None
      BY <1>2, <2>1, EncodedRecord
    <3> QED
      BY <1>1, <3>1 DEF More
  <2>2. CASE j # i
    BY <1>1, <1>2, <1>4, <2>2 DEF More
  <2> QED
    BY <2>1, <2>2
<1> HIDE DEF T
<1>5. 0..Len(records) \subseteq T
  BY <1>2, <1>3, <1>4, InductionUpTo
<1>6. Len(records) \in T
  <2>1. Len(records) \in 0..Len(records)
    BY <1>2
  <2> QED
    BY <1>5, <2>1
<1> QED
  BY <1>1, <1>2, <1>6 DEF T

\* Where the records of a body lie: at[i] bytes are those of the first i.
IsLaidOut(body, at, records) ==
    /\ body \in Seq(Nat) /\ at \in [0..Len(records) -> Nat]
    /\ at[0] = 0 /\ Len(body) = at[Len(records)]
    /\ \A i \in 1..Len(records) :
           /\ at[i] = (at[i - 1] + LengthPrefixBytes) + Len(records[i])
           /\ at[i] <= Len(body)
           /\ \A k \in 1..LengthPrefixBytes : body[at[i - 1] + k] = LeBytes(Len(records[i]))[k]
           /\ \A k \in 1..Len(records[i]) : body[(at[i - 1] + LengthPrefixBytes) + k] = records[i][k]

\* Of records that fit their prefix, the body is each with its length in front.
LEMMA BodyLaidOut ==
    ASSUME NEW records \in Seq(Seq(Nat)), \A i \in DOMAIN records : ~Long(records[i])
    PROVE  \E at : IsLaidOut(EncodeRecords(records), at, records)
<1> DEFINE n == Len(records)
           L == LengthPrefixBytes
<1>1. PICK g : /\ g[0] = <<>>
               /\ \A i \in 1..n : g[i] = More(g[i - 1], records[i])
               /\ EncodeRecords(records) = g[n]
  BY BodiesThere
<1>2. n \in Nat /\ L \in Nat /\ \A i \in 1..n : records[i] \in Seq(Nat) /\ ~Long(records[i])
  BY FramingAssumption
<1>3. ASSUME NEW i \in 1..n, g[i - 1] \in Seq(Nat)
      PROVE  /\ g[i] \in Seq(Nat) /\ Len(g[i - 1]) \in Nat
             /\ Len(g[i]) = (Len(g[i - 1]) + L) + Len(records[i])
             /\ \A k \in 1..Len(g[i - 1]) : g[i][k] = g[i - 1][k]
             /\ \A k \in 1..L : g[i][Len(g[i - 1]) + k] = LeBytes(Len(records[i]))[k]
             /\ \A k \in 1..Len(records[i]) : g[i][(Len(g[i - 1]) + L) + k] = records[i][k]
  <2>1. PICK was, e, r : was = g[i - 1] /\ e = Prefixed(records[i]) /\ r = records[i]
    OBVIOUS
  <2>2. was \in Seq(Nat) /\ was # None /\ r \in Seq(Nat)
    BY <1>2, <1>3, <2>1, FramingAssumption
  <2>3. /\ e \in Seq(Nat) /\ e # None /\ EncodeRecord(r) = e /\ Len(e) = L + Len(r)
        /\ \A k \in 1..L : e[k] = LeBytes(Len(r))[k]
        /\ \A k \in 1..Len(r) : e[L + k] = r[k]
    BY <1>2, <2>1, <2>2, EncodedRecord
  <2>4. g[i] = was \o e
    BY <1>1, <2>1, <2>2, <2>3 DEF More
  <2>5. PICK s : s = was \o e
    OBVIOUS
  <2>6. /\ s \in Seq(Nat) /\ Len(s) = Len(was) + Len(e) /\ Len(was) \in Nat /\ Len(r) \in Nat
        /\ \A k \in 1..Len(was) + Len(e) : s[k] = IF k <= Len(was) THEN was[k] ELSE e[k - Len(was)]
    <3>1. Len(r) \in Nat
      BY <2>2
    <3>2. /\ s \in Seq(Nat) /\ Len(s) = Len(was) + Len(e) /\ Len(was) \in Nat
          /\ \A k \in 1..Len(was) + Len(e) : s[k] = IF k <= Len(was) THEN was[k] ELSE e[k - Len(was)]
      <4>1. was \in Seq(Nat) /\ e \in Seq(Nat)
        BY <2>2, <2>3
      <4> QED
        BY <2>5, <4>1, ConcatElements
    <3> QED
      BY <3>1, <3>2
  <2>7. \A k \in 1..Len(was) : s[k] = was[k]
    <3>1. Len(e) \in Nat
      BY <2>3
    <3>2. \A k \in 1..Len(was) : k \in 1..Len(was) + Len(e) /\ k <= Len(was)
      BY <2>6, <3>1
    <3> QED
      BY <2>6, <3>2
  <2>8. \A k \in 1..L + Len(r) : s[Len(was) + k] = e[k]
    <3> SUFFICES ASSUME NEW k \in 1..L + Len(r) PROVE s[Len(was) + k] = e[k]
      OBVIOUS
    <3>1. PICK a \in Nat, b \in Nat : a = Len(was) /\ b = Len(e) /\ b = L + Len(r)
      BY <1>2, <2>3, <2>6
    <3>2. k \in 1..b
      BY <3>1
    <3>3. a + k \in 1..a + b /\ ~(a + k <= a) /\ (a + k) - a = k
      BY <3>1, <3>2
    <3>4. Len(was) + k \in 1..Len(was) + Len(e) /\ ~(Len(was) + k <= Len(was)) /\ (Len(was) + k) - Len(was) = k
      BY <3>1, <3>3
    <3> QED
      BY <2>6, <3>4
  <2>9. \A k \in 1..L : s[Len(was) + k] = LeBytes(Len(r))[k]
    <3>1. \A k \in 1..L : k \in 1..L + Len(r)
      BY <1>2, <2>6
    <3> QED
      BY <2>3, <2>8, <3>1
  <2>10. \A k \in 1..Len(r) : s[(Len(was) + L) + k] = r[k]
    <3> SUFFICES ASSUME NEW k \in 1..Len(r) PROVE s[(Len(was) + L) + k] = r[k]
      OBVIOUS
    <3>1. L + k \in 1..L + Len(r) /\ (Len(was) + L) + k = Len(was) + (L + k)
      BY <1>2, <2>6
    <3> QED
      BY <2>3, <2>8, <3>1
  <2>11. Len(s) = (Len(was) + L) + Len(r)
    BY <1>2, <2>3, <2>6
  <2> QED
    BY <2>1, <2>4, <2>5, <2>6, <2>7, <2>9, <2>10, <2>11
<1>4. \A i \in 0..n : g[i] \in Seq(Nat)
  <2>1. g[0] \in Seq(Nat) /\ \A i \in 1..n : g[i - 1] \in Seq(Nat) => g[i] \in Seq(Nat)
    BY <1>1, <1>3
  <2>2. PICK S : S = Seq(Nat)
    OBVIOUS
  <2> QED
    BY <1>2, <2>1, <2>2, ValuesUpTo
<1> DEFINE at == [i \in 0..n |-> Len(g[i])]
<1>5. at \in [0..n -> Nat] /\ at[0] = 0 /\ \A i \in 0..n : at[i] = Len(g[i])
  <2>1. \A i \in 0..n : Len(g[i]) \in Nat
    BY <1>4
  <2>2. 0 \in 0..n
    BY <1>2
  <2> QED
    BY <1>1, <2>1, <2>2
<1> HIDE DEF at
\* What is written stays as it is.
<1>6. \A j \in 0..n : \A i \in 0..n : j <= i =>
          at[j] <= at[i] /\ \A k \in 1..at[j] : g[i][k] = g[j][k]
  <2> SUFFICES ASSUME NEW j \in 0..n
               PROVE  \A i \in 0..n : j <= i => at[j] <= at[i] /\ \A k \in 1..at[j] : g[i][k] = g[j][k]
    OBVIOUS
  <2> DEFINE T == {i \in 0..n : j <= i => at[j] <= at[i] /\ \A k \in 1..at[j] : g[i][k] = g[j][k]}
  <2>1. at[j] \in Nat
    BY <1>5
  <2>2. 0 \in T
    <3>1. 0 \in 0..n /\ (j <= 0 => j = 0)
      BY <1>2
    <3> QED
      BY <2>1, <3>1
  <2>3. ASSUME NEW i \in 1..n, i - 1 \in T
        PROVE  i \in T
    <3>1. i \in 0..n /\ i - 1 \in 0..n /\ (j <= i => j = i \/ j <= i - 1)
      BY <1>2
    <3>2. at[i] \in Nat /\ at[i - 1] \in Nat
      BY <1>5, <3>1
    <3>3. CASE j = i
      BY <2>1, <3>1, <3>3
    <3>4. CASE j <= i - 1
      <4>1. at[j] <= at[i - 1] /\ \A k \in 1..at[j] : g[i - 1][k] = g[j][k]
        BY <2>3, <3>1, <3>4
      <4>2. g[i - 1] \in Seq(Nat)
        BY <1>4, <3>1
      <4>3. at[i] = (at[i - 1] + L) + Len(records[i]) /\ \A k \in 1..at[i - 1] : g[i][k] = g[i - 1][k]
        BY <1>3, <1>5, <3>1, <4>2
      <4>4. Len(records[i]) \in Nat
        BY <1>2
      <4>5. at[i - 1] <= at[i]
        BY <1>2, <3>2, <4>3, <4>4
      <4>6. \A k \in 1..at[j] : k \in 1..at[i - 1]
        BY <2>1, <3>2, <4>1
      <4> QED
        BY <2>1, <3>1, <3>2, <4>1, <4>3, <4>5, <4>6
    <3>5. CASE ~(j <= i)
      BY <3>1, <3>5
    <3> QED
      BY <3>1, <3>3, <3>4, <3>5
  <2> HIDE DEF T
  <2>4. 0..n \subseteq T
    BY <1>2, <2>2, <2>3, InductionUpTo
  <2> QED
    BY <2>4 DEF T
<1>7. PICK body : body = g[n]
  OBVIOUS
<1>8. body \in Seq(Nat) /\ Len(body) = at[n]
  BY <1>2, <1>4, <1>5, <1>7
<1>9. ASSUME NEW i \in 1..n
      PROVE  /\ at[i] = (at[i - 1] + L) + Len(records[i])
             /\ at[i] <= Len(body)
             /\ \A k \in 1..L : body[at[i - 1] + k] = LeBytes(Len(records[i]))[k]
             /\ \A k \in 1..Len(records[i]) : body[(at[i - 1] + L) + k] = records[i][k]
  <2>1. i \in 0..n /\ i - 1 \in 0..n /\ n \in 0..n /\ i <= n
    BY <1>2
  <2>2. PICK a \in Nat, b \in Nat, m \in Nat : a = at[i - 1] /\ b = at[i] /\ m = Len(records[i])
    <3>1. at[i] \in Nat /\ at[i - 1] \in Nat
      BY <1>5, <2>1
    <3>2. Len(records[i]) \in Nat
      BY <1>2
    <3> QED
      BY <3>1, <3>2
  <2>3. g[i - 1] \in Seq(Nat) /\ Len(g[i - 1]) = a /\ Len(g[i]) = b
    BY <1>4, <1>5, <2>1, <2>2
  <2>4. /\ b = (a + L) + m
        /\ \A k \in 1..L : g[i][a + k] = LeBytes(Len(records[i]))[k]
        /\ \A k \in 1..m : g[i][(a + L) + k] = records[i][k]
    BY <1>3, <2>2, <2>3
  <2>5. b <= Len(body) /\ \A k \in 1..b : body[k] = g[i][k]
    BY <1>6, <1>7, <1>8, <2>1, <2>2
  <2>6. \A k \in 1..L : a + k \in 1..b
    BY <1>2, <2>4
  <2>7. \A k \in 1..m : (a + L) + k \in 1..b
    BY <1>2, <2>4
  <2> QED
    BY <2>2, <2>4, <2>5, <2>6, <2>7
<1>10. IsLaidOut(body, at, records)
  BY <1>5, <1>8, <1>9 DEF IsLaidOut
<1> QED
  BY <1>1, <1>7, <1>10

\* What decode_records has in hand after a turn of its loop.
Readings == [records : Seq(Seq(Nat)), at : Nat \ {0}, ok : BOOLEAN]
ReadFirst == [records |-> <<>>, at |-> 1, ok |-> TRUE]

LEMMA ReadFirstType == ReadFirst \in Readings
<1>1. <<>> \in Seq(Seq(Nat))
  OBVIOUS
<1> QED
  BY <1>1 DEF ReadFirst, Readings

\* The part of a body that a turn reads, when there is so much of it.
LEMMA PartOfBody ==
    ASSUME NEW body \in Seq(Nat), NEW a \in Nat \ {0}, NEW b \in Nat, b <= Len(body), a <= b + 1
    PROVE  /\ SubSeq(body, a, b) \in Seq(Nat) /\ Len(SubSeq(body, a, b)) = (b + 1) - a
           /\ \A k \in 1..(b + 1) - a : SubSeq(body, a, b)[k] = body[(a - 1) + k]
<1>1. Len(body) \in Nat /\ \A i \in 1..Len(body) : body[i] \in Nat
  OBVIOUS
<1>2. CASE a <= b
  <2>1. \A k \in 1..(b + 1) - a : (a - 1) + k \in 1..Len(body)
    BY <1>1
  <2> QED
    BY <1>1, <1>2, <2>1
<1>3. CASE a = b + 1
  BY <1>1, <1>3
<1> QED
  BY <1>2, <1>3

LEMMA DecodeType ==
    ASSUME NEW body \in Seq(Nat), NEW was \in Readings
    PROVE  Decode(was, body) \in Readings
<1>1. PICK at \in Nat \ {0}, records \in Seq(Seq(Nat)), ok \in BOOLEAN :
          at = was.at /\ records = was.records /\ ok = was.ok
          /\ was = [records |-> records, at |-> at, ok |-> ok]
  BY DEF Readings
<1>2. PICK begin : begin = at + LengthPrefixBytes
  OBVIOUS
<1>3. PICK next : next = begin + FromLeBytes(SubSeq(body, at, begin - 1))
  OBVIOUS
<1>4. Decode(was, body) =
          IF ~ok \/ at > Len(body) THEN was
          ELSE IF begin - 1 > Len(body) \/ next - 1 > Len(body) THEN [was EXCEPT !.ok = FALSE]
          ELSE [was EXCEPT !.records = Append(@, SubSeq(body, begin, next - 1)), !.at = next]
  BY <1>1, <1>2, <1>3 DEF Decode
<1>5. [was EXCEPT !.ok = FALSE] \in Readings
  BY DEF Readings
<1>6. CASE ok /\ ~(at > Len(body)) /\ ~(begin - 1 > Len(body) \/ next - 1 > Len(body))
  <2>1. begin - 1 <= Len(body) /\ begin - 1 \in Nat /\ at <= (begin - 1) + 1 /\ Len(body) \in Nat
        /\ ((begin - 1) + 1) - at = LengthPrefixBytes
    BY <1>2, <1>6, FramingAssumption
  <2>2. PICK prefix : prefix = SubSeq(body, at, begin - 1)
    OBVIOUS
  <2>3. prefix \in Seq(Nat) /\ Len(prefix) = LengthPrefixBytes
    BY <2>1, <2>2, PartOfBody
  <2>4. FromLeBytes(prefix) \in Nat
    <3>1. \A i \in 1..LengthPrefixBytes : prefix[i] \in Nat
      BY <2>3
    <3>2. LengthPrefixBytes \in 0..LengthPrefixBytes
      BY FramingAssumption
    <3> QED
      BY <3>1, <3>2, LeValueThere
  <2>5. PICK m, z, v : m = next /\ z = Len(body) /\ v = FromLeBytes(prefix)
    OBVIOUS
  <2>10. m = begin + v /\ v \in Nat /\ begin - 1 \in Nat /\ z \in Nat /\ ~(m - 1 > z)
    BY <1>3, <1>6, <2>1, <2>2, <2>4, <2>5
  <2>11. begin \in Nat /\ begin >= 1
    <3>1. LengthPrefixBytes \in Nat
      BY FramingAssumption
    <3> QED
      BY <1>1, <1>2, <3>1
  <2>12. m \in Nat \ {0} /\ m - 1 \in Nat /\ m - 1 <= z /\ begin <= (m - 1) + 1 /\ begin \in Nat \ {0}
    BY <2>10, <2>11
  <2>6. PICK record : record = SubSeq(body, begin, next - 1)
    OBVIOUS
  <2>7. record \in Seq(Nat)
    <3>1. m - 1 \in Nat /\ m - 1 <= Len(body)
      BY <2>5, <2>12
    <3>2. SubSeq(body, begin, m - 1) \in Seq(Nat)
      BY <2>12, <3>1, PartOfBody
    <3> QED
      BY <2>5, <2>6, <3>2
  <2>8. Append(records, record) \in Seq(Seq(Nat))
    <3>1. PICK R : R = Seq(Nat)
      OBVIOUS
    <3> QED
      BY <2>7, <3>1
  <2>9. Decode(was, body) = [records |-> Append(records, record), at |-> m, ok |-> ok]
    BY <1>1, <1>4, <1>6, <2>5, <2>6
  <2> QED
    BY <2>8, <2>9, <2>12 DEF Readings
<1> QED
  BY <1>4, <1>5, <1>6

\* The first i of a sequence are the first i - 1 and the next.
LEMMA PrefixGrows ==
    ASSUME NEW R, NEW s \in Seq(R), NEW i \in 1..Len(s)
    PROVE  Append(SubSeq(s, 1, i - 1), s[i]) = SubSeq(s, 1, i)
<1>1. PICK a, b : a = Append(SubSeq(s, 1, i - 1), s[i]) /\ b = SubSeq(s, 1, i)
  OBVIOUS
<1>2. b \in Seq(R) /\ Len(b) = i /\ \A k \in 1..i : b[k] = s[k]
  BY <1>1
<1>3. PICK c : c = SubSeq(s, 1, i - 1)
  OBVIOUS
<1>4. c \in Seq(R) /\ Len(c) = i - 1 /\ \A k \in 1..i - 1 : c[k] = s[k]
  BY <1>3
<1>5. a \in Seq(R) /\ Len(a) = i /\ \A k \in 1..i : a[k] = s[k]
  BY <1>1, <1>3, <1>4
<1>6. a = b
  BY <1>2, <1>5, SameElements
<1> QED
  BY <1>1, <1>6

\* f[i] is what is in hand after i turns.
Turned(f, body) == f = [i \in 0..Len(body) |-> IF i = 0 THEN ReadFirst ELSE Decode(f[i - 1], body)]

LEMMA TurnsThere ==
    ASSUME NEW body \in Seq(Nat)
    PROVE  \E f : /\ f[0] = ReadFirst
                  /\ \A i \in 1..Len(body) : f[i] = Decode(f[i - 1], body)
                  /\ DecodeRecords(body) = IF f[Len(body)].ok THEN f[Len(body)].records ELSE None
<1> DEFINE n == Len(body)
           S == Readings
           step == [i \in 1..n |-> [x \in S |-> Decode(x, body)]]
<1>1. n \in Nat
  OBVIOUS
<1>2. \A x \in S : \A i \in 1..n : Decode(x, body) \in S
  BY DecodeType
<1>3. Steps(step, S, n)
  <2> HIDE DEF S
  <2> QED
    BY <1>2 DEF Steps
<1>4. PICK g \in [0..n -> S] : Repeats(g, ReadFirst, step, n)
  <2>1. ReadFirst \in S
    BY ReadFirstType
  <2> HIDE DEF S, step
  <2> QED
    BY <1>1, <1>3, <2>1, RepetitionThere
<1>5. ASSUME NEW i \in 0..n, i # 0
      PROVE  step[i][g[i - 1]] = Decode(g[i - 1], body)
  <2>1. i - 1 \in 0..n /\ i \in 1..n
    BY <1>1, <1>5
  <2>2. step[i] = [x \in S |-> Decode(x, body)]
    BY <2>1
  <2>3. g[i - 1] \in S
    BY <2>1
  <2> HIDE DEF S, step
  <2> QED
    BY <2>2, <2>3
<1> HIDE DEF step
<1>6. Turned(g, body)
  BY <1>4, <1>5 DEF Repeats, Turned
<1>7. PICK f : f = CHOOSE h : Turned(h, body)
  OBVIOUS
<1>8. Turned(f, body)
  BY <1>6, <1>7
<1>9. DecodeRecords(body) = IF f[n].ok THEN f[n].records ELSE None
  BY <1>7 DEF DecodeRecords, Turned, ReadFirst
<1>10. f[0] = ReadFirst /\ \A i \in 1..n : f[i] = Decode(f[i - 1], body)
  <2>1. 0 \in 0..n /\ \A i \in 1..n : i \in 0..n /\ i # 0
    BY <1>1
  <2> QED
    BY <1>8, <2>1 DEF Turned
<1> QED
  BY <1>9, <1>10

\* What is in hand when the first i records have been read, and when the next was cut.
HasRead(at, records, i) == [records |-> SubSeq(records, 1, i), at |-> at[i] + 1, ok |-> TRUE]
HasFailed(at, records, i) == [HasRead(at, records, i) EXCEPT !.ok = FALSE]
\* The first bytes of a body.
BeginningOf(part, body) ==
    part \in Seq(Nat) /\ Len(part) <= Len(body) /\ \A p \in 1..Len(part) : part[p] = body[p]

\* Once a reading failed or reached the end, more turns change nothing.
LEMMA NothingLeft ==
    ASSUME NEW was, NEW body, ~was.ok \/ was.at > Len(body)
    PROVE  Decode(was, body) = was
BY DEF Decode

\* A turn reads the next record when it is all there, and fails when it is not.
LEMMA ReadsNext ==
    ASSUME NEW records \in Seq(Seq(Nat)), \A i \in DOMAIN records : ~Long(records[i]),
           NEW body, NEW at, IsLaidOut(body, at, records),
           NEW part, BeginningOf(part, body),
           NEW i \in 1..Len(records), at[i - 1] < Len(part)
    PROVE  Decode(HasRead(at, records, i - 1), part) =
               IF at[i] <= Len(part) THEN HasRead(at, records, i) ELSE HasFailed(at, records, i - 1)
<1>1. PICK was, L, a, b, m, z :
          /\ was = HasRead(at, records, i - 1) /\ L = LengthPrefixBytes
          /\ a = at[i - 1] /\ b = at[i] /\ m = Len(records[i]) /\ z = Len(part)
  OBVIOUS
<1>2. records[i] \in Seq(Nat) /\ ~Long(records[i]) /\ Len(records) \in Nat
  OBVIOUS
<1>3. L \in Nat /\ L >= 1 /\ a \in Nat /\ b \in Nat /\ m \in Nat /\ z \in Nat /\ a < z
      /\ b = (a + L) + m
  <2>1. i - 1 \in 0..Len(records) /\ i \in 0..Len(records)
    BY <1>2
  <2>2. at[i - 1] \in Nat /\ at[i] \in Nat /\ at[i] = (at[i - 1] + LengthPrefixBytes) + Len(records[i])
    BY <2>1 DEF IsLaidOut
  <2>3. Len(records[i]) \in Nat /\ Len(part) \in Nat
    BY <1>2 DEF BeginningOf
  <2>4. L \in Nat /\ L >= 1
    BY <1>1, FramingAssumption
  <2> QED
    BY <1>1, <2>2, <2>3, <2>4
<1>4. PICK begin : begin = (a + 1) + L
  OBVIOUS
<1>5. PICK prefix, next : prefix = SubSeq(part, a + 1, begin - 1) /\ next = begin + FromLeBytes(prefix)
  OBVIOUS
<1>6. begin \in Nat /\ begin >= 1 /\ begin - 1 = a + L
  BY <1>3, <1>4
<1>7. was.ok /\ was.at = a + 1 /\ ~(a + 1 > z)
  BY <1>1, <1>3 DEF HasRead
<1>8. Decode(was, part) =
          IF begin - 1 > z \/ next - 1 > z THEN [was EXCEPT !.ok = FALSE]
          ELSE [was EXCEPT !.records = Append(@, SubSeq(part, begin, next - 1)), !.at = next]
  BY <1>1, <1>4, <1>5, <1>7 DEF Decode
<1>9. [was EXCEPT !.ok = FALSE] = HasFailed(at, records, i - 1)
  BY <1>1 DEF HasFailed
<1>10. part \in Seq(Nat) /\ \A p \in 1..z : part[p] = body[p]
  BY <1>1 DEF BeginningOf
<1>11. ASSUME begin - 1 <= z
       PROVE  next = b + 1
  <2>1. /\ begin - 1 \in Nat /\ a + 1 \in Nat \ {0} /\ a + 1 <= (begin - 1) + 1
        /\ ((begin - 1) + 1) - (a + 1) = L /\ (a + 1) - 1 = a
    BY <1>3, <1>4
  <2>2. PICK e, x : e = begin - 1 /\ x = a + 1
    OBVIOUS
  <2>3. e \in Nat /\ x \in Nat \ {0} /\ x <= e + 1 /\ (e + 1) - x = L /\ x - 1 = a
    BY <2>1, <2>2
  <2>4. /\ SubSeq(part, x, e) \in Seq(Nat) /\ Len(SubSeq(part, x, e)) = (e + 1) - x
        /\ \A k \in 1..(e + 1) - x : SubSeq(part, x, e)[k] = part[(x - 1) + k]
    <3>1. e <= Len(part)
      BY <1>1, <1>11, <2>2
    <3>2. part \in Seq(Nat)
      BY <1>10
    <3> QED
      BY <2>3, <3>1, <3>2, PartOfBody
  <2>5. prefix = SubSeq(part, x, e)
    BY <1>5, <2>2
  <2>6. /\ prefix \in Seq(Nat) /\ Len(prefix) = L
        /\ \A k \in 1..L : prefix[k] = part[a + k]
    BY <2>3, <2>4, <2>5
  <2>7. PICK bytes : bytes = LeBytes(m)
    OBVIOUS
  <2>8. bytes \in Seq(Nat) /\ Len(bytes) = L
    BY <1>1, <1>3, <2>7, LeBytesType
  <2>9. \A k \in 1..L : part[a + k] = bytes[k]
    <3> SUFFICES ASSUME NEW k \in 1..L PROVE part[a + k] = bytes[k]
      OBVIOUS
    <3>1. a + k \in 1..z
      BY <1>3, <1>4, <1>11
    <3>2. part[a + k] = body[a + k]
      BY <1>10, <3>1
    <3>3. body[at[i - 1] + k] = LeBytes(Len(records[i]))[k]
      BY <1>1 DEF IsLaidOut
    <3> QED
      BY <1>1, <2>7, <3>2, <3>3
  <2>10. prefix = bytes
    BY <2>6, <2>8, <2>9, SameElements
  <2>11. m < Weight[L]
    <3>1. L \in 0..L
      BY <1>3
    <3>2. Weight[L] \in Nat
      BY <1>1, <3>1, Weights
    <3>3. ~(m >= Weight[L])
      BY <1>1, <1>2 DEF Long
    <3> QED
      BY <1>3, <3>2, <3>3
  <2>12. FromLeBytes(bytes) = m
    BY <1>1, <1>3, <2>7, <2>11, LengthComesBack
  <2>13. next = begin + m
    BY <1>5, <2>10, <2>12
  <2> QED
    BY <1>3, <1>4, <2>13
<1>12. CASE b <= z
  <2>1. begin - 1 <= z
    BY <1>3, <1>4, <1>12
  <2>2. next = b + 1 /\ ~(next - 1 > z) /\ next - 1 = b /\ ~(begin - 1 > z)
    <3>1. next = b + 1
      BY <1>11, <2>1
    <3> QED
      BY <1>3, <1>6, <1>12, <2>1, <3>1
  <2>3. PICK record : record = SubSeq(part, begin, b)
    OBVIOUS
  <2>4. begin \in Nat \ {0} /\ begin <= b + 1 /\ (b + 1) - begin = m /\ begin - 1 = a + L
    BY <1>3, <1>4
  <2>5. /\ record \in Seq(Nat) /\ Len(record) = m
        /\ \A k \in 1..m : record[k] = part[(a + L) + k]
    <3>1. /\ SubSeq(part, begin, b) \in Seq(Nat) /\ Len(SubSeq(part, begin, b)) = (b + 1) - begin
          /\ \A k \in 1..(b + 1) - begin : SubSeq(part, begin, b)[k] = part[(begin - 1) + k]
      BY <1>1, <1>3, <1>10, <1>12, <2>4, PartOfBody
    <3> QED
      BY <2>3, <2>4, <3>1
  <2>6. \A k \in 1..m : part[(a + L) + k] = records[i][k]
    <3> SUFFICES ASSUME NEW k \in 1..m PROVE part[(a + L) + k] = records[i][k]
      OBVIOUS
    <3>1. (a + L) + k \in 1..z
      BY <1>3, <1>12
    <3>2. part[(a + L) + k] = body[(a + L) + k]
      BY <1>10, <3>1
    <3>3. body[(at[i - 1] + LengthPrefixBytes) + k] = records[i][k]
      BY <1>1 DEF IsLaidOut
    <3> QED
      BY <1>1, <3>2, <3>3
  <2>7. record = records[i]
    <3>1. PICK r : r = records[i]
      OBVIOUS
    <3>2. r \in Seq(Nat) /\ Len(r) = m /\ \A k \in 1..m : record[k] = r[k]
      BY <1>1, <1>2, <2>5, <2>6, <3>1
    <3>3. record = r
      BY <2>5, <3>2, SameElements
    <3> QED
      BY <3>1, <3>3
  <2>8. Append(SubSeq(records, 1, i - 1), records[i]) = SubSeq(records, 1, i)
    <3>1. PICK R : R = Seq(Nat)
      OBVIOUS
    <3> QED
      BY <3>1, PrefixGrows
  <2>9. Decode(was, part) = [was EXCEPT !.records = Append(@, record), !.at = b + 1]
    BY <1>8, <2>2, <2>3
  <2>10. was = [records |-> SubSeq(records, 1, i - 1), at |-> at[i - 1] + 1, ok |-> TRUE]
    BY <1>1 DEF HasRead
  <2>11. Decode(was, part) = [records |-> Append(SubSeq(records, 1, i - 1), record), at |-> b + 1, ok |-> TRUE]
    BY <2>9, <2>10
  <2>12. Decode(was, part) = HasRead(at, records, i)
    BY <1>1, <2>7, <2>8, <2>11 DEF HasRead
  <2> QED
    BY <1>1, <1>12, <2>12
<1>13. CASE ~(b <= z)
  <2>1. begin - 1 > z \/ next - 1 > z
    <3>1. CASE begin - 1 <= z
      BY <1>3, <1>11, <1>13, <3>1
    <3> QED
      BY <1>3, <1>6, <3>1
  <2> QED
    BY <1>1, <1>8, <1>9, <1>13, <2>1
<1> QED
  BY <1>12, <1>13

LEMMA Failed ==
    ASSUME NEW at, NEW records, NEW i
    PROVE  ~HasFailed(at, records, i).ok
<1>1. HasRead(at, records, i) = [records |-> SubSeq(records, 1, i), at |-> at[i] + 1, ok |-> TRUE]
  BY DEF HasRead
<1> QED
  BY <1>1 DEF HasFailed

\* What is left when the loop ends, for a body that is all there or cut somewhere: all
\* records, or fewer, or nothing.
LEMMA ReadsWhatIsThere ==
    ASSUME NEW records \in Seq(Seq(Nat)), \A i \in DOMAIN records : ~Long(records[i]),
           NEW body, NEW at, IsLaidOut(body, at, records),
           NEW part, BeginningOf(part, body)
    PROVE  \E k \in 0..Len(records) :
               /\ k = Len(records) <=> Len(part) = Len(body)
               /\ DecodeRecords(part) = IF at[k] = Len(part) THEN SubSeq(records, 1, k) ELSE None
               /\ Len(part) = Len(body) => at[k] = Len(part)
<1>1. PICK L, z, n : L = LengthPrefixBytes /\ z = Len(part) /\ n = Len(records)
  OBVIOUS
<1>2. L \in Nat /\ L >= 1 /\ z \in Nat /\ n \in Nat /\ part \in Seq(Nat)
      /\ \A i \in 1..n : Len(records[i]) \in Nat
  BY <1>1, FramingAssumption DEF BeginningOf
<1>3. /\ \A i \in 0..n : at[i] \in Nat
      /\ at[0] = 0 /\ z <= at[n] /\ Len(body) = at[n]
      /\ \A i \in 1..n : at[i] = (at[i - 1] + L) + Len(records[i])
  BY <1>1 DEF IsLaidOut, BeginningOf
<1> DEFINE S == {i \in 0..n : i = n \/ at[i + 1] > z}
<1>4. PICK k \in S : \A j \in S : k <= j
  <2>1. n \in S /\ S \in SUBSET Nat
    BY <1>2
  <2> HIDE DEF S
  <2> QED
    BY <2>1, LeastNatural
<1>5. k \in 0..n /\ (k = n \/ at[k + 1] > z) /\ \A i \in 0..n : i < k => at[i + 1] <= z
  <2>1. \A i \in 0..n : i < k => i \notin S
    BY <1>2, <1>4
  <2>2. \A i \in 0..n : i < k => i # n /\ i + 1 \in 0..n
    BY <1>2, <1>4
  <2> QED
    BY <1>2, <1>3, <1>4, <2>1, <2>2
<1> HIDE DEF S
<1>6. \A i \in 0..k : at[i] <= z
  <2> SUFFICES ASSUME NEW i \in 0..k PROVE at[i] <= z
    OBVIOUS
  <2>1. CASE i = 0
    BY <1>2, <1>3, <2>1
  <2>2. CASE i # 0
    <3>1. i - 1 \in 0..n /\ i - 1 < k /\ (i - 1) + 1 = i
      BY <1>2, <1>5, <2>2
    <3> QED
      BY <1>5, <3>1
  <2> QED
    BY <2>1, <2>2
<1>7. \A i \in 0..n : i <= at[i]
  <2> DEFINE T == {i \in 0..n : i <= at[i]}
  <2>1. 0 \in T
    BY <1>2, <1>3
  <2>2. ASSUME NEW i \in 1..n, i - 1 \in T
        PROVE  i \in T
    <3>1. i - 1 \in 0..n /\ i \in 0..n /\ i - 1 <= at[i - 1]
      BY <1>2, <2>2
    <3>2. PICK a, m : a = at[i - 1] /\ m = Len(records[i])
      OBVIOUS
    <3>3. a \in Nat /\ m \in Nat /\ i - 1 <= a
      BY <1>2, <1>3, <3>1, <3>2
    <3>4. at[i] = (a + L) + m
      BY <1>3, <3>2
    <3>5. i <= (a + L) + m
      BY <1>2, <3>3
    <3> QED
      BY <3>1, <3>4, <3>5
  <2> HIDE DEF T
  <2>3. 0..n \subseteq T
    BY <1>2, <2>1, <2>2, InductionUpTo
  <2> QED
    BY <2>3 DEF T
<1>8. PICK f : /\ f[0] = ReadFirst
               /\ \A i \in 1..z : f[i] = Decode(f[i - 1], part)
               /\ DecodeRecords(part) = IF f[z].ok THEN f[z].records ELSE None
  BY <1>1, <1>2, TurnsThere
<1>9. k \in 0..n /\ at[k] \in Nat /\ at[k] <= z /\ k <= at[k]
  BY <1>2, <1>3, <1>5, <1>6, <1>7
<1>10. PICK ended : ended = IF at[k] = z THEN HasRead(at, records, k) ELSE HasFailed(at, records, k)
  OBVIOUS
\* Once it has ended, a turn changes nothing.
<1>11. Decode(ended, part) = ended
  <2>1. CASE at[k] = z
    <3>1. ended.at = z + 1
      BY <1>10, <2>1 DEF HasRead
    <3>2. ended.at > Len(part)
      BY <1>1, <1>2, <3>1
    <3> QED
      BY <3>2, NothingLeft
  <2>2. CASE at[k] # z
    BY <1>10, <2>2, Failed, NothingLeft
  <2> QED
    BY <2>1, <2>2
<1> DEFINE T == {i \in 0..z : f[i] = IF i <= k THEN HasRead(at, records, i) ELSE ended}
<1>12. 0 \in T
  <2>1. SubSeq(records, 1, 0) = <<>> /\ at[0] + 1 = 1
    BY <1>3
  <2>2. HasRead(at, records, 0) = ReadFirst
    BY <2>1 DEF HasRead, ReadFirst
  <2>3. 0 \in 0..z /\ 0 <= k
    BY <1>2, <1>9
  <2> QED
    BY <1>8, <2>2, <2>3
<1>13. ASSUME NEW i \in 1..z, i - 1 \in T
       PROVE  i \in T
  <2>1. i \in 0..z /\ i - 1 \in 0..z /\ f[i] = Decode(f[i - 1], part)
    BY <1>2, <1>8
  <2>2. CASE i <= k
    <3>1. i \in 1..n /\ i - 1 \in 0..n /\ i \in 0..k /\ i - 1 <= k /\ i - 1 \in 0..k
      BY <1>2, <1>9, <2>2
    <3>2. at[i] <= z
      BY <1>6, <3>1
    <3>3. at[i - 1] < z
      <4>1. PICK a, m : a = at[i - 1] /\ m = Len(records[i])
        OBVIOUS
      <4>2. a \in Nat /\ m \in Nat
        BY <1>2, <1>3, <3>1, <4>1
      <4>3. (a + L) + m <= z
        BY <1>3, <3>1, <3>2, <4>1
      <4>4. a < z
        BY <1>2, <4>2, <4>3
      <4> QED
        BY <4>1, <4>4
    <3>4. Decode(HasRead(at, records, i - 1), part) = HasRead(at, records, i)
      BY <1>1, <3>1, <3>2, <3>3, ReadsNext
    <3>5. f[i - 1] = HasRead(at, records, i - 1)
      BY <1>13, <3>1
    <3> QED
      BY <2>1, <2>2, <3>4, <3>5
  <2>3. CASE i = k + 1
    <3>1. i - 1 = k /\ ~(i <= k) /\ i - 1 <= k
      BY <1>2, <1>9, <2>3
    <3>2. f[i - 1] = HasRead(at, records, k)
      BY <1>13, <3>1
    <3>3. Decode(HasRead(at, records, k), part) = ended
      <4>1. CASE at[k] = z
        <5>1. ended = HasRead(at, records, k)
          BY <1>10, <4>1
        <5> QED
          BY <1>11, <5>1
      <4>2. CASE at[k] # z
        <5>1. at[k] < z /\ at[i - 1] < z
          BY <1>2, <1>9, <3>1, <4>2
        <5>2. k # n
          BY <1>2, <1>3, <5>1
        <5>3. i \in 1..n /\ at[i] > z /\ at[i] \in Nat
          BY <1>2, <1>3, <1>5, <1>9, <2>3, <5>2
        <5>4. ~(at[i] <= Len(part))
          BY <1>1, <1>2, <5>3
        <5>5. Decode(HasRead(at, records, i - 1), part) = HasFailed(at, records, i - 1)
          BY <1>1, <5>1, <5>3, <5>4, ReadsNext
        <5> QED
          BY <1>10, <3>1, <4>2, <5>5
      <4> QED
        BY <4>1, <4>2
    <3> QED
      BY <2>1, <3>1, <3>2, <3>3
  <2>4. CASE i > k + 1
    <3>1. ~(i <= k) /\ ~(i - 1 <= k)
      BY <1>2, <1>9, <2>4
    <3>2. f[i - 1] = ended
      BY <1>13, <3>1
    <3> QED
      BY <1>11, <2>1, <3>1, <3>2
  <2> QED
    BY <1>2, <1>9, <2>2, <2>3, <2>4
<1> HIDE DEF T
<1>14. 0..z \subseteq T
  BY <1>2, <1>12, <1>13, InductionUpTo
<1>15. f[z] = ended
  <2>1. z \in T /\ (z <= k => z = k /\ at[k] = z)
    <3>1. z \in 0..z
      BY <1>2
    <3> QED
      BY <1>2, <1>9, <1>14, <3>1
  <2>2. f[z] = IF z <= k THEN HasRead(at, records, z) ELSE ended
    BY <2>1 DEF T
  <2> QED
    BY <1>10, <2>1, <2>2
<1>16. DecodeRecords(part) = IF at[k] = z THEN SubSeq(records, 1, k) ELSE None
  <2>1. CASE at[k] = z
    <3>1. ended = HasRead(at, records, k)
      BY <1>10, <2>1
    <3>2. ended.ok /\ ended.records = SubSeq(records, 1, k)
      BY <3>1 DEF HasRead
    <3> QED
      BY <1>8, <1>15, <2>1, <3>2
  <2>2. CASE at[k] # z
    <3>1. ~ended.ok
      BY <1>10, <2>2, Failed
    <3> QED
      BY <1>8, <1>15, <2>2, <3>1
  <2> QED
    BY <2>1, <2>2
<1>17. k = n <=> z = at[n]
  <2>1. n \in 0..n /\ at[n] \in Nat
    BY <1>2, <1>3
  <2>2. ASSUME k = n PROVE z = at[n]
    BY <1>2, <1>3, <1>9, <2>1, <2>2
  <2>3. ASSUME k # n, z = at[n] PROVE FALSE
    <3> DEFINE R == {i \in 0..n : i < k + 1 \/ at[i] > z}
    <3>1. 0 \in R
      BY <1>2, <1>9
    <3>2. ASSUME NEW i \in 1..n, i - 1 \in R
          PROVE  i \in R
      <4>1. i - 1 \in 0..n /\ i \in 0..n
        BY <1>2
      <4>2. CASE i = k + 1
        BY <1>5, <2>3, <4>1, <4>2
      <4>3. CASE i < k + 1
        BY <4>1, <4>3
      <4>4. CASE i > k + 1
        <5>1. at[i - 1] > z
          BY <1>2, <1>9, <3>2, <4>1, <4>4
        <5>2. PICK a, m : a = at[i - 1] /\ m = Len(records[i])
          OBVIOUS
        <5>3. a \in Nat /\ m \in Nat /\ a > z
          BY <1>2, <1>3, <4>1, <5>1, <5>2
        <5>4. at[i] = (a + L) + m
          BY <1>3, <5>2
        <5>5. (a + L) + m > z
          BY <1>2, <5>3
        <5> QED
          BY <4>1, <5>4, <5>5
      <4> QED
        BY <1>2, <1>9, <4>2, <4>3, <4>4
    <3> HIDE DEF R
    <3>3. 0..n \subseteq R
      BY <1>2, <3>1, <3>2, InductionUpTo
    <3>4. n < k + 1 \/ at[n] > z
      BY <2>1, <3>3 DEF R
    <3> QED
      BY <1>2, <1>9, <2>1, <2>3, <3>4
  <2> QED
    BY <2>2, <2>3
<1> QED
  BY <1>1, <1>3, <1>9, <1>16, <1>17

LEMMA FramingIsFaithfulThen ==
    ASSUME AnswerInv
    PROVE  FramingIsFaithful
<1> SUFFICES ASSUME Did("frame")
             PROVE  FramingIsFaithful
  BY DEF FramingIsFaithful, RecordsComeBack, CutChunkIsRefused
<1>1. PICK records : records = call.records
  OBVIOUS
<1>2. records \in Seq(Seq(Nat))
  <2>1. records \in Seq(Seq(0..Byte - 1))
    BY <1>1, InputsAssumption DEF AnswerInv, Asked, Did
  <2>2. \A i \in 1..Len(records) : records[i] \in Seq(Nat)
    <3> SUFFICES ASSUME NEW i \in 1..Len(records) PROVE records[i] \in Seq(Nat)
      OBVIOUS
    <3>1. PICK r, B : r = records[i] /\ B = 0..Byte - 1
      OBVIOUS
    <3>2. r \in Seq(B)
      <4>1. PICK R : R = Seq(B)
        OBVIOUS
      <4>2. records \in Seq(R)
        BY <2>1, <3>1, <4>1
      <4> QED
        BY <3>1, <4>1, <4>2
    <3>3. \A x \in B : x \in Nat
      BY <3>1, FramingAssumption
    <3>4. Len(r) \in Nat /\ r = [p \in 1..Len(r) |-> r[p]] /\ \A p \in 1..Len(r) : r[p] \in Nat
      BY <3>2, <3>3
    <3>5. r \in Seq(Nat)
      BY <3>4
    <3> QED
      BY <3>1, <3>5
  <2>3. PICK R : R = Seq(0..Byte - 1)
    OBVIOUS
  <2>4. records = [i \in 1..Len(records) |-> records[i]] /\ Len(records) \in Nat
    BY <2>1, <2>3
  <2>5. PICK S : S = Seq(Nat)
    OBVIOUS
  <2>6. \A i \in 1..Len(records) : records[i] \in S
    BY <2>2, <2>5
  <2>7. records \in Seq(S)
    BY <2>4, <2>6
  <2> QED
    BY <2>5, <2>7
<1>3. Returned = EncodeRecords(records)
  BY <1>1 DEF AnswerInv, Answered, Did
<1>4. CASE \E i \in DOMAIN records : Long(records[i])
  <2>1. Returned = None
    BY <1>2, <1>3, <1>4, LongIsRefused
  <2>2. \E i \in DOMAIN call.records : Len(call.records[i]) >= Weight[LengthPrefixBytes]
    BY <1>1, <1>4 DEF Long
  <2> QED
    BY <2>1, <2>2 DEF FramingIsFaithful, RecordsComeBack, CutChunkIsRefused
<1>5. CASE \A i \in DOMAIN records : ~Long(records[i])
  <2>1. PICK body, at : body = Returned /\ IsLaidOut(body, at, records)
    BY <1>2, <1>3, <1>5, BodyLaidOut
  <2>2. body \in Seq(Nat) /\ Len(body) \in Nat
    BY <2>1 DEF IsLaidOut
  <2>3. PICK n : n = Len(records)
    OBVIOUS
  <2>4. ASSUME NEW part, BeginningOf(part, body)
        PROVE  ReadCounted(part, n) = IF Len(part) = Len(body) THEN records ELSE None
    <3>1. PICK k \in 0..n :
              /\ k = n <=> Len(part) = Len(body)
              /\ DecodeRecords(part) = IF at[k] = Len(part) THEN SubSeq(records, 1, k) ELSE None
              /\ Len(part) = Len(body) => at[k] = Len(part)
      <4>1. IsLaidOut(body, at, records) /\ BeginningOf(part, body)
        BY <2>1, <2>4
      <4>2. \E k \in 0..Len(records) :
              /\ k = Len(records) <=> Len(part) = Len(body)
              /\ DecodeRecords(part) = IF at[k] = Len(part) THEN SubSeq(records, 1, k) ELSE None
              /\ Len(part) = Len(body) => at[k] = Len(part)
        BY <1>2, <1>5, <4>1, ReadsWhatIsThere
      <4> QED
        BY <2>3, <4>2
    <3>2. PICK read : read = SubSeq(records, 1, k)
      OBVIOUS
    <3>3. PICK R : R = Seq(Nat)
      OBVIOUS
    <3>4. read \in Seq(R) /\ Len(read) = k /\ n \in Nat /\ (k = n => read = records)
      <4>1. n \in Nat /\ records \in Seq(R)
        BY <1>2, <2>3, <3>3
      <4>2. read \in Seq(R) /\ Len(read) = k /\ \A p \in 1..k : read[p] = records[p]
        BY <2>3, <3>1, <3>2, <4>1
      <4>3. k = n => read = records
        BY <2>3, <4>1, <4>2, SameElements
      <4> QED
        BY <4>1, <4>2, <4>3
    <3>5. read # None
      BY <3>3, <3>4, FramingAssumption
    <3>6. CASE Len(part) = Len(body)
      <4>1. DecodeRecords(part) = read /\ Len(read) = n /\ read = records
        BY <3>1, <3>2, <3>4, <3>6
      <4> QED
        BY <3>5, <3>6, <4>1 DEF ReadCounted
    <3>7. CASE Len(part) # Len(body)
      <4>1. k # n
        BY <3>1, <3>7
      <4>2. CASE at[k] = Len(part)
        <5>1. DecodeRecords(part) = read /\ Len(read) # n
          BY <3>1, <3>2, <3>4, <4>1, <4>2
        <5> QED
          BY <3>5, <3>7, <5>1 DEF ReadCounted
      <4>3. CASE at[k] # Len(part)
        BY <3>1, <3>7, <4>3 DEF ReadCounted
      <4> QED
        BY <4>2, <4>3
    <3> QED
      BY <3>6, <3>7
  <2>5. RecordsComeBack
    <3>1. BeginningOf(body, body)
      BY <2>2 DEF BeginningOf
    <3>2. ReadCounted(body, n) = records
      BY <2>4, <3>1
    <3> QED
      BY <1>1, <1>5, <2>1, <2>3, <3>2 DEF RecordsComeBack, Long
  <2>6. CutChunkIsRefused
    <3>1. ASSUME NEW m \in 0..Len(body) - 1
          PROVE  ReadCounted(SubSeq(body, 1, m), n) = None
      <4>1. PICK part : part = SubSeq(body, 1, m)
        OBVIOUS
      <4>2. m \in Nat /\ m <= Len(body) /\ m # Len(body) /\ (m + 1) - 1 = m
        BY <2>2
      <4>3. part \in Seq(Nat) /\ Len(part) = m /\ \A p \in 1..m : part[p] = body[p]
        BY <2>2, <4>1, <4>2
      <4>4. BeginningOf(part, body)
        BY <4>2, <4>3 DEF BeginningOf
      <4> QED
        BY <2>4, <4>1, <4>2, <4>3, <4>4
    <3> QED
      BY <1>1, <2>1, <2>3, <3>1 DEF CutChunkIsRefused
  <2> QED
    BY <2>5, <2>6 DEF FramingIsFaithful
<1> QED
  BY <1>4, <1>5

\* What is framed is read back as it was, or refused: a record that is too long when it
\* is written, a body that was cut when it is read, wherever it was cut.
THEOREM FramingIsAlwaysFaithful == Spec => []FramingIsFaithful
BY AnswersAreReturned, FramingIsFaithfulThen, PTL

-----------------------------------------------------------------------------
(* Reconstructors, and what a sequence of events makes of one.             *)

Diffs == [first : Ids, last : Ids, diff : Seq(Level)]
Snapshots == [last_update_id : Ids, levels : Seq(Level)]
Counts == [Outcomes -> Nat]
Reconstructors ==
    [book : Book, snapshotId : Ids \cup {None}, lastUpdateId : Ids \cup {None}, broken : BOOLEAN,
     failed : BOOLEAN, returned : Counts]

LEMMA FreshType == Fresh \in Reconstructors /\ Sum(Fresh.returned) = 0 /\ ~Fresh.failed
<1>1. EmptyBook \in Book
  BY EmptyBookType
<1>2. [o \in Outcomes |-> 0] \in Counts
  BY DEF Counts
<1>3. Fresh \in Reconstructors
  BY <1>1, <1>2 DEF Fresh, Reconstructors
<1>4. Fresh.returned = [o \in Outcomes |-> 0] /\ ~Fresh.failed
  BY DEF Fresh
<1> QED
  BY <1>3, <1>4 DEF Sum, Outcomes

LEMMA LoadSnapshotFields ==
    ASSUME NEW r \in Reconstructors, NEW s \in Snapshots
    PROVE  /\ LoadSnapshot(r, s) \in Reconstructors
           /\ LoadSnapshot(r, s).returned = r.returned
           /\ LoadSnapshot(r, s).book = LoadedBook(s.levels)
           /\ ~LoadOk(s.levels) => LoadSnapshot(r, s).failed
           /\ LoadOk(s.levels) =>
                  /\ LoadSnapshot(r, s).snapshotId = s.last_update_id
                  /\ LoadSnapshot(r, s).lastUpdateId = s.last_update_id
                  /\ ~LoadSnapshot(r, s).broken /\ LoadSnapshot(r, s).failed = r.failed
<1>1. s.levels \in Seq(Level) /\ s.last_update_id \in Ids
  BY DEF Snapshots
<1>2. LoadLoop(s.levels) = [book |-> LoadedBook(s.levels), ok |-> LoadOk(s.levels)]
  BY <1>1, LoadLoopLoads
<1>3. PICK b, id : b = LoadedBook(s.levels) /\ id = s.last_update_id
  OBVIOUS
<1>4. b \in Book /\ id \in Ids \cup {None}
  BY <1>1, <1>3, LoadedBookType
<1>5. CASE LoadOk(s.levels)
  <2>1. LoadSnapshot(r, s)
        = [r EXCEPT !.book = b, !.snapshotId = id, !.lastUpdateId = id, !.broken = FALSE]
    BY <1>2, <1>3, <1>5 DEF LoadSnapshot
  <2>2. PICK q : q = LoadSnapshot(r, s)
    OBVIOUS
  <2>3. /\ q \in Reconstructors /\ q.returned = r.returned /\ q.book = b /\ q.snapshotId = id
        /\ q.lastUpdateId = id /\ ~q.broken /\ q.failed = r.failed
    BY <1>4, <2>1, <2>2 DEF Reconstructors
  <2> QED
    BY <1>3, <1>5, <2>2, <2>3
<1>6. CASE ~LoadOk(s.levels)
  <2>1. LoadSnapshot(r, s) = [r EXCEPT !.book = b, !.failed = TRUE]
    BY <1>2, <1>3, <1>6 DEF LoadSnapshot
  <2>2. PICK q : q = LoadSnapshot(r, s)
    OBVIOUS
  <2>3. q \in Reconstructors /\ q.returned = r.returned /\ q.book = b /\ q.failed
    BY <1>4, <2>1, <2>2 DEF Reconstructors
  <2> QED
    BY <1>3, <1>6, <2>2, <2>3
<1> QED
  BY <1>5, <1>6

LEMMA CountsOne ==
    ASSUME NEW n \in Counts, NEW o \in Outcomes
    PROVE  [n EXCEPT ![o] = @ + 1] \in Counts /\ Sum([n EXCEPT ![o] = @ + 1]) = Sum(n) + 1 /\ Sum(n) \in Nat
<1>1. PICK m : m = [n EXCEPT ![o] = @ + 1]
  OBVIOUS
<1>2. m \in Counts /\ m[o] = n[o] + 1 /\ \A x \in Outcomes : x # o => m[x] = n[x]
  BY <1>1 DEF Counts
<1>3. \A x \in Outcomes : n[x] \in Nat
  BY DEF Counts
<1>4. Sum(n) \in Nat
  BY <1>3 DEF Sum, Outcomes
<1>5. Sum(m) = Sum(n) + 1
  BY <1>2, <1>3 DEF Sum, Outcomes
<1> QED
  BY <1>1, <1>2, <1>4, <1>5

LEMMA ApplyEventFields ==
    ASSUME NEW r \in Reconstructors, NEW e \in Diffs
    PROVE  /\ OutcomeOf(r, e) \in Outcomes
           /\ ApplyEvent(r, e) \in Reconstructors
           /\ Sum(ApplyEvent(r, e).returned) = Sum(r.returned) + 1
           /\ ApplyEvent(r, e).broken <=> r.broken \/ OutcomeOf(r, e) = "gap"
           /\ ApplyEvent(r, e).failed <=> OutcomeOf(r, e) = "invalid"
           /\ ApplyEvent(r, e).snapshotId = r.snapshotId
           /\ OutcomeOf(r, e) = "applied" =>
                  /\ ApplyOk(e.diff)
                  /\ ApplyEvent(r, e).book = AppliedBook(r.book, e.diff)
                  /\ ApplyEvent(r, e).lastUpdateId = e.last
           /\ OutcomeOf(r, e) \notin {"applied", "invalid"} =>
                  /\ ApplyEvent(r, e).book = r.book
                  /\ ApplyEvent(r, e).lastUpdateId = r.lastUpdateId
<1>1. PICK o, b, l, n :
          /\ o = OutcomeOf(r, e) /\ b = AppliedBook(r.book, e.diff) /\ l = e.last
          /\ n = [r.returned EXCEPT ![o] = @ + 1]
  OBVIOUS
<1>2. e.diff \in Seq(Level) /\ e.last \in Ids \cup {None} /\ r.book \in Book /\ r.returned \in Counts
      /\ r.broken \in BOOLEAN
  BY DEF Diffs, Reconstructors
<1>3. ApplyLoop(r.book, e.diff) = [book |-> b, ok |-> ApplyOk(e.diff)]
  BY <1>1, <1>2, ApplyLoopApplies
<1>4. b \in Book
  BY <1>1, <1>2, AppliedBookType
<1>5. o \in Outcomes /\ (o = "applied" => ApplyOk(e.diff))
  BY <1>1, <1>3 DEF OutcomeOf, Outcomes
<1>6. n \in Counts /\ Sum(n) = Sum(r.returned) + 1
  BY <1>1, <1>2, <1>5, CountsOne
<1>7. PICK f, g : f = (o = "invalid") /\ g = (r.broken \/ o = "gap")
  OBVIOUS
<1>8. PICK counted : counted = [r EXCEPT !.returned = n, !.broken = g, !.failed = f]
  OBVIOUS
<1>9. /\ counted \in Reconstructors
      /\ counted.returned = n /\ counted.broken = g /\ counted.failed = f
      /\ counted.book = r.book /\ counted.lastUpdateId = r.lastUpdateId /\ counted.snapshotId = r.snapshotId
  BY <1>2, <1>6, <1>7, <1>8 DEF Reconstructors
<1>10. counted = [r EXCEPT !.returned[o] = @ + 1, !.broken = @ \/ o = "gap", !.failed = (o = "invalid")]
  BY <1>1, <1>7, <1>8
<1>11. ApplyEvent(r, e) =
           IF o \in {"applied", "invalid"}
           THEN [counted EXCEPT !.book = ApplyLoop(@, e.diff).book,
                                !.lastUpdateId = IF o = "applied" THEN e.last ELSE @]
           ELSE counted
  BY <1>1, <1>10 DEF ApplyEvent
<1>12. CASE o \in {"applied", "invalid"}
  <2>1. PICK m : m = IF o = "applied" THEN l ELSE r.lastUpdateId
    OBVIOUS
  <2>2. ApplyEvent(r, e) = [counted EXCEPT !.book = b, !.lastUpdateId = m]
    BY <1>1, <1>3, <1>9, <1>11, <1>12, <2>1
  <2>3. m \in Ids \cup {None}
    BY <1>1, <1>2, <2>1 DEF Reconstructors
  <2>4. PICK q : q = ApplyEvent(r, e)
    OBVIOUS
  <2>5. /\ q \in Reconstructors
        /\ q.returned = n /\ q.broken = counted.broken /\ q.failed = counted.failed
        /\ q.book = b /\ q.lastUpdateId = m /\ q.snapshotId = r.snapshotId
    BY <1>4, <1>9, <2>2, <2>3, <2>4 DEF Reconstructors
  <2> QED
    BY <1>1, <1>5, <1>6, <1>7, <1>9, <1>12, <2>1, <2>4, <2>5
<1>13. CASE o \notin {"applied", "invalid"}
  BY <1>1, <1>5, <1>6, <1>7, <1>9, <1>11, <1>13
<1> QED
  BY <1>12, <1>13

\* f[i] is the reconstructor after the first i events.
Folds(f, r, events) == f = [i \in 0..Len(events) |-> IF i = 0 THEN r ELSE Unless(f[i - 1], events[i])]
Folded(f, r, events) == f[0] = r /\ \A i \in 1..Len(events) : f[i] = Unless(f[i - 1], events[i])

LEMMA UnlessType ==
    ASSUME NEW r \in Reconstructors, NEW e \in Diffs
    PROVE  Unless(r, e) \in Reconstructors
BY ApplyEventFields DEF Unless

\* Whatever the events, the reconstructor stays one.
LEMMA FoldedType ==
    ASSUME NEW r \in Reconstructors, NEW events \in Seq(Diffs), NEW f, Folded(f, r, events)
    PROVE  \A i \in 0..Len(events) : f[i] \in Reconstructors
<1>1. Len(events) \in Nat /\ \A i \in 1..Len(events) : events[i] \in Diffs
  OBVIOUS
<1>2. f[0] \in Reconstructors /\ \A i \in 1..Len(events) : f[i - 1] \in Reconstructors => f[i] \in Reconstructors
  BY <1>1, UnlessType DEF Folded
<1> QED
  BY <1>1, <1>2, ValuesUpTo

\* ApplyAll is the last of such reconstructors.
LEMMA ApplyAllThere ==
    ASSUME NEW r \in Reconstructors, NEW events \in Seq(Diffs)
    PROVE  \E f : Folded(f, r, events) /\ ApplyAll(r, events) = f[Len(events)]
<1> DEFINE n == Len(events)
           S == Reconstructors
           step == [i \in 1..n |-> [x \in S |-> Unless(x, events[i])]]
<1>1. n \in Nat /\ \A i \in 1..n : events[i] \in Diffs
  OBVIOUS
<1>2. \A x \in S : \A i \in 1..n : Unless(x, events[i]) \in S
  BY <1>1, UnlessType
<1>3. Steps(step, S, n)
  <2> HIDE DEF S
  <2> QED
    BY <1>2 DEF Steps
<1>4. PICK g \in [0..n -> S] : Repeats(g, r, step, n)
  <2>1. r \in S
    OBVIOUS
  <2> HIDE DEF S, step
  <2> QED
    BY <1>1, <1>3, <2>1, RepetitionThere
<1>5. ASSUME NEW i \in 0..n, i # 0
      PROVE  step[i][g[i - 1]] = Unless(g[i - 1], events[i])
  <2>1. i - 1 \in 0..n /\ i \in 1..n
    BY <1>1, <1>5
  <2>2. step[i] = [x \in S |-> Unless(x, events[i])]
    BY <2>1
  <2>3. g[i - 1] \in S
    BY <2>1
  <2> HIDE DEF S, step
  <2> QED
    BY <2>2, <2>3
<1> HIDE DEF step
<1>6. Folds(g, r, events)
  BY <1>4, <1>5 DEF Repeats, Folds
<1>7. PICK f : f = CHOOSE h : Folds(h, r, events)
  OBVIOUS
<1>8. Folds(f, r, events)
  BY <1>6, <1>7
<1>9. ApplyAll(r, events) = f[n]
  BY <1>7 DEF ApplyAll, Folds
<1>10. Folded(f, r, events)
  <2>1. 0 \in 0..n /\ \A i \in 1..n : i \in 0..n /\ i # 0
    BY <1>1
  <2> QED
    BY <1>8, <2>1 DEF Folds, Folded
<1> QED
  BY <1>9, <1>10

\* To fold some of the events from where one is, is to go on with them.
LEMMA ApplyAllPart ==
    ASSUME NEW r \in Reconstructors, NEW events \in Seq(Diffs), NEW f, Folded(f, r, events),
           NEW k \in 0..Len(events), NEW m \in k..Len(events)
    PROVE  ApplyAll(f[k], SubSeq(events, k + 1, m)) = f[m]
<1>1. PICK part, n : part = SubSeq(events, k + 1, m) /\ n = m - k
  OBVIOUS
<1>2. n \in Nat /\ Len(events) \in Nat /\ k \in Nat /\ m \in Nat /\ m <= Len(events) /\ k + n = m
  BY <1>1
<1>3. part \in Seq(Diffs) /\ Len(part) = n /\ \A i \in 1..n : part[i] = events[k + i]
  <2>1. \A i \in 1..Len(events) : events[i] \in Diffs
    OBVIOUS
  <2>2. \A i \in 1..n : k + i \in 1..Len(events)
    BY <1>2
  <2> QED
    BY <1>1, <1>2, <2>1, <2>2
<1>4. f[k] \in Reconstructors
  BY FoldedType
<1>5. PICK g : Folded(g, f[k], part) /\ ApplyAll(f[k], part) = g[n]
  BY <1>3, <1>4, ApplyAllThere
<1> DEFINE T == {i \in 0..n : g[i] = f[k + i]}
<1>6. 0 \in T
  BY <1>2, <1>5 DEF Folded
<1>7. ASSUME NEW i \in 1..n, i - 1 \in T
      PROVE  i \in T
  <2>1. k + i \in 1..Len(events) /\ (k + i) - 1 = k + (i - 1) /\ i \in 0..n
    BY <1>2
  <2>2. g[i] = Unless(g[i - 1], part[i])
    BY <1>3, <1>5 DEF Folded
  <2>3. f[k + i] = Unless(f[(k + i) - 1], events[k + i])
    BY <2>1 DEF Folded
  <2> QED
    BY <1>3, <1>7, <2>1, <2>2, <2>3
<1> HIDE DEF T
<1>8. 0..n \subseteq T
  BY <1>2, <1>6, <1>7, InductionUpTo
<1>9. g[n] = f[k + n]
  <2>1. n \in 0..n
    BY <1>2
  <2> QED
    BY <1>8, <2>1 DEF T
<1> QED
  BY <1>1, <1>2, <1>5, <1>9

\* What has not failed has taken every event, and counted it once.
LEMMA FoldedCounts ==
    ASSUME NEW r \in Reconstructors, NEW events \in Seq(Diffs), NEW f, Folded(f, r, events),
           NEW k \in 0..Len(events), ~f[k].failed
    PROVE  /\ \A i \in 0..k : ~f[i].failed /\ Sum(f[i].returned) = Sum(r.returned) + i
           /\ \A i \in 1..k : f[i] = ApplyEvent(f[i - 1], events[i])
<1>1. k \in Nat /\ Len(events) \in Nat /\ k <= Len(events)
      /\ \A i \in 1..Len(events) : events[i] \in Diffs
  OBVIOUS
<1>2. \A i \in 0..Len(events) : f[i] \in Reconstructors
  BY FoldedType
<1>3. \A i \in 1..Len(events) : f[i] = IF f[i - 1].failed THEN f[i - 1] ELSE ApplyEvent(f[i - 1], events[i])
  BY DEF Folded, Unless
<1>4. \A i \in 0..k : ~f[k - i].failed
  <2> DEFINE T == {i \in 0..k : ~f[k - i].failed}
  <2>1. 0 \in T
    BY <1>1
  <2>2. ASSUME NEW i \in 1..k, i - 1 \in T
        PROVE  i \in T
    <3>1. i \in 0..k /\ k - (i - 1) \in 1..Len(events) /\ (k - (i - 1)) - 1 = k - i
      BY <1>1
    <3>2. ~f[k - (i - 1)].failed
      BY <2>2
    <3>3. f[k - i].failed => f[k - (i - 1)] = f[k - i]
      BY <1>3, <3>1
    <3> QED
      BY <3>1, <3>2, <3>3
  <2> HIDE DEF T
  <2>3. 0..k \subseteq T
    BY <1>1, <2>1, <2>2, InductionUpTo
  <2> QED
    BY <2>3 DEF T
<1>5. \A i \in 0..k : ~f[i].failed
  <2> SUFFICES ASSUME NEW i \in 0..k PROVE ~f[i].failed
    OBVIOUS
  <2>1. k - i \in 0..k /\ k - (k - i) = i
    BY <1>1
  <2>2. ~f[k - (k - i)].failed
    BY <1>4, <2>1
  <2> QED
    BY <2>1, <2>2
<1>6. \A i \in 1..k : f[i] = ApplyEvent(f[i - 1], events[i])
  <2> SUFFICES ASSUME NEW i \in 1..k PROVE f[i] = ApplyEvent(f[i - 1], events[i])
    OBVIOUS
  <2>1. i \in 1..Len(events) /\ i - 1 \in 0..k
    BY <1>1
  <2> QED
    BY <1>3, <1>5, <2>1
<1>7. \A i \in 0..k : Sum(f[i].returned) = Sum(r.returned) + i
  <2> DEFINE T == {i \in 0..k : Sum(f[i].returned) = Sum(r.returned) + i}
  <2>1. Sum(r.returned) \in Nat
    <3>1. r.returned \in Counts
      BY DEF Reconstructors
    <3>2. "gap" \in Outcomes
      BY DEF Outcomes
    <3> QED
      BY <3>1, <3>2, CountsOne
  <2>2. 0 \in T
    BY <1>1, <2>1 DEF Folded
  <2>3. ASSUME NEW i \in 1..k, i - 1 \in T
        PROVE  i \in T
    <3>1. i - 1 \in 0..Len(events) /\ i \in 1..Len(events) /\ i \in 0..k
      BY <1>1
    <3>2. Sum(f[i].returned) = Sum(f[i - 1].returned) + 1
      <4>1. PICK x, e : x = f[i - 1] /\ e = events[i]
        OBVIOUS
      <4>2. x \in Reconstructors /\ e \in Diffs
        BY <1>1, <1>2, <3>1, <4>1
      <4>3. f[i] = ApplyEvent(x, e)
        BY <1>6, <4>1
      <4>4. Sum(ApplyEvent(x, e).returned) = Sum(x.returned) + 1
        BY <4>2, ApplyEventFields
      <4> QED
        BY <4>1, <4>3, <4>4
    <3>3. Sum(f[i - 1].returned) = Sum(r.returned) + (i - 1)
      BY <2>3
    <3> QED
      BY <2>1, <3>1, <3>2, <3>3
  <2> HIDE DEF T
  <2>4. 0..k \subseteq T
    BY <1>1, <2>2, <2>3, InductionUpTo
  <2> QED
    BY <2>4 DEF T
<1> QED
  BY <1>5, <1>6, <1>7

-----------------------------------------------------------------------------
(* What load_events and load_references find in a capture.                 *)

\* A record that is understood gives an event with ids and levels.
LEMMA EventTyped ==
    ASSUME NEW record, UpdateTyped(record), Understood(record)
    PROVE  EventOf(record) \in Diffs
<1>1. PICK span, diff : /\ span = UpdateSpan(record.venue, record.channel, record.payload)
                        /\ diff = DecodeDiff(record.venue, record.channel, record.payload)
  OBVIOUS
<1>2. span.first \in Ids /\ span.last \in Ids /\ diff.bids \in Seq(Level) /\ diff.asks \in Seq(Level)
  BY <1>1 DEF UpdateTyped, Understood
<1>3. diff.bids \o diff.asks \in Seq(Level)
  BY <1>2
<1> QED
  BY <1>1, <1>2, <1>3 DEF EventOf, Diffs

LEMMA EventsType ==
    ASSUME NEW capture, IsCapture(capture)
    PROVE  LoadEvents(capture.records) \in Seq(Diffs)
<1>1. PICK records, n : records = capture.records /\ n = Len(records)
  OBVIOUS
<1>2. DOMAIN records = 1..n /\ n \in Nat /\ \A i \in Frames(records) : UpdateTyped(records[i])
  BY <1>1 DEF IsCapture
<1>3. \A i \in Frames(records) : Understood(records[i]) => EventOf(records[i]) \in Diffs
  BY <1>2, EventTyped
<1>4. PICK seqs : seqs = [i \in DOMAIN records |->
                            IF i \in Frames(records) /\ Understood(records[i]) THEN <<EventOf(records[i])>> ELSE <<>>]
  OBVIOUS
<1>5. seqs \in [1..n -> Seq(Diffs)]
  BY <1>2, <1>3, <1>4
<1>6. seqs \in Seq(Seq(Diffs))
  BY <1>2, <1>5
<1>7. LoadEvents(records) = FlattenSeq(seqs)
  BY <1>4 DEF LoadEvents
<1> QED
  BY <1>1, <1>6, <1>7, FlattenType

LEMMA DecodedType ==
    ASSUME NEW capture, IsCapture(capture)
    PROVE  Decoded(capture.records) \in Seq(Snapshots)
<1>1. PICK records, n : records = capture.records /\ n = Len(records)
  OBVIOUS
<1>2. DOMAIN records = 1..n /\ n \in Nat /\ \A i \in Frames(records) : SnapshotTyped(SnapshotOf(records[i]))
  BY <1>1 DEF IsCapture
<1>3. ASSUME NEW i \in Frames(records), SnapshotOf(records[i]) # None
      PROVE  ReferenceOf(records[i]) \in Snapshots
  <2>1. PICK s : s = SnapshotOf(records[i])
    OBVIOUS
  <2>2. s.last_update_id \in Ids /\ s.bids \in Seq(Level) /\ s.asks \in Seq(Level)
    BY <1>2, <1>3, <2>1 DEF SnapshotTyped
  <2>3. s.bids \o s.asks \in Seq(Level)
    BY <2>2
  <2> QED
    BY <2>1, <2>2, <2>3 DEF ReferenceOf, Snapshots
<1>4. PICK seqs : seqs = [i \in DOMAIN records |->
                            IF i \in Frames(records) /\ SnapshotOf(records[i]) # None
                            THEN <<ReferenceOf(records[i])>> ELSE <<>>]
  OBVIOUS
<1>5. seqs \in [1..n -> Seq(Snapshots)]
  BY <1>2, <1>3, <1>4
<1>6. seqs \in Seq(Seq(Snapshots))
  BY <1>2, <1>5
<1>7. Decoded(records) = FlattenSeq(seqs)
  BY <1>4 DEF Decoded
<1> QED
  BY <1>1, <1>6, <1>7, FlattenType

\* References are in the order of their ids.
ByIds(references) ==
    \A i, j \in DOMAIN references : i <= j => references[i].last_update_id <= references[j].last_update_id

\* load_references sorts what it decoded, and adds and drops none.
LEMMA ReferencesInOrder ==
    ASSUME NEW capture, IsCapture(capture), MaxId \in Nat
    PROVE  /\ LoadReferences(capture.records) \in Seq(Snapshots)
           /\ ByIds(LoadReferences(capture.records))
           /\ \A i \in DOMAIN LoadReferences(capture.records) : \E j \in DOMAIN Decoded(capture.records) :
                  LoadReferences(capture.records)[i] = Decoded(capture.records)[j]
<1>1. PICK snapshots, n : snapshots = Decoded(capture.records) /\ n = Len(snapshots)
  OBVIOUS
<1>2. snapshots \in Seq(Snapshots)
  BY <1>1, DecodedType
<1>3. n \in Nat /\ DOMAIN snapshots = 1..n /\ \A i \in 1..n : snapshots[i] \in Snapshots
  BY <1>1, <1>2
<1>4. PICK id : id = [i \in 1..n |-> snapshots[i].last_update_id]
  OBVIOUS
<1>5. \A i \in 1..n : id[i] \in Nat /\ id[i] = snapshots[i].last_update_id
  BY <1>3, <1>4 DEF Snapshots, Ids
<1>6. PICK S, earlier : S = 1..n /\ earlier = [i \in S |-> {j \in S : ById(snapshots, j, i)}]
  OBVIOUS
<1>7. \A i, j \in S : j \in earlier[i] <=> (id[j] < id[i] \/ (id[j] = id[i] /\ j < i))
  BY <1>5, <1>6 DEF ById
<1>8. \A i \in S : id[i] \in Nat /\ i \in Nat
  BY <1>3, <1>5, <1>6
<1>9. earlier \in [S -> SUBSET S]
  BY <1>6
<1>10. \A x \in S : x \notin earlier[x]
  BY <1>7, <1>8
<1>11. \A x, y \in S : x # y => x \in earlier[y] \/ y \in earlier[x]
  BY <1>7, <1>8
<1>12. \A x, y \in S : x \in earlier[y] => earlier[x] \subseteq earlier[y]
  BY <1>7, <1>8, <1>9
<1>13. IsFiniteSet(S) /\ Cardinality(S) = n
  BY <1>3, <1>6, FS_Interval
<1>14. PICK order : order = Sorted(earlier)
  OBVIOUS
<1>15. /\ order \in [1..n -> S]
       /\ \A i, j \in 1..n : i < j <=> order[i] \in earlier[order[j]]
  BY <1>9, <1>10, <1>11, <1>12, <1>13, <1>14, SortedInOrder
<1>16. PICK known : known = LoadReferences(capture.records)
  OBVIOUS
<1>17. known = [i \in 1..n |-> snapshots[order[i]]]
  <2>1. LoadReferences(capture.records) = [i \in DOMAIN order |-> snapshots[order[i]]]
    BY <1>1, <1>3, <1>6, <1>14 DEF LoadReferences
  <2> QED
    BY <1>15, <1>16, <2>1
<1>18. \A i \in 1..n : order[i] \in 1..n
  BY <1>6, <1>15
<1>19. known \in Seq(Snapshots) /\ DOMAIN known = 1..n
  <2>1. known \in [1..n -> Snapshots]
    BY <1>3, <1>17, <1>18
  <2> QED
    BY <1>3, <2>1
<1>20. ByIds(known)
  <2> SUFFICES ASSUME NEW i \in 1..n, NEW j \in 1..n, i <= j
               PROVE  known[i].last_update_id <= known[j].last_update_id
    BY <1>19 DEF ByIds
  <2>1. known[i].last_update_id = id[order[i]] /\ known[j].last_update_id = id[order[j]]
    BY <1>5, <1>17, <1>18
  <2>2. order[i] \in S /\ order[j] \in S
    BY <1>15
  <2>3. i < j => id[order[i]] <= id[order[j]]
    BY <1>7, <1>8, <1>15, <2>2
  <2>4. i = j \/ i < j
    BY <1>3
  <2>5. id[order[i]] \in Nat
    BY <1>8, <2>2
  <2> QED
    BY <2>1, <2>3, <2>4, <2>5
<1> QED
  BY <1>1, <1>3, <1>16, <1>17, <1>18, <1>19, <1>20

-----------------------------------------------------------------------------
(* The windows of events between one reference and the next.               *)

\* A window takes the events up to the reference and stops in front of the first past it.
LEMMA WindowEnds ==
    ASSUME MaxId \in Nat, NEW events \in Seq(Diffs), NEW index \in 1..Len(events) + 1, NEW s \in Snapshots
    PROVE  \E next \in index..Len(events) + 1 :
               /\ Window(events, index, s) = [events |-> SubSeq(events, index, next - 1), next |-> next]
               /\ \A i \in index..next - 1 : events[i].last <= s.last_update_id
               /\ next <= Len(events) => events[next].last > s.last_update_id
<1>1. PICK m, id : m = Len(events) /\ id = s.last_update_id
  OBVIOUS
<1>2. m \in Nat /\ id \in Nat /\ index \in 1..m + 1
  BY <1>1 DEF Snapshots, Ids
<1>3. \A i \in 1..m : events[i].last \in Nat
  <2>1. \A i \in 1..m : events[i] \in Diffs
    BY <1>1
  <2> QED
    BY <2>1 DEF Diffs, Ids
<1>4. PICK over : over = {i \in index..m : events[i].last > id}
  OBVIOUS
<1>5. PICK next : next = IF over = {} THEN m + 1 ELSE Min(over)
  OBVIOUS
<1>6. Window(events, index, s) = [events |-> SubSeq(events, index, next - 1), next |-> next]
  BY <1>1, <1>4, <1>5 DEF Window
<1>7. CASE over = {}
  <2>1. next = m + 1
    BY <1>5, <1>7
  <2>2. \A i \in index..m : events[i].last <= id
    <3> SUFFICES ASSUME NEW i \in index..m PROVE events[i].last <= id
      OBVIOUS
    <3>1. i \notin over /\ i \in 1..m
      BY <1>2, <1>7
    <3>2. events[i].last \in Nat /\ ~(events[i].last > id)
      BY <1>3, <1>4, <3>1
    <3> QED
      BY <1>2, <3>2
  <2>3. next \in index..m + 1 /\ next - 1 = m /\ ~(next <= m)
    BY <1>2, <2>1
  <2> QED
    BY <1>1, <1>6, <2>2, <2>3
<1>8. CASE over # {}
  <2>1. over \in SUBSET Nat /\ over \subseteq index..m
    BY <1>2, <1>4
  <2>2. \E x \in over : \A y \in over : x <= y
    BY <1>8, <2>1, LeastNatural
  <2>3. next \in over /\ \A y \in over : next <= y
    BY <1>5, <1>8, <2>2 DEF Min
  <2>4. next \in index..m /\ events[next].last > id
    BY <1>4, <2>3
  <2>5. ASSUME NEW i \in index..next - 1
        PROVE  events[i].last <= id
    <3>1. i \in index..m /\ i \in 1..m /\ ~(next <= i)
      BY <1>2, <2>4
    <3>2. i \notin over
      BY <2>3, <3>1
    <3>3. events[i].last \in Nat /\ ~(events[i].last > id)
      BY <1>3, <1>4, <3>1, <3>2
    <3> QED
      BY <1>2, <3>3
  <2>6. next \in index..m + 1
    BY <1>2, <2>4
  <2> QED
    BY <1>1, <1>6, <2>4, <2>5, <2>6
<1> QED
  BY <1>7, <1>8

\* at is what AtReferences makes: at[c] is where the events up to at[c].index led.
Along(at, r, events, references) ==
    at = [i \in 0..Len(references) |->
            IF i = 0 THEN [r |-> r, index |-> 1] ELSE AtNext(at[i - 1], events, references[i])]
Windows(at, f, events, references) ==
    /\ at[0].index = 1
    /\ \A c \in 0..Len(references) : at[c].index \in 1..Len(events) + 1 /\ at[c].r = f[at[c].index - 1]
    /\ \A c \in 1..Len(references) :
           /\ at[c - 1].index <= at[c].index
           /\ \A i \in at[c - 1].index..at[c].index - 1 : events[i].last <= references[c].last_update_id
           /\ at[c].index <= Len(events) => events[at[c].index].last > references[c].last_update_id

\* The walk along the references is there, however many there are.
LEMMA AlongThere ==
    ASSUME MaxId \in Nat, NEW r \in Reconstructors, NEW events \in Seq(Diffs), NEW references \in Seq(Snapshots)
    PROVE  \E at : Along(at, r, events, references)
<1> DEFINE n == Len(references)
           m == Len(events)
           S == [r : Reconstructors, index : 1..m + 1]
           step == [i \in 1..n |-> [x \in S |-> AtNext(x, events, references[i])]]
<1>1. n \in Nat /\ m \in Nat /\ \A i \in 1..n : references[i] \in Snapshots
  OBVIOUS
<1>2. ASSUME NEW x \in S, NEW i \in 1..n
      PROVE  AtNext(x, events, references[i]) \in S
  <2>1. PICK q, k, s : q = x.r /\ k = x.index /\ s = references[i]
    OBVIOUS
  <2>2. q \in Reconstructors /\ k \in 1..m + 1 /\ s \in Snapshots
    BY <1>1, <2>1
  <2>3. PICK next \in k..m + 1 : Window(events, k, s) = [events |-> SubSeq(events, k, next - 1), next |-> next]
    BY <2>2, WindowEnds
  <2>4. PICK part : part = SubSeq(events, k, next - 1)
    OBVIOUS
  <2>5. part \in Seq(Diffs)
    <3>1. \A j \in k..next - 1 : events[j] \in Diffs
      <4>1. \A j \in 1..m : events[j] \in Diffs
        OBVIOUS
      <4>2. \A j \in k..next - 1 : j \in 1..m
        BY <1>1, <2>2, <2>3
      <4> QED
        BY <4>1, <4>2
    <3>2. k \in Nat /\ next - 1 \in Int /\ k >= 1 /\ next - 1 <= m /\ next - 1 >= k - 1
      BY <1>1, <2>2, <2>3
    <3> QED
      BY <1>1, <2>4, <3>1, <3>2
  <2>6. ApplyAll(q, part) \in Reconstructors
    <3>1. PICK g : Folded(g, q, part) /\ ApplyAll(q, part) = g[Len(part)]
      BY <2>2, <2>5, ApplyAllThere
    <3>2. Len(part) \in 0..Len(part)
      BY <2>5
    <3> QED
      BY <2>2, <2>5, <3>1, <3>2, FoldedType
  <2>7. AtNext(x, events, references[i]) = [r |-> ApplyAll(q, part), index |-> next]
    BY <2>1, <2>3, <2>4 DEF AtNext
  <2>8. next \in 1..m + 1
    BY <1>1, <2>2, <2>3
  <2> QED
    BY <2>6, <2>7, <2>8
<1>3. Steps(step, S, n)
  <2> HIDE DEF S
  <2> QED
    BY <1>2 DEF Steps
<1>4. [r |-> r, index |-> 1] \in S
  BY <1>1
<1>5. PICK g \in [0..n -> S] : Repeats(g, [r |-> r, index |-> 1], step, n)
  <2> HIDE DEF S, step
  <2> QED
    BY <1>1, <1>3, <1>4, RepetitionThere
<1>6. ASSUME NEW i \in 0..n, i # 0
      PROVE  step[i][g[i - 1]] = AtNext(g[i - 1], events, references[i])
  <2>1. i - 1 \in 0..n /\ i \in 1..n
    BY <1>1, <1>6
  <2>2. step[i] = [x \in S |-> AtNext(x, events, references[i])]
    BY <2>1
  <2> HIDE DEF S, step
  <2>3. g[i - 1] \in S
    BY <1>5, <2>1
  <2> QED
    BY <2>2, <2>3
<1> HIDE DEF S, step
<1>7. \A i \in 0..n : g[i] = IF i = 0 THEN [r |-> r, index |-> 1] ELSE AtNext(g[i - 1], events, references[i])
  BY <1>5, <1>6 DEF Repeats
<1>8. g = [i \in 0..n |-> g[i]]
  BY <1>5
<1> QED
  BY <1>7, <1>8 DEF Along

\* The windows lie end to end: at each reference the reconstructor is the fold of all
\* events so far.
LEMMA WindowsFollow ==
    ASSUME MaxId \in Nat, NEW snapshot \in Snapshots, NEW events \in Seq(Diffs),
           NEW references \in Seq(Snapshots),
           NEW f, Folded(f, LoadSnapshot(Fresh, snapshot), events)
    PROVE  Windows(AtReferences(snapshot, events, references), f, events, references)
<1>1. PICK r, n, m, at :
          /\ r = LoadSnapshot(Fresh, snapshot) /\ n = Len(references) /\ m = Len(events)
          /\ at = CHOOSE g : Along(g, r, events, references)
  OBVIOUS
<1>2. n \in Nat /\ m \in Nat /\ \A i \in 1..n : references[i] \in Snapshots
  BY <1>1
<1>3. r \in Reconstructors /\ Folded(f, r, events)
  BY <1>1, FreshType, LoadSnapshotFields
<1>4. Along(at, r, events, references)
  BY <1>1, <1>3, AlongThere
<1>5. AtReferences(snapshot, events, references) = at
  BY <1>1 DEF AtReferences, Along
<1>6. at[0] = [r |-> r, index |-> 1] /\ \A c \in 1..n : at[c] = AtNext(at[c - 1], events, references[c])
  <2>1. 0 \in 0..n /\ \A i \in 1..n : i \in 0..n /\ i # 0
    BY <1>2
  <2> QED
    BY <1>1, <1>4, <2>1 DEF Along
<1>7. ASSUME NEW c \in 1..n, NEW k \in 1..m + 1, at[c - 1] = [r |-> f[k - 1], index |-> k]
      PROVE  \E next \in k..m + 1 :
                 /\ at[c] = [r |-> f[next - 1], index |-> next]
                 /\ \A i \in k..next - 1 : events[i].last <= references[c].last_update_id
                 /\ next <= m => events[next].last > references[c].last_update_id
  <2>1. PICK s : s = references[c] /\ s \in Snapshots
    BY <1>2
  <2>2. PICK next \in k..m + 1 :
            /\ Window(events, k, s) = [events |-> SubSeq(events, k, next - 1), next |-> next]
            /\ \A i \in k..next - 1 : events[i].last <= s.last_update_id
            /\ next <= m => events[next].last > s.last_update_id
    BY <1>1, <2>1, WindowEnds
  <2>3. PICK a, b : a = k - 1 /\ b = next - 1
    OBVIOUS
  <2>4. a \in 0..m /\ b \in a..m /\ a + 1 = k
    BY <1>2, <2>2, <2>3
  <2>5. ApplyAll(f[a], SubSeq(events, a + 1, b)) = f[b]
    BY <1>1, <1>3, <2>4, ApplyAllPart
  <2>6. at[c] = [r |-> ApplyAll(f[a], SubSeq(events, k, b)), index |-> next]
    <3>1. PICK x, w : x = at[c - 1] /\ w = Window(events, k, s)
      OBVIOUS
    <3>2. x.r = f[a] /\ x.index = k
      BY <1>7, <2>3, <3>1
    <3>3. w.events = SubSeq(events, k, b) /\ w.next = next
      BY <2>2, <2>3, <3>1
    <3>4. at[c] = AtNext(x, events, s)
      BY <1>6, <2>1, <3>1
    <3>5. AtNext(x, events, s) = [r |-> ApplyAll(x.r, w.events), index |-> w.next]
      BY <3>1, <3>2 DEF AtNext
    <3> QED
      BY <3>2, <3>3, <3>4, <3>5
  <2> QED
    BY <2>1, <2>2, <2>3, <2>4, <2>5, <2>6
<1> DEFINE T == {c \in 0..n : \E k \in 1..m + 1 : at[c] = [r |-> f[k - 1], index |-> k]}
<1>8. 0 \in T
  <2>1. at[0] = [r |-> f[1 - 1], index |-> 1] /\ 1 \in 1..m + 1 /\ 0 \in 0..n
    BY <1>2, <1>3, <1>6 DEF Folded
  <2> QED
    BY <2>1
<1>9. ASSUME NEW c \in 1..n, c - 1 \in T
      PROVE  c \in T
  <2>1. PICK k \in 1..m + 1 : at[c - 1] = [r |-> f[k - 1], index |-> k]
    BY <1>9
  <2>2. PICK next \in k..m + 1 : at[c] = [r |-> f[next - 1], index |-> next]
    BY <1>7, <2>1
  <2>3. next \in 1..m + 1 /\ c \in 0..n
    BY <1>2, <2>2
  <2> QED
    BY <2>2, <2>3
<1> HIDE DEF T
<1>10. 0..n \subseteq T
  BY <1>2, <1>8, <1>9, InductionUpTo
<1>11. \A c \in 0..n : \E k \in 1..m + 1 : at[c] = [r |-> f[k - 1], index |-> k]
  BY <1>10 DEF T
<1>12. \A c \in 0..n : at[c].index \in 1..m + 1 /\ at[c].r = f[at[c].index - 1]
  <2> SUFFICES ASSUME NEW c \in 0..n
               PROVE  at[c].index \in 1..m + 1 /\ at[c].r = f[at[c].index - 1]
    OBVIOUS
  <2>1. PICK k \in 1..m + 1 : at[c] = [r |-> f[k - 1], index |-> k]
    BY <1>11
  <2>2. at[c].r = f[k - 1] /\ at[c].index = k
    BY <2>1
  <2> QED
    BY <2>2
<1>13. ASSUME NEW c \in 1..n
       PROVE  /\ at[c - 1].index <= at[c].index
              /\ \A i \in at[c - 1].index..at[c].index - 1 : events[i].last <= references[c].last_update_id
              /\ at[c].index <= m => events[at[c].index].last > references[c].last_update_id
  <2>1. c - 1 \in 0..n
    BY <1>2
  <2>2. PICK k \in 1..m + 1 : at[c - 1] = [r |-> f[k - 1], index |-> k]
    BY <1>11, <2>1
  <2>3. PICK next \in k..m + 1 :
            /\ at[c] = [r |-> f[next - 1], index |-> next]
            /\ \A i \in k..next - 1 : events[i].last <= references[c].last_update_id
            /\ next <= m => events[next].last > references[c].last_update_id
    BY <1>7, <2>2
  <2>4. at[c - 1].index = k /\ at[c].index = next /\ k <= next
    BY <1>2, <2>2, <2>3
  <2> QED
    BY <2>3, <2>4
<1> QED
  BY <1>1, <1>5, <1>6, <1>12, <1>13 DEF Windows

\* Where a reference stands, every event up to there is within its id, and the next,
\* if there is one, is past it.
LEMMA WindowsReach ==
    ASSUME MaxId \in Nat, NEW events \in Seq(Diffs), NEW references \in Seq(Snapshots), ByIds(references),
           NEW f, NEW at, Windows(at, f, events, references)
    PROVE  \A c \in 1..Len(references) :
               \A i \in 1..at[c].index - 1 : events[i].last <= references[c].last_update_id
<1>1. PICK n, m : n = Len(references) /\ m = Len(events)
  OBVIOUS
<1>2. n \in Nat /\ m \in Nat
  BY <1>1
<1>3. PICK id, last : id = [c \in 1..n |-> references[c].last_update_id] /\ last = [i \in 1..m |-> events[i].last]
  OBVIOUS
<1>4. \A c \in 1..n : id[c] \in Nat /\ id[c] = references[c].last_update_id
  <2>1. \A c \in 1..n : references[c] \in Snapshots
    BY <1>1
  <2> QED
    BY <1>3, <2>1 DEF Snapshots, Ids
<1>5. \A i \in 1..m : last[i] \in Nat /\ last[i] = events[i].last
  <2>1. \A i \in 1..m : events[i] \in Diffs
    BY <1>1
  <2> QED
    BY <1>3, <2>1 DEF Diffs, Ids
<1>6. PICK index : index = [c \in 0..n |-> at[c].index]
  OBVIOUS
<1>7. index[0] = 1 /\ \A c \in 0..n : index[c] \in 1..m + 1 /\ index[c] = at[c].index
  BY <1>1, <1>2, <1>6 DEF Windows
<1>8. \A c \in 1..n : \A i \in index[c - 1]..index[c] - 1 : events[i].last <= references[c].last_update_id
  <2>1. \A c \in 1..n : c - 1 \in 0..n /\ c \in 0..n
    BY <1>2
  <2> QED
    BY <1>1, <1>7, <2>1 DEF Windows
<1>9. \A c \in 1..n : \A i \in index[c - 1]..index[c] - 1 : i \in 1..m /\ last[i] <= id[c]
  <2> SUFFICES ASSUME NEW c \in 1..n, NEW i \in index[c - 1]..index[c] - 1
               PROVE  i \in 1..m /\ last[i] <= id[c]
    OBVIOUS
  <2>1. c - 1 \in 0..n /\ c \in 0..n
    BY <1>2
  <2>2. index[c - 1] \in 1..m + 1 /\ index[c] \in 1..m + 1
    BY <1>7, <2>1
  <2>3. i \in 1..m
    BY <1>2, <2>2
  <2> QED
    BY <1>4, <1>5, <1>8, <2>3
<1>10. \A b, c \in 1..n : b <= c => id[b] <= id[c]
  BY <1>1, <1>4 DEF ByIds
<1> DEFINE T == {c \in 0..n : \A i \in 1..index[c] - 1 : i \in 1..m /\ \E b \in 1..c : last[i] <= id[b]}
<1>11. 0 \in T
  BY <1>2, <1>7
<1>12. ASSUME NEW c \in 1..n, c - 1 \in T
       PROVE  c \in T
  <2>1. c - 1 \in 0..n /\ c \in 0..n
    BY <1>2
  <2>2. index[c - 1] \in 1..m + 1 /\ index[c] \in 1..m + 1
    BY <1>7, <2>1
  <2>3. ASSUME NEW i \in 1..index[c] - 1
        PROVE  i \in 1..m /\ \E b \in 1..c : last[i] <= id[b]
    <3>1. i \in 1..index[c - 1] - 1 \/ i \in index[c - 1]..index[c] - 1
      BY <1>2, <2>2
    <3>2. c \in 1..c /\ \A b \in 1..c - 1 : b \in 1..c
      BY <1>2
    <3>3. CASE i \in 1..index[c - 1] - 1
      BY <1>12, <3>2, <3>3
    <3>4. CASE i \in index[c - 1]..index[c] - 1
      BY <1>9, <3>2, <3>4
    <3> QED
      BY <3>1, <3>3, <3>4
  <2> QED
    BY <2>1, <2>3
<1> HIDE DEF T
<1>13. 0..n \subseteq T
  BY <1>2, <1>11, <1>12, InductionUpTo
<1>14. ASSUME NEW c \in 1..n, NEW i \in 1..index[c] - 1
       PROVE  last[i] <= id[c] /\ i \in 1..m
  <2>1. c \in T
    BY <1>2, <1>13
  <2>2. i \in 1..m /\ \E b \in 1..c : last[i] <= id[b]
    BY <2>1 DEF T
  <2>3. PICK b \in 1..c : last[i] <= id[b]
    BY <2>2
  <2>4. b \in 1..n /\ b <= c
    BY <1>2, <2>3
  <2>5. id[b] <= id[c] /\ id[b] \in Nat /\ id[c] \in Nat /\ last[i] \in Nat
    BY <1>4, <1>5, <1>10, <2>2, <2>4
  <2> QED
    BY <2>2, <2>3, <2>5
<1>15. \A c \in 1..n : index[c] = at[c].index
  BY <1>2, <1>7
<1> QED
  BY <1>1, <1>4, <1>5, <1>14, <1>15

-----------------------------------------------------------------------------
(* What verify and reconstruct were asked, and what they went by.          *)

\* A file that is a snapshot is the bootstrap; without one there is none.
LEMMA BootstrapThere ==
    ASSUME AnswerInv, Did("compare") \/ Did("reconstruct"), Returned # None
    PROVE  /\ call.file \in Files /\ ~BadFile
           /\ call.file = None => Bootstrap = None
           /\ call.file # None =>
                  /\ Bootstrap \in Snapshots /\ Bootstrap # None
                  /\ FileSnapshot(call.file) # None
                  /\ Bootstrap = [last_update_id |-> FileSnapshot(call.file).last_update_id,
                                  levels |-> FileSnapshot(call.file).bids \o FileSnapshot(call.file).asks]
                  /\ Bootstrap.last_update_id = call.file.lastUpdateId
<1>1. call.file \in Files
  BY DEF AnswerInv, Asked, Did
<1>2. ~BadFile
  BY DEF AnswerInv, Answered, Did
<1>3. call.file = None => Bootstrap = None
  BY DEF Bootstrap
<1>4. ASSUME call.file # None
      PROVE  /\ Bootstrap \in Snapshots /\ Bootstrap # None
             /\ FileSnapshot(call.file) # None
             /\ Bootstrap = [last_update_id |-> FileSnapshot(call.file).last_update_id,
                             levels |-> FileSnapshot(call.file).bids \o FileSnapshot(call.file).asks]
             /\ Bootstrap.last_update_id = call.file.lastUpdateId
  <2>1. PICK s : s = FileSnapshot(call.file)
    OBVIOUS
  <2>2. s # None
    BY <1>2, <1>4, <2>1 DEF BadFile
  <2>3. SnapshotTyped(s)
    BY <1>1, <1>4, <2>1, InputsAssumption
  <2>4. Bootstrap = [last_update_id |-> s.last_update_id, levels |-> s.bids \o s.asks]
    BY <1>4, <2>1 DEF Bootstrap
  <2>5. s.last_update_id \in Ids /\ s.bids \o s.asks \in Seq(Level) /\ Bootstrap # None
    <3>1. /\ s.last_update_id \in Ids /\ s.bids \in Seq(Level) /\ s.asks \in Seq(Level)
          /\ [last_update_id |-> s.last_update_id, levels |-> s.bids \o s.asks] # None
      BY <2>2, <2>3 DEF SnapshotTyped
    <3>2. s.bids \o s.asks \in Seq(Level)
      BY <3>1
    <3> QED
      BY <2>4, <3>1, <3>2
  <2>6. s.last_update_id = call.file.lastUpdateId
    <3>1. s = [last_update_id |-> call.file.lastUpdateId, bids |-> call.file.bids, asks |-> call.file.asks]
      BY <2>1, <2>2 DEF FileSnapshot, BookSnapshot
    <3> QED
      BY <3>1
  <2> QED
    BY <2>1, <2>2, <2>4, <2>5, <2>6 DEF Snapshots
<1> QED
  BY <1>1, <1>2, <1>3, <1>4

\* The snapshot a comparison starts from.
First == IF call.file # None THEN Bootstrap ELSE Known[1]

\* What verify reports is what compare_streams makes of its events and references.
LEMMA ComparedStreams ==
    ASSUME AnswerInv, Did("compare"), Returned # None
    PROVE  LET report == CompareStreams(Events, Known, call.limit, Bootstrap)
           IN  /\ call.input \in Inputs /\ call.reference \in References /\ call.limit \in Nat
               /\ Events \in Seq(Diffs) /\ Known \in Seq(Snapshots) /\ ByIds(Known)
               /\ report # None
               /\ Returned.returned = report.returned /\ Returned.checks = report.checks
               /\ Returned.events + Returned.unparseable = call.input.frames_written
               /\ ~Undecodable(call.input.records)
               /\ FrameCount(call.input.records) = call.input.frames_written
<1>1. PICK report : report = CompareStreams(Events, Known, call.limit, Bootstrap)
  OBVIOUS
<1>2. call.input \in Inputs /\ call.reference \in References /\ call.limit \in Depths
  BY DEF AnswerInv, Asked, Did
<1>3. IsCapture(call.input) /\ IsCapture(call.reference) /\ call.limit \in Nat /\ MaxId \in Nat
  BY <1>2, InputsAssumption
<1>4. Events \in Seq(Diffs) /\ Known \in Seq(Snapshots) /\ ByIds(Known)
  BY <1>3, EventsType, ReferencesInOrder DEF Events, Known
<1>5. Returned = Compare(call.input, call.reference, call.limit, Bootstrap)
  BY DEF AnswerInv, Answered, Did
<1>6. /\ ~Undecodable(call.input.records)
      /\ FrameCount(call.input.records) = call.input.frames_written
      /\ report # None
      /\ Returned = [returned |-> report.returned, checks |-> report.checks, events |-> Len(Events),
                     unparseable |-> FrameCount(call.input.records) - Len(Events)]
  BY <1>1, <1>5 DEF Compare, Events, Known
<1>7. Returned.events + Returned.unparseable = call.input.frames_written
  <2>1. PICK a, b : a = Len(Events) /\ b = call.input.frames_written
    OBVIOUS
  <2>2. a \in Nat /\ b \in Nat
    BY <1>3, <1>4, <2>1 DEF IsCapture
  <2>3. Returned.events = a /\ Returned.unparseable = b - a
    BY <1>6, <2>1
  <2>4. a + (b - a) = b
    BY <2>2
  <2> QED
    BY <2>1, <2>3, <2>4
<1> QED
  BY <1>1, <1>2, <1>3, <1>4, <1>6, <1>7

LEMMA ComparedFrom ==
    ASSUME AnswerInv, Did("compare"), Returned # None, Starts
    PROVE  /\ First \in Snapshots /\ First.last_update_id = Start
           /\ Compared \in Seq(Snapshots) /\ ByIds(Compared)
           /\ CompareStreams(Events, Known, call.limit, Bootstrap)
              = CompareFrom(First, Events, Compared, call.limit)
<1>1. Known \in Seq(Snapshots) /\ ByIds(Known)
  BY ComparedStreams
<1>2. CASE call.file # None
  <2>1. Bootstrap \in Snapshots /\ Bootstrap # None /\ Bootstrap.last_update_id = call.file.lastUpdateId
    BY <1>2, BootstrapThere
  <2>2. First = Bootstrap /\ Compared = Known /\ Start = call.file.lastUpdateId
    BY <1>2 DEF First, Compared, Start
  <2> QED
    BY <1>1, <2>1, <2>2 DEF CompareStreams
<1>3. CASE call.file = None
  <2>1. Known # <<>> /\ Bootstrap = None
    BY <1>3, BootstrapThere DEF Starts
  <2>2. First = Known[1] /\ Compared = Tail(Known) /\ Start = Known[1].last_update_id
    BY <1>3, <2>1 DEF First, Compared, Start
  <2>3. PICK n : n = Len(Known)
    OBVIOUS
  <2>4. n \in Nat /\ n >= 1 /\ 1 \in 1..n /\ DOMAIN Known = 1..n
    BY <1>1, <2>1, <2>3
  <2>5. Known[1] \in Snapshots
    BY <1>1, <2>3, <2>4
  <2>6. Tail(Known) \in Seq(Snapshots) /\ DOMAIN Tail(Known) = 1..n - 1
        /\ \A i \in 1..n - 1 : Tail(Known)[i] = Known[i + 1]
    BY <1>1, <2>1, <2>3, <2>4
  <2>7. ByIds(Tail(Known))
    <3> SUFFICES ASSUME NEW i \in 1..n - 1, NEW j \in 1..n - 1, i <= j
                 PROVE  Tail(Known)[i].last_update_id <= Tail(Known)[j].last_update_id
      BY <2>6 DEF ByIds
    <3>1. i + 1 \in 1..n /\ j + 1 \in 1..n /\ i + 1 <= j + 1
      BY <2>4
    <3>2. Known[i + 1].last_update_id <= Known[j + 1].last_update_id
      BY <1>1, <2>4, <3>1 DEF ByIds
    <3> QED
      BY <2>6, <3>2
  <2> QED
    BY <2>1, <2>2, <2>5, <2>6, <2>7 DEF CompareStreams
<1> QED
  BY <1>2, <1>3

\* The events past every reference.
Past(events, references) ==
    {i \in DOMAIN events : \A c \in DOMAIN references :
        \E j \in 1..i : events[j].last > references[c].last_update_id}

\* verify counts each event once, but those past the last reference.
LEMMA CompareFromCounts ==
    ASSUME MaxId \in Nat, NEW snapshot \in Snapshots, NEW events \in Seq(Diffs),
           NEW references \in Seq(Snapshots), ByIds(references), NEW limit,
           CompareFrom(snapshot, events, references, limit) # None
    PROVE  Sum(CompareFrom(snapshot, events, references, limit).returned)
           = Len(events) - Cardinality(Past(events, references))
<1>1. PICK r, n, m, at :
          /\ r = LoadSnapshot(Fresh, snapshot) /\ n = Len(references) /\ m = Len(events)
          /\ at = AtReferences(snapshot, events, references)
  OBVIOUS
<1>2. n \in Nat /\ m \in Nat /\ DOMAIN references = 1..n /\ DOMAIN events = 1..m
  BY <1>1
<1>3. r \in Reconstructors /\ Sum(r.returned) = 0
  BY <1>1, FreshType, LoadSnapshotFields
<1>4. PICK f : Folded(f, r, events)
  BY <1>3, ApplyAllThere
<1>5. Windows(at, f, events, references)
  BY <1>1, <1>4, WindowsFollow
<1>6. PICK k : k = at[n].index - 1
  OBVIOUS
<1>7. at[n].index \in 1..m + 1 /\ at[n].r = f[k]
  <2>1. n \in 0..n
    BY <1>2
  <2> QED
    BY <1>1, <1>5, <1>6, <2>1 DEF Windows
<1>8. k \in 0..m /\ at[n].index = k + 1
  BY <1>2, <1>6, <1>7
<1>9. ~f[k].failed /\ CompareFrom(snapshot, events, references, limit).returned = f[k].returned
  BY <1>1, <1>7 DEF CompareFrom
<1>10. Sum(f[k].returned) = 0 + k
  <2>1. k \in 0..k
    BY <1>8
  <2> QED
    BY <1>1, <1>3, <1>4, <1>8, <1>9, <2>1, FoldedCounts
<1>11. Past(events, references) = k + 1..m
  <2>1. ASSUME NEW i \in 1..m
        PROVE  events[i].last \in Nat
    <3>1. events[i] \in Diffs
      BY <1>1
    <3> QED
      BY <3>1 DEF Diffs, Ids
  <2>2. ASSUME NEW c \in 1..n
        PROVE  references[c].last_update_id \in Nat
    <3>1. references[c] \in Snapshots
      BY <1>1
    <3> QED
      BY <3>1 DEF Snapshots, Ids
  <2>3. ASSUME NEW i \in 1..m, i <= k
        PROVE  i \notin Past(events, references)
    <3>1. n # 0
      <4>1. n = 0 => k = 0
        BY <1>5, <1>6 DEF Windows
      <4> QED
        BY <1>2, <2>3, <4>1
    <3>2. n \in 1..n
      BY <1>2, <3>1
    <3>3. \A j \in 1..k : events[j].last <= references[n].last_update_id
      <4>1. \A j \in 1..at[n].index - 1 : events[j].last <= references[n].last_update_id
        BY <1>1, <1>5, <3>2, WindowsReach
      <4> QED
        BY <1>6, <4>1
    <3>4. ASSUME NEW j \in 1..i
          PROVE  ~(events[j].last > references[n].last_update_id)
      <4>1. j \in 1..k /\ j \in 1..m
        BY <1>2, <1>8, <2>3
      <4>2. PICK a, b : a = events[j].last /\ b = references[n].last_update_id
        OBVIOUS
      <4>3. a \in Nat /\ b \in Nat /\ a <= b
        BY <2>1, <2>2, <3>2, <3>3, <4>1, <4>2
      <4> QED
        BY <4>2, <4>3
    <3> QED
      BY <1>2, <3>2, <3>4 DEF Past
  <2>4. ASSUME NEW i \in k + 1..m
        PROVE  i \in Past(events, references)
    <3>1. i \in 1..m /\ k + 1 \in 1..i /\ k + 1 \in 1..m
      BY <1>2, <1>8
    <3>2. ASSUME NEW c \in 1..n
          PROVE  events[k + 1].last > references[c].last_update_id
      <4>1. n \in 1..n /\ c <= n
        BY <1>2
      <4>2. at[n].index <= m => events[at[n].index].last > references[n].last_update_id
        BY <1>1, <1>5, <4>1 DEF Windows
      <4>3. events[k + 1].last > references[n].last_update_id
        BY <1>2, <1>8, <3>1, <4>2
      <4>4. references[c].last_update_id <= references[n].last_update_id
        BY <1>2, <4>1 DEF ByIds
      <4>5. PICK a, b, d : /\ a = events[k + 1].last /\ b = references[n].last_update_id
                           /\ d = references[c].last_update_id
        OBVIOUS
      <4>6. a \in Nat /\ b \in Nat /\ d \in Nat /\ a > b /\ d <= b
        BY <2>1, <2>2, <3>1, <4>1, <4>3, <4>4, <4>5
      <4> QED
        BY <4>5, <4>6
    <3> QED
      BY <1>2, <3>1, <3>2 DEF Past
  <2>5. \A i \in 1..m : i <= k \/ i \in k + 1..m
    BY <1>2, <1>8
  <2>6. Past(events, references) \subseteq 1..m /\ k + 1..m \subseteq 1..m
    BY <1>2, <1>8 DEF Past
  <2>7. \A i \in k + 1..m : ~(i <= k)
    BY <1>2, <1>8
  <2> QED
    BY <2>3, <2>4, <2>5, <2>6, <2>7
<1>12. Cardinality(k + 1..m) = m - k
  <2>1. Cardinality(k + 1..m) = IF k + 1 > m THEN 0 ELSE m - (k + 1) + 1
    BY <1>2, <1>8, FS_Interval
  <2> QED
    BY <1>2, <1>8, <2>1
<1>13. m - (m - k) = k /\ 0 + k = k
  BY <1>2, <1>8
<1> QED
  BY <1>1, <1>9, <1>10, <1>11, <1>12, <1>13

LEMMA ComparedFramesAreCounted ==
    ASSUME AnswerInv, Did("compare"), Returned # None
    PROVE  /\ Returned.events + Returned.unparseable = call.input.frames_written
           /\ Sum(Returned.returned) = Len(Events) - Cardinality(Past(Events, Compared))
<1>1. PICK report : report = CompareStreams(Events, Known, call.limit, Bootstrap)
  OBVIOUS
<1>2. /\ Events \in Seq(Diffs) /\ Known \in Seq(Snapshots)
      /\ report # None /\ Returned.returned = report.returned
      /\ Returned.events + Returned.unparseable = call.input.frames_written
  BY <1>1, ComparedStreams
<1>3. CASE Starts
  <2>1. /\ First \in Snapshots /\ Compared \in Seq(Snapshots) /\ ByIds(Compared)
        /\ report = CompareFrom(First, Events, Compared, call.limit)
    BY <1>1, <1>3, ComparedFrom
  <2>2. Sum(report.returned) = Len(Events) - Cardinality(Past(Events, Compared))
    BY <1>2, <2>1, CompareFromCounts, InputsAssumption
  <2> QED
    BY <1>2, <2>2
<1>4. CASE ~Starts
  <2>1. call.file = None /\ Known = <<>> /\ Compared = <<>> /\ Bootstrap = None
    BY <1>4, BootstrapThere DEF Starts, Compared
  <2>2. report = [returned |-> Fresh.returned, checks |-> <<>>]
    BY <1>1, <2>1 DEF CompareStreams
  <2>3. Sum(Returned.returned) = 0
    BY <1>2, <2>2, FreshType
  <2>4. Past(Events, Compared) = 1..Len(Events) /\ Len(Events) \in Nat
    BY <1>2, <2>1 DEF Past
  <2>5. PICK m \in Nat : m = Len(Events)
    BY <2>4
  <2>6. Cardinality(1..m) = m
    <3>1. Cardinality(1..m) = IF 1 > m THEN 0 ELSE m - 1 + 1
      BY FS_Interval
    <3> QED
      BY <3>1
  <2> QED
    BY <1>2, <2>3, <2>4, <2>5, <2>6
<1> QED
  BY <1>3, <1>4

-----------------------------------------------------------------------------
(* The loop of reconstruct.                                                *)

\* h[i] is the reconstructor after the first i records.
Rebuilds(h, r, records) ==
    h = [i \in 0..Len(records) |-> IF i = 0 THEN r ELSE RebuildUnless(h[i - 1], records[i])]
Rebuilding(h, r, records) == h[0] = r /\ \A i \in 1..Len(records) : h[i] = RebuildUnless(h[i - 1], records[i])

\* The frames that are passed to apply_event.
Told(records) == {i \in Frames(records) : Understood(records[i]) /\ Inband(records[i]) = None}

\* A frame that holds a whole book of Bybit's gives an update too.
LEMMA InbandIsUnderstood ==
    ASSUME NEW record, UpdateTyped(record), Inband(record) # None
    PROVE  Understood(record)
<1>1. /\ record.venue = "bybit" /\ record.channel = "book_diff" /\ BybitBook(record.payload)
  BY DEF Inband, InbandSnapshot
<1>2. /\ [first |-> record.payload.u, last |-> record.payload.u] # None
      /\ [bids |-> record.payload.b, asks |-> record.payload.a] # None
  BY <1>1 DEF UpdateTyped
<1>3. UpdateSpan(record.venue, record.channel, record.payload)
      = [first |-> record.payload.u, last |-> record.payload.u]
  BY <1>1 DEF UpdateSpan
<1>4. DecodeDiff(record.venue, record.channel, record.payload)
      = [bids |-> record.payload.b, asks |-> record.payload.a]
  BY <1>1 DEF DecodeDiff
<1> QED
  BY <1>2, <1>3, <1>4 DEF Understood

\* What one record does: what is passed to apply_event is counted, once.
LEMMA RebuildFields ==
    ASSUME NEW capture, IsCapture(capture), NEW i \in DOMAIN capture.records, NEW x \in Reconstructors
    PROVE  /\ Rebuild(x, capture.records[i]) \in Reconstructors
           /\ Sum(Rebuild(x, capture.records[i]).returned)
              = Sum(x.returned) + (IF i \in Told(capture.records) THEN 1 ELSE 0)
<1>1. PICK records, record : records = capture.records /\ record = records[i]
  OBVIOUS
<1>2. i \in Frames(records) <=> record.kind = "frame"
  BY <1>1 DEF Frames
<1>3. i \in Frames(records) => UpdateTyped(record) /\ SnapshotTyped(Inband(record))
  BY <1>1 DEF IsCapture
<1>4. Sum(x.returned) \in Nat
  <2>1. x.returned \in Counts /\ "gap" \in Outcomes
    BY DEF Reconstructors, Outcomes
  <2> QED
    BY <2>1, CountsOne
<1>5. CASE record.kind = "connection_gap"
  <2>1. PICK q : q = [x EXCEPT !.lastUpdateId = None]
    OBVIOUS
  <2>2. q \in Reconstructors /\ q.returned = x.returned
    BY <2>1 DEF Reconstructors
  <2>3. Rebuild(x, record) = q /\ i \notin Told(records)
    BY <1>2, <1>5, <2>1 DEF Rebuild, Told
  <2> QED
    BY <1>1, <1>4, <2>2, <2>3
<1>6. CASE record.kind \notin {"connection_gap", "frame"}
  <2>1. Rebuild(x, record) = x /\ i \notin Told(records)
    BY <1>2, <1>6 DEF Rebuild, Told
  <2> QED
    BY <1>1, <1>4, <2>1
<1>7. CASE record.kind = "frame" /\ Inband(record) # None
  <2>1. PICK b : b = Inband(record)
    OBVIOUS
  <2>2. b.last_update_id \in Ids /\ b.bids \in Seq(Level) /\ b.asks \in Seq(Level)
    BY <1>2, <1>3, <1>7, <2>1 DEF SnapshotTyped
  <2>3. b.bids \o b.asks \in Seq(Level)
    BY <2>2
  <2>4. PICK s : s = [last_update_id |-> b.last_update_id, levels |-> b.bids \o b.asks]
    OBVIOUS
  <2>5. s \in Snapshots
    BY <2>2, <2>3, <2>4 DEF Snapshots
  <2>6. Rebuild(x, record) = LoadSnapshot(x, s) /\ i \notin Told(records)
    BY <1>1, <1>2, <1>7, <2>1, <2>4 DEF Rebuild, Told
  <2>7. LoadSnapshot(x, s) \in Reconstructors /\ LoadSnapshot(x, s).returned = x.returned
    BY <2>5, LoadSnapshotFields
  <2> QED
    BY <1>1, <1>4, <2>6, <2>7
<1>8. CASE record.kind = "frame" /\ Inband(record) = None /\ Understood(record)
  <2>1. PICK e, y : e = EventOf(record) /\ y = ApplyEvent(x, e)
    OBVIOUS
  <2>2. e \in Diffs
    BY <1>2, <1>3, <1>8, <2>1, EventTyped
  <2>3. y \in Reconstructors /\ Sum(y.returned) = Sum(x.returned) + 1
    BY <2>1, <2>2, ApplyEventFields
  <2>4. PICK q : q = [y EXCEPT !.failed = FALSE]
    OBVIOUS
  <2>5. q \in Reconstructors /\ q.returned = y.returned
    BY <2>3, <2>4 DEF Reconstructors
  <2>6. Rebuild(x, record) = q /\ i \in Told(records)
    BY <1>1, <1>2, <1>8, <2>1, <2>4 DEF Rebuild, Told
  <2> QED
    BY <1>1, <2>3, <2>5, <2>6
<1>9. CASE record.kind = "frame" /\ Inband(record) = None /\ ~Understood(record)
  <2>1. Rebuild(x, record) = x /\ i \notin Told(records)
    BY <1>1, <1>9 DEF Rebuild, Told
  <2> QED
    BY <1>1, <1>4, <2>1
<1> QED
  BY <1>5, <1>6, <1>7, <1>8, <1>9

LEMMA RebuildAllThere ==
    ASSUME NEW capture, IsCapture(capture), NEW r \in Reconstructors
    PROVE  \E h : /\ Rebuilding(h, r, capture.records)
                  /\ RebuildAll(r, capture.records) = h[Len(capture.records)]
                  /\ \A i \in 0..Len(capture.records) : h[i] \in Reconstructors
<1> DEFINE records == capture.records
           n == Len(records)
           S == Reconstructors
           step == [i \in 1..n |-> [x \in S |-> RebuildUnless(x, records[i])]]
<1>1. n \in Nat /\ DOMAIN records = 1..n
  BY DEF IsCapture
<1>2. \A x \in S : \A i \in 1..n : RebuildUnless(x, records[i]) \in S
  BY <1>1, RebuildFields DEF RebuildUnless
<1>3. Steps(step, S, n)
  <2> HIDE DEF S
  <2> QED
    BY <1>2 DEF Steps
<1>4. PICK g \in [0..n -> S] : Repeats(g, r, step, n)
  <2>1. r \in S
    OBVIOUS
  <2> HIDE DEF S, step
  <2> QED
    BY <1>1, <1>3, <2>1, RepetitionThere
<1>5. ASSUME NEW i \in 0..n, i # 0
      PROVE  step[i][g[i - 1]] = RebuildUnless(g[i - 1], records[i])
  <2>1. i - 1 \in 0..n /\ i \in 1..n
    BY <1>1, <1>5
  <2>2. step[i] = [x \in S |-> RebuildUnless(x, records[i])]
    BY <2>1
  <2>3. g[i - 1] \in S
    BY <2>1
  <2> HIDE DEF S, step
  <2> QED
    BY <2>2, <2>3
<1> HIDE DEF step
<1>6. Rebuilds(g, r, records)
  BY <1>4, <1>5 DEF Repeats, Rebuilds
<1>7. PICK h : h = CHOOSE k : Rebuilds(k, r, records)
  OBVIOUS
<1>8. Rebuilds(h, r, records)
  BY <1>6, <1>7
<1>9. RebuildAll(r, records) = h[n]
  BY <1>7 DEF RebuildAll, Rebuilds
<1>10. Rebuilding(h, r, records)
  <2>1. 0 \in 0..n /\ \A i \in 1..n : i \in 0..n /\ i # 0
    BY <1>1
  <2> QED
    BY <1>8, <2>1 DEF Rebuilds, Rebuilding
<1>11. \A i \in 0..n : h[i] \in S
  <2>1. h[0] \in S /\ \A i \in 1..n : h[i - 1] \in S => h[i] \in S
    BY <1>2, <1>10 DEF Rebuilding
  <2> HIDE DEF S
  <2> QED
    BY <1>1, <2>1, ValuesUpTo
<1> QED
  BY <1>9, <1>10, <1>11

\* What has not failed at the end never had.
LEMMA NeverFailed ==
    ASSUME NEW n \in Nat, NEW h, \A i \in 1..n : h[i - 1].failed => h[i] = h[i - 1], ~h[n].failed
    PROVE  \A i \in 0..n : ~h[i].failed
<1> DEFINE T == {i \in 0..n : ~h[n - i].failed}
<1>1. 0 \in T
  OBVIOUS
<1>2. ASSUME NEW i \in 1..n, i - 1 \in T
      PROVE  i \in T
  <2>1. i \in 0..n /\ n - (i - 1) \in 1..n /\ (n - (i - 1)) - 1 = n - i
    OBVIOUS
  <2>2. ~h[n - (i - 1)].failed
    BY <1>2
  <2>3. h[n - i].failed => h[n - (i - 1)] = h[n - i]
    BY <2>1
  <2> QED
    BY <2>1, <2>2, <2>3
<1> HIDE DEF T
<1>3. 0..n \subseteq T
  BY <1>1, <1>2, InductionUpTo
<1> SUFFICES ASSUME NEW i \in 0..n PROVE ~h[i].failed
  OBVIOUS
<1>4. n - i \in T /\ n - (n - i) = i
  BY <1>3
<1>5. ~h[n - (n - i)].failed
  BY <1>4 DEF T
<1> QED
  BY <1>4, <1>5

\* reconstruct counts each frame it tells the reconstructor of once.
LEMMA RebuildCounts ==
    ASSUME NEW capture, IsCapture(capture), NEW r \in Reconstructors,
           ~RebuildAll(r, capture.records).failed
    PROVE  Sum(RebuildAll(r, capture.records).returned) = Sum(r.returned) + Cardinality(Told(capture.records))
<1>1. PICK records, n : records = capture.records /\ n = Len(records)
  OBVIOUS
<1>2. n \in Nat /\ DOMAIN records = 1..n
  BY <1>1 DEF IsCapture
<1>3. PICK h : /\ Rebuilding(h, r, records) /\ RebuildAll(r, records) = h[n]
               /\ \A i \in 0..n : h[i] \in Reconstructors
  BY <1>1, RebuildAllThere
<1>4. \A i \in 0..n : ~h[i].failed
  <2>1. \A i \in 1..n : h[i - 1].failed => h[i] = h[i - 1]
    BY <1>1, <1>3 DEF Rebuilding, RebuildUnless
  <2>2. ~h[n].failed
    BY <1>1, <1>3
  <2> QED
    BY <1>2, <2>1, <2>2, NeverFailed
<1>5. PICK told : told = Told(records)
  OBVIOUS
<1>6. PICK some : some = [i \in 0..n |-> {j \in 1..i : j \in told}]
  OBVIOUS
<1>7. told \subseteq 1..n
  BY <1>2, <1>5 DEF Told, Frames
<1>8. Sum(r.returned) \in Nat
  <2>1. r.returned \in Counts /\ "gap" \in Outcomes
    BY DEF Reconstructors, Outcomes
  <2> QED
    BY <2>1, CountsOne
<1> DEFINE T == {i \in 0..n : /\ IsFiniteSet(some[i]) /\ Cardinality(some[i]) \in Nat
                              /\ Sum(h[i].returned) = Sum(r.returned) + Cardinality(some[i])}
<1>9. 0 \in T
  <2>1. some[0] = {}
    BY <1>2, <1>6
  <2>2. Cardinality({}) = 0 /\ IsFiniteSet({})
    BY FS_EmptySet
  <2>3. h[0] = r
    BY <1>3 DEF Rebuilding
  <2>4. PICK a \in Nat : a = Sum(r.returned)
    BY <1>8
  <2>5. a = a + 0 /\ 0 \in Nat /\ 0 \in 0..n
    BY <1>2
  <2> QED
    BY <2>1, <2>2, <2>3, <2>4, <2>5
<1>10. ASSUME NEW i \in 1..n, i - 1 \in T
       PROVE  i \in T
  <2>1. i \in 0..n /\ i - 1 \in 0..n
    BY <1>2
  <2>2. PICK x, y, a : x = h[i - 1] /\ y = h[i] /\ a = Cardinality(some[i - 1])
    OBVIOUS
  <2>3. IsFiniteSet(some[i - 1]) /\ a \in Nat /\ Sum(x.returned) = Sum(r.returned) + a
    BY <1>10, <2>2
  <2>4. x \in Reconstructors /\ y = Rebuild(x, records[i])
    BY <1>1, <1>3, <1>4, <2>1, <2>2 DEF Rebuilding, RebuildUnless
  <2>5. Sum(y.returned) = Sum(x.returned) + (IF i \in told THEN 1 ELSE 0)
    BY <1>1, <1>2, <1>5, <2>4, RebuildFields
  <2>6. CASE i \in told
    <3>1. some[i] = some[i - 1] \cup {i} /\ i \notin some[i - 1]
      <4>1. some[i] = {j \in 1..i : j \in told} /\ some[i - 1] = {j \in 1..i - 1 : j \in told}
        BY <1>6, <2>1
      <4>2. 1..i = (1..i - 1) \cup {i} /\ i \notin 1..i - 1
        BY <1>2
      <4> QED
        BY <2>6, <4>1, <4>2
    <3>2. IsFiniteSet(some[i]) /\ Cardinality(some[i]) = a + 1
      <4>1. PICK A : A = some[i - 1]
        OBVIOUS
      <4>2. IsFiniteSet(A) /\ i \notin A /\ a = Cardinality(A)
        BY <2>2, <2>3, <3>1, <4>1
      <4>3. IsFiniteSet(A \cup {i}) /\ Cardinality(A \cup {i}) = a + 1
        BY <4>2, FS_AddElement
      <4> QED
        BY <3>1, <4>1, <4>3
    <3> QED
      BY <1>8, <2>1, <2>2, <2>3, <2>5, <2>6, <3>2
  <2>7. CASE i \notin told
    <3>1. some[i] = some[i - 1]
      <4>1. some[i] = {j \in 1..i : j \in told} /\ some[i - 1] = {j \in 1..i - 1 : j \in told}
        BY <1>6, <2>1
      <4>2. 1..i = (1..i - 1) \cup {i}
        BY <1>2
      <4> QED
        BY <2>7, <4>1, <4>2
    <3> QED
      BY <1>8, <2>1, <2>2, <2>3, <2>5, <2>7, <3>1
  <2> QED
    BY <2>6, <2>7
<1> HIDE DEF T
<1>11. 0..n \subseteq T
  BY <1>2, <1>9, <1>10, InductionUpTo
<1>12. n \in T /\ some[n] = told
  <2>1. n \in 0..n
    BY <1>2
  <2>2. some[n] = told
    <3>1. some[n] = {j \in 1..n : j \in told}
      BY <1>6, <2>1
    <3> QED
      BY <1>7, <3>1
  <2> QED
    BY <1>11, <2>1, <2>2
<1> QED
  BY <1>1, <1>3, <1>5, <1>12 DEF T

\* The frames are those that are passed to apply_event, those that hold a snapshot,
\* and those that are not understood.
LEMMA FramesParted ==
    ASSUME NEW capture, IsCapture(capture)
    PROVE  LET records == capture.records
               told == Told(records)
               inband == {i \in Frames(records) : Inband(records[i]) # None}
               rest == {i \in Frames(records) : ~Understood(records[i])}
           IN  /\ Cardinality(told) + Cardinality(inband) + Cardinality(rest) = FrameCount(records)
               /\ Cardinality(told) \in Nat /\ Cardinality(inband) \in Nat /\ Cardinality(rest) \in Nat
<1>1. PICK records, n : records = capture.records /\ n = Len(records)
  OBVIOUS
<1>2. PICK told, inband, rest :
          /\ told = Told(records)
          /\ inband = {i \in Frames(records) : Inband(records[i]) # None}
          /\ rest = {i \in Frames(records) : ~Understood(records[i])}
  OBVIOUS
<1>3. n \in Nat /\ Frames(records) \subseteq 1..n
  BY <1>1 DEF IsCapture, Frames
<1>4. \A i \in Frames(records) : Inband(records[i]) # None => Understood(records[i])
  BY <1>1, InbandIsUnderstood DEF IsCapture
<1>5. Frames(records) = (told \cup inband) \cup rest
  BY <1>2, <1>4 DEF Told
<1>6. told \cap inband = {} /\ (told \cup inband) \cap rest = {}
  BY <1>2, <1>4 DEF Told
<1>7. IsFiniteSet(Frames(records))
  <2>1. IsFiniteSet(1..n)
    BY <1>3, FS_Interval
  <2> QED
    BY <1>3, <2>1, FS_Subset
<1>8. IsFiniteSet(told) /\ IsFiniteSet(inband) /\ IsFiniteSet(rest) /\ IsFiniteSet(told \cup inband)
  BY <1>5, <1>7, FS_Subset
<1>9. Cardinality(told \cup inband) = Cardinality(told) + Cardinality(inband) - Cardinality(told \cap inband)
  BY <1>8, FS_Union
<1>10. Cardinality(Frames(records))
       = Cardinality(told \cup inband) + Cardinality(rest) - Cardinality((told \cup inband) \cap rest)
  BY <1>5, <1>8, FS_Union
<1>11. Cardinality(told) \in Nat /\ Cardinality(inband) \in Nat /\ Cardinality(rest) \in Nat /\ Cardinality({}) = 0
  BY <1>8, FS_CardinalityType, FS_EmptySet
<1>12. Cardinality(told) + Cardinality(inband) + Cardinality(rest) = Cardinality(Frames(records))
  <2>1. PICK a, b, c, d : /\ a = Cardinality(told) /\ b = Cardinality(inband) /\ c = Cardinality(rest)
                          /\ d = Cardinality(told \cup inband)
    OBVIOUS
  <2>2. a \in Nat /\ b \in Nat /\ c \in Nat /\ d = a + b - 0
    BY <1>6, <1>9, <1>11, <2>1
  <2>3. Cardinality(Frames(records)) = d + c - 0
    BY <1>6, <1>10, <1>11, <2>1
  <2> QED
    BY <2>1, <2>2, <2>3
<1> QED
  BY <1>1, <1>2, <1>11, <1>12 DEF FrameCount

\* Where reconstruct starts.
Begun == IF Bootstrap = None THEN Fresh ELSE LoadSnapshot(Fresh, Bootstrap)

\* reconstruct starts with nothing counted.
LEMMA RebuiltFrom ==
    ASSUME AnswerInv, Did("compare") \/ Did("reconstruct"), Returned # None
    PROVE  Begun \in Reconstructors /\ Sum(Begun.returned) = 0
<1>1. CASE call.file = None
  BY <1>1, BootstrapThere, FreshType DEF Begun
<1>2. CASE call.file # None
  BY <1>2, BootstrapThere, FreshType, LoadSnapshotFields DEF Begun
<1> QED
  BY <1>1, <1>2

LEMMA RebuiltFramesAreCounted ==
    ASSUME AnswerInv, Did("reconstruct"), Returned # None
    PROVE  Sum(Returned.returned) + Returned.inband + Returned.without_a_book = call.input.frames_written
<1>1. PICK records, end : records = call.input.records /\ end = RebuildAll(Begun, records)
  OBVIOUS
<1>2. call.input \in Inputs \cup InbandInputs
  BY DEF AnswerInv, Asked, Did
<1>3. IsCapture(call.input)
  BY <1>2, InputsAssumption
<1>4. Returned = Reconstruct(call.input, Bootstrap)
  BY DEF AnswerInv, Answered, Did
<1>5. /\ ~end.failed /\ FrameCount(records) = call.input.frames_written
      /\ Returned = [book |-> end.book, returned |-> end.returned,
                     inband |-> Cardinality({i \in Frames(records) : Inband(records[i]) # None}),
                     without_a_book |-> Cardinality({i \in Frames(records) : ~Understood(records[i])})]
  BY <1>1, <1>4 DEF Reconstruct, Begun
<1>6. Sum(end.returned) = 0 + Cardinality(Told(records))
  BY <1>1, <1>3, <1>5, RebuiltFrom, RebuildCounts
<1>7. PICK a, b, c :
          /\ a = Cardinality(Told(records))
          /\ b = Cardinality({i \in Frames(records) : Inband(records[i]) # None})
          /\ c = Cardinality({i \in Frames(records) : ~Understood(records[i])})
  OBVIOUS
<1>8. a \in Nat /\ b \in Nat /\ c \in Nat /\ a + b + c = FrameCount(records)
  BY <1>1, <1>3, <1>7, FramesParted
<1>9. Sum(Returned.returned) = 0 + a /\ Returned.inband = b /\ Returned.without_a_book = c
  BY <1>5, <1>6, <1>7
<1> QED
  BY <1>5, <1>8, <1>9

LEMMA EveryFrameIsCountedThen ==
    ASSUME AnswerInv
    PROVE  EveryFrameIsCounted
<1>1. ASSUME answer # <<>>, Returned # None, Did("compare")
      PROVE  /\ Returned.events + Returned.unparseable = call.input.frames_written
             /\ Sum(Returned.returned) = Len(Events) - Cardinality(Past(Events, Compared))
  BY <1>1, ComparedFramesAreCounted
<1>2. ASSUME answer # <<>>, Returned # None, Did("reconstruct")
      PROVE  Sum(Returned.returned) + Returned.inband + Returned.without_a_book = call.input.frames_written
  BY <1>2, RebuiltFramesAreCounted
<1> QED
  BY <1>1, <1>2 DEF EveryFrameIsCounted, Past

\* Whatever is captured and compared or rebuilt, no frame vanishes from the report and
\* none is counted twice.
THEOREM EveryFrameIsAlwaysCounted == Spec => []EveryFrameIsCounted
BY AnswersAreReturned, EveryFrameIsCountedThen, PTL

-----------------------------------------------------------------------------
(* What verify judges and what reconstruct builds.                         *)

\* Record by record or event by event, the same reconstructor comes out.
LEMMA RebuiltAsFolded ==
    ASSUME NEW capture, IsCapture(capture), NEW r \in Reconstructors,
           NEW f, Folded(f, r, LoadEvents(capture.records)),
           ~f[Len(LoadEvents(capture.records))].failed,
           \A i \in DOMAIN capture.records : capture.records[i].kind # "connection_gap",
           \A i \in Frames(capture.records) : Inband(capture.records[i]) = None
    PROVE  RebuildAll(r, capture.records) = f[Len(LoadEvents(capture.records))]
<1>1. PICK records, n, events, m :
          records = capture.records /\ n = Len(records) /\ events = LoadEvents(records) /\ m = Len(events)
  OBVIOUS
<1>2. n \in Nat /\ DOMAIN records = 1..n /\ \A i \in Frames(records) : UpdateTyped(records[i])
  BY <1>1 DEF IsCapture
<1>3. events \in Seq(Diffs) /\ m \in Nat
  BY <1>1, EventsType
<1>4. PICK seqs : seqs = [i \in DOMAIN records |->
                            IF i \in Frames(records) /\ Understood(records[i]) THEN <<EventOf(records[i])>> ELSE <<>>]
  OBVIOUS
<1>5. seqs \in Seq(Seq(Diffs)) /\ Len(seqs) = n /\ \A i \in 1..n : seqs[i] \in Seq(Diffs)
  <2>1. seqs \in [1..n -> Seq(Diffs)]
    BY <1>2, <1>4, EventTyped
  <2> QED
    BY <1>2, <2>1
<1>6. events = FlattenSeq(seqs)
  BY <1>1, <1>4 DEF LoadEvents
<1>7. PICK part : part = [i \in 0..n |-> FlattenSeq(SubSeq(seqs, 1, i))]
  OBVIOUS
<1>8. ASSUME NEW i \in 0..n
      PROVE  /\ part[i] \in Seq(Diffs) /\ Len(part[i]) <= m
             /\ \A j \in 1..Len(part[i]) : part[i][j] = events[j]
  <2>1. SubSeq(seqs, 1, i) \in Seq(Seq(Diffs))
    BY <1>2, <1>5
  <2>2. FlattenSeq(SubSeq(seqs, 1, i)) \in Seq(Diffs)
    BY <2>1, FlattenType
  <2>3. i \in 0..Len(seqs)
    BY <1>5
  <2>4. /\ Len(FlattenSeq(SubSeq(seqs, 1, i))) <= Len(FlattenSeq(seqs))
        /\ \A j \in 1..Len(FlattenSeq(SubSeq(seqs, 1, i))) :
               FlattenSeq(SubSeq(seqs, 1, i))[j] = FlattenSeq(seqs)[j]
    BY <1>5, <2>3, FlattenBegins
  <2> QED
    BY <1>1, <1>6, <1>7, <2>2, <2>4
<1>9. part[0] = <<>> /\ part[n] = events
  <2>1. SubSeq(seqs, 1, 0) = <<>> /\ SubSeq(seqs, 1, n) = seqs /\ 0 \in 0..n /\ n \in 0..n
    BY <1>2, <1>5
  <2> QED
    BY <1>6, <1>7, <2>1, FlattenEmpty
<1>10. ASSUME NEW i \in 1..n
       PROVE  part[i] = part[i - 1] \o seqs[i]
  <2>1. i \in 0..n /\ i - 1 \in 0..n
    BY <1>2
  <2>2. SubSeq(seqs, 1, i - 1) \in Seq(Seq(Diffs))
    BY <1>2, <1>5, <2>1
  <2>3. SubSeq(seqs, 1, i) = Append(SubSeq(seqs, 1, i - 1), seqs[i])
    <3>1. PICK R : R = Seq(Diffs)
      OBVIOUS
    <3>2. seqs \in Seq(R) /\ Len(seqs) = n
      BY <1>5, <3>1
    <3> QED
      BY <1>2, <3>2
  <2>4. FlattenSeq(Append(SubSeq(seqs, 1, i - 1), seqs[i])) = FlattenSeq(SubSeq(seqs, 1, i - 1)) \o seqs[i]
    BY <1>5, <2>2, FlattenAppend
  <2> QED
    BY <1>7, <2>1, <2>3, <2>4
<1>11. PICK h : Rebuilding(h, r, records) /\ RebuildAll(r, records) = h[n]
  BY <1>1, RebuildAllThere
<1>12. /\ \A k \in 0..m : f[k] \in Reconstructors /\ ~f[k].failed
       /\ \A k \in 1..m : f[k] = ApplyEvent(f[k - 1], events[k])
  <2>1. Folded(f, r, events) /\ ~f[m].failed /\ m \in 0..Len(events)
    BY <1>1, <1>3
  <2>2. /\ \A k \in 0..m : ~f[k].failed
        /\ \A k \in 1..m : f[k] = ApplyEvent(f[k - 1], events[k])
    BY <1>3, <2>1, FoldedCounts
  <2> QED
    BY <1>1, <1>3, <2>1, <2>2, FoldedType
<1> DEFINE T == {i \in 0..n : h[i] = f[Len(part[i])]}
<1>13. 0 \in T
  BY <1>1, <1>2, <1>9, <1>11 DEF Rebuilding, Folded
<1>14. ASSUME NEW i \in 1..n, i - 1 \in T
       PROVE  i \in T
  <2>1. i \in 0..n /\ i - 1 \in 0..n
    BY <1>2
  <2>2. PICK a, b, record : a = Len(part[i - 1]) /\ b = Len(part[i]) /\ record = records[i]
    OBVIOUS
  <2>3. a \in 0..m /\ b \in 0..m
    BY <1>3, <1>8, <2>1, <2>2
  <2>4. h[i - 1] = f[a] /\ ~f[a].failed
    BY <1>12, <1>14, <2>2, <2>3
  <2>5. h[i] = Rebuild(f[a], record)
    BY <1>1, <1>11, <2>2, <2>4 DEF Rebuilding, RebuildUnless
  <2>6. record.kind # "connection_gap" /\ (record.kind = "frame" <=> i \in Frames(records))
        /\ (record.kind = "frame" => Inband(record) = None)
    BY <1>1, <1>2, <2>2 DEF Frames
  <2>7. CASE i \in Frames(records) /\ Understood(record)
    <3>1. PICK e : e = EventOf(record)
      OBVIOUS
    <3>2. seqs[i] = <<e>> /\ part[i] = part[i - 1] \o <<e>>
      BY <1>2, <1>4, <1>10, <2>2, <2>7, <3>1
    <3>3. e \in Diffs
      BY <1>2, <2>2, <2>7, <3>1, EventTyped
    <3>4. b = a + 1 /\ part[i][b] = e
      BY <1>8, <2>1, <2>2, <3>2, <3>3
    <3>5. b \in 1..m /\ b - 1 = a /\ b \in 1..Len(part[i])
      BY <2>2, <2>3, <3>4
    <3>6. events[b] = e
      BY <1>8, <2>1, <3>4, <3>5
    <3>7. f[b] = ApplyEvent(f[a], e)
      BY <1>12, <3>5, <3>6
    <3>8. PICK y : y = f[b]
      OBVIOUS
    <3>9. [y EXCEPT !.failed = FALSE] = y
      <4>1. y \in Reconstructors /\ ~y.failed
        BY <1>12, <2>3, <3>8
      <4> QED
        BY <4>1 DEF Reconstructors
    <3>10. Rebuild(f[a], record) = [y EXCEPT !.failed = FALSE]
      BY <2>6, <2>7, <3>1, <3>7, <3>8 DEF Rebuild
    <3> QED
      BY <2>1, <2>2, <2>5, <3>8, <3>9, <3>10
  <2>8. CASE ~(i \in Frames(records) /\ Understood(record))
    <3>1. seqs[i] = <<>> /\ part[i] = part[i - 1] \o <<>>
      BY <1>2, <1>4, <1>10, <2>2, <2>8
    <3>2. part[i] = part[i - 1]
      BY <1>8, <2>1, <3>1
    <3>3. Rebuild(f[a], record) = f[a]
      BY <2>6, <2>8 DEF Rebuild
    <3> QED
      BY <2>1, <2>2, <2>5, <3>2, <3>3
  <2> QED
    BY <2>7, <2>8
<1> HIDE DEF T
<1>15. 0..n \subseteq T
  BY <1>2, <1>13, <1>14, InductionUpTo
<1>16. h[n] = f[Len(part[n])]
  <2>1. n \in T
    BY <1>2, <1>15
  <2> QED
    BY <2>1 DEF T
<1> QED
  BY <1>1, <1>9, <1>11, <1>16

LEMMA VerifyJudgesThen ==
    ASSUME AnswerInv
    PROVE  VerifyJudgesTheRebuilt
<1> SUFFICES ASSUME Did("compare"), Returned # None, call.file # None, Compared # <<>>,
                    \A i \in DOMAIN Events : Events[i].last <= Compared[Len(Compared)].last_update_id,
                    \A i \in DOMAIN call.input.records : call.input.records[i].kind # "connection_gap",
                    \A i \in Frames(call.input.records) : Inband(call.input.records[i]) = None
             PROVE  Returned.checks[Len(Compared)]
                    = Mismatches(Reconstruct(call.input, Bootstrap).book, Compared[Len(Compared)], call.limit)
  BY DEF VerifyJudgesTheRebuilt
<1>1. PICK report : report = CompareStreams(Events, Known, call.limit, Bootstrap)
  OBVIOUS
<1>2. /\ Events \in Seq(Diffs) /\ report # None /\ Returned.checks = report.checks
      /\ ~Undecodable(call.input.records) /\ FrameCount(call.input.records) = call.input.frames_written
      /\ call.input \in Inputs
  BY <1>1, ComparedStreams
<1>3. Starts
  BY DEF Starts
<1>4. /\ First \in Snapshots /\ Compared \in Seq(Snapshots) /\ ByIds(Compared)
      /\ report = CompareFrom(First, Events, Compared, call.limit)
  BY <1>1, <1>3, ComparedFrom
<1>5. PICK m, n, at, r :
          /\ m = Len(Events) /\ n = Len(Compared) /\ at = AtReferences(First, Events, Compared)
          /\ r = LoadSnapshot(Fresh, First)
  OBVIOUS
<1>6. m \in Nat /\ n \in Nat /\ n \in 1..n /\ n \in 0..n /\ DOMAIN Events = 1..m /\ DOMAIN Compared = 1..n
  BY <1>2, <1>4, <1>5
<1>7. r \in Reconstructors
  BY <1>4, <1>5, FreshType, LoadSnapshotFields
<1>8. PICK f : Folded(f, r, Events)
  BY <1>2, <1>7, ApplyAllThere
<1>9. Windows(at, f, Events, Compared)
  BY <1>2, <1>4, <1>5, <1>8, WindowsFollow, InputsAssumption
<1>10. at[n].index = m + 1 /\ at[n].r = f[m]
  <2>1. PICK k : k = at[n].index
    OBVIOUS
  <2>2. k \in 1..m + 1 /\ at[n].r = f[k - 1] /\ (k <= m => Events[k].last > Compared[n].last_update_id)
    BY <1>5, <1>6, <1>9, <2>1 DEF Windows
  <2>3. ~(k <= m)
    <3> SUFFICES ASSUME k <= m PROVE FALSE
      OBVIOUS
    <3>1. k \in 1..m
      BY <1>6, <2>2
    <3>2. PICK a, b : a = Events[k].last /\ b = Compared[n].last_update_id
      OBVIOUS
    <3>3. a \in Nat /\ b \in Nat
      <4>1. Events[k] \in Diffs /\ Compared[n] \in Snapshots
        BY <1>2, <1>4, <1>5, <1>6, <3>1
      <4> QED
        BY <3>2, <4>1 DEF Diffs, Snapshots, Ids
    <3>4. a > b /\ a <= b
      BY <1>5, <1>6, <2>2, <3>1, <3>2
    <3> QED
      BY <3>3, <3>4
  <2>4. k = m + 1 /\ k - 1 = m
    BY <1>6, <2>2, <2>3
  <2> QED
    BY <2>1, <2>2, <2>4
<1>11. ~f[m].failed /\ report.checks[n] = Mismatches(f[m].book, Compared[n], call.limit)
  <2>1. ~at[n].r.failed
    BY <1>2, <1>4, <1>5 DEF CompareFrom
  <2>2. report.checks = [i \in DOMAIN Compared |-> Mismatches(at[i].r.book, Compared[i], call.limit)]
    BY <1>2, <1>4, <1>5 DEF CompareFrom
  <2> QED
    BY <1>6, <1>10, <2>1, <2>2
<1>12. Bootstrap # None /\ First = Bootstrap
  BY BootstrapThere DEF First
<1>13. RebuildAll(r, call.input.records) = f[m]
  <2>1. IsCapture(call.input)
    BY <1>2, InputsAssumption
  <2>2. Folded(f, r, LoadEvents(call.input.records)) /\ m = Len(LoadEvents(call.input.records))
    BY <1>5, <1>8 DEF Events
  <2> QED
    BY <1>7, <1>11, <2>1, <2>2, RebuiltAsFolded
<1>14. Reconstruct(call.input, Bootstrap).book = f[m].book
  BY <1>2, <1>5, <1>11, <1>12, <1>13 DEF Reconstruct
<1> QED
  BY <1>2, <1>5, <1>11, <1>14

\* What verify judges is the book that reconstruct builds, for all captures.
THEOREM VerifyAlwaysJudgesTheRebuilt == Spec => []VerifyJudgesTheRebuilt
BY AnswersAreReturned, VerifyJudgesThen, PTL

-----------------------------------------------------------------------------
(* A snapshot that lists a book, and what is compared with it.             *)

\* Such a snapshot loads, as that book.
LEMMA ListedBookLoads ==
    ASSUME NEW levels \in Seq(Level), NEW book \in Book, Lists(levels, book), ~IsCrossed(book)
    PROVE  LoadOk(levels) /\ LoadedBook(levels) = book
<1>1. Accepted(levels, Storable)
  BY DEF Lists, Accepted
<1>2. Walked(levels, Storable) = DOMAIN levels
  <2>1. \A i \in DOMAIN levels : \A j \in 1..i : j \in DOMAIN levels
    OBVIOUS
  <2> QED
    BY <1>1, <2>1 DEF Walked, Accepted
<1>3. PICK loaded : loaded = Overlay(EmptyBook, levels, Storable)
  OBVIOUS
<1>4. ASSUME NEW s \in Sides, NEW p \in Prices
      PROVE  loaded[s][p] = book[s][p]
  <2>1. CASE Writes(levels, Storable, s, p) = {}
    <3>1. loaded[s][p] = Absent
      BY <1>3, <2>1 DEF Overlay, EmptyBook
    <3>2. ~ \E i \in DOMAIN levels : levels[i].side = s /\ levels[i].price = p
      BY <1>2, <2>1 DEF Writes
    <3>3. p \notin Quoted(book, s)
      BY <3>2 DEF Lists
    <3> QED
      BY <3>1, <3>3 DEF Quoted
  <2>2. CASE Writes(levels, Storable, s, p) # {}
    <3>1. PICK m : m = Max(Writes(levels, Storable, s, p))
      OBVIOUS
    <3>2. m \in DOMAIN levels /\ levels[m].side = s /\ levels[m].price = p
      BY <2>2, <3>1, LastWrite
    <3>3. loaded[s][p] = levels[m].quantity
      BY <1>3, <2>2, <3>1 DEF Overlay
    <3>4. levels[m].quantity = book[s][p]
      BY <3>2 DEF Lists
    <3> QED
      BY <3>3, <3>4
  <2> QED
    BY <2>1, <2>2
<1>5. loaded = book
  <2>1. loaded = [s \in Sides |-> [p \in Prices |-> loaded[s][p]]]
    BY <1>3 DEF Overlay
  <2>2. book = [s \in Sides |-> [p \in Prices |-> book[s][p]]]
    BY DEF Book
  <2> QED
    BY <1>4, <2>1, <2>2
<1> QED
  BY <1>1, <1>3, <1>5 DEF LoadOk, LoadedBook

\* The better price is a strict order of either side.
LEMMA BetterOrders ==
    ASSUME NEW s, NEW p \in Nat, NEW q \in Nat, NEW t \in Nat
    PROVE  /\ ~Better(s, p, p)
           /\ p # q => Better(s, p, q) \/ Better(s, q, p)
           /\ Better(s, p, q) /\ Better(s, q, t) => Better(s, p, t)
           /\ Better(s, p, q) => p # q
BY DEF Better

LEMMA MinOfTwo ==
    ASSUME NEW a \in Nat, NEW b \in Nat
    PROVE  Min({a, b}) \in 0..b
<1>1. \E x \in {a, b} : \A y \in {a, b} : x <= y
  OBVIOUS
<1>2. Min({a, b}) \in {a, b} /\ \A y \in {a, b} : Min({a, b}) <= y
  BY <1>1 DEF Min
<1>3. PICK c : c = Min({a, b})
  OBVIOUS
<1>4. c \in Nat /\ c <= b
  BY <1>2, <1>3
<1> QED
  BY <1>3, <1>4

\* What a side of it lists, best first, is what that side of the book quotes, best first.
LEMMA ListedInOrder ==
    ASSUME NEW levels \in Seq(Level), NEW book \in Book, Lists(levels, book), NEW s \in Sides
    PROVE  \E n \in Nat : \E prices \in [1..n -> Prices] :
               /\ Sorted([p \in Quoted(book, s) |-> {q \in Quoted(book, s) : Better(s, q, p)}]) = prices
               /\ Listed(levels, s) = [i \in 1..n |-> [side |-> s, price |-> prices[i],
                                                       quantity |-> book[s][prices[i]]]]
<1>1. PICK Q, side : Q = Quoted(book, s) /\ side = {i \in DOMAIN levels : levels[i].side = s}
  OBVIOUS
<1>2. PICK len : len = Len(levels)
  OBVIOUS
<1>3. len \in Nat /\ DOMAIN levels = 1..len /\ side \subseteq 1..len
  BY <1>1, <1>2
<1>4. \A i \in side : /\ levels[i] \in Level /\ levels[i].side = s /\ levels[i].price \in Prices
                      /\ levels[i].price \in Q /\ levels[i].quantity = book[s][levels[i].price]
  <2> SUFFICES ASSUME NEW i \in side
               PROVE  /\ levels[i] \in Level /\ levels[i].side = s /\ levels[i].price \in Prices
                      /\ levels[i].price \in Q /\ levels[i].quantity = book[s][levels[i].price]
    OBVIOUS
  <2>1. i \in DOMAIN levels /\ levels[i].side = s
    BY <1>1
  <2>2. levels[i] \in Storable /\ levels[i].quantity = book[s][levels[i].price]
    BY <2>1 DEF Lists
  <2>3. levels[i] \in Level /\ levels[i].price > 0 /\ levels[i].quantity > 0
    BY <2>2 DEF Storable
  <2>4. levels[i].price \in Prices
    BY <2>3 DEF Level
  <2>5. levels[i].price \in Q
    BY <1>1, <2>2, <2>3, <2>4 DEF Quoted, Absent
  <2> QED
    BY <2>1, <2>2, <2>3, <2>4, <2>5
<1>5. \A p \in Q : \E i \in side : levels[i].price = p
  BY <1>1 DEF Lists
<1>6. \A i, j \in side : levels[i].price = levels[j].price => i = j
  BY <1>1 DEF Lists
<1>7. Q \subseteq Prices /\ Q \subseteq Nat
  BY <1>1, BookAssumption DEF Quoted
<1>8. IsFiniteSet(side)
  <2>1. IsFiniteSet(1..len)
    BY <1>3, FS_Interval
  <2> QED
    BY <1>3, <2>1, FS_Subset
<1>9. PICK price : price = [i \in side |-> levels[i].price]
  OBVIOUS
<1>10. price \in [side -> Q] /\ \A i, j \in side : price[i] = price[j] => i = j
  BY <1>4, <1>6, <1>9
<1>11. \A p \in Q : \E i \in side : price[i] = p
  BY <1>5, <1>9
<1>12. IsFiniteSet(Q)
  <2>1. price \in Surjection(side, Q)
    BY <1>10, <1>11 DEF Surjection
  <2> QED
    BY <1>8, <2>1, FS_Surjection
<1>13. PICK cheaper : cheaper = [p \in Q |-> {q \in Q : Better(s, q, p)}]
  OBVIOUS
<1>14. PICK earlier : earlier = [i \in side |-> {j \in side : ListedBefore(s, levels, j, i)}]
  OBVIOUS
<1>15. PICK n, prices : n = Cardinality(Q) /\ prices = Sorted(cheaper)
  OBVIOUS
<1>16. PICK m, order : m = Cardinality(side) /\ order = Sorted(earlier)
  OBVIOUS
<1>17. /\ prices \in [1..n -> Q] /\ n \in Nat
       /\ \A x \in Q : \E i \in 1..n : prices[i] = x
       /\ \A i, j \in 1..n : i < j <=> Better(s, prices[i], prices[j])
  <2>1. cheaper \in [Q -> SUBSET Q] /\ \A p, q \in Q : q \in cheaper[p] <=> Better(s, q, p)
    BY <1>13
  <2>2. \A x \in Q : x \notin cheaper[x]
    BY <1>7, <2>1, BetterOrders
  <2>3. \A x, y \in Q : x # y => x \in cheaper[y] \/ y \in cheaper[x]
    BY <1>7, <2>1, BetterOrders
  <2>4. \A x, y \in Q : x \in cheaper[y] => cheaper[x] \subseteq cheaper[y]
    BY <1>7, <2>1, BetterOrders
  <2>5. /\ prices \in [1..n -> Q] /\ n \in Nat
        /\ \A x \in Q : \E i \in 1..n : prices[i] = x
        /\ \A i, j \in 1..n : i < j <=> prices[i] \in cheaper[prices[j]]
    BY <1>12, <1>15, <2>1, <2>2, <2>3, <2>4, SortedInOrder
  <2> QED
    BY <2>1, <2>5
<1>18. /\ order \in [1..m -> side] /\ m \in Nat
       /\ \A x \in side : \E i \in 1..m : order[i] = x
       /\ \A i, j \in 1..m : i < j <=> Better(s, price[order[i]], price[order[j]])
  <2>1. earlier \in [side -> SUBSET side]
    BY <1>14
  <2>2. \A i, j \in side : j \in earlier[i] <=> Better(s, price[j], price[i])
    <3> SUFFICES ASSUME NEW i \in side, NEW j \in side
                 PROVE  j \in earlier[i] <=> Better(s, price[j], price[i])
      OBVIOUS
    <3>1. j \in earlier[i] <=> \/ Better(s, price[j], price[i])
                               \/ price[j] = price[i] /\ j < i
      BY <1>9, <1>14 DEF ListedBefore
    <3>2. price[j] = price[i] => ~(j < i)
      BY <1>3, <1>10
    <3> QED
      BY <3>1, <3>2
  <2>3. \A i \in side : price[i] \in Nat
    BY <1>7, <1>10
  <2>4. \A x \in side : x \notin earlier[x]
    BY <2>2, <2>3, BetterOrders
  <2>5. \A x, y \in side : x # y => x \in earlier[y] \/ y \in earlier[x]
    BY <1>10, <2>2, <2>3, BetterOrders
  <2>6. \A x, y \in side : x \in earlier[y] => earlier[x] \subseteq earlier[y]
    BY <2>1, <2>2, <2>3, BetterOrders
  <2>7. /\ order \in [1..m -> side] /\ m \in Nat
        /\ \A x \in side : \E i \in 1..m : order[i] = x
        /\ \A i, j \in 1..m : i < j <=> order[i] \in earlier[order[j]]
    BY <1>8, <1>16, <2>1, <2>4, <2>5, <2>6, SortedInOrder
  <2> QED
    BY <2>2, <2>7
<1>19. PICK at : at = [i \in 1..m |-> CHOOSE j \in 1..n : prices[j] = price[order[i]]]
  OBVIOUS
<1>20. \A i \in 1..m : at[i] \in 1..n /\ prices[at[i]] = price[order[i]]
  <2> SUFFICES ASSUME NEW i \in 1..m PROVE at[i] \in 1..n /\ prices[at[i]] = price[order[i]]
    OBVIOUS
  <2>1. price[order[i]] \in Q
    BY <1>10, <1>18
  <2>2. \E j \in 1..n : prices[j] = price[order[i]]
    BY <1>17, <2>1
  <2> QED
    BY <1>19, <2>2
<1>21. CountsUp(at, m, n)
  <2>1. at \in [1..m -> 1..n]
    BY <1>19, <1>20
  <2>2. \A i, j \in 1..m : i < j => at[i] < at[j]
    BY <1>17, <1>18, <1>20
  <2>3. ASSUME NEW x \in 1..n
        PROVE  \E i \in 1..m : at[i] = x
    <3>1. prices[x] \in Q
      BY <1>17
    <3>2. PICK y \in side : price[y] = prices[x]
      BY <1>11, <3>1
    <3>3. PICK i \in 1..m : order[i] = y
      BY <1>18, <3>2
    <3>4. prices[at[i]] = prices[x] /\ at[i] \in 1..n
      BY <1>20, <3>2, <3>3
    <3>5. ~Better(s, prices[x], prices[x])
      BY <1>7, <3>1, BetterOrders
    <3>6. ~(at[i] < x) /\ ~(x < at[i])
      BY <1>17, <3>4, <3>5
    <3>7. at[i] = x
      BY <1>17, <3>4, <3>6
    <3> QED
      BY <3>7
  <2> QED
    BY <2>1, <2>2, <2>3 DEF CountsUp
<1>22. m = n /\ \A i \in 1..n : prices[i] = price[order[i]]
  <2>1. m = n /\ \A i \in 1..m : at[i] = i
    BY <1>17, <1>18, <1>21, OntoInOrderIsIdentity
  <2> QED
    BY <1>20, <2>1
<1>23. \A i \in 1..n : levels[order[i]] = [side |-> s, price |-> prices[i], quantity |-> book[s][prices[i]]]
  <2> SUFFICES ASSUME NEW i \in 1..n
               PROVE  levels[order[i]] = [side |-> s, price |-> prices[i], quantity |-> book[s][prices[i]]]
    OBVIOUS
  <2>1. PICK x, l : x = order[i] /\ l = levels[x]
    OBVIOUS
  <2>2. x \in side
    BY <1>18, <1>22, <2>1
  <2>3. l \in Level /\ l.side = s /\ l.quantity = book[s][l.price] /\ l.price = prices[i]
    BY <1>4, <1>9, <1>22, <2>1, <2>2
  <2>4. l = [side |-> l.side, price |-> l.price, quantity |-> l.quantity]
    BY <2>3 DEF Level
  <2> QED
    BY <2>1, <2>3, <2>4
<1>24. Listed(levels, s) = [i \in 1..n |-> [side |-> s, price |-> prices[i], quantity |-> book[s][prices[i]]]]
  <2>1. Listed(levels, s) = [i \in DOMAIN order |-> levels[order[i]]]
    BY <1>1, <1>14, <1>16 DEF Listed
  <2>2. DOMAIN order = 1..n
    BY <1>18, <1>22
  <2> QED
    BY <1>23, <2>1, <2>2
<1>25. prices \in [1..n -> Prices]
  BY <1>7, <1>17
<1>26. Sorted([p \in Quoted(book, s) |-> {q \in Quoted(book, s) : Better(s, q, p)}]) = prices
  BY <1>1, <1>13, <1>15
<1>27. n \in Nat /\ prices \in [1..n -> Prices]
  BY <1>17, <1>25
<1> QED
  BY <1>24, <1>26, <1>27

\* So nothing is found that differs.
LEMMA ListedBookMatches ==
    ASSUME NEW book \in Book, NEW reference \in Snapshots, Lists(reference.levels, book), NEW limit \in Nat
    PROVE  Mismatches(book, reference, limit) = {}
<1>1. reference.levels \in Seq(Level)
  BY DEF Snapshots
<1>2. ASSUME NEW s \in Sides
      PROVE  Levels(book, s, limit) = Expected(reference, s, limit)
  <2>1. PICK n \in Nat : \E prices \in [1..n -> Prices] :
            /\ Sorted([p \in Quoted(book, s) |-> {q \in Quoted(book, s) : Better(s, q, p)}]) = prices
            /\ Listed(reference.levels, s)
               = [i \in 1..n |-> [side |-> s, price |-> prices[i], quantity |-> book[s][prices[i]]]]
    BY <1>1, <1>2, ListedInOrder
  <2>2. PICK prices \in [1..n -> Prices] :
            /\ Sorted([p \in Quoted(book, s) |-> {q \in Quoted(book, s) : Better(s, q, p)}]) = prices
            /\ Listed(reference.levels, s)
               = [i \in 1..n |-> [side |-> s, price |-> prices[i], quantity |-> book[s][prices[i]]]]
    BY <2>1
  <2>3. PICK listed, k : listed = Listed(reference.levels, s) /\ k = Min({limit, n})
    OBVIOUS
  <2>4. k \in 0..n
    BY <2>3, MinOfTwo
  <2>5. Len(prices) = n
    OBVIOUS
  <2>6. PICK R : R = {[side |-> s, price |-> prices[i], quantity |-> book[s][prices[i]]] : i \in 1..n}
    OBVIOUS
  <2>7. listed \in [1..n -> R] /\ Len(listed) = n /\ listed \in Seq(R)
    <3>1. listed \in [1..n -> R]
      BY <2>2, <2>3, <2>6
    <3> QED
      BY <3>1
  <2>8. Levels(book, s, limit) = [i \in 1..k |-> [side |-> s, price |-> prices[i], quantity |-> book[s][prices[i]]]]
    BY <2>2, <2>3, <2>5 DEF Levels
  <2>9. Expected(reference, s, limit) = SubSeq(listed, 1, k)
    BY <2>3, <2>7 DEF Expected, Truncated
  <2>10. SubSeq(listed, 1, k) = [i \in 1..k |-> listed[i]]
    BY <2>4, <2>7
  <2>11. \A i \in 1..k : listed[i] = [side |-> s, price |-> prices[i], quantity |-> book[s][prices[i]]]
    BY <2>2, <2>3, <2>4
  <2> QED
    BY <2>8, <2>9, <2>10, <2>11
<1> QED
  BY <1>2 DEF Mismatches

-----------------------------------------------------------------------------
(* A capture that leaves nothing out.                                      *)

\* It has the venue's book at update l, and skips what a snapshot at start holds.
Exact(x, start, l) ==
    /\ ~x.broken /\ x.snapshotId = start /\ x.lastUpdateId = l
    /\ x.book = Truth[l]

\* A faithful event that follows on leaves the book of its end; one the snapshot covers, the same.
LEMMA ExactStep ==
    ASSUME NEW x \in Reconstructors, NEW e \in Diffs, Faithful(Truth, e), ~ApplyEvent(x, e).failed,
           NEW start \in Ids, NEW l \in Ids, Exact(x, start, l)
    PROVE  /\ e.last <= start => Exact(ApplyEvent(x, e), start, l)
           /\ start < e.last /\ e.first <= l + 1 /\ l <= e.last => Exact(ApplyEvent(x, e), start, e.last)
<1>1. PICK y, o, a, b, d : /\ y = ApplyEvent(x, e) /\ o = OutcomeOf(x, e)
                           /\ a = e.first /\ b = e.last /\ d = e.diff
  OBVIOUS
<1>2. MaxId \in Nat /\ None \notin Ids /\ Truth \in [Ids -> Book]
  BY InputsAssumption, VenueAssumption
<1>3. a \in Ids /\ b \in Ids /\ d \in Seq(Level)
  BY <1>1 DEF Diffs
<1>4. start \in Nat /\ l \in Nat /\ a \in Nat /\ b \in Nat /\ start # None /\ l # None
  BY <1>2, <1>3 DEF Ids
<1>5. /\ y.broken <=> x.broken \/ o = "gap"
      /\ y.failed <=> o = "invalid"
      /\ y.snapshotId = x.snapshotId
      /\ o = "applied" => ApplyOk(d) /\ y.book = AppliedBook(x.book, d) /\ y.lastUpdateId = b
      /\ o \notin {"applied", "invalid"} => y.book = x.book /\ y.lastUpdateId = x.lastUpdateId
  BY <1>1, ApplyEventFields
<1>6. ASSUME b <= start
      PROVE  Exact(y, start, l)
  <2>1. o = "skipped"
    BY <1>1, <1>4, <1>6 DEF OutcomeOf, Exact
  <2> QED
    BY <1>5, <2>1 DEF Exact
<1>7. ASSUME start < b, a <= l + 1, l <= b
      PROVE  Exact(y, start, b)
  <2>1. ~(b <= start) /\ ~(a > l + 1)
    BY <1>4, <1>7
  <2>2. o \in {"applied", "invalid"}
    BY <1>1, <2>1 DEF OutcomeOf, Exact
  <2>3. o = "applied"
    BY <1>1, <1>5, <2>2
  <2>4. AppliedBook(Truth[l], d) = Truth[b]
    <3>1. Truth[l] \in Book /\ Truth[b] \in Book
      BY <1>2, <1>3
    <3> QED
      BY <1>1, <1>3, <1>4, <1>5, <1>7, <2>3, <3>1, FaithfulStep
  <2> QED
    BY <1>5, <2>3, <2>4 DEF Exact
<1> QED
  BY <1>1, <1>6, <1>7

\* l is the highest of start and the ids of the first i events.
Highest(l, start, events, i) ==
    /\ l \in Ids /\ start <= l
    /\ l = start \/ \E j \in 1..i : l = events[j].last
    /\ \A j \in 1..i : events[j].last <= l

\* Over events that leave none out, the book is the one of the highest id so far.
LEMMA StaysExact ==
    ASSUME NEW events \in Seq(Diffs), \A i \in DOMAIN events : Faithful(Truth, events[i]),
           NEW start \in Ids, NEW r \in Reconstructors, Exact(r, start, start),
           NEW f, Folded(f, r, events), NEW k \in 0..Len(events), ~f[k].failed,
           NEW id \in Ids, \A i \in 1..k : events[i].last <= id,
           InOrder(events), Follows(events, start, id)
    PROVE  \E l : Highest(l, start, events, k) /\ f[k].book = Truth[l]
<1>1. PICK m : m = Len(events)
  OBVIOUS
<1>2. m \in Nat /\ DOMAIN events = 1..m /\ k \in 0..m /\ \A i \in 1..m : events[i] \in Diffs
  BY <1>1
<1>3. \A i \in 1..m : events[i].first \in Nat /\ events[i].last \in Nat /\ events[i].last \in Ids
  BY <1>2, InputsAssumption DEF Diffs, Ids
<1>4. start \in Nat /\ id \in Nat
  BY InputsAssumption DEF Ids
<1>5. /\ \A i \in 0..k : ~f[i].failed
      /\ \A i \in 1..k : f[i] = ApplyEvent(f[i - 1], events[i])
  BY FoldedCounts
<1>6. \A i \in 0..m : f[i] \in Reconstructors
  BY <1>1, FoldedType
<1> DEFINE T == {i \in 0..k : \E l : Highest(l, start, events, i) /\ Exact(f[i], start, l)}
<1>7. 0 \in T
  <2>1. Highest(start, start, events, 0)
    BY <1>4 DEF Highest
  <2>2. f[0] = r
    BY DEF Folded
  <2> QED
    BY <1>2, <2>1, <2>2
<1>8. ASSUME NEW i \in 1..k, i - 1 \in T
      PROVE  i \in T
  <2>1. PICK l : Highest(l, start, events, i - 1) /\ Exact(f[i - 1], start, l)
    BY <1>8
  <2>2. i \in 1..m /\ i \in 0..m /\ i - 1 \in 0..m /\ i \in 0..k /\ i \in 1..i
        /\ (\A j \in 1..i - 1 : j \in 1..m /\ j < i /\ j \in 1..i)
        /\ (\A j \in 1..i : j = i \/ j \in 1..i - 1)
    BY <1>2
  <2>3. PICK x, e, a, b : x = f[i - 1] /\ e = events[i] /\ a = e.first /\ b = e.last
    OBVIOUS
  <2>4. x \in Reconstructors /\ e \in Diffs /\ f[i] = ApplyEvent(x, e) /\ ~ApplyEvent(x, e).failed
        /\ Faithful(Truth, e) /\ Exact(x, start, l)
    BY <1>2, <1>5, <1>6, <2>1, <2>2, <2>3
  <2>5. a \in Nat /\ b \in Nat /\ b \in Ids /\ b <= id
    BY <1>3, <2>2, <2>3
  <2>6. l \in Ids /\ l \in Nat /\ start <= l /\ \A j \in 1..i - 1 : events[j].last <= l
    BY <2>1, InputsAssumption DEF Highest, Ids
  <2>7. CASE b <= start
    <3>1. Exact(f[i], start, l)
      BY <2>3, <2>4, <2>6, <2>7, ExactStep
    <3>2. b <= l
      BY <1>4, <2>5, <2>6, <2>7
    <3>3. Highest(l, start, events, i)
      <4>1. \A j \in 1..i : events[j].last <= l
        BY <2>2, <2>3, <2>6, <3>2
      <4>2. l = start \/ \E j \in 1..i : l = events[j].last
        BY <2>1, <2>2 DEF Highest
      <4> QED
        BY <2>6, <4>1, <4>2 DEF Highest
    <3> QED
      BY <2>2, <3>1, <3>3
  <2>8. CASE start < b
    <3>1. a <= l + 1
      <4>1. PICK before \in {start} \cup {events[j].last : j \in 1..i - 1} : a <= before + 1
        BY <1>2, <2>2, <2>3, <2>5, <2>8 DEF Follows
      <4>2. before \in Nat /\ before <= l
        BY <1>3, <1>4, <2>2, <2>6, <4>1
      <4> QED
        BY <2>5, <2>6, <4>1, <4>2
    <3>2. a <= b
      BY <2>3, <2>4 DEF Faithful
    <3>3. l <= b
      <4>1. CASE l = start
        BY <1>4, <2>5, <2>8, <4>1
      <4>2. CASE l # start
        <5>1. PICK j \in 1..i - 1 : l = events[j].last
          BY <2>1, <4>2 DEF Highest
        <5>2. l < a
          BY <1>2, <2>2, <2>3, <5>1 DEF InOrder
        <5> QED
          BY <2>5, <2>6, <3>2, <5>2
      <4> QED
        BY <4>1, <4>2
    <3>4. Exact(f[i], start, b)
      BY <2>3, <2>4, <2>6, <2>8, <3>1, <3>3, ExactStep
    <3>5. Highest(b, start, events, i)
      <4>1. ASSUME NEW j \in 1..i
            PROVE  events[j].last <= b
        <5>1. CASE j = i
          BY <2>3, <2>5, <5>1
        <5>2. CASE j \in 1..i - 1
          <6>1. events[j].last \in Nat /\ events[j].last <= l
            BY <1>3, <2>2, <2>6, <5>2
          <6> QED
            BY <2>5, <2>6, <3>3, <6>1
        <5> QED
          BY <2>2, <5>1, <5>2
      <4>2. start <= b
        BY <1>4, <2>5, <2>8
      <4> QED
        BY <2>2, <2>3, <2>5, <4>1, <4>2 DEF Highest
    <3> QED
      BY <2>2, <3>4, <3>5
  <2> QED
    BY <1>4, <2>5, <2>7, <2>8
<1> HIDE DEF T
<1>9. 0..k \subseteq T
  <2>1. k \in Nat
    BY <1>2
  <2> QED
    BY <1>7, <1>8, <2>1, InductionUpTo
<1>10. k \in T
  BY <1>2, <1>9
<1> QED
  BY <1>10 DEF T, Exact

\* What is compared are the venue's books.
LEMMA SnapshotsList ==
    ASSUME AnswerInv, Did("compare"), Returned # None, Starts
    PROVE  /\ Lists(First.levels, Truth[First.last_update_id])
           /\ \A c \in DOMAIN Compared : Lists(Compared[c].levels, Truth[Compared[c].last_update_id])
<1>1. IsCapture(call.reference) /\ call.reference \in References /\ MaxId \in Nat
  BY ComparedStreams, InputsAssumption
<1>2. \A i \in DOMAIN Known : Lists(Known[i].levels, Truth[Known[i].last_update_id])
  <2>1. \A i \in DOMAIN Known : \E j \in DOMAIN Decoded(call.reference.records) :
            Known[i] = Decoded(call.reference.records)[j]
    BY <1>1, ReferencesInOrder DEF Known
  <2>2. \A j \in DOMAIN Decoded(call.reference.records) :
            Lists(Decoded(call.reference.records)[j].levels,
                  Truth[Decoded(call.reference.records)[j].last_update_id])
    BY <1>1, VenueAssumption
  <2> QED
    BY <2>1, <2>2
<1>3. Known \in Seq(Snapshots)
  BY ComparedStreams
<1>4. CASE call.file # None
  <2>1. First = Bootstrap /\ Compared = Known
    BY <1>4 DEF First, Compared
  <2>2. PICK s : s = FileSnapshot(call.file)
    OBVIOUS
  <2>3. call.file \in Files /\ s # None
        /\ Bootstrap = [last_update_id |-> s.last_update_id, levels |-> s.bids \o s.asks]
    BY <1>4, <2>2, BootstrapThere
  <2>4. Lists(s.bids \o s.asks, Truth[s.last_update_id])
    BY <1>4, <2>2, <2>3, VenueAssumption
  <2>5. First.levels = s.bids \o s.asks /\ First.last_update_id = s.last_update_id
    BY <2>1, <2>3
  <2> QED
    BY <1>2, <2>1, <2>4, <2>5
<1>5. CASE call.file = None
  <2>1. Known # <<>> /\ First = Known[1] /\ Compared = Tail(Known)
    BY <1>5 DEF Starts, First, Compared
  <2>2. 1 \in DOMAIN Known /\ \A c \in DOMAIN Tail(Known) : c + 1 \in DOMAIN Known /\ Tail(Known)[c] = Known[c + 1]
    BY <1>3, <2>1
  <2> QED
    BY <1>2, <2>1, <2>2
<1> QED
  BY <1>4, <1>5

LEMMA CompleteStreamsMatchThen ==
    ASSUME AnswerInv
    PROVE  CompleteStreamsMatch
<1> SUFFICES ASSUME Did("compare"), Returned # None, Starts, NEW c \in DOMAIN Compared,
                    Compared[c].last_update_id >= Start, InOrder(Events),
                    Follows(Events, Start, Compared[c].last_update_id),
                    \/ Compared[c].last_update_id = Start
                    \/ \E i \in DOMAIN Events : Events[i].last = Compared[c].last_update_id
             PROVE  Returned.checks[c] = {}
  BY DEF CompleteStreamsMatch
<1>1. PICK report : report = CompareStreams(Events, Known, call.limit, Bootstrap)
  OBVIOUS
<1>2. /\ Events \in Seq(Diffs) /\ report # None /\ Returned.checks = report.checks
      /\ call.input \in Inputs /\ call.limit \in Nat
  BY <1>1, ComparedStreams
<1>3. /\ First \in Snapshots /\ First.last_update_id = Start
      /\ Compared \in Seq(Snapshots) /\ ByIds(Compared)
      /\ report = CompareFrom(First, Events, Compared, call.limit)
  BY <1>1, ComparedFrom
<1>4. PICK m, n, at, r, id, start :
          /\ m = Len(Events) /\ n = Len(Compared) /\ at = AtReferences(First, Events, Compared)
          /\ r = LoadSnapshot(Fresh, First) /\ id = Compared[c].last_update_id /\ start = Start
  OBVIOUS
<1>5. m \in Nat /\ n \in Nat /\ c \in 1..n /\ c \in 0..n /\ n \in 0..n /\ DOMAIN Events = 1..m /\ DOMAIN Compared = 1..n
  BY <1>2, <1>3, <1>4
<1>6. start \in Ids /\ id \in Ids /\ start \in Nat /\ id \in Nat /\ start <= id
  <2>1. Compared[c] \in Snapshots
    BY <1>3, <1>4, <1>5
  <2>2. start \in Ids /\ id \in Ids
    BY <1>3, <1>4, <2>1 DEF Snapshots
  <2>3. start \in Nat /\ id \in Nat
    BY <2>2, InputsAssumption DEF Ids
  <2> QED
    BY <1>4, <2>2, <2>3
<1>7. r \in Reconstructors /\ Exact(r, start, start)
  <2>1. First.levels \in Seq(Level)
    BY <1>3 DEF Snapshots
  <2>2. Lists(First.levels, Truth[start]) /\ Truth[start] \in Book /\ ~IsCrossed(Truth[start])
    <3>1. Lists(First.levels, Truth[First.last_update_id])
      BY SnapshotsList
    <3>2. start = First.last_update_id
      BY <1>3, <1>4
    <3>3. Truth[start] \in Book /\ ~IsCrossed(Truth[start])
      <4>1. Truth \in [Ids -> Book] /\ \A i \in Ids : ~IsCrossed(Truth[i])
        BY VenueAssumption
      <4> QED
        BY <1>6, <4>1
    <3> QED
      BY <3>1, <3>2, <3>3
  <2>3. LoadOk(First.levels) /\ LoadedBook(First.levels) = Truth[start]
    BY <2>1, <2>2, ListedBookLoads
  <2> QED
    BY <1>3, <1>4, <2>3, FreshType, LoadSnapshotFields DEF Exact
<1>8. PICK f : Folded(f, r, Events)
  BY <1>2, <1>7, ApplyAllThere
<1>9. Windows(at, f, Events, Compared)
  BY <1>2, <1>3, <1>4, <1>8, WindowsFollow, InputsAssumption
<1>10. PICK k, z : k = at[c].index - 1 /\ z = at[n].index - 1
  OBVIOUS
<1>11. k \in 0..m /\ z \in 0..m /\ at[c].r = f[k] /\ at[n].r = f[z] /\ at[c].index = k + 1 /\ at[n].index = z + 1
  <2>1. /\ at[c].index \in 1..m + 1 /\ at[c].r = f[at[c].index - 1]
        /\ at[n].index \in 1..m + 1 /\ at[n].r = f[at[n].index - 1]
    BY <1>4, <1>5, <1>9 DEF Windows
  <2> QED
    BY <1>5, <1>10, <2>1
<1>12. /\ \A i \in 1..k : Events[i].last <= id
       /\ k + 1 <= m => Events[k + 1].last > id
  <2>1. \A i \in 1..at[c].index - 1 : Events[i].last <= id
    BY <1>2, <1>3, <1>4, <1>5, <1>9, WindowsReach, InputsAssumption
  <2>2. at[c].index <= m => Events[at[c].index].last > id
    BY <1>4, <1>5, <1>9 DEF Windows
  <2> QED
    BY <1>10, <1>11, <2>1, <2>2
<1>13. report.checks[c] = Mismatches(f[k].book, Compared[c], call.limit) /\ ~f[z].failed
  BY <1>2, <1>3, <1>4, <1>5, <1>11 DEF CompareFrom
<1>14. ~f[k].failed
  <2>1. k <= z
    <3> DEFINE T == {d \in 0..n : c <= d => at[c].index <= at[d].index}
    <3>1. 0 \in T
      BY <1>5
    <3>2. ASSUME NEW d \in 1..n, d - 1 \in T
          PROVE  d \in T
      <4>1. d \in 0..n /\ d - 1 \in 0..n
        BY <1>5
      <4>2. at[d - 1].index <= at[d].index /\ at[d - 1].index \in 1..m + 1 /\ at[d].index \in 1..m + 1
        BY <1>4, <1>9, <4>1 DEF Windows
      <4>3. at[c].index \in 1..m + 1
        BY <1>5, <1>11
      <4>4. c <= d => c = d \/ c <= d - 1
        BY <1>5
      <4>5. c <= d - 1 => at[c].index <= at[d - 1].index
        BY <3>2
      <4>6. c <= d => at[c].index <= at[d].index
        BY <4>2, <4>3, <4>4, <4>5
      <4> QED
        BY <4>1, <4>6
    <3> HIDE DEF T
    <3>3. 0..n \subseteq T
      BY <1>5, <3>1, <3>2, InductionUpTo
    <3>4. at[c].index <= at[n].index
      <4>1. n \in T /\ c <= n
        BY <1>5, <3>3
      <4> QED
        BY <4>1 DEF T
    <3> QED
      BY <1>5, <1>11, <3>4
  <2>2. z \in 0..Len(Events) /\ k \in 0..z
    BY <1>4, <1>5, <1>11, <2>1
  <2> QED
    BY <1>2, <1>7, <1>8, <1>13, <2>2, FoldedCounts
<1>15. PICK l : Highest(l, start, Events, k) /\ f[k].book = Truth[l]
  <2> DEFINE events == Events
  <2>1. \A i \in DOMAIN Events : Faithful(Truth, Events[i])
    BY <1>2, VenueAssumption DEF Events
  <2>2. InOrder(Events) /\ Follows(Events, start, id) /\ k \in 0..Len(Events)
    BY <1>4, <1>11
  <2>3. events \in Seq(Diffs) /\ \A i \in DOMAIN events : Faithful(Truth, events[i])
    BY <1>2, <2>1
  <2>4. /\ Folded(f, r, events) /\ \A i \in 1..k : events[i].last <= id
        /\ InOrder(events) /\ Follows(events, start, id) /\ k \in 0..Len(events)
    BY <1>8, <1>12, <2>2
  <2> HIDE DEF events
  <2>5. \E l : Highest(l, start, events, k) /\ f[k].book = Truth[l]
    BY <1>6, <1>7, <1>14, <2>3, <2>4, StaysExact
  <2> QED
    BY <2>5 DEF events
<1>16. l = id
  <2>1. l \in Nat /\ start <= l
    BY <1>15, InputsAssumption DEF Highest, Ids
  <2>2. l <= id
    <3>1. l = start \/ \E j \in 1..k : l = Events[j].last
      BY <1>15 DEF Highest
    <3> QED
      BY <1>6, <1>12, <3>1
  <2>3. CASE id = start
    BY <1>6, <2>1, <2>2, <2>3
  <2>4. CASE id # start
    <3>1. PICK i \in 1..m : Events[i].last = id
      BY <1>4, <1>5, <2>4
    <3>2. i <= k
      <4> SUFFICES ASSUME i > k PROVE FALSE
        BY <1>5, <1>11
      <4>1. k + 1 \in 1..m /\ k + 1 <= m /\ (i = k + 1 \/ k + 1 < i)
        BY <1>5, <1>11
      <4>2. Events[k + 1].last > id
        BY <1>12, <4>1
      <4>3. CASE i = k + 1
        BY <1>6, <3>1, <4>2, <4>3
      <4>4. CASE k + 1 < i
        <5>1. Events[k + 1].last < Events[i].first
          BY <1>5, <4>1, <4>4 DEF InOrder
        <5>2. Faithful(Truth, Events[i]) /\ Events[i] \in Diffs /\ Events[k + 1] \in Diffs
          <6>1. Events[i] \in Diffs /\ Events[k + 1] \in Diffs
            BY <1>2, <1>4, <1>5, <4>1
          <6>2. \A j \in DOMAIN Events : Faithful(Truth, Events[j])
            BY <1>2, VenueAssumption DEF Events
          <6> QED
            BY <1>5, <6>1, <6>2
        <5>3. PICK a, b, d : a = Events[k + 1].last /\ b = Events[i].first /\ d = Events[i].last
          OBVIOUS
        <5>4. a \in Nat /\ b \in Nat /\ d \in Nat
          BY <5>2, <5>3, InputsAssumption DEF Diffs, Ids
        <5>5. b <= d
          BY <5>2, <5>3 DEF Faithful
        <5>6. a > id /\ a < b /\ d = id
          BY <3>1, <4>2, <5>1, <5>3
        <5> QED
          BY <1>6, <5>4, <5>5, <5>6
      <4> QED
        BY <4>1, <4>3, <4>4
    <3>3. i \in 1..k
      BY <1>5, <1>11, <3>2
    <3>4. id <= l
      BY <1>15, <3>1, <3>3 DEF Highest
    <3> QED
      BY <1>6, <2>1, <2>2, <3>4
  <2> QED
    BY <2>3, <2>4
<1>17. Mismatches(Truth[id], Compared[c], call.limit) = {}
  <2>1. Compared[c] \in Snapshots
    BY <1>3, <1>4, <1>5
  <2>2. Lists(Compared[c].levels, Truth[id]) /\ Truth[id] \in Book
    BY <1>4, <1>6, SnapshotsList, VenueAssumption
  <2> QED
    BY <1>2, <2>1, <2>2, ListedBookMatches
<1> QED
  BY <1>2, <1>13, <1>15, <1>16, <1>17

\* A capture without holes matches, however many references and events it is compared by.
THEOREM CompleteStreamsAlwaysMatch == Spec => []CompleteStreamsMatch
BY AnswersAreReturned, CompleteStreamsMatchThen, PTL
================================================================================
