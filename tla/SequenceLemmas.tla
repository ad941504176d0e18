---------------------------- MODULE SequenceLemmas ----------------------------
(***************************************************************************)
(* Induction over the naturals, stated of sets so that it can be cited for *)
(* any set, and what it gives for FlattenSeq: the sequences of a sequence  *)
(* end to end, one more at a time.                                         *)
(***************************************************************************)
EXTENDS Integers, SequencesExt, Sorting, WellFoundedInduction, FiniteSetTheorems, TLAPS

\* A non-empty set of naturals has a least element.
LEMMA LeastNatural ==
    ASSUME NEW S \in SUBSET Nat, S # {}
    PROVE  \E x \in S : \A y \in S : x <= y
<1> DEFINE R == OpToRel(<, Nat)
<1>1. IsWellFoundedOn(R, Nat)
  BY NatLessThanWellFounded
<1> HIDE DEF R
<1>2. PICK x \in S : \A y \in S : ~(<<y, x>> \in R)
  BY <1>1, WFMin
<1>3. \A y \in S : ~(y < x)
  BY <1>2 DEF R, OpToRel
<1> QED
  BY <1>2, <1>3

\* A set that has zero, and with a natural the next, has them all.
LEMMA SetInduction ==
    ASSUME NEW S, 0 \in S, \A n \in Nat : n \in S => n + 1 \in S
    PROVE  Nat \subseteq S
<1> SUFFICES ASSUME Nat \ S # {}
    PROVE  FALSE
  OBVIOUS
<1>1. PICK x \in Nat \ S : \A y \in Nat \ S : x <= y
  BY LeastNatural
<1>2. x # 0 /\ x - 1 \in Nat /\ x = (x - 1) + 1
  BY <1>1
<1>3. x - 1 \in S
  BY <1>1, <1>2
<1> QED
  BY <1>1, <1>2, <1>3

\* A non-empty set of naturals bounded by n has a greatest element, and Max is it.
LEMMA GreatestIndex ==
    ASSUME NEW n \in Nat, NEW S \in SUBSET (1..n), S # {}
    PROVE  Max(S) \in S
<1> DEFINE M == {n - x : x \in S}
<1>1. \A x \in S : n - x \in Nat
  OBVIOUS
<1>2. M \in SUBSET Nat
  BY <1>1
<1>3. M # {}
  OBVIOUS
<1>4. PICK m \in M : \A y \in M : m <= y
  BY <1>2, <1>3, LeastNatural
<1>5. PICK x \in S : m = n - x
  BY <1>4
<1>6. \A y \in S : n - x <= n - y
  BY <1>4, <1>5
<1>7. \A y \in S : x >= y
  BY <1>5, <1>6
<1> QED
  BY <1>5, <1>7 DEF Max

-----------------------------------------------------------------------------
\* A function defined by recursion over the first naturals is there: g[i] is what is
\* left of a after the first i of the steps.
Steps(step, S, n) == step \in [1..n -> [S -> S]]
Repeats(g, a, step, n) == g = [i \in 0..n |-> IF i = 0 THEN a ELSE step[i][g[i - 1]]]

LEMMA RepetitionThere ==
    ASSUME NEW S, NEW a \in S, NEW n \in Nat, NEW step, Steps(step, S, n)
    PROVE  \E g \in [0..n -> S] : Repeats(g, a, step, n)
<1> DEFINE There(k) == \E g \in [0..k -> S] : Repeats(g, a, step, k)
           T == {k \in Nat : k \in 0..n => There(k)}
           At(f, i) == IF i = 0 THEN a ELSE step[i][f[i - 1]]
<1>1. 0 \in T
  <2> DEFINE g == [i \in 0..0 |-> a]
  <2>1. g \in [0..0 -> S]
    OBVIOUS
  <2>2. Repeats(g, a, step, 0)
    BY DEF Repeats
  <2> HIDE DEF g
  <2> QED
    BY <2>1, <2>2
<1>2. ASSUME NEW k \in Nat, k \in T
      PROVE  k + 1 \in T
  <2> SUFFICES ASSUME k + 1 \in 0..n
      PROVE  There(k + 1)
    OBVIOUS
  <2>1. PICK g \in [0..k -> S] : Repeats(g, a, step, k)
    BY <1>2
  <2> DEFINE h == [i \in 0..k + 1 |-> At(g, i)]
  <2>2. \A i \in 0..k : h[i] = g[i]
    <3>1. g = [i \in 0..k |-> At(g, i)]
      BY <2>1 DEF Repeats
    <3>2. \A i \in 0..k : i \in 0..k + 1
      OBVIOUS
    <3> HIDE DEF At
    <3> QED
      BY <3>1, <3>2
  <2>3. \A i \in 0..k + 1 : i # 0 => i - 1 \in 0..k /\ i \in 1..n
    OBVIOUS
  <2>4. \A i \in 0..k + 1 : At(h, i) = At(g, i)
    <3> HIDE DEF h
    <3> QED
      BY <2>2, <2>3
  <2>5. h = [i \in 0..k + 1 |-> At(h, i)]
    <3> HIDE DEF At
    <3> QED
      BY <2>4
  <2>6. h \in [0..k + 1 -> S]
    <3>1. \A i \in 0..k + 1 : At(g, i) \in S
      <4>1. \A i \in 1..n : step[i] \in [S -> S]
        BY DEF Steps
      <4> QED
        BY <2>3, <4>1
    <3> HIDE DEF At
    <3> QED
      BY <3>1
  <2>7. Repeats(h, a, step, k + 1)
    <3> HIDE DEF h
    <3> QED
      BY <2>5 DEF Repeats
  <2> HIDE DEF h
  <2> QED
    BY <2>6, <2>7
<1> HIDE DEF T
<1>3. Nat \subseteq T
  BY <1>1, <1>2, SetInduction
<1> QED
  BY <1>3 DEF T

\* One step at a time.
LEMMA RepetitionStep ==
    ASSUME NEW g, NEW a, NEW step, NEW n \in Nat, Repeats(g, a, step, n)
    PROVE  /\ g[0] = a
           /\ \A i \in 1..n : g[i] = step[i][g[i - 1]]
<1>1. 0 \in 0..n /\ \A i \in 1..n : i \in 0..n /\ i # 0
  OBVIOUS
<1> QED
  BY <1>1 DEF Repeats

\* Induction as far as n, and what it gives for the values of such a function.
LEMMA InductionUpTo ==
    ASSUME NEW n \in Nat, NEW T, 0 \in T, \A i \in 1..n : i - 1 \in T => i \in T
    PROVE  0..n \subseteq T
<1> DEFINE R == {k \in Nat : k \in 0..n => k \in T}
<1>1. 0 \in R
  OBVIOUS
<1>2. ASSUME NEW k \in Nat, k \in R
      PROVE  k + 1 \in R
  <2>1. k + 1 \in 0..n => k \in 0..n /\ k + 1 \in 1..n /\ (k + 1) - 1 = k
    OBVIOUS
  <2> QED
    BY <1>2, <2>1
<1> HIDE DEF R
<1>3. Nat \subseteq R
  BY <1>1, <1>2, SetInduction
<1> QED
  BY <1>3 DEF R

LEMMA ValuesUpTo ==
    ASSUME NEW n \in Nat, NEW S, NEW f, f[0] \in S, \A i \in 1..n : f[i - 1] \in S => f[i] \in S
    PROVE  \A i \in 0..n : f[i] \in S
<1> DEFINE T == {i \in 0..n : f[i] \in S}
<1>1. 0 \in T
  OBVIOUS
<1>2. \A i \in 1..n : i - 1 \in T => i \in T
  OBVIOUS
<1> HIDE DEF T
<1>3. 0..n \subseteq T
  BY <1>1, <1>2, InductionUpTo
<1> QED
  BY <1>3 DEF T

-----------------------------------------------------------------------------
\* That each element has its own number of predecessors puts a set in order: when
\* "before" is a strict linear order, Sorted lists every element, once, in that order.
LEMMA SortedInOrder ==
    ASSUME NEW S, IsFiniteSet(S), NEW earlier \in [S -> SUBSET S],
           \A x \in S : x \notin earlier[x],
           \A x, y \in S : x # y => x \in earlier[y] \/ y \in earlier[x],
           \A x, y \in S : x \in earlier[y] => earlier[x] \subseteq earlier[y]
    PROVE  /\ Sorted(earlier) \in [1..Cardinality(S) -> S] /\ Cardinality(S) \in Nat
           /\ \A x \in S : \E i \in 1..Cardinality(S) : Sorted(earlier)[i] = x
           /\ \A i, j \in 1..Cardinality(S) :
                  i < j <=> Sorted(earlier)[i] \in earlier[Sorted(earlier)[j]]
<1> DEFINE n == Cardinality(S)
           place == [x \in S |-> Cardinality(earlier[x])]
           sorted == Sorted(earlier)
<1>1. n \in Nat /\ DOMAIN earlier = S
  BY FS_CardinalityType
<1>2. ASSUME NEW x \in S
      PROVE  IsFiniteSet(earlier[x]) /\ place[x] \in 0..n - 1
  <2>1. earlier[x] \in SUBSET S /\ earlier[x] # S
    OBVIOUS
  <2>2. IsFiniteSet(earlier[x]) /\ Cardinality(earlier[x]) <= n /\ Cardinality(earlier[x]) # n
    BY <2>1, FS_Subset
  <2> QED
    BY <1>1, <2>2, FS_CardinalityType
<1>3. ASSUME NEW x \in S, NEW y \in S, x \in earlier[y]
      PROVE  place[x] < place[y]
  <2>1. earlier[x] \in SUBSET earlier[y] /\ earlier[x] # earlier[y]
    BY <1>3
  <2>2. Cardinality(earlier[x]) <= Cardinality(earlier[y]) /\ Cardinality(earlier[x]) # Cardinality(earlier[y])
    BY <1>2, <2>1, FS_Subset
  <2> QED
    BY <1>2, <2>2
<1>4. \A x, y \in S : place[x] = place[y] => x = y
  <2> SUFFICES ASSUME NEW x \in S, NEW y \in S, x # y
      PROVE  place[x] # place[y]
    OBVIOUS
  <2>1. CASE x \in earlier[y]
    BY <1>2, <1>3, <2>1
  <2>2. CASE y \in earlier[x]
    BY <1>2, <1>3, <2>2
  <2> QED
    BY <2>1, <2>2
<1>5. \A k \in 0..n - 1 : \E x \in S : place[x] = k
  <2>1. place \in Injection(S, 0..n - 1)
    BY <1>2, <1>4 DEF Injection, IsInjective
  <2>2. IsFiniteSet(0..n - 1) /\ Cardinality(0..n - 1) = n
    BY <1>1, FS_Interval
  <2>3. place \in Surjection(S, 0..n - 1)
    BY <2>1, <2>2, FS_Injection
  <2> QED
    BY <2>3 DEF Surjection
<1>6. sorted = [i \in 1..n |-> CHOOSE x \in S : Cardinality(earlier[x]) = i - 1]
  BY <1>1 DEF Sorted
<1>7. ASSUME NEW i \in 1..n
      PROVE  sorted[i] \in S /\ place[sorted[i]] = i - 1
  <2>1. sorted[i] = CHOOSE x \in S : Cardinality(earlier[x]) = i - 1
    BY <1>6
  <2>2. PICK x \in S : place[x] = i - 1
    BY <1>1, <1>5
  <2>3. Cardinality(earlier[x]) = i - 1
    BY <2>2
  <2>4. sorted[i] \in S /\ Cardinality(earlier[sorted[i]]) = i - 1
    BY <2>1, <2>3
  <2> QED
    BY <2>4
<1>8. sorted \in [1..n -> S]
  BY <1>6, <1>7
<1> HIDE DEF place, sorted
<1>9. \A x \in S : \E i \in 1..n : sorted[i] = x
  <2> SUFFICES ASSUME NEW x \in S
      PROVE  \E i \in 1..n : sorted[i] = x
    OBVIOUS
  <2>1. PICK k \in 0..n - 1 : place[x] = k
    BY <1>2
  <2>2. k + 1 \in 1..n /\ (k + 1) - 1 = k
    BY <1>1
  <2>3. sorted[k + 1] \in S /\ place[sorted[k + 1]] = k
    BY <1>7, <2>2
  <2> QED
    BY <1>4, <2>1, <2>2, <2>3
<1>10. ASSUME NEW i \in 1..n, NEW j \in 1..n
       PROVE  i < j <=> sorted[i] \in earlier[sorted[j]]
  <2>1. sorted[i] \in S /\ sorted[j] \in S /\ place[sorted[i]] = i - 1 /\ place[sorted[j]] = j - 1
    BY <1>7
  <2>2. sorted[i] \in earlier[sorted[j]] => i < j
    BY <1>1, <1>3, <2>1
  <2>3. i < j => sorted[i] \in earlier[sorted[j]]
    <3> SUFFICES ASSUME i < j
        PROVE  sorted[i] \in earlier[sorted[j]]
      OBVIOUS
    <3>1. sorted[i] # sorted[j]
      BY <1>1, <2>1
    <3>2. sorted[j] \notin earlier[sorted[i]]
      BY <1>1, <1>3, <2>1
    <3> QED
      BY <2>1, <3>1, <3>2
  <2> QED
    BY <2>2, <2>3
<1> QED
  BY <1>1, <1>8, <1>9, <1>10 DEF sorted

-----------------------------------------------------------------------------
\* The function that FlattenSeq defines by recursion: end to end, the first i.
IsFlattening(g, seqs) ==
    g = [i \in 1..Len(seqs) |-> IF i = 1 THEN seqs[i] ELSE g[i - 1] \o seqs[i]]

LEMMA FlattenSeqIsFlattening ==
    ASSUME NEW seqs, Len(seqs) # 0
    PROVE  FlattenSeq(seqs) = (CHOOSE g : IsFlattening(g, seqs))[Len(seqs)]
BY DEF FlattenSeq, IsFlattening

LEMMA FlatteningExists ==
    ASSUME NEW T, NEW seqs \in Seq(T)
    PROVE  \E g : IsFlattening(g, seqs)
<1> DEFINE Upto(g, n) == g = [i \in 1..n |-> IF i = 1 THEN seqs[i] ELSE g[i - 1] \o seqs[i]]
           S == {n \in Nat : \E g : Upto(g, n)}
<1>1. 0 \in S
  <2>1. Upto(<<>>, 0)
    OBVIOUS
  <2> QED
    BY <2>1
<1>2. ASSUME NEW n \in Nat, n \in S
      PROVE  n + 1 \in S
  <2>1. PICK g : Upto(g, n)
    BY <1>2
  <2> DEFINE h == [i \in 1..n + 1 |-> IF i = 1 THEN seqs[i] ELSE g[i - 1] \o seqs[i]]
  <2>2. \A i \in 1..n : h[i] = g[i]
    <3>1. \A i \in 1..n : g[i] = IF i = 1 THEN seqs[i] ELSE g[i - 1] \o seqs[i]
      BY <2>1
    <3>2. \A i \in 1..n : i \in 1..n + 1
      OBVIOUS
    <3> QED
      BY <3>1, <3>2
  <2>3. \A i \in 1..n + 1 : i # 1 => i - 1 \in 1..n
    OBVIOUS
  <2>4. h = [i \in 1..n + 1 |-> IF i = 1 THEN seqs[i] ELSE h[i - 1] \o seqs[i]]
    BY <2>2, <2>3
  <2> HIDE DEF h
  <2>5. Upto(h, n + 1)
    BY <2>4
  <2> HIDE DEF Upto
  <2> QED
    BY <2>5
<1>3. Nat \subseteq S
  <2> HIDE DEF S
  <2> QED
    BY <1>1, <1>2, SetInduction
<1>4. \E g : Upto(g, Len(seqs))
  <2> HIDE DEF Upto
  <2> QED
    BY <1>3
<1> QED
  BY <1>4 DEF IsFlattening

\* Two flattenings agree wherever their sequences do.
LEMMA FlatteningsAgree ==
    ASSUME NEW seqs, NEW more, NEW g, NEW h,
           Len(seqs) \in Nat, Len(more) \in Nat, Len(seqs) <= Len(more),
           \A i \in 1..Len(seqs) : seqs[i] = more[i],
           IsFlattening(g, seqs), IsFlattening(h, more)
    PROVE  \A i \in 1..Len(seqs) : g[i] = h[i]
<1> DEFINE S == {n \in Nat : n \in 1..Len(seqs) => g[n] = h[n]}
<1>1. Len(seqs) \in Nat /\ Len(more) \in Nat /\ Len(seqs) <= Len(more)
  OBVIOUS
<1>2. \A i \in 1..Len(seqs) : g[i] = IF i = 1 THEN seqs[i] ELSE g[i - 1] \o seqs[i]
  BY DEF IsFlattening
<1>3. \A i \in 1..Len(more) : h[i] = IF i = 1 THEN more[i] ELSE h[i - 1] \o more[i]
  BY DEF IsFlattening
<1>4. 0 \in S
  OBVIOUS
<1>5. ASSUME NEW n \in Nat, n \in S
      PROVE  n + 1 \in S
  <2> SUFFICES ASSUME n + 1 \in 1..Len(seqs)
      PROVE  g[n + 1] = h[n + 1]
    OBVIOUS
  <2>1. n + 1 \in 1..Len(more) /\ seqs[n + 1] = more[n + 1]
    BY <1>1
  <2>2. CASE n = 0
    BY <1>2, <1>3, <2>1, <2>2
  <2>3. CASE n # 0
    <3>1. n \in 1..Len(seqs) /\ (n + 1) - 1 = n /\ n + 1 # 1
      BY <1>1, <2>3
    <3>2. g[n] = h[n]
      BY <1>5, <3>1
    <3>3. g[n + 1] = g[n] \o seqs[n + 1] /\ h[n + 1] = h[n] \o more[n + 1]
      BY <1>2, <1>3, <2>1, <3>1
    <3> QED
      BY <2>1, <3>2, <3>3
  <2> QED
    BY <2>2, <2>3
<1>6. Nat \subseteq S
  <2> HIDE DEF S
  <2> QED
    BY <1>4, <1>5, SetInduction
<1> QED
  BY <1>6

LEMMA FlattenEmpty == FlattenSeq(<<>>) = <<>>
BY DEF FlattenSeq

LEMMA FlatteningGrows ==
    ASSUME NEW seqs, NEW more, NEW g, NEW h,
           Len(seqs) \in Nat, Len(seqs) # 0, Len(more) = Len(seqs) + 1,
           \A i \in 1..Len(seqs) : seqs[i] = more[i],
           IsFlattening(g, seqs), IsFlattening(h, more)
    PROVE  h[Len(more)] = g[Len(seqs)] \o more[Len(more)]
<1>1. Len(more) \in Nat /\ Len(seqs) <= Len(more) /\ Len(seqs) \in 1..Len(seqs)
  OBVIOUS
<1>2. g[Len(seqs)] = h[Len(seqs)]
  BY <1>1, FlatteningsAgree
<1>3. Len(more) \in 1..Len(more) /\ Len(more) # 1 /\ Len(more) - 1 = Len(seqs)
  OBVIOUS
<1>4. h[Len(more)] = h[Len(seqs)] \o more[Len(more)]
  BY <1>3 DEF IsFlattening
<1> QED
  BY <1>2, <1>4

\* One more sequence is put at the end.
LEMMA FlattenAppend ==
    ASSUME NEW T, NEW seqs \in Seq(Seq(T)), NEW s \in Seq(T)
    PROVE  FlattenSeq(Append(seqs, s)) = FlattenSeq(seqs) \o s
<1> DEFINE more == Append(seqs, s)
<1>1. /\ more \in Seq(Seq(T)) /\ Len(seqs) \in Nat /\ Len(more) = Len(seqs) + 1
      /\ more[Len(more)] = s /\ \A i \in 1..Len(seqs) : seqs[i] = more[i]
  OBVIOUS
<1> HIDE DEF more
<1>2. PICK h : IsFlattening(h, more) /\ FlattenSeq(more) = h[Len(more)]
  BY <1>1, FlatteningExists, FlattenSeqIsFlattening
<1>3. CASE seqs = <<>>
  <2>1. FlattenSeq(seqs) = <<>> /\ <<>> \o s = s
    BY <1>3, FlattenEmpty
  <2>2. Len(more) = 1 /\ h[1] = more[1]
    BY <1>1, <1>2, <1>3 DEF IsFlattening
  <2> QED
    BY <1>1, <1>2, <2>1, <2>2 DEF more
<1>4. CASE seqs # <<>>
  <2>1. Len(seqs) # 0
    BY <1>4
  <2>2. PICK g : IsFlattening(g, seqs) /\ FlattenSeq(seqs) = g[Len(seqs)]
    BY <2>1, FlatteningExists, FlattenSeqIsFlattening
  <2>3. h[Len(more)] = g[Len(seqs)] \o more[Len(more)]
    BY <1>1, <1>2, <2>1, <2>2, FlatteningGrows
  <2> QED
    BY <1>1, <1>2, <2>2, <2>3 DEF more
<1> QED
  BY <1>3, <1>4

\* The elements stay what they are.
LEMMA FlattenType ==
    ASSUME NEW T, NEW seqs \in Seq(Seq(T))
    PROVE  FlattenSeq(seqs) \in Seq(T)
<1> DEFINE S == {n \in Nat : \A ss \in Seq(Seq(T)) : Len(ss) = n => FlattenSeq(ss) \in Seq(T)}
<1>1. 0 \in S
  <2>1. \A ss \in Seq(Seq(T)) : Len(ss) = 0 => ss = <<>>
    OBVIOUS
  <2> QED
    BY <2>1, FlattenEmpty
<1>2. ASSUME NEW n \in Nat, n \in S
      PROVE  n + 1 \in S
  <2> SUFFICES ASSUME NEW ss \in Seq(Seq(T)), Len(ss) = n + 1
      PROVE  FlattenSeq(ss) \in Seq(T)
    OBVIOUS
  <2> DEFINE front == SubSeq(ss, 1, n)
  <2>1. front \in Seq(Seq(T)) /\ Len(front) = n
    OBVIOUS
  <2>2. ss = Append(front, ss[n + 1]) /\ ss[n + 1] \in Seq(T)
    OBVIOUS
  <2> HIDE DEF front
  <2>3. FlattenSeq(front) \in Seq(T)
    BY <1>2, <2>1
  <2>4. FlattenSeq(ss) = FlattenSeq(front) \o ss[n + 1]
    BY <2>1, <2>2, FlattenAppend
  <2> QED
    BY <2>2, <2>3, <2>4
<1>3. Nat \subseteq S
  <2> HIDE DEF S
  <2> QED
    BY <1>1, <1>2, SetInduction
<1>4. Len(seqs) \in S
  BY <1>3
<1> QED
  BY <1>4

\* The first sequences end to end begin the whole.
LEMMA FlattenBegins ==
    ASSUME NEW T, NEW seqs \in Seq(Seq(T)), NEW k \in 0..Len(seqs)
    PROVE  LET begun == FlattenSeq(SubSeq(seqs, 1, k))
               whole == FlattenSeq(seqs)
           IN  Len(begun) <= Len(whole) /\ \A i \in 1..Len(begun) : begun[i] = whole[i]
<1> DEFINE Begins(s, t) == Len(s) <= Len(t) /\ \A i \in 1..Len(s) : s[i] = t[i]
           S == {n \in Nat : \A ss \in Seq(Seq(T)) : Len(ss) = n =>
                    \A j \in 0..n : Begins(FlattenSeq(SubSeq(ss, 1, j)), FlattenSeq(ss))}
<1>0. \A ss \in Seq(Seq(T)) : Begins(FlattenSeq(SubSeq(ss, 1, Len(ss))), FlattenSeq(ss))
  <2> SUFFICES ASSUME NEW ss \in Seq(Seq(T))
      PROVE  Begins(FlattenSeq(SubSeq(ss, 1, Len(ss))), FlattenSeq(ss))
    OBVIOUS
  <2>1. SubSeq(ss, 1, Len(ss)) = ss
    OBVIOUS
  <2>2. FlattenSeq(ss) \in Seq(T)
    BY FlattenType
  <2>3. Len(FlattenSeq(ss)) \in Nat
    BY <2>2
  <2>4. Begins(FlattenSeq(ss), FlattenSeq(ss))
    BY <2>3
  <2> HIDE DEF Begins
  <2> QED
    BY <2>1, <2>4
<1>1. 0 \in S
  <2>1. \A j \in 0..0 : j = 0
    OBVIOUS
  <2> HIDE DEF Begins
  <2> QED
    BY <1>0, <2>1
<1>2. ASSUME NEW n \in Nat, n \in S
      PROVE  n + 1 \in S
  <2> SUFFICES ASSUME NEW ss \in Seq(Seq(T)), Len(ss) = n + 1, NEW j \in 0..n + 1
      PROVE  Begins(FlattenSeq(SubSeq(ss, 1, j)), FlattenSeq(ss))
    OBVIOUS
  <2>1. CASE j = n + 1
    <3> HIDE DEF Begins
    <3> QED
      BY <1>0, <2>1
  <2>2. CASE j \in 0..n
    <3> DEFINE front == SubSeq(ss, 1, n)
    <3>1. front \in Seq(Seq(T)) /\ Len(front) = n
      OBVIOUS
    <3>2. ss = Append(front, ss[n + 1]) /\ ss[n + 1] \in Seq(T)
      OBVIOUS
    <3>3. SubSeq(ss, 1, j) = SubSeq(front, 1, j) /\ SubSeq(ss, 1, j) \in Seq(Seq(T))
      BY <2>2
    <3> HIDE DEF front
    <3> DEFINE begun == FlattenSeq(SubSeq(ss, 1, j))
               most == FlattenSeq(front)
               last == ss[n + 1]
    <3>4. FlattenSeq(ss) = most \o last
      BY <3>1, <3>2, FlattenAppend
    <3>5. begun \in Seq(T) /\ most \in Seq(T) /\ last \in Seq(T)
      BY <3>1, <3>2, <3>3, FlattenType
    <3>6. Begins(begun, most)
      <4> HIDE DEF Begins
      <4> QED
        BY <1>2, <2>2, <3>1, <3>3
    <3> HIDE DEF begun, most, last
    <3>7. Len(most) <= Len(most \o last) /\ \A i \in 1..Len(most) : (most \o last)[i] = most[i]
      BY <3>5
    <3>8. Len(begun) \in Nat /\ Len(most) \in Nat /\ Len(most \o last) \in Nat
      BY <3>5
    <3> QED
      BY <3>4, <3>6, <3>7, <3>8 DEF begun
  <2> QED
    BY <2>1, <2>2
<1>3. Nat \subseteq S
  <2> HIDE DEF S
  <2> QED
    BY <1>1, <1>2, SetInduction
<1>4. Len(seqs) \in S
  BY <1>3
<1> QED
  BY <1>4

-----------------------------------------------------------------------------
\* Sequences with the same elements are the same.
LEMMA SameElements ==
    ASSUME NEW T, NEW s \in Seq(T), NEW t \in Seq(T), Len(s) = Len(t),
           \A i \in 1..Len(s) : s[i] = t[i]
    PROVE  s = t
<1>1. s \in [1..Len(s) -> T] /\ t \in [1..Len(s) -> T]
  OBVIOUS
<1> QED
  BY <1>1

\* One element more behind two sequences.
LEMMA ConcatAppend ==
    ASSUME NEW T, NEW s \in Seq(T), NEW t \in Seq(T), NEW x \in T
    PROVE  s \o Append(t, x) = Append(s \o t, x)
<1> DEFINE l == s \o Append(t, x)
           r == Append(s \o t, x)
<1>1. /\ l \in Seq(T) /\ r \in Seq(T) /\ Len(s) \in Nat /\ Len(t) \in Nat
      /\ Len(l) = Len(s) + Len(t) + 1 /\ Len(r) = Len(s) + Len(t) + 1
  OBVIOUS
<1>2. ASSUME NEW i \in 1..Len(s) + Len(t) + 1
      PROVE  l[i] = r[i]
  <2>1. CASE i <= Len(s)
    BY <2>1
  <2>2. CASE i > Len(s) /\ i <= Len(s) + Len(t)
    <3>1. i - Len(s) \in 1..Len(t) /\ i \in 1..Len(s \o t) /\ i \in 1..Len(s) + Len(t)
      BY <2>2
    <3>2. l[i] = t[i - Len(s)]
      BY <2>2, <3>1
    <3>3. (s \o t)[i] = t[i - Len(s)]
      BY <2>2, <3>1
    <3>4. r[i] = (s \o t)[i]
      BY <3>1
    <3> QED
      BY <3>2, <3>3, <3>4
  <2>3. CASE i = Len(s) + Len(t) + 1
    <3>1. i - Len(s) = Len(t) + 1 /\ i > Len(s)
      BY <2>3
    <3>2. l[i] = Append(t, x)[Len(t) + 1]
      BY <3>1
    <3>3. r[i] = x
      BY <2>3
    <3> QED
      BY <3>2, <3>3
  <2> QED
    BY <2>1, <2>2, <2>3
<1> HIDE DEF l, r
<1>3. l = r
  BY <1>1, <1>2, SameElements
<1> QED
  BY <1>3 DEF l, r

\* Concatenation is associative.
LEMMA ConcatAssociates ==
    ASSUME NEW T, NEW s \in Seq(T), NEW t \in Seq(T), NEW u \in Seq(T)
    PROVE  (s \o t) \o u = s \o (t \o u)
<1> DEFINE l == (s \o t) \o u
           r == s \o (t \o u)
           n == Len(s) + Len(t) + Len(u)
<1>1. /\ l \in Seq(T) /\ r \in Seq(T) /\ Len(s) \in Nat /\ Len(t) \in Nat /\ Len(u) \in Nat
      /\ Len(l) = n /\ Len(r) = n
  OBVIOUS
<1>2. ASSUME NEW i \in 1..n
      PROVE  l[i] = r[i]
  <2>1. CASE i <= Len(s) + Len(t)
    <3>1. i \in 1..Len(s \o t) /\ l[i] = (s \o t)[i]
      BY <1>1, <2>1
    <3>2. CASE i <= Len(s)
      BY <1>1, <3>1, <3>2
    <3>3. CASE i > Len(s)
      <4>1. i - Len(s) \in 1..Len(t) /\ i - Len(s) \in 1..Len(t \o u)
        BY <1>1, <2>1, <3>3
      <4>2. (s \o t)[i] = t[i - Len(s)] /\ r[i] = (t \o u)[i - Len(s)]
        BY <1>1, <2>1, <3>3, <4>1
      <4>3. (t \o u)[i - Len(s)] = t[i - Len(s)]
        BY <4>1
      <4> QED
        BY <3>1, <4>2, <4>3
    <3> QED
      BY <1>1, <3>2, <3>3
  <2>2. CASE i > Len(s) + Len(t)
    <3>0. Len(s \o t) = Len(s) + Len(t) /\ Len(t \o u) = Len(t) + Len(u)
      OBVIOUS
    <3>1. PICK j \in Int : j = i - Len(s) /\ j \in 1..Len(t \o u) /\ j > Len(t) /\ j - Len(t) = i - Len(s \o t)
      <4> DEFINE j == i - Len(s)
      <4>1. j \in Int /\ j \in 1..Len(t) + Len(u) /\ j > Len(t) /\ j - Len(t) = i - (Len(s) + Len(t))
        BY <1>1, <2>2
      <4> QED
        BY <3>0, <4>1
    <3>2. r[i] = (t \o u)[j] /\ (t \o u)[j] = u[j - Len(t)] /\ l[i] = u[i - Len(s \o t)]
      BY <1>1, <2>2, <3>1
    <3> QED
      BY <3>1, <3>2
  <2> QED
    BY <1>1, <2>1, <2>2
<1> HIDE DEF l, r
<1>3. l = r
  BY <1>1, <1>2, SameElements
<1> QED
  BY <1>3 DEF l, r

\* Some sequences and then some more.
LEMMA FlattenConcat ==
    ASSUME NEW T, NEW seqs \in Seq(Seq(T)), NEW more \in Seq(Seq(T))
    PROVE  FlattenSeq(seqs \o more) = FlattenSeq(seqs) \o FlattenSeq(more)
<1> DEFINE S == {n \in Nat : \A ss \in Seq(Seq(T)) : Len(ss) = n =>
                    FlattenSeq(seqs \o ss) = FlattenSeq(seqs) \o FlattenSeq(ss)}
<1>1. 0 \in S
  <2> SUFFICES ASSUME NEW ss \in Seq(Seq(T)), Len(ss) = 0
      PROVE  FlattenSeq(seqs \o ss) = FlattenSeq(seqs) \o FlattenSeq(ss)
    OBVIOUS
  <2>1. ss = <<>> /\ seqs \o ss = seqs
    OBVIOUS
  <2>2. FlattenSeq(seqs) \in Seq(T) /\ FlattenSeq(ss) = <<>>
    BY <2>1, FlattenEmpty, FlattenType
  <2>3. FlattenSeq(seqs) \o <<>> = FlattenSeq(seqs)
    BY <2>2
  <2> QED
    BY <2>1, <2>2, <2>3
<1>2. ASSUME NEW n \in Nat, n \in S
      PROVE  n + 1 \in S
  <2> SUFFICES ASSUME NEW ss \in Seq(Seq(T)), Len(ss) = n + 1
      PROVE  FlattenSeq(seqs \o ss) = FlattenSeq(seqs) \o FlattenSeq(ss)
    OBVIOUS
  <2>1. PICK front \in Seq(Seq(T)), last \in Seq(T) : Len(front) = n /\ ss = Append(front, last)
    <3>1. SubSeq(ss, 1, n) \in Seq(Seq(T)) /\ Len(SubSeq(ss, 1, n)) = n /\ ss[n + 1] \in Seq(T)
      OBVIOUS
    <3>2. ss = Append(SubSeq(ss, 1, n), ss[n + 1])
      OBVIOUS
    <3> QED
      BY <3>1, <3>2
  <2>2. FlattenSeq(seqs \o front) = FlattenSeq(seqs) \o FlattenSeq(front)
    BY <1>2, <2>1
  <2>3. seqs \o ss = Append(seqs \o front, last) /\ seqs \o front \in Seq(Seq(T))
    BY <2>1, ConcatAppend
  <2>4. FlattenSeq(seqs \o ss) = (FlattenSeq(seqs) \o FlattenSeq(front)) \o last
    BY <2>2, <2>3, FlattenAppend
  <2>5. FlattenSeq(ss) = FlattenSeq(front) \o last
    BY <2>1, FlattenAppend
  <2>6. FlattenSeq(seqs) \in Seq(T) /\ FlattenSeq(front) \in Seq(T)
    BY FlattenType
  <2>7. (FlattenSeq(seqs) \o FlattenSeq(front)) \o last = FlattenSeq(seqs) \o (FlattenSeq(front) \o last)
    BY <2>6, ConcatAssociates, SMTT(60)
  <2> QED
    BY <2>4, <2>5, <2>7
<1>3. Nat \subseteq S
  <2> HIDE DEF S
  <2> QED
    BY <1>1, <1>2, SetInduction
<1>4. Len(more) \in S
  BY <1>3
<1> QED
  BY <1>4

\* Two sequences end to end, element by element.
LEMMA ConcatElements ==
    ASSUME NEW S, NEW s \in Seq(S), NEW t \in Seq(S)
    PROVE  /\ s \o t \in Seq(S) /\ Len(s) \in Nat /\ Len(t) \in Nat
           /\ Len(s \o t) = Len(s) + Len(t)
           /\ \A i \in 1..Len(s) + Len(t) : (s \o t)[i] = IF i <= Len(s) THEN s[i] ELSE t[i - Len(s)]
OBVIOUS

\* A function that makes a sequence of each element of R.
Maps(F, R, T) == F \in [R -> Seq(T)]
\* One that makes an element of T of each.
Turns(g, R, T) == g \in [R -> T]
\* What each element of a sequence becomes under a function.
Mapped(F, s) == [i \in DOMAIN s |-> F[s[i]]]

\* It is as long, and of what the function gives.
LEMMA MapType ==
    ASSUME NEW R, NEW V, NEW F \in [R -> V], NEW recs \in Seq(R)
    PROVE  Mapped(F, recs) \in Seq(V)
<1>1. DOMAIN recs = 1..Len(recs) /\ Len(recs) \in Nat /\ \A i \in 1..Len(recs) : recs[i] \in R
  OBVIOUS
<1>2. \A i \in 1..Len(recs) : F[recs[i]] \in V
  BY <1>1
<1> QED
  BY <1>1, <1>2 DEF Mapped

\* What each element of two sequences becomes, end to end.
LEMMA FlattenMapConcat ==
    ASSUME NEW R, NEW T, NEW F, Maps(F, R, T), NEW recs \in Seq(R), NEW more \in Seq(R)
    PROVE  FlattenSeq(Mapped(F, recs \o more)) = FlattenSeq(Mapped(F, recs)) \o FlattenSeq(Mapped(F, more))
<1> DEFINE M(s) == Mapped(F, s)
<1>1. M(recs) \in Seq(Seq(T)) /\ M(more) \in Seq(Seq(T)) /\ M(recs \o more) \in Seq(Seq(T))
  <2>1. recs \o more \in Seq(R)
    OBVIOUS
  <2> HIDE DEF M
  <2>2. \A s \in Seq(R) : M(s) \in Seq(Seq(T))
    BY MapType DEF M, Maps
  <2> QED
    BY <2>1, <2>2
<1>2. /\ Len(recs) \in Nat /\ Len(more) \in Nat /\ Len(recs \o more) = Len(recs) + Len(more)
      /\ \A s \in Seq(R) : DOMAIN s = 1..Len(s) /\ Len(M(s)) = Len(s) /\ DOMAIN M(s) = 1..Len(s)
                           /\ \A i \in 1..Len(s) : M(s)[i] = F[s[i]]
  <2>1. ASSUME NEW s \in Seq(R)
        PROVE  DOMAIN s = 1..Len(s) /\ Len(M(s)) = Len(s) /\ DOMAIN M(s) = 1..Len(s)
               /\ \A i \in 1..Len(s) : M(s)[i] = F[s[i]]
    <3>1. DOMAIN s = 1..Len(s) /\ Len(s) \in Nat
      OBVIOUS
    <3>2. M(s) = [i \in 1..Len(s) |-> F[s[i]]]
      BY <3>1 DEF Mapped
    <3>3. M(s) \in Seq(Seq(T))
      BY MapType DEF Maps
    <3> QED
      BY <3>1, <3>2, <3>3
  <2> HIDE DEF M
  <2> QED
    BY <2>1
<1>3. M(recs \o more) = M(recs) \o M(more)
  <2>1. recs \o more \in Seq(R)
    OBVIOUS
  <2> DEFINE l == M(recs \o more)
             a == M(recs)
             b == M(more)
             n == Len(recs)
             k == Len(more)
  <2>2. /\ Len(l) = n + k /\ Len(a) = n /\ Len(b) = k /\ n \in Nat /\ k \in Nat
        /\ \A i \in 1..n + k : l[i] = F[(recs \o more)[i]]
        /\ \A i \in 1..n : a[i] = F[recs[i]]
        /\ \A i \in 1..k : b[i] = F[more[i]]
    <3> HIDE DEF M
    <3> QED
      BY <1>2, <2>1
  <2>3. \A i \in 1..n + k : (recs \o more)[i] = IF i <= n THEN recs[i] ELSE more[i - n]
    OBVIOUS
  <2>4. l \in Seq(Seq(T)) /\ a \in Seq(Seq(T)) /\ b \in Seq(Seq(T))
    BY <1>1
  <2> HIDE DEF l, a, b, n, k, M
  <2>5. \A i \in 1..n + k : (a \o b)[i] = IF i <= n THEN a[i] ELSE b[i - n]
    BY <2>2, <2>4, ConcatElements, ZenonT(60)
  <2>6. a \o b \in Seq(Seq(T)) /\ Len(a \o b) = n + k
    BY <2>2, <2>4, ConcatElements
  <2>7. \A i \in 1..n + k : l[i] = (a \o b)[i]
    <3> SUFFICES ASSUME NEW i \in 1..n + k
        PROVE  l[i] = (a \o b)[i]
      OBVIOUS
    <3>1. CASE i <= n
      <4>1. i \in 1..n
        BY <2>2, <3>1
      <4> QED
        <5>1. l[i] = F[(recs \o more)[i]] /\ (recs \o more)[i] = recs[i]
          BY ONLY i \in 1..n + k, <2>2, <2>3, <3>1
        <5>2. a[i] = F[recs[i]]
          BY ONLY <4>1, <2>2
        <5>3. (a \o b)[i] = a[i]
          BY ONLY i \in 1..n + k, <2>5, <3>1
        <5> QED
          BY ONLY <5>1, <5>2, <5>3
    <3>2. CASE ~(i <= n)
      <4>1. i - n \in 1..k
        BY <2>2, <3>2
      <4> QED
        <5>1. l[i] = F[(recs \o more)[i]] /\ (recs \o more)[i] = more[i - n]
          BY ONLY i \in 1..n + k, <2>2, <2>3, <3>2
        <5>2. b[i - n] = F[more[i - n]]
          BY ONLY <4>1, <2>2
        <5>3. (a \o b)[i] = b[i - n]
          BY ONLY i \in 1..n + k, <2>5, <3>2
        <5> QED
          BY ONLY <5>1, <5>2, <5>3
    <3> QED
      BY <3>1, <3>2
  <2>8. l = a \o b
    BY <2>2, <2>4, <2>6, <2>7, SameElements
  <2> QED
    BY <2>8 DEF l, a, b
<1>4. FlattenSeq(M(recs) \o M(more)) = FlattenSeq(M(recs)) \o FlattenSeq(M(more))
  <2> HIDE DEF M
  <2> QED
    BY <1>1, FlattenConcat
<1>5. FlattenSeq(M(recs \o more)) = FlattenSeq(M(recs)) \o FlattenSeq(M(more))
  <2> HIDE DEF M
  <2> QED
    BY <1>3, <1>4
<1> QED
  BY <1>5

-----------------------------------------------------------------------------
\* A set that has the empty sequence, and with a sequence every longer one by an
\* element, has them all.
LEMMA SequenceInduction ==
    ASSUME NEW T, NEW S, <<>> \in S, \A s \in Seq(T) : \A x \in T : s \in S => Append(s, x) \in S
    PROVE  Seq(T) \subseteq S
<1> DEFINE N == {n \in Nat : \A s \in Seq(T) : Len(s) = n => s \in S}
<1>1. 0 \in N
  <2>1. \A s \in Seq(T) : Len(s) = 0 => s = <<>>
    OBVIOUS
  <2> QED
    BY <2>1
<1>2. ASSUME NEW n \in Nat, n \in N
      PROVE  n + 1 \in N
  <2> SUFFICES ASSUME NEW s \in Seq(T), Len(s) = n + 1
      PROVE  s \in S
    OBVIOUS
  <2>1. /\ SubSeq(s, 1, n) \in Seq(T) /\ Len(SubSeq(s, 1, n)) = n /\ s[n + 1] \in T
        /\ s = Append(SubSeq(s, 1, n), s[n + 1])
    OBVIOUS
  <2>2. SubSeq(s, 1, n) \in S
    BY <1>2, <2>1
  <2> QED
    BY <2>1, <2>2
<1>3. Nat \subseteq N
  <2> HIDE DEF N
  <2> QED
    BY <1>1, <1>2, SetInduction
<1> QED
  BY <1>3

\* One sequence, end to end, is itself,
LEMMA FlattenOne ==
    ASSUME NEW T, NEW s \in Seq(T)
    PROVE  FlattenSeq(<<s>>) = s
<1>1. <<>> \in Seq(Seq(T)) /\ Append(<<>>, s) = <<s>>
  OBVIOUS
<1>2. FlattenSeq(Append(<<>>, s)) = FlattenSeq(<<>>) \o s
  BY <1>1, FlattenAppend
<1>3. <<>> \o s = s
  OBVIOUS
<1> QED
  BY <1>1, <1>2, <1>3, FlattenEmpty

\* and so are its elements, one by one.
LEMMA FlattenSingles ==
    ASSUME NEW T, NEW s \in Seq(T)
    PROVE  FlattenSeq([i \in DOMAIN s |-> <<s[i]>>]) = s
<1> DEFINE Singles(t) == [i \in DOMAIN t |-> <<t[i]>>]
           S == {t \in Seq(T) : FlattenSeq(Singles(t)) = t}
<1>1. <<>> \in S
  <2>1. Singles(<<>>) = <<>>
    OBVIOUS
  <2> QED
    BY <2>1, FlattenEmpty
<1>2. ASSUME NEW t \in Seq(T), NEW x \in T, t \in S
      PROVE  Append(t, x) \in S
  <2>1. Singles(t) \in Seq(Seq(T)) /\ Singles(Append(t, x)) = Append(Singles(t), <<x>>)
    <3> DEFINE n == Len(t)
               l == Singles(Append(t, x))
               a == Append(Singles(t), <<x>>)
    <3>1. n \in Nat /\ DOMAIN t = 1..n /\ DOMAIN Append(t, x) = 1..n + 1 /\ Append(t, x)[n + 1] = x
          /\ \A i \in 1..n : Append(t, x)[i] = t[i] /\ t[i] \in T
      OBVIOUS
    <3>2. Singles(t) \in Seq(Seq(T)) /\ Len(Singles(t)) = n /\ \A i \in 1..n : Singles(t)[i] = <<t[i]>>
      BY <3>1
    <3>3. DOMAIN l = 1..n + 1 /\ l[n + 1] = <<x>> /\ \A i \in 1..n : l[i] = <<t[i]>>
      BY <3>1
    <3>4. l = [i \in 1..n + 1 |-> l[i]]
      BY <3>1
    <3> HIDE DEF Singles, l
    <3>5. DOMAIN a = 1..n + 1 /\ a[n + 1] = <<x>> /\ \A i \in 1..n : a[i] = <<t[i]>>
      BY <3>1, <3>2
    <3>6. a = [i \in 1..n + 1 |-> a[i]]
      BY <3>2, <3>5
    <3>7. \A i \in 1..n + 1 : l[i] = a[i]
      <4>1. \A i \in 1..n + 1 : i \in 1..n \/ i = n + 1
        BY <3>1
      <4> HIDE DEF n, a
      <4> QED
        BY <3>3, <3>5, <4>1
    <3> QED
      BY <3>2, <3>4, <3>6, <3>7 DEF l
  <2>2. <<x>> \in Seq(T) /\ t \o <<x>> = Append(t, x) /\ Append(t, x) \in Seq(T)
    OBVIOUS
  <2>3. FlattenSeq(Singles(t)) = t
    BY <1>2
  <2> HIDE DEF Singles
  <2>4. FlattenSeq(Append(Singles(t), <<x>>)) = FlattenSeq(Singles(t)) \o <<x>>
    BY <2>1, <2>2, FlattenAppend
  <2> QED
    BY <2>1, <2>2, <2>3, <2>4
<1>3. Seq(T) \subseteq S
  <2> HIDE DEF S
  <2> QED
    BY <1>1, <1>2, SequenceInduction
<1> QED
  BY <1>3

-----------------------------------------------------------------------------
\* Where the elements of a flattened sequence come from.
Precedes(a, b) == a[1] < b[1] \/ (a[1] = b[1] /\ a[2] < b[2])
IsPlaces(at, seqs, whole) ==
    /\ at \in [1..Len(whole) -> Nat \X Nat]
    /\ \A p \in 1..Len(whole) :
          /\ at[p][1] \in 1..Len(seqs) /\ at[p][2] \in 1..Len(seqs[at[p][1]])
          /\ whole[p] = seqs[at[p][1]][at[p][2]]
    /\ \A i \in 1..Len(seqs) : \A j \in 1..Len(seqs[i]) : \E p \in 1..Len(whole) : at[p] = <<i, j>>
    /\ \A p, q \in 1..Len(whole) : p < q <=> Precedes(at[p], at[q])

LEMMA PlacesGrow ==
    ASSUME NEW T, NEW seqs \in Seq(Seq(T)), NEW whole \in Seq(T), NEW s \in Seq(T),
           NEW at, IsPlaces(at, seqs, whole)
    PROVE  \E new : IsPlaces(new, Append(seqs, s), whole \o s)
<1> DEFINE n == Len(whole)
           k == Len(s)
           m == Len(seqs)
           more == Append(seqs, s)
           all == whole \o s
           new == [p \in 1..n + k |-> IF p <= n THEN at[p] ELSE <<m + 1, p - n>>]
<1>1. /\ n \in Nat /\ k \in Nat /\ m \in Nat /\ Len(all) = n + k /\ Len(more) = m + 1
      /\ more[m + 1] = s /\ \A i \in 1..m : more[i] = seqs[i]
      /\ \A p \in 1..n : all[p] = whole[p]
      /\ \A p \in n + 1..n + k : all[p] = s[p - n]
  OBVIOUS
<1>2. /\ \A p \in 1..n : new[p] = at[p] /\ p \in 1..n + k
      /\ \A p \in n + 1..n + k : new[p] = <<m + 1, p - n>> /\ p \in 1..n + k /\ p - n \in 1..k
      /\ \A p \in 1..n + k : p \in 1..n \/ p \in n + 1..n + k
      /\ DOMAIN new = 1..n + k
      /\ new = [p \in DOMAIN new |-> new[p]]
  BY <1>1
<1> HIDE DEF n, k, m, more, all, new
<1>3. /\ at \in [1..n -> Nat \X Nat]
      /\ \A p \in 1..n : /\ at[p][1] \in 1..m /\ at[p][2] \in 1..Len(seqs[at[p][1]])
                         /\ whole[p] = seqs[at[p][1]][at[p][2]] /\ at[p] \in Nat \X Nat
      /\ \A i \in 1..m : \A j \in 1..Len(seqs[i]) : \E p \in 1..n : at[p] = <<i, j>>
      /\ \A p, q \in 1..n : p < q <=> Precedes(at[p], at[q])
  BY DEF IsPlaces, n, m
<1>4. ASSUME NEW p \in 1..n + k
      PROVE  /\ new[p] \in Nat \X Nat
             /\ new[p][1] \in 1..m + 1 /\ new[p][2] \in 1..Len(more[new[p][1]])
             /\ all[p] = more[new[p][1]][new[p][2]]
  <2>1. CASE p \in 1..n
    <3>1. new[p] = at[p] /\ at[p] \in Nat \X Nat /\ at[p][1] \in 1..m
          /\ at[p][2] \in 1..Len(seqs[at[p][1]]) /\ whole[p] = seqs[at[p][1]][at[p][2]]
      BY <1>2, <1>3, <2>1
    <3>2. more[at[p][1]] = seqs[at[p][1]] /\ all[p] = whole[p] /\ at[p][1] \in 1..m + 1
      <4>1. PICK i : i = at[p][1]
        OBVIOUS
      <4>2. i \in 1..m /\ i \in 1..m + 1 /\ more[i] = seqs[i]
        BY <1>1, <3>1, <4>1
      <4> QED
        BY <1>1, <2>1, <4>1, <4>2
    <3> QED
      BY <3>1, <3>2
  <2>2. CASE p \in n + 1..n + k
    <3>1. new[p] = <<m + 1, p - n>> /\ p - n \in 1..k
      BY <1>2, <2>2
    <3>2. <<m + 1, p - n>>[1] = m + 1 /\ <<m + 1, p - n>>[2] = p - n /\ m + 1 \in 1..m + 1
          /\ p - n \in Nat
      BY <1>1, <3>1
    <3>3. all[p] = s[p - n] /\ more[m + 1] = s /\ Len(s) = k
      BY <1>1, <2>2 DEF k
    <3> QED
      BY <1>1, <3>1, <3>2, <3>3
  <2> QED
    BY <1>2, <2>1, <2>2
<1>5. new \in [1..n + k -> Nat \X Nat]
  BY <1>2, <1>4
<1>6. ASSUME NEW i \in 1..m + 1, NEW j \in 1..Len(more[i])
      PROVE  \E p \in 1..n + k : new[p] = <<i, j>>
  <2>1. CASE i \in 1..m
    <3>1. j \in 1..Len(seqs[i])
      BY <1>1, <2>1
    <3>2. PICK p \in 1..n : at[p] = <<i, j>>
      BY <1>3, <2>1, <3>1
    <3> QED
      BY <1>2, <3>2
  <2>2. CASE i = m + 1
    <3>1. j \in 1..k
      BY <1>1, <2>2 DEF k
    <3>2. n + j \in n + 1..n + k /\ (n + j) - n = j
      BY <1>1, <3>1
    <3>3. new[n + j] = <<m + 1, j>> /\ n + j \in 1..n + k
      BY <1>2, <3>2
    <3> QED
      BY <2>2, <3>3
  <2> QED
    BY <1>1, <2>1, <2>2
<1>7. ASSUME NEW p \in 1..n + k, NEW q \in 1..n + k
      PROVE  p < q <=> Precedes(new[p], new[q])
  <2>1. CASE p \in 1..n /\ q \in 1..n
    BY <1>2, <1>3, <2>1
  <2>2. CASE p \in 1..n /\ q \in n + 1..n + k
    <3>1. new[p] = at[p] /\ at[p][1] \in 1..m /\ new[q] = <<m + 1, q - n>>
      BY <1>2, <1>3, <2>2
    <3>2. new[q][1] = m + 1 /\ new[p][1] \in 1..m
      BY <3>1
    <3> QED
      BY <1>1, <2>2, <3>2 DEF Precedes
  <2>3. CASE p \in n + 1..n + k /\ q \in 1..n
    <3>1. new[q] = at[q] /\ at[q][1] \in 1..m /\ new[p] = <<m + 1, p - n>>
      BY <1>2, <1>3, <2>3
    <3>2. new[p][1] = m + 1 /\ new[q][1] \in 1..m
      BY <3>1
    <3> QED
      BY <1>1, <2>3, <3>2, SMTT(60) DEF Precedes
  <2>4. CASE p \in n + 1..n + k /\ q \in n + 1..n + k
    <3>1. new[p] = <<m + 1, p - n>> /\ new[q] = <<m + 1, q - n>>
      BY <1>2, <2>4
    <3> QED
      BY <1>1, <2>4, <3>1 DEF Precedes
  <2> QED
    BY <1>2, <2>1, <2>2, <2>3, <2>4
<1>8. IsPlaces(new, more, all)
  <2>1. Len(all) = n + k /\ Len(more) = m + 1
    BY <1>1
  <2>2. \A p \in 1..Len(all) : /\ new[p][1] \in 1..Len(more) /\ new[p][2] \in 1..Len(more[new[p][1]])
                                /\ all[p] = more[new[p][1]][new[p][2]]
    BY <1>4, <2>1
  <2>3. \A i \in 1..Len(more) : \A j \in 1..Len(more[i]) : \E p \in 1..Len(all) : new[p] = <<i, j>>
    BY <1>6, <2>1
  <2>4. \A p, q \in 1..Len(all) : p < q <=> Precedes(new[p], new[q])
    BY <1>7, <2>1
  <2>5. new \in [1..Len(all) -> Nat \X Nat]
    BY <1>5, <2>1
  <2> QED
    BY <2>2, <2>3, <2>4, <2>5 DEF IsPlaces
<1> QED
  BY <1>8 DEF more, all

\* Each element comes from one place, each place gives one element, and the order of the
\* elements is that of the places.
LEMMA FlattenPlaces ==
    ASSUME NEW T, NEW seqs \in Seq(Seq(T))
    PROVE  \E at : IsPlaces(at, seqs, FlattenSeq(seqs))
<1> DEFINE S == {ss \in Seq(Seq(T)) : \E at : IsPlaces(at, ss, FlattenSeq(ss))}
<1>1. <<>> \in S
  <2>1. IsPlaces([p \in 1..0 |-> <<1, 1>>], <<>>, <<>>)
    BY DEF IsPlaces
  <2> QED
    BY <2>1, FlattenEmpty
<1>2. ASSUME NEW ss \in Seq(Seq(T)), NEW s \in Seq(T), ss \in S
      PROVE  Append(ss, s) \in S
  <2>1. PICK at : IsPlaces(at, ss, FlattenSeq(ss))
    BY <1>2
  <2>2. FlattenSeq(ss) \in Seq(T) /\ FlattenSeq(Append(ss, s)) = FlattenSeq(ss) \o s
    BY FlattenType, FlattenAppend
  <2>3. PICK whole \in Seq(T) : whole = FlattenSeq(ss)
    BY <2>2
  <2>4. \E new : IsPlaces(new, Append(ss, s), whole \o s)
    BY <2>1, <2>3, PlacesGrow
  <2>5. Append(ss, s) \in Seq(Seq(T))
    OBVIOUS
  <2> QED
    BY <2>2, <2>3, <2>4, <2>5
<1>3. Seq(Seq(T)) \subseteq S
  <2> HIDE DEF S
  <2> QED
    BY <1>1, <1>2, SequenceInduction
<1> QED
  BY <1>3

\* So two elements do not come from the same place.
LEMMA PlacesDiffer ==
    ASSUME NEW at, NEW seqs, NEW whole, IsPlaces(at, seqs, whole), Len(whole) \in Nat,
           NEW p \in 1..Len(whole), NEW q \in 1..Len(whole), at[p] = at[q]
    PROVE  p = q
<1>1. at[p] \in Nat \X Nat
  BY DEF IsPlaces
<1>2. ~Precedes(at[p], at[q]) /\ ~Precedes(at[q], at[p])
  BY <1>1 DEF Precedes
<1>3. ~(p < q) /\ ~(q < p)
  BY <1>2 DEF IsPlaces
<1> QED
  BY <1>3

\* Numbers in strict order that leave none out are the first numbers.
CountsUp(f, n, m) ==
    /\ f \in [1..n -> 1..m]
    /\ \A i, j \in 1..n : i < j => f[i] < f[j]
    /\ \A x \in 1..m : \E i \in 1..n : f[i] = x

LEMMA OntoInOrderIsIdentity ==
    ASSUME NEW n \in Nat, NEW m \in Nat, NEW f, CountsUp(f, n, m)
    PROVE  n = m /\ \A i \in 1..n : f[i] = i
<1>0. /\ f \in [1..n -> 1..m]
      /\ \A i, j \in 1..n : i < j => f[i] < f[j]
      /\ \A x \in 1..m : \E i \in 1..n : f[i] = x
  BY DEF CountsUp
<1> DEFINE S == {x \in Nat : x \in 1..n => f[x] = x}
<1>1. \A i \in 1..n : f[i] \in 1..m
  BY <1>0
<1>2. \A i \in 1..n : f[i] = i
  <2> SUFFICES ASSUME NEW i \in 1..n, f[i] # i
      PROVE  FALSE
    OBVIOUS
  <2> DEFINE Off == {x \in Nat : x \in 1..n /\ f[x] # x}
  <2>1. PICK least \in Off : \A y \in Off : least <= y
    <3>1. Off \in SUBSET Nat /\ i \in Off
      OBVIOUS
    <3> QED
      BY <3>1, LeastNatural
  <2>2. least \in 1..n /\ f[least] # least /\ \A j \in 1..n : j < least => f[j] = j
    <3>1. \A j \in 1..n : j < least => j \notin Off
      BY <2>1
    <3> QED
      BY <2>1, <3>1
  <2> HIDE DEF Off
  <2>3. f[least] > least
    <3>1. CASE least = 1
      BY <1>1, <2>2, <3>1
    <3>2. CASE least > 1
      <4>1. least - 1 \in 1..n /\ f[least - 1] = least - 1
        BY <2>2, <3>2
      <4>2. f[least - 1] < f[least]
        BY <1>0, <2>2, <4>1
      <4> QED
        BY <1>1, <2>2, <4>1, <4>2
    <3> QED
      BY <2>2, <3>1, <3>2
  <2>4. least \in 1..m
    BY <1>1, <2>2, <2>3
  <2>5. PICK j \in 1..n : f[j] = least
    BY <1>0, <2>4
  <2>6. ~(j < least) /\ j # least
    BY <2>2, <2>5
  <2>7. least < j /\ f[least] < f[j]
    BY <1>0, <2>2, <2>6
  <2> QED
    BY <1>1, <2>2, <2>3, <2>5, <2>7
<1>3. n <= m
  <2>1. n > 0 => n \in 1..n
    OBVIOUS
  <2> QED
    BY <1>1, <1>2, <2>1
<1>4. m <= n
  <2>1. CASE m > 0
    <3>1. PICK i \in 1..n : f[i] = m
      BY <1>0, <2>1
    <3> QED
      BY <1>2, <3>1
  <2> QED
    BY <2>1
<1> QED
  BY <1>2, <1>3, <1>4

-----------------------------------------------------------------------------
\* What the elements of sequences become, end to end, does not depend on whether they
\* are put end to end before.
LEMMA FlattenMapFlatten ==
    ASSUME NEW R, NEW T, NEW U, NEW F, Maps(F, R, T), NEW G, Maps(G, T, U), NEW recs \in Seq(R),
           NEW E, E = [r \in R |-> FlattenSeq(Mapped(G, F[r]))]
    PROVE  FlattenSeq(Mapped(G, FlattenSeq(Mapped(F, recs)))) = FlattenSeq(Mapped(E, recs))
<1> DEFINE H == [r \in R |-> FlattenSeq(Mapped(G, F[r]))]
           L(s) == FlattenSeq(Mapped(G, FlattenSeq(Mapped(F, s))))
           P(s) == FlattenSeq(Mapped(H, s))
           S == {s \in Seq(R) : L(s) = P(s)}
<1>1. ASSUME NEW t \in Seq(T)
      PROVE  FlattenSeq(Mapped(G, t)) \in Seq(U)
  <2>1. Mapped(G, t) \in Seq(Seq(U))
    BY MapType DEF Maps
  <2> QED
    BY <2>1, FlattenType
<1>2. ASSUME NEW s \in Seq(R)
      PROVE  FlattenSeq(Mapped(F, s)) \in Seq(T)
  <2>1. Mapped(F, s) \in Seq(Seq(T))
    BY MapType DEF Maps
  <2> QED
    BY <2>1, FlattenType
<1>3. \A r \in R : F[r] \in Seq(T)
  BY DEF Maps
<1>4. Maps(H, R, U)
  <2>1. \A r \in R : FlattenSeq(Mapped(G, F[r])) \in Seq(U)
    BY <1>1, <1>3
  <2> QED
    BY <2>1 DEF Maps
<1>5. \A r \in R : H[r] = FlattenSeq(Mapped(G, F[r]))
  OBVIOUS
<1> HIDE DEF H
<1>6. \A f : Mapped(f, <<>>) = <<>>
  BY DEF Mapped
<1>7. <<>> \in S
  BY <1>6, FlattenEmpty
<1>8. ASSUME NEW s \in Seq(R), NEW r \in R, s \in S
      PROVE  Append(s, r) \in S
  <2>1. PICK one \in Seq(R) : one = <<r>> /\ Append(s, r) = s \o one
    <3>1. <<r>> \in Seq(R) /\ Append(s, r) = s \o <<r>>
      OBVIOUS
    <3> QED
      BY <3>1
  <2>2. Append(s, r) \in Seq(R)
    OBVIOUS
  <2>3. ASSUME NEW f, NEW V, Maps(f, R, V)
        PROVE  FlattenSeq(Mapped(f, one)) = f[r]
    <3>1. Mapped(f, one) = <<f[r]>>
      BY <2>1 DEF Mapped
    <3>2. f[r] \in Seq(V)
      BY <2>3 DEF Maps
    <3> QED
      BY <3>1, <3>2, FlattenOne
  <2>4. FlattenSeq(Mapped(F, s \o one)) = FlattenSeq(Mapped(F, s)) \o F[r]
    <3>1. FlattenSeq(Mapped(F, s \o one)) = FlattenSeq(Mapped(F, s)) \o FlattenSeq(Mapped(F, one))
      BY FlattenMapConcat
    <3> QED
      BY <2>3, <3>1
  <2>5. PICK a \in Seq(T), b \in Seq(T) : a = FlattenSeq(Mapped(F, s)) /\ b = F[r]
    BY <1>2, <1>3
  <2>6. L(s \o one) = FlattenSeq(Mapped(G, a)) \o FlattenSeq(Mapped(G, b))
    <3>1. FlattenSeq(Mapped(G, a \o b)) = FlattenSeq(Mapped(G, a)) \o FlattenSeq(Mapped(G, b))
      BY FlattenMapConcat
    <3> QED
      BY <2>4, <2>5, <3>1
  <2>7. P(s \o one) = P(s) \o H[r]
    <3>1. PICK h : h = H
      OBVIOUS
    <3>2. Maps(h, R, U)
      BY <1>4, <3>1
    <3>3. FlattenSeq(Mapped(h, s \o one)) = FlattenSeq(Mapped(h, s)) \o FlattenSeq(Mapped(h, one))
      BY <3>2, FlattenMapConcat, SMTT(60)
    <3>4. FlattenSeq(Mapped(h, one)) = h[r]
      BY <2>3, <3>2
    <3> QED
      BY <3>1, <3>3, <3>4
  <2>8. L(s) = P(s)
    BY <1>8
  <2> QED
    BY <1>5, <2>1, <2>2, <2>5, <2>6, <2>7, <2>8
<1>9. Seq(R) \subseteq S
  <2> HIDE DEF S
  <2> QED
    BY <1>7, <1>8, SequenceInduction
<1> QED
  BY <1>9 DEF H

\* Nor does what they become one by one.
LEMMA MapFlatten ==
    ASSUME NEW R, NEW T, NEW U, NEW F, Maps(F, R, T), NEW g, Turns(g, T, U), NEW recs \in Seq(R),
           NEW E, E = [r \in R |-> Mapped(g, F[r])]
    PROVE  Mapped(g, FlattenSeq(Mapped(F, recs))) = FlattenSeq(Mapped(E, recs))
<1> DEFINE G == [x \in T |-> <<g[x]>>]
           H == [r \in R |-> FlattenSeq(Mapped(G, F[r]))]
<1>1. Maps(G, T, U) /\ g \in [T -> U]
  BY DEF Maps, Turns
<1>2. ASSUME NEW s \in Seq(T)
      PROVE  FlattenSeq(Mapped(G, s)) = Mapped(g, s)
  <2>1. PICK images \in Seq(U) : images = Mapped(g, s)
    BY <1>1, MapType
  <2>2. DOMAIN images = DOMAIN s /\ \A i \in DOMAIN s : images[i] = g[s[i]] /\ s[i] \in T
    BY <2>1 DEF Mapped
  <2>3. Mapped(G, s) = [i \in DOMAIN images |-> <<images[i]>>]
    BY <2>2 DEF Mapped
  <2> QED
    BY <2>1, <2>3, FlattenSingles
<1>3. FlattenSeq(Mapped(F, recs)) \in Seq(T)
  <2>1. Mapped(F, recs) \in Seq(Seq(T))
    BY MapType DEF Maps
  <2> QED
    BY <2>1, FlattenType
<1> HIDE DEF G
<1>4. FlattenSeq(Mapped(G, FlattenSeq(Mapped(F, recs)))) = FlattenSeq(Mapped(H, recs))
  BY <1>1, FlattenMapFlatten
<1>5. H = E
  <2>1. \A r \in R : F[r] \in Seq(T)
    BY DEF Maps
  <2> QED
    BY <1>2, <2>1
<1> QED
  BY <1>2, <1>3, <1>4, <1>5
=============================================================================
