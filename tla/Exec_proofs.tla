---------------------------- MODULE Exec_proofs ----------------------------
(***************************************************************************)
(* For every order, every fee, every stream of prints and gaps and every   *)
(* grouping of the prints into milliseconds: simulate_batched returns what *)
(* simulate returns, the fill is the first evidence, and a markout reads   *)
(* past the fill's bundle and not past a gap.                              *)
(*                                                                         *)
(* The argument for the first: simulate is ahead of simulate_batched by no *)
(* more than the batch which that holds.  Wherever the batch ends (at a    *)
(* print of another millisecond, a gap or the end) simulate_batched        *)
(* catches up: the first print of the batch that fills is the one simulate *)
(* has stopped at.                                                         *)
(***************************************************************************)
EXTENDS Exec, SequenceLemmas

Prints ==
    [event : {"print"}, seq : Int, price : Int, quantity : Int,
     ts_socket : Int, ts_exchange : Int \cup {None}]

\* The first print of the batch that fills.
First(i) == i \in Filling(batch) /\ \A j \in Filling(batch) : i <= j

Ahead ==
    /\ simulated = Reading => batched = Reading /\ Filling(batch) = {}
    /\ simulated # Reading /\ batched = Reading =>
           \E i \in DOMAIN batch : First(i) /\ simulated = Filled(order, batch[i])
    /\ batched # Reading => simulated = batched

Inv ==
    /\ seq \in Int /\ socket \in Int
    /\ batch \in Seq(Prints)
    /\ ended => simulated # Reading /\ batched # Reading
    /\ Ahead

-----------------------------------------------------------------------------
LEMMA VerdictsAreNotReading ==
    /\ \A reason : Failed(reason) # Reading
    /\ \A reason : Unfilled(reason) # Reading
    /\ \A o, print : Filled(o, print) # Reading
<1>1. Reading.result = "reading"
  BY DEF Reading
<1>2. \A reason : Failed(reason).result = "error" /\ Unfilled(reason).result = "unfilled"
  BY DEF Failed, Unfilled
<1>3. ASSUME NEW o, NEW print
      PROVE  Filled(o, print).result \in {"error", "filled"}
  BY <1>2 DEF Filled
<1> QED
  BY <1>1, <1>2, <1>3

\* What simulate_batched returns at the end of a batch is what simulate has
\* returned already, or else would return now.
LEMMA BatchCatchesUp ==
    ASSUME Inv, batched = Reading, NEW otherwise
    PROVE  /\ simulated = Reading => FillFromBatch(otherwise) = otherwise
           /\ simulated # Reading => FillFromBatch(otherwise) = simulated
<1>1. CASE simulated = Reading
  BY <1>1 DEF Inv, Ahead, FillFromBatch
<1>2. CASE simulated # Reading
  <2>1. PICK i \in DOMAIN batch : First(i) /\ simulated = Filled(order, batch[i])
    BY <1>2 DEF Inv, Ahead
  <2>2. Filling(batch) # {} /\ Filling(batch) \subseteq Int
    BY <2>1 DEF First, Filling, Inv
  <2> DEFINE chosen == CHOOSE k \in Filling(batch) : \A j \in Filling(batch) : k <= j
  <2>3. chosen \in Filling(batch) /\ \A j \in Filling(batch) : chosen <= j
    BY <2>1 DEF First
  <2>4. chosen = i
    <3> HIDE DEF chosen
    <3> QED
      BY <2>1, <2>2, <2>3 DEF First
  <2> QED
    BY <1>2, <2>1, <2>2, <2>4 DEF FillFromBatch
<1> QED
  BY <1>1, <1>2

LEMMA InitInv == Init => Inv
<1> SUFFICES ASSUME Init
    PROVE  Inv
  OBVIOUS
<1>1. Filling(batch) = {}
  BY DEF Init, Filling
<1>2. batch \in Seq(Prints)
  BY DEF Init
<1>3. simulated = batched /\ ended = FALSE
  BY DEF Init
<1> QED
  BY <1>1, <1>2, <1>3 DEF Init, Inv, Ahead

-----------------------------------------------------------------------------
\* The steps, once with the print that is read and once with a gap.
LEMMA OnTradeInv ==
    ASSUME Inv, NEW print \in Prints, OnTrade(print), seq' \in Int, socket' \in Int
    PROVE  Inv'
<1>1. print # Gap
  BY DEF Prints, Gap
<1>2. order' = order /\ ~ended /\ ~ended'
  BY DEF OnTrade, Collect
<1>3. /\ simulated # Reading => simulated' = simulated
      /\ simulated = Reading /\ Fills(order, print) => simulated' = Filled(order, print)
      /\ simulated = Reading /\ ~Fills(order, print) => simulated' = Reading
  BY <1>1 DEF OnTrade, Collect, Simulate
<1>4. CASE BatchedJoin(print)
  <2>1. batched = Reading /\ batched' = Reading /\ batch' = Append(batch, print)
    BY <1>4 DEF BatchedJoin
  <2>2. batch \in Seq(Prints) /\ batch' \in Seq(Prints)
    BY <2>1 DEF Inv
  <2>3. PICK n \in Nat :
            /\ DOMAIN batch' = DOMAIN batch \cup {n}
            /\ \A i \in DOMAIN batch : batch'[i] = batch[i] /\ i < n
            /\ batch'[n] = print
    <3>1. Len(batch) + 1 \in Nat
      BY <2>2
    <3> QED
      BY <2>1, <2>2, <3>1
  <2>4. Filling(batch)' = Filling(batch) \cup (IF Fills(order, print) THEN {n} ELSE {})
    BY <1>2, <2>3 DEF Filling
  <2>5. simulated' = Reading => Filling(batch)' = {}
    BY <1>3, <2>4, VerdictsAreNotReading DEF Inv, Ahead
  <2>6. ASSUME simulated' # Reading
        PROVE  \E i \in DOMAIN batch' : First(i)' /\ simulated' = Filled(order, batch[i])'
    <3>1. CASE simulated = Reading
      <4>1. Fills(order, print) /\ Filling(batch) = {} /\ simulated' = Filled(order, print)
        BY <1>3, <2>6, <3>1 DEF Inv, Ahead
      <4>2. Filling(batch)' = {n}
        BY <2>4, <4>1
      <4>3. First(n)'
        BY <2>3, <4>2 DEF First
      <4> QED
        BY <1>2, <2>3, <4>1, <4>3
    <3>2. CASE simulated # Reading
      <4>1. PICK i \in DOMAIN batch : First(i) /\ simulated = Filled(order, batch[i])
        BY <2>1, <3>2 DEF Inv, Ahead
      <4>2. i \in Nat /\ i <= n
        BY <2>2, <2>3, <4>1
      <4>3. First(i)'
        BY <2>4, <4>1, <4>2 DEF First
      <4> QED
        BY <1>2, <1>3, <2>3, <3>2, <4>1, <4>3
    <3> QED
      BY <3>1, <3>2
  <2> QED
    BY <1>2, <2>1, <2>2, <2>5, <2>6 DEF Inv, Ahead
<1>5. CASE BatchedStart(print)
  <2>1. /\ batched = Reading
        /\ batched' = FillFromBatch(Reading)
        /\ batch' = <<print>>
    BY <1>5 DEF BatchedStart
  <2>2. batch' \in Seq(Prints) /\ DOMAIN batch' = {1} /\ batch'[1] = print
    BY <2>1
  <2>3. Filling(batch)' = IF Fills(order, print) THEN {1} ELSE {}
    BY <1>2, <2>2 DEF Filling
  <2>4. CASE simulated = Reading
    <3>1. batched' = Reading
      BY <2>1, <2>4, BatchCatchesUp
    <3>2. simulated' = Reading => Filling(batch)' = {}
      BY <1>3, <2>3, <2>4, VerdictsAreNotReading
    <3>3. simulated' # Reading =>
              \E i \in DOMAIN batch' : First(i)' /\ simulated' = Filled(order, batch[i])'
      BY <1>2, <1>3, <2>2, <2>3, <2>4 DEF First
    <3> QED
      BY <1>2, <2>2, <3>1, <3>2, <3>3 DEF Inv, Ahead
  <2>5. CASE simulated # Reading
    <3>1. batched' = simulated /\ simulated' = simulated
      BY <1>3, <2>1, <2>5, BatchCatchesUp
    <3> QED
      BY <1>2, <2>2, <2>5, <3>1 DEF Inv, Ahead
  <2> QED
    BY <2>4, <2>5
<1>6. CASE BatchedReturned
  <2>1. batched # Reading /\ UNCHANGED <<batch, batched>> /\ simulated = batched
    BY <1>6 DEF BatchedReturned, Inv, Ahead
  <2> QED
    BY <1>2, <1>3, <2>1 DEF Inv, Ahead
<1> QED
  BY <1>4, <1>5, <1>6 DEF OnTrade

LEMMA OnGapInv ==
    ASSUME Inv, OnGap
    PROVE  Inv'
<1>1. /\ order' = order /\ ~ended' /\ seq' \in Int /\ socket' \in Int
      /\ simulated' = IF simulated # Reading THEN simulated ELSE Unfilled("voided_by_gap")
  BY DEF OnGap, Collect, Simulate, Inv
<1>2. simulated' # Reading
  BY <1>1, VerdictsAreNotReading
<1>3. batch' = batch
  BY DEF OnGap, BatchedGap, BatchedReturned
<1>4. batched' = simulated'
  <2>1. CASE BatchedGap
    BY <1>1, <2>1, BatchCatchesUp DEF BatchedGap
  <2>2. CASE BatchedReturned
    BY <1>1, <2>2 DEF BatchedReturned, Inv, Ahead
  <2> QED
    BY <2>1, <2>2 DEF OnGap
<1> QED
  BY <1>1, <1>2, <1>3, <1>4 DEF Inv, Ahead

LEMMA EndInv ==
    ASSUME Inv, End
    PROVE  Inv'
<1>1. /\ order' = order /\ batch' = batch /\ seq' = seq /\ socket' = socket
      /\ simulated' = IF simulated = Reading THEN Unfilled("no_through_print") ELSE simulated
      /\ batched' = IF batched = Reading THEN FillFromBatch(Unfilled("no_through_print"))
                    ELSE batched
  BY DEF End
<1>2. simulated' # Reading
  BY <1>1, VerdictsAreNotReading
<1>3. batched' = simulated'
  <2>1. CASE batched = Reading
    BY <1>1, <2>1, BatchCatchesUp
  <2>2. CASE batched # Reading
    BY <1>1, <2>2 DEF Inv, Ahead
  <2> QED
    BY <2>1, <2>2
<1> QED
  BY <1>1, <1>2, <1>3 DEF Inv, Ahead

LEMMA NextInv == Inv /\ [Next]_vars => Inv'
<1> SUFFICES ASSUME Inv, [Next]_vars
    PROVE  Inv'
  OBVIOUS
<1>1. ASSUME NEW price \in Prices, NEW quantity \in Quantities, NEW time \in ExchangeTimes,
             NEW step \in ClockSteps, FirstPrint(price, quantity, time, step)
      PROVE  Inv'
  <2>1. seq' \in Int /\ socket' \in Int
    BY <1>1, ExecAssumption DEF FirstPrint, Inv
  <2>2. TimedPrint(seq', price, quantity, socket', time) \in Prints
    BY <2>1, ExecAssumption DEF TimedPrint, Prints
  <2> QED
    BY <1>1, <2>1, <2>2, OnTradeInv DEF FirstPrint
<1>2. ASSUME NEW price \in Prices, NEW quantity \in Quantities, NEW time \in ExchangeTimes,
             NextPrint(price, quantity, time)
      PROVE  Inv'
  <2>1. seq' \in Int /\ socket' \in Int /\ seq \in Int /\ socket \in Int
    BY <1>2 DEF NextPrint, Inv
  <2>2. TimedPrint(seq, price, quantity, socket, time) \in Prints
    BY <2>1, ExecAssumption DEF TimedPrint, Prints
  <2> QED
    BY <1>2, <2>1, <2>2, OnTradeInv DEF NextPrint
<1>3. CASE UNCHANGED vars
  BY <1>3 DEF vars, Inv, Ahead, First, Filling
<1> QED
  BY <1>1, <1>2, <1>3, OnGapInv, EndInv DEF Next

\* simulate and simulate_batched agree on every stream: BatchedAgrees, for all
\* orders, fees, prints, clocks and lengths.
THEOREM BatchedAgreesTheorem == Spec => []BatchedAgrees
<1>1. Inv => BatchedAgrees
  BY DEF Inv, Ahead, BatchedAgrees
<1> QED
  BY InitInv, NextInv, <1>1, PTL DEF Spec

-----------------------------------------------------------------------------
\* The verdict as it stands: what FillIsTheFirstEvidence says of the end, said of
\* every state.
Verdict ==
    IF Unbroken # {} THEN Filled(order, events[Earliest(Unbroken)])
    ELSE IF Holes # {} THEN Unfilled("voided_by_gap")
    ELSE IF ended THEN Unfilled("no_through_print")
    ELSE Reading

EvidenceInv ==
    /\ order \in Orders
    /\ events \in Seq(Prints \cup {Gap})
    /\ seq \in Int /\ socket \in Int
    /\ Unbroken # {} => \E i \in Unbroken : \A j \in Unbroken : i <= j
    /\ ValidOrder(order) => simulated = Verdict

\* The least of a set of positions, when the set grows by a greater one.
LEMMA EarliestStays ==
    ASSUME NEW positions \in SUBSET Nat, NEW n \in Nat, NEW i \in positions,
           \A j \in positions : i <= j,
           \A j \in positions : j < n
    PROVE  Earliest(positions \cup {n}) = i /\ Earliest(positions) = i
<1>1. \A more \in SUBSET {n} :
          \A k \in positions \cup more :
              (\A j \in positions \cup more : k <= j) <=> k = i
  <2> SUFFICES ASSUME NEW more \in SUBSET {n}, NEW k \in positions \cup more
      PROVE  (\A j \in positions \cup more : k <= j) <=> k = i
    OBVIOUS
  <2>1. i <= n /\ k \in Nat /\ i \in Nat
    OBVIOUS
  <2>2. \A j \in positions \cup more : i <= j
    BY <2>1
  <2>3. ASSUME \A j \in positions \cup more : k <= j
        PROVE  k = i
    <3>1. k <= i /\ i <= k
      BY <2>2, <2>3
    <3> QED
      BY <2>1, <3>1
  <2> QED
    BY <2>2, <2>3
<1>2. \A k \in positions \cup {n} : (\A j \in positions \cup {n} : k <= j) <=> k = i
  BY <1>1
<1>3. \A k \in positions : (\A j \in positions : k <= j) <=> k = i
  <2>1. positions \cup {} = positions
    OBVIOUS
  <2> QED
    BY <1>1, <2>1
<1>4. Earliest(positions \cup {n}) = i
  BY <1>2 DEF Earliest
<1>5. Earliest(positions) = i
  BY <1>3 DEF Earliest
<1> QED
  BY <1>4, <1>5

LEMMA CollectEvidence ==
    ASSUME EvidenceInv, NEW e \in Prints \cup {Gap}, Collect(e), seq' \in Int, socket' \in Int
    PROVE  EvidenceInv'
<1>1. order' = order /\ ~ended /\ ~ended' /\ order \in Orders
  BY DEF Collect, EvidenceInv
<1>2. events \in Seq(Prints \cup {Gap}) /\ events' = Append(events, e)
  BY DEF Collect, EvidenceInv
<1>3. PICK n \in Nat :
          /\ DOMAIN events' = DOMAIN events \cup {n}
          /\ \A i \in DOMAIN events : events'[i] = events[i] /\ i < n /\ i \in Nat
          /\ events'[n] = e
  <2>1. Len(events) + 1 \in Nat
    BY <1>2
  <2> QED
    BY <1>2, <2>1
<1>4. events' \in Seq(Prints \cup {Gap})
  BY <1>2
<1>5. \A print : Shows(print)' <=> Shows(print)
  BY <1>1 DEF Shows
<1>6. Holes' = Holes \cup (IF e = Gap THEN {n} ELSE {})
  BY <1>3 DEF Holes
<1>7. Evidence' = Evidence \cup (IF e # Gap /\ Shows(e) THEN {n} ELSE {})
  BY <1>3, <1>5 DEF Evidence
<1>8. Holes \subseteq DOMAIN events /\ Unbroken \subseteq Evidence /\ Evidence \subseteq DOMAIN events
  BY DEF Holes, Evidence, Unbroken
<1>9. Unbroken' = Unbroken \cup (IF e # Gap /\ Shows(e) /\ Holes = {} THEN {n} ELSE {})
  <2>1. Unbroken' = {i \in Evidence' : \A j \in Holes' : i < j}
    BY DEF Unbroken
  <2>2. \A i \in Evidence : i < n
    BY <1>3, <1>8
  <2>3. \A j \in Holes : ~(n < j)
    BY <1>3, <1>8
  <2>4. CASE e = Gap
    BY <1>6, <1>7, <2>1, <2>2, <2>4 DEF Unbroken
  <2>5. CASE e # Gap
    BY <1>6, <1>7, <2>1, <2>3, <2>5 DEF Unbroken
  <2> QED
    BY <2>4, <2>5
<1>10. ASSUME ValidOrder(order), e # Gap
       PROVE  Shows(e) <=> Fills(order, e)
  <2>1. /\ order.price \in Int /\ order.side \in {"buy", "sell"}
        /\ e.price \in Int /\ e.quantity \in Int
    BY <1>1, <1>10, ExecAssumption DEF Prints
  <2> QED
    BY <2>1 DEF Shows, Fills, IsSound, IsThrough
<1>11. ASSUME ValidOrder(order)
       PROVE  simulated' = Verdict'
  <2>1. simulated = Verdict
    BY <1>11 DEF EvidenceInv
  <2>2. simulated' = IF simulated # Reading THEN simulated
                     ELSE IF e = Gap THEN Unfilled("voided_by_gap")
                     ELSE IF Shows(e) THEN Filled(order, e)
                     ELSE Reading
    BY <1>10, <1>11 DEF Collect, Simulate
  <2>3. CASE Unbroken # {}
    <3>1. Unbroken \in SUBSET Nat /\ \A j \in Unbroken : j < n
      BY <1>3, <1>8
    <3>2. PICK i \in Unbroken : \A j \in Unbroken : i <= j
      BY <2>3 DEF EvidenceInv
    <3>3. Earliest(Unbroken) = i /\ Earliest(Unbroken \cup {n}) = i
      BY <3>1, <3>2, EarliestStays
    <3>4. Earliest(Unbroken') = i /\ Unbroken' # {}
      BY <1>9, <2>3, <3>3
    <3>5. events'[i] = events[i]
      BY <1>3, <1>8, <3>2
    <3>6. simulated = Filled(order, events[i]) /\ Verdict' = Filled(order, events[i])
      BY <1>1, <2>1, <2>3, <3>3, <3>4, <3>5 DEF Verdict
    <3> QED
      BY <2>2, <3>6, VerdictsAreNotReading
  <2>4. CASE Unbroken = {} /\ Holes # {}
    <3>1. Unbroken' = {} /\ Holes' # {}
      BY <1>6, <1>9, <2>4
    <3>2. simulated = Unfilled("voided_by_gap") /\ Verdict' = Unfilled("voided_by_gap")
      BY <2>1, <2>4, <3>1 DEF Verdict
    <3> QED
      BY <2>2, <3>2, VerdictsAreNotReading
  <2>5. CASE Unbroken = {} /\ Holes = {}
    <3>1. simulated = Reading
      BY <1>1, <2>1, <2>5 DEF Verdict
    <3>2. CASE e = Gap
      BY <1>6, <1>9, <2>2, <2>5, <3>1, <3>2 DEF Verdict
    <3>3. CASE e # Gap /\ Shows(e)
      <4>1. Unbroken' = {n} /\ Earliest({n}) = n
        BY <1>9, <2>5, <3>3 DEF Earliest
      <4> QED
        BY <1>1, <1>3, <2>2, <3>1, <3>3, <4>1 DEF Verdict
    <3>4. CASE e # Gap /\ ~Shows(e)
      BY <1>1, <1>6, <1>9, <2>2, <2>5, <3>1, <3>4 DEF Verdict
    <3> QED
      BY <3>2, <3>3, <3>4
  <2> QED
    BY <2>3, <2>4, <2>5
<1>12. Unbroken' # {} => \E i \in Unbroken' : \A j \in Unbroken' : i <= j
  <2>1. CASE Unbroken = {}
    BY <1>9, <2>1
  <2>2. CASE Unbroken # {}
    <3>1. PICK i \in Unbroken : \A j \in Unbroken : i <= j
      BY <2>2 DEF EvidenceInv
    <3>2. i \in Nat /\ i <= n
      BY <1>3, <1>8, <3>1
    <3> QED
      BY <1>9, <3>1, <3>2
  <2> QED
    BY <2>1, <2>2
<1> QED
  BY <1>1, <1>4, <1>11, <1>12 DEF EvidenceInv

LEMMA NextEvidence == EvidenceInv /\ [Next]_vars => EvidenceInv'
<1> SUFFICES ASSUME EvidenceInv, [Next]_vars
    PROVE  EvidenceInv'
  OBVIOUS
<1>1. ASSUME NEW price \in Prices, NEW quantity \in Quantities, NEW time \in ExchangeTimes,
             NEW step \in ClockSteps, FirstPrint(price, quantity, time, step)
      PROVE  EvidenceInv'
  <2>1. seq' \in Int /\ socket' \in Int
    BY <1>1, ExecAssumption DEF FirstPrint, EvidenceInv
  <2>2. TimedPrint(seq', price, quantity, socket', time) \in Prints
    BY <2>1, ExecAssumption DEF TimedPrint, Prints
  <2> QED
    BY <1>1, <2>1, <2>2, CollectEvidence DEF FirstPrint, OnTrade
<1>2. ASSUME NEW price \in Prices, NEW quantity \in Quantities, NEW time \in ExchangeTimes,
             NextPrint(price, quantity, time)
      PROVE  EvidenceInv'
  <2>1. seq' \in Int /\ socket' \in Int /\ seq \in Int /\ socket \in Int
    BY <1>2 DEF NextPrint, EvidenceInv
  <2>2. TimedPrint(seq, price, quantity, socket, time) \in Prints
    BY <2>1, ExecAssumption DEF TimedPrint, Prints
  <2> QED
    BY <1>2, <2>1, <2>2, CollectEvidence DEF NextPrint, OnTrade
<1>3. CASE OnGap
  <2>1. seq' \in Int /\ socket' \in Int
    BY <1>3 DEF OnGap, EvidenceInv
  <2> QED
    BY <1>3, <2>1, CollectEvidence DEF OnGap
<1>4. CASE End
  <2>1. UNCHANGED <<order, events, seq, socket>> /\ ~ended /\ ended'
    BY <1>4 DEF End
  <2>2. Holes' = Holes /\ Unbroken' = Unbroken
    BY <2>1 DEF Holes, Unbroken, Evidence, Shows
  <2>3. simulated' = IF simulated = Reading THEN Unfilled("no_through_print") ELSE simulated
    BY <1>4 DEF End
  <2>4. ValidOrder(order) => simulated' = Verdict'
    BY <2>1, <2>2, <2>3, VerdictsAreNotReading DEF EvidenceInv, Verdict
  <2> QED
    BY <2>1, <2>2, <2>4 DEF EvidenceInv
<1>5. CASE UNCHANGED vars
  BY <1>5 DEF vars, EvidenceInv, Verdict, Holes, Unbroken, Evidence, Shows
<1> QED
  BY <1>1, <1>2, <1>3, <1>4, <1>5 DEF Next

LEMMA InitEvidence == Init => EvidenceInv
<1> SUFFICES ASSUME Init
    PROVE  EvidenceInv
  OBVIOUS
<1>1. Holes = {} /\ Unbroken = {} /\ ended = FALSE
  BY DEF Init, Holes, Unbroken, Evidence
<1>2. ValidOrder(order) => simulated = Verdict
  BY <1>1 DEF Init, Opened, Verdict
<1> QED
  BY <1>1, <1>2 DEF Init, EvidenceInv

\* No print, no fill, and no fill across a hole: FillIsTheFirstEvidence, for all
\* orders, prints and lengths.
THEOREM FillIsTheFirstEvidenceTheorem == Spec => []FillIsTheFirstEvidence
<1>1. EvidenceInv => FillIsTheFirstEvidence
  BY DEF EvidenceInv, Verdict, FillIsTheFirstEvidence
<1> QED
  BY InitEvidence, NextEvidence, <1>1, PTL DEF Spec

-----------------------------------------------------------------------------
(* Types, and with them what the markouts rest on.                         *)

\* An order that is not sound is an error and stays one.
Opening == ~ValidOrder(order) => simulated = Failed("invalid order")

\* The prints of a record are next to each other: prints of one seq have only
\* prints of that seq and time between them, and nothing is newer than seq.
Bundles ==
    /\ \A i \in DOMAIN events :
           events[i] # Gap =>
               /\ events[i].seq <= seq
               /\ events[i].seq = seq =>
                      \A k \in i..Len(events) : events[k] # Gap /\ events[k].ts_socket = socket
    /\ \A i, j \in DOMAIN events :
           i <= j /\ events[i] # Gap /\ events[j] # Gap /\ events[i].seq = events[j].seq =>
               \A k \in i..j : events[k] # Gap /\ events[k].ts_socket = events[i].ts_socket

TypeInv ==
    /\ TypeOK
    /\ EvidenceInv
    /\ Inv
    /\ Opening

LEMMA Results ==
    /\ Reading.result = "reading"
    /\ \A reason : Failed(reason).result = "error" /\ Unfilled(reason).result = "unfilled"
    /\ \A o, print : Filled(o, print).result \in {"error", "filled"}
<1>1. \A reason : Failed(reason).result = "error" /\ Unfilled(reason).result = "unfilled"
  BY DEF Failed, Unfilled
<1>2. ASSUME NEW o, NEW print
      PROVE  Filled(o, print).result \in {"error", "filled"}
  BY <1>1 DEF Filled
<1> QED
  BY <1>1, <1>2 DEF Reading

LEMMA InitTypes == Init => TypeInv
<1> SUFFICES ASSUME Init
    PROVE  TypeInv
  OBVIOUS
<1>1. /\ order \in Orders /\ events = <<>> /\ batch = <<>> /\ batchKey = None /\ ended = FALSE
      /\ simulated = Opened(order) /\ batched = Opened(order)
  BY DEF Init
<1>2. Opened(order).result \in {"reading", "error"}
  BY Results DEF Opened
<1>3. Len(events) = 0 /\ Len(batch) = 0 /\ 0 <= MaxEvents
  BY <1>1, ExecAssumption
<1>4. TypeOK
  <2>1. \A o \in {simulated, batched} : o.result \in {"reading", "error", "unfilled", "filled"}
    BY <1>1, <1>2
  <2>2. Len(events) <= MaxEvents /\ Len(batch) <= Len(events)
    BY <1>3
  <2>3. ended \in BOOLEAN /\ ~ended /\ order \in Orders /\ batchKey = None
    BY <1>1
  <2> QED
    BY <2>1, <2>2, <2>3 DEF TypeOK
<1>5. Opening
  BY <1>1 DEF Opening, Opened
<1> QED
  BY <1>4, <1>5, InitInv, InitEvidence DEF TypeInv

\* What a batch returns when it ends is a verdict or what it was given.
LEMMA BatchResult ==
    ASSUME NEW otherwise
    PROVE  \/ FillFromBatch(otherwise) = otherwise
           \/ FillFromBatch(otherwise).result \in {"error", "filled"}
BY Results DEF FillFromBatch

LEMMA CollectTypes ==
    ASSUME TypeInv, NEW e \in Prints \cup {Gap}, Collect(e),
           \/ e = Gap /\ (BatchedGap \/ BatchedReturned)
           \/ e \in Prints /\ (BatchedJoin(e) \/ BatchedStart(e) \/ BatchedReturned)
    PROVE  TypeOK' /\ Opening'
<1>1. /\ order' = order /\ order \in Orders /\ ended' = ended /\ ended = FALSE
      /\ Len(events) < MaxEvents /\ events' = Append(events, e)
  BY DEF Collect, TypeInv, TypeOK
<1>2. events \in Seq(Prints \cup {Gap}) /\ batch \in Seq(Prints)
  BY DEF TypeInv, EvidenceInv, Inv
<1>3. Len(events') = Len(events) + 1 /\ Len(events) \in Nat /\ Len(batch) \in Nat
  BY <1>1, <1>2
<1>4. Len(events') <= MaxEvents
  BY <1>1, <1>3, ExecAssumption
<1>5. Len(batch) <= Len(events) /\ batchKey \in Int \cup {None}
  BY DEF TypeInv, TypeOK
<1>6. Len(batch') <= Len(events')
  <2>1. Len(Append(batch, e)) = Len(batch) + 1 \/ e = Gap
    BY <1>2
  <2>2. batch' = batch \/ (e \in Prints /\ batch' = Append(batch, e)) \/ batch' = <<e>>
    BY DEF BatchedGap, BatchedReturned, BatchedJoin, BatchedStart
  <2>3. e \in Prints => e # Gap
    BY DEF Prints, Gap
  <2>4. Len(batch') \in {Len(batch), Len(batch) + 1, 1}
    <3>1. Len(<<e>>) = 1
      OBVIOUS
    <3> QED
      BY <2>1, <2>2, <2>3, <3>1
  <2> QED
    BY <1>3, <1>5, <2>4
<1>7. batchKey' \in Int \cup {None}
  <2>1. CASE e = Gap \/ ~BatchedStart(e)
    BY <1>5, <2>1 DEF BatchedGap, BatchedReturned, BatchedJoin, Prints, Gap
  <2>2. CASE e \in Prints /\ BatchedStart(e)
    <3>1. e.ts_exchange \in Int \cup {None} /\ batchKey' = KeyOf(e)
      BY <2>2 DEF Prints, BatchedStart
    <3>2. e.ts_exchange \in Int => e.ts_exchange \div Millisecond \in Int
      BY ExecAssumption
    <3> QED
      BY <3>1, <3>2 DEF KeyOf
  <2> QED
    BY <2>1, <2>2 DEF Prints, Gap
<1>8. simulated'.result \in {"reading", "error", "unfilled", "filled"}
  <2>1. simulated.result \in {"reading", "error", "unfilled", "filled"}
    BY DEF TypeInv, TypeOK
  <2> QED
    BY <2>1, Results DEF Collect, Simulate
<1>9. batched'.result \in {"reading", "error", "unfilled", "filled"}
  <2>1. batched.result \in {"reading", "error", "unfilled", "filled"}
    BY DEF TypeInv, TypeOK
  <2>2. \/ batched' = batched
        \/ batched' = FillFromBatch(Unfilled("voided_by_gap"))
        \/ batched' = FillFromBatch(Reading)
    BY DEF BatchedGap, BatchedReturned, BatchedJoin, BatchedStart
  <2> QED
    BY <2>1, <2>2, Results, BatchResult
<1>10. TypeOK'
  BY <1>1, <1>4, <1>6, <1>7, <1>8, <1>9 DEF TypeOK
<1>11. Opening'
  <2>1. ~ValidOrder(order) => simulated' = simulated
    BY VerdictsAreNotReading DEF TypeInv, Opening, Collect, Simulate
  <2> QED
    BY <1>1, <2>1 DEF TypeInv, Opening
<1> QED
  BY <1>10, <1>11

LEMMA NextTypes == TypeInv /\ [Next]_vars => TypeInv'
<1> SUFFICES ASSUME TypeInv, [Next]_vars
    PROVE  TypeOK' /\ Opening'
  BY NextInv, NextEvidence DEF TypeInv
<1>1. seq \in Int /\ socket \in Int
  BY DEF TypeInv, Inv
<1>2. ASSUME NEW price \in Prices, NEW quantity \in Quantities, NEW time \in ExchangeTimes,
             NEW step \in ClockSteps, FirstPrint(price, quantity, time, step)
      PROVE  TypeOK' /\ Opening'
  <2>1. TimedPrint(seq', price, quantity, socket', time) \in Prints
    BY <1>1, <1>2, ExecAssumption DEF FirstPrint, TimedPrint, Prints
  <2> QED
    BY <1>2, <2>1, CollectTypes DEF FirstPrint, OnTrade
<1>3. ASSUME NEW price \in Prices, NEW quantity \in Quantities, NEW time \in ExchangeTimes,
             NextPrint(price, quantity, time)
      PROVE  TypeOK' /\ Opening'
  <2>1. TimedPrint(seq, price, quantity, socket, time) \in Prints
    BY <1>1, ExecAssumption DEF TimedPrint, Prints
  <2> QED
    BY <1>3, <2>1, CollectTypes DEF NextPrint, OnTrade
<1>4. CASE OnGap
  BY <1>4, CollectTypes DEF OnGap
<1>5. CASE End
  <2>1. /\ UNCHANGED <<order, events, batch, batchKey>> /\ ended' = TRUE
        /\ simulated' = IF simulated = Reading THEN Unfilled("no_through_print") ELSE simulated
        /\ batched' = IF batched = Reading THEN FillFromBatch(Unfilled("no_through_print"))
                      ELSE batched
    BY <1>5 DEF End
  <2>2. Reading \notin {simulated', batched'}
    <3>1. Inv'
      BY NextInv DEF TypeInv
    <3> QED
      BY <2>1, <3>1 DEF Inv
  <2>3. /\ simulated'.result \in {"reading", "error", "unfilled", "filled"}
        /\ batched'.result \in {"reading", "error", "unfilled", "filled"}
    BY <2>1, Results, BatchResult DEF TypeInv, TypeOK
  <2>4. TypeOK'
    BY <2>1, <2>2, <2>3 DEF TypeInv, TypeOK
  <2>5. Opening'
    BY <2>1, VerdictsAreNotReading DEF TypeInv, Opening
  <2> QED
    BY <2>4, <2>5
<1>6. CASE UNCHANGED vars
  BY <1>6 DEF vars, TypeInv, TypeOK, Opening
<1> QED
  BY <1>2, <1>3, <1>4, <1>5, <1>6 DEF Next

\* TypeOK, for all orders, prints, clocks and lengths.
THEOREM TypeCorrect == Spec => []TypeOK
<1>1. TypeInv => TypeOK
  BY DEF TypeInv
<1> QED
  BY InitTypes, NextTypes, <1>1, PTL DEF Spec

-----------------------------------------------------------------------------
(* The markouts.                                                           *)

\* Bundles, when an event is collected: seq stays with the print of the record
\* before, or moves on.
LEMMA CollectBundles ==
    ASSUME TypeInv, Bundles, NEW e \in Prints \cup {Gap}, events' = Append(events, e),
           seq' \in Int, socket' \in Int,
           e # Gap => e.seq = seq' /\ e.ts_socket = socket',
           \/ seq' = seq + 1
           \/ e # Gap /\ seq' = seq /\ socket' = socket
    PROVE  Bundles'
<1>1. events \in Seq(Prints \cup {Gap}) /\ seq \in Int
  BY DEF TypeInv, EvidenceInv
<1>2. /\ Len(events) \in Nat /\ Len(events') = Len(events) + 1
      /\ DOMAIN events = 1..Len(events) /\ DOMAIN events' = 1..Len(events')
      /\ \A i \in 1..Len(events) : events'[i] = events[i]
      /\ events'[Len(events')] = e
  BY <1>1
<1>3. \A i \in 1..Len(events) : events[i] # Gap => events[i].seq \in Int
  BY <1>1 DEF Prints
<1> DEFINE n == Len(events')
<1>4. ASSUME NEW i \in DOMAIN events', events'[i] # Gap
      PROVE  /\ events'[i].seq <= seq'
             /\ events'[i].seq = seq' =>
                    \A k \in i..n : events'[k] # Gap /\ events'[k].ts_socket = socket'
  <2>1. CASE i = n
    BY <1>2, <1>4, <2>1
  <2>2. CASE i # n
    <3>1. i \in 1..Len(events) /\ events'[i] = events[i]
      BY <1>2, <2>2
    <3>2. events[i].seq \in Int /\ events[i].seq <= seq
      BY <1>2, <1>3, <1>4, <3>1 DEF Bundles
    <3>3. CASE seq' = seq + 1
      BY <1>1, <3>1, <3>2, <3>3
    <3>4. CASE e # Gap /\ seq' = seq /\ socket' = socket
      <4>1. ASSUME events'[i].seq = seq', NEW k \in i..n
            PROVE  events'[k] # Gap /\ events'[k].ts_socket = socket'
        <5>1. CASE k = n
          BY <1>2, <3>4, <5>1
        <5>2. CASE k # n
          <6>1. k \in i..Len(events) /\ events'[k] = events[k]
            BY <1>2, <3>1, <5>2
          <6> QED
            BY <1>2, <1>4, <3>1, <3>4, <4>1, <6>1 DEF Bundles
        <5> QED
          BY <5>1, <5>2
      <4> QED
        BY <3>1, <3>2, <3>4, <4>1
    <3> QED
      BY <3>3, <3>4
  <2> QED
    BY <2>1, <2>2
<1>5. ASSUME NEW i \in DOMAIN events', NEW j \in DOMAIN events', i <= j,
             events'[i] # Gap, events'[j] # Gap, events'[i].seq = events'[j].seq,
             NEW k \in i..j
      PROVE  events'[k] # Gap /\ events'[k].ts_socket = events'[i].ts_socket
  <2>1. CASE j = n
    <3>1. e # Gap /\ events'[i].seq = seq'
      BY <1>2, <1>5, <2>1
    <3>2. i \in i..n /\ k \in i..n
      BY <1>2, <1>5, <2>1
    <3> QED
      BY <1>4, <1>5, <3>1, <3>2
  <2>2. CASE j # n
    <3>1. /\ i \in DOMAIN events /\ j \in DOMAIN events /\ k \in DOMAIN events
          /\ events'[i] = events[i] /\ events'[j] = events[j] /\ events'[k] = events[k]
      BY <1>2, <1>5, <2>2
    <3> QED
      BY <1>5, <3>1 DEF Bundles
  <2> QED
    BY <2>1, <2>2
<1> QED
  BY <1>4, <1>5 DEF Bundles

LEMMA NextBundles == TypeInv /\ Bundles /\ [Next]_vars => Bundles'
<1> SUFFICES ASSUME TypeInv, Bundles, [Next]_vars
    PROVE  Bundles'
  OBVIOUS
<1>1. seq \in Int /\ socket \in Int
  BY DEF TypeInv, Inv
<1>2. ASSUME NEW price \in Prices, NEW quantity \in Quantities, NEW time \in ExchangeTimes,
             NEW step \in ClockSteps, FirstPrint(price, quantity, time, step)
      PROVE  Bundles'
  <2> DEFINE e == TimedPrint(seq', price, quantity, socket', time)
  <2>1. /\ e \in Prints /\ e # Gap /\ e.seq = seq' /\ e.ts_socket = socket'
        /\ seq' \in Int /\ socket' \in Int
    BY <1>1, <1>2, ExecAssumption DEF FirstPrint, TimedPrint, Prints, Gap
  <2>2. events' = Append(events, e) /\ seq' = seq + 1
    BY <1>2 DEF FirstPrint, OnTrade, Collect
  <2> QED
    BY <2>1, <2>2, CollectBundles
<1>3. ASSUME NEW price \in Prices, NEW quantity \in Quantities, NEW time \in ExchangeTimes,
             NextPrint(price, quantity, time)
      PROVE  Bundles'
  <2> DEFINE e == TimedPrint(seq, price, quantity, socket, time)
  <2>1. seq' = seq /\ socket' = socket /\ events' = Append(events, e)
    BY <1>3 DEF NextPrint, OnTrade, Collect
  <2>2. e \in Prints /\ e # Gap /\ e.seq = seq /\ e.ts_socket = socket
    BY <1>1, ExecAssumption DEF TimedPrint, Prints, Gap
  <2> QED
    BY <1>1, <2>1, <2>2, CollectBundles
<1>4. CASE OnGap
  <2>1. seq' = seq + 1 /\ socket' = socket /\ events' = Append(events, Gap)
    BY <1>4 DEF OnGap, Collect
  <2> QED
    BY <1>1, <2>1, CollectBundles
<1>5. CASE End
  BY <1>5 DEF End, Bundles
<1>6. CASE UNCHANGED vars
  BY <1>6 DEF vars, Bundles
<1> QED
  BY <1>2, <1>3, <1>4, <1>5, <1>6 DEF Next

\* Earliest is the least of the positions.
LEMMA EarliestIsLeast ==
    ASSUME NEW positions \in SUBSET Nat, positions # {}
    PROVE  Earliest(positions) \in positions /\ \A j \in positions : Earliest(positions) <= j
BY LeastNatural DEF Earliest

\* The order was filled by the first evidence, and a fill looked up by its seq is
\* that print or one of its bundle before it.
LEMMA FillOfABundle ==
    ASSUME TypeInv, Bundles, simulated.result = "filled"
    PROVE  LET fill == Earliest(Unbroken)
           IN  /\ FillIndex \in DOMAIN events /\ fill \in DOMAIN events /\ FillIndex <= fill
               /\ events[FillIndex].ts_socket = events[fill].ts_socket
               /\ \A k \in FillIndex..fill :
                      events[k] # Gap /\ events[k].ts_socket = events[fill].ts_socket
<1>1. ValidOrder(order)
  BY Results DEF TypeInv, Opening
<1>2. Unbroken # {} /\ simulated = Filled(order, events[Earliest(Unbroken)])
  BY <1>1, Results DEF TypeInv, EvidenceInv, Verdict
<1>3. Unbroken \subseteq DOMAIN events /\ DOMAIN events \in SUBSET Nat
  <2>1. events \in Seq(Prints \cup {Gap})
    BY DEF TypeInv, EvidenceInv
  <2> QED
    BY <2>1 DEF Unbroken, Evidence
<1> DEFINE fill == Earliest(Unbroken)
<1>4. fill \in Unbroken
  BY <1>2, <1>3, EarliestIsLeast
<1>5. fill \in DOMAIN events /\ events[fill] # Gap
  BY <1>3, <1>4 DEF Unbroken, Evidence
<1>6. simulated.print_seq = events[fill].seq
  <2>1. ~(Filled(order, events[fill]).result = "error")
    BY <1>2
  <2> QED
    BY <1>2, <2>1, Results DEF Filled
<1> DEFINE found == {i \in DOMAIN events : events[i] # Gap /\ events[i].seq = simulated.print_seq}
<1>7. fill \in found /\ found \in SUBSET Nat
  BY <1>3, <1>5, <1>6
<1>8. FillIndex \in found /\ FillIndex <= fill
  BY <1>7, EarliestIsLeast DEF FillIndex
<1>9. \A k \in FillIndex..fill :
          events[k] # Gap /\ events[k].ts_socket = events[FillIndex].ts_socket
  BY <1>5, <1>6, <1>8 DEF Bundles
<1>10. fill \in FillIndex..fill
  BY <1>3, <1>5, <1>8
<1> HIDE DEF fill
<1>11. events[fill].ts_socket = events[FillIndex].ts_socket
  BY <1>9, <1>10
<1> QED
  BY <1>5, <1>8, <1>9, <1>11 DEF fill

LEMMA MarkoutReadsLater ==
    ASSUME TypeInv, Bundles, simulated.result = "filled", NEW horizon \in Nat \ {0}
    PROVE  LET fill == Earliest(Unbroken)
               open == {j \in fill + 1..Len(events) : \A k \in fill + 1..j : events[k] # Gap}
           IN  Covering(FillIndex, horizon)
                   = {j \in open : /\ events[j].price > 0 /\ events[j].quantity > 0
                                   /\ events[j].ts_socket - events[fill].ts_socket >= horizon}
<1> DEFINE fill == Earliest(Unbroken)
           first == FillIndex
<1>1. /\ first \in DOMAIN events /\ fill \in DOMAIN events /\ first <= fill
      /\ \A k \in first..fill : events[k] # Gap /\ events[k].ts_socket = events[fill].ts_socket
  BY FillOfABundle
<1>2. events[first].ts_socket = events[fill].ts_socket
  BY FillOfABundle
<1> HIDE DEF fill, first
<1>3. events \in Seq(Prints \cup {Gap}) /\ DOMAIN events = 1..Len(events) /\ Len(events) \in Nat
  <2>1. events \in Seq(Prints \cup {Gap})
    BY DEF TypeInv, EvidenceInv
  <2> QED
    BY <2>1
<1>4. \A j \in DOMAIN events : events[j] # Gap => events[j].ts_socket \in Int
  BY <1>3 DEF Prints
<1>5. fill \in first..fill
  BY <1>1, <1>3
<1>6. ASSUME NEW j \in DOMAIN events, events[j] # Gap
      PROVE  events[j].ts_socket >= events[first].ts_socket + horizon
                 <=> events[j].ts_socket - events[fill].ts_socket >= horizon
  <2>1. events[fill].ts_socket \in Int /\ events[j].ts_socket \in Int
    BY <1>1, <1>4, <1>5, <1>6
  <2> QED
    BY <1>2, <2>1
<1>7. ASSUME NEW j \in Covering(first, horizon)
      PROVE  /\ j \in fill + 1..Len(events)
             /\ \A k \in fill + 1..j : events[k] # Gap
             /\ events[j].price > 0 /\ events[j].quantity > 0
             /\ events[j].ts_socket - events[fill].ts_socket >= horizon
  <2>1. /\ j \in first + 1..Len(events)
        /\ \A k \in first + 1..j : events[k] # Gap
        /\ IsSound(events[j])
        /\ events[j].ts_socket >= events[first].ts_socket + horizon
    BY <1>7 DEF Covering
  <2>2. j \in DOMAIN events /\ events[j] # Gap
    BY <1>1, <1>3, <2>1
  <2>3. j > fill
    <3>1. SUFFICES ASSUME j \in first..fill
          PROVE  FALSE
      BY <1>1, <1>3, <2>1
    <3>2. events[j].ts_socket = events[first].ts_socket /\ events[j].ts_socket \in Int
      BY <1>1, <1>2, <1>4, <2>2, <3>1
    <3> QED
      BY <2>1, <3>2
  <2>4. \A k \in fill + 1..j : k \in first + 1..j
    BY <1>1, <1>3
  <2> QED
    BY <1>1, <1>3, <1>6, <2>1, <2>2, <2>3, <2>4 DEF IsSound
<1>8. ASSUME NEW j \in fill + 1..Len(events),
             \A k \in fill + 1..j : events[k] # Gap,
             events[j].price > 0 /\ events[j].quantity > 0,
             events[j].ts_socket - events[fill].ts_socket >= horizon
      PROVE  j \in Covering(first, horizon)
  <2>1. j \in first + 1..Len(events) /\ j \in DOMAIN events /\ j \in fill + 1..j
    BY <1>1, <1>3
  <2>2. ASSUME NEW k \in first + 1..j
        PROVE  events[k] # Gap
    <3>1. k \in first..fill \/ k \in fill + 1..j
      BY <1>1, <1>3
    <3> QED
      BY <1>1, <1>8, <3>1
  <2>3. events[j].ts_socket >= events[first].ts_socket + horizon
    BY <1>6, <1>8, <2>1
  <2> QED
    BY <1>8, <2>1, <2>2, <2>3 DEF Covering, IsSound
<1> QED
  BY <1>7, <1>8 DEF fill, first

\* What a horizon reports is read after the fill and in front of any hole, though
\* the fill is looked up by a seq its bundle shares: MarkoutsReadLaterPrints, for all
\* horizons a command line accepts, all clocks, prints and lengths.
THEOREM MarkoutsReadLaterPrintsTheorem == Spec => []MarkoutsReadLaterPrints
<1>1. TypeInv /\ Bundles => MarkoutsReadLaterPrints
  <2> SUFFICES ASSUME TypeInv, Bundles, simulated.result = "filled", NEW h \in DOMAIN Horizons
      PROVE  LET fill == Earliest(Unbroken)
                 open == {j \in fill + 1..Len(events) : \A k \in fill + 1..j : events[k] # Gap}
                 later == {j \in open : /\ events[j].price > 0 /\ events[j].quantity > 0
                                        /\ events[j].ts_socket - events[fill].ts_socket
                                               >= Horizons[h]}
             IN  Markout(Horizons[h])
                     = IF later = {} THEN None ELSE Movement(events[Earliest(later)])
    BY DEF MarkoutsReadLaterPrints
  <2>1. Horizons[h] \in Nat \ {0}
    BY ExecAssumption
  <2> QED
    BY <2>1, MarkoutReadsLater DEF Markout
<1>2. Init => Bundles
  BY DEF Init, Bundles
<1> QED
  BY InitTypes, NextTypes, NextBundles, <1>1, <1>2, PTL DEF Spec

=============================================================================
