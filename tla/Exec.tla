-------------------------------- MODULE Exec --------------------------------
(***************************************************************************)
(* The execution model of crates/astra-exec/src/lib.rs: one resting limit  *)
(* order against the prints and gaps a replay collects.  simulate and      *)
(* simulate_batched are two loops over the same events; here they read     *)
(* them side by side, each with its own state, as the collector gets them. *)
(* markout looks through all the events once they are there.               *)
(*                                                                         *)
(* The prints of one record are a bundle: they share seq and ts_socket.    *)
(***************************************************************************)
EXTENDS FixedPoint, SequencesExt

CONSTANTS
    Orders,         \* limit orders, sound or not
    FeeBps,         \* fee_bps
    Horizons,       \* horizons_ns, a sequence
    Units,          \* nanoseconds of each unit horizons are written in
    MaxHorizon,     \* u64::MAX
    Millisecond,    \* nanoseconds of a millisecond
    Prices, Quantities,  \* what prints carry, corrupt values included
    ExchangeTimes,  \* ts_exchange_ns of prints, or None
    ClockSteps,     \* by how much ts_socket may move between records
    MaxEvents       \* bound on the events collected

ASSUME ExecAssumption ==
    /\ FeeBps \in Nat
    /\ Millisecond \in Nat \ {0}
    /\ MaxEvents \in Nat
    /\ MaxHorizon \in Nat
    /\ Horizons \in Seq(1..MaxHorizon)     \* parse_horizons refuses zero
    /\ Prices \subseteq Int /\ Quantities \subseteq Int
    /\ ExchangeTimes \subseteq Int \cup {None}
    /\ ClockSteps \subseteq Int
    /\ \A o \in Orders : o.side \in {"buy", "sell"} /\ o.price \in Int /\ o.quantity \in Int

\* TimedEvent.
Gap == [event |-> "gap"]
TimedPrint(s, price, quantity, ts, time) ==
    [event |-> "print", seq |-> s, price |-> price, quantity |-> quantity,
     ts_socket |-> ts, ts_exchange |-> time]

Reading == [result |-> "reading"]     \* the loop has not returned

VARIABLES
    order,      \* the LimitOrder
    events,     \* TimedCollector.events
    seq,        \* seq of the last record
    socket,     \* its ts_socket
    simulated,  \* what simulate has returned
    batch,      \* simulate_batched: the prints of one millisecond
    batchKey,
    batched,    \* what simulate_batched has returned
    ended       \* the stream is over

vars == <<order, events, seq, socket, simulated, batch, batchKey, batched, ended>>

-----------------------------------------------------------------------------
ValidOrder(o) == o.price > 0 /\ o.quantity > 0
IsSound(print) == print.price > 0 /\ print.quantity > 0

\* Mutant of IsThrough: a seller is filled at or below the limit too.
IsThrough_either_side(o, print) == print.price <= o.price

IsThrough(o, print) ==
    IF o.side = "buy" THEN print.price <= o.price ELSE print.price >= o.price

Fills(o, print) == IsSound(print) /\ IsThrough(o, print)

Failed(reason) == [result |-> "error", reason |-> reason]
Unfilled(reason) == [result |-> "unfilled", reason |-> reason]

\* The order is filled whole, at its own price, by this print.
Filled(o, print) ==
    LET notional == CheckedMul(o.price, o.quantity)
        fee == IF notional = None THEN None ELSE MakerFee(notional, FeeBps)
    IN  IF fee = None THEN Failed("overflow")
        ELSE [result |-> "filled", fill_price |-> o.price, fee |-> fee, slippage |-> 0,
              print_seq |-> print.seq]

Opened(o) == IF ValidOrder(o) THEN Reading ELSE Failed("invalid order")

-----------------------------------------------------------------------------
\* The loop body of simulate.
Simulate(e) ==
    simulated' =
        IF simulated # Reading THEN simulated
        ELSE IF e = Gap THEN Unfilled("voided_by_gap")
        ELSE IF Fills(order, e) THEN Filled(order, e)
        ELSE Reading

\* div_euclid rounds down, below zero too.
KeyOf(print) ==
    IF print.ts_exchange = None THEN None ELSE print.ts_exchange \div Millisecond

\* Prints without venue time are alone in their batch.
JoinsBatch(print) == KeyOf(print) # None /\ KeyOf(print) = batchKey

\* fill_from_batch: the first print that fills, in their order.
Filling(prints) == {i \in DOMAIN prints : Fills(order, prints[i])}
FillFromBatch(otherwise) ==
    IF Filling(batch) = {} THEN otherwise
    ELSE Filled(order, batch[CHOOSE i \in Filling(batch) : \A j \in Filling(batch) : i <= j])

\* Mutant of BatchedGap: the batch that a gap ends is not looked at.
BatchedGap_voids_first ==
    /\ batched = Reading
    /\ batched' = Unfilled("voided_by_gap")
    /\ UNCHANGED <<batch, batchKey>>

\* The loop body of simulate_batched: a gap, a print of the same millisecond, and
\* one that starts a new batch.
BatchedGap ==
    /\ batched = Reading
    /\ batched' = FillFromBatch(Unfilled("voided_by_gap"))
    /\ UNCHANGED <<batch, batchKey>>

BatchedJoin(print) ==
    /\ batched = Reading
    /\ JoinsBatch(print)
    /\ batch' = Append(batch, print)
    /\ UNCHANGED <<batchKey, batched>>

BatchedStart(print) ==
    /\ batched = Reading
    /\ ~JoinsBatch(print)
    /\ batched' = FillFromBatch(Reading)
    /\ batch' = <<print>>
    /\ batchKey' = KeyOf(print)

BatchedReturned == batched # Reading /\ UNCHANGED <<batch, batchKey, batched>>

-----------------------------------------------------------------------------
Init ==
    /\ order \in Orders
    /\ events = <<>>
    /\ seq = 0
    /\ socket = 0
    /\ simulated = Opened(order)
    /\ batch = <<>>
    /\ batchKey = None
    /\ batched = Opened(order)
    /\ ended = FALSE

Collect(e) ==
    /\ ~ended
    /\ Len(events) < MaxEvents
    /\ events' = Append(events, e)
    /\ Simulate(e)
    /\ UNCHANGED <<order, ended>>

\* on_trade of the two collectors: a print of a new record, or the next print of
\* the record before.
OnTrade(print) ==
    /\ Collect(print)
    /\ BatchedJoin(print) \/ BatchedStart(print) \/ BatchedReturned

FirstPrint(price, quantity, time, step) ==
    /\ seq' = seq + 1
    /\ socket' = socket + step
    /\ OnTrade(TimedPrint(seq', price, quantity, socket', time))

NextPrint(price, quantity, time) ==
    /\ events # <<>> /\ Last(events) # Gap
    /\ UNCHANGED <<seq, socket>>
    /\ OnTrade(TimedPrint(seq, price, quantity, socket, time))

\* on_gap of the two collectors.
OnGap ==
    /\ Collect(Gap)
    /\ BatchedGap \/ BatchedReturned
    /\ seq' = seq + 1
    /\ UNCHANGED socket

\* Mutant of End: the last batch is not looked at.
End_without_batch ==
    /\ ~ended
    /\ ended' = TRUE
    /\ simulated' = IF simulated = Reading THEN Unfilled("no_through_print") ELSE simulated
    /\ UNCHANGED <<order, events, seq, socket, batch, batchKey, batched>>

\* The events are read: what is left of the loops.
End ==
    /\ ~ended
    /\ ended' = TRUE
    /\ simulated' = IF simulated = Reading THEN Unfilled("no_through_print") ELSE simulated
    /\ batched' = IF batched = Reading THEN FillFromBatch(Unfilled("no_through_print")) ELSE batched
    /\ UNCHANGED <<order, events, seq, socket, batch, batchKey>>

Next ==
    \/ \E price \in Prices, quantity \in Quantities, time \in ExchangeTimes :
        \/ \E step \in ClockSteps : FirstPrint(price, quantity, time, step)
        \/ NextPrint(price, quantity, time)
    \/ OnGap
    \/ End

Spec == Init /\ [][Next]_vars

-----------------------------------------------------------------------------
\* parse_horizons: a horizon written as an amount of a unit, seconds when it has
\* none; amount is None when it is not a number.  One bad part refuses them all.
ParseHorizon(part) ==
    LET unit == IF part.unit = None THEN "s" ELSE part.unit
    IN  IF part.amount = None \/ part.amount = 0 \/ part.amount * Units[unit] > MaxHorizon THEN None
        ELSE part.amount * Units[unit]

ParseHorizons(parts) ==
    IF \E i \in DOMAIN parts : ParseHorizon(parts[i]) = None THEN None
    ELSE [i \in DOMAIN parts |-> ParseHorizon(parts[i])]

\* markout, once the events are there and the order is filled.
Earliest(positions) == CHOOSE i \in positions : \A j \in positions : i <= j

\* The fill is looked up by its print's seq.
FillIndex == Earliest({i \in DOMAIN events : events[i] # Gap /\ events[i].seq = simulated.print_seq})

\* Mutant of Covering: prints past a hole count.
Covering_past_gaps(fill, horizon) ==
    {j \in fill + 1..Len(events) :
        /\ events[j] # Gap
        /\ IsSound(events[j])
        /\ events[j].ts_socket >= events[fill].ts_socket + horizon}

\* The prints that can cover a horizon: sound, at or past its mark, no gap between.
Covering(fill, horizon) ==
    {j \in fill + 1..Len(events) :
        /\ \A k \in fill + 1..j : events[k] # Gap
        /\ IsSound(events[j])
        /\ events[j].ts_socket >= events[fill].ts_socket + horizon}

\* markout_bps, in price: negative is adverse.
Movement(later) == IF order.side = "buy" THEN later.price - order.price ELSE order.price - later.price

Markout(horizon) ==
    LET covering == Covering(FillIndex, horizon)
    IN  IF covering = {} THEN None ELSE Movement(events[Earliest(covering)])

-----------------------------------------------------------------------------
TypeOK ==
    /\ order \in Orders
    /\ Len(events) <= MaxEvents
    /\ Len(batch) <= Len(events)
    /\ batchKey \in Int \cup {None}
    /\ \A o \in {simulated, batched} : o.result \in {"reading", "error", "unfilled", "filled"}
    /\ ended \in BOOLEAN /\ (ended => Reading \notin {simulated, batched})

\* docs/execution-model.md, "proven immaterial": the order in which the prints of
\* one millisecond came does not matter.  Both loops return the same verdict, fee,
\* error and print, wherever batches, bundles and gaps fall.
BatchedAgrees == ended => simulated = batched

\* Where the events have holes, where they show a trade at the order's price or a
\* better one, and which of these no hole comes before.
Shows(print) ==
    /\ print.quantity > 0
    /\ print.price > 0
    /\ IF order.side = "buy" THEN order.price >= print.price ELSE order.price <= print.price
Holes == {i \in DOMAIN events : events[i] = Gap}
Evidence == {i \in DOMAIN events : events[i] # Gap /\ Shows(events[i])}
Unbroken == {i \in Evidence : \A j \in Holes : i < j}

\* The order is filled by the first print that shows a trade at its price or
\* better, if no gap came before it; a hole voids it, and nothing else does.
FillIsTheFirstEvidence ==
    ended /\ ValidOrder(order) =>
        simulated = IF Unbroken # {} THEN Filled(order, events[Earliest(Unbroken)])
                    ELSE Unfilled(IF Holes # {} THEN "voided_by_gap" ELSE "no_through_print")

\* What a horizon reports is the price of the first sound print after the one that
\* filled the order, a horizon later or more, with no hole in between; though the
\* fill is looked up by a seq that the other prints of its bundle have too, and
\* though the clock may be set back.
MarkoutsReadLaterPrints ==
    ended /\ simulated.result = "filled" =>
        \A h \in DOMAIN Horizons :
            LET fill == Earliest(Unbroken)
                open == {j \in fill + 1..Len(events) : \A k \in fill + 1..j : events[k] # Gap}
                later == {j \in open : /\ events[j].price > 0 /\ events[j].quantity > 0
                                       /\ events[j].ts_socket - events[fill].ts_socket >= Horizons[h]}
            IN  Markout(Horizons[h]) = IF later = {} THEN None ELSE Movement(events[Earliest(later)])
=============================================================================
