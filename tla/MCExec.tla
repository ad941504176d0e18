------------------------------- MODULE MCExec -------------------------------
(***************************************************************************)
(* Buyers and sellers at and between the prices, an order that is not      *)
(* sound and one whose notional overflows; prints that fill them, prints   *)
(* that do not, and corrupt ones.                                          *)
(***************************************************************************)
EXTENDS Exec

Limit(side, price, quantity) == [side |-> side, price |-> price, quantity |-> quantity]

MCOrders == {Limit("buy", 2, 4), Limit("sell", 3, 4), Limit("sell", 2, 4), Limit("buy", 0, 4), Limit("buy", 3, 20)}

\* Two milliseconds before and after zero, and no time.
MCExchangeTimes == {-1, 0, None}
MCSteps == {-1, 1}
MCUnits == [ms |-> 2, s |-> 1, m |-> 3, h |-> 3]

MCHorizons == ParseHorizons(<<[amount |-> 1, unit |-> None], [amount |-> 1, unit |-> "ms"]>>)
=============================================================================
