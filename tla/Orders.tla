------------------------------- MODULE Orders -------------------------------
(***************************************************************************)
(* The order of common/model/order.h and what is computed from one or two  *)
(* of them: the ranking operator<, and the price test that the matching    *)
(* loops make on an incoming order and a contra order.                     *)
(*                                                                         *)
(* An order is a record.  "id" is its arrival number: the program knows an *)
(* order by the object that holds it, the order_id it was given is only    *)
(* printed.  "qty" is remaining_quantity.  Prices are whole ticks.         *)
(***************************************************************************)
EXTENDS Integers

CONSTANT Tolerance  \* the "silly equal" distance 0.0001, in ticks: prices
                    \* less than Tolerance ticks apart compare as equal.
                    \* 1: a tick is at least 0.0001, equality is exact.
                    \* 2: a tick is half of 0.0001.

ASSUME ToleranceAssumption == Tolerance \in Nat \ {0}

Sides == {"BUY", "SELL"}

SillyEqual(a, b) == a.price - b.price < Tolerance /\ b.price - a.price < Tolerance

\* operator<: orders of one side, "less" is ranked lower, so a heap keeps the
\* highest ranked order at its front.
RanksLower(a, b) ==
  \/ /\ SillyEqual(a, b)
     /\ a.timestamp > b.timestamp
  \/ /\ ~SillyEqual(a, b)
     /\ IF a.side = "BUY" THEN a.price < b.price ELSE a.price > b.price

\* Mutation of Crosses: equal prices do not trade.
CrossesStrictly(o, c) ==
  \/ o.side = "BUY"  /\ c.price < o.price
  \/ o.side = "SELL" /\ c.price > o.price

\* The price condition under which incoming order o trades with resting c.
Crosses(o, c) ==
  \/ o.side = "BUY"  /\ c.price <= o.price
  \/ o.side = "SELL" /\ c.price >= o.price

\* c can be a contra order of o: same instrument, other side.
Contra(o, c) == o.instrument = c.instrument /\ o.side # c.side

TradeQuantity(o, c) == IF c.qty < o.qty THEN c.qty ELSE o.qty

\* What print_trade says, besides the instrument: a trade is at the contra's price.
TradeLine(o, c) ==
  [order |-> o.id, contra |-> c.id, qty |-> TradeQuantity(o, c), price |-> c.price]
=============================================================================
