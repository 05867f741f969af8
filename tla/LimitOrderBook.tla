--------------------------- MODULE LimitOrderBook ---------------------------
(***************************************************************************)
(* What a matching engine promises, whatever structure keeps its orders:   *)
(* an order is submitted, trades with the best resting contra order while  *)
(* one crosses it, and what is left of it rests.  Best is by price, then   *)
(* by timestamp (match-engine/README.md:5).  There is no heap, no front    *)
(* and no book: the resting orders are a set.                              *)
(***************************************************************************)
EXTENDS Orders, Sequences

CONSTANTS Instruments, Prices, Quantities, Timestamps,
          MaxOrders     \* bound on the orders submitted

\* What the promise is made for: an order of no quantity is another matter (see
\* OnlyOpenersAreEmpty of MatchingEngine).
ParametersAssumption ==
  /\ Prices \subseteq Int
  /\ Timestamps \subseteq Int
  /\ Quantities \subseteq Nat \ {0}
  /\ MaxOrders \in Nat

VARIABLES arrivals,   \* the orders as they were submitted; an order's id is its place here
          resting,    \* the open orders in the books
          incoming,   \* the order being matched (at most one per instrument)
          filled      \* filled[id]: the quantity of the TRADE lines that name the order

vars == <<arrivals, resting, incoming, filled>>

Order == [id : Nat \ {0}, side : Sides, instrument : Instruments,
          qty : Nat \ {0}, price : Int, timestamp : Int]

NewOrders == [id : {Len(arrivals) + 1}, side : Sides, instrument : Instruments,
              qty : Quantities, price : Prices, timestamp : Timestamps]

Init == /\ arrivals = <<>>
        /\ resting = {}
        /\ incoming = {}
        /\ filled = <<>>

Submit(o) ==
  /\ Len(arrivals) < MaxOrders
  /\ \A p \in incoming : p.instrument # o.instrument
  /\ arrivals' = Append(arrivals, o)
  /\ incoming' = incoming \cup {o}
  /\ filled' = Append(filled, 0)
  /\ UNCHANGED resting

\* c is what order o must trade with next.
Best(o, c) ==
  /\ Contra(o, c)
  /\ \A d \in resting : Contra(o, d) => ~RanksLower(c, d)

\* What remains of o after it trades q.
Rest(o, q) == IF o.qty = q THEN {} ELSE {[o EXCEPT !.qty = @ - q]}

Trade(o, c) ==
  /\ Best(o, c)
  /\ Crosses(o, c)
  /\ LET q == TradeQuantity(o, c)
     IN /\ incoming' = (incoming \ {o}) \cup Rest(o, q)
        /\ resting' = (resting \ {c}) \cup Rest(c, q)
        /\ filled' = [filled EXCEPT ![o.id] = @ + q, ![c.id] = @ + q]
  /\ UNCHANGED arrivals

Enter(o) ==
  /\ \A c \in resting : Contra(o, c) => ~Crosses(o, c)
  /\ incoming' = incoming \ {o}
  /\ resting' = resting \cup {o}
  /\ UNCHANGED <<arrivals, filled>>

Next == \/ \E o \in NewOrders : Submit(o)
        \/ \E o \in incoming : \E c \in resting : Trade(o, c)
        \/ \E o \in incoming : Enter(o)

Spec == Init /\ [][Next]_vars

-----------------------------------------------------------------------------

TypeOK == /\ arrivals \in Seq(Order)
          /\ filled \in Seq(Nat)
          /\ Len(filled) = Len(arrivals)
          /\ resting \subseteq Order
          /\ incoming \subseteq Order

Live == resting \cup incoming

\* An order is open at most once: never both in a book and being matched, and
\* never as two records (match() works on the engine's copy and add_to_book
\* copies it again).
OpenOnce == /\ resting \cap incoming = {}
            /\ \A a, b \in Live : a.id = b.id => a = b

\* No quantity is lost and none is invented: what an open order has left and
\* what it has traded add up to what was submitted, on the submitted terms;
\* an order that is not open has traded all of it.
Conservation ==
  /\ \A o \in Live : /\ o.id \in 1 .. Len(arrivals)
                     /\ arrivals[o.id] = [o EXCEPT !.qty = @ + filled[o.id]]
  /\ \A id \in 1 .. Len(arrivals) :
       (\A o \in Live : o.id # id) => filled[id] = arrivals[id].qty

\* No two resting orders could trade: the highest bid is below the lowest
\* offer, so no possible trade was missed.
NotCrossed == \A b, s \in resting :
                (Contra(b, s) /\ b.side = "BUY") => b.price < s.price
=============================================================================
