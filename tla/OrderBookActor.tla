--------------------------- MODULE OrderBookActor ---------------------------
(***************************************************************************)
(* The order book actor of actor-match: the messages that change its book. *)
(* A handler runs to its end before the next message, so matching an order *)
(* is one step here.  The messages come in any order; who sends them is    *)
(* module ActorMatch.  (get_book_stats and the dump change nothing in the  *)
(* book.)                                                                  *)
(*                                                                         *)
(* An order's name is its order_id, which is not checked to be new; its id *)
(* is its arrival number.                                                  *)
(***************************************************************************)
EXTENDS OrderBook

CONSTANTS Instrument, Names, Prices, Quantities, Timestamps,
          MaxOrders     \* bound on the orders received

ASSUME ActorAssumption ==
  /\ Prices \subseteq Int
  /\ Timestamps \subseteq Int
  /\ Quantities \subseteq Int
  /\ MaxOrders \in Nat

VARIABLES m_book,
          orders_received,
          arrivals,     \* history: the orders as received
          trades,       \* history: the TRADE lines
          deleted       \* history: the ids of the orders erased by delete_order

vars == <<m_book, orders_received, arrivals, trades, deleted>>

Orders == [id : {Len(arrivals) + 1}, name : Names, side : Sides, instrument : {Instrument},
           qty : Quantities, price : Prices, timestamp : Timestamps]

Init == /\ m_book = EmptyBook
        /\ orders_received = 0
        /\ arrivals = <<>>
        /\ trades = <<>>
        /\ deleted = {}

new_order(order) ==
  /\ Len(arrivals) < MaxOrders
  /\ orders_received' = orders_received + 1
  /\ LET m == MatchOrder(m_book, order)
     IN m_book' = m.book /\ trades' = trades \o m.trades
  /\ arrivals' = Append(arrivals, order)
  /\ UNCHANGED deleted

\* Where find_if finds the name; 0 if it does not.
Find(v, name) == SelectInSeq(v, LAMBDA order : order.name = name)

\* Mutation of DeleteFrom: the heap is not made again.
EraseFrom(v, name) == IF Find(v, name) = 0 THEN v ELSE RemoveAt(v, Find(v, name))

DeleteFrom(v, name) == IF Find(v, name) = 0 THEN v ELSE MakeHeap(RemoveAt(v, Find(v, name)))

\* At most one order of each side.
delete_order(name) ==
  /\ m_book' = [buys |-> DeleteFrom(m_book.buys, name),
                sells |-> DeleteFrom(m_book.sells, name)]
  /\ LET gone(v) == IF Find(v, name) = 0 THEN {} ELSE {v[Find(v, name)].id}
     IN deleted' = deleted \cup gone(m_book.buys) \cup gone(m_book.sells)
  /\ UNCHANGED <<orders_received, arrivals, trades>>

Next == \/ \E order \in Orders : new_order(order)
        \/ \E name \in Names : delete_order(name)

Spec == Init /\ [][Next]_vars

-----------------------------------------------------------------------------

\* Any mix of matching (pop_heap, push_heap) and deleting from the middle leaves
\* both sides heaps, which every later match relies on.
HeapOrdered == IsHeap(m_book.buys) /\ IsHeap(m_book.sells)

\* No two open orders could trade: neither a match that broke off nor a deletion
\* leaves a crossed book.
NotCrossed == \A b \in Elements(m_book.buys) : \A s \in Elements(m_book.sells) :
                b.price < s.price

\* Every order that was received is accounted for: it is open, once, with what
\* it has not traded; or it was deleted, and traded no more than it had; or it has
\* traded everything.  An order without quantity is dropped and never trades.
Accounted ==
  LET open == m_book.buys \o m_book.sells
  IN \A id \in 1 .. Len(arrivals) :
       LET places == {k \in DOMAIN open : open[k].id = id}
           asked == IF arrivals[id].qty > 0 THEN arrivals[id].qty ELSE 0
           traded == Traded(id, trades)
       IN IF places = {}
          THEN IF id \in deleted THEN traded < asked ELSE traded = asked
          ELSE /\ id \notin deleted
               /\ \E k \in places : /\ places = {k}
                                    /\ open[k] = [arrivals[id] EXCEPT !.qty = asked - traded]
=============================================================================
