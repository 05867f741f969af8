------------------------------ MODULE OrderBook ------------------------------
(***************************************************************************)
(* A book of one instrument: two heaps of orders and the operations on     *)
(* them, as operators from a book to a book.  match-engine (order_book.cc) *)
(* and actor-match (struct OrderBook of actor_types.h) have the same ones. *)
(***************************************************************************)
EXTENDS Orders, SequencesExt

INSTANCE Heap WITH Lt <- RanksLower

EmptyBook == [buys |-> <<>>, sells |-> <<>>]

Own(order)     == IF order.side = "BUY" THEN "buys" ELSE "sells"
Against(order) == IF order.side = "BUY" THEN "sells" ELSE "buys"

\* Mutation of AddToBook: push_back without push_heap.
AddUnsorted(book, order) == [book EXCEPT ![Own(order)] = Append(@, order)]

AddToBook(book, order) == [book EXCEPT ![Own(order)] = PushHeap(@, order)]

ContraOrders(book, order) == book[Against(order)]
HasContra(book, order)    == ContraOrders(book, order) # <<>>
FrontContra(book, order)        == ContraOrders(book, order)[1]

\* Mutation of PurgeContainer: the front is erased without pop_heap.
PurgeByErase(c) == IF c # <<>> /\ c[1].qty = 0 THEN Tail(c) ELSE c

\* Only the front is looked at: an order is removed when a trade empties it,
\* and a trade is always with the front.
PurgeContainer(c) == IF c # <<>> /\ c[1].qty = 0 THEN PopHeap(c) ELSE c
Purge(book) == [buys |-> PurgeContainer(book.buys), sells |-> PurgeContainer(book.sells)]

\* Mutation of AfterTrade: the contra order keeps its quantity.
AfterTradeOneSided(book, order, q) == Purge(book)

\* The book after the front contra order of order has traded q.
AfterTrade(book, order, q) ==
  Purge([book EXCEPT ![Against(order)][1].qty = @ - q])

-----------------------------------------------------------------------------
(* match_order of actor_types.h, from start to end (match() of                 *)
(* matching_engine.cc does the same).  A match in progress has the book, the   *)
(* order as decremented and the TRADE lines printed.                           *)

CanTrade(m) == /\ m.order.qty > 0
               /\ HasContra(m.book, m.order)
               /\ Crosses(m.order, FrontContra(m.book, m.order))

TradeOnce(m) ==
  LET trade == TradeLine(m.order, FrontContra(m.book, m.order))
  IN [book   |-> AfterTrade(m.book, m.order, trade.qty),
      order  |-> [m.order EXCEPT !.qty = @ - trade.qty],
      trades |-> Append(m.trades, trade)]

\* Mutation of TradeAll: the loop trades with one contra order only.
TradeFirst(m) == IF CanTrade(m) THEN TradeOnce(m) ELSE m

\* A round leaves the order or the front contra order with nothing, so there
\* are at most as many rounds as there are contra orders.
TradeAll(m) ==
  LET rounds == Len(ContraOrders(m.book, m.order))
      after[k \in 0 .. rounds] ==
        IF k = 0 THEN m
        ELSE IF CanTrade(after[k - 1]) THEN TradeOnce(after[k - 1]) ELSE after[k - 1]
  IN after[rounds]

\* What is left of the order enters the book.
Remains(m) == IF m.order.qty > 0 THEN [m EXCEPT !.book = AddToBook(@, m.order)] ELSE m

MatchOrder(book, order) == Remains(TradeAll([book |-> book, order |-> order, trades |-> <<>>]))

-----------------------------------------------------------------------------

Elements(s) == {s[i] : i \in DOMAIN s}
Traded(id, trades) ==
  LET upTo[k \in 0 .. Len(trades)] ==
        IF k = 0 THEN 0
        ELSE upTo[k - 1] + (IF id \in {trades[k].order, trades[k].contra} THEN trades[k].qty ELSE 0)
  IN upTo[Len(trades)]
OpenOrders(book) == Elements(book.buys) \cup Elements(book.sells)
=============================================================================
