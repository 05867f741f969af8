--------------------------- MODULE MatchingEngine ---------------------------
(***************************************************************************)
(* Matching in one engine (matching_engine.cc, order_book.cc): the body of *)
(* the loop of process_queued_orders over the orders it pulled, and        *)
(* match().  An engine is one thread, so it has one current order.  Where  *)
(* the orders come from is module DarkPool; here the environment supplies  *)
(* any order over the constants, at any of the Timestamps (system_clock    *)
(* milliseconds: two arrivals may share one, and the clock may be set      *)
(* back).                                                                  *)
(***************************************************************************)
EXTENDS OrderBook

CONSTANTS Instruments, Prices, Quantities, Timestamps,
          MaxOrders,    \* bound on the orders supplied
          NoOrder

ASSUME EngineAssumption ==
  /\ Prices \subseteq Int
  /\ Timestamps \subseteq Int
  /\ Quantities \subseteq Int
  /\ MaxOrders \in Nat
  /\ NoOrder \notin [id : Nat, side : Sides, instrument : Instruments,
                   qty : Int, price : Prices, timestamp : Timestamps]

VARIABLES order_books,  \* instrument -> book, for the instruments seen so far
          current,      \* the order the loop is at, as match() has decremented it
          arrivals,     \* history: the orders as supplied
          trades        \* history: the TRADE lines

vars == <<order_books, current, arrivals, trades>>

NewOrders == [id : {Len(arrivals) + 1}, side : Sides, instrument : Instruments,
              qty : Quantities, price : Prices, timestamp : Timestamps]

Init == /\ order_books = <<>>
        /\ current = NoOrder
        /\ arrivals = <<>>
        /\ trades = <<>>

TakeOrder(order) ==
  /\ current = NoOrder
  /\ Len(arrivals) < MaxOrders
  /\ current' = order
  /\ arrivals' = Append(arrivals, order)
  /\ UNCHANGED <<order_books, trades>>

HasBook == current # NoOrder /\ current.instrument \in DOMAIN order_books
Book == order_books[current.instrument]

\* The first order for an instrument opens its book; nothing is matched and
\* the quantity is not looked at.
FirstOrder ==
  /\ current # NoOrder
  /\ ~HasBook
  /\ order_books' = [i \in DOMAIN order_books \cup {current.instrument} |->
                       IF i = current.instrument THEN AddToBook(EmptyBook, current)
                                                 ELSE order_books[i]]
  /\ current' = NoOrder
  /\ UNCHANGED <<arrivals, trades>>

\* One iteration of the loop in match() that trades with the front contra order.
Trade ==
  /\ HasBook
  /\ current.qty > 0
  /\ HasContra(Book, current)
  /\ Crosses(current, FrontContra(Book, current))
  /\ LET trade == TradeLine(current, FrontContra(Book, current))
     IN /\ trades' = Append(trades, trade)
        /\ current' = [current EXCEPT !.qty = @ - trade.qty]
        /\ order_books' = [order_books EXCEPT ![current.instrument] =
                             AfterTrade(@, current, trade.qty)]
  /\ UNCHANGED arrivals

\* Mutation of AfterEntering: match() does not return after the order was added.
GoOn == current

AfterEntering == NoOrder

\* Mutation of SomethingLeft: the quantity is not tested.
AnythingLeft == TRUE

SomethingLeft == current.qty > 0

\* The order cannot trade (no contra orders, or the front one does not cross)
\* and enters the book.
Enter ==
  /\ HasBook
  /\ SomethingLeft
  /\ HasContra(Book, current) => ~Crosses(current, FrontContra(Book, current))
  /\ order_books' = [order_books EXCEPT ![current.instrument] = AddToBook(@, current)]
  /\ current' = AfterEntering
  /\ UNCHANGED <<arrivals, trades>>

\* Mutation of NothingLeft: the loop only ends at zero.
ExactlyNothingLeft == current.qty = 0

NothingLeft == current.qty <= 0

\* The order has nothing left; match() returns without adding it.
Done ==
  /\ HasBook
  /\ NothingLeft
  /\ current' = NoOrder
  /\ UNCHANGED <<order_books, arrivals, trades>>

Process == FirstOrder \/ Trade \/ Enter \/ Done

Next == (\E order \in NewOrders : TakeOrder(order)) \/ Process

\* The loop keeps running: an order that was taken is worked on.
Spec == Init /\ [][Next]_vars /\ WF_vars(Process)

-----------------------------------------------------------------------------

Resting == UNION {OpenOrders(order_books[i]) : i \in DOMAIN order_books}

\* The engine implements the promise: its heaps hold the resting orders and
\* the front of a heap is a best contra order.  (An order with nothing left is
\* no longer incoming, though the loop has yet to notice.)
Promise == INSTANCE LimitOrderBook
             WITH resting <- Resting,
                  filled <- [id \in DOMAIN arrivals |-> Traded(id, trades)],
                  incoming <- IF current = NoOrder \/ current.qty = 0 THEN {} ELSE {current}

\* README.md:52 and :5.  Every step of the heap based engine is a step of the
\* set based promise: best contra order first, nothing lost, no trade missed.
ImplementsPromise == Promise!Init /\ [][Promise!Next]_(Promise!vars)

\* In every state of the engine, whatever heaps keep its orders: what an open order has
\* left and what its TRADE lines say add up to what arrived, and an order that is not
\* open has traded everything (matching_engine.cc:147-177 drops none).
Conservation == Promise!Conservation

\* No two resting orders of an instrument could trade with each other, in the middle of
\* match() either: it looks at the front of a heap only, and no trade is missed further down.
NotCrossed == Promise!NotCrossed

\* The front of every container is outranked by nothing in it, and the same
\* holds below the front; what pop_heap leaves behind is again such a heap.
HeapOrdered == \A i \in DOMAIN order_books :
                 IsHeap(order_books[i].buys) /\ IsHeap(order_books[i].sells)

\* No order is open twice, whatever its quantity: the number of open records
\* is the number of their ids.
OpenOnce ==
  \A i \in DOMAIN order_books :
    LET book == order_books[i]
        all == book.buys \o book.sells \o (IF current = NoOrder THEN <<>> ELSE <<current>>)
    IN \A j, k \in DOMAIN all : all[j].id = all[k].id => j = k

\* For any quantity the parser accepts, what is left plus what was traded is
\* what was submitted.
QuantityConserved ==
  \A o \in Resting \cup ({current} \ {NoOrder}) :
    o.qty + Traded(o.id, trades) = arrivals[o.id].qty

\* An order without quantity rests only if it opened its instrument's book:
\* every other way into a book tests the quantity first.
OnlyOpenersAreEmpty ==
  \A o \in Resting : o.qty <= 0 =>
    \A id \in 1 .. o.id - 1 : arrivals[id].instrument # o.instrument

\* match() always ends: every round trades one of the two orders away, also
\* when the book's opener has no quantity or a negative one.
MatchTerminates == []<>(current = NoOrder)

\* README.md:52: when an order trades, no order of the same side and price that arrived
\* before it is left behind with its quantity untouched.
ArrivalPriority ==
  [][\A c, d \in Resting :
       (/\ c.instrument = d.instrument
        /\ c.side = d.side
        /\ c.price = d.price
        /\ d.id < c.id)
         => (c \notin Resting' => d \notin Resting')]_vars
=============================================================================
