------------------------ MODULE MatchingEngineProofs ------------------------
(***************************************************************************)
(* Theorems about matching in one engine, for all instruments, prices,     *)
(* quantities, timestamps and any number of orders: zero and negative      *)
(* quantities are included unless a theorem says otherwise.                *)
(***************************************************************************)
EXTENDS MatchersAgree, HeapProofs

\* An order as the engine holds it; what is left of it may be anything.
EngineOrder == [id : Nat, side : Sides, instrument : Instruments,
                qty : Int, price : Prices, timestamp : Timestamps]

\* The orders that may be in one container of one book.
Held(i, side) == {o \in EngineOrder : o.instrument = i /\ o.side = side}

BookOf(i) == [buys : Seq(Held(i, "BUY")), sells : Seq(Held(i, "SELL"))]

TypeOK ==
  /\ arrivals \in Seq(EngineOrder)
  /\ trades \in Seq(TradeLines)
  /\ current \in EngineOrder \cup {NoOrder}
  /\ \A i \in DOMAIN order_books : order_books[i] \in BookOf(i)

\* The orders the program still has.
Open == Resting \cup ({current} \ {NoOrder})

\* An open order is one that arrived, on the terms it arrived with, and what it
\* lacks is what the TRADE lines say of it.
Accounts ==
  \A o \in Open : /\ o.id \in 1 .. Len(arrivals)
                  /\ arrivals[o.id] = [o EXCEPT !.qty = o.qty + Traded(o.id, trades)]

\* The current order is the last that arrived; it is in no book.
CurrentIsLast ==
  current # NoOrder => /\ current.id = Len(arrivals)
                       /\ \A o \in Resting : o.id < current.id

TradesKnown ==
  \A k \in 1 .. Len(trades) : {trades[k].order, trades[k].contra} \subseteq 1 .. Len(arrivals)

BooksApart == \A i \in DOMAIN order_books : BookApart(order_books[i])

\* Whatever arrived before the current order has opened its book.
Opened ==
  \A k \in 1 .. Len(arrivals) :
    arrivals[k].instrument \in DOMAIN order_books \/ (current # NoOrder /\ k = current.id)

\* The inductive invariant.
Inv == /\ TypeOK /\ Accounts /\ CurrentIsLast /\ TradesKnown /\ BooksApart
       /\ Opened /\ OnlyOpenersAreEmpty

-----------------------------------------------------------------------------
(* What is in a container *)

LEMMA HeldReducible ==
  ASSUME NEW i, NEW side
  PROVE  Reducible(Held(i, side))
  BY DEF Reducible, Held, EngineOrder

LEMMA HeldRanked ==
  ASSUME NEW i, NEW side, Apart(Prices)
  PROVE  Ranked(Held(i, side))
  <1>1. \A o \in Held(i, side) : Ranks(o, side, Prices)
    BY EngineAssumption DEF Held, EngineOrder, Ranks
  <1> QED
    BY <1>1, EngineAssumption, SideIsRanked

\* What rests in the book of i.
LEMMA RestingAt ==
  ASSUME TypeOK, NEW i \in DOMAIN order_books
  PROVE  /\ OpenOrders(order_books[i]) = {o \in Resting : o.instrument = i}
         /\ Elements(order_books[i].buys) = {o \in Resting : o.instrument = i /\ o.side = "BUY"}
         /\ Elements(order_books[i].sells) = {o \in Resting : o.instrument = i /\ o.side = "SELL"}
  <1>1. \A j \in DOMAIN order_books :
          /\ order_books[j].buys \in Seq(Held(j, "BUY"))
          /\ order_books[j].sells \in Seq(Held(j, "SELL"))
    BY DEF TypeOK, BookOf
  <1>2. \A j \in DOMAIN order_books :
          /\ \A o \in Elements(order_books[j].buys) : o.instrument = j /\ o.side = "BUY"
          /\ \A o \in Elements(order_books[j].sells) : o.instrument = j /\ o.side = "SELL"
    BY <1>1, ElementsIn DEF Held
  <1>3. \A o : o \in Resting <=>
          \E j \in DOMAIN order_books : \/ o \in Elements(order_books[j].buys)
                                        \/ o \in Elements(order_books[j].sells)
    <2> TAKE o
    <2> DEFINE held(j) == OpenOrders(order_books[j])
    <2>1. o \in Resting <=> \E j \in DOMAIN order_books : o \in held(j)
      BY DEF Resting
    <2>2. \A j : o \in held(j) <=> \/ o \in Elements(order_books[j].buys)
                                   \/ o \in Elements(order_books[j].sells)
      BY DEF OpenOrders
    <2> HIDE DEF held
    <2> QED
      BY <2>1, <2>2
  <1>4. Elements(order_books[i].buys) = {o \in Resting : o.instrument = i /\ o.side = "BUY"}
    <2>1. ASSUME NEW o \in Resting, o.instrument = i, o.side = "BUY"
          PROVE  o \in Elements(order_books[i].buys)
      <3>1. PICK j \in DOMAIN order_books : \/ o \in Elements(order_books[j].buys)
                                            \/ o \in Elements(order_books[j].sells)
        BY <1>3
      <3> QED
        BY <1>2, <2>1, <3>1
    <2> QED
      BY <1>2, <1>3, <2>1
  <1>5. Elements(order_books[i].sells) = {o \in Resting : o.instrument = i /\ o.side = "SELL"}
    <2>1. ASSUME NEW o \in Resting, o.instrument = i, o.side = "SELL"
          PROVE  o \in Elements(order_books[i].sells)
      <3>1. PICK j \in DOMAIN order_books : \/ o \in Elements(order_books[j].buys)
                                            \/ o \in Elements(order_books[j].sells)
        BY <1>3
      <3> QED
        BY <1>2, <2>1, <3>1
    <2> QED
      BY <1>2, <1>3, <2>1
  <1>6. \A o \in Resting : o.side \in {"BUY", "SELL"}
    BY <1>2, <1>3
  <1> QED
    BY <1>4, <1>5, <1>6 DEF OpenOrders

LEMMA RestingType ==
  ASSUME TypeOK, NEW o \in Resting
  PROVE  /\ o \in EngineOrder /\ o.instrument \in DOMAIN order_books
         /\ o \in Held(o.instrument, o.side)
  <1>1. PICK i \in DOMAIN order_books : o \in OpenOrders(order_books[i])
    BY DEF Resting
  <1>2. order_books[i].buys \in Seq(Held(i, "BUY")) /\ order_books[i].sells \in Seq(Held(i, "SELL"))
    BY DEF TypeOK, BookOf
  <1>3. o \in Held(i, "BUY") \/ o \in Held(i, "SELL")
    BY <1>1, <1>2 DEF OpenOrders, Elements
  <1> QED
    BY <1>3 DEF Held

\* Two resting orders with one id are one order.
LEMMA RestingOnce ==
  ASSUME TypeOK, Accounts, BooksApart, NEW a \in Resting, NEW b \in Resting, a.id = b.id
  PROVE  a = b
  <1>1. /\ a \in EngineOrder /\ a.instrument \in DOMAIN order_books
        /\ b \in EngineOrder /\ b.instrument \in DOMAIN order_books
    BY RestingType
  <1>2. /\ arrivals[a.id] = [a EXCEPT !.qty = a.qty + Traded(a.id, trades)]
        /\ arrivals[b.id] = [b EXCEPT !.qty = b.qty + Traded(b.id, trades)]
    BY DEF Accounts, Open
  <1>3. a.instrument = b.instrument /\ a.side = b.side
    BY <1>1, <1>2 DEF EngineOrder
  <1> DEFINE i == a.instrument
  <1>4. IdsApart(order_books[i].buys) /\ IdsApart(order_books[i].sells)
    BY <1>1 DEF BooksApart, BookApart
  <1>5. CASE a.side = "BUY"
    <2>1. a \in Elements(order_books[i].buys) /\ b \in Elements(order_books[i].buys)
      BY <1>1, <1>3, <1>5, RestingAt
    <2> QED
      BY <1>4, <2>1 DEF IdsApart, Elements
  <1>6. CASE a.side = "SELL"
    <2>1. a \in Elements(order_books[i].sells) /\ b \in Elements(order_books[i].sells)
      BY <1>1, <1>3, <1>6, RestingAt
    <2> QED
      BY <1>4, <2>1 DEF IdsApart, Elements
  <1> QED
    BY <1>1, <1>5, <1>6 DEF EngineOrder, Sides

LEMMA CurrentType ==
  ASSUME TypeOK, current # NoOrder
  PROVE  current \in EngineOrder /\ current \in Held(current.instrument, current.side)
  BY DEF TypeOK, Held

LEMMA InitInv == Init => Inv
  BY DEF Init, Inv, TypeOK, Accounts, CurrentIsLast, TradesKnown, BooksApart, Opened,
         OnlyOpenersAreEmpty, Open, Resting

LEMMA TakeOrderInv ==
  ASSUME Inv, NEW order \in NewOrders, TakeOrder(order)
  PROVE  Inv'
  <1> DEFINE n == Len(arrivals) + 1
  <1>1. /\ current = NoOrder /\ current' = order /\ arrivals' = Append(arrivals, order)
        /\ order_books' = order_books /\ trades' = trades
    BY DEF TakeOrder
  <1>2. n \in Nat /\ n - 1 \in Nat /\ Len(arrivals) = n - 1
    BY DEF Inv, TypeOK
  <1>3. order \in EngineOrder /\ order.id = n
    BY <1>2, EngineAssumption DEF NewOrders, EngineOrder
  <1>4. order # NoOrder
    BY <1>3, EngineAssumption DEF EngineOrder
  <1>5. /\ Len(arrivals') = n /\ arrivals'[n] = order
        /\ \A k \in 1 .. n - 1 : arrivals'[k] = arrivals[k]
    BY <1>1, <1>2, <1>3 DEF Inv, TypeOK
  <1>6. TypeOK'
    <2>1. arrivals' \in Seq(EngineOrder) /\ current' \in EngineOrder \cup {NoOrder}
      BY <1>1, <1>3 DEF Inv, TypeOK
    <2>2. \A i \in DOMAIN order_books' : order_books'[i] \in BookOf(i)
      BY <1>1 DEF Inv, TypeOK
    <2> QED
      BY <1>1, <2>1, <2>2 DEF Inv, TypeOK
  <1>7. Resting' = Resting
    BY <1>1 DEF Resting
  <1>8. \A o \in Resting : o.id \in 1 .. n - 1
    BY <1>2 DEF Inv, Accounts, Open
  <1>9. Traded(n, trades) = 0
    <2>1. trades \in Seq(TradeLines) /\ \A k \in 1 .. Len(trades) : n \notin {trades[k].order, trades[k].contra}
      BY <1>2 DEF Inv, TypeOK, TradesKnown
    <2> QED
      BY <2>1, TradedUnnamed
  <1> HIDE DEF n
  <1>10. Accounts'
    <2> SUFFICES ASSUME NEW o \in Open'
                 PROVE  /\ o.id \in 1 .. n
                        /\ arrivals'[o.id] = [o EXCEPT !.qty = o.qty + Traded(o.id, trades)]
      BY <1>1, <1>5 DEF Accounts
    <2>1. CASE o \in Resting
      <3>1. o.id \in 1 .. n - 1 /\ arrivals[o.id] = [o EXCEPT !.qty = o.qty + Traded(o.id, trades)]
        BY <1>8, <2>1 DEF Inv, Accounts, Open
      <3> QED
        BY <1>2, <1>5, <3>1
    <2>2. CASE o = order
      <3>1. [order EXCEPT !.qty = order.qty + 0] = order
        BY <1>3 DEF EngineOrder
      <3> QED
        BY <1>2, <1>3, <1>5, <1>9, <2>2, <3>1
    <2> QED
      BY <1>1, <1>7, <2>1, <2>2 DEF Open
  <1>11. CurrentIsLast'
    BY <1>1, <1>2, <1>3, <1>5, <1>7, <1>8 DEF CurrentIsLast
  <1>12. TradesKnown'
    <2>1. \A k \in 1 .. Len(trades) : {trades[k].order, trades[k].contra} \subseteq 1 .. n - 1
      BY <1>2 DEF Inv, TradesKnown, n
    <2>2. 1 .. n - 1 \subseteq 1 .. n
      BY <1>2
    <2> QED
      BY <1>1, <1>5, <2>1, <2>2 DEF TradesKnown
  <1>13. BooksApart'
    BY <1>1 DEF Inv, BooksApart
  <1>14. Opened'
    <2> SUFFICES ASSUME NEW k \in 1 .. n
                 PROVE  arrivals'[k].instrument \in DOMAIN order_books \/ k = order.id
      BY <1>1, <1>4, <1>5 DEF Opened
    <2>1. CASE k = n
      BY <1>3, <2>1
    <2>2. CASE k # n
      <3>1. k \in 1 .. n - 1 /\ k \in 1 .. Len(arrivals)
        BY <1>2, <2>2
      <3> QED
        BY <1>1, <1>5, <3>1 DEF Inv, Opened
    <2> QED
      BY <2>1, <2>2
  <1>15. OnlyOpenersAreEmpty'
    <2> SUFFICES ASSUME NEW o \in Resting, o.qty <= 0, NEW id \in 1 .. o.id - 1
                 PROVE  arrivals'[id].instrument # o.instrument
      BY <1>7 DEF OnlyOpenersAreEmpty
    <2>1. id \in 1 .. n - 1
      BY <1>2, <1>8
    <2> QED
      BY <1>5, <2>1 DEF Inv, OnlyOpenersAreEmpty
  <1> QED
    BY <1>6, <1>10, <1>11, <1>12, <1>13, <1>14, <1>15 DEF Inv

\* One book takes a new value, orders before opened, instruments closed as they were.
LEMMA BookChanged ==
  ASSUME TypeOK, NEW i, NEW book \in BookOf(i),
         DOMAIN order_books' = DOMAIN order_books \cup {i}, order_books'[i] = book,
         \A j \in DOMAIN order_books : j # i => order_books'[j] = order_books[j]
  PROVE  /\ \A j \in DOMAIN order_books' : order_books'[j] \in BookOf(j)
         /\ Resting' = {o \in Resting : o.instrument # i} \cup OpenOrders(book)
         /\ BooksApart /\ BookApart(book) => BooksApart'
  <1>1. \A j \in DOMAIN order_books' : order_books'[j] \in BookOf(j)
    BY DEF TypeOK
  <1>2. BooksApart /\ BookApart(book) => BooksApart'
    BY DEF BooksApart
  <1>3. Resting' = {o \in Resting : o.instrument # i} \cup OpenOrders(book)
    <2> DEFINE held(j) == OpenOrders(order_books[j])
               after(j) == OpenOrders(order_books'[j])
    <2>1. Resting = UNION {held(j) : j \in DOMAIN order_books}
      BY DEF Resting
    <2>2. Resting' = UNION {after(j) : j \in DOMAIN order_books'}
      BY DEF Resting
    <2>3. \A j \in DOMAIN order_books : \A o \in held(j) : o.instrument = j
      BY RestingAt
    <2>4. after(i) = OpenOrders(book) /\ \A j \in DOMAIN order_books : j # i => after(j) = held(j)
      OBVIOUS
    <2> HIDE DEF held, after
    <2> QED
      BY <2>1, <2>2, <2>3, <2>4
  <1> QED
    BY <1>1, <1>2, <1>3

\* An order enters a book: FirstOrder and Enter.
LEMMA EnteredInv ==
  ASSUME Inv, current # NoOrder, current' = NoOrder,
         DOMAIN order_books' = DOMAIN order_books \cup {current.instrument},
         NEW book \in BookOf(current.instrument), BookApart(book),
         OpenOrders(book) = {o \in Resting : o.instrument = current.instrument} \cup {current},
         order_books'[current.instrument] = book,
         \A j \in DOMAIN order_books : j # current.instrument => order_books'[j] = order_books[j],
         current.qty > 0 \/ current.instrument \notin DOMAIN order_books,
         UNCHANGED <<arrivals, trades>>
  PROVE  Inv'
  <1>1. /\ \A j \in DOMAIN order_books' : order_books'[j] \in BookOf(j)
        /\ Resting' = Resting \cup {current}
        /\ BooksApart'
    <2>1. /\ \A j \in DOMAIN order_books' : order_books'[j] \in BookOf(j)
          /\ Resting' = {o \in Resting : o.instrument # current.instrument} \cup OpenOrders(book)
          /\ BooksApart /\ BookApart(book) => BooksApart'
      BY BookChanged DEF Inv
    <2> QED
      BY <2>1 DEF Inv
  <1>2. TypeOK'
    BY <1>1 DEF Inv, TypeOK
  <1>3. Open' = Open
    BY <1>1 DEF Open
  <1>4. Accounts'
    BY <1>3 DEF Inv, Accounts
  <1>5. CurrentIsLast'
    BY DEF CurrentIsLast
  <1>6. TradesKnown'
    BY DEF Inv, TradesKnown
  <1>7. Opened'
    <2> SUFFICES ASSUME NEW k \in 1 .. Len(arrivals)
                 PROVE  arrivals[k].instrument \in DOMAIN order_books'
      BY DEF Opened
    <2>1. CASE k = current.id
      <3>1. arrivals[k] = [current EXCEPT !.qty = current.qty + Traded(current.id, trades)]
        BY <2>1 DEF Inv, Accounts, Open
      <3>2. current \in EngineOrder
        BY CurrentType DEF Inv
      <3>3. arrivals[k].instrument = current.instrument
        BY <3>1, <3>2 DEF EngineOrder
      <3> QED
        BY <3>3
    <2>2. CASE k # current.id
      BY <2>2 DEF Inv, Opened
    <2> QED
      BY <2>1, <2>2
  <1>8. OnlyOpenersAreEmpty'
    <2> SUFFICES ASSUME NEW o \in Resting', o.qty <= 0, NEW id \in 1 .. o.id - 1
                 PROVE  arrivals[id].instrument # o.instrument
      BY DEF OnlyOpenersAreEmpty
    <2>1. CASE o \in Resting
      BY <2>1 DEF Inv, OnlyOpenersAreEmpty
    <2>2. CASE o = current
      <3>1. current.id = Len(arrivals) /\ Len(arrivals) \in Nat /\ current.qty \in Int
        BY CurrentType DEF Inv, TypeOK, CurrentIsLast, EngineOrder
      <3>2. id \in 1 .. Len(arrivals) /\ id # current.id
        BY <2>2, <3>1
      <3>3. arrivals[id].instrument \in DOMAIN order_books
        BY <3>2 DEF Inv, Opened
      <3>4. current.instrument \notin DOMAIN order_books
        BY <2>2, <3>1
      <3> QED
        BY <2>2, <3>3, <3>4
    <2> QED
      BY <1>1, <2>1, <2>2
  <1> QED
    BY <1>1, <1>2, <1>4, <1>5, <1>6, <1>7, <1>8 DEF Inv

LEMMA EmptyBookIs ==
  ASSUME NEW i
  PROVE  /\ EmptyBook \in BookOf(i) /\ OpenOrders(EmptyBook) = {}
         /\ BookApart(EmptyBook) /\ BookHeaps(EmptyBook)
  BY DEF EmptyBook, BookOf, OpenOrders, Elements, BookApart, IdsApart, BookHeaps, IsHeap

\* The current order can enter the book of its instrument.
LEMMA CurrentFits ==
  ASSUME TypeOK, current # NoOrder, NEW book \in BookOf(current.instrument)
  PROVE  /\ AddToBook(book, current) \in BookOf(current.instrument)
         /\ OpenOrders(AddToBook(book, current)) = OpenOrders(book) \cup {current}
         /\ BookApart(book) /\ (\A e \in OpenOrders(book) : e.id # current.id)
               => BookApart(AddToBook(book, current))
         /\ Apart(Prices) /\ BookHeaps(book) => BookHeaps(AddToBook(book, current))
  <1> DEFINE i == current.instrument
             B == Held(i, "BUY")
             S == Held(i, "SELL")
  <1>1. /\ current.side = "BUY" => current \in B
        /\ current.side # "BUY" => current \in S
    BY CurrentType DEF Held, EngineOrder, Sides
  <1>2. book \in [buys : Seq(B), sells : Seq(S)]
    BY DEF BookOf
  <1>3. Apart(Prices) => Ranked(B) /\ Ranked(S)
    BY HeldRanked
  <1> HIDE DEF B, S
  <1>4. /\ AddToBook(book, current) \in [buys : Seq(B), sells : Seq(S)]
        /\ OpenOrders(AddToBook(book, current)) = OpenOrders(book) \cup {current}
        /\ BookApart(book) /\ (\A e \in OpenOrders(book) : e.id # current.id)
               => BookApart(AddToBook(book, current))
        /\ Ranked(B) /\ Ranked(S) /\ BookHeaps(book) => BookHeaps(AddToBook(book, current))
    BY <1>1, <1>2, BookAdded
  <1> QED
    BY <1>3, <1>4 DEF BookOf, B, S

LEMMA FirstOrderInv ==
  ASSUME Inv, FirstOrder
  PROVE  Inv'
  <1> DEFINE i == current.instrument
             book == AddToBook(EmptyBook, current)
  <1>1. /\ current # NoOrder /\ i \notin DOMAIN order_books /\ current' = NoOrder
        /\ order_books' = [j \in DOMAIN order_books \cup {i} |-> IF j = i THEN book ELSE order_books[j]]
        /\ UNCHANGED <<arrivals, trades>>
    BY DEF FirstOrder, HasBook
  <1>2. book \in BookOf(i) /\ OpenOrders(book) = {current} /\ BookApart(book)
    BY <1>1, EmptyBookIs, CurrentFits DEF Inv
  <1> HIDE DEF book
  <1>3. {o \in Resting : o.instrument = i} = {}
    BY <1>1, RestingType DEF Inv
  <1> QED
    BY <1>1, <1>2, <1>3, EnteredInv

LEMMA EnterInv ==
  ASSUME Inv, Enter
  PROVE  Inv'
  <1> DEFINE i == current.instrument
             book == AddToBook(order_books[i], current)
  <1>1. /\ current # NoOrder /\ i \in DOMAIN order_books /\ current' = NoOrder
        /\ current.qty > 0
        /\ order_books' = [order_books EXCEPT ![i] = book]
        /\ UNCHANGED <<arrivals, trades>>
    BY DEF Enter, HasBook, SomethingLeft, AfterEntering
  <1>2. order_books[i] \in BookOf(i) /\ BookApart(order_books[i])
    BY <1>1 DEF Inv, TypeOK, BooksApart
  <1>3. OpenOrders(order_books[i]) = {o \in Resting : o.instrument = i}
    BY <1>1, RestingAt DEF Inv
  <1>4. \A o \in Resting : o.id # current.id
    <2>1. \A o \in Resting : o.id < current.id /\ o.id \in Int
      BY <1>1, RestingType DEF Inv, CurrentIsLast, EngineOrder
    <2>2. current.id \in Int
      BY <1>1, CurrentType DEF Inv, EngineOrder
    <2> QED
      BY <2>1, <2>2
  <1>5. /\ book \in BookOf(i) /\ BookApart(book)
        /\ OpenOrders(book) = {o \in Resting : o.instrument = i} \cup {current}
    BY <1>1, <1>2, <1>3, <1>4, CurrentFits DEF Inv
  <1> HIDE DEF book
  <1> QED
    BY <1>1, <1>5, EnteredInv

LEMMA DoneInv ==
  ASSUME Inv, Done
  PROVE  Inv'
  <1>1. /\ current # NoOrder /\ current.instrument \in DOMAIN order_books /\ current' = NoOrder
        /\ UNCHANGED <<order_books, arrivals, trades>>
    BY DEF Done, HasBook
  <1>2. Resting' = Resting /\ Open' \subseteq Open
    BY <1>1 DEF Resting, Open
  <1>3. TypeOK' /\ CurrentIsLast' /\ TradesKnown' /\ BooksApart' /\ OnlyOpenersAreEmpty'
    BY <1>1, <1>2 DEF Inv, TypeOK, CurrentIsLast, TradesKnown, BooksApart, OnlyOpenersAreEmpty
  <1>4. Accounts'
    BY <1>1, <1>2 DEF Inv, Accounts
  <1>5. Opened'
    <2> SUFFICES ASSUME NEW k \in 1 .. Len(arrivals)
                 PROVE  arrivals[k].instrument \in DOMAIN order_books
      BY <1>1 DEF Opened
    <2>1. CASE k = current.id
      <3>1. arrivals[k] = [current EXCEPT !.qty = current.qty + Traded(current.id, trades)]
        BY <1>1, <2>1 DEF Inv, Accounts, Open
      <3>2. arrivals[k].instrument = current.instrument
        BY <1>1, <3>1, CurrentType DEF Inv, EngineOrder
      <3> QED
        BY <1>1, <3>2
    <2>2. CASE k # current.id
      BY <2>2 DEF Inv, Opened
    <2> QED
      BY <2>1, <2>2
  <1> QED
    BY <1>3, <1>4, <1>5 DEF Inv

\* What Trade does to the orders that rest: the front contra order f has traded q.
LEMMA TradeEffect ==
  ASSUME TypeOK, BooksApart, Trade
  PROVE  \E f \in Resting, q \in Int :
           /\ f = FrontContra(Book, current) /\ q = TradeQuantity(current, f)
           /\ current.qty \in Int /\ current.qty > 0 /\ f.qty \in Int
           /\ f.instrument = current.instrument /\ f.side # current.side
           /\ current' = [current EXCEPT !.qty = current.qty - q]
           /\ trades' = Append(trades, TradeLine(current, f))
           /\ arrivals' = arrivals /\ DOMAIN order_books' = DOMAIN order_books
           /\ \A i \in DOMAIN order_books' : order_books'[i] \in BookOf(i)
           /\ BooksApart'
           /\ Resting' \subseteq (Resting \ {f}) \cup Left(f, q)
           /\ (\A e \in Resting : e.qty # 0) => Resting' = (Resting \ {f}) \cup Left(f, q)
           /\ Apart(Prices) /\ HeapOrdered => HeapOrdered'
  <1> DEFINE i == current.instrument
             B == Held(i, "BUY")
             S == Held(i, "SELL")
             book == order_books[i]
             f == FrontContra(book, current)
             q == TradeQuantity(current, f)
             n == AfterTrade(book, current, q)
  <1>1. /\ current # NoOrder /\ i \in DOMAIN order_books /\ current.qty > 0
        /\ HasContra(book, current)
        /\ trades' = Append(trades, TradeLine(current, f))
        /\ current' = [current EXCEPT !.qty = current.qty - q]
        /\ order_books' = [order_books EXCEPT ![i] = n]
        /\ arrivals' = arrivals
    BY DEF Trade, HasBook, Book, TradeLine
  <1>2. current \in EngineOrder /\ current.side \in {"BUY", "SELL"}
    BY <1>1, CurrentType DEF EngineOrder, Sides
  <1>3. book \in [buys : Seq(B), sells : Seq(S)] /\ BookApart(book)
    BY <1>1 DEF TypeOK, BookOf, BooksApart
  <1>4. /\ Elements(book.buys) = {o \in Resting : o.instrument = i /\ o.side = "BUY"}
        /\ Elements(book.sells) = {o \in Resting : o.instrument = i /\ o.side = "SELL"}
    BY <1>1, RestingAt
  <1>5. f \in Elements(ContraOrders(book, current))
    <2>1. ContraOrders(book, current) # <<>> /\ f = ContraOrders(book, current)[1]
      BY <1>1 DEF HasContra, FrontContra
    <2>2. ContraOrders(book, current) \in Seq(B) \cup Seq(S)
      BY <1>3 DEF Against, ContraOrders
    <2>3. 1 \in DOMAIN ContraOrders(book, current)
      BY <2>1, <2>2
    <2> QED
      BY <2>1, <2>3 DEF Elements
  <1>6. f \in Resting /\ f.instrument = i /\ f.side # current.side
    BY <1>2, <1>4, <1>5 DEF Against, ContraOrders
  <1>7. f \in EngineOrder /\ f.qty \in Int /\ current.qty \in Int
    BY <1>2, <1>6, RestingType DEF EngineOrder
  <1> HIDE DEF f
  <1>8. q \in Int
    BY <1>7 DEF TradeQuantity
  <1> HIDE DEF q
  <1>9. Reducible(B) /\ Reducible(S) /\ (Apart(Prices) => Ranked(B) /\ Ranked(S))
    BY HeldReducible, HeldRanked
  <1> HIDE DEF n
  <1>n. n = AfterTrade(book, current, q)
    BY Zenon DEF n
  <1>f. f = FrontContra(book, current)
    BY Zenon DEF f
  <1> HIDE DEF B, S, book
  <1>10. /\ n \in [buys : Seq(B), sells : Seq(S)] /\ BookApart(n)
         /\ Ranked(B) /\ Ranked(S) /\ BookHeaps(book) => BookHeaps(n)
         /\ Elements(ContraOrders(n, current)) = LessTraded(ContraOrders(book, current), f, q)
         /\ Elements(OwnOrders(n, current)) \subseteq Elements(OwnOrders(book, current))
         /\ NoneEmpty(OwnOrders(book, current)) => OwnOrders(n, current) = OwnOrders(book, current)
    <2>1. HasContra(book, current) /\ Reducible(B) /\ Reducible(S) /\ BookApart(book)
      BY <1>1, <1>3, <1>9
    <2>2. book \in [buys : Seq(B), sells : Seq(S)]
      BY <1>3
    <2>3. /\ n \in [buys : Seq(B), sells : Seq(S)] /\ BookApart(n)
          /\ Ranked(B) /\ Ranked(S) /\ BookHeaps(book) => BookHeaps(n)
      BY <1>n, <1>f, <1>8, <2>1, <2>2, BookTraded
    <2>4. Elements(ContraOrders(n, current)) = LessTraded(ContraOrders(book, current), f, q)
      BY <1>n, <1>f, <1>8, <2>1, <2>2, BookTraded
    <2>5. Elements(OwnOrders(n, current)) \subseteq Elements(OwnOrders(book, current))
      BY <1>n, <1>f, <1>8, <2>1, <2>2, BookTraded
    <2>6. NoneEmpty(OwnOrders(book, current)) => OwnOrders(n, current) = OwnOrders(book, current)
      BY <1>n, <1>f, <1>8, <2>1, <2>2, BookTraded
    <2> QED
      BY <2>3, <2>4, <2>5, <2>6
  <1>11. n \in BookOf(i)
    BY <1>10 DEF BookOf, B, S
  <1>12. /\ DOMAIN order_books' = DOMAIN order_books
         /\ DOMAIN order_books' = DOMAIN order_books \cup {i} /\ order_books'[i] = n
         /\ \A j \in DOMAIN order_books : j # i => order_books'[j] = order_books[j]
    BY <1>1
  <1>13. /\ \A j \in DOMAIN order_books' : order_books'[j] \in BookOf(j)
         /\ Resting' = {o \in Resting : o.instrument # i} \cup OpenOrders(n)
         /\ BooksApart'
    BY <1>10, <1>11, <1>12, BookChanged
  <1>14. /\ OpenOrders(n) = Elements(OwnOrders(n, current)) \cup Elements(ContraOrders(n, current))
         /\ OpenOrders(book) = Elements(OwnOrders(book, current)) \cup Elements(ContraOrders(book, current))
    BY <1>2 DEF OpenOrders, Own, Against, OwnOrders, ContraOrders
  <1>15. OpenOrders(book) = {o \in Resting : o.instrument = i}
    BY <1>1, RestingAt DEF book
  <1>16. f \notin Elements(OwnOrders(book, current))
    BY <1>2, <1>4, <1>6 DEF Own, OwnOrders
  <1>17. Resting' \subseteq (Resting \ {f}) \cup Left(f, q)
    BY <1>6, <1>10, <1>13, <1>14, <1>15, <1>16 DEF LessTraded
  <1>18. ASSUME \A e \in Resting : e.qty # 0
         PROVE  Resting' = (Resting \ {f}) \cup Left(f, q)
    <2>1. OwnOrders(n, current) = OwnOrders(book, current)
      BY <1>10, <1>14, <1>15, <1>18 DEF NoneEmpty
    <2> QED
      BY <1>6, <1>10, <1>13, <1>14, <1>15, <1>16, <2>1 DEF LessTraded
  <1>19. ASSUME Apart(Prices), HeapOrdered PROVE HeapOrdered'
    <2>1. BookHeaps(book)
      BY <1>1, <1>19 DEF HeapOrdered, BookHeaps, book
    <2>2. BookHeaps(n)
      BY <1>9, <1>10, <1>19, <2>1
    <2> QED
      BY <1>12, <1>19, <2>2 DEF HeapOrdered, BookHeaps
  <1>20. f = FrontContra(Book, current) /\ q = TradeQuantity(current, f)
    BY DEF Book, book, f, q
  <1> QED
    BY <1>1, <1>6, <1>7, <1>8, <1>12, <1>13, <1>17, <1>18, <1>19, <1>20

LEMMA TradeInv ==
  ASSUME Inv, Trade
  PROVE  Inv'
  <1> DEFINE n == Len(arrivals)
  <1>1. current # NoOrder
    BY DEF Trade, HasBook
  <1>2. PICK f \in Resting, q \in Int :
          /\ q = TradeQuantity(current, f)
          /\ current.qty \in Int /\ current.qty > 0 /\ f.qty \in Int
          /\ current' = [current EXCEPT !.qty = current.qty - q]
          /\ trades' = Append(trades, TradeLine(current, f))
          /\ arrivals' = arrivals /\ DOMAIN order_books' = DOMAIN order_books
          /\ \A i \in DOMAIN order_books' : order_books'[i] \in BookOf(i)
          /\ BooksApart'
          /\ Resting' \subseteq (Resting \ {f}) \cup Left(f, q)
    BY TradeEffect DEF Inv
  <1> DEFINE less(o) == [o EXCEPT !.qty = o.qty - q]
             trade == TradeLine(current, f)
  <1>3. current \in EngineOrder /\ f \in EngineOrder
    BY <1>1, RestingType, CurrentType DEF Inv
  <1>4. \A o \in EngineOrder : /\ less(o) \in EngineOrder /\ less(o).id = o.id
                               /\ less(o).instrument = o.instrument /\ less(o).qty = o.qty - q
                               /\ less(o).qty \in Int
    BY DEF EngineOrder
  <1>5. /\ trade \in TradeLines /\ trade.order = current.id /\ trade.contra = f.id /\ trade.qty = q
    <2>1. f.price \in Int
      BY <1>3, EngineAssumption DEF EngineOrder
    <2> QED
      BY <1>2, <1>3, <2>1 DEF TradeLine, TradeLines, EngineOrder
  <1>6. \A o \in Resting' : \/ o \in Resting /\ o # f
                            \/ o = less(f) /\ f.qty # q
    BY <1>2 DEF Left
  <1>7. current' = less(current) /\ trades' = Append(trades, trade)
    BY <1>2
  <1>8. current' # NoOrder
    <2>1. less(current) \in EngineOrder
      BY <1>3, <1>4
    <2> QED
      BY <1>7, <2>1, EngineAssumption DEF EngineOrder
  <1> HIDE DEF trade
  <1>9. TypeOK'
    <2>1. trades' \in Seq(TradeLines)
      BY <1>5, <1>7 DEF Inv, TypeOK
    <2>2. current' \in EngineOrder \cup {NoOrder}
      BY <1>3, <1>4, <1>7
    <2> QED
      BY <1>2, <2>1, <2>2 DEF Inv, TypeOK
  <1>10. \A id : Traded(id, trades') = Traded(id, trades) + Named(id, trade) /\ Traded(id, trades) \in Int
    BY <1>5, <1>7, TradedAppend DEF Inv, TypeOK
  <1>11. /\ current.id = n /\ n \in Nat /\ f.id \in 1 .. n /\ f.id < n
         /\ \A o \in Resting : o.id < n /\ o.id \in 1 .. n
    <2>1. n \in Nat
      BY DEF Inv, TypeOK
    <2>2. \A o \in Resting : o.id \in 1 .. n
      BY DEF Inv, Accounts, Open
    <2>3. current.id = n /\ \A o \in Resting : o.id < current.id
      BY <1>1 DEF Inv, CurrentIsLast
    <2> HIDE DEF n
    <2> QED
      BY <2>1, <2>2, <2>3
  <1>12. \A o \in Resting : o # f => o.id # f.id
    BY RestingOnce DEF Inv
  <1>13. \A o \in Open : /\ o.id \in 1 .. n
                         /\ arrivals[o.id] = [o EXCEPT !.qty = o.qty + Traded(o.id, trades)]
    BY DEF Inv, Accounts
  <1> HIDE DEF n
  <1>14. ASSUME NEW o \in {current, f}
         PROVE  /\ less(o).id \in 1 .. n
                /\ arrivals'[less(o).id] = [less(o) EXCEPT !.qty = less(o).qty + Traded(less(o).id, trades')]
    <2>1. o \in Open /\ o \in EngineOrder
      BY <1>1, <1>3 DEF Open
    <2>2. Named(o.id, trade) = q
      BY <1>5 DEF Named
    <2>3. less(o).id = o.id /\ o.qty \in Int /\ Traded(o.id, trades) \in Int
      BY <1>4, <1>10, <2>1 DEF EngineOrder
    <2>4. less(o).qty + Traded(o.id, trades') = o.qty + Traded(o.id, trades)
      BY <1>2, <1>4, <1>10, <2>1, <2>2, <2>3
    <2> DEFINE x == o.qty + Traded(o.id, trades)
    <2>5. [less(o) EXCEPT !.qty = x] = [o EXCEPT !.qty = x]
      <3> HIDE DEF x
      <3> QED
        BY <2>1 DEF EngineOrder
    <2>6. arrivals[o.id] = [o EXCEPT !.qty = x] /\ o.id \in 1 .. n
      BY <1>13, <2>1
    <2> HIDE DEF less
    <2> QED
      BY <1>2, <2>3, <2>4, <2>5, <2>6
  <1>15. Accounts'
    <2> SUFFICES ASSUME NEW o \in Open'
                 PROVE  /\ o.id \in 1 .. n
                        /\ arrivals'[o.id] = [o EXCEPT !.qty = o.qty + Traded(o.id, trades')]
      BY <1>2 DEF Accounts, n
    <2>1. CASE o \in Resting /\ o # f
      <3>1. o.id # current.id /\ o.id # f.id
        BY <1>11, <1>12, <2>1
      <3>2. Named(o.id, trade) = 0
        BY <1>5, <3>1 DEF Named
      <3>3. Traded(o.id, trades') = Traded(o.id, trades)
        BY <1>10, <3>2
      <3> QED
        BY <1>2, <1>13, <2>1, <3>3 DEF Open
    <2>2. CASE o = less(f)
      BY <1>14, <2>2
    <2>3. CASE o = less(current)
      BY <1>14, <2>3
    <2> QED
      BY <1>6, <1>7, <2>1, <2>2, <2>3 DEF Open
  <1>16. \A o \in Resting' : \E p \in Resting : o.id = p.id /\ o.instrument = p.instrument
                                               /\ (o.qty <= 0 => p.qty <= 0)
    <2> SUFFICES ASSUME NEW o \in Resting', o = less(f), f.qty # q
                 PROVE  o.id = f.id /\ o.instrument = f.instrument /\ (o.qty <= 0 => f.qty <= 0)
      BY <1>6
    <2>1. q = IF f.qty < current.qty THEN f.qty ELSE current.qty
      BY <1>2 DEF TradeQuantity
    <2>2. q < f.qty /\ o.qty > 0
      BY <1>2, <1>3, <1>4, <2>1
    <2> QED
      BY <1>2, <1>3, <1>4, <2>2
  <1>17. CurrentIsLast'
    <2>1. current'.id = n
      BY <1>3, <1>4, <1>7, <1>11
    <2> QED
      BY <1>2, <1>11, <1>16, <2>1 DEF CurrentIsLast, n
  <1>18. TradesKnown'
    <2> SUFFICES ASSUME NEW k \in 1 .. Len(trades')
                 PROVE  {trades'[k].order, trades'[k].contra} \subseteq 1 .. n
      BY <1>2 DEF TradesKnown, n
    <2>1. /\ Len(trades) \in Nat /\ Len(trades') = Len(trades) + 1
          /\ trades'[Len(trades) + 1] = trade
          /\ \A j \in 1 .. Len(trades) : trades'[j] = trades[j]
      BY <1>5, <1>7 DEF Inv, TypeOK
    <2>2. CASE k = Len(trades) + 1
      BY <1>5, <1>11, <2>1, <2>2
    <2>3. CASE k # Len(trades) + 1
      <3>1. k \in 1 .. Len(trades)
        BY <2>1, <2>3
      <3> QED
        BY <2>1, <3>1 DEF Inv, TradesKnown, n
    <2> QED
      BY <2>2, <2>3
  <1>19. Opened'
    BY <1>1, <1>2, <1>3, <1>4, <1>7, <1>8 DEF Inv, Opened
  <1>20. OnlyOpenersAreEmpty'
    <2> SUFFICES ASSUME NEW o \in Resting', o.qty <= 0, NEW id \in 1 .. o.id - 1
                 PROVE  arrivals[id].instrument # o.instrument
      BY <1>2 DEF OnlyOpenersAreEmpty
    <2>1. PICK p \in Resting : o.id = p.id /\ o.instrument = p.instrument /\ p.qty <= 0
      BY <1>16
    <2> QED
      BY <2>1 DEF Inv, OnlyOpenersAreEmpty
  <1> QED
    BY <1>2, <1>9, <1>15, <1>17, <1>18, <1>19, <1>20 DEF Inv

LEMMA NextInv == Inv /\ [Next]_vars => Inv'
  <1> SUFFICES ASSUME Inv, [Next]_vars PROVE Inv'
    OBVIOUS
  <1>1. CASE \E order \in NewOrders : TakeOrder(order)
    BY <1>1, TakeOrderInv
  <1>2. CASE FirstOrder
    BY <1>2, FirstOrderInv
  <1>3. CASE Trade
    BY <1>3, TradeInv
  <1>4. CASE Enter
    BY <1>4, EnterInv
  <1>5. CASE Done
    BY <1>5, DoneInv
  <1>6. CASE UNCHANGED vars
    BY <1>6 DEF vars, Inv, TypeOK, Accounts, CurrentIsLast, TradesKnown, BooksApart, Opened,
                OnlyOpenersAreEmpty, Open, Resting
  <1> QED
    BY <1>1, <1>2, <1>3, <1>4, <1>5, <1>6 DEF Next, Process

LEMMA Invariance == Spec => []Inv
  BY InitInv, NextInv, PTL DEF Spec

\* What an open order has left and what the TRADE lines say of it add up to what
\* arrived, for zero and negative quantities too.
THEOREM EngineConservesQuantity == Spec => []QuantityConserved
  <1>1. Inv => QuantityConserved
    <2> SUFFICES ASSUME Inv, NEW o \in Open
                 PROVE  o.qty + Traded(o.id, trades) = arrivals[o.id].qty
      BY DEF QuantityConserved, Open
    <2>1. o \in EngineOrder
      BY RestingType, CurrentType DEF Inv, Open
    <2> QED
      BY <2>1 DEF Inv, Accounts, EngineOrder
  <1> QED
    BY <1>1, Invariance, PTL

\* An order without quantity rests only if it was the first for its instrument.
THEOREM EngineRefusesEmptyOrders == Spec => []OnlyOpenersAreEmpty
  <1>1. Inv => OnlyOpenersAreEmpty
    BY DEF Inv
  <1> QED
    BY <1>1, Invariance, PTL

-----------------------------------------------------------------------------
(* No order is open twice *)

\* No order is open twice, neither in one container nor in both, nor in a book
\* while it is matched, whatever the quantities are.
THEOREM EngineOpensOnce == Spec => []OpenOnce
  <1>1. Inv => OpenOnce
    <2> SUFFICES ASSUME Inv, NEW i \in DOMAIN order_books
                 PROVE  IdsApart(order_books[i].buys \o order_books[i].sells
                                   \o (IF current = NoOrder THEN <<>> ELSE <<current>>))
      BY DEF OpenOnce, IdsApart
    <2> DEFINE b == order_books[i].buys
               s == order_books[i].sells
               c == IF current = NoOrder THEN <<>> ELSE <<current>>
    <2>1. /\ b \in Seq(Held(i, "BUY")) /\ s \in Seq(Held(i, "SELL"))
          /\ IdsApart(b) /\ IdsApart(s)
      BY DEF Inv, TypeOK, BookOf, BooksApart, BookApart
    <2>2. Held(i, "BUY") \subseteq EngineOrder /\ Held(i, "SELL") \subseteq EngineOrder
      BY DEF Held
    <2>3. b \in Seq(EngineOrder) /\ s \in Seq(EngineOrder)
      BY <2>1, <2>2, SeqWider
    <2>4. c \in Seq(EngineOrder) /\ IdsApart(c) /\ \A y \in Elements(c) : y = current /\ current # NoOrder
      <3>1. CASE current = NoOrder
        BY <3>1 DEF IdsApart, Elements
      <3>2. CASE current # NoOrder
        <4>1. current \in EngineOrder
          BY <3>2, CurrentType DEF Inv
        <4>2. c = <<current>>
          BY <3>2
        <4> QED
          BY <3>2, <4>1, <4>2 DEF IdsApart, Elements
      <3> QED
        BY <3>1, <3>2
    <2>5. /\ \A x \in Elements(b) : x \in Resting /\ x.side = "BUY"
          /\ \A x \in Elements(s) : x \in Resting /\ x.side = "SELL"
      BY RestingAt DEF Inv
    <2> HIDE DEF b, s, c
    <2>6. \A x \in Elements(b), y \in Elements(s) : x.id # y.id
      BY <2>5, RestingOnce DEF Inv
    <2>7. IdsApart(b \o s) /\ b \o s \in Seq(EngineOrder)
      BY <2>1, <2>3, <2>6, JoinedApart
    <2>8. \A x \in Elements(b \o s) : x \in Resting
      BY <2>3, <2>5 DEF Elements
    <2>9. \A x \in Elements(b \o s), y \in Elements(c) : x.id # y.id
      <3> SUFFICES ASSUME current # NoOrder, NEW x \in Resting PROVE x.id # current.id
        BY <2>4, <2>8
      <3>1. x.id < current.id /\ x.id \in Int
        BY RestingType DEF Inv, CurrentIsLast, EngineOrder
      <3> QED
        BY <3>1
    <2> QED
      BY <2>4, <2>7, <2>9, JoinedApart DEF b, s, c
  <1> QED
    BY <1>1, Invariance, PTL

-----------------------------------------------------------------------------
(* The containers are heaps *)

\* Every step keeps the heaps, if no two prices are closer than the tolerance
\* of the comparison.
LEMMA NextHeaps ==
  ASSUME Apart(Prices), Inv, HeapOrdered, [Next]_vars
  PROVE  HeapOrdered'
  <1> DEFINE i == current.instrument
  <1>1. CASE UNCHANGED order_books
    BY <1>1 DEF HeapOrdered
  <1>2. CASE FirstOrder
    <2> DEFINE book == AddToBook(EmptyBook, current)
    <2>1. /\ current # NoOrder
          /\ order_books' = [j \in DOMAIN order_books \cup {i} |-> IF j = i THEN book ELSE order_books[j]]
      BY <1>2 DEF FirstOrder, HasBook
    <2>2. BookHeaps(book)
      BY <2>1, EmptyBookIs, CurrentFits DEF Inv
    <2> HIDE DEF book
    <2> QED
      BY <2>1, <2>2 DEF HeapOrdered, BookHeaps
  <1>3. CASE Enter
    <2> DEFINE book == AddToBook(order_books[i], current)
    <2>1. /\ current # NoOrder /\ i \in DOMAIN order_books
          /\ order_books' = [order_books EXCEPT ![i] = book]
      BY <1>3 DEF Enter, HasBook
    <2>2. order_books[i] \in BookOf(i) /\ BookHeaps(order_books[i])
      BY <2>1 DEF Inv, TypeOK, HeapOrdered, BookHeaps
    <2>3. BookHeaps(book)
      BY <2>1, <2>2, CurrentFits DEF Inv
    <2> HIDE DEF book
    <2> QED
      BY <2>1, <2>3 DEF HeapOrdered, BookHeaps
  <1>4. CASE Trade
    BY <1>4, TradeEffect DEF Inv
  <1> QED
    BY <1>1, <1>2, <1>3, <1>4 DEF Next, Process, TakeOrder, Done, vars

\* Every container is a heap at all times, if no two prices are closer than the
\* tolerance of the comparison (then operator< is no weak order).
THEOREM EngineKeepsHeaps ==
  ASSUME Apart(Prices)
  PROVE  Spec => []HeapOrdered
  <1>1. Init => HeapOrdered
    BY DEF Init, HeapOrdered
  <1>2. Inv /\ HeapOrdered /\ [Next]_vars => HeapOrdered'
    BY NextHeaps
  <1> QED
    BY <1>1, <1>2, Invariance, PTL DEF Spec

-----------------------------------------------------------------------------
(* The engine implements the promise *)

\* With positive quantities nothing empty rests, and an order that was worked on
\* down to nothing has a book.
Positive ==
  /\ \A o \in Resting : o.qty > 0
  /\ current # NoOrder => /\ current.qty >= 0
                          /\ current.qty = 0 => HasBook

\* What the engine shows as the promise's state.
Incoming == IF current = NoOrder \/ current.qty = 0 THEN {} ELSE {current}
Filled == [id \in DOMAIN arrivals |-> Traded(id, trades)]

\* The promise has its own copy of the operators on orders.
LEMMA SameOperators ==
  /\ Promise!Sides = Sides
  /\ \A o, c : /\ Promise!Contra(o, c) <=> Contra(o, c)
               /\ Promise!Crosses(o, c) <=> Crosses(o, c)
               /\ Promise!RanksLower(o, c) <=> RanksLower(o, c)
               /\ Promise!TradeQuantity(o, c) = TradeQuantity(o, c)
  BY DEF Sides, Contra, Crosses, RanksLower, TradeQuantity, SillyEqual,
         Promise!Sides, Promise!Contra, Promise!Crosses, Promise!RanksLower,
         Promise!TradeQuantity, Promise!SillyEqual

LEMMA InitPromised == Init => Positive /\ Promise!Init
  <1> SUFFICES ASSUME Init PROVE Positive /\ Promise!Init
    OBVIOUS
  <1>1. Resting = {} /\ current = NoOrder /\ arrivals = <<>>
    BY DEF Init, Resting
  <1>2. [id \in DOMAIN arrivals |-> Traded(id, trades)] = <<>>
    BY <1>1
  <1> QED
    BY <1>1, <1>2 DEF Positive, Promise!Init

LEMMA TakeOrderPromised ==
  ASSUME Inv, Positive, Quantities \subseteq Nat \ {0},
         NEW order \in NewOrders, TakeOrder(order)
  PROVE  Positive' /\ order \in Promise!NewOrders /\ Promise!Submit(order)
  <1> DEFINE n == Len(arrivals) + 1
  <1>1. /\ current = NoOrder /\ current' = order /\ arrivals' = Append(arrivals, order)
        /\ order_books' = order_books /\ trades' = trades /\ Len(arrivals) < MaxOrders
    BY DEF TakeOrder
  <1>2. order \in Promise!NewOrders /\ order.qty \in Nat \ {0}
    BY SameOperators DEF NewOrders, Promise!NewOrders
  <1>3. Resting' = Resting
    BY <1>1 DEF Resting
  <1>4. n \in Nat /\ Len(arrivals) = n - 1 /\ DOMAIN arrivals = 1 .. n - 1
    BY DEF Inv, TypeOK
  <1>5. order \in EngineOrder
    BY <1>4, EngineAssumption DEF NewOrders, EngineOrder
  <1>6. order # NoOrder
    BY <1>5, EngineAssumption DEF EngineOrder
  <1>7. Traded(n, trades) = 0
    <2>1. trades \in Seq(TradeLines) /\ \A k \in 1 .. Len(trades) : n \notin {trades[k].order, trades[k].contra}
      BY <1>4 DEF Inv, TypeOK, TradesKnown
    <2> QED
      BY <2>1, TradedUnnamed
  <1>8. Filled' = Append(Filled, 0)
    <2> DEFINE t(id) == Traded(id, trades)
    <2>1. DOMAIN arrivals' = 1 .. n
      BY <1>1, <1>4, <1>5 DEF Inv, TypeOK
    <2> HIDE DEF n, t
    <2>2. Filled = [id \in 1 .. n - 1 |-> t(id)] /\ Filled' = [id \in 1 .. n |-> t(id)]
      BY <1>1, <1>4, <2>1 DEF Filled, t
    <2>3. t(n) = 0
      BY <1>7 DEF t
    <2> QED
      BY <1>4, <2>2, <2>3
  <1>9. Positive'
    BY <1>1, <1>2, <1>3 DEF Positive
  <1>10. Incoming = {} /\ Incoming' = {order}
    BY <1>1, <1>2, <1>6 DEF Incoming
  <1>11. Promise!Submit(order)
    BY <1>1, <1>3, <1>8, <1>10 DEF Promise!Submit, Incoming, Filled
  <1> QED
    BY <1>2, <1>9, <1>11

\* FirstOrder and Enter: the current order rests, and no resting order crosses it.
LEMMA EnteredPromised ==
  ASSUME Inv, Positive, current # NoOrder, current.qty # 0, current' = NoOrder,
         Resting' = Resting \cup {current},
         \A c \in Resting : Contra(current, c) => ~Crosses(current, c),
         UNCHANGED <<arrivals, trades>>
  PROVE  Positive' /\ \E o \in Incoming : Promise!Enter(o)
  <1>1. Filled' = Filled
    BY DEF Filled
  <1>2. Incoming = {current} /\ Incoming' = {}
    BY DEF Incoming
  <1>3. Positive'
    <2>1. current.qty \in Int
      BY CurrentType DEF Inv, EngineOrder
    <2> QED
      BY <2>1 DEF Positive
  <1>4. Promise!Enter(current)
    BY <1>1, <1>2, SameOperators DEF Promise!Enter, Incoming, Filled
  <1> QED
    BY <1>2, <1>3, <1>4

LEMMA FirstOrderPromised ==
  ASSUME Inv, Positive, FirstOrder
  PROVE  Positive' /\ \E o \in Incoming : Promise!Enter(o)
  <1> DEFINE i == current.instrument
             book == AddToBook(EmptyBook, current)
  <1>1. /\ current # NoOrder /\ i \notin DOMAIN order_books /\ current' = NoOrder
        /\ order_books' = [j \in DOMAIN order_books \cup {i} |-> IF j = i THEN book ELSE order_books[j]]
        /\ UNCHANGED <<arrivals, trades>>
    BY DEF FirstOrder, HasBook
  <1>2. current.qty # 0
    BY <1>1 DEF Positive, HasBook
  <1>3. {o \in Resting : o.instrument = i} = {}
    BY <1>1, RestingType DEF Inv
  <1>4. book \in BookOf(i) /\ OpenOrders(book) = {current}
    BY <1>1, EmptyBookIs, CurrentFits DEF Inv
  <1> HIDE DEF book
  <1>5. Resting' = {o \in Resting : o.instrument # i} \cup OpenOrders(book)
    BY <1>1, <1>4, BookChanged DEF Inv
  <1>6. Resting' = Resting \cup {current}
    BY <1>3, <1>4, <1>5
  <1>7. \A c \in Resting : Contra(current, c) => ~Crosses(current, c)
    BY <1>3 DEF Contra
  <1> QED
    BY <1>1, <1>2, <1>6, <1>7, EnteredPromised

\* The front of the contra container, a best contra order.
LEMMA FrontIsBestContra ==
  ASSUME Inv, HeapOrdered, Apart(Prices), HasBook,
         NEW d \in Resting, Contra(current, d)
  PROVE  /\ HasContra(Book, current)
         /\ ~RanksLower(FrontContra(Book, current), d)
         /\ Contra(current, FrontContra(Book, current))
         /\ FrontContra(Book, current) \in EngineOrder
  <1> DEFINE i == current.instrument
             side == IF current.side = "BUY" THEN "SELL" ELSE "BUY"
             c == ContraOrders(Book, current)
  <1>1. /\ current # NoOrder /\ i \in DOMAIN order_books /\ Book = order_books[i]
        /\ current \in EngineOrder /\ current.side \in {"BUY", "SELL"}
    BY CurrentType DEF HasBook, Book, Inv, EngineOrder, Sides
  <1>2. d \in EngineOrder /\ d.instrument = i /\ d.side = side
    BY <1>1, RestingType DEF Inv, Contra, EngineOrder, Sides
  <1>3. c \in Seq(Held(i, side)) /\ IsHeap(c)
    BY <1>1 DEF ContraOrders, Against, Inv, TypeOK, BookOf, HeapOrdered
  <1>4. d \in Elements(c)
    BY <1>1, <1>2, RestingAt DEF ContraOrders, Against, Inv
  <1>5. Ranked(Held(i, side))
    BY HeldRanked
  <1>6. c # <<>> /\ ~RanksLower(c[1], d) /\ c[1] \in Held(i, side)
    <2> HIDE DEF c, side
    <2>1. c # <<>> /\ ~RanksLower(c[1], d)
      BY <1>3, <1>4, <1>5, FrontIsBest
    <2>2. c[1] \in Held(i, side)
      BY <1>3, <2>1
    <2> QED
      BY <2>1, <2>2
  <1> QED
    BY <1>1, <1>6 DEF HasContra, FrontContra, Contra, Held

LEMMA EnterPromised ==
  ASSUME Inv, HeapOrdered, Positive, Apart(Prices), Enter
  PROVE  Positive' /\ \E o \in Incoming : Promise!Enter(o)
  <1> DEFINE i == current.instrument
             book == AddToBook(order_books[i], current)
  <1>1. /\ current # NoOrder /\ i \in DOMAIN order_books /\ current' = NoOrder
        /\ current.qty > 0 /\ HasBook
        /\ order_books' = [order_books EXCEPT ![i] = book]
        /\ HasContra(Book, current) => ~Crosses(current, FrontContra(Book, current))
        /\ UNCHANGED <<arrivals, trades>>
    BY DEF Enter, HasBook, SomethingLeft, AfterEntering, Book
  <1>2. /\ book \in BookOf(i)
        /\ OpenOrders(book) = {o \in Resting : o.instrument = i} \cup {current}
    <2>1. order_books[i] \in BookOf(i)
      BY <1>1 DEF Inv, TypeOK
    <2>2. OpenOrders(order_books[i]) = {o \in Resting : o.instrument = i}
      BY <1>1, RestingAt DEF Inv
    <2> QED
      BY <1>1, <2>1, <2>2, CurrentFits DEF Inv
  <1> HIDE DEF book
  <1>3. Resting' = {o \in Resting : o.instrument # i} \cup OpenOrders(book)
    BY <1>1, <1>2, BookChanged DEF Inv
  <1>4. Resting' = Resting \cup {current}
    BY <1>2, <1>3
  <1>5. ASSUME NEW d \in Resting, Contra(current, d)
        PROVE  ~Crosses(current, d)
    <2> DEFINE f == FrontContra(Book, current)
    <2>1. ~RanksLower(f, d) /\ ~Crosses(current, f) /\ Contra(current, f) /\ f \in EngineOrder
      BY <1>1, <1>5, FrontIsBestContra
    <2>2. d \in EngineOrder /\ current \in EngineOrder
      BY <1>1, RestingType, CurrentType DEF Inv
    <2> HIDE DEF f
    <2>3. /\ d.price \in Int /\ f.price \in Int /\ current.price \in Int
          /\ {d.price, f.price} \subseteq Prices
          /\ d.side \in Sides /\ f.side \in Sides /\ current.side \in Sides
          /\ d.side # current.side /\ f.side # current.side
      BY <1>5, <2>1, <2>2, EngineAssumption DEF EngineOrder, Contra
    <2>4. ~SillyEqual(f, d) => f.price # d.price
      BY <2>3, ToleranceAssumption DEF SillyEqual
    <2>5. SillyEqual(f, d) => f.price = d.price
      BY <2>3, ToleranceAssumption DEF SillyEqual, Apart
    <2>6. \/ f.price = d.price
          \/ f.side = "BUY" /\ d.price < f.price
          \/ f.side = "SELL" /\ d.price > f.price
      BY <2>1, <2>3, <2>4, <2>5 DEF RanksLower, Sides
    <2> QED
      BY <2>1, <2>3, <2>6 DEF Crosses, Sides
  <1> QED
    BY <1>1, <1>4, <1>5, EnteredPromised

LEMMA DonePromised ==
  ASSUME Inv, Positive, Done
  PROVE  Positive' /\ UNCHANGED Promise!vars
  <1>1. current # NoOrder /\ current.qty <= 0 /\ current' = NoOrder /\ UNCHANGED <<order_books, arrivals, trades>>
    BY DEF Done, HasBook, NothingLeft
  <1>2. current.qty = 0
    BY <1>1, CurrentType DEF Positive, Inv, EngineOrder
  <1>3. Resting' = Resting /\ Filled' = Filled /\ Incoming' = Incoming
    BY <1>1, <1>2 DEF Resting, Filled, Incoming
  <1> QED
    BY <1>1, <1>3 DEF Positive, Promise!vars, Incoming, Filled

LEMMA TradePromised ==
  ASSUME Inv, HeapOrdered, Positive, Apart(Prices), Trade
  PROVE  Positive' /\ \E o \in Incoming : \E c \in Resting : Promise!Trade(o, c)
  <1>1. current # NoOrder /\ HasBook /\ Crosses(current, FrontContra(Book, current))
    BY DEF Trade, HasBook
  <1>2. PICK f \in Resting, q \in Int :
          /\ f = FrontContra(Book, current) /\ q = TradeQuantity(current, f)
          /\ current.qty \in Int /\ current.qty > 0 /\ f.qty \in Int
          /\ f.instrument = current.instrument /\ f.side # current.side
          /\ current' = [current EXCEPT !.qty = current.qty - q]
          /\ trades' = Append(trades, TradeLine(current, f))
          /\ arrivals' = arrivals /\ DOMAIN order_books' = DOMAIN order_books
          /\ ((\A e \in Resting : e.qty # 0) => Resting' = (Resting \ {f}) \cup Left(f, q))
    BY TradeEffect DEF Inv
  <1>3. current \in EngineOrder /\ f \in EngineOrder /\ \A o \in Resting : o.qty \in Int
    BY <1>1, RestingType, CurrentType DEF Inv, EngineOrder
  <1>4. Resting' = (Resting \ {f}) \cup Left(f, q)
    BY <1>2, <1>3 DEF Positive
  <1>5. f.qty > 0 /\ q <= f.qty /\ q <= current.qty
    BY <1>2 DEF Positive, TradeQuantity
  <1> DEFINE now == [current EXCEPT !.qty = current.qty - q]
  <1>6. /\ now \in EngineOrder /\ now.qty = current.qty - q
        /\ now.instrument = current.instrument /\ now # NoOrder
    <2>1. now \in EngineOrder
      BY <1>2, <1>3 DEF EngineOrder
    <2>2. now # NoOrder
      BY <2>1, EngineAssumption DEF EngineOrder
    <2> QED
      BY <1>3, <2>1, <2>2 DEF EngineOrder
  <1>7. Positive'
    <2>1. \A o \in Left(f, q) : o.qty > 0
      BY <1>2, <1>3, <1>5 DEF Left, EngineOrder
    <2>2. current'.qty >= 0 /\ HasBook'
      BY <1>1, <1>2, <1>5, <1>6 DEF HasBook
    <2> QED
      BY <1>4, <2>1, <2>2 DEF Positive
  <1>8. Incoming = {current} /\ Incoming' = Promise!Rest(current, q)
    <2>1. Incoming = {current}
      BY <1>1, <1>2 DEF Incoming
    <2>2. CASE current.qty = q
      BY <1>2, <1>6, <2>1, <2>2 DEF Incoming, Promise!Rest
    <2>3. CASE current.qty # q
      BY <1>2, <1>6, <2>1, <2>3 DEF Incoming, Promise!Rest
    <2> QED
      BY <2>1, <2>2, <2>3
  <1>9. Resting' = (Resting \ {f}) \cup Promise!Rest(f, q)
    BY <1>4 DEF Left, Promise!Rest
  <1>10. /\ Promise!Contra(current, f) /\ Promise!Crosses(current, f)
         /\ \A d \in Resting : Promise!Contra(current, d) => ~Promise!RanksLower(f, d)
         /\ Promise!TradeQuantity(current, f) = q
    BY <1>1, <1>2, FrontIsBestContra, SameOperators DEF Contra
  <1>11. Filled' = [Filled EXCEPT ![current.id] = Filled[current.id] + q,
                                  ![f.id] = Filled[f.id] + q]
    <2> DEFINE trade == TradeLine(current, f)
               g(id) == Traded(id, trades)
               h(id) == Traded(id, trades')
               a == current.id
               b == f.id
    <2>1. /\ trade \in TradeLines /\ trade.order = a /\ trade.contra = b /\ trade.qty = q
      <3>1. f.price \in Int
        BY <1>3, EngineAssumption DEF EngineOrder
      <3> QED
        BY <1>2, <1>3, <3>1 DEF TradeLine, TradeLines, EngineOrder
    <2>2. \A id : h(id) = g(id) + Named(id, trade) /\ g(id) \in Int
      BY <1>2, <2>1, TradedAppend DEF Inv, TypeOK
    <2>3. a \in DOMAIN arrivals /\ b \in DOMAIN arrivals /\ a # b
      <3>1. a \in 1 .. Len(arrivals) /\ b \in 1 .. Len(arrivals)
        BY <1>1 DEF Inv, Accounts, Open
      <3>2. b < a
        BY <1>1 DEF Inv, CurrentIsLast
      <3>3. DOMAIN arrivals = 1 .. Len(arrivals)
        BY DEF Inv, TypeOK
      <3> QED
        BY <3>1, <3>2, <3>3
    <2>4. /\ h(a) = g(a) + q /\ h(b) = g(b) + q
          /\ \A id : id # a /\ id # b => h(id) = g(id)
      BY <2>1, <2>2 DEF Named
    <2> DEFINE D == DOMAIN arrivals
    <2> HIDE DEF g, h, a, b, D
    <2>5. Filled = [id \in D |-> g(id)] /\ Filled' = [id \in D |-> h(id)]
      <3>1. arrivals' = arrivals
        BY <1>2
      <3> QED
        BY <3>1, Zenon DEF Filled, g, h, D
    <2>6. Filled' = [Filled EXCEPT ![a] = Filled[a] + q, ![b] = Filled[b] + q]
      <3>1. a \in D /\ b \in D /\ a # b
        BY <2>3 DEF D
      <3>2. \A id \in D : h(id) = [Filled EXCEPT ![a] = Filled[a] + q, ![b] = Filled[b] + q][id]
        BY <2>4, <2>5, <3>1
      <3>3. DOMAIN [Filled EXCEPT ![a] = Filled[a] + q, ![b] = Filled[b] + q] = D
        BY <2>5
      <3> QED
        BY <2>5, <3>2, <3>3
    <2> QED
      BY <2>6 DEF a, b
  <1>12. Promise!Trade(current, f)
    BY <1>2, <1>8, <1>9, <1>10, <1>11 DEF Promise!Trade, Promise!Best, Incoming, Filled
  <1> QED
    BY <1>7, <1>8, <1>12

\* The engine implements the promise: with positive quantities, and prices that
\* are equal or at least the tolerance apart, every step of the engine is a step
\* of the promise or leaves it as it is.
THEOREM EngineImplementsPromise ==
  ASSUME Apart(Prices), Quantities \subseteq Nat \ {0}
  PROVE  Spec => ImplementsPromise
  <1>1. Init => HeapOrdered /\ Positive /\ Promise!Init
    BY InitPromised DEF Init, HeapOrdered
  <1>2. Inv /\ HeapOrdered /\ Positive /\ [Next]_vars => Positive' /\ [Promise!Next]_(Promise!vars)
    <2> SUFFICES ASSUME Inv, HeapOrdered, Positive, [Next]_vars
                 PROVE  Positive' /\ [Promise!Next]_(Promise!vars)
      OBVIOUS
    <2>1. CASE \E order \in NewOrders : TakeOrder(order)
      <3>1. PICK order \in NewOrders : TakeOrder(order)
        BY <2>1
      <3> QED
        BY <3>1, TakeOrderPromised DEF Promise!Next
    <2>2. CASE FirstOrder
      <3>1. Positive' /\ \E o \in Incoming : Promise!Enter(o)
        BY <2>2, FirstOrderPromised
      <3> QED
        BY <3>1 DEF Promise!Next, Incoming
    <2>3. CASE Trade
      <3>1. Positive' /\ \E o \in Incoming : \E c \in Resting : Promise!Trade(o, c)
        BY <2>3, TradePromised
      <3> QED
        BY <3>1 DEF Promise!Next, Incoming
    <2>4. CASE Enter
      <3>1. Positive' /\ \E o \in Incoming : Promise!Enter(o)
        BY <2>4, EnterPromised
      <3> QED
        BY <3>1 DEF Promise!Next, Incoming
    <2>5. CASE Done
      BY <2>5, DonePromised
    <2>6. CASE UNCHANGED vars
      <3>1. UNCHANGED <<order_books, current, arrivals, trades>>
        BY <2>6 DEF vars
      <3>2. Resting' = Resting /\ Incoming' = Incoming /\ Filled' = Filled
        BY <3>1 DEF Resting, Incoming, Filled
      <3> QED
        BY <3>1, <3>2 DEF Positive, HasBook, Promise!vars, Incoming, Filled
    <2> QED
      BY <2>1, <2>2, <2>3, <2>4, <2>5, <2>6 DEF Next, Process
  <1>3. Inv /\ HeapOrdered /\ [Next]_vars => HeapOrdered'
    BY NextHeaps
  <1> QED
    BY <1>1, <1>2, <1>3, Invariance, PTL DEF Spec, ImplementsPromise

\* The theorems about the promise, for the engine.
Promised == INSTANCE LimitOrderBookProofs
              WITH resting <- Resting,
                   filled <- [id \in DOMAIN arrivals |-> Traded(id, trades)],
                   incoming <- IF current = NoOrder \/ current.qty = 0 THEN {} ELSE {current}

\* What the promise is proved to guarantee holds of the heap based engine: no
\* trade between two resting orders was missed, and an order that is no longer
\* open has traded all of its quantity.
COROLLARY EngineMissesNoTrade ==
  ASSUME Apart(Prices), Quantities \subseteq Nat \ {0}
  PROVE  Spec => [](NotCrossed /\ Conservation)
  <1>1. Promise!Init => Promised!Init
    BY DEF Promise!Init, Promised!Init
  <1>2. [Promise!Next]_(Promise!vars) => [Promised!Next]_(Promised!vars)
    BY DEF Promise!Next, Promised!Next, Promise!vars, Promised!vars,
           Promise!Submit, Promised!Submit, Promise!Enter, Promised!Enter,
           Promise!Trade, Promised!Trade, Promise!Best, Promised!Best,
           Promise!Rest, Promised!Rest, Promise!NewOrders, Promised!NewOrders,
           Promise!Contra, Promised!Contra, Promise!Crosses, Promised!Crosses,
           Promise!RanksLower, Promised!RanksLower, Promise!SillyEqual, Promised!SillyEqual,
           Promise!TradeQuantity, Promised!TradeQuantity, Promise!Sides, Promised!Sides
  <1>3. Promised!NotCrossed /\ Promised!Conservation => NotCrossed /\ Conservation
    BY DEF NotCrossed, Conservation, Promise!NotCrossed, Promised!NotCrossed, Promise!Contra, Promised!Contra,
           Promise!Conservation, Promised!Conservation, Promise!Live, Promised!Live
  <1>4. Promised!ParametersAssumption /\ Promised!ToleranceAssumption
    BY EngineAssumption, ToleranceAssumption
       DEF Promised!ParametersAssumption, Promised!ToleranceAssumption
  <1>5. Promised!Spec => []Promised!NotCrossed
    BY <1>4, Promised!BooksNeverCross
  <1>6. Promised!Spec => []Promised!Conservation
    BY <1>4, Promised!QuantityIsConserved
  <1> QED
    BY <1>1, <1>2, <1>3, <1>5, <1>6, EngineImplementsPromise, PTL
       DEF ImplementsPromise, Promised!Spec

-----------------------------------------------------------------------------
(* The two matchers *)

\* The matches that may be in progress in the book of i.
MatchesIn(i) == {m \in [book : BookOf(i), order : EngineOrder, trades : Seq(TradeLines)] :
                   m.order.instrument = i /\ BookApart(m.book)}

\* A trade leaves a match of the same book, and if another trade is possible it
\* took away a contra order.
LEMMA TradeOnceStays ==
  ASSUME NEW i, NEW m \in MatchesIn(i), CanTrade(m)
  PROVE  /\ Contras(m) > 0
         /\ TradeOnce(m) \in MatchesIn(i)
         /\ CanTrade(TradeOnce(m)) => Contras(TradeOnce(m)) < Contras(m)
  <1> DEFINE o == m.order
             book == m.book
             B == Held(i, "BUY")
             S == Held(i, "SELL")
             c == ContraOrders(book, o)
             f == FrontContra(book, o)
             q == TradeQuantity(o, f)
             n == AfterTrade(book, o, q)
             left == [o EXCEPT !.qty = o.qty - q]
             line == TradeLine(o, f)
             r == TradeOnce(m)
  <1>1. /\ book \in [buys : Seq(B), sells : Seq(S)] /\ BookApart(book)
        /\ o \in EngineOrder /\ o.instrument = i /\ m.trades \in Seq(TradeLines)
    BY DEF MatchesIn, BookOf
  <1>2. o.qty > 0 /\ HasContra(book, o)
    BY DEF CanTrade
  <1>3. r = [book |-> n, order |-> left, trades |-> Append(m.trades, line)]
    BY DEF TradeOnce, TradeLine
  <1>4. c \in Seq(B) \cup Seq(S) /\ c # <<>> /\ f = c[1]
    BY <1>1, <1>2 DEF ContraOrders, Against, HasContra, FrontContra
  <1>5. Len(c) \in Nat /\ Len(c) > 0 /\ f \in B \cup S
    <2> HIDE DEF c, f, B, S
    <2> QED
      BY <1>4
  <1>6. f \in EngineOrder /\ f.qty \in Int /\ f.price \in Int /\ f.id \in Nat /\ o.qty \in Int /\ o.id \in Nat
    BY <1>1, <1>5, EngineAssumption DEF Held, EngineOrder
  <1>7. q = (IF f.qty < o.qty THEN f.qty ELSE o.qty) /\ q \in Int
    BY <1>6 DEF TradeQuantity
  <1>8. line \in TradeLines
    BY <1>6, <1>7 DEF TradeLine, TradeLines
  <1>9. Reducible(B) /\ Reducible(S)
    BY HeldReducible
  <1>n. n = AfterTrade(book, o, q) /\ f = FrontContra(book, o)
    BY Zenon
  <1> HIDE DEF n, f, q, line, r, c
  <1>10. left \in EngineOrder /\ left.instrument = i /\ left.qty = o.qty - q /\ left.side = o.side
    <2> HIDE DEF o
    <2> QED
      BY <1>1, <1>6, <1>7 DEF EngineOrder
  <1> HIDE DEF left, B, S, book, o
  <1>11. /\ n \in [buys : Seq(B), sells : Seq(S)] /\ BookApart(n)
         /\ f.qty = q => FewerContras(n, book, o)
    <2>1. HasContra(book, o) /\ BookApart(book) /\ Reducible(B) /\ Reducible(S) /\ q \in Int
      BY <1>1, <1>2, <1>7, <1>9
    <2>2. book \in [buys : Seq(B), sells : Seq(S)]
      BY <1>1
    <2>3. n \in [buys : Seq(B), sells : Seq(S)] /\ BookApart(n)
      BY <1>n, <2>1, <2>2, BookTraded
    <2>4. n = AfterTrade(book, o, q) /\ f = FrontContra(book, o)
      BY <1>n
    <2>5. f.qty = q => FewerContras(n, book, o)
      BY <2>1, <2>2, <2>4, BookTraded
    <2> QED
      BY <2>3, <2>5
  <1>13. r.book = n /\ r.order = left /\ r \in MatchesIn(i)
    <2>1. n \in BookOf(i)
      BY <1>11 DEF BookOf, B, S
    <2>2. Append(m.trades, line) \in Seq(TradeLines)
      BY <1>1, <1>8
    <2> QED
      BY <1>3, <1>10, <1>11, <2>1, <2>2 DEF MatchesIn
  <1>14. Contras(m) = Len(c)
    BY DEF Contras, c, book, o
  <1>15. ASSUME CanTrade(r) PROVE Contras(r) < Contras(m)
    <2>1. left.qty > 0
      BY <1>13, <1>15 DEF CanTrade
    <2>2. q = f.qty
      BY <1>6, <1>7, <1>10, <2>1
    <2>3. Contras(r) = Len(ContraOrders(n, o))
      BY <1>10, <1>13 DEF Contras, ContraOrders, Against
    <2> QED
      BY <1>5, <1>11, <1>14, <2>2, <2>3 DEF c, FewerContras
  <1> QED
    BY <1>5, <1>13, <1>14, <1>15 DEF r

LEMMA MatchesInLoop == ASSUME NEW i PROVE Loops(MatchesIn(i))
  <1>1. ASSUME NEW m \in MatchesIn(i) PROVE Contras(m) \in Nat
    <2> DEFINE c == ContraOrders(m.book, m.order)
    <2>1. c \in Seq(Held(i, "BUY")) \cup Seq(Held(i, "SELL"))
      BY DEF MatchesIn, BookOf, ContraOrders, Against
    <2> HIDE DEF c
    <2>2. Len(c) \in Nat
      BY <2>1
    <2> QED
      BY <2>2 DEF Contras, c
  <1> QED
    BY <1>1, TradeOnceStays DEF Loops

\* The end of match_order: what is left of the order enters the book.
BookAfter(d) == IF d.order.qty > 0 THEN AddToBook(d.book, d.order) ELSE d.book

\* The book actors are where they are when i's actor has handled an order that
\* the engine has yet to finish: the match goes on from m, and before it base
\* was printed.
Ahead(base, m) ==
  /\ trades = base \o m.trades
  /\ actor_trades = base \o TradeAll(m).trades
  /\ m_book = [order_books EXCEPT ![current.instrument] = BookAfter(TradeAll(m))]

MatchAt(p) == [book |-> Book, order |-> current, trades |-> p]

\* The actor has handled each order in one step; the engine is at some trade of
\* the last one and, from there, would print and keep the same.
InStep ==
  /\ order_books = [j \in DOMAIN order_books |-> order_books[j]]
  /\ current = NoOrder => m_book = order_books /\ actor_trades = trades
  /\ current # NoOrder /\ ~HasBook =>
       /\ current.qty > 0
       /\ actor_trades = trades
       /\ m_book = [j \in DOMAIN order_books \cup {current.instrument} |->
                      IF j = current.instrument THEN AddToBook(EmptyBook, current)
                                                ELSE order_books[j]]
  /\ HasBook => \E base, p \in Seq(TradeLines) : Ahead(base, MatchAt(p))

LEMMA MatchAtIn ==
  ASSUME Inv, HasBook, NEW p \in Seq(TradeLines)
  PROVE  MatchAt(p) \in MatchesIn(current.instrument)
  <1>1. current # NoOrder /\ current.instrument \in DOMAIN order_books
    BY DEF HasBook
  <1>2. current \in EngineOrder
    BY <1>1, CurrentType DEF Inv
  <1>3. Book \in BookOf(current.instrument) /\ BookApart(Book)
    BY <1>1 DEF Inv, TypeOK, BooksApart, Book
  <1> QED
    BY <1>2, <1>3 DEF MatchAt, MatchesIn

\* The engine and the actor of its instrument receive an order.
LEMMA HandleInStep ==
  ASSUME Quantities \subseteq Nat \ {0}, Inv, InStep,
         NEW order \in NewOrders, TakeOrder(order), HandleOrder(order)
  PROVE  InStep'
  <1> DEFINE i == order.instrument
             book == IF i \in DOMAIN m_book THEN m_book[i] ELSE EmptyBook
             m == [book |-> book, order |-> order, trades |-> <<>>]
             d == TradeAll(m)
             a == MatchOrder(book, order)
  <1>1. /\ current = NoOrder /\ current' = order /\ order_books' = order_books /\ trades' = trades
        /\ m_book = order_books /\ actor_trades = trades
    BY DEF TakeOrder, InStep
  <1>2. order \in EngineOrder /\ order.qty > 0
    <2> DEFINE n == Len(arrivals) + 1
    <2>1. order \in [id : {n}, side : Sides, instrument : Instruments,
                     qty : Quantities, price : Prices, timestamp : Timestamps]
      BY DEF NewOrders
    <2>2. n \in Nat
      BY DEF Inv, TypeOK
    <2> HIDE DEF n
    <2>3. order.qty \in Int /\ order.qty > 0
      <3>1. order.qty \in Quantities
        BY <2>1
      <3>2. \A k \in Nat \ {0} : k \in Int /\ k > 0
        OBVIOUS
      <3> QED
        BY <3>1, <3>2
    <2>4. order \in EngineOrder
      BY <2>1, <2>2, <2>3 DEF EngineOrder
    <2> QED
      BY <2>3, <2>4
  <1>3. order # NoOrder
    BY <1>2, EngineAssumption DEF EngineOrder
  <1>4. /\ m_book' = [j \in DOMAIN m_book \cup {i} |-> IF j = i THEN a.book ELSE m_book[j]]
        /\ actor_trades' = actor_trades \o a.trades
    BY DEF HandleOrder
  <1>5. a.book = BookAfter(d) /\ a.trades = d.trades
    <2>1. a = IF d.order.qty > 0 THEN [d EXCEPT !.book = AddToBook(d.book, d.order)] ELSE d
      BY DEF MatchOrder, Remains
    <2>2. d \in MatchesIn(i)
      <3>1. book \in BookOf(i) /\ BookApart(book)
        BY <1>1, EmptyBookIs DEF Inv, TypeOK, BooksApart
      <3>2. m \in MatchesIn(i)
        BY <1>2, <3>1 DEF MatchesIn
      <3> HIDE DEF m
      <3> QED
        BY <3>2, MatchesInLoop, TradeAllEnds
    <2> HIDE DEF d, a
    <2>3. d = [book |-> d.book, order |-> d.order, trades |-> d.trades]
      BY <2>2 DEF MatchesIn
    <2> QED
      BY <2>1, <2>3 DEF BookAfter
  <1>6. CASE i \in DOMAIN order_books
    <2>1. HasBook' /\ Book' = book /\ MatchAt(<<>>)' = m
      BY <1>1, <1>3, <1>6 DEF HasBook, Book, MatchAt
    <2> HIDE DEF a, d, book, m
    <2>2. m_book' = [order_books EXCEPT ![i] = BookAfter(d)]
      BY <1>1, <1>4, <1>5, <1>6
    <2>3. trades \in Seq(TradeLines) /\ trades \o <<>> = trades /\ m.trades = <<>> /\ <<>> \in Seq(TradeLines)
      BY DEF Inv, TypeOK, m
    <2>4. Ahead(trades, MatchAt(<<>>))'
      BY <1>1, <1>4, <1>5, <2>1, <2>2, <2>3 DEF Ahead, d
    <2>5. \E b, p \in Seq(TradeLines) : Ahead(b, MatchAt(p))'
      BY <1>1, <2>3, <2>4 DEF Inv, TypeOK
    <2>6. current' # NoOrder /\ order_books' = [j \in DOMAIN order_books' |-> order_books'[j]]
      BY <1>1, <1>3 DEF InStep
    <2> QED
      BY <2>1, <2>5, <2>6 DEF InStep
  <1>7. CASE i \notin DOMAIN order_books
    <2>1. book = EmptyBook /\ ~HasBook'
      BY <1>1, <1>7 DEF HasBook
    <2>2. ~CanTrade(m)
      BY <2>1 DEF CanTrade, HasContra, ContraOrders, Against, EmptyBook
    <2>3. m \in MatchesIn(i)
      BY <1>2, <2>1, EmptyBookIs DEF MatchesIn
    <2>4. d = m
      <3> HIDE DEF m
      <3> QED
        BY <2>2, <2>3, MatchesInLoop, TradeAllIsLoop
    <2>5. BookAfter(d) = AddToBook(EmptyBook, order) /\ d.trades = <<>>
      BY <1>2, <2>1, <2>4 DEF BookAfter
    <2> HIDE DEF a, d, book, m
    <2>6. trades \o <<>> = trades
      BY DEF Inv, TypeOK
    <2>7. actor_trades' = trades'
      BY <1>1, <1>4, <1>5, <2>5, <2>6
    <2>8. m_book' = [j \in DOMAIN order_books' \cup {i} |-> IF j = i THEN AddToBook(EmptyBook, order) ELSE order_books'[j]]
      BY <1>1, <1>4, <1>5, <2>5
    <2> QED
      BY <1>1, <1>2, <1>3, <2>1, <2>7, <2>8 DEF InStep
  <1> QED
    BY <1>6, <1>7

\* The engine's trade is the next one of the match the actor has finished.
LEMMA TradeInStep ==
  ASSUME Inv, InStep, Trade, UNCHANGED <<m_book, actor_trades>>
  PROVE  InStep'
  <1> DEFINE i == current.instrument
             line == TradeLine(current, FrontContra(Book, current))
             left == [current EXCEPT !.qty = current.qty - line.qty]
             n == AfterTrade(Book, current, line.qty)
  <1>1. HasBook /\ current # NoOrder /\ i \in DOMAIN order_books /\ current \in EngineOrder
    BY CurrentType DEF Inv, Trade, HasBook
  <1>2. PICK base \in Seq(TradeLines), p \in Seq(TradeLines) : Ahead(base, MatchAt(p))
    BY <1>1 DEF InStep
  <1> DEFINE m == MatchAt(p)
             r == TradeOnce(m)
  <1>3. CanTrade(m)
    BY DEF Trade, CanTrade, MatchAt
  <1>4. /\ trades' = Append(trades, line) /\ current' = left
        /\ order_books' = [order_books EXCEPT ![i] = n]
    BY DEF Trade, Book
  <1>5. r = [book |-> n, order |-> left, trades |-> Append(p, line)]
    BY DEF TradeOnce, MatchAt
  <1>6. m \in MatchesIn(i)
    BY <1>1, MatchAtIn
  <1>7. r \in MatchesIn(i) /\ TradeAll(m) = TradeAll(r)
    <2> HIDE DEF m
    <2>1. r \in MatchesIn(i)
      BY <1>3, <1>6, TradeOnceStays
    <2>2. TradeAll(m) = TradeAll(r)
      BY <1>3, <1>6, MatchesInLoop, TradeAllIsLoop
    <2> QED
      BY <2>1, <2>2
  <1> HIDE DEF r, n, left, line
  <1>8. left \in EngineOrder /\ left.instrument = i /\ Append(p, line) \in Seq(TradeLines)
    BY <1>5, <1>7 DEF MatchesIn
  <1>9. left # NoOrder
    BY <1>8, EngineAssumption DEF EngineOrder
  <1>t. PICK t \in Seq(TradeLines) : t = Append(p, line)
    BY <1>8
  <1>10. Book' = n /\ HasBook' /\ MatchAt(t)' = r
    <2>1. current'.instrument = i
      BY <1>4, <1>8
    <2>2. DOMAIN order_books' = DOMAIN order_books /\ order_books'[i] = n
      BY <1>1, <1>4
    <2>3. Book' = n /\ HasBook'
      BY <1>1, <1>4, <1>9, <2>1, <2>2 DEF Book, HasBook
    <2> QED
      BY <1>4, <1>5, <1>t, <2>3 DEF MatchAt
  <1>11. trades' = base \o r.trades
    <2>1. trades = base \o p
      BY <1>2 DEF Ahead, MatchAt
    <2>2. r.trades = Append(p, line) /\ r.trades \in Seq(TradeLines)
      BY <1>5, <1>8
    <2>3. line \in TradeLines
      <3>1. /\ Append(p, line)[Len(p) + 1] = line
            /\ Len(p) + 1 \in 1 .. Len(Append(p, line))
        OBVIOUS
      <3> HIDE DEF line
      <3> QED
        BY <1>8, <3>1
    <2>4. base \o Append(p, line) = Append(base \o p, line)
      BY <2>3
    <2> QED
      BY <1>4, <2>1, <2>2, <2>4
  <1>12. m_book' = [order_books' EXCEPT ![current'.instrument] = BookAfter(TradeAll(r))]
    <2> DEFINE b == BookAfter(TradeAll(r))
    <2>1. m_book = [order_books EXCEPT ![i] = b]
      BY <1>2, <1>7 DEF Ahead, m
    <2> HIDE DEF b
    <2>2. [order_books EXCEPT ![i] = b] = [order_books' EXCEPT ![i] = b]
      BY <1>4
    <2> QED
      BY <1>4, <1>8, <2>1, <2>2 DEF b
  <1>13. actor_trades' = base \o TradeAll(r).trades
    BY <1>2, <1>7 DEF Ahead, m
  <1>14. Ahead(base, MatchAt(t))'
    BY <1>10, <1>11, <1>12, <1>13 DEF Ahead
  <1>15. \E b, c \in Seq(TradeLines) : Ahead(b, MatchAt(c))'
    BY <1>14
  <1>16. current' # NoOrder /\ order_books' = [j \in DOMAIN order_books' |-> order_books'[j]]
    <2>1. current' # NoOrder
      BY <1>4, <1>9
    <2> QED
      BY <1>4, <2>1
  <1> QED
    BY <1>10, <1>15, <1>16 DEF InStep

\* The order can trade no more, so the engine stops where the actor did.
LEMMA StopInStep ==
  ASSUME Inv, InStep, Enter \/ Done, UNCHANGED <<m_book, actor_trades>>
  PROVE  InStep'
  <1> DEFINE i == current.instrument
  <1>1. HasBook /\ current # NoOrder /\ i \in DOMAIN order_books /\ current \in EngineOrder
    BY CurrentType DEF Inv, Enter, Done, HasBook
  <1>2. PICK base \in Seq(TradeLines), p \in Seq(TradeLines) : Ahead(base, MatchAt(p))
    BY <1>1 DEF InStep
  <1> DEFINE m == MatchAt(p)
  <1>3. ~CanTrade(m)
    <2>1. current.qty \in Int
      BY <1>1 DEF EngineOrder
    <2> QED
      BY <2>1 DEF Enter, Done, NothingLeft, CanTrade, MatchAt
  <1>4. TradeAll(m) = m
    <2>1. m \in MatchesIn(i)
      BY <1>1, MatchAtIn
    <2> HIDE DEF m
    <2> QED
      BY <1>3, <2>1, MatchesInLoop, TradeAllIsLoop
  <1>5. /\ trades = base \o p /\ actor_trades = base \o p
        /\ m_book = [order_books EXCEPT ![i] = BookAfter(m)]
    <2>1. m.trades = p
      BY DEF MatchAt
    <2> HIDE DEF m
    <2> QED
      BY <1>2, <1>4, <2>1 DEF Ahead, m
  <1>6. order_books' = [order_books EXCEPT ![i] = BookAfter(m)] /\ current' = NoOrder /\ trades' = trades
    <2>1. CASE Enter
      BY <2>1 DEF Enter, SomethingLeft, AfterEntering, BookAfter, MatchAt, Book
    <2>2. CASE Done
      <3>1. current.qty \in Int
        BY <1>1 DEF EngineOrder
      <3>2. BookAfter(m) = order_books[i]
        BY <2>2, <3>1 DEF Done, NothingLeft, BookAfter, MatchAt, Book
      <3>3. order_books = [order_books EXCEPT ![i] = order_books[i]]
        BY DEF InStep
      <3> QED
        BY <2>2, <3>2, <3>3 DEF Done
    <2> QED
      BY <2>1, <2>2
  <1> QED
    BY <1>5, <1>6 DEF InStep, HasBook

LEMMA FirstOrderInStep ==
  ASSUME InStep, FirstOrder, UNCHANGED <<m_book, actor_trades>>
  PROVE  InStep'
  BY DEF InStep, FirstOrder, HasBook

\* With positive quantities the engine, which trades one contra order at a time
\* and opens a book without matching, and the book actors, which do a whole
\* match_order in one handler, print the same trades and are left with the same
\* heaps, place for place, whenever the engine is between two orders.  (An order
\* of no quantity would rest in the engine if it opened its book, but not in an
\* actor's.)
THEOREM MatchersKeepSameBooks ==
  ASSUME Quantities \subseteq Nat \ {0}
  PROVE  SpecBoth => []SameBooks
  <1> DEFINE BothInv == Inv /\ InStep
  <1>1. InitBoth => BothInv
    <2>1. InitBoth => InStep
      BY DEF InitBoth, Init, InStep, HasBook
    <2> QED
      BY <2>1, InitInv DEF InitBoth
  <1>2. BothInv /\ [NextBoth]_bothVars => BothInv'
    <2> SUFFICES ASSUME Inv, InStep, [NextBoth]_bothVars PROVE Inv' /\ InStep'
      OBVIOUS
    <2>1. Inv'
      <3>1. [Next]_vars
        BY DEF NextBoth, Next, bothVars
      <3> QED
        BY <3>1, NextInv
    <2>2. CASE \E order \in NewOrders : TakeOrder(order) /\ HandleOrder(order)
      BY <2>1, <2>2, HandleInStep
    <2>3. CASE Process /\ UNCHANGED <<m_book, actor_trades>>
      BY <2>1, <2>3, FirstOrderInStep, TradeInStep, StopInStep DEF Process
    <2>4. CASE UNCHANGED bothVars
      <3>1. UNCHANGED <<order_books, current, arrivals, trades, m_book, actor_trades>>
        BY <2>4 DEF bothVars, vars
      <3>2. HasBook' = HasBook /\ \A base, p : Ahead(base, MatchAt(p))' = Ahead(base, MatchAt(p))
        BY <3>1 DEF HasBook, Ahead, MatchAt, Book
      <3> QED
        BY <2>1, <3>1, <3>2 DEF InStep
    <2> QED
      BY <2>1, <2>2, <2>3, <2>4 DEF NextBoth
  <1>3. BothInv => SameBooks
    BY DEF InStep, SameBooks
  <1> QED
    BY <1>1, <1>2, <1>3, PTL DEF SpecBoth
=============================================================================
