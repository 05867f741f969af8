------------------------ MODULE OrderBookActorProofs ------------------------
(***************************************************************************)
(* Theorems about the order book actor, for all prices, quantities, names, *)
(* timestamps and any number of orders and deletions in any order.         *)
(***************************************************************************)
EXTENDS OrderBookActor, HeapProofs

ActorOrder == [id : Nat, name : Names, side : Sides, instrument : {Instrument},
               qty : Int, price : Prices, timestamp : Timestamps]

Held(side) == {o \in ActorOrder : o.side = side}
BookType == [buys : Seq(Held("BUY")), sells : Seq(Held("SELL"))]

\* What an order asks for.
Asked(id) == IF arrivals[id].qty > 0 THEN arrivals[id].qty ELSE 0

\* The book accounts for the first n orders that arrived: what is open has a
\* quantity left, namely what was asked less what the TRADE lines say; what is
\* not open was deleted, or has traded all it asked for.
Balanced(book, n, gone, lines) ==
  /\ BookApart(book)
  /\ \A o \in OpenOrders(book) :
       /\ o.id \in 1 .. n
       /\ o.id \notin gone
       /\ o.qty > 0
       /\ arrivals[o.id].qty > 0
       /\ arrivals[o.id] = [o EXCEPT !.qty = o.qty + Traded(o.id, lines)]
  /\ \A id \in 1 .. n :
       (\A o \in OpenOrders(book) : o.id # id) =>
         IF id \in gone THEN Traded(id, lines) < Asked(id) ELSE Traded(id, lines) = Asked(id)

\* Both sides are heaps and no two orders could trade.
Uncrossed(book) == \A b \in Elements(book.buys) : \A s \in Elements(book.sells) : b.price < s.price
Ordered(book) == BookHeaps(book) /\ Uncrossed(book)

TypeOK == /\ m_book \in BookType
          /\ arrivals \in Seq(ActorOrder)
          /\ trades \in Seq(TradeLines)
          /\ deleted \subseteq 1 .. Len(arrivals)
          /\ \A k \in 1 .. Len(trades) : {trades[k].order, trades[k].contra} \subseteq 1 .. Len(arrivals)

\* The inductive invariant.
Inv == /\ TypeOK
       /\ Balanced(m_book, Len(arrivals), deleted, trades)
       /\ Apart(Prices) => Ordered(m_book)

-----------------------------------------------------------------------------
(* One trade *)

LEMMA HeldFacts ==
  ASSUME NEW side
  PROVE  Reducible(Held(side)) /\ (Apart(Prices) => Ranked(Held(side)))
  <1>1. Reducible(Held(side))
    BY DEF Reducible, Held, ActorOrder
  <1>2. \A o \in Held(side) : Ranks(o, side, Prices)
    BY ActorAssumption DEF Held, ActorOrder, Ranks
  <1> QED
    BY <1>1, <1>2, ActorAssumption, SideIsRanked

LEMMA OpenType ==
  ASSUME NEW book \in BookType
  PROVE  /\ \A o \in Elements(book.buys) : o \in ActorOrder /\ o.side = "BUY"
         /\ \A o \in Elements(book.sells) : o \in ActorOrder /\ o.side = "SELL"
         /\ \A o \in OpenOrders(book) : o \in ActorOrder
  <1>1. book.buys \in Seq(Held("BUY")) /\ book.sells \in Seq(Held("SELL"))
    BY DEF BookType
  <1>2. Elements(book.buys) \subseteq Held("BUY") /\ Elements(book.sells) \subseteq Held("SELL")
    BY <1>1, ElementsIn
  <1> QED
    BY <1>2 DEF Held, OpenOrders

\* What a match of order keeps, with the TRADE lines printed so far, on a book
\* that accounts for the orders before it.
IsMatch(m, order, lines) ==
  /\ Balanced(m.book, order.id - 1, deleted, lines)
  /\ m.order = [order EXCEPT !.qty = m.order.qty]
  /\ m.order.qty + Traded(order.id, lines) = order.qty
  /\ m.order.qty <= order.qty
  /\ m.order.qty >= 0 \/ m.order.qty = order.qty
  /\ \A k \in 1 .. Len(lines) : {lines[k].order, lines[k].contra} \subseteq 1 .. order.id
  /\ Apart(Prices) => Ordered(m.book)

Matches(order) == {m \in [book : BookType, order : ActorOrder, trades : Seq(TradeLines)] :
                     IsMatch(m, order, trades \o m.trades)}

\* Two open orders with one id are one order.
LEMMA OneRecord ==
  ASSUME NEW book \in BookType, NEW n, NEW gone, NEW lines, Balanced(book, n, gone, lines),
         NEW a \in OpenOrders(book), NEW b \in OpenOrders(book), a.id = b.id
  PROVE  a = b
  <1>1. a \in ActorOrder /\ b \in ActorOrder
    BY OpenType
  <1>2. a.side = b.side
    <2>1. /\ arrivals[a.id] = [a EXCEPT !.qty = a.qty + Traded(a.id, lines)]
          /\ arrivals[b.id] = [b EXCEPT !.qty = b.qty + Traded(b.id, lines)]
      BY DEF Balanced
    <2> QED
      BY <1>1, <2>1 DEF ActorOrder
  <1>3. \/ a \in Elements(book.buys) /\ b \in Elements(book.buys)
        \/ a \in Elements(book.sells) /\ b \in Elements(book.sells)
    BY <1>2, OpenType DEF OpenOrders
  <1> QED
    BY <1>3 DEF Balanced, BookApart, IdsApart, Elements

\* A trade leaves a match of the same order, and if another trade is possible it
\* took away a contra order.
LEMMA TradeOnceMatches ==
  ASSUME TypeOK, NEW order \in ActorOrder, NEW m \in Matches(order), CanTrade(m)
  PROVE  /\ Contras(m) > 0
         /\ TradeOnce(m) \in Matches(order)
         /\ CanTrade(TradeOnce(m)) => Contras(TradeOnce(m)) < Contras(m)
  <1> DEFINE o == m.order
             book == m.book
             B == Held("BUY")
             S == Held("SELL")
             f == FrontContra(book, o)
             q == TradeQuantity(o, f)
             n == AfterTrade(book, o, q)
             left == [o EXCEPT !.qty = o.qty - q]
             line == TradeLine(o, f)
             r == TradeOnce(m)
             before == trades \o m.trades
             after == trades \o r.trades
  <1>1. /\ book \in BookType /\ o \in ActorOrder /\ m.trades \in Seq(TradeLines)
        /\ Balanced(book, order.id - 1, deleted, before)
        /\ o = [order EXCEPT !.qty = o.qty]
        /\ o.qty + Traded(order.id, before) = order.qty
        /\ o.qty <= order.qty
        /\ Apart(Prices) => Ordered(book)
        /\ \A k \in 1 .. Len(before) : {before[k].order, before[k].contra} \subseteq 1 .. order.id
    BY DEF Matches, IsMatch
  <1>2. o.qty > 0 /\ HasContra(book, o) /\ Crosses(o, f)
    BY DEF CanTrade
  <1>3. r = [book |-> n, order |-> left, trades |-> Append(m.trades, line)]
    BY DEF TradeOnce, TradeLine
  <1>4. /\ o.qty \in Int /\ o.side \in {"BUY", "SELL"} /\ o.price \in Int /\ o.id \in Nat
        /\ o.id = order.id /\ order.qty \in Int /\ o.side = order.side
    BY <1>1, ActorAssumption DEF ActorOrder, Sides
  <1>5. f \in OpenOrders(book) /\ f \in Elements(ContraOrders(book, o)) /\ f.side # o.side
    <2> DEFINE c == ContraOrders(book, o)
    <2>1. c \in Seq(B) \cup Seq(S)
      BY <1>1 DEF BookType, ContraOrders, Against
    <2>2. c # <<>> /\ f = c[1]
      BY <1>2 DEF HasContra, FrontContra
    <2> HIDE DEF c
    <2>3. f \in Elements(c)
      <3>1. 1 \in DOMAIN c
        BY <2>1, <2>2
      <3> QED
        BY <2>2, <3>1 DEF Elements
    <2>4. Elements(ContraOrders(book, o)) = IF o.side = "BUY" THEN Elements(book.sells) ELSE Elements(book.buys)
      BY DEF ContraOrders, Against
    <2> HIDE DEF f, o, book
    <2> QED
      BY <1>1, <1>4, <2>3, <2>4, OpenType DEF OpenOrders, c
  <1> HIDE DEF f
  <1>6. f \in ActorOrder /\ f.qty \in Int /\ f.qty > 0 /\ f.price \in Int /\ f.id \in Nat
    <2>1. f \in ActorOrder
      BY <1>1, <1>5, OpenType
    <2> QED
      BY <1>1, <1>5, <2>1, ActorAssumption DEF ActorOrder, Balanced
  <1>7. q \in Int /\ q > 0 /\ q <= f.qty /\ q <= o.qty /\ (q = f.qty \/ q = o.qty)
    BY <1>2, <1>4, <1>6 DEF TradeQuantity
  <1>8. line \in TradeLines /\ line.order = o.id /\ line.contra = f.id /\ line.qty = q
    BY <1>4, <1>6, <1>7 DEF TradeLine, TradeLines
  <1>q. q = TradeQuantity(o, f)
    OBVIOUS
  <1>n. n = AfterTrade(book, o, q) /\ f = FrontContra(book, o)
    BY Zenon DEF f
  <1>9. /\ n \in BookType /\ BookApart(n)
        /\ Apart(Prices) /\ BookHeaps(book) => BookHeaps(n)
        /\ Elements(ContraOrders(n, o)) = LessTraded(ContraOrders(book, o), f, q)
        /\ OwnOrders(n, o) = OwnOrders(book, o)
        /\ f.qty = q => FewerContras(n, book, o)
    <2>1. /\ HasContra(book, o) /\ Reducible(B) /\ Reducible(S) /\ BookApart(book)
          /\ Apart(Prices) => Ranked(B) /\ Ranked(S)
      BY <1>1, <1>2, HeldFacts DEF Balanced
    <2>2. book \in [buys : Seq(B), sells : Seq(S)]
      BY <1>1 DEF BookType
    <2>3. NoneEmpty(OwnOrders(book, o))
      <3>1. Elements(OwnOrders(book, o)) \subseteq OpenOrders(book)
        BY DEF OwnOrders, Own, OpenOrders
      <3>2. \A e \in OpenOrders(book) : e.qty > 0 /\ e.qty \in Int
        BY <1>1, OpenType DEF Balanced, ActorOrder
      <3> QED
        BY <3>1, <3>2 DEF NoneEmpty
    <2> HIDE DEF B, S, book, o, n, q
    <2>4. /\ n \in [buys : Seq(B), sells : Seq(S)] /\ BookApart(n)
          /\ Ranked(B) /\ Ranked(S) /\ BookHeaps(book) => BookHeaps(n)
      BY <1>n, <1>7, <2>1, <2>2, BookTraded
    <2>5. Elements(ContraOrders(n, o)) = LessTraded(ContraOrders(book, o), f, q)
      BY <1>n, <1>7, <2>1, <2>2, BookTraded
    <2>6. OwnOrders(n, o) = OwnOrders(book, o)
      BY <1>n, <1>7, <2>1, <2>2, <2>3, BookTraded
    <2>7. f.qty = q => FewerContras(n, book, o)
      BY <1>n, <1>7, <2>1, <2>2, BookTraded
    <2>8. n \in BookType
      BY <2>4 DEF BookType, B, S
    <2> QED
      BY <2>1, <2>4, <2>5, <2>6, <2>7, <2>8
  <1> HIDE DEF n
  <1>10. OpenOrders(n) = (OpenOrders(book) \ {f}) \cup Left(f, q)
    <2>1. /\ OpenOrders(n) = Elements(OwnOrders(n, o)) \cup Elements(ContraOrders(n, o))
          /\ OpenOrders(book) = Elements(OwnOrders(book, o)) \cup Elements(ContraOrders(book, o))
      BY <1>4 DEF OpenOrders, OwnOrders, ContraOrders, Own, Against
    <2>2. \A e \in Elements(OwnOrders(book, o)) : e.side = o.side
      BY <1>1, <1>4, OpenType DEF OwnOrders, Own
    <2> HIDE DEF o, book
    <2> QED
      BY <1>5, <1>9, <2>1, <2>2 DEF LessTraded
  <1>11. /\ \A id : Traded(id, after) = Traded(id, before) + Named(id, line) /\ Traded(id, before) \in Int
         /\ Append(m.trades, line) \in Seq(TradeLines) /\ after = Append(before, line)
         /\ before \in Seq(TradeLines)
    <2>1. trades \in Seq(TradeLines) /\ before \in Seq(TradeLines)
      BY <1>1 DEF TypeOK
    <2> HIDE DEF line
    <2>2. r.trades = Append(m.trades, line) /\ r.trades \in Seq(TradeLines)
      BY <1>1, <1>3, <1>8
    <2>3. after = Append(before, line)
      <3>1. trades \o Append(m.trades, line) = Append(trades \o m.trades, line)
        BY <1>1, <1>8, <2>1
      <3> QED
        BY <2>2, <3>1
    <2> HIDE DEF before, after
    <2>4. \A id : Traded(id, after) = Traded(id, before) + Named(id, line) /\ Traded(id, before) \in Int
      BY <1>8, <2>1, <2>3, TradedAppend
    <2> QED
      BY <2>1, <2>2, <2>3, <2>4
  <1> HIDE DEF q, line, before, after, r
  <1>12. \A e \in OpenOrders(n) : \/ /\ e \in OpenOrders(book) /\ e.id # f.id
                                  \/ /\ e = [f EXCEPT !.qty = f.qty - q] /\ f.qty # q
                                     /\ e.id = f.id /\ e.side = f.side /\ e.price = f.price
                                     /\ e.qty = f.qty - q
    <2>1. \A e \in OpenOrders(book) : e # f => e.id # f.id
      BY <1>1, <1>5, OneRecord
    <2> QED
      BY <1>6, <1>10, <2>1 DEF Left, ActorOrder
  <1> DEFINE N == order.id - 1
  <1>i. order.id \in Nat /\ f.id \in 1 .. N /\ f.id # order.id /\ f.id \notin deleted
    <2>1. f.id \in 1 .. N /\ f.id \notin deleted
      BY <1>1, <1>5 DEF Balanced
    <2>2. order.id \in Nat
      BY DEF ActorOrder
    <2> QED
      BY <2>1, <2>2
  <1>l. /\ \A id : id # f.id /\ id # order.id => Traded(id, after) = Traded(id, before)
        /\ Traded(f.id, after) = Traded(f.id, before) + q
        /\ Traded(order.id, after) = Traded(order.id, before) + q
    BY <1>4, <1>7, <1>8, <1>11 DEF Named
  <1>f. /\ arrivals[f.id].qty > 0 /\ arrivals[f.id] = [f EXCEPT !.qty = f.qty + Traded(f.id, before)]
        /\ arrivals[f.id].qty = f.qty + Traded(f.id, before)
        /\ Asked(f.id) = f.qty + Traded(f.id, before)
    BY <1>1, <1>5, <1>6 DEF Balanced, Asked, ActorOrder
  <1>13. Balanced(n, N, deleted, after)
    <2>1. ASSUME NEW e \in OpenOrders(n)
          PROVE  /\ e.id \in 1 .. N /\ e.id \notin deleted /\ e.qty > 0 /\ arrivals[e.id].qty > 0
                 /\ arrivals[e.id] = [e EXCEPT !.qty = e.qty + Traded(e.id, after)]
      <3>1. CASE e \in OpenOrders(book) /\ e.id # f.id
        <4>1. /\ e.id \in 1 .. N /\ e.id \notin deleted /\ e.qty > 0 /\ arrivals[e.id].qty > 0
              /\ arrivals[e.id] = [e EXCEPT !.qty = e.qty + Traded(e.id, before)]
          BY <1>1, <3>1 DEF Balanced
        <4>2. e.id # order.id
          BY <1>i, <4>1
        <4> QED
          BY <1>l, <3>1, <4>1, <4>2
      <3>2. CASE /\ e = [f EXCEPT !.qty = f.qty - q] /\ f.qty # q
                 /\ e.id = f.id /\ e.qty = f.qty - q
        <4>1. e.qty > 0 /\ e.qty + Traded(f.id, after) = f.qty + Traded(f.id, before)
          BY <1>6, <1>7, <1>11, <1>l, <3>2
        <4>2. [e EXCEPT !.qty = f.qty + Traded(f.id, before)] = [f EXCEPT !.qty = f.qty + Traded(f.id, before)]
          <5> DEFINE x == f.qty + Traded(f.id, before)
                     y == f.qty - q
          <5>1. e = [f EXCEPT !.qty = y]
            BY <3>2
          <5> HIDE DEF x, y
          <5>2. [e EXCEPT !.qty = x] = [f EXCEPT !.qty = x]
            BY <1>6, <5>1 DEF ActorOrder
          <5> QED
            BY <5>2 DEF x
        <4> QED
          BY <1>i, <1>f, <3>2, <4>1, <4>2
      <3> QED
        BY <1>12, <3>1, <3>2
    <2>2. ASSUME NEW id \in 1 .. N, \A e \in OpenOrders(n) : e.id # id
          PROVE  IF id \in deleted THEN Traded(id, after) < Asked(id) ELSE Traded(id, after) = Asked(id)
      <3>1. CASE id = f.id
        <4>1. f.qty = q
          <5> SUFFICES ASSUME f.qty # q PROVE FALSE
            OBVIOUS
          <5>1. [f EXCEPT !.qty = f.qty - q] \in OpenOrders(n)
            BY <1>10 DEF Left
          <5>2. [f EXCEPT !.qty = f.qty - q].id = f.id
            BY <1>6 DEF ActorOrder
          <5> QED
            BY <2>2, <3>1, <5>1, <5>2
        <4> QED
          BY <1>6, <1>11, <1>i, <1>l, <1>f, <3>1, <4>1
      <3>2. CASE id # f.id
        <4>1. \A e \in OpenOrders(book) : e.id # id
          BY <1>10, <2>2, <3>2
        <4>2. id # order.id
          BY <1>i
        <4> QED
          BY <1>1, <1>l, <3>2, <4>1, <4>2 DEF Balanced
      <3> QED
        BY <3>1, <3>2
    <2> HIDE DEF N
    <2> QED
      BY <1>9, <2>1, <2>2 DEF Balanced
  <1>14. Apart(Prices) => Ordered(n)
    <2> SUFFICES ASSUME Apart(Prices) PROVE Ordered(n)
      OBVIOUS
    <2>1. BookHeaps(n) /\ Uncrossed(book)
      BY <1>1, <1>9 DEF Ordered
    <2>2. \A e \in OpenOrders(n) : \E p \in OpenOrders(book) : e.side = p.side /\ e.price = p.price
      BY <1>5, <1>12
    <2>3. \A b \in Elements(n.buys) : \E p \in Elements(book.buys) : b.price = p.price
      BY <1>1, <1>9, <2>2, OpenType DEF OpenOrders
    <2>4. \A b \in Elements(n.sells) : \E p \in Elements(book.sells) : b.price = p.price
      BY <1>1, <1>9, <2>2, OpenType DEF OpenOrders
    <2> QED
      BY <2>1, <2>3, <2>4 DEF Ordered, Uncrossed
  <1>15. \A k \in 1 .. Len(after) : {after[k].order, after[k].contra} \subseteq 1 .. order.id
    <2> SUFFICES ASSUME NEW k \in 1 .. Len(after)
                 PROVE  {after[k].order, after[k].contra} \subseteq 1 .. order.id
      OBVIOUS
    <2>1. /\ Len(before) \in Nat /\ Len(after) = Len(before) + 1 /\ after[Len(before) + 1] = line
          /\ \A j \in 1 .. Len(before) : after[j] = before[j]
      BY <1>8, <1>11
    <2>2. CASE k = Len(before) + 1
      <3>1. line.order \in 1 .. order.id /\ line.contra \in 1 .. order.id
        BY <1>4, <1>8, <1>i
      <3> QED
        BY <2>1, <2>2, <3>1
    <2>3. CASE k # Len(before) + 1
      <3>1. k \in 1 .. Len(before)
        BY <2>1, <2>3
      <3> QED
        BY <1>1, <2>1, <3>1
    <2> QED
      BY <2>2, <2>3
  <1>16. /\ left \in ActorOrder /\ left.qty = o.qty - q /\ left.side = o.side
         /\ left = [order EXCEPT !.qty = left.qty]
    <2> DEFINE x == o.qty - q
               y == o.qty
    <2>1. x \in Int
      BY <1>4, <1>7
    <2>2. o = [order EXCEPT !.qty = y] /\ left = [o EXCEPT !.qty = x]
      BY <1>1
    <2> HIDE DEF x, y, left
    <2>3. left \in ActorOrder /\ left.qty = x /\ left.side = o.side /\ left = [order EXCEPT !.qty = x]
      BY <1>1, <2>1, <2>2 DEF ActorOrder
    <2> QED
      BY <2>3 DEF x
  <1>17. /\ left.qty + Traded(order.id, after) = order.qty
         /\ left.qty <= order.qty /\ left.qty >= 0
    <2>1. left.qty = o.qty - q /\ Traded(order.id, after) = Traded(order.id, before) + q
      BY <1>16, <1>l
    <2>2. Traded(order.id, before) \in Int
      BY <1>11
    <2> HIDE DEF left, o
    <2> QED
      BY <1>1, <1>4, <1>7, <2>1, <2>2
  <1>18. /\ r \in [book : BookType, order : ActorOrder, trades : Seq(TradeLines)]
         /\ r.book = n /\ r.order = left
    BY <1>3, <1>9, <1>11, <1>16 DEF r
  <1> HIDE DEF left
  <1>19. r \in Matches(order)
    <2>1. IsMatch(r, order, after)
      BY <1>13, <1>14, <1>15, <1>16, <1>17, <1>18 DEF IsMatch, N
    <2> QED
      BY <1>18, <2>1 DEF Matches, after
  <1>20. Contras(m) > 0
    <2>1. ContraOrders(book, o) \in Seq(B) \cup Seq(S) /\ ContraOrders(book, o) # <<>>
      BY <1>1, <1>2 DEF BookType, ContraOrders, Against, HasContra
    <2> HIDE DEF book, o
    <2>2. Len(ContraOrders(book, o)) > 0
      BY <2>1
    <2> QED
      BY <2>2 DEF Contras, book, o
  <1>21. ASSUME CanTrade(r) PROVE Contras(r) < Contras(m)
    <2>1. left.qty > 0
      BY <1>18, <1>21 DEF CanTrade
    <2>2. q = f.qty
      BY <1>4, <1>7, <1>16, <2>1
    <2>3. Contras(r) = Len(ContraOrders(n, o)) /\ Contras(m) = Len(ContraOrders(book, o))
      BY <1>16, <1>18 DEF Contras, ContraOrders, Against
    <2>4. ContraOrders(book, o) \in Seq(B) \cup Seq(S)
      BY <1>1 DEF BookType, ContraOrders, Against
    <2> HIDE DEF book, o
    <2>5. Len(ContraOrders(book, o)) \in Nat
      BY <2>4
    <2> QED
      BY <1>9, <2>2, <2>3, <2>5 DEF FewerContras
  <1> QED
    BY <1>19, <1>20, <1>21 DEF r

-----------------------------------------------------------------------------
(* new_order *)

LEMMA MatchesLoop ==
  ASSUME TypeOK, NEW order \in ActorOrder
  PROVE  Loops(Matches(order))
  <1>1. ASSUME NEW m \in Matches(order) PROVE Contras(m) \in Nat
    <2> DEFINE c == ContraOrders(m.book, m.order)
    <2>1. c \in Seq(Held("BUY")) \cup Seq(Held("SELL"))
      BY DEF Matches, BookType, ContraOrders, Against
    <2> HIDE DEF c
    <2>2. Len(c) \in Nat
      BY <2>1
    <2> QED
      BY <2>2 DEF Contras, c
  <1> QED
    BY <1>1, TradeOnceMatches DEF Loops

\* Where the loop starts and where it ends.
LEMMA MatchEnds ==
  ASSUME Inv, NEW order \in Orders,
         NEW d, d = TradeAll([book |-> m_book, order |-> order, trades |-> <<>>])
  PROVE  /\ order \in ActorOrder /\ order.id = Len(arrivals) + 1
         /\ d \in Matches(order) /\ ~CanTrade(d)
  <1> DEFINE m == [book |-> m_book, order |-> order, trades |-> <<>>]
  <1>1. Len(arrivals) \in Nat
    BY DEF Inv, TypeOK
  <1>2. order \in ActorOrder /\ order.id = Len(arrivals) + 1 /\ order.qty \in Int
    <2> DEFINE n == Len(arrivals) + 1
    <2>1. order \in [id : {n}, name : Names, side : Sides, instrument : {Instrument},
                     qty : Quantities, price : Prices, timestamp : Timestamps]
      BY DEF Orders
    <2>2. n \in Nat
      BY <1>1
    <2> HIDE DEF n
    <2>3. order \in ActorOrder /\ order.id = n /\ order.qty \in Int
      BY <2>1, <2>2, ActorAssumption DEF ActorOrder
    <2> QED
      BY <2>3 DEF n
  <1>3. trades \in Seq(TradeLines) /\ trades \o <<>> = trades
    BY DEF Inv, TypeOK
  <1>4. \A k \in 1 .. Len(trades) : {trades[k].order, trades[k].contra} \subseteq 1 .. Len(arrivals)
    BY DEF Inv, TypeOK
  <1>5. Traded(order.id, trades) = 0
    <2>1. \A k \in 1 .. Len(trades) : order.id \notin {trades[k].order, trades[k].contra}
      BY <1>1, <1>2, <1>4
    <2> QED
      BY <1>3, <2>1, TradedUnnamed
  <1>6. m \in [book : BookType, order : ActorOrder, trades : Seq(TradeLines)]
    BY <1>2 DEF Inv, TypeOK
  <1>7. order = [order EXCEPT !.qty = order.qty]
    BY <1>2 DEF ActorOrder
  <1>8. m.book = m_book /\ m.order = order /\ m.trades = <<>>
    OBVIOUS
  <1>9. \A k \in 1 .. Len(trades) : {trades[k].order, trades[k].contra} \subseteq 1 .. order.id
    BY <1>1, <1>2, <1>4
  <1>10. Balanced(m_book, order.id - 1, deleted, trades) /\ (Apart(Prices) => Ordered(m_book))
    <2>1. order.id - 1 = Len(arrivals)
      BY <1>1, <1>2
    <2> QED
      BY <2>1 DEF Inv
  <1> HIDE DEF m
  <1>11. m \in Matches(order)
    <2>1. /\ trades \o m.trades = trades
          /\ m.order = [order EXCEPT !.qty = m.order.qty]
          /\ m.order.qty + Traded(order.id, trades) = order.qty
          /\ m.order.qty <= order.qty /\ m.order.qty = order.qty
          /\ Balanced(m.book, order.id - 1, deleted, trades)
          /\ Apart(Prices) => Ordered(m.book)
      BY <1>2, <1>3, <1>5, <1>7, <1>8, <1>10
    <2>2. IsMatch(m, order, trades)
      BY <1>9, <2>1 DEF IsMatch
    <2> QED
      BY <1>6, <2>1, <2>2 DEF Matches
  <1>12. Loops(Matches(order))
    BY <1>2, MatchesLoop DEF Inv
  <1> QED
    BY <1>2, <1>11, <1>12, TradeAllEnds DEF m

\* What is left of an order can enter a book in which it crosses nothing.
LEMMA EntersOrdered ==
  ASSUME NEW book \in BookType, NEW o \in ActorOrder
  PROVE  /\ AddToBook(book, o) \in BookType
         /\ OpenOrders(AddToBook(book, o)) = OpenOrders(book) \cup {o}
         /\ BookApart(book) /\ (\A e \in OpenOrders(book) : e.id # o.id)
               => BookApart(AddToBook(book, o))
         /\ Apart(Prices) /\ Ordered(book) /\ (HasContra(book, o) => ~Crosses(o, FrontContra(book, o)))
               => Ordered(AddToBook(book, o))
  <1> DEFINE B == Held("BUY")
             S == Held("SELL")
             n == AddToBook(book, o)
  <1>1. book \in [buys : Seq(B), sells : Seq(S)]
    BY DEF BookType
  <1>2. /\ o.side = "BUY" => o \in B
        /\ o.side # "BUY" => o \in S
        /\ o.side \in Sides /\ o.price \in Int
    BY ActorAssumption DEF Held, ActorOrder, Sides
  <1>3. Apart(Prices) => Ranked(B) /\ Ranked(S)
    BY HeldFacts
  <1> HIDE DEF B, S
  <1>4. /\ n \in [buys : Seq(B), sells : Seq(S)]
        /\ OpenOrders(n) = OpenOrders(book) \cup {o}
        /\ BookApart(book) /\ (\A e \in OpenOrders(book) : e.id # o.id) => BookApart(n)
        /\ Ranked(B) /\ Ranked(S) /\ BookHeaps(book) => BookHeaps(n)
    BY <1>1, <1>2, BookAdded
  <1>5. n \in BookType
    BY <1>4 DEF BookType, B, S
  <1> HIDE DEF n
  <1>6. ASSUME Apart(Prices), Ordered(book), HasContra(book, o) => ~Crosses(o, FrontContra(book, o))
        PROVE  Ordered(n)
    <2>1. ASSUME NEW d \in Elements(ContraOrders(book, o)) PROVE ~Crosses(o, d)
      <3> DEFINE side == IF o.side = "BUY" THEN "SELL" ELSE "BUY"
                 c == ContraOrders(book, o)
      <3>1. c \in Seq(Held(side)) /\ IsHeap(c) /\ side \in Sides /\ o.side # side
        BY <1>2, <1>6 DEF BookType, ContraOrders, Against, Ordered, BookHeaps, Sides
      <3>2. c # <<>> => ~Crosses(o, c[1])
        BY <1>6 DEF HasContra, FrontContra
      <3> HIDE DEF c, side
      <3>3. \A e \in Held(side) : Ranks(e, side, Prices)
        BY ActorAssumption DEF Held, ActorOrder, Ranks
      <3>4. d \in Elements(c)
        BY <2>1 DEF c
      <3> QED
        BY <1>2, <1>6, <3>1, <3>2, <3>3, <3>4, ActorAssumption, NothingCrosses
    <2>2. Uncrossed(n)
      <3> SUFFICES ASSUME NEW b \in Elements(n.buys), NEW s \in Elements(n.sells)
                   PROVE  b.price < s.price
        BY DEF Uncrossed
      <3>1. /\ b \in ActorOrder /\ b.side = "BUY" /\ b \in OpenOrders(book) \cup {o}
            /\ s \in ActorOrder /\ s.side = "SELL" /\ s \in OpenOrders(book) \cup {o}
        BY <1>4, <1>5, OpenType DEF OpenOrders
      <3>2. b.price \in Int /\ s.price \in Int
        BY <3>1, ActorAssumption DEF ActorOrder
      <3>3. /\ b # o => b \in Elements(book.buys)
            /\ s # o => s \in Elements(book.sells)
        BY <3>1, OpenType DEF OpenOrders
      <3>4. CASE b # o /\ s # o
        BY <1>6, <3>3, <3>4 DEF Ordered, Uncrossed
      <3>5. CASE b = o
        <4>1. s # o /\ ContraOrders(book, o) = book.sells
          BY <3>1, <3>5 DEF ContraOrders, Against
        <4> QED
          BY <2>1, <3>1, <3>2, <3>3, <3>5, <4>1 DEF Crosses
      <3>6. CASE s = o
        <4>1. b # o /\ ContraOrders(book, o) = book.buys
          BY <3>1, <3>6 DEF ContraOrders, Against
        <4> QED
          BY <2>1, <3>1, <3>2, <3>3, <3>6, <4>1 DEF Crosses
      <3> QED
        BY <3>4, <3>5, <3>6
    <2> QED
      BY <1>3, <1>4, <1>6, <2>2 DEF Ordered
  <1> QED
    BY <1>4, <1>5, <1>6 DEF n

LEMMA InitInv == Init => Inv
  BY DEF Init, Inv, TypeOK, Balanced, Ordered, Uncrossed, BookType, EmptyBook, BookApart, IdsApart,
         BookHeaps, IsHeap, OpenOrders, Elements

LEMMA NewOrderInv ==
  ASSUME Inv, NEW order \in Orders, new_order(order)
  PROVE  Inv'
  <1> DEFINE L == Len(arrivals)
             d == TradeAll([book |-> m_book, order |-> order, trades |-> <<>>])
             o == d.order
             n == IF o.qty > 0 THEN AddToBook(d.book, o) ELSE d.book
             lines == trades \o d.trades
  <1>1. /\ arrivals' = Append(arrivals, order) /\ deleted' = deleted
        /\ m_book' = MatchOrder(m_book, order).book
        /\ trades' = trades \o MatchOrder(m_book, order).trades
    BY DEF new_order
  <1>2. /\ order \in ActorOrder /\ order.id = L + 1
        /\ d \in Matches(order) /\ ~CanTrade(d)
    BY MatchEnds
  <1>3. MatchOrder(m_book, order) = IF o.qty > 0 THEN [d EXCEPT !.book = AddToBook(d.book, o)] ELSE d
    BY DEF MatchOrder, Remains
  <1> HIDE DEF d
  <1>4. /\ d \in [book : BookType, order : ActorOrder, trades : Seq(TradeLines)]
        /\ IsMatch(d, order, lines)
    BY <1>2 DEF Matches
  <1>5. m_book' = n /\ trades' = lines
    BY <1>1, <1>3, <1>4
  <1>6. /\ L \in Nat /\ order.qty \in Int /\ o.qty \in Int /\ o \in ActorOrder /\ o.id = L + 1
        /\ d.book \in BookType /\ order.id - 1 = L
    <2>1. o \in ActorOrder /\ d.book \in BookType
      BY <1>4
    <2>2. o = [order EXCEPT !.qty = o.qty]
      BY <1>4 DEF IsMatch
    <2>3. L \in Nat
      BY DEF Inv, TypeOK
    <2> HIDE DEF L, o
    <2>4. o.id = order.id /\ order.qty \in Int /\ o.qty \in Int
      BY <1>2, <2>1, <2>2 DEF ActorOrder
    <2> QED
      BY <1>2, <2>1, <2>3, <2>4
  <1>7. /\ Len(arrivals') = L + 1 /\ arrivals'[L + 1] = order
        /\ \A k \in 1 .. L : arrivals'[k] = arrivals[k]
        /\ arrivals' \in Seq(ActorOrder)
    BY <1>1, <1>2 DEF Inv, TypeOK
  <1>8. /\ BookApart(d.book)
        /\ \A e \in OpenOrders(d.book) :
             /\ e.id \in 1 .. L /\ e.id \notin deleted /\ e.qty > 0 /\ arrivals[e.id].qty > 0
             /\ arrivals[e.id] = [e EXCEPT !.qty = e.qty + Traded(e.id, lines)]
        /\ \A id \in 1 .. L :
             (\A e \in OpenOrders(d.book) : e.id # id) =>
               IF id \in deleted THEN Traded(id, lines) < Asked(id) ELSE Traded(id, lines) = Asked(id)
    <2>1. Balanced(d.book, L, deleted, lines)
      BY <1>4, <1>6 DEF IsMatch
    <2> HIDE DEF L, lines
    <2> QED
      BY <2>1 DEF Balanced
  <1>i. \A e \in OpenOrders(d.book) : e.id \in 1 .. L
    BY <1>8
  <1>9. /\ o.qty + Traded(L + 1, lines) = order.qty /\ o.qty <= order.qty
        /\ o.qty >= 0 \/ o.qty = order.qty
        /\ o = [order EXCEPT !.qty = o.qty]
        /\ \A k \in 1 .. Len(lines) : {lines[k].order, lines[k].contra} \subseteq 1 .. L + 1
        /\ Apart(Prices) => Ordered(d.book)
    BY <1>2, <1>4 DEF IsMatch
  <1>10. lines \in Seq(TradeLines) /\ deleted \subseteq 1 .. L
    BY <1>4 DEF Inv, TypeOK
  <1> HIDE DEF L, lines
  <1>t. Traded(L + 1, lines) \in Int
    BY <1>10, TradedDefined DEF TradedFunction
  <1>11. /\ n \in BookType
         /\ OpenOrders(n) = OpenOrders(d.book) \cup (IF o.qty > 0 THEN {o} ELSE {})
         /\ BookApart(n)
         /\ Apart(Prices) => Ordered(n)
    <2>1. CASE o.qty > 0
      <3>1. ~(HasContra(d.book, o) /\ Crosses(o, FrontContra(d.book, o)))
        BY <1>2, <2>1 DEF CanTrade
      <3>2. \A e \in OpenOrders(d.book) : e.id # o.id
        <4>1. o.id = L + 1 /\ L \in Nat
          BY <1>6
        <4> HIDE DEF o
        <4> QED
          BY <1>i, <4>1
      <3> QED
        BY <1>6, <1>8, <1>9, <2>1, <3>1, <3>2, EntersOrdered
    <2>2. CASE ~(o.qty > 0)
      BY <1>6, <1>8, <1>9, <2>2
    <2> QED
      BY <2>1, <2>2
  <1> HIDE DEF n
  <1>12. TypeOK'
    <2>1. deleted' \subseteq 1 .. L + 1
      BY <1>1, <1>6, <1>10
    <2> QED
      BY <1>5, <1>7, <1>9, <1>10, <1>11, <2>1 DEF TypeOK
  <1>13. Balanced(m_book, Len(arrivals), deleted, trades)'
    <2>1. ASSUME NEW e \in OpenOrders(n)
          PROVE  /\ e.id \in 1 .. L + 1 /\ e.id \notin deleted /\ e.qty > 0 /\ arrivals'[e.id].qty > 0
                 /\ arrivals'[e.id] = [e EXCEPT !.qty = e.qty + Traded(e.id, lines)]
      <3>1. CASE e \in OpenOrders(d.book)
        <4>1. e.id \in 1 .. L /\ L \in Nat
          BY <1>6, <1>i, <3>1
        <4>2. e.id \in 1 .. L + 1
          BY <4>1
        <4> QED
          BY <1>7, <1>8, <3>1, <4>1, <4>2
      <3>2. CASE e = o /\ o.qty > 0
        <4>1. arrivals'[e.id] = order /\ e.id = L + 1 /\ order.qty > 0 /\ L + 1 \notin deleted
          BY <1>6, <1>7, <1>9, <1>10, <3>2
        <4>2. order = [o EXCEPT !.qty = order.qty]
          <5> DEFINE x == o.qty
          <5>1. o = [order EXCEPT !.qty = x]
            BY <1>9
          <5> HIDE DEF x, o
          <5> QED
            BY <1>2, <1>6, <5>1 DEF ActorOrder
        <4>3. e.qty + Traded(e.id, lines) = order.qty
          BY <1>9, <3>2, <4>1
        <4>4. e.id \in 1 .. L + 1
          BY <1>6, <4>1
        <4> QED
          BY <3>2, <4>1, <4>2, <4>3, <4>4
      <3> QED
        BY <1>11, <3>1, <3>2
    <2>2. ASSUME NEW id \in 1 .. L + 1, \A e \in OpenOrders(n) : e.id # id
          PROVE  IF id \in deleted THEN Traded(id, lines) < Asked(id)' ELSE Traded(id, lines) = Asked(id)'
      <3>1. CASE id = L + 1
        <4>1. ~(o.qty > 0)
          BY <1>6, <1>11, <2>2, <3>1
        <4>2. id \notin deleted /\ Asked(id)' = IF order.qty > 0 THEN order.qty ELSE 0
          BY <1>6, <1>7, <1>10, <3>1 DEF Asked
        <4> QED
          BY <1>6, <1>9, <1>t, <3>1, <4>1, <4>2
      <3>2. CASE id # L + 1
        <4>1. id \in 1 .. L
          BY <1>6, <3>2
        <4>2. Asked(id)' = Asked(id)
          BY <1>7, <4>1 DEF Asked
        <4>3. \A e \in OpenOrders(d.book) : e.id # id
          BY <1>11, <2>2
        <4> QED
          BY <1>8, <4>1, <4>2, <4>3
      <3> QED
        BY <3>1, <3>2
    <2> QED
      BY <1>1, <1>5, <1>7, <1>11, <2>1, <2>2 DEF Balanced
  <1>14. Apart(Prices) => Ordered(m_book')
    BY <1>5, <1>11
  <1> QED
    BY <1>12, <1>13, <1>14 DEF Inv, Ordered, BookHeaps, Uncrossed

-----------------------------------------------------------------------------
(* delete_order *)

LEMMA FindInside ==
  ASSUME NEW S, NEW v \in Seq(S), NEW name
  PROVE  Find(v, name) \in 0 .. Len(v)
  <1> DEFINE I == {i \in 1 .. Len(v) : v[i].name = name}
  <1>1. Find(v, name) = IF I # {} THEN Min(I) ELSE 0
    BY DEF Find, SelectInSeq
  <1>2. I \in SUBSET (1 .. Len(v)) /\ I \subseteq Nat /\ Len(v) \in Nat
    OBVIOUS
  <1> HIDE DEF I
  <1>3. ASSUME I # {} PROVE Min(I) \in I
    <2>1. PICK x \in I : \A y \in I : <<y, x>> \notin Below
      BY <1>2, <1>3, BelowWellFounded, WFMin
    <2>2. ASSUME NEW y \in I PROVE x <= y
      <3>1. x \in Nat /\ y \in Nat
        BY <1>2
      <3>2. y < x => <<y, x>> \in Below
        BY <3>1 DEF Below
      <3> QED
        BY <2>1, <3>1, <3>2
    <2> QED
      BY <2>2 DEF Min
  <1> DEFINE k == IF I # {} THEN Min(I) ELSE 0
  <1>4. k \in 0 .. Len(v)
    <2>1. CASE I # {}
      <3>1. Min(I) \in 1 .. Len(v)
        BY <1>2, <1>3, <2>1
      <3> QED
        BY <1>2, <2>1, <3>1
    <2>2. CASE I = {}
      BY <1>2, <2>2
    <2> QED
      BY <2>1, <2>2
  <1> QED
    BY <1>1, <1>4

\* The id that is erased with name.
Gone(v, name) == IF Find(v, name) = 0 THEN {} ELSE {v[Find(v, name)].id}

\* Erasing a name leaves the other orders and makes a heap of them again.
LEMMA Deletes ==
  ASSUME NEW S, NEW v \in Seq(S), IdsApart(v), NEW name
  PROVE  /\ DeleteFrom(v, name) \in Seq(S)
         /\ IdsApart(DeleteFrom(v, name))
         /\ Elements(DeleteFrom(v, name)) = {e \in Elements(v) : e.id \notin Gone(v, name)}
         /\ Gone(v, name) \subseteq {e.id : e \in Elements(v)}
         /\ Ranked(S) /\ IsHeap(v) => IsHeap(DeleteFrom(v, name))
  <1> DEFINE k == Find(v, name)
             w == RemoveAt(v, k)
             h == MakeHeap(w)
  <1>1. k \in 0 .. Len(v) /\ Len(v) \in Nat /\ DOMAIN v = 1 .. Len(v)
    BY FindInside
  <1>2. /\ DeleteFrom(v, name) = IF k = 0 THEN v ELSE h
        /\ Gone(v, name) = IF k = 0 THEN {} ELSE {v[k].id}
    BY DEF DeleteFrom, Gone
  <1> HIDE DEF k
  <1>3. CASE k = 0
    BY <1>2, <1>3
  <1>4. CASE k # 0
    <2>1. k \in 1 .. Len(v)
      BY <1>1, <1>4
    <2>2. w \in Seq(S) /\ Picks(w, v, DOMAIN v \ {k})
      BY <2>1, RemoveAtPicks
    <2> HIDE DEF w
    <2>3. h \in Seq(S) /\ Rearranged(h, w) /\ (Ranked(S) => IsHeap(h))
      BY <2>2, MakeHeapOrders
    <2> HIDE DEF h
    <2>4. Picks(h, v, DOMAIN v \ {k})
      BY <2>2, <2>3, PicksRearranged
    <2>5. Elements(h) = {v[i] : i \in DOMAIN v \ {k}}
      BY <2>4, PicksElements
    <2>6. IdsApart(h)
      <3> DEFINE D == DOMAIN v \ {k}
      <3>1. D \subseteq DOMAIN v /\ Picks(h, v, D)
        BY <2>4
      <3> HIDE DEF D
      <3> QED
        BY <3>1, PicksApart
    <2>7. Elements(h) = {e \in Elements(v) : e.id \notin {v[k].id}}
      BY <1>1, <2>1, <2>5 DEF Elements, IdsApart
    <2>8. {v[k].id} \subseteq {e.id : e \in Elements(v)}
      BY <1>1, <2>1 DEF Elements
    <2> QED
      BY <1>2, <1>4, <2>3, <2>6, <2>7, <2>8
  <1> QED
    BY <1>3, <1>4

\* No order is on both sides.
LEMMA SidesApart ==
  ASSUME NEW book \in BookType, NEW n, NEW gone, NEW lines, Balanced(book, n, gone, lines),
         NEW b \in Elements(book.buys), NEW s \in Elements(book.sells)
  PROVE  b.id # s.id
  <1>1. b \in OpenOrders(book) /\ s \in OpenOrders(book)
    BY DEF OpenOrders
  <1>2. b.side = "BUY" /\ s.side = "SELL"
    BY OpenType
  <1> QED
    BY <1>1, <1>2, OneRecord

LEMMA DeleteOrderInv ==
  ASSUME Inv, NEW name \in Names, delete_order(name)
  PROVE  Inv'
  <1> DEFINE B == Held("BUY")
             S == Held("SELL")
             buys == m_book.buys
             sells == m_book.sells
             n == [buys |-> DeleteFrom(buys, name), sells |-> DeleteFrom(sells, name)]
             g == Gone(buys, name) \cup Gone(sells, name)
             L == Len(arrivals)
             open == OpenOrders(m_book)
  <1>1. m_book' = n /\ deleted' = deleted \cup g /\ arrivals' = arrivals /\ trades' = trades
    BY DEF delete_order, Gone
  <1>2. /\ m_book \in BookType /\ buys \in Seq(B) /\ sells \in Seq(S)
        /\ arrivals \in Seq(ActorOrder) /\ trades \in Seq(TradeLines) /\ L \in Nat
        /\ deleted \subseteq 1 .. L
        /\ Balanced(m_book, L, deleted, trades)
    BY DEF Inv, TypeOK, BookType
  <1>3. IdsApart(buys) /\ IdsApart(sells)
    BY <1>2 DEF Balanced, BookApart
  <1>4. Apart(Prices) => Ranked(B) /\ Ranked(S) /\ IsHeap(buys) /\ IsHeap(sells) /\ Uncrossed(m_book)
    BY HeldFacts DEF Inv, Ordered, BookHeaps
  <1>5. open = Elements(buys) \cup Elements(sells)
    BY DEF OpenOrders
  <1>6. \A b \in Elements(buys), s \in Elements(sells) : b.id # s.id
    BY <1>2, SidesApart
  <1> HIDE DEF B, S, L
  <1>7. /\ n.buys \in Seq(B) /\ IdsApart(n.buys)
        /\ Elements(n.buys) = {e \in Elements(buys) : e.id \notin Gone(buys, name)}
        /\ Gone(buys, name) \subseteq {e.id : e \in Elements(buys)}
        /\ Apart(Prices) => IsHeap(n.buys)
    <2> HIDE DEF buys
    <2>1. n.buys = DeleteFrom(buys, name)
      OBVIOUS
    <2> QED
      BY <1>2, <1>3, <1>4, <2>1, Deletes
  <1>8. /\ n.sells \in Seq(S) /\ IdsApart(n.sells)
        /\ Elements(n.sells) = {e \in Elements(sells) : e.id \notin Gone(sells, name)}
        /\ Gone(sells, name) \subseteq {e.id : e \in Elements(sells)}
        /\ Apart(Prices) => IsHeap(n.sells)
    <2> HIDE DEF sells
    <2>1. n.sells = DeleteFrom(sells, name)
      OBVIOUS
    <2> QED
      BY <1>2, <1>3, <1>4, <2>1, Deletes
  <1>9. n \in BookType
    <2>1. n = [buys |-> n.buys, sells |-> n.sells]
      OBVIOUS
    <2> HIDE DEF n
    <2> QED
      BY <1>7, <1>8, <2>1 DEF BookType, B, S
  <1> HIDE DEF n, buys, sells
  <1>10. OpenOrders(n) = {e \in open : e.id \notin g} /\ g \subseteq {e.id : e \in open}
    <2>1. OpenOrders(n) = Elements(n.buys) \cup Elements(n.sells)
      BY DEF OpenOrders
    <2>2. \A e \in Elements(buys) : e.id \notin Gone(sells, name)
      BY <1>6, <1>8
    <2>3. \A e \in Elements(sells) : e.id \notin Gone(buys, name)
      BY <1>6, <1>7
    <2> HIDE DEF open
    <2> QED
      BY <1>5, <1>7, <1>8, <2>1, <2>2, <2>3
  <1> HIDE DEF g
  <1>11. /\ \A e \in open :
              /\ e.id \in 1 .. L /\ e.id \notin deleted /\ e.qty > 0 /\ arrivals[e.id].qty > 0
              /\ arrivals[e.id] = [e EXCEPT !.qty = e.qty + Traded(e.id, trades)]
         /\ \A id \in 1 .. L :
              (\A e \in open : e.id # id) =>
                IF id \in deleted THEN Traded(id, trades) < Asked(id) ELSE Traded(id, trades) = Asked(id)
    BY <1>2 DEF Balanced
  <1>12. open \subseteq ActorOrder
    BY <1>2, OpenType
  <1> HIDE DEF open
  <1>13. \A e \in open : Traded(e.id, trades) < Asked(e.id)
    <2> SUFFICES ASSUME NEW e \in open PROVE Traded(e.id, trades) < Asked(e.id)
      OBVIOUS
    <2> DEFINE t == Traded(e.id, trades)
               x == e.qty + t
    <2>1. t \in Int
      BY <1>2, TradedDefined DEF TradedFunction
    <2>2. e \in ActorOrder /\ e.qty \in Int /\ e.qty > 0 /\ arrivals[e.id].qty > 0
          /\ arrivals[e.id] = [e EXCEPT !.qty = x]
      BY <1>11, <1>12 DEF ActorOrder
    <2>3. Asked(e.id) = arrivals[e.id].qty
      BY <2>2 DEF Asked
    <2> HIDE DEF x
    <2>4. arrivals[e.id].qty = x
      BY <2>2 DEF ActorOrder
    <2> QED
      BY <2>1, <2>2, <2>3, <2>4 DEF x
  <1>14. Balanced(n, L, deleted \cup g, trades)
    <2>1. BookApart(n)
      BY <1>7, <1>8 DEF BookApart
    <2>2. ASSUME NEW e \in OpenOrders(n)
          PROVE  /\ e.id \in 1 .. L /\ e.id \notin deleted \cup g /\ e.qty > 0 /\ arrivals[e.id].qty > 0
                 /\ arrivals[e.id] = [e EXCEPT !.qty = e.qty + Traded(e.id, trades)]
      <3>1. e \in open /\ e.id \notin g
        BY <1>10
      <3> QED
        BY <1>11, <3>1
    <2>3. ASSUME NEW id \in 1 .. L, \A e \in OpenOrders(n) : e.id # id
          PROVE  IF id \in deleted \cup g THEN Traded(id, trades) < Asked(id)
                                          ELSE Traded(id, trades) = Asked(id)
      <3>1. CASE id \in g
        BY <1>10, <1>13, <3>1
      <3>2. CASE id \notin g
        <4>1. \A e \in open : e.id # id
          BY <1>10, <2>3, <3>2
        <4> QED
          BY <1>11, <3>2, <4>1
      <3> QED
        BY <3>1, <3>2
    <2> QED
      BY <2>1, <2>2, <2>3 DEF Balanced
  <1>15. deleted \cup g \subseteq 1 .. L
    <2>1. \A e \in open : e.id \in 1 .. L
      BY <1>11
    <2> QED
      BY <1>2, <1>10, <2>1
  <1>16. Apart(Prices) => Ordered(n)
    <2>1. Uncrossed(m_book) => Uncrossed(n)
      BY <1>7, <1>8 DEF Uncrossed, buys, sells
    <2> QED
      BY <1>4, <1>7, <1>8, <2>1 DEF Ordered, BookHeaps
  <1>17. TypeOK'
    BY <1>1, <1>9, <1>15 DEF Inv, TypeOK, L
  <1>18. Balanced(m_book, Len(arrivals), deleted, trades)'
    BY <1>1, <1>14 DEF Balanced, Asked, L
  <1> QED
    BY <1>1, <1>16, <1>17, <1>18 DEF Inv, Ordered, BookHeaps, Uncrossed

-----------------------------------------------------------------------------
(* The theorems *)

LEMMA Invariance == Spec => []Inv
  <1>1. Inv /\ [Next]_vars => Inv'
    <2> SUFFICES ASSUME Inv, [Next]_vars PROVE Inv'
      OBVIOUS
    <2>1. CASE \E order \in Orders : new_order(order)
      BY <2>1, NewOrderInv
    <2>2. CASE \E name \in Names : delete_order(name)
      BY <2>2, DeleteOrderInv
    <2>3. CASE UNCHANGED vars
      BY <2>3 DEF vars, Inv, TypeOK, Balanced, Ordered, BookHeaps, Uncrossed, Asked
    <2> QED
      BY <2>1, <2>2, <2>3 DEF Next
  <1> QED
    BY <1>1, InitInv, PTL DEF Spec

\* Whatever mix of matches and deletions from the middle the actor performs,
\* delete_order's make_heap and new_order's push_heap and pop_heap leave both
\* containers heaps, if any two prices are equal or more than the tolerance of
\* silly_equal apart.
THEOREM ActorKeepsHeaps == Apart(Prices) /\ Spec => []HeapOrdered
  <1>1. Apart(Prices) /\ Inv => HeapOrdered
    BY DEF Inv, Ordered, BookHeaps, HeapOrdered
  <1>2. Apart(Prices) => (Spec => []HeapOrdered)
    <2> SUFFICES ASSUME Apart(Prices) PROVE Spec => []HeapOrdered
      OBVIOUS
    <2>1. Inv => HeapOrdered
      BY <1>1
    <2> QED
      BY <2>1, Invariance, PTL
  <1> QED
    BY <1>2

\* match_order stops only when the order is done or crosses nothing, so no two
\* open orders could trade with each other between two messages.
THEOREM ActorMissesNoTrade == Apart(Prices) /\ Spec => []NotCrossed
  <1>1. Apart(Prices) /\ Inv => NotCrossed
    BY DEF Inv, Ordered, Uncrossed, NotCrossed
  <1>2. Apart(Prices) => (Spec => []NotCrossed)
    <2> SUFFICES ASSUME Apart(Prices) PROVE Spec => []NotCrossed
      OBVIOUS
    <2>1. Inv => NotCrossed
      BY <1>1
    <2> QED
      BY <2>1, Invariance, PTL
  <1> QED
    BY <1>2

\* An order is in one place at most, with what it has not traded, or it was
\* deleted with something left, or it has traded all it asked for.
THEOREM ActorAccountsForOrders == Spec => []Accounted
  <1>1. Inv => Accounted
    <2> SUFFICES ASSUME Inv PROVE Accounted
      OBVIOUS
    <2> DEFINE buys == m_book.buys
               sells == m_book.sells
               open == buys \o sells
               L == Len(arrivals)
               places(id) == {k \in DOMAIN open : open[k].id = id}
               asked(id) == IF arrivals[id].qty > 0 THEN arrivals[id].qty ELSE 0
    <2>1. /\ m_book \in BookType /\ Balanced(m_book, L, deleted, trades)
          /\ buys \in Seq(ActorOrder) /\ sells \in Seq(ActorOrder)
          /\ trades \in Seq(TradeLines) /\ arrivals \in Seq(ActorOrder) /\ L \in Nat
      BY DEF Inv, TypeOK, BookType, Held
    <2>2. IdsApart(buys) /\ IdsApart(sells)
      BY <2>1 DEF Balanced, BookApart
    <2>3. \A b \in Elements(buys), s \in Elements(sells) : b.id # s.id
      BY <2>1, SidesApart
    <2>4. OpenOrders(m_book) = Elements(buys) \cup Elements(sells)
      BY DEF OpenOrders
    <2> HIDE DEF buys, sells, L
    <2>5. IdsApart(open)
      BY <2>1, <2>2, <2>3, JoinedApart
    <2>6. Elements(open) = OpenOrders(m_book)
      <3> DEFINE m == Len(buys)
                 n == Len(sells)
      <3>1. /\ m \in Nat /\ n \in Nat /\ DOMAIN buys = 1 .. m /\ DOMAIN sells = 1 .. n
            /\ DOMAIN open = 1 .. m + n
            /\ \A k \in 1 .. m : open[k] = buys[k]
            /\ \A k \in 1 .. n : open[m + k] = sells[k]
        BY <2>1
      <3> HIDE DEF m, n, open
      <3>2. ASSUME NEW k \in 1 .. m + n PROVE open[k] \in Elements(buys) \cup Elements(sells)
        <4>1. CASE k <= m
          BY <3>1, <4>1 DEF Elements
        <4>2. CASE k > m
          <5> DEFINE j == k - m
          <5>1. j \in 1 .. n /\ k = m + j
            BY <3>1, <4>2
          <5> HIDE DEF j
          <5> QED
            BY <3>1, <5>1 DEF Elements
        <4> QED
          BY <3>1, <4>1, <4>2
      <3>3. \A k \in 1 .. m : k \in 1 .. m + n
        BY <3>1
      <3>4. \A k \in 1 .. n : m + k \in 1 .. m + n
        BY <3>1
      <3>5. Elements(open) \subseteq Elements(buys) \cup Elements(sells)
        BY <3>1, <3>2 DEF Elements
      <3>6. Elements(buys) \subseteq Elements(open)
        BY <3>1, <3>3 DEF Elements
      <3>7. Elements(sells) \subseteq Elements(open)
        BY <3>1, <3>4 DEF Elements
      <3> QED
        BY <2>4, <3>5, <3>6, <3>7
    <2> HIDE DEF open
    <2>7. ASSUME NEW id \in 1 .. L, places(id) = {}
          PROVE  IF id \in deleted THEN Traded(id, trades) < asked(id) ELSE Traded(id, trades) = asked(id)
      <3>1. \A o \in OpenOrders(m_book) : o.id # id
        BY <2>6, <2>7 DEF Elements
      <3> QED
        BY <2>1, <3>1 DEF Balanced, Asked
    <2>8. ASSUME NEW id \in 1 .. L, places(id) # {}
          PROVE  /\ id \notin deleted
                 /\ \E k \in places(id) :
                      /\ places(id) = {k}
                      /\ open[k] = [arrivals[id] EXCEPT !.qty = asked(id) - Traded(id, trades)]
      <3>1. PICK k \in places(id) : TRUE
        BY <2>8
      <3>2. places(id) = {k}
        BY <2>5, <3>1 DEF IdsApart
      <3> DEFINE o == open[k]
                 t == Traded(id, trades)
                 x == o.qty + t
                 y == asked(id) - t
      <3>3. o \in OpenOrders(m_book) /\ o.id = id
        BY <2>6, <3>1 DEF Elements
      <3> HIDE DEF o, places
      <3>4. /\ id \notin deleted /\ arrivals[id].qty > 0
            /\ arrivals[id] = [o EXCEPT !.qty = x]
        BY <2>1, <3>3 DEF Balanced
      <3>5. t \in Int
        BY <2>1, TradedDefined DEF TradedFunction
      <3>6. o \in ActorOrder /\ o.qty \in Int
        BY <2>1, <3>3, OpenType DEF ActorOrder
      <3>7. y = o.qty
        <4>1. arrivals[id].qty = x
          <5> HIDE DEF x
          <5> QED
            BY <3>4, <3>6 DEF ActorOrder
        <4> QED
          BY <3>4, <3>5, <3>6, <4>1
      <3> HIDE DEF x, y
      <3>8. o = [arrivals[id] EXCEPT !.qty = y]
        BY <3>4, <3>6, <3>7 DEF ActorOrder
      <3> QED
        BY <3>1, <3>2, <3>4, <3>8 DEF o, y
    <2> QED
      BY <2>7, <2>8 DEF Accounted, open, buys, sells, L
  <1> QED
    BY <1>1, Invariance, PTL
=============================================================================
