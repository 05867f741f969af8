------------------------ MODULE LimitOrderBookProofs ------------------------
(***************************************************************************)
(* Theorems about the promise of a matching engine, for all instruments,   *)
(* prices, quantities, timestamps, every Tolerance and any number of       *)
(* orders.                                                                 *)
(***************************************************************************)
EXTENDS LimitOrderBook, TLAPS

\* The inductive invariant.  NotCrossed alone is preserved only by orders with
\* the terms they were submitted on, and Conservation needs an order to be
\* open once.
Inv == TypeOK /\ OpenOnce /\ Conservation /\ NotCrossed

\* A trade moves a positive quantity that both orders have.
LEMMA TradeQuantityBounds ==
  ASSUME NEW o \in Order, NEW c \in Order
  PROVE  /\ TradeQuantity(o, c) \in Nat \ {0}
         /\ TradeQuantity(o, c) <= o.qty
         /\ TradeQuantity(o, c) <= c.qty
  BY DEF TradeQuantity, Order

\* What remains of an order is nothing, or the same order with less quantity.
LEMMA RestIsOrder ==
  ASSUME NEW o \in Order, NEW q \in Nat \ {0}, q <= o.qty, NEW r \in Rest(o, q)
  PROVE  /\ r = [o EXCEPT !.qty = o.qty - q]
         /\ r \in Order
         /\ o.qty # q
         /\ r.id = o.id /\ r.side = o.side /\ r.instrument = o.instrument
         /\ r.price = o.price /\ r.qty = o.qty - q
  <1>1. r = [o EXCEPT !.qty = o.qty - q] /\ o.qty # q
    BY DEF Rest
  <1>2. o.qty - q \in Nat \ {0}
    BY <1>1 DEF Order
  <1> QED
    BY <1>1, <1>2 DEF Order

LEMMA RestNonempty ==
  ASSUME NEW o \in Order, NEW q \in Nat \ {0}, o.qty # q
  PROVE  Rest(o, q) = {[o EXCEPT !.qty = o.qty - q]}
  BY DEF Rest

LEMMA InitInv == Init => Inv
  BY DEF Init, Inv, TypeOK, OpenOnce, Conservation, NotCrossed, Live

LEMMA SubmitInv ==
  ASSUME ParametersAssumption, Inv, NEW o \in NewOrders, Submit(o)
  PROVE  Inv'
  <1> DEFINE n == Len(arrivals) + 1
  <1>1. o \in Order /\ o.id = n
    <2>1. n \in Nat \ {0}
      BY DEF Inv, TypeOK
    <2>2. o \in [id : {n}, side : Sides, instrument : Instruments,
                 qty : Quantities, price : Prices, timestamp : Timestamps]
      BY DEF NewOrders
    <2> QED
      BY <2>1, <2>2 DEF Order, ParametersAssumption
  <1>2. /\ arrivals' = Append(arrivals, o) /\ filled' = Append(filled, 0)
        /\ incoming' = incoming \cup {o} /\ resting' = resting
    BY DEF Submit
  <1>3. TypeOK'
    BY <1>1, <1>2 DEF Inv, TypeOK
  <1>4. \A p \in Live : p.id \in 1 .. Len(arrivals) /\ p.id # n
    <2>1. Len(arrivals) \in Nat
      BY DEF Inv, TypeOK
    <2>2. \A p \in Live : p.id \in 1 .. Len(arrivals)
      BY DEF Inv, Conservation
    <2> QED
      BY <2>1, <2>2
  <1>5. OpenOnce'
    BY <1>1, <1>2, <1>4 DEF Inv, OpenOnce, Live
  <1>6. /\ Len(arrivals') = n /\ arrivals'[n] = o /\ filled'[n] = 0
        /\ \A id \in 1 .. Len(arrivals) : /\ arrivals'[id] = arrivals[id]
                                          /\ filled'[id] = filled[id]
    BY <1>2, <1>1 DEF Inv, TypeOK
  <1>7. Conservation'
    <2>1. ASSUME NEW p \in Live'
          PROVE  /\ p.id \in 1 .. Len(arrivals')
                 /\ arrivals'[p.id] = [p EXCEPT !.qty = @ + filled'[p.id]]
      <3>1. CASE p = o
        <4>1. [o EXCEPT !.qty = o.qty + 0] = o
          BY <1>1 DEF Order
        <4> QED
          BY <1>1, <1>6, <3>1, <4>1 DEF Inv, TypeOK
      <3>2. CASE p \in Live
        BY <1>4, <1>6, <3>2 DEF Inv, Conservation, TypeOK
      <3> QED
        BY <1>2, <2>1, <3>1, <3>2 DEF Live
    <2>2. ASSUME NEW id \in 1 .. Len(arrivals'), \A p \in Live' : p.id # id
          PROVE  filled'[id] = arrivals'[id].qty
      <3>1. id # n /\ id \in 1 .. Len(arrivals)
        BY <1>1, <1>2, <1>6, <2>2 DEF Live, Inv, TypeOK
      <3> QED
        BY <1>2, <1>6, <2>2, <3>1 DEF Live, Inv, Conservation
    <2> QED
      BY <2>1, <2>2 DEF Conservation
  <1>8. NotCrossed'
    BY <1>2 DEF Inv, NotCrossed
  <1> QED
    BY <1>3, <1>5, <1>7, <1>8 DEF Inv

LEMMA EnterInv ==
  ASSUME Inv, NEW o \in incoming, Enter(o)
  PROVE  Inv'
  <1>1. /\ incoming' = incoming \ {o} /\ resting' = resting \cup {o}
        /\ arrivals' = arrivals /\ filled' = filled
    BY DEF Enter
  <1>2. Live' = Live
    BY <1>1 DEF Live
  <1>3. TypeOK'
    BY <1>1 DEF Inv, TypeOK
  <1>4. OpenOnce'
    BY <1>1, <1>2 DEF Inv, OpenOnce
  <1>5. Conservation'
    BY <1>1, <1>2 DEF Inv, Conservation
  <1>6. NotCrossed'
    <2> SUFFICES ASSUME NEW b \in resting', NEW s \in resting',
                        Contra(b, s), b.side = "BUY"
                 PROVE  b.price < s.price
      BY DEF NotCrossed
    <2>1. b \in Order /\ s \in Order /\ s.side = "SELL"
      BY <1>3 DEF TypeOK, Order, Contra, Sides
    <2>2. CASE b \in resting /\ s \in resting
      BY <2>2 DEF Inv, NotCrossed
    <2>3. CASE b = o /\ s \in resting
      BY <2>1, <2>3 DEF Enter, Crosses, Order
    <2>4. CASE s = o /\ b \in resting
      BY <2>1, <2>4 DEF Enter, Crosses, Order, Contra
    <2> QED
      BY <1>1, <2>1, <2>2, <2>3, <2>4
  <1> QED
    BY <1>3, <1>4, <1>5, <1>6 DEF Inv

\* Trade is the step that disturbs everything: two orders are replaced by what
\* remains of them.  A record that is open afterwards is a remainder of the
\* incoming order, a remainder of the contra order, or untouched.
LEMMA TradeInv ==
  ASSUME Inv, NEW o \in incoming, NEW c \in resting, Trade(o, c)
  PROVE  Inv'
  <1> DEFINE q == TradeQuantity(o, c)
             left(p) == [p EXCEPT !.qty = p.qty - q]
  <1>1. /\ o \in Order /\ c \in Order
        /\ o \in Live /\ c \in Live
        /\ o.id \in 1 .. Len(arrivals) /\ c.id \in 1 .. Len(arrivals)
    BY DEF Inv, TypeOK, Conservation, Live
  <1>2. o.id # c.id
    BY <1>1 DEF Inv, OpenOnce
  <1>3. q \in Nat \ {0} /\ q <= o.qty /\ q <= c.qty
    BY <1>1, TradeQuantityBounds
  <1>4. /\ incoming' = (incoming \ {o}) \cup Rest(o, q)
        /\ resting' = (resting \ {c}) \cup Rest(c, q)
        /\ filled' = [filled EXCEPT ![o.id] = @ + q, ![c.id] = @ + q]
        /\ arrivals' = arrivals
    BY DEF Trade
  <1> HIDE DEF q
  <1>5. \A r \in Rest(o, q) : /\ r = left(o) /\ r \in Order /\ o.qty # q
                             /\ r.id = o.id
    BY <1>1, <1>3, RestIsOrder
  <1>6. \A r \in Rest(c, q) : /\ r = left(c) /\ r \in Order /\ c.qty # q
                             /\ r.id = c.id /\ r.side = c.side
                             /\ r.instrument = c.instrument /\ r.price = c.price
    BY <1>1, <1>3, RestIsOrder
  <1>7. /\ filled' \in Seq(Nat) /\ Len(filled') = Len(arrivals)
        /\ filled'[o.id] = filled[o.id] + q
        /\ filled'[c.id] = filled[c.id] + q
        /\ \A id \in 1 .. Len(arrivals) : id # o.id /\ id # c.id => filled'[id] = filled[id]
    BY <1>1, <1>2, <1>3, <1>4 DEF Inv, TypeOK
  <1>8. TypeOK'
    BY <1>4, <1>5, <1>6, <1>7 DEF Inv, TypeOK
  <1>9. \A p \in Live : /\ p.id = o.id => p = o
                       /\ p.id = c.id => p = c
    BY <1>1 DEF Inv, OpenOnce
  <1>10. \A p \in incoming' :
           \/ p \in incoming /\ p.id # o.id /\ p.id # c.id
           \/ p = left(o) /\ p.id = o.id
    BY <1>1, <1>4, <1>5, <1>9 DEF Inv, OpenOnce, Live
  <1>11. \A p \in resting' :
           \/ p \in resting /\ p.id # o.id /\ p.id # c.id
           \/ p = left(c) /\ p.id = c.id
    BY <1>1, <1>4, <1>6, <1>9 DEF Inv, OpenOnce, Live
  <1>12. OpenOnce'
    <2>1. resting' \cap incoming' = {}
      BY <1>2, <1>10, <1>11 DEF Inv, OpenOnce
    <2>2. \A a, b \in Live' : a.id = b.id => a = b
      BY <1>2, <1>10, <1>11 DEF Inv, OpenOnce, Live
    <2> QED
      BY <2>1, <2>2 DEF OpenOnce
  <1>13. Conservation'
    <2>1. ASSUME NEW p \in Live'
          PROVE  /\ p.id \in 1 .. Len(arrivals')
                 /\ arrivals'[p.id] = [p EXCEPT !.qty = @ + filled'[p.id]]
      <3>1. CASE p \in Live /\ p.id # o.id /\ p.id # c.id
        BY <1>4, <1>7, <3>1 DEF Inv, Conservation
      <3>2. ASSUME NEW x \in {o, c}, p = left(x), p.id = x.id
            PROVE  /\ p.id \in 1 .. Len(arrivals')
                   /\ arrivals'[p.id] = [p EXCEPT !.qty = @ + filled'[p.id]]
        <4>1. x \in Order /\ x \in Live /\ filled'[x.id] = filled[x.id] + q
              /\ x.id \in 1 .. Len(arrivals)
          BY <1>1, <1>7
        <4>2. arrivals[x.id] = [x EXCEPT !.qty = x.qty + filled[x.id]]
          BY <4>1 DEF Inv, Conservation
        <4>3. filled[x.id] \in Nat
          BY <4>1 DEF Inv, TypeOK
        <4>4. p.qty + filled'[x.id] = x.qty + filled[x.id]
          BY <4>1, <4>3, <3>2, <1>3 DEF Order
        <4>5. [p EXCEPT !.qty = p.qty + filled'[x.id]] = [x EXCEPT !.qty = x.qty + filled[x.id]]
          BY <4>1, <4>4, <3>2 DEF Order
        <4> QED
          BY <1>4, <3>2, <4>1, <4>2, <4>5
      <3> QED
        BY <1>10, <1>11, <2>1, <3>1, <3>2 DEF Live
    <2>2. ASSUME NEW id \in 1 .. Len(arrivals'), \A p \in Live' : p.id # id
          PROVE  filled'[id] = arrivals'[id].qty
      <3>1. ASSUME NEW x \in {o, c}, id = x.id, x.qty = q
            PROVE  filled'[id] = arrivals'[id].qty
        <4>1. x \in Order /\ x \in Live /\ filled'[x.id] = filled[x.id] + q
              /\ x.id \in 1 .. Len(arrivals)
          BY <1>1, <1>7
        <4>2. arrivals[x.id] = [x EXCEPT !.qty = x.qty + filled[x.id]] /\ filled[x.id] \in Nat
          BY <4>1 DEF Inv, Conservation, TypeOK
        <4> QED
          BY <1>4, <3>1, <4>1, <4>2, <1>3 DEF Order
      <3>2. CASE id = o.id
        <4>1. o.qty = q
          <5> SUFFICES ASSUME o.qty # q PROVE FALSE
            OBVIOUS
          <5>1. left(o) \in Live' /\ left(o).id = o.id
            BY <1>1, <1>3, <1>4, RestNonempty, <1>5 DEF Live
          <5> QED
            BY <5>1, <2>2, <3>2
        <4> QED
          BY <3>1, <3>2, <4>1
      <3>3. CASE id = c.id
        <4>1. c.qty = q
          <5> SUFFICES ASSUME c.qty # q PROVE FALSE
            OBVIOUS
          <5>1. left(c) \in Live' /\ left(c).id = c.id
            BY <1>1, <1>3, <1>4, RestNonempty, <1>6 DEF Live
          <5> QED
            BY <5>1, <2>2, <3>3
        <4> QED
          BY <3>1, <3>3, <4>1
      <3>4. CASE id # o.id /\ id # c.id
        <4>1. \A p \in Live : p.id = id => p \in Live'
          BY <1>4, <3>4 DEF Live
        <4> QED
          BY <1>4, <1>7, <2>2, <3>4, <4>1 DEF Inv, Conservation
      <3> QED
        BY <3>2, <3>3, <3>4
    <2> QED
      BY <2>1, <2>2 DEF Conservation
  <1>14. NotCrossed'
    <2>1. \A r \in resting' : \E p \in resting :
             p.side = r.side /\ p.instrument = r.instrument /\ p.price = r.price
      BY <1>4, <1>6
    <2> QED
      BY <2>1 DEF Inv, NotCrossed, Contra
  <1> QED
    BY <1>8, <1>13, <1>14, <1>12 DEF Inv

LEMMA NextInv == ParametersAssumption /\ Inv /\ [Next]_vars => Inv'
  <1> SUFFICES ASSUME ParametersAssumption, Inv, [Next]_vars PROVE Inv'
    OBVIOUS
  <1>1. CASE \E o \in NewOrders : Submit(o)
    BY <1>1, SubmitInv
  <1>2. CASE \E o \in incoming : \E c \in resting : Trade(o, c)
    BY <1>2, TradeInv
  <1>3. CASE \E o \in incoming : Enter(o)
    BY <1>3, EnterInv
  <1>4. CASE UNCHANGED vars
    BY <1>4 DEF vars, Inv, TypeOK, OpenOnce, Conservation, NotCrossed, Live
  <1> QED
    BY <1>1, <1>2, <1>3, <1>4 DEF Next

LEMMA Invariance ==
  ASSUME ParametersAssumption
  PROVE  Spec => []Inv
  <1>1. Init => Inv
    BY InitInv
  <1>2. Inv /\ [Next]_vars => Inv'
    BY NextInv
  <1> QED
    BY <1>1, <1>2, PTL DEF Spec

\* Every variable of the promise keeps its type.
THEOREM TypeCorrectness ==
  ASSUME ParametersAssumption
  PROVE  Spec => []TypeOK
  BY Invariance, PTL DEF Inv

\* An order has at most one open record, in the book or being matched, so
\* match() never trades an order twice over.
THEOREM OrdersOpenOnce ==
  ASSUME ParametersAssumption
  PROVE  Spec => []OpenOnce
  BY Invariance, PTL DEF Inv

\* What an open order has left and what the TRADE lines gave it add up to what
\* was submitted, and an order that is no longer open traded all of it.
THEOREM QuantityIsConserved ==
  ASSUME ParametersAssumption
  PROVE  Spec => []Conservation
  BY Invariance, PTL DEF Inv

\* The highest resting bid is below the lowest resting offer.
THEOREM BooksNeverCross ==
  ASSUME ParametersAssumption
  PROVE  Spec => []NotCrossed
  BY Invariance, PTL DEF Inv
=============================================================================
