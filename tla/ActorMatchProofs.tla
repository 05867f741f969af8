-------------------------- MODULE ActorMatchProofs --------------------------
(***************************************************************************)
(* Theorems about the actors of actor-match, for all inputs, any number of *)
(* books and every order in which main, router and books take their steps. *)
(***************************************************************************)
EXTENDS ActorMatch, FiniteSetTheorems, SequenceTheorems, WellFoundedInduction, TLAPS

-----------------------------------------------------------------------------
(* Queues of messages *)

LEMMA Appended ==
  ASSUME NEW S, NEW q \in Seq(S), NEW m \in S
  PROVE  /\ Append(q, m) \in Seq(S)
         /\ Range(Append(q, m)) = Range(q) \cup {m}
         /\ OrderLines(Append(q, m)) = OrderLines(q) \cup (IF m.kind = "new_order" THEN {m.line} ELSE {})
         /\ Ascending(q) /\ (m.kind = "new_order" => AllBelow(OrderLines(q), {m.line}))
              => Ascending(Append(q, m))
  <1> DEFINE n == Len(q)
             r == Append(q, m)
  <1>1. /\ n \in Nat /\ DOMAIN q = 1 .. n /\ DOMAIN r = 1 .. n + 1
        /\ r \in Seq(S) /\ r[n + 1] = m /\ \A k \in 1 .. n : r[k] = q[k]
    OBVIOUS
  <1>2. /\ \A k \in 1 .. n + 1 : k \in 1 .. n \/ k = n + 1
        /\ n + 1 \in 1 .. n + 1 /\ \A k \in 1 .. n : k \in 1 .. n + 1
    BY <1>1
  <1> HIDE DEF n, r
  <1>3. Range(r) = Range(q) \cup {m}
    BY <1>1, <1>2 DEF Range
  <1>4. OrderLines(r) = OrderLines(q) \cup (IF m.kind = "new_order" THEN {m.line} ELSE {})
    <2>1. OrderLines(r) \subseteq OrderLines(q) \cup (IF m.kind = "new_order" THEN {m.line} ELSE {})
      BY <1>1, <1>2 DEF OrderLines
    <2>2. OrderLines(q) \subseteq OrderLines(r)
      BY <1>1, <1>2 DEF OrderLines
    <2>3. m.kind = "new_order" => m.line \in OrderLines(r)
      BY <1>1, <1>2 DEF OrderLines
    <2> QED
      BY <2>1, <2>2, <2>3
  <1>5. ASSUME Ascending(q), m.kind = "new_order" => AllBelow(OrderLines(q), {m.line})
        PROVE  Ascending(r)
    <2> SUFFICES ASSUME NEW j \in 1 .. n + 1, NEW k \in 1 .. n + 1, j < k,
                        r[j].kind = "new_order", r[k].kind = "new_order"
                 PROVE  r[j].line < r[k].line
      BY <1>1 DEF Ascending
    <2>1. j \in 1 .. n /\ r[j] = q[j]
      BY <1>1
    <2>2. CASE k \in 1 .. n
      BY <1>1, <1>5, <2>1, <2>2 DEF Ascending
    <2>3. CASE k = n + 1
      <3>1. q[j].line \in OrderLines(q)
        BY <1>1, <2>1 DEF OrderLines
      <3> QED
        BY <1>1, <1>5, <2>1, <2>3, <3>1 DEF AllBelow
    <2> QED
      BY <1>2, <2>2, <2>3
  <1> QED
    BY <1>1, <1>3, <1>4, <1>5 DEF r

\* Of Appended, what it says of the messages.
LEMMA RangeAppended ==
  ASSUME NEW S, NEW q \in Seq(S), NEW m \in S
  PROVE  Range(Append(q, m)) = Range(q) \cup {m}
  BY Appended

\* The queue r has the orders of q and the one of line p.
AddsLine(r, q, p) == OrderLines(r) = OrderLines(q) \cup {p}

LEMMA OrderAppended ==
  ASSUME NEW S, NEW q \in Seq(S), NEW p, Order(p) \in S
  PROVE  /\ Append(q, Order(p)) \in Seq(S)
         /\ Range(Append(q, Order(p))) = Range(q) \cup {Order(p)}
         /\ AddsLine(Append(q, Order(p)), q, p)
         /\ Ascending(q) /\ AllBelow(OrderLines(q), {p}) => Ascending(Append(q, Order(p)))
  <1>1. Order(p).kind = "new_order" /\ Order(p).line = p
    BY DEF Order
  <1> DEFINE m == Order(p)
  <1> HIDE DEF m
  <1>2. m \in S
    BY DEF m
  <1>3. OrderLines(Append(q, m)) = OrderLines(q) \cup (IF m.kind = "new_order" THEN {m.line} ELSE {})
    BY <1>2, Appended
  <1>4. Append(q, m) \in Seq(S) /\ Range(Append(q, m)) = Range(q) \cup {m}
    BY <1>2, Appended
  <1>5. Ascending(q) /\ (m.kind = "new_order" => AllBelow(OrderLines(q), {m.line}))
          => Ascending(Append(q, m))
    BY <1>2, Appended
  <1> QED
    BY <1>1, <1>3, <1>4, <1>5 DEF m, AddsLine

LEMMA OtherAppended ==
  ASSUME NEW S, NEW q \in Seq(S), NEW m \in S, m.kind # "new_order"
  PROVE  /\ Append(q, m) \in Seq(S)
         /\ Range(Append(q, m)) = Range(q) \cup {m}
         /\ OrderLines(Append(q, m)) = OrderLines(q)
         /\ Ascending(q) => Ascending(Append(q, m))
  <1>1. OrderLines(Append(q, m)) = OrderLines(q) \cup (IF m.kind = "new_order" THEN {m.line} ELSE {})
    BY Appended
  <1>2. Append(q, m) \in Seq(S) /\ Range(Append(q, m)) = Range(q) \cup {m}
    BY Appended
  <1>3. Ascending(q) /\ (m.kind = "new_order" => AllBelow(OrderLines(q), {m.line}))
          => Ascending(Append(q, m))
    BY Appended
  <1> QED
    BY <1>1, <1>2, <1>3

LEMMA Taken ==
  ASSUME NEW S, NEW q \in Seq(S), q # <<>>
  PROVE  /\ Head(q) \in S /\ Tail(q) \in Seq(S)
         /\ Range(q) = Range(Tail(q)) \cup {Head(q)}
         /\ OrderLines(q) = OrderLines(Tail(q))
                              \cup (IF Head(q).kind = "new_order" THEN {Head(q).line} ELSE {})
         /\ Ascending(q) => Ascending(Tail(q))
         /\ Ascending(q) /\ Head(q).kind = "new_order"
              => AllBelow({Head(q).line}, OrderLines(Tail(q)))
  <1> DEFINE n == Len(q)
             r == Tail(q)
             m == Head(q)
  <1>1. /\ n \in Nat /\ n > 0 /\ DOMAIN q = 1 .. n /\ DOMAIN r = 1 .. n - 1
        /\ r \in Seq(S) /\ m \in S /\ m = q[1] /\ \A k \in 1 .. n - 1 : r[k] = q[k + 1]
    OBVIOUS
  <1>2. /\ \A k \in 1 .. n : k = 1 \/ (k - 1 \in 1 .. n - 1 /\ k - 1 + 1 = k)
        /\ 1 \in 1 .. n /\ \A k \in 1 .. n - 1 : k + 1 \in 1 .. n /\ 1 < k + 1
    BY <1>1
  <1> HIDE DEF n, r, m
  <1>3. ASSUME NEW k \in 1 .. n PROVE q[k] = m \/ \E j \in 1 .. n - 1 : q[k] = r[j]
    <2>1. CASE k = 1
      BY <1>1, <2>1
    <2>2. CASE k - 1 \in 1 .. n - 1 /\ k - 1 + 1 = k
      BY <1>1, <2>2
    <2> QED
      BY <1>2, <2>1, <2>2
  <1>4. Range(q) = Range(r) \cup {m}
    <2>1. ASSUME NEW k \in 1 .. n PROVE q[k] \in Range(r) \cup {m}
      <3>1. \A j \in 1 .. n - 1 : r[j] \in Range(r)
        BY <1>1 DEF Range
      <3> QED
        BY <1>3, <3>1
    <2>2. Range(r) \cup {m} \subseteq Range(q)
      BY <1>1, <1>2 DEF Range
    <2>3. Range(q) \subseteq Range(r) \cup {m}
      BY <1>1, <2>1 DEF Range
    <2> QED
      BY <2>2, <2>3
  <1>5. OrderLines(q) = OrderLines(r) \cup (IF m.kind = "new_order" THEN {m.line} ELSE {})
    <2>1. OrderLines(q) \subseteq OrderLines(r) \cup (IF m.kind = "new_order" THEN {m.line} ELSE {})
      <3> SUFFICES ASSUME NEW k \in 1 .. n, q[k].kind = "new_order", q[k] # m
                   PROVE  q[k].line \in OrderLines(r)
        BY <1>1 DEF OrderLines
      <3>1. PICK j \in 1 .. n - 1 : q[k] = r[j]
        BY <1>3
      <3> QED
        BY <1>1, <3>1 DEF OrderLines
    <2>2. OrderLines(r) \subseteq OrderLines(q)
      BY <1>1, <1>2 DEF OrderLines
    <2>3. m.kind = "new_order" => m.line \in OrderLines(q)
      BY <1>1, <1>2 DEF OrderLines
    <2> QED
      BY <2>1, <2>2, <2>3
  <1>6. ASSUME Ascending(q) PROVE Ascending(r)
    <2> SUFFICES ASSUME NEW j \in 1 .. n - 1, NEW k \in 1 .. n - 1, j < k,
                        r[j].kind = "new_order", r[k].kind = "new_order"
                 PROVE  r[j].line < r[k].line
      BY <1>1 DEF Ascending
    <2>1. j + 1 < k + 1 /\ r[j] = q[j + 1] /\ r[k] = q[k + 1] /\ j + 1 \in 1 .. n /\ k + 1 \in 1 .. n
      BY <1>1, <1>2
    <2> QED
      BY <1>1, <1>6, <2>1 DEF Ascending
  <1>7. ASSUME Ascending(q), m.kind = "new_order" PROVE AllBelow({m.line}, OrderLines(r))
    BY <1>1, <1>2, <1>7 DEF Ascending, AllBelow, OrderLines
  <1> QED
    BY <1>1, <1>4, <1>5, <1>6, <1>7 DEF r, m

LEMMA OrderTaken ==
  ASSUME NEW S, NEW q \in Seq(S), q # <<>>, Head(q).kind = "new_order"
  PROVE  /\ Head(q) \in S /\ Tail(q) \in Seq(S)
         /\ AddsLine(q, Tail(q), Head(q).line)
         /\ Ascending(q) => Ascending(Tail(q)) /\ AllBelow({Head(q).line}, OrderLines(Tail(q)))
  <1>1. OrderLines(q) = OrderLines(Tail(q))
                          \cup (IF Head(q).kind = "new_order" THEN {Head(q).line} ELSE {})
    BY Taken
  <1>2. /\ Head(q) \in S /\ Tail(q) \in Seq(S)
        /\ Ascending(q) => Ascending(Tail(q))
        /\ Ascending(q) /\ Head(q).kind = "new_order" => AllBelow({Head(q).line}, OrderLines(Tail(q)))
    BY Taken
  <1> QED
    BY <1>1, <1>2 DEF AddsLine

LEMMA OtherTaken ==
  ASSUME NEW S, NEW q \in Seq(S), q # <<>>, Head(q).kind # "new_order"
  PROVE  /\ Head(q) \in S /\ Tail(q) \in Seq(S)
         /\ OrderLines(Tail(q)) = OrderLines(q)
         /\ Ascending(q) => Ascending(Tail(q))
  <1>1. OrderLines(q) = OrderLines(Tail(q))
                          \cup (IF Head(q).kind = "new_order" THEN {Head(q).line} ELSE {})
    BY Taken
  <1>2. /\ Head(q) \in S /\ Tail(q) \in Seq(S)
        /\ Ascending(q) => Ascending(Tail(q))
    BY Taken
  <1> QED
    BY <1>1, <1>2

-----------------------------------------------------------------------------
(* The state *)

HighMessages == {Summary(id) : id \in Nat \ {0}} \cup {Stats(id, t) : id \in Nat, t \in Nat} \cup {Exit}
NormalMessages == {Order(p) : p \in Nat \ {0}} \cup {Summary(Final)}
BookHighMessages == {GetStats(id) : id \in Nat} \cup {Exit}
BookNormalMessages == {Order(p) : p \in Nat \ {0}} \cup {Dump}

\* The steps of main before and after the end of the input.
Late == mpc \in {"ask", "wait", "dump", "exit router", "done"}

Types ==
  /\ input \in Seq(Instruments \cup {Malformed}) /\ async_mode \in BOOLEAN
  /\ router_running \in BOOLEAN
  /\ mpc \in {"read", "acknowledge", "report", "aborted"} \/ Late
  /\ counter \in 0 .. Len(input)
  /\ \A p \in 1 .. counter : input[p] \in Instruments
  /\ mpc \in {"acknowledge", "report"} => counter > 0
  /\ high \in Seq(HighMessages) /\ normal \in Seq(NormalMessages)
  /\ OrderLines(normal) \subseteq 1 .. counter
  /\ book_map \in SUBSET Instruments
  /\ book_high \in [Instruments -> Seq(BookHighMessages)]
  /\ book_normal \in [Instruments -> Seq(BookNormalMessages)]
  /\ received \in [Instruments -> Seq(Nat)]
  /\ \A i \in Instruments : Exit \in Range(book_high[i]) => i \in dumped
  /\ exited \subseteq dumped /\ dumped \subseteq book_map

LEMMA Kinds ==
  /\ \A m \in HighMessages :
       \/ m.kind = "dump_book_summary" /\ m.id \in Nat \ {0} /\ m = Summary(m.id)
       \/ m.kind = "stats" /\ m.id \in Nat /\ m.total \in Nat /\ m = Stats(m.id, m.total)
       \/ m.kind = "exit" /\ m = Exit
  /\ \A m \in NormalMessages :
       \/ m.kind = "new_order" /\ m.line \in Nat \ {0} /\ m = Order(m.line)
       \/ m.kind = "dump_book_summary" /\ m.id = Final /\ m = Summary(Final)
  /\ \A m \in BookHighMessages :
       \/ m.kind = "get_book_stats" /\ m.id \in Nat /\ m = GetStats(m.id)
       \/ m.kind = "exit" /\ m = Exit
  /\ \A m \in BookNormalMessages :
       \/ m.kind = "new_order" /\ m.line \in Nat \ {0} /\ m = Order(m.line)
       \/ m.kind = "dump_book_and_exit" /\ m = Dump
  BY DEF HighMessages, NormalMessages, BookHighMessages, BookNormalMessages, Summary, Stats, Exit, Order,
         GetStats, Dump

LEMMA Messages ==
  /\ \A p \in Nat \ {0} : Order(p) \in NormalMessages /\ Order(p) \in BookNormalMessages
                          /\ Order(p).kind = "new_order" /\ Order(p).line = p
  /\ Summary(Final) \in NormalMessages /\ Summary(Final).kind = "dump_book_summary"
  /\ Dump \in BookNormalMessages /\ Dump.kind = "dump_book_and_exit"
  /\ \A id \in Nat : GetStats(id) \in BookHighMessages /\ GetStats(id).kind = "get_book_stats"
                     /\ GetStats(id).id = id /\ GetStats(id) # Exit
  /\ Exit \in BookHighMessages /\ Exit \in HighMessages /\ Exit.kind = "exit"
  /\ \A id \in Nat \ {0} : Summary(id) \in HighMessages /\ Summary(id).kind = "dump_book_summary"
                           /\ Summary(id).id = id
  /\ \A id, t \in Nat : /\ Stats(id, t) \in HighMessages /\ Stats(id, t).kind = "stats"
                        /\ Stats(id, t).id = id /\ Stats(id, t).total = t
  <1>1. \A p \in Nat \ {0} : Order(p) \in NormalMessages /\ Order(p) \in BookNormalMessages
                             /\ Order(p).kind = "new_order" /\ Order(p).line = p
    BY DEF NormalMessages, BookNormalMessages, Order
  <1>2. Summary(Final) \in NormalMessages /\ Summary(Final).kind = "dump_book_summary"
    BY DEF NormalMessages, Summary
  <1>3. Dump \in BookNormalMessages /\ Dump.kind = "dump_book_and_exit"
    BY DEF BookNormalMessages, Dump
  <1>4. \A id \in Nat : GetStats(id) \in BookHighMessages /\ GetStats(id).kind = "get_book_stats"
                        /\ GetStats(id).id = id
    BY DEF BookHighMessages, GetStats
  <1>5. Exit \in BookHighMessages /\ Exit \in HighMessages /\ Exit.kind = "exit"
    BY DEF BookHighMessages, HighMessages, Exit
  <1>6. \A id \in Nat \ {0} : Summary(id) \in HighMessages /\ Summary(id).kind = "dump_book_summary"
                              /\ Summary(id).id = id
    BY DEF HighMessages, Summary
  <1>7. \A id, t \in Nat : /\ Stats(id, t) \in HighMessages /\ Stats(id, t).kind = "stats"
                           /\ Stats(id, t).id = id /\ Stats(id, t).total = t
    BY DEF HighMessages, Stats
  <1>8. \A id \in Nat : GetStats(id) # Exit
    BY <1>4, <1>5
  <1> QED
    BY <1>1, <1>2, <1>3, <1>4, <1>5, <1>6, <1>7, <1>8

LEMMA InitTypes == Init => Types
  <1> SUFFICES ASSUME Init PROVE Types
    OBVIOUS
  <1>1. /\ input \in Seq(Instruments \cup {Malformed}) /\ async_mode \in BOOLEAN
        /\ Len(input) \in Nat
    BY ParametersAssumption DEF Init
  <1>2. /\ mpc = "read" /\ counter = 0 /\ high = <<>> /\ normal = <<>> /\ book_map = {}
        /\ router_running = TRUE /\ exited = {} /\ dumped = {}
        /\ book_high = [i \in Instruments |-> <<>>] /\ book_normal = [i \in Instruments |-> <<>>]
        /\ received = [i \in Instruments |-> <<>>]
    BY DEF Init
  <1>3. OrderLines(<<>>) = {} /\ Range(<<>>) = {}
    BY DEF OrderLines, Range
  <1> QED
    BY <1>1, <1>2, <1>3 DEF Types

LEMMA FanOutTypes ==
  ASSUME Types, NEW id \in Nat, FanOut(id)
  PROVE  /\ book_high' \in [Instruments -> Seq(BookHighMessages)]
         /\ \A i \in Instruments : Range(book_high'[i]) \subseteq Range(book_high[i]) \cup {GetStats(id)}
  <1>1. CASE book_map = {}
    BY <1>1 DEF FanOut, Types
  <1>2. CASE book_map # {}
    <2>1. book_high' = [i \in Instruments |-> IF i \in book_map THEN Append(book_high[i], GetStats(id))
                                                                ELSE book_high[i]]
      BY <1>2 DEF FanOut
    <2>2. GetStats(id) \in BookHighMessages
      BY Messages
    <2>3. ASSUME NEW i \in Instruments
          PROVE  /\ Append(book_high[i], GetStats(id)) \in Seq(BookHighMessages)
                 /\ Range(Append(book_high[i], GetStats(id))) = Range(book_high[i]) \cup {GetStats(id)}
      <3>1. book_high[i] \in Seq(BookHighMessages)
        BY DEF Types
      <3> QED
        BY <2>2, <3>1, Appended
    <2> QED
      BY <2>1, <2>3 DEF Types
  <1> QED
    BY <1>1, <1>2

LEMMA TypesKept == Types /\ [Next]_vars => Types'
  <1> SUFFICES ASSUME Types, [Next]_vars PROVE Types'
    OBVIOUS
  <1> USE DEF given, mainVars, mailbox, routerState, bookVars
  <1>1. CASE SendOrder
    <2>1. /\ counter + 1 \in Nat \ {0} /\ counter + 1 \in 1 .. Len(input) /\ counter' = counter + 1
          /\ normal' = Append(normal, Order(counter + 1))
          /\ input[counter + 1] \in Instruments
      BY <1>1 DEF SendOrder, Types
    <2>2. Order(counter + 1) \in NormalMessages
      BY <2>1, Messages
    <2>3. normal' \in Seq(NormalMessages) /\ OrderLines(normal') = OrderLines(normal) \cup {counter + 1}
      <3> DEFINE p == counter + 1
      <3>1. normal \in Seq(NormalMessages) /\ Order(p) \in NormalMessages
        BY <2>2 DEF Types
      <3>2. normal' = Append(normal, Order(p))
        BY <2>1
      <3> HIDE DEF p
      <3>3. Append(normal, Order(p)) \in Seq(NormalMessages) /\ AddsLine(Append(normal, Order(p)), normal, p)
        BY <3>1, OrderAppended
      <3> QED
        BY <3>2, <3>3 DEF p, AddsLine
    <2>4. OrderLines(normal') \subseteq 1 .. counter'
      BY <2>1, <2>3 DEF Types
    <2>5. \A p \in 1 .. counter' : input[p] \in Instruments
      BY <2>1 DEF Types
    <2>6. mpc' \in {"read", "report", "acknowledge"} /\ counter' > 0
      BY <1>1, <2>1 DEF SendOrder, AfterSend, Types
    <2> QED
      BY <1>1, <2>1, <2>3, <2>4, <2>5, <2>6 DEF SendOrder, Types
  <1>2. CASE ReceiveAcknowledgement
    <2>1. counter > 0 /\ mpc' \in {"read", "report"}
      BY <1>2 DEF ReceiveAcknowledgement, AfterSend, Types
    <2> QED
      BY <1>2, <2>1 DEF ReceiveAcknowledgement, Types
  <1>3. CASE BadLine
    BY <1>3 DEF BadLine, Types, Late
  <1>4. CASE SendReport
    <2>1. counter \in Nat \ {0}
      BY <1>4 DEF SendReport, Types
    <2>2. high' \in Seq(HighMessages)
      BY <1>4, <2>1, Messages, Appended DEF SendReport, Types
    <2> QED
      BY <1>4, <2>2 DEF SendReport, Types, Late
  <1>5. CASE EndOfInput
    BY <1>5 DEF EndOfInput, Types, Late
  <1>6. CASE Ask
    <2>1. /\ normal' \in Seq(NormalMessages) /\ OrderLines(normal') = OrderLines(normal)
      <3>1. Summary(Final) \in NormalMessages /\ Summary(Final).kind # "new_order"
        BY Messages
      <3> QED
        BY <1>6, <3>1, OtherAppended DEF Ask, Types
    <2> QED
      BY <1>6, <2>1 DEF Ask, Types, Late
  <1>7. CASE ReceiveTotal
    BY <1>7 DEF ReceiveTotal, Types, Late
  <1>8. CASE DumpBooks
    <2>1. \A i \in Instruments : Append(book_normal[i], Dump) \in Seq(BookNormalMessages)
      BY Messages, Appended DEF Types
    <2>2. book_normal' \in [Instruments -> Seq(BookNormalMessages)]
      BY <1>8, <2>1 DEF DumpBooks, Types
    <2> QED
      BY <1>8, <2>2 DEF DumpBooks, Types, Late
  <1>9. CASE ExitRouter
    <2>1. high' \in Seq(HighMessages)
      BY <1>9, Messages, Appended DEF ExitRouter, Types
    <2> QED
      BY <1>9, <2>1 DEF ExitRouter, Types, Late
  <1>10. CASE HandleReport
    <2>1. /\ high # <<>> /\ high' = Tail(high) /\ FanOut(Head(high).id)
          /\ Head(high).kind = "dump_book_summary"
      BY <1>10 DEF HandleReport
    <2>2. high' \in Seq(HighMessages) /\ Head(high) \in HighMessages
      BY <2>1, Taken DEF Types
    <2>3. Head(high).id \in Nat
      BY <2>1, <2>2, Kinds
    <2>4. /\ book_high' \in [Instruments -> Seq(BookHighMessages)]
          /\ \A i \in Instruments : Range(book_high'[i]) \subseteq Range(book_high[i]) \cup {GetStats(Head(high).id)}
      BY <2>1, <2>3, FanOutTypes
    <2>5. \A i \in Instruments : Exit \in Range(book_high'[i]) => i \in dumped
      BY <2>3, <2>4, Messages DEF Types
    <2> QED
      BY <1>10, <2>2, <2>4, <2>5 DEF HandleReport, Types, Late
  <1>11. CASE CollectStats
    <2>1. high' \in Seq(HighMessages)
      BY <1>11, Taken DEF CollectStats, Types
    <2> QED
      BY <1>11, <2>1 DEF CollectStats, Types, Late
  <1>12. CASE RouterExits
    <2>1. <<>> \in Seq(HighMessages)
      OBVIOUS
    <2> QED
      BY <1>12, <2>1 DEF RouterExits, Types, Late
  <1>13. CASE RouteOrder
    <2> DEFINE line == Head(normal).line
               m == Order(line)
               i == input[line]
    <2>1. normal # <<>> /\ normal' = Tail(normal) /\ Head(normal).kind = "new_order"
      BY <1>13 DEF RouteOrder
    <2>2. /\ normal' \in Seq(NormalMessages) /\ Head(normal) \in NormalMessages
          /\ OrderLines(normal) = OrderLines(normal') \cup {line}
      BY <2>1, Taken DEF Types
    <2>3. line \in 1 .. counter /\ line \in Nat \ {0} /\ i \in Instruments
      <3>1. line \in 1 .. counter
        BY <2>2 DEF Types
      <3> HIDE DEF line
      <3> QED
        BY <3>1 DEF Types
    <2>4. book_map' = book_map \cup {i} /\ book_normal' = [book_normal EXCEPT ![i] = Append(@, m)]
      BY <1>13 DEF RouteOrder, Forward
    <2>5. m \in BookNormalMessages
      BY <2>3, Messages
    <2> HIDE DEF line, m, i
    <2>6. Append(book_normal[i], m) \in Seq(BookNormalMessages)
      BY <2>3, <2>5, Appended DEF Types
    <2>7. book_normal' \in [Instruments -> Seq(BookNormalMessages)]
      BY <2>4, <2>6 DEF Types
    <2>8. OrderLines(normal') \subseteq 1 .. counter
      BY <2>2 DEF Types
    <2> QED
      BY <1>13, <2>2, <2>3, <2>4, <2>7, <2>8 DEF RouteOrder, Types, Late
  <1>14. CASE HandleFinal
    <2>1. /\ normal # <<>> /\ normal' = Tail(normal) /\ FanOut(Head(normal).id)
          /\ Head(normal).kind = "dump_book_summary"
      BY <1>14 DEF HandleFinal
    <2>2. /\ normal' \in Seq(NormalMessages) /\ Head(normal) \in NormalMessages
          /\ OrderLines(normal') \subseteq OrderLines(normal)
      BY <2>1, Taken DEF Types
    <2> DEFINE id == Head(normal).id
    <2>3. id \in Nat
      BY <2>1, <2>2, Kinds DEF Final
    <2> HIDE DEF id
    <2>4. /\ book_high' \in [Instruments -> Seq(BookHighMessages)]
          /\ \A i \in Instruments : Range(book_high'[i]) \subseteq Range(book_high[i]) \cup {GetStats(id)}
      BY <2>1, <2>3, FanOutTypes DEF id
    <2>5. \A i \in Instruments : Exit \in Range(book_high'[i]) => i \in dumped
      BY <2>3, <2>4, Messages DEF Types
    <2> QED
      BY <1>14, <2>2, <2>4, <2>5 DEF HandleFinal, Types, Late
  <1>15. ASSUME NEW i \in Instruments, GetBookStats(i) PROVE Types'
    <2>1. book_high[i] # <<>> /\ book_high' = [book_high EXCEPT ![i] = Tail(@)]
          /\ Head(book_high[i]).kind = "get_book_stats"
      BY <1>15 DEF GetBookStats
    <2>2. /\ book_high[i] \in Seq(BookHighMessages)
          /\ Head(book_high[i]) \in BookHighMessages /\ Tail(book_high[i]) \in Seq(BookHighMessages)
          /\ Range(book_high[i]) = Range(Tail(book_high[i])) \cup {Head(book_high[i])}
      BY <2>1, Taken DEF Types
    <2>3. Head(book_high[i]).id \in Nat /\ Len(received[i]) \in Nat
      BY <2>1, <2>2, Kinds DEF Types
    <2>4. high' \in Seq(HighMessages)
      BY <1>15, <2>3, Messages, Appended DEF GetBookStats, ToRouter, Types
    <2>5. /\ book_high' \in [Instruments -> Seq(BookHighMessages)]
          /\ \A j \in Instruments : Range(book_high'[j]) \subseteq Range(book_high[j])
      BY <2>1, <2>2 DEF Types
    <2> QED
      BY <1>15, <2>4, <2>5 DEF GetBookStats, Types, Late
  <1>16. ASSUME NEW i \in Instruments, BookExits(i) PROVE Types'
    <2>1. book_high[i] # <<>> /\ book_high' = [book_high EXCEPT ![i] = Tail(@)]
          /\ Head(book_high[i]).kind = "exit" /\ exited' = exited \cup {i}
      BY <1>16 DEF BookExits
    <2>2. /\ Head(book_high[i]) \in BookHighMessages /\ Tail(book_high[i]) \in Seq(BookHighMessages)
          /\ Range(book_high[i]) = Range(Tail(book_high[i])) \cup {Head(book_high[i])}
      BY <2>1, Taken DEF Types
    <2>3. i \in dumped
      BY <2>1, <2>2, Kinds DEF Types
    <2>4. /\ book_high' \in [Instruments -> Seq(BookHighMessages)]
          /\ \A j \in Instruments : Range(book_high'[j]) \subseteq Range(book_high[j])
      BY <2>1, <2>2 DEF Types
    <2>5. exited' \subseteq dumped
      BY <2>1, <2>3 DEF Types
    <2>6. \A j \in Instruments : Exit \in Range(book_high'[j]) => j \in dumped
      BY <2>4 DEF Types
    <2> QED
      BY <1>16, <2>4, <2>5, <2>6 DEF BookExits, Types, Late
  <1>17. ASSUME NEW i \in Instruments, ReceiveOrder(i) PROVE Types'
    <2>1. book_normal[i] # <<>> /\ book_normal' = [book_normal EXCEPT ![i] = Tail(@)]
          /\ Head(book_normal[i]).kind = "new_order"
          /\ received' = [received EXCEPT ![i] = Append(@, Head(book_normal[i]).line)]
      BY <1>17 DEF ReceiveOrder
    <2>2. Head(book_normal[i]) \in BookNormalMessages /\ Tail(book_normal[i]) \in Seq(BookNormalMessages)
      BY <2>1, Taken DEF Types
    <2>3. Head(book_normal[i]).line \in Nat
      BY <2>1, <2>2, Kinds
    <2>4. book_normal' \in [Instruments -> Seq(BookNormalMessages)]
      BY <2>1, <2>2 DEF Types
    <2>5. received' \in [Instruments -> Seq(Nat)]
      BY <2>1, <2>3 DEF Types
    <2> QED
      BY <1>17, <2>4, <2>5 DEF ReceiveOrder, Types, Late
  <1>18. ASSUME NEW i \in Instruments, DumpAndExit(i) PROVE Types'
    <2>1. book_normal[i] # <<>> /\ book_normal' = [book_normal EXCEPT ![i] = Tail(@)]
          /\ book_high' = [book_high EXCEPT ![i] = Append(@, Exit)]
          /\ i \in book_map /\ dumped' = dumped \cup {i}
      BY <1>18 DEF DumpAndExit, Running
    <2>2. Tail(book_normal[i]) \in Seq(BookNormalMessages)
      BY <2>1, Taken DEF Types
    <2>3. Append(book_high[i], Exit) \in Seq(BookHighMessages)
      BY Messages, Appended DEF Types
    <2>4. /\ book_normal' \in [Instruments -> Seq(BookNormalMessages)]
          /\ book_high' \in [Instruments -> Seq(BookHighMessages)]
      BY <2>1, <2>2, <2>3 DEF Types
    <2>5. \A j \in Instruments : j # i => book_high'[j] = book_high[j]
      BY <2>1 DEF Types
    <2>6. \A j \in Instruments : Exit \in Range(book_high'[j]) => j \in dumped'
      BY <2>1, <2>5 DEF Types
    <2>7. exited \subseteq dumped' /\ dumped' \subseteq book_map
      BY <2>1 DEF Types
    <2> QED
      BY <1>18, <2>4, <2>6, <2>7 DEF DumpAndExit, Types, Late
  <1>19. CASE UNCHANGED vars
    BY <1>19 DEF vars, Types, Late
  <1> QED
    BY <1>1, <1>2, <1>3, <1>4, <1>5, <1>6, <1>7, <1>8, <1>9, <1>10, <1>11, <1>12, <1>13, <1>14, <1>15,
       <1>16, <1>17, <1>18, <1>19
    DEF Next, Main, RouterHigh, RouterNormal, BookHigh, BookNormal

-----------------------------------------------------------------------------
(* No order is lost *)

\* What NothingLost says of instrument i.
InLane(i, got, box, queue, n) ==
  LET here == OrderLines(box)
      coming == {p \in OrderLines(queue) : input[p] = i}
  IN /\ Range(got) \cup here \cup coming = {p \in 1 .. n : input[p] = i}
     /\ \A j, k \in DOMAIN got : j < k => got[j] < got[k]
     /\ AllBelow(Range(got), here \cup coming)
     /\ Ascending(box)
     /\ AllBelow(here, coming)

Lane(i) == InLane(i, received[i], book_normal[i], normal, counter)

LEMMA Lanes == NothingLost <=> Ascending(normal) /\ \A i \in Instruments : Lane(i)
  BY DEF NothingLost, Lane, InLane

LEMMA SameLane ==
  ASSUME NEW i, NEW got, NEW box, NEW queue, NEW n, NEW box2, NEW queue2, InLane(i, got, box, queue, n),
         OrderLines(box2) = OrderLines(box), Ascending(box2), OrderLines(queue2) = OrderLines(queue)
  PROVE  InLane(i, got, box2, queue2, n)
  BY DEF InLane

LEMMA InitNothingLost == Init => NothingLost
  <1> SUFFICES ASSUME Init PROVE NothingLost
    OBVIOUS
  <1>1. OrderLines(<<>>) = {} /\ Range(<<>>) = {} /\ Ascending(<<>>)
    BY DEF OrderLines, Range, Ascending
  <1>2. \A i \in Instruments : received[i] = <<>> /\ book_normal[i] = <<>>
    BY DEF Init
  <1>3. normal = <<>> /\ counter = 0
    BY DEF Init
  <1> QED
    BY <1>1, <1>2, <1>3 DEF NothingLost, AllBelow

LEMMA LaneRead ==
  ASSUME NEW i, NEW got, NEW box, NEW queue, NEW n \in Nat, NEW queue2, InLane(i, got, box, queue, n),
         AddsLine(queue2, queue, n + 1)
  PROVE  InLane(i, got, box, queue2, n + 1)
  <1> DEFINE here == OrderLines(box)
             coming == {p \in OrderLines(queue) : input[p] = i}
             coming2 == {p \in OrderLines(queue2) : input[p] = i}
             new == IF input[n + 1] = i THEN {n + 1} ELSE {}
             rec == Range(got)
  <1>1. /\ rec \cup here \cup coming = {p \in 1 .. n : input[p] = i}
        /\ \A j, k \in DOMAIN got : j < k => got[j] < got[k]
        /\ AllBelow(rec, here \cup coming)
        /\ Ascending(box)
        /\ AllBelow(here, coming)
    BY DEF InLane
  <1>2. coming2 = coming \cup new
    BY DEF AddsLine
  <1>3. {p \in 1 .. n + 1 : input[p] = i} = {p \in 1 .. n : input[p] = i} \cup new
    OBVIOUS
  <1>4. InLane(i, got, box, queue2, n + 1)
          <=> /\ rec \cup here \cup coming2 = {p \in 1 .. n + 1 : input[p] = i}
              /\ \A j, k \in DOMAIN got : j < k => got[j] < got[k]
              /\ AllBelow(rec, here \cup coming2)
              /\ Ascending(box)
              /\ AllBelow(here, coming2)
    BY DEF InLane
  <1>5. \A p \in rec \cup here : \A q \in new : p < q
    BY <1>1
  <1> HIDE DEF here, coming, coming2, new, rec
  <1>6. rec \cup here \cup coming2 = {p \in 1 .. n + 1 : input[p] = i}
    BY <1>1, <1>2, <1>3
  <1>7. AllBelow(rec, here \cup coming2) /\ AllBelow(here, coming2)
    BY <1>1, <1>2, <1>5 DEF AllBelow
  <1> QED
    BY <1>1, <1>4, <1>6, <1>7

\* The order of line l leaves queue and, if it is of instrument i, enters its mailbox.
LEMMA LaneRouted ==
  ASSUME NEW i, NEW got, NEW box, NEW queue, NEW n \in Nat, NEW queue2, NEW box2, NEW l,
         InLane(i, got, box, queue, n), AddsLine(queue, queue2, l), AllBelow({l}, OrderLines(queue2)),
         IF input[l] = i THEN AddsLine(box2, box, l) /\ (AllBelow(OrderLines(box), {l}) => Ascending(box2))
                         ELSE box2 = box
  PROVE  InLane(i, got, box2, queue2, n)
  <1> DEFINE here == OrderLines(box)
             here2 == OrderLines(box2)
             coming == {p \in OrderLines(queue) : input[p] = i}
             coming2 == {p \in OrderLines(queue2) : input[p] = i}
             rec == Range(got)
  <1>1. /\ rec \cup here \cup coming = {p \in 1 .. n : input[p] = i}
        /\ \A j, k \in DOMAIN got : j < k => got[j] < got[k]
        /\ AllBelow(rec, here \cup coming)
        /\ Ascending(box)
        /\ AllBelow(here, coming)
    BY DEF InLane
  <1>2. InLane(i, got, box2, queue2, n)
          <=> /\ rec \cup here2 \cup coming2 = {p \in 1 .. n : input[p] = i}
              /\ \A j, k \in DOMAIN got : j < k => got[j] < got[k]
              /\ AllBelow(rec, here2 \cup coming2)
              /\ Ascending(box2)
              /\ AllBelow(here2, coming2)
    BY DEF InLane
  <1>3. CASE input[l] = i
    <2>1. coming = coming2 \cup {l} /\ here2 = here \cup {l}
      BY <1>3 DEF AddsLine
    <2>2. AllBelow({l}, coming2)
      BY DEF AllBelow
    <2> HIDE DEF here, here2, coming, coming2, rec
    <2>3. AllBelow(here, {l})
      BY <1>1, <2>1 DEF AllBelow
    <2>4. Ascending(box2)
      BY <1>3, <2>3 DEF here
    <2>5. AllBelow(rec, here2 \cup coming2) /\ AllBelow(here2, coming2)
      BY <1>1, <2>1, <2>2 DEF AllBelow
    <2>6. rec \cup here2 \cup coming2 = rec \cup here \cup coming
      BY <2>1
    <2> QED
      BY <1>1, <1>2, <2>4, <2>5, <2>6
  <1>4. CASE input[l] # i
    <2>1. coming = coming2 /\ box2 = box
      BY <1>4 DEF AddsLine
    <2> HIDE DEF coming, coming2
    <2> QED
      BY <1>1, <1>2, <2>1
  <1> QED
    BY <1>3, <1>4

LEMMA LaneReceived ==
  ASSUME NEW i, NEW got \in Seq(Nat), NEW box, NEW queue, NEW n \in Nat, NEW box2, NEW l \in Nat,
         InLane(i, got, box, queue, n), AddsLine(box, box2, l), AllBelow({l}, OrderLines(box2)),
         Ascending(box2)
  PROVE  InLane(i, Append(got, l), box2, queue, n)
  <1> DEFINE here == OrderLines(box)
             here2 == OrderLines(box2)
             coming == {p \in OrderLines(queue) : input[p] = i}
             rec == Range(got)
             got2 == Append(got, l)
             rec2 == Range(got2)
  <1>1. /\ rec \cup here \cup coming = {p \in 1 .. n : input[p] = i}
        /\ \A j, k \in DOMAIN got : j < k => got[j] < got[k]
        /\ AllBelow(rec, here \cup coming)
        /\ AllBelow(here, coming)
    BY DEF InLane
  <1>2. InLane(i, got2, box2, queue, n)
          <=> /\ rec2 \cup here2 \cup coming = {p \in 1 .. n : input[p] = i}
              /\ \A j, k \in DOMAIN got2 : j < k => got2[j] < got2[k]
              /\ AllBelow(rec2, here2 \cup coming)
              /\ Ascending(box2)
              /\ AllBelow(here2, coming)
    BY DEF InLane
  <1>3. rec2 = rec \cup {l}
    BY Appended
  <1>4. here = here2 \cup {l}
    BY DEF AddsLine
  <1>5. \A j, k \in DOMAIN got2 : j < k => got2[j] < got2[k]
    <2> DEFINE L == Len(got)
    <2>1. /\ L \in Nat /\ DOMAIN got = 1 .. L /\ DOMAIN got2 = 1 .. L + 1
          /\ got2[L + 1] = l /\ \A k \in 1 .. L : got2[k] = got[k]
      OBVIOUS
    <2>2. \A k \in 1 .. L : got[k] \in rec
      BY <2>1 DEF Range
    <2> HIDE DEF L, got2, rec
    <2>3. \A k \in 1 .. L : got[k] < l
      BY <1>1, <1>4, <2>2 DEF AllBelow
    <2> SUFFICES ASSUME NEW j \in 1 .. L + 1, NEW k \in 1 .. L + 1, j < k PROVE got2[j] < got2[k]
      BY <2>1
    <2>4. j \in 1 .. L
      BY <2>1
    <2>5. CASE k \in 1 .. L
      BY <1>1, <2>1, <2>4, <2>5
    <2>6. CASE k = L + 1
      BY <2>1, <2>3, <2>4, <2>6
    <2> QED
      BY <2>1, <2>5, <2>6
  <1>6. AllBelow({l}, here2)
    OBVIOUS
  <1> HIDE DEF here, here2, coming, rec, rec2, got2
  <1>7. AllBelow(rec2, here2 \cup coming) /\ AllBelow(here2, coming)
    BY <1>1, <1>3, <1>4, <1>6 DEF AllBelow
  <1>8. rec2 \cup here2 \cup coming = rec \cup here \cup coming
    BY <1>3, <1>4
  <1> QED
    BY <1>1, <1>2, <1>5, <1>7, <1>8 DEF got2

LEMMA LaneNext ==
  ASSUME input' = input, Ascending(normal'),
         \A i \in Instruments : InLane(i, received'[i], book_normal'[i], normal', counter')
  PROVE  NothingLost'
  BY DEF NothingLost, InLane

\* A step that moves no order.
LEMMA NoOrderMoved ==
  ASSUME NothingLost, UNCHANGED <<input, counter, received>>,
         OrderLines(normal') = OrderLines(normal), Ascending(normal'),
         \A i \in Instruments : /\ OrderLines(book_normal'[i]) = OrderLines(book_normal[i])
                                /\ Ascending(book_normal[i]) => Ascending(book_normal'[i])
  PROVE  NothingLost'
  <1>1. ASSUME NEW i \in Instruments
        PROVE  InLane(i, received[i], book_normal'[i], normal', counter)
    <2>1. InLane(i, received[i], book_normal[i], normal, counter)
      BY Lanes DEF Lane
    <2>2. Ascending(book_normal'[i])
      BY <2>1 DEF InLane
    <2> QED
      BY <2>1, <2>2, SameLane
  <1> QED
    BY <1>1, LaneNext

LEMMA NothingLostKept == Types /\ NothingLost /\ [Next]_vars => NothingLost'
  <1> SUFFICES ASSUME Types, NothingLost, [Next]_vars PROVE NothingLost'
    OBVIOUS
  <1>0. /\ Ascending(normal) /\ counter \in Nat /\ normal \in Seq(NormalMessages)
        /\ \A i \in Instruments : /\ InLane(i, received[i], book_normal[i], normal, counter)
                                  /\ Ascending(book_normal[i])
                                  /\ book_normal[i] \in Seq(BookNormalMessages)
                                  /\ received[i] \in Seq(Nat)
    <2>1. Ascending(normal) /\ \A i \in Instruments : Lane(i)
      BY Lanes
    <2>2. counter \in Nat /\ normal \in Seq(NormalMessages)
      BY DEF Types
    <2>3. \A i \in Instruments : /\ book_normal[i] \in Seq(BookNormalMessages)
                                  /\ received[i] \in Seq(Nat)
      BY DEF Types
    <2>4. \A i \in Instruments : InLane(i, received[i], book_normal[i], normal, counter)
      BY <2>1 DEF Lane
    <2>5. \A i \in Instruments : Ascending(book_normal[i])
      BY <2>4 DEF InLane
    <2> QED
      BY <2>1, <2>2, <2>3, <2>4, <2>5
  <1> USE DEF given, mainVars, mailbox, routerState, bookVars
  <1>1. CASE SendOrder
    <2> DEFINE p == counter + 1
    <2>1. /\ normal' = Append(normal, Order(p)) /\ counter' = p /\ p \in Nat \ {0}
          /\ UNCHANGED <<input, received, book_normal>>
      BY <1>0, <1>1 DEF SendOrder
    <2>2. AllBelow(OrderLines(normal), {p})
      BY <1>0 DEF Types, AllBelow
    <2>3. Order(p) \in NormalMessages
      BY <2>1, Messages
    <2> HIDE DEF p
    <2>4. AddsLine(normal', normal, p) /\ Ascending(normal')
      BY <1>0, <2>1, <2>2, <2>3, OrderAppended
    <2>5. AddsLine(normal', normal, counter + 1)
      BY <2>4 DEF p
    <2>6. ASSUME NEW i \in Instruments
          PROVE  InLane(i, received[i], book_normal[i], normal', counter + 1)
      BY <1>0, <2>5, LaneRead
    <2> QED
      BY <2>1, <2>4, <2>6, LaneNext DEF p
  <1>2. CASE ReceiveAcknowledgement \/ BadLine \/ SendReport \/ EndOfInput \/ ReceiveTotal \/ ExitRouter
             \/ HandleReport \/ CollectStats \/ RouterExits \/ UNCHANGED vars
    <2>1. UNCHANGED <<input, counter, received, normal, book_normal>>
      BY <1>2 DEF ReceiveAcknowledgement, BadLine, SendReport, EndOfInput, ReceiveTotal, ExitRouter,
                  HandleReport, CollectStats, RouterExits, vars
    <2> QED
      BY <1>0, <2>1, NoOrderMoved
  <1>3. CASE \E i \in Instruments : BookHigh(i)
    <2>1. UNCHANGED <<input, counter, received, normal, book_normal>>
      BY <1>3 DEF BookHigh, GetBookStats, BookExits
    <2> QED
      BY <1>0, <2>1, NoOrderMoved
  <1>4. CASE Ask
    <2>1. normal' = Append(normal, Summary(Final)) /\ UNCHANGED <<input, counter, received, book_normal>>
      BY <1>4 DEF Ask
    <2>2. Summary(Final) \in NormalMessages /\ Summary(Final).kind # "new_order"
      BY Messages
    <2>3. OrderLines(normal') = OrderLines(normal) /\ Ascending(normal')
      BY <1>0, <2>1, <2>2, OtherAppended
    <2> QED
      BY <2>1, <2>3, NoOrderMoved
  <1>5. CASE HandleFinal
    <2>1. /\ normal # <<>> /\ Head(normal).kind # "new_order" /\ normal' = Tail(normal)
          /\ UNCHANGED <<input, counter, received, book_normal>>
      BY <1>5 DEF HandleFinal
    <2>2. OrderLines(normal') = OrderLines(normal) /\ Ascending(normal')
      BY <1>0, <2>1, OtherTaken
    <2> QED
      BY <2>1, <2>2, NoOrderMoved
  <1>6. CASE DumpBooks
    <2>1. /\ UNCHANGED <<input, counter, received, normal>>
          /\ \A i \in Instruments : \/ book_normal'[i] = book_normal[i]
                                    \/ book_normal'[i] = Append(book_normal[i], Dump)
      BY <1>6 DEF DumpBooks
    <2>2. Dump \in BookNormalMessages /\ Dump.kind # "new_order"
      BY Messages
    <2>3. ASSUME NEW i \in Instruments
          PROVE  /\ OrderLines(Append(book_normal[i], Dump)) = OrderLines(book_normal[i])
                 /\ Ascending(book_normal[i]) => Ascending(Append(book_normal[i], Dump))
      BY <1>0, <2>2, OtherAppended
    <2> QED
      BY <1>0, <2>1, <2>3, NoOrderMoved
  <1>7. CASE RouteOrder
    <2> DEFINE l == Head(normal).line
               i == input[l]
    <2>1. /\ normal # <<>> /\ Head(normal).kind = "new_order" /\ normal' = Tail(normal)
          /\ book_normal' = [book_normal EXCEPT ![i] = Append(@, Order(l))]
          /\ UNCHANGED <<input, counter, received>>
      BY <1>7 DEF RouteOrder, Forward
    <2>2. AddsLine(normal, normal', l) /\ AllBelow({l}, OrderLines(normal')) /\ Ascending(normal')
      BY <1>0, <2>1, OrderTaken
    <2> HIDE DEF l
    <2>3. l \in 1 .. counter
      BY <2>2 DEF AddsLine, Types
    <2>4. i \in Instruments /\ Order(l) \in BookNormalMessages
      BY <2>3, Messages DEF Types
    <2>5. /\ book_normal'[i] = Append(book_normal[i], Order(l))
          /\ \A j \in Instruments : j # i => book_normal'[j] = book_normal[j]
      BY <2>1, <2>4 DEF Types
    <2> HIDE DEF i
    <2>6. /\ AddsLine(book_normal'[i], book_normal[i], l)
          /\ AllBelow(OrderLines(book_normal[i]), {l}) => Ascending(book_normal'[i])
      <3>1. book_normal[i] \in Seq(BookNormalMessages) /\ Ascending(book_normal[i])
        BY <1>0, <2>4
      <3> DEFINE r == Append(book_normal[i], Order(l))
      <3>2. /\ AddsLine(r, book_normal[i], l)
            /\ Ascending(book_normal[i]) /\ AllBelow(OrderLines(book_normal[i]), {l}) => Ascending(r)
        BY <2>4, <3>1, OrderAppended
      <3> QED
        BY <2>5, <3>1, <3>2
    <2>7. ASSUME NEW j \in Instruments
          PROVE  InLane(j, received[j], book_normal'[j], normal', counter)
      <3>1. IF input[l] = j
            THEN /\ AddsLine(book_normal'[j], book_normal[j], l)
                 /\ AllBelow(OrderLines(book_normal[j]), {l}) => Ascending(book_normal'[j])
            ELSE book_normal'[j] = book_normal[j]
        BY <2>5, <2>6 DEF i
      <3> QED
        BY <1>0, <2>2, <3>1, LaneRouted
    <2> QED
      BY <2>1, <2>2, <2>7, LaneNext
  <1>8. ASSUME NEW i \in Instruments, ReceiveOrder(i) PROVE NothingLost'
    <2> DEFINE l == Head(book_normal[i]).line
    <2>1. /\ book_normal[i] # <<>> /\ Head(book_normal[i]).kind = "new_order"
          /\ book_normal' = [book_normal EXCEPT ![i] = Tail(@)]
          /\ received' = [received EXCEPT ![i] = Append(@, l)]
          /\ UNCHANGED <<input, counter, normal>>
      BY <1>8 DEF ReceiveOrder
    <2>2. /\ Head(book_normal[i]) \in BookNormalMessages
          /\ AddsLine(book_normal[i], Tail(book_normal[i]), l)
          /\ AllBelow({l}, OrderLines(Tail(book_normal[i]))) /\ Ascending(Tail(book_normal[i]))
      BY <1>0, <2>1, OrderTaken
    <2>3. l \in Nat
      BY <2>1, <2>2, Kinds
    <2> HIDE DEF l
    <2>4. InLane(i, Append(received[i], l), Tail(book_normal[i]), normal, counter)
      BY <1>0, <2>2, <2>3, LaneReceived
    <2>5. /\ received'[i] = Append(received[i], l) /\ book_normal'[i] = Tail(book_normal[i])
          /\ \A j \in Instruments : j # i => received'[j] = received[j] /\ book_normal'[j] = book_normal[j]
      BY <2>1 DEF Types
    <2>6. \A j \in Instruments : InLane(j, received'[j], book_normal'[j], normal', counter')
      BY <1>0, <2>1, <2>4, <2>5
    <2> QED
      BY <1>0, <2>1, <2>6, LaneNext
  <1>9. ASSUME NEW i \in Instruments, DumpAndExit(i) PROVE NothingLost'
    <2>1. /\ book_normal[i] # <<>> /\ Head(book_normal[i]).kind # "new_order"
          /\ book_normal' = [book_normal EXCEPT ![i] = Tail(@)]
          /\ UNCHANGED <<input, counter, normal, received>>
      BY <1>9 DEF DumpAndExit
    <2>2. /\ OrderLines(Tail(book_normal[i])) = OrderLines(book_normal[i])
          /\ Ascending(Tail(book_normal[i]))
      BY <1>0, <2>1, OtherTaken
    <2>3. \A j \in Instruments : /\ OrderLines(book_normal'[j]) = OrderLines(book_normal[j])
                                 /\ Ascending(book_normal[j]) => Ascending(book_normal'[j])
      BY <2>1, <2>2 DEF Types
    <2> QED
      BY <1>0, <2>1, <2>3, NoOrderMoved
  <1> QED
    BY <1>1, <1>2, <1>3, <1>4, <1>5, <1>6, <1>7, <1>8, <1>9
    DEF Next, Main, RouterHigh, RouterNormal, BookNormal

-----------------------------------------------------------------------------
(* No dump overtakes an order *)

\* Behind the first message that is not an order there is none.
OrdersFirst(q) == \A j, k \in DOMAIN q : j < k /\ q[j].kind # "new_order" => q[k].kind # "new_order"

LastOnly(q, m) == \A k \in DOMAIN q : q[k] = m => k = Len(q)

LEMMA AppendedBehind ==
  ASSUME NEW S, NEW q \in Seq(S), NEW m \in S
  PROVE  /\ OrdersFirst(q) /\ m.kind # "new_order" => OrdersFirst(Append(q, m))
         /\ (\A x \in Range(q) : x.kind = "new_order") => OrdersFirst(Append(q, m))
         /\ m \notin Range(q) => LastOnly(Append(q, m), m)
  <1> DEFINE n == Len(q)
             r == Append(q, m)
  <1>1. /\ n \in Nat /\ DOMAIN q = 1 .. n /\ DOMAIN r = 1 .. n + 1 /\ Len(r) = n + 1
        /\ r[n + 1] = m /\ \A k \in 1 .. n : r[k] = q[k] /\ q[k] \in Range(q)
    BY DEF Range
  <1> HIDE DEF n, r
  <1>2. \A j \in 1 .. n + 1 : j \in 1 .. n \/ j = n + 1
    BY <1>1
  <1>3. \A j, k \in 1 .. n + 1 : j < k => j \in 1 .. n
    BY <1>1
  <1>4. OrdersFirst(q) /\ m.kind # "new_order" => OrdersFirst(r)
    BY <1>1, <1>2, <1>3 DEF OrdersFirst
  <1>5. (\A x \in Range(q) : x.kind = "new_order") => OrdersFirst(r)
    BY <1>1, <1>3 DEF OrdersFirst
  <1>6. m \notin Range(q) => LastOnly(r, m)
    BY <1>1, <1>2 DEF LastOnly
  <1> QED
    BY <1>4, <1>5, <1>6 DEF r

LEMMA TakenBehind ==
  ASSUME NEW S, NEW q \in Seq(S), q # <<>>
  PROVE  /\ OrdersFirst(q) => OrdersFirst(Tail(q))
         /\ OrdersFirst(q) /\ Head(q).kind # "new_order" => OrderLines(Tail(q)) = {}
         /\ \A m : LastOnly(q, m) => LastOnly(Tail(q), m)
         /\ \A m : LastOnly(q, m) /\ Head(q) = m => Tail(q) = <<>>
  <1> DEFINE n == Len(q)
             r == Tail(q)
  <1>1. /\ n \in Nat /\ n > 0 /\ DOMAIN q = 1 .. n /\ DOMAIN r = 1 .. n - 1 /\ Len(r) = n - 1
        /\ \A k \in 1 .. n - 1 : r[k] = q[k + 1]
        /\ r \in Seq(S)
    OBVIOUS
  <1>2. Head(q) = q[1] /\ 1 \in 1 .. n /\ \A k \in 1 .. n - 1 : k + 1 \in 1 .. n /\ 1 < k + 1
    BY <1>1
  <1>3. n = 1 => r = <<>>
    BY <1>1
  <1> HIDE DEF n, r
  <1>4. OrdersFirst(q) => OrdersFirst(r)
    <2> SUFFICES ASSUME OrdersFirst(q), NEW j \in 1 .. n - 1, NEW k \in 1 .. n - 1, j < k,
                        r[j].kind # "new_order"
                 PROVE  r[k].kind # "new_order"
      BY <1>1 DEF OrdersFirst
    <2>1. j + 1 < k + 1 /\ r[j] = q[j + 1] /\ r[k] = q[k + 1] /\ j + 1 \in 1 .. n /\ k + 1 \in 1 .. n
      BY <1>1
    <2> QED
      BY <1>1, <2>1 DEF OrdersFirst
  <1>5. OrdersFirst(q) /\ Head(q).kind # "new_order" => OrderLines(r) = {}
    BY <1>1, <1>2 DEF OrdersFirst, OrderLines
  <1>6. ASSUME NEW m, LastOnly(q, m) PROVE LastOnly(r, m)
    <2> SUFFICES ASSUME NEW k \in 1 .. n - 1, r[k] = m PROVE k = n - 1
      BY <1>1 DEF LastOnly
    <2>1. q[k + 1] = m /\ k + 1 \in 1 .. n
      BY <1>1
    <2>2. k + 1 = n
      BY <1>1, <1>6, <2>1 DEF LastOnly, n
    <2> QED
      BY <1>1, <2>2
  <1>7. ASSUME NEW m, LastOnly(q, m), Head(q) = m PROVE r = <<>>
    BY <1>1, <1>2, <1>3, <1>7 DEF LastOnly, n
  <1> QED
    BY <1>4, <1>5, <1>6, <1>7 DEF r

\* The final request has reached the books, or been answered.
FinalHandled ==
  \/ \E t \in Nat : Stats(Final, t) \in Range(high)
  \/ \E i \in Instruments : GetStats(Final) \in Range(book_high[i])
  \/ response # None /\ mpc # "acknowledge"

\* The final request is sent after all orders and handled after them, so when it
\* is answered the router has passed on all orders.  In sync mode the router has
\* one order at most.
Phases ==
  /\ Late => counter = Len(input)
  /\ Summary(Final) \in Range(normal) => Late
  /\ OrdersFirst(normal)
  /\ FinalHandled => Late /\ OrderLines(normal) = {}
  /\ mpc \in {"dump", "exit router", "done"} => OrderLines(normal) = {}
  /\ mpc = "acknowledge" => /\ ~async_mode
                            /\ OrderLines(normal) \subseteq {counter}
                            /\ response # None => OrderLines(normal) = {}
  /\ ~async_mode /\ mpc # "acknowledge" => OrderLines(normal) = {}

\* A book gets one dump request, behind all its orders.
Dumps ==
  \A i \in Instruments :
    /\ Dump \in Range(book_normal[i]) \/ i \in dumped => mpc \in {"exit router", "done"}
    /\ LastOnly(book_normal[i], Dump)
    /\ i \in dumped => book_normal[i] = <<>>

LEMMA InitPhases == Init => Phases /\ Dumps
  <1> SUFFICES ASSUME Init PROVE Phases /\ Dumps
    OBVIOUS
  <1>1. OrderLines(<<>>) = {} /\ Range(<<>>) = {} /\ OrdersFirst(<<>>) /\ LastOnly(<<>>, Dump)
    BY DEF OrderLines, Range, OrdersFirst, LastOnly
  <1>2. \A i \in Instruments : book_high[i] = <<>> /\ book_normal[i] = <<>>
    BY DEF Init
  <1>3. normal = <<>> /\ high = <<>> /\ mpc = "read" /\ response = None /\ dumped = {}
    BY DEF Init
  <1>4. ~FinalHandled
    BY <1>1, <1>2, <1>3 DEF FinalHandled
  <1> QED
    BY <1>1, <1>2, <1>3, <1>4 DEF Phases, Dumps, Late

\* After the end of the input nothing enters the router's mailbox but requests.
LEMMA LateStays ==
  ASSUME Types, [Next]_vars, Late
  PROVE  Late' /\ counter' = counter /\ OrderLines(normal') \subseteq OrderLines(normal)
  <1> USE DEF given, mainVars, mailbox, routerState, bookVars
  <1>1. mpc \notin {"read", "acknowledge", "report", "aborted"} /\ normal \in Seq(NormalMessages)
    BY DEF Late, Types
  <1>2. ~(SendOrder \/ ReceiveAcknowledgement \/ BadLine \/ SendReport \/ EndOfInput)
    BY <1>1 DEF SendOrder, ReceiveAcknowledgement, BadLine, SendReport, EndOfInput
  <1>3. CASE Ask
    <2>1. Summary(Final) \in NormalMessages /\ Summary(Final).kind # "new_order"
      BY Messages
    <2>2. OrderLines(normal') = OrderLines(normal)
      BY <1>1, <1>3, <2>1, OtherAppended DEF Ask
    <2> QED
      BY <1>3, <2>2 DEF Ask, Late
  <1>4. CASE RouteOrder \/ HandleFinal
    <2>1. /\ normal # <<>> /\ normal' = Tail(normal) /\ UNCHANGED <<mpc, counter>>
      BY <1>4 DEF RouteOrder, HandleFinal
    <2>2. OrderLines(normal') \subseteq OrderLines(normal)
      BY <1>1, <2>1, Taken
    <2> QED
      BY <2>1, <2>2 DEF Late
  <1>5. CASE ReceiveTotal \/ DumpBooks \/ ExitRouter
    BY <1>5 DEF ReceiveTotal, DumpBooks, ExitRouter, Late
  <1>6. CASE RouterHigh \/ UNCHANGED vars
    BY <1>6 DEF RouterHigh, HandleReport, CollectStats, RouterExits, vars, Late
  <1>7. CASE \E i \in Instruments : BookHigh(i) \/ BookNormal(i)
    BY <1>7 DEF BookHigh, BookNormal, GetBookStats, BookExits, ReceiveOrder, DumpAndExit, Late
  <1> QED
    BY <1>2, <1>3, <1>4, <1>5, <1>6, <1>7 DEF Next, Main, RouterNormal

LEMMA FinalHandledStays ==
  ASSUME \A t \in Nat : Stats(Final, t) \in Range(high') => Stats(Final, t) \in Range(high),
         \A i \in Instruments :
           GetStats(Final) \in Range(book_high'[i]) => GetStats(Final) \in Range(book_high[i]),
         response' # None /\ mpc' # "acknowledge" => response # None /\ mpc # "acknowledge",
         FinalHandled'
  PROVE  FinalHandled
  BY DEF FinalHandled

LEMMA FinalHandledBefore ==
  ASSUME Types, Phases, [Next]_vars, FinalHandled'
  PROVE  FinalHandled \/ HandleFinal
  <1> USE DEF given, mainVars, mailbox, routerState, bookVars
  <1>0. high \in Seq(HighMessages) /\ \A i \in Instruments : book_high[i] \in Seq(BookHighMessages)
    BY DEF Types
  <1>1. CASE SendOrder \/ ReceiveAcknowledgement \/ BadLine \/ EndOfInput \/ Ask \/ ReceiveTotal
             \/ DumpBooks \/ UNCHANGED vars
    <2>1. /\ UNCHANGED <<high, book_high>>
          /\ response' # None /\ mpc' # "acknowledge" => response # None /\ mpc # "acknowledge"
      BY <1>1 DEF SendOrder, ReceiveAcknowledgement, BadLine, EndOfInput, Ask, ReceiveTotal, DumpBooks, vars
    <2> QED
      BY <2>1, FinalHandledStays
  <1>2. CASE SendReport \/ ExitRouter
    <2>1. /\ UNCHANGED <<book_high, response>> /\ mpc # "acknowledge"
          /\ \/ high' = Append(high, Summary(counter)) /\ counter \in Nat \ {0}
             \/ high' = Append(high, Exit)
      <3>1. CASE SendReport
        <4>1. counter \in Nat \ {0}
          BY <3>1 DEF SendReport, Types
        <4> QED
          BY <3>1, <4>1 DEF SendReport
      <3>2. CASE ExitRouter
        BY <3>2 DEF ExitRouter
      <3> QED
        BY <1>2, <3>1, <3>2
    <2>2. PICK m \in HighMessages : m.kind # "stats" /\ high' = Append(high, m)
      <3>1. CASE high' = Append(high, Summary(counter)) /\ counter \in Nat \ {0}
        <4>1. Summary(counter) \in HighMessages /\ Summary(counter).kind # "stats"
          BY <3>1, Messages
        <4> QED
          BY <3>1, <4>1
      <3>2. CASE high' = Append(high, Exit)
        <4>1. Exit \in HighMessages /\ Exit.kind # "stats"
          BY Messages
        <4> QED
          BY <3>2, <4>1
      <3> QED
        BY <2>1, <3>1, <3>2
    <2>3. Range(high') = Range(high) \cup {m}
      BY <1>0, <2>2, Appended
    <2>4. \A t \in Nat : Stats(Final, t) # m
      BY <2>2, Messages DEF Final
    <2> QED
      BY <2>1, <2>3, <2>4, FinalHandledStays
  <1>3. CASE HandleReport
    <2> DEFINE id == Head(high).id
    <2>1. /\ high # <<>> /\ high' = Tail(high) /\ Head(high).kind = "dump_book_summary" /\ FanOut(id)
          /\ UNCHANGED mpc
      BY <1>3 DEF HandleReport
    <2>2. Head(high) \in HighMessages /\ Range(high) = Range(high') \cup {Head(high)}
      BY <1>0, <2>1, Taken
    <2>3. id \in Nat \ {0}
      BY <2>1, <2>2, Kinds
    <2> HIDE DEF id
    <2>4. \A i \in Instruments : Range(book_high'[i]) \subseteq Range(book_high[i]) \cup {GetStats(id)}
      BY <2>1, <2>3, FanOutTypes
    <2>5. GetStats(id) # GetStats(Final)
      BY <2>3 DEF GetStats, Final
    <2>6. response' = response
      BY <2>1, <2>3 DEF FanOut, Final
    <2> QED
      BY <2>1, <2>2, <2>4, <2>5, <2>6, FinalHandledStays
  <1>4. CASE CollectStats
    <2>1. /\ high # <<>> /\ high' = Tail(high) /\ Head(high).kind = "stats"
          /\ Head(high).id # Final => response' = response
          /\ UNCHANGED <<mpc, book_high>>
      BY <1>4 DEF CollectStats
    <2>2. Head(high) \in HighMessages /\ Range(high) = Range(high') \cup {Head(high)}
      BY <1>0, <2>1, Taken
    <2>3. CASE Head(high).id = Final
      <3>1. Head(high) = Stats(Final, Head(high).total) /\ Head(high).total \in Nat
        BY <2>1, <2>2, <2>3, Kinds
      <3> QED
        BY <2>2, <3>1 DEF FinalHandled
    <2>4. CASE Head(high).id # Final
      BY <2>1, <2>2, <2>4, FinalHandledStays
    <2> QED
      BY <2>3, <2>4
  <1>5. CASE RouterExits
    <2>1. high' = <<>> /\ UNCHANGED <<mpc, book_high, response>> /\ Range(<<>>) = {}
      BY <1>5 DEF RouterExits, Range
    <2> QED
      BY <2>1, FinalHandledStays
  <1>6. CASE RouteOrder
    <2>1. /\ normal # <<>> /\ Head(normal).kind = "new_order"
          /\ UNCHANGED <<mpc, high, book_high>> /\ (async_mode => response' = response)
      BY <1>6 DEF RouteOrder
    <2>2. OrderLines(normal) # {}
      BY <2>1, Taken DEF Types
    <2>3. ~async_mode => mpc = "acknowledge"
      BY <2>2 DEF Phases
    <2> QED
      BY <2>1, <2>3, FinalHandledStays
  <1>7. ASSUME NEW i \in Instruments, GetBookStats(i) PROVE FinalHandled
    <2> DEFINE id == Head(book_high[i]).id
               n == Len(received[i])
    <2>1. /\ book_high[i] # <<>> /\ book_high' = [book_high EXCEPT ![i] = Tail(@)]
          /\ Head(book_high[i]).kind = "get_book_stats"
          /\ high' = Append(high, Stats(id, n)) \/ high' = high
          /\ UNCHANGED <<mpc, response>>
      BY <1>7 DEF GetBookStats, ToRouter
    <2>2. /\ Head(book_high[i]) \in BookHighMessages
          /\ Range(book_high[i]) = Range(Tail(book_high[i])) \cup {Head(book_high[i])}
      BY <1>0, <2>1, Taken
    <2>3. id \in Nat /\ Head(book_high[i]) = GetStats(id) /\ n \in Nat
      BY <2>1, <2>2, Kinds DEF Types
    <2>4. \A j \in Instruments : Range(book_high'[j]) \subseteq Range(book_high[j])
      BY <2>1, <2>2 DEF Types
    <2> HIDE DEF id, n
    <2>5. CASE id = Final
      BY <2>2, <2>3, <2>5 DEF FinalHandled
    <2>6. CASE id # Final
      <3>1. Stats(id, n) \in HighMessages /\ \A t \in Nat : Stats(id, n) # Stats(Final, t)
        BY <2>3, <2>6, Messages DEF Final
      <3>2. Range(Append(high, Stats(id, n))) = Range(high) \cup {Stats(id, n)}
        BY <1>0, <3>1, RangeAppended
      <3>3. \A t \in Nat : Stats(Final, t) \in Range(high') => Stats(Final, t) \in Range(high)
        BY <2>1, <3>1, <3>2
      <3> QED
        BY <2>1, <2>4, <3>3, FinalHandledStays
    <2> QED
      BY <2>5, <2>6
  <1>8. ASSUME NEW i \in Instruments, BookExits(i) \/ ReceiveOrder(i) \/ DumpAndExit(i) PROVE FinalHandled
    <2>1. /\ UNCHANGED <<mpc, response, high>>
          /\ \/ book_high[i] # <<>> /\ book_high' = [book_high EXCEPT ![i] = Tail(@)]
             \/ book_high' = [book_high EXCEPT ![i] = Append(@, Exit)]
             \/ book_high' = book_high
      BY <1>8 DEF BookExits, ReceiveOrder, DumpAndExit
    <2>2. Exit \in BookHighMessages /\ Exit # GetStats(Final)
      BY Messages DEF Final
    <2>3. book_high[i] # <<>> => Range(Tail(book_high[i])) \subseteq Range(book_high[i])
      BY <1>0, Taken
    <2>4. Range(Append(book_high[i], Exit)) = Range(book_high[i]) \cup {Exit}
      <3>1. book_high[i] \in Seq(BookHighMessages) /\ Exit \in BookHighMessages
        BY <1>0, <2>2
      <3> QED
        BY <3>1, RangeAppended
    <2>5. \A j \in Instruments : Range(book_high'[j]) \subseteq Range(book_high[j]) \cup {Exit}
      BY <2>1, <2>3, <2>4 DEF Types
    <2> QED
      BY <2>1, <2>2, <2>5, FinalHandledStays
  <1> QED
    BY <1>1, <1>2, <1>3, <1>4, <1>5, <1>6, <1>7, <1>8
    DEF Next, Main, RouterHigh, RouterNormal, BookHigh, BookNormal

LEMMA PhasesKept == Types /\ NothingLost /\ Phases /\ [Next]_vars => Phases'
  <1> SUFFICES ASSUME Types, NothingLost, Phases, [Next]_vars PROVE Phases'
    OBVIOUS
  <1> USE DEF given, mainVars, mailbox, routerState, bookVars
  <1>0. /\ normal \in Seq(NormalMessages) /\ Ascending(normal) /\ counter \in Nat
        /\ Range(normal) \subseteq NormalMessages
    BY DEF Types, NothingLost, Range
  <1>1. Late => Late' /\ counter' = counter /\ OrderLines(normal') \subseteq OrderLines(normal)
    BY LateStays
  <1>2. FinalHandled' => FinalHandled \/ HandleFinal
    BY FinalHandledBefore
  <1>3. FinalHandled => Late' /\ OrderLines(normal') = {}
    BY <1>1 DEF Phases
  <1>4. CASE SendOrder
    <2> DEFINE p == counter + 1
    <2>1. /\ mpc = "read" /\ normal' = Append(normal, Order(p)) /\ counter' = p /\ p \in Nat \ {0}
          /\ UNCHANGED <<async_mode, response>>
          /\ mpc' \in {"read", "report"} \/ (mpc' = "acknowledge" /\ ~async_mode)
          /\ ~async_mode => mpc' = "acknowledge"
      BY <1>0, <1>4 DEF SendOrder, AfterSend
    <2>2. Order(p) \in NormalMessages /\ Order(p) # Summary(Final)
      BY <2>1, Messages
    <2> HIDE DEF p
    <2>3. Range(normal') = Range(normal) \cup {Order(p)} /\ AddsLine(normal', normal, p)
      BY <1>0, <2>1, <2>2, OrderAppended
    <2>4. Summary(Final) \notin Range(normal) /\ ~Late
      BY <2>1 DEF Phases, Late
    <2>5. \A x \in Range(normal) : x.kind = "new_order"
      BY <1>0, <2>4, Kinds
    <2>6. OrdersFirst(normal')
      BY <1>0, <2>1, <2>2, <2>5, AppendedBehind
    <2>7. ~FinalHandled' /\ response = None
      <3>1. ~FinalHandled
        BY <2>4 DEF Phases
      <3>2. ~HandleFinal
        BY <2>1 DEF HandleFinal, Final, p
      <3> QED
        BY <1>2, <2>1, <3>1, <3>2 DEF FinalHandled
    <2>8. ~async_mode => OrderLines(normal') = {p}
      BY <2>1, <2>3 DEF Phases, AddsLine
    <2>9. mpc' = "acknowledge" => OrderLines(normal') \subseteq {counter'}
      BY <2>1, <2>8
    <2> QED
      BY <2>1, <2>2, <2>3, <2>4, <2>6, <2>7, <2>9 DEF Phases, Late
  <1>5. CASE Ask
    <2>1. /\ mpc = "ask" /\ normal' = Append(normal, Summary(Final)) /\ mpc' = "wait"
          /\ UNCHANGED <<input, async_mode, counter, response, high, book_high>>
      BY <1>5 DEF Ask
    <2>2. Summary(Final) \in NormalMessages /\ Summary(Final).kind # "new_order"
      BY Messages
    <2>3. OrderLines(normal') = OrderLines(normal) /\ OrdersFirst(normal')
      BY <1>0, <2>1, <2>2, OtherAppended, AppendedBehind DEF Phases
    <2>4. FinalHandled' => FinalHandled
      BY <2>1 DEF FinalHandled
    <2> QED
      BY <1>3, <2>1, <2>3, <2>4 DEF Phases, Late
  <1>6. CASE HandleFinal
    <2>1. /\ normal # <<>> /\ normal' = Tail(normal) /\ Head(normal).kind = "dump_book_summary"
          /\ UNCHANGED <<input, async_mode, counter, mpc>>
      BY <1>6 DEF HandleFinal
    <2>2. Head(normal) \in NormalMessages /\ Range(normal) = Range(normal') \cup {Head(normal)}
      BY <1>0, <2>1, Taken
    <2>3. Summary(Final) \in Range(normal)
      BY <2>1, <2>2, Kinds
    <2>4. OrdersFirst(normal') /\ OrderLines(normal') = {}
      BY <1>0, <2>1, TakenBehind DEF Phases
    <2>5. Late /\ counter = Len(input)
      BY <2>3 DEF Phases
    <2> QED
      BY <2>1, <2>4, <2>5 DEF Phases, Late
  <1>7. CASE RouteOrder
    <2> DEFINE l == Head(normal).line
    <2>1. /\ normal # <<>> /\ normal' = Tail(normal) /\ Head(normal).kind = "new_order"
          /\ UNCHANGED <<input, async_mode, counter, mpc>>
      BY <1>7 DEF RouteOrder
    <2>2. AddsLine(normal, normal', l) /\ AllBelow({l}, OrderLines(normal'))
      BY <1>0, <2>1, OrderTaken
    <2>3. Range(normal') \subseteq Range(normal) /\ OrdersFirst(normal')
      BY <1>0, <2>1, Taken, TakenBehind DEF Phases
    <2>4. l \in OrderLines(normal) /\ OrderLines(normal') \subseteq OrderLines(normal)
      BY <2>2 DEF AddsLine
    <2>5. mpc \notin {"dump", "exit router", "done"} /\ ~FinalHandled /\ (~async_mode => mpc = "acknowledge")
      BY <2>4 DEF Phases
    <2>6. ~FinalHandled'
      <3>1. ~HandleFinal
        BY <2>1 DEF HandleFinal
      <3> QED
        BY <1>2, <2>5, <3>1
    <2>7. mpc = "acknowledge" => OrderLines(normal') = {}
      <3> SUFFICES ASSUME mpc = "acknowledge", NEW x \in OrderLines(normal') PROVE FALSE
        OBVIOUS
      <3>1. l = counter /\ x = counter
        BY <2>4 DEF Phases
      <3>2. l < x
        BY <2>2 DEF AllBelow
      <3> QED
        BY <1>0, <3>1, <3>2
    <2> QED
      BY <2>1, <2>3, <2>4, <2>5, <2>6, <2>7 DEF Phases, Late
  <1>8. CASE ReceiveAcknowledgement
    <2>1. /\ mpc = "acknowledge" /\ response # None /\ response' = None /\ mpc' \in {"read", "report"}
          /\ UNCHANGED <<input, async_mode, counter, normal>>
      BY <1>8 DEF ReceiveAcknowledgement, AfterSend
    <2>2. ~FinalHandled' /\ OrderLines(normal) = {} /\ ~Late
      <3>1. ~HandleFinal
        BY <1>8, <2>1 DEF HandleFinal, ReceiveAcknowledgement
      <3>2. ~FinalHandled
        BY <2>1 DEF Phases, Late
      <3> QED
        BY <1>2, <2>1, <3>1, <3>2 DEF Phases, Late
    <2> QED
      BY <2>1, <2>2 DEF Phases, Late
  <1>9. CASE ReceiveTotal
    <2>1. /\ mpc = "wait" /\ response # None /\ mpc' \in {"ask", "dump"}
          /\ UNCHANGED <<input, async_mode, counter, normal>>
      BY <1>9 DEF ReceiveTotal
    <2>2. FinalHandled
      BY <2>1 DEF FinalHandled
    <2>3. OrderLines(normal) = {} /\ Late
      BY <2>2 DEF Phases
    <2> QED
      BY <1>3, <2>1, <2>2, <2>3 DEF Phases, Late
  <1>10. CASE BadLine \/ SendReport \/ EndOfInput
    <2>1. /\ UNCHANGED <<input, async_mode, counter, normal>> /\ ~Late
          /\ mpc' \in {"aborted", "read"} \/ (mpc' = "ask" /\ counter = Len(input))
          /\ mpc # "acknowledge" /\ normal' = normal
      BY <1>10 DEF BadLine, SendReport, EndOfInput, Late
    <2>2. ~FinalHandled'
      <3>1. ~HandleFinal
        BY <1>10, <2>1 DEF HandleFinal, BadLine, SendReport, EndOfInput
      <3> QED
        BY <1>2, <2>1, <3>1 DEF Phases
    <2> QED
      BY <2>1, <2>2 DEF Phases, Late
  <1>11. CASE DumpBooks \/ ExitRouter
    <2>1. /\ UNCHANGED <<input, async_mode, counter, normal>>
          /\ mpc \in {"dump", "exit router"} /\ mpc' \in {"exit router", "done"}
      BY <1>11 DEF DumpBooks, ExitRouter
    <2> QED
      BY <2>1 DEF Phases, Late
  <1>12. CASE RouterHigh \/ (\E i \in Instruments : BookHigh(i) \/ BookNormal(i)) \/ UNCHANGED vars
    <2>1. UNCHANGED <<input, async_mode, counter, normal, mpc>>
      BY <1>12 DEF RouterHigh, HandleReport, CollectStats, RouterExits, BookHigh, BookNormal,
                   GetBookStats, BookExits, ReceiveOrder, DumpAndExit, vars
    <2>2. ~HandleFinal
      <3>1. normal # <<>> => Tail(normal) # normal
        BY <1>0
      <3> QED
        BY <2>1, <3>1 DEF HandleFinal
    <2>3. mpc = "acknowledge" => response' = response
      <3>1. CASE HandleReport
        <4>1. high # <<>> /\ Head(high).kind = "dump_book_summary" /\ FanOut(Head(high).id)
          BY <3>1 DEF HandleReport
        <4>2. Head(high) \in HighMessages
          BY <4>1, Taken DEF Types
        <4>3. Head(high).id # Final
          BY <4>1, <4>2, Kinds DEF Final
        <4> QED
          BY <4>1, <4>3 DEF FanOut
      <3>2. CASE CollectStats
        <4>1. /\ high # <<>> /\ Head(high).kind = "stats"
              /\ Head(high).id # Final => response' = response
          BY <3>2 DEF CollectStats
        <4>2. Head(high) \in HighMessages /\ Head(high) \in Range(high)
          <5>1. Head(high) \in HighMessages /\ Range(high) = Range(Tail(high)) \cup {Head(high)}
            BY <4>1, Taken DEF Types
          <5> QED
            BY <5>1
        <4>3. Head(high).id = Final => FinalHandled
          <5>1. Head(high).total \in Nat /\ Head(high) = Stats(Head(high).id, Head(high).total)
            BY <4>1, <4>2, Kinds
          <5> QED
            BY <4>2, <5>1 DEF FinalHandled
        <4> QED
          BY <4>1, <4>3 DEF Phases, Late
      <3>3. CASE RouterExits \/ (\E i \in Instruments : BookHigh(i) \/ BookNormal(i)) \/ UNCHANGED vars
        BY <3>3 DEF RouterExits, BookHigh, BookNormal, GetBookStats, BookExits, ReceiveOrder, DumpAndExit, vars
      <3> QED
        BY <1>12, <3>1, <3>2, <3>3 DEF RouterHigh
    <2> QED
      BY <1>2, <1>3, <2>1, <2>2, <2>3 DEF Phases, Late
  <1> QED
    BY <1>4, <1>5, <1>6, <1>7, <1>8, <1>9, <1>10, <1>11, <1>12 DEF Next, Main, RouterNormal

LEMMA DumpsKept == Types /\ Phases /\ Dumps /\ [Next]_vars => Dumps'
  <1> SUFFICES ASSUME Types, Phases, Dumps, [Next]_vars PROVE Dumps'
    OBVIOUS
  <1> USE DEF given, mainVars, mailbox, routerState, bookVars
  <1>0. \A i \in Instruments :
          /\ book_normal[i] \in Seq(BookNormalMessages)
          /\ Dump \in Range(book_normal[i]) \/ i \in dumped => mpc \in {"exit router", "done"}
          /\ LastOnly(book_normal[i], Dump)
          /\ i \in dumped => book_normal[i] = <<>>
    BY DEF Types, Dumps
  <1>1. CASE Main /\ ~DumpBooks
    <2>1. /\ UNCHANGED <<book_normal, dumped>>
          /\ mpc \in {"exit router", "done"} => mpc' \in {"exit router", "done"}
      BY <1>1 DEF Main, SendOrder, ReceiveAcknowledgement, BadLine, SendReport, EndOfInput, Ask,
                  ReceiveTotal, ExitRouter
    <2> QED
      BY <1>0, <2>1 DEF Dumps
  <1>2. CASE RouterHigh \/ HandleFinal \/ (\E i \in Instruments : BookHigh(i)) \/ UNCHANGED vars
    <2>1. UNCHANGED <<book_normal, dumped, mpc>>
      BY <1>2 DEF RouterHigh, HandleReport, CollectStats, RouterExits, HandleFinal, BookHigh, GetBookStats,
                  BookExits, vars
    <2> QED
      BY <1>0, <2>1 DEF Dumps
  <1>3. CASE DumpBooks
    <2>1. /\ mpc = "dump" /\ mpc' = "exit router" /\ dumped' = dumped
          /\ \A i \in Instruments : \/ book_normal'[i] = book_normal[i]
                                    \/ book_normal'[i] = Append(book_normal[i], Dump)
      BY <1>3 DEF DumpBooks
    <2>2. \A i \in Instruments : Dump \notin Range(book_normal[i]) /\ i \notin dumped
      BY <1>0, <2>1
    <2>3. Dump \in BookNormalMessages
      BY Messages
    <2>4. \A i \in Instruments : LastOnly(Append(book_normal[i], Dump), Dump)
      BY <1>0, <2>2, <2>3, AppendedBehind
    <2> QED
      BY <1>0, <2>1, <2>2, <2>4 DEF Dumps
  <1>4. CASE RouteOrder
    <2> DEFINE l == Head(normal).line
               i == input[l]
    <2>1. /\ normal # <<>> /\ Head(normal).kind = "new_order"
          /\ book_normal' = [book_normal EXCEPT ![i] = Append(@, Order(l))]
          /\ UNCHANGED <<mpc, dumped>>
      BY <1>4 DEF RouteOrder, Forward
    <2>2. AddsLine(normal, Tail(normal), l)
      BY <2>1, OrderTaken DEF Types
    <2> HIDE DEF l
    <2>3. l \in OrderLines(normal)
      BY <2>2 DEF AddsLine
    <2>4. l \in 1 .. counter /\ mpc \notin {"exit router", "done"}
      BY <2>3 DEF Types, Phases
    <2>5. i \in Instruments
      BY <2>4 DEF Types
    <2> HIDE DEF i
    <2> DEFINE m == Order(l)
               q == book_normal[i]
    <2>6. m \in BookNormalMessages /\ m # Dump
      <3>1. l \in Nat \ {0}
        <4>1. counter \in Nat
          BY DEF Types
        <4>2. l \in 1 .. counter
          BY <2>4
        <4> QED
          BY ONLY <4>1, <4>2
      <3>2. m \in BookNormalMessages
        BY <3>1, Messages
      <3>3. m.kind = "new_order" /\ Dump.kind = "dump_book_and_exit"
        BY DEF Order, Dump
      <3> QED
        BY <3>2, <3>3
    <2>70. q \in Seq(BookNormalMessages)
      BY <1>0, <2>5
    <2> HIDE DEF m
    <2>7. /\ book_normal'[i] = Append(q, m)
          /\ \A j \in Instruments : j # i => book_normal'[j] = book_normal[j]
      <3>1. book_normal' = [book_normal EXCEPT ![i] = Append(@, m)]
        BY <2>1 DEF i, m
      <3>2. book_normal \in [Instruments -> Seq(BookNormalMessages)]
        BY DEF Types
      <3> QED
        BY <2>5, <3>1, <3>2
    <2> HIDE DEF q
    <2>71. Range(Append(q, m)) = Range(q) \cup {m}
      BY <2>6, <2>70, Appended
    <2>8. \A j \in Instruments : Dump \notin Range(book_normal[j]) /\ j \notin dumped
      BY <1>0, <2>4
    <2>72. Dump \notin Range(book_normal'[i])
      <3>1. Dump \notin Range(q)
        BY <2>5, <2>8 DEF q
      <3> QED
        BY <2>6, <2>7, <2>71, <3>1
    <2>9. \A j \in Instruments : Dump \notin Range(book_normal'[j])
      BY <2>7, <2>72, <2>8
    <2>10. \A j \in Instruments : LastOnly(book_normal'[j], Dump)
      BY <2>9 DEF LastOnly, Range
    <2> QED
      BY <2>1, <2>8, <2>9, <2>10 DEF Dumps
  <1>5. ASSUME NEW i \in Instruments, ReceiveOrder(i) \/ DumpAndExit(i) PROVE Dumps'
    <2> DEFINE q == book_normal[i]
    <2>1. /\ q # <<>> /\ book_normal' = [book_normal EXCEPT ![i] = Tail(@)] /\ mpc' = mpc
          /\ dumped' = dumped \/ (dumped' = dumped \cup {i} /\ Head(q).kind = "dump_book_and_exit")
      BY <1>5 DEF ReceiveOrder, DumpAndExit
    <2>2. /\ book_normal'[i] = Tail(q)
          /\ \A j \in Instruments : j # i => book_normal'[j] = book_normal[j]
      BY <2>1 DEF Types
    <2>3. q \in Seq(BookNormalMessages) /\ LastOnly(q, Dump) /\ i \notin dumped
      BY <1>0, <2>1
    <2>4. Dump \in Range(q) => mpc \in {"exit router", "done"}
      BY <1>0
    <2> HIDE DEF q
    <2>5. /\ Head(q) \in BookNormalMessages
          /\ Range(q) = Range(Tail(q)) \cup {Head(q)} /\ LastOnly(Tail(q), Dump)
      BY <2>1, <2>3, Taken, TakenBehind
    <2>6. ASSUME Head(q).kind = "dump_book_and_exit" PROVE Tail(q) = <<>> /\ mpc \in {"exit router", "done"}
      <3>1. Head(q) = Dump
        BY <2>5, <2>6, Kinds
      <3>2. Tail(q) = <<>>
        BY <2>1, <2>3, <3>1, TakenBehind
      <3> QED
        BY <2>4, <2>5, <3>1, <3>2
    <2>7. ASSUME NEW j \in Instruments
          PROVE  /\ Dump \in Range(book_normal'[j]) \/ j \in dumped' => mpc \in {"exit router", "done"}
                 /\ LastOnly(book_normal'[j], Dump)
                 /\ j \in dumped' => book_normal'[j] = <<>>
      <3>1. CASE j = i
        BY <2>1, <2>2, <2>3, <2>4, <2>5, <2>6, <3>1
      <3>2. CASE j # i
        BY <1>0, <2>1, <2>2, <3>2
      <3> QED
        BY <3>1, <3>2
    <2> QED
      BY <2>1, <2>7 DEF Dumps
  <1> QED
    BY <1>1, <1>2, <1>3, <1>4, <1>5 DEF Next, RouterNormal, BookNormal

-----------------------------------------------------------------------------
(* The promise of module InOrder *)

\* The inductive invariant, as far as the order of the lines needs it.
OrderInv == Types /\ NothingLost /\ Phases /\ Dumps

LEMMA OrderInvariance == Spec => []OrderInv
  <1>1. Init => OrderInv
    BY InitTypes, InitNothingLost, InitPhases DEF OrderInv
  <1>2. OrderInv /\ [Next]_vars => OrderInv'
    BY TypesKept, NothingLostKept, PhasesKept, DumpsKept DEF OrderInv
  <1> QED
    BY <1>1, <1>2, PTL DEF Spec

\* A book that handles an order has handled all earlier ones of its instrument,
\* and no line before it was malformed.
LEMMA HandlesInOrder ==
  ASSUME OrderInv, NEW i \in Instruments, ReceiveOrder(i)
  PROVE  Promise!Next
  <1> DEFINE q == book_normal[i]
             l == Head(q).line
  <1>1. /\ q # <<>> /\ Head(q).kind = "new_order" /\ mpc # "aborted"
        /\ received' = [received EXCEPT ![i] = Append(@, l)]
        /\ UNCHANGED <<input, dumped, mpc>>
    BY DEF ReceiveOrder, Running, given, mainVars
  <1>2. q \in Seq(BookNormalMessages) /\ i \notin dumped
    BY <1>1 DEF OrderInv, Types, Dumps
  <1>3. AddsLine(q, Tail(q), l) /\ (Ascending(q) => AllBelow({l}, OrderLines(Tail(q))))
    BY <1>1, <1>2, OrderTaken
  <1>4. InLane(i, received[i], q, normal, counter)
    BY Lanes DEF OrderInv, Lane
  <1> HIDE DEF q, l
  <1> DEFINE here == OrderLines(q)
             coming == {p \in OrderLines(normal) : input[p] = i}
  <1>5. /\ Range(received[i]) \cup here \cup coming = {p \in 1 .. counter : input[p] = i}
        /\ AllBelow(Range(received[i]), here \cup coming)
        /\ Ascending(q)
        /\ AllBelow(here, coming)
    BY <1>4 DEF InLane
  <1>6. l \in here /\ here = OrderLines(Tail(q)) \cup {l} /\ AllBelow({l}, OrderLines(Tail(q)))
    BY <1>3, <1>5 DEF AddsLine
  <1>7. /\ counter \in Nat /\ counter <= Len(input) /\ DOMAIN input = 1 .. Len(input)
        /\ Len(input) \in Nat /\ \A p \in 1 .. counter : input[p] # Malformed
    BY ParametersAssumption DEF OrderInv, Types
  <1> HIDE DEF here, coming
  <1>8. l \in 1 .. counter /\ input[l] = i
    BY <1>5, <1>6
  <1>9. Range(received[i]) = {p \in 1 .. counter : input[p] = i /\ p < l}
    <2>1. \A p \in Range(received[i]) : p \in 1 .. counter /\ input[p] = i /\ p < l
      BY <1>5, <1>6 DEF AllBelow
    <2>2. ASSUME NEW p \in 1 .. counter, input[p] = i, p < l PROVE p \in Range(received[i])
      <3>1. p \in Range(received[i]) \cup here \cup coming
        BY <1>5, <2>2
      <3>2. p \notin here
        BY <1>6, <1>8, <2>2 DEF AllBelow
      <3>3. p \notin coming
        BY <1>5, <1>6, <1>8, <2>2 DEF AllBelow
      <3> QED
        BY <3>1, <3>2, <3>3
    <2> QED
      BY <2>1, <2>2
  <1>10. l \in DOMAIN input /\ \A p \in DOMAIN input : p < l => p \in 1 .. counter
    BY <1>7, <1>8
  <1>11. Promise!Own(i) = {p \in DOMAIN input : input[p] = i}
    BY DEF Promise!Own
  <1>12. Range(received[i]) = {p \in Promise!Own(i) : p < l} /\ l \in Promise!Own(i)
    <2>1. \A p \in 1 .. counter : p \in DOMAIN input
      BY <1>7
    <2> QED
      BY <1>8, <1>9, <1>10, <1>11, <2>1
  <1>13. \A p \in 1 .. l : input[p] # Malformed
    BY <1>7, <1>8
  <1>14. ~(mpc = "aborted") /\ i \notin dumped
    BY <1>1, <1>2
  <1>15. UNCHANGED <<input, dumped, mpc = "aborted">>
    BY <1>1
  <1>16. received' = [received EXCEPT ![i] = Append(@, l)]
    BY <1>1
  <1>17. Promise!Handle(i, l)
    BY ONLY <1>12, <1>13, <1>14, <1>15, <1>16 DEF Promise!Handle, Promise!Range, Range
  <1> QED
    BY <1>10, <1>17 DEF Promise!Next

\* A book that dumps its open orders has handled all orders of its instrument.
LEMMA ReportsLast ==
  ASSUME OrderInv, NEW i \in Instruments, DumpAndExit(i)
  PROVE  Promise!Next
  <1> DEFINE q == book_normal[i]
  <1>1. /\ q # <<>> /\ Head(q).kind = "dump_book_and_exit" /\ mpc # "aborted"
        /\ dumped' = dumped \cup {i}
        /\ UNCHANGED <<input, received, mpc>>
    BY DEF DumpAndExit, Running, given, mainVars
  <1>2. /\ q \in Seq(BookNormalMessages) /\ i \notin dumped /\ LastOnly(q, Dump)
        /\ Dump \in Range(q) => mpc \in {"exit router", "done"}
    BY <1>1 DEF OrderInv, Types, Dumps
  <1>3. InLane(i, received[i], q, normal, counter)
    BY Lanes DEF OrderInv, Lane
  <1> HIDE DEF q
  <1>4. Head(q) \in BookNormalMessages /\ Range(q) = Range(Tail(q)) \cup {Head(q)}
    BY <1>1, <1>2, Taken
  <1>5. Head(q) = Dump
    BY <1>1, <1>4, Kinds
  <1>6. Tail(q) = <<>> /\ OrderLines(Tail(q)) = OrderLines(q)
    BY <1>1, <1>2, <1>5, TakenBehind, OtherTaken
  <1>7. OrderLines(q) = {}
    BY <1>6 DEF OrderLines
  <1>8. mpc \in {"exit router", "done"}
    BY <1>2, <1>4, <1>5
  <1>9. OrderLines(normal) = {} /\ counter = Len(input)
    BY <1>8 DEF OrderInv, Phases, Late
  <1>10. Range(received[i]) = {p \in 1 .. counter : input[p] = i}
    BY <1>3, <1>7, <1>9 DEF InLane
  <1>11. DOMAIN input = 1 .. counter /\ \A p \in 1 .. counter : input[p] # Malformed
    BY <1>9, ParametersAssumption DEF OrderInv, Types
  <1>12. Range(received[i]) = Promise!Own(i) /\ Promise!Own(Malformed) = {}
    BY <1>10, <1>11 DEF Promise!Own
  <1>13. ~(mpc = "aborted") /\ \A j \in {i} : j \notin dumped /\ Range(received[j]) = Promise!Own(j)
    BY <1>1, <1>2, <1>12
  <1>14. UNCHANGED <<input, received, mpc = "aborted">> /\ dumped' = dumped \cup {i}
    BY <1>1
  <1>15. Promise!Report({i})
    BY ONLY <1>12, <1>13, <1>14 DEF Promise!Report, Promise!Range, Range
  <1> QED
    BY <1>15 DEF Promise!Next

LEMMA StepsInOrder == OrderInv /\ [Next]_vars => [Promise!Next]_(Promise!vars)
  <1> SUFFICES ASSUME OrderInv, [Next]_vars PROVE [Promise!Next]_(Promise!vars)
    OBVIOUS
  <1> USE DEF given, mainVars, mailbox, routerState, bookVars
  <1>1. CASE BadLine
    <2>1. /\ mpc = "read" /\ mpc' = "aborted" /\ counter < Len(input) /\ input[counter + 1] = Malformed
          /\ UNCHANGED <<input, received, dumped>>
      BY <1>1 DEF BadLine
    <2>2. dumped = {}
      BY <2>1 DEF OrderInv, Dumps, Types
    <2>3. counter + 1 \in DOMAIN input
      BY <2>1 DEF OrderInv, Types
    <2>4. Promise!Own(Malformed) # {}
      BY <2>1, <2>3 DEF Promise!Own
    <2> QED
      BY <2>1, <2>2, <2>4 DEF Promise!Next, Promise!Stop
  <1>2. CASE Main /\ ~BadLine
    <2>1. UNCHANGED <<input, received, dumped>> /\ mpc # "aborted" /\ mpc' # "aborted"
      BY <1>2 DEF Main, SendOrder, ReceiveAcknowledgement, SendReport, EndOfInput, Ask, ReceiveTotal,
                  DumpBooks, ExitRouter, AfterSend
    <2> QED
      BY <2>1 DEF Promise!vars
  <1>3. CASE RouterHigh \/ RouterNormal \/ (\E i \in Instruments : BookHigh(i)) \/ UNCHANGED vars
    <2>1. UNCHANGED <<input, received, dumped, mpc>>
      BY <1>3 DEF RouterHigh, HandleReport, CollectStats, RouterExits, RouterNormal, RouteOrder, HandleFinal,
                  BookHigh, GetBookStats, BookExits, vars
    <2> QED
      BY <2>1 DEF Promise!vars
  <1>4. ASSUME NEW i \in Instruments, BookNormal(i) PROVE Promise!Next
    BY <1>4, HandlesInOrder, ReportsLast DEF BookNormal
  <1> QED
    BY <1>1, <1>2, <1>3, <1>4 DEF Next

-----------------------------------------------------------------------------
(* What is on its way in a queue *)

Below == {p \in Nat \X Nat : p[1] < p[2]}

\* What holds of 0 and of every successor holds of every natural.
LEMMA SetInduction ==
  ASSUME NEW T, 0 \in T, \A n \in T \cap Nat : n + 1 \in T
  PROVE  Nat \subseteq T
  <1> SUFFICES ASSUME Nat \ T # {} PROVE FALSE
    OBVIOUS
  <1>1. PICK x \in Nat \ T : \A y \in Nat \ T : <<y, x>> \notin Below
    <2>1. IsWellFoundedOn(Below, Nat)
      BY NatLessThanWellFounded, Zenon DEF OpToRel, Below
    <2>2. Nat \ T \subseteq Nat
      OBVIOUS
    <2> QED
      BY <2>1, <2>2, WFMin
  <1>2. x # 0 /\ x - 1 \in Nat /\ x - 1 + 1 = x
    OBVIOUS
  <1>3. x - 1 \in Nat \ T
    BY <1>2
  <1>4. <<x - 1, x>> \in Below
    BY <1>2 DEF Below
  <1> QED
    BY <1>1, <1>3, <1>4

\* The sum of the weights w of the messages of a queue.
Flow(w, q) ==
  LET sum[k \in 0 .. Len(q)] == IF k = 0 THEN 0 ELSE sum[k - 1] + w[q[k]]
  IN sum[Len(q)]

\* The recursion by which Flow adds up the first n weights.
Adds(sum, w, q, n) == /\ sum[0] = 0
                      /\ \A k \in 1 .. n : sum[k] = sum[k - 1] + w[q[k]]

LEMMA FlowDefined ==
  ASSUME NEW w, NEW q, Len(q) \in Nat
  PROVE  \E sum : Adds(sum, w, q, Len(q)) /\ Flow(w, q) = sum[Len(q)]
  <1> DEFINE e(g, k) == IF k = 0 THEN 0 ELSE g[k - 1] + w[q[k]]
             From(n) == \E g : g = [k \in 0 .. n |-> e(g, k)]
             T == {n \in Nat : From(n)}
  <1>1. From(0)
    <2> DEFINE g == [k \in 0 .. 0 |-> 0]
    <2>1. g = [k \in 0 .. 0 |-> e(g, k)]
      OBVIOUS
    <2> HIDE DEF g
    <2> QED
      BY <2>1
  <1>2. ASSUME NEW n \in Nat, From(n) PROVE From(n + 1)
    <2>1. PICK g : g = [k \in 0 .. n |-> e(g, k)]
      BY <1>2
    <2> DEFINE h == [k \in 0 .. n + 1 |-> IF k = n + 1 THEN e(g, k) ELSE g[k]]
    <2>2. ASSUME NEW k \in 0 .. n + 1 PROVE e(h, k) = e(g, k)
      <3>1. k # 0 => h[k - 1] = g[k - 1]
        OBVIOUS
      <3> HIDE DEF h
      <3> QED
        BY <3>1
    <2>3. ASSUME NEW k \in 0 .. n + 1 PROVE h[k] = e(g, k)
      <3>1. CASE k = n + 1
        BY <3>1
      <3>2. CASE k # n + 1
        <4>1. k \in 0 .. n /\ h[k] = g[k]
          BY <3>2
        <4> HIDE DEF e, h
        <4> QED
          BY <2>1, <4>1
      <3> QED
        BY <3>1, <3>2
    <2>4. h = [k \in 0 .. n + 1 |-> e(h, k)]
      BY <2>2, <2>3
    <2> HIDE DEF h
    <2> QED
      BY <2>4
  <1> HIDE DEF From
  <1>3. From(Len(q))
    <2>1. 0 \in T /\ \A n \in T \cap Nat : n + 1 \in T
      BY <1>1, <1>2
    <2>2. Nat \subseteq T
      <3> HIDE DEF T
      <3> QED
        BY <2>1, SetInduction
    <2> QED
      BY <2>2
  <1> DEFINE sum == CHOOSE g : g = [k \in 0 .. Len(q) |-> e(g, k)]
  <1>4. sum = [k \in 0 .. Len(q) |-> e(sum, k)]
    BY <1>3 DEF From
  <1>5. Flow(w, q) = sum[Len(q)]
    BY DEF Flow
  <1> HIDE DEF sum
  <1>6. sum[0] = 0
    BY <1>4
  <1>7. ASSUME NEW k \in 1 .. Len(q) PROVE sum[k] = sum[k - 1] + w[q[k]]
    <2>1. k \in 0 .. Len(q) /\ k # 0
      OBVIOUS
    <2>2. sum[k] = e(sum, k)
      <3> HIDE DEF e
      <3> QED
        BY <1>4, <2>1
    <2> QED
      BY <2>1, <2>2
  <1> QED
    BY <1>5, <1>6, <1>7 DEF Adds

LEMMA AddsNat ==
  ASSUME NEW S, NEW w \in [S -> Nat], NEW q \in Seq(S), NEW n \in 0 .. Len(q), NEW sum, Adds(sum, w, q, n)
  PROVE  \A k \in 0 .. n : sum[k] \in Nat
  <1> DEFINE T == {k \in Nat : k <= n => sum[k] \in Nat}
  <1>1. 0 \in T
    BY DEF Adds
  <1>2. ASSUME NEW k \in T \cap Nat PROVE k + 1 \in T
    <2> SUFFICES ASSUME k + 1 <= n PROVE sum[k + 1] \in Nat
      OBVIOUS
    <2>1. k + 1 \in 1 .. n /\ k + 1 - 1 = k /\ k + 1 \in 1 .. Len(q) /\ sum[k] \in Nat
      OBVIOUS
    <2>2. sum[k + 1] = sum[k] + w[q[k + 1]]
      BY <2>1 DEF Adds
    <2>3. q[k + 1] \in S
      BY <2>1
    <2>4. w[q[k + 1]] \in Nat
      BY <2>3
    <2> QED
      BY <2>1, <2>2, <2>4
  <1>3. Nat \subseteq T
    <2> HIDE DEF T
    <2> QED
      BY <1>1, <1>2, SetInduction
  <1> QED
    BY <1>3

\* f grows by the numbers of c.
Grows(f, c, n) == \A k \in 1 .. n : c[k] \in Nat /\ f[k] = f[k - 1] + c[k]

\* Two sums of the same numbers, the second of which starts with more.
LEMMA SameSteps ==
  ASSUME NEW n \in Nat, NEW c, NEW f, NEW g,
         f[0] = 0, g[0] \in Nat, Grows(f, c, n), Grows(g, c, n)
  PROVE  g[n] = g[0] + f[n]
  <1> DEFINE T == {k \in Nat : k <= n => f[k] \in Nat /\ g[k] = g[0] + f[k]}
  <1>1. 0 \in T
    OBVIOUS
  <1>2. ASSUME NEW k \in T \cap Nat PROVE k + 1 \in T
    <2> SUFFICES ASSUME k + 1 <= n PROVE f[k + 1] \in Nat /\ g[k + 1] = g[0] + f[k + 1]
      OBVIOUS
    <2>1. k + 1 \in 1 .. n /\ k + 1 - 1 = k /\ f[k] \in Nat /\ g[k] = g[0] + f[k]
      OBVIOUS
    <2>2. f[k + 1] = f[k] + c[k + 1] /\ g[k + 1] = g[k] + c[k + 1] /\ c[k + 1] \in Nat
      BY <2>1 DEF Grows
    <2> QED
      BY <2>1, <2>2
  <1>3. Nat \subseteq T
    <2> HIDE DEF T
    <2> QED
      BY <1>1, <1>2, SetInduction
  <1> QED
    BY <1>3

LEMMA FlowNat ==
  ASSUME NEW S, NEW w \in [S -> Nat], NEW q \in Seq(S)
  PROVE  Flow(w, q) \in Nat
  <1>1. PICK sum : Adds(sum, w, q, Len(q)) /\ Flow(w, q) = sum[Len(q)]
    BY FlowDefined
  <1>2. Len(q) \in 0 .. Len(q)
    OBVIOUS
  <1> QED
    BY <1>1, <1>2, AddsNat

LEMMA FlowEmpty == ASSUME NEW w PROVE Flow(w, <<>>) = 0
  <1>1. PICK sum : Adds(sum, w, <<>>, Len(<<>>)) /\ Flow(w, <<>>) = sum[Len(<<>>)]
    BY FlowDefined
  <1> QED
    BY <1>1 DEF Adds

LEMMA FlowAppended ==
  ASSUME NEW S, NEW w \in [S -> Nat], NEW q \in Seq(S), NEW m \in S
  PROVE  Flow(w, Append(q, m)) = Flow(w, q) + w[m]
  <1> DEFINE n == Len(q)
             r == Append(q, m)
  <1>1. n \in Nat /\ Len(q) = n /\ r \in Seq(S) /\ Len(r) = n + 1 /\ r[n + 1] = m /\ \A k \in 1 .. n : r[k] = q[k]
    OBVIOUS
  <1> HIDE DEF n, r
  <1>2. PICK f : Adds(f, w, q, n) /\ Flow(w, q) = f[n]
    BY <1>1, FlowDefined
  <1>3. PICK g : Adds(g, w, r, n + 1) /\ Flow(w, r) = g[n + 1]
    BY <1>1, FlowDefined
  <1>4. Adds(g, w, r, n)
    BY <1>1, <1>3 DEF Adds
  <1>5. g[n] = f[n]
    <2> DEFINE c == [k \in 1 .. n |-> w[q[k]]]
    <2>1. ASSUME NEW k \in 1 .. n PROVE q[k] \in S /\ r[k] = q[k]
      BY <1>1
    <2>2. \A k \in 1 .. n : /\ c[k] \in Nat /\ f[k] = f[k - 1] + c[k] /\ g[k] = g[k - 1] + c[k]
      BY <1>2, <1>4, <2>1 DEF Adds
    <2>3. f[0] = 0 /\ g[0] = 0 /\ g[0] \in Nat
      BY <1>2, <1>4 DEF Adds
    <2> HIDE DEF c
    <2>6. Grows(f, c, n) /\ Grows(g, c, n)
      BY <2>2 DEF Grows
    <2>4. g[n] = g[0] + f[n]
      BY <1>1, <2>3, <2>6, SameSteps
    <2>5. f[n] \in Nat
      BY <1>2, FlowNat
    <2> QED
      BY <2>3, <2>4, <2>5
  <1>6. g[n + 1] = g[n] + w[m]
    <2>1. n + 1 \in 1 .. n + 1 /\ n + 1 - 1 = n
      BY <1>1
    <2> QED
      BY <1>1, <1>3, <2>1 DEF Adds
  <1>7. f[n] \in Nat
    BY <1>2, FlowNat
  <1> QED
    BY <1>2, <1>3, <1>5, <1>6, <1>7 DEF r

LEMMA FlowTaken ==
  ASSUME NEW S, NEW w \in [S -> Nat], NEW q \in Seq(S), q # <<>>
  PROVE  Flow(w, q) = w[Head(q)] + Flow(w, Tail(q))
  <1> DEFINE n == Len(q) - 1
             r == Tail(q)
  <1>1. /\ n \in Nat /\ r \in Seq(S) /\ Len(r) = n /\ Len(q) = n + 1 /\ Head(q) = q[1] /\ q[1] \in S
        /\ \A k \in 1 .. n : q[k + 1] = r[k]
    OBVIOUS
  <1> HIDE DEF n, r
  <1>2. PICK f : Adds(f, w, r, n) /\ Flow(w, r) = f[n]
    BY <1>1, FlowDefined
  <1>3. PICK g : Adds(g, w, q, n + 1) /\ Flow(w, q) = g[n + 1]
    BY <1>1, FlowDefined
  <1>4. g[n + 1] = g[1] + f[n]
    <2> DEFINE c == [k \in 1 .. n |-> w[r[k]]]
               h == [k \in 0 .. n |-> g[k + 1]]
    <2>1. ASSUME NEW k \in 1 .. n PROVE f[k] = f[k - 1] + c[k] /\ h[k] = h[k - 1] + c[k] /\ c[k] \in Nat
      <3>1. k + 1 \in 1 .. n + 1 /\ k + 1 - 1 = k /\ k - 1 + 1 = k /\ k \in 0 .. n /\ k - 1 \in 0 .. n
        BY <1>1
      <3>2. g[k + 1] = g[k] + w[q[k + 1]] /\ q[k + 1] = r[k] /\ r[k] \in S
        BY <1>1, <1>3, <3>1 DEF Adds
      <3>3. f[k] = f[k - 1] + w[r[k]]
        BY <1>2 DEF Adds
      <3> QED
        BY <3>1, <3>2, <3>3
    <2>2. f[0] = 0 /\ h[0] = g[1] /\ h[n] = g[n + 1]
      BY <1>1, <1>2 DEF Adds
    <2>3. g[1] \in Nat
      <3>1. 1 \in 0 .. n + 1 /\ n + 1 \in 0 .. Len(q)
        BY <1>1
      <3> QED
        BY <1>3, <3>1, AddsNat
    <2> HIDE DEF c, h
    <2>5. Grows(f, c, n) /\ Grows(h, c, n)
      BY <2>1 DEF Grows
    <2>4. h[n] = h[0] + f[n]
      BY <1>1, <2>2, <2>3, <2>5, SameSteps
    <2> QED
      BY <2>2, <2>4
  <1>5. g[1] = g[0] + w[q[1]] /\ g[0] = 0 /\ w[q[1]] \in Nat
    <2>1. 1 \in 1 .. n + 1 /\ 1 - 1 = 0
      BY <1>1
    <2> QED
      BY <1>1, <1>3, <2>1 DEF Adds
  <1> QED
    BY <1>1, <1>2, <1>3, <1>4, <1>5 DEF r

\* Every message is part of the sum, and nothing else is.
LEMMA FlowParts ==
  ASSUME NEW S, NEW w \in [S -> Nat], NEW q \in Seq(S)
  PROVE  /\ (\A k \in 1 .. Len(q) : w[q[k]] = 0) => Flow(w, q) = 0
         /\ Flow(w, q) = 0 => \A k \in 1 .. Len(q) : w[q[k]] = 0
  <1> DEFINE n == Len(q)
  <1>1. PICK f : Adds(f, w, q, n) /\ Flow(w, q) = f[n]
    BY FlowDefined
  <1>2. n \in Nat /\ n \in 0 .. n /\ \A k \in 1 .. n : q[k] \in S
    OBVIOUS
  <1>3. \A k \in 0 .. n : f[k] \in Nat
    BY <1>1, <1>2, AddsNat
  <1> HIDE DEF n
  <1>4. ASSUME NEW k \in 1 .. n PROVE f[k] = f[k - 1] + w[q[k]] /\ w[q[k]] \in Nat
    <2>1. q[k] \in S
      BY <1>2
    <2> QED
      BY <1>1, <2>1 DEF Adds
  <1>5. ASSUME \A k \in 1 .. n : w[q[k]] = 0 PROVE f[n] = 0
    <2> DEFINE T == {k \in Nat : k <= n => f[k] = 0}
    <2>1. 0 \in T
      BY <1>1 DEF Adds
    <2>2. ASSUME NEW k \in T \cap Nat PROVE k + 1 \in T
      <3> SUFFICES ASSUME k + 1 <= n PROVE f[k + 1] = 0
        OBVIOUS
      <3>1. k + 1 \in 1 .. n /\ k + 1 - 1 = k /\ f[k] = 0
        BY <1>2
      <3>2. f[k + 1] = f[k + 1 - 1] + w[q[k + 1]]
        BY <1>4, <3>1
      <3>3. w[q[k + 1]] = 0
        BY <1>5, <3>1
      <3> QED
        BY <3>1, <3>2, <3>3
    <2>3. Nat \subseteq T
      <3> HIDE DEF T
      <3> QED
        BY <2>1, <2>2, SetInduction
    <2> QED
      BY <1>2, <2>3
  <1>6. ASSUME f[n] = 0, NEW j \in 1 .. n PROVE w[q[j]] = 0
    <2> DEFINE T == {d \in Nat : d <= n => f[n - d] = 0}
    <2>1. 0 \in T
      BY <1>2, <1>6
    <2>2. ASSUME NEW d \in T \cap Nat PROVE d + 1 \in T
      <3> SUFFICES ASSUME d + 1 <= n PROVE f[n - (d + 1)] = 0
        OBVIOUS
      <3> DEFINE k == n - d
      <3>1. k \in 1 .. n /\ k - 1 = n - (d + 1) /\ f[k] = 0 /\ k - 1 \in 0 .. n
        BY <1>2
      <3>2. f[k] = f[k - 1] + w[q[k]] /\ w[q[k]] \in Nat /\ f[k - 1] \in Nat
        BY <1>3, <1>4, <3>1
      <3> QED
        BY <3>1, <3>2
    <2>3. Nat \subseteq T
      <3> HIDE DEF T
      <3> QED
        BY <2>1, <2>2, SetInduction
    <2>0. n - j \in Nat /\ n - j <= n /\ n - (n - j) = j
      BY <1>2
    <2>4. n - j \in T
      <3> HIDE DEF T
      <3> QED
        BY <2>0, <2>3
    <2>5. f[j] = 0
      BY <2>0, <2>4
    <2>6. f[j] = f[j - 1] + w[q[j]] /\ w[q[j]] \in Nat /\ f[j - 1] \in Nat
      <3>1. j - 1 \in 0 .. n
        BY <1>2
      <3> QED
        BY <1>3, <1>4, <3>1
    <2> QED
      BY <2>5, <2>6
  <1> QED
    BY <1>1, <1>5, <1>6 DEF n

-----------------------------------------------------------------------------
(* Answers on their way to the router, and requests on their way to the books *)

IsAnswer(m, id) == m.kind = "stats" /\ m.id = id
IsSummary(m)    == m.kind = "dump_book_summary"
IsRequest(m)    == m.kind = "get_book_stats"

Count(id)  == [m \in HighMessages |-> IF IsAnswer(m, id) THEN 1 ELSE 0]
Amount(id) == [m \in HighMessages |-> IF IsAnswer(m, id) THEN m.total ELSE 0]

\* How many answers to request id a queue has, and what they add up to.
Answers(id, q) == Flow(Count(id), q)
Carried(id, q) == Flow(Amount(id), q)

LEMMA Weights ==
  ASSUME NEW id
  PROVE  /\ Count(id) \in [HighMessages -> Nat] /\ Amount(id) \in [HighMessages -> Nat]
         /\ \A m \in HighMessages : /\ Count(id)[m] = IF IsAnswer(m, id) THEN 1 ELSE 0
                                    /\ Amount(id)[m] = IF IsAnswer(m, id) THEN m.total ELSE 0
                                    /\ IsAnswer(m, id) => m.total \in Nat
  <1>1. \A m \in HighMessages : IsAnswer(m, id) => m.total \in Nat
    BY Kinds DEF IsAnswer
  <1> QED
    BY <1>1 DEF Count, Amount

LEMMA AnswersNat ==
  ASSUME NEW id, NEW q \in Seq(HighMessages)
  PROVE  Answers(id, q) \in Nat /\ Carried(id, q) \in Nat
  BY Weights, FlowNat DEF Answers, Carried

LEMMA AnswersEmpty == ASSUME NEW id PROVE Answers(id, <<>>) = 0 /\ Carried(id, <<>>) = 0
  BY FlowEmpty DEF Answers, Carried

LEMMA AnswersAppended ==
  ASSUME NEW id, NEW q \in Seq(HighMessages), NEW m \in HighMessages
  PROVE  /\ IsAnswer(m, id) => /\ Answers(id, Append(q, m)) = Answers(id, q) + 1
                               /\ Carried(id, Append(q, m)) = Carried(id, q) + m.total
         /\ ~IsAnswer(m, id) => /\ Answers(id, Append(q, m)) = Answers(id, q)
                                /\ Carried(id, Append(q, m)) = Carried(id, q)
  <1>1. /\ Flow(Count(id), Append(q, m)) = Flow(Count(id), q) + Count(id)[m]
        /\ Flow(Amount(id), Append(q, m)) = Flow(Amount(id), q) + Amount(id)[m]
    BY Weights, FlowAppended
  <1>2. Flow(Count(id), q) \in Nat /\ Flow(Amount(id), q) \in Nat
    BY Weights, FlowNat
  <1> QED
    BY <1>1, <1>2, Weights DEF Answers, Carried

LEMMA AnswersTaken ==
  ASSUME NEW id, NEW q \in Seq(HighMessages), q # <<>>
  PROVE  /\ IsAnswer(Head(q), id) => /\ Answers(id, q) = 1 + Answers(id, Tail(q))
                                     /\ Carried(id, q) = Head(q).total + Carried(id, Tail(q))
         /\ ~IsAnswer(Head(q), id) => /\ Answers(id, q) = Answers(id, Tail(q))
                                      /\ Carried(id, q) = Carried(id, Tail(q))
  <1>1. /\ Flow(Count(id), q) = Count(id)[Head(q)] + Flow(Count(id), Tail(q))
        /\ Flow(Amount(id), q) = Amount(id)[Head(q)] + Flow(Amount(id), Tail(q))
    BY Weights, FlowTaken
  <1>2. Head(q) \in HighMessages /\ Tail(q) \in Seq(HighMessages)
    OBVIOUS
  <1>3. Flow(Count(id), Tail(q)) \in Nat /\ Flow(Amount(id), Tail(q)) \in Nat
    BY <1>2, Weights, FlowNat
  <1> QED
    BY <1>1, <1>2, <1>3, Weights DEF Answers, Carried

LEMMA NoAnswers ==
  ASSUME NEW id, NEW q \in Seq(HighMessages)
  PROVE  /\ Answers(id, q) = 0 => /\ Carried(id, q) = 0
                                  /\ \A k \in DOMAIN q : ~IsAnswer(q[k], id)
         /\ (\A m \in Range(q) : ~IsAnswer(m, id)) => Answers(id, q) = 0
  <1>1. DOMAIN q = 1 .. Len(q) /\ \A k \in 1 .. Len(q) : q[k] \in HighMessages /\ q[k] \in Range(q)
    BY DEF Range
  <1>2. ASSUME Answers(id, q) = 0
        PROVE  Carried(id, q) = 0 /\ \A k \in 1 .. Len(q) : ~IsAnswer(q[k], id)
    <2>1. \A k \in 1 .. Len(q) : Count(id)[q[k]] = 0
      BY <1>2, Weights, FlowParts DEF Answers
    <2>2. \A k \in 1 .. Len(q) : ~IsAnswer(q[k], id)
      BY <1>1, <2>1, Weights
    <2>3. \A k \in 1 .. Len(q) : Amount(id)[q[k]] = 0
      BY <1>1, <2>2, Weights
    <2>4. Flow(Amount(id), q) = 0
      BY <2>3, Weights, FlowParts
    <2> QED
      BY <2>2, <2>4 DEF Carried
  <1>3. ASSUME \A m \in Range(q) : ~IsAnswer(m, id)
        PROVE  Answers(id, q) = 0
    <2>1. \A k \in 1 .. Len(q) : Count(id)[q[k]] = 0
      BY <1>1, <1>3, Weights
    <2>2. Flow(Count(id), q) = 0
      BY <2>1, Weights, FlowParts
    <2> QED
      BY <2>2 DEF Answers
  <1> QED
    BY <1>1, <1>2, <1>3

\* Reports are asked for in order, and not any more when the final sum is on its way.
SummariesFirst(q) ==
  \A j, k \in DOMAIN q : j < k /\ IsSummary(q[k]) => /\ IsSummary(q[j]) => q[j].id < q[k].id
                                                     /\ ~IsAnswer(q[j], Final)

\* Behind every answer to a there is one to b.
Behind(q, a, b) ==
  \A j \in DOMAIN q : IsAnswer(q[j], a) => \E k \in DOMAIN q : j < k /\ IsAnswer(q[k], b)

\* A book is asked once for every report, in order, and once for the final sum.
RequestsInOrder(q) ==
  \A j, k \in DOMAIN q :
    j < k /\ IsRequest(q[j]) /\ IsRequest(q[k])
      => /\ q[j].id # q[k].id
         /\ q[j].id # Final /\ q[k].id # Final => q[j].id < q[k].id

LEMMA OrderAppendedTo ==
  ASSUME NEW S, NEW q \in Seq(S), NEW m \in S
  PROVE  /\ SummariesFirst(q)
              /\ (IsSummary(m) => \A x \in Range(q) : /\ IsSummary(x) => x.id < m.id
                                                      /\ ~IsAnswer(x, Final))
              => SummariesFirst(Append(q, m))
         /\ RequestsInOrder(q)
              /\ (IsRequest(m) => \A x \in Range(q) : IsRequest(x)
                                    => x.id # m.id /\ (x.id # Final /\ m.id # Final => x.id < m.id))
              => RequestsInOrder(Append(q, m))
         /\ \A a, b : Behind(q, a, b) /\ (IsAnswer(m, a) => IsAnswer(m, b)) /\ a # b
                        => Behind(Append(q, m), a, b)
         /\ \A a, b : IsAnswer(m, b) /\ a # b => Behind(Append(q, m), a, b)
  <1> DEFINE n == Len(q)
             r == Append(q, m)
  <1>1. /\ n \in Nat /\ DOMAIN q = 1 .. n /\ DOMAIN r = 1 .. n + 1
        /\ r[n + 1] = m /\ \A k \in 1 .. n : r[k] = q[k] /\ q[k] \in Range(q)
    BY DEF Range
  <1>2. /\ \A k \in 1 .. n + 1 : k \in 1 .. n \/ k = n + 1
        /\ n + 1 \in 1 .. n + 1 /\ \A k \in 1 .. n : k \in 1 .. n + 1 /\ k < n + 1
        /\ \A j, k \in 1 .. n + 1 : j < k => j \in 1 .. n
    BY <1>1
  <1> HIDE DEF n, r
  <1>3. ASSUME SummariesFirst(q),
               IsSummary(m) => \A x \in Range(q) : /\ IsSummary(x) => x.id < m.id
                                                   /\ ~IsAnswer(x, Final)
        PROVE  SummariesFirst(r)
    BY <1>1, <1>2, <1>3 DEF SummariesFirst
  <1>4. ASSUME RequestsInOrder(q),
               IsRequest(m) => \A x \in Range(q) : IsRequest(x)
                                 => x.id # m.id /\ (x.id # Final /\ m.id # Final => x.id < m.id)
        PROVE  RequestsInOrder(r)
    BY <1>1, <1>2, <1>4 DEF RequestsInOrder
  <1>5. ASSUME NEW a, NEW b, Behind(q, a, b), IsAnswer(m, a) => IsAnswer(m, b), a # b
        PROVE  Behind(r, a, b)
    <2>1. ~IsAnswer(m, a)
      BY <1>5 DEF IsAnswer
    <2> SUFFICES ASSUME NEW j \in 1 .. n + 1, IsAnswer(r[j], a)
                 PROVE  \E k \in 1 .. n + 1 : j < k /\ IsAnswer(r[k], b)
      BY <1>1 DEF Behind
    <2>2. j \in 1 .. n /\ IsAnswer(q[j], a)
      BY <1>1, <1>2, <2>1
    <2>3. PICK k \in 1 .. n : j < k /\ IsAnswer(q[k], b)
      BY <1>1, <1>5, <2>2 DEF Behind
    <2> QED
      BY <1>1, <1>2, <2>3
  <1>6. ASSUME NEW a, NEW b, IsAnswer(m, b), a # b
        PROVE  Behind(r, a, b)
    <2>1. ~IsAnswer(m, a)
      BY <1>6 DEF IsAnswer
    <2> SUFFICES ASSUME NEW j \in 1 .. n + 1, IsAnswer(r[j], a)
                 PROVE  \E k \in 1 .. n + 1 : j < k /\ IsAnswer(r[k], b)
      BY <1>1 DEF Behind
    <2>2. j \in 1 .. n
      BY <1>1, <1>2, <2>1
    <2> QED
      BY <1>1, <1>2, <1>6, <2>2
  <1> QED
    BY <1>3, <1>4, <1>5, <1>6 DEF r

LEMMA OrderTakenFrom ==
  ASSUME NEW S, NEW q \in Seq(S), q # <<>>
  PROVE  /\ SummariesFirst(q)
              => /\ SummariesFirst(Tail(q))
                 /\ IsAnswer(Head(q), Final) => \A x \in Range(Tail(q)) : ~IsSummary(x)
                 /\ IsSummary(Head(q)) => \A x \in Range(Tail(q)) : IsSummary(x) => Head(q).id < x.id
         /\ RequestsInOrder(q)
              => /\ RequestsInOrder(Tail(q))
                 /\ IsRequest(Head(q)) =>
                      \A x \in Range(Tail(q)) : IsRequest(x)
                        => Head(q).id # x.id /\ (Head(q).id # Final /\ x.id # Final => Head(q).id < x.id)
         /\ \A a, b : Behind(q, a, b) => Behind(Tail(q), a, b)
  <1> DEFINE n == Len(q)
             r == Tail(q)
             m == Head(q)
  <1>1. /\ n \in Nat /\ n > 0 /\ DOMAIN q = 1 .. n /\ DOMAIN r = 1 .. n - 1
        /\ \A k \in 1 .. n - 1 : r[k] = q[k + 1]
        /\ m = q[1] /\ 1 \in 1 .. n
        /\ \A k \in 1 .. n - 1 : k + 1 \in 1 .. n /\ 1 < k + 1
    OBVIOUS
  <1>2. \A j, k \in 1 .. n - 1 : j < k => j + 1 < k + 1
    BY <1>1
  <1> HIDE DEF n, r, m
  <1>3. \A x \in Range(r) : \E k \in 1 .. n - 1 : x = q[k + 1]
    BY <1>1 DEF Range
  <1>4. ASSUME SummariesFirst(q)
        PROVE  /\ SummariesFirst(r)
               /\ IsAnswer(m, Final) => \A x \in Range(r) : ~IsSummary(x)
               /\ IsSummary(m) => \A x \in Range(r) : IsSummary(x) => m.id < x.id
    <2>1. SummariesFirst(r)
      <3> SUFFICES ASSUME NEW j \in 1 .. n - 1, NEW k \in 1 .. n - 1, j < k, IsSummary(r[k])
                   PROVE  (IsSummary(r[j]) => r[j].id < r[k].id) /\ ~IsAnswer(r[j], Final)
        BY <1>1 DEF SummariesFirst
      <3>1. r[j] = q[j + 1] /\ r[k] = q[k + 1] /\ j + 1 < k + 1 /\ j + 1 \in 1 .. n /\ k + 1 \in 1 .. n
        BY <1>1, <1>2
      <3> QED
        BY <1>1, <1>4, <3>1 DEF SummariesFirst
    <2>2. ASSUME NEW x \in Range(r), IsSummary(x)
          PROVE  ~IsAnswer(m, Final) /\ (IsSummary(m) => m.id < x.id)
      <3>1. PICK k \in 1 .. n - 1 : x = q[k + 1]
        BY <1>3
      <3>2. k + 1 \in 1 .. n /\ 1 < k + 1
        BY <1>1
      <3> QED
        BY <1>1, <1>4, <2>2, <3>1, <3>2 DEF SummariesFirst
    <2> QED
      BY <2>1, <2>2
  <1>5. ASSUME RequestsInOrder(q)
        PROVE  /\ RequestsInOrder(r)
               /\ IsRequest(m) =>
                    \A x \in Range(r) : IsRequest(x)
                      => m.id # x.id /\ (m.id # Final /\ x.id # Final => m.id < x.id)
    <2>1. RequestsInOrder(r)
      <3> SUFFICES ASSUME NEW j \in 1 .. n - 1, NEW k \in 1 .. n - 1, j < k, IsRequest(r[j]), IsRequest(r[k])
                   PROVE  /\ r[j].id # r[k].id
                          /\ r[j].id # Final /\ r[k].id # Final => r[j].id < r[k].id
        BY <1>1 DEF RequestsInOrder
      <3>1. r[j] = q[j + 1] /\ r[k] = q[k + 1] /\ j + 1 < k + 1 /\ j + 1 \in 1 .. n /\ k + 1 \in 1 .. n
        BY <1>1, <1>2
      <3>2. q[j + 1].id # q[k + 1].id
        BY <1>1, <1>5, <3>1 DEF RequestsInOrder
      <3>3. q[j + 1].id # Final /\ q[k + 1].id # Final => q[j + 1].id < q[k + 1].id
        BY <1>1, <1>5, <3>1 DEF RequestsInOrder
      <3> QED
        BY <3>1, <3>2, <3>3
    <2>2. ASSUME IsRequest(m), NEW x \in Range(r), IsRequest(x)
          PROVE  m.id # x.id /\ (m.id # Final /\ x.id # Final => m.id < x.id)
      <3>1. PICK k \in 1 .. n - 1 : x = q[k + 1]
        BY <1>3
      <3>2. k + 1 \in 1 .. n /\ 1 < k + 1
        BY <1>1
      <3> QED
        BY <1>1, <1>5, <2>2, <3>1, <3>2 DEF RequestsInOrder
    <2> QED
      BY <2>1, <2>2
  <1>6. ASSUME NEW a, NEW b, Behind(q, a, b)
        PROVE  Behind(r, a, b)
    <2> SUFFICES ASSUME NEW j \in 1 .. n - 1, IsAnswer(r[j], a)
                 PROVE  \E k \in 1 .. n - 1 : j < k /\ IsAnswer(r[k], b)
      BY <1>1 DEF Behind
    <2>1. r[j] = q[j + 1] /\ j + 1 \in 1 .. n
      BY <1>1
    <2>2. PICK k \in 1 .. n : j + 1 < k /\ IsAnswer(q[k], b)
      BY <1>1, <1>6, <2>1 DEF Behind
    <2>4. n \in Nat /\ k \in 1 .. n /\ j \in 1 .. n - 1 /\ j + 1 < k
      BY <1>1, <2>2
    <2>3. k - 1 \in 1 .. n - 1 /\ j < k - 1 /\ k - 1 + 1 = k
      BY ONLY <2>4
    <2> QED
      BY <1>1, <2>2, <2>3
  <1> QED
    BY <1>4, <1>5, <1>6 DEF r, m

-----------------------------------------------------------------------------
(* The orders that some of the books have received *)

HeardIn(books, got) == UNION {Range(got[i]) : i \in books}

\* What InLane says of the orders received, for all books.
Apart(got, lines, n) ==
  /\ got \in [Instruments -> Seq(Nat)]
  /\ \A i \in Instruments : /\ Range(got[i]) \subseteq {p \in 1 .. n : lines[p] = i}
                            /\ \A j, k \in DOMAIN got[i] : j < k => got[i][j] < got[i][k]

LEMMA HeardFinite ==
  ASSUME NEW n \in Nat, NEW got, NEW lines, Apart(got, lines, n), NEW books \in SUBSET Instruments
  PROVE  /\ IsFiniteSet(HeardIn(books, got)) /\ Cardinality(HeardIn(books, got)) \in Nat
         /\ Cardinality(HeardIn(books, got)) <= Cardinality(HeardIn(Instruments, got))
         /\ Cardinality(HeardIn(Instruments, got)) <= n /\ Cardinality(HeardIn(Instruments, got)) \in Nat
  <1>1. HeardIn(books, got) \subseteq HeardIn(Instruments, got)
    BY DEF HeardIn
  <1>2. HeardIn(Instruments, got) \subseteq 1 .. n
    BY DEF HeardIn, Apart
  <1>3. IsFiniteSet(1 .. n) /\ Cardinality(1 .. n) = n
    BY FS_Interval
  <1>4. /\ IsFiniteSet(HeardIn(Instruments, got)) /\ Cardinality(HeardIn(Instruments, got)) <= n
    BY <1>2, <1>3, FS_Subset
  <1>5. /\ IsFiniteSet(HeardIn(books, got))
        /\ Cardinality(HeardIn(books, got)) <= Cardinality(HeardIn(Instruments, got))
    BY <1>1, <1>4, FS_Subset
  <1> QED
    BY <1>4, <1>5, FS_CardinalityType

LEMMA HeardSplit ==
  ASSUME NEW n \in Nat, NEW got, NEW lines, Apart(got, lines, n), NEW books \in SUBSET Instruments,
         NEW i \in books
  PROVE  Cardinality(HeardIn(books, got)) = Len(got[i]) + Cardinality(HeardIn(books \ {i}, got))
  <1> DEFINE s == got[i]
             rest == HeardIn(books \ {i}, got)
  <1>1. HeardIn(books, got) = Range(s) \cup rest
    BY DEF HeardIn
  <1>2. Range(s) \cap rest = {}
    <2>1. ASSUME NEW p \in Range(s), NEW j \in books \ {i}, p \in Range(got[j]) PROVE FALSE
      BY <2>1 DEF Apart
    <2> QED
      BY <2>1 DEF HeardIn
  <1>3. IsFiniteSet(Range(s)) /\ Cardinality(Range(s)) = Len(s) /\ Len(s) \in Nat
    <2>1. s \in Seq(Nat) /\ \A j, k \in 1 .. Len(s) : j < k => s[j] < s[k]
      BY DEF Apart
    <2> HIDE DEF s
    <2>2. s \in Surjection(1 .. Len(s), Range(s))
      <3>1. s \in [1 .. Len(s) -> Range(s)]
        BY <2>1 DEF Range
      <3> QED
        BY <2>1, <3>1 DEF Surjection, Range
    <2>3. \A j, k \in 1 .. Len(s) : s[j] = s[k] => j = k
      <3> SUFFICES ASSUME NEW j \in 1 .. Len(s), NEW k \in 1 .. Len(s), s[j] = s[k], j # k
                   PROVE  FALSE
        OBVIOUS
      <3>1. s[j] \in Nat /\ s[k] \in Nat /\ (j < k \/ k < j)
        BY <2>1
      <3> QED
        BY <2>1, <3>1
    <2>7. s \in Injection(1 .. Len(s), Range(s))
      <3>1. s \in [1 .. Len(s) -> Range(s)]
        BY <2>2 DEF Surjection
      <3> QED
        BY <2>3, <3>1 DEF Injection, IsInjective
    <2>4. s \in Bijection(1 .. Len(s), Range(s))
      BY <2>2, <2>7 DEF Bijection
    <2>5. ExistsBijection(1 .. Len(s), Range(s))
      BY <2>4 DEF ExistsBijection
    <2>6. Len(s) \in Nat /\ IsFiniteSet(1 .. Len(s)) /\ Cardinality(1 .. Len(s)) = Len(s)
      BY <2>1, FS_Interval
    <2> QED
      BY <2>5, <2>6, FS_Bijection
  <1>4. IsFiniteSet(rest)
    <2>1. books \ {i} \in SUBSET Instruments
      OBVIOUS
    <2> QED
      BY <2>1, HeardFinite
  <1> HIDE DEF s, rest
  <1>5. Cardinality(Range(s) \cup rest) = Cardinality(Range(s)) + Cardinality(rest) - Cardinality({})
    BY <1>2, <1>3, <1>4, FS_Union
  <1>6. Cardinality(rest) \in Nat /\ Cardinality({}) = 0
    BY <1>4, FS_CardinalityType, FS_EmptySet
  <1> QED
    BY <1>1, <1>3, <1>5, <1>6 DEF s, rest

LEMMA NumberAppended ==
  ASSUME NEW g \in Seq(Nat), NEW p \in Nat
  PROVE  Range(Append(g, p)) = Range(g) \cup {p}
  <1> DEFINE n == Len(g)
             r == Append(g, p)
  <1>1. /\ n \in Nat /\ DOMAIN g = 1 .. n /\ DOMAIN r = 1 .. n + 1
        /\ r[n + 1] = p /\ \A k \in 1 .. n : r[k] = g[k] /\ k \in 1 .. n + 1
        /\ n + 1 \in 1 .. n + 1 /\ \A k \in 1 .. n + 1 : k \in 1 .. n \/ k = n + 1
    OBVIOUS
  <1> HIDE DEF n, r
  <1> QED
    BY <1>1 DEF Range, r

\* Order p is appended to what book i has received.
Receives(more, got, i, p) == more = [got EXCEPT ![i] = Append(@, p)]

LEMMA HeardMore ==
  ASSUME NEW n \in Nat, NEW got, NEW lines, Apart(got, lines, n), NEW books \in SUBSET Instruments,
         NEW i \in Instruments, NEW p \in Nat, p \notin HeardIn(Instruments, got), NEW more,
         Receives(more, got, i, p)
  PROVE  Cardinality(HeardIn(books, more))
           = Cardinality(HeardIn(books, got)) + IF i \in books THEN 1 ELSE 0
  <1>1. \A j \in Instruments : got[j] \in Seq(Nat)
    BY DEF Apart
  <1>2. more[i] = Append(got[i], p) /\ \A j \in Instruments : j # i => more[j] = got[j]
    <2>1. got \in [Instruments -> Seq(Nat)]
      BY DEF Apart
    <2> QED
      BY <2>1 DEF Receives
  <1>3. Range(more[i]) = Range(got[i]) \cup {p}
    <2>1. got[i] \in Seq(Nat) /\ p \in Nat
      BY <1>1
    <2>2. Range(Append(got[i], p)) = Range(got[i]) \cup {p}
      BY <2>1, NumberAppended
    <2> QED
      BY <1>2, <2>2
  <1>4. IsFiniteSet(HeardIn(books, got)) /\ Cardinality(HeardIn(books, got)) \in Nat
    BY HeardFinite
  <1>5. CASE i \in books
    <2>1. HeardIn(books, more) = HeardIn(books, got) \cup {p}
      BY <1>2, <1>3, <1>5 DEF HeardIn
    <2>2. p \notin HeardIn(books, got)
      BY DEF HeardIn
    <2>3. Cardinality(HeardIn(books, got) \cup {p}) = Cardinality(HeardIn(books, got)) + 1
      BY <1>4, <2>2, FS_AddElement
    <2> QED
      BY <1>5, <2>1, <2>3
  <1>6. CASE i \notin books
    <2>1. HeardIn(books, more) = HeardIn(books, got)
      BY <1>2, <1>6 DEF HeardIn
    <2> QED
      BY <1>4, <1>6, <2>1
  <1> QED
    BY <1>5, <1>6

-----------------------------------------------------------------------------
(* The sums that the router is making *)

\* The books that have a request in front of them.
Pending(id, boxes) == {i \in Instruments : GetStats(id) \in Range(boxes[i])}

Boxes == [Instruments -> Seq(BookHighMessages)]

LEMMA PendingFinite ==
  ASSUME NEW id, NEW boxes \in Boxes, NEW books \in SUBSET Instruments, IsFiniteSet(books),
         \A i \in Instruments \ books : boxes[i] = <<>>
  PROVE  /\ Pending(id, boxes) \subseteq books
         /\ IsFiniteSet(Pending(id, boxes)) /\ Cardinality(Pending(id, boxes)) \in Nat
         /\ Cardinality(Pending(id, boxes)) = 0 <=> Pending(id, boxes) = {}
  <1>1. Range(<<>>) = {}
    BY DEF Range
  <1>2. Pending(id, boxes) \subseteq books
    BY <1>1 DEF Pending
  <1>3. IsFiniteSet(Pending(id, boxes))
    BY <1>2, FS_Subset
  <1> QED
    BY <1>2, <1>3, FS_CardinalityType, FS_EmptySet

\* Book i takes the first of its messages.
Takes(boxes2, boxes, i) == boxes[i] # <<>> /\ boxes2 = [boxes EXCEPT ![i] = Tail(@)]

LEMMA PendingTaken ==
  ASSUME NEW boxes \in Boxes, NEW i \in Instruments, RequestsInOrder(boxes[i]),
         NEW boxes2, Takes(boxes2, boxes, i)
  PROVE  /\ Head(boxes[i]) = Exit => \A id \in Nat : Pending(id, boxes2) = Pending(id, boxes)
         /\ \A id \in Nat : Head(boxes[i]) = GetStats(id) =>
              /\ i \in Pending(id, boxes) /\ Pending(id, boxes2) = Pending(id, boxes) \ {i}
              /\ \A a \in Nat \ {id} : Pending(a, boxes2) = Pending(a, boxes)
              /\ \A a \in Nat \ {0} : a < id => i \notin Pending(a, boxes)
  <1> DEFINE q == boxes[i]
  <1>1. /\ q \in Seq(BookHighMessages) /\ boxes2[i] = Tail(q)
        /\ \A j \in Instruments : j # i => boxes2[j] = boxes[j]
    BY DEF Boxes, Takes
  <1> HIDE DEF q
  <1>2. /\ Range(q) = Range(Tail(q)) \cup {Head(q)}
        /\ IsRequest(Head(q)) =>
             \A x \in Range(Tail(q)) : IsRequest(x)
               => Head(q).id # x.id /\ (Head(q).id # Final /\ x.id # Final => Head(q).id < x.id)
    <2>1. q # <<>> /\ RequestsInOrder(q)
      BY DEF q, Takes
    <2>2. Range(q) = Range(Tail(q)) \cup {Head(q)}
      BY <1>1, <2>1, Taken
    <2>3. IsRequest(Head(q)) =>
             \A x \in Range(Tail(q)) : IsRequest(x)
               => Head(q).id # x.id /\ (Head(q).id # Final /\ x.id # Final => Head(q).id < x.id)
      BY <1>1, <2>1, OrderTakenFrom
    <2> QED
      BY <2>2, <2>3
  <1>3. \A j \in Instruments \ {i}, id \in Nat : j \in Pending(id, boxes2) <=> j \in Pending(id, boxes)
    BY <1>1 DEF Pending
  <1>4. \A id \in Nat : /\ i \in Pending(id, boxes2) <=> GetStats(id) \in Range(Tail(q))
                        /\ i \in Pending(id, boxes) <=> GetStats(id) \in Range(q)
    BY <1>1 DEF Pending, q
  <1>0. \A id \in Nat : Pending(id, boxes) \subseteq Instruments /\ Pending(id, boxes2) \subseteq Instruments
    BY DEF Pending
  <1>5. ASSUME Head(q) = Exit PROVE \A id \in Nat : Pending(id, boxes2) = Pending(id, boxes)
    <2>1. \A id \in Nat : GetStats(id) # Exit
      BY Messages
    <2> SUFFICES ASSUME NEW id \in Nat PROVE Pending(id, boxes2) = Pending(id, boxes)
      OBVIOUS
    <2>2. i \in Pending(id, boxes2) <=> i \in Pending(id, boxes)
      BY <1>2, <1>4, <1>5, <2>1
    <2>3. \A j \in Instruments : j \in Pending(id, boxes2) <=> j \in Pending(id, boxes)
      BY <1>3, <2>2
    <2>4. Pending(id, boxes) \subseteq Instruments /\ Pending(id, boxes2) \subseteq Instruments
      BY <1>0
    <2> QED
      BY ONLY <2>3, <2>4
  <1>6. ASSUME NEW id \in Nat, Head(q) = GetStats(id)
        PROVE  /\ i \in Pending(id, boxes) /\ Pending(id, boxes2) = Pending(id, boxes) \ {i}
               /\ \A a \in Nat \ {id} : Pending(a, boxes2) = Pending(a, boxes)
               /\ \A a \in Nat \ {0} : a < id => i \notin Pending(a, boxes)
    <2>1. IsRequest(Head(q)) /\ Head(q).id = id
      BY <1>6, Messages DEF IsRequest
    <2>2. \A a \in Nat : IsRequest(GetStats(a)) /\ GetStats(a).id = a
      BY Messages DEF IsRequest
    <2>3. GetStats(id) \notin Range(Tail(q))
      BY <1>2, <2>1, <2>2
    <2>4. i \in Pending(id, boxes) /\ Pending(id, boxes2) = Pending(id, boxes) \ {i}
      <3>1. i \in Pending(id, boxes) /\ i \notin Pending(id, boxes2)
        BY <1>2, <1>4, <1>6, <2>3
      <3> QED
        BY <1>0, <1>3, <3>1
    <2>5. ASSUME NEW a \in Nat \ {id} PROVE Pending(a, boxes2) = Pending(a, boxes)
      <3>1. GetStats(a) # Head(q)
        BY <2>1, <2>2
      <3>2. i \in Pending(a, boxes2) <=> i \in Pending(a, boxes)
        BY <1>2, <1>4, <3>1
      <3>3. \A j \in Instruments : j \in Pending(a, boxes2) <=> j \in Pending(a, boxes)
        BY <1>3, <3>2
      <3>4. Pending(a, boxes) \subseteq Instruments /\ Pending(a, boxes2) \subseteq Instruments
        BY <1>0
      <3> QED
        BY ONLY <3>3, <3>4
    <2>6. ASSUME NEW a \in Nat \ {0}, a < id, i \in Pending(a, boxes) PROVE FALSE
      <3>1. GetStats(a) \in Range(Tail(q))
        BY <1>2, <1>4, <1>6, <2>1, <2>2, <2>6
      <3>2. id # Final /\ a # Final
        BY <2>6 DEF Final
      <3>3. id < a
        BY <1>2, <2>1, <2>2, <3>1, <3>2
      <3> QED
        BY <2>6, <3>3
    <2> QED
      BY <2>4, <2>5, <2>6
  <1> QED
    BY <1>5, <1>6 DEF q

\* All books get a message.
Sent(boxes2, boxes, books, m) ==
  \A i \in Instruments : boxes2[i] = IF i \in books THEN Append(boxes[i], m) ELSE boxes[i]

LEMMA PendingAsked ==
  ASSUME NEW boxes \in Boxes, NEW books \in SUBSET Instruments, NEW m \in BookHighMessages, NEW boxes2,
         Sent(boxes2, boxes, books, m)
  PROVE  \A id \in Nat : Pending(id, boxes2) = Pending(id, boxes) \cup (IF m = GetStats(id) THEN books ELSE {})
  <1>1. ASSUME NEW i \in Instruments
        PROVE  Range(boxes2[i]) = Range(boxes[i]) \cup (IF i \in books THEN {m} ELSE {})
    <2>1. boxes[i] \in Seq(BookHighMessages)
      BY DEF Boxes
    <2>4. m \in BookHighMessages
      OBVIOUS
    <2>2. Range(Append(boxes[i], m)) = Range(boxes[i]) \cup {m}
      BY ONLY <2>1, <2>4, Appended
    <2>3. boxes2[i] = IF i \in books THEN Append(boxes[i], m) ELSE boxes[i]
      BY DEF Sent
    <2> QED
      BY <2>2, <2>3
  <1> QED
    BY <1>1 DEF Pending

\* What a sum will be when the answers still to come are added, if the books
\* receive no further orders.
Prospect(id, fans, q, boxes, got) ==
  fans[id].total + Carried(id, q) + Cardinality(HeardIn(Pending(id, boxes), got))

Got(got) == Cardinality(HeardIn(Instruments, got))

Open(fans) == DOMAIN fans \ {Final}

\* No answer is missing, and none is counted twice.
Counted(id, fans, q, boxes, got) ==
  /\ fans[id].waiting = Answers(id, q) + Cardinality(Pending(id, boxes))
  /\ Prospect(id, fans, q, boxes, got) <= Got(got)

\* The later of two reports is answered later, by every book.
Ordered(a, b, fans, q, boxes, got) ==
  /\ Prospect(a, fans, q, boxes, got) <= Prospect(b, fans, q, boxes, got)
  /\ Pending(a, boxes) \subseteq Pending(b, boxes)
  /\ Pending(b, boxes) = {} => Behind(q, a, b)

Summing(fans, q, boxes, got, reps) ==
  /\ \A id \in DOMAIN fans : Counted(id, fans, q, boxes, got)
  /\ \A a, b \in Open(fans) : a < b => Ordered(a, b, fans, q, boxes, got)
  /\ \A k \in DOMAIN reps : /\ reps[k].total <= Got(got)
                            /\ \A id \in Open(fans) : reps[k].total <= Prospect(id, fans, q, boxes, got)

\* The types of all this.
Framed(fans, q, boxes, got, reps, books, lines, n) ==
  /\ q \in Seq(HighMessages) /\ boxes \in Boxes
  /\ n \in Nat /\ Apart(got, lines, n)
  /\ books \in SUBSET Instruments /\ IsFiniteSet(books)
  /\ \A i \in Instruments \ books : boxes[i] = <<>> /\ got[i] = <<>>
  /\ \A id \in DOMAIN fans : id \in Nat /\ fans[id].total \in Nat /\ fans[id].waiting \in Nat
  /\ \A k \in DOMAIN reps : reps[k].total \in Nat

LEMMA ProspectNat ==
  ASSUME NEW fans, NEW q, NEW boxes, NEW got, NEW reps, NEW books, NEW lines, NEW n,
         Framed(fans, q, boxes, got, reps, books, lines, n)
  PROVE  /\ Got(got) \in Nat /\ Got(got) <= n
         /\ \A id \in DOMAIN fans :
              /\ Prospect(id, fans, q, boxes, got) \in Nat
              /\ Answers(id, q) \in Nat /\ Carried(id, q) \in Nat
              /\ Cardinality(HeardIn(Pending(id, boxes), got)) \in Nat
  <1>1. Got(got) \in Nat /\ Got(got) <= n
    BY HeardFinite DEF Got, Framed
  <1>2. ASSUME NEW id \in DOMAIN fans
        PROVE  /\ Prospect(id, fans, q, boxes, got) \in Nat
               /\ Answers(id, q) \in Nat /\ Carried(id, q) \in Nat
               /\ Cardinality(HeardIn(Pending(id, boxes), got)) \in Nat
    <2>1. fans[id].total \in Nat /\ q \in Seq(HighMessages) /\ n \in Nat /\ Apart(got, lines, n)
      BY DEF Framed
    <2>2. Answers(id, q) \in Nat /\ Carried(id, q) \in Nat
      BY <2>1, AnswersNat
    <2>3. Pending(id, boxes) \in SUBSET Instruments
      BY DEF Pending
    <2>4. Cardinality(HeardIn(Pending(id, boxes), got)) \in Nat
      BY <2>1, <2>3, HeardFinite
    <2> QED
      BY <2>1, <2>2, <2>4 DEF Prospect
  <1> QED
    BY <1>1, <1>2

\* A step that leaves the prospects of the sums alone.
LEMMA SameProspects ==
  ASSUME NEW fans, NEW q, NEW boxes, NEW got, NEW reps, NEW fans2, NEW q2, NEW boxes2,
         Summing(fans, q, boxes, got, reps), DOMAIN fans2 \subseteq DOMAIN fans,
         \A id \in DOMAIN fans2 :
           /\ Prospect(id, fans2, q2, boxes2, got) = Prospect(id, fans, q, boxes, got)
           /\ fans2[id].waiting = Answers(id, q2) + Cardinality(Pending(id, boxes2)),
         \A a, b \in Open(fans2) :
           a < b => /\ Pending(a, boxes2) \subseteq Pending(b, boxes2)
                    /\ Pending(b, boxes2) = {} => Behind(q2, a, b)
  PROVE  Summing(fans2, q2, boxes2, got, reps)
  <1>1. Open(fans2) \subseteq Open(fans) /\ Open(fans2) \subseteq DOMAIN fans2
    BY DEF Open
  <1>2. \A id \in DOMAIN fans2 : Counted(id, fans2, q2, boxes2, got)
    BY DEF Summing, Counted
  <1>3. ASSUME NEW a \in Open(fans2), NEW b \in Open(fans2), a < b
        PROVE  Ordered(a, b, fans2, q2, boxes2, got)
    <2>1. Ordered(a, b, fans, q, boxes, got)
      BY <1>1, <1>3 DEF Summing
    <2> QED
      BY <1>1, <1>3, <2>1 DEF Ordered
  <1>4. \A k \in DOMAIN reps :
          /\ reps[k].total <= Got(got)
          /\ \A id \in Open(fans2) : reps[k].total <= Prospect(id, fans2, q2, boxes2, got)
    BY <1>1 DEF Summing
  <1> QED
    BY <1>2, <1>3, <1>4 DEF Summing

(* How the steps change the sums *)

LEMMA OpenNat ==
  ASSUME NEW fans, NEW q, NEW boxes, NEW got, NEW reps, NEW books, NEW lines, NEW n,
         Framed(fans, q, boxes, got, reps, books, lines, n)
  PROVE  \A a, b \in Open(fans) : /\ a \in Nat \ {0} /\ a \in DOMAIN fans
                                  /\ a < b => a # b
  BY DEF Framed, Open, Final

\* A message that is no answer enters the router's queue.
LEMMA SummingAppended ==
  ASSUME NEW fans, NEW q, NEW boxes, NEW got, NEW reps, NEW books, NEW lines, NEW n,
         Framed(fans, q, boxes, got, reps, books, lines, n), Summing(fans, q, boxes, got, reps),
         NEW m \in HighMessages, m.kind # "stats"
  PROVE  Summing(fans, Append(q, m), boxes, got, reps)
  <1> DEFINE q2 == Append(q, m)
  <1>1. q \in Seq(HighMessages) /\ \A id : ~IsAnswer(m, id)
    BY DEF Framed, IsAnswer
  <1>2. ASSUME NEW id PROVE Answers(id, q2) = Answers(id, q) /\ Carried(id, q2) = Carried(id, q)
    <2>1. ~IsAnswer(m, id)
      BY <1>1
    <2> QED
      BY <1>1, <2>1, AnswersAppended
  <1>3. \A a, b : Behind(q, a, b) /\ a # b => Behind(q2, a, b)
    BY <1>1, OrderAppendedTo
  <1> HIDE DEF q2
  <1>4. \A id \in DOMAIN fans :
          /\ Prospect(id, fans, q2, boxes, got) = Prospect(id, fans, q, boxes, got)
          /\ fans[id].waiting = Answers(id, q2) + Cardinality(Pending(id, boxes))
    BY <1>2 DEF Prospect, Summing, Counted
  <1>5. ASSUME NEW a \in Open(fans), NEW b \in Open(fans), a < b
        PROVE  /\ Pending(a, boxes) \subseteq Pending(b, boxes)
               /\ Pending(b, boxes) = {} => Behind(q2, a, b)
    <2>1. Ordered(a, b, fans, q, boxes, got)
      BY <1>5 DEF Summing
    <2>2. a # b
      BY <1>5, OpenNat
    <2> QED
      BY <1>3, <2>1, <2>2 DEF Ordered
  <1>6. Summing(fans, q2, boxes, got, reps)
    BY <1>4, <1>5, SameProspects
  <1> QED
    BY <1>6 DEF q2

\* The router takes a message that is no answer.
LEMMA SummingTaken ==
  ASSUME NEW fans, NEW q, NEW boxes, NEW got, NEW reps, NEW books, NEW lines, NEW n,
         Framed(fans, q, boxes, got, reps, books, lines, n), Summing(fans, q, boxes, got, reps),
         q # <<>>, Head(q).kind # "stats"
  PROVE  /\ Summing(fans, Tail(q), boxes, got, reps)
         /\ \A id : Answers(id, Tail(q)) = Answers(id, q) /\ Carried(id, Tail(q)) = Carried(id, q)
  <1> DEFINE q2 == Tail(q)
  <1>1. q \in Seq(HighMessages) /\ \A id : ~IsAnswer(Head(q), id)
    BY DEF Framed, IsAnswer
  <1>2. ASSUME NEW id PROVE Answers(id, q2) = Answers(id, q) /\ Carried(id, q2) = Carried(id, q)
    <2>1. ~IsAnswer(Head(q), id)
      BY <1>1
    <2> QED
      BY <1>1, <2>1, AnswersTaken
  <1>3. \A a, b : Behind(q, a, b) => Behind(q2, a, b)
    BY <1>1, OrderTakenFrom
  <1> HIDE DEF q2
  <1>4. \A id \in DOMAIN fans :
          /\ Prospect(id, fans, q2, boxes, got) = Prospect(id, fans, q, boxes, got)
          /\ fans[id].waiting = Answers(id, q2) + Cardinality(Pending(id, boxes))
    BY <1>2 DEF Prospect, Summing, Counted
  <1>5. ASSUME NEW a \in Open(fans), NEW b \in Open(fans), a < b
        PROVE  /\ Pending(a, boxes) \subseteq Pending(b, boxes)
               /\ Pending(b, boxes) = {} => Behind(q2, a, b)
    BY <1>3, <1>5 DEF Summing, Ordered
  <1>6. Summing(fans, q2, boxes, got, reps)
    BY <1>4, <1>5, SameProspects
  <1> QED
    BY <1>2, <1>6 DEF q2

\* A book takes or gets a message that is no request.
LEMMA SummingElsewhere ==
  ASSUME NEW fans, NEW q, NEW boxes, NEW got, NEW reps, NEW boxes2, Summing(fans, q, boxes, got, reps),
         \A id \in DOMAIN fans : Pending(id, boxes2) = Pending(id, boxes)
  PROVE  Summing(fans, q, boxes2, got, reps)
  <1>1. \A id \in DOMAIN fans :
          /\ Prospect(id, fans, q, boxes2, got) = Prospect(id, fans, q, boxes, got)
          /\ fans[id].waiting = Answers(id, q) + Cardinality(Pending(id, boxes2))
    BY DEF Prospect, Summing, Counted
  <1>2. ASSUME NEW a \in Open(fans), NEW b \in Open(fans), a < b
        PROVE  /\ Pending(a, boxes2) \subseteq Pending(b, boxes2)
               /\ Pending(b, boxes2) = {} => Behind(q, a, b)
    <2>1. a \in DOMAIN fans /\ b \in DOMAIN fans
      BY DEF Open
    <2> QED
      BY <1>2, <2>1 DEF Summing, Ordered
  <1> QED
    BY <1>1, <1>2, SameProspects

\* Book i answers the first of its requests.
LEMMA SummingAnswered ==
  ASSUME NEW fans, NEW q, NEW boxes, NEW got, NEW reps, NEW books, NEW lines, NEW n,
         Framed(fans, q, boxes, got, reps, books, lines, n), Summing(fans, q, boxes, got, reps),
         NEW i \in Instruments, NEW id \in DOMAIN fans, NEW boxes2, NEW q2,
         i \in Pending(id, boxes), Pending(id, boxes2) = Pending(id, boxes) \ {i},
         \A a \in Nat \ {id} : Pending(a, boxes2) = Pending(a, boxes),
         \A a \in Nat \ {0} : a < id => i \notin Pending(a, boxes),
         q2 = Append(q, Stats(id, Len(got[i])))
  PROVE  Summing(fans, q2, boxes2, got, reps)
  <1> DEFINE c == Len(got[i])
             m == Stats(id, c)
  <1>1. /\ q \in Seq(HighMessages) /\ n \in Nat /\ Apart(got, lines, n) /\ id \in Nat
        /\ fans[id].total \in Nat /\ fans[id].waiting \in Nat /\ DOMAIN fans \subseteq Nat
        /\ boxes \in Boxes /\ books \in SUBSET Instruments /\ IsFiniteSet(books)
        /\ \A j \in Instruments \ books : boxes[j] = <<>>
    BY DEF Framed
  <1>2. c \in Nat
    BY <1>1 DEF Apart
  <1>3. m \in HighMessages /\ IsAnswer(m, id) /\ m.total = c /\ \A a : a # id => ~IsAnswer(m, a)
    BY <1>1, <1>2, Messages DEF IsAnswer
  <1>0. q2 = Append(q, m)
    OBVIOUS
  <1> HIDE DEF m
  <1>4. Answers(id, q2) = Answers(id, q) + 1 /\ Carried(id, q2) = Carried(id, q) + c
    BY <1>0, <1>1, <1>3, AnswersAppended
  <1>5. ASSUME NEW a, a # id PROVE Answers(a, q2) = Answers(a, q) /\ Carried(a, q2) = Carried(a, q)
    <2>1. ~IsAnswer(m, a)
      BY <1>3, <1>5
    <2> QED
      BY <1>0, <1>1, <1>3, <2>1, AnswersAppended
  <1>6. /\ IsFiniteSet(Pending(id, boxes)) /\ Cardinality(Pending(id, boxes)) \in Nat
        /\ Pending(id, boxes) \in SUBSET Instruments
    BY <1>1, PendingFinite
  <1>7. Cardinality(Pending(id, boxes2)) = Cardinality(Pending(id, boxes)) - 1
    <2> DEFINE S == Pending(id, boxes)
    <2>1. IsFiniteSet(S) /\ i \in S
      BY <1>6
    <2>2. Pending(id, boxes2) = S \ {i}
      OBVIOUS
    <2> HIDE DEF S
    <2>3. Cardinality(S \ {i}) = Cardinality(S) - 1
      BY <2>1, FS_RemoveElement
    <2> QED
      BY <2>2, <2>3 DEF S
  <1>8. Cardinality(HeardIn(Pending(id, boxes), got))
          = c + Cardinality(HeardIn(Pending(id, boxes2), got))
    BY <1>1, <1>6, HeardSplit
  <1>9. Cardinality(HeardIn(Pending(id, boxes2), got)) \in Nat
    <2>1. Pending(id, boxes2) \in SUBSET Instruments
      BY <1>6
    <2> QED
      BY <1>1, <2>1, HeardFinite
  <1>10. Answers(id, q) \in Nat /\ Carried(id, q) \in Nat
    BY <1>1, AnswersNat
  <1>11. fans[id].waiting = Answers(id, q) + Cardinality(Pending(id, boxes))
    BY DEF Summing, Counted
  <1> HIDE DEF c
  <1>12. /\ Prospect(id, fans, q2, boxes2, got) = Prospect(id, fans, q, boxes, got)
         /\ fans[id].waiting = Answers(id, q2) + Cardinality(Pending(id, boxes2))
    <2>1. fans[id].waiting = Answers(id, q2) + Cardinality(Pending(id, boxes2))
      BY <1>4, <1>6, <1>7, <1>10, <1>11
    <2>2. fans[id].total + (Carried(id, q) + c) + Cardinality(HeardIn(Pending(id, boxes2), got))
            = fans[id].total + Carried(id, q) + (c + Cardinality(HeardIn(Pending(id, boxes2), got)))
      BY <1>1, <1>2, <1>9, <1>10
    <2> QED
      BY <1>4, <1>8, <2>1, <2>2 DEF Prospect
  <1>13. ASSUME NEW a \in DOMAIN fans, a # id
         PROVE  /\ Prospect(a, fans, q2, boxes2, got) = Prospect(a, fans, q, boxes, got)
                /\ fans[a].waiting = Answers(a, q2) + Cardinality(Pending(a, boxes2))
    <2>1. a \in Nat \ {id}
      BY <1>1, <1>13
    <2>2. Pending(a, boxes2) = Pending(a, boxes)
      BY <2>1
    <2> QED
      BY <1>5, <1>13, <2>2 DEF Prospect, Summing, Counted
  <1>14. ASSUME NEW a \in Open(fans), NEW b \in Open(fans), a < b
         PROVE  /\ Pending(a, boxes2) \subseteq Pending(b, boxes2)
                /\ Pending(b, boxes2) = {} => Behind(q2, a, b)
    <2>1. a # b /\ a \in Nat \ {0} /\ b \in Nat \ {0}
      BY <1>14, OpenNat
    <2>2. /\ Pending(a, boxes) \subseteq Pending(b, boxes)
          /\ Pending(b, boxes) = {} => Behind(q, a, b)
      BY <1>14 DEF Summing, Ordered
    <2>3. CASE b = id
      <3>1. Pending(a, boxes2) = Pending(a, boxes) /\ i \notin Pending(a, boxes)
        BY <1>14, <2>1, <2>3
      <3>2. Behind(q2, a, b)
        BY <1>0, <1>1, <1>3, <2>1, <2>3, OrderAppendedTo
      <3> QED
        BY <2>2, <2>3, <3>1, <3>2
    <2>4. CASE a = id
      <3>1. Pending(b, boxes2) = Pending(b, boxes) /\ i \in Pending(b, boxes)
        BY <2>1, <2>2, <2>4
      <3> QED
        BY <2>2, <2>4, <3>1
    <2>5. CASE a # id /\ b # id
      <3>1. Pending(a, boxes2) = Pending(a, boxes) /\ Pending(b, boxes2) = Pending(b, boxes)
        BY <2>1, <2>5
      <3>2. ~IsAnswer(m, a)
        BY <1>3, <2>5
      <3>3. Behind(q, a, b) => Behind(q2, a, b)
        BY <1>0, <1>1, <1>3, <2>1, <3>2, OrderAppendedTo
      <3> QED
        BY <2>2, <3>1, <3>3
    <2> QED
      BY <2>3, <2>4, <2>5
  <1>15. \A a \in DOMAIN fans :
           /\ Prospect(a, fans, q2, boxes2, got) = Prospect(a, fans, q, boxes, got)
           /\ fans[a].waiting = Answers(a, q2) + Cardinality(Pending(a, boxes2))
    BY <1>12, <1>13
  <1> QED
    BY <1>14, <1>15, SameProspects

\* Book i receives an order.
LEMMA SummingReceived ==
  ASSUME NEW fans, NEW q, NEW boxes, NEW got, NEW reps, NEW books, NEW lines, NEW n,
         Framed(fans, q, boxes, got, reps, books, lines, n), Summing(fans, q, boxes, got, reps),
         NEW i \in Instruments, NEW p \in Nat, p \notin HeardIn(Instruments, got), NEW got2,
         Receives(got2, got, i, p)
  PROVE  Summing(fans, q, boxes, got2, reps)
  <1> DEFINE P(id) == Prospect(id, fans, q, boxes, got)
             P2(id) == Prospect(id, fans, q, boxes, got2)
  <1>1. /\ n \in Nat /\ Apart(got, lines, n) /\ \A k \in DOMAIN reps : reps[k].total \in Nat
        /\ \A id \in DOMAIN fans : fans[id].total \in Nat
    BY DEF Framed
  <1>2. ASSUME NEW some \in SUBSET Instruments
        PROVE  Cardinality(HeardIn(some, got2))
                 = Cardinality(HeardIn(some, got)) + IF i \in some THEN 1 ELSE 0
    BY <1>1, HeardMore
  <1>3. Got(got2) = Got(got) + 1
    BY <1>2 DEF Got
  <1>4. /\ Got(got) \in Nat
        /\ \A id \in DOMAIN fans : /\ P(id) \in Nat /\ Carried(id, q) \in Nat
                                   /\ Cardinality(HeardIn(Pending(id, boxes), got)) \in Nat
    BY ProspectNat
  <1>5. ASSUME NEW id \in DOMAIN fans
        PROVE  P2(id) = P(id) + IF i \in Pending(id, boxes) THEN 1 ELSE 0
    <2>1. Pending(id, boxes) \in SUBSET Instruments
      BY DEF Pending
    <2>2. Cardinality(HeardIn(Pending(id, boxes), got2))
            = Cardinality(HeardIn(Pending(id, boxes), got)) + IF i \in Pending(id, boxes) THEN 1 ELSE 0
      BY <1>2, <2>1
    <2> QED
      BY <1>1, <1>4, <2>2 DEF Prospect
  <1> HIDE DEF P, P2
  <1>6. ASSUME NEW id \in DOMAIN fans PROVE Counted(id, fans, q, boxes, got2)
    <2>1. fans[id].waiting = Answers(id, q) + Cardinality(Pending(id, boxes)) /\ P(id) <= Got(got)
      BY DEF Summing, Counted, P
    <2>2. P2(id) <= Got(got2)
      BY <1>3, <1>4, <1>5, <2>1
    <2> QED
      BY <2>1, <2>2 DEF Counted, P2
  <1>7. ASSUME NEW a \in Open(fans), NEW b \in Open(fans), a < b
        PROVE  Ordered(a, b, fans, q, boxes, got2)
    <2>1. a \in DOMAIN fans /\ b \in DOMAIN fans
      BY DEF Open
    <2>2. /\ P(a) <= P(b)
          /\ Pending(a, boxes) \subseteq Pending(b, boxes)
          /\ Pending(b, boxes) = {} => Behind(q, a, b)
      BY <1>7 DEF Summing, Ordered, P
    <2>3. P2(a) <= P2(b)
      <3>1. /\ P(a) \in Nat /\ P(b) \in Nat
            /\ P2(a) = P(a) + IF i \in Pending(a, boxes) THEN 1 ELSE 0
            /\ P2(b) = P(b) + IF i \in Pending(b, boxes) THEN 1 ELSE 0
            /\ i \in Pending(a, boxes) => i \in Pending(b, boxes)
        BY <1>4, <1>5, <2>1, <2>2
      <3> QED
        BY <2>2, <3>1
    <2> QED
      BY <2>2, <2>3 DEF Ordered, P2
  <1>8. ASSUME NEW k \in DOMAIN reps
        PROVE  reps[k].total <= Got(got2) /\ \A id \in Open(fans) : reps[k].total <= P2(id)
    <2>1. reps[k].total \in Nat /\ reps[k].total <= Got(got)
      BY <1>1 DEF Summing
    <2>2. ASSUME NEW id \in Open(fans) PROVE reps[k].total <= P2(id)
      <3>1. id \in DOMAIN fans /\ reps[k].total <= P(id)
        BY DEF Open, Summing, P
      <3>2. P(id) \in Nat /\ P2(id) = P(id) + IF i \in Pending(id, boxes) THEN 1 ELSE 0
        BY <1>4, <1>5, <3>1
      <3> QED
        BY <2>1, <3>1, <3>2
    <2> QED
      BY <1>3, <1>4, <2>1, <2>2
  <1> QED
    BY <1>6, <1>7, <1>8 DEF Summing, P2

\* All books are asked.
LEMMA SummingAsked ==
  ASSUME NEW fans, NEW q, NEW boxes, NEW got, NEW reps, NEW books, NEW lines, NEW n,
         Framed(fans, q, boxes, got, reps, books, lines, n), Summing(fans, q, boxes, got, reps),
         NEW id \in Nat, id \notin DOMAIN fans, id # Final => \A a \in Open(fans) : a < id,
         Answers(id, q) = 0, books # {},
         NEW boxes2, Pending(id, boxes2) = books,
         \A a \in Nat \ {id} : Pending(a, boxes2) = Pending(a, boxes),
         NEW fans2, DOMAIN fans2 = DOMAIN fans \cup {id},
         fans2[id].waiting = Cardinality(books), fans2[id].total = 0,
         \A a \in DOMAIN fans : fans2[a] = fans[a]
  PROVE  Summing(fans2, q, boxes2, got, reps)
  <1> DEFINE P(a) == Prospect(a, fans, q, boxes, got)
             P2(a) == Prospect(a, fans2, q, boxes2, got)
  <1>1. /\ q \in Seq(HighMessages) /\ DOMAIN fans \subseteq Nat /\ books \in SUBSET Instruments
        /\ \A i \in Instruments \ books : got[i] = <<>> /\ boxes[i] = <<>>
        /\ \A k \in DOMAIN reps : reps[k].total \in Nat
        /\ IsFiniteSet(books) /\ boxes \in Boxes
    BY DEF Framed
  <1>2. HeardIn(books, got) = HeardIn(Instruments, got)
    <2>1. \A i \in Instruments \ books : Range(got[i]) = {}
      BY <1>1 DEF Range
    <2>2. HeardIn(books, got) \subseteq HeardIn(Instruments, got)
      BY <1>1 DEF HeardIn
    <2>3. ASSUME NEW i \in Instruments, NEW p \in Range(got[i]) PROVE p \in HeardIn(books, got)
      <3>1. i \in books
        BY <2>1, <2>3
      <3> QED
        BY <2>3, <3>1 DEF HeardIn
    <2>4. HeardIn(Instruments, got) \subseteq HeardIn(books, got)
      BY <2>3 DEF HeardIn
    <2> QED
      BY <2>2, <2>4
  <1>3. Got(got) \in Nat /\ \A a \in DOMAIN fans : P(a) \in Nat
    BY ProspectNat
  <1>4. P2(id) = Got(got)
    <2>1. Carried(id, q) = 0
      BY <1>1, NoAnswers
    <2> QED
      BY <1>2, <1>3, <2>1 DEF Prospect, Got
  <1>5. Cardinality(books) \in Nat
    BY <1>1, FS_CardinalityType
  <1>6. Counted(id, fans2, q, boxes2, got)
    BY <1>3, <1>4, <1>5 DEF Counted
  <1>7. ASSUME NEW a \in DOMAIN fans
        PROVE  /\ P2(a) = P(a) /\ Counted(a, fans2, q, boxes2, got)
               /\ Pending(a, boxes2) = Pending(a, boxes) /\ P(a) <= Got(got)
    <2>1. a \in Nat \ {id} /\ fans2[a] = fans[a]
      BY <1>1
    <2>2. Pending(a, boxes2) = Pending(a, boxes)
      BY <2>1
    <2>3. Counted(a, fans, q, boxes, got)
      BY DEF Summing
    <2> QED
      BY <2>1, <2>2, <2>3 DEF Counted, Prospect
  <1> HIDE DEF P, P2
  <1>8. ASSUME NEW a \in Open(fans2), NEW b \in Open(fans2), a < b
        PROVE  Ordered(a, b, fans2, q, boxes2, got)
    <2>1. /\ a \in DOMAIN fans \cup {id} /\ b \in DOMAIN fans \cup {id} /\ a # Final /\ b # Final
          /\ a \in Nat /\ b \in Nat
      BY <1>1 DEF Open
    <2>2. CASE a = id
      <3>1. b \in Open(fans) /\ id # Final
        BY <1>8, <2>1, <2>2 DEF Open
      <3>2. b < a
        BY <2>2, <3>1
      <3> QED
        BY <1>8, <2>1, <3>2
    <2>3. CASE a # id /\ b = id
      <3>1. a \in DOMAIN fans
        BY <2>1, <2>3
      <3>2. P2(a) <= P2(b)
        BY <1>4, <1>7, <2>3, <3>1
      <3>3. Pending(a, boxes2) \subseteq Pending(b, boxes2)
        <4>1. Pending(a, boxes) \subseteq books
          BY <1>1, PendingFinite
        <4> QED
          BY <1>7, <2>3, <3>1, <4>1
      <3> QED
        BY <2>3, <3>2, <3>3 DEF Ordered, P2
    <2>4. CASE a # id /\ b # id
      <3>1. a \in Open(fans) /\ b \in Open(fans)
        BY <2>1, <2>4 DEF Open
      <3>2. Ordered(a, b, fans, q, boxes, got)
        BY <1>8, <3>1 DEF Summing
      <3>3. P2(a) = P(a) /\ P2(b) = P(b) /\ Pending(a, boxes2) = Pending(a, boxes) /\ Pending(b, boxes2) = Pending(b, boxes)
        BY <1>7, <3>1 DEF Open
      <3> QED
        BY <3>2, <3>3 DEF Ordered, P, P2
    <2> QED
      BY <2>2, <2>3, <2>4
  <1>9. ASSUME NEW k \in DOMAIN reps
        PROVE  reps[k].total <= Got(got) /\ \A a \in Open(fans2) : reps[k].total <= P2(a)
    <2>1. reps[k].total <= Got(got)
      BY DEF Summing
    <2>2. ASSUME NEW a \in Open(fans2), a # id PROVE reps[k].total <= P2(a)
      <3>1. a \in Open(fans) /\ a \in DOMAIN fans
        BY <2>2 DEF Open
      <3>2. reps[k].total <= P(a)
        BY <3>1 DEF Summing, P
      <3> QED
        BY <1>7, <3>1, <3>2
    <2> QED
      BY <1>4, <2>1, <2>2
  <1>10. \A a \in DOMAIN fans2 : Counted(a, fans2, q, boxes2, got)
    BY <1>6, <1>7
  <1> QED
    BY <1>8, <1>9, <1>10 DEF Summing, P2

\* The router takes an answer to request id.
LEMMA AnswerTaken ==
  ASSUME NEW fans, NEW q, NEW boxes, NEW got, NEW reps, NEW books, NEW lines, NEW n,
         Framed(fans, q, boxes, got, reps, books, lines, n), Summing(fans, q, boxes, got, reps),
         q # <<>>, NEW id \in DOMAIN fans, IsAnswer(Head(q), id)
  PROVE  /\ Answers(id, q) = 1 + Answers(id, Tail(q))
         /\ Carried(id, q) = Head(q).total + Carried(id, Tail(q))
         /\ Answers(id, Tail(q)) \in Nat /\ Carried(id, Tail(q)) \in Nat /\ Head(q).total \in Nat
         /\ Tail(q) \in Seq(HighMessages)
         /\ \A a : a # id => Answers(a, Tail(q)) = Answers(a, q) /\ Carried(a, Tail(q)) = Carried(a, q)
         /\ \A a, b : Behind(q, a, b) => Behind(Tail(q), a, b)
  <1>1. q \in Seq(HighMessages) /\ Head(q) \in HighMessages /\ Tail(q) \in Seq(HighMessages)
    BY DEF Framed
  <1>2. Head(q).total \in Nat
    BY <1>1, Kinds DEF IsAnswer
  <1>3. Answers(id, q) = 1 + Answers(id, Tail(q)) /\ Carried(id, q) = Head(q).total + Carried(id, Tail(q))
    BY <1>1, AnswersTaken
  <1>4. Answers(id, Tail(q)) \in Nat /\ Carried(id, Tail(q)) \in Nat
    BY <1>1, AnswersNat
  <1>5. ASSUME NEW a, a # id PROVE Answers(a, Tail(q)) = Answers(a, q) /\ Carried(a, Tail(q)) = Carried(a, q)
    <2>1. ~IsAnswer(Head(q), a)
      BY <1>5 DEF IsAnswer
    <2> QED
      BY <1>1, <2>1, AnswersTaken
  <1>6. \A a, b : Behind(q, a, b) => Behind(Tail(q), a, b)
    BY <1>1, OrderTakenFrom
  <1> QED
    BY <1>1, <1>2, <1>3, <1>4, <1>5, <1>6

\* It is not the last.
LEMMA SummingCollected ==
  ASSUME NEW fans, NEW q, NEW boxes, NEW got, NEW reps, NEW books, NEW lines, NEW n,
         Framed(fans, q, boxes, got, reps, books, lines, n), Summing(fans, q, boxes, got, reps),
         q # <<>>, NEW id \in DOMAIN fans, IsAnswer(Head(q), id),
         NEW fans2, DOMAIN fans2 = DOMAIN fans,
         fans2[id].waiting = fans[id].waiting - 1, fans2[id].total = fans[id].total + Head(q).total,
         \A a \in DOMAIN fans : a # id => fans2[a] = fans[a]
  PROVE  /\ Summing(fans2, Tail(q), boxes, got, reps)
         /\ fans2[id].total \in Nat /\ fans2[id].total <= Got(got)
  <1> DEFINE r == Tail(q)
             t == Head(q).total
             h == Cardinality(HeardIn(Pending(id, boxes), got))
  <1>1. /\ Answers(id, q) = 1 + Answers(id, r) /\ Carried(id, q) = t + Carried(id, r)
        /\ Answers(id, r) \in Nat /\ Carried(id, r) \in Nat /\ t \in Nat
        /\ \A a : a # id => Answers(a, r) = Answers(a, q) /\ Carried(a, r) = Carried(a, q)
        /\ \A a, b : Behind(q, a, b) => Behind(r, a, b)
    BY AnswerTaken
  <1>2. /\ fans[id].total \in Nat /\ h \in Nat /\ Got(got) \in Nat
    BY ProspectNat DEF Framed
  <1>3. /\ fans[id].waiting = Answers(id, q) + Cardinality(Pending(id, boxes))
        /\ Prospect(id, fans, q, boxes, got) <= Got(got)
    BY DEF Summing, Counted
  <1>4. Cardinality(Pending(id, boxes)) \in Nat
    BY PendingFinite DEF Framed
  <1> HIDE DEF r, t, h
  <1>5. /\ Prospect(id, fans2, r, boxes, got) = Prospect(id, fans, q, boxes, got)
        /\ fans2[id].waiting = Answers(id, r) + Cardinality(Pending(id, boxes))
        /\ fans2[id].total \in Nat /\ fans2[id].total <= Got(got)
    <2>1. /\ Prospect(id, fans, q, boxes, got) = fans[id].total + (t + Carried(id, r)) + h
          /\ Prospect(id, fans2, r, boxes, got) = (fans[id].total + t) + Carried(id, r) + h
          /\ fans2[id].total = fans[id].total + t
      BY <1>1 DEF Prospect, h, t
    <2>2. fans2[id].waiting = Answers(id, r) + Cardinality(Pending(id, boxes))
      BY <1>1, <1>3, <1>4
    <2> QED
      BY <1>1, <1>2, <1>3, <2>1, <2>2
  <1>6. ASSUME NEW a \in DOMAIN fans, a # id
        PROVE  /\ Prospect(a, fans2, r, boxes, got) = Prospect(a, fans, q, boxes, got)
               /\ fans2[a].waiting = Answers(a, r) + Cardinality(Pending(a, boxes))
    <2>1. fans2[a] = fans[a] /\ Answers(a, r) = Answers(a, q) /\ Carried(a, r) = Carried(a, q)
      BY <1>1, <1>6
    <2> QED
      BY <2>1 DEF Prospect, Summing, Counted
  <1>7. \A a \in DOMAIN fans2 :
          /\ Prospect(a, fans2, r, boxes, got) = Prospect(a, fans, q, boxes, got)
          /\ fans2[a].waiting = Answers(a, r) + Cardinality(Pending(a, boxes))
    BY <1>5, <1>6
  <1>8. ASSUME NEW a \in Open(fans2), NEW b \in Open(fans2), a < b
        PROVE  /\ Pending(a, boxes) \subseteq Pending(b, boxes)
               /\ Pending(b, boxes) = {} => Behind(r, a, b)
    <2>1. a \in Open(fans) /\ b \in Open(fans)
      BY DEF Open
    <2> QED
      BY <1>1, <1>8, <2>1 DEF Summing, Ordered
  <1>9. Summing(fans2, r, boxes, got, reps)
    BY <1>7, <1>8, SameProspects
  <1> QED
    BY <1>5, <1>9 DEF r

Waits(fans) == \A id \in DOMAIN fans : fans[id].waiting > 0
Without(fans2, fans, id) == /\ DOMAIN fans2 = DOMAIN fans \ {id}
                            /\ \A a \in DOMAIN fans2 : fans2[a] = fans[a]

\* It is the last: the sum is the prospect, and no earlier report is open.
LEMMA SummingDone ==
  ASSUME NEW fans, NEW q, NEW boxes, NEW got, NEW reps, NEW books, NEW lines, NEW n,
         Framed(fans, q, boxes, got, reps, books, lines, n), Summing(fans, q, boxes, got, reps),
         Waits(fans), q # <<>>, NEW id \in DOMAIN fans, IsAnswer(Head(q), id), fans[id].waiting = 1,
         NEW fans2, Without(fans2, fans, id), NEW sum, sum = fans[id].total + Head(q).total
  PROVE  /\ Summing(fans2, Tail(q), boxes, got, reps)
         /\ Pending(id, boxes) = {} /\ Answers(id, Tail(q)) = 0
         /\ sum \in Nat /\ sum <= Got(got)
         /\ id # Final => /\ \A a \in Open(fans2) : id < a /\ sum <= Prospect(a, fans2, Tail(q), boxes, got)
                          /\ \A k \in DOMAIN reps : reps[k].total <= sum
  <1> DEFINE r == Tail(q)
             t == Head(q).total
             c == Cardinality(Pending(id, boxes))
  <1>1. /\ Answers(id, q) = 1 + Answers(id, r) /\ Carried(id, q) = t + Carried(id, r)
        /\ Answers(id, r) \in Nat /\ Carried(id, r) \in Nat /\ t \in Nat /\ r \in Seq(HighMessages)
        /\ \A a : a # id => Answers(a, r) = Answers(a, q) /\ Carried(a, r) = Carried(a, q)
        /\ \A a, b : Behind(q, a, b) => Behind(r, a, b)
    BY AnswerTaken
  <1>2. /\ fans[id].total \in Nat /\ Got(got) \in Nat /\ q \in Seq(HighMessages)
        /\ \A a \in DOMAIN fans : a \in Nat
    BY ProspectNat DEF Framed
  <1>3. /\ fans[id].waiting = Answers(id, q) + c
        /\ Prospect(id, fans, q, boxes, got) <= Got(got)
    BY DEF Summing, Counted
  <1>4. c \in Nat /\ (c = 0 <=> Pending(id, boxes) = {})
    BY PendingFinite DEF Framed
  <1>5. DOMAIN q = 1 .. Len(q) /\ DOMAIN r = 1 .. Len(q) - 1 /\ Len(q) \in Nat
        /\ \A k \in 1 .. Len(q) - 1 : r[k] = q[k + 1]
    BY <1>2 DEF r
  <1> HIDE DEF r, t, c
  <1>6. c = 0 /\ Answers(id, r) = 0 /\ Pending(id, boxes) = {}
    BY <1>1, <1>3, <1>4
  <1>7. Carried(id, r) = 0 /\ \A k \in 1 .. Len(q) - 1 : ~IsAnswer(r[k], id)
    <2>1. Carried(id, r) = 0 /\ \A k \in DOMAIN r : ~IsAnswer(r[k], id)
      BY <1>1, <1>6, NoAnswers
    <2> QED
      BY <1>5, <2>1
  <1>8. sum = Prospect(id, fans, q, boxes, got) /\ sum \in Nat /\ sum <= Got(got)
    <2>1. HeardIn({}, got) = {}
      BY DEF HeardIn
    <2>2. Cardinality({}) = 0
      BY FS_EmptySet
    <2>3. Prospect(id, fans, q, boxes, got) = fans[id].total + (t + 0) + 0
      BY <1>1, <1>6, <1>7, <2>1, <2>2 DEF Prospect
    <2>4. sum = fans[id].total + t
      BY DEF t
    <2> QED
      BY <1>1, <1>2, <1>3, <2>3, <2>4
  <1>9. ASSUME NEW a \in DOMAIN fans2
        PROVE  /\ Prospect(a, fans2, r, boxes, got) = Prospect(a, fans, q, boxes, got)
               /\ fans2[a].waiting = Answers(a, r) + Cardinality(Pending(a, boxes))
    <2>1. a # id /\ a \in DOMAIN fans
      BY DEF Without
    <2>2. fans2[a] = fans[a] /\ Answers(a, r) = Answers(a, q) /\ Carried(a, r) = Carried(a, q)
      BY <1>1, <2>1 DEF Without
    <2> QED
      BY <2>1, <2>2 DEF Prospect, Summing, Counted
  <1>10. Open(fans2) \subseteq Open(fans) \ {id}
    BY DEF Open, Without
  <1>11. ASSUME NEW a \in Open(fans2), NEW b \in Open(fans2), a < b
         PROVE  /\ Pending(a, boxes) \subseteq Pending(b, boxes)
                /\ Pending(b, boxes) = {} => Behind(r, a, b)
    BY <1>1, <1>10, <1>11 DEF Summing, Ordered
  <1>12. Summing(fans2, r, boxes, got, reps)
    <2>1. DOMAIN fans2 \subseteq DOMAIN fans
      BY DEF Without
    <2> QED
      BY <1>9, <1>11, <2>1, SameProspects
  <1>13. ASSUME id # Final, NEW a \in Open(fans2), ~(id < a) PROVE FALSE
    <2>1. a \in Open(fans) /\ a # id /\ id \in Open(fans) /\ a \in DOMAIN fans
      BY <1>10, <1>13 DEF Open
    <2>2. a < id
      BY <1>2, <1>13, <2>1
    <2>3. Ordered(a, id, fans, q, boxes, got)
      BY <2>1, <2>2 DEF Summing
    <2>4. Pending(a, boxes) = {} /\ Behind(q, a, id)
      BY <1>6, <2>3 DEF Ordered
    <2>5. Cardinality(Pending(a, boxes)) = 0
      BY <2>4, FS_EmptySet
    <2>6. fans[a].waiting = Answers(a, q) + Cardinality(Pending(a, boxes)) /\ fans[a].waiting > 0
      BY <2>1 DEF Summing, Counted, Waits
    <2>7. Answers(a, q) # 0
      BY <2>5, <2>6
    <2>8. PICK j \in 1 .. Len(q) : IsAnswer(q[j], a)
      <3>1. (\A m \in Range(q) : ~IsAnswer(m, a)) => Answers(a, q) = 0
        BY <1>2, NoAnswers
      <3> QED
        BY <1>5, <2>7, <3>1 DEF Range
    <2>9. PICK k \in 1 .. Len(q) : j < k /\ IsAnswer(q[k], id)
      BY <1>5, <2>4, <2>8 DEF Behind
    <2>10. k - 1 \in 1 .. Len(q) - 1 /\ k - 1 + 1 = k
      BY <1>5, <2>9
    <2>11. r[k - 1] = q[k]
      BY <1>5, <2>10
    <2> QED
      BY <1>7, <2>9, <2>10, <2>11
  <1>14. ASSUME id # Final, NEW a \in Open(fans2)
         PROVE  id < a /\ sum <= Prospect(a, fans2, r, boxes, got)
    <2>1. id < a
      BY <1>13, <1>14
    <2>2. a \in Open(fans) /\ id \in Open(fans) /\ a \in DOMAIN fans2
      BY <1>10, <1>14 DEF Open
    <2>3. Ordered(id, a, fans, q, boxes, got)
      BY <2>1, <2>2 DEF Summing
    <2> QED
      BY <1>8, <1>9, <2>1, <2>2, <2>3 DEF Ordered
  <1>15. ASSUME id # Final, NEW k \in DOMAIN reps PROVE reps[k].total <= sum
    <2>1. id \in Open(fans)
      BY <1>15 DEF Open
    <2> QED
      BY <1>8, <2>1 DEF Summing
  <1> QED
    BY <1>6, <1>8, <1>12, <1>14, <1>15 DEF r

\* A sum of at most what the books have received and as all open ones will exceed is reported.
LEMMA SummingReported ==
  ASSUME NEW fans, NEW q, NEW boxes, NEW got, NEW reps, Summing(fans, q, boxes, got, reps),
         NEW S, reps \in Seq(S), NEW m \in S, m.total <= Got(got),
         \A a \in Open(fans) : m.total <= Prospect(a, fans, q, boxes, got)
  PROVE  Summing(fans, q, boxes, got, Append(reps, m))
  <1> DEFINE reps2 == Append(reps, m)
  <1>1. \A k \in DOMAIN reps2 : reps2[k] = m \/ (k \in DOMAIN reps /\ reps2[k] = reps[k])
    OBVIOUS
  <1> HIDE DEF reps2
  <1>2. Summing(fans, q, boxes, got, reps2)
    BY <1>1 DEF Summing
  <1> QED
    BY <1>2 DEF reps2

-----------------------------------------------------------------------------
(* The invariant of the sums *)

NoSummary(q) == \A m \in Range(q) : ~IsSummary(m)

\* A book is known before it is asked or receives an order; nothing follows its exit.
Books ==
  /\ IsFiniteSet(book_map)
  /\ \A i \in Instruments \ book_map : book_high[i] = <<>> /\ received[i] = <<>>
  /\ \A i \in Instruments : /\ LastOnly(book_high[i], Exit)
                            /\ RequestsInOrder(book_high[i])
                            /\ i \in exited => book_high[i] = <<>>

\* There is one final request at most, and main waits for its answer.  When it is
\* answered, the requests for reports are all handled.
Finals ==
  /\ Final \in DOMAIN fan_outs => mpc = "wait" /\ response = None /\ Summary(Final) \notin Range(normal)
  /\ Summary(Final) \in Range(normal) => mpc = "wait" /\ response = None
  /\ LastOnly(normal, Summary(Final))
  /\ response # None => mpc \in {"acknowledge", "wait"}
  /\ mpc \in {"dump", "exit router", "done"} => NoSummary(high)
  /\ mpc = "wait" /\ response \notin {None, Error} => NoSummary(high)
  /\ response \in {Value(t) : t \in 0 .. counter} \cup {Error, None}

\* The latest report that may have been asked for.
Limit == IF mpc \in {"acknowledge", "report"} THEN counter - 1 ELSE counter

Reported(reps) == {reps[k].after : k \in DOMAIN reps}
Coming(q) == {m.id : m \in {x \in Range(q) : IsSummary(x)}}

\* Reports pass through three stages in the order in which they were asked for.
Stages(rep, open, coming, limit) ==
  /\ rep \cup open \cup coming \subseteq 1 .. limit
  /\ AllBelow(rep, open) /\ AllBelow(rep, coming) /\ AllBelow(open, coming)

Staged == Stages(Reported(reports), Open(fan_outs), Coming(high), Limit)

\* Every request and every answer belongs to an open fan-out.
Asking ==
  /\ \A id \in DOMAIN fan_outs : /\ fan_outs[id].waiting \in 1 .. Cardinality(book_map)
                                 /\ fan_outs[id].total \in 0 .. counter
  /\ \A id \in Nat : Pending(id, book_high) # {} => id \in DOMAIN fan_outs
  /\ SummariesFirst(high)
  /\ \A m \in Range(high) : m.kind = "stats" => m.id \in DOMAIN fan_outs /\ m.total <= counter

Sums == router_running => Summing(fan_outs, high, book_high, received, reports)

Lines == [after : Nat, total : Nat]

Printed == reports \in Seq(Lines) /\ ReportsMonotone

SumInv == OrderInv /\ Books /\ Finals /\ Staged /\ Asking /\ Sums /\ Printed

-----------------------------------------------------------------------------

LEMMA Limits ==
  ASSUME Types
  PROVE  counter \in Nat /\ Limit \in Nat /\ Limit <= counter
  BY DEF Types, Limit

LEMMA Frames ==
  ASSUME SumInv
  PROVE  /\ Framed(fan_outs, high, book_high, received, reports, book_map, input, counter)
         /\ DOMAIN fan_outs \subseteq Nat /\ Open(fan_outs) \subseteq Nat \ {0}
  <1>1. /\ high \in Seq(HighMessages) /\ book_high \in Boxes /\ counter \in Nat
        /\ received \in [Instruments -> Seq(Nat)] /\ book_map \in SUBSET Instruments
    BY DEF SumInv, OrderInv, Types, Boxes
  <1>2. Open(fan_outs) \subseteq Nat \ {0}
    <2>1. Limit \in Nat
      BY Limits DEF SumInv, OrderInv
    <2>2. Open(fan_outs) \subseteq 1 .. Limit
      BY DEF SumInv, Staged, Stages
    <2> QED
      BY <2>1, <2>2
  <1>3. DOMAIN fan_outs \subseteq Nat
    <2>1. \A id \in DOMAIN fan_outs : id = Final \/ id \in Open(fan_outs)
      BY DEF Open
    <2> QED
      BY <1>2, <2>1 DEF Final
  <1>4. \A id \in DOMAIN fan_outs : fan_outs[id].total \in Nat /\ fan_outs[id].waiting \in Nat
    BY DEF SumInv, Asking
  <1>5. \A k \in DOMAIN reports : reports[k].total \in Nat
    <2>1. reports \in Seq(Lines)
      BY DEF SumInv, Printed
    <2>2. \A k \in DOMAIN reports : reports[k] \in Lines
      BY <2>1
    <2> QED
      BY <2>2 DEF Lines
  <1>6. Apart(received, input, counter)
    <2>1. ASSUME NEW i \in Instruments
          PROVE  /\ Range(received[i]) \subseteq {p \in 1 .. counter : input[p] = i}
                 /\ \A j, k \in DOMAIN received[i] : j < k => received[i][j] < received[i][k]
      <3>1. InLane(i, received[i], book_normal[i], normal, counter)
        BY Lanes DEF SumInv, OrderInv, Lane
      <3> QED
        BY <3>1 DEF InLane
    <2> QED
      BY <1>1, <2>1 DEF Apart
  <1>7. /\ IsFiniteSet(book_map)
        /\ \A i \in Instruments \ book_map : book_high[i] = <<>> /\ received[i] = <<>>
    BY DEF SumInv, Books
  <1> QED
    BY <1>1, <1>2, <1>3, <1>4, <1>5, <1>6, <1>7 DEF Framed

\* The messages of the router's queue, one by one.
LEMMA HighTaken ==
  ASSUME NEW q \in Seq(HighMessages), q # <<>>
  PROVE  /\ Head(q) \in HighMessages /\ Tail(q) \in Seq(HighMessages)
         /\ Range(q) = Range(Tail(q)) \cup {Head(q)}
         /\ Coming(q) = Coming(Tail(q)) \cup (IF IsSummary(Head(q)) THEN {Head(q).id} ELSE {})
         /\ SummariesFirst(q)
              => /\ SummariesFirst(Tail(q))
                 /\ IsAnswer(Head(q), Final) => NoSummary(Tail(q))
                 /\ IsSummary(Head(q)) => AllBelow({Head(q).id}, Coming(Tail(q)))
  <1>1. /\ Head(q) \in HighMessages /\ Tail(q) \in Seq(HighMessages)
        /\ Range(q) = Range(Tail(q)) \cup {Head(q)}
    BY Taken
  <1>2. SummariesFirst(q)
          => /\ SummariesFirst(Tail(q))
             /\ IsAnswer(Head(q), Final) => \A x \in Range(Tail(q)) : ~IsSummary(x)
             /\ IsSummary(Head(q)) => \A x \in Range(Tail(q)) : IsSummary(x) => Head(q).id < x.id
    BY OrderTakenFrom
  <1>3. Coming(q) = Coming(Tail(q)) \cup (IF IsSummary(Head(q)) THEN {Head(q).id} ELSE {})
    BY <1>1 DEF Coming
  <1> QED
    BY <1>1, <1>2, <1>3 DEF NoSummary, AllBelow, Coming

LEMMA HighAppended ==
  ASSUME NEW q \in Seq(HighMessages), NEW m \in HighMessages
  PROVE  /\ Append(q, m) \in Seq(HighMessages)
         /\ Range(Append(q, m)) = Range(q) \cup {m}
         /\ Coming(Append(q, m)) = Coming(q) \cup (IF IsSummary(m) THEN {m.id} ELSE {})
         /\ SummariesFirst(q)
              /\ (IsSummary(m) => /\ AllBelow(Coming(q), {m.id})
                                  /\ \A x \in Range(q) : ~IsAnswer(x, Final))
              => SummariesFirst(Append(q, m))
  <1>1. Append(q, m) \in Seq(HighMessages) /\ Range(Append(q, m)) = Range(q) \cup {m}
    BY Appended
  <1>2. Coming(Append(q, m)) = Coming(q) \cup (IF IsSummary(m) THEN {m.id} ELSE {})
    BY <1>1 DEF Coming
  <1>3. ASSUME SummariesFirst(q),
               IsSummary(m) => AllBelow(Coming(q), {m.id}) /\ \A x \in Range(q) : ~IsAnswer(x, Final)
        PROVE  SummariesFirst(Append(q, m))
    <2>1. IsSummary(m) => \A x \in Range(q) : /\ IsSummary(x) => x.id < m.id
                                              /\ ~IsAnswer(x, Final)
      BY <1>3 DEF AllBelow, Coming
    <2> QED
      BY <1>3, <2>1, OrderAppendedTo
  <1> QED
    BY <1>1, <1>2, <1>3

LEMMA FinalHandling ==
  ASSUME SumInv, HandleFinal
  PROVE  /\ router_running /\ mpc = "wait" /\ response = None /\ normal # <<>>
         /\ normal' = Tail(normal) /\ Tail(normal) = <<>> /\ FanOut(Final) /\ Final \notin DOMAIN fan_outs
         /\ UNCHANGED <<input, mpc, counter, high, book_map, router_running, received, exited, dumped, reports>>
  <1> USE DEF given, mainVars, mailbox, routerState, bookVars
  <1>1. /\ normal # <<>> /\ Head(normal).kind = "dump_book_summary" /\ normal' = Tail(normal)
        /\ FanOut(Head(normal).id) /\ router_running
        /\ UNCHANGED <<input, mpc, counter, high, book_map, router_running, received, exited, dumped, reports>>
    BY DEF HandleFinal, Routing
  <1>2. normal \in Seq(NormalMessages) /\ LastOnly(normal, Summary(Final))
    BY DEF SumInv, OrderInv, Types, Finals
  <1>3. Head(normal) \in NormalMessages /\ Range(normal) = Range(Tail(normal)) \cup {Head(normal)}
    BY <1>1, <1>2, Taken
  <1>4. Head(normal) = Summary(Final) /\ Head(normal).id = Final
    BY <1>1, <1>3, Kinds
  <1>5. Tail(normal) = <<>>
    BY <1>1, <1>2, <1>4, TakenBehind
  <1>6. Summary(Final) \in Range(normal)
    BY <1>3, <1>4
  <1> QED
    BY <1>1, <1>4, <1>5, <1>6 DEF SumInv, Finals

LEMMA ReportHandling ==
  ASSUME SumInv, HandleReport, NEW id, id = Head(high).id
  PROVE  /\ router_running /\ high # <<>> /\ high' = Tail(high) /\ IsSummary(Head(high)) /\ FanOut(id)
         /\ id \in 1 .. Limit /\ id \in Nat /\ id # Final /\ id \notin DOMAIN fan_outs
         /\ AllBelow(Open(fan_outs), {id}) /\ AllBelow(Reported(reports), {id})
         /\ Coming(high) = Coming(high') \cup {id} /\ AllBelow({id}, Coming(high'))
         /\ mpc \notin {"dump", "exit router", "done"}
         /\ mpc = "wait" => response \in {None, Error}
         /\ UNCHANGED <<input, mpc, counter, normal, book_map, router_running, received, exited, dumped, reports>>
  <1> USE DEF given, mainVars, mailbox, routerState, bookVars
  <1>1. /\ high # <<>> /\ Head(high).kind = "dump_book_summary" /\ high' = Tail(high)
        /\ FanOut(id) /\ router_running
        /\ UNCHANGED <<input, mpc, counter, normal, book_map, router_running, received, exited, dumped, reports>>
    BY DEF HandleReport, Routing
  <1>2. high \in Seq(HighMessages) /\ SummariesFirst(high) /\ Limit \in Nat
    BY Limits DEF SumInv, OrderInv, Types, Asking
  <1>3. IsSummary(Head(high))
    BY <1>1 DEF IsSummary
  <1>4. /\ Range(high) = Range(high') \cup {Head(high)}
        /\ Coming(high) = Coming(high') \cup {id} /\ AllBelow({id}, Coming(high'))
    BY <1>1, <1>2, <1>3, HighTaken
  <1>5. ~NoSummary(high)
    BY <1>3, <1>4 DEF NoSummary
  <1>6. /\ Coming(high) \subseteq 1 .. Limit
        /\ AllBelow(Reported(reports), Coming(high)) /\ AllBelow(Open(fan_outs), Coming(high))
    BY DEF SumInv, Staged, Stages
  <1>7. /\ id \in 1 .. Limit /\ AllBelow(Open(fan_outs), {id}) /\ AllBelow(Reported(reports), {id})
    BY <1>4, <1>6 DEF AllBelow
  <1>8. id \in Nat /\ id # Final
    BY <1>2, <1>7 DEF Final
  <1>9. id \notin Open(fan_outs)
    BY <1>7, <1>8 DEF AllBelow
  <1>10. id \notin DOMAIN fan_outs
    BY <1>8, <1>9 DEF Open
  <1> QED
    BY <1>1, <1>3, <1>4, <1>5, <1>7, <1>8, <1>10 DEF SumInv, Finals

LEMMA AllAsked ==
  ASSUME SumInv, NEW id \in Nat, FanOut(id), book_map # {}, id \notin DOMAIN fan_outs
  PROVE  /\ DOMAIN fan_outs' = DOMAIN fan_outs \cup {id}
         /\ fan_outs'[id].waiting = Cardinality(book_map) /\ fan_outs'[id].total = 0
         /\ \A a \in DOMAIN fan_outs : fan_outs'[a] = fan_outs[a]
         /\ response' = response
         /\ book_high' \in Boxes
         /\ Sent(book_high', book_high, book_map, GetStats(id))
         /\ Pending(id, book_high) = {} /\ Pending(id, book_high') = book_map
         /\ \A a \in Nat \ {id} : Pending(a, book_high') = Pending(a, book_high)
  <1>1. /\ fan_outs' = [x \in DOMAIN fan_outs \cup {id} |->
                          IF x = id THEN [waiting |-> Asked, total |-> 0] ELSE fan_outs[x]]
        /\ book_high' = [i \in Instruments |->
                           IF i \in book_map THEN Append(book_high[i], GetStats(id))
                                             ELSE book_high[i]]
        /\ response' = response
    BY DEF FanOut
  <1>2. /\ DOMAIN fan_outs' = DOMAIN fan_outs \cup {id}
        /\ fan_outs'[id].waiting = Cardinality(book_map) /\ fan_outs'[id].total = 0
        /\ \A a \in DOMAIN fan_outs : fan_outs'[a] = fan_outs[a]
    BY <1>1 DEF Asked
  <1>3. book_high' \in Boxes
    BY FanOutTypes DEF SumInv, OrderInv, Boxes
  <1>4. Sent(book_high', book_high, book_map, GetStats(id))
    BY <1>1 DEF Sent
  <1>5. book_high \in Boxes /\ book_map \in SUBSET Instruments
    BY DEF SumInv, OrderInv, Types, Boxes
  <1>6. GetStats(id) \in BookHighMessages /\ \A a \in Nat : GetStats(a) = GetStats(id) => a = id
    <2>1. \A a \in Nat : GetStats(a).id = a /\ GetStats(a) \in BookHighMessages
      BY Messages
    <2> QED
      BY <2>1
  <1>7. \A a \in Nat : Pending(a, book_high')
                         = Pending(a, book_high) \cup (IF GetStats(id) = GetStats(a) THEN book_map ELSE {})
    BY <1>3, <1>4, <1>5, <1>6, PendingAsked
  <1>8. Pending(id, book_high) = {}
    BY DEF SumInv, Asking
  <1>9. Pending(id, book_high') = book_map
    BY <1>7, <1>8
  <1>10. ASSUME NEW a \in Nat \ {id} PROVE Pending(a, book_high') = Pending(a, book_high)
    <2>1. GetStats(id) # GetStats(a)
      BY <1>6
    <2> QED
      BY <1>7, <2>1
  <1> QED
    BY <1>1, <1>2, <1>3, <1>4, <1>8, <1>9, <1>10

\* An answer that is not the last one is added.
AddsUp(id) ==
  /\ DOMAIN fan_outs' = DOMAIN fan_outs
  /\ fan_outs'[id].waiting = fan_outs[id].waiting - 1 /\ fan_outs'[id].waiting >= 1
  /\ fan_outs'[id].total \in 0 .. counter
  /\ \A a \in DOMAIN fan_outs : a # id => fan_outs'[a] = fan_outs[a]
  /\ UNCHANGED <<response, reports>>

\* The last answer completes the sum.
Completes(id, sum) ==
  /\ sum \in 0 .. counter /\ sum <= Got(received)
  /\ DOMAIN fan_outs' = DOMAIN fan_outs \ {id}
  /\ \A a \in DOMAIN fan_outs' : fan_outs'[a] = fan_outs[a]
  /\ Pending(id, book_high) = {} /\ Answers(id, high') = 0
  /\ id = Final => response' = Value(sum) /\ reports' = reports
  /\ id # Final => /\ response' = response
                   /\ reports' = Append(reports, [after |-> id, total |-> sum])
                   /\ \A a \in Open(fan_outs') : id < a
                   /\ \A k \in DOMAIN reports : reports[k].total <= sum

LEMMA Collecting ==
  ASSUME SumInv, CollectStats, NEW id, id = Head(high).id
  PROVE  /\ high # <<>> /\ high' = Tail(high) /\ Head(high).kind = "stats" /\ IsAnswer(Head(high), id)
         /\ id \in DOMAIN fan_outs /\ id \in Nat /\ router_running
         /\ UNCHANGED <<input, mpc, counter, normal, book_map, router_running, book_high, received, exited, dumped>>
         /\ Summing(fan_outs', high', book_high, received, reports')
         /\ AddsUp(id) \/ \E sum : Completes(id, sum)
  <1> USE DEF given, mainVars, mailbox, routerState, bookVars
  <1> DEFINE t == Head(high).total
             sum == fan_outs[id].total + t
             last == fan_outs[id].waiting = 1
  <1>1. /\ high # <<>> /\ high' = Tail(high) /\ Head(high).kind = "stats" /\ router_running
        /\ UNCHANGED <<input, mpc, counter, normal, book_map, router_running, book_high, received, exited, dumped>>
    BY DEF CollectStats, Routing
  <1>2. /\ fan_outs' = IF last THEN Forget(id)
                       ELSE [fan_outs EXCEPT ![id] = [waiting |-> @.waiting - 1, total |-> sum]]
        /\ response' = IF last /\ id = Final THEN Value(sum) ELSE response
        /\ reports' = IF last /\ id # Final THEN Append(reports, [after |-> id, total |-> sum]) ELSE reports
    BY DEF CollectStats, Total
  <1>3. high \in Seq(HighMessages) /\ counter \in Nat
    BY Limits DEF SumInv, OrderInv, Types
  <1>4. Range(high) = Range(high') \cup {Head(high)} /\ Head(high) \in HighMessages /\ high' \in Seq(HighMessages)
    BY <1>1, <1>3, HighTaken
  <1>5. IsAnswer(Head(high), id) /\ id \in DOMAIN fan_outs
    BY <1>1, <1>4 DEF SumInv, Asking, IsAnswer
  <1>6. /\ Framed(fan_outs, high, book_high, received, reports, book_map, input, counter)
        /\ DOMAIN fan_outs \subseteq Nat /\ Open(fan_outs) \subseteq Nat \ {0}
    BY Frames
  <1>7. Summing(fan_outs, high, book_high, received, reports)
    BY <1>1 DEF SumInv, Sums
  <1>8. Got(received) \in Nat /\ Got(received) <= counter
    BY <1>6, ProspectNat
  <1>9. fan_outs[id].waiting \in Nat /\ fan_outs[id].waiting >= 1 /\ Waits(fan_outs)
    <2>1. \A a \in DOMAIN fan_outs : fan_outs[a].waiting \in Nat
      BY <1>6 DEF Framed
    <2>2. \A a \in DOMAIN fan_outs : fan_outs[a].waiting \in 1 .. Cardinality(book_map)
      BY DEF SumInv, Asking
    <2>3. Cardinality(book_map) \in Nat
      BY FS_CardinalityType DEF SumInv, Books
    <2> QED
      BY <1>5, <2>1, <2>2, <2>3 DEF Waits
  <1>10. CASE ~last
    <2>1. fan_outs' = [fan_outs EXCEPT ![id] = [waiting |-> @.waiting - 1, total |-> sum]]
      BY <1>2, <1>10
    <2>2. /\ DOMAIN fan_outs' = DOMAIN fan_outs
          /\ fan_outs'[id].waiting = fan_outs[id].waiting - 1 /\ fan_outs'[id].total = sum
          /\ \A a \in DOMAIN fan_outs : a # id => fan_outs'[a] = fan_outs[a]
      BY <1>5, <2>1
    <2>3. /\ Summing(fan_outs', high', book_high, received, reports)
          /\ fan_outs'[id].total \in Nat /\ fan_outs'[id].total <= Got(received)
      BY <1>1, <1>5, <1>6, <1>7, <2>2, SummingCollected
    <2>4. UNCHANGED <<response, reports>>
      BY <1>2, <1>10
    <2>5. AddsUp(id)
      BY <1>3, <1>8, <1>9, <1>10, <2>2, <2>3, <2>4 DEF AddsUp
    <2> QED
      BY <1>1, <1>5, <1>6, <2>3, <2>4, <2>5
  <1>11. CASE last
    <2>1. fan_outs' = [x \in DOMAIN fan_outs \ {id} |-> fan_outs[x]]
      BY <1>2, <1>11 DEF Forget
    <2>2. DOMAIN fan_outs' = DOMAIN fan_outs \ {id} /\ \A a \in DOMAIN fan_outs' : fan_outs'[a] = fan_outs[a]
      BY <2>1
    <2>6. Without(fan_outs', fan_outs, id)
      BY <2>2 DEF Without
    <2>0. sum = fan_outs[id].total + Head(high).total
      OBVIOUS
    <2> HIDE DEF sum
    <2>3. /\ Summing(fan_outs', high', book_high, received, reports)
          /\ Pending(id, book_high) = {} /\ Answers(id, high') = 0
          /\ sum \in Nat /\ sum <= Got(received)
          /\ id # Final => /\ \A a \in Open(fan_outs') :
                                id < a /\ sum <= Prospect(a, fan_outs', high', book_high, received)
                           /\ \A k \in DOMAIN reports : reports[k].total <= sum
      BY <1>1, <1>5, <1>6, <1>7, <1>9, <1>11, <2>0, <2>6, SummingDone
    <2>4. CASE id = Final
      <3>1. response' = Value(sum) /\ reports' = reports
        BY <1>2, <1>11, <2>4
      <3>2. Completes(id, sum)
        BY <1>3, <1>8, <2>2, <2>3, <2>4, <3>1 DEF Completes
      <3> QED
        BY <1>1, <1>5, <1>6, <2>3, <3>1, <3>2
    <2>5. CASE id # Final
      <3> DEFINE m == [after |-> id, total |-> sum]
      <3>1. response' = response /\ reports' = Append(reports, m)
        BY <1>2, <1>11, <2>5
      <3>2. m \in Lines /\ m.total = sum
        BY <1>5, <1>6, <2>3 DEF Lines
      <3>3. Completes(id, sum)
        BY <1>3, <1>8, <2>2, <2>3, <2>5, <3>1 DEF Completes
      <3> HIDE DEF m
      <3>4. reports \in Seq(Lines)
        BY DEF SumInv, Printed
      <3>5. m.total <= Got(received)
            /\ \A a \in Open(fan_outs') : m.total <= Prospect(a, fan_outs', high', book_high, received)
        BY <2>3, <2>5, <3>2
      <3>6. Summing(fan_outs', high', book_high, received, reports')
        BY <2>3, <3>1, <3>2, <3>4, <3>5, SummingReported
      <3> QED
        BY <1>1, <1>5, <1>6, <3>3, <3>6
    <2> QED
      BY <2>4, <2>5
  <1> QED
    BY <1>10, <1>11

\* Book i takes the first of its requests.
LEMMA Answering ==
  ASSUME SumInv, NEW i \in Instruments, GetBookStats(i), NEW id, id = Head(book_high[i]).id
  PROVE  /\ id \in DOMAIN fan_outs /\ id \in Nat /\ i \in book_map
         /\ book_high[i] # <<>> /\ book_high' = [book_high EXCEPT ![i] = Tail(@)]
         /\ i \in Pending(id, book_high) /\ Pending(id, book_high') = Pending(id, book_high) \ {i}
         /\ \A a \in Nat \ {id} : Pending(a, book_high') = Pending(a, book_high)
         /\ \A a \in Nat \ {0} : a < id => i \notin Pending(a, book_high)
         /\ router_running => high' = Append(high, Stats(id, Len(received[i])))
         /\ ~router_running => high' = high
         /\ Len(received[i]) \in Nat /\ Len(received[i]) <= counter
         /\ UNCHANGED <<input, mpc, counter, response, normal, book_map, fan_outs, router_running, received,
                        exited, dumped, reports>>
  <1> USE DEF given, mainVars, mailbox, routerState, bookVars
  <1>1. /\ book_high[i] # <<>> /\ Head(book_high[i]).kind = "get_book_stats" /\ i \in book_map
        /\ book_high' = [book_high EXCEPT ![i] = Tail(@)]
        /\ high' = IF router_running THEN Append(high, Stats(id, Len(received[i]))) ELSE high
        /\ UNCHANGED <<input, mpc, counter, response, normal, book_map, fan_outs, router_running, received,
                       exited, dumped, reports>>
    BY DEF GetBookStats, ToRouter, Running
  <1>2. book_high \in Boxes /\ RequestsInOrder(book_high[i]) /\ book_high[i] \in Seq(BookHighMessages)
    BY DEF SumInv, OrderInv, Types, Books, Boxes
  <1>3. Head(book_high[i]) \in BookHighMessages
    BY <1>1, <1>2, Taken
  <1>4. id \in Nat /\ Head(book_high[i]) = GetStats(id)
    BY <1>1, <1>3, Kinds
  <1>8. Takes(book_high', book_high, i)
    BY <1>1 DEF Takes
  <1>5. /\ i \in Pending(id, book_high) /\ Pending(id, book_high') = Pending(id, book_high) \ {i}
        /\ \A a \in Nat \ {id} : Pending(a, book_high') = Pending(a, book_high)
        /\ \A a \in Nat \ {0} : a < id => i \notin Pending(a, book_high)
    BY <1>2, <1>4, <1>8, PendingTaken
  <1>6. id \in DOMAIN fan_outs
    BY <1>4, <1>5 DEF SumInv, Asking
  <1>7. Len(received[i]) \in Nat /\ Len(received[i]) <= counter
    <2>1. counter \in Nat /\ Apart(received, input, counter)
      BY Frames DEF Framed
    <2>2. {i} \in SUBSET Instruments /\ {} \in SUBSET Instruments /\ {i} \ {i} = {}
      OBVIOUS
    <2>3. /\ Cardinality(HeardIn({i}, received)) \in Nat /\ Cardinality(HeardIn({i}, received)) <= counter
      <3>1. /\ Cardinality(HeardIn({i}, received)) \in Nat
            /\ Cardinality(HeardIn({i}, received)) <= Cardinality(HeardIn(Instruments, received))
            /\ Cardinality(HeardIn(Instruments, received)) <= counter
            /\ Cardinality(HeardIn(Instruments, received)) \in Nat
        BY <2>1, <2>2, HeardFinite
      <3> QED
        BY <2>1, <3>1
    <2>4. Cardinality(HeardIn({}, received)) \in Nat
      BY <2>1, <2>2, HeardFinite
    <2>5. Cardinality(HeardIn({i}, received)) = Len(received[i]) + Cardinality(HeardIn({}, received))
      <3>1. i \in {i}
        OBVIOUS
      <3>2. Cardinality(HeardIn({i}, received)) = Len(received[i]) + Cardinality(HeardIn({i} \ {i}, received))
        BY <2>1, <2>2, <3>1, HeardSplit
      <3> QED
        BY <2>2, <3>2
    <2>6. Len(received[i]) \in Nat
      BY DEF SumInv, OrderInv, Types
    <2> QED
      BY <2>1, <2>2, <2>3, <2>4, <2>5, <2>6
  <1> QED
    BY <1>1, <1>4, <1>5, <1>6, <1>7

LEMMA InitSums == Init => Books /\ Finals /\ Staged /\ Asking /\ Sums /\ Printed
  <1> SUFFICES ASSUME Init PROVE Books /\ Finals /\ Staged /\ Asking /\ Sums /\ Printed
    OBVIOUS
  <1>1. /\ mpc = "read" /\ counter = 0 /\ response = None /\ high = <<>> /\ normal = <<>> /\ book_map = {}
        /\ fan_outs = <<>> /\ exited = {} /\ reports = <<>>
        /\ \A i \in Instruments : book_high[i] = <<>> /\ received[i] = <<>>
    BY DEF Init
  <1>2. Range(<<>>) = {} /\ DOMAIN <<>> = {} /\ <<>> \in Seq(Lines)
    BY DEF Range
  <1>3. IsFiniteSet({})
    BY FS_EmptySet
  <1>4. Books
    BY <1>1, <1>2, <1>3 DEF Books, LastOnly, RequestsInOrder
  <1>5. Finals
    BY <1>1, <1>2 DEF Finals, LastOnly
  <1>6. Reported(reports) = {} /\ Open(fan_outs) = {} /\ Coming(high) = {}
    BY <1>1, <1>2 DEF Reported, Open, Coming
  <1>7. Staged
    BY <1>6 DEF Staged, Stages, AllBelow
  <1>8. Asking
    BY <1>1, <1>2 DEF Asking, Pending, SummariesFirst
  <1>9. Sums /\ Printed
    BY <1>1, <1>2, <1>6 DEF Sums, Summing, Printed, ReportsMonotone
  <1> QED
    BY <1>4, <1>5, <1>7, <1>8, <1>9

LEMMA OtherBehind ==
  ASSUME NEW S, NEW q \in Seq(S), NEW m \in S, NEW x, x # m, x \notin Range(q)
  PROVE  LastOnly(Append(q, m), x)
  <1>0. q \in Seq(S) /\ m \in S
    OBVIOUS
  <1>1. Range(Append(q, m)) = Range(q) \cup {m}
    BY ONLY <1>0, Appended
  <1>2. x \notin Range(Append(q, m))
    BY <1>1
  <1> QED
    BY <1>2 DEF LastOnly, Range

\* What the queue of one book is like.
Orderly(q, done) == LastOnly(q, Exit) /\ RequestsInOrder(q) /\ (done => q = <<>>)

LEMMA BooksFanOut ==
  ASSUME SumInv, NEW id \in Nat, FanOut(id), id \notin DOMAIN fan_outs,
         id # Final => AllBelow(Open(fan_outs), {id}), mpc \notin {"dump", "exit router", "done"},
         UNCHANGED <<book_map, received, exited>>
  PROVE  Books'
  <1>1. CASE book_map = {}
    <2>1. book_high' = book_high
      BY <1>1 DEF FanOut
    <2> QED
      BY <2>1 DEF SumInv, Books
  <1>2. CASE book_map # {}
    <2>1. Sent(book_high', book_high, book_map, GetStats(id))
      BY <1>2, AllAsked
    <2>2. /\ GetStats(id) \in BookHighMessages /\ GetStats(id) # Exit
          /\ IsRequest(GetStats(id)) /\ GetStats(id).id = id
      BY Messages DEF IsRequest
    <2>3. ASSUME NEW i \in Instruments PROVE Orderly(book_high'[i], i \in exited)
      <3> DEFINE q == book_high[i]
                 m == GetStats(id)
      <3>1. /\ q \in Seq(BookHighMessages) /\ (Exit \in Range(q) \/ i \in exited => i \in dumped)
            /\ Orderly(q, i \in exited)
        BY DEF SumInv, OrderInv, Types, Books, Orderly
      <3>2. Exit \notin Range(q) /\ i \notin exited
        BY <3>1 DEF SumInv, OrderInv, Dumps
      <3>8. Range(q) \subseteq BookHighMessages
        <4>1. q \in Seq(BookHighMessages)
          BY <3>1
        <4> HIDE DEF q
        <4> QED
          BY ONLY <4>1 DEF Range
      <3>3. \A x \in Range(q) : IsRequest(x) => x.id \in DOMAIN fan_outs
        <4> SUFFICES ASSUME NEW x \in Range(q), IsRequest(x) PROVE x.id \in DOMAIN fan_outs
          OBVIOUS
        <4>1. x \in BookHighMessages
          BY <3>8
        <4>2. x.id \in Nat /\ x = GetStats(x.id)
          BY <4>1, Kinds DEF IsRequest
        <4>3. i \in Pending(x.id, book_high)
          BY <4>2 DEF Pending
        <4> QED
          BY <4>2, <4>3 DEF SumInv, Asking
      <3>4. \A x \in Range(q) : IsRequest(x) => x.id # id /\ (x.id # Final /\ id # Final => x.id < id)
        BY <3>3 DEF AllBelow, Open
      <3>5. book_high'[i] = IF i \in book_map THEN Append(q, m) ELSE q
        BY <2>1 DEF Sent
      <3> HIDE DEF q, m
      <3>6. LastOnly(Append(q, m), Exit)
        <4>1. m \in BookHighMessages /\ Exit # m
          BY <2>2 DEF m
        <4> QED
          BY <3>1, <3>2, <4>1, OtherBehind
      <3>7. RequestsInOrder(Append(q, m))
        <4>1. m \in BookHighMessages /\ IsRequest(m) /\ m.id = id
          BY <2>2 DEF m
        <4>2. \A x \in Range(q) : IsRequest(x) => x.id # m.id /\ (x.id # Final /\ m.id # Final => x.id < m.id)
          BY <3>4, <4>1
        <4> QED
          BY <3>1, <4>1, <4>2, OrderAppendedTo DEF Orderly
      <3> QED
        BY <3>1, <3>2, <3>5, <3>6, <3>7 DEF Orderly
    <2>4. \A i \in Instruments \ book_map : book_high'[i] = book_high[i]
      BY <2>1 DEF Sent
    <2> QED
      BY <2>3, <2>4 DEF SumInv, Books, Orderly
  <1> QED
    BY <1>1, <1>2

LEMMA BooksKept == SumInv /\ [Next]_vars => Books'
  <1> SUFFICES ASSUME SumInv, [Next]_vars PROVE Books'
    OBVIOUS
  <1> USE DEF given, mainVars, mailbox, routerState, bookVars
  <1>0. /\ book_map \in SUBSET Instruments /\ book_high \in Boxes
        /\ book_high \in [Instruments -> Seq(BookHighMessages)]
        /\ received \in [Instruments -> Seq(Nat)]
        /\ IsFiniteSet(book_map)
        /\ \A i \in Instruments \ book_map : book_high[i] = <<>> /\ received[i] = <<>>
        /\ \A i \in Instruments : Orderly(book_high[i], i \in exited) /\ book_high[i] \in Seq(BookHighMessages)
    BY DEF SumInv, OrderInv, Types, Books, Orderly, Boxes
  <1>1. CASE Main \/ CollectStats \/ RouterExits \/ UNCHANGED vars
    <2>1. UNCHANGED <<book_map, book_high, received, exited>>
      BY <1>1 DEF Main, SendOrder, ReceiveAcknowledgement, BadLine, SendReport, EndOfInput, Ask, ReceiveTotal,
                  DumpBooks, ExitRouter, CollectStats, RouterExits, vars
    <2> QED
      BY <2>1 DEF SumInv, Books
  <1>2. CASE RouteOrder
    <2>1. book_map' = book_map \cup {input[Head(normal).line]} /\ UNCHANGED <<book_high, received, exited>>
      BY <1>2 DEF RouteOrder
    <2>2. IsFiniteSet(book_map')
      BY <1>0, <2>1, FS_AddElement
    <2> QED
      BY <2>1, <2>2 DEF SumInv, Books
  <1>3. CASE HandleReport
    <2> DEFINE id == Head(high).id
    <2>1. /\ FanOut(id) /\ id \in Nat /\ id \notin DOMAIN fan_outs /\ AllBelow(Open(fan_outs), {id})
          /\ mpc \notin {"dump", "exit router", "done"}
          /\ UNCHANGED <<book_map, received, exited>>
      BY <1>3, ReportHandling
    <2> HIDE DEF id
    <2> QED
      BY <2>1, BooksFanOut
  <1>4. CASE HandleFinal
    <2>1. /\ FanOut(Final) /\ Final \in Nat /\ Final \notin DOMAIN fan_outs
          /\ mpc \notin {"dump", "exit router", "done"}
          /\ UNCHANGED <<book_map, received, exited>>
      BY <1>4, FinalHandling DEF Final
    <2> QED
      BY <2>1, BooksFanOut
  <1>5. ASSUME NEW i \in Instruments, GetBookStats(i) \/ BookExits(i) PROVE Books'
    <2> DEFINE q == book_high[i]
    <2>1. /\ q # <<>> /\ book_high' = [book_high EXCEPT ![i] = Tail(@)] /\ i \in book_map /\ i \notin exited
          /\ UNCHANGED <<book_map, received>>
          /\ exited' = exited \/ (exited' = exited \cup {i} /\ Head(q).kind = "exit")
      BY <1>5 DEF GetBookStats, BookExits, Running
    <2>2. book_high'[i] = Tail(q) /\ \A j \in Instruments : j # i => book_high'[j] = book_high[j]
      BY <1>0, <2>1
    <2>3. q \in Seq(BookHighMessages) /\ Orderly(q, i \in exited)
      BY <1>0
    <2> HIDE DEF q
    <2>4. LastOnly(Tail(q), Exit) /\ RequestsInOrder(Tail(q)) /\ Head(q) \in BookHighMessages
      BY <2>1, <2>3, Taken, TakenBehind, OrderTakenFrom DEF Orderly
    <2>5. Head(q).kind = "exit" => Tail(q) = <<>>
      <3>1. Head(q).kind = "exit" => Head(q) = Exit
        BY <2>4, Kinds
      <3> QED
        BY <2>1, <2>3, <3>1, TakenBehind DEF Orderly
    <2>6. Orderly(book_high'[i], i \in exited')
      BY <2>1, <2>2, <2>4, <2>5 DEF Orderly
    <2>7. \A j \in Instruments : j # i => Orderly(book_high'[j], j \in exited')
      BY <1>0, <2>1, <2>2
    <2> QED
      BY <1>0, <2>1, <2>2, <2>6, <2>7 DEF Books, Orderly
  <1>6. ASSUME NEW i \in Instruments, ReceiveOrder(i) PROVE Books'
    <2>1. /\ i \in book_map /\ received' = [received EXCEPT ![i] = Append(@, Head(book_normal[i]).line)]
          /\ UNCHANGED <<book_map, book_high, exited>>
      BY <1>6 DEF ReceiveOrder, Running
    <2>2. \A j \in Instruments : j # i => received'[j] = received[j]
      BY <1>0, <2>1
    <2> QED
      BY <1>0, <2>1, <2>2 DEF Books, Orderly
  <1>7. ASSUME NEW i \in Instruments, DumpAndExit(i) PROVE Books'
    <2> DEFINE q == book_high[i]
    <2>1. /\ i \in book_map /\ i \notin exited /\ book_high' = [book_high EXCEPT ![i] = Append(@, Exit)]
          /\ UNCHANGED <<book_map, received, exited>> /\ book_normal[i] # <<>>
      BY <1>7 DEF DumpAndExit, Running
    <2>2. book_high'[i] = Append(q, Exit) /\ \A j \in Instruments : j # i => book_high'[j] = book_high[j]
      BY <1>0, <2>1
    <2>3. q \in Seq(BookHighMessages) /\ Orderly(q, i \in exited)
      BY <1>0
    <2>4. Exit \notin Range(q)
      BY <2>1 DEF SumInv, OrderInv, Types, Dumps
    <2> HIDE DEF q
    <2>5. Exit \in BookHighMessages /\ ~IsRequest(Exit)
      BY Messages DEF IsRequest
    <2>6. LastOnly(Append(q, Exit), Exit)
      BY <2>3, <2>4, <2>5, AppendedBehind
    <2>8. RequestsInOrder(Append(q, Exit))
      BY <2>3, <2>5, OrderAppendedTo DEF Orderly
    <2>7. \A j \in Instruments : Orderly(book_high'[j], j \in exited')
      BY <1>0, <2>1, <2>2, <2>6, <2>8 DEF Orderly
    <2> QED
      BY <1>0, <2>1, <2>2, <2>7 DEF Books, Orderly
  <1> QED
    BY <1>1, <1>2, <1>3, <1>4, <1>5, <1>6, <1>7 DEF Next, RouterHigh, RouterNormal, BookHigh, BookNormal

LEMMA NotWaiting ==
  ASSUME SumInv, mpc \notin {"wait", "dump", "exit router", "done"}
  PROVE  Final \notin DOMAIN fan_outs /\ Summary(Final) \notin Range(normal)
         /\ (response # None => mpc = "acknowledge")
  BY DEF SumInv, Finals

LEMMA FinalsKept == SumInv /\ [Next]_vars => Finals'
  <1> SUFFICES ASSUME SumInv, [Next]_vars PROVE Finals'
    OBVIOUS
  <1> USE DEF given, mainVars, mailbox, routerState, bookVars
  <1>0. /\ normal \in Seq(NormalMessages) /\ high \in Seq(HighMessages) /\ counter \in Nat
        /\ response \in {Value(t) : t \in 0 .. counter} \cup {Error, None}
        /\ LastOnly(normal, Summary(Final))
    BY Limits DEF SumInv, OrderInv, Types, Finals
  <1>1. CASE SendOrder
    <2> DEFINE p == counter + 1
    <2>1. /\ mpc = "read" /\ mpc' \in {"read", "report", "acknowledge"}
          /\ normal' = Append(normal, Order(p)) /\ UNCHANGED <<response, fan_outs>>
      BY <1>1 DEF SendOrder, AfterSend
    <2>2. Order(p) \in NormalMessages /\ Order(p) # Summary(Final)
      BY <1>0, Messages
    <2> HIDE DEF p
    <2>3. Range(normal') = Range(normal) \cup {Order(p)}
      BY <1>0, <2>1, <2>2, OrderAppended
    <2>4. Final \notin DOMAIN fan_outs /\ Summary(Final) \notin Range(normal') /\ response = None
      BY <2>1, <2>2, <2>3, NotWaiting
    <2>5. LastOnly(normal', Summary(Final))
      BY <2>4 DEF LastOnly, Range
    <2> QED
      BY <2>1, <2>4, <2>5 DEF Finals
  <1>2. CASE ReceiveAcknowledgement \/ BadLine \/ SendReport \/ EndOfInput
    <2>1. /\ mpc \in {"acknowledge", "read", "report"} /\ mpc' \in {"read", "report", "aborted", "ask"}
          /\ UNCHANGED <<normal, fan_outs>>
          /\ response' = None \/ (mpc # "acknowledge" /\ response' = response)
      BY <1>2 DEF ReceiveAcknowledgement, BadLine, SendReport, EndOfInput, AfterSend
    <2>2. Final \notin DOMAIN fan_outs /\ Summary(Final) \notin Range(normal) /\ response' = None
      BY <2>1, NotWaiting
    <2> QED
      BY <1>0, <2>1, <2>2 DEF Finals
  <1>3. CASE Ask
    <2>1. /\ mpc = "ask" /\ mpc' = "wait" /\ normal' = Append(normal, Summary(Final))
          /\ UNCHANGED <<response, fan_outs, counter>>
      BY <1>3 DEF Ask
    <2>2. Final \notin DOMAIN fan_outs /\ Summary(Final) \notin Range(normal) /\ response = None
      BY <2>1, NotWaiting
    <2>3. LastOnly(normal', Summary(Final))
      <3>1. Summary(Final) \in NormalMessages
        BY Messages
      <3> QED
        BY <1>0, <2>1, <2>2, <3>1, AppendedBehind
    <2> QED
      BY <2>1, <2>2, <2>3 DEF Finals
  <1>4. CASE ReceiveTotal
    <2>1. /\ mpc = "wait" /\ response # None /\ response' = None
          /\ mpc' = IF AllReceived(response) THEN "dump" ELSE "ask"
          /\ UNCHANGED <<normal, high, fan_outs, counter>>
      BY <1>4 DEF ReceiveTotal
    <2>2. Final \notin DOMAIN fan_outs /\ Summary(Final) \notin Range(normal)
      BY <2>1 DEF SumInv, Finals
    <2>3. AllReceived(response) => response # Error
      BY DEF AllReceived, Value, Error
    <2>4. mpc' = "dump" => NoSummary(high)
      BY <2>1, <2>3 DEF SumInv, Finals
    <2> QED
      BY <1>0, <2>1, <2>2, <2>4 DEF Finals
  <1>5. CASE DumpBooks \/ ExitRouter
    <2>1. /\ mpc \in {"dump", "exit router"} /\ mpc' \in {"exit router", "done"}
          /\ UNCHANGED <<response, normal, fan_outs, counter>>
          /\ high' = high \/ high' = Append(high, Exit)
      BY <1>5 DEF DumpBooks, ExitRouter
    <2>2. Exit \in HighMessages /\ ~IsSummary(Exit)
      BY Messages DEF IsSummary
    <2>3. Range(Append(high, Exit)) = Range(high) \cup {Exit}
      BY <1>0, <2>2, HighAppended
    <2>4. NoSummary(high')
      BY <2>1, <2>2, <2>3 DEF SumInv, Finals, NoSummary
    <2> QED
      BY <2>1, <2>4 DEF SumInv, Finals
  <1>6. CASE HandleReport
    <2> DEFINE id == Head(high).id
    <2>1. /\ FanOut(id) /\ id \in Nat /\ id # Final /\ id \notin DOMAIN fan_outs
          /\ mpc \notin {"dump", "exit router", "done"}
          /\ mpc = "wait" => response \in {None, Error}
          /\ UNCHANGED <<mpc, counter, normal>>
      BY <1>6, ReportHandling
    <2> HIDE DEF id
    <2>2. response' = response /\ (Final \in DOMAIN fan_outs' => Final \in DOMAIN fan_outs)
      <3>1. CASE book_map = {}
        BY <2>1, <3>1 DEF FanOut
      <3>2. CASE book_map # {}
        BY <2>1, <3>2, AllAsked
      <3> QED
        BY <3>1, <3>2
    <2> QED
      BY <2>1, <2>2 DEF SumInv, Finals
  <1>7. CASE CollectStats
    <2> DEFINE id == Head(high).id
    <2>1. /\ high # <<>> /\ high' = Tail(high) /\ IsAnswer(Head(high), id) /\ id \in DOMAIN fan_outs
          /\ UNCHANGED <<mpc, counter, normal>> /\ (AddsUp(id) \/ \E sum : Completes(id, sum))
      BY <1>7, Collecting
    <2>2. /\ Range(high) = Range(high') \cup {Head(high)}
          /\ IsAnswer(Head(high), Final) => NoSummary(high')
      BY <1>0, <2>1, HighTaken DEF SumInv, Asking
    <2> HIDE DEF id
    <2>3. NoSummary(high) => NoSummary(high')
      BY <2>2 DEF NoSummary
    <2>4. CASE response' = response /\ DOMAIN fan_outs' \subseteq DOMAIN fan_outs
      BY <2>1, <2>3, <2>4 DEF SumInv, Finals
    <2>5. CASE id = Final /\ \E sum : Completes(id, sum)
      <3>1. PICK sum : Completes(id, sum)
        BY <2>5
      <3>2. /\ sum \in 0 .. counter /\ response' = Value(sum) /\ DOMAIN fan_outs' = DOMAIN fan_outs \ {Final}
        BY <2>5, <3>1 DEF Completes
      <3>3. mpc = "wait" /\ Summary(Final) \notin Range(normal)
        BY <2>1, <2>5 DEF SumInv, Finals
      <3>4. NoSummary(high')
        BY <2>1, <2>2, <2>5
      <3>5. response' \in {Value(t) : t \in 0 .. counter}
        BY <3>2
      <3> QED
        BY <1>0, <2>1, <3>2, <3>3, <3>4, <3>5 DEF Finals
    <2>6. AddsUp(id) => response' = response /\ DOMAIN fan_outs' \subseteq DOMAIN fan_outs
      BY DEF AddsUp
    <2>7. id # Final /\ (\E sum : Completes(id, sum))
            => response' = response /\ DOMAIN fan_outs' \subseteq DOMAIN fan_outs
      BY DEF Completes
    <2> QED
      BY <2>1, <2>4, <2>5, <2>6, <2>7
  <1>8. CASE RouterExits
    <2>1. high' = <<>> /\ UNCHANGED <<mpc, counter, response, normal, fan_outs>>
      BY <1>8 DEF RouterExits
    <2>2. NoSummary(<<>>)
      BY DEF NoSummary, Range
    <2> QED
      BY <2>1, <2>2 DEF SumInv, Finals
  <1>9. CASE RouteOrder
    <2>1. /\ normal # <<>> /\ normal' = Tail(normal) /\ Head(normal).kind = "new_order"
          /\ UNCHANGED <<mpc, counter, high, fan_outs>>
          /\ response' = IF async_mode THEN response ELSE Value(0)
      BY <1>9 DEF RouteOrder
    <2>2. /\ Range(normal) = Range(normal') \cup {Head(normal)} /\ LastOnly(normal', Summary(Final))
      BY <1>0, <2>1, Taken, TakenBehind
    <2>3. OrderLines(normal) # {}
      BY <1>0, <2>1, Taken
    <2>4. ~async_mode => mpc = "acknowledge"
      BY <2>3 DEF SumInv, OrderInv, Phases
    <2>5. CASE async_mode
      BY <2>1, <2>2, <2>5 DEF SumInv, Finals
    <2>6. CASE ~async_mode
      <3>1. mpc = "acknowledge" /\ Final \notin DOMAIN fan_outs /\ Summary(Final) \notin Range(normal)
        BY <2>4, <2>6, NotWaiting
      <3>2. response' \in {Value(t) : t \in 0 .. counter}
        BY <1>0, <2>1, <2>6
      <3> QED
        BY <2>1, <2>2, <3>1, <3>2 DEF Finals
    <2> QED
      BY <2>5, <2>6
  <1>10. CASE HandleFinal
    <2>1. /\ mpc = "wait" /\ response = None /\ normal' = <<>> /\ FanOut(Final) /\ Final \notin DOMAIN fan_outs
          /\ UNCHANGED <<mpc, counter, high>>
      BY <1>10, FinalHandling
    <2>2. Range(<<>>) = {} /\ LastOnly(<<>>, Summary(Final))
      BY DEF Range, LastOnly
    <2>3. CASE book_map = {}
      <3>1. response' = Error /\ fan_outs' = fan_outs
        BY <2>1, <2>3 DEF FanOut
      <3> QED
        BY <2>1, <2>2, <3>1 DEF Finals
    <2>4. CASE book_map # {}
      <3>1. response' = None
        BY <2>1, <2>4 DEF FanOut
      <3> QED
        BY <2>1, <2>2, <3>1 DEF Finals
    <2> QED
      BY <2>3, <2>4
  <1>11. ASSUME NEW i \in Instruments, GetBookStats(i) PROVE Finals'
    <2> DEFINE id == Head(book_high[i]).id
               m == Stats(id, Len(received[i]))
    <2>1. /\ id \in Nat /\ Len(received[i]) \in Nat
          /\ (high' = Append(high, m) \/ high' = high)
          /\ UNCHANGED <<mpc, counter, response, normal, fan_outs>>
      BY <1>11, Answering DEF SumInv, OrderInv, Types
    <2>2. m \in HighMessages /\ ~IsSummary(m)
      BY <2>1, Messages DEF IsSummary
    <2> HIDE DEF id, m
    <2>3. Range(Append(high, m)) = Range(high) \cup {m}
      BY <1>0, <2>2, HighAppended
    <2>4. NoSummary(high) => NoSummary(high')
      BY <2>1, <2>2, <2>3 DEF NoSummary
    <2> QED
      BY <2>1, <2>4 DEF SumInv, Finals
  <1>12. ASSUME (\E i \in Instruments : BookExits(i) \/ BookNormal(i)) \/ UNCHANGED vars PROVE Finals'
    <2>1. UNCHANGED <<mpc, counter, response, normal, high, fan_outs>>
      BY <1>12 DEF BookExits, BookNormal, ReceiveOrder, DumpAndExit, vars
    <2> QED
      BY <2>1 DEF SumInv, Finals
  <1> QED
    BY <1>1, <1>2, <1>3, <1>4, <1>5, <1>6, <1>7, <1>8, <1>9, <1>10, <1>11, <1>12
    DEF Next, Main, RouterHigh, RouterNormal, BookHigh

-----------------------------------------------------------------------------

LEMMA ReportAppended ==
  ASSUME NEW S, NEW reps \in Seq(S), NEW m \in S
  PROVE  Reported(Append(reps, m)) = Reported(reps) \cup {m.after}
  <1> DEFINE n == Len(reps)
             r == Append(reps, m)
  <1>1. /\ n \in Nat /\ DOMAIN reps = 1 .. n /\ DOMAIN r = 1 .. n + 1
        /\ r[n + 1] = m /\ \A k \in 1 .. n : r[k] = reps[k] /\ k \in 1 .. n + 1
        /\ n + 1 \in 1 .. n + 1 /\ \A k \in 1 .. n + 1 : k \in 1 .. n \/ k = n + 1
    OBVIOUS
  <1> HIDE DEF n, r
  <1>2. Reported(r) = Reported(reps) \cup {m.after}
    BY <1>1 DEF Reported
  <1> QED
    BY <1>2 DEF r

LEMMA StagesKept == 
  ASSUME NEW rep, NEW open, NEW coming, NEW limit \in Nat, Stages(rep, open, coming, limit),
         NEW rep2, NEW open2, NEW coming2, NEW limit2 \in Nat,
         \/ rep2 = rep /\ open2 = open /\ coming2 \subseteq coming /\ limit <= limit2
         \/ rep2 = rep /\ open2 = open /\ coming2 = coming \cup {limit + 1} /\ limit2 = limit + 1
         \/ rep2 = rep /\ limit2 = limit /\ \E id \in coming :
              coming = coming2 \cup {id} /\ AllBelow({id}, coming2) /\ open2 = open \cup {id}
         \/ coming2 = coming /\ limit2 = limit /\ \E id \in open :
              open2 = open \ {id} /\ AllBelow({id}, open2) /\ rep2 = rep \cup {id}
  PROVE  Stages(rep2, open2, coming2, limit2)
  <1>1. /\ rep \cup open \cup coming \subseteq 1 .. limit
        /\ AllBelow(rep, open) /\ AllBelow(rep, coming) /\ AllBelow(open, coming)
    BY DEF Stages
  <1>2. CASE rep2 = rep /\ open2 = open /\ coming2 \subseteq coming /\ limit <= limit2
    <2>1. rep2 \cup open2 \cup coming2 \subseteq 1 .. limit2
      BY <1>1, <1>2
    <2> QED
      BY <1>1, <1>2, <2>1 DEF Stages, AllBelow
  <1>3. CASE rep2 = rep /\ open2 = open /\ coming2 = coming \cup {limit + 1} /\ limit2 = limit + 1
    <2>1. rep2 \cup open2 \cup coming2 \subseteq 1 .. limit2
      BY <1>1, <1>3
    <2>2. \A x \in rep \cup open : x < limit + 1
      BY <1>1
    <2> QED
      BY <1>1, <1>3, <2>1, <2>2 DEF Stages, AllBelow
  <1>4. ASSUME NEW id \in coming, rep2 = rep, limit2 = limit,
               coming = coming2 \cup {id}, AllBelow({id}, coming2), open2 = open \cup {id}
        PROVE  Stages(rep2, open2, coming2, limit2)
    <2>1. rep2 \cup open2 \cup coming2 \subseteq 1 .. limit2
      BY <1>1, <1>4
    <2> QED
      BY <1>1, <1>4, <2>1 DEF Stages, AllBelow
  <1>5. ASSUME NEW id \in open, coming2 = coming, limit2 = limit,
               open2 = open \ {id}, AllBelow({id}, open2), rep2 = rep \cup {id}
        PROVE  Stages(rep2, open2, coming2, limit2)
    <2>1. rep2 \cup open2 \cup coming2 \subseteq 1 .. limit2
      BY <1>1, <1>5
    <2> QED
      BY <1>1, <1>5, <2>1 DEF Stages, AllBelow
  <1> QED
    BY <1>2, <1>3, <1>4, <1>5

LEMMA OneLess == \A n \in Nat : n > 0 => n - 1 \in Nat
  OBVIOUS

LEMMA StagedKept == SumInv /\ [Next]_vars => Staged'
  <1> SUFFICES ASSUME SumInv, [Next]_vars PROVE Staged'
    OBVIOUS
  <1> USE DEF given, mainVars, mailbox, routerState, bookVars
  <1> DEFINE rep == Reported(reports)
             open == Open(fan_outs)
             coming == Coming(high)
             Old == Stages(rep, open, coming, Limit)
             New == Stages(rep', open', coming', Limit')
  <1>0. Old /\ high \in Seq(HighMessages) /\ counter \in Nat /\ Limit \in Nat
    BY Limits DEF SumInv, Staged, OrderInv, Types
  <1>1. Limit' \in Nat
    <2>1. Types'
      BY TypesKept DEF SumInv, OrderInv
    <2>2. counter' \in Nat /\ (mpc' \in {"acknowledge", "report"} => counter' > 0)
      BY <2>1 DEF Types
    <2>3. CASE mpc' \in {"acknowledge", "report"}
      <3>1. Limit' = counter' - 1
        BY <2>3 DEF Limit
      <3>2. counter' \in Nat /\ counter' > 0
        BY <2>2, <2>3
      <3>3. counter' - 1 \in Nat
        BY ONLY <3>2, OneLess
      <3> QED
        BY <3>1, <3>3
    <2>4. CASE mpc' \notin {"acknowledge", "report"}
      BY <2>2, <2>4 DEF Limit
    <2> QED
      BY <2>3, <2>4
  <1>2. New => Staged'
    BY DEF Staged
  <1>3. CASE Main /\ ~SendReport /\ ~ExitRouter
    <2>1. UNCHANGED <<high, fan_outs, reports>> /\ counter' \in {counter, counter + 1}
      BY <1>3 DEF Main, SendOrder, ReceiveAcknowledgement, BadLine, EndOfInput, Ask, ReceiveTotal, DumpBooks
    <2>2. Limit <= Limit'
      <3>1. CASE SendOrder
        BY <1>0, <3>1 DEF SendOrder, Limit
      <3>2. CASE ~SendOrder
        <4>1. counter' = counter /\ (mpc' \in {"acknowledge", "report"} => mpc = "acknowledge")
          BY <1>3, <3>2 DEF Main, ReceiveAcknowledgement, BadLine, EndOfInput, Ask, ReceiveTotal, DumpBooks, AfterSend
        <4> QED
          BY <1>0, <4>1 DEF Limit
      <3> QED
        BY <3>1, <3>2
    <2>3. rep' = rep /\ open' = open /\ coming' = coming
      BY <2>1
    <2> HIDE DEF rep, open, coming
    <2>4. New
      BY <1>0, <1>1, <2>2, <2>3, StagesKept
    <2> QED
      BY <1>2, <2>4
  <1>4. CASE SendReport
    <2>1. high' = Append(high, Summary(counter)) /\ UNCHANGED <<fan_outs, reports, counter>>
          /\ mpc = "report" /\ mpc' = "read"
      BY <1>4 DEF SendReport
    <2>2. counter \in Nat \ {0} /\ Limit' = Limit + 1 /\ Limit + 1 = counter
      BY <1>0, <2>1 DEF SumInv, OrderInv, Types, Limit
    <2>3. Summary(counter) \in HighMessages /\ IsSummary(Summary(counter)) /\ Summary(counter).id = counter
      BY <2>2, Messages DEF IsSummary
    <2>4. coming' = coming \cup {Limit + 1}
      BY <1>0, <2>1, <2>2, <2>3, HighAppended
    <2>5. rep' = rep /\ open' = open
      BY <2>1
    <2> HIDE DEF rep, open, coming
    <2>6. New
      BY <1>0, <1>1, <2>2, <2>4, <2>5, StagesKept
    <2> QED
      BY <1>2, <2>6
  <1>5. CASE ExitRouter \/ RouterExits \/ RouterNormal \/ (\E i \in Instruments : BookExits(i) \/ BookNormal(i))
             \/ UNCHANGED vars
    <2>1. /\ UNCHANGED <<counter, reports>> /\ open' = open
          /\ high' \in {high, <<>>, Append(high, Exit)}
          /\ (mpc' = mpc \/ (mpc = "exit router" /\ mpc' = "done"))
      <3>1. CASE HandleFinal
        <4>1. UNCHANGED <<counter, reports, high, mpc>> /\ FanOut(Final) /\ Final \notin DOMAIN fan_outs
          BY <3>1, FinalHandling
        <4>2. open' = open
          <5>1. CASE book_map = {}
            BY <4>1, <5>1 DEF FanOut
          <5>2. CASE book_map # {}
            <6>1. DOMAIN fan_outs' = DOMAIN fan_outs \cup {Final}
              BY <4>1, <5>2, AllAsked DEF Final
            <6> QED
              BY <6>1 DEF Open
          <5> QED
            BY <5>1, <5>2
        <4> QED
          BY <4>1, <4>2
      <3>2. CASE ~HandleFinal
        <4>1. UNCHANGED <<counter, reports, fan_outs>> /\ high' \in {high, <<>>, Append(high, Exit)}
              /\ (mpc' = mpc \/ (mpc = "exit router" /\ mpc' = "done"))
          BY <1>5, <3>2 DEF ExitRouter, RouterExits, RouterNormal, RouteOrder, BookExits, BookNormal, ReceiveOrder,
                            DumpAndExit, vars
        <4> QED
          BY <4>1
      <3> QED
        BY <3>1, <3>2
    <2>2. coming' \subseteq coming
      <3>1. Coming(<<>>) = {}
        BY DEF Coming, Range
      <3>2. Exit \in HighMessages /\ ~IsSummary(Exit)
        BY Messages DEF IsSummary
      <3>3. Coming(Append(high, Exit)) = Coming(high)
        BY <1>0, <3>2, HighAppended
      <3> QED
        BY <2>1, <3>1, <3>3
    <2>3. Limit' = Limit /\ rep' = rep /\ open' = open
      BY <2>1 DEF Limit
    <2>5. Limit <= Limit'
      BY <1>0, <2>3
    <2> HIDE DEF rep, open, coming
    <2>4. New
      BY <1>0, <1>1, <2>2, <2>3, <2>5, StagesKept
    <2> QED
      BY <1>2, <2>4
  <1>6. CASE HandleReport
    <2> DEFINE id == Head(high).id
    <2>1. /\ FanOut(id) /\ id \in Nat /\ id # Final /\ id \notin DOMAIN fan_outs
          /\ coming = coming' \cup {id} /\ AllBelow({id}, coming')
          /\ UNCHANGED <<mpc, counter, reports>>
      BY <1>6, ReportHandling
    <2> HIDE DEF id
    <2>2. CASE book_map = {}
      <3>1. open' = open /\ coming' \subseteq coming /\ Limit' = Limit /\ rep' = rep
        BY <2>1, <2>2 DEF FanOut, Limit
      <3> HIDE DEF rep, open, coming
      <3>2. New
        BY <1>0, <1>1, <3>1, StagesKept
      <3> QED
        BY <1>2, <3>2
    <2>3. CASE book_map # {}
      <3>1. DOMAIN fan_outs' = DOMAIN fan_outs \cup {id}
        BY <2>1, <2>3, AllAsked
      <3>2. open' = open \cup {id} /\ id \in coming /\ Limit' = Limit /\ rep' = rep
        BY <2>1, <3>1 DEF Open, Limit
      <3> HIDE DEF rep, open, coming
      <3>3. New
        BY <1>0, <1>1, <2>1, <3>2, StagesKept
      <3> QED
        BY <1>2, <3>3
    <2> QED
      BY <2>2, <2>3
  <1>7. CASE CollectStats
    <2> DEFINE id == Head(high).id
    <2>1. /\ high # <<>> /\ high' = Tail(high) /\ IsAnswer(Head(high), id) /\ id \in DOMAIN fan_outs
          /\ UNCHANGED <<mpc, counter>> /\ (AddsUp(id) \/ \E sum : Completes(id, sum)) /\ id \in Nat
      BY <1>7, Collecting
    <2>2. coming' = coming
      BY <1>0, <2>1, HighTaken DEF IsAnswer, IsSummary
    <2>3. Limit' = Limit
      BY <2>1 DEF Limit
    <2> HIDE DEF id
    <2>4. CASE reports' = reports /\ open' = open
      <3>1. rep' = rep
        BY <2>4
      <3> HIDE DEF rep, open, coming
      <3>2. New
        BY <1>0, <1>1, <2>2, <2>3, <2>4, <3>1, StagesKept
      <3> QED
        BY <1>2, <3>2
    <2>5. ASSUME NEW sum, Completes(id, sum), id # Final PROVE New
      <3> DEFINE m == [after |-> id, total |-> sum]
      <3>1. /\ reports' = Append(reports, m) /\ DOMAIN fan_outs' = DOMAIN fan_outs \ {id}
            /\ \A a \in open' : id < a
            /\ sum \in 0 .. counter
        BY <2>5 DEF Completes
      <3>2. m \in Lines /\ m.after = id /\ reports \in Seq(Lines)
        BY <1>0, <2>1, <3>1 DEF Lines, SumInv, Printed
      <3> HIDE DEF m
      <3>3. rep' = rep \cup {id}
        BY <3>1, <3>2, ReportAppended
      <3>4. open' = open \ {id} /\ id \in open /\ AllBelow({id}, open')
        BY <2>1, <2>5, <3>1 DEF Open, AllBelow
      <3> HIDE DEF rep, open, coming
      <3> QED
        BY <1>0, <1>1, <2>2, <2>3, <3>3, <3>4, StagesKept
    <2>6. AddsUp(id) => reports' = reports /\ open' = open
      BY DEF AddsUp, Open
    <2>7. ASSUME NEW sum, Completes(id, sum), id = Final PROVE reports' = reports /\ open' = open
      BY <2>7 DEF Completes, Open
    <2> QED
      BY <1>2, <2>1, <2>4, <2>5, <2>6, <2>7
  <1>8. ASSUME NEW i \in Instruments, GetBookStats(i) PROVE Staged'
    <2> DEFINE id == Head(book_high[i]).id
               m == Stats(id, Len(received[i]))
    <2>1. /\ id \in Nat /\ Len(received[i]) \in Nat
          /\ (high' = Append(high, m) \/ high' = high)
          /\ UNCHANGED <<mpc, counter, fan_outs, reports>>
      BY <1>8, Answering DEF SumInv, OrderInv, Types
    <2>2. m \in HighMessages /\ ~IsSummary(m)
      BY <2>1, Messages DEF IsSummary
    <2> HIDE DEF id, m
    <2>3. coming' = coming
      BY <1>0, <2>1, <2>2, HighAppended
    <2>4. Limit' = Limit /\ rep' = rep /\ open' = open
      BY <2>1 DEF Limit
    <2> HIDE DEF rep, open, coming
    <2>5. New
      BY <1>0, <1>1, <2>3, <2>4, StagesKept
    <2> QED
      BY <1>2, <2>5
  <1> QED
    BY <1>3, <1>4, <1>5, <1>6, <1>7, <1>8 DEF Next, Main, RouterHigh, RouterNormal, BookHigh

\* The parts of Asking.
Bounded(fans, books, n) ==
  \A id \in DOMAIN fans : fans[id].waiting \in 1 .. Cardinality(books) /\ fans[id].total \in 0 .. n

AskedFor(fans, boxes) == \A id \in Nat : Pending(id, boxes) # {} => id \in DOMAIN fans

AnswersTo(fans, q, n) ==
  SummariesFirst(q) /\ \A m \in Range(q) : m.kind = "stats" => m.id \in DOMAIN fans /\ m.total <= n

LEMMA AskingParts ==
  /\ SumInv => /\ Bounded(fan_outs, book_map, counter) /\ AskedFor(fan_outs, book_high)
               /\ AnswersTo(fan_outs, high, counter)
               /\ high \in Seq(HighMessages) /\ counter \in Nat
               /\ IsFiniteSet(book_map) /\ Cardinality(book_map) \in Nat
  /\ Bounded(fan_outs', book_map', counter') /\ AskedFor(fan_outs', book_high')
       /\ AnswersTo(fan_outs', high', counter') => Asking'
  <1>1. ASSUME SumInv
        PROVE  /\ Bounded(fan_outs, book_map, counter) /\ AskedFor(fan_outs, book_high)
               /\ AnswersTo(fan_outs, high, counter)
    BY <1>1 DEF SumInv, Asking, Bounded, AskedFor, AnswersTo
  <1>2. ASSUME SumInv
        PROVE  /\ high \in Seq(HighMessages) /\ counter \in Nat
               /\ IsFiniteSet(book_map) /\ Cardinality(book_map) \in Nat
    BY <1>2, Limits, FS_CardinalityType DEF SumInv, OrderInv, Types, Books
  <1>3. ASSUME Bounded(fan_outs', book_map', counter'), AskedFor(fan_outs', book_high'),
               AnswersTo(fan_outs', high', counter')
        PROVE  Asking'
    BY <1>3 DEF Asking, Bounded, AskedFor, AnswersTo
  <1> QED
    BY <1>1, <1>2, <1>3

LEMMA BoundedMore ==
  ASSUME NEW fans, NEW books, NEW n \in Nat, Bounded(fans, books, n), NEW books2, NEW n2 \in Nat,
         IsFiniteSet(books2), books \subseteq books2, n <= n2
  PROVE  Bounded(fans, books2, n2)
  <1>1. /\ Cardinality(books) \in Nat /\ Cardinality(books2) \in Nat
        /\ Cardinality(books) <= Cardinality(books2)
    BY FS_Subset, FS_CardinalityType
  <1> SUFFICES ASSUME NEW id \in DOMAIN fans
               PROVE  fans[id].waiting \in 1 .. Cardinality(books2) /\ fans[id].total \in 0 .. n2
    BY DEF Bounded
  <1>2. fans[id].waiting \in 1 .. Cardinality(books) /\ fans[id].total \in 0 .. n
    BY DEF Bounded
  <1> QED
    BY <1>1, <1>2

LEMMA AnswersMore ==
  ASSUME NEW fans, NEW q \in Seq(HighMessages), NEW n \in Nat, NEW n2 \in Nat, n <= n2, AnswersTo(fans, q, n)
  PROVE  AnswersTo(fans, q, n2)
  <1> SUFFICES ASSUME NEW m \in Range(q), m.kind = "stats"
               PROVE  m.id \in DOMAIN fans /\ m.total <= n2
    BY DEF AnswersTo
  <1>1. m.id \in DOMAIN fans /\ m.total <= n
    BY DEF AnswersTo
  <1>2. m \in HighMessages
    BY DEF Range
  <1>3. m.total \in Nat
    BY <1>2, Kinds
  <1> QED
    BY <1>1, <1>3

LEMMA AnswersToAppended ==
  ASSUME NEW fans, NEW q \in Seq(HighMessages), NEW n, AnswersTo(fans, q, n), NEW m \in HighMessages,
         m.kind = "stats" => m.id \in DOMAIN fans /\ m.total <= n,
         IsSummary(m) => AllBelow(Coming(q), {m.id}) /\ \A x \in Range(q) : ~IsAnswer(x, Final)
  PROVE  AnswersTo(fans, Append(q, m), n)
  <1>1. Range(Append(q, m)) = Range(q) \cup {m} /\ SummariesFirst(Append(q, m))
    BY HighAppended DEF AnswersTo
  <1> QED
    BY <1>1 DEF AnswersTo

LEMMA AnswersToTaken ==
  ASSUME NEW fans, NEW q \in Seq(HighMessages), NEW n, AnswersTo(fans, q, n), q # <<>>, NEW fans2,
         \A m \in Range(Tail(q)) : m.kind = "stats" /\ m.id \in DOMAIN fans => m.id \in DOMAIN fans2
  PROVE  AnswersTo(fans2, Tail(q), n)
  <1>1. Range(q) = Range(Tail(q)) \cup {Head(q)} /\ SummariesFirst(Tail(q))
    BY HighTaken DEF AnswersTo
  <1> QED
    BY <1>1 DEF AnswersTo

LEMMA AskedByFanOut ==
  ASSUME SumInv, NEW id \in Nat, FanOut(id), id \notin DOMAIN fan_outs
  PROVE  /\ Bounded(fan_outs', book_map, counter) /\ AskedFor(fan_outs', book_high')
         /\ DOMAIN fan_outs \subseteq DOMAIN fan_outs'
  <1>1. /\ Bounded(fan_outs, book_map, counter) /\ AskedFor(fan_outs, book_high) /\ counter \in Nat
        /\ IsFiniteSet(book_map) /\ Cardinality(book_map) \in Nat
    BY AskingParts
  <1>2. CASE book_map = {}
    <2>1. fan_outs' = fan_outs /\ book_high' = book_high
      BY <1>2 DEF FanOut
    <2> QED
      BY <1>1, <2>1
  <1>3. CASE book_map # {}
    <2>1. /\ DOMAIN fan_outs' = DOMAIN fan_outs \cup {id}
          /\ fan_outs'[id].waiting = Cardinality(book_map) /\ fan_outs'[id].total = 0
          /\ \A a \in DOMAIN fan_outs : fan_outs'[a] = fan_outs[a]
          /\ \A a \in Nat \ {id} : Pending(a, book_high') = Pending(a, book_high)
      BY <1>3, AllAsked
    <2>2. Cardinality(book_map) >= 1
      BY <1>1, <1>3, FS_EmptySet
    <2>3. fan_outs'[id].waiting \in 1 .. Cardinality(book_map) /\ fan_outs'[id].total \in 0 .. counter
      BY <1>1, <2>1, <2>2
    <2>4. Bounded(fan_outs', book_map, counter)
      BY <1>1, <2>1, <2>3 DEF Bounded
    <2>5. AskedFor(fan_outs', book_high')
      BY <1>1, <2>1 DEF AskedFor
    <2> QED
      BY <2>1, <2>4, <2>5
  <1> QED
    BY <1>2, <1>3

\* The exit message of a book is no request.
LEMMA ExitIsNoRequest ==
  ASSUME SumInv, NEW i \in Instruments, BookExits(i) \/ DumpAndExit(i)
  PROVE  \A id \in Nat : Pending(id, book_high') = Pending(id, book_high)
  <1>1. book_high \in Boxes /\ RequestsInOrder(book_high[i]) /\ book_high[i] \in Seq(BookHighMessages)
    BY DEF SumInv, OrderInv, Types, Books, Boxes
  <1>2. CASE BookExits(i)
    <2>1. /\ book_high[i] # <<>> /\ Head(book_high[i]).kind = "exit"
          /\ book_high' = [book_high EXCEPT ![i] = Tail(@)]
      BY <1>2 DEF BookExits
    <2>2. Head(book_high[i]) = Exit
      BY <1>1, <2>1, Taken, Kinds
    <2>3. Takes(book_high', book_high, i)
      BY <2>1 DEF Takes
    <2> QED
      BY <1>1, <2>2, <2>3, PendingTaken
  <1>3. CASE DumpAndExit(i)
    <2>1. book_high' = [book_high EXCEPT ![i] = Append(@, Exit)]
      BY <1>3 DEF DumpAndExit
    <2>2. book_high \in [Instruments -> Seq(BookHighMessages)]
      BY <1>1 DEF Boxes
    <2>3. Sent(book_high', book_high, {i}, Exit)
      BY <2>1, <2>2 DEF Sent
    <2>4. Exit \in BookHighMessages /\ (\A id \in Nat : Exit # GetStats(id)) /\ {i} \in SUBSET Instruments
      BY Messages
    <2>5. \A id \in Nat : Pending(id, book_high')
                            = Pending(id, book_high) \cup (IF Exit = GetStats(id) THEN {i} ELSE {})
      BY <1>1, <2>3, <2>4, PendingAsked
    <2> QED
      BY <2>4, <2>5
  <1> QED
    BY <1>2, <1>3

LEMMA AskingKept == SumInv /\ [Next]_vars => Asking'
  <1> SUFFICES ASSUME SumInv, [Next]_vars PROVE Asking'
    OBVIOUS
  <1> USE DEF given, mainVars, mailbox, routerState, bookVars
  <1>0. /\ Bounded(fan_outs, book_map, counter) /\ AskedFor(fan_outs, book_high)
        /\ AnswersTo(fan_outs, high, counter) /\ high \in Seq(HighMessages) /\ counter \in Nat
        /\ IsFiniteSet(book_map) /\ Cardinality(book_map) \in Nat
    BY AskingParts
  <1>1. CASE (Main /\ ~SendReport /\ ~ExitRouter) \/ (\E i \in Instruments : ReceiveOrder(i)) \/ UNCHANGED vars
    <2>1. UNCHANGED <<high, fan_outs, book_map, book_high>> /\ counter' \in {counter, counter + 1}
      BY <1>1 DEF Main, SendOrder, ReceiveAcknowledgement, BadLine, EndOfInput, Ask, ReceiveTotal, DumpBooks,
                  ReceiveOrder, vars
    <2>2. counter' \in Nat /\ counter <= counter'
      BY <1>0, <2>1
    <2>3. Bounded(fan_outs, book_map, counter') /\ AnswersTo(fan_outs, high, counter')
      BY <1>0, <2>2, BoundedMore, AnswersMore
    <2> QED
      BY <1>0, <2>1, <2>3, AskingParts
  <1>2. CASE SendReport \/ ExitRouter
    <2>1. /\ UNCHANGED <<fan_outs, book_map, book_high, counter>>
          /\ \/ SendReport /\ mpc = "report" /\ high' = Append(high, Summary(counter))
             \/ ExitRouter /\ high' = Append(high, Exit)
      BY <1>2 DEF SendReport, ExitRouter
    <2>2. CASE SendReport
      <3>1. high' = Append(high, Summary(counter)) /\ mpc = "report"
        BY <2>2 DEF SendReport
      <3>2. counter \in Nat \ {0} /\ Limit = counter - 1
        BY <1>0, <3>1 DEF SumInv, OrderInv, Types, Limit
      <3>3. /\ Summary(counter) \in HighMessages /\ Summary(counter).kind = "dump_book_summary"
            /\ Summary(counter).id = counter
        BY <3>2, Messages
      <3>4. Coming(high) \subseteq 1 .. Limit
        BY DEF SumInv, Staged, Stages
      <3>5. AllBelow(Coming(high), {counter})
        BY <3>2, <3>4 DEF AllBelow
      <3>6. \A x \in Range(high) : ~IsAnswer(x, Final)
        <4>1. Final \notin DOMAIN fan_outs
          BY <3>1, NotWaiting
        <4> QED
          BY <1>0, <4>1 DEF AnswersTo, IsAnswer
      <3>7. AnswersTo(fan_outs, Append(high, Summary(counter)), counter)
        BY <1>0, <3>3, <3>5, <3>6, AnswersToAppended
      <3> QED
        BY <1>0, <2>1, <3>1, <3>7, AskingParts
    <2>3. CASE ExitRouter
      <3>1. high' = Append(high, Exit)
        BY <2>3 DEF ExitRouter
      <3>2. Exit \in HighMessages /\ ~IsSummary(Exit) /\ Exit.kind # "stats"
        BY Messages DEF IsSummary
      <3>3. AnswersTo(fan_outs, Append(high, Exit), counter)
        BY <1>0, <3>2, AnswersToAppended
      <3> QED
        BY <1>0, <2>1, <3>1, <3>3, AskingParts
    <2> QED
      BY <1>2, <2>2, <2>3
  <1>3. CASE RouteOrder
    <2>1. /\ book_map' = book_map \cup {input[Head(normal).line]}
          /\ UNCHANGED <<high, fan_outs, book_high, counter>>
      BY <1>3 DEF RouteOrder
    <2>2. IsFiniteSet(book_map') /\ book_map \subseteq book_map'
      BY <1>0, <2>1, FS_AddElement
    <2>3. Bounded(fan_outs, book_map', counter)
      BY <1>0, <2>2, BoundedMore
    <2> QED
      BY <1>0, <2>1, <2>3, AskingParts
  <1>4. CASE HandleReport
    <2> DEFINE id == Head(high).id
    <2>1. /\ FanOut(id) /\ id \in Nat /\ id \notin DOMAIN fan_outs /\ high # <<>> /\ high' = Tail(high)
          /\ UNCHANGED <<counter, book_map>>
      BY <1>4, ReportHandling
    <2> HIDE DEF id
    <2>2. /\ Bounded(fan_outs', book_map, counter) /\ AskedFor(fan_outs', book_high')
          /\ DOMAIN fan_outs \subseteq DOMAIN fan_outs'
      BY <2>1, AskedByFanOut
    <2>3. AnswersTo(fan_outs', Tail(high), counter)
      BY <1>0, <2>1, <2>2, AnswersToTaken
    <2> QED
      BY <2>1, <2>2, <2>3, AskingParts
  <1>5. CASE HandleFinal
    <2>1. FanOut(Final) /\ Final \in Nat /\ Final \notin DOMAIN fan_outs /\ UNCHANGED <<counter, book_map, high>>
      BY <1>5, FinalHandling DEF Final
    <2>2. /\ Bounded(fan_outs', book_map, counter) /\ AskedFor(fan_outs', book_high')
          /\ DOMAIN fan_outs \subseteq DOMAIN fan_outs'
      BY <2>1, AskedByFanOut
    <2>3. AnswersTo(fan_outs', high, counter)
      BY <1>0, <2>2 DEF AnswersTo
    <2> QED
      BY <2>1, <2>2, <2>3, AskingParts
  <1>6. CASE CollectStats
    <2> DEFINE id == Head(high).id
    <2>1. /\ high # <<>> /\ high' = Tail(high) /\ id \in DOMAIN fan_outs /\ id \in Nat
          /\ UNCHANGED <<counter, book_map, book_high>>
          /\ (AddsUp(id) \/ \E sum : Completes(id, sum))
      BY <1>6, Collecting
    <2> HIDE DEF id
    <2>2. CASE AddsUp(id)
      <3>1. /\ DOMAIN fan_outs' = DOMAIN fan_outs
            /\ fan_outs'[id].waiting = fan_outs[id].waiting - 1 /\ fan_outs'[id].waiting >= 1
            /\ fan_outs'[id].total \in 0 .. counter
            /\ \A a \in DOMAIN fan_outs : a # id => fan_outs'[a] = fan_outs[a]
        BY <2>2 DEF AddsUp
      <3>2. fan_outs[id].waiting \in 1 .. Cardinality(book_map)
        BY <1>0, <2>1 DEF Bounded
      <3>3. fan_outs'[id].waiting \in 1 .. Cardinality(book_map)
        BY <1>0, <3>1, <3>2
      <3>4. Bounded(fan_outs', book_map, counter) /\ AskedFor(fan_outs', book_high)
        BY <1>0, <3>1, <3>3 DEF Bounded, AskedFor
      <3>5. AnswersTo(fan_outs', Tail(high), counter)
        BY <1>0, <2>1, <3>1, AnswersToTaken
      <3> QED
        BY <2>1, <3>4, <3>5, AskingParts
    <2>3. ASSUME NEW sum, Completes(id, sum) PROVE Asking'
      <3>1. /\ DOMAIN fan_outs' = DOMAIN fan_outs \ {id}
            /\ \A a \in DOMAIN fan_outs' : fan_outs'[a] = fan_outs[a]
            /\ Pending(id, book_high) = {} /\ Answers(id, high') = 0
        BY <2>3 DEF Completes
      <3>2. Bounded(fan_outs', book_map, counter) /\ AskedFor(fan_outs', book_high)
        BY <1>0, <3>1 DEF Bounded, AskedFor
      <3>3. Tail(high) \in Seq(HighMessages) /\ Answers(id, Tail(high)) = 0
        BY <1>0, <2>1, <3>1, HighTaken
      <3>4. \A k \in DOMAIN Tail(high) : ~IsAnswer(Tail(high)[k], id)
        BY <3>3, NoAnswers
      <3>5. \A m \in Range(Tail(high)) : m.kind = "stats" => m.id # id
        BY <3>4 DEF Range, IsAnswer
      <3>6. \A m \in Range(Tail(high)) : m.kind = "stats" /\ m.id \in DOMAIN fan_outs => m.id \in DOMAIN fan_outs'
        BY <3>1, <3>5
      <3>7. AnswersTo(fan_outs', Tail(high), counter)
        BY <1>0, <2>1, <3>6, AnswersToTaken
      <3> QED
        BY <2>1, <3>2, <3>7, AskingParts
    <2> QED
      BY <2>1, <2>2, <2>3
  <1>7. CASE RouterExits
    <2>1. high' = <<>> /\ UNCHANGED <<fan_outs, book_map, book_high, counter>>
      BY <1>7 DEF RouterExits
    <2>2. AnswersTo(fan_outs, <<>>, counter)
      BY DEF AnswersTo, SummariesFirst, Range
    <2> QED
      BY <1>0, <2>1, <2>2, AskingParts
  <1>8. ASSUME NEW i \in Instruments, GetBookStats(i) PROVE Asking'
    <2> DEFINE id == Head(book_high[i]).id
               n == Len(received[i])
    <2>1. /\ id \in DOMAIN fan_outs /\ id \in Nat /\ n \in Nat /\ n <= counter
          /\ Pending(id, book_high') = Pending(id, book_high) \ {i}
          /\ \A a \in Nat \ {id} : Pending(a, book_high') = Pending(a, book_high)
          /\ router_running => high' = Append(high, Stats(id, n))
          /\ ~router_running => high' = high
          /\ UNCHANGED <<counter, book_map, fan_outs>>
      BY <1>8, Answering
    <2> HIDE DEF id, n
    <2>2. /\ Stats(id, n) \in HighMessages /\ ~IsSummary(Stats(id, n))
          /\ Stats(id, n).id = id /\ Stats(id, n).total = n
      BY <2>1, Messages DEF IsSummary
    <2>3. AnswersTo(fan_outs, Append(high, Stats(id, n)), counter)
      BY <1>0, <2>1, <2>2, AnswersToAppended
    <2>4. AskedFor(fan_outs, book_high')
      BY <1>0, <2>1 DEF AskedFor
    <2>5. AnswersTo(fan_outs, high', counter)
      BY <1>0, <2>1, <2>3
    <2> QED
      BY <1>0, <2>1, <2>4, <2>5, AskingParts
  <1>9. ASSUME NEW i \in Instruments, BookExits(i) \/ DumpAndExit(i) PROVE Asking'
    <2>1. UNCHANGED <<high, fan_outs, book_map, counter>>
      BY <1>9 DEF BookExits, DumpAndExit
    <2>2. \A id \in Nat : Pending(id, book_high') = Pending(id, book_high)
      BY <1>9, ExitIsNoRequest
    <2>3. AskedFor(fan_outs, book_high')
      BY <1>0, <2>2 DEF AskedFor
    <2> QED
      BY <1>0, <2>1, <2>3, AskingParts
  <1> QED
    BY <1>1, <1>2, <1>3, <1>4, <1>5, <1>6, <1>7, <1>8, <1>9
    DEF Next, Main, RouterHigh, RouterNormal, BookHigh, BookNormal

\* What the sums are of, however the step moved the messages.
LEMMA SummingFanOut ==
  ASSUME SumInv, NEW q, q \in Seq(HighMessages), Range(q) \subseteq Range(high),
         Summing(fan_outs, q, book_high, received, reports),
         NEW id \in Nat, FanOut(id), id \notin DOMAIN fan_outs, id # Final => AllBelow(Open(fan_outs), {id})
  PROVE  Summing(fan_outs', q, book_high', received, reports)
  <1>1. CASE book_map = {}
    <2>1. fan_outs' = fan_outs /\ book_high' = book_high
      BY <1>1 DEF FanOut
    <2> QED
      BY <2>1
  <1>2. CASE book_map # {}
    <2>1. Framed(fan_outs, q, book_high, received, reports, book_map, input, counter)
      BY Frames DEF Framed
    <2>2. \A m \in Range(q) : ~IsAnswer(m, id)
      BY AskingParts DEF AnswersTo, IsAnswer
    <2>3. Answers(id, q) = 0
      BY <2>2, NoAnswers
    <2>4. /\ DOMAIN fan_outs' = DOMAIN fan_outs \cup {id}
          /\ fan_outs'[id].waiting = Cardinality(book_map) /\ fan_outs'[id].total = 0
          /\ \A a \in DOMAIN fan_outs : fan_outs'[a] = fan_outs[a]
          /\ Pending(id, book_high') = book_map
          /\ \A a \in Nat \ {id} : Pending(a, book_high') = Pending(a, book_high)
      BY <1>2, AllAsked
    <2>5. id # Final => \A a \in Open(fan_outs) : a < id
      BY DEF AllBelow
    <2>6. Summing(fan_outs, q, book_high, received, reports) /\ id \in Nat /\ id \notin DOMAIN fan_outs
      OBVIOUS
    <2> QED
      BY ONLY <1>2, <2>1, <2>3, <2>4, <2>5, <2>6, SummingAsked
  <1> QED
    BY <1>1, <1>2

\* A book never receives the same order twice.
LEMMA OrderIsNew ==
  ASSUME SumInv, NEW i \in Instruments, ReceiveOrder(i), NEW p, p = Head(book_normal[i]).line
  PROVE  /\ p \in Nat /\ p \notin HeardIn(Instruments, received) /\ Receives(received', received, i, p)
         /\ UNCHANGED <<router_running, fan_outs, high, book_high, reports>>
  <1>1. /\ book_normal[i] # <<>> /\ Head(book_normal[i]).kind = "new_order"
        /\ received' = [received EXCEPT ![i] = Append(@, p)]
        /\ UNCHANGED <<router_running, fan_outs, high, book_high, reports>>
    BY DEF ReceiveOrder, mailbox, routerState
  <1>2. book_normal[i] \in Seq(BookNormalMessages) /\ counter \in Nat
    BY Limits DEF SumInv, OrderInv, Types
  <1>3. Head(book_normal[i]) \in BookNormalMessages /\ AddsLine(book_normal[i], Tail(book_normal[i]), p)
    BY <1>1, <1>2, OrderTaken
  <1>4. p \in Nat /\ p \in OrderLines(book_normal[i])
    BY <1>1, <1>3, Kinds DEF AddsLine
  <1>5. \A j \in Instruments : InLane(j, received[j], book_normal[j], normal, counter)
    BY Lanes DEF SumInv, OrderInv, Lane
  <1>6. p \notin Range(received[i]) /\ input[p] = i
    BY <1>4, <1>5 DEF InLane, AllBelow
  <1>7. \A j \in Instruments : Range(received[j]) \subseteq {l \in 1 .. counter : input[l] = j}
    BY <1>5 DEF InLane
  <1>8. \A j \in Instruments : j # i => p \notin Range(received[j])
    BY <1>6, <1>7
  <1>9. p \notin HeardIn(Instruments, received)
    BY <1>6, <1>8 DEF HeardIn
  <1> QED
    BY <1>1, <1>4, <1>9 DEF Receives

LEMMA SumsKept == SumInv /\ [Next]_vars => Sums'
  <1> SUFFICES ASSUME SumInv, [Next]_vars PROVE Sums'
    OBVIOUS
  <1> USE DEF given, mainVars, mailbox, routerState, bookVars
  <1>0. /\ high \in Seq(HighMessages) /\ counter \in Nat
        /\ Framed(fan_outs, high, book_high, received, reports, book_map, input, counter)
        /\ router_running => Summing(fan_outs, high, book_high, received, reports)
    BY AskingParts, Frames DEF SumInv, Sums
  <1>1. CASE (Main /\ ~SendReport /\ ~ExitRouter) \/ RouteOrder \/ UNCHANGED vars
    <2>1. UNCHANGED <<router_running, fan_outs, high, book_high, received, reports>>
      BY <1>1 DEF Main, SendOrder, ReceiveAcknowledgement, BadLine, EndOfInput, Ask, ReceiveTotal, DumpBooks,
                  RouteOrder, vars
    <2> QED
      BY <2>1 DEF SumInv, Sums
  <1>2. CASE SendReport \/ ExitRouter
    <2>1. /\ UNCHANGED <<router_running, fan_outs, book_high, received, reports>>
          /\ (SendReport /\ mpc = "report" /\ high' = Append(high, Summary(counter)))
               \/ high' = Append(high, Exit)
      BY <1>2 DEF SendReport, ExitRouter
    <2>2. PICK m \in HighMessages : high' = Append(high, m) /\ m.kind # "stats"
      <3>1. CASE mpc = "report"
        <4>1. counter \in Nat \ {0}
          BY <1>0, <3>1 DEF SumInv, OrderInv, Types
        <4>2. /\ Summary(counter) \in HighMessages /\ Summary(counter).kind # "stats"
              /\ Exit \in HighMessages /\ Exit.kind # "stats"
          BY <4>1, Messages
        <4> QED
          BY <2>1, <4>2
      <3>2. CASE mpc # "report"
        <4>1. Exit \in HighMessages /\ Exit.kind # "stats"
          BY Messages
        <4> QED
          BY <2>1, <3>2, <4>1
      <3> QED
        BY <3>1, <3>2
    <2>3. router_running => Summing(fan_outs, Append(high, m), book_high, received, reports)
      BY <1>0, <2>2, SummingAppended
    <2> QED
      BY <2>1, <2>2, <2>3 DEF Sums
  <1>3. CASE HandleReport
    <2> DEFINE id == Head(high).id
    <2>1. /\ router_running /\ high # <<>> /\ high' = Tail(high) /\ IsSummary(Head(high)) /\ FanOut(id)
          /\ id \in Nat /\ id \notin DOMAIN fan_outs /\ AllBelow(Open(fan_outs), {id})
          /\ UNCHANGED <<received, reports>>
      BY <1>3, ReportHandling
    <2> HIDE DEF id
    <2>2. Tail(high) \in Seq(HighMessages) /\ Range(Tail(high)) \subseteq Range(high)
      BY <1>0, <2>1, HighTaken
    <2>3. Head(high).kind # "stats"
      BY <2>1 DEF IsSummary
    <2>4. Summing(fan_outs, Tail(high), book_high, received, reports)
      BY <1>0, <2>1, <2>3, SummingTaken
    <2>5. Summing(fan_outs', Tail(high), book_high', received, reports)
      BY <2>1, <2>2, <2>4, SummingFanOut
    <2> QED
      BY <2>1, <2>5 DEF Sums
  <1>4. CASE HandleFinal
    <2>1. /\ router_running /\ FanOut(Final) /\ Final \in Nat /\ Final \notin DOMAIN fan_outs
          /\ UNCHANGED <<high, received, reports>>
      BY <1>4, FinalHandling DEF Final
    <2>2. Summing(fan_outs', high, book_high', received, reports)
      BY <1>0, <2>1, SummingFanOut
    <2> QED
      BY <2>1, <2>2 DEF Sums
  <1>5. CASE CollectStats
    <2> DEFINE id == Head(high).id
    <2>1. /\ Summing(fan_outs', high', book_high, received, reports')
          /\ UNCHANGED <<book_high, received>>
      BY <1>5, Collecting
    <2> QED
      BY <2>1 DEF Sums
  <1>6. CASE RouterExits
    BY <1>6 DEF RouterExits, Sums
  <1>7. ASSUME NEW i \in Instruments, GetBookStats(i) PROVE Sums'
    <2> DEFINE id == Head(book_high[i]).id
    <2>1. /\ id \in DOMAIN fan_outs /\ id \in Nat
          /\ i \in Pending(id, book_high) /\ Pending(id, book_high') = Pending(id, book_high) \ {i}
          /\ \A a \in Nat \ {id} : Pending(a, book_high') = Pending(a, book_high)
          /\ \A a \in Nat \ {0} : a < id => i \notin Pending(a, book_high)
          /\ router_running => high' = Append(high, Stats(id, Len(received[i])))
          /\ UNCHANGED <<router_running, fan_outs, received, reports>>
      BY <1>7, Answering
    <2> HIDE DEF id
    <2>2. router_running => Summing(fan_outs, high', book_high', received, reports)
      BY <1>0, <2>1, SummingAnswered
    <2> QED
      BY <2>1, <2>2 DEF Sums
  <1>8. ASSUME NEW i \in Instruments, ReceiveOrder(i) PROVE Sums'
    <2> DEFINE p == Head(book_normal[i]).line
    <2>1. /\ p \in Nat /\ p \notin HeardIn(Instruments, received) /\ Receives(received', received, i, p)
          /\ UNCHANGED <<router_running, fan_outs, high, book_high, reports>>
      BY <1>8, OrderIsNew
    <2> HIDE DEF p
    <2>2. router_running => Summing(fan_outs, high, book_high, received', reports)
      BY <1>0, <2>1, SummingReceived
    <2> QED
      BY <2>1, <2>2 DEF Sums
  <1>9. ASSUME NEW i \in Instruments, BookExits(i) \/ DumpAndExit(i) PROVE Sums'
    <2>1. UNCHANGED <<router_running, fan_outs, high, received, reports>>
      BY <1>9 DEF BookExits, DumpAndExit
    <2>2. \A id \in DOMAIN fan_outs : Pending(id, book_high') = Pending(id, book_high)
      BY <1>9, ExitIsNoRequest, Frames
    <2>3. router_running => Summing(fan_outs, high, book_high', received, reports)
      BY <1>0, <2>2, SummingElsewhere
    <2> QED
      BY <2>1, <2>3 DEF Sums
  <1> QED
    BY <1>1, <1>2, <1>3, <1>4, <1>5, <1>6, <1>7, <1>8, <1>9
    DEF Next, Main, RouterHigh, RouterNormal, BookHigh, BookNormal

-----------------------------------------------------------------------------

Rising(reps) ==
  \A j, k \in DOMAIN reps : j < k => reps[j].after < reps[k].after /\ reps[j].total <= reps[k].total

LEMMA RisingAppended ==
  ASSUME NEW reps \in Seq(Lines), Rising(reps), NEW m \in Lines,
         \A k \in DOMAIN reps : reps[k].after < m.after /\ reps[k].total <= m.total
  PROVE  Append(reps, m) \in Seq(Lines) /\ Rising(Append(reps, m))
  <1> DEFINE n == Len(reps)
             r == Append(reps, m)
  <1>1. /\ r \in Seq(Lines) /\ n \in Nat /\ DOMAIN reps = 1 .. n /\ DOMAIN r = 1 .. n + 1
        /\ r[n + 1] = m /\ \A k \in 1 .. n : r[k] = reps[k]
    OBVIOUS
  <1> HIDE DEF n, r
  <1>2. ASSUME NEW j \in 1 .. n + 1, NEW k \in 1 .. n + 1, j < k
        PROVE  r[j].after < r[k].after /\ r[j].total <= r[k].total
    <2>1. j \in 1 .. n
      BY <1>1, <1>2
    <2>2. CASE k = n + 1
      BY <1>1, <2>1, <2>2
    <2>3. CASE k # n + 1
      <3>1. k \in 1 .. n
        BY <1>1, <2>3
      <3> QED
        BY <1>1, <1>2, <2>1, <3>1 DEF Rising
    <2> QED
      BY <2>2, <2>3
  <1>3. Rising(r)
    BY <1>1, <1>2 DEF Rising
  <1> QED
    BY <1>1, <1>3 DEF r

LEMMA PrintedKept == SumInv /\ [Next]_vars => Printed'
  <1> SUFFICES ASSUME SumInv, [Next]_vars PROVE Printed'
    OBVIOUS
  <1>0. reports \in Seq(Lines) /\ Rising(reports) /\ counter \in Nat
    BY AskingParts DEF SumInv, Printed, ReportsMonotone, Rising
  <1>1. reports' \in Seq(Lines) /\ Rising(reports') => Printed'
    BY DEF Printed, ReportsMonotone, Rising
  <1>2. CASE ~CollectStats
    <2>1. UNCHANGED reports
      BY <1>2 DEF Next, Main, SendOrder, ReceiveAcknowledgement, BadLine, SendReport, EndOfInput, Ask, ReceiveTotal,
                  DumpBooks, ExitRouter, RouterHigh, HandleReport, RouterExits, RouterNormal, RouteOrder,
                  HandleFinal, BookHigh, GetBookStats, BookExits, BookNormal, ReceiveOrder, DumpAndExit, vars
    <2> QED
      BY <1>0, <1>1, <2>1
  <1>3. CASE CollectStats
    <2> DEFINE id == Head(high).id
    <2>1. /\ id \in DOMAIN fan_outs /\ id \in Nat /\ (AddsUp(id) \/ \E sum : Completes(id, sum))
      BY <1>3, Collecting
    <2> HIDE DEF id
    <2>2. ASSUME NEW sum, Completes(id, sum), id # Final PROVE Printed'
      <3> DEFINE m == [after |-> id, total |-> sum]
      <3>1. /\ sum \in 0 .. counter /\ reports' = Append(reports, m)
            /\ \A k \in DOMAIN reports : reports[k].total <= sum
        BY <2>2 DEF Completes
      <3>2. m \in Lines /\ m.after = id /\ m.total = sum
        BY <1>0, <2>1, <3>1 DEF Lines
      <3> HIDE DEF m
      <3>3. id \in Open(fan_outs) /\ AllBelow(Reported(reports), Open(fan_outs))
        BY <2>1, <2>2 DEF Open, SumInv, Staged, Stages
      <3>4. \A k \in DOMAIN reports : reports[k].after < id
        BY <3>3 DEF AllBelow, Reported
      <3>5. Append(reports, m) \in Seq(Lines) /\ Rising(Append(reports, m))
        BY <1>0, <3>1, <3>2, <3>4, RisingAppended
      <3> QED
        BY <1>1, <3>1, <3>5
    <2>3. AddsUp(id) => reports' = reports
      BY DEF AddsUp
    <2>4. \A sum : Completes(id, sum) /\ id = Final => reports' = reports
      BY DEF Completes
    <2> QED
      BY <1>0, <1>1, <2>1, <2>2, <2>3, <2>4
  <1> QED
    BY <1>2, <1>3

LEMMA SumInvariance == Spec => []SumInv
  <1>1. Init => SumInv
    BY InitTypes, InitNothingLost, InitPhases, InitSums DEF SumInv, OrderInv
  <1>2. SumInv /\ [Next]_vars => SumInv'
    <2> SUFFICES ASSUME SumInv, [Next]_vars PROVE SumInv'
      OBVIOUS
    <2>1. OrderInv'
      BY TypesKept, NothingLostKept, PhasesKept, DumpsKept DEF SumInv, OrderInv
    <2>2. Books' /\ Finals' /\ Staged' /\ Asking' /\ Sums' /\ Printed'
      BY BooksKept, FinalsKept, StagedKept, AskingKept, SumsKept, PrintedKept
    <2> QED
      BY <2>1, <2>2 DEF SumInv
  <1> QED
    BY <1>1, <1>2, PTL DEF Spec

-----------------------------------------------------------------------------
(* The answer that main waits for *)

\* What main is told is never more than what the books have received, so what it
\* prints after the answer it waits for is true.
Answered ==
  /\ mpc = "wait" /\ response \notin {None, Error} => response.total <= Got(received)
  /\ mpc \in {"dump", "exit router", "done"} => counter <= Got(received)

LEMMA AnsweredKept == SumInv /\ Answered /\ [Next]_vars => Answered'
  <1> SUFFICES ASSUME SumInv, Answered, [Next]_vars PROVE Answered'
    OBVIOUS
  <1> USE DEF given, mainVars, mailbox, routerState, bookVars
  <1>0. /\ normal \in Seq(NormalMessages) /\ counter \in Nat
        /\ Framed(fan_outs, high, book_high, received, reports, book_map, input, counter)
    BY Limits, Frames DEF SumInv, OrderInv, Types
  <1>1. CASE SendOrder \/ ReceiveAcknowledgement \/ BadLine \/ SendReport \/ EndOfInput
    <2>1. mpc' \in {"read", "report", "acknowledge", "aborted", "ask"}
      BY <1>1 DEF SendOrder, ReceiveAcknowledgement, BadLine, SendReport, EndOfInput, AfterSend
    <2> QED
      BY <2>1 DEF Answered
  <1>2. CASE Ask
    <2>1. mpc = "ask" /\ mpc' = "wait" /\ response' = response
      BY <1>2 DEF Ask
    <2>2. response' = None
      BY <2>1, NotWaiting
    <2> QED
      BY <2>1, <2>2 DEF Answered
  <1>3. CASE ReceiveTotal
    <2>1. /\ mpc = "wait" /\ response # None
          /\ mpc' = IF AllReceived(response) THEN "dump" ELSE "ask"
          /\ UNCHANGED <<counter, received>>
      BY <1>3 DEF ReceiveTotal
    <2>2. AllReceived(response) => response # Error /\ response.total = counter
      BY DEF AllReceived, Value, Error
    <2>3. AllReceived(response) => counter <= Got(received)
      BY <2>1, <2>2 DEF Answered
    <2>4. mpc' # "wait" /\ (mpc' \in {"dump", "exit router", "done"} => AllReceived(response))
      BY <2>1
    <2>5. Got(received)' = Got(received)
      BY <2>1 DEF Got
    <2> QED
      BY <2>1, <2>3, <2>4, <2>5 DEF Answered
  <1>4. CASE DumpBooks \/ ExitRouter
    <2>1. /\ mpc \in {"dump", "exit router"} /\ mpc' \in {"exit router", "done"}
          /\ UNCHANGED <<counter, received>>
      BY <1>4 DEF DumpBooks, ExitRouter
    <2> QED
      BY <2>1 DEF Answered, Got
  <1>5. CASE HandleReport
    <2>1. /\ FanOut(Head(high).id) /\ Head(high).id # Final
          /\ UNCHANGED <<mpc, counter, received>>
      BY <1>5, ReportHandling DEF HandleReport
    <2>2. response' = response
      BY <2>1 DEF FanOut
    <2> QED
      BY <2>1, <2>2 DEF Answered, Got
  <1>6. CASE HandleFinal
    <2>1. /\ mpc = "wait" /\ response = None /\ FanOut(Final) /\ UNCHANGED mpc
      BY <1>6, FinalHandling
    <2>2. response' \in {None, Error}
      BY <2>1 DEF FanOut
    <2> QED
      BY <2>1, <2>2 DEF Answered
  <1>7. CASE CollectStats
    <2> DEFINE id == Head(high).id
    <2>1. /\ UNCHANGED <<mpc, counter, received>> /\ (AddsUp(id) \/ \E sum : Completes(id, sum))
      BY <1>7, Collecting
    <2> HIDE DEF id
    <2>2. CASE response' = response
      BY <2>1, <2>2 DEF Answered, Got
    <2>3. CASE response' # response
      <3>1. PICK sum : Completes(id, sum)
        BY <2>1, <2>3 DEF AddsUp
      <3>2. response' = Value(sum) /\ sum <= Got(received)
        BY <2>3, <3>1 DEF Completes
      <3>3. response'.total <= Got(received)
        BY <3>2 DEF Value
      <3> QED
        BY <2>1, <3>3 DEF Answered, Got
    <2> QED
      BY <2>2, <2>3
  <1>8. CASE RouterExits
    <2>1. UNCHANGED <<mpc, counter, response, received>>
      BY <1>8 DEF RouterExits
    <2> QED
      BY <2>1 DEF Answered, Got
  <1>9. CASE RouteOrder
    <2>1. /\ normal # <<>> /\ Head(normal).kind = "new_order" /\ UNCHANGED <<mpc, counter, received>>
          /\ response' = IF async_mode THEN response ELSE Value(0)
      BY <1>9 DEF RouteOrder
    <2>2. OrderLines(normal) # {}
      BY <1>0, <2>1, Taken
    <2>3. mpc \notin {"dump", "exit router", "done"} /\ (~async_mode => mpc = "acknowledge")
      BY <2>2 DEF SumInv, OrderInv, Phases
    <2> QED
      BY <2>1, <2>3 DEF Answered, Got
  <1>10. ASSUME NEW i \in Instruments, GetBookStats(i) PROVE Answered'
    <2>1. UNCHANGED <<mpc, counter, response, received>>
      BY <1>10, Answering
    <2> QED
      BY <2>1 DEF Answered, Got
  <1>11. ASSUME NEW i \in Instruments, ReceiveOrder(i) PROVE Answered'
    <2> DEFINE p == Head(book_normal[i]).line
    <2>1. /\ p \in Nat /\ p \notin HeardIn(Instruments, received) /\ Receives(received', received, i, p)
      BY <1>11, OrderIsNew
    <2>2. UNCHANGED <<mpc, counter, response>>
      BY <1>11 DEF ReceiveOrder
    <2> HIDE DEF p
    <2>3. Apart(received, input, counter) /\ Instruments \in SUBSET Instruments
      BY <1>0 DEF Framed
    <2>4. Got(received') = Got(received) + 1
      BY <1>0, <2>1, <2>3, HeardMore DEF Got
    <2>5. Got(received) \in Nat
      BY <1>0, <2>3, HeardFinite DEF Got
    <2>6. response.total \in Nat \/ response \in {None, Error}
      <3>1. response \in {Value(t) : t \in 0 .. counter} \cup {Error, None}
        BY DEF SumInv, Finals
      <3> QED
        BY <1>0, <3>1 DEF Value
    <2>7. /\ mpc = "wait" /\ response \notin {None, Error} => response.total <= Got(received) + 1
          /\ mpc \in {"dump", "exit router", "done"} => counter <= Got(received) + 1
      <3> DEFINE g == Got(received)
                 t == response.total
      <3>1. \A n \in Nat : n <= g => n <= g + 1
        <4>1. g \in Nat
          BY <2>5
        <4> HIDE DEF g
        <4> QED
          BY <4>1
      <3>2. /\ mpc = "wait" /\ response \notin {None, Error} => t <= g
            /\ mpc \in {"dump", "exit router", "done"} => counter <= g
        BY DEF Answered
      <3> HIDE DEF g, t
      <3> QED
        BY <1>0, <2>6, <3>1, <3>2 DEF g, t
    <2>8. Got(received)' = Got(received) + 1
      BY <2>4 DEF Got
    <2> QED
      BY <2>2, <2>7, <2>8 DEF Answered
  <1>12. ASSUME (\E i \in Instruments : BookExits(i) \/ DumpAndExit(i)) \/ UNCHANGED vars PROVE Answered'
    <2>1. UNCHANGED <<mpc, counter, response, received>>
      BY <1>12 DEF BookExits, DumpAndExit, vars
    <2> QED
      BY <2>1 DEF Answered, Got
  <1> QED
    BY <1>1, <1>2, <1>3, <1>4, <1>5, <1>6, <1>7, <1>8, <1>9, <1>10, <1>11, <1>12
    DEF Next, Main, RouterHigh, RouterNormal, BookHigh, BookNormal

LEMMA AnswerInvariance == Spec => [](SumInv /\ Answered)
  <1>1. Init => Answered
    BY DEF Init, Answered
  <1> QED
    BY <1>1, SumInvariance, AnsweredKept, PTL DEF Spec

\* A set of n of the numbers 1 to n is all of them.
LEMMA FullInterval ==
  ASSUME NEW n \in Nat, NEW S \in SUBSET (1 .. n), n <= Cardinality(S)
  PROVE  S = 1 .. n
  <1>1. IsFiniteSet(1 .. n) /\ Cardinality(1 .. n) = n
    BY FS_Interval
  <1>2. IsFiniteSet(S) /\ Cardinality(S) <= n /\ (Cardinality(1 .. n) = Cardinality(S) => 1 .. n = S)
    BY <1>1, FS_Subset
  <1>3. Cardinality(S) \in Nat
    BY <1>2, FS_CardinalityType
  <1>4. Cardinality(S) = n
    BY <1>2, <1>3
  <1> QED
    BY <1>1, <1>2, <1>4

\* The books have no more orders than there are lines, so with as many they have all.
LEMMA AllHeard == SumInv /\ Answered => AllProcessed
  <1> SUFFICES ASSUME SumInv, Answered, mpc \in {"dump", "exit router", "done"}, NEW i \in Instruments
               PROVE  Range(received[i]) = {p \in 1 .. Len(input) : input[p] = i}
    BY DEF AllProcessed
  <1> DEFINE heard == HeardIn(Instruments, received)
  <1>1. counter \in Nat /\ Apart(received, input, counter) /\ counter = Len(input)
    BY Frames DEF SumInv, OrderInv, Phases, Late, Framed
  <1>2. \A j \in Instruments : Range(received[j]) \subseteq {p \in 1 .. counter : input[p] = j}
    BY <1>1, Zenon DEF Apart
  <1>3. counter <= Cardinality(heard)
    BY DEF Answered, Got
  <1>4. heard \in SUBSET (1 .. counter)
    BY <1>2 DEF HeardIn
  <1>5. heard = 1 .. counter
    <2> HIDE DEF heard
    <2> QED
      BY <1>1, <1>3, <1>4, FullInterval
  <1>7. ASSUME NEW p \in 1 .. counter, input[p] = i PROVE p \in Range(received[i])
    <2>1. PICK j \in Instruments : p \in Range(received[j])
      BY <1>5 DEF HeardIn
    <2> QED
      BY <1>2, <1>7, <2>1
  <1> QED
    BY <1>1, <1>2, <1>7

-----------------------------------------------------------------------------
(* The types of what is on its way *)

LEMMA OfSmaller ==
  ASSUME NEW S, NEW T, NEW q \in Seq(S), Range(q) \subseteq T
  PROVE  q \in Seq(T)
  <1>1. \A k \in 1 .. Len(q) : q[k] \in T
    BY DEF Range
  <1> QED
    BY <1>1

\* Nothing on its way mentions an order that was not read, or counts more.
LEMMA Mentioned ==
  ASSUME SumInv
  PROVE  /\ counter \in Nat /\ Len(input) \in Nat /\ counter <= Len(input)
         /\ DOMAIN fan_outs \subseteq 0 .. counter
         /\ \A m \in Range(high) : \/ \E id \in 0 .. counter : m = Summary(id)
                                   \/ \E id, t \in 0 .. counter : m = Stats(id, t)
                                   \/ m = Exit
         /\ \A m \in Range(normal) : (\E p \in 1 .. counter : m = Order(p)) \/ m = Summary(Final)
         /\ \A i \in Instruments :
              /\ \A m \in Range(book_high[i]) : (\E id \in 0 .. counter : m = GetStats(id)) \/ m = Exit
              /\ \A m \in Range(book_normal[i]) : (\E p \in 1 .. counter : m = Order(p)) \/ m = Dump
              /\ received[i] \in Seq(1 .. counter)
  <1>1. /\ counter \in Nat /\ Len(input) \in Nat /\ counter <= Len(input) /\ Limit \in Nat /\ Limit <= counter
    BY Limits DEF SumInv, OrderInv, Types
  <1>2. DOMAIN fan_outs \subseteq 0 .. counter
    <2>1. Open(fan_outs) \subseteq 1 .. Limit
      BY DEF SumInv, Staged, Stages
    <2>2. \A id \in DOMAIN fan_outs : id = 0 \/ id \in Open(fan_outs)
      BY DEF Open, Final
    <2> QED
      BY <1>1, <2>1, <2>2
  <1>3. ASSUME NEW m \in Range(high)
        PROVE  \/ \E id \in 0 .. counter : m = Summary(id)
               \/ \E id, t \in 0 .. counter : m = Stats(id, t)
               \/ m = Exit
    <2>1. m \in HighMessages
      BY AskingParts DEF Range
    <2>2. CASE m.kind = "dump_book_summary" /\ m = Summary(m.id)
      <3>1. m.id \in Coming(high) /\ Coming(high) \subseteq 1 .. Limit
        BY <2>2 DEF Coming, IsSummary, SumInv, Staged, Stages
      <3>2. m.id \in 0 .. counter
        BY <1>1, <3>1
      <3> QED
        BY <2>2, <3>2
    <2>3. CASE m.kind = "stats" /\ m.total \in Nat /\ m = Stats(m.id, m.total)
      <3>1. m.id \in DOMAIN fan_outs /\ m.total <= counter
        BY <2>3, AskingParts DEF AnswersTo
      <3>2. m.id \in 0 .. counter /\ m.total \in 0 .. counter
        BY <1>1, <1>2, <2>3, <3>1
      <3> QED
        BY <2>3, <3>2
    <2>4. CASE m = Exit
      BY <2>4
    <2> QED
      BY <2>1, <2>2, <2>3, <2>4, Kinds
  <1>4. ASSUME NEW m \in Range(normal)
        PROVE  (\E p \in 1 .. counter : m = Order(p)) \/ m = Summary(Final)
    <2>1. m \in NormalMessages /\ OrderLines(normal) \subseteq 1 .. counter
      BY DEF SumInv, OrderInv, Types, Range
    <2>2. CASE m.kind = "new_order" /\ m = Order(m.line)
      <3>1. m.line \in OrderLines(normal)
        BY <2>2 DEF Range, OrderLines
      <3> QED
        BY <2>1, <2>2, <3>1
    <2> QED
      BY <2>1, <2>2, Kinds
  <1>5. ASSUME NEW i \in Instruments
        PROVE  /\ \A m \in Range(book_high[i]) : (\E id \in 0 .. counter : m = GetStats(id)) \/ m = Exit
               /\ \A m \in Range(book_normal[i]) : (\E p \in 1 .. counter : m = Order(p)) \/ m = Dump
               /\ received[i] \in Seq(1 .. counter)
    <2>1. /\ book_high[i] \in Seq(BookHighMessages) /\ book_normal[i] \in Seq(BookNormalMessages)
          /\ received[i] \in Seq(Nat)
      BY DEF SumInv, OrderInv, Types
    <2>2. InLane(i, received[i], book_normal[i], normal, counter)
      BY Lanes DEF SumInv, OrderInv, Lane
    <2>3. OrderLines(book_normal[i]) \subseteq 1 .. counter /\ Range(received[i]) \subseteq 1 .. counter
      BY <2>2 DEF InLane
    <2>4. received[i] \in Seq(1 .. counter)
      BY <2>1, <2>3, OfSmaller
    <2>5. ASSUME NEW m \in Range(book_high[i]) PROVE (\E id \in 0 .. counter : m = GetStats(id)) \/ m = Exit
      <3>1. m \in BookHighMessages
        BY <2>1 DEF Range
      <3>2. CASE m.id \in Nat /\ m = GetStats(m.id)
        <4>1. i \in Pending(m.id, book_high)
          BY <3>2 DEF Pending
        <4>2. m.id \in DOMAIN fan_outs
          BY <3>2, <4>1, AskingParts DEF AskedFor
        <4> QED
          BY <1>2, <3>2, <4>2
      <3> QED
        BY <3>1, <3>2, Kinds
    <2>6. ASSUME NEW m \in Range(book_normal[i]) PROVE (\E p \in 1 .. counter : m = Order(p)) \/ m = Dump
      <3>1. m \in BookNormalMessages
        BY <2>1 DEF Range
      <3>2. CASE m.kind = "new_order" /\ m = Order(m.line)
        <4>1. m.line \in OrderLines(book_normal[i])
          BY <3>2 DEF Range, OrderLines
        <4> QED
          BY <2>3, <3>2, <4>1
      <3> QED
        BY <3>1, <3>2, Kinds
    <2> QED
      BY <2>4, <2>5, <2>6
  <1> QED
    BY <1>1, <1>2, <1>3, <1>4, <1>5

LEMMA SumInvTypes == SumInv => TypeOK
  <1> SUFFICES ASSUME SumInv PROVE TypeOK
    OBVIOUS
  <1> DEFINE n == Len(input)
             HighTypes == {Summary(id) : id \in 0 .. n} \cup {Stats(id, t) : id \in 0 .. n, t \in 0 .. n}
                            \cup {Exit}
             NormalTypes == {Order(p) : p \in 1 .. n} \cup {Summary(Final)}
             BookHighTypes == {GetStats(id) : id \in 0 .. n} \cup {Exit}
             BookNormalTypes == {Order(p) : p \in 1 .. n} \cup {Dump}
             Responses == {Value(t) : t \in 0 .. n} \cup {Error, None}
  <1>1. counter \in Nat /\ n \in Nat /\ counter <= n
    BY Mentioned
  <1>2. 0 .. counter \subseteq 0 .. n /\ 1 .. counter \subseteq 1 .. n /\ counter \in 0 .. n
    BY <1>1
  <1>3. /\ mpc \in {"read", "acknowledge", "report", "ask", "wait", "dump", "exit router", "done", "aborted"}
        /\ book_map \subseteq Instruments /\ exited \subseteq dumped /\ dumped \subseteq book_map
    BY DEF SumInv, OrderInv, Types, Late
  <1>4. \A i \in exited : book_high[i] = <<>>
    BY <1>3 DEF SumInv, Books
  <1>5. response \in Responses
    BY <1>2 DEF SumInv, Finals
  <1>6. Range(high) \subseteq HighTypes
    BY <1>2, Mentioned
  <1>7. Range(normal) \subseteq NormalTypes
    BY <1>2, Mentioned
  <1>8. DOMAIN fan_outs \subseteq 0 .. n
    BY <1>2, Mentioned
  <1>9. \A id \in DOMAIN fan_outs : /\ fan_outs[id].waiting \in 1 .. Cardinality(book_map)
                                    /\ fan_outs[id].total \in 0 .. n
    BY <1>2, AskingParts DEF Bounded
  <1>10. ASSUME NEW i \in Instruments
         PROVE  /\ Range(book_high[i]) \subseteq BookHighTypes
                /\ Range(book_normal[i]) \subseteq BookNormalTypes
                /\ received[i] \in Seq(1 .. n)
    <2>1. received[i] \in Seq(1 .. counter)
      BY Mentioned
    <2>2. received[i] \in Seq(1 .. n)
      <3>1. Range(received[i]) \subseteq 1 .. n
        BY <1>2, <2>1 DEF Range
      <3> QED
        BY <2>1, <3>1, OfSmaller
    <2>3. /\ Range(book_high[i]) \subseteq BookHighTypes
          /\ Range(book_normal[i]) \subseteq BookNormalTypes
      BY <1>2, Mentioned
    <2> QED
      BY <2>2, <2>3
  <1>11. \A i \in Instruments :
           /\ Range(book_high[i]) \subseteq BookHighTypes
           /\ Range(book_normal[i]) \subseteq BookNormalTypes
           /\ received[i] \in Seq(1 .. n)
    BY <1>10
  <1>12. counter \in 0 .. n
    BY <1>2
  <1>13. TypeOK <=>
     /\ mpc \in {"read", "acknowledge", "report", "ask", "wait", "dump", "exit router",
                 "done", "aborted"}
     /\ counter \in 0 .. n
     /\ response \in Responses
     /\ Range(high) \subseteq HighTypes
     /\ Range(normal) \subseteq NormalTypes
     /\ book_map \subseteq Instruments
     /\ DOMAIN fan_outs \subseteq 0 .. n
     /\ \A id \in DOMAIN fan_outs : /\ fan_outs[id].waiting \in 1 .. Cardinality(book_map)
                                    /\ fan_outs[id].total \in 0 .. n
     /\ exited \subseteq dumped /\ dumped \subseteq book_map
     /\ \A i \in exited : book_high[i] = <<>>
     /\ \A i \in Instruments :
          /\ Range(book_high[i]) \subseteq BookHighTypes
          /\ Range(book_normal[i]) \subseteq BookNormalTypes
          /\ received[i] \in Seq(1 .. n)
    BY ONLY DEF TypeOK
  <1> HIDE DEF n, HighTypes, NormalTypes, BookHighTypes, BookNormalTypes, Responses
  <1> QED
    BY ONLY <1>12, <1>3, <1>4, <1>5, <1>6, <1>7, <1>8, <1>9, <1>11, <1>13

-----------------------------------------------------------------------------
(* The theorems *)

\* No order is lost, doubled or overtaken on its way through the router's and the
\* book's mailboxes, however the router spawns books and both priorities are served.
THEOREM ActorsLoseNothing == Spec => []NothingLost
  <1>1. OrderInv => NothingLost
    BY DEF OrderInv
  <1> QED
    BY <1>1, OrderInvariance, PTL

\* Every book handles the lines of its instrument one by one in the order of the
\* input, and its dump_book_and_exit comes after the last of them, whatever answers
\* main gets; a malformed line ends the program before any book reports.
THEOREM ActorsImplementInOrder == Spec => ImplementsInOrder
  <1>1. Init => Promise!Init
    BY ParametersAssumption DEF Init, Promise!Init
  <1> QED
    BY <1>1, StepsInOrder, OrderInvariance, PTL DEF Spec, ImplementsInOrder

\* Every message is of a kind its receiver handles and mentions only orders that were
\* read, an open fan-out waits for at least one book and never adds up to more than
\* the orders read, and a book that has exited has left no request unanswered.
THEOREM ActorsAreTyped == Spec => []TypeOK
  BY SumInvTypes, SumInvariance, PTL

\* Reports come out in the order in which they were asked for, and no later one has a
\* smaller total, however the books' answers and the orders interleave.
THEOREM ReportsAreMonotone == Spec => []ReportsMonotone
  <1>1. SumInv => ReportsMonotone
    BY DEF SumInv, Printed
  <1> QED
    BY <1>1, SumInvariance, PTL

\* When main says that the orders are processed, every line that was read has been
\* received by the book of its instrument, though it was told so by a sum of counts
\* that the books gave at different times.
THEOREM OrdersAreProcessed == Spec => []AllProcessed
  BY AnswerInvariance, AllHeard, PTL
=============================================================================
