---------------------------- MODULE MatchersAgree ----------------------------
(***************************************************************************)
(* The engine of match-engine and the book actors of actor-match given the *)
(* same orders: the engine matches trade by trade, the actor of the        *)
(* order's instrument in one handler.  The repository's README presents    *)
(* actor-match as the match engine written with actors.                    *)
(***************************************************************************)
EXTENDS MatchingEngine

VARIABLES m_book,         \* instrument -> book of its actor, once spawned
          actor_trades    \* history: the TRADE lines the actors print

bothVars == <<vars, m_book, actor_trades>>

InitBoth == Init /\ m_book = <<>> /\ actor_trades = <<>>

\* The router's book_map lookup, and the handler of the book actor.
HandleOrder(order) ==
  LET i == order.instrument
      book == IF i \in DOMAIN m_book THEN m_book[i] ELSE EmptyBook
      m == MatchOrder(book, order)
  IN /\ m_book' = [j \in DOMAIN m_book \cup {i} |-> IF j = i THEN m.book ELSE m_book[j]]
     /\ actor_trades' = actor_trades \o m.trades

NextBoth == \/ \E order \in NewOrders : TakeOrder(order) /\ HandleOrder(order)
            \/ Process /\ UNCHANGED <<m_book, actor_trades>>

SpecBoth == InitBoth /\ [][NextBoth]_bothVars

-----------------------------------------------------------------------------

\* The loops of matching_engine.cc:139-177 and of actor_types.h:67, modelled with the
\* same operators on books, one a trade at a time and one to its end.
\* Whenever the engine is between orders, the two programs have the same open
\* orders in the same places of their heaps, so they would dump the same lines,
\* and have printed the same trades.
SameBooks == current = NoOrder => (m_book = order_books /\ actor_trades = trades)
=============================================================================
