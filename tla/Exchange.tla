------------------------------ MODULE Exchange ------------------------------
(***************************************************************************)
(* match-engine as a whole: the pipeline of module DarkPool, in which      *)
(* every engine matches the orders it processes in its own books (module   *)
(* OrderBook), prints trades piece by piece to the one standard output     *)
(* that all threads share, and samples the sizes of its books; and the     *)
(* final dump.                                                             *)
(*                                                                         *)
(* A line of the input is an order without its id, which is the number of  *)
(* the line.  Its timestamp is part of the line: it is read once, when the *)
(* line is, whatever the engines do.  Engines, in the order of the         *)
(* partitions, and instruments, in the order of their names, are numbers   *)
(* from 1.                                                                 *)
(***************************************************************************)
EXTENDS DarkPool, OrderBook

CONSTANTS PiecesPerLine,   \* how many writes to the stream a TRADE line takes
          LastInstrument,
          LastEngine

Instruments == 1 .. LastInstrument

\* The last conjunct is RangesContiguous of module Routing.
ASSUME ExchangeAssumption ==
  /\ PiecesPerLine \in Nat \ {0}
  /\ LastInstrument \in Nat
  /\ LastEngine \in Nat /\ Engines = 1 .. LastEngine
  /\ Lines \subseteq [side : Sides, instrument : Instruments, qty : Int, price : Int,
                     timestamp : Int]
  /\ \A s \in Setups, a, b \in Lines :
       a.instrument <= b.instrument => s.find_engine[a] <= s.find_engine[b]

VARIABLES order_books,  \* of each engine: instrument -> book
          unprinted,    \* of each engine: the pieces print_trade has yet to write
          out,          \* standard output: the pieces in the order they were written
          peak          \* of each engine: the greatest number recorded in order_book_sizes

ownVars == <<order_books, unprinted, out, peak>>
allVars == <<vars, ownVars>>

InitExchange ==
  /\ Init
  /\ order_books = [e \in Engines |-> <<>>]
  /\ unprinted = [e \in Engines |-> <<>>]
  /\ out = <<>>
  /\ peak = [e \in Engines |-> 0]

-----------------------------------------------------------------------------

OrderOf(p, line) == [id |-> p, side |-> line.side, instrument |-> line.instrument,
                     qty |-> line.qty, price |-> line.price, timestamp |-> line.timestamp]
OrderOn(p) == OrderOf(p, input[p])

\* The loop body of process_queued_orders: the first order of an instrument
\* opens its book, a later one is matched.
Handled(books, order) ==
  LET i == order.instrument
      m == IF i \in DOMAIN books
           THEN MatchOrder(books[i], order)
           ELSE [book |-> AddToBook(EmptyBook, order), trades |-> <<>>]
  IN [books  |-> [j \in DOMAIN books \cup {i} |-> IF j = i THEN m.book ELSE books[j]],
      trades |-> m.trades]

\* A line of output, and the pieces in which it is written.
Text(instrument, content) == [instrument |-> instrument, content |-> content]
TradeText(order, trades) == [k \in DOMAIN trades |-> Text(order.instrument, trades[k])]
Pieces(texts) == FlattenSeq([k \in DOMAIN texts |->
                   [n \in 1 .. PiecesPerLine |-> [text |-> texts[k], piece |-> n]]])

MatchNext(e) ==
  /\ unprinted[e] = <<>>
  /\ ProcessOrder(e)
  /\ LET order == OrderOn(Head(internal_queue[e]))
         h == Handled(order_books[e], order)
     IN /\ order_books' = [order_books EXCEPT ![e] = h.books]
        /\ unprinted' = [unprinted EXCEPT ![e] = Pieces(TradeText(order, h.trades))]
  /\ UNCHANGED <<out, peak>>

\* Another engine may write between two pieces: nothing is locked.
WritePiece(e) ==
  /\ rpc # "aborted"
  /\ unprinted[e] # <<>>
  /\ out' = Append(out, Head(unprinted[e]))
  /\ unprinted' = [unprinted EXCEPT ![e] = Tail(@)]
  /\ UNCHANGED <<vars, order_books, peak>>

\* Mutation of get_order_book_size: the sells are forgotten.
get_buys_size(book) == Len(book.buys)

get_order_book_size(book) == Len(book.buys) + Len(book.sells)

Average(books) ==
  LET total[i \in 0 .. LastInstrument] ==
        IF i = 0 THEN 0
        ELSE total[i - 1] + (IF i \in DOMAIN books THEN get_order_book_size(books[i]) ELSE 0)
  IN total[LastInstrument] \div Cardinality(DOMAIN books)

\* calculate_order_book_sizes comes after the queue is worked off and before
\* the test that ends the loop; it records nothing while there is no book.
Sample(e) ==
  /\ unprinted[e] = <<>>
  /\ TestTerminate(e) \/ Return(e)
  /\ peak' = IF order_books[e] = <<>> THEN peak
             ELSE [peak EXCEPT ![e] = Max({@, Average(order_books[e])})]
  /\ UNCHANGED <<order_books, unprinted, out>>

Pull(e) ==
  /\ PullLock(e) \/ Copy(e) \/ ClearAndUnlock(e) \/ Peek(e)
  /\ UNCHANGED ownVars

\* print_books: the buys in the order of their heap, then the sells.
BookText(books, i) ==
  LET all == books[i].buys \o books[i].sells
  IN [k \in DOMAIN all |-> Text(i, all[k])]

\* The books are in a map ordered by instrument.
DumpText(books) ==
  FlattenSeq([i \in Instruments |-> IF i \in DOMAIN books THEN BookText(books, i) ELSE <<>>])

Dump ==
  /\ DumpOrders
  /\ LET texts == [e \in Engines |-> IF e \in get_engines THEN DumpText(order_books[e]) ELSE <<>>]
     IN out' = out \o Pieces(FlattenSeq(texts))
  /\ UNCHANGED <<order_books, unprinted, peak>>

NextExchange ==
  \/ Dump
  \/ rpc # "dump" /\ Router /\ UNCHANGED ownVars
  \/ \E e \in Engines : Pull(e) \/ MatchNext(e) \/ WritePiece(e) \/ Sample(e)

SpecExchange == InitExchange /\ [][NextExchange]_allVars

-----------------------------------------------------------------------------

\* The reference: one matcher works through the orders in turn.  What it has after n.
InTurn(orders) ==
  LET done[n \in 0 .. Len(orders)] ==
        IF n = 0 THEN [books |-> <<>>, texts |-> <<>>]
        ELSE LET before == done[n - 1]
                 h == Handled(before.books, orders[n])
             IN [books |-> h.books, texts |-> before.texts \o TradeText(orders[n], h.trades)]
  IN done

Only(instruments, pieces) ==
  FlattenSeq([k \in DOMAIN pieces |-> IF pieces[k].text.instrument \in instruments
                                      THEN <<pieces[k]>> ELSE <<>>])

\* match-engine/README.md:114-123 offers batches and threads as a matter of speed:
\* with any number of engines and any batch size, the trades of each instrument
\* are those of one matcher that takes the lines in turn, in the same order, and
\* the output ends with its open orders, line by line.
OutputIsSequential ==
  (rpc = "done" /\ BatchSize > 0) =>
    LET last == InTurn([p \in DOMAIN input |-> OrderOn(p)])[Len(input)]
        dump == Pieces(DumpText(last.books))
        front == Len(out) - Len(dump)
    IN /\ front >= 0
       /\ \A k \in 1 .. front : out[k].text.instrument \in Instruments
       /\ \A i \in Instruments :
            Only({i}, SubSeq(out, 1, front)) = Only({i}, Pieces(last.texts))
       /\ SubSeq(out, front + 1, Len(out)) = dump

\* Pieces follow each other as they do in whole lines (the last may lack its end).
Whole(pieces) ==
  \A k \in DOMAIN pieces :
    IF pieces[k].piece = 1
    THEN k > 1 => pieces[k - 1].piece = PiecesPerLine
    ELSE k > 1 /\ pieces[k - 1] = [pieces[k] EXCEPT !.piece = @ - 1]

\* The instruments whose orders e is given.
InstrumentsOf(e) == {line.instrument : line \in {l \in Lines : find_engine(l) = e}}

\* match-engine/README.md:73 says that lines are torn only by several engines
\* writing at a time: leave out what the other engines write, and every line is
\* whole.  So with one engine all are, and no trade is torn by the final dump.
LinesWhole == \A e \in get_engines : Whole(Only(InstrumentsOf(e), out))

\* The sizes that are reported are not out of date at the end: the last sample
\* is taken after the last order, so the greatest covers the lines that are dumped.
PeakCoversFinal ==
  rpc = "done" =>
    \A e \in get_engines :
      LET books == order_books[e]
      IN books # <<>> => peak[e] >= Len(DumpText(books)) \div Cardinality(DOMAIN books)
=============================================================================
