----------------------------- MODULE MCExchange -----------------------------
EXTENDS Exchange

Line(side, instrument, qty, price, timestamp) ==
  [side |-> side, instrument |-> instrument, qty |-> qty, price |-> price,
   timestamp |-> timestamp]

\* The instruments, and the codes of their first characters.
B == 1
E == 2
Z == 3
FirstChar == <<66, 69, 90>>

\* Two instruments that trade, in both engines at a time; a B order that trades
\* with two others, of which the second may be from before the clock was set back.
FewLines == {Line("SELL", B, 1, 2, 2), Line("SELL", B, 1, 2, 1), Line("BUY", B, 2, 2, 2),
             Line("BUY",  Z, 1, 1, 1), Line("SELL", Z, 2, 1, 2)}

\* Any four of them in any order, and three with a line that is rejected.
FewInputs == {s \in [1 .. 4 -> FewLines \cup {Malformed}] :
                /\ IsInjective(s)
                /\ s[1] # Malformed /\ s[2] # Malformed /\ s[3] # Malformed}

\* The routing that InstrumentBoundaryRoutingStrategy makes of a concurrency.
Strategy(threads, partitions) ==
  INSTANCE Routing WITH concurrency <- threads, ordered_partitions <- partitions,
                        routed <- 0, engine <- 0

Setup(size, threads) ==
  LET used == 1 .. Strategy(threads, <<>>)!NumPartitions
      partitions == [k \in used |-> Strategy(threads, <<>>)!SymCode(k * Strategy(threads, <<>>)!Skip)]
  IN [batch_size |-> size, concurrency |-> threads, engines |-> used,
      find_engine |-> [l \in FewLines |-> Strategy(threads, partitions)!find_engine(FirstChar[l.instrument])]]

FewSetups == {Setup(1, 2), Setup(2, 2), Setup(2, 1), Setup(2, 0)}

\* The sample of match-engine/README.md:21-38: lines 12345, zod42, 13471, 11431,
\* abe14, plu401, 45691 are 1 to 7.  The trades are compared in order, the open orders
\* as a set: the sample lists them as they were entered, the program by instrument,
\* side and place in the heap.
Sample7 == <<Line("BUY", B, 5, 10000, 1), Line("SELL", B, 2, 10001, 2),
             Line("BUY", B, 6, 9971, 3), Line("BUY", E, 9, 175, 4),
             Line("SELL", B, 7, 9800, 5), Line("SELL", E, 5, 170, 6),
             Line("BUY", E, 3, 180, 7)>>
Trade(o, c, q, p) == [order |-> o, contra |-> c, qty |-> q, price |-> p]
Open(text) == [id |-> text.content.id, qty |-> text.content.qty]
ASSUME ReadmeSample ==
  LET done == InTurn([k \in 1 .. 7 |-> OrderOf(k, Sample7[k])])[7]
  IN /\ done.texts = <<Text(B, Trade(5, 1, 5, 10000)), Text(B, Trade(5, 3, 2, 9971)),
                       Text(E, Trade(6, 4, 5, 175))>>
     /\ {Open(text) : text \in Range(DumpText(done.books))}
          = {[id |-> 2, qty |-> 2], [id |-> 3, qty |-> 4], [id |-> 4, qty |-> 4],
             [id |-> 7, qty |-> 3]}
=============================================================================
