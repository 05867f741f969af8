-------------------------- MODULE MCMatchingEngine --------------------------
EXTENDS MatchingEngine

AnyQuantity == {-1, 0, 1}    \* stoi accepts a zero and a sign

\* The layout that test_order_semantics.cc asserts for make_heap: SELL orders
\* priced 1000, 1003, 1002, 1004, 1001 with quantities 100 to 500 in the same
\* millisecond (match-engine-test/test_order_semantics.cc:125-145).
Sell(n, price) == [id |-> n, side |-> "SELL", instrument |-> "i", qty |-> 100 * n,
                   price |-> price, timestamp |-> 1]
ASSUME TestedHeapLayout ==
  LET made == MakeHeap(<<Sell(1, 1000), Sell(2, 1003), Sell(3, 1002),
                         Sell(4, 1004), Sell(5, 1001)>>)
  IN [i \in 1 .. 5 |-> made[i].qty] = <<100, 500, 300, 400, 200>>
=============================================================================
