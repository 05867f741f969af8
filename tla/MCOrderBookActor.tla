-------------------------- MODULE MCOrderBookActor --------------------------
EXTENDS OrderBookActor

AnyQuantity == {-1, 1, 2}    \* stoi accepts a sign
=============================================================================
