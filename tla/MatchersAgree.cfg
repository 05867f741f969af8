SPECIFICATION SpecBoth
CONSTANTS
  Tolerance = 1
  Instruments = {"btc"}
  Prices = {1, 2}
  Quantities = {1, 2}
  Timestamps = {1, 2}
  MaxOrders = 5
  NoOrder = NoOrder
INVARIANTS
  OpenOnce
  HeapOrdered
  SameBooks
  Conservation
  NotCrossed
PROPERTIES
  ImplementsPromise
CHECK_DEADLOCK FALSE
