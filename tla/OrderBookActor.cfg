SPECIFICATION Spec
CONSTANTS
  Tolerance = 1
  Instrument = "btc"
  Names = {"a", "b"}
  Prices = {1, 2}
  Quantities <- AnyQuantity
  Timestamps = {1}
  MaxOrders = 4
INVARIANTS
  HeapOrdered
  NotCrossed
  Accounted
CHECK_DEADLOCK FALSE
