SPECIFICATION Spec
CONSTANTS
  Tolerance = 1
  Instruments = {"btc", "eth"}
  Prices = {1}
  Quantities <- AnyQuantity
  Timestamps = {1}
  MaxOrders = 4
  NoOrder = NoOrder
INVARIANTS
  QuantityConserved
  OnlyOpenersAreEmpty
PROPERTIES
  MatchTerminates
CHECK_DEADLOCK FALSE
