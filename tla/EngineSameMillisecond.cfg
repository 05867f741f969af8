SPECIFICATION Spec
CONSTANTS
  Tolerance = 1
  Instruments = {"btc"}
  Prices = {1}
  Quantities = {1}
  Timestamps = {1}
  MaxOrders = 6
  NoOrder = NoOrder
PROPERTIES
  ArrivalPriority
CHECK_DEADLOCK FALSE
