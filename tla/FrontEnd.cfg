SPECIFICATION Spec
CONSTANTS
  Words <- AllWords
  CommandLines <- FewCommandLines
  TypedLines <- FewTypedLines
  Instruments <- FewInstruments
  MaxOrders = 1
  IntMax = 20
  None = None
INVARIANTS
  StartsAsAsked
  RoundTrip
  EveryEngineHasInstruments
PROPERTIES
  RangesContiguous
CHECK_DEADLOCK FALSE
