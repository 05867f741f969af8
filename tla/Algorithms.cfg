SPECIFICATION SpecAlgorithms
CONSTANTS
  Seconds = {1, 2, 3}
  Values = {0, 1, 3}
  MaxMeasurements = 4
  Numbers = {0, 1, 2, 5}
  MaxLength = 6
  MaxNodes = 6
INVARIANTS
  BinsComplete
  GrandTotalIsSum
  PercentilesSplit
  LargestRun
  TurnedRound
CHECK_DEADLOCK FALSE
