SPECIFICATION HistogramSpec
CONSTANTS
  Seconds = {1, 2}
  Values = {1, 2}
  MaxMeasurements = 3
INVARIANTS
  LinesLabelled
CHECK_DEADLOCK FALSE
