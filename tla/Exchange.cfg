SPECIFICATION SpecExchange
CONSTANTS
  Tolerance = 1
  Lines <- FewLines
  Malformed = Malformed
  Inputs <- FewInputs
  Engines = {1, 2}
  Setups <- FewSetups
  None = None
  PiecesPerLine = 2
  LastInstrument = 3
  LastEngine = 2
INVARIANTS
  OutputIsSequential
  LinesWhole
  PeakCoversFinal
CHECK_DEADLOCK FALSE
