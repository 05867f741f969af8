SPECIFICATION FairSpec
CONSTANTS
  Instruments = {"btc", "eth"}
  Malformed = Malformed
  Inputs <- FewLines
  ReportMods = {0, 1, 2}
  MaxReports = 2
  None = None
INVARIANTS
  TypeOK
  NothingLost
  ReportsMonotone
  AllProcessed
PROPERTIES
  Finishes
  ImplementsInOrder
CHECK_DEADLOCK FALSE
