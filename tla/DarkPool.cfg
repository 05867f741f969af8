SPECIFICATION FairSpec
CONSTANTS
  Lines = {"btc", "zec"}
  Malformed = Malformed
  Inputs <- FewLines
  Engines = {1, 2}
  Setups <- FewSetups
  None = None
INVARIANTS
  TypeOK
  QueueExclusive
  NothingLost
  DumpIsFinal
PROPERTIES
  Terminates
  ImplementsInOrder
CHECK_DEADLOCK FALSE
