SPECIFICATION Spec
CONSTANTS
  Threads = {t1, t2, t3}
  Iterations = 4
  PoolSize = 2
  Configurations = 2
INVARIANTS
  AllWorkDone
  NothingCutOff
PROPERTIES
  Ends
CHECK_DEADLOCK FALSE
