CONSTANTS
  GenArraySize = 4
  Sites = {1}
  NumContexts = 2
  ThreadContexts = {0, 1}
  Mutators = {m1}
  Workers = {w1, w2}
  Objects = {o1}
  MaxAge = 3
  UpdateThreshold = 2
  InitialTenuring = 3
  ProfAlloc = TRUE
  ProfContext = TRUE
  Roundings <- MCRoundings
  MaxAllocs = 1
  MaxCollections = 9
SPECIFICATION FairSpec
PROPERTIES ProfileIsFinal SafepointsEnd ImplementsLedger
CHECK_DEADLOCK FALSE
