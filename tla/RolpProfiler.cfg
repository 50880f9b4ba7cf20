CONSTANTS
  GenArraySize = 4
  Sites = {1}
  NumContexts = 2
  ThreadContexts = {0, 1}
  Mutators = {m1, m2}
  Workers = {w1}
  Objects = {o1}
  MaxAge = 3
  UpdateThreshold = 1
  InitialTenuring = 3
  ProfAlloc = TRUE
  ProfContext = TRUE
  Roundings <- MCRoundings
  MaxAllocs = 2
  MaxCollections = 3
SPECIFICATION Spec
SYMMETRY Symmetry
INVARIANTS KeysAgree NeverOvercounts
PROPERTIES WindowsStartEmpty TargetsHaveEvidence
CHECK_DEADLOCK FALSE
