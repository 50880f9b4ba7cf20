CONSTANTS
  TableSize = 2
  MaxEntries = 2
  Threads = {t1, t2, t3}
  NoThread = NoThread
  Sites = {1, 3}
SPECIFICATION FairSpec
INVARIANT ZeroReachesAll
PROPERTIES IsRegistry CallsReturn
