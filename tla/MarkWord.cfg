CONSTANTS
  Threads = {t1, t2, t3}
  NoThread = NoThread
  Sites = {1, 2}
  Shared = {0, 1, 2}
  SharedSize = 3
  LowSize = 2
  MaxAge = 1
SPECIFICATION Spec
SYMMETRY Symmetry
INVARIANTS
  TypeOK
  HashStable
  CountedForOwnSite
  TagKept
