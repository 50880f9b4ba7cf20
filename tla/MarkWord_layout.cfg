CONSTANTS
  Threads = {t1, t2}
  NoThread = NoThread
  Sites = {1, 2}
  Shared = {2}
  SharedSize = 3
  LowSize = 2
  MaxAge = 1
SPECIFICATION Spec
SYMMETRY Symmetry
INVARIANT HashesAreInstalled
