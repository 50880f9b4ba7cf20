CONSTANTS
  TableSize = 2
  MaxEntries = 4
  Threads = {t1, t2}
  Parser = vm
  Sites <- MCSites
  Key <- MCKey
  JavaSites = {b}
  IdRange = 4
  Files <- MCFiles
  a = a
  b = b
  c = c
SPECIFICATION Spec
SYMMETRY Symmetry
INVARIANTS TypeOK 
CHECK_DEADLOCK FALSE
