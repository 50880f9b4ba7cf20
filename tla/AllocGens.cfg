CONSTANTS
  Threads = {t1, t2, t3}
  NoThread = none
  GenArraySize = 2
  MaxGens = 3
SPECIFICATION Spec
SYMMETRY Symmetry
CHECK_DEADLOCK FALSE
INVARIANTS TypeOK GensInPlace 
