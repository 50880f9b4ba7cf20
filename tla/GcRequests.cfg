CONSTANTS
  Threads = {t1, t2}
  NoThread = NoThread
  Requests = {"alloc", "system_gc", "full_gc", "collect_gen", "gen_alloc", "critical"}
  LockerRetries = 1
SPECIFICATION Spec
SYMMETRY Symmetry
INVARIANTS TypeOK EpochsSeparate LockerCollectsAlone LockerCountExact CyclesNest CycleToWaitFor
