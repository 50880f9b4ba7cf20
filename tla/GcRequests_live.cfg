CONSTANTS
  Threads = {t1, t2}
  NoThread = NoThread
  Requests = {"system_gc", "collect_gen", "gen_alloc", "critical"}
  LockerRetries = 0
SPECIFICATION FairSpec
PROPERTIES LockerClears RequestsReturn
