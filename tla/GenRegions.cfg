CONSTANTS
  Threads = {t1, t2}
  NoThread = NoThread
  Regions = {r1, r2}
  NoRegion = NoRegion
  RegionBlocks = 2
  r1 = r1
  Followed <- MCFollowed
SPECIFICATION FairSpec
INVARIANTS TypeOK  CarvesActiveRegion NoReferenceLost PauseFindsReferences
PROPERTY OperationsEnd
CHECK_DEADLOCK FALSE
