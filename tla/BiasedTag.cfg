CONSTANTS
  Threads = {t1, t2}
  NULL = NULL
  Tag = Tag
  Fresh = {NULL, Tag}
  Epochs = 2
SPECIFICATION FairSpec
INVARIANTS HolderInMark RevokedByNow ListedEpochCurrent OwnRevocationAlone HeuristicsCountOwners
PROPERTY CallsReturn
