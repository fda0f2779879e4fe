SPECIFICATION MCFairSpec
CONSTANTS
  Programs = {"overflows", "loads"}
  Threads = {t1, t2, t3}
  NoThread = none
  RcHalf = 2
  MaxRefs = 7
  PinnedAt = 20
  Births = {TRUE}
  Retainers = {t1, t2}
  Releasers = {t1}
  WeakLoaders = {t3}
  WeakWriters = {t2}
  Changers = {t2}
PROPERTIES
  Implements
  DroppedIsFreed
CHECK_DEADLOCK FALSE
