SPECIFICATION MCSpec
CONSTANTS
  Programs = {"any"}
  Threads = {t1, t2}
  NoThread = none
  RcHalf = 2
  MaxRefs = 5
  PinnedAt = 20
  Births = {TRUE}
  Retainers = {t2}
  Releasers = {t1, t2}
  WeakLoaders = {}
  WeakWriters = {}
  Changers = {}
INVARIANTS
  NoPrematureDealloc
CHECK_DEADLOCK FALSE
