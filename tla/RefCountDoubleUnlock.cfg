SPECIFICATION MCSpec
CONSTANTS
  Programs = {"any"}
  Threads = {t1, t2}
  NoThread = none
  RcHalf = 2
  MaxRefs = 6
  PinnedAt = 20
  Births = {TRUE}
  Retainers = {t1}
  Releasers = {t1, t2}
  WeakLoaders = {}
  WeakWriters = {}
  Changers = {}
INVARIANTS
  SideTableExclusive
CHECK_DEADLOCK FALSE
