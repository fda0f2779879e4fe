SPECIFICATION MCSpec
CONSTANTS
  Programs = {"any"}
  Threads = {t1, t2, t3}
  NoThread = none
  RcHalf = 2
  MaxRefs = 4
  PinnedAt = 2
  Births = {TRUE, FALSE}
  Retainers = {t1, t2, t3}
  Releasers = {t1, t2, t3}
  WeakLoaders = {t1, t2, t3}
  WeakWriters = {t1, t2, t3}
  Changers = {t1, t2, t3}
INVARIANTS
  TypeOK
  MutualExclusion
  CountIsExact
  NoPrematureDealloc
  NoUseAfterFree
  ClearedBeforeFree
PROPERTIES
  Implements
SYMMETRY ThreadSymmetry
CHECK_DEADLOCK FALSE
