SPECIFICATION Spec
CONSTANTS
  Threads = {t1, t2}
  NoThread = none
  Objs = {1, 2, 3}
  Stripe <- TwoStripes
  MaxData = 3
  FirstAllocated = 1
  MaxDepth <- FirstTwice
  MaxUnpaired = 1
INVARIANTS
  OneDataPerObject
  CachedIsCounted
  MutexFollowsCount
PROPERTIES
  Implements
SYMMETRY MCSymmetry
