SPECIFICATION MCSpec
CONSTANTS
  Threads = {t1, t2}
  NoThread = none
  o1 = o1
  o2 = o2
  Objs = {o1, o2}
  Nil = nil
  Locs = {a, b}
  NoLoc = noloc
  Stripe <- TwoStripes
  MaxRefs = 2
  Referents = {1, 2, 3, 4, 5, 6, 7}
  NoReferent = 0
  Referrers = {1, 2, 3, 4, 5, 6, 7}
  NoReferrer = 0
  Watchers <- MCWatchers
  HashReferent <- MCHashReferent
  HashReferrer <- MCHashReferrer
  InlineCount = 2
  FirstSize = 4
  CompactSize = 16
INVARIANTS
  TableAgrees
  FreedIsUnreachable
  NoCircularWait
  LoadFindsLive
  WeakTableAgrees
PROPERTIES
  OnlyDeathClears
SYMMETRY MCSymmetry
CHECK_DEADLOCK FALSE
