SPECIFICATION Spec
CONSTANTS
  Threads = {t1, t2}
  NoThread = none
  Objs = {1, 2}
  Stripe <- TwoStripes
  MaxData = 2
  FirstAllocated = 4
  MaxDepth <- FirstTwice
  MaxUnpaired = 1
INVARIANT ThreadCountExact
SYMMETRY MCSymmetry
