SPECIFICATION Spec
CONSTANTS
  Threads = {t1, t2}
  NoThread = NoThread
  Values = {a, b}
  Nil = Nil
  Keys = {"k1", "k2"}
  Policies <- MCPolicies
  Props = {"atomic", "plain"}
  Atomic = {"atomic"}
  Structs = {"s1", "s2"}
  Data = {0, 1}
  LockOf <- MCLockOf
  StackLock = 3
  MaxOwn = 1
  SlotSets <- MCSlotSets
INVARIANTS
  HoldersAreCounted
  NoTornCopy
SYMMETRY MCSymmetry
