SPECIFICATION MCSpec
CONSTANTS
  Threads = {t1, t2}
  NoThread = none
  OBObject = OBObject
  OFObject = OFObject
  OWAddressEntry = OWAddressEntry
  OWController = OWController
  OWConsoleController = OWConsoleController
  Classes = {OBObject, OFObject, OWAddressEntry, OWController, OWConsoleController}
  NoClass = nil
  Super <- OmniWeb
  Sends <- OmniWebSends
  Callers = {c1, c2}
  NoName = noname
  NoKey = nokey
  NoValue = novalue
  TableHash <- MCTableHash
  SelNames = {"a", "b", "c", "d", "e"}
  Builtins = {"e"}
  OwnSelectors <- MCOwn
  SelImages = {"app", "bundle"}
  SelRefs <- MCSelRefs
  SelBundles = {"bundle"}
  FutureNames = {"a", "b", "c", "d", "f"}
  Classed = {"a", "b", "c", "d", "f"}
  Real = {"a", "b", "c", "d", "f"}
  SelrefCount = 0
  FutureCapacity = 1
  CategoryCapacity = 0
  RealizedCapacity = 0
  MaxCategories = 2
  Keys = {1, 2, 3, 4, 5, 6}
  KeyHash <- MCKeyHash
  EmptyKey = empty
  TombstoneKey = tombstone
  Counts <- MCCounts
  MinBuckets = 8
  MinCompact = 16
INVARIANTS
  OneSelectorPerName
  TablesHold
  NoFatalError
  RefcountsAreKept
PROPERTIES
  Answered
  Implements
  EveryMessageAnswered
CHECK_DEADLOCK FALSE
