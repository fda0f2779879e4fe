\* Selectors 3 and 7 meet in the last bucket of a cache of four: the scan and
\* find wrap.  A cache starts with two buckets and cannot grow past four.
CONSTANTS
    Threads = {t1, t2}
    Base = Base
    Sub = Sub
    Classes = {Base, Sub}
    Superclass <- MCSuperclass
    NoClass = NoClass
    NoThread = NoThread
    Sels = {3, 7}
    impBase = impBase
    impSub = impSub
    Imps = {impBase, impSub}
    InitialMethods <- MCMethods
    Messages <- MCMessages
    Changed <- MCChanged
    NoImp = NoImp
    Forward = Forward
    Addresses = {1, 2, 3, 4, 5}
    InitCacheSize = 2
    MaxCapacity = 4
    GarbageThreshold = 4
    MaxChanges = 1
SPECIFICATION Spec
SYMMETRY Symmetry
INVARIANTS
    ScanIsSafe
    CachedIsCurrent
    AnswerWasCurrent
    AlwaysAnEmptyBucket
