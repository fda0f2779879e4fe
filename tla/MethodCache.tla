----------------------------- MODULE MethodCache -----------------------------
(***************************************************************************)
(* Method lookup: the lock-free scan of a class's method cache by          *)
(* objc_msgSend, the slow path lookUpImpOrForward, the filling, growing    *)
(* and flushing of caches under cacheUpdateLock, and the deferred free of  *)
(* bucket arrays (objc-cache.mm, objc-msg-x86_64.s, objc-runtime-new.mm).  *)
(*                                                                         *)
(* One action per access to memory that a scan may race with.  cpuid and   *)
(* the store order of x86_64 make the stores visible in program order.     *)
(* Classes are realized and initialized.                                   *)
(***************************************************************************)
EXTENDS Naturals, FiniteSets, Sequences, Functions, FiniteSetsExt

CONSTANTS
    Threads, Classes,
    Superclass,         \* class -> class, NoClass for a root
    NoClass, NoThread,
    Sels,               \* selectors: numbers, above the end marker
    Imps, NoImp,
    Forward,            \* _objc_msgForward_impcache
    InitialMethods,     \* the method lists to start with
    Messages,           \* bound: the <<class, selector>> that are sent
    Changed,            \* bound: the <<class, selector>> that are added or set
    Addresses,          \* where bucket arrays may be allocated
    InitCacheSize,      \* INIT_CACHE_SIZE, a power of two like every capacity
    MaxCapacity,        \* the largest capacity that mask_t can hold
    GarbageThreshold,   \* garbage_threshold, in buckets
    MaxChanges          \* bound: changes of methods and flushes

ASSUME CacheAssumption ==
    /\ Sels \subseteq {n \in Nat : n > 1}
    /\ {InitCacheSize, MaxCapacity} \subseteq Nat \ {0, 1}
    /\ Superclass \in [Classes -> Classes \cup {NoClass}] /\ NoClass \notin Classes
    /\ {NoImp, Forward} \cap Imps = {} /\ NoImp # Forward
    /\ InitialMethods \subseteq [Classes -> [Sels -> Imps \cup {NoImp}]]
    /\ Messages \cup Changed \subseteq Classes \X Sels
    /\ Addresses \subseteq Nat \ {0} /\ IsFiniteSet(Addresses)
    /\ NoThread \notin Threads

VARIABLES
    methods,    \* the method lists: class -> selector -> imp or NoImp
    before,     \* the same before the change in progress
    cache,      \* class -> [buckets, mask, occupied]
    heap,       \* address -> bucket array, Freed when it is not allocated
    garbage,    \* arrays waiting to be freed
    readers, writer,    \* runtimeLock
    cacheUpdateLock,     \* its owner
    th,         \* thread -> its program counter and registers
    staleAnswer,        \* a message ran what no method list gave during it
    changes     \* bound: changes made

vars == <<methods, before, cache, heap, garbage, readers, writer, cacheUpdateLock, th,
          staleAnswer, changes>>
tables == <<methods, before, changes>>
locks == <<readers, writer, cacheUpdateLock>>
memory == <<cache, heap, garbage>>

------------------------------------------------------------------------------
(* Bucket arrays.                                                          *)

EmptyBuckets == 0        \* _objc_empty_cache: zeroes, without an end marker
Freed        == <<>>
EmptyBucket  == [key |-> 0, imp |-> NoImp]
EndMarker    == 1
\* allocateBuckets: capacity buckets and the end marker after them.
NewBuckets(cap) == [i \in 1 .. cap + 1 |-> IF i <= cap THEN EmptyBucket
                                           ELSE [key |-> EndMarker, imp |-> NoImp]]
Bucket(a, i) == IF a = EmptyBuckets THEN EmptyBucket ELSE heap[a][i + 1]

Hash(sel, mask) == sel % (mask + 1)
Capacity(k)     == IF k.mask = 0 THEN 0 ELSE k.mask + 1
IsConstantEmptyCache(k) == k.occupied = 0 /\ k.buckets = EmptyBuckets
Bytes(addrs)    == FoldFunctionOnSet(+, 0, [a \in addrs |-> Len(heap[a])], addrs)

\* The bucket where cache_t::find stops: the selector's or an empty one, from
\* the hash on and around.
Probed(k, sel) == [j \in 0 .. k.mask |-> (Hash(sel, k.mask) + j) % (k.mask + 1)]
Stops(k, sel, i) == Bucket(k.buckets, i).key \in {0, sel}
FindBucket(k, sel) ==
    LET p == Probed(k, sel) IN p[Min({j \in 0 .. k.mask : Stops(k, sel, p[j])})]
\* cache_getImp by the owner of cacheUpdateLock, whom nobody disturbs.
CachedImp(k, sel) == Bucket(k.buckets, FindBucket(k, sel))

------------------------------------------------------------------------------
(* Method lists.                                                           *)

\* A class and the classes above it: what every set has that has the class and, of
\* each class in it, the superclass.
Supers == [c \in Classes |->
    LET Up == {S \in SUBSET Classes : c \in S /\ \A d \in S : Superclass[d] \in S \cup {NoClass}}
    IN  {d \in Classes : \A S \in Up : d \in S}]
ASSUME SuperclassAssumption ==
    \A c \in Classes : Superclass[c] # NoClass => c \notin Supers[Superclass[c]]
Subclasses(c) == {d \in Classes : c \in Supers[d]}
\* What the lists say a message finds: the nearest superclass that has it.
Resolved(m, c, s) ==
    LET has == {d \in Supers[c] : m[d][s] # NoImp} IN
    IF has = {} THEN Forward
    ELSE m[CHOOSE d \in has : has \subseteq Supers[d]][s]
\* While a change is in progress a message may still find what was there.
Visible(c, s) == {Resolved(methods, c, s), Resolved(before, c, s)}

Idle == [pc |-> "idle", cls |-> NoClass, sel |-> 0, cur |-> NoClass, mask |-> 0,
         arr |-> 0, idx |-> 0, wrapped |-> FALSE, imp |-> NoImp, slow |-> FALSE,
         tried |-> FALSE, old |-> 0, todo |-> {},
         scan |-> {}, alot |-> FALSE, after |-> "idle", seen |-> {}]

Init ==
    /\ methods \in InitialMethods /\ before = methods
    /\ cache = [c \in Classes |-> [buckets |-> EmptyBuckets, mask |-> 0, occupied |-> 0]]
    /\ heap = [a \in Addresses |-> Freed]
    /\ garbage = {} /\ changes = 0 /\ staleAnswer = FALSE
    /\ readers = {} /\ writer = NoThread /\ cacheUpdateLock = NoThread
    /\ th = [t \in Threads |-> Idle]

At(t, pc) == th[t].pc = pc
\* Thread t goes on with the registers r.
Become(t, r) == th' = [th EXCEPT ![t] = r]

------------------------------------------------------------------------------
(* The scan: CacheLookup.  Its code, and no other that reads buckets without*)
(* cacheUpdateLock, lies between objc_entryPoints and objc_exitPoints.     *)

Critical(t) == th[t].pc \in {"buckets", "probe"}

\* The registers r once a scan of class c has loaded the mask, and when it is over.
ScanOf(r, c) == [r EXCEPT !.pc = "buckets", !.cur = c, !.idx = Hash(r.sel, cache[c].mask),
                          !.arr = 0, !.wrapped = FALSE]
NoScan(r, pc) == [r EXCEPT !.pc = pc, !.cur = NoClass, !.idx = 0, !.arr = 0,
                           !.wrapped = FALSE]

\* objc_msgSend(receiver of class c, s) enters and loads the mask.
Send(t, c, s) ==
    /\ At(t, "idle")
    /\ Become(t, ScanOf([Idle EXCEPT !.cls = c, !.sel = s, !.seen = Visible(c, s)], c))
    /\ UNCHANGED <<tables, memory, locks, staleAnswer>>

LoadBuckets(t) ==
    /\ At(t, "buckets")
    /\ Become(t, [th[t] EXCEPT !.pc = "probe", !.arr = cache[th[t].cur].buckets])
    /\ UNCHANGED <<tables, memory, locks, staleAnswer>>

\* The message ends: imp is called.
Answer(t, imp) ==
    /\ Become(t, Idle)
    /\ staleAnswer' = (staleAnswer \/ imp \notin th[t].seen)
    /\ readers' = readers \ {t}
GoOn(t, r) == Become(t, r) /\ UNCHANGED <<readers, staleAnswer>>

\* The resolver runs once, without the lock; then the forwarder is cached.
NotFound(t) ==
    IF th[t].tried
    THEN GoOn(t, [NoScan(th[t], "fill") EXCEPT !.imp = Forward])
    ELSE /\ Become(t, [NoScan(th[t], "resolve") EXCEPT !.tried = TRUE, !.slow = FALSE])
         /\ readers' = readers \ {t} /\ UNCHANGED staleAnswer

\* getMethodNoSuper_nolock, then the cache of the next superclass.
SearchLists(t) ==
    LET c == th[t].cur  imp == methods[c][th[t].sel] IN
    IF imp # NoImp THEN GoOn(t, [NoScan(th[t], "fill") EXCEPT !.imp = imp])
    ELSE IF Superclass[c] # NoClass THEN GoOn(t, ScanOf(th[t], Superclass[c]))
    ELSE NotFound(t)

\* A miss leaves the critical region: to the slow path, or in it to the lists
\* of the class scanned, which nobody changes.
Miss(t) == IF th[t].slow THEN SearchLists(t) ELSE GoOn(t, NoScan(th[t], "rdlock"))

\* A hit calls the imp of the bucket; in the slow path, where cache_getImp
\* returned it, an entry of the class itself ends the lookup, and one of a
\* superclass is cached in the class unless it is the forwarder.
Hit(t, imp) ==
    IF ~th[t].slow \/ th[t].cur = th[t].cls THEN Answer(t, imp)
    ELSE IF imp = Forward THEN NotFound(t)
    ELSE GoOn(t, [NoScan(th[t], "fill") EXCEPT !.imp = imp])

\* One turn of the scan.  The imp of a bucket never changes once its key is set.
Probe(t) ==
    /\ At(t, "probe")
    /\ LET b == Bucket(th[t].arr, th[t].idx) IN
       \/ b.key = th[t].sel                        /\ Hit(t, b.imp)
       \/ b.key = 0                                /\ Miss(t)
       \/ b.key = EndMarker /\ th[t].wrapped       /\ Miss(t)
       \/ b.key = EndMarker /\ ~th[t].wrapped      /\ GoOn(t, [th[t] EXCEPT !.idx = 0, !.wrapped = TRUE])
       \/ b.key \notin {0, EndMarker, th[t].sel}   /\ GoOn(t, [th[t] EXCEPT !.idx = @ + 1])
    /\ UNCHANGED <<tables, memory, writer, cacheUpdateLock>>

\* lookUpImpOrForward at its label retry, the first time or after
\* _class_resolveMethod.  The resolver's own lookup does what this one does;
\* that it adds a method is StartChange.
LockRuntimeRead(t) ==
    /\ At(t, "rdlock") \/ At(t, "resolve")
    /\ writer = NoThread
    /\ readers' = readers \cup {t}
    /\ Become(t, [ScanOf(th[t], th[t].cls) EXCEPT !.slow = TRUE])
    /\ UNCHANGED <<tables, memory, writer, cacheUpdateLock, staleAnswer>>

------------------------------------------------------------------------------
(* cache_fill and cache_erase_nolock, under cacheUpdateLock.               *)

\* Both work on one class: the one filled, or the one being flushed.
Filling(t) == t \in readers
Target(t)  == IF Filling(t) THEN th[t].cls ELSE th[t].cur

\* expand, unless the new capacity does not fit in mask_t.
Expanded(cap) == IF 2 * cap > MaxCapacity THEN cap ELSE 2 * cap

\* mutant: the cache is filled up before it grows.
HasRoomFull(k) == k.occupied + 1 <= Capacity(k)
HasRoom(k) == k.occupied + 1 <= (Capacity(k) \div 4) * 3

\* The capacity cache_fill_nolock reallocates to, 0 for none.
NewCapacity(k) ==
    CASE IsConstantEmptyCache(k) -> IF Capacity(k) = 0 THEN InitCacheSize ELSE Capacity(k)
      [] ~IsConstantEmptyCache(k) /\ HasRoom(k)  -> 0
      [] ~IsConstantEmptyCache(k) /\ ~HasRoom(k) -> Expanded(Capacity(k))

FreeAddress == Min({a \in Addresses : heap[a] = Freed})

\* cache_fill: the lock, the second look, and the allocation.
Fill(t) ==
    /\ At(t, "fill") /\ cacheUpdateLock = NoThread
    /\ LET k == cache[th[t].cls]  n == NewCapacity(k) IN
       IF CachedImp(k, th[t].sel).key = th[t].sel
       THEN Answer(t, th[t].imp) /\ UNCHANGED <<heap, cacheUpdateLock>>
       ELSE /\ cacheUpdateLock' = t
            /\ IF n = 0 THEN GoOn(t, NoScan(th[t], "setImp")) /\ UNCHANGED heap
               ELSE /\ \E a \in Addresses : heap[a] = Freed
                    /\ heap' = [heap EXCEPT ![FreeAddress] = NewBuckets(n)]
                    /\ GoOn(t, [th[t] EXCEPT !.pc = "setBuckets", !.arr = FreeAddress,
                               !.mask = n - 1,
                               !.old = IF IsConstantEmptyCache(k) THEN 0 ELSE k.buckets])
    /\ UNCHANGED <<tables, cache, garbage, writer>>

\* mutant: the mask is stored first.
SetBucketsMask(t) == cache' = [cache EXCEPT ![Target(t)].mask = th[t].mask]
StoreFirst(t) == cache' = [cache EXCEPT ![Target(t)].buckets = th[t].arr]

\* setBucketsAndMask: the buckets, a barrier, then the mask.
SetBuckets(t) ==
    /\ At(t, "setBuckets")
    /\ StoreFirst(t)
    /\ Become(t, [th[t] EXCEPT !.pc = "setMask"])
    /\ UNCHANGED <<tables, heap, garbage, locks, staleAnswer>>

Continue(t) == IF Filling(t) THEN "setImp" ELSE "erase"
\* cache_collect(false) with garbage g does nothing below the threshold.
Collects(g) == Bytes(g) >= GarbageThreshold

\* cache_collect_free and cache_collect follow when the old buckets were not
\* the shared ones.
SetMask(t) ==
    /\ At(t, "setMask")
    /\ cache' = [cache EXCEPT ![Target(t)] =
                    [buckets |-> th[t].arr, mask |-> th[t].mask, occupied |-> 0]]
    /\ garbage' = garbage \cup ({th[t].old} \ {0})
    /\ LET collect == th[t].old # 0 /\ Collects(garbage') IN
       Become(t, [NoScan(th[t], IF collect THEN "scan" ELSE Continue(t)) EXCEPT
                    !.old = 0, !.mask = 0, !.scan = IF collect THEN Threads \ {t} ELSE {}])
    /\ UNCHANGED <<tables, heap, locks, staleAnswer>>

\* mutant: a thread that runs the messenger for the first time is not looked at.
InCriticalSlow(u) == Critical(u) /\ th[u].slow
InCritical(u) == Critical(u)

\* _collecting_in_critical looks at the other threads one by one; a thread
\* inside puts the collection off, or off and on again when asked for a lot.
Scan(t) ==
    /\ At(t, "scan")
    /\ \E u \in th[t].scan :
          IF ~InCritical(u) THEN Become(t, [th[t] EXCEPT !.scan = @ \ {u}])
          ELSE IF th[t].alot THEN Become(t, [th[t] EXCEPT !.scan = Threads \ {t}])
          ELSE Become(t, [th[t] EXCEPT !.pc = Continue(t), !.scan = {}])
    /\ UNCHANGED <<tables, memory, locks, staleAnswer>>

\* The collection that was asked for is all that its caller wanted.
FreeGarbage(t) ==
    /\ At(t, "scan") /\ th[t].scan = {}
    /\ heap' = [a \in Addresses |-> IF a \in garbage THEN Freed ELSE heap[a]]
    /\ garbage' = {}
    /\ IF th[t].alot
       THEN Become(t, Idle) /\ cacheUpdateLock' = NoThread
       ELSE Become(t, [th[t] EXCEPT !.pc = Continue(t)]) /\ UNCHANGED cacheUpdateLock
    /\ UNCHANGED <<tables, cache, readers, writer, staleAnswer>>

\* mutant: the key is written first.
WrittenKey(t) == [key |-> th[t].sel, imp |-> NoImp]
\* bucket_t::set writes the imp, then the key.
WrittenFirst(t) == [key |-> 0, imp |-> th[t].imp]

SetImp(t) ==
    /\ At(t, "setImp")
    /\ LET c == th[t].cls  k == cache[c]  i == FindBucket(k, th[t].sel) IN
       /\ heap' = [heap EXCEPT ![k.buckets][i + 1] = WrittenFirst(t)]
       /\ cache' = [cache EXCEPT ![c].occupied = @ + 1]
       /\ Become(t, [th[t] EXCEPT !.pc = "setKey", !.idx = i])
    /\ UNCHANGED <<tables, garbage, locks, staleAnswer>>

\* Both locks go, and the lookup returns.
SetKey(t) ==
    /\ At(t, "setKey")
    /\ heap' = [heap EXCEPT ![cache[th[t].cls].buckets][th[t].idx + 1] =
                   [key |-> th[t].sel, imp |-> th[t].imp]]
    /\ cacheUpdateLock' = NoThread
    /\ Answer(t, th[t].imp)
    /\ UNCHANGED <<tables, cache, garbage, writer>>

------------------------------------------------------------------------------
(* Changes of methods, under runtimeLock for writing.                      *)

\* What a change makes of the method lists, and whose caches it flushes.
\* mutant: the caches of subclasses are forgotten.
AddMethodHere(c, s, i) == [to |-> [methods EXCEPT ![c][s] = i], flush |-> {c}]
\* class_addMethod and class_replaceMethod:
AddMethod(c, s, i) == [to |-> [methods EXCEPT ![c][s] = i], flush |-> Subclasses(c)]
\* method_setImplementation, which does not know the class:
SetImplementation(c, s, i) == [to |-> [methods EXCEPT ![c][s] = i], flush |-> Classes]
\* method_exchangeImplementations:
Exchange(c, d, s) == [to |-> [methods EXCEPT ![c][s] = methods[d][s], ![d][s] = methods[c][s]],
                      flush |-> Classes]
\* _objc_flush_caches(nil):
FlushAll == [to |-> methods, flush |-> Classes]

Has(c, s) == methods[c][s] # NoImp
Changes ==
    {ch \in UNION {
        {AddMethod(x[1], x[2], i) : x \in Changed, i \in Imps},
        {SetImplementation(x[1], x[2], i) : x \in {y \in Changed : Has(y[1], y[2])}, i \in Imps},
        {Exchange(x[1], x[2], x[3]) : x \in {y \in Classes \X Classes \X Sels :
                                               Has(y[1], y[3]) /\ Has(y[2], y[3])}}}
     : ch.to # methods}

\* A message in progress may run the new method from now on.
Notice(r, ch) == IF r.seen = {} THEN r
                 ELSE [r EXCEPT !.seen = @ \cup {Resolved(ch.to, r.cls, r.sel)}]

\* A thread changes a method on its own, or in the resolver that its message ran.
StartChange(t) ==
    /\ At(t, "idle") \/ At(t, "resolve")
    /\ readers = {} /\ writer = NoThread /\ changes < MaxChanges
    /\ \E ch \in Changes \cup (IF At(t, "idle") THEN {FlushAll} ELSE {}) :
          /\ methods' = ch.to
          /\ th' = [u \in Threads |->
                      IF u # t THEN Notice(th[u], ch)
                      ELSE [Notice(th[t], ch) EXCEPT !.pc = "erase", !.todo = ch.flush,
                              !.after = CASE At(t, "resolve") -> "rdlock"
                                          [] ch = FlushAll    -> "lockCollect"
                                          [] OTHER            -> "idle"]]
    /\ writer' = t /\ changes' = changes + 1
    /\ UNCHANGED <<before, memory, readers, cacheUpdateLock, staleAnswer>>

\* flushCaches: cache_erase_nolock of the classes that have anything cached.
\* The buckets go to waste, the capacity stays.
ToErase(t) == {c \in th[t].todo : cache[c].mask > 0 /\ cache[c].occupied > 0}

Erase(t, c) ==
    /\ At(t, "erase") /\ c \in ToErase(t)
    /\ cacheUpdateLock \in {NoThread, t} /\ cacheUpdateLock' = t
    /\ Become(t, [th[t] EXCEPT !.pc = "setBuckets", !.cur = c, !.arr = EmptyBuckets,
                               !.mask = cache[c].mask, !.old = cache[c].buckets])
    /\ UNCHANGED <<tables, memory, readers, writer, staleAnswer>>

\* The change is complete; the thread goes back to its message if it has one,
\* and a flush of everything goes on to collect.
EndChange(t) ==
    /\ At(t, "erase") /\ ToErase(t) = {} /\ cacheUpdateLock \in {NoThread, t}
    /\ before' = methods
    /\ writer' = NoThread /\ cacheUpdateLock' = NoThread
    /\ Become(t, [th[t] EXCEPT !.pc = th[t].after, !.after = "idle", !.todo = {}])
    /\ UNCHANGED <<methods, changes, memory, readers, staleAnswer>>

\* _objc_flush_caches(nil) collects what there is, under cacheUpdateLock alone.
LockCollect(t) ==
    /\ At(t, "lockCollect") /\ cacheUpdateLock = NoThread
    /\ cacheUpdateLock' = t
    /\ Become(t, [th[t] EXCEPT !.pc = "scan", !.alot = TRUE, !.scan = Threads \ {t}])
    /\ UNCHANGED <<tables, memory, readers, writer, staleAnswer>>

Next == \E t \in Threads :
    \/ \E m \in Messages : Send(t, m[1], m[2])
    \/ LoadBuckets(t) \/ Probe(t) \/ LockRuntimeRead(t)
    \/ Fill(t) \/ SetBuckets(t) \/ SetMask(t) \/ SetImp(t) \/ SetKey(t)
    \/ Scan(t) \/ FreeGarbage(t)
    \/ StartChange(t) \/ (\E c \in Classes : Erase(t, c)) \/ EndChange(t) \/ LockCollect(t)

Spec == Init /\ [][Next]_vars

------------------------------------------------------------------------------
(* Properties.                                                             *)

Holds(t) == th[t].pc = "probe" /\ th[t].arr # EmptyBuckets

\* No bucket array is freed while a scan reads it: _collecting_in_critical, which
\* looks at one thread after the other, misses nobody that matters. And a scan that
\* pairs the old mask with the new buckets, or outlives a growth or a flush, stays
\* within the array it reads, end marker included.
ScanIsSafe == \A t \in Threads :
    Holds(t) => heap[th[t].arr] # Freed /\ th[t].idx + 1 \in DOMAIN heap[th[t].arr]

\* Every entry of a cache that a new scan can reach is what the method lists
\* give, or gave before a change that has not returned: lookup and fill are
\* one atomic step against changes, as the comment at `retry' wants.
CachedIsCurrent == \A c \in Classes :
    cache[c].buckets # EmptyBuckets =>
        \A e \in Range(heap[cache[c].buckets]) : e.key > EndMarker => e.imp \in Visible(c, e.key)

\* A message runs an implementation that the method lists gave at some moment
\* between its start and its end, the time of a change being all of its call.
AnswerWasCurrent == ~staleAnswer

\* Under cacheUpdateLock, between two changes of a cache, occupied counts its
\* entries and one bucket at least is empty, so that find and the scan end.
AlwaysAnEmptyBucket == cacheUpdateLock = NoThread =>
    \A c \in Classes : LET k == cache[c] IN
       k.buckets # EmptyBuckets =>
          /\ k.occupied = Cardinality({i \in 0 .. k.mask : Bucket(k.buckets, i).key # 0})
          /\ k.occupied < Capacity(k)
==============================================================================
