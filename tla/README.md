# A TLA+ model of the Objective-C runtime (objc4-680)

This directory holds TLA+ modules that model the core of the runtime in `src/runtime`,
TLC configurations that check them on small instances, and proofs that TLAPS checks for
every value of the constants. The platform modelled is x86_64 with the modern runtime
(`__OBJC2__`, `SUPPORT_NONPOINTER_ISA`, no garbage collection).

To run one check: `tlc -workers 2 -config WeakRef.cfg MCWeakRef` (the module is the one
that `PROJECT.json` names for the configuration); to run the proofs:
`tlapm RefCountProofs.tla`.

## 1. Inventory

State, operations, hard behaviour and correctness of each part of the system. The last
column says where it is modelled, or that it is not.

| Component (src/runtime) | State | Operations | What is hard | What makes it correct | Module |
|---|---|---|---|---|---|
| Reference counting (`objc-object.h`, `NSObject.mm`) | `isa` (inline count, flags), side table entry (overflow count, flags), side table lock | `rootRetain`, `rootTryRetain`, `rootRelease`, the `sidetable_` operations, `changeIsa`, `rootDealloc` | compare-and-swap loops that span a lock; half of the range in transit between two words; the last release against weak loads | the two counts add up to the references held; deallocation begins once, when none is left; nothing touches freed memory | RefCount, AtomicRefCount |
| Side table maps (`llvm-DenseMap.h`) | open-addressed buckets, counts of entries and tombstones | find, insert, erase, grow, compact | a probe must always meet an empty bucket; zero counts may be purged | it is a map from objects to counts | DenseMap |
| Weak references (`NSObject.mm`, `objc-weak.mm`) | `__weak` variables, the weak tables, one lock per stripe | `storeWeak` and its wrappers, `objc_loadWeakRetained`, copy, move, clearing at dealloc | a side table chosen from a value read before the lock; two locks at once; `+initialize` in the middle; objects dying meanwhile | variables and tables agree; a variable never dangles and never loses a live object | WeakRef, and RefCount for one variable |
| Weak table (`objc-weak.mm`) | open-addressed entries, inline and out-of-line referrers, displacement bounds | insert, remove, clear, grow, compact, find | no tombstones: a search stops at the largest displacement ever needed | it is the map that WeakRef assumes | WeakTable |
| Autorelease pools (`NSObject.mm`) | a doubly linked list of pages per thread, hot page, sentinels; the return-value flag in TLS | push, pop, autorelease, `releaseUntil`, `kill` | a page that fills; `-dealloc` that autoreleases or pops during a pop; the spare page | a pop releases exactly what was added since its push, newest first | AutoreleasePool, PoolStack |
| `@synchronized` (`objc-sync.mm`) | SyncData lists, recursive mutexes, per-thread caches | `objc_sync_enter`, `objc_sync_exit`, `id2data` | mutexes that pass from object to object; counts changed without the list lock | one recursive lock per object | Sync, Monitors |
| Class initialization (`objc-initialize.mm`) | two flags per class, `classInitLock`, `pendingInitializeMap`, each thread's list | `_class_initialize`, `_finishInitializing`, `_finishInitializingAfter` | recursion through superclasses and through `+initialize`; waiting for another thread | once per class, superclass first, no deadlock within a hierarchy | Initialize, ClassInit |
| Method cache (`objc-cache.mm`, `objc-msg-x86_64.s`) | buckets, mask, occupied; garbage list | scan, find, fill, expand, flush, collect | readers without a lock against writers that replace and free the table | a reader finds a method that was right during the message, and never reads freed memory | MethodCache |
| Associated references (`objc-references.mm`), accessors (`objc-accessors.mm`) | the associations map and its lock; property slots and striped locks | get, set, remove; atomic get and set; `objc_copyStruct` | the old value is released after the lock is gone | a getter never retains a released value; no copy is torn | Slots |
| Load methods (`objc-loadmethod.mm`) | queues of pending classes and categories | add, remove, `call_load_methods` | `+load` that loads images, re-entrantly | superclass before subclass, class before category, once each | Loader |
| Images, classes, method lists (`objc-runtime-new.mm`) | the class tables under `runtimeLock` | read, realize, attach categories, add methods and ivars, make and dispose of classes, map and unmap images | order of attachment; answers cached down the hierarchy; sliding ivars | the newest category wins; cached answers are true; ivars do not overlap | Classes, Loader |
| Selectors (`objc-sel.mm`), named tables | `namedSelectors`, future classes, unattached categories, realized classes | register, look up, add, take | the read-to-write upgrade of `selLock` | one selector per name | Names |
| Hash tables (`maptable.mm`, `hashtable2.mm`) | buckets in a row; buckets of arrays | get, insert, remove, rehash | removal from the middle of a chain | they hold what was put into them | Tables |
| Locks (`objc-os.h`) | `spinlock_t`, `mutex_t`, `recursive_mutex_t`, `monitor_t` | lock, unlock, wait, notify | ownership is not recorded by `spinlock_t` | mutual exclusion | inside each module |
| Message send (`objc-msg-x86_64.s`) | registers | `CacheLookup` | as the method cache | as the method cache | the scan in MethodCache |
| Exceptions, ivar layout, environment, type encodings, old runtime, GC | | | | | not modelled (section 7) |

Interactions. `storeWeak` holds side table locks while it reads `isa`, and drops them to
run `+initialize` (Initialize). The release that takes the last reference sends
`-dealloc`, which clears the weak table and the side table entry under the same lock
that weak loads take. `objc_copyWeak` retains, registers and releases in three critical
sections, and its release may itself be the last. Every other component that releases
(autorelease pools, setters, associations) can start a deallocation wherever it does so;
AutoreleasePool lets that `-dealloc` use the pools. Changes of method lists (Classes) end
in a flush of the caches (MethodCache). Loader composes the class tables with the images
that bring classes and with the `+load` methods that bring more images. The hazards that
follow from this are listed, each at its line, under `hazards` in `PROJECT.json`.

## 2. Plan

Done: RefCount (abstract: AtomicRefCount; proofs: RefCountProofs), WeakRef, Sync
(abstract: Monitors), Initialize (abstract: ClassInit), AutoreleasePool (abstract:
PoolStack), MethodCache, Slots, Classes and Loader, WeakTable, DenseMap, Tables and Names.

Proved: the invariants of RefCount, WeakRef, Sync, Initialize, AutoreleasePool,
MethodCache, Slots and Loader, and that RefCount, Sync, Initialize and AutoreleasePool implement their
abstract specifications; and that the hash tables of WeakTable, DenseMap, Tables and Names hold
what was put into them after any operations (section 6).

Next: in Classes, `class_setSuperclass`, protocols and properties; in AutoreleasePool, the
hand-over of a return value through TLS, which would make the pool and RefCount meet.

No module declares a RECURSIVE operator, so that all can be proved about: a loop of the code
is a recursive function over its turns.

## 3. How the modules correspond to the code

All modules follow one rule: a thread takes one step per access to memory that another
thread can reach, and what it does with its locals goes with the step before. A critical
section is one step only when nobody can observe its middle. The label a thread is at
(`pc`, or the label of the innermost frame) is its next access.

**RefCount.** One object. `isa` is the isa word without class and magic, `side` the
object's entry in `SideTable::refcnts`, `location` one registered weak variable, `lock` the
lock of the side table. A load of isa and a compare-and-swap are steps of their own;
`CasFails` is a compare-and-swap that found another word. `spinlock_t` does not know its
owner, so an unlock frees the lock whoever holds it. `owned` is a ghost: the references
the program holds. A caller of retain, release, `storeWeak` or `changeIsa` holds a
reference during the call. Map operations on the side table are atomic under its lock
(DenseMap has their inside).
Each thread's role (who retains, releases, loads, ...) is a constant, to split the state
space between runs. The flags `has_assoc` and `has_cxx_dtor`, which only disable the fast
path of `rootDealloc`, and `changeIsa` between two indexed classes are left out.

**AtomicRefCount.** One number; the release that reaches zero begins deallocation.

**WeakRef.** Several objects, variables and side tables. `registered` is the weak table as
the set of referrers of each object (WeakTable has its inside), `value` what each variable
holds, and the count is
the atomic one that RefCount is shown to implement. `storeWeak<HaveOld, HaveNew>` is the
sequence Read, LockTables (once per lock, `lockTwo`'s order), Check (the two retries),
Initialize, Unregister, Register, SetWeaklyReferenced, Write. Copies and moves run
`objc_loadWeakRetained`, `storeWeak` and a release in turn, and the release may run
`-dealloc` inside the move. The comments in `NSObject.mm` say which calls on one variable
may overlap: `Shareable` and `Unused` state it. Inside `-dealloc` a thread may store, load
and destroy weak variables, also with the dying object. The objects share one class.
`CannotRegister` answers nil, as `objc_storeWeakOrNil` does; the other entry points stop
the program there.

**Sync.** SyncDatas are numbered as they are allocated. A list is the SyncDatas of one
stripe in descending order, because a new one goes to the head and none ever leaves.
`lockCount` and `fast` are a thread's two caches; `Miss`, `ListLock`, `Search...`,
`ListUnlock` are `id2data` from its slow path on, one step per SyncData looked at.
`ExitCached` lowers `threadCount` before `MutexUnlock`, as the code does. The program
nests objects in one order (`MayEnter`); without that it may deadlock of its own accord.
`ExitMiss` is an `objc_sync_exit` by a thread that is not inside, which
`test/synchronized.m` also makes.

**Monitors.** One recursive lock per object. Sync maps a thread's `lockCount` to it,
without the enter that still waits for the mutex.

**Initialize.** `stack` holds a thread's nested calls of `_class_initialize`, `flags` the two
flags of each class, `pending` the map of `_finishInitializingAfter`, and `finishing` what the
recursion of `_finishInitializing` has yet to mark, under the lock, one class per step
because other threads read the flags without it. A call that finds the class begun reads them twice (`Other`,
`OtherAgain`), and the fatal error at 722 is that the second read finds it neither initializing nor initialized. `asleep` are the threads in `wait()`;
`WakeUp` is a spurious wake-up. `Sends` bounds what each `+initialize` messages.

**ClassInit.** Who initializes each class: nobody, a thread, or done.

**WeakTable.** `weak_table_t` is the record `weak_table`: its entries, how many, and the
largest displacement. An entry holds its referrers in as many inline slots, or in a hash
table of its own. `RegisterReferrer`, `UnregisterReferrer` and `ClearReferent` are
`weak_register_no_lock`, `weak_unregister_no_lock` and `weak_clear_no_lock` with the
growth, rehash and compaction that follow. `watching` is a ghost: the plain map that the
tables stand for.

**AutoreleasePool.** One thread; the pools of others are out of its reach. `pages` is the
chain of pages as sequences of what they hold, `hot` the index of the hot page, `frames`
the calls of `pop` on the call stack, each with the page and slot it goes down to. While
a frame is in the `-dealloc` of an object it released, that code may autorelease, push,
and pop what it pushed itself. `tokens` are those the program may still pop. Thread exit is
the pop of everything by `tls_dealloc`, and `-dealloc` may open pools even then.

**PoolStack.** A stack of pointers and the positions that the pops in progress go down
to. AutoreleasePool maps the pages, one after the other, to it.

**MethodCache.** `th` holds a thread's label and registers. The assembly `CacheLookup`
loads the mask, the array, and then one bucket a step, and wraps at the end marker;
`setBucketsAndMask` and `bucket_t::set` are one step per store, in their order, which
x86_64 keeps. Filling happens under `cacheUpdateLock`, changes of methods and the flush
under `runtimeLock`, lookup in the method lists under its read side. `cache_collect` looks
at the threads one by one, as `_collecting_in_critical` walks them. Addresses of freed
arrays are given out again. Ghosts: what each message could have been answered by any
time since it began, and whether an answer was not among that.

**Classes.** The tables under `runtimeLock` are one record `rt`, and a critical section
is an operator from `rt` to `rt`: `readClass`, `realizeClass` with `reconcileInstanceVariables`
and `moveIvars`, `methodizeClass`, `attachCategories`, the four flags
for custom retain, release and alloc with their propagation, `class_addMethod`,
`class_addIvar`, `objc_allocateClassPair`, of a root too, and its companions. A class and its metaclass are
made, realized and freed together: they are the two sides of one class.

**Loader.** The steps around Classes: `map_2_images` for one image or several, `load_images`,
the unloading of a bundle, and any thread's use of classes. `LoadImages` takes one image, as dyld calls `load_images`:
`objc-os.mm:860` registers it as not batched. `call_load_methods` keeps its
passes: `phase` says which list is being called, `batch` is the detached list, `at` the
position in it, and while a `+load` runs the program may map more images, or change classes,
from within it. `called` and `found` record what ran and what was read, in order.

**Slots.** Associations, properties and structures that are copied. A set is three steps:
acquire the new value, exchange under the lock, release the old one. A get reads and
retains under the lock. `old` holds what a call has taken out of its slots and must still release:
one value, or all the associations of an object, which go in any order (the map orders them by the addresses of their keys). Counts are the atomic ones that RefCount implements; an address
may be allocated again after its value died. `uses` picks which slots a program touches,
so that the run covers pairs of them and not the product of all.

**DenseMap.** `RefcountMap` with its quadratic probing, tombstones, `grow`, `compact` and
the purging of zero counts; `stored` is the plain map it stands for.

**Tables and Names.** NXMapTable and NXHashTable as operators from tables to tables, and
the runtime's four users of them: selectors, future classes, unattached categories and
realized classes, each with a ghost that says what it should hold. A selector is the
address of a string, its text and where it came from, so that two selectors for one text can be told
apart. Registration is two steps, the look under the read lock and the insertion under
the write lock.

`MC*.tla` give the constants of the instances. MCWeakRef and MCInitialize also explore the
tables (WeakTable; Names and DenseMap) in the same run: `part` picks one part at the
start, and the others stand still. The operations of the tables are atomic under
locks of their own, so that interleaving them with the threads would show nothing more.
MCRefCount picks the program, `program`: any, or for `refcount_overflow` one that overflows
the inline count and has no weak loads, or one that loads weakly and does not overflow.
A program that does both meets finding 1, with one releasing thread too.

## 4. Runs

| Run | Instance | Distinct states | What it shows |
|---|---|---|---|
| `refcount_inline` | 3 threads, each in every role, up to 4 references; `RcHalf` 2, so the inline count does not overflow; born with an indexed or a raw isa; a side table count sticks at 2 | 354 979 | types, mutual exclusion, exact counts, no early deallocation, no use after free, clearing before free, and that AtomicRefCount is implemented |
| `refcount_overflow` | `RcHalf` 2; one thread releases, another stores weakly and changes the isa while both retain, a third loads weakly. Either up to 7 references and no weak loads, or any number of weak loads and references that fit the inline count | 72 062 | no reference is lost in transit; the releasing thread's calls return and a dropped object is freed, whatever weak loads contend for the lock (liveness) |
| `double_unlock` | two releasing threads with overflow | violation | finding 1 |
| `early_dealloc` | two releasing threads with overflow | violation | finding 2 |
| `weakref` | 2 threads, 2 objects in 2 side tables, 2 variables, up to 2 references each; a weak table with up to 7 objects and 7 referrers | 1 800 660 | tables and variables agree, a freed object is out of every variable's reach, no deadlock on two locks, a load of a live object finds it, only death clears a variable; the hash table loses nothing |
| `sync` | 2 threads, 3 objects (two share a list), recursion, one unpaired exit, a cache that starts with one item | 564 319 | SyncDatas stay unique and counted and fit the caches, mutexes follow the counts, Monitors is implemented; no deadlock |
| `sync_thread_count` | 2 threads, 2 objects, one unpaired exit | violation | finding 3 |
| `initialize` | 2 threads, the five classes of the comment at `objc-initialize.mm:88`; selectors of two images and two callers; three more tables; a map of 6 counts | 93 056 | no fatal error, messages wait for the right thread, ClassInit is implemented, every message is answered; one selector per name; the tables hold what they should |
| `autorelease_pool` | 2 objects, pages of 4 slots, up to 10 pointers, two pops inside each other, every debug option | 4 144 637 | the pages are well formed, the `while` of `releaseUntil` that its comment doubts could be an `if`, PoolStack is implemented; no deadlock |
| `method_cache` | 2 threads, a class and its superclass, 2 selectors that collide, one change of a method | 3 715 448 | no scan reads outside an array or in a freed one; what is cached is current; each answer was right at some time during its message; every array keeps an empty bucket; no deadlock |
| `loader` | 3 images with 6 classes and 6 categories, one of them a bundle, one class made at run time, a root or a subclass, one change | 403 474 | order and completeness of `+load`, order of methods, truth of the inherited flags, no overlapping ivars |
| `slots` | 2 threads, 2 values, 2 associations, an atomic and a plain property, 2 structures | 3 861 430 | every reference to a value has a holder and the reverse; no torn copy; no deadlock |

Each property of a passing run has a mutant, an operator beside the one it replaces and
marked `mutant:`, that stands for a plausible mistake; TLC finds the property violated
with it.

### Bounds

- `MaxRefs`, `PinnedAt`, `RcHalf` (RefCount): with `RcHalf = 2` the inline count ranges over
  0..3, so that a fifth reference overflows and dropping back below it borrows. `MaxRefs`
  allows two overflows in a row in `refcount_overflow`, and none in `refcount_inline`.
  With 2^7 for `RcHalf` the same transitions would only be further apart. `PinnedAt` stands for
  `SIDE_TABLE_RC_PINNED`; only `refcount_inline` reaches it, with three of its four references
  and with enough of them left to be released that a count which did not stick would end too early.
- `MaxRefs = 2` (WeakRef): a last reference, and one more to be taken by a load. Two
  variables are enough for an entry that must survive the removal of another one, and two
  stripes for the lock order. A run with three threads is out of reach; every retry
  already needs only one other thread.
- WeakTable: `InlineCount` 2, `FirstSize` 4 and `CompactSize` 16 for 4, 64 and 1024, so that
  five referrers leave the inline slots and make their table grow, and seven entries make
  the outer one grow to 16 and compact. `FewWatched` separates the two cases.
- `MaxData` (Sync) is the number of objects, and is never the reason a step is missing:
  the run checks deadlock, and `OneDataPerObject` shows that more are never needed.
  `FirstAllocated = 1` instead of 4 makes a cache grow with three objects. Recursion of one
  object two deep suffices for the last exit to differ from the others.
- Initialize has no bound of its own: the classes are finitely many, and each `+initialize`
  messages a class at most once.
- AutoreleasePool: `Slots` 4 per page has empty, less than half full, half full and full
  pages, the cases that decide which pages `pop` kills; `MaxEntries` 10 reaches a third
  page; `MaxFrames` 2 is a pop in a `-dealloc` in a pop.
- MethodCache: a cache grows once, from `InitCacheSize` 2 to 4; that it cannot grow past
  `MaxCapacity` is defined but not reached, since two selectors fit. Both hash to the last
  bucket, so that a scan wraps. Five `Addresses` are as many as live and garbage arrays can
  need at once; `GarbageThreshold` is low enough that freeing happens.
- Loader: `MaxChanges` 1 and `MaxIvars` 2 bound what the program does at run time;
  `RootSizes` 8 and 12 are a superclass of the compiled size and one that grew by less than
  an ivar's alignment; `DebugIvars` has both values of `DebugNonFragileIvars`.
- Slots: a thread owns at most `MaxOwn` = 1 reference to a value it may pass on; `SlotSets`
  are the pairs that can interact through a lock or a value.
- DenseMap: `MinBuckets` 8 and `MinCompact` 16, MIN_BUCKETS and MIN_COMPACT being 4 and 1024:
  six keys then reach 32 buckets and compaction. The number of buckets itself is not bounded. One key may have a count of zero, to be purged.
- Names: the tables start with one or two buckets, not with 16 or more, so that five keys make
  them grow. `MaxCategories` is 2: a list that grows once.

### Fairness and deadlock

RefCount's `Fairness` assumes, for each thread, weak fairness of the steps of its calls, and
strong fairness of taking the side table lock. The lock is an `OSSpinLock` here
(`objc-os.h:121-136`; the handoff lock that it stands for hands the lock to a waiter), which keeps no queue, so that
strong fairness is an assumption about the lock and the scheduler, not something the code
provides: a spinning thread that finds the lock free again and again takes it at last. It is needed:
with weak fairness of `ClearLock` alone, TLC finds a thread that loads a dying object
weakly, in vain, for ever, whose lock is never free at the moment that the deallocating
thread looks. Beginning a call is never assumed. That a retain or release
returns is stated of the one thread that releases: the other threads then make its
compare-and-swap fail only finitely often. With two such threads the loops
of `rootRetain` and `rootRelease` promise only that one of them gets on.
Initialize's `FairSpec` assumes weak fairness of a thread's steps, hence also that
`+initialize` methods return; a class takes the lock only finitely often, so that strong
fairness is not needed.

`CHECK_DEADLOCK FALSE` is set where the system may stop: after the object is freed
(RefCount, WeakRef), once all classes are initialized (Initialize), and once every image
is loaded and the bounds are used up (Loader). WeakRef states its freedom from deadlock as
`NoCircularWait`, Initialize as `EveryMessageAnswered`. Sync, AutoreleasePool, MethodCache
and Slots leave deadlock checking on.

## 5. Findings

1. `rootRelease` unlocks the side table at `objc-object.h:728` without clearing
   `sideTableLocked`. If the store at 739 then fails, the retry believes that it holds the
   lock: it unlocks it a second time, or borrows from the side table without it (run
   `double_unlock`). Two releasing threads are not needed: a weak load that retains the object
   between the two lines makes the store fail as well.
2. In the same place, the store at 739 that begins deallocation compares only the isa
   word, after the lock is gone. Another thread can overflow into the side table and come
   back to the same word in between; the object is then deallocated with references left
   (run `early_dealloc`).
3. `id2data` counts a thread in before it finds that an exit is unpaired, and never counts
   it out: `threadCount` is no longer the number of threads that its comment says, and
   the SyncData is never reused (run `sync_thread_count`).

Smaller observations, which no run states because no line of the repository promises
otherwise or because nothing comes of them:

- `llvm-DenseMap.h:443`: "rehash the table without growing" calls `grow(NumBuckets)`, and
  `NextPowerOf2` (`llvm-MathExtras.h:404`) is strictly greater than its argument, so that
  the table doubles. DenseMap models what the code does.
- `objc-weak.mm:449`: the inline slots that are looked at share their memory with the pointer
  to the out-of-line table. So an entry that once had such a table is never found empty
  when its last variable goes; it stays until the object dies.
- `_unload_image` (`objc-runtime-new.mm:3645`) removes an unattached category from the class,
  not from the metaclass, where `_read_images` may also have put it; and categories that
  were attached by an image that is unloaded stay attached.
- `remove_class_from_loadable_list` (`objc-loadmethod.mm:146`) does not look at the detached
  array that is being called. Loader unloads a bundle only when none of its `+load`
  methods is pending there, as dyld does.
- `_object_get_associative_reference` retains under the lock of all associations, and the
  retain is a message.

## 6. Proofs

One module of proofs per component, with the hash table the component uses beside it;
`DataFacts.tla` holds the facts that they share: about finite sets, least and greatest numbers, loops,
walks up a hierarchy, circular tables, and sequences, their members, their order backwards, and what
they are when flattened. The pools and Slots, which have nothing else in common, share a module. Each module proves that its specification keeps an inductive invariant (`Invariant`, `Spec => []IInv`,
in most; `PoolInv` for the pools, `LoaderInv` and `MethodsInv` for Loader), and from
it the properties that the runs check. The properties are seldom
inductive by themselves, because what a step may do depends on what its thread read earlier,
and `IInv` adds what a thread knows at each label. `TLC` checked each `IInv` on the instance
of the run before it was proved; not those of the hash tables, which say that there is *some*
number of slots, and of which it checks what follows from them, the runs' properties. In each proof there is one lemma per action or group of
actions with the same effect, and one that says what a step of another thread leaves alone.

The theorems hold for every value of the constants that the ASSUMEs of the modules allow,
any number of threads and objects included. No bound of section 4 matters to them.

**RefCountProofs** assumes besides `InlineOnly`: either the object is born with a raw isa and its
count is in the side table from the start, or `MaxRefs` fits the inline count, so that
`rootRetain` does not overflow (other changes of the isa may still move the count to the
side table). This is every object that never has more than 2^8 references on this platform, and
the case in which findings 1 and 2 cannot occur.

- `IInv` says for every label whether the thread holds the lock, that the count it is about
  to move is in transit, how its `old` relates to the word, that a caller still holds a
  reference, and that once the isa is raw it stays raw.
- From it: `TypeCorrect`, `Exclusion`, `CountExact`, `NoEarlyDealloc`, `NoUseOnceFreed`,
  `ClearedFirst`, each the theorem of one invariant that the runs check.
- `Refinement`: `Spec => Implements`. The abstract count is `owned`. It assumes in addition
  `NeverPins`, that the count stays below the value where it sticks, since a pinned count is
  never decremented.
- `DenseInv` is the invariant of DenseMap, under `SpecRefcounts`, the part of MCInitialize's
  specification that operates on the map; `InlineOnly` is not assumed. The number of
  buckets is a power of two (`Powers`, the closure of {1} under doubling), the counts of entries and of
  tombstones are right, some bucket is empty, and to each key in the map leads a probe
  that meets neither an empty bucket nor the key before. `LookupBucketFor` ends because its probe, by
  1, 2, 3 ... further each time, visits every bucket of a table whose size is a power of two:
  a difference of two triangular numbers that 2^n divides is the product of two numbers of which one is odd
  (`OddFactor`, `SpotsDiffer`, `SpotsCover`). `grow` and `compact` are loops over the old buckets that
  reinsert each (`GrowKeeps`, `CompactKeeps`). `CountsAreKept` proves `RefcountsAreKept`, for every hash
  of the keys; of `MinBuckets` it takes that it is a power of two.

**WeakRefProofs** takes `Threads` finite, as `WeakRef` assumes.

- `IInv`: `Thread(t)` says which variables are t's own at each label, which side tables it has
  locked, what the locks protect (the value it read from the variable is still there, or the
  object it registers for lives) and which reference it keeps; the rest says that locks are
  exclusive, that a variable in scope and the table agree except where a thread at work
  accounts for the difference, that objects with references live, and that a variable points
  to an object only while it may. An action of one thread is *harmless* to another when it leaves
  alone what that thread's locks protect; `Thread(u)` survives each harmless step.
- `WeakTablesAgree`, `NeverDangles`, `LoadsFindLive` and the action property `OnlyDeath`.
- `NeverCircular`: a thread waits only for a side table above all that it holds, so the least
  of the tables in a circle would be waited for by nobody.
- `TableInv` is the invariant of WeakTable: each table, that of the entries and that of the
  referrers of one entry, holds each of its keys once; counts them; and the displacement
  of each from the slot of its hash is within the bound at which a search gives up. Removal leaves
  holes and no tombstones, so that nothing else can be said of the slots in between. An insertion
  ends because the table is at most three quarters full; it puts the key into the first empty slot and
  raises the bound to that displacement. A table that grows or compacts is filled anew by a loop of insertions.
  `WeakTableIsExact` proves `WeakTableAgrees`, for any hashes and sizes of the tables.

**SyncProofs**

- `IInv`: for each label of `enter`, `exit` and `id2data`, what the thread has found and what
  of it is still true (the walk has seen the items that it skipped, the item it returns serves
  its object); one item per object in use; `threadCount` is at least the number of threads that
  have the item in their cache or in their hands; a mutex is held as often as
  the caches count.
- `NeverTwoDatas`, `CachesAreCounted`, `MutexesAreCounted`.
- `ImplementsMonitors`: `Spec => Implements`. A monitor is entered when the mutex is acquired;
  the number of entries is what is on the stacks of calls.

**InitializeProofs**

- `IInv`: the flags of a class and of its superclass, the owner of a class that is initializing,
  what each call of `_class_initialize` on a stack knows about its class and its superclass at its
  label, and that what is in `pendingInitializeMap` is complete but for its superclass.
- `NoFatalErrors`, `EveryCallAnswered`, and `ImplementsClassInit`: a class begins with the
  superclass ready and ends after it.
- `NamesInv` is the invariant of Names, the four tables and what each is used for. An `NXMapTable` is
  searched from the slot of the hash to the first empty one: `MapHas` says that from there to each
  key no slot is empty. `NXMapRemove` empties a slot and takes out and puts back all that follow it up to
  the next empty one: `NamesInv` holds again when the loop ends, while during it the pairs not yet
  put back are those of the chain that is left to visit. An `NXHashTable` is buckets of arrays (`HashHas`).
- `SelectorsAreUnique`: `OneSelectorPerName`; a thread that upgrades `selLock` searches again.
  `TablesAreExact`: `TablesHold`.

**PoolAndSlotsProofs**, the pools

- `PoolInv`, proved by `PoolInvariant`: `Chain` says that pointers lie in the hot page and its ancestors, and that an empty
  cold page is met only where pop is about to kill it; `Popping(k)` what the k-th call of pop on the
  stack relies on: it starts at a boundary at or above those of the calls outside it; `Token(i)` that a
  boundary is where the token says, and that tokens and calls lie in the order in which they came.
  `tls_dealloc` pops from the start of the cold page whether or not a boundary lies there; `Bounded` sets that
  case apart.
- `PagesStay` and `TheWhileIsAnIf`.
- `ImplementsStack`: `SpecPool => Implements`. The stack is `FlattenSeq(pages)`, which is defined by a
  recursive function; `FlattenExists` proves by induction over the number of pages that the
  function exists, and the lemmas `Upto...` say what a page added, emptied or changed by a pointer
  does to the pointers of the first k pages. `AtPosition` and `PositionOrder` then turn a page and a slot into
  a position of the stack, in the same order. `autorelease`, `push`, a `pop` that
  begins (the exit of the thread too), a turn of `releaseUntil` and the end of a pop are the five actions
  of PoolStack; the pages that the end of a pop kills hold no pointer, and the return of a `-dealloc` is a
  stutter. It rests on `PoolInv`: the last pointer of
  the hottest page that is not empty is the top of the stack only because all pages above it are empty,
  and a pop that finds nothing to release has reached its position only because its boundary was
  where the call thought it was.

**LoaderProofs** takes what `ClassesAssumption` and `ImagesAssumption` say of the program
that is loaded: the superclass pointers of the images form no circle; each class and category is in one image,
each category once in its list; what the compiler laid out is sound, for each size that `NSObject` may have, and
of any two alignments one divides the other, as powers of two do; `"runtime"`, the owner of methods that are added
at run time, is the name of no class or category. The images, what depends on what, the number of
classes and what the program does at run time are arbitrary.

- `TablesSound`: the tables after *every* change of them, by whichever critical section. Each layout is sound by
  itself; a realized class is laid out behind its superclass, which is realized and knows it (`Laid`); a compiled
  class has the superclass that was bound, or has lost it (`Bound`); superclasses end at a root (`Ends`);
  a class that the program makes is realized, and nothing inherits from it while it is under construction (`Tidy`).
  A slide moves all ivars by one distance, which the greatest alignment divides, and with it each of them (`MoveIvars`);
  under `DebugNonFragileIvars` the class is first pushed down by a multiple of it.
- The walks up the hierarchy (`Realize`, `Lineage`, `ScheduleClass`) are recursive functions on
  classes: they exist because `Ends` gives each class a rank above its superclass's (`ClimbExists`), and what each turn keeps the walk
  keeps (`ClimbKeeps`, `TypedClimb`). The loops over lists and categories are functions on numbers (`LoopKeeps`, `TypedLoop`).
- `Ordered`: what was called, and what is still to come of the list that call_load_methods has detached, comes after what it
  needs, and once. `Pending` relates the mark `RW_LOADED`, the two queues, the detached list and the images: a marked
  class has marked superclasses; a marked class with a `+load` is in the queue, comes or was called
  (`Scheduling`); a category waits only when its class's `+load` was called, comes or waits (`CategoriesWait`), which is why the loop
  over classes runs to its end before the categories begin; each `+load` of a scheduled image is somewhere (`Accounted`).
- `LayoutsAreSound`, `LoadsInOrder` and `NoLoadForgotten`: `LayoutSound`, `LoadOrder`, `NothingForgotten`.
- `MethodsInv` is a second inductive invariant, kept with the help of the first. `MethodOrder` speaks of realized classes only, and
  of what `found` says in the end; the invariant needs what is true of every class after *each* category that is read.
  `Arranged`: on either side, the categories attached to a class, reversed, followed by those that wait for it, are the part of
  `found` (`Only`) that the class has or waits for, in the same order; a realized class waits for nothing and has its own list last, one
  that is not has no list yet. `NoneMissing`: each category found is among them, unless its image is gone or its class is
  ignored. `FoundFine`: none was found twice. `Opened`: a class that may be found or was realized is of a mapped image, so that a category
  whose image comes after the class's always finds it.
- `Agreed` says of a class with a default flag that no list of its own is against it and that its superclass has the flag; then nothing above it
  is against it either, by induction along the superclasses (`FlaggedLineage`). That the induction step holds after a
  change above needs `Flagged`: what loses a flag takes it from everything below that is initialized (`SubtreeFacts`: `Subtree` is closed
  under `subclasses`). `ReplacedOn` says why a method of `NSObject` that was replaced before `NSObject` was initialized does no
  harm.
- `Flagged(t, u)` and `Methodized` say what each change of methods does to the flags and to the lists, for one class and for all others;
  the actions follow from them one by one (`ThreadsKeepMethods`, `MapKeepsMethods`, `LoadKeepsMethods`, `UnmapKeepsMethods`). The algebra of
  `Only`, `Reverse` and `FlattenSeq` that this takes is proved once (`OnlyConcat`, `OnlyOnly`, `Backwards`, `FlattenDistinct` and others).
- `CategoriesInOrder` and `FlagsInherited`: `MethodOrder` and `InheritedFlags`.
- `TLC` has checked `LoaderInv` and `MethodsInv` on the instance of the run, but for `Ends`, which says that *some* ranks exist.

**MethodCacheProofs** takes what `CacheAssumption` and `SuperclassAssumption` say: `EmptyBuckets`
is no address, `INIT_CACHE_SIZE` and the largest capacity are at least 2, and no class is above
itself. There are any number of changes, selectors and addresses, and `GarbageThreshold` is
anything. `IInv` has four layers, each kept by every action with the help of those before it:

- `TypeOK`, and `Control`: the locks that a thread has at each label and the class it works on.
- `Memory`: no two classes share a bucket array. `CacheOwns` says that the array of a cache is
  allocated, not garbage, and *at least* as long as the mask claims, which is all that is true
  between the two stores of `setBucketsAndMask`, and why the order of the stores matters:
  a scan that has loaded an old mask meets an array that is no smaller. `Counted` says that it is
  exactly that long, that `occupied` is right and that a bucket is empty, except where a thread
  is about to store the mask or the key (`Busy`). `Work` is what the thread under `cacheUpdateLock`
  knows, among others that nobody reads the array it has allocated. `Looked`: of the
  threads a collection has looked at, none holds what it will free; a thread that enters later
  loads the buckets of a cache, and those are not garbage.
- `Values`: `Result`, what a lookup found is what the method lists give as long as it holds
  `runtimeLock` for reading; `Climb`, it has been through the classes below the one it scans;
  `Reads`, every entry with its selector in the array that a scan holds, be it the current one or
  an old one, is an answer that the message may give; `Current`, so is every entry of a cache;
  `Changing`, a class that a change does not flush resolves as it did before.
- `ScanSafety` and `RoomLeft` come from `Memory`, `Currency` and `AnswerCurrency` from `Values`.

**PoolAndSlotsProofs**, Slots, takes what `SlotsAssumption` says: threads, values and slots are finite in number,
the locks of properties, structures and associations are different ones (there may be as few
stripes as one of each), and a policy copies, or retains for a getter, only what the association
retains, as each value of `objc_AssociationPolicy` does.

- `IInv`: a value's count is the number of its holders; `Flagged` relates `has_assoc` and the map to
  the associations, also while the object is being freed and when it is gone; `Setter(t)`,
  `Getter(t)` and `Copier(t)` say which lock a call has at each label and what it read that is
  still true: the old value is still in the property, the value found is still in its slot. `Alone`
  says that two setters of a plain property do not meet, `Whole` that a structure whose words
  differ is the target of a copy that has moved one word.
- `Balance` counts: a step that changes each kind of reference at one point at most changes the
  number of holders by as much. Only the removal of all associations moves more, from one kind
  to another; it is counted by itself.
- `Ownership`: `HoldersAreCounted`. A getter finds the value in a slot that retains it, because the
  policy retains what a getter retains. `WholeCopies`: `NoTornCopy`. A copy holds the stripes of both structures,
  so nobody is copying into its source, and when it moves the second word the first is there.

Only model-checked:

- Liveness (`EveryMessageAnswered` and the others of section 4), whose fairness and ENABLED the
  prover does not handle, and the absence of deadlock.
- The overflow and borrow paths of RefCount (with a single releaser and without weak loads, where
  the code is right), and the claims that section 5 refutes.

To run the proofs: `tlapm` on `RefCountProofs.tla`, `WeakRefProofs.tla`, `SyncProofs.tla`,
`InitializeProofs.tla`, `PoolAndSlotsProofs.tla`, `LoaderProofs.tla`, `MethodCacheProofs.tla` and
`DataFacts.tla`; `LoaderProofs.tla` takes a quarter of an hour, the others less.

## 7. Not modelled

Whole components:

- Exceptions and the messengers of `objc-msg-*.s` apart from `CacheLookup`: unwinder glue,
  argument handling and forwarding.
- `objc-auto*`, `objc-*-old.mm`: compiled out on this platform, as are the garbage-collected
  variants of accessors and associations.
- Ivar layout strings, environment, errors, type encodings, section access: sequential
  compression, I/O and read-only data.

Parts of components that are modelled:

- Classes and Loader: `class_setSuperclass`, protocols and properties, the fix-ups of class
  references, GC layouts, the race in `objc_getFutureClass`, `class_replaceMethod` beside
  `class_addMethod`, headers optimized in the shared cache.
- AutoreleasePool: the return-value optimization, which bypasses the pool, and the
  reporting of its high-water mark.
- MethodCache: realization and initialization inside the lookup, ignored selectors,
  `cache_delete`, empty arrays larger than the static one, `lookupMethodInClassAndLoadCache`,
  and processors other than x86_64.
- Slots: a `-dealloc` that calls accessors again, and the getter of a plain property, which is one load.
- DenseMap: copies, iteration and `SmallDenseMap`. That an entry with a zero count may look absent
  makes no difference to its callers. Tables: comparing, copying and resetting, other prototypes,
  `NXHashInsertIfAbsent`.
- The reader-writer lock: its critical sections are single steps where they touch only
  what it guards.
- Weak memory: on x86_64 a compare-and-swap and a lock are full barriers, and plain stores
  become visible in their order; the modules take accesses in program order.
- An exception that leaves `+initialize`: the code has no handler, the class stays
  initializing and threads that wait for it sleep for ever.
- Tagged pointers, and classes that override retain, release or `allowsWeakReference`.
