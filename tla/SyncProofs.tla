----------------------------- MODULE SyncProofs -----------------------------
(***************************************************************************)
(* Proofs about Sync, for any numbers of threads, objects and lists, and   *)
(* for every bound.                                                        *)
(*                                                                         *)
(* IInv is the inductive invariant. Thread(t) says what a thread's place   *)
(* in the code means for its locals, its cache and the list it walks. The  *)
(* rest counts: the threads that use a SyncData and the unpaired exits     *)
(* under way against threadCount, and the returns of objc_sync_enter a     *)
(* thread has not left against the mutex. A step keeps Thread(u) of the    *)
(* others when it is Harmless to them: it binds no SyncData they use, and  *)
(* leaves alone the list they have locked.                                 *)
(***************************************************************************)
EXTENDS Sync, DataFacts, TLAPS

Labels == {"idle", "mutexLock", "mutexUnlock", "listLock", "search", "listUnlock"}
Ops == {"none", "enter", "exit"}

\* The type invariant: of what the threads share, of their caches, of their locals.
SharedTypes ==
  /\ object \in [Datas -> Objs \cup {NoObj}] /\ threadCount \in [Datas -> Nat]
  /\ owner \in [Datas -> Threads \cup {NoThread}] /\ depth \in [Datas -> Nat]
  /\ listLock \in [Stripes -> Threads \cup {NoThread}] /\ unpaired \in Nat

CacheTypes ==
  /\ fast \in [Threads -> Datas \cup {NoData}] /\ lockCount \in [Threads -> [Datas -> Nat]]
  /\ allocated \in [Threads -> Nat]

LocalTypes ==
  /\ pc \in [Threads -> Labels] /\ op \in [Threads -> Ops]
  /\ obj \in [Threads -> Objs \cup {NoObj}] /\ p \in [Threads -> Datas \cup {NoData}]
  /\ firstUnused \in [Threads -> Datas \cup {NoData}]
  /\ result \in [Threads -> Datas \cup {NoData}]

Types == SharedTypes /\ CacheTypes /\ LocalTypes

\* Where a thread is determines what it is doing, which SyncData it has in hand and
\* what its cache has of the object.
Control(t) ==
  /\ pc[t] = "idle" <=> op[t] = "none"
  /\ pc[t] # "idle" => obj[t] \in Objs
  /\ pc[t] \in {"listLock", "search"} => Cached(t, obj[t]) = {}
  /\ pc[t] = "listUnlock" /\ op[t] = "enter" =>
       result[t] \in Datas /\ object[result[t]] = obj[t] /\ lockCount[t][result[t]] = 0
       /\ Cached(t, obj[t]) = {}
  /\ pc[t] = "mutexLock" => op[t] = "enter" /\ result[t] \in Datas
                            /\ object[result[t]] = obj[t] /\ lockCount[t][result[t]] > 0
  /\ pc[t] = "mutexUnlock" => op[t] = "exit" /\ result[t] \in Datas

\* It has locked the list it walks, and no other. It has passed no SyncData of its
\* object there, and the unused one it remembers is still unused.
Walk(t) ==
  /\ \A s \in Stripes :
       listLock[s] = t <=> pc[t] \in {"search", "listUnlock"} /\ s = Stripe[obj[t]]
  /\ pc[t] = "search" =>
       /\ p[t] \in List(Stripe[obj[t]]) \cup {NoData}
       /\ \A d \in List(Stripe[obj[t]]) : d > p[t] => object[d] # obj[t]
  /\ IF pc[t] = "search"
     THEN firstUnused[t] # NoData =>
            firstUnused[t] \in List(Stripe[obj[t]]) /\ threadCount[firstUnused[t]] = 0
     ELSE p[t] = NoData /\ firstUnused[t] = NoData

\* The cache list has room for its items, and from the first look into it until the
\* append for one more.
Room(t) ==
  /\ Used(t) <= allocated[t]
  /\ pc[t] \in {"listLock", "search", "listUnlock"} /\ allocated[t] # 0 => Used(t) < allocated[t]

Thread(t) == Control(t) /\ Walk(t) /\ Room(t)

\* The unpaired exits that may still find, and count, a SyncData
Pending == {t \in Threads : op[t] = "exit" /\ pc[t] \in {"listLock", "search"}}

\* threadCount counts the threads that use a SyncData, and the unpaired exits that have
\* found it; one that was never bound is used by nobody.
Counted ==
  \A d \in Datas :
    /\ Cardinality(Using(d)) <= threadCount[d]
    /\ threadCount[d] + Cardinality(Pending) <= Cardinality(Using(d)) + unpaired
    /\ object[d] = NoObj => threadCount[d] = 0

\* One if the thread has counted its call of enter, and is about to lock the mutex.
Waiting(t, d) == IF pc[t] = "mutexLock" /\ result[t] = d THEN 1 ELSE 0

\* One if the thread has counted its call of exit, and is about to unlock the mutex.
Leaving(t, d) == IF pc[t] = "mutexUnlock" /\ result[t] = d THEN 1 ELSE 0

\* How often a thread has locked the mutex of a SyncData.
Locked(t, d) == IF owner[d] = t THEN depth[d] ELSE 0

\* A thread has locked a mutex as often as it has counted, but for the call it is in.
Mutexes ==
  \A d \in Datas :
    /\ owner[d] = NoThread => depth[d] = 0
    /\ owner[d] # NoThread => depth[d] > 0
    /\ \A t \in Threads : lockCount[t][d] + Leaving(t, d) = Locked(t, d) + Waiting(t, d)

\* The inductive invariant.
IInv == Types /\ (\A t \in Threads : Thread(t)) /\ OneDataPerObject /\ Counted /\ Mutexes

-----------------------------------------------------------------------------
(* What a step leaves of the invariant                                     *)

\* A step that is not the thread's leaves its locals and its cache alone.
Same(u) ==
  /\ pc'[u] = pc[u] /\ op'[u] = op[u] /\ obj'[u] = obj[u] /\ p'[u] = p[u]
  /\ firstUnused'[u] = firstUnused[u] /\ result'[u] = result[u]
  /\ fast'[u] = fast[u] /\ lockCount'[u] = lockCount[u] /\ allocated'[u] = allocated[u]

\* It binds no SyncData the thread uses, and leaves the list the thread has locked.
Harmless(u) ==
  /\ \A d \in Datas : u \in Using(d) => object'[d] = object[d]
  /\ \A s \in Stripes : listLock'[s] = u <=> listLock[s] = u
  /\ \A s \in Stripes : listLock[s] = u =>
       List(s)' = List(s) /\ \A d \in List(s) : object'[d] = object[d]
                               /\ (threadCount[d] = 0 => threadCount'[d] = 0)

\* A SyncData that a thread uses is counted, so it is bound.
LEMMA InUse ==
  ASSUME IInv, NEW d \in Datas, NEW u \in Threads, u \in Using(d)
  PROVE  threadCount[d] > 0 /\ object[d] \in Objs
<1>1. Using(d) \in SUBSET Threads /\ {} \in SUBSET Threads /\ {} \subseteq Using(d) \ {u}
  BY DEF Using, Arriving
<1>2. Cardinality({}) + 1 <= Cardinality(Using(d)) /\ Cardinality(Using(d)) \in Nat
  BY <1>1, SizeStep, SyncAssumption
<1>3. Cardinality({}) = 0
  BY FS_EmptySet
<1>4. Cardinality(Using(d)) <= threadCount[d] /\ threadCount[d] \in Nat
  BY DEF IInv, Counted, Types, SharedTypes
<1>5. threadCount[d] > 0
  BY <1>2, <1>3, <1>4
<1>6. object[d] # NoObj /\ object[d] \in Objs \cup {NoObj}
  BY <1>5 DEF IInv, Counted, Types, SharedTypes
<1> QED
  BY <1>5, <1>6

\* Two SyncDatas that are bound to one object are one.
LEMMA OneData ==
  ASSUME IInv, NEW d \in Datas, NEW e \in Datas, object[d] # NoObj, object[e] = object[d]
  PROVE  d = e
BY DEF IInv, OneDataPerObject

\* Only the thread that has locked a list is past the lock.
LEMMA ListOwner ==
  ASSUME IInv, NEW t \in Threads, pc[t] \in {"search", "listUnlock"}
  PROVE  Stripe[obj[t]] \in Stripes /\ listLock[Stripe[obj[t]]] = t
<1>1. obj[t] \in Objs
  BY DEF IInv, Thread, Control
<1>2. Stripe[obj[t]] \in Stripes
  BY <1>1 DEF Stripes
<1> QED
  BY <1>2 DEF IInv, Thread, Walk

\* Another thread's part of the invariant holds after a step that is harmless to it.
LEMMA OthersKeep ==
  ASSUME IInv, NEW u \in Threads, Same(u), Harmless(u)
  PROVE  Thread(u)'
<1>1. /\ Control(u) /\ Walk(u) /\ Room(u)
      /\ lockCount[u] \in [Datas -> Nat] /\ obj[u] \in Objs \cup {NoObj}
      /\ p[u] \in Datas \cup {NoData} /\ result[u] \in Datas \cup {NoData}
  BY DEF IInv, Thread, Types, CacheTypes, LocalTypes
<1>2. \A d \in Datas : lockCount[u][d] > 0 => object'[d] = object[d]
  BY DEF Harmless, Using
<1>3. Cached(u, obj[u])' = {d \in Datas : lockCount[u][d] > 0 /\ object'[d] = obj[u]}
  BY DEF Cached, Same
<1>4. Cached(u, obj[u])' = Cached(u, obj[u])
  BY <1>2, <1>3 DEF Cached
<1>5. Control(u)'
  <2>1. pc[u] = "listUnlock" /\ op[u] = "enter" => object'[result[u]] = object[result[u]]
    BY <1>1 DEF Control, Harmless, Using, Arriving
  <2>2. pc[u] = "mutexLock" => object'[result[u]] = object[result[u]]
    BY <1>1, <1>2 DEF Control
  <2> QED
    BY <1>1, <1>4, <2>1, <2>2 DEF Control, Same
<1>6. Walk(u)'
  <2>1. CASE pc[u] = "search"
    <3>1. PICK s \in Stripes : s = Stripe[obj[u]] /\ listLock[s] = u
      BY <2>1, ListOwner
    <3>2. List(s)' = List(s) /\ \A d \in List(s) : object'[d] = object[d]
                                  /\ (threadCount[d] = 0 => threadCount'[d] = 0)
      BY <3>1 DEF Harmless
    <3>3. List(Stripe[obj[u]])' = List(s)
      BY <3>1, <3>2 DEF Same
    <3>4. /\ p'[u] \in List(Stripe[obj[u]])' \cup {NoData}
          /\ \A d \in List(Stripe[obj[u]])' : d > p'[u] => object'[d] # obj'[u]
      BY <1>1, <2>1, <3>1, <3>2, <3>3 DEF Walk, Same
    <3>5. firstUnused'[u] # NoData =>
            firstUnused'[u] \in List(Stripe[obj[u]])' /\ threadCount'[firstUnused'[u]] = 0
      BY <1>1, <2>1, <3>1, <3>2, <3>3 DEF Walk, Same
    <3>6. \A x \in Stripes :
            listLock'[x] = u <=> pc'[u] \in {"search", "listUnlock"} /\ x = Stripe[obj'[u]]
      BY <1>1 DEF Walk, Same, Harmless
    <3> QED
      BY <2>1, <3>4, <3>5, <3>6 DEF Walk, Same, Stripes
  <2>2. CASE pc[u] # "search"
    BY <1>1, <2>2 DEF Walk, Same, Harmless, Stripes
  <2> QED
    BY <2>1, <2>2
<1>7. Room(u)'
  BY <1>1 DEF Room, Used, Items, Same
<1> QED
  BY <1>5, <1>6, <1>7 DEF Thread

\* The conjunct of the threads, from the thread that takes the step.
LEMMA AllKeep ==
  ASSUME IInv, NEW t \in Threads, Thread(t)',
         \A u \in Threads \ {t} : Same(u) /\ Harmless(u)
  PROVE  \A u \in Threads : Thread(u)'
<1> SUFFICES ASSUME NEW u \in Threads, u # t
             PROVE  Thread(u)'
  OBVIOUS
<1> QED
  BY OthersKeep

\* A step that changes no SyncData and no list lock is harmless.
LEMMA StillHarmless ==
  ASSUME NEW u \in Threads, object' = object, listLock' = listLock,
         \A d \in Datas : threadCount[d] = 0 => threadCount'[d] = 0
  PROVE  Harmless(u)
<1>1. \A s \in Stripes : List(s)' = List(s) /\ List(s) \subseteq Datas
  BY DEF List
<1> QED
  BY <1>1 DEF Harmless

\* The sizes the counts are about, before and after a step.
LEMMA UsingFinite ==
  ASSUME NEW d \in Datas
  PROVE  /\ Using(d) \in SUBSET Threads /\ Using(d)' \in SUBSET Threads
         /\ Pending \in SUBSET Threads /\ Pending' \in SUBSET Threads
         /\ Cardinality(Using(d)) \in Nat /\ Cardinality(Using(d)') \in Nat
         /\ Cardinality(Pending) \in Nat /\ Cardinality(Pending') \in Nat
         /\ Pending' \subseteq Pending => Cardinality(Pending') <= Cardinality(Pending)
<1>1. /\ Using(d) \in SUBSET Threads /\ Using(d)' \in SUBSET Threads
      /\ Pending \in SUBSET Threads /\ Pending' \in SUBSET Threads
  BY DEF Using, Arriving, Pending
<1>2. IsFiniteSet(Threads)
  BY SyncAssumption
<1>3. \A S \in SUBSET Threads : Cardinality(S) \in Nat
  BY <1>2, FS_Subset, FS_CardinalityType
<1>4. Pending' \subseteq Pending => Cardinality(Pending') <= Cardinality(Pending)
  BY <1>1, <1>2, FS_Subset
<1> QED
  BY <1>1, <1>3, <1>4

\* Counted stays when nothing it counts changes.
LEMMA CountedKeeps ==
  ASSUME IInv, object' = object, threadCount' = threadCount, unpaired' = unpaired,
         \A d \in Datas : Using(d)' = Using(d), Pending' \subseteq Pending
  PROVE  Counted'
<1> SUFFICES ASSUME NEW d \in Datas
             PROVE  /\ Cardinality(Using(d)') <= threadCount[d]
                    /\ threadCount[d] + Cardinality(Pending')
                         <= Cardinality(Using(d)') + unpaired
                    /\ object[d] = NoObj => threadCount[d] = 0
  BY DEF Counted
<1>1. threadCount[d] \in Nat /\ unpaired \in Nat
  BY DEF IInv, Types, SharedTypes
<1>2. Cardinality(Using(d)') = Cardinality(Using(d))
  OBVIOUS
<1>3. Cardinality(Pending') <= Cardinality(Pending)
  BY UsingFinite
<1>4. /\ Cardinality(Using(d)) \in Nat /\ Cardinality(Pending) \in Nat
      /\ Cardinality(Pending') \in Nat
  BY UsingFinite
<1>5. /\ Cardinality(Using(d)) <= threadCount[d]
      /\ threadCount[d] + Cardinality(Pending) <= Cardinality(Using(d)) + unpaired
      /\ object[d] = NoObj => threadCount[d] = 0
  BY DEF IInv, Counted
<1> QED
  BY <1>1, <1>2, <1>3, <1>4, <1>5

\* Mutexes stays when no mutex changes and the thread counts as its place says.
LEMMA MutexesKeep ==
  ASSUME IInv, NEW t \in Threads, \A u \in Threads \ {t} : Same(u),
         owner' = owner, depth' = depth, Types',
         \A d \in Datas : lockCount'[t][d] + Leaving(t, d)' + Waiting(t, d)
                            = lockCount[t][d] + Leaving(t, d) + Waiting(t, d)'
  PROVE  Mutexes'
<1>1. ASSUME NEW d \in Datas, NEW u \in Threads
      PROVE  lockCount'[u][d] + Leaving(u, d)' = Locked(u, d)' + Waiting(u, d)'
  <2>1. lockCount[u][d] + Leaving(u, d) = Locked(u, d) + Waiting(u, d)
    BY DEF IInv, Mutexes
  <2>2. Locked(u, d)' = Locked(u, d)
    BY DEF Locked
  <2>3. CASE u = t
    <3>1. /\ lockCount[u][d] \in Nat /\ lockCount'[u][d] \in Nat /\ Locked(u, d) \in Nat
          /\ Leaving(u, d) \in Nat /\ Leaving(u, d)' \in Nat
          /\ Waiting(u, d) \in Nat /\ Waiting(u, d)' \in Nat
      BY DEF IInv, Types, SharedTypes, CacheTypes, Locked, Leaving, Waiting
    <3>2. lockCount'[u][d] + Leaving(u, d)' + Waiting(u, d)
            = lockCount[u][d] + Leaving(u, d) + Waiting(u, d)'
      BY <2>3
    <3> QED
      BY <2>1, <2>2, <3>1, <3>2
  <2>4. CASE u # t
    <3>1. Same(u)
      BY <2>4
    <3>2. lockCount'[u][d] = lockCount[u][d] /\ Leaving(u, d)' = Leaving(u, d)
          /\ Waiting(u, d)' = Waiting(u, d)
      BY <3>1 DEF Same, Leaving, Waiting
    <3> QED
      BY <2>1, <2>2, <3>2
  <2> QED
    BY <2>3, <2>4
<1> QED
  BY <1>1 DEF Mutexes, IInv

-----------------------------------------------------------------------------
(* The initial states                                                      *)

\* The invariant holds initially.
LEMMA InitKeeps == Init => IInv
<1> SUFFICES ASSUME Init
             PROVE  IInv
  OBVIOUS
<1>1. Types
  BY SyncAssumption DEF Init, Types, SharedTypes, CacheTypes, LocalTypes, Labels, Ops
<1>2. ASSUME NEW t \in Threads
      PROVE  Thread(t)
  <2>1. Control(t)
    BY <1>2 DEF Init, Control
  <2>2. Walk(t)
    BY <1>2, SyncAssumption DEF Init, Walk, Stripes
  <2>3. Room(t)
    <3>1. Items(t) = {}
      BY DEF Init, Items
    <3> QED
      BY <3>1, FS_EmptySet DEF Init, Room, Used
  <2> QED
    BY <2>1, <2>2, <2>3 DEF Thread
<1>3. OneDataPerObject
  BY DEF Init, OneDataPerObject
<1>4. Counted
  <2>1. Pending = {} /\ \A d \in Datas : Using(d) = {}
    BY DEF Init, Pending, Using, Arriving
  <2> QED
    BY <2>1, FS_EmptySet DEF Init, Counted
<1>5. Mutexes
  BY SyncAssumption DEF Init, Mutexes, Leaving, Waiting, Locked
<1> QED
  BY <1>1, <1>2, <1>3, <1>4, <1>5 DEF IInv

-----------------------------------------------------------------------------
(* objc_sync_enter and objc_sync_exit of an object in the cache            *)

\* A cache list has finitely many items.
LEMMA ItemsFinite ==
  ASSUME NEW t \in Threads
  PROVE  /\ IsFiniteSet(Items(t)) /\ IsFiniteSet(Items(t)')
         /\ Used(t) \in Nat /\ Used(t)' \in Nat
<1>1. IsFiniteSet(Datas)
  BY FS_Interval, SyncAssumption DEF Datas
<1>2. Items(t) \in SUBSET Datas /\ Items(t)' \in SUBSET Datas
  BY DEF Items
<1>3. IsFiniteSet(Items(t)) /\ IsFiniteSet(Items(t)')
  BY <1>1, <1>2, FS_Subset
<1> QED
  BY <1>3, FS_CardinalityType DEF Used

\* fetch_cache keeps the items, and a full cache that there is grows.
LEMMA LookupKeeps ==
  ASSUME IInv, NEW t \in Threads
  PROVE  /\ Grown(t) \in [Threads -> Nat] /\ \A u \in Threads \ {t} : Grown(t)[u] = allocated[u]
         /\ Used(t) \in Nat /\ Used(t) <= Grown(t)[t]
         /\ Grown(t)[t] # 0 => Used(t) < Grown(t)[t]
<1>1. allocated \in [Threads -> Nat] /\ Used(t) <= allocated[t]
  BY DEF IInv, Types, CacheTypes, Thread, Room
<1>2. Used(t) \in Nat
  BY ItemsFinite
<1>3. CASE allocated[t] # 0 /\ Full(t)
  BY <1>1, <1>2, <1>3 DEF Grown, Full
<1>4. CASE ~(allocated[t] # 0 /\ Full(t))
  BY <1>1, <1>2, <1>4 DEF Grown, Full
<1> QED
  BY <1>2, <1>3, <1>4

\* A hit in the cache keeps the items or grows.
LEMMA HitKeeps ==
  ASSUME IInv, NEW t \in Threads, NEW d \in Datas, LookedUp(t, d)
  PROVE  /\ allocated' \in [Threads -> Nat] /\ Used(t) \in Nat /\ Used(t) <= allocated'[t]
         /\ \A u \in Threads \ {t} : allocated'[u] = allocated[u]
<1>1. allocated \in [Threads -> Nat] /\ Used(t) <= allocated[t]
  BY DEF IInv, Types, CacheTypes, Thread, Room
<1> QED
  BY <1>1, LookupKeeps DEF LookedUp

\* What it means to set one count of a thread's cache.
LEMMA SetCount ==
  ASSUME IInv, NEW t \in Threads, NEW d \in Datas, NEW n \in Nat,
         lockCount' = [lockCount EXCEPT ![t][d] = n]
  PROVE  /\ lockCount' \in [Threads -> [Datas -> Nat]]
         /\ lockCount'[t][d] = n
         /\ \A c \in Datas \ {d} : lockCount'[t][c] = lockCount[t][c]
         /\ \A u \in Threads \ {t} : lockCount'[u] = lockCount[u]
         /\ \A u \in Threads, c \in Datas : lockCount'[u][c] \in Nat /\ lockCount[u][c] \in Nat
<1>1. lockCount \in [Threads -> [Datas -> Nat]]
  BY DEF IInv, Types, CacheTypes
<1>2. lockCount' = [lockCount EXCEPT ![t] = [lockCount[t] EXCEPT ![d] = n]]
  OBVIOUS
<1>3. lockCount[t] \in [Datas -> Nat] /\ [lockCount[t] EXCEPT ![d] = n] \in [Datas -> Nat]
  BY <1>1
<1> QED
  BY <1>1, <1>2, <1>3

\* EnterCached keeps the invariant.
LEMMA EnterCachedKeeps ==
  ASSUME IInv, NEW t \in Threads, NEW o \in Objs, EnterCached(t, o)
  PROVE  IInv' /\ \A u \in Threads \ {t} : Same(u) /\ Harmless(u)
<1>1. PICK d \in Datas : /\ lockCount[t][d] > 0 /\ object[d] = o
                         /\ lockCount' = [lockCount EXCEPT ![t][d] = @ + 1]
                         /\ LookedUp(t, d)
                         /\ result' = [result EXCEPT ![t] = d]
  BY DEF EnterCached, Cached
<1>e. /\ pc[t] = "idle" /\ pc' = [pc EXCEPT ![t] = "mutexLock"]
      /\ op' = [op EXCEPT ![t] = "enter"] /\ obj' = [obj EXCEPT ![t] = o]
      /\ object' = object /\ threadCount' = threadCount /\ owner' = owner /\ depth' = depth
      /\ listLock' = listLock /\ fast' = fast /\ p' = p /\ firstUnused' = firstUnused
      /\ unpaired' = unpaired
  BY DEF EnterCached, Goto, shared, walk
<1>h. /\ allocated' \in [Threads -> Nat] /\ Used(t) \in Nat /\ Used(t) <= allocated'[t]
      /\ \A u \in Threads \ {t} : allocated'[u] = allocated[u]
  BY <1>1, HitKeeps
<1>c. /\ lockCount'[t][d] = lockCount[t][d] + 1
      /\ \A c \in Datas \ {d} : lockCount'[t][c] = lockCount[t][c]
      /\ \A u \in Threads \ {t} : lockCount'[u] = lockCount[u]
      /\ \A u \in Threads, c \in Datas : lockCount'[u][c] \in Nat /\ lockCount[u][c] \in Nat
      /\ lockCount' \in [Threads -> [Datas -> Nat]]
  <2>1. lockCount[t][d] + 1 \in Nat
    BY DEF IInv, Types, CacheTypes
  <2> QED
    BY <1>1, <2>1, SetCount
<1>t. Types /\ Types'
  <2>1. Types
    BY DEF IInv
  <2>2. SharedTypes'
    BY <1>e, <2>1 DEF Types, SharedTypes
  <2>3. CacheTypes'
    BY <1>e, <1>c, <1>h, <2>1 DEF Types, CacheTypes
  <2>4. LocalTypes'
    BY <1>1, <1>e, <2>1 DEF Types, LocalTypes, Labels, Ops
  <2> QED
    BY <2>1, <2>2, <2>3, <2>4 DEF Types
<1>l. /\ pc'[t] = "mutexLock" /\ op'[t] = "enter" /\ obj'[t] = o /\ result'[t] = d
      /\ op[t] = "none"
  BY <1>1, <1>e, <1>t DEF Types, LocalTypes, IInv, Thread, Control
<1>2. \A u \in Threads \ {t} : Same(u) /\ Harmless(u)
  <2>1. ASSUME NEW u \in Threads \ {t}
        PROVE  Same(u)
    BY <1>1, <1>e, <1>h, <1>t, <1>c DEF Types, LocalTypes, Same
  <2> QED
    BY <1>e, <2>1, StillHarmless
<1>3. Thread(t)'
  <2>1. Control(t)'
    BY <1>1, <1>e, <1>l, <1>c DEF Control
  <2>2. Walk(t)'
    BY <1>e, <1>l DEF IInv, Thread, Walk, Stripes
  <2>3. Items(t)' = Items(t)
    BY <1>1, <1>e, <1>c DEF Items
  <2>4. Room(t)'
    BY <1>h, <1>l, <2>3 DEF Room, Used
  <2> QED
    BY <2>1, <2>2, <2>4 DEF Thread
<1>4. OneDataPerObject'
  BY <1>e DEF IInv, OneDataPerObject
<1>5. Counted'
  <2>1. \A c \in Datas : Using(c)' = Using(c)
    <3> SUFFICES ASSUME NEW c \in Datas, NEW u \in Threads
                 PROVE  (u \in Using(c))' <=> u \in Using(c)
      BY DEF Using, Arriving
    <3>1. CASE u = t
      BY <1>1, <1>e, <1>l, <1>c, <3>1 DEF Using, Arriving
    <3>2. CASE u # t
      BY <1>2, <3>2 DEF Using, Arriving, Same
    <3> QED
      BY <3>1, <3>2
  <2>2. Pending' \subseteq Pending
    BY <1>e, <1>l, <1>2 DEF Pending, Same
  <2> QED
    BY <1>e, <2>1, <2>2, CountedKeeps
<1>6. Mutexes'
  <2>1. ASSUME NEW c \in Datas
        PROVE  lockCount'[t][c] + Leaving(t, c)' + Waiting(t, c)
                 = lockCount[t][c] + Leaving(t, c) + Waiting(t, c)'
    BY <1>e, <1>l, <1>c DEF Leaving, Waiting
  <2> QED
    BY <1>e, <1>t, <1>2, <2>1, MutexesKeep
<1> QED
  BY <1>t, <1>2, <1>3, <1>4, <1>5, <1>6, AllKeep DEF IInv

\* ExitCached keeps the invariant: only the last exit takes the thread from those that
\* use the SyncData, and it counts it no more.
LEMMA ExitCachedKeeps ==
  ASSUME IInv, NEW t \in Threads, NEW o \in Objs, ExitCached(t, o)
  PROVE  IInv' /\ \A u \in Threads \ {t} : Same(u) /\ Harmless(u)
<1>1. PICK d \in Datas :
        /\ lockCount[t][d] > 0 /\ object[d] = o /\ LookedUp(t, d)
        /\ lockCount' = [lockCount EXCEPT ![t][d] = @ - 1]
        /\ IF lockCount[t][d] = 1
           THEN /\ threadCount' = [threadCount EXCEPT ![d] = @ - 1]
                /\ fast' = IF fast[t] = d THEN [fast EXCEPT ![t] = NoData] ELSE fast
           ELSE threadCount' = threadCount /\ fast' = fast
        /\ result' = [result EXCEPT ![t] = d]
        /\ pc' = [pc EXCEPT ![t] = "mutexUnlock"]
  BY DEF ExitCached, Cached, LastExit, ExitNext, Goto
<1>e. /\ pc[t] = "idle" /\ op' = [op EXCEPT ![t] = "exit"] /\ obj' = [obj EXCEPT ![t] = o]
      /\ object' = object /\ owner' = owner /\ depth' = depth
      /\ listLock' = listLock /\ p' = p /\ firstUnused' = firstUnused /\ unpaired' = unpaired
  BY DEF ExitCached, walk
<1>h. /\ allocated' \in [Threads -> Nat] /\ Used(t) \in Nat /\ Used(t) <= allocated'[t]
      /\ \A u \in Threads \ {t} : allocated'[u] = allocated[u]
  BY <1>1, HitKeeps
<1>c. /\ lockCount'[t][d] = lockCount[t][d] - 1
      /\ \A c \in Datas \ {d} : lockCount'[t][c] = lockCount[t][c]
      /\ \A u \in Threads \ {t} : lockCount'[u] = lockCount[u]
      /\ \A u \in Threads, c \in Datas : lockCount'[u][c] \in Nat /\ lockCount[u][c] \in Nat
      /\ lockCount' \in [Threads -> [Datas -> Nat]]
  <2>1. lockCount[t][d] - 1 \in Nat
    BY <1>1 DEF IInv, Types, CacheTypes
  <2> QED
    BY <1>1, <2>1, SetCount
<1>u. t \in Using(d) /\ threadCount[d] > 0 /\ threadCount \in [Datas -> Nat]
  BY <1>1, InUse DEF Using, IInv, Types, SharedTypes
<1>t. Types /\ Types'
  <2>1. Types
    BY DEF IInv
  <2>2. SharedTypes'
    <3>1. threadCount' \in [Datas -> Nat]
      BY <1>1, <1>u
    <3> QED
      BY <1>e, <2>1, <3>1 DEF Types, SharedTypes
  <2>3. CacheTypes'
    BY <1>1, <1>c, <1>h, <2>1 DEF Types, CacheTypes
  <2>4. LocalTypes'
    BY <1>1, <1>e, <2>1 DEF Types, LocalTypes, Labels, Ops
  <2> QED
    BY <2>1, <2>2, <2>3, <2>4 DEF Types
<1>l. /\ pc'[t] = "mutexUnlock" /\ op'[t] = "exit" /\ obj'[t] = o /\ result'[t] = d
      /\ op[t] = "none"
  BY <1>1, <1>e, <1>t DEF Types, LocalTypes, IInv, Thread, Control
<1>n. \A c \in Datas : threadCount[c] = 0 => threadCount'[c] = 0
  BY <1>1, <1>u
<1>2. \A u \in Threads \ {t} : Same(u) /\ Harmless(u)
  <2>1. ASSUME NEW u \in Threads \ {t}
        PROVE  Same(u)
    BY <1>1, <1>e, <1>h, <1>t, <1>c DEF Types, CacheTypes, LocalTypes, Same
  <2> QED
    BY <1>e, <1>n, <2>1, StillHarmless
<1>3. Thread(t)'
  <2>1. Control(t)'
    BY <1>l DEF Control
  <2>2. Walk(t)'
    BY <1>e, <1>l DEF IInv, Thread, Walk, Stripes
  <2>3. Room(t)'
    <3>1. Items(t)' \subseteq Items(t)
      BY <1>1, <1>t, <1>c DEF Items, Types, CacheTypes
    <3>2. Used(t)' <= Used(t) /\ Used(t)' \in Nat
      BY <3>1, ItemsFinite, FS_Subset DEF Used
    <3> QED
      BY <1>h, <1>l, <3>2 DEF Room, Types, CacheTypes
  <2> QED
    BY <2>1, <2>2, <2>3 DEF Thread
<1>4. OneDataPerObject'
  BY <1>e DEF IInv, OneDataPerObject
<1>5. Counted'
  <2>1. \A c \in Datas : /\ \A u \in Threads \ {t} : (u \in Using(c))' <=> u \in Using(c)
                         /\ (t \in Using(c))' <=> lockCount'[t][c] > 0
                         /\ t \in Using(c) <=> lockCount[t][c] > 0
    BY <1>2, <1>e, <1>l DEF Using, Arriving, Same
  <2>2. Pending' \subseteq Pending
    BY <1>e, <1>l, <1>2 DEF Pending, Same
  <2>3. CASE lockCount[t][d] # 1
    <3>1. \A c \in Datas : Using(c)' = Using(c)
      <4> SUFFICES ASSUME NEW c \in Datas, NEW u \in Threads
                   PROVE  (u \in Using(c))' <=> u \in Using(c)
        BY DEF Using, Arriving
      <4>1. lockCount'[t][c] > 0 <=> lockCount[t][c] > 0
        BY <1>1, <1>c, <2>3
      <4> QED
        BY <2>1, <4>1
    <3> QED
      BY <1>1, <1>e, <2>2, <2>3, <3>1, CountedKeeps
  <2>4. CASE lockCount[t][d] = 1
    <3> SUFFICES ASSUME NEW c \in Datas
                 PROVE  /\ Cardinality(Using(c)') <= threadCount'[c]
                        /\ threadCount'[c] + Cardinality(Pending')
                             <= Cardinality(Using(c)') + unpaired
                        /\ object[c] = NoObj => threadCount'[c] = 0
      BY <1>e DEF Counted
    <3>1. /\ Cardinality(Using(c)) <= threadCount[c]
          /\ threadCount[c] + Cardinality(Pending) <= Cardinality(Using(c)) + unpaired
          /\ object[c] = NoObj => threadCount[c] = 0
      BY DEF IInv, Counted
    <3>2. threadCount[c] \in Nat /\ unpaired \in Nat
      BY <1>t DEF Types, SharedTypes
    <3>3. CASE c # d
      <4>1. Using(c)' = Using(c)
        <5> SUFFICES ASSUME NEW u \in Threads
                     PROVE  (u \in Using(c))' <=> u \in Using(c)
          BY DEF Using, Arriving
        <5> QED
          BY <1>c, <2>1, <3>3
      <4>2. threadCount'[c] = threadCount[c]
        BY <1>1, <2>4, <3>3, <1>u
      <4>3. Cardinality(Using(c)') = Cardinality(Using(c))
        BY <4>1
      <4> QED
        BY <2>2, <3>1, <3>2, <4>2, <4>3, UsingFinite
    <3>4. CASE c = d
      <4>1. Using(d) = Using(d)' \cup {t} /\ t \notin Using(d)'
        <5> SUFFICES ASSUME NEW u \in Threads
                     PROVE  /\ u \in Using(d) <=> (u \in Using(d))' \/ u = t
                            /\ u = t => ~(u \in Using(d))'
          BY DEF Using, Arriving
        <5> QED
          BY <1>u, <1>c, <2>1, <2>4
      <4>2. threadCount'[d] = threadCount[d] - 1
        BY <1>1, <1>u, <2>4
      <4>3. Cardinality(Using(d)) = Cardinality(Using(d)') + 1
        <5>1. IsFiniteSet(Using(d)')
          BY UsingFinite, FS_Subset, SyncAssumption
        <5> QED
          BY <4>1, <5>1, FS_AddElement
      <4> QED
        BY <2>2, <3>1, <3>2, <3>4, <4>2, <4>3, UsingFinite, <1>u
    <3> QED
      BY <3>3, <3>4
  <2> QED
    BY <2>3, <2>4
<1>6. Mutexes'
  <2>1. ASSUME NEW c \in Datas
        PROVE  lockCount'[t][c] + Leaving(t, c)' + Waiting(t, c)
                 = lockCount[t][c] + Leaving(t, c) + Waiting(t, c)'
    BY <1>e, <1>l, <1>c DEF Leaving, Waiting
  <2> QED
    BY <1>e, <1>t, <1>2, <2>1, MutexesKeep
<1> QED
  BY <1>t, <1>2, <1>3, <1>4, <1>5, <1>6, AllKeep DEF IInv

-----------------------------------------------------------------------------
(* The walk of the list                                                    *)

\* A miss keeps the invariant; an exit that misses may be the one that is counted.
LEMMA MissKeeps ==
  ASSUME IInv, NEW t \in Threads, NEW o \in Objs, EnterMiss(t, o) \/ ExitMiss(t, o)
  PROVE  IInv' /\ \A u \in Threads \ {t} : Same(u) /\ Harmless(u)
<1>1. PICK why \in {"enter", "exit"} :
        /\ Miss(t, o, why)
        /\ unpaired' = IF why = "exit" THEN unpaired + 1 ELSE unpaired
  <2>1. CASE EnterMiss(t, o)
    BY <2>1 DEF EnterMiss
  <2>2. CASE ExitMiss(t, o)
    BY <2>2 DEF ExitMiss
  <2> QED
    BY <2>1, <2>2
<1>e. /\ pc[t] = "idle" /\ Cached(t, o) = {} /\ allocated' = Grown(t)
      /\ pc' = [pc EXCEPT ![t] = "listLock"]
      /\ op' = [op EXCEPT ![t] = why] /\ obj' = [obj EXCEPT ![t] = o]
      /\ object' = object /\ threadCount' = threadCount /\ owner' = owner /\ depth' = depth
      /\ listLock' = listLock /\ fast' = fast /\ lockCount' = lockCount /\ p' = p
      /\ firstUnused' = firstUnused /\ result' = result
  BY <1>1 DEF Miss, Goto, shared, walk
<1>h. /\ Grown(t) \in [Threads -> Nat] /\ \A u \in Threads \ {t} : Grown(t)[u] = allocated[u]
      /\ Used(t) \in Nat /\ Used(t) <= Grown(t)[t]
      /\ Grown(t)[t] # 0 => Used(t) < Grown(t)[t]
  BY LookupKeeps
<1>t. Types /\ Types'
  <2>1. Types
    BY DEF IInv
  <2>2. SharedTypes' /\ CacheTypes'
    BY <1>1, <1>e, <1>h, <2>1 DEF Types, SharedTypes, CacheTypes
  <2>3. LocalTypes'
    BY <1>e, <2>1 DEF Types, LocalTypes, Labels, Ops
  <2> QED
    BY <2>1, <2>2, <2>3 DEF Types
<1>l. pc'[t] = "listLock" /\ op'[t] = why /\ obj'[t] = o /\ op[t] = "none"
  BY <1>e, <1>t DEF Types, LocalTypes, IInv, Thread, Control
<1>2. \A u \in Threads \ {t} : Same(u) /\ Harmless(u)
  <2>1. ASSUME NEW u \in Threads \ {t}
        PROVE  Same(u)
    BY <1>e, <1>h, <1>t DEF Types, LocalTypes, Same
  <2> QED
    BY <1>e, <2>1, StillHarmless
<1>3. Thread(t)'
  <2>1. Cached(t, obj[t])' = Cached(t, o)
    BY <1>e, <1>l DEF Cached
  <2>2. Control(t)'
    BY <1>1, <1>e, <1>l, <2>1 DEF Control
  <2>3. Walk(t)'
    BY <1>e, <1>l DEF IInv, Thread, Walk, Stripes
  <2>4. Items(t)' = Items(t)
    BY <1>e DEF Items
  <2>5. Room(t)'
    BY <1>e, <1>h, <1>l, <2>4 DEF Room, Used
  <2> QED
    BY <2>2, <2>3, <2>5 DEF Thread
<1>4. OneDataPerObject'
  BY <1>e DEF IInv, OneDataPerObject
<1>5. Counted'
  <2>1. \A c \in Datas : Using(c)' = Using(c)
    <3> SUFFICES ASSUME NEW c \in Datas, NEW u \in Threads
                 PROVE  (u \in Using(c))' <=> u \in Using(c)
      BY DEF Using, Arriving
    <3> QED
      BY <1>2, <1>e, <1>l DEF Using, Arriving, Same
  <2>2. CASE why = "enter"
    <3>1. Pending' \subseteq Pending
      BY <1>e, <1>l, <1>2, <2>2 DEF Pending, Same
    <3> QED
      BY <1>1, <1>e, <2>1, <2>2, <3>1, CountedKeeps
  <2>3. CASE why = "exit"
    <3> SUFFICES ASSUME NEW c \in Datas
                 PROVE  /\ Cardinality(Using(c)') <= threadCount[c]
                        /\ threadCount[c] + Cardinality(Pending')
                             <= Cardinality(Using(c)') + (unpaired + 1)
                        /\ object[c] = NoObj => threadCount[c] = 0
      BY <1>1, <1>e, <2>3 DEF Counted
    <3>1. Pending' \subseteq Pending \cup {t}
      BY <1>e, <1>2 DEF Pending, Same
    <3>2. Cardinality(Pending') <= Cardinality(Pending) + 1
      BY <3>1, UsingFinite, SizeStep, SyncAssumption
    <3>3. Cardinality(Using(c)') = Cardinality(Using(c))
      BY <2>1
    <3>4. /\ Cardinality(Using(c)) <= threadCount[c]
          /\ threadCount[c] + Cardinality(Pending) <= Cardinality(Using(c)) + unpaired
          /\ object[c] = NoObj => threadCount[c] = 0
      BY DEF IInv, Counted
    <3>5. threadCount[c] \in Nat /\ unpaired \in Nat
      BY <1>t DEF Types, SharedTypes
    <3> QED
      BY <3>2, <3>3, <3>4, <3>5, UsingFinite
  <2> QED
    BY <1>1, <2>2, <2>3
<1>6. Mutexes'
  <2>1. ASSUME NEW c \in Datas
        PROVE  lockCount'[t][c] + Leaving(t, c)' + Waiting(t, c)
                 = lockCount[t][c] + Leaving(t, c) + Waiting(t, c)'
    BY <1>e, <1>l DEF Leaving, Waiting
  <2> QED
    BY <1>e, <1>t, <1>2, <2>1, MutexesKeep
<1> QED
  BY <1>t, <1>2, <1>3, <1>4, <1>5, <1>6, AllKeep DEF IInv

\* The next SyncData of a list: none between it and the one before.
LEMMA NextOne ==
  ASSUME NEW s, NEW b \in Nat
  PROVE  /\ NextData(s, b) \in Datas \cup {NoData}
         /\ \A d \in List(s) : d < b => d <= NextData(s, b)
         /\ NextData(s, b) # NoData => NextData(s, b) \in List(s) /\ NextData(s, b) < b
<1> DEFINE S == {e \in List(s) : e < b} \cup {NoData}
<1>1. S \in SUBSET (0 .. MaxData) /\ S # {} /\ MaxData \in Nat
  BY SyncAssumption DEF List, Datas, NoData
<1>2. Max(S) \in S /\ \A n \in S : n <= Max(S)
  BY <1>1, MaxOfBounded
<1>3. NextData(s, b) = Max(S)
  BY DEF NextData
<1> HIDE DEF S
<1>4. NextData(s, b) \in S /\ \A n \in S : n <= NextData(s, b)
  BY <1>2, <1>3
<1> QED
  BY <1>4 DEF S, List

\* ListLock keeps the invariant: everything of the list is still ahead.
LEMMA ListLockKeeps ==
  ASSUME IInv, NEW t \in Threads, ListLock(t)
  PROVE  IInv' /\ \A u \in Threads \ {t} : Same(u) /\ Harmless(u)
<1>1. PICK s \in Stripes : s = Stripe[obj[t]]
  <2>1. obj[t] \in Objs
    BY DEF ListLock, IInv, Thread, Control
  <2> QED
    BY <2>1 DEF Stripes
<1>e. /\ pc[t] = "listLock" /\ listLock[s] = NoThread
      /\ listLock' = [listLock EXCEPT ![s] = t]
      /\ p' = [p EXCEPT ![t] = NextData(s, MaxData + 1)]
      /\ pc' = [pc EXCEPT ![t] = "search"]
      /\ object' = object /\ threadCount' = threadCount /\ owner' = owner /\ depth' = depth
      /\ fast' = fast /\ lockCount' = lockCount /\ allocated' = allocated /\ op' = op
      /\ obj' = obj /\ firstUnused' = firstUnused /\ result' = result /\ unpaired' = unpaired
  BY <1>1 DEF ListLock, Goto, shared, cache
<1>n. /\ NextData(s, MaxData + 1) \in Datas \cup {NoData}
      /\ NextData(s, MaxData + 1) \in List(s) \cup {NoData}
      /\ \A d \in List(s) : d < MaxData + 1 => d <= NextData(s, MaxData + 1)
  <2>1. MaxData + 1 \in Nat
    BY SyncAssumption
  <2> QED
    BY <2>1, NextOne
<1>t. Types /\ Types'
  <2>1. Types
    BY DEF IInv
  <2>2. SharedTypes' /\ CacheTypes'
    BY <1>e, <2>1 DEF Types, SharedTypes, CacheTypes
  <2>3. LocalTypes'
    BY <1>e, <1>n, <2>1 DEF Types, LocalTypes, Labels
  <2> QED
    BY <2>1, <2>2, <2>3 DEF Types
<1>l. /\ pc'[t] = "search" /\ p'[t] = NextData(s, MaxData + 1)
      /\ listLock'[s] = t /\ \A x \in Stripes \ {s} : listLock'[x] = listLock[x]
      /\ Control(t) /\ Walk(t) /\ Room(t)
  BY <1>e, <1>t DEF Types, SharedTypes, LocalTypes, IInv, Thread
<1>2. \A u \in Threads \ {t} : Same(u) /\ Harmless(u)
  <2> SUFFICES ASSUME NEW u \in Threads \ {t}
               PROVE  Same(u) /\ Harmless(u)
    OBVIOUS
  <2>1. Same(u)
    BY <1>e, <1>t DEF Types, LocalTypes, Same
  <2>2. \A x \in Stripes : List(x)' = List(x)
    BY <1>e DEF List
  <2>3. \A x \in Stripes : listLock'[x] = u <=> listLock[x] = u
    BY <1>e, <1>l, SyncAssumption
  <2> QED
    BY <1>e, <2>1, <2>2, <2>3 DEF Harmless
<1>3. Thread(t)'
  <2>1. Cached(t, obj[t])' = Cached(t, obj[t])
    BY <1>e DEF Cached
  <2>2. Control(t)'
    BY <1>e, <1>l, <2>1 DEF Control
  <2>3. Walk(t)'
    <3>1. List(Stripe[obj[t]])' = List(s)
      BY <1>1, <1>e DEF List
    <3>2. \A d \in List(s) : ~(d > NextData(s, MaxData + 1))
      BY <1>n, <1>1, SyncAssumption DEF List, Datas, NoData
    <3>3. \A x \in Stripes : listLock'[x] = t <=> x = Stripe[obj[t]]
      BY <1>1, <1>e, <1>l DEF Walk
    <3>4. firstUnused'[t] = NoData
      BY <1>e, <1>l DEF Walk
    <3> QED
      BY <1>e, <1>l, <1>n, <3>1, <3>2, <3>3, <3>4 DEF Walk, Stripes
  <2>4. Items(t)' = Items(t)
    BY <1>e DEF Items
  <2>5. Room(t)'
    BY <1>e, <1>l, <2>4 DEF Room, Used
  <2> QED
    BY <2>2, <2>3, <2>5 DEF Thread
<1>4. OneDataPerObject'
  BY <1>e DEF IInv, OneDataPerObject
<1>5. Counted'
  <2>1. \A c \in Datas : Using(c)' = Using(c)
    <3> SUFFICES ASSUME NEW c \in Datas, NEW u \in Threads
                 PROVE  (u \in Using(c))' <=> u \in Using(c)
      BY DEF Using, Arriving
    <3> QED
      BY <1>2, <1>e, <1>l DEF Using, Arriving, Same
  <2>2. Pending' \subseteq Pending
    BY <1>e, <1>l, <1>2 DEF Pending, Same
  <2> QED
    BY <1>e, <2>1, <2>2, CountedKeeps
<1>6. Mutexes'
  <2>1. ASSUME NEW c \in Datas
        PROVE  lockCount'[t][c] + Leaving(t, c)' + Waiting(t, c)
                 = lockCount[t][c] + Leaving(t, c) + Waiting(t, c)'
    BY <1>e, <1>l DEF Leaving, Waiting
  <2> QED
    BY <1>e, <1>t, <1>2, <2>1, MutexesKeep
<1> QED
  BY <1>t, <1>2, <1>3, <1>4, <1>5, <1>6, AllKeep DEF IInv

\* SearchOther keeps the invariant: what it passes is not its object's.
LEMMA SearchOtherKeeps ==
  ASSUME IInv, NEW t \in Threads, SearchOther(t)
  PROVE  IInv' /\ \A u \in Threads \ {t} : Same(u) /\ Harmless(u)
<1>1. PICK s \in Stripes : s = Stripe[obj[t]] /\ listLock[s] = t
  BY ListOwner DEF SearchOther
<1>2. PICK b \in Datas : b = p[t]
  BY DEF SearchOther, IInv, Types, LocalTypes
<1>e. /\ pc[t] = "search" /\ object[b] # obj[t]
      /\ firstUnused' = IF firstUnused[t] = NoData /\ threadCount[b] = 0
                        THEN [firstUnused EXCEPT ![t] = b] ELSE firstUnused
      /\ p' = [p EXCEPT ![t] = NextData(s, b)]
      /\ pc' = pc /\ object' = object /\ threadCount' = threadCount /\ owner' = owner
      /\ depth' = depth /\ listLock' = listLock
      /\ fast' = fast /\ lockCount' = lockCount /\ allocated' = allocated /\ op' = op
      /\ obj' = obj /\ result' = result /\ unpaired' = unpaired
  BY <1>1, <1>2 DEF SearchOther, Unused, shared, cache
<1>n. /\ NextData(s, b) \in Datas \cup {NoData} /\ NextData(s, b) \in List(s) \cup {NoData}
      /\ \A d \in List(s) : d < b => d <= NextData(s, b)
  BY NextOne DEF Datas
<1>t. Types /\ Types'
  <2>1. Types
    BY DEF IInv
  <2>2. SharedTypes' /\ CacheTypes'
    BY <1>e, <2>1 DEF Types, SharedTypes, CacheTypes
  <2>3. LocalTypes'
    BY <1>e, <1>n, <2>1 DEF Types, LocalTypes
  <2> QED
    BY <2>1, <2>2, <2>3 DEF Types
<1>l. p'[t] = NextData(s, b) /\ Control(t) /\ Walk(t) /\ Room(t)
  BY <1>e, <1>t DEF Types, LocalTypes, IInv, Thread
<1>3. \A u \in Threads \ {t} : Same(u) /\ Harmless(u)
  <2>1. ASSUME NEW u \in Threads \ {t}
        PROVE  Same(u)
    BY <1>e, <1>t DEF Types, LocalTypes, Same
  <2> QED
    BY <1>e, <2>1, StillHarmless
<1>4. Thread(t)'
  <2>1. Cached(t, obj[t])' = Cached(t, obj[t])
    BY <1>e DEF Cached
  <2>2. Control(t)'
    BY <1>e, <1>l, <2>1 DEF Control
  <2>3. Walk(t)'
    <3>1. List(Stripe[obj[t]])' = List(s)
      BY <1>1, <1>e DEF List
    <3>2. b \in List(s)
      BY <1>1, <1>2, <1>e, <1>l DEF Walk, Datas, NoData
    <3>3. \A d \in List(s) : d > NextData(s, b) => object[d] # obj[t]
      <4>1. \A d \in List(s) : d > b => object[d] # obj[t]
        BY <1>1, <1>2, <1>e, <1>l DEF Walk
      <4>2. \A d \in List(s) : d > NextData(s, b) => d = b \/ d > b
        BY <1>n DEF List, Datas, NoData
      <4> QED
        BY <1>e, <4>1, <4>2
    <3>4. \A x \in Stripes : listLock'[x] = t <=> x = Stripe[obj[t]]
      BY <1>e, <1>l DEF Walk
    <3>5. firstUnused'[t] # NoData => firstUnused'[t] \in List(s)
                                      /\ threadCount[firstUnused'[t]] = 0
      <4>1. firstUnused[t] # NoData => firstUnused[t] \in List(s)
                                       /\ threadCount[firstUnused[t]] = 0
        BY <1>1, <1>e, <1>l DEF Walk
      <4> QED
        BY <1>e, <1>t, <3>2, <4>1 DEF Types, LocalTypes
    <3> QED
      BY <1>e, <1>l, <1>n, <3>1, <3>3, <3>4, <3>5 DEF Walk, Stripes
  <2>4. Items(t)' = Items(t)
    BY <1>e DEF Items
  <2>5. Room(t)'
    BY <1>e, <1>l, <2>4 DEF Room, Used
  <2> QED
    BY <2>2, <2>3, <2>5 DEF Thread
<1>5. OneDataPerObject'
  BY <1>e DEF IInv, OneDataPerObject
<1>6. Counted'
  <2>1. \A c \in Datas : Using(c)' = Using(c)
    BY <1>e DEF Using, Arriving
  <2>2. Pending' \subseteq Pending
    BY <1>e DEF Pending
  <2> QED
    BY <1>e, <2>1, <2>2, CountedKeeps
<1>7. Mutexes'
  <2>1. ASSUME NEW c \in Datas
        PROVE  lockCount'[t][c] + Leaving(t, c)' + Waiting(t, c)
                 = lockCount[t][c] + Leaving(t, c) + Waiting(t, c)'
    BY <1>e, <1>l DEF Leaving, Waiting
  <2> QED
    BY <1>e, <1>t, <1>3, <2>1, MutexesKeep
<1> QED
  BY <1>t, <1>3, <1>4, <1>5, <1>6, <1>7, AllKeep DEF IInv

\* What a thread does to one SyncData of the list it has locked, or to one that was never
\* bound, is harmless to the others, unless it binds one in use.
LEMMA HarmlessInList ==
  ASSUME IInv, NEW t \in Threads, NEW u \in Threads \ {t}, NEW s \in Stripes, listLock[s] = t,
         NEW d \in Datas, object[d] = NoObj \/ d \in List(s), listLock' = listLock,
         \/ object'[d] = object[d]
         \/ threadCount[d] = 0 /\ object'[d] \in Objs /\ Stripe[object'[d]] = s,
         \A c \in Datas \ {d} : object'[c] = object[c] /\ threadCount'[c] = threadCount[c],
         object[d] = NoObj => object'[d] # NoObj
  PROVE  Harmless(u)
<1>1. \A c \in Datas : u \in Using(c) => object'[c] = object[c]
  <2> SUFFICES ASSUME u \in Using(d)
               PROVE  object'[d] = object[d]
    OBVIOUS
  <2> QED
    BY InUse
<1>2. ASSUME NEW x \in Stripes, listLock[x] = u
      PROVE  /\ List(x)' = List(x)
             /\ \A c \in List(x) : /\ object'[c] = object[c]
                                   /\ threadCount[c] = 0 => threadCount'[c] = 0
  <2>1. x # s
    BY <1>2
  <2>2. d \notin List(x) /\ ~(object'[d] # NoObj /\ Stripe[object'[d]] = x)
    BY <2>1 DEF List
  <2>3. List(x)' = {c \in Datas : object'[c] # NoObj /\ Stripe[object'[c]] = x}
    BY DEF List
  <2> QED
    BY <2>2, <2>3 DEF List
<1> QED
  BY <1>1, <1>2 DEF Harmless

\* SearchFound keeps the invariant: an enter arrives, and an unpaired exit is counted.
LEMMA SearchFoundKeeps ==
  ASSUME IInv, NEW t \in Threads, SearchFound(t)
  PROVE  IInv' /\ \A u \in Threads \ {t} : Same(u) /\ Harmless(u)
<1>1. PICK s \in Stripes : s = Stripe[obj[t]] /\ listLock[s] = t
  BY ListOwner DEF SearchFound
<1>2. PICK d \in Datas : d = p[t]
  BY DEF SearchFound, IInv, Types, LocalTypes
<1>e. /\ pc[t] = "search" /\ object[d] = obj[t] /\ result' = [result EXCEPT ![t] = d]
      /\ threadCount' = [threadCount EXCEPT ![d] = @ + 1]
      /\ pc' = [pc EXCEPT ![t] = "listUnlock"] /\ p' = [p EXCEPT ![t] = NoData]
      /\ firstUnused' = [firstUnused EXCEPT ![t] = NoData]
      /\ object' = object /\ owner' = owner /\ depth' = depth /\ listLock' = listLock
      /\ fast' = fast /\ lockCount' = lockCount /\ allocated' = allocated /\ op' = op
      /\ obj' = obj /\ unpaired' = unpaired
  BY <1>2 DEF SearchFound, Goto, WalkDone, cache
<1>t. Types /\ Types'
  <2>1. Types
    BY DEF IInv
  <2>2. SharedTypes' /\ CacheTypes'
    BY <1>e, <2>1 DEF Types, SharedTypes, CacheTypes
  <2>3. LocalTypes'
    BY <1>e, <2>1 DEF Types, LocalTypes, Labels
  <2> QED
    BY <2>1, <2>2, <2>3 DEF Types
<1>l. /\ pc'[t] = "listUnlock" /\ p'[t] = NoData /\ firstUnused'[t] = NoData /\ result'[t] = d
      /\ threadCount'[d] = threadCount[d] + 1 /\ threadCount[d] \in Nat
      /\ \A c \in Datas \ {d} : threadCount'[c] = threadCount[c]
      /\ Control(t) /\ Walk(t) /\ Room(t)
  BY <1>e, <1>t DEF Types, SharedTypes, LocalTypes, IInv, Thread
<1>o. object[d] \in Objs /\ d \in List(s)
  BY <1>1, <1>e, <1>l, SyncAssumption DEF Control, List
<1>c. Cached(t, obj[t]) = {} /\ lockCount[t][d] = 0
  BY <1>e, <1>l, <1>t DEF Control, Cached, Types, CacheTypes
<1>3. \A u \in Threads \ {t} : Same(u) /\ Harmless(u)
  <2>1. ASSUME NEW u \in Threads \ {t}
        PROVE  Same(u)
    BY <1>e, <1>t DEF Types, LocalTypes, Same
  <2>2. ASSUME NEW u \in Threads \ {t}
        PROVE  Harmless(u)
    BY <1>1, <1>e, <1>l, <1>o, HarmlessInList, SyncAssumption
  <2> QED
    BY <2>1, <2>2
<1>4. Thread(t)'
  <2>1. Cached(t, obj[t])' = Cached(t, obj[t])
    BY <1>e DEF Cached
  <2>2. Control(t)'
    BY <1>e, <1>l, <1>c, <2>1 DEF Control
  <2>3. Walk(t)'
    BY <1>e, <1>l DEF Walk, Stripes
  <2>4. Items(t)' = Items(t)
    BY <1>e DEF Items
  <2>5. Room(t)'
    BY <1>e, <1>l, <2>4 DEF Room, Used
  <2> QED
    BY <2>2, <2>3, <2>5 DEF Thread
<1>5. OneDataPerObject'
  BY <1>e DEF IInv, OneDataPerObject
<1>6. Counted'
  <2> SUFFICES ASSUME NEW c \in Datas
               PROVE  /\ Cardinality(Using(c)') <= threadCount'[c]
                      /\ threadCount'[c] + Cardinality(Pending')
                           <= Cardinality(Using(c)') + unpaired
                      /\ object[c] = NoObj => threadCount'[c] = 0
    BY <1>e DEF Counted
  <2>1. \A u \in Threads \ {t} : (u \in Using(c))' <=> u \in Using(c)
    BY <1>3 DEF Using, Arriving, Same
  <2>2. /\ t \in Using(c) <=> lockCount[t][c] > 0
        /\ (t \in Using(c))' <=> lockCount[t][c] > 0 \/ (op[t] = "enter" /\ c = d)
    BY <1>e, <1>l DEF Using, Arriving
  <2>3. /\ Cardinality(Using(c)) \in Nat /\ Cardinality(Using(c)') \in Nat
        /\ Cardinality(Pending) \in Nat /\ Cardinality(Pending') \in Nat
    BY UsingFinite
  <2>4. /\ Cardinality(Using(c)) <= threadCount[c]
        /\ threadCount[c] + Cardinality(Pending) <= Cardinality(Using(c)) + unpaired
        /\ object[c] = NoObj => threadCount[c] = 0
    BY DEF IInv, Counted
  <2>5. threadCount[c] \in Nat /\ unpaired \in Nat
    BY <1>t DEF Types, SharedTypes
  <2>6. Pending' = Pending \ {t} /\ (t \in Pending <=> op[t] = "exit")
    <3>1. \A u \in Threads \ {t} : (u \in Pending)' <=> u \in Pending
      BY <1>3 DEF Pending, Same
    <3>2. ~(t \in Pending)' /\ (t \in Pending <=> op[t] = "exit")
      BY <1>e, <1>l DEF Pending
    <3> QED
      BY <3>1, <3>2 DEF Pending
  <2>7. Cardinality(Pending') + (IF op[t] = "exit" THEN 1 ELSE 0) <= Cardinality(Pending)
    BY <2>6, UsingFinite, SizeStep, SyncAssumption
  <2>8. CASE c # d
    <3>1. Using(c)' = Using(c)
      BY <2>1, <2>2, <2>8 DEF Using, Arriving
    <3>2. threadCount'[c] = threadCount[c]
      BY <1>l, <2>8
    <3>3. Cardinality(Using(c)') = Cardinality(Using(c))
      BY <3>1
    <3> QED
      BY <2>3, <2>4, <2>5, <2>7, <3>2, <3>3
  <2>9. CASE c = d
    <3>0. threadCount'[c] = threadCount[c] + 1 /\ object[c] # NoObj
      BY <1>l, <1>o, <2>9, SyncAssumption
    <3>1. CASE op[t] = "enter"
      <4>1. Using(c)' = Using(c) \cup {t} /\ t \notin Using(c)
        BY <1>c, <2>1, <2>2, <2>9, <3>1 DEF Using, Arriving
      <4>2. Cardinality(Using(c)') = Cardinality(Using(c)) + 1
        <5>1. IsFiniteSet(Using(c))
          BY UsingFinite, FS_Subset, SyncAssumption
        <5> QED
          BY <4>1, <5>1, FS_AddElement
      <4> QED
        BY <2>3, <2>4, <2>5, <2>7, <3>0, <3>1, <4>2
    <3>2. CASE op[t] # "enter"
      <4>1. Using(c)' = Using(c)
        BY <1>c, <2>1, <2>2, <2>9, <3>2 DEF Using, Arriving
      <4>2. op[t] = "exit"
        BY <1>e, <1>l, <1>t, <3>2 DEF Control, Types, LocalTypes, Ops
      <4>3. Cardinality(Using(c)') = Cardinality(Using(c))
        BY <4>1
      <4> QED
        BY <2>3, <2>4, <2>5, <2>7, <3>0, <4>2, <4>3
    <3> QED
      BY <3>1, <3>2
  <2> QED
    BY <2>8, <2>9
<1>7. Mutexes'
  <2>1. ASSUME NEW c \in Datas
        PROVE  lockCount'[t][c] + Leaving(t, c)' + Waiting(t, c)
                 = lockCount[t][c] + Leaving(t, c) + Waiting(t, c)'
    BY <1>e, <1>l DEF Leaving, Waiting
  <2> QED
    BY <1>e, <1>t, <1>3, <2>1, MutexesKeep
<1> QED
  BY <1>t, <1>3, <1>4, <1>5, <1>6, <1>7, AllKeep DEF IInv

\* SearchFails keeps the invariant.
LEMMA SearchFailsKeeps ==
  ASSUME IInv, NEW t \in Threads, SearchFails(t)
  PROVE  IInv' /\ \A u \in Threads \ {t} : Same(u) /\ Harmless(u)
<1>e. /\ pc[t] = "search" /\ op[t] = "exit"
      /\ pc' = [pc EXCEPT ![t] = "listUnlock"] /\ p' = [p EXCEPT ![t] = NoData]
      /\ firstUnused' = [firstUnused EXCEPT ![t] = NoData]
      /\ object' = object /\ threadCount' = threadCount /\ owner' = owner /\ depth' = depth
      /\ listLock' = listLock /\ fast' = fast /\ lockCount' = lockCount
      /\ allocated' = allocated /\ op' = op /\ obj' = obj /\ result' = result
      /\ unpaired' = unpaired
  BY DEF SearchFails, Goto, WalkDone, cache, shared
<1>t. Types /\ Types'
  <2>1. Types
    BY DEF IInv
  <2>2. SharedTypes' /\ CacheTypes'
    BY <1>e, <2>1 DEF Types, SharedTypes, CacheTypes
  <2>3. LocalTypes'
    BY <1>e, <2>1 DEF Types, LocalTypes, Labels
  <2> QED
    BY <2>1, <2>2, <2>3 DEF Types
<1>l. /\ pc'[t] = "listUnlock" /\ p'[t] = NoData /\ firstUnused'[t] = NoData
      /\ Control(t) /\ Walk(t) /\ Room(t)
  BY <1>e, <1>t DEF Types, LocalTypes, IInv, Thread
<1>3. \A u \in Threads \ {t} : Same(u) /\ Harmless(u)
  <2>1. ASSUME NEW u \in Threads \ {t}
        PROVE  Same(u)
    BY <1>e, <1>t DEF Types, LocalTypes, Same
  <2> QED
    BY <1>e, <2>1, StillHarmless
<1>4. Thread(t)'
  <2>1. Control(t)'
    BY <1>e, <1>l DEF Control
  <2>2. Walk(t)'
    BY <1>e, <1>l DEF Walk, Stripes
  <2>3. Items(t)' = Items(t)
    BY <1>e DEF Items
  <2>4. Room(t)'
    BY <1>e, <1>l, <2>3 DEF Room, Used
  <2> QED
    BY <2>1, <2>2, <2>4 DEF Thread
<1>5. OneDataPerObject'
  BY <1>e DEF IInv, OneDataPerObject
<1>6. Counted'
  <2>1. \A c \in Datas : Using(c)' = Using(c)
    <3> SUFFICES ASSUME NEW c \in Datas, NEW u \in Threads
                 PROVE  (u \in Using(c))' <=> u \in Using(c)
      BY DEF Using, Arriving
    <3> QED
      BY <1>3, <1>e, <1>l DEF Using, Arriving, Same
  <2>2. Pending' \subseteq Pending
    BY <1>e, <1>l, <1>3 DEF Pending, Same
  <2> QED
    BY <1>e, <2>1, <2>2, CountedKeeps
<1>7. Mutexes'
  <2>1. ASSUME NEW c \in Datas
        PROVE  lockCount'[t][c] + Leaving(t, c)' + Waiting(t, c)
                 = lockCount[t][c] + Leaving(t, c) + Waiting(t, c)'
    BY <1>e, <1>l DEF Leaving, Waiting
  <2> QED
    BY <1>e, <1>t, <1>3, <2>1, MutexesKeep
<1> QED
  BY <1>t, <1>3, <1>4, <1>5, <1>6, <1>7, AllKeep DEF IInv

\* Bind keeps the invariant: the thread has seen the whole list, so no SyncData is bound
\* to its object, and nobody uses the one it binds.
LEMMA BindKeeps ==
  ASSUME IInv, NEW t \in Threads, NEW d \in Datas, pc[t] = "search", SearchedAll(t),
         op[t] = "enter", threadCount[d] = 0,
         object[d] = NoObj \/ d \in List(Stripe[obj[t]]), Bind(t, d)
  PROVE  IInv' /\ \A u \in Threads \ {t} : Same(u) /\ Harmless(u)
<1>1. PICK s \in Stripes : s = Stripe[obj[t]] /\ listLock[s] = t
  BY ListOwner
<1>2. PICK o \in Objs : o = obj[t]
  BY DEF IInv, Thread, Control
<1>e. /\ object' = [object EXCEPT ![d] = o] /\ threadCount' = [threadCount EXCEPT ![d] = 1]
      /\ result' = [result EXCEPT ![t] = d]
      /\ pc' = [pc EXCEPT ![t] = "listUnlock"] /\ p' = [p EXCEPT ![t] = NoData]
      /\ firstUnused' = [firstUnused EXCEPT ![t] = NoData]
      /\ owner' = owner /\ depth' = depth /\ listLock' = listLock
      /\ fast' = fast /\ lockCount' = lockCount /\ allocated' = allocated /\ op' = op
      /\ obj' = obj /\ unpaired' = unpaired
  BY <1>2 DEF Bind, Goto, WalkDone, cache
<1>t. Types /\ Types'
  <2>1. Types
    BY DEF IInv
  <2>2. SharedTypes' /\ CacheTypes'
    BY <1>e, <2>1 DEF Types, SharedTypes, CacheTypes
  <2>3. LocalTypes'
    BY <1>e, <2>1 DEF Types, LocalTypes, Labels
  <2> QED
    BY <2>1, <2>2, <2>3 DEF Types
<1>l. /\ pc'[t] = "listUnlock" /\ p'[t] = NoData /\ firstUnused'[t] = NoData /\ result'[t] = d
      /\ threadCount'[d] = 1 /\ object'[d] = o
      /\ \A c \in Datas \ {d} : object'[c] = object[c] /\ threadCount'[c] = threadCount[c]
      /\ Control(t) /\ Walk(t) /\ Room(t)
  BY <1>e, <1>t DEF Types, SharedTypes, LocalTypes, IInv, Thread
<1>u. \A u \in Threads : u \notin Using(d)
  BY InUse
<1>n. \A c \in Datas : object[c] # o
  <2>1. \A c \in List(s) : object[c] # o
    <3>1. \A c \in List(s) : c > 0
      BY SyncAssumption DEF List, Datas
    <3> QED
      BY <1>1, <1>2, <1>l, <3>1 DEF Walk, SearchedAll, NoData
  <2> QED
    BY <1>1, <1>2, <2>1, SyncAssumption DEF List
<1>3. \A u \in Threads \ {t} : Same(u) /\ Harmless(u)
  <2>1. ASSUME NEW u \in Threads \ {t}
        PROVE  Same(u)
    BY <1>e, <1>t DEF Types, LocalTypes, Same
  <2>2. ASSUME NEW u \in Threads \ {t}
        PROVE  Harmless(u)
    BY <1>1, <1>2, <1>e, <1>l, HarmlessInList, SyncAssumption
  <2> QED
    BY <2>1, <2>2
<1>c. lockCount[t][d] = 0 /\ \A c \in Datas : lockCount[t][c] > 0 => object'[c] # o
  <2>1. lockCount[t][d] = 0
    BY <1>u, <1>t DEF Using, Types, CacheTypes
  <2> QED
    BY <1>l, <1>n, <2>1
<1>4. Thread(t)'
  <2>1. Cached(t, obj[t])' = {}
    BY <1>2, <1>e, <1>c DEF Cached
  <2>2. Control(t)'
    BY <1>2, <1>e, <1>l, <1>c, <2>1 DEF Control
  <2>3. Walk(t)'
    BY <1>e, <1>l DEF Walk, Stripes
  <2>4. Items(t)' = Items(t)
    BY <1>e DEF Items
  <2>5. Room(t)'
    BY <1>e, <1>l, <2>4 DEF Room, Used
  <2> QED
    BY <2>2, <2>3, <2>5 DEF Thread
<1>5. OneDataPerObject'
  BY <1>l, <1>n DEF IInv, OneDataPerObject
<1>6. Counted'
  <2> SUFFICES ASSUME NEW c \in Datas
               PROVE  /\ Cardinality(Using(c)') <= threadCount'[c]
                      /\ threadCount'[c] + Cardinality(Pending')
                           <= Cardinality(Using(c)') + unpaired
                      /\ object'[c] = NoObj => threadCount'[c] = 0
    BY <1>e DEF Counted
  <2>1. \A u \in Threads \ {t} : (u \in Using(c))' <=> u \in Using(c)
    BY <1>3 DEF Using, Arriving, Same
  <2>2. /\ t \in Using(c) <=> lockCount[t][c] > 0
        /\ (t \in Using(c))' <=> lockCount[t][c] > 0 \/ c = d
    BY <1>e, <1>l DEF Using, Arriving
  <2>3. /\ Cardinality(Using(c)) \in Nat /\ Cardinality(Using(c)') \in Nat
        /\ Cardinality(Pending) \in Nat /\ Cardinality(Pending') \in Nat
    BY UsingFinite
  <2>4. /\ Cardinality(Using(c)) <= threadCount[c]
        /\ threadCount[c] + Cardinality(Pending) <= Cardinality(Using(c)) + unpaired
        /\ object[c] = NoObj => threadCount[c] = 0
    BY DEF IInv, Counted
  <2>5. threadCount[c] \in Nat /\ unpaired \in Nat
    BY <1>t DEF Types, SharedTypes
  <2>6. Cardinality(Pending') <= Cardinality(Pending)
    <3>1. Pending' \subseteq Pending
      BY <1>e, <1>l, <1>3 DEF Pending, Same
    <3> QED
      BY <3>1, UsingFinite
  <2>7. CASE c # d
    <3>1. Using(c)' = Using(c)
      BY <2>1, <2>2, <2>7 DEF Using, Arriving
    <3>2. threadCount'[c] = threadCount[c] /\ object'[c] = object[c]
      BY <1>l, <2>7
    <3>3. Cardinality(Using(c)') = Cardinality(Using(c))
      BY <3>1
    <3> QED
      BY <2>3, <2>4, <2>5, <2>6, <3>2, <3>3
  <2>8. CASE c = d
    <3>1. Using(c)' = {t} /\ Using(c) = {}
      BY <1>u, <2>1, <2>2, <2>8 DEF Using, Arriving
    <3>2. Cardinality(Using(c)') = 1 /\ Cardinality(Using(c)) = 0
      BY <3>1, FS_Singleton, FS_EmptySet
    <3>3. threadCount'[c] = 1 /\ threadCount[c] = 0 /\ object'[c] # NoObj
      BY <1>l, <2>8, SyncAssumption
    <3> QED
      BY <2>3, <2>4, <2>5, <2>6, <3>2, <3>3
  <2> QED
    BY <2>7, <2>8
<1>7. Mutexes'
  <2>1. ASSUME NEW c \in Datas
        PROVE  lockCount'[t][c] + Leaving(t, c)' + Waiting(t, c)
                 = lockCount[t][c] + Leaving(t, c) + Waiting(t, c)'
    BY <1>e, <1>l DEF Leaving, Waiting
  <2> QED
    BY <1>e, <1>t, <1>3, <2>1, MutexesKeep
<1> QED
  BY <1>t, <1>3, <1>4, <1>5, <1>6, <1>7, AllKeep DEF IInv

\* SearchReuse and SearchAllocate keep the invariant.
LEMMA SearchBindKeeps ==
  ASSUME IInv, NEW t \in Threads, SearchReuse(t) \/ SearchAllocate(t)
  PROVE  IInv' /\ \A u \in Threads \ {t} : Same(u) /\ Harmless(u)
<1>1. CASE SearchReuse(t)
  <2>1. /\ firstUnused[t] \in List(Stripe[obj[t]]) /\ threadCount[firstUnused[t]] = 0
        /\ firstUnused[t] \in Datas
    BY <1>1 DEF SearchReuse, IInv, Thread, Walk, List
  <2> QED
    BY <1>1, <2>1, BindKeeps DEF SearchReuse
<1>2. CASE SearchAllocate(t)
  <2>1. PICK d \in Datas : object[d] = NoObj /\ Bind(t, d)
    BY <1>2 DEF SearchAllocate
  <2>2. threadCount[d] = 0
    BY <2>1 DEF IInv, Counted
  <2> QED
    BY <1>2, <2>1, <2>2, BindKeeps DEF SearchAllocate
<1> QED
  BY <1>1, <1>2

\* ListUnlock keeps the invariant: what arrived is cached, where there is room for it.
LEMMA ListUnlockKeeps ==
  ASSUME IInv, NEW t \in Threads, ListUnlock(t)
  PROVE  IInv' /\ \A u \in Threads \ {t} : Same(u) /\ Harmless(u)
<1>1. PICK s \in Stripes : s = Stripe[obj[t]] /\ listLock[s] = t
  BY ListOwner DEF ListUnlock
<1>e. /\ pc[t] = "listUnlock" /\ listLock' = [listLock EXCEPT ![s] = NoThread]
      /\ object' = object /\ threadCount' = threadCount /\ owner' = owner /\ depth' = depth
      /\ p' = p /\ firstUnused' = firstUnused /\ unpaired' = unpaired
  BY <1>1 DEF ListUnlock, shared, walk
<1>l. /\ listLock'[s] = NoThread /\ \A x \in Stripes \ {s} : listLock'[x] = listLock[x]
      /\ Control(t) /\ Walk(t) /\ Room(t) /\ Types
      /\ t # NoThread
  BY <1>e, SyncAssumption DEF IInv, Types, SharedTypes, Thread
<1>m. \A u \in Threads : listLock'[s] # u
  BY <1>l, SyncAssumption
<1>o. \A x \in Stripes : listLock'[x] # t
  BY <1>1, <1>e, <1>l, <1>m DEF Walk
<1>h. \A u \in Threads \ {t} : Harmless(u)
  <2> SUFFICES ASSUME NEW u \in Threads \ {t}
               PROVE  Harmless(u)
    OBVIOUS
  <2>1. \A x \in Stripes : List(x)' = List(x)
    BY <1>e DEF List
  <2>2. \A x \in Stripes : listLock'[x] = u <=> listLock[x] = u
    BY <1>1, <1>l, <1>m
  <2> QED
    BY <1>e, <2>1, <2>2 DEF Harmless
<1>5. OneDataPerObject'
  BY <1>e DEF IInv, OneDataPerObject
<1>2. CASE op[t] = "exit"
  <2>e. /\ pc' = [pc EXCEPT ![t] = "idle"] /\ op' = [op EXCEPT ![t] = "none"]
        /\ obj' = [obj EXCEPT ![t] = NoObj] /\ result' = [result EXCEPT ![t] = NoData]
        /\ fast' = fast /\ lockCount' = lockCount /\ allocated' = allocated
    BY <1>2 DEF ListUnlock, Return, Goto, cache
  <2>t. Types'
    <3>1. SharedTypes' /\ CacheTypes'
      BY <1>e, <1>l, <2>e DEF Types, SharedTypes, CacheTypes
    <3>2. LocalTypes'
      BY <1>e, <1>l, <2>e DEF Types, LocalTypes, Labels, Ops
    <3> QED
      BY <3>1, <3>2 DEF Types
  <2>l. pc'[t] = "idle" /\ op'[t] = "none"
    BY <1>l, <2>e DEF Types, LocalTypes
  <2>1. \A u \in Threads \ {t} : Same(u) /\ Harmless(u)
    BY <1>e, <1>l, <1>h, <2>e DEF Types, LocalTypes, Same
  <2>2. Thread(t)'
    <3>1. Control(t)'
      BY <2>l DEF Control
    <3>2. Walk(t)'
      BY <1>e, <1>l, <1>o, <2>l DEF Walk, Stripes
    <3>3. Items(t)' = Items(t)
      BY <2>e DEF Items
    <3>4. Room(t)'
      BY <1>l, <2>e, <2>l, <3>3 DEF Room, Used
    <3> QED
      BY <3>1, <3>2, <3>4 DEF Thread
  <2>3. Counted'
    <3>1. \A c \in Datas : Using(c)' = Using(c)
      <4> SUFFICES ASSUME NEW c \in Datas, NEW u \in Threads
                   PROVE  (u \in Using(c))' <=> u \in Using(c)
        BY DEF Using, Arriving
      <4> QED
        BY <1>2, <2>1, <2>e, <2>l DEF Using, Arriving, Same
    <3>2. Pending' \subseteq Pending
      BY <2>l, <2>1 DEF Pending, Same
    <3> QED
      BY <1>e, <3>1, <3>2, CountedKeeps
  <2>4. Mutexes'
    <3>1. ASSUME NEW c \in Datas
          PROVE  lockCount'[t][c] + Leaving(t, c)' + Waiting(t, c)
                   = lockCount[t][c] + Leaving(t, c) + Waiting(t, c)'
      BY <1>e, <2>e, <2>l DEF Leaving, Waiting
    <3> QED
      BY <1>e, <2>t, <2>1, <3>1, MutexesKeep
  <2> QED
    BY <1>5, <2>t, <2>1, <2>2, <2>3, <2>4, AllKeep DEF IInv
<1>3. CASE op[t] # "exit"
  <2>1. PICK d \in Datas : d = result[t] /\ object[d] = obj[t] /\ lockCount[t][d] = 0
    BY <1>e, <1>l, <1>3 DEF Control, Types, LocalTypes, Ops
  <2>2. op[t] = "enter"
    BY <1>e, <1>l, <1>3 DEF Control, Types, LocalTypes, Ops
  <2>e. /\ lockCount' = [lockCount EXCEPT ![t][d] = 1]
        /\ IF fast[t] = NoData
           THEN fast' = [fast EXCEPT ![t] = d] /\ allocated' = allocated
           ELSE /\ allocated' = IF allocated[t] = 0
                                THEN [allocated EXCEPT ![t] = FirstAllocated]
                                ELSE allocated
                /\ fast' = fast
        /\ pc' = [pc EXCEPT ![t] = "mutexLock"] /\ op' = op /\ obj' = obj /\ result' = result
    BY <1>3, <2>1 DEF ListUnlock, Goto
  <2>c. /\ lockCount'[t][d] = 1
        /\ \A c \in Datas \ {d} : lockCount'[t][c] = lockCount[t][c]
        /\ \A u \in Threads \ {t} : lockCount'[u] = lockCount[u]
        /\ \A u \in Threads, c \in Datas : lockCount'[u][c] \in Nat /\ lockCount[u][c] \in Nat
        /\ lockCount' \in [Threads -> [Datas -> Nat]]
    BY <2>e, SetCount
  <2>t. Types'
    <3>1. SharedTypes'
      BY <1>e, <1>l DEF Types, SharedTypes
    <3>2. CacheTypes'
      <4>1. fast' \in [Threads -> Datas \cup {NoData}]
        BY <1>l, <2>e DEF Types, CacheTypes
      <4>2. allocated' \in [Threads -> Nat]
        BY <1>l, <2>e, SyncAssumption DEF Types, CacheTypes
      <4> QED
        BY <2>c, <4>1, <4>2 DEF CacheTypes
    <3>3. LocalTypes'
      BY <1>e, <1>l, <2>e DEF Types, LocalTypes, Labels, Ops
    <3> QED
      BY <3>1, <3>2, <3>3 DEF Types
  <2>l. pc'[t] = "mutexLock"
    BY <1>l, <2>e DEF Types, LocalTypes
  <2>3. \A u \in Threads \ {t} : Same(u) /\ Harmless(u)
    <3>1. \A u \in Threads \ {t} : fast'[u] = fast[u] /\ allocated'[u] = allocated[u]
      BY <1>l, <2>e DEF Types, CacheTypes
    <3> QED
      BY <1>e, <1>l, <1>h, <2>c, <2>e, <3>1 DEF Types, LocalTypes, Same
  <2>4. Thread(t)'
    <3>1. Control(t)'
      BY <1>e, <1>l, <2>1, <2>2, <2>c, <2>e, <2>l DEF Control
    <3>2. Walk(t)'
      BY <1>e, <1>l, <1>o, <2>l DEF Walk, Stripes
    <3>3. Room(t)'
      <4>1. \A c \in Datas : lockCount'[t][c] > 0 <=> lockCount[t][c] > 0 \/ c = d
        BY <2>1, <2>c
      <4>2. CASE fast[t] = NoData
        <5>1. fast'[t] = d /\ allocated'[t] = allocated[t]
          BY <1>l, <2>e, <4>2 DEF Types, CacheTypes
        <5>2. \A c \in Datas : c # NoData
          BY SyncAssumption DEF Datas, NoData
        <5>3. Items(t)' = Items(t)
          BY <2>1, <4>1, <4>2, <5>1, <5>2 DEF Items
        <5> QED
          BY <1>l, <2>l, <5>1, <5>3 DEF Room, Used
      <4>3. CASE fast[t] # NoData
        <5>1. /\ fast'[t] = fast[t]
              /\ allocated'[t] = IF allocated[t] = 0 THEN FirstAllocated ELSE allocated[t]
              /\ allocated[t] \in Nat
          BY <1>l, <2>e, <4>3 DEF Types, CacheTypes
        <5>2. Items(t)' \subseteq Items(t) \cup {d}
          BY <4>1, <5>1 DEF Items
        <5>3. Used(t)' <= Used(t) + 1 /\ Used(t) \in Nat /\ Used(t)' \in Nat
          <6>1. /\ IsFiniteSet(Items(t) \cup {d})
                /\ Cardinality(Items(t) \cup {d}) = IF d \in Items(t) THEN Used(t) ELSE Used(t) + 1
            BY ItemsFinite, FS_AddElement DEF Used
          <6>2. Used(t)' <= Cardinality(Items(t) \cup {d})
            BY <5>2, <6>1, FS_Subset DEF Used
          <6> QED
            BY <6>1, <6>2, ItemsFinite
        <5>4. Used(t) <= allocated[t] /\ (allocated[t] # 0 => Used(t) < allocated[t])
          BY <1>e, <1>l DEF Room
        <5>5. Used(t)' <= allocated'[t]
          BY <5>1, <5>3, <5>4, SyncAssumption
        <5> QED
          BY <2>l, <5>5 DEF Room
      <4> QED
        BY <4>2, <4>3
    <3> QED
      BY <3>1, <3>2, <3>3 DEF Thread
  <2>5. Counted'
    <3>1. \A c \in Datas : Using(c)' = Using(c)
      <4> SUFFICES ASSUME NEW c \in Datas, NEW u \in Threads
                   PROVE  (u \in Using(c))' <=> u \in Using(c)
        BY DEF Using, Arriving
      <4>1. CASE u # t
        BY <2>3, <4>1 DEF Using, Arriving, Same
      <4>2. CASE u = t
        BY <1>e, <2>1, <2>2, <2>c, <2>l, <4>2 DEF Using, Arriving
      <4> QED
        BY <4>1, <4>2
    <3>2. Pending' \subseteq Pending
      BY <2>l, <2>3 DEF Pending, Same
    <3> QED
      BY <1>e, <3>1, <3>2, CountedKeeps
  <2>6. Mutexes'
    <3>1. ASSUME NEW c \in Datas
          PROVE  lockCount'[t][c] + Leaving(t, c)' + Waiting(t, c)
                   = lockCount[t][c] + Leaving(t, c) + Waiting(t, c)'
      BY <1>e, <2>1, <2>c, <2>e, <2>l DEF Leaving, Waiting
    <3> QED
      BY <1>e, <2>t, <2>3, <3>1, MutexesKeep
  <2> QED
    BY <1>5, <2>t, <2>3, <2>4, <2>5, <2>6, AllKeep DEF IInv
<1> QED
  BY <1>2, <1>3

-----------------------------------------------------------------------------
(* The mutex                                                               *)

\* The mutex of a SyncData a thread locks or unlocks, when it counts for that thread.
LEMMA MutexesStep ==
  ASSUME IInv, Types', NEW t \in Threads, NEW d \in Datas,
         \A u \in Threads \ {t} : Same(u), lockCount' = lockCount,
         \A c \in Datas \ {d} : owner'[c] = owner[c] /\ depth'[c] = depth[c],
         \A c \in Datas \ {d} : /\ Waiting(t, c)' = Waiting(t, c)
                                /\ Leaving(t, c)' = Leaving(t, c),
         owner[d] \in {NoThread, t}, owner'[d] \in {NoThread, t},
         owner'[d] = NoThread => depth'[d] = 0, owner'[d] = t => depth'[d] > 0,
         lockCount[t][d] + Leaving(t, d)' = Locked(t, d)' + Waiting(t, d)'
  PROVE  Mutexes'
<1>1. ASSUME NEW c \in Datas, c # d
      PROVE  /\ owner'[c] = NoThread => depth'[c] = 0
             /\ owner'[c] # NoThread => depth'[c] > 0
             /\ \A u \in Threads :
                  lockCount'[u][c] + Leaving(u, c)' = Locked(u, c)' + Waiting(u, c)'
  <2>1. /\ owner[c] = NoThread => depth[c] = 0
        /\ owner[c] # NoThread => depth[c] > 0
        /\ \A u \in Threads : lockCount[u][c] + Leaving(u, c) = Locked(u, c) + Waiting(u, c)
    BY DEF IInv, Mutexes
  <2>2. \A u \in Threads : /\ Locked(u, c)' = Locked(u, c) /\ Leaving(u, c)' = Leaving(u, c)
                           /\ Waiting(u, c)' = Waiting(u, c)
    BY <1>1 DEF Locked, Leaving, Waiting, Same
  <2> QED
    BY <1>1, <2>1, <2>2
<1>2. ASSUME NEW u \in Threads
      PROVE  lockCount'[u][d] + Leaving(u, d)' = Locked(u, d)' + Waiting(u, d)'
  <2>1. CASE u = t
    BY <2>1
  <2>2. CASE u # t
    <3>1. Locked(u, d) = 0 /\ Locked(u, d)' = 0
      BY <2>2, SyncAssumption DEF Locked
    <3>2. Leaving(u, d)' = Leaving(u, d) /\ Waiting(u, d)' = Waiting(u, d)
      BY <2>2 DEF Leaving, Waiting, Same
    <3>3. lockCount[u][d] + Leaving(u, d) = Locked(u, d) + Waiting(u, d)
      BY DEF IInv, Mutexes
    <3> QED
      BY <3>1, <3>2, <3>3
  <2> QED
    BY <2>1, <2>2
<1>3. /\ owner'[d] = NoThread => depth'[d] = 0
      /\ owner'[d] # NoThread => depth'[d] > 0
  OBVIOUS
<1> QED
  BY <1>1, <1>2, <1>3 DEF Mutexes

\* The thread that returns from its call keeps the rest of the invariant.
LEMMA ReturnKeeps ==
  ASSUME IInv, NEW t \in Threads, pc[t] \in {"mutexLock", "mutexUnlock"}, Return(t),
         owner' \in [Datas -> Threads \cup {NoThread}], depth' \in [Datas -> Nat],
         UNCHANGED <<object, threadCount, listLock, cache, walk, unpaired>>
  PROVE  /\ Types' /\ OneDataPerObject' /\ Counted' /\ \A u \in Threads : Thread(u)'
         /\ \A u \in Threads \ {t} : Same(u) /\ Harmless(u)
         /\ pc'[t] = "idle" /\ lockCount' = lockCount
<1>e. /\ pc' = [pc EXCEPT ![t] = "idle"] /\ op' = [op EXCEPT ![t] = "none"]
      /\ obj' = [obj EXCEPT ![t] = NoObj] /\ result' = [result EXCEPT ![t] = NoData]
      /\ object' = object /\ threadCount' = threadCount /\ listLock' = listLock
      /\ fast' = fast /\ lockCount' = lockCount /\ allocated' = allocated
      /\ p' = p /\ firstUnused' = firstUnused /\ unpaired' = unpaired
  BY DEF Return, Goto, cache, walk
<1>t. Types /\ Types'
  <2>1. Types
    BY DEF IInv
  <2>2. SharedTypes' /\ CacheTypes'
    BY <1>e, <2>1 DEF Types, SharedTypes, CacheTypes
  <2>3. LocalTypes'
    BY <1>e, <2>1 DEF Types, LocalTypes, Labels, Ops
  <2> QED
    BY <2>1, <2>2, <2>3 DEF Types
<1>l. pc'[t] = "idle" /\ op'[t] = "none" /\ Walk(t) /\ Room(t)
  BY <1>e, <1>t DEF Types, LocalTypes, IInv, Thread
<1>1. \A u \in Threads \ {t} : Same(u) /\ Harmless(u)
  <2>1. ASSUME NEW u \in Threads \ {t}
        PROVE  Same(u)
    BY <1>e, <1>t DEF Types, LocalTypes, Same
  <2> QED
    BY <1>e, <2>1, StillHarmless
<1>2. Thread(t)'
  <2>1. Control(t)'
    BY <1>l DEF Control
  <2>2. Walk(t)'
    BY <1>e, <1>l DEF Walk, Stripes
  <2>3. Items(t)' = Items(t)
    BY <1>e DEF Items
  <2>4. Room(t)'
    BY <1>e, <1>l, <2>3 DEF Room, Used
  <2> QED
    BY <2>1, <2>2, <2>4 DEF Thread
<1>3. OneDataPerObject'
  BY <1>e DEF IInv, OneDataPerObject
<1>4. Counted'
  <2>1. \A c \in Datas : Using(c)' = Using(c)
    <3> SUFFICES ASSUME NEW c \in Datas, NEW u \in Threads
                 PROVE  (u \in Using(c))' <=> u \in Using(c)
      BY DEF Using, Arriving
    <3> QED
      BY <1>1, <1>e, <1>l DEF Using, Arriving, Same
  <2>2. Pending' \subseteq Pending
    BY <1>l, <1>1 DEF Pending, Same
  <2> QED
    BY <1>e, <2>1, <2>2, CountedKeeps
<1> QED
  BY <1>e, <1>t, <1>l, <1>1, <1>2, <1>3, <1>4, AllKeep

\* MutexLock keeps the invariant.
LEMMA MutexLockKeeps ==
  ASSUME IInv, NEW t \in Threads, MutexLock(t)
  PROVE  IInv' /\ \A u \in Threads \ {t} : Same(u) /\ Harmless(u)
<1>1. PICK d \in Datas : d = result[t]
  BY DEF MutexLock, IInv, Thread, Control
<1>e. /\ pc[t] = "mutexLock" /\ owner[d] \in {NoThread, t}
      /\ owner' = [owner EXCEPT ![d] = t] /\ depth' = [depth EXCEPT ![d] = @ + 1] /\ Return(t)
      /\ UNCHANGED <<object, threadCount, listLock, cache, walk, unpaired>>
  BY <1>1 DEF MutexLock
<1>t. /\ owner \in [Datas -> Threads \cup {NoThread}] /\ depth \in [Datas -> Nat]
      /\ lockCount[t][d] \in Nat
  BY DEF IInv, Types, SharedTypes, CacheTypes
<1>l. /\ owner'[d] = t /\ depth'[d] = depth[d] + 1
      /\ \A c \in Datas \ {d} : owner'[c] = owner[c] /\ depth'[c] = depth[c]
  BY <1>e, <1>t
<1>2. /\ Types' /\ OneDataPerObject' /\ Counted' /\ (\A u \in Threads : Thread(u)')
      /\ (\A u \in Threads \ {t} : Same(u) /\ Harmless(u))
      /\ pc'[t] = "idle" /\ lockCount' = lockCount
  <2>1. owner' \in [Datas -> Threads \cup {NoThread}] /\ depth' \in [Datas -> Nat]
    BY <1>e, <1>t
  <2> QED
    BY <1>e, <2>1, ReturnKeeps
<1>3. Mutexes'
  <2>1. \A c \in Datas : Waiting(t, c)' = 0 /\ Leaving(t, c)' = 0 /\ Leaving(t, c) = 0
                         /\ Waiting(t, c) = IF c = d THEN 1 ELSE 0
    BY <1>1, <1>e, <1>2 DEF Waiting, Leaving
  <2>2. /\ owner[d] = NoThread => depth[d] = 0
        /\ lockCount[t][d] + Leaving(t, d) = Locked(t, d) + Waiting(t, d)
    BY DEF IInv, Mutexes
  <2>3. t # NoThread
    BY SyncAssumption
  <2>4. Locked(t, d)' = depth[d] + 1 /\ Locked(t, d) = depth[d]
    BY <1>e, <1>l, <2>2, <2>3 DEF Locked
  <2>5. lockCount[t][d] + Leaving(t, d)' = Locked(t, d)' + Waiting(t, d)'
    BY <1>t, <2>1, <2>2, <2>4
  <2>6. depth'[d] > 0
    BY <1>l, <1>t
  <2> QED
    BY <1>e, <1>l, <1>2, <2>1, <2>3, <2>5, <2>6, MutexesStep
<1> QED
  BY <1>2, <1>3 DEF IInv

\* MutexUnlock keeps the invariant: the thread has locked the mutex.
LEMMA MutexUnlockKeeps ==
  ASSUME IInv, NEW t \in Threads, MutexUnlock(t)
  PROVE  IInv' /\ \A u \in Threads \ {t} : Same(u) /\ Harmless(u)
<1>1. PICK d \in Datas : d = result[t]
  BY DEF MutexUnlock, IInv, Thread, Control
<1>e. /\ pc[t] = "mutexUnlock" /\ Return(t)
      /\ UNCHANGED <<object, threadCount, listLock, cache, walk, unpaired>>
  BY DEF MutexUnlock
<1>t. /\ owner \in [Datas -> Threads \cup {NoThread}] /\ depth \in [Datas -> Nat]
      /\ lockCount[t][d] \in Nat /\ t # NoThread
  BY SyncAssumption DEF IInv, Types, SharedTypes, CacheTypes
<1>m. /\ owner[d] # NoThread => depth[d] > 0
      /\ lockCount[t][d] + Leaving(t, d) = Locked(t, d) + Waiting(t, d)
  BY DEF IInv, Mutexes
<1>o. owner[d] = t /\ depth[d] = lockCount[t][d] + 1
  <2>1. Leaving(t, d) = 1 /\ Waiting(t, d) = 0
    BY <1>1, <1>e DEF Leaving, Waiting
  <2> QED
    BY <1>t, <1>m, <2>1 DEF Locked
<1>l. /\ owner'[d] = (IF depth[d] = 1 THEN NoThread ELSE t) /\ depth'[d] = depth[d] - 1
      /\ \A c \in Datas \ {d} : owner'[c] = owner[c] /\ depth'[c] = depth[c]
      /\ owner' \in [Datas -> Threads \cup {NoThread}] /\ depth' \in [Datas -> Nat]
  <2>1. /\ depth' = [depth EXCEPT ![d] = @ - 1]
        /\ owner' = IF depth[d] = 1 THEN [owner EXCEPT ![d] = NoThread] ELSE owner
    BY <1>1, <1>o DEF MutexUnlock, Outermost
  <2>2. depth[d] - 1 \in Nat
    BY <1>t, <1>o
  <2>3. depth' \in [Datas -> Nat] /\ depth'[d] = depth[d] - 1
        /\ \A c \in Datas \ {d} : depth'[c] = depth[c]
    BY <1>t, <2>1, <2>2
  <2>4. /\ owner' \in [Datas -> Threads \cup {NoThread}]
        /\ owner'[d] = IF depth[d] = 1 THEN NoThread ELSE t
        /\ \A c \in Datas \ {d} : owner'[c] = owner[c]
    BY <1>t, <1>o, <2>1
  <2> QED
    BY <2>3, <2>4
<1>2. /\ Types' /\ OneDataPerObject' /\ Counted' /\ (\A u \in Threads : Thread(u)')
      /\ (\A u \in Threads \ {t} : Same(u) /\ Harmless(u))
      /\ pc'[t] = "idle" /\ lockCount' = lockCount
  BY <1>e, <1>l, ReturnKeeps
<1>3. Mutexes'
  <2>1. \A c \in Datas : Waiting(t, c)' = 0 /\ Leaving(t, c)' = 0 /\ Waiting(t, c) = 0
                         /\ Leaving(t, c) = IF c = d THEN 1 ELSE 0
    BY <1>1, <1>e, <1>2 DEF Waiting, Leaving
  <2>2. Locked(t, d)' = lockCount[t][d]
    BY <1>t, <1>o, <1>l DEF Locked
  <2>3. lockCount[t][d] + Leaving(t, d)' = Locked(t, d)' + Waiting(t, d)'
    BY <1>t, <2>1, <2>2
  <2>4. /\ owner'[d] = NoThread => depth'[d] = 0
        /\ owner'[d] = t => depth'[d] > 0
    BY <1>t, <1>o, <1>l
  <2> QED
    BY <1>o, <1>l, <1>2, <2>1, <2>3, <2>4, MutexesStep
<1> QED
  BY <1>2, <1>3 DEF IInv

-----------------------------------------------------------------------------
(* The theorems                                                            *)

\* Every step keeps the invariant.
LEMMA NextKeeps == IInv /\ [Next]_vars => IInv'
<1> SUFFICES ASSUME IInv, [Next]_vars
             PROVE  IInv'
  OBVIOUS
<1>1. CASE Next
  <2>1. PICK t \in Threads :
          \/ \E o \in Objs :
               EnterCached(t, o) \/ ExitCached(t, o) \/ EnterMiss(t, o) \/ ExitMiss(t, o)
          \/ ListLock(t) \/ SearchFound(t) \/ SearchOther(t) \/ SearchFails(t)
          \/ SearchReuse(t) \/ SearchAllocate(t) \/ ListUnlock(t)
          \/ MutexLock(t) \/ MutexUnlock(t)
    BY <1>1 DEF Next
  <2> QED
    BY <2>1, EnterCachedKeeps, ExitCachedKeeps, MissKeeps, ListLockKeeps, SearchFoundKeeps,
       SearchOtherKeeps, SearchFailsKeeps, SearchBindKeeps, ListUnlockKeeps, MutexLockKeeps,
       MutexUnlockKeeps
<1>2. CASE UNCHANGED vars
  <2>1. /\ object' = object /\ threadCount' = threadCount /\ owner' = owner /\ depth' = depth
        /\ listLock' = listLock /\ fast' = fast /\ lockCount' = lockCount
        /\ allocated' = allocated /\ pc' = pc /\ op' = op /\ obj' = obj /\ p' = p
        /\ firstUnused' = firstUnused /\ result' = result /\ unpaired' = unpaired
    BY <1>2 DEF vars, shared, cache, locals, walk
  <2>2. Types'
    BY <2>1 DEF IInv, Types, SharedTypes, CacheTypes, LocalTypes
  <2>3. \A u \in Threads : Thread(u)'
    BY <2>1, OthersKeep, StillHarmless DEF Same
  <2>4. OneDataPerObject'
    BY <2>1 DEF IInv, OneDataPerObject
  <2>5. Counted'
    <3>1. Pending' \subseteq Pending /\ \A c \in Datas : Using(c)' = Using(c)
      BY <2>1 DEF Pending, Using, Arriving
    <3> QED
      BY <2>1, <3>1, CountedKeeps
  <2>6. Mutexes'
    BY <2>1 DEF IInv, Mutexes, Leaving, Waiting, Locked
  <2> QED
    BY <2>2, <2>3, <2>4, <2>5, <2>6 DEF IInv
<1> QED
  BY <1>1, <1>2

\* The inductive invariant holds in every reachable state of id2data, objc_sync_enter and
\* objc_sync_exit.
THEOREM Invariant == Spec => []IInv
BY InitKeeps, NextKeeps, PTL DEF Spec

\* No object ever has two SyncDatas, so never two mutexes, though the list lock is
\* released between the walks and SyncDatas are bound to other objects (id2data).
THEOREM NeverTwoDatas == Spec => []OneDataPerObject
<1>1. IInv => OneDataPerObject
  BY DEF IInv
<1> QED
  BY <1>1, Invariant, PTL

\* Every SyncData in a cache or on its way there is counted, the count exceeds the threads
\* by no more than the unpaired exits, and no cache list overflows (id2data).
THEOREM CachesAreCounted == Spec => []CachedIsCounted
<1>1. IInv => CachedIsCounted
  <2> SUFFICES ASSUME IInv
               PROVE  CachedIsCounted
    OBVIOUS
  <2>1. ASSUME NEW d \in Datas
        PROVE  /\ Cardinality(Using(d)) <= threadCount[d]
               /\ threadCount[d] <= Cardinality(Using(d)) + unpaired
    <3>1. /\ Cardinality(Using(d)) <= threadCount[d]
          /\ threadCount[d] + Cardinality(Pending) <= Cardinality(Using(d)) + unpaired
      BY DEF IInv, Counted
    <3>2. threadCount[d] \in Nat /\ unpaired \in Nat
      BY DEF IInv, Types, SharedTypes
    <3> QED
      BY <3>1, <3>2, UsingFinite
  <2>2. \A t \in Threads : Used(t) <= allocated[t]
    BY DEF IInv, Thread, Room
  <2> QED
    BY <2>1, <2>2 DEF CachedIsCounted
<1> QED
  BY <1>1, Invariant, PTL

\* A thread that leaves an object it entered has locked the mutex it unlocks, and a thread
\* waits for a mutex only while another is inside the object or is leaving the SyncData
\* (objc_sync_exit, recursive_mutex_t).
THEOREM MutexesAreCounted == Spec => []MutexFollowsCount
<1>1. IInv => MutexFollowsCount
  <2> SUFFICES ASSUME IInv, NEW t \in Threads, NEW d, d = result[t]
               PROVE  /\ pc[t] = "mutexUnlock" => owner[d] = t
                      /\ pc[t] = "mutexLock" /\ owner[d] \notin {NoThread, t} =>
                           \/ lockCount[owner[d]][d] > 0 /\ object[d] = obj[t]
                           \/ pc[owner[d]] = "mutexUnlock" /\ result[owner[d]] = d
    BY DEF MutexFollowsCount
  <2>1. Control(t) /\ Types
    BY DEF IInv, Thread
  <2>2. \A c \in Datas, u \in Threads :
          /\ owner[c] # NoThread => depth[c] > 0
          /\ lockCount[u][c] + Leaving(u, c) = Locked(u, c) + Waiting(u, c)
          /\ depth[c] \in Nat /\ lockCount[u][c] \in Nat
    BY DEF IInv, Mutexes, Types, SharedTypes, CacheTypes
  <2>3. ASSUME pc[t] = "mutexUnlock"
        PROVE  owner[d] = t
    <3>1. d \in Datas /\ Leaving(t, d) = 1 /\ Waiting(t, d) = 0
      BY <2>1, <2>3 DEF Control, Leaving, Waiting
    <3> QED
      BY <2>2, <3>1 DEF Locked
  <2>4. ASSUME pc[t] = "mutexLock", owner[d] \notin {NoThread, t}
        PROVE  \/ lockCount[owner[d]][d] > 0 /\ object[d] = obj[t]
               \/ pc[owner[d]] = "mutexUnlock" /\ result[owner[d]] = d
    <3>1. d \in Datas /\ object[d] = obj[t]
      BY <2>1, <2>4 DEF Control
    <3>2. PICK u \in Threads : u = owner[d]
      BY <2>1, <2>4, <3>1 DEF Types, SharedTypes
    <3>3. Locked(u, d) > 0 /\ Locked(u, d) \in Nat
      BY <2>2, <2>4, <3>1, <3>2 DEF Locked
    <3>4. Waiting(u, d) \in {0, 1} /\ Leaving(u, d) \in {0, 1}
      BY DEF Waiting, Leaving
    <3>5. lockCount[u][d] > 0 \/ Leaving(u, d) = 1
      BY <2>2, <3>1, <3>3, <3>4
    <3> QED
      BY <3>1, <3>2, <3>5 DEF Leaving
  <2> QED
    BY <2>3, <2>4
<1> QED
  BY <1>1, Invariant, PTL

-----------------------------------------------------------------------------
(* Sync implements Monitors                                                *)

\* How often a thread is inside an object, from the SyncData it has cached for it.
InsideCounts ==
  \A t \in Threads, o \in Objs :
    /\ Cached(t, o) = {} => Inside(t, o) = 0
    /\ \A d \in Cached(t, o) : Inside(t, o) + Waiting(t, d) = lockCount[t][d]
    /\ Inside(t, o) \in Nat

\* The one SyncData of an object is what CHOOSE finds in a cache.
LEMMA InsideFromCount == IInv => InsideCounts
<1> SUFFICES ASSUME IInv, NEW t \in Threads, NEW o \in Objs
             PROVE  /\ Cached(t, o) = {} => Inside(t, o) = 0
                    /\ \A d \in Cached(t, o) : Inside(t, o) + Waiting(t, d) = lockCount[t][d]
                    /\ Inside(t, o) \in Nat
  BY DEF InsideCounts
<1>1. ASSUME Cached(t, o) = {}
      PROVE  Inside(t, o) = 0
  BY <1>1 DEF Inside
<1>2. ASSUME NEW d \in Cached(t, o)
      PROVE  Inside(t, o) + Waiting(t, d) = lockCount[t][d] /\ Inside(t, o) \in Nat
  <2>1. d \in Datas /\ lockCount[t][d] > 0 /\ object[d] = o /\ o # NoObj /\ Control(t)
        /\ lockCount[t][d] \in Nat
    BY SyncAssumption DEF Cached, IInv, Thread, Types, CacheTypes
  <2>2. \A e \in Cached(t, o) : e = d
    BY <2>1, OneData DEF Cached
  <2>3. (CHOOSE e \in Cached(t, o) : TRUE) = d
    BY <2>2
  <2>4. pc[t] = "mutexLock" => (obj[t] = o <=> result[t] = d)
    BY <2>1, OneData DEF Control
  <2>5. Inside(t, o) = lockCount[t][d] - (IF pc[t] = "mutexLock" /\ obj[t] = o THEN 1 ELSE 0)
    BY <2>3 DEF Inside
  <2> QED
    BY <2>1, <2>4, <2>5 DEF Waiting
<1> QED
  BY <1>1, <1>2

\* The same after a step.
LEMMA InsideFromCountNext == IInv' => InsideCounts'
BY InsideFromCount, PTL

\* A step is harmless to how often another thread is inside.
LEMMA OthersInside ==
  ASSUME IInv, NEW u \in Threads, NEW o \in Objs, Same(u), Harmless(u)
  PROVE  Inside(u, o)' = Inside(u, o)
<1>1. Cached(u, o)' = Cached(u, o)
  BY DEF Cached, Same, Harmless, Using
<1> QED
  BY <1>1 DEF Inside, Same

\* The thread is inside as often as before when the step counts what it waits for.
LEMMA InsideKeeps ==
  ASSUME IInv, IInv', NEW t \in Threads, NEW o \in Objs, Cached(t, o)' = Cached(t, o),
         \A d \in Cached(t, o) : lockCount'[t][d] + Waiting(t, d) = lockCount[t][d] + Waiting(t, d)'
  PROVE  Inside(t, o)' = Inside(t, o)
<1>1. InsideCounts /\ InsideCounts'
  BY InsideFromCount, InsideFromCountNext
<1>2. CASE Cached(t, o) = {}
  BY <1>1, <1>2 DEF InsideCounts
<1>3. ASSUME NEW d \in Cached(t, o)
      PROVE  Inside(t, o)' = Inside(t, o)
  <2>1. /\ Inside(t, o) + Waiting(t, d) = lockCount[t][d] /\ Inside(t, o) \in Nat
        /\ Inside(t, o)' + Waiting(t, d)' = lockCount'[t][d] /\ Inside(t, o)' \in Nat
    BY <1>1, <1>3 DEF InsideCounts
  <2>2. lockCount'[t][d] + Waiting(t, d) = lockCount[t][d] + Waiting(t, d)'
    BY <1>3
  <2>3. Waiting(t, d) \in Nat /\ Waiting(t, d)' \in Nat
    BY DEF Waiting
  <2> QED
    BY <2>1, <2>2, <2>3
<1> QED
  BY <1>2, <1>3

\* What Monitors sees of a step.
Stutters == \A u \in Threads, o \in Objs : Inside(u, o)' = Inside(u, o)

Becomes(t, o, n) ==
  /\ Inside(t, o)' = n
  /\ \A u \in Threads, x \in Objs : u # t \/ x # o => Inside(u, x)' = Inside(u, x)

\* A thread that has not called, or that walks the list, is inside as often as before.
LEMMA QuietStutters ==
  ASSUME IInv, IInv', NEW t \in Threads, \A u \in Threads \ {t} : Same(u) /\ Harmless(u),
         lockCount' = lockCount, \A d \in Datas : lockCount[t][d] > 0 => object'[d] = object[d],
         pc[t] # "mutexLock", pc'[t] # "mutexLock"
  PROVE  Stutters
<1> SUFFICES ASSUME NEW u \in Threads, NEW o \in Objs
             PROVE  Inside(u, o)' = Inside(u, o)
  BY DEF Stutters
<1>1. CASE u # t
  BY <1>1, OthersInside
<1>2. CASE u = t
  <2>1. Cached(t, o)' = Cached(t, o)
    BY DEF Cached
  <2>2. \A d \in Datas : lockCount'[t][d] + Waiting(t, d) = lockCount[t][d] + Waiting(t, d)'
    BY DEF Waiting
  <2> QED
    BY <1>2, <2>1, <2>2, InsideKeeps DEF Cached
<1> QED
  BY <1>1, <1>2

\* The walk of the list and the last statement of an exit.
LEMMA WalkStutters ==
  ASSUME IInv, NEW t \in Threads,
         \/ \E o \in Objs : EnterMiss(t, o) \/ ExitMiss(t, o)
         \/ ListLock(t) \/ SearchFound(t) \/ SearchOther(t) \/ SearchFails(t)
         \/ SearchReuse(t) \/ SearchAllocate(t) \/ MutexUnlock(t)
  PROVE  Stutters
<1>1. IInv' /\ \A u \in Threads \ {t} : Same(u) /\ Harmless(u)
  BY MissKeeps, ListLockKeeps, SearchFoundKeeps, SearchOtherKeeps, SearchFailsKeeps,
     SearchBindKeeps, MutexUnlockKeeps
<1>2. pc \in [Threads -> Labels] /\ lockCount[t] \in [Datas -> Nat]
  BY DEF IInv, Types, LocalTypes, CacheTypes
<1> DEFINE Quiet ==
             /\ lockCount' = lockCount /\ pc[t] # "mutexLock" /\ pc'[t] # "mutexLock"
             /\ object' = object \/ \E d \in Datas : Bind(t, d) /\ threadCount[d] = 0
<1>3. Quiet
  <2>1. ASSUME NEW o \in Objs, EnterMiss(t, o) \/ ExitMiss(t, o)
        PROVE  Quiet
    BY <1>2, <2>1 DEF EnterMiss, ExitMiss, Miss, Goto, shared
  <2>2. CASE ListLock(t)
    BY <1>2, <2>2 DEF ListLock, Goto, shared, cache
  <2>3. CASE SearchFound(t)
    BY <1>2, <2>3 DEF SearchFound, Goto, cache
  <2>4. CASE SearchOther(t)
    BY <1>2, <2>4 DEF SearchOther, shared, cache
  <2>5. CASE SearchFails(t)
    BY <1>2, <2>5 DEF SearchFails, Goto, shared, cache
  <2>6. CASE SearchReuse(t)
    <3>1. firstUnused[t] \in Datas /\ threadCount[firstUnused[t]] = 0
      BY <2>6 DEF SearchReuse, IInv, Thread, Walk, List
    <3> QED
      BY <1>2, <2>6, <3>1 DEF SearchReuse, Bind, Goto, cache
  <2>7. CASE SearchAllocate(t)
    <3>1. PICK d \in Datas : object[d] = NoObj /\ Bind(t, d)
      BY <2>7 DEF SearchAllocate
    <3>2. threadCount[d] = 0
      BY <3>1 DEF IInv, Counted
    <3> QED
      BY <1>2, <2>7, <3>1, <3>2 DEF SearchAllocate, Bind, Goto, cache
  <2>8. CASE MutexUnlock(t)
    BY <1>2, <2>8 DEF MutexUnlock, Return, Goto, cache
  <2> QED
    BY <2>1, <2>2, <2>3, <2>4, <2>5, <2>6, <2>7, <2>8
<1>4. \A d \in Datas : lockCount[t][d] > 0 => object'[d] = object[d]
  <2>1. ASSUME NEW d \in Datas, Bind(t, d), threadCount[d] = 0, NEW c \in Datas,
               lockCount[t][c] > 0
        PROVE  object'[c] = object[c]
    <3>1. c # d
      BY <2>1, InUse DEF Using
    <3> QED
      BY <2>1, <3>1 DEF Bind, IInv, Types, SharedTypes
  <2> QED
    BY <1>3, <2>1
<1> QED
  BY <1>1, <1>3, <1>4, QuietStutters

\* A call of enter that hits counts before it waits: the thread is not inside yet.
LEMMA EnterCachedStutters ==
  ASSUME IInv, NEW t \in Threads, NEW o \in Objs, EnterCached(t, o)
  PROVE  Stutters
<1>1. IInv' /\ \A u \in Threads \ {t} : Same(u) /\ Harmless(u)
  BY EnterCachedKeeps
<1>2. PICK d \in Datas : /\ lockCount[t][d] > 0 /\ object[d] = o
                         /\ lockCount' = [lockCount EXCEPT ![t][d] = @ + 1]
                         /\ result' = [result EXCEPT ![t] = d]
  BY DEF EnterCached, Cached
<1>3. /\ pc[t] = "idle" /\ pc'[t] = "mutexLock" /\ result'[t] = d /\ object' = object
  BY <1>2 DEF EnterCached, Goto, shared, IInv, Types, LocalTypes
<1>4. /\ lockCount'[t][d] = lockCount[t][d] + 1
      /\ \A c \in Datas \ {d} : lockCount'[t][c] = lockCount[t][c]
      /\ \A c \in Datas : lockCount'[t][c] \in Nat /\ lockCount[t][c] \in Nat
  <2>1. lockCount[t][d] + 1 \in Nat
    BY DEF IInv, Types, CacheTypes
  <2> QED
    BY <1>2, <2>1, SetCount
<1> SUFFICES ASSUME NEW u \in Threads, NEW x \in Objs
             PROVE  Inside(u, x)' = Inside(u, x)
  BY DEF Stutters
<1>5. CASE u # t
  BY <1>1, <1>5, OthersInside
<1>6. CASE u = t
  <2>1. Cached(t, x)' = Cached(t, x)
    BY <1>2, <1>3, <1>4 DEF Cached
  <2>2. \A c \in Datas : lockCount'[t][c] + Waiting(t, c) = lockCount[t][c] + Waiting(t, c)'
    BY <1>3, <1>4 DEF Waiting
  <2> QED
    BY <1>1, <1>6, <2>1, <2>2, InsideKeeps DEF Cached
<1> QED
  BY <1>5, <1>6

\* Nor is it inside when its SyncData is cached, after a walk of the list.
LEMMA ListUnlockStutters ==
  ASSUME IInv, NEW t \in Threads, ListUnlock(t)
  PROVE  Stutters
<1>1. IInv' /\ \A u \in Threads \ {t} : Same(u) /\ Harmless(u)
  BY ListUnlockKeeps
<1>2. /\ pc[t] = "listUnlock" /\ object' = object /\ Control(t)
      /\ pc \in [Threads -> Labels] /\ op \in [Threads -> Ops]
  BY DEF ListUnlock, shared, IInv, Thread, Types, LocalTypes
<1>3. CASE op[t] = "exit"
  <2>1. lockCount' = lockCount /\ pc'[t] = "idle"
    BY <1>2, <1>3 DEF ListUnlock, Return, Goto, cache
  <2> QED
    BY <1>1, <1>2, <2>1, QuietStutters
<1>4. CASE op[t] # "exit"
  <2>1. PICK d \in Datas : /\ d = result[t] /\ object[d] = obj[t] /\ lockCount[t][d] = 0
                           /\ Cached(t, obj[t]) = {}
    BY <1>2, <1>4 DEF Control, Ops
  <2>2. /\ lockCount' = [lockCount EXCEPT ![t][d] = 1] /\ pc'[t] = "mutexLock"
        /\ result' = result
    BY <1>2, <1>4, <2>1 DEF ListUnlock, Goto
  <2>3. /\ lockCount'[t][d] = 1
        /\ \A c \in Datas \ {d} : lockCount'[t][c] = lockCount[t][c]
    BY <2>2, SetCount
  <2> SUFFICES ASSUME NEW u \in Threads, NEW x \in Objs
               PROVE  Inside(u, x)' = Inside(u, x)
    BY DEF Stutters
  <2>4. CASE u # t
    BY <1>1, <2>4, OthersInside
  <2>5. CASE u = t /\ x # obj[t]
    <3>1. Cached(t, x)' = Cached(t, x) /\ d \notin Cached(t, x)
      BY <1>2, <2>1, <2>3, <2>5 DEF Cached
    <3>2. \A c \in Cached(t, x) : /\ lockCount'[t][c] = lockCount[t][c]
                                  /\ Waiting(t, c) = 0 /\ Waiting(t, c)' = 0
      BY <1>2, <2>1, <2>2, <2>3, <3>1 DEF Cached, Waiting
    <3> QED
      BY <1>1, <2>5, <3>1, <3>2, InsideKeeps
  <2>6. CASE u = t /\ x = obj[t]
    <3>1. Inside(t, x) = 0
      BY <2>1, <2>6 DEF Inside
    <3>2. d \in Cached(t, x)' /\ Waiting(t, d)' = 1
      BY <1>2, <2>1, <2>2, <2>3, <2>6 DEF Cached, Waiting
    <3>3. Inside(t, x)' + Waiting(t, d)' = lockCount'[t][d] /\ Inside(t, x)' \in Nat
      BY <1>1, <3>2, InsideFromCountNext DEF InsideCounts
    <3> QED
      BY <2>3, <2>6, <3>1, <3>2, <3>3
  <2> QED
    BY <2>4, <2>5, <2>6
<1> QED
  BY <1>3, <1>4

\* A call of exit that hits leaves the object once.
LEMMA ExitCachedExits ==
  ASSUME IInv, NEW t \in Threads, NEW o \in Objs, ExitCached(t, o)
  PROVE  Inside(t, o) > 0 /\ Becomes(t, o, Inside(t, o) - 1)
<1>1. IInv' /\ \A u \in Threads \ {t} : Same(u) /\ Harmless(u)
  BY ExitCachedKeeps
<1>2. PICK d \in Datas : /\ lockCount[t][d] > 0 /\ object[d] = o
                         /\ lockCount' = [lockCount EXCEPT ![t][d] = @ - 1]
                         /\ pc' = [pc EXCEPT ![t] = "mutexUnlock"]
  BY DEF ExitCached, Cached, ExitNext, Goto
<1>3. /\ pc[t] = "idle" /\ pc'[t] = "mutexUnlock" /\ object' = object
  BY <1>2 DEF ExitCached, IInv, Types, LocalTypes
<1>4. /\ lockCount'[t][d] = lockCount[t][d] - 1
      /\ \A c \in Datas \ {d} : lockCount'[t][c] = lockCount[t][c]
      /\ \A c \in Datas : lockCount'[t][c] \in Nat /\ lockCount[t][c] \in Nat
  <2>1. lockCount[t][d] - 1 \in Nat
    BY <1>2 DEF IInv, Types, CacheTypes
  <2> QED
    BY <1>2, <2>1, SetCount
<1>5. \A c \in Datas : Waiting(t, c) = 0 /\ Waiting(t, c)' = 0
  BY <1>3 DEF Waiting
<1>6. InsideCounts /\ InsideCounts'
  BY <1>1, InsideFromCount, InsideFromCountNext
<1>7. Inside(t, o) = lockCount[t][d] /\ Inside(t, o) \in Nat
  <2>1. d \in Cached(t, o)
    BY <1>2 DEF Cached
  <2>2. Inside(t, o) + Waiting(t, d) = lockCount[t][d] /\ Inside(t, o) \in Nat
    BY <1>6, <2>1 DEF InsideCounts
  <2> QED
    BY <1>5, <2>2
<1>8. Inside(t, o)' = lockCount'[t][d]
  <2>1. CASE lockCount'[t][d] > 0
    <3>1. d \in Cached(t, o)'
      BY <1>2, <1>3, <2>1 DEF Cached
    <3>2. Inside(t, o)' + Waiting(t, d)' = lockCount'[t][d] /\ Inside(t, o)' \in Nat
      BY <1>6, <3>1 DEF InsideCounts
    <3> QED
      BY <1>5, <3>2
  <2>2. CASE lockCount'[t][d] = 0
    <3>1. \A c \in Datas : object[c] = o => c = d
      BY <1>2, OneData, SyncAssumption
    <3>2. Cached(t, o)' = {}
      BY <1>3, <2>2, <3>1 DEF Cached
    <3> QED
      BY <1>6, <2>2, <3>2 DEF InsideCounts
  <2> QED
    BY <1>4, <2>1, <2>2
<1>9. ASSUME NEW u \in Threads, NEW x \in Objs, u # t \/ x # o
      PROVE  Inside(u, x)' = Inside(u, x)
  <2>1. CASE u # t
    BY <1>1, <2>1, OthersInside
  <2>2. CASE u = t /\ x # o
    <3>1. Cached(t, x)' = Cached(t, x)
      BY <1>2, <1>3, <1>4, <2>2 DEF Cached
    <3>2. \A c \in Cached(t, x) : lockCount'[t][c] + Waiting(t, c)
                                    = lockCount[t][c] + Waiting(t, c)'
      BY <1>2, <1>4, <1>5, <2>2 DEF Cached
    <3> QED
      BY <1>1, <2>2, <3>1, <3>2, InsideKeeps
  <2> QED
    BY <1>9, <2>1, <2>2
<1> QED
  BY <1>2, <1>4, <1>7, <1>8, <1>9 DEF Becomes

\* The thread that gets the mutex is inside once more, and no other is.
LEMMA MutexLockEnters ==
  ASSUME IInv, NEW t \in Threads, NEW o \in Objs, o = obj[t], MutexLock(t)
  PROVE  /\ \A u \in Threads \ {t} : Inside(u, o) = 0
         /\ Becomes(t, o, Inside(t, o) + 1)
<1>1. IInv' /\ \A u \in Threads \ {t} : Same(u) /\ Harmless(u)
  BY MutexLockKeeps
<1>2. PICK d \in Datas : d = result[t] /\ object[d] = o /\ lockCount[t][d] > 0
  BY DEF MutexLock, IInv, Thread, Control
<1>3. /\ pc[t] = "mutexLock" /\ pc'[t] = "idle" /\ object' = object /\ lockCount' = lockCount
      /\ owner[d] \in {NoThread, t}
  BY <1>2 DEF MutexLock, Return, Goto, cache, IInv, Types, LocalTypes
<1>4. InsideCounts /\ InsideCounts'
  BY <1>1, InsideFromCount, InsideFromCountNext
<1>5. \A c \in Datas : /\ Waiting(t, c) = (IF c = d THEN 1 ELSE 0) /\ Waiting(t, c)' = 0
  BY <1>2, <1>3 DEF Waiting
<1>6. ASSUME NEW u \in Threads \ {t}
      PROVE  Inside(u, o) = 0
  <2>1. CASE Cached(u, o) = {}
    BY <1>4, <2>1 DEF InsideCounts
  <2>2. ASSUME NEW c \in Cached(u, o)
        PROVE  Inside(u, o) = 0
    <3>1. c = d
      BY <1>2, <2>2, OneData, SyncAssumption DEF Cached
    <3>2. Inside(u, o) + Waiting(u, d) = lockCount[u][d] /\ Inside(u, o) \in Nat
      BY <1>4, <2>2, <3>1 DEF InsideCounts
    <3>3. lockCount[u][d] + Leaving(u, d) = Locked(u, d) + Waiting(u, d)
      BY DEF IInv, Mutexes
    <3>4. Locked(u, d) = 0
      BY <1>3, SyncAssumption DEF Locked
    <3>5. Leaving(u, d) \in Nat /\ Waiting(u, d) \in Nat /\ lockCount[u][d] \in Nat
      BY DEF Leaving, Waiting, IInv, Types, CacheTypes
    <3> QED
      BY <3>2, <3>3, <3>4, <3>5
  <2> QED
    BY <2>1, <2>2
<1>7. Inside(t, o)' = Inside(t, o) + 1
  <2>1. d \in Cached(t, o) /\ Cached(t, o)' = Cached(t, o)
    BY <1>2, <1>3 DEF Cached
  <2>2. /\ Inside(t, o) + Waiting(t, d) = lockCount[t][d] /\ Inside(t, o) \in Nat
        /\ Inside(t, o)' + Waiting(t, d)' = lockCount'[t][d] /\ Inside(t, o)' \in Nat
    BY <1>4, <2>1 DEF InsideCounts
  <2> QED
    BY <1>3, <1>5, <2>2
<1>8. ASSUME NEW u \in Threads, NEW x \in Objs, u # t \/ x # o
      PROVE  Inside(u, x)' = Inside(u, x)
  <2>1. CASE u # t
    BY <1>1, <2>1, OthersInside
  <2>2. CASE u = t /\ x # o
    <3>1. Cached(t, x)' = Cached(t, x)
      BY <1>3 DEF Cached
    <3>2. \A c \in Cached(t, x) : lockCount'[t][c] + Waiting(t, c)
                                    = lockCount[t][c] + Waiting(t, c)'
      BY <1>2, <1>3, <1>5, <2>2 DEF Cached
    <3> QED
      BY <1>1, <2>2, <3>1, <3>2, InsideKeeps
  <2> QED
    BY <1>8, <2>1, <2>2
<1> QED
  BY <1>6, <1>7, <1>8 DEF Becomes

\* Every object behaves as if it had a recursive lock of its own (Monitors): the step that
\* gets the mutex enters, the exit that hits leaves, and no other step is seen.
THEOREM ImplementsMonitors == Spec => Implements
<1> DEFINE Depth == [t \in Threads |-> [o \in Objs |-> Inside(t, o)]]
<1>1. Init => Abstract!Init
  <2> SUFFICES ASSUME Init
               PROVE  Depth = [t \in Threads |-> [o \in Objs |-> 0]]
    BY DEF Abstract!Init
  <2>1. \A t \in Threads, o \in Objs : Cached(t, o) = {}
    BY DEF Init, Cached
  <2>2. \A t \in Threads, o \in Objs : Inside(t, o) = 0
    BY <2>1 DEF Inside
  <2> QED
    BY <2>2
<1>2. ASSUME IInv, [Next]_vars
      PROVE  [Abstract!Next]_Depth
  <2>1. ASSUME NEW t \in Threads, NEW o \in Objs, NEW n, Becomes(t, o, n)
        PROVE  Abstract!Becomes(t, o, n)
    <3>1. Depth'[t][o] = n
      BY <2>1 DEF Becomes
    <3>2. Depth' = [Depth EXCEPT ![t] = [Depth[t] EXCEPT ![o] = n]]
      BY <2>1 DEF Becomes
    <3>3. Depth' = [Depth EXCEPT ![t][o] = n]
      BY <3>2
    <3> QED
      BY <3>1, <3>3 DEF Abstract!Becomes
  <2>2. ASSUME Stutters
        PROVE  Depth' = Depth
    BY <2>2 DEF Stutters
  <2>3. \A t \in Threads, o \in Objs : Depth[t][o] = Inside(t, o)
    OBVIOUS
  <2> HIDE DEF Depth
  <2>4. ASSUME NEW t \in Threads, NEW o \in Objs, ExitCached(t, o)
        PROVE  Abstract!Next
    <3>1. Inside(t, o) > 0 /\ Becomes(t, o, Inside(t, o) - 1)
      BY <1>2, <2>4, ExitCachedExits
    <3>2. Abstract!Exit(t, o)
      BY <2>1, <2>3, <3>1 DEF Abstract!Exit, Depth
    <3> QED
      BY <3>2 DEF Abstract!Next
  <2>5. ASSUME NEW t \in Threads, MutexLock(t)
        PROVE  Abstract!Next
    <3>1. PICK o \in Objs : o = obj[t]
      BY <1>2, <2>5 DEF MutexLock, IInv, Thread, Control
    <3>2. (\A u \in Threads \ {t} : Inside(u, o) = 0) /\ Becomes(t, o, Inside(t, o) + 1)
      BY <1>2, <2>5, <3>1, MutexLockEnters
    <3>3. Abstract!Enter(t, o)
      BY <2>1, <2>3, <3>2 DEF Abstract!Enter, Depth
    <3> QED
      BY <3>3 DEF Abstract!Next
  <2>6. CASE UNCHANGED vars
    <3>1. \A u \in Threads : Same(u) /\ Harmless(u)
      BY <2>6, StillHarmless DEF Same, vars, shared, cache, locals, walk
    <3>2. Stutters
      BY <1>2, <3>1, OthersInside DEF Stutters
    <3> QED
      BY <2>2, <3>2
  <2>7. CASE Next
    <3>1. PICK t \in Threads :
            \/ \E o \in Objs :
                 EnterCached(t, o) \/ ExitCached(t, o) \/ EnterMiss(t, o) \/ ExitMiss(t, o)
            \/ ListLock(t) \/ SearchFound(t) \/ SearchOther(t) \/ SearchFails(t)
            \/ SearchReuse(t) \/ SearchAllocate(t) \/ ListUnlock(t)
            \/ MutexLock(t) \/ MutexUnlock(t)
      BY <2>7 DEF Next
    <3>2. Stutters \/ MutexLock(t) \/ \E o \in Objs : ExitCached(t, o)
      BY <1>2, <3>1, EnterCachedStutters, WalkStutters, ListUnlockStutters
    <3> QED
      BY <2>2, <2>4, <2>5, <3>2
  <2> QED
    BY <1>2, <2>6, <2>7
<1> QED
  BY <1>1, <1>2, Invariant, PTL DEF Spec, Implements, Abstract!Spec
=============================================================================
