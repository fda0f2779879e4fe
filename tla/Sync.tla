-------------------------------- MODULE Sync --------------------------------
(***************************************************************************)
(* @synchronized: objc_sync_enter, objc_sync_exit and id2data              *)
(* (objc-sync.mm). A SyncData holds a recursive mutex; it is bound to an   *)
(* object while threads use it and may be bound to another one afterwards. *)
(*                                                                         *)
(* SyncDatas are numbered in the order they are allocated. A new one goes  *)
(* to the head of its object's list, never leaves it, and is only ever     *)
(* bound again to an object of the same list: a list is the SyncDatas of   *)
(* one stripe in descending order.                                         *)
(*                                                                         *)
(* A thread takes one step per access to memory another thread can reach.  *)
(* Its own cache (the fast slot and the list of items) goes with the step  *)
(* before it.                                                              *)
(***************************************************************************)
EXTENDS Naturals, FiniteSets, FiniteSetsExt

CONSTANTS Threads, NoThread,
          Objs,             \* numbered in the order the program nests them
          Stripe,           \* the entry of sDataLists of each object
          MaxData,          \* bound: SyncDatas ever allocated
          FirstAllocated,   \* items a thread's cache starts with (4 in the code)
          MaxDepth,         \* bound: times a thread is inside each object
          MaxUnpaired       \* bound: calls of objc_sync_exit without an enter

NoObj == 0
NoData == 0
Datas == 1..MaxData

ASSUME SyncAssumption ==
  /\ NoThread \notin Threads /\ IsFiniteSet(Threads)
  /\ Objs \subseteq Nat \ {NoObj} /\ Stripe \in [Objs -> Nat]
  /\ MaxData \in Nat /\ FirstAllocated \in Nat \ {0}
  /\ MaxDepth \in [Objs -> Nat] /\ MaxUnpaired \in Nat

VARIABLES object,       \* SyncData::object, NoObj while not allocated
          threadCount,  \* SyncData::threadCount
          owner, depth, \* SyncData::mutex: who has locked it, how many times
          listLock,     \* SyncList::lock of each stripe
          fast,         \* per thread: the SyncData of the fast cache
          lockCount,    \* per thread: lockCount of each SyncData it has cached
          allocated,    \* per thread: SyncCache::allocated, 0 without a cache
          pc, op, obj,  \* per thread: next statement, the call and its argument
          p,            \* per thread: where the walk of the list is
          firstUnused, result,  \* per thread: locals of id2data
          unpaired      \* ghost: calls of objc_sync_exit without an enter so far

shared == <<object, threadCount, owner, depth>>
cache == <<fast, lockCount, allocated>>
walk == <<p, firstUnused>>
locals == <<op, obj, walk, result>>
vars == <<shared, listLock, cache, pc, locals, unpaired>>

Stripes == {Stripe[o] : o \in Objs}

Init ==
  /\ object = [d \in Datas |-> NoObj] /\ threadCount = [d \in Datas |-> 0]
  /\ owner = [d \in Datas |-> NoThread] /\ depth = [d \in Datas |-> 0]
  /\ listLock = [s \in Stripes |-> NoThread]
  /\ fast = [t \in Threads |-> NoData]
  /\ lockCount = [t \in Threads |-> [d \in Datas |-> 0]]
  /\ allocated = [t \in Threads |-> 0]
  /\ pc = [t \in Threads |-> "idle"] /\ op = [t \in Threads |-> "none"]
  /\ obj = [t \in Threads |-> NoObj] /\ p = [t \in Threads |-> NoData]
  /\ firstUnused = [t \in Threads |-> NoData] /\ result = [t \in Threads |-> NoData]
  /\ unpaired = 0

Goto(t, label) == pc' = [pc EXCEPT ![t] = label]

\* the call returns; its locals are gone
Return(t) ==
  /\ Goto(t, "idle")
  /\ op' = [op EXCEPT ![t] = "none"] /\ obj' = [obj EXCEPT ![t] = NoObj]
  /\ result' = [result EXCEPT ![t] = NoData]

-----------------------------------------------------------------------------
(* The thread's cache                                                      *)

Cached(t, o) == {d \in Datas : lockCount[t][d] > 0 /\ object[d] = o}

\* items of the cache list: what is cached and not in the fast slot
Items(t) == {d \in Datas : lockCount[t][d] > 0} \ {fast[t]}
Used(t) == Cardinality(Items(t))

Full(t) == allocated[t] = Used(t)

\* fetch_cache(NO): without a cache it creates none; a full one grows
Grown(t) ==
  IF allocated[t] # 0 /\ Full(t) THEN [allocated EXCEPT ![t] = 2 * @] ELSE allocated

\* a hit in the fast slot does not look at the list
LookedUp(t, hit) ==
  allocated' = IF fast[t] # NoData /\ fast[t] = hit THEN allocated ELSE Grown(t)

\* The program nests @synchronized in the order of Objs, and may enter again an
\* object it is inside of.
MayEnter(t, o) ==
  /\ \A d \in Datas : lockCount[t][d] > 0 => object[d] <= o
  /\ \A d \in Cached(t, o) : lockCount[t][d] < MaxDepth[o]

-----------------------------------------------------------------------------
(* objc_sync_enter and objc_sync_exit of an object in the cache            *)

EnterCached(t, o) ==
  /\ pc[t] = "idle" /\ MayEnter(t, o)
  /\ \E d \in Cached(t, o) :
       /\ lockCount' = [lockCount EXCEPT ![t][d] = @ + 1]
       /\ LookedUp(t, d)
       /\ result' = [result EXCEPT ![t] = d]
  /\ Goto(t, "mutexLock")
  /\ op' = [op EXCEPT ![t] = "enter"] /\ obj' = [obj EXCEPT ![t] = o]
  /\ UNCHANGED <<shared, listLock, fast, walk, unpaired>>

\* mutant: every exit leaves the SyncData, not only the last
LastExitAlways(t, d) == TRUE

LastExit(t, d) == lockCount[t][d] = 1

\* mutant: only the last exit unlocks the mutex
ExitNextLast(t, d) == IF lockCount[t][d] = 1 THEN "mutexUnlock" ELSE "idle"

ExitNext(t, d) == "mutexUnlock"

ExitCached(t, o) ==
  /\ pc[t] = "idle"
  /\ \E d \in Cached(t, o) :
       /\ LookedUp(t, d)
       /\ lockCount' = [lockCount EXCEPT ![t][d] = @ - 1]
       /\ IF LastExit(t, d)
          THEN /\ threadCount' = [threadCount EXCEPT ![d] = @ - 1]
               /\ fast' = IF fast[t] = d THEN [fast EXCEPT ![t] = NoData] ELSE fast
          ELSE UNCHANGED <<threadCount, fast>>
       /\ result' = [result EXCEPT ![t] = d]
       /\ Goto(t, ExitNext(t, d))
  /\ op' = [op EXCEPT ![t] = "exit"] /\ obj' = [obj EXCEPT ![t] = o]
  /\ UNCHANGED <<object, owner, depth, listLock, walk, unpaired>>

-----------------------------------------------------------------------------
(* The walk of the list, for an object that is not in the cache            *)

Miss(t, o, why) ==
  /\ pc[t] = "idle" /\ Cached(t, o) = {}
  /\ allocated' = Grown(t)
  /\ Goto(t, "listLock")
  /\ op' = [op EXCEPT ![t] = why] /\ obj' = [obj EXCEPT ![t] = o]
  /\ UNCHANGED <<shared, listLock, fast, lockCount, walk, result>>

EnterMiss(t, o) == Miss(t, o, "enter") /\ MayEnter(t, o) /\ UNCHANGED unpaired

\* objc_sync_exit of an object this thread is not inside of
ExitMiss(t, o) ==
  Miss(t, o, "exit") /\ unpaired < MaxUnpaired /\ unpaired' = unpaired + 1

\* the SyncData after d in its list, from MaxData + 1 the first
List(s) == {d \in Datas : object[d] # NoObj /\ Stripe[object[d]] = s}
NextData(s, d) == Max({e \in List(s) : e < d} \cup {NoData})

ListLock(t) ==
  LET s == Stripe[obj[t]] IN
  /\ pc[t] = "listLock" /\ listLock[s] = NoThread
  /\ listLock' = [listLock EXCEPT ![s] = t]
  /\ p' = [p EXCEPT ![t] = NextData(s, MaxData + 1)]
  /\ Goto(t, "search")
  /\ UNCHANGED <<shared, cache, op, obj, firstUnused, result, unpaired>>

WalkDone(t) ==
  p' = [p EXCEPT ![t] = NoData] /\ firstUnused' = [firstUnused EXCEPT ![t] = NoData]

SearchFound(t) ==
  /\ pc[t] = "search" /\ p[t] # NoData /\ object[p[t]] = obj[t]
  /\ result' = [result EXCEPT ![t] = p[t]]
  /\ threadCount' = [threadCount EXCEPT ![p[t]] = @ + 1]
  /\ Goto(t, "listUnlock") /\ WalkDone(t)
  /\ UNCHANGED <<object, owner, depth, listLock, cache, op, obj, unpaired>>

\* mutant: a SyncData its last thread is still using counts as unused
UnusedSoon(d) == threadCount[d] <= 1

Unused(d) == threadCount[d] = 0

SearchOther(t) ==
  /\ pc[t] = "search" /\ p[t] # NoData /\ object[p[t]] # obj[t]
  /\ firstUnused' = IF firstUnused[t] = NoData /\ Unused(p[t])
                    THEN [firstUnused EXCEPT ![t] = p[t]] ELSE firstUnused
  /\ p' = [p EXCEPT ![t] = NextData(Stripe[obj[t]], p[t])]
  /\ UNCHANGED <<shared, listLock, cache, pc, op, obj, result, unpaired>>

\* mutant: an unused SyncData ends the walk before the rest of the list is seen
SearchedAllUnused(t) == p[t] = NoData \/ firstUnused[t] # NoData

SearchedAll(t) == p[t] = NoData

\* an exit finds nothing
SearchFails(t) ==
  /\ pc[t] = "search" /\ SearchedAll(t) /\ op[t] = "exit"
  /\ Goto(t, "listUnlock") /\ WalkDone(t)
  /\ UNCHANGED <<shared, listLock, cache, op, obj, result, unpaired>>

\* an enter binds the first unused SyncData, or a new one, to its object
Bind(t, d) ==
  /\ object' = [object EXCEPT ![d] = obj[t]]
  /\ threadCount' = [threadCount EXCEPT ![d] = 1]
  /\ result' = [result EXCEPT ![t] = d]
  /\ Goto(t, "listUnlock") /\ WalkDone(t)
  /\ UNCHANGED <<owner, depth, listLock, cache, op, obj, unpaired>>

SearchReuse(t) ==
  /\ pc[t] = "search" /\ SearchedAll(t) /\ op[t] = "enter" /\ firstUnused[t] # NoData
  /\ Bind(t, firstUnused[t])

SearchAllocate(t) ==
  /\ pc[t] = "search" /\ SearchedAll(t) /\ op[t] = "enter" /\ firstUnused[t] = NoData
  /\ \E d \in Datas : /\ object[d] = NoObj /\ \A e \in Datas : e < d => object[e] # NoObj
                      /\ Bind(t, d)

\* Unlock the list; an enter puts the SyncData into the cache, which fetch_cache(YES)
\* makes when there is none, an exit returns OBJC_SYNC_NOT_OWNING_THREAD_ERROR.
ListUnlock(t) ==
  LET s == Stripe[obj[t]] IN
  /\ pc[t] = "listUnlock"
  /\ listLock' = [listLock EXCEPT ![s] = NoThread]
  /\ IF op[t] = "exit" THEN Return(t) /\ UNCHANGED cache
     ELSE /\ lockCount' = [lockCount EXCEPT ![t][result[t]] = 1]
          /\ IF fast[t] = NoData
             THEN fast' = [fast EXCEPT ![t] = result[t]] /\ UNCHANGED allocated
             ELSE /\ allocated' = IF allocated[t] = 0
                                  THEN [allocated EXCEPT ![t] = FirstAllocated]
                                  ELSE allocated
                  /\ UNCHANGED fast
          /\ Goto(t, "mutexLock") /\ UNCHANGED <<op, obj, result>>
  /\ UNCHANGED <<shared, walk, unpaired>>

-----------------------------------------------------------------------------
(* The mutex                                                               *)

MutexLock(t) ==
  LET d == result[t] IN
  /\ pc[t] = "mutexLock" /\ owner[d] \in {NoThread, t}
  /\ owner' = [owner EXCEPT ![d] = t] /\ depth' = [depth EXCEPT ![d] = @ + 1]
  /\ Return(t)
  /\ UNCHANGED <<object, threadCount, listLock, cache, walk, unpaired>>

\* mutant: the mutex is not recursive
OutermostAlways(d) == TRUE

Outermost(d) == depth[d] = 1

\* tryUnlock fails, and changes nothing, when another thread has locked the mutex
MutexUnlock(t) ==
  LET d == result[t] IN
  /\ pc[t] = "mutexUnlock"
  /\ IF owner[d] = t
     THEN /\ depth' = [depth EXCEPT ![d] = @ - 1]
          /\ owner' = IF Outermost(d) THEN [owner EXCEPT ![d] = NoThread] ELSE owner
     ELSE UNCHANGED <<owner, depth>>
  /\ Return(t)
  /\ UNCHANGED <<object, threadCount, listLock, cache, walk, unpaired>>

Next ==
  \E t \in Threads :
    \/ \E o \in Objs :
         EnterCached(t, o) \/ ExitCached(t, o) \/ EnterMiss(t, o) \/ ExitMiss(t, o)
    \/ ListLock(t) \/ SearchFound(t) \/ SearchOther(t) \/ SearchFails(t)
    \/ SearchReuse(t) \/ SearchAllocate(t) \/ ListUnlock(t)
    \/ MutexLock(t) \/ MutexUnlock(t)

Spec == Init /\ [][Next]_vars

-----------------------------------------------------------------------------
(* Properties                                                              *)

\* The list lock "prevents multiple threads from creating multiple locks for the same
\* new object" (objc-sync.mm:203), also while SyncDatas are bound to other objects.
OneDataPerObject ==
  \A d, e \in Datas : d # e /\ object[d] # NoObj => object[d] # object[e]

\* The threads on their way from the list to their cache with a SyncData in hand
Arriving(d) == {t \in Threads : pc[t] = "listUnlock" /\ op[t] = "enter" /\ result[t] = d}
Using(d) == {t \in Threads : lockCount[t][d] > 0} \cup Arriving(d)

\* A SyncData some thread has cached, or is about to, is counted for it: the fatal
\* errors "fastcache is buggy" and "cache is buggy" of id2data are never reached, and
\* nobody binds a SyncData in use to another object. The count exceeds the threads by
\* no more than the unpaired exits there were, each of which adds one for ever. And the
\* cache list never holds more items than were allocated, though id2data looks for room
\* long before it appends (objc-sync.mm:99).
CachedIsCounted ==
  /\ \A d \in Datas : /\ Cardinality(Using(d)) <= threadCount[d]
                      /\ threadCount[d] <= Cardinality(Using(d)) + unpaired
  /\ \A t \in Threads : Used(t) <= allocated[t]

\* The mutex of a SyncData and its counts go together. A thread that leaves an object
\* it entered always unlocks a mutex it has locked: objc_sync_exit fails only for a
\* thread that is not inside (objc-sync.mm:327). A thread waits for a mutex only while
\* another is inside the same object, or is in the last statement of leaving whatever
\* the SyncData was bound to before.
MutexFollowsCount ==
  \A t \in Threads :
    LET d == result[t] IN
    /\ pc[t] = "mutexUnlock" => owner[d] = t
    /\ pc[t] = "mutexLock" /\ owner[d] \notin {NoThread, t} =>
         LET u == owner[d] IN
         \/ lockCount[u][d] > 0 /\ object[d] = obj[t]
         \/ pc[u] = "mutexUnlock" /\ result[u] = d

\* When no thread is in a call, threadCount is what its comment says, the "number of
\* THREADS using this block" (objc-sync.mm:36).
ThreadCountExact ==
  (\A t \in Threads : pc[t] = "idle") =>
    \A d \in Datas : threadCount[d] = Cardinality(Using(d))

\* how many times objc_sync_enter has returned for this object and not been left
Inside(t, o) ==
  LET cached == Cached(t, o)
      waiting == IF pc[t] = "mutexLock" /\ obj[t] = o THEN 1 ELSE 0
  IN IF cached = {} THEN 0 ELSE lockCount[t][CHOOSE d \in cached : TRUE] - waiting

Abstract == INSTANCE Monitors
              WITH depth <- [t \in Threads |-> [o \in Objs |-> Inside(t, o)]]

\* Every object behaves as if it had a recursive lock of its own, for any reuse of the
\* SyncDatas (objc_sync_enter, objc_sync_exit).
Implements == Abstract!Spec
=============================================================================
