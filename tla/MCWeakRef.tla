----------------------------- MODULE MCWeakRef ------------------------------
(***************************************************************************)
(* Weak references on small instances: threads that use __weak variables   *)
(* (WeakRef), and the table behind them (WeakTable). The operations of the *)
(* table are atomic, being under the side table's lock, and WeakRef has    *)
(* what it is to keep; so each part is explored by itself: a behaviour is  *)
(* one of the part chosen at first.                                        *)
(***************************************************************************)
EXTENDS WeakRef, WeakTable, TLC

CONSTANTS o1, o2

VARIABLE part

\* two side tables; nil is in the table of the first object
TwoStripes == [p \in {o1, o2, Nil} |-> IF p = o2 THEN 2 ELSE 1]

MCSymmetry == Permutations(Threads) \cup Permutations(Locs)

\* five variables may refer to the first object, one of seven to each of the others
MCWatchers == [o \in Referents |-> IF o = 1 THEN 1 .. 5 ELSE {o}]
MCHashReferent == <<3, 3, 7, 7, 5, 1, 2>>
MCHashReferrer == [r \in Referrers |-> IF r <= 3 THEN 3 ELSE 7]

\* many objects with one weak reference each, or few with more
FewWatched ==
  LET count_of(o) == Cardinality({r \in Referrers : watching[r] = o})
  IN (\A o \in Referents : count_of(o) <= 1) \/ (\A o \in Referents : o > 2 => count_of(o) = 0)

MCInit == Init /\ InitWeakTable /\ part \in {"threads", "weak_table"}

OnlyThreads   == part = "threads" /\ UNCHANGED <<part, weak>>
OnlyWeakTable == part = "weak_table" /\ UNCHANGED <<part, vars>>

Threading(t) ==
  \/ \E l \in Locs, o \in Pointers : OnlyThreads /\ Store(t, l, o)
  \/ \E l \in Locs, o \in Objs : OnlyThreads /\ InitWeak(t, l, o)
  \/ \E l \in Locs : OnlyThreads /\ InitWeakNil(t, l)
  \/ \E l \in Locs : OnlyThreads /\ DestroyWeak(t, l)
  \/ \E l \in Locs : OnlyThreads /\ LoadWeak(t, l)
  \/ \E l, s \in Locs : OnlyThreads /\ CopyWeak(t, l, s)
  \/ \E l, s \in Locs : OnlyThreads /\ MoveWeak(t, l, s)
  \/ \E o \in Objs : OnlyThreads /\ Release(t, o)
  \/ OnlyThreads /\ Read(t)
  \/ OnlyThreads /\ LockTables(t)
  \/ OnlyThreads /\ Check(t)
  \/ OnlyThreads /\ Initialize(t)
  \/ OnlyThreads /\ Unregister(t)
  \/ OnlyThreads /\ Register(t)
  \/ OnlyThreads /\ SetWeaklyReferenced(t)
  \/ OnlyThreads /\ Write(t)
  \/ OnlyThreads /\ LoadRead(t)
  \/ OnlyThreads /\ LoadLock(t)
  \/ OnlyThreads /\ LoadCheck(t)
  \/ OnlyThreads /\ LoadTry(t)
  \/ OnlyThreads /\ MoveClear(t)
  \/ OnlyThreads /\ CopyRelease(t)
  \/ OnlyThreads /\ RootDealloc(t)
  \/ OnlyThreads /\ ClearLock(t)
  \/ OnlyThreads /\ Clear(t)
  \/ OnlyThreads /\ Dispose(t)

MCNext ==
  \/ \E t \in Threads : Threading(t)
  \/ \E o \in Referents : OnlyWeakTable /\ ClearReferent(o)
  \/ \E o \in Referents, r \in Referrers :
       OnlyWeakTable /\ RegisterReferrer(o, r) /\ FewWatched'
  \/ \E o \in Referents, r \in Referrers : OnlyWeakTable /\ UnregisterReferrer(o, r)

MCSpec == MCInit /\ [][MCNext]_<<part, vars, weak>>
=============================================================================
