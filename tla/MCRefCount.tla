----------------------------- MODULE MCRefCount -----------------------------
(* RefCount on small instances; the .cfg files give the constants. A       *)
(* constant variable says what program runs: any, one that retains often   *)
(* enough for the inline count to overflow and has no weak loads, or one   *)
(* that loads weakly as often as it likes while the inline count suffices. *)
(* A weak load during a borrow leads to what the run of a double unlock    *)
(* shows, with a single releasing thread too.                              *)
EXTENDS RefCount, TLC

CONSTANT Programs   \* a subset of {"any", "overflows", "loads"}
VARIABLE program

MCVars == <<vars, program>>

\* Where every thread has every role, threads are interchangeable.
ThreadSymmetry == Permutations(Threads)

\* what the references held, and those about to be taken, add up to
Taken == owned + Cardinality(Adding)

\* What the program keeps to. It bounds only which calls begin.
InProgram ==
  /\ program = "overflows" => \A t \in Threads : op[t] # "weakLoad"
  /\ program = "loads" => Taken <= 1 + ExtraMax

MCInit == Init /\ program \in Programs

Kept == UNCHANGED program

Starting(t) ==
  \/ Kept /\ StartRetain(t) /\ InProgram'
  \/ Kept /\ StartRelease(t) /\ InProgram'
  \/ Kept /\ StartLoadWeak(t) /\ InProgram'
  \/ Kept /\ StartStoreWeak(t) /\ InProgram'
  \/ Kept /\ StartDropWeak(t) /\ InProgram'
  \/ Kept /\ StartChangeIsa(t) /\ InProgram'

Locking(t) ==
  \/ Kept /\ RetainLock(t)
  \/ Kept /\ SideRetainLock(t)
  \/ Kept /\ WeakLock(t)
  \/ Kept /\ ReleaseLock(t)
  \/ Kept /\ SideReleaseLock(t)
  \/ Kept /\ ClearLock(t)
  \/ Kept /\ StoreWeakLock(t)
  \/ Kept /\ DropWeakLock(t)
  \/ Kept /\ ChangeIsaLock(t)
  \/ Kept /\ Unlock(t)
  \/ Kept /\ CasFails(t)

Retaining(t) ==
  \/ Kept /\ RetainLoad(t)
  \/ Kept /\ RetainCas(t)
  \/ Kept /\ RetainAdd(t)
  \/ Kept /\ RetainUnlockRaw(t)
  \/ Kept /\ SideRetain(t)
  \/ Kept /\ SideTryRetain(t)
  \/ Kept /\ WeakCheck(t)

Releasing(t) ==
  \/ Kept /\ ReleaseLoad(t)
  \/ Kept /\ ReleaseCas(t)
  \/ Kept /\ ReleaseCheck(t)
  \/ Kept /\ ReleaseBorrow(t)
  \/ Kept /\ ReleaseStore(t)
  \/ Kept /\ ReleaseStoreFails(t)
  \/ Kept /\ ReleaseReload(t)
  \/ Kept /\ ReleasePutBack(t)
  \/ Kept /\ ReleaseUnlockDealloc(t)
  \/ Kept /\ ReleaseDealloc(t)
  \/ Kept /\ ReleaseUnlockRaw(t)
  \/ Kept /\ SideRelease(t)
  \/ Kept /\ SideReleaseUnlock(t)

Doing(t) ==
  \/ Kept /\ RootDealloc(t)
  \/ Kept /\ Clear(t)
  \/ Kept /\ ClearUnlock(t)
  \/ Kept /\ Dispose(t)
  \/ Kept /\ StoreWeakRegister(t)
  \/ Kept /\ SetWeaklyReferenced(t)
  \/ Kept /\ SetWeaklyReferencedCas(t)
  \/ Kept /\ DropWeak(t)
  \/ Kept /\ ChangeIsaLoad(t)
  \/ Kept /\ ChangeIsaCas(t)
  \/ Kept /\ ChangeIsaMove(t)

MCNext ==
  \E t \in Threads :
    Starting(t) \/ Locking(t) \/ Retaining(t) \/ Releasing(t) \/ Doing(t)

MCSpec     == MCInit /\ [][MCNext]_MCVars
MCFairSpec == MCSpec /\ Fairness
=============================================================================
