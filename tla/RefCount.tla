------------------------------ MODULE RefCount ------------------------------
(***************************************************************************)
(* The reference count of one object: the inline count in its isa word     *)
(* (objc-object.h, SUPPORT_NONPOINTER_ISA), the overflow count in its side *)
(* table (NSObject.mm), the two algorithms rootRetain and rootRelease that *)
(* move half of the inline range between the two, the transition to a raw  *)
(* isa (changeIsa), one __weak variable that may point to the object, and  *)
(* deallocation.                                                           *)
(*                                                                         *)
(* A thread takes one step per access to shared memory: a load of isa, a   *)
(* compare-and-swap of isa, an acquisition or a release of the side table  *)
(* lock, a read-modify-write of the side table under the lock.             *)
(*                                                                         *)
(* The lock does not know its owner (spinlock_t in objc-os.h), so every    *)
(* unlock below frees it whoever holds it.                                 *)
(***************************************************************************)
EXTENDS Naturals, FiniteSets

CONSTANTS Threads,         \* the threads of the process
          NoThread,        \* "the lock is free"
          RcHalf,          \* RC_HALF: half of the range of isa.extra_rc
          PinnedAt,        \* SIDE_TABLE_RC_PINNED as a count: from here it sticks
          MaxRefs,         \* bound: references outstanding at one time
          Births,          \* the kinds of isa objects are born with: TRUE if non-pointer
          Retainers, Releasers, WeakLoaders, WeakWriters, Changers
                           \* which threads call which operations

ASSUME ThreadsAssumption ==
  /\ IsFiniteSet(Threads) /\ NoThread \notin Threads
  /\ Retainers \subseteq Threads /\ Releasers \subseteq Threads
  /\ WeakLoaders \subseteq Threads /\ WeakWriters \subseteq Threads
  /\ Changers \subseteq Threads
ASSUME CountAssumption ==
  /\ RcHalf \in Nat \ {0} /\ MaxRefs \in Nat \ {0} /\ PinnedAt \in Nat \ {0}
  /\ Births \subseteq BOOLEAN

VARIABLES isa,        \* the isa word, without class and magic
          side,       \* this object's entry of SideTable::refcnts
          lock,       \* the lock of its SideTable
          location,   \* the weak variable holds the object and is registered
          freed,      \* the object's memory went back to the allocator
          owned,      \* ghost: references outstanding in the program
          pc, op,     \* per thread: next statement, operation in progress
          old,        \* per thread: the local oldisa
          stLocked    \* per thread: the local sideTableLocked

vars == <<isa, side, lock, location, freed, owned, pc, op, old, stLocked>>
heap == <<isa, side, location, freed>>

ExtraMax == 2 * RcHalf - 1

IsaWord == [indexed: BOOLEAN, extra_rc: 0..ExtraMax, deallocating: BOOLEAN,
        weakly_referenced: BOOLEAN, has_sidetable_rc: BOOLEAN]
Entry == [present: BOOLEAN, rc: Nat, deallocating: BOOLEAN, weak: BOOLEAN]

RawIsa == [indexed |-> FALSE, extra_rc |-> 0, deallocating |-> FALSE,
           weakly_referenced |-> FALSE, has_sidetable_rc |-> FALSE]
NewIsa(indexed) == [RawIsa EXCEPT !.indexed = indexed]
NoEntry == [present |-> FALSE, rc |-> 0, deallocating |-> FALSE, weak |-> FALSE]

Init ==
  /\ \E indexed \in Births : isa = NewIsa(indexed)
  /\ side = NoEntry /\ lock = NoThread
  /\ location = FALSE /\ freed = FALSE /\ owned = 1
  /\ pc = [t \in Threads |-> "idle"] /\ op = [t \in Threads |-> "none"]
  /\ old = [t \in Threads |-> RawIsa] /\ stLocked = [t \in Threads |-> FALSE]

-----------------------------------------------------------------------------
(* Who may call what. A caller of retain, release, storeWeak or changeIsa  *)
(* holds a reference of its own for the length of the call.                *)

HoldOps == {"retain", "retained", "release", "storeWeak", "changeIsa"}
AddOps == {"retain", "weakLoad"}
Holding == {t \in Threads : op[t] \in HoldOps}
Adding == {t \in Threads : op[t] \in AddOps}
HasSpareRef == owned > Cardinality(Holding)
HasRoom == owned + Cardinality(Adding) < MaxRefs

Goto(t, label) == pc' = [pc EXCEPT ![t] = label]
Become(t, o) == op' = [op EXCEPT ![t] = o]

\* oldisa is a local of each call: nothing of an earlier one is left in it.
Start(t, role, guard, o, label) ==
  /\ t \in role /\ pc[t] = "idle" /\ guard
  /\ Goto(t, label) /\ Become(t, o)
  /\ stLocked' = [stLocked EXCEPT ![t] = FALSE]
  /\ old' = [old EXCEPT ![t] = RawIsa]
  /\ UNCHANGED <<heap, lock, owned>>

StartRetain(t) == Start(t, Retainers, HasSpareRef /\ HasRoom, "retain", "rLoad")
StartRelease(t) == Start(t, Releasers, HasSpareRef, "release", "lLoad")
StartLoadWeak(t) == Start(t, WeakLoaders, location /\ HasRoom, "weakLoad", "wLock")
StartStoreWeak(t) == Start(t, WeakWriters, HasSpareRef, "storeWeak", "sLock")
StartDropWeak(t) == Start(t, WeakWriters, location, "dropWeak", "uLock")
StartChangeIsa(t) == Start(t, Changers, HasSpareRef, "changeIsa", "cLoad")

-----------------------------------------------------------------------------
(* The lock, and the side table entry                                      *)

\* mutant: the lock is taken whether or not it is free
AcquireBusy(t, from, to) ==
  /\ pc[t] = from
  /\ lock' = t /\ Goto(t, to)
  /\ UNCHANGED <<heap, owned, op, old>>

Acquire(t, from, to) ==
  /\ pc[t] = from /\ lock = NoThread
  /\ lock' = t /\ Goto(t, to)
  /\ UNCHANGED <<heap, owned, op, old>>

AcquireForIsa(t, from, to) ==
  Acquire(t, from, to) /\ stLocked' = [stLocked EXCEPT ![t] = TRUE]

AcquirePlain(t, from, to) == Acquire(t, from, to) /\ UNCHANGED stLocked

\* unlock in the middle of an operation, clearing sideTableLocked with it
UnlockAndGoto(t, from, to) ==
  /\ pc[t] = from
  /\ lock' = NoThread /\ Goto(t, to)
  /\ stLocked' = [stLocked EXCEPT ![t] = FALSE]
  /\ UNCHANGED <<heap, owned, op, old>>

\* unlock and return to the caller
Unlock(t) ==
  /\ pc[t] = "unlock"
  /\ lock' = NoThread /\ Goto(t, "idle") /\ Become(t, "none")
  /\ UNCHANGED <<heap, owned, old, stLocked>>

\* StoreExclusive found another isa than oldisa: each loop starts over
CasFails(t) ==
  /\ isa # old[t]
  /\ \/ pc[t] = "rCas" /\ Goto(t, "rLoad")
     \/ pc[t] = "lCas" /\ Goto(t, "lLoad")
     \/ pc[t] = "lDealloc" /\ ~old[t].deallocating /\ Goto(t, "lLoad")
     \/ pc[t] = "sCas" /\ Goto(t, "sLoad")
     \/ pc[t] = "cCas" /\ Goto(t, "cLoad")
  /\ UNCHANGED <<heap, lock, owned, op, old, stLocked>>

Pinned(e) == e.rc >= PinnedAt

\* mutant: an overflow replaces what the side table already holds
AddExtraRCOverwrites(n) == side' = [side EXCEPT !.present = TRUE, !.rc = n]

\* sidetable_addExtraRC_nolock, and the increment of sidetable_retain
AddExtraRC(n) ==
  side' = [side EXCEPT !.present = TRUE,
                       !.rc = IF Pinned(side) THEN @ ELSE @ + n]

\* Deallocation has begun: rootIsDeallocating, and the tests of tryRetain
IsDeallocating == IF isa.indexed THEN isa.deallocating ELSE side.deallocating

\* table.refcnts.end(), or a word of zero
NothingToBorrow == ~side.present \/ side = [NoEntry EXCEPT !.present = TRUE]

-----------------------------------------------------------------------------
(* rootRetain, and rootTryRetain on behalf of objc_loadWeakRetained        *)

Try(t) == op[t] = "weakLoad"

\* mutant: tryRetain does not look at the deallocating flag
TryIgnoresDeallocating(t) == FALSE

TryFails(t) == Try(t) /\ IsDeallocating

Overflow(i) == i.extra_rc = ExtraMax

\* mutant: the overflow is not recorded in isa
IncrementedWithoutFlag(i) ==
  [i EXCEPT !.extra_rc = IF Overflow(i) THEN RcHalf ELSE @ + 1]

Incremented(i) ==
  IF Overflow(i) THEN [i EXCEPT !.extra_rc = RcHalf, !.has_sidetable_rc = TRUE]
                 ELSE [i EXCEPT !.extra_rc = @ + 1]

RetainLoad(t) ==
  /\ pc[t] = "rLoad"
  /\ old' = [old EXCEPT ![t] = isa]
  /\ \/ /\ ~isa.indexed /\ Try(t)
        /\ Goto(t, "stTry")
     \/ /\ ~isa.indexed /\ ~Try(t)
        /\ Goto(t, IF stLocked[t] THEN "rUnlockRaw" ELSE "srLock")
     \/ /\ isa.indexed /\ TryFails(t)
        /\ Goto(t, "unlock")
     \/ /\ isa.indexed /\ ~TryFails(t)
        /\ Goto(t, IF Overflow(isa) /\ ~Try(t) /\ ~stLocked[t] THEN "rLock" ELSE "rCas")
  /\ UNCHANGED <<heap, lock, owned, op, stLocked>>

RetainLock(t) == AcquireForIsa(t, "rLock", "rCas")

RetainCas(t) ==
  /\ pc[t] = "rCas" /\ isa = old[t]
  /\ isa' = Incremented(old[t]) /\ owned' = owned + 1
  /\ IF Overflow(old[t])        THEN Goto(t, "rAdd") /\ Become(t, "retained")
     ELSE IF stLocked[t] \/ Try(t) THEN Goto(t, "unlock") /\ Become(t, "retained")
     ELSE Goto(t, "idle") /\ Become(t, "none")
  /\ UNCHANGED <<side, location, freed, lock, old, stLocked>>

RetainAdd(t) ==
  /\ pc[t] = "rAdd"
  /\ AddExtraRC(RcHalf) /\ Goto(t, "unlock")
  /\ UNCHANGED <<isa, location, freed, lock, owned, op, old, stLocked>>

RetainUnlockRaw(t) == UnlockAndGoto(t, "rUnlockRaw", "srLock")

SideRetainLock(t) == AcquirePlain(t, "srLock", "srOp")

SideRetain(t) ==
  /\ pc[t] = "srOp"
  /\ AddExtraRC(1) /\ owned' = owned + 1
  /\ Goto(t, "unlock") /\ Become(t, "retained")
  /\ UNCHANGED <<isa, location, freed, lock, old, stLocked>>

SideTryRetain(t) ==
  /\ pc[t] = "stTry" /\ Goto(t, "unlock")
  /\ \/ /\ TryFails(t)
        /\ UNCHANGED <<side, owned, op>>
     \/ /\ ~TryFails(t)
        /\ AddExtraRC(1) /\ owned' = owned + 1 /\ Become(t, "retained")
  /\ UNCHANGED <<isa, location, freed, lock, old, stLocked>>

-----------------------------------------------------------------------------
(* objc_loadWeakRetained: tryRetain runs with the side table locked        *)

WeakLock(t) == AcquirePlain(t, "wLock", "wCheck")

WeakCheck(t) ==
  /\ pc[t] = "wCheck"
  /\ Goto(t, IF location THEN "rLoad" ELSE "unlock")
  /\ UNCHANGED <<heap, lock, owned, op, old, stLocked>>

-----------------------------------------------------------------------------
(* rootRelease                                                             *)

Drop(t, o) == owned' = owned - 1 /\ Become(t, o)

ReleaseLoad(t) ==
  /\ pc[t] = "lLoad"
  /\ old' = [old EXCEPT ![t] = isa]
  /\ \/ /\ ~isa.indexed
        /\ Goto(t, IF stLocked[t] THEN "lUnlockRaw" ELSE "slLock")
     \/ /\ isa.indexed /\ isa.extra_rc > 0
        /\ Goto(t, "lCas")
     \/ /\ isa.indexed /\ isa.extra_rc = 0 /\ isa.has_sidetable_rc
        /\ Goto(t, IF stLocked[t] THEN "lBorrow" ELSE "lLock")
     \/ /\ isa.indexed /\ isa.extra_rc = 0 /\ ~isa.has_sidetable_rc
        /\ Goto(t, IF stLocked[t] THEN "lUnlockDealloc" ELSE "lDealloc")
  /\ UNCHANGED <<heap, lock, owned, op, stLocked>>

ReleaseCas(t) ==
  /\ pc[t] = "lCas" /\ isa = old[t]
  /\ isa' = [old[t] EXCEPT !.extra_rc = @ - 1] /\ Drop(t, "none")
  /\ Goto(t, IF stLocked[t] THEN "unlock" ELSE "idle")
  /\ UNCHANGED <<side, location, freed, lock, old, stLocked>>

ReleaseLock(t) == AcquireForIsa(t, "lLock", "lCheck")

ReleaseCheck(t) ==
  /\ pc[t] = "lCheck"
  /\ Goto(t, IF isa.indexed THEN "lBorrow" ELSE "lUnlockRaw")
  /\ UNCHANGED <<heap, lock, owned, op, old, stLocked>>

ReleaseBorrow(t) ==
  /\ pc[t] = "lBorrow"
  /\ \/ /\ NothingToBorrow
        /\ Goto(t, "lUnlockDealloc") /\ UNCHANGED side
     \/ /\ ~NothingToBorrow
        /\ side' = [side EXCEPT !.rc = @ - RcHalf] /\ Goto(t, "lStore")
  /\ UNCHANGED <<isa, location, freed, lock, owned, op, old, stLocked>>

\* the borrowed references, one of them released, become the inline count
ReleaseStore(t) ==
  /\ pc[t] \in {"lStore", "lStore2"} /\ isa = old[t]
  /\ isa' = [old[t] EXCEPT !.extra_rc = (IF pc[t] = "lStore" THEN 0 ELSE @) + RcHalf - 1]
  /\ Drop(t, "none") /\ Goto(t, "unlock")
  /\ UNCHANGED <<side, location, freed, lock, old, stLocked>>

ReleaseStoreFails(t) ==
  /\ pc[t] \in {"lStore", "lStore2"} /\ isa # old[t]
  /\ Goto(t, IF pc[t] = "lStore" THEN "lReload" ELSE "lPutBack")
  /\ UNCHANGED <<heap, lock, owned, op, old, stLocked>>

ReleaseReload(t) ==
  /\ pc[t] = "lReload"
  /\ old' = [old EXCEPT ![t] = isa]
  /\ Goto(t, IF isa.indexed /\ isa.extra_rc + RcHalf - 1 <= ExtraMax
             THEN "lStore2" ELSE "lPutBack")
  /\ UNCHANGED <<heap, lock, owned, op, stLocked>>

ReleasePutBack(t) ==
  /\ pc[t] = "lPutBack"
  /\ AddExtraRC(RcHalf) /\ Goto(t, "lLoad")
  /\ UNCHANGED <<isa, location, freed, lock, owned, op, old, stLocked>>

\* line 728: the lock goes, sideTableLocked stays TRUE
ReleaseUnlockDealloc(t) ==
  /\ pc[t] = "lUnlockDealloc"
  /\ lock' = NoThread /\ Goto(t, "lDealloc")
  /\ UNCHANGED <<heap, owned, op, old, stLocked>>

ReleaseDealloc(t) ==
  /\ pc[t] = "lDealloc"
  /\ \/ /\ old[t].deallocating               \* overrelease_error()
        /\ Drop(t, "none") /\ Goto(t, "idle") /\ UNCHANGED isa
     \/ /\ ~old[t].deallocating /\ isa = old[t]
        /\ isa' = [old[t] EXCEPT !.deallocating = TRUE]
        /\ Drop(t, "dealloc") /\ Goto(t, "dealloc")
  /\ UNCHANGED <<side, location, freed, lock, old, stLocked>>

ReleaseUnlockRaw(t) == UnlockAndGoto(t, "lUnlockRaw", "slLock")

SideReleaseLock(t) == AcquirePlain(t, "slLock", "slOp")

\* mutants: an off-by-one that deallocates with a reference left, and one that
\* misses an entry of zero
LastReferenceEarly == ~side.present \/ (side.rc <= 1 /\ ~side.deallocating)
LastReferenceMissesZero == ~side.present

\* it->second < SIDE_TABLE_DEALLOCATING, or no entry at all
LastReference == ~side.present \/ (side.rc = 0 /\ ~side.deallocating)

\* mutant: a pinned count is decremented
DecrementedPinned == side.rc - 1

Decremented == IF Pinned(side) THEN side.rc ELSE side.rc - 1

SideRelease(t) ==
  /\ pc[t] = "slOp"
  /\ \/ /\ LastReference
        /\ side' = [side EXCEPT !.present = TRUE, !.deallocating = TRUE]
        /\ Drop(t, "dealloc") /\ Goto(t, "slUnlock")
     \/ /\ ~LastReference
        /\ side' = [side EXCEPT !.rc = Decremented]
        /\ Drop(t, "none") /\ Goto(t, "unlock")
  /\ UNCHANGED <<isa, location, freed, lock, old, stLocked>>

\* mutant: sends -dealloc with the side table still locked
SideReleaseKeepsLock(t) ==
  /\ pc[t] = "slUnlock" /\ Goto(t, "dealloc")
  /\ UNCHANGED <<heap, lock, owned, op, old, stLocked>>

SideReleaseUnlock(t) == UnlockAndGoto(t, "slUnlock", "dealloc")

-----------------------------------------------------------------------------
(* rootDealloc, clearDeallocating                                          *)

Free(t) ==
  /\ freed' = TRUE /\ Goto(t, "idle") /\ Become(t, "none")
  /\ UNCHANGED <<isa, side, location, lock, owned, old, stLocked>>

\* mutant: an object with a raw isa is freed without a look at the side table
NeedsClearingIfIndexed == isa.weakly_referenced \/ isa.has_sidetable_rc

NeedsClearing == ~isa.indexed \/ isa.weakly_referenced \/ isa.has_sidetable_rc

RootDealloc(t) == pc[t] = "dealloc" /\ ~NeedsClearing /\ Free(t)

ClearLock(t) == NeedsClearing /\ AcquirePlain(t, "dealloc", "dClear")

Clear(t) ==
  /\ pc[t] = "dClear" /\ Goto(t, "dUnlock")
  /\ location' = (location /\ ~IF isa.indexed THEN isa.weakly_referenced ELSE side.weak)
  /\ side' = IF isa.indexed /\ ~isa.has_sidetable_rc THEN side ELSE NoEntry
  /\ UNCHANGED <<isa, freed, lock, owned, op, old, stLocked>>

ClearUnlock(t) == UnlockAndGoto(t, "dUnlock", "dFree")

Dispose(t) == pc[t] = "dFree" /\ Free(t)

-----------------------------------------------------------------------------
(* storeWeak: registering (HaveNew), and unregistering (HaveOld)           *)

StoreWeakLock(t) == AcquirePlain(t, "sLock", "sReg")

StoreWeakRegister(t) ==
  /\ pc[t] = "sReg"
  /\ location' = ~IsDeallocating
  /\ Goto(t, IF IsDeallocating THEN "unlock" ELSE "sLoad")
  /\ UNCHANGED <<isa, side, freed, lock, owned, op, old, stLocked>>

SetWeaklyReferenced(t) ==
  /\ pc[t] = "sLoad"
  /\ old' = [old EXCEPT ![t] = isa]
  /\ side' = IF isa.indexed THEN side ELSE [side EXCEPT !.present = TRUE, !.weak = TRUE]
  /\ Goto(t, IF isa.indexed /\ ~isa.weakly_referenced THEN "sCas" ELSE "unlock")
  /\ UNCHANGED <<isa, location, freed, lock, owned, op, stLocked>>

SetWeaklyReferencedCas(t) ==
  /\ pc[t] = "sCas" /\ isa = old[t]
  /\ isa' = [old[t] EXCEPT !.weakly_referenced = TRUE] /\ Goto(t, "unlock")
  /\ UNCHANGED <<side, location, freed, lock, owned, op, old, stLocked>>

DropWeakLock(t) == AcquirePlain(t, "uLock", "uOp")

DropWeak(t) ==
  /\ pc[t] = "uOp"
  /\ location' = FALSE /\ Goto(t, "unlock")
  /\ UNCHANGED <<isa, side, freed, lock, owned, op, old, stLocked>>

-----------------------------------------------------------------------------
(* changeIsa to a class whose instances need a raw isa                     *)

ChangeIsaLoad(t) ==
  /\ pc[t] = "cLoad"
  /\ old' = [old EXCEPT ![t] = isa]
  /\ \/ /\ isa.indexed
        /\ Goto(t, IF stLocked[t] THEN "cCas" ELSE "cLock") /\ UNCHANGED op
     \/ /\ ~isa.indexed /\ stLocked[t]       \* raw already: only the class changes
        /\ Goto(t, "unlock") /\ UNCHANGED op
     \/ /\ ~isa.indexed /\ ~stLocked[t]
        /\ Goto(t, "idle") /\ Become(t, "none")
  /\ UNCHANGED <<heap, lock, owned, stLocked>>

ChangeIsaLock(t) == AcquireForIsa(t, "cLock", "cCas")

ChangeIsaCas(t) ==
  /\ pc[t] = "cCas" /\ isa = old[t]
  /\ isa' = RawIsa /\ Goto(t, "cMove")
  /\ UNCHANGED <<side, location, freed, lock, owned, op, old, stLocked>>

\* sidetable_moveExtraRC_nolock
ChangeIsaMove(t) ==
  /\ pc[t] = "cMove"
  /\ side' = [present |-> TRUE, rc |-> side.rc + old[t].extra_rc,
              deallocating |-> side.deallocating \/ old[t].deallocating,
              weak |-> side.weak \/ old[t].weakly_referenced]
  /\ Goto(t, "unlock")
  /\ UNCHANGED <<isa, location, freed, lock, owned, op, old, stLocked>>

-----------------------------------------------------------------------------
Starts(t) ==
  \/ StartRetain(t) \/ StartRelease(t) \/ StartLoadWeak(t)
  \/ StartStoreWeak(t) \/ StartDropWeak(t) \/ StartChangeIsa(t)

Locks(t) ==
  \/ RetainLock(t) \/ SideRetainLock(t) \/ WeakLock(t) \/ ReleaseLock(t)
  \/ SideReleaseLock(t) \/ ClearLock(t) \/ StoreWeakLock(t) \/ DropWeakLock(t)
  \/ ChangeIsaLock(t)

Retains(t) ==
  \/ RetainLoad(t) \/ RetainCas(t) \/ RetainAdd(t)
  \/ RetainUnlockRaw(t) \/ SideRetain(t) \/ SideTryRetain(t) \/ WeakCheck(t)

Releases(t) ==
  \/ ReleaseLoad(t) \/ ReleaseCas(t) \/ ReleaseCheck(t)
  \/ ReleaseBorrow(t) \/ ReleaseStore(t) \/ ReleaseStoreFails(t)
  \/ ReleaseReload(t) \/ ReleasePutBack(t) \/ ReleaseUnlockDealloc(t)
  \/ ReleaseDealloc(t) \/ ReleaseUnlockRaw(t) \/ SideRelease(t)
  \/ SideReleaseUnlock(t)

Others(t) ==
  \/ RootDealloc(t) \/ Clear(t) \/ ClearUnlock(t) \/ Dispose(t)
  \/ StoreWeakRegister(t) \/ SetWeaklyReferenced(t) \/ SetWeaklyReferencedCas(t)
  \/ DropWeak(t) \/ ChangeIsaLoad(t) \/ ChangeIsaCas(t) \/ ChangeIsaMove(t)

Next ==
  \E t \in Threads :
    \/ Starts(t) \/ Locks(t) \/ Unlock(t) \/ CasFails(t)
    \/ Retains(t) \/ Releases(t) \/ Others(t)

Spec == Init /\ [][Next]_vars

\* A thread inside the runtime keeps running. The side table lock is an OSSpinLock
\* (objc-os.h:121-136): it has no queue, so that it is an assumption about the lock and
\* the scheduler that a spinning thread which finds it free over and over takes it.
Fairness ==
  \A t \in Threads :
    /\ WF_vars(Unlock(t) \/ CasFails(t) \/ Retains(t) \/ Releases(t) \/ Others(t))
    /\ SF_vars(Locks(t))

-----------------------------------------------------------------------------
Labels == {"idle", "rLoad", "rLock", "rCas", "rAdd", "rUnlockRaw", "srLock", "srOp",
  "stTry", "wLock", "wCheck", "unlock", "lLoad", "lCas", "lLock", "lCheck", "lBorrow",
  "lStore", "lReload", "lStore2", "lPutBack", "lUnlockDealloc", "lDealloc",
  "lUnlockRaw", "slLock", "slOp", "slUnlock", "dealloc", "dClear", "dUnlock", "dFree",
  "sLock", "sReg", "sLoad", "sCas", "uLock", "uOp", "cLoad", "cLock", "cCas", "cMove"}
Ops == {"none", "retain", "retained", "weakLoad", "release", "dealloc", "storeWeak",
  "dropWeak", "changeIsa"}

TypeOK ==
  /\ isa \in IsaWord /\ side \in Entry /\ lock \in Threads \cup {NoThread}
  /\ location \in BOOLEAN /\ freed \in BOOLEAN /\ owned \in Nat
  /\ pc \in [Threads -> Labels] /\ op \in [Threads -> Ops]
  /\ old \in [Threads -> IsaWord] /\ stLocked \in [Threads -> BOOLEAN]

(* Properties                                                              *)

\* The thread is between a lock() and its unlock(). The labels shared by
\* locked and unlocked passes hold the lock when sideTableLocked says so, or
\* when objc_loadWeakRetained locked around rootTryRetain.
HoldLabels == {"rAdd", "rUnlockRaw", "srOp", "stTry", "wCheck", "unlock", "lCheck",
  "lBorrow", "lStore", "lReload", "lStore2", "lPutBack", "lUnlockDealloc", "lUnlockRaw",
  "slOp", "slUnlock", "dClear", "dUnlock", "sReg", "sLoad", "sCas", "uOp", "cMove"}
SharedLabels == {"rLoad", "rCas", "lLoad", "lCas", "cLoad", "cCas"}

InCriticalSection(t) ==
  \/ pc[t] \in HoldLabels
  \/ pc[t] \in SharedLabels /\ (stLocked[t] \/ Try(t))

\* The side table lock excludes: a thread inside a critical section is the one
\* the lock was given to, so no two threads are inside (spinlock_t, objc-os.h:249).
MutualExclusion == \A t \in Threads : InCriticalSection(t) => lock = t

\* Two threads are never both about to read or write the side table's maps, which
\* nothing but its lock protects: at any time one thread has a spinlock (objc-os.h:249).
SideTableExclusive ==
  Cardinality({t \in Threads : pc[t] \in {"rAdd", "srOp", "stTry", "lBorrow", "lPutBack",
                  "slOp", "dClear", "sReg", "uOp", "cMove"}}) <= 1

\* References on their way between the two counts: the thread that holds the
\* lock has written one of the two and not yet the other.
InTransit ==
  IF lock = NoThread THEN 0
  ELSE IF pc[lock] \in {"rAdd", "lStore", "lReload", "lStore2", "lPutBack"} THEN RcHalf
  ELSE IF pc[lock] = "cMove" THEN old[lock].extra_rc
  ELSE 0

Count == 1 + isa.extra_rc + side.rc + InTransit

\* Deallocation has begun; clearDeallocating erases the side table's own record.
Dying == IsDeallocating \/ freed \/ \E t \in Threads : pc[t] \in {"dUnlock", "dFree"}

\* No reference is lost or made up: until the object deallocates, the inline
\* count, the side table count and the references in transit between the two are
\* the references the program holds (rootRetain, rootRelease, changeIsa). A pinned
\* count has stopped counting.
CountIsExact == ~Dying /\ ~Pinned(side) => Count = owned

\* Deallocation begins only when no reference is left: at that point the inline
\* count is zero and the side table is "empty after all" (objc-object.h:720-739).
NoPrematureDealloc == Dying => owned = 0

\* No thread is at a statement that reads or writes the object, or its side table
\* entry, once the object is freed (retain, release, weak load and store, changeIsa).
NoUseAfterFree ==
  freed => \A t \in Threads : pc[t] \in {"idle", "wLock", "wCheck", "uLock", "uOp", "unlock"}

\* A freed object leaves no side table entry and no weak variable pointing to it
\* (objc-object.h:393 and 413 assert the same of one thread).
ClearedBeforeFree == freed => ~side.present /\ ~location

\* The two-level count, its lock and its retries implement one atomic count, with
\* deallocation begun by the last release and by no other step.
Abstract == INSTANCE AtomicRefCount WITH count <- IF Dying THEN 0 ELSE Count
Implements == Abstract!Spec

\* Every retain and release of the thread that releases returns, however the weak loads,
\* the stores and the changes of isa of others contend for the side table lock; and an
\* object whose last reference is gone is freed, though weak loads that find it dying
\* come and go while it waits for the lock to be cleared (rootRetain to rootDealloc).
DroppedIsFreed ==
  /\ \A t \in Releasers : (pc[t] # "idle") ~> (pc[t] = "idle")
  /\ (owned = 0) ~> freed
=============================================================================
