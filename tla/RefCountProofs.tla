--------------------------- MODULE RefCountProofs ---------------------------
(***************************************************************************)
(* Proofs about RefCount, for any number of threads in any roles and for   *)
(* every value of the bounds.                                              *)
(*                                                                         *)
(* They assume InlineOnly: the object is born with a raw isa, or its count *)
(* never needs more than the inline field. Without it NoPrematureDealloc   *)
(* and MutualExclusion do not hold of this code (runs early_dealloc and    *)
(* double_unlock); a single releaser with overflow stays with TLC.         *)
(*                                                                         *)
(* IInv is the inductive invariant. The shared part of it is carried over  *)
(* the steps that do not touch the object by QuietStep; each step that     *)
(* does has a lemma of its own, which first says what the step did (<1>e). *)
(*                                                                         *)
(* The last part is about the table that side table entries are in         *)
(* (DenseMap): after any operations it holds the counts stored last. It    *)
(* assumes nothing of InlineOnly.                                          *)
(***************************************************************************)
EXTENDS RefCount, DenseMap, DataFacts

\* Some object is born with a non-pointer isa.
MayBeIndexed == TRUE \in Births

InlineOnly == ~MayBeIndexed \/ MaxRefs <= 2 * RcHalf

\* Statements that only an overflow, or a borrow from the side table, reaches.
OverflowLabels == {"rLock", "rAdd", "rUnlockRaw", "lLock", "lCheck", "lBorrow", "lStore",
  "lReload", "lStore2", "lPutBack", "lUnlockDealloc", "lUnlockRaw"}

\* Where a thread is determines what it is doing.
ControlInv ==
  \A t \in Threads :
    /\ pc[t] \notin OverflowLabels
    /\ pc[t] = "idle" => op[t] = "none"
    /\ pc[t] \in {"rLoad", "rCas"} => op[t] \in {"retain", "weakLoad"} /\ ~stLocked[t]
    /\ pc[t] \in {"srLock", "srOp"} => op[t] = "retain"
    /\ pc[t] \in {"wLock", "wCheck", "stTry"} => op[t] = "weakLoad" /\ ~stLocked[t]
    /\ pc[t] \in {"lLoad", "lCas", "lDealloc", "slLock", "slOp"}
         => op[t] = "release" /\ ~stLocked[t]
    /\ op[t] = "dealloc" <=> pc[t] \in {"slUnlock", "dealloc", "dClear", "dUnlock", "dFree"}
    /\ pc[t] \in {"sLock", "sReg", "sLoad", "sCas"} => op[t] = "storeWeak"
    /\ pc[t] \in {"uLock", "uOp"} => op[t] = "dropWeak"
    /\ pc[t] \in {"cLoad", "cLock", "cCas", "cMove"} => op[t] = "changeIsa"
    /\ pc[t] = "cCas" => stLocked[t]
    /\ pc[t] \in {"srLock", "srOp", "stTry", "slLock", "slOp", "slUnlock"} => ~isa.indexed

\* What a thread's oldisa says while it is about to use it.
OldInv ==
  \A t \in Threads :
    /\ pc[t] \in {"rCas", "lCas", "lDealloc", "sCas", "cLock", "cCas"} => old[t].indexed
    /\ pc[t] = "rCas" => ~old[t].deallocating
    /\ pc[t] = "lCas" => old[t].extra_rc > 0
    /\ pc[t] = "lDealloc" => old[t].extra_rc = 0 /\ ~old[t].deallocating

\* The two representations of the count: one of them is unused.
ShapeInv ==
  /\ ~isa.has_sidetable_rc
  /\ isa.indexed => side = NoEntry /\ MayBeIndexed
  /\ ~isa.indexed => isa = RawIsa
  /\ ~side.present => side = NoEntry
  /\ \A t \in Threads : pc[t] = "cMove" => /\ ~isa.indexed /\ side = NoEntry
                                           /\ ~old[t].deallocating

\* References outstanding cover the callers that need one, and stay in the bound.
RefsInv == Cardinality(Holding) <= owned /\ owned + Cardinality(Adding) <= MaxRefs

\* One thread deallocates, after the flag is set and until the memory is freed.
DeallocInv ==
  /\ \A t, u \in Threads : op[t] = "dealloc" /\ op[u] = "dealloc" => t = u
  /\ \A t \in Threads : pc[t] \in {"slUnlock", "dealloc", "dClear"} => IsDeallocating
  /\ freed => \A t \in Threads : op[t] # "dealloc"

\* A registered weak variable is flagged, and so cleared before the end; the side
\* table entry is erased with it.
WeakInv ==
  /\ location => \/ isa.weakly_referenced \/ side.weak
                 \/ \E t \in Threads : pc[t] \in {"sLoad", "sCas"}
                 \/ \E t \in Threads : pc[t] = "cMove" /\ old[t].weakly_referenced
  /\ location \/ side.present => ~freed /\ \A t \in Threads : pc[t] \notin {"dUnlock", "dFree"}
  /\ \A t \in Threads : pc[t] \in {"rLoad", "rCas", "stTry"} /\ Try(t) => location

IInv ==
  /\ TypeOK /\ ControlInv /\ MutualExclusion /\ OldInv /\ ShapeInv /\ RefsInv
  /\ CountIsExact /\ NoPrematureDealloc /\ DeallocInv /\ WeakInv
-----------------------------------------------------------------------------
(* Counting threads                                                        *)

\* A set of threads that gains or loses one member changes size by one.
LEMMA OneMore ==
  ASSUME NEW S \in SUBSET Threads, NEW t \in Threads
  PROVE  /\ Cardinality(S) \in Nat
         /\ Cardinality(S \cup {t}) = IF t \in S THEN Cardinality(S) ELSE Cardinality(S) + 1
         /\ Cardinality(S \ {t}) = IF t \in S THEN Cardinality(S) - 1 ELSE Cardinality(S)
<1>1. IsFiniteSet(S)
  BY FS_Subset, ThreadsAssumption
<1> QED
  BY <1>1, FS_CardinalityType, FS_AddElement, FS_RemoveElement

\* the contribution of one thread to the number of those in an operation of S
One(o, S) == IF o \in S THEN 1 ELSE 0

\* How a change of one thread's operation changes the two sets of callers.
LEMMA CallersStep ==
  ASSUME NEW t \in Threads, NEW o \in Ops, op \in [Threads -> Ops], Become(t, o)
  PROVE  /\ Cardinality(Holding) \in Nat /\ Cardinality(Adding) \in Nat
         /\ Cardinality(Holding') =
              Cardinality(Holding) - One(op[t], HoldOps) + One(o, HoldOps)
         /\ Cardinality(Adding') =
              Cardinality(Adding) - One(op[t], AddOps) + One(o, AddOps)
<1>1. Holding' = IF o \in HoldOps THEN Holding \cup {t} ELSE Holding \ {t}
  BY DEF Holding, HoldOps, Become
<1>2. Adding' = IF o \in AddOps THEN Adding \cup {t} ELSE Adding \ {t}
  BY DEF Adding, AddOps, Become
<1>3. Holding \in SUBSET Threads /\ Adding \in SUBSET Threads
  BY DEF Holding, Adding
<1>4. (t \in Holding <=> op[t] \in HoldOps) /\ (t \in Adding <=> op[t] \in AddOps)
  BY DEF Holding, Adding
<1>5. /\ Cardinality(Holding) \in Nat
      /\ Cardinality(Holding \cup {t}) =
           IF t \in Holding THEN Cardinality(Holding) ELSE Cardinality(Holding) + 1
      /\ Cardinality(Holding \ {t}) =
           IF t \in Holding THEN Cardinality(Holding) - 1 ELSE Cardinality(Holding)
  BY <1>3, OneMore
<1>6. /\ Cardinality(Adding) \in Nat
      /\ Cardinality(Adding \cup {t}) =
           IF t \in Adding THEN Cardinality(Adding) ELSE Cardinality(Adding) + 1
      /\ Cardinality(Adding \ {t}) =
           IF t \in Adding THEN Cardinality(Adding) - 1 ELSE Cardinality(Adding)
  BY <1>3, OneMore
<1> QED
  BY <1>1, <1>2, <1>4, <1>5, <1>6 DEF One

\* A thread inside a call that needs a reference means one is outstanding, and a
\* thread about to add one means there is room for it.
LEMMA CallerOwns ==
  ASSUME TypeOK, RefsInv, NEW t \in Threads
  PROVE  /\ op[t] \in HoldOps => owned > 0
         /\ op[t] \in AddOps => owned < MaxRefs
<1>1. Holding \in SUBSET Threads /\ Adding \in SUBSET Threads
  BY DEF Holding, Adding
<1>2. /\ Cardinality(Holding) \in Nat /\ Cardinality(Holding \ {t}) \in Nat
      /\ Cardinality(Adding) \in Nat /\ Cardinality(Adding \ {t}) \in Nat
  BY <1>1, OneMore
<1>3. op[t] \in HoldOps => Cardinality(Holding \ {t}) = Cardinality(Holding) - 1
  BY <1>1, OneMore DEF Holding
<1>4. op[t] \in AddOps => Cardinality(Adding \ {t}) = Cardinality(Adding) - 1
  BY <1>1, OneMore DEF Adding
<1> QED
  BY <1>2, <1>3, <1>4, CountAssumption DEF RefsInv, TypeOK

\* A step changes one thread's operation and the count of references: the callers
\* stay covered, and in the bound, when the two changes agree.
LEMMA RefsStep ==
  ASSUME TypeOK, RefsInv, NEW t \in Threads, NEW o \in Ops, Become(t, o), owned' \in Nat,
         One(o, HoldOps) - One(op[t], HoldOps) <= owned' - owned,
         owned' - owned <= One(op[t], AddOps) - One(o, AddOps)
  PROVE  RefsInv'
<1>1. op \in [Threads -> Ops] /\ owned \in Nat
  BY DEF TypeOK
<1>2. /\ Cardinality(Holding) \in Nat /\ Cardinality(Adding) \in Nat
      /\ Cardinality(Holding') = Cardinality(Holding) - One(op[t], HoldOps) + One(o, HoldOps)
      /\ Cardinality(Adding') = Cardinality(Adding) - One(op[t], AddOps) + One(o, AddOps)
  BY <1>1, CallersStep
<1>3. /\ One(o, HoldOps) \in Nat /\ One(op[t], HoldOps) \in Nat
      /\ One(o, AddOps) \in Nat /\ One(op[t], AddOps) \in Nat
  BY DEF One
<1>4. MaxRefs \in Nat /\ Cardinality(Holding) <= owned /\ owned + Cardinality(Adding) <= MaxRefs
  BY CountAssumption DEF RefsInv
<1>5. Cardinality(Holding') <= owned' /\ owned' + Cardinality(Adding') <= MaxRefs
  BY <1>1, <1>2, <1>3, <1>4
<1> QED
  BY <1>5 DEF RefsInv

-----------------------------------------------------------------------------
(* Consequences of the invariant                                           *)

\* While the object lives, nothing is in transit but an isa word on its way to a
\* raw isa, and an indexed object's references are all inline.
LEMMA CountNow ==
  ASSUME IInv, ~Dying
  PROVE  /\ ~Pinned(side) => owned = 1 + isa.extra_rc + side.rc + InTransit
         /\ InTransit = IF lock # NoThread /\ pc[lock] = "cMove" THEN old[lock].extra_rc ELSE 0
         /\ isa.indexed => InTransit = 0 /\ side.rc = 0 /\ owned = 1 + isa.extra_rc
<1>1. InTransit = IF lock # NoThread /\ pc[lock] = "cMove" THEN old[lock].extra_rc ELSE 0
  BY DEF IInv, TypeOK, ControlInv, InTransit, OverflowLabels
<1>2. isa.indexed => InTransit = 0 /\ side.rc = 0
  BY <1>1 DEF IInv, TypeOK, ShapeInv, NoEntry
<1>3. ~Pinned(side) => owned = 1 + isa.extra_rc + side.rc + InTransit
  BY DEF IInv, CountIsExact, Count
<1>4. isa.indexed => ~Pinned(side)
  BY <1>2, CountAssumption DEF Pinned
<1>5. isa.extra_rc \in Nat
  BY CountAssumption DEF IInv, TypeOK, IsaWord, ExtraMax
<1> QED
  BY <1>1, <1>2, <1>3, <1>4, <1>5

\* Under InlineOnly a thread with room for a reference finds room for it inline.
LEMMA NoOverflow ==
  ASSUME InlineOnly, IInv, ~Dying, isa.indexed, owned < MaxRefs
  PROVE  ~Overflow(isa)
<1>1. owned = 1 + isa.extra_rc
  BY CountNow
<1>2. MaxRefs <= 2 * RcHalf
  BY DEF InlineOnly, IInv, ShapeInv
<1> QED
  BY <1>1, <1>2, CountAssumption DEF Overflow, ExtraMax, IInv, TypeOK

\* A caller that holds a reference sees a live object, and one that is about to add
\* a reference has room for it.
LEMMA CallerFacts ==
  ASSUME InlineOnly, IInv, NEW t \in Threads
  PROVE  /\ op[t] \in HoldOps => owned > 0 /\ ~Dying /\ ~freed /\ ~IsDeallocating
         /\ op[t] \in AddOps => owned < MaxRefs
         /\ isa.indexed /\ ~Dying /\ op[t] \in AddOps => ~Overflow(isa)
<1>1. op[t] \in HoldOps => owned > 0
  BY CallerOwns DEF IInv
<1>2. op[t] \in AddOps => owned < MaxRefs
  BY CallerOwns DEF IInv
<1>3. owned > 0 => ~Dying
  BY DEF IInv, NoPrematureDealloc
<1> QED
  BY <1>1, <1>2, <1>3, NoOverflow DEF Dying

\* Once the object is dying no thread is inside a call that needs a reference.
LEMMA DyingAlone ==
  ASSUME InlineOnly, IInv, Dying, NEW t \in Threads
  PROVE  op[t] \notin HoldOps
BY CallerFacts

-----------------------------------------------------------------------------
(* Steps that change no part of the object                                 *)

\* The shared part of the invariant survives a step that moves one thread between
\* statements, takes or returns the lock, or begins or ends a call.
LEMMA QuietStep ==
  ASSUME IInv, NEW t \in Threads, NEW l \in Labels, NEW o \in Ops,
         Goto(t, l), Become(t, o), UNCHANGED <<heap, owned>>,
         \A u \in Threads : u # t => old'[u] = old[u],
         lock' # lock => lock \in {NoThread, t} /\ lock' \in {NoThread, t},
         l \notin OverflowLabels, l # "cMove", pc[t] # "cMove",
         l \in {"dUnlock", "dFree"} <=> pc[t] \in {"dUnlock", "dFree"},
         pc[t] \in {"sLoad", "sCas"} => l \in {"sLoad", "sCas"},
         l \in {"slUnlock", "dealloc", "dClear"} => IsDeallocating,
         o = "dealloc" <=> op[t] = "dealloc",
         l \in {"rLoad", "rCas", "stTry"} /\ o = "weakLoad" => location
  PROVE  ShapeInv' /\ CountIsExact' /\ NoPrematureDealloc' /\ DeallocInv' /\ WeakInv'
<1> USE DEF IInv, TypeOK, Goto, Become, heap
<1>1. Dying' <=> Dying
  BY DEF Dying, IsDeallocating
<1>2. InTransit' = InTransit
  BY ThreadsAssumption DEF InTransit, ControlInv, OverflowLabels, MutualExclusion, InCriticalSection, HoldLabels
<1>3. ShapeInv'
  BY DEF ShapeInv
<1>4. CountIsExact'
  BY <1>1, <1>2 DEF CountIsExact, Count, Pinned
<1>5. NoPrematureDealloc'
  BY <1>1 DEF NoPrematureDealloc
<1>6. DeallocInv'
  BY DEF DeallocInv, IsDeallocating
<1>7. WeakInv'
  BY DEF WeakInv, Try
<1> QED
  BY <1>3, <1>4, <1>5, <1>6, <1>7

\* A thread takes the side table lock.
LEMMA LocksStep ==
  ASSUME InlineOnly, IInv, NEW t \in Threads, Locks(t)
  PROVE  IInv'
<1> DEFINE l == CASE pc[t] = "srLock" -> "srOp" [] pc[t] = "wLock" -> "wCheck"
                 [] pc[t] = "slLock" -> "slOp" [] pc[t] = "dealloc" -> "dClear"
                 [] pc[t] = "sLock" -> "sReg"  [] pc[t] = "uLock" -> "uOp"
                 [] pc[t] = "cLock" -> "cCas"
<1>1. /\ lock = NoThread /\ lock' = t /\ Goto(t, l) /\ UNCHANGED <<heap, owned, op, old>>
      /\ \/ l = "cCas" /\ stLocked' = [stLocked EXCEPT ![t] = TRUE]
         \/ l # "cCas" /\ stLocked' = stLocked
      /\ \/ pc[t] = "srLock" /\ l = "srOp"
         \/ pc[t] = "wLock" /\ l = "wCheck"
         \/ pc[t] = "slLock" /\ l = "slOp"
         \/ pc[t] = "dealloc" /\ l = "dClear"
         \/ pc[t] = "sLock" /\ l = "sReg"
         \/ pc[t] = "uLock" /\ l = "uOp"
         \/ pc[t] = "cLock" /\ l = "cCas"
  <2> USE DEF Acquire, AcquirePlain, AcquireForIsa, Goto
  <2>1. CASE RetainLock(t) \/ ReleaseLock(t)
    BY <2>1 DEF RetainLock, ReleaseLock, IInv, ControlInv, OverflowLabels
  <2>2. CASE SideRetainLock(t) \/ WeakLock(t)
    BY <2>2 DEF SideRetainLock, WeakLock
  <2>3. CASE SideReleaseLock(t) \/ ClearLock(t)
    BY <2>3 DEF SideReleaseLock, ClearLock
  <2>4. CASE StoreWeakLock(t) \/ DropWeakLock(t)
    BY <2>4 DEF StoreWeakLock, DropWeakLock
  <2>5. CASE ChangeIsaLock(t)
    BY <2>5 DEF ChangeIsaLock
  <2> QED
    BY <2>1, <2>2, <2>3, <2>4, <2>5 DEF Locks
<1> HIDE DEF l
<1>2. TypeOK'
  BY <1>1 DEF IInv, TypeOK, Goto, heap, Labels
<1>3. ControlInv'
  BY <1>1 DEF IInv, TypeOK, ControlInv, Goto, heap, OverflowLabels
<1>4. MutualExclusion'
  BY <1>1, ThreadsAssumption DEF IInv, TypeOK, Goto, MutualExclusion, InCriticalSection,
       HoldLabels, SharedLabels, Try
<1>5. OldInv'
  BY <1>1 DEF IInv, TypeOK, OldInv, Goto
<1>6. RefsInv'
  BY <1>1 DEF IInv, RefsInv, Holding, Adding
<1>7. ShapeInv' /\ CountIsExact' /\ NoPrematureDealloc' /\ DeallocInv' /\ WeakInv'
  <2>1. l \in Labels /\ l \notin OverflowLabels /\ Become(t, op[t]) /\ op[t] \in Ops
    BY <1>1 DEF Labels, OverflowLabels, IInv, TypeOK, Become
  <2>2. pc[t] = "dealloc" => IsDeallocating
    BY DEF IInv, DeallocInv
  <2> QED
    BY <1>1, <2>1, <2>2, QuietStep
<1> QED
  BY <1>2, <1>3, <1>4, <1>5, <1>6, <1>7 DEF IInv

\* A thread returns the lock on its way to -dealloc, or to the end of it.
LEMMA UnlockAndGotoStep ==
  ASSUME InlineOnly, IInv, NEW t \in Threads, SideReleaseUnlock(t) \/ ClearUnlock(t)
  PROVE  IInv'
<1> DEFINE l == IF pc[t] = "slUnlock" THEN "dealloc" ELSE "dFree"
<1>1. /\ lock' = NoThread /\ Goto(t, l) /\ UNCHANGED <<heap, owned, op, old>>
      /\ stLocked' = [stLocked EXCEPT ![t] = FALSE]
      /\ \/ pc[t] = "slUnlock" /\ l = "dealloc"
         \/ pc[t] = "dUnlock" /\ l = "dFree"
  BY DEF SideReleaseUnlock, ClearUnlock, UnlockAndGoto, Goto
<1> HIDE DEF l
<1>2. lock = t
  BY <1>1 DEF IInv, MutualExclusion, InCriticalSection, HoldLabels
<1>3. TypeOK'
  BY <1>1 DEF IInv, TypeOK, Goto, heap, Labels
<1>4. ControlInv'
  BY <1>1 DEF IInv, TypeOK, ControlInv, Goto, heap, OverflowLabels
<1>5. MutualExclusion'
  BY <1>1, <1>2 DEF IInv, TypeOK, Goto, MutualExclusion, InCriticalSection, HoldLabels,
       SharedLabels, Try
<1>6. OldInv'
  BY <1>1 DEF IInv, TypeOK, OldInv, Goto
<1>7. RefsInv'
  BY <1>1 DEF IInv, RefsInv, Holding, Adding
<1>8. ShapeInv' /\ CountIsExact' /\ NoPrematureDealloc' /\ DeallocInv' /\ WeakInv'
  <2>1. l \in Labels /\ l \notin OverflowLabels /\ Become(t, op[t]) /\ op[t] \in Ops
    BY <1>1 DEF Labels, OverflowLabels, IInv, TypeOK, Become
  <2>2. pc[t] = "slUnlock" => IsDeallocating
    BY DEF IInv, DeallocInv
  <2> QED
    BY <1>1, <1>2, <2>1, <2>2, QuietStep
<1> QED
  BY <1>3, <1>4, <1>5, <1>6, <1>7, <1>8 DEF IInv

\* A failed compare-and-swap starts its loop over.
LEMMA CasFailsStep ==
  ASSUME InlineOnly, IInv, NEW t \in Threads, CasFails(t)
  PROVE  IInv'
<1>1. TypeOK'
  BY ThreadsAssumption DEF CasFails, IInv, TypeOK, Goto, Become, heap, Labels, Ops
<1>2. ControlInv'
  BY ThreadsAssumption DEF CasFails, IInv, TypeOK, ControlInv, ShapeInv, Goto, Become,
       heap, OverflowLabels, Try
<1>3. MutualExclusion'
  BY ThreadsAssumption DEF CasFails, IInv, TypeOK, ControlInv, Goto, Become, heap,
       MutualExclusion, InCriticalSection, HoldLabels, SharedLabels, Try, OverflowLabels
<1>4. OldInv'
  BY ThreadsAssumption DEF CasFails, IInv, TypeOK, OldInv, ControlInv, Goto, Become,
       heap, OverflowLabels, IsDeallocating
<1>5. RefsInv'
  <2>1. op' = op /\ owned' = owned
    BY DEF CasFails, heap
  <2> QED
    BY <2>1 DEF IInv, RefsInv, Holding, Adding
<1>6. ShapeInv' /\ CountIsExact' /\ NoPrematureDealloc' /\ DeallocInv' /\ WeakInv'
  <2>1. /\ Become(t, op[t]) /\ op[t] \in Ops /\ UNCHANGED <<heap, owned>>
        /\ \A u \in Threads : u # t => old'[u] = old[u]
        /\ lock' # lock => lock \in {NoThread, t} /\ lock' \in {NoThread, t}
    BY ThreadsAssumption DEF CasFails, IInv, TypeOK, Become, heap, ControlInv,
         MutualExclusion, InCriticalSection, HoldLabels, SharedLabels, Try,
         OverflowLabels
  <2>2. PICK l \in {"rLoad", "lLoad", "sLoad", "cLoad"} : Goto(t, l)
    BY ThreadsAssumption DEF CasFails, IInv, ControlInv, OverflowLabels
  <2>3. l \in Labels /\ l \notin OverflowLabels /\ l # "cMove"
    BY DEF Labels, OverflowLabels
  <2>4. /\ pc[t] # "cMove" /\ (l \in {"dUnlock", "dFree"} <=> pc[t] \in {"dUnlock", "dFree"})
        /\ pc[t] \in {"sLoad", "sCas"} => l \in {"sLoad", "sCas"}
        /\ l \in {"slUnlock", "dealloc", "dClear"} => IsDeallocating
        /\ l \in {"rLoad", "rCas", "stTry"} /\ op[t] = "weakLoad" => location
    BY <2>2, ThreadsAssumption DEF CasFails, IInv, TypeOK, ControlInv, WeakInv, Try,
         Goto, Labels
  <2> QED
    BY <2>1, <2>2, <2>3, <2>4, QuietStep
<1> QED
  BY <1>1, <1>2, <1>3, <1>4, <1>5, <1>6 DEF IInv

\* objc_loadWeakRetained reads the location again.
LEMMA WeakCheckStep ==
  ASSUME InlineOnly, IInv, NEW t \in Threads, WeakCheck(t)
  PROVE  IInv'
<1>1. TypeOK'
  BY ThreadsAssumption DEF WeakCheck, IInv, TypeOK, Goto, Become, heap, Labels, Ops
<1>2. ControlInv'
  BY ThreadsAssumption DEF WeakCheck, IInv, TypeOK, ControlInv, ShapeInv, Goto, Become,
       heap, OverflowLabels, Try
<1>3. MutualExclusion'
  BY ThreadsAssumption DEF WeakCheck, IInv, TypeOK, ControlInv, Goto, Become, heap,
       MutualExclusion, InCriticalSection, HoldLabels, SharedLabels, Try, OverflowLabels
<1>4. OldInv'
  BY ThreadsAssumption DEF WeakCheck, IInv, TypeOK, OldInv, ControlInv, Goto, Become,
       heap, OverflowLabels, IsDeallocating
<1>5. RefsInv'
  <2>1. op' = op /\ owned' = owned
    BY DEF WeakCheck, heap
  <2> QED
    BY <2>1 DEF IInv, RefsInv, Holding, Adding
<1>6. ShapeInv' /\ CountIsExact' /\ NoPrematureDealloc' /\ DeallocInv' /\ WeakInv'
  <2>1. /\ Become(t, op[t]) /\ op[t] \in Ops /\ UNCHANGED <<heap, owned>>
        /\ \A u \in Threads : u # t => old'[u] = old[u]
        /\ lock' # lock => lock \in {NoThread, t} /\ lock' \in {NoThread, t}
    BY ThreadsAssumption DEF WeakCheck, IInv, TypeOK, Become, heap, ControlInv,
         MutualExclusion, InCriticalSection, HoldLabels, SharedLabels, Try,
         OverflowLabels
  <2>2. PICK l \in {"rLoad", "unlock"} : Goto(t, l)
    BY ThreadsAssumption DEF WeakCheck, IInv, ControlInv, OverflowLabels
  <2>3. l \in Labels /\ l \notin OverflowLabels /\ l # "cMove"
    BY DEF Labels, OverflowLabels
  <2>4. /\ pc[t] # "cMove" /\ (l \in {"dUnlock", "dFree"} <=> pc[t] \in {"dUnlock", "dFree"})
        /\ pc[t] \in {"sLoad", "sCas"} => l \in {"sLoad", "sCas"}
        /\ l \in {"slUnlock", "dealloc", "dClear"} => IsDeallocating
        /\ l \in {"rLoad", "rCas", "stTry"} /\ op[t] = "weakLoad" => location
    BY <2>2, ThreadsAssumption DEF WeakCheck, IInv, TypeOK, ControlInv, WeakInv, Try,
         Goto, Labels
  <2> QED
    BY <2>1, <2>2, <2>3, <2>4, QuietStep
<1> QED
  BY <1>1, <1>2, <1>3, <1>4, <1>5, <1>6 DEF IInv

\* rootRetain loads isa; it never finds the inline field full.
LEMMA RetainLoadStep ==
  ASSUME InlineOnly, IInv, NEW t \in Threads, RetainLoad(t)
  PROVE  IInv'
<1>0. /\ op[t] \in HoldOps => ~Dying /\ ~IsDeallocating
      /\ isa.indexed /\ ~Dying /\ op[t] \in AddOps => ~Overflow(isa)
  BY CallerFacts
<1>a. isa.indexed /\ ~TryFails(t) => ~IsDeallocating /\ ~Overflow(isa)
  BY <1>0 DEF RetainLoad, IInv, TypeOK, ControlInv, HoldOps, AddOps, TryFails, Try,
       Dying, IsDeallocating, WeakInv
<1>b. /\ pc[t] = "rLoad"
      /\ \/ (Goto(t, "stTry") \/ Goto(t, "unlock")) /\ Try(t)
         \/ Goto(t, "srLock") \/ Goto(t, "rCas")
  BY <1>0, <1>a, CountAssumption DEF RetainLoad, IInv, TypeOK, ControlInv, ShapeInv,
       IsaWord, ExtraMax, Try, TryFails, HoldOps, AddOps
<1>1. TypeOK'
  BY <1>b DEF RetainLoad, IInv, TypeOK, Goto, heap, Labels
<1>f. UNCHANGED <<lock, op, stLocked>>
  BY DEF RetainLoad
<1>2. ControlInv'
  BY <1>0, <1>a, ThreadsAssumption DEF RetainLoad, IInv, TypeOK, ControlInv, ShapeInv,
       Goto, Become, heap, OverflowLabels, Try
<1>3. MutualExclusion'
  BY <1>b, <1>f DEF IInv, TypeOK, ControlInv, Goto, MutualExclusion, InCriticalSection,
       HoldLabels, SharedLabels, Try, OverflowLabels
<1>4. OldInv'
  BY <1>0, <1>a, ThreadsAssumption DEF RetainLoad, IInv, TypeOK, OldInv, ControlInv,
       Goto, Become, heap, OverflowLabels, IsDeallocating
<1>5. RefsInv'
  <2>1. op' = op /\ owned' = owned
    BY DEF RetainLoad, heap
  <2> QED
    BY <2>1 DEF IInv, RefsInv, Holding, Adding
<1>6. ShapeInv' /\ CountIsExact' /\ NoPrematureDealloc' /\ DeallocInv' /\ WeakInv'
  <2>1. /\ Become(t, op[t]) /\ op[t] \in Ops /\ UNCHANGED <<heap, owned>>
        /\ \A u \in Threads : u # t => old'[u] = old[u]
        /\ lock' # lock => lock \in {NoThread, t} /\ lock' \in {NoThread, t}
    BY <1>0, <1>a, ThreadsAssumption DEF RetainLoad, IInv, TypeOK, Become, heap,
         ControlInv, MutualExclusion, InCriticalSection, HoldLabels, SharedLabels, Try,
         OverflowLabels
  <2>2. PICK l \in {"stTry", "srLock", "unlock", "rCas"} : Goto(t, l)
    BY <1>b
  <2>3. l \in Labels /\ l \notin OverflowLabels /\ l # "cMove"
    BY DEF Labels, OverflowLabels
  <2>4. /\ pc[t] # "cMove" /\ (l \in {"dUnlock", "dFree"} <=> pc[t] \in {"dUnlock", "dFree"})
        /\ pc[t] \in {"sLoad", "sCas"} => l \in {"sLoad", "sCas"}
        /\ l \in {"slUnlock", "dealloc", "dClear"} => IsDeallocating
        /\ l \in {"rLoad", "rCas", "stTry"} /\ op[t] = "weakLoad" => location
    BY <2>2, <1>0, <1>a, ThreadsAssumption DEF RetainLoad, IInv, TypeOK, ControlInv,
         WeakInv, Try, Goto, Labels
  <2> QED
    BY <2>1, <2>2, <2>3, <2>4, QuietStep
<1> QED
  BY <1>1, <1>2, <1>3, <1>4, <1>5, <1>6 DEF IInv

\* rootRelease loads isa.
LEMMA ReleaseLoadStep ==
  ASSUME InlineOnly, IInv, NEW t \in Threads, ReleaseLoad(t)
  PROVE  IInv'
<1>0. /\ op[t] \in HoldOps => ~Dying /\ ~IsDeallocating
      /\ isa.indexed /\ ~Dying /\ op[t] \in AddOps => ~Overflow(isa)
  BY CallerFacts
<1>b. pc[t] = "lLoad" /\ (Goto(t, "slLock") \/ Goto(t, "lCas") \/ Goto(t, "lDealloc"))
  BY <1>0, CountAssumption DEF ReleaseLoad, HoldOps, IInv, TypeOK, ControlInv, ShapeInv,
       IsaWord, ExtraMax, Try, TryFails, HoldOps, AddOps
<1>1. TypeOK'
  BY <1>b DEF ReleaseLoad, HoldOps, IInv, TypeOK, Goto, heap, Labels
<1>f. UNCHANGED <<lock, op, stLocked>>
  BY DEF ReleaseLoad, HoldOps
<1>2. ControlInv'
  BY <1>0, ThreadsAssumption DEF ReleaseLoad, HoldOps, IInv, TypeOK, ControlInv,
       ShapeInv, Goto, Become, heap, OverflowLabels, Try
<1>3. MutualExclusion'
  BY <1>b, <1>f DEF IInv, TypeOK, ControlInv, Goto, MutualExclusion, InCriticalSection,
       HoldLabels, SharedLabels, Try, OverflowLabels
<1>4. OldInv'
  BY <1>0, ThreadsAssumption DEF ReleaseLoad, HoldOps, IInv, TypeOK, OldInv, ControlInv,
       Goto, Become, heap, OverflowLabels, IsDeallocating
<1>5. RefsInv'
  <2>1. op' = op /\ owned' = owned
    BY DEF ReleaseLoad, HoldOps, heap
  <2> QED
    BY <2>1 DEF IInv, RefsInv, Holding, Adding
<1>6. ShapeInv' /\ CountIsExact' /\ NoPrematureDealloc' /\ DeallocInv' /\ WeakInv'
  <2>1. /\ Become(t, op[t]) /\ op[t] \in Ops /\ UNCHANGED <<heap, owned>>
        /\ \A u \in Threads : u # t => old'[u] = old[u]
        /\ lock' # lock => lock \in {NoThread, t} /\ lock' \in {NoThread, t}
    BY <1>0, ThreadsAssumption DEF ReleaseLoad, HoldOps, IInv, TypeOK, Become, heap,
         ControlInv, MutualExclusion, InCriticalSection, HoldLabels, SharedLabels, Try,
         OverflowLabels
  <2>2. PICK l \in {"slLock", "lCas", "lDealloc"} : Goto(t, l)
    BY <1>b
  <2>3. l \in Labels /\ l \notin OverflowLabels /\ l # "cMove"
    BY DEF Labels, OverflowLabels
  <2>4. /\ pc[t] # "cMove" /\ (l \in {"dUnlock", "dFree"} <=> pc[t] \in {"dUnlock", "dFree"})
        /\ pc[t] \in {"sLoad", "sCas"} => l \in {"sLoad", "sCas"}
        /\ l \in {"slUnlock", "dealloc", "dClear"} => IsDeallocating
        /\ l \in {"rLoad", "rCas", "stTry"} /\ op[t] = "weakLoad" => location
    BY <2>2, <1>0, ThreadsAssumption DEF ReleaseLoad, HoldOps, IInv, TypeOK, ControlInv,
         WeakInv, Try, Goto, Labels
  <2> QED
    BY <2>1, <2>2, <2>3, <2>4, QuietStep
<1> QED
  BY <1>1, <1>2, <1>3, <1>4, <1>5, <1>6 DEF IInv

-----------------------------------------------------------------------------
(* Steps that begin or end a call                                          *)

\* The unlock that returns to the caller.
LEMMA UnlockStep ==
  ASSUME InlineOnly, IInv, NEW t \in Threads, Unlock(t)
  PROVE  IInv'
<1>1. TypeOK'
  BY ThreadsAssumption DEF Unlock, IInv, TypeOK, Goto, Become, heap, Labels, Ops
<1>2. ControlInv'
  BY ThreadsAssumption DEF Unlock, IInv, TypeOK, ControlInv, ShapeInv, Goto, Become,
       heap, OverflowLabels, Try
<1>3. MutualExclusion'
  BY ThreadsAssumption DEF Unlock, IInv, TypeOK, ControlInv, Goto, Become, heap,
       MutualExclusion, InCriticalSection, HoldLabels, SharedLabels, Try, OverflowLabels
<1>4. OldInv'
  BY ThreadsAssumption DEF Unlock, IInv, TypeOK, OldInv, ControlInv, Goto, Become, heap,
       OverflowLabels, IsDeallocating
<1>5. /\ Goto(t, "idle") /\ Become(t, "none") /\ pc[t] = "unlock" /\ UNCHANGED <<heap, owned, old>>
      /\ lock = t /\ lock' = NoThread /\ op[t] # "dealloc" /\ op[t] \in Ops /\ owned \in Nat
  BY DEF Unlock, IInv, TypeOK, ControlInv, MutualExclusion, InCriticalSection, HoldLabels
<1>6. ShapeInv' /\ CountIsExact' /\ NoPrematureDealloc' /\ DeallocInv' /\ WeakInv'
  BY <1>5, QuietStep DEF Labels, Ops, OverflowLabels
<1>7. RefsInv'
  <2>1. owned' = owned /\ TypeOK /\ RefsInv /\ "none" \in Ops
    BY <1>5 DEF IInv, Ops
  <2>2. /\ One("none", HoldOps) = 0 /\ One("none", AddOps) = 0
        /\ One(op[t], HoldOps) \in {0, 1} /\ One(op[t], AddOps) \in {0, 1}
    BY DEF One, HoldOps, AddOps
  <2> QED
    BY <1>5, <2>1, <2>2, RefsStep
<1> QED
  BY <1>1, <1>2, <1>3, <1>4, <1>6, <1>7 DEF IInv

\* changeIsa loads isa, and returns when it is raw already.
LEMMA ChangeIsaLoadStep ==
  ASSUME InlineOnly, IInv, NEW t \in Threads, ChangeIsaLoad(t)
  PROVE  IInv'
<1>1. /\ pc[t] = "cLoad" /\ op[t] = "changeIsa"
      /\ old' = [old EXCEPT ![t] = isa] /\ UNCHANGED <<heap, lock, owned, stLocked>>
  BY DEF ChangeIsaLoad, IInv, ControlInv
<1>2. PICK l \in {"cCas", "cLock", "unlock", "idle"}, o \in {"none", "changeIsa"} :
        /\ Goto(t, l) /\ Become(t, o) /\ (o = "none" <=> l = "idle")
        /\ l \in {"cCas", "cLock"} => isa.indexed
        /\ l \in {"cCas", "unlock"} <=> stLocked[t]
  <2>1. op' = op => Become(t, "changeIsa")
    BY <1>1 DEF IInv, TypeOK, Become
  <2> QED
    BY <2>1, <1>1 DEF ChangeIsaLoad, IInv, TypeOK
<1>3. TypeOK'
  BY <1>1, <1>2 DEF IInv, TypeOK, Goto, Become, heap, Labels, Ops
<1>4. ControlInv'
  BY <1>1, <1>2 DEF IInv, TypeOK, ControlInv, Goto, Become, heap, OverflowLabels
<1>5. MutualExclusion'
  BY <1>1, <1>2 DEF IInv, TypeOK, Goto, Become, MutualExclusion, InCriticalSection, HoldLabels,
       SharedLabels, Try
<1>6. OldInv'
  BY <1>1, <1>2 DEF IInv, TypeOK, OldInv, Goto
<1>7. ShapeInv' /\ CountIsExact' /\ NoPrematureDealloc' /\ DeallocInv' /\ WeakInv'
  <2>1. l \in Labels /\ o \in Ops /\ l \notin OverflowLabels
    BY DEF Labels, Ops, OverflowLabels
  <2>2. \A u \in Threads : u # t => old'[u] = old[u]
    BY <1>1 DEF IInv, TypeOK
  <2> QED
    BY <1>1, <1>2, <2>1, <2>2, QuietStep
<1>8. RefsInv'
  <2>1. TypeOK /\ RefsInv /\ o \in Ops /\ owned' = owned /\ owned \in Nat
    BY <1>1 DEF IInv, TypeOK, Ops
  <2>2. /\ One(o, HoldOps) \in {0, 1} /\ One(op[t], HoldOps) = 1
        /\ One(o, AddOps) = 0 /\ One(op[t], AddOps) = 0
    BY <1>1 DEF One, HoldOps, AddOps
  <2> QED
    BY <1>2, <2>1, <2>2, RefsStep
<1> QED
  BY <1>3, <1>4, <1>5, <1>6, <1>7, <1>8 DEF IInv

\* A call begins: the guard on references keeps the callers covered and in the
\* bound.
LEMMA StartsStep ==
  ASSUME InlineOnly, IInv, NEW t \in Threads, Starts(t)
  PROVE  IInv'
<1>1. PICK o \in {"retain", "release", "weakLoad", "storeWeak", "dropWeak", "changeIsa"},
           l \in {"rLoad", "lLoad", "wLock", "sLock", "uLock", "cLoad"} :
        /\ pc[t] = "idle" /\ op[t] = "none" /\ Goto(t, l) /\ Become(t, o)
        /\ stLocked' = [stLocked EXCEPT ![t] = FALSE] /\ UNCHANGED <<heap, lock, owned>>
        /\ old' = [old EXCEPT ![t] = RawIsa]
        /\ \/ o = "retain" /\ l = "rLoad" /\ HasSpareRef /\ HasRoom
           \/ o = "release" /\ l = "lLoad" /\ HasSpareRef
           \/ o = "weakLoad" /\ l = "wLock" /\ HasRoom
           \/ o = "storeWeak" /\ l = "sLock" /\ HasSpareRef
           \/ o = "dropWeak" /\ l = "uLock"
           \/ o = "changeIsa" /\ l = "cLoad" /\ HasSpareRef
  BY DEF Starts, Start, StartRetain, StartRelease, StartLoadWeak, StartStoreWeak, StartDropWeak,
       StartChangeIsa, IInv, ControlInv
<1>2. TypeOK'
  <2>1. RawIsa \in IsaWord
    BY CountAssumption DEF RawIsa, IsaWord, ExtraMax
  <2> QED
    BY <1>1, <2>1 DEF IInv, TypeOK, Goto, Become, heap, Labels, Ops
<1>3. ControlInv'
  BY <1>1 DEF IInv, TypeOK, ControlInv, Goto, Become, heap, OverflowLabels
<1>4. MutualExclusion'
  BY <1>1 DEF IInv, TypeOK, Goto, Become, MutualExclusion, InCriticalSection, HoldLabels,
       SharedLabels, Try
<1>5. OldInv'
  BY <1>1 DEF IInv, TypeOK, OldInv, Goto
<1>6. ShapeInv' /\ CountIsExact' /\ NoPrematureDealloc' /\ DeallocInv' /\ WeakInv'
  <2>1. l \in Labels /\ o \in Ops /\ l \notin OverflowLabels
    BY DEF Labels, Ops, OverflowLabels
  <2> QED
    BY <1>1, <2>1, QuietStep
<1>7. RefsInv'
  <2>1. owned' = owned /\ owned \in Nat /\ MaxRefs \in Nat /\ op \in [Threads -> Ops] /\ o \in Ops
    BY <1>1, CountAssumption DEF IInv, TypeOK, Ops
  <2>2. /\ Cardinality(Holding) \in Nat /\ Cardinality(Adding) \in Nat
        /\ Cardinality(Holding') = Cardinality(Holding) - One(op[t], HoldOps) + One(o, HoldOps)
        /\ Cardinality(Adding') = Cardinality(Adding) - One(op[t], AddOps) + One(o, AddOps)
    BY <1>1, <2>1, CallersStep
  <2>3. /\ One(op[t], HoldOps) = 0 /\ One(op[t], AddOps) = 0
        /\ (One(o, HoldOps) = 1 /\ HasSpareRef) \/ One(o, HoldOps) = 0
        /\ (One(o, AddOps) = 1 /\ HasRoom) \/ One(o, AddOps) = 0
    BY <1>1 DEF One, HoldOps, AddOps
  <2>4. Cardinality(Holding) <= owned /\ owned + Cardinality(Adding) <= MaxRefs
    BY DEF IInv, RefsInv
  <2>5. /\ HasSpareRef => Cardinality(Holding) + 1 <= owned
        /\ HasRoom => owned + Cardinality(Adding) + 1 <= MaxRefs
    BY <2>1, <2>2 DEF HasSpareRef, HasRoom
  <2>6. Cardinality(Holding') <= owned /\ owned + Cardinality(Adding') <= MaxRefs
    BY <2>1, <2>2, <2>3, <2>4, <2>5
  <2> QED
    BY <2>1, <2>6 DEF RefsInv
<1> QED
  BY <1>2, <1>3, <1>4, <1>5, <1>6, <1>7 DEF IInv

\* No step is taken at a statement of the overflow and borrow paths.
LEMMA UnreachedStep ==
  ASSUME InlineOnly, IInv, NEW t \in Threads, pc[t] \in OverflowLabels
  PROVE  IInv'
<1> QED
  BY DEF IInv, ControlInv

\* What sidetable_addExtraRC_nolock does to the entry.
LEMMA EntryAfterAdd ==
  ASSUME side \in Entry, NEW n \in Nat, AddExtraRC(n)
  PROVE  /\ side' \in Entry /\ side'.present
         /\ side'.deallocating = side.deallocating /\ side'.weak = side.weak
         /\ side'.rc = IF Pinned(side) THEN side.rc ELSE side.rc + n
<1>1. CASE Pinned(side)
  BY <1>1 DEF AddExtraRC, Entry
<1>2. CASE ~Pinned(side)
  <2>1. side' = [side EXCEPT !.present = TRUE, !.rc = side.rc + n]
    BY <1>2 DEF AddExtraRC
  <2>2. side.rc + n \in Nat
    BY DEF Entry
  <2> QED
    BY <1>2, <2>1, <2>2 DEF Entry
<1> QED
  BY <1>1, <1>2

\* A step that leaves nothing in transit keeps the count exact when the two counts
\* change together with the references outstanding.
LEMMA CountStep ==
  ASSUME IInv, TypeOK', NEW t \in Threads, NEW l \in Labels, Goto(t, l), lock' = lock,
         \A u \in Threads : u # t => old'[u] = old[u],
         l # "cMove", pc[t] # "cMove", l \notin OverflowLabels,
         Dying => Dying' /\ owned' = owned, Dying' /\ ~Dying => owned' = 0,
         ~Dying' /\ ~Pinned(side)' =>
           /\ ~Pinned(side)
           /\ owned' - owned = (isa'.extra_rc - isa.extra_rc) + (side'.rc - side.rc)
  PROVE  CountIsExact' /\ NoPrematureDealloc'
<1>1. InTransit' = InTransit
  BY ThreadsAssumption DEF InTransit, IInv, TypeOK, ControlInv, OverflowLabels, Goto
<1>2. NoPrematureDealloc'
  BY DEF IInv, NoPrematureDealloc
<1>3. CASE ~Dying' /\ ~Pinned(side)'
  <2>1. /\ isa.extra_rc \in Nat /\ isa'.extra_rc \in Nat /\ side.rc \in Nat /\ side'.rc \in Nat
        /\ owned \in Nat /\ owned' \in Nat
    BY CountAssumption DEF IInv, TypeOK, IsaWord, Entry, ExtraMax
  <2>2. ~Dying /\ ~Pinned(side)
    BY <1>3
  <2>3. owned = 1 + isa.extra_rc + side.rc + InTransit
    BY <2>2, CountNow
  <2>4. InTransit \in Nat
    <3>1. InTransit = IF lock # NoThread /\ pc[lock] = "cMove" THEN old[lock].extra_rc ELSE 0
      BY <2>2, CountNow
    <3> QED
      BY <3>1, CountAssumption DEF IInv, TypeOK, IsaWord, ExtraMax
  <2>5. owned' = 1 + isa'.extra_rc + side'.rc + InTransit'
    BY <1>1, <1>3, <2>1, <2>3, <2>4
  <2> QED
    BY <1>2, <2>5 DEF CountIsExact, Count
<1>4. CASE ~(~Dying' /\ ~Pinned(side)')
  BY <1>2, <1>4 DEF CountIsExact, Pinned
<1> QED
  BY <1>3, <1>4

-----------------------------------------------------------------------------
(* Steps that change the object                                            *)

\* rootRetain stores the incremented isa.
LEMMA RetainCasStep ==
  ASSUME InlineOnly, IInv, NEW t \in Threads, RetainCas(t)
  PROVE  IInv'
<1>0. /\ op[t] \in HoldOps => owned > 0 /\ ~Dying /\ ~freed /\ ~IsDeallocating
      /\ isa.indexed /\ ~Dying /\ op[t] \in AddOps => ~Overflow(isa)
      /\ ~Dying /\ isa.indexed => InTransit = 0 /\ side.rc = 0 /\ owned = 1 + isa.extra_rc
  BY CallerFacts, CountNow
<1>e. /\ isa' \in IsaWord /\ isa.indexed /\ isa'.indexed /\ ~Overflow(old[t])
      /\ ~isa.deallocating /\ ~isa'.deallocating /\ isa'.extra_rc = isa.extra_rc + 1
      /\ isa'.weakly_referenced = isa.weakly_referenced /\ ~isa'.has_sidetable_rc
  BY <1>0, CountAssumption DEF RetainCas, Incremented, Overflow, AddOps, Try, Dying,
       WeakInv, IsaWord, Entry, IInv, TypeOK, OldInv, ControlInv, ShapeInv, RawIsa,
       NoEntry, ExtraMax, HoldOps, IsDeallocating
<1>1. TypeOK'
  BY <1>e, <1>0 DEF RetainCas, Try, IInv, TypeOK, ControlInv, Goto, Become, heap,
       Labels, Ops
<1>2. ControlInv'
  BY <1>e, <1>0, ThreadsAssumption DEF RetainCas, Try, IInv, TypeOK, ControlInv, Goto,
       Become, heap, OverflowLabels, ShapeInv
<1>3. MutualExclusion'
  BY <1>e, <1>0, ThreadsAssumption DEF RetainCas, Try, IInv, TypeOK, ControlInv, Goto,
       Become, heap, MutualExclusion, InCriticalSection, HoldLabels, SharedLabels,
       OverflowLabels
<1>4. OldInv'
  BY <1>e, <1>0, ThreadsAssumption DEF RetainCas, Try, IInv, TypeOK, ControlInv, Goto,
       Become, heap, OldInv, OverflowLabels, IsDeallocating
<1>5. ShapeInv'
  BY <1>e, <1>0, ThreadsAssumption DEF RetainCas, Try, IInv, TypeOK, ControlInv, Goto,
       Become, heap, ShapeInv, NoEntry, RawIsa, MutualExclusion, InCriticalSection,
       HoldLabels, OldInv
<1>6. RefsInv'
  <2>1. /\ (Become(t, "retained") \/ Become(t, "none")) /\ owned' = owned + 1
        /\ op[t] \in {"retain", "weakLoad"} /\ TypeOK /\ RefsInv /\ owned \in Nat
    BY <1>0 DEF RetainCas, IInv, TypeOK, ControlInv, Become, HoldOps
  <2>2. \A o \in {"retained", "none"} :
          /\ o \in Ops /\ One(o, HoldOps) - One(op[t], HoldOps) <= 1
          /\ 1 <= One(op[t], AddOps) - One(o, AddOps)
    BY <2>1 DEF One, HoldOps, AddOps, Ops
  <2> QED
    BY <2>1, <2>2, RefsStep
<1>7. CountIsExact' /\ NoPrematureDealloc'
  <2>1. ~Dying /\ ~Dying'
    BY <1>e, <1>0 DEF RetainCas, IInv, TypeOK, ControlInv, WeakInv, HoldOps, Dying,
         IsDeallocating, Try, Goto
  <2>2. PICK l \in {"unlock", "idle"} : Goto(t, l)
    BY <1>e DEF RetainCas
  <2>3. /\ l \in Labels /\ l # "cMove" /\ l \notin OverflowLabels /\ pc[t] # "cMove"
        /\ lock' = lock /\ old' = old /\ side' = side /\ owned' = owned + 1
    BY DEF RetainCas, Labels, OverflowLabels
  <2>4. /\ isa.extra_rc \in Nat /\ side.rc \in Nat /\ owned \in Nat
        /\ isa'.extra_rc - isa.extra_rc = 1 /\ side'.rc - side.rc = 0 /\ owned' - owned = 1
    BY <1>e, <2>3, CountAssumption DEF IInv, TypeOK, IsaWord, Entry, ExtraMax
  <2>5. ~Pinned(side)' => ~Pinned(side)
    BY <2>3 DEF Pinned
  <2> QED
    BY <1>1, <2>1, <2>2, <2>3, <2>4, <2>5, CountStep
<1>8. DeallocInv'
  BY <1>e, <1>0, ThreadsAssumption DEF RetainCas, Try, IInv, TypeOK, ControlInv, Goto,
       Become, heap, DeallocInv, HoldOps, Dying, IsDeallocating, ShapeInv, RawIsa,
       NoEntry, MutualExclusion, InCriticalSection, HoldLabels
<1>9. WeakInv'
  BY <1>e, <1>0, ThreadsAssumption DEF RetainCas, Try, IInv, TypeOK, ControlInv, Goto,
       Become, heap, WeakInv, HoldOps, DeallocInv, IsDeallocating, ShapeInv, RawIsa,
       NoEntry, MutualExclusion, InCriticalSection, HoldLabels, SharedLabels, OldInv,
       Dying
<1> QED
  BY <1>1, <1>2, <1>3, <1>4, <1>5, <1>6, <1>7, <1>8, <1>9 DEF IInv

\* sidetable_retain increments the side table count.
LEMMA SideRetainStep ==
  ASSUME InlineOnly, IInv, NEW t \in Threads, SideRetain(t)
  PROVE  IInv'
<1>0. /\ op[t] \in HoldOps => owned > 0 /\ ~Dying /\ ~freed /\ ~IsDeallocating
      /\ isa.indexed /\ ~Dying /\ op[t] \in AddOps => ~Overflow(isa)
      /\ ~Dying /\ isa.indexed => InTransit = 0 /\ side.rc = 0 /\ owned = 1 + isa.extra_rc
  BY CallerFacts, CountNow
<1>e. /\ side' \in Entry /\ ~isa.indexed /\ side'.present
      /\ side'.deallocating = side.deallocating /\ side'.weak = side.weak
      /\ ~Pinned(side) => side'.rc = side.rc + 1
      /\ Pinned(side) => side'.rc = side.rc
  <2>1. AddExtraRC(1) /\ side \in Entry /\ ~isa.indexed
    BY DEF SideRetain, IInv, TypeOK, ControlInv
  <2> QED
    BY <2>1, EntryAfterAdd
<1>1. TypeOK'
  BY <1>e, <1>0 DEF SideRetain, AddExtraRC, IInv, TypeOK, ControlInv, Goto, Become,
       heap, Labels, Ops
<1>2. ControlInv'
  BY <1>e, <1>0, ThreadsAssumption DEF SideRetain, AddExtraRC, IInv, TypeOK, ControlInv,
       Goto, Become, heap, OverflowLabels, Try, ShapeInv
<1>3. MutualExclusion'
  BY <1>e, <1>0, ThreadsAssumption DEF SideRetain, AddExtraRC, IInv, TypeOK, ControlInv,
       Goto, Become, heap, MutualExclusion, InCriticalSection, HoldLabels, SharedLabels,
       Try, OverflowLabels
<1>4. OldInv'
  BY <1>e, <1>0, ThreadsAssumption DEF SideRetain, AddExtraRC, IInv, TypeOK, ControlInv,
       Goto, Become, heap, OldInv, OverflowLabels, IsDeallocating
<1>5. ShapeInv'
  BY <1>e, <1>0, ThreadsAssumption DEF SideRetain, AddExtraRC, IInv, TypeOK, ControlInv,
       Goto, Become, heap, ShapeInv, NoEntry, RawIsa, MutualExclusion,
       InCriticalSection, HoldLabels, OldInv
<1>6. RefsInv'
  <2>1. /\ Become(t, "retained") /\ owned' = owned + 1
        /\ op[t] \in {"retain"} /\ TypeOK /\ RefsInv /\ owned \in Nat
    BY <1>0 DEF SideRetain, IInv, TypeOK, ControlInv, Become, HoldOps
  <2>2. \A o \in {"retained"} :
          /\ o \in Ops /\ One(o, HoldOps) - One(op[t], HoldOps) <= 1
          /\ 1 <= One(op[t], AddOps) - One(o, AddOps)
    BY <2>1 DEF One, HoldOps, AddOps, Ops
  <2> QED
    BY <2>1, <2>2, RefsStep
<1>7. CountIsExact' /\ NoPrematureDealloc'
  <2>1. (Dying' <=> Dying) /\ (Dying => owned' = owned)
    BY <1>e, <1>0 DEF SideRetain, IInv, TypeOK, ControlInv, HoldOps, Dying, IsDeallocating,
         Goto
  <2>2. /\ "unlock" \in Labels /\ "unlock" \notin OverflowLabels /\ pc[t] # "cMove"
        /\ Goto(t, "unlock") /\ lock' = lock /\ old' = old /\ isa' = isa
    BY DEF SideRetain, Labels, OverflowLabels
  <2>3. /\ isa.extra_rc \in Nat /\ side.rc \in Nat /\ side'.rc \in Nat /\ owned \in Nat
        /\ owned' \in Nat /\ PinnedAt \in Nat
    BY <1>e, <1>1, CountAssumption DEF IInv, TypeOK, IsaWord, Entry, ExtraMax
  <2>4. ~Pinned(side)' => /\ ~Pinned(side)
                          /\ owned' - owned = (isa'.extra_rc - isa.extra_rc) + (side'.rc - side.rc)
    BY <1>e, <2>2, <2>3 DEF Pinned, SideRetain
  <2> QED
    BY <1>1, <2>1, <2>2, <2>3, <2>4, CountStep
<1>8. DeallocInv'
  BY <1>e, <1>0, ThreadsAssumption DEF SideRetain, AddExtraRC, IInv, TypeOK, ControlInv,
       Goto, Become, heap, DeallocInv, HoldOps, Dying, IsDeallocating, ShapeInv, RawIsa,
       NoEntry, MutualExclusion, InCriticalSection, HoldLabels
<1>9. WeakInv'
  BY <1>e, <1>0, ThreadsAssumption DEF SideRetain, AddExtraRC, IInv, TypeOK, ControlInv,
       Goto, Become, heap, WeakInv, HoldOps, DeallocInv, Try, IsDeallocating, ShapeInv,
       RawIsa, NoEntry, MutualExclusion, InCriticalSection, HoldLabels, SharedLabels,
       OldInv, Dying
<1> QED
  BY <1>1, <1>2, <1>3, <1>4, <1>5, <1>6, <1>7, <1>8, <1>9 DEF IInv

\* sidetable_tryRetain increments, or finds the object deallocating.
LEMMA SideTryRetainStep ==
  ASSUME InlineOnly, IInv, NEW t \in Threads, SideTryRetain(t)
  PROVE  IInv'
<1>0. /\ op[t] \in HoldOps => owned > 0 /\ ~Dying /\ ~freed /\ ~IsDeallocating
      /\ isa.indexed /\ ~Dying /\ op[t] \in AddOps => ~Overflow(isa)
      /\ ~Dying /\ isa.indexed => InTransit = 0 /\ side.rc = 0 /\ owned = 1 + isa.extra_rc
  BY CallerFacts, CountNow
<1>e. /\ side' \in Entry /\ ~isa.indexed /\ (side' # side => side'.present)
      /\ side'.deallocating = side.deallocating /\ side'.weak = side.weak
      /\ ~Pinned(side) => side'.rc = side.rc + owned' - owned
      /\ Pinned(side) => side'.rc = side.rc
      /\ owned' # owned => ~side.deallocating /\ owned' = owned + 1
  <2>1. side \in Entry /\ ~isa.indexed /\ owned \in Nat
    BY DEF SideTryRetain, IInv, TypeOK, ControlInv
  <2>2. CASE TryFails(t)
    BY <2>1, <2>2 DEF SideTryRetain, Entry
  <2>3. CASE ~TryFails(t)
    <3>1. AddExtraRC(1) /\ owned' = owned + 1 /\ ~side.deallocating
      BY <2>1, <2>3 DEF SideTryRetain, IInv, ControlInv, TryFails, Try, IsDeallocating
    <3> QED
      BY <2>1, <3>1, EntryAfterAdd DEF Entry
  <2> QED
    BY <2>2, <2>3
<1>1. TypeOK'
  BY <1>e, <1>0 DEF SideTryRetain, AddExtraRC, TryFails, Try, IInv, TypeOK, ControlInv,
       Goto, Become, heap, Labels, Ops
<1>2. ControlInv'
  BY <1>e, <1>0, ThreadsAssumption DEF SideTryRetain, AddExtraRC, TryFails, Try, IInv,
       TypeOK, ControlInv, Goto, Become, heap, OverflowLabels, ShapeInv
<1>3. MutualExclusion'
  BY <1>e, <1>0, ThreadsAssumption DEF SideTryRetain, AddExtraRC, TryFails, Try, IInv,
       TypeOK, ControlInv, Goto, Become, heap, MutualExclusion, InCriticalSection,
       HoldLabels, SharedLabels, OverflowLabels
<1>4. OldInv'
  BY <1>e, <1>0, ThreadsAssumption DEF SideTryRetain, AddExtraRC, TryFails, Try, IInv,
       TypeOK, ControlInv, Goto, Become, heap, OldInv, OverflowLabels, IsDeallocating
<1>5. ShapeInv'
  BY <1>e, <1>0, ThreadsAssumption DEF SideTryRetain, AddExtraRC, TryFails, Try, IInv,
       TypeOK, ControlInv, Goto, Become, heap, ShapeInv, NoEntry, RawIsa,
       MutualExclusion, InCriticalSection, HoldLabels, OldInv
<1>6. RefsInv'
  <2>1. CASE TryFails(t)
    BY <2>1 DEF SideTryRetain, IInv, RefsInv, Holding, Adding
  <2>2. CASE ~TryFails(t)
    <3>1. /\ Become(t, "retained") /\ owned' = owned + 1
          /\ op[t] \in {"weakLoad"} /\ TypeOK /\ RefsInv /\ owned \in Nat
      BY <1>0, <2>2 DEF SideTryRetain, IInv, TypeOK, ControlInv, Become, HoldOps
    <3>2. \A o \in {"retained"} :
            /\ o \in Ops /\ One(o, HoldOps) - One(op[t], HoldOps) <= 1
            /\ 1 <= One(op[t], AddOps) - One(o, AddOps)
      BY <3>1 DEF One, HoldOps, AddOps, Ops
    <3> QED
      BY <3>1, <3>2, RefsStep
  <2> QED
    BY <2>1, <2>2
<1>7. CountIsExact' /\ NoPrematureDealloc'
  <2>1. (Dying' <=> Dying) /\ (Dying => owned' = owned)
    BY <1>e, <1>0 DEF SideTryRetain, IInv, TypeOK, ControlInv, WeakInv, Try, TryFails, Dying,
         IsDeallocating, Goto
  <2>2. /\ "unlock" \in Labels /\ "unlock" \notin OverflowLabels /\ pc[t] # "cMove"
        /\ Goto(t, "unlock") /\ lock' = lock /\ old' = old /\ isa' = isa
    BY DEF SideTryRetain, Labels, OverflowLabels
  <2>3. /\ isa.extra_rc \in Nat /\ side.rc \in Nat /\ side'.rc \in Nat /\ owned \in Nat
        /\ owned' \in Nat /\ PinnedAt \in Nat
    BY <1>e, <1>1, CountAssumption DEF IInv, TypeOK, IsaWord, Entry, ExtraMax
  <2>4. ~Pinned(side)' => /\ ~Pinned(side)
                          /\ owned' - owned = (isa'.extra_rc - isa.extra_rc) + (side'.rc - side.rc)
    BY <1>e, <2>2, <2>3 DEF Pinned, SideTryRetain
  <2> QED
    BY <1>1, <2>1, <2>2, <2>3, <2>4, CountStep
<1>8. DeallocInv'
  BY <1>e, <1>0, ThreadsAssumption DEF SideTryRetain, AddExtraRC, TryFails, Try, IInv,
       TypeOK, ControlInv, Goto, Become, heap, DeallocInv, HoldOps, Dying,
       IsDeallocating, ShapeInv, RawIsa, NoEntry, MutualExclusion, InCriticalSection,
       HoldLabels
<1>9. WeakInv'
  BY <1>e, <1>0, ThreadsAssumption DEF SideTryRetain, AddExtraRC, TryFails, Try, IInv,
       TypeOK, ControlInv, Goto, Become, heap, WeakInv, HoldOps, DeallocInv,
       IsDeallocating, ShapeInv, RawIsa, NoEntry, MutualExclusion, InCriticalSection,
       HoldLabels, SharedLabels, OldInv, Dying
<1> QED
  BY <1>1, <1>2, <1>3, <1>4, <1>5, <1>6, <1>7, <1>8, <1>9 DEF IInv

\* rootRelease stores the decremented isa.
LEMMA ReleaseCasStep ==
  ASSUME InlineOnly, IInv, NEW t \in Threads, ReleaseCas(t)
  PROVE  IInv'
<1>0. /\ op[t] \in HoldOps => owned > 0 /\ ~Dying /\ ~freed /\ ~IsDeallocating
      /\ isa.indexed /\ ~Dying /\ op[t] \in AddOps => ~Overflow(isa)
      /\ ~Dying /\ isa.indexed => InTransit = 0 /\ side.rc = 0 /\ owned = 1 + isa.extra_rc
  BY CallerFacts, CountNow
<1>e. /\ isa' \in IsaWord /\ isa.indexed /\ isa'.indexed /\ ~isa.deallocating /\ ~isa'.deallocating
      /\ isa'.extra_rc = isa.extra_rc - 1 /\ owned > 0
      /\ isa'.weakly_referenced = isa.weakly_referenced /\ ~isa'.has_sidetable_rc
  BY <1>0, CountAssumption DEF ReleaseCas, IsaWord, Entry, IInv, TypeOK, OldInv,
       ControlInv, ShapeInv, RawIsa, NoEntry, ExtraMax, HoldOps, IsDeallocating
<1>1. TypeOK'
  BY <1>e, <1>0 DEF ReleaseCas, Drop, IInv, TypeOK, ControlInv, Goto, Become, heap,
       Labels, Ops
<1>2. ControlInv'
  BY <1>e, <1>0, ThreadsAssumption DEF ReleaseCas, Drop, IInv, TypeOK, ControlInv, Goto,
       Become, heap, OverflowLabels, Try, ShapeInv
<1>3. MutualExclusion'
  BY <1>e, <1>0, ThreadsAssumption DEF ReleaseCas, Drop, IInv, TypeOK, ControlInv, Goto,
       Become, heap, MutualExclusion, InCriticalSection, HoldLabels, SharedLabels, Try,
       OverflowLabels
<1>4. OldInv'
  BY <1>e, <1>0, ThreadsAssumption DEF ReleaseCas, Drop, IInv, TypeOK, ControlInv, Goto,
       Become, heap, OldInv, OverflowLabels, IsDeallocating
<1>5. ShapeInv'
  BY <1>e, <1>0, ThreadsAssumption DEF ReleaseCas, Drop, IInv, TypeOK, ControlInv, Goto,
       Become, heap, ShapeInv, NoEntry, RawIsa, MutualExclusion, InCriticalSection,
       HoldLabels, OldInv
<1>6. RefsInv'
  <2>1. /\ Become(t, "none") /\ owned' = owned - 1 /\ owned > 0
        /\ op[t] \in {"release"} /\ TypeOK /\ RefsInv /\ owned \in Nat
    BY <1>0 DEF ReleaseCas, Drop, IInv, TypeOK, ControlInv, Become, HoldOps
  <2>2. \A o \in {"none"} :
          /\ o \in Ops /\ One(o, HoldOps) - One(op[t], HoldOps) <= -1
          /\ -1 <= One(op[t], AddOps) - One(o, AddOps)
    BY <2>1 DEF One, HoldOps, AddOps, Ops
  <2> QED
    BY <2>1, <2>2, RefsStep
<1>7. CountIsExact' /\ NoPrematureDealloc'
  BY <1>e, <1>0, CountAssumption DEF ReleaseCas, Drop, IInv, TypeOK, ControlInv, Goto,
       Become, heap, CountIsExact, NoPrematureDealloc, Dying, IsDeallocating, Pinned,
       Count, InTransit, OverflowLabels, MutualExclusion, InCriticalSection, HoldLabels,
       ShapeInv, OldInv, NoEntry, RawIsa, IsaWord, Entry
<1>8. DeallocInv'
  BY <1>e, <1>0, ThreadsAssumption DEF ReleaseCas, Drop, IInv, TypeOK, ControlInv, Goto,
       Become, heap, DeallocInv, HoldOps, Dying, IsDeallocating, ShapeInv, RawIsa,
       NoEntry, MutualExclusion, InCriticalSection, HoldLabels
<1>9. WeakInv'
  BY <1>e, <1>0, ThreadsAssumption DEF ReleaseCas, Drop, IInv, TypeOK, ControlInv, Goto,
       Become, heap, WeakInv, HoldOps, DeallocInv, Try, IsDeallocating, ShapeInv,
       RawIsa, NoEntry, MutualExclusion, InCriticalSection, HoldLabels, SharedLabels,
       OldInv, Dying
<1> QED
  BY <1>1, <1>2, <1>3, <1>4, <1>5, <1>6, <1>7, <1>8, <1>9 DEF IInv

\* The last release marks the isa word deallocating.
LEMMA ReleaseDeallocStep ==
  ASSUME InlineOnly, IInv, NEW t \in Threads, ReleaseDealloc(t)
  PROVE  IInv'
<1>0. /\ op[t] \in HoldOps => owned > 0 /\ ~Dying /\ ~freed /\ ~IsDeallocating
      /\ isa.indexed /\ ~Dying /\ op[t] \in AddOps => ~Overflow(isa)
      /\ ~Dying /\ isa.indexed => InTransit = 0 /\ side.rc = 0 /\ owned = 1 + isa.extra_rc
  BY CallerFacts, CountNow
<1>e. /\ isa' \in IsaWord /\ isa.indexed /\ isa'.indexed /\ ~old[t].deallocating
      /\ isa'.deallocating /\ isa.extra_rc = 0 /\ isa'.extra_rc = 0 /\ owned = 1
      /\ isa'.weakly_referenced = isa.weakly_referenced /\ ~isa'.has_sidetable_rc
  <2>1. /\ pc[t] = "lDealloc" /\ op[t] = "release" /\ old[t].indexed /\ old[t].extra_rc = 0
        /\ ~old[t].deallocating /\ isa = old[t] /\ isa' = [old[t] EXCEPT !.deallocating = TRUE]
    BY DEF ReleaseDealloc, IInv, ControlInv, OldInv
  <2>2. owned = 1
    BY <1>0, <2>1 DEF HoldOps
  <2>3. isa \in IsaWord /\ ~isa.has_sidetable_rc
    BY DEF IInv, TypeOK, ShapeInv
  <2> QED
    BY <2>1, <2>2, <2>3 DEF IsaWord
<1>1. TypeOK'
  BY <1>e, <1>0 DEF ReleaseDealloc, Drop, IInv, TypeOK, ControlInv, Goto, Become, heap,
       Labels, Ops
<1>2. ControlInv'
  BY <1>e, <1>0, ThreadsAssumption DEF ReleaseDealloc, Drop, IInv, TypeOK, ControlInv,
       Goto, Become, heap, OverflowLabels, Try, ShapeInv
<1>3. MutualExclusion'
  BY <1>e, <1>0, ThreadsAssumption DEF ReleaseDealloc, Drop, IInv, TypeOK, ControlInv,
       Goto, Become, heap, MutualExclusion, InCriticalSection, HoldLabels, SharedLabels,
       Try, OverflowLabels
<1>4. OldInv'
  BY <1>e, <1>0, ThreadsAssumption DEF ReleaseDealloc, Drop, IInv, TypeOK, ControlInv,
       Goto, Become, heap, OldInv, OverflowLabels, IsDeallocating
<1>5. ShapeInv'
  BY <1>e, <1>0, ThreadsAssumption DEF ReleaseDealloc, Drop, IInv, TypeOK, ControlInv,
       Goto, Become, heap, ShapeInv, NoEntry, RawIsa, MutualExclusion,
       InCriticalSection, HoldLabels, OldInv
<1>6. RefsInv'
  <2>1. /\ Become(t, "dealloc") /\ owned' = owned - 1 /\ owned > 0
        /\ op[t] \in {"release"} /\ TypeOK /\ RefsInv /\ owned \in Nat
    BY <1>0 DEF ReleaseDealloc, Drop, OldInv, IInv, TypeOK, ControlInv, Become, HoldOps
  <2>2. \A o \in {"dealloc"} :
          /\ o \in Ops /\ One(o, HoldOps) - One(op[t], HoldOps) <= -1
          /\ -1 <= One(op[t], AddOps) - One(o, AddOps)
    BY <2>1 DEF One, HoldOps, AddOps, Ops
  <2> QED
    BY <2>1, <2>2, RefsStep
<1>7. CountIsExact' /\ NoPrematureDealloc'
  BY <1>e, <1>0, CountAssumption DEF ReleaseDealloc, Drop, IInv, TypeOK, ControlInv,
       Goto, Become, heap, CountIsExact, NoPrematureDealloc, Dying, IsDeallocating,
       Pinned, Count, InTransit, OverflowLabels, MutualExclusion, InCriticalSection,
       HoldLabels, ShapeInv, OldInv, NoEntry, RawIsa, IsaWord, Entry
<1>8. DeallocInv'
  BY <1>e, <1>0, ThreadsAssumption DEF ReleaseDealloc, Drop, IInv, TypeOK, ControlInv,
       Goto, Become, heap, DeallocInv, HoldOps, Dying, IsDeallocating, ShapeInv, RawIsa,
       NoEntry, MutualExclusion, InCriticalSection, HoldLabels
<1>9. WeakInv'
  BY <1>e, <1>0, ThreadsAssumption DEF ReleaseDealloc, Drop, IInv, TypeOK, ControlInv,
       Goto, Become, heap, WeakInv, HoldOps, DeallocInv, Try, IsDeallocating, ShapeInv,
       RawIsa, NoEntry, MutualExclusion, InCriticalSection, HoldLabels, SharedLabels,
       OldInv, Dying
<1> QED
  BY <1>1, <1>2, <1>3, <1>4, <1>5, <1>6, <1>7, <1>8, <1>9 DEF IInv

\* sidetable_release decrements, or marks the entry deallocating.
LEMMA SideReleaseStep ==
  ASSUME InlineOnly, IInv, NEW t \in Threads, SideRelease(t)
  PROVE  IInv'
<1>0. /\ op[t] \in HoldOps => owned > 0 /\ ~Dying /\ ~freed /\ ~IsDeallocating
      /\ isa.indexed /\ ~Dying /\ op[t] \in AddOps => ~Overflow(isa)
      /\ ~Dying /\ isa.indexed => InTransit = 0 /\ side.rc = 0 /\ owned = 1 + isa.extra_rc
  BY CallerFacts, CountNow
<1>e. /\ side' \in Entry /\ ~isa.indexed /\ side'.present /\ side'.weak = side.weak /\ owned > 0
      /\ ~side.deallocating
      /\ LastReference => side.rc = 0 /\ side'.rc = 0 /\ side'.deallocating /\ ~Pinned(side)
      /\ ~LastReference /\ ~Pinned(side) => side'.rc = side.rc - 1
      /\ ~LastReference => ~side'.deallocating
      /\ Pinned(side) => side'.rc = side.rc
  <2>1. /\ pc[t] = "slOp" /\ ~isa.indexed /\ owned > 0 /\ ~side.deallocating
        /\ side \in Entry /\ (~side.present => side = NoEntry) /\ PinnedAt \in Nat \ {0}
    BY <1>0, CountAssumption DEF SideRelease, IInv, TypeOK, ControlInv, ShapeInv, HoldOps,
         IsDeallocating
  <2>2. CASE LastReference
    <3>1. /\ side.rc = 0 /\ owned' = owned - 1
          /\ side' = [side EXCEPT !.present = TRUE, !.deallocating = TRUE]
      BY <2>1, <2>2 DEF SideRelease, LastReference, NoEntry, Drop
    <3>2. ~Pinned(side)
      BY <2>1, <3>1 DEF Pinned
    <3> QED
      BY <2>1, <2>2, <3>1, <3>2 DEF Entry
  <2>3. CASE ~LastReference
    <3>1. side.present /\ side.rc > 0 /\ side' = [side EXCEPT !.rc = Decremented]
      BY <2>1, <2>3 DEF SideRelease, LastReference, Entry
    <3>2. Decremented \in Nat /\ Decremented = IF Pinned(side) THEN side.rc ELSE side.rc - 1
      BY <2>1, <3>1 DEF Decremented, Entry
    <3> QED
      BY <2>1, <2>3, <3>1, <3>2 DEF Entry
  <2> QED
    BY <2>2, <2>3
<1>1. TypeOK'
  BY <1>e, <1>0 DEF SideRelease, Drop, LastReference, Decremented, IInv, TypeOK,
       ControlInv, Goto, Become, heap, Labels, Ops
<1>2. ControlInv'
  BY <1>e, <1>0, ThreadsAssumption DEF SideRelease, Drop, LastReference, Decremented,
       IInv, TypeOK, ControlInv, Goto, Become, heap, OverflowLabels, Try, ShapeInv
<1>3. MutualExclusion'
  BY <1>e, <1>0, ThreadsAssumption DEF SideRelease, Drop, LastReference, Decremented,
       IInv, TypeOK, ControlInv, Goto, Become, heap, MutualExclusion, InCriticalSection,
       HoldLabels, SharedLabels, Try, OverflowLabels
<1>4. OldInv'
  BY <1>e, <1>0, ThreadsAssumption DEF SideRelease, Drop, LastReference, Decremented,
       IInv, TypeOK, ControlInv, Goto, Become, heap, OldInv, OverflowLabels,
       IsDeallocating
<1>5. ShapeInv'
  BY <1>e, <1>0, ThreadsAssumption DEF SideRelease, Drop, LastReference, Decremented,
       IInv, TypeOK, ControlInv, Goto, Become, heap, ShapeInv, NoEntry, RawIsa,
       MutualExclusion, InCriticalSection, HoldLabels, OldInv
<1>6. RefsInv'
  <2>1. /\ (Become(t, "none") \/ Become(t, "dealloc")) /\ owned' = owned - 1 /\ owned > 0
        /\ op[t] \in {"release"} /\ TypeOK /\ RefsInv /\ owned \in Nat
    BY <1>0 DEF SideRelease, Drop, IInv, TypeOK, ControlInv, Become, HoldOps
  <2>2. \A o \in {"none", "dealloc"} :
          /\ o \in Ops /\ One(o, HoldOps) - One(op[t], HoldOps) <= -1
          /\ -1 <= One(op[t], AddOps) - One(o, AddOps)
    BY <2>1 DEF One, HoldOps, AddOps, Ops
  <2> QED
    BY <2>1, <2>2, RefsStep
<1>7. CountIsExact' /\ NoPrematureDealloc'
  BY <1>e, <1>0, CountAssumption DEF SideRelease, Drop, LastReference, Decremented,
       IInv, TypeOK, ControlInv, Goto, Become, heap, CountIsExact, NoPrematureDealloc,
       Dying, IsDeallocating, Pinned, Count, InTransit, OverflowLabels, MutualExclusion,
       InCriticalSection, HoldLabels, ShapeInv, OldInv, NoEntry, RawIsa, IsaWord, Entry
<1>8. DeallocInv'
  BY <1>e, <1>0, ThreadsAssumption DEF SideRelease, Drop, LastReference, Decremented,
       IInv, TypeOK, ControlInv, Goto, Become, heap, DeallocInv, HoldOps, Dying,
       IsDeallocating, ShapeInv, RawIsa, NoEntry, MutualExclusion, InCriticalSection,
       HoldLabels
<1>9. WeakInv'
  BY <1>e, <1>0, ThreadsAssumption DEF SideRelease, Drop, LastReference, Decremented,
       IInv, TypeOK, ControlInv, Goto, Become, heap, WeakInv, HoldOps, DeallocInv, Try,
       IsDeallocating, ShapeInv, RawIsa, NoEntry, MutualExclusion, InCriticalSection,
       HoldLabels, SharedLabels, OldInv, Dying
<1> QED
  BY <1>1, <1>2, <1>3, <1>4, <1>5, <1>6, <1>7, <1>8, <1>9 DEF IInv

\* rootDealloc frees the object at once.
LEMMA RootDeallocStep ==
  ASSUME InlineOnly, IInv, NEW t \in Threads, RootDealloc(t)
  PROVE  IInv'
<1>0. /\ op[t] \in HoldOps => owned > 0 /\ ~Dying /\ ~freed /\ ~IsDeallocating
      /\ isa.indexed /\ ~Dying /\ op[t] \in AddOps => ~Overflow(isa)
      /\ ~Dying /\ isa.indexed => InTransit = 0 /\ side.rc = 0 /\ owned = 1 + isa.extra_rc
  BY CallerFacts, CountNow
<1>1. TypeOK'
  BY <1>0 DEF RootDealloc, Free, NeedsClearing, IInv, TypeOK, ControlInv, Goto, Become,
       heap, Labels, Ops
<1>2. ControlInv'
  BY <1>0, ThreadsAssumption DEF RootDealloc, Free, NeedsClearing, IInv, TypeOK,
       ControlInv, Goto, Become, heap, OverflowLabels, Try, ShapeInv
<1>3. MutualExclusion'
  BY <1>0, ThreadsAssumption DEF RootDealloc, Free, NeedsClearing, IInv, TypeOK,
       ControlInv, Goto, Become, heap, MutualExclusion, InCriticalSection, HoldLabels,
       SharedLabels, Try, OverflowLabels
<1>4. OldInv'
  BY <1>0, ThreadsAssumption DEF RootDealloc, Free, NeedsClearing, IInv, TypeOK,
       ControlInv, Goto, Become, heap, OldInv, OverflowLabels, IsDeallocating
<1>5. ShapeInv'
  BY <1>0, ThreadsAssumption DEF RootDealloc, Free, NeedsClearing, IInv, TypeOK,
       ControlInv, Goto, Become, heap, ShapeInv, NoEntry, RawIsa, MutualExclusion,
       InCriticalSection, HoldLabels, OldInv
<1>6. RefsInv'
  <2>1. /\ Become(t, "none") /\ owned' = owned
        /\ op[t] \in {"dealloc"} /\ TypeOK /\ RefsInv /\ owned \in Nat
    BY <1>0 DEF RootDealloc, Free, IInv, TypeOK, ControlInv, Become, HoldOps
  <2>2. \A o \in {"none"} :
          /\ o \in Ops /\ One(o, HoldOps) - One(op[t], HoldOps) <= 0
          /\ 0 <= One(op[t], AddOps) - One(o, AddOps)
    BY <2>1 DEF One, HoldOps, AddOps, Ops
  <2> QED
    BY <2>1, <2>2, RefsStep
<1>7. CountIsExact' /\ NoPrematureDealloc'
  <2>1. Dying /\ Dying' /\ owned' = owned
    BY DEF RootDealloc, Free, IInv, DeallocInv, Dying
  <2> QED
    BY <2>1 DEF IInv, CountIsExact, NoPrematureDealloc
<1>8. DeallocInv'
  <2>1. op[t] = "dealloc" /\ Become(t, "none") /\ Goto(t, "idle") /\ UNCHANGED <<isa, side>>
    BY DEF RootDealloc, Free, IInv, ControlInv
  <2> QED
    BY <2>1 DEF IInv, TypeOK, DeallocInv, Become, Goto, IsDeallocating
<1>9. WeakInv'
  <2>1. /\ pc[t] = "dealloc" /\ Goto(t, "idle") /\ Become(t, "none") /\ freed' = TRUE
        /\ UNCHANGED <<isa, side, location>> /\ isa.indexed /\ ~isa.weakly_referenced
    BY DEF RootDealloc, Free, NeedsClearing
  <2>2. Dying
    BY <2>1 DEF IInv, DeallocInv, Dying
  <2>3. \A u \in Threads : op[u] \notin HoldOps
    BY <2>2, DyingAlone
  <2>4. ~location /\ ~side.present
    BY <2>1, <2>3 DEF IInv, ControlInv, ShapeInv, NoEntry, WeakInv, HoldOps
  <2> QED
    BY <2>1, <2>4 DEF IInv, TypeOK, WeakInv, Goto, Become, Try
<1> QED
  BY <1>1, <1>2, <1>3, <1>4, <1>5, <1>6, <1>7, <1>8, <1>9 DEF IInv

\* clearDeallocating clears weak variables and erases the entry.
LEMMA ClearStep ==
  ASSUME InlineOnly, IInv, NEW t \in Threads, Clear(t)
  PROVE  IInv'
<1>0. /\ op[t] \in HoldOps => owned > 0 /\ ~Dying /\ ~freed /\ ~IsDeallocating
      /\ isa.indexed /\ ~Dying /\ op[t] \in AddOps => ~Overflow(isa)
      /\ ~Dying /\ isa.indexed => InTransit = 0 /\ side.rc = 0 /\ owned = 1 + isa.extra_rc
  BY CallerFacts, CountNow
<1>1. TypeOK'
  BY <1>0 DEF Clear, NoEntry, Entry, IInv, TypeOK, ControlInv, Goto, Become, heap,
       Labels, Ops
<1>2. ControlInv'
  BY <1>0, ThreadsAssumption DEF Clear, NoEntry, Entry, IInv, TypeOK, ControlInv, Goto,
       Become, heap, OverflowLabels, Try, ShapeInv
<1>3. MutualExclusion'
  BY <1>0, ThreadsAssumption DEF Clear, NoEntry, Entry, IInv, TypeOK, ControlInv, Goto,
       Become, heap, MutualExclusion, InCriticalSection, HoldLabels, SharedLabels, Try,
       OverflowLabels
<1>4. OldInv'
  BY <1>0, ThreadsAssumption DEF Clear, NoEntry, Entry, IInv, TypeOK, ControlInv, Goto,
       Become, heap, OldInv, OverflowLabels, IsDeallocating
<1>5. ShapeInv'
  BY <1>0, ThreadsAssumption DEF Clear, NoEntry, Entry, IInv, TypeOK, ControlInv, Goto,
       Become, heap, ShapeInv, RawIsa, MutualExclusion, InCriticalSection, HoldLabels,
       OldInv
<1>6. RefsInv'
  <2>1. op' = op /\ owned' = owned
    BY DEF Clear, heap
  <2> QED
    BY <2>1 DEF IInv, RefsInv, Holding, Adding
<1>7. CountIsExact' /\ NoPrematureDealloc'
  <2>1. Dying /\ Dying' /\ owned' = owned
    BY DEF Clear, IInv, TypeOK, DeallocInv, Dying, Goto
  <2> QED
    BY <2>1 DEF IInv, CountIsExact, NoPrematureDealloc
<1>8. DeallocInv'
  BY <1>0, ThreadsAssumption DEF Clear, NoEntry, Entry, IInv, TypeOK, ControlInv, Goto,
       Become, heap, DeallocInv, HoldOps, Dying, IsDeallocating, ShapeInv, RawIsa,
       MutualExclusion, InCriticalSection, HoldLabels
<1>9. WeakInv'
  BY <1>0, ThreadsAssumption DEF Clear, NoEntry, Entry, IInv, TypeOK, ControlInv, Goto,
       Become, heap, WeakInv, HoldOps, DeallocInv, Try, IsDeallocating, ShapeInv,
       RawIsa, MutualExclusion, InCriticalSection, HoldLabels, SharedLabels, OldInv,
       Dying
<1> QED
  BY <1>1, <1>2, <1>3, <1>4, <1>5, <1>6, <1>7, <1>8, <1>9 DEF IInv

\* The memory is freed.
LEMMA DisposeStep ==
  ASSUME InlineOnly, IInv, NEW t \in Threads, Dispose(t)
  PROVE  IInv'
<1>0. /\ op[t] \in HoldOps => owned > 0 /\ ~Dying /\ ~freed /\ ~IsDeallocating
      /\ isa.indexed /\ ~Dying /\ op[t] \in AddOps => ~Overflow(isa)
      /\ ~Dying /\ isa.indexed => InTransit = 0 /\ side.rc = 0 /\ owned = 1 + isa.extra_rc
  BY CallerFacts, CountNow
<1>1. TypeOK'
  BY <1>0 DEF Dispose, Free, IInv, TypeOK, ControlInv, Goto, Become, heap, Labels, Ops
<1>2. ControlInv'
  BY <1>0, ThreadsAssumption DEF Dispose, Free, IInv, TypeOK, ControlInv, Goto, Become,
       heap, OverflowLabels, Try, ShapeInv
<1>3. MutualExclusion'
  BY <1>0, ThreadsAssumption DEF Dispose, Free, IInv, TypeOK, ControlInv, Goto, Become,
       heap, MutualExclusion, InCriticalSection, HoldLabels, SharedLabels, Try,
       OverflowLabels
<1>4. OldInv'
  BY <1>0, ThreadsAssumption DEF Dispose, Free, IInv, TypeOK, ControlInv, Goto, Become,
       heap, OldInv, OverflowLabels, IsDeallocating
<1>5. ShapeInv'
  BY <1>0, ThreadsAssumption DEF Dispose, Free, IInv, TypeOK, ControlInv, Goto, Become,
       heap, ShapeInv, NoEntry, RawIsa, MutualExclusion, InCriticalSection, HoldLabels,
       OldInv
<1>6. RefsInv'
  <2>1. /\ Become(t, "none") /\ owned' = owned
        /\ op[t] \in {"dealloc"} /\ TypeOK /\ RefsInv /\ owned \in Nat
    BY <1>0 DEF Dispose, Free, IInv, TypeOK, ControlInv, Become, HoldOps
  <2>2. \A o \in {"none"} :
          /\ o \in Ops /\ One(o, HoldOps) - One(op[t], HoldOps) <= 0
          /\ 0 <= One(op[t], AddOps) - One(o, AddOps)
    BY <2>1 DEF One, HoldOps, AddOps, Ops
  <2> QED
    BY <2>1, <2>2, RefsStep
<1>7. CountIsExact' /\ NoPrematureDealloc'
  BY <1>0, CountAssumption DEF Dispose, Free, IInv, TypeOK, ControlInv, Goto, Become,
       heap, CountIsExact, NoPrematureDealloc, Dying, IsDeallocating, Pinned, Count,
       InTransit, OverflowLabels, MutualExclusion, InCriticalSection, HoldLabels,
       ShapeInv, OldInv, NoEntry, RawIsa, IsaWord, Entry
<1>8. DeallocInv'
  BY <1>0, ThreadsAssumption DEF Dispose, Free, IInv, TypeOK, ControlInv, Goto, Become,
       heap, DeallocInv, HoldOps, Dying, IsDeallocating, ShapeInv, RawIsa, NoEntry,
       MutualExclusion, InCriticalSection, HoldLabels
<1>9. WeakInv'
  BY <1>0, ThreadsAssumption DEF Dispose, Free, IInv, TypeOK, ControlInv, Goto, Become,
       heap, WeakInv, HoldOps, DeallocInv, Try, IsDeallocating, ShapeInv, RawIsa,
       NoEntry, MutualExclusion, InCriticalSection, HoldLabels, SharedLabels, OldInv,
       Dying
<1> QED
  BY <1>1, <1>2, <1>3, <1>4, <1>5, <1>6, <1>7, <1>8, <1>9 DEF IInv

\* weak_register_no_lock registers the location.
LEMMA StoreWeakRegisterStep ==
  ASSUME InlineOnly, IInv, NEW t \in Threads, StoreWeakRegister(t)
  PROVE  IInv'
<1>0. /\ op[t] \in HoldOps => owned > 0 /\ ~Dying /\ ~freed /\ ~IsDeallocating
      /\ isa.indexed /\ ~Dying /\ op[t] \in AddOps => ~Overflow(isa)
      /\ ~Dying /\ isa.indexed => InTransit = 0 /\ side.rc = 0 /\ owned = 1 + isa.extra_rc
  BY CallerFacts, CountNow
<1>1. TypeOK'
  BY <1>0 DEF StoreWeakRegister, HoldOps, IInv, TypeOK, ControlInv, Goto, Become, heap,
       Labels, Ops
<1>2. ControlInv'
  BY <1>0, ThreadsAssumption DEF StoreWeakRegister, HoldOps, IInv, TypeOK, ControlInv,
       Goto, Become, heap, OverflowLabels, Try, ShapeInv
<1>3. MutualExclusion'
  BY <1>0, ThreadsAssumption DEF StoreWeakRegister, HoldOps, IInv, TypeOK, ControlInv,
       Goto, Become, heap, MutualExclusion, InCriticalSection, HoldLabels, SharedLabels,
       Try, OverflowLabels
<1>4. OldInv'
  BY <1>0, ThreadsAssumption DEF StoreWeakRegister, HoldOps, IInv, TypeOK, ControlInv,
       Goto, Become, heap, OldInv, OverflowLabels, IsDeallocating
<1>5. ShapeInv'
  BY <1>0, ThreadsAssumption DEF StoreWeakRegister, HoldOps, IInv, TypeOK, ControlInv,
       Goto, Become, heap, ShapeInv, NoEntry, RawIsa, MutualExclusion,
       InCriticalSection, HoldLabels, OldInv
<1>6. RefsInv'
  <2>1. op' = op /\ owned' = owned
    BY DEF StoreWeakRegister, heap
  <2> QED
    BY <2>1 DEF IInv, RefsInv, Holding, Adding
<1>7. CountIsExact' /\ NoPrematureDealloc'
  BY <1>0, CountAssumption DEF StoreWeakRegister, HoldOps, IInv, TypeOK, ControlInv,
       Goto, Become, heap, CountIsExact, NoPrematureDealloc, Dying, IsDeallocating,
       Pinned, Count, InTransit, OverflowLabels, MutualExclusion, InCriticalSection,
       HoldLabels, ShapeInv, OldInv, NoEntry, RawIsa, IsaWord, Entry
<1>8. DeallocInv'
  BY <1>0, ThreadsAssumption DEF StoreWeakRegister, HoldOps, IInv, TypeOK, ControlInv,
       Goto, Become, heap, DeallocInv, Dying, IsDeallocating, ShapeInv, RawIsa, NoEntry,
       MutualExclusion, InCriticalSection, HoldLabels
<1>9. WeakInv'
  BY <1>0, ThreadsAssumption DEF StoreWeakRegister, HoldOps, IInv, TypeOK, ControlInv,
       Goto, Become, heap, WeakInv, DeallocInv, Try, IsDeallocating, ShapeInv, RawIsa,
       NoEntry, MutualExclusion, InCriticalSection, HoldLabels, SharedLabels, OldInv,
       Dying
<1> QED
  BY <1>1, <1>2, <1>3, <1>4, <1>5, <1>6, <1>7, <1>8, <1>9 DEF IInv

\* setWeaklyReferenced_nolock loads isa, or flags the side table entry.
LEMMA SetWeaklyReferencedStep ==
  ASSUME InlineOnly, IInv, NEW t \in Threads, SetWeaklyReferenced(t)
  PROVE  IInv'
<1>0. /\ op[t] \in HoldOps => owned > 0 /\ ~Dying /\ ~freed /\ ~IsDeallocating
      /\ isa.indexed /\ ~Dying /\ op[t] \in AddOps => ~Overflow(isa)
      /\ ~Dying /\ isa.indexed => InTransit = 0 /\ side.rc = 0 /\ owned = 1 + isa.extra_rc
  BY CallerFacts, CountNow
<1>e. /\ side' \in Entry /\ side'.rc = side.rc /\ side'.deallocating = side.deallocating
      /\ isa.indexed => side' = side
      /\ ~isa.indexed => side'.present /\ side'.weak
  BY <1>0, CountAssumption DEF SetWeaklyReferenced, IsaWord, Entry, IInv, TypeOK,
       OldInv, ControlInv, ShapeInv, RawIsa, NoEntry, ExtraMax, HoldOps, IsDeallocating
<1>1. TypeOK'
  BY <1>e, <1>0 DEF SetWeaklyReferenced, IInv, TypeOK, ControlInv, Goto, Become, heap,
       Labels, Ops
<1>2. ControlInv'
  BY <1>e, <1>0, ThreadsAssumption DEF SetWeaklyReferenced, IInv, TypeOK, ControlInv,
       Goto, Become, heap, OverflowLabels, Try, ShapeInv
<1>3. MutualExclusion'
  BY <1>e, <1>0, ThreadsAssumption DEF SetWeaklyReferenced, IInv, TypeOK, ControlInv,
       Goto, Become, heap, MutualExclusion, InCriticalSection, HoldLabels, SharedLabels,
       Try, OverflowLabels
<1>4. OldInv'
  BY <1>e, <1>0, ThreadsAssumption DEF SetWeaklyReferenced, IInv, TypeOK, ControlInv,
       Goto, Become, heap, OldInv, OverflowLabels, IsDeallocating
<1>5. ShapeInv'
  BY <1>e, <1>0, ThreadsAssumption DEF SetWeaklyReferenced, IInv, TypeOK, ControlInv,
       Goto, Become, heap, ShapeInv, NoEntry, RawIsa, MutualExclusion,
       InCriticalSection, HoldLabels, OldInv
<1>6. RefsInv'
  <2>1. op' = op /\ owned' = owned
    BY DEF SetWeaklyReferenced, heap
  <2> QED
    BY <2>1 DEF IInv, RefsInv, Holding, Adding
<1>7. CountIsExact' /\ NoPrematureDealloc'
  BY <1>e, <1>0, CountAssumption DEF SetWeaklyReferenced, IInv, TypeOK, ControlInv,
       Goto, Become, heap, CountIsExact, NoPrematureDealloc, Dying, IsDeallocating,
       Pinned, Count, InTransit, OverflowLabels, MutualExclusion, InCriticalSection,
       HoldLabels, ShapeInv, OldInv, NoEntry, RawIsa, IsaWord, Entry
<1>8. DeallocInv'
  BY <1>e, <1>0, ThreadsAssumption DEF SetWeaklyReferenced, IInv, TypeOK, ControlInv,
       Goto, Become, heap, DeallocInv, HoldOps, Dying, IsDeallocating, ShapeInv, RawIsa,
       NoEntry, MutualExclusion, InCriticalSection, HoldLabels
<1>9. WeakInv'
  BY <1>e, <1>0, ThreadsAssumption DEF SetWeaklyReferenced, IInv, TypeOK, ControlInv,
       Goto, Become, heap, WeakInv, HoldOps, DeallocInv, Try, IsDeallocating, ShapeInv,
       RawIsa, NoEntry, MutualExclusion, InCriticalSection, HoldLabels, SharedLabels,
       OldInv, Dying
<1> QED
  BY <1>1, <1>2, <1>3, <1>4, <1>5, <1>6, <1>7, <1>8, <1>9 DEF IInv

\* setWeaklyReferenced_nolock stores the flagged isa.
LEMMA SetWeaklyReferencedCasStep ==
  ASSUME InlineOnly, IInv, NEW t \in Threads, SetWeaklyReferencedCas(t)
  PROVE  IInv'
<1>0. /\ op[t] \in HoldOps => owned > 0 /\ ~Dying /\ ~freed /\ ~IsDeallocating
      /\ isa.indexed /\ ~Dying /\ op[t] \in AddOps => ~Overflow(isa)
      /\ ~Dying /\ isa.indexed => InTransit = 0 /\ side.rc = 0 /\ owned = 1 + isa.extra_rc
  BY CallerFacts, CountNow
<1>e. /\ isa' \in IsaWord /\ isa'.indexed /\ isa.indexed
      /\ isa'.deallocating = isa.deallocating /\ isa'.extra_rc = isa.extra_rc
      /\ isa'.weakly_referenced /\ ~isa'.has_sidetable_rc
  BY <1>0, CountAssumption DEF SetWeaklyReferencedCas, IsaWord, Entry, IInv, TypeOK,
       OldInv, ControlInv, ShapeInv, RawIsa, NoEntry, ExtraMax, HoldOps, IsDeallocating
<1>1. TypeOK'
  BY <1>e, <1>0 DEF SetWeaklyReferencedCas, IInv, TypeOK, ControlInv, Goto, Become,
       heap, Labels, Ops
<1>2. ControlInv'
  BY <1>e, <1>0, ThreadsAssumption DEF SetWeaklyReferencedCas, IInv, TypeOK, ControlInv,
       Goto, Become, heap, OverflowLabels, Try, ShapeInv
<1>3. MutualExclusion'
  BY <1>e, <1>0, ThreadsAssumption DEF SetWeaklyReferencedCas, IInv, TypeOK, ControlInv,
       Goto, Become, heap, MutualExclusion, InCriticalSection, HoldLabels, SharedLabels,
       Try, OverflowLabels
<1>4. OldInv'
  BY <1>e, <1>0, ThreadsAssumption DEF SetWeaklyReferencedCas, IInv, TypeOK, ControlInv,
       Goto, Become, heap, OldInv, OverflowLabels, IsDeallocating
<1>5. ShapeInv'
  BY <1>e, <1>0, ThreadsAssumption DEF SetWeaklyReferencedCas, IInv, TypeOK, ControlInv,
       Goto, Become, heap, ShapeInv, NoEntry, RawIsa, MutualExclusion,
       InCriticalSection, HoldLabels, OldInv
<1>6. RefsInv'
  <2>1. op' = op /\ owned' = owned
    BY DEF SetWeaklyReferencedCas, heap
  <2> QED
    BY <2>1 DEF IInv, RefsInv, Holding, Adding
<1>7. CountIsExact' /\ NoPrematureDealloc'
  BY <1>e, <1>0, CountAssumption DEF SetWeaklyReferencedCas, IInv, TypeOK, ControlInv,
       Goto, Become, heap, CountIsExact, NoPrematureDealloc, Dying, IsDeallocating,
       Pinned, Count, InTransit, OverflowLabels, MutualExclusion, InCriticalSection,
       HoldLabels, ShapeInv, OldInv, NoEntry, RawIsa, IsaWord, Entry
<1>8. DeallocInv'
  BY <1>e, <1>0, ThreadsAssumption DEF SetWeaklyReferencedCas, IInv, TypeOK, ControlInv,
       Goto, Become, heap, DeallocInv, HoldOps, Dying, IsDeallocating, ShapeInv, RawIsa,
       NoEntry, MutualExclusion, InCriticalSection, HoldLabels
<1>9. WeakInv'
  BY <1>e, <1>0, ThreadsAssumption DEF SetWeaklyReferencedCas, IInv, TypeOK, ControlInv,
       Goto, Become, heap, WeakInv, HoldOps, DeallocInv, Try, IsDeallocating, ShapeInv,
       RawIsa, NoEntry, MutualExclusion, InCriticalSection, HoldLabels, SharedLabels,
       OldInv, Dying
<1> QED
  BY <1>1, <1>2, <1>3, <1>4, <1>5, <1>6, <1>7, <1>8, <1>9 DEF IInv

\* The location is unregistered.
LEMMA DropWeakStep ==
  ASSUME InlineOnly, IInv, NEW t \in Threads, DropWeak(t)
  PROVE  IInv'
<1>0. /\ op[t] \in HoldOps => owned > 0 /\ ~Dying /\ ~freed /\ ~IsDeallocating
      /\ isa.indexed /\ ~Dying /\ op[t] \in AddOps => ~Overflow(isa)
      /\ ~Dying /\ isa.indexed => InTransit = 0 /\ side.rc = 0 /\ owned = 1 + isa.extra_rc
  BY CallerFacts, CountNow
<1>1. TypeOK'
  BY <1>0 DEF DropWeak, IInv, TypeOK, ControlInv, Goto, Become, heap, Labels, Ops
<1>2. ControlInv'
  BY <1>0, ThreadsAssumption DEF DropWeak, IInv, TypeOK, ControlInv, Goto, Become, heap,
       OverflowLabels, Try, ShapeInv
<1>3. MutualExclusion'
  BY <1>0, ThreadsAssumption DEF DropWeak, IInv, TypeOK, ControlInv, Goto, Become, heap,
       MutualExclusion, InCriticalSection, HoldLabels, SharedLabels, Try, OverflowLabels
<1>4. OldInv'
  BY <1>0, ThreadsAssumption DEF DropWeak, IInv, TypeOK, ControlInv, Goto, Become, heap,
       OldInv, OverflowLabels, IsDeallocating
<1>5. ShapeInv'
  BY <1>0, ThreadsAssumption DEF DropWeak, IInv, TypeOK, ControlInv, Goto, Become, heap,
       ShapeInv, NoEntry, RawIsa, MutualExclusion, InCriticalSection, HoldLabels, OldInv
<1>6. RefsInv'
  <2>1. op' = op /\ owned' = owned
    BY DEF DropWeak, heap
  <2> QED
    BY <2>1 DEF IInv, RefsInv, Holding, Adding
<1>7. CountIsExact' /\ NoPrematureDealloc'
  BY <1>0, CountAssumption DEF DropWeak, IInv, TypeOK, ControlInv, Goto, Become, heap,
       CountIsExact, NoPrematureDealloc, Dying, IsDeallocating, Pinned, Count,
       InTransit, OverflowLabels, MutualExclusion, InCriticalSection, HoldLabels,
       ShapeInv, OldInv, NoEntry, RawIsa, IsaWord, Entry
<1>8. DeallocInv'
  BY <1>0, ThreadsAssumption DEF DropWeak, IInv, TypeOK, ControlInv, Goto, Become, heap,
       DeallocInv, HoldOps, Dying, IsDeallocating, ShapeInv, RawIsa, NoEntry,
       MutualExclusion, InCriticalSection, HoldLabels
<1>9. WeakInv'
  BY <1>0, ThreadsAssumption DEF DropWeak, IInv, TypeOK, ControlInv, Goto, Become, heap,
       WeakInv, HoldOps, DeallocInv, Try, IsDeallocating, ShapeInv, RawIsa, NoEntry,
       MutualExclusion, InCriticalSection, HoldLabels, SharedLabels, OldInv, Dying
<1> QED
  BY <1>1, <1>2, <1>3, <1>4, <1>5, <1>6, <1>7, <1>8, <1>9 DEF IInv

\* changeIsa stores the raw isa.
LEMMA ChangeIsaCasStep ==
  ASSUME InlineOnly, IInv, NEW t \in Threads, ChangeIsaCas(t)
  PROVE  IInv'
<1>0. /\ op[t] \in HoldOps => owned > 0 /\ ~Dying /\ ~freed /\ ~IsDeallocating
      /\ isa.indexed /\ ~Dying /\ op[t] \in AddOps => ~Overflow(isa)
      /\ ~Dying /\ isa.indexed => InTransit = 0 /\ side.rc = 0 /\ owned = 1 + isa.extra_rc
  BY CallerFacts, CountNow
<1>e. /\ isa' = RawIsa /\ isa.indexed /\ isa = old[t] /\ ~isa.deallocating /\ side = NoEntry
      /\ RawIsa \in IsaWord
  BY <1>0, CountAssumption DEF ChangeIsaCas, IsaWord, Entry, IInv, TypeOK, OldInv,
       ControlInv, ShapeInv, RawIsa, NoEntry, ExtraMax, HoldOps, IsDeallocating
<1>1. TypeOK'
  BY <1>e, <1>0 DEF ChangeIsaCas, IInv, TypeOK, ControlInv, Goto, Become, heap, Labels,
       Ops
<1>2. ControlInv'
  BY <1>e, <1>0, ThreadsAssumption DEF ChangeIsaCas, IInv, TypeOK, ControlInv, Goto,
       Become, heap, OverflowLabels, Try, ShapeInv
<1>3. MutualExclusion'
  <2>1. Goto(t, "cMove") /\ UNCHANGED <<lock, op, stLocked>> /\ pc[t] = "cCas" /\ stLocked[t]
    BY DEF ChangeIsaCas, IInv, ControlInv
  <2> QED
    BY <2>1 DEF IInv, TypeOK, MutualExclusion, InCriticalSection, HoldLabels, SharedLabels, Goto,
         Try
<1>4. OldInv'
  BY <1>e, <1>0, ThreadsAssumption DEF ChangeIsaCas, IInv, TypeOK, ControlInv, Goto,
       Become, heap, OldInv, OverflowLabels, IsDeallocating
<1>5. ShapeInv'
  BY <1>e, <1>0, ThreadsAssumption DEF ChangeIsaCas, IInv, TypeOK, ControlInv, Goto,
       Become, heap, ShapeInv, NoEntry, RawIsa, MutualExclusion, InCriticalSection,
       HoldLabels, OldInv
<1>6. RefsInv'
  <2>1. op' = op /\ owned' = owned
    BY DEF ChangeIsaCas, heap
  <2> QED
    BY <2>1 DEF IInv, RefsInv, Holding, Adding
<1>7. CountIsExact' /\ NoPrematureDealloc'
  <2>1. /\ Goto(t, "cMove") /\ UNCHANGED <<lock, op, old, side, freed, owned>> /\ pc[t] = "cCas"
        /\ op[t] = "changeIsa" /\ stLocked[t] /\ pc \in [Threads -> Labels]
    BY DEF ChangeIsaCas, IInv, TypeOK, ControlInv
  <2>2. lock = t /\ t # NoThread
    BY <2>1, ThreadsAssumption DEF IInv, MutualExclusion, InCriticalSection, SharedLabels
  <2>3. InTransit' = isa.extra_rc
    BY <1>e, <2>1, <2>2 DEF InTransit, Goto
  <2>4. ~Dying /\ ~Dying'
    BY <1>e, <1>0, <2>1 DEF HoldOps, Dying, IsDeallocating, RawIsa, NoEntry, Goto
  <2>5. owned = 1 + isa.extra_rc /\ isa'.extra_rc = 0 /\ side'.rc = 0 /\ isa.extra_rc \in Nat
    BY <1>e, <1>0, <2>1, <2>4, CountAssumption DEF RawIsa, NoEntry, IInv, TypeOK, IsaWord, ExtraMax
  <2> QED
    BY <2>1, <2>3, <2>4, <2>5 DEF CountIsExact, NoPrematureDealloc, Count
<1>8. DeallocInv'
  BY <1>e, <1>0, ThreadsAssumption DEF ChangeIsaCas, IInv, TypeOK, ControlInv, Goto,
       Become, heap, DeallocInv, HoldOps, Dying, IsDeallocating, ShapeInv, RawIsa,
       NoEntry, MutualExclusion, InCriticalSection, HoldLabels
<1>9. WeakInv'
  BY <1>e, <1>0, ThreadsAssumption DEF ChangeIsaCas, IInv, TypeOK, ControlInv, Goto,
       Become, heap, WeakInv, HoldOps, DeallocInv, Try, IsDeallocating, ShapeInv,
       RawIsa, NoEntry, MutualExclusion, InCriticalSection, HoldLabels, SharedLabels,
       OldInv, Dying
<1> QED
  BY <1>1, <1>2, <1>3, <1>4, <1>5, <1>6, <1>7, <1>8, <1>9 DEF IInv

\* sidetable_moveExtraRC_nolock moves count and flags to the side table.
LEMMA ChangeIsaMoveStep ==
  ASSUME InlineOnly, IInv, NEW t \in Threads, ChangeIsaMove(t)
  PROVE  IInv'
<1>0. /\ op[t] \in HoldOps => owned > 0 /\ ~Dying /\ ~freed /\ ~IsDeallocating
      /\ isa.indexed /\ ~Dying /\ op[t] \in AddOps => ~Overflow(isa)
      /\ ~Dying /\ isa.indexed => InTransit = 0 /\ side.rc = 0 /\ owned = 1 + isa.extra_rc
  BY CallerFacts, CountNow
<1>e. /\ side' \in Entry /\ ~isa.indexed /\ side'.present /\ ~side'.deallocating /\ side = NoEntry
      /\ side'.rc = old[t].extra_rc /\ side'.weak = old[t].weakly_referenced
  BY <1>0, CountAssumption DEF ChangeIsaMove, IsaWord, Entry, IInv, TypeOK, OldInv,
       ControlInv, ShapeInv, RawIsa, NoEntry, ExtraMax, HoldOps, IsDeallocating
<1>1. TypeOK'
  BY <1>e, <1>0 DEF ChangeIsaMove, IInv, TypeOK, ControlInv, Goto, Become, heap, Labels,
       Ops
<1>2. ControlInv'
  BY <1>e, <1>0, ThreadsAssumption DEF ChangeIsaMove, IInv, TypeOK, ControlInv, Goto,
       Become, heap, OverflowLabels, Try, ShapeInv
<1>3. MutualExclusion'
  BY <1>e, <1>0, ThreadsAssumption DEF ChangeIsaMove, IInv, TypeOK, ControlInv, Goto,
       Become, heap, MutualExclusion, InCriticalSection, HoldLabels, SharedLabels, Try,
       OverflowLabels
<1>4. OldInv'
  BY <1>e, <1>0, ThreadsAssumption DEF ChangeIsaMove, IInv, TypeOK, ControlInv, Goto,
       Become, heap, OldInv, OverflowLabels, IsDeallocating
<1>5. ShapeInv'
  BY <1>e, <1>0, ThreadsAssumption DEF ChangeIsaMove, IInv, TypeOK, ControlInv, Goto,
       Become, heap, ShapeInv, NoEntry, RawIsa, MutualExclusion, InCriticalSection,
       HoldLabels, OldInv
<1>6. RefsInv'
  <2>1. op' = op /\ owned' = owned
    BY DEF ChangeIsaMove, heap
  <2> QED
    BY <2>1 DEF IInv, RefsInv, Holding, Adding
<1>7. CountIsExact' /\ NoPrematureDealloc'
  <2>1. /\ Goto(t, "unlock") /\ UNCHANGED <<lock, op, old, isa, freed, owned>> /\ pc[t] = "cMove"
        /\ op[t] = "changeIsa" /\ pc \in [Threads -> Labels]
    BY DEF ChangeIsaMove, IInv, TypeOK, ControlInv
  <2>2. lock = t /\ t # NoThread
    BY <2>1, ThreadsAssumption DEF IInv, MutualExclusion, InCriticalSection, HoldLabels
  <2>3. InTransit' = 0 /\ InTransit = old[t].extra_rc
    BY <2>1, <2>2 DEF InTransit, Goto
  <2>4. ~Dying /\ ~Dying'
    BY <1>e, <1>0, <2>1 DEF HoldOps, Dying, IsDeallocating, NoEntry, Goto
  <2>5. ~Pinned(side) /\ side.rc = 0 /\ isa.extra_rc \in Nat /\ old[t].extra_rc \in Nat
    BY <1>e, CountAssumption DEF NoEntry, Pinned, IInv, TypeOK, IsaWord, ExtraMax
  <2>6. owned = 1 + isa.extra_rc + side.rc + old[t].extra_rc
    BY <2>3, <2>4, <2>5, CountNow
  <2> QED
    BY <1>e, <2>1, <2>3, <2>4, <2>5, <2>6 DEF CountIsExact, NoPrematureDealloc, Count
<1>8. DeallocInv'
  BY <1>e, <1>0, ThreadsAssumption DEF ChangeIsaMove, IInv, TypeOK, ControlInv, Goto,
       Become, heap, DeallocInv, HoldOps, Dying, IsDeallocating, ShapeInv, RawIsa,
       NoEntry, MutualExclusion, InCriticalSection, HoldLabels
<1>9. WeakInv'
  BY <1>e, <1>0, ThreadsAssumption DEF ChangeIsaMove, IInv, TypeOK, ControlInv, Goto,
       Become, heap, WeakInv, HoldOps, DeallocInv, Try, IsDeallocating, ShapeInv,
       RawIsa, NoEntry, MutualExclusion, InCriticalSection, HoldLabels, SharedLabels,
       OldInv, Dying
<1> QED
  BY <1>1, <1>2, <1>3, <1>4, <1>5, <1>6, <1>7, <1>8, <1>9 DEF IInv

-----------------------------------------------------------------------------
(* The invariant, and what follows from it                                 *)

\* The invariant holds when the object is allocated.
LEMMA InitInvariant ==
  ASSUME InlineOnly, Init
  PROVE  IInv
<1>0. PICK indexed \in Births : isa = NewIsa(indexed)
  BY DEF Init
<1> USE <1>0 DEF Init, NewIsa, RawIsa, NoEntry
<1>1. isa \in IsaWord /\ RawIsa \in IsaWord /\ NoEntry \in Entry
  <2>1. 0 \in 0..ExtraMax /\ indexed \in BOOLEAN
    BY CountAssumption DEF ExtraMax
  <2> QED
    BY <2>1 DEF IsaWord, Entry
<1>2. TypeOK
  BY <1>1 DEF TypeOK, Labels, Ops
<1>3. Holding = {} /\ Adding = {}
  BY DEF Holding, Adding, HoldOps, AddOps
<1>4. RefsInv
  BY <1>3, FS_EmptySet, CountAssumption DEF RefsInv
<1>5. ControlInv /\ MutualExclusion /\ OldInv /\ ShapeInv
  BY CountAssumption DEF ControlInv, OverflowLabels, MutualExclusion, InCriticalSection,
       HoldLabels, SharedLabels, OldInv, ShapeInv, MayBeIndexed
<1>6. ~Dying /\ InTransit = 0
  BY DEF Dying, IsDeallocating, InTransit
<1>7. CountIsExact /\ NoPrematureDealloc
  BY <1>6 DEF CountIsExact, Count, NoPrematureDealloc
<1>8. DeallocInv /\ WeakInv
  BY DEF DeallocInv, WeakInv
<1> QED
  BY <1>2, <1>4, <1>5, <1>7, <1>8 DEF IInv

\* A step that changes nothing keeps the invariant.
LEMMA StutterStep ==
  ASSUME IInv, UNCHANGED vars
  PROVE  IInv'
<1> USE DEF IInv, vars, heap
<1>1. TypeOK' /\ ControlInv' /\ MutualExclusion' /\ OldInv' /\ ShapeInv'
  BY DEF TypeOK, ControlInv, MutualExclusion, InCriticalSection, Try, OldInv, ShapeInv
<1>2. RefsInv'
  BY DEF RefsInv, Holding, Adding
<1>3. (Dying' <=> Dying) /\ InTransit' = InTransit
  BY DEF Dying, IsDeallocating, InTransit
<1>4. CountIsExact' /\ NoPrematureDealloc'
  BY <1>3 DEF CountIsExact, Count, Pinned, NoPrematureDealloc
<1>5. DeallocInv' /\ WeakInv'
  BY DEF DeallocInv, IsDeallocating, WeakInv, Try
<1> QED
  BY <1>1, <1>2, <1>4, <1>5

\* Every step of every thread keeps the invariant.
LEMMA Step ==
  ASSUME InlineOnly, IInv, [Next]_vars
  PROVE  IInv'
<1>1. CASE UNCHANGED vars
  BY <1>1, StutterStep
<1>2. CASE Next
  <2>1. PICK t \in Threads : \/ Starts(t) \/ Locks(t) \/ Unlock(t) \/ CasFails(t)
                             \/ Retains(t) \/ Releases(t) \/ Others(t)
    BY <1>2 DEF Next
  <2>2. CASE Starts(t) \/ Locks(t) \/ Unlock(t) \/ CasFails(t)
    BY <2>2, StartsStep, LocksStep, UnlockStep, CasFailsStep
  <2>3. CASE Retains(t)
    <3>1. CASE RetainAdd(t) \/ RetainUnlockRaw(t)
      BY <3>1, UnreachedStep DEF RetainAdd, RetainUnlockRaw, UnlockAndGoto, OverflowLabels
    <3>2. CASE RetainLoad(t) \/ RetainCas(t) \/ SideRetain(t) \/ SideTryRetain(t) \/ WeakCheck(t)
      BY <3>2, RetainLoadStep, RetainCasStep, SideRetainStep, SideTryRetainStep, WeakCheckStep
    <3> QED
      BY <2>3, <3>1, <3>2 DEF Retains
  <2>4. CASE Releases(t)
    <3>1. CASE \/ ReleaseCheck(t) \/ ReleaseBorrow(t) \/ ReleaseStore(t) \/ ReleaseStoreFails(t)
               \/ ReleaseReload(t) \/ ReleasePutBack(t) \/ ReleaseUnlockDealloc(t)
               \/ ReleaseUnlockRaw(t)
      BY <3>1, UnreachedStep DEF ReleaseCheck, ReleaseBorrow, ReleaseStore, ReleaseStoreFails,
           ReleaseReload, ReleasePutBack, ReleaseUnlockDealloc, ReleaseUnlockRaw,
           UnlockAndGoto, OverflowLabels
    <3>2. CASE \/ ReleaseLoad(t) \/ ReleaseCas(t) \/ ReleaseDealloc(t) \/ SideRelease(t)
               \/ SideReleaseUnlock(t)
      BY <3>2, ReleaseLoadStep, ReleaseCasStep, ReleaseDeallocStep, SideReleaseStep,
         UnlockAndGotoStep
    <3> QED
      BY <2>4, <3>1, <3>2 DEF Releases
  <2>5. CASE Others(t)
    <3>1. CASE RootDealloc(t) \/ Clear(t) \/ ClearUnlock(t) \/ Dispose(t)
      BY <3>1, RootDeallocStep, ClearStep, UnlockAndGotoStep, DisposeStep
    <3>2. CASE \/ StoreWeakRegister(t) \/ SetWeaklyReferenced(t) \/ SetWeaklyReferencedCas(t)
               \/ DropWeak(t)
      BY <3>2, StoreWeakRegisterStep, SetWeaklyReferencedStep, SetWeaklyReferencedCasStep,
         DropWeakStep
    <3>3. CASE ChangeIsaLoad(t) \/ ChangeIsaCas(t) \/ ChangeIsaMove(t)
      BY <3>3, ChangeIsaLoadStep, ChangeIsaCasStep, ChangeIsaMoveStep
    <3> QED
      BY <2>5, <3>1, <3>2, <3>3 DEF Others
  <2> QED
    BY <2>1, <2>2, <2>3, <2>4, <2>5
<1> QED
  BY <1>1, <1>2

\* The inductive invariant holds in every state, for any number of threads.
THEOREM Invariant == ASSUME InlineOnly PROVE Spec => []IInv
<1>1. Init => IInv
  BY InitInvariant
<1>2. IInv /\ [Next]_vars => IInv'
  BY Step
<1> QED
  BY <1>1, <1>2, PTL DEF Spec

\* Every variable keeps its type: no inline count leaves the width of extra_rc, no
\* side table count goes below zero (rootRetain, rootRelease, sidetable_release).
THEOREM TypeCorrect == ASSUME InlineOnly PROVE Spec => []TypeOK
<1>1. IInv => TypeOK
  BY DEF IInv
<1> QED
  BY <1>1, Invariant, PTL

\* A thread inside a critical section is the one the side table lock was given to
\* (SideTable::lock around every access, sideTableLocked in rootRetain and changeIsa).
THEOREM Exclusion == ASSUME InlineOnly PROVE Spec => []MutualExclusion
<1>1. IInv => MutualExclusion
  BY DEF IInv
<1> QED
  BY <1>1, Invariant, PTL

\* No reference is lost or made up, through retains, releases, weak loads and the
\* change of an object to a raw isa (rootRetain, rootRelease, changeIsa).
THEOREM CountExact == ASSUME InlineOnly PROVE Spec => []CountIsExact
<1>1. IInv => CountIsExact
  BY DEF IInv
<1> QED
  BY <1>1, Invariant, PTL

\* Deallocation begins only when no reference is left (rootRelease, sidetable_release).
THEOREM NoEarlyDealloc == ASSUME InlineOnly PROVE Spec => []NoPrematureDealloc
<1>1. IInv => NoPrematureDealloc
  BY DEF IInv
<1> QED
  BY <1>1, Invariant, PTL

\* No thread is about to touch the object, or its side table entry, once it is freed.
THEOREM NoUseOnceFreed == ASSUME InlineOnly PROVE Spec => []NoUseAfterFree
<1>1. ASSUME InlineOnly, IInv PROVE NoUseAfterFree
  <2> SUFFICES ASSUME freed, NEW t \in Threads
               PROVE  pc[t] \in {"idle", "wLock", "wCheck", "uLock", "uOp", "unlock"}
    BY DEF NoUseAfterFree
  <2>1. op[t] \notin HoldOps
    BY <1>1, DyingAlone DEF Dying
  <2>2. op[t] # "dealloc" /\ ~location
    BY <1>1 DEF IInv, DeallocInv, WeakInv
  <2> QED
    BY <1>1, <2>1, <2>2 DEF IInv, TypeOK, ControlInv, WeakInv, Try, HoldOps, Labels,
         OverflowLabels
<1> QED
  BY <1>1, Invariant, PTL

\* A freed object leaves neither a side table entry nor a weak variable behind
\* (rootDealloc's fast path, clearDeallocating, sidetable_clearDeallocating).
THEOREM ClearedFirst == ASSUME InlineOnly PROVE Spec => []ClearedBeforeFree
<1>1. IInv => ClearedBeforeFree
  BY DEF IInv, WeakInv, ClearedBeforeFree
<1> QED
  BY <1>1, Invariant, PTL

-----------------------------------------------------------------------------
(* The detailed count implements the atomic one                            *)

\* A count that never reaches the value where it sticks.
NeverPins == MaxRefs <= PinnedAt

Unpinned == side.rc < MaxRefs

\* The side table count stays below the number of references outstanding.
LEMMA UnpinnedStep ==
  ASSUME InlineOnly, NeverPins, IInv, IInv', Unpinned, [Next]_vars
  PROVE  Unpinned'
<1>1. /\ PinnedAt \in Nat \ {0} /\ MaxRefs \in Nat \ {0} /\ side.rc \in Nat /\ owned \in Nat
      /\ isa.extra_rc \in Nat /\ ~Pinned(side) /\ side \in Entry
      /\ \A t \in Threads : old[t].extra_rc \in Nat
  BY CountAssumption DEF IInv, TypeOK, IsaWord, Entry, ExtraMax, NeverPins, Unpinned, Pinned
<1>2. InTransit \in Nat
  BY <1>1, CountAssumption DEF InTransit, IInv, TypeOK
<1>3. ~Dying => owned = 1 + isa.extra_rc + side.rc + InTransit
  BY <1>1 DEF IInv, CountIsExact, Count
<1>4. CASE side' = side
  BY <1>4 DEF Unpinned
<1>5. CASE side' = NoEntry
  BY <1>1, <1>5 DEF Unpinned, NoEntry
<1>6. ASSUME NEW t \in Threads, SideRetain(t) \/ SideTryRetain(t), side' # side
      PROVE  Unpinned'
  <2>1. op[t] \in AddOps /\ AddExtraRC(1) /\ ~Dying
    BY <1>6, CallerFacts DEF SideRetain, SideTryRetain, TryFails, Try, IInv, TypeOK,
         ControlInv, WeakInv, HoldOps, AddOps, Dying
  <2>2. owned < MaxRefs
    BY <2>1, CallerFacts
  <2>3. side'.rc = side.rc + 1
    BY <1>1, <2>1, EntryAfterAdd
  <2> QED
    BY <1>1, <1>2, <1>3, <2>1, <2>2, <2>3 DEF Unpinned
<1>7. ASSUME NEW t \in Threads, SideRelease(t)
      PROVE  Unpinned'
  <2>1. ~IsDeallocating /\ ~isa.indexed
    BY <1>7, CallerFacts DEF SideRelease, IInv, ControlInv, HoldOps
  <2>2. CASE LastReference
    BY <1>1, <1>7, <2>2 DEF SideRelease, Unpinned, Entry
  <2>3. CASE ~LastReference
    <3>1. side.rc > 0 /\ Decremented = side.rc - 1
      BY <1>1, <2>1, <2>3 DEF LastReference, IsDeallocating, Decremented
    <3>2. side'.rc = side.rc - 1
      BY <1>1, <1>7, <2>3, <3>1 DEF SideRelease, Entry
    <3> QED
      BY <1>1, <3>1, <3>2 DEF Unpinned
  <2> QED
    BY <2>2, <2>3
<1>8. ASSUME NEW t \in Threads, SetWeaklyReferenced(t)
      PROVE  Unpinned'
  BY <1>1, <1>8 DEF SetWeaklyReferenced, Unpinned, Entry
<1>9. ASSUME NEW t \in Threads, ChangeIsaMove(t)
      PROVE  Unpinned'
  <2>1. /\ op[t] = "changeIsa" /\ lock = t /\ pc[t] = "cMove" /\ side = NoEntry
        /\ side'.rc = side.rc + old[t].extra_rc
    BY <1>9 DEF ChangeIsaMove, IInv, ControlInv, ShapeInv, MutualExclusion, InCriticalSection,
         HoldLabels
  <2>2. InTransit = old[t].extra_rc
    BY <2>1, ThreadsAssumption DEF InTransit
  <2>3. ~Dying /\ owned <= MaxRefs
    <3>1. Adding \in SUBSET Threads
      BY DEF Adding
    <3>2. Cardinality(Adding) \in Nat
      BY <3>1, FS_Subset, FS_CardinalityType, ThreadsAssumption
    <3> QED
      BY <1>1, <2>1, <3>2, CallerFacts DEF HoldOps, IInv, RefsInv
  <2> QED
    BY <1>1, <1>3, <2>1, <2>2, <2>3 DEF Unpinned
<1> QED
  <2>1. CASE UNCHANGED vars
    BY <1>4, <2>1 DEF vars
  <2>2. ASSUME NEW t \in Threads, Starts(t) \/ Locks(t) \/ Unlock(t) \/ CasFails(t)
        PROVE  side' = side
    BY <2>2 DEF Starts, StartRetain, StartRelease, StartLoadWeak, StartStoreWeak, StartDropWeak,
         StartChangeIsa, Start, Locks, RetainLock, SideRetainLock, WeakLock, ReleaseLock,
         SideReleaseLock, ClearLock, StoreWeakLock, DropWeakLock, ChangeIsaLock,
         AcquireForIsa, AcquirePlain, Acquire, Unlock, CasFails, heap
  <2>3. ASSUME NEW t \in Threads, Retains(t)
        PROVE  side' = side \/ SideRetain(t) \/ SideTryRetain(t)
    BY <2>3 DEF Retains, RetainLoad, RetainCas, RetainAdd, RetainUnlockRaw, UnlockAndGoto,
         WeakCheck, heap, IInv, ControlInv, OverflowLabels
  <2>4. ASSUME NEW t \in Threads, Releases(t)
        PROVE  side' = side \/ SideRelease(t)
    BY <2>4 DEF Releases, ReleaseLoad, ReleaseCas, ReleaseCheck, ReleaseBorrow, ReleaseStore,
         ReleaseStoreFails, ReleaseReload, ReleasePutBack, ReleaseUnlockDealloc, ReleaseDealloc,
         ReleaseUnlockRaw, SideReleaseUnlock, UnlockAndGoto, heap, IInv, ControlInv,
         OverflowLabels
  <2>5. ASSUME NEW t \in Threads, Others(t)
        PROVE  side' = side \/ side' = NoEntry \/ SetWeaklyReferenced(t) \/ ChangeIsaMove(t)
    BY <2>5 DEF Others, RootDealloc, Clear, ClearUnlock, Dispose, Free, StoreWeakRegister,
         SetWeaklyReferencedCas, DropWeak, ChangeIsaLoad, ChangeIsaCas, UnlockAndGoto, heap
  <2> QED
    BY <1>4, <1>5, <1>6, <1>7, <1>8, <1>9, <2>1, <2>2, <2>3, <2>4, <2>5 DEF Next

\* The count the abstract specification sees.
AbsCount == IF Dying THEN 0 ELSE Count

\* It is the number of references outstanding.
LEMMA AbsCountIsOwned ==
  ASSUME IInv, NeverPins, Unpinned
  PROVE  AbsCount = owned
BY CountAssumption DEF AbsCount, IInv, TypeOK, Entry, CountIsExact, NoPrematureDealloc,
     NeverPins, Unpinned, Pinned

\* The effect of a step on what the abstract specification sees.
LEMMA Effects ==
  ASSUME InlineOnly, NeverPins, Unpinned, IInv, IInv', NEW t \in Threads,
         \/ Starts(t) \/ Locks(t) \/ Unlock(t) \/ CasFails(t)
         \/ Retains(t) \/ Releases(t) \/ Others(t)
  PROVE  \/ UNCHANGED <<owned, location, freed>>
         \/ owned > 0 /\ owned' = owned + 1 /\ UNCHANGED <<location, freed>>
         \/ owned > 0 /\ owned' = owned - 1 /\ UNCHANGED <<location, freed>>
         \/ owned > 0 /\ location' = TRUE /\ UNCHANGED <<owned, freed>>
         \/ location' = FALSE /\ UNCHANGED <<owned, freed>>
         \/ owned = 0 /\ ~freed /\ ~location /\ freed' = TRUE /\ UNCHANGED <<owned, location>>
<1>0. op[t] \in HoldOps => owned > 0 /\ ~Dying
  BY CallerFacts
<1>1. CASE Starts(t) \/ Locks(t) \/ Unlock(t) \/ CasFails(t)
  BY <1>1 DEF Starts, StartRetain, StartRelease, StartLoadWeak, StartStoreWeak, StartDropWeak,
       StartChangeIsa, Start, Locks, RetainLock, SideRetainLock, WeakLock, ReleaseLock,
       SideReleaseLock, ClearLock, StoreWeakLock, DropWeakLock, ChangeIsaLock,
       AcquireForIsa, AcquirePlain, Acquire, Unlock, CasFails, heap
<1>2. CASE RetainCas(t) \/ SideRetain(t) \/ SideTryRetain(t)
  <2>1. \/ owned' = owned + 1 /\ ~Dying /\ UNCHANGED <<location, freed>>
        \/ UNCHANGED <<owned, location, freed>>
    BY <1>0, <1>2 DEF RetainCas, SideRetain, SideTryRetain, TryFails, Try, IInv, TypeOK,
         ControlInv, OldInv, WeakInv, HoldOps, Dying, IsDeallocating
  <2>2. ~Dying => owned > 0
    <3>1. AbsCount = owned
      BY AbsCountIsOwned
    <3> QED
      BY <3>1, CountAssumption DEF AbsCount, Count, InTransit, IInv, TypeOK, IsaWord, Entry,
           ExtraMax
  <2> QED
    BY <2>1, <2>2
<1>3. CASE Retains(t) /\ ~(RetainCas(t) \/ SideRetain(t) \/ SideTryRetain(t))
  BY <1>3 DEF Retains, RetainLoad, RetainAdd, RetainUnlockRaw, UnlockAndGoto, WeakCheck, heap,
       IInv, ControlInv, OverflowLabels
<1>4. CASE ReleaseCas(t) \/ ReleaseDealloc(t) \/ SideRelease(t)
  BY <1>0, <1>4 DEF ReleaseCas, ReleaseDealloc, SideRelease, Drop, IInv, ControlInv, HoldOps
<1>5. CASE Releases(t) /\ ~(ReleaseCas(t) \/ ReleaseDealloc(t) \/ SideRelease(t))
  BY <1>5 DEF Releases, ReleaseLoad, ReleaseCheck, ReleaseBorrow, ReleaseStore,
       ReleaseStoreFails, ReleaseReload, ReleasePutBack, ReleaseUnlockDealloc,
       ReleaseUnlockRaw, SideReleaseUnlock, UnlockAndGoto, heap, IInv, ControlInv,
       OverflowLabels
<1>6. CASE RootDealloc(t) \/ Dispose(t)
  <2>1. op[t] = "dealloc" /\ freed' = TRUE /\ UNCHANGED <<owned, location>> /\ ~freed
    BY <1>6 DEF RootDealloc, Dispose, Free, IInv, ControlInv, DeallocInv
  <2>2. Dying
    BY <1>6 DEF RootDealloc, Dispose, IInv, DeallocInv, Dying
  <2>3. owned = 0 /\ ~location'
    BY <2>1, <2>2 DEF IInv, NoPrematureDealloc, WeakInv
  <2> QED
    BY <2>1, <2>3
<1>7. CASE Clear(t) \/ ClearUnlock(t) \/ DropWeak(t)
  BY <1>7 DEF Clear, ClearUnlock, UnlockAndGoto, DropWeak, heap, IInv, TypeOK
<1>8. CASE StoreWeakRegister(t)
  BY <1>0, <1>8 DEF StoreWeakRegister, IInv, ControlInv, HoldOps, Dying
<1>9. CASE \/ SetWeaklyReferenced(t) \/ SetWeaklyReferencedCas(t) \/ ChangeIsaLoad(t)
           \/ ChangeIsaCas(t) \/ ChangeIsaMove(t)
  BY <1>9 DEF SetWeaklyReferenced, SetWeaklyReferencedCas, ChangeIsaLoad, ChangeIsaCas,
       ChangeIsaMove, heap
<1> QED
  BY <1>1, <1>2, <1>3, <1>4, <1>5, <1>6, <1>7, <1>8, <1>9 DEF Others

\* The inline count, the overflow count, the lock and the retries implement one
\* atomic count, whatever the number of threads (rootRetain, rootRelease, changeIsa,
\* objc_loadWeakRetained, clearDeallocating), if the count does not reach PinnedAt.
THEOREM Refinement == ASSUME InlineOnly, NeverPins PROVE Spec => Implements
<1> USE DEF AbsCount
<1>1. ASSUME InlineOnly, Init PROVE Abstract!Init /\ Unpinned
  <2>1. ~Dying /\ Count = 1
    BY <1>1 DEF Init, NewIsa, RawIsa, NoEntry, Dying, IsDeallocating, Count, InTransit
  <2> QED
    BY <1>1, <2>1, CountAssumption DEF Init, NoEntry, Unpinned, Abstract!Init
<1>2. ASSUME InlineOnly, NeverPins, IInv, IInv', Unpinned, [Next]_vars
      PROVE  Unpinned' /\ [Abstract!Next]_Abstract!vars
  <2>1. Unpinned'
    BY <1>2, UnpinnedStep
  <2>2. AbsCount = owned
    BY <1>2, AbsCountIsOwned
  <2>3. AbsCount' = owned'
    BY <1>2, <2>1, CountAssumption DEF IInv, TypeOK, Entry, CountIsExact, NoPrematureDealloc,
         NeverPins, Unpinned, Pinned
  <2> HIDE DEF AbsCount
  <2>4. CASE UNCHANGED vars
    BY <2>1, <2>2, <2>3, <2>4 DEF vars, Abstract!vars, AbsCount
  <2>5. CASE Next
    <3>1. PICK t \in Threads : \/ Starts(t) \/ Locks(t) \/ Unlock(t) \/ CasFails(t)
                               \/ Retains(t) \/ Releases(t) \/ Others(t)
      BY <2>5 DEF Next
    <3> QED
      BY <1>2, <2>1, <2>2, <2>3, <3>1, Effects DEF AbsCount, Abstract!Next, Abstract!vars,
         Abstract!Retain, Abstract!Release, Abstract!StoreWeak, Abstract!ClearWeak,
         Abstract!Free
  <2> QED
    BY <1>2, <2>1, <2>4, <2>5
<1> QED
  BY <1>1, <1>2, Invariant, PTL DEF Spec, Implements, Abstract!Spec

------------------------------------------------------------------------------
(* The table of reference counts: DenseMap, for any hashes and any numbers  *)
(* of keys. The probe of a table of 2^k buckets visits each of them once,   *)
(* which is why a search that has an empty bucket to end at does end.       *)

\* The powers of two: the numbers that 1 and doubling lead to.
Powers == {n \in Nat \ {0} : \A S \in SUBSET Nat : 1 \in S /\ (\A x \in S : 2 * x \in S) => n \in S}

\* One and what doubling makes of it.
LEMMA PowersGrow == 1 \in Powers /\ \A n \in Powers : 2 * n \in Powers
<1>1. 1 \in Powers
  BY DEF Powers
<1>2. ASSUME NEW n \in Powers
      PROVE  2 * n \in Powers
  <2>1. n \in Nat \ {0} /\ 2 * n \in Nat \ {0}
    BY DEF Powers
  <2>2. ASSUME NEW S \in SUBSET Nat, 1 \in S, \A x \in S : 2 * x \in S
        PROVE  2 * n \in S
    <3>1. n \in S
      BY <2>2 DEF Powers
    <3> QED
      BY <2>2, <3>1
  <2> QED
    BY <2>1, <2>2 DEF Powers
<1> QED
  BY <1>1, <1>2

\* An odd factor has no part in a power of two.
LEMMA OddFactor ==
  ASSUME NEW n \in Powers
  PROVE  \A a, b \in Nat : \A q \in Int :
           a % 2 = 1 /\ a * b = n * q => \E c \in Int : b = n * c
<1> DEFINE S == {m \in Nat : \A a, b \in Nat : \A q \in Int :
                   a % 2 = 1 /\ a * b = m * q => \E c \in Int : b = m * c}
<1>1. 1 \in S
  OBVIOUS
<1>2. ASSUME NEW m \in S
      PROVE  2 * m \in S
  <2> SUFFICES ASSUME NEW a \in Nat, NEW b \in Nat, NEW q \in Int, a % 2 = 1, a * b = (2 * m) * q
               PROVE  \E c \in Int : b = (2 * m) * c
    OBVIOUS
  <2>1. PICK p : p = 2 * q /\ p \in Int
    OBVIOUS
  <2>2. a * b = m * p
    BY <2>1
  <2>3. PICK c \in Int : b = m * c
    BY <2>1, <2>2
  <2>4. CASE m = 0
    BY <2>3, <2>4
  <2>5. CASE m # 0
    <3>1. PICK e : e = a * c /\ e \in Int
      OBVIOUS
    <3>2. m * e = m * (2 * q)
      <4>1. m * (a * c) = a * (m * c)
        OBVIOUS
      <4>2. (2 * m) * q = m * (2 * q)
        OBVIOUS
      <4> QED
        BY <2>3, <3>1, <4>1, <4>2
    <3>3. e = 2 * q
      <4>1. \A x, y \in Int : m * x = m * y => x = y
        <5>1. m \in Nat \ {0}
          BY <2>5
        <5> QED
          BY <5>1
      <4> QED
        BY <3>1, <3>2, <4>1
    <3>4. c % 2 = 0
      <4>1. PICK u, v : u = a \div 2 /\ v = c \div 2
        OBVIOUS
      <4>2. u \in Int /\ v \in Int /\ a = 2 * u + 1 /\ c = 2 * v + (c % 2) /\ c % 2 \in 0 .. 1
        BY <4>1
      <4>3. SUFFICES ASSUME c % 2 = 1
                     PROVE  FALSE
        BY <4>2
      <4>4. a * c = (2 * u + 1) * (2 * v + 1)
        BY <4>2, <4>3
      <4>5. (2 * u + 1) * (2 * v + 1) = 2 * (2 * (u * v) + u + v) + 1
        BY <4>2
      <4>6. PICK w : w = 2 * (u * v) + u + v /\ w \in Int
        BY <4>2
      <4>7. 2 * q = 2 * w + 1
        BY <3>1, <3>3, <4>4, <4>5, <4>6
      <4> QED
        BY <4>6, <4>7
    <3>5. PICK d : d = c \div 2 /\ d \in Int
      OBVIOUS
    <3>6. c = 2 * d
      BY <3>4, <3>5
    <3>7. b = (2 * m) * d
      BY <2>3, <3>5, <3>6
    <3> QED
      BY <3>5, <3>7
  <2> QED
    BY <2>4, <2>5
<1>3. n \in S
  <2> HIDE DEF S
  <2>1. S \in SUBSET Nat
    BY DEF S
  <2> QED
    BY <1>1, <1>2, <2>1 DEF Powers
<1> QED
  BY <1>3

\* The steps of the probe, 1, 2, 3 and so on, add up to these.
Triangle(i) == (i * (i + 1)) \div 2

\* A triangular number is half of a product.
LEMMA TriangleFacts ==
  ASSUME NEW i \in Nat
  PROVE  Triangle(i) \in Nat /\ 2 * Triangle(i) = i * (i + 1)
<1>1. PICK h, r : h = i \div 2 /\ r = i % 2
  OBVIOUS
<1>2. h \in Nat /\ r \in 0 .. 1 /\ i = 2 * h + r
  BY <1>1
<1>3. PICK p : p = i * (i + 1) /\ p \in Nat
  OBVIOUS
<1>4. p % 2 = 0
  <2>1. CASE r = 0
    <3>1. PICK e : e = h * (i + 1) /\ e \in Nat
      BY <1>2
    <3>2. p = 2 * e
      <4>1. (2 * h) * (i + 1) = 2 * (h * (i + 1))
        BY <1>2
      <4> QED
        BY <1>2, <1>3, <2>1, <3>1, <4>1
    <3> QED
      BY <3>1, <3>2
  <2>2. CASE r = 1
    <3>1. PICK e : e = i * (h + 1) /\ e \in Nat
      BY <1>2
    <3>2. p = 2 * e
      <4>1. i * (2 * h + 2) = 2 * (i * (h + 1))
        BY <1>2
      <4> QED
        BY <1>2, <1>3, <2>2, <3>1, <4>1
    <3> QED
      BY <3>1, <3>2
  <2> QED
    BY <1>2, <2>1, <2>2
<1>5. p \div 2 \in Nat /\ 2 * (p \div 2) = p
  BY <1>3, <1>4
<1> QED
  BY <1>3, <1>5 DEF Triangle

\* Where a probe that starts at h is after i others, in a table of n buckets.
Spot(h, i, n) == (h + Triangle(i)) % n

\* A probe does not meet a bucket twice within n steps, if n is a power of two.
LEMMA SpotsDiffer ==
  ASSUME NEW n \in Powers, NEW h \in Nat, NEW i \in 0 .. n - 1, NEW j \in 0 .. n - 1, i < j,
         Spot(h, i, n) = Spot(h, j, n)
  PROVE  FALSE
<1>1. n \in Nat \ {0} /\ i \in Nat /\ j \in Nat
  BY DEF Powers
<1>2. PICK s, t : s = Triangle(i) /\ t = Triangle(j)
  OBVIOUS
<1>3. s \in Nat /\ t \in Nat /\ 2 * s = i * (i + 1) /\ 2 * t = j * (j + 1)
  BY <1>1, <1>2, TriangleFacts
<1>4. PICK u, v, r : u = (h + s) \div n /\ v = (h + t) \div n /\ r = (h + s) % n
  OBVIOUS
<1>5. u \in Int /\ v \in Int /\ r \in Int /\ h + s = n * u + r /\ h + t = n * v + r
  <2>1. h + s \in Int /\ h + t \in Int /\ r = (h + t) % n
    BY <1>2, <1>3, <1>4 DEF Spot
  <2>2. /\ (h + s) % n \in 0 .. n - 1 /\ (h + s) \div n \in Int
        /\ h + s = n * ((h + s) \div n) + ((h + s) % n)
    BY <1>1, <2>1, Division
  <2>3. /\ (h + t) % n \in 0 .. n - 1 /\ (h + t) \div n \in Int
        /\ h + t = n * ((h + t) \div n) + ((h + t) % n)
    BY <1>1, <2>1, Division
  <2> QED
    BY <1>4, <2>1, <2>2, <2>3
<1>6. PICK q : q = v - u /\ q \in Int
  BY <1>5
<1>7. t - s = n * q
  <2>1. n * v - n * u = n * (v - u)
    BY <1>1, <1>5
  <2> QED
    BY <1>1, <1>3, <1>5, <1>6, <2>1
<1>8. PICK a, b : a = j - i /\ b = j + i + 1
  OBVIOUS
<1>9. a \in Nat /\ b \in Nat /\ a + b = 2 * j + 1 /\ a > 0 /\ a < n /\ b < 2 * n /\ b > 0
  BY <1>1, <1>8
<1>10. a * b = (2 * n) * q
  <2>1. (j - i) * (j + i + 1) = j * (j + 1) - i * (i + 1)
    BY <1>1
  <2>2. 2 * t - 2 * s = 2 * (n * q)
    BY <1>3, <1>7
  <2>3. 2 * (n * q) = (2 * n) * q
    BY <1>1, <1>6
  <2> QED
    BY <1>3, <1>8, <2>1, <2>2, <2>3
<1>11. PICK d : d = 2 * n /\ d \in Powers
  BY PowersGrow
<1>12. \A c \in Int : c = 0 \/ d * c >= d \/ d * c < 0
  <2>1. d \in Nat \ {0}
    BY <1>11 DEF Powers
  <2> QED
    BY <2>1
<1>13. CASE a % 2 = 1
  <2>1. a \in Nat /\ b \in Nat /\ q \in Int /\ a % 2 = 1 /\ a * b = d * q
    BY <1>6, <1>9, <1>10, <1>11, <1>13
  <2>2. PICK c \in Int : b = d * c
    BY <1>11, <2>1, OddFactor
  <2>3. d * 0 = 0
    BY <1>1, <1>11
  <2> QED
    BY <1>1, <1>9, <1>11, <1>12, <2>2, <2>3
<1>14. CASE a % 2 # 1
  <2>1. b % 2 = 1
    BY <1>1, <1>9, <1>14
  <2>2. b \in Nat /\ a \in Nat /\ q \in Int /\ b % 2 = 1 /\ b * a = d * q
    <3>1. b * a = a * b
      BY <1>9
    <3> QED
      BY <1>6, <1>9, <1>10, <1>11, <2>1, <3>1
  <2>3. PICK c \in Int : a = d * c
    BY <1>11, <2>2, OddFactor
  <2>4. d * 0 = 0
    BY <1>1, <1>11
  <2> QED
    BY <1>1, <1>9, <1>11, <1>12, <2>3, <2>4
<1> QED
  BY <1>13, <1>14

\* So it meets every bucket.
LEMMA SpotsCover ==
  ASSUME NEW n \in Powers, NEW h \in Nat
  PROVE  /\ \A i \in Nat : Spot(h, i, n) \in 0 .. n - 1
         /\ \A b \in 0 .. n - 1 : \E i \in 0 .. n - 1 : Spot(h, i, n) = b
<1>1. n \in Nat \ {0}
  BY DEF Powers
<1>2. ASSUME NEW i \in Nat
      PROVE  Spot(h, i, n) \in 0 .. n - 1
  <2>1. PICK t : t = Triangle(i) /\ t \in Nat
    BY TriangleFacts
  <2>2. (h + t) % n \in 0 .. n - 1
    BY <1>1, <2>1
  <2> QED
    BY <2>1, <2>2 DEF Spot
<1>3. PICK f : f = [i \in 0 .. n - 1 |-> Spot(h, i, n)]
  OBVIOUS
<1>4. f \in [0 .. n - 1 -> 0 .. n - 1]
  <2>1. \A i \in 0 .. n - 1 : i \in Nat
    BY <1>1
  <2>2. \A i \in 0 .. n - 1 : Spot(h, i, n) \in 0 .. n - 1
    BY <1>2, <2>1
  <2> QED
    BY <1>3, <2>2
<1>5. \A i, j \in 0 .. n - 1 : f[i] = f[j] => i = j
  <2> SUFFICES ASSUME NEW i \in 0 .. n - 1, NEW j \in 0 .. n - 1, f[i] = f[j], i # j
               PROVE  FALSE
    OBVIOUS
  <2>1. Spot(h, i, n) = Spot(h, j, n)
    BY <1>3
  <2>2. i < j \/ j < i
    BY <1>1
  <2> QED
    BY <2>1, <2>2, SpotsDiffer
<1>6. f \in Injection(0 .. n - 1, 0 .. n - 1)
  BY <1>4, <1>5 DEF Injection, IsInjective
<1>7. IsFiniteSet(0 .. n - 1)
  <2>1. PICK m : m = n - 1 /\ m \in Int
    BY <1>1
  <2>2. IsFiniteSet(0 .. m)
    BY <2>1, FS_Interval
  <2> QED
    BY <2>1, <2>2
<1>8. f \in Surjection(0 .. n - 1, 0 .. n - 1)
  BY <1>6, <1>7, FS_Injection
<1>9. \A b \in 0 .. n - 1 : \E i \in 0 .. n - 1 : f[i] = b
  BY <1>8 DEF Surjection
<1> QED
  BY <1>2, <1>3, <1>9

\* NextPowerOf2's loop.
Doubles(f, a) == f = [i \in 0 .. a |-> IF i = 0 THEN 1 ELSE IF i < f[i - 1] THEN f[i - 1] ELSE 2 * f[i - 1]]

\* NextPowerOf2 answers a power of two that is greater.
LEMMA NextPowerIs ==
  ASSUME NEW a \in Nat
  PROVE  NextPowerOf2(a) \in Powers /\ NextPowerOf2(a) > a
<1> DEFINE R == [i \in 0 .. a |-> {p \in Powers : p > i}]
           g == [x \in Nat \X (1 .. a) |-> IF x[2] < x[1] THEN x[1] ELSE 2 * x[1]]
<1>1. \A p \in Powers : p \in Nat \ {0} /\ 2 * p \in Powers
  BY PowersGrow DEF Powers
<1>2. ASSUME NEW i \in 1 .. a, NEW p \in R[i - 1]
      PROVE  (IF i < p THEN p ELSE 2 * p) \in R[i] /\ p \in Nat
  <2>1. i - 1 \in 0 .. a /\ i \in 0 .. a
    OBVIOUS
  <2>2. p \in Powers /\ p > i - 1
    BY <1>2, <2>1
  <2>3. p \in Nat \ {0} /\ 2 * p \in Powers
    BY <1>1, <2>2
  <2>4. (IF i < p THEN p ELSE 2 * p) > i
    BY <2>1, <2>2, <2>3
  <2>5. (IF i < p THEN p ELSE 2 * p) \in Powers
    BY <2>2, <2>3
  <2> QED
    BY <2>1, <2>3, <2>4, <2>5
<1>3. TurnsKeep(g, a, R)
  <2> SUFFICES ASSUME NEW i \in 1 .. a, NEW x \in R[i - 1]
               PROVE  g[<<x, i>>] \in R[i]
    BY DEF TurnsKeep
  <2> QED
    BY <1>2
<1>4. 1 \in R[0]
  BY PowersGrow
<1>5. \E f : Doubles(f, a) /\ \A i \in 0 .. a : f[i] \in R[i]
  <2>1. PICK f : Loops(f, a, 1, g) /\ \A i \in 0 .. a : f[i] \in R[i]
    <3> HIDE DEF R, g
    <3> QED
      BY <1>3, <1>4, LoopExists
  <2>2. \A i \in 1 .. a : g[<<f[i - 1], i>>] = IF i < f[i - 1] THEN f[i - 1] ELSE 2 * f[i - 1]
    <3> SUFFICES ASSUME NEW i \in 1 .. a
                 PROVE  g[<<f[i - 1], i>>] = IF i < f[i - 1] THEN f[i - 1] ELSE 2 * f[i - 1]
      OBVIOUS
    <3>1. f[i - 1] \in R[i - 1]
      BY <2>1
    <3>2. f[i - 1] \in Nat
      <4> HIDE DEF R
      <4> QED
        BY <1>2, <3>1
    <3> QED
      BY <3>2
  <2>3. Doubles(f, a)
    <3> HIDE DEF g, R
    <3>1. f = [i \in 0 .. a |-> IF i = 0 THEN 1 ELSE g[<<f[i - 1], i>>]]
      BY <2>1 DEF Loops
    <3>2. \A i \in 0 .. a : (IF i = 0 THEN 1 ELSE g[<<f[i - 1], i>>])
                            = IF i = 0 THEN 1 ELSE IF i < f[i - 1] THEN f[i - 1] ELSE 2 * f[i - 1]
      BY <2>2
    <3> QED
      BY <3>1, <3>2 DEF Doubles
  <2> QED
    BY <2>1, <2>3
<1>6. PICK h : h = (CHOOSE f : Doubles(f, a)) /\ Doubles(h, a)
  BY <1>5, Zenon
<1>7. NextPowerOf2(a) = h[a]
  BY <1>6 DEF NextPowerOf2, Doubles
<1>8. \A i \in 0 .. a : h[i] \in R[i]
  <2>0. \A i \in 0 .. a : h[i] = IF i = 0 THEN 1 ELSE IF i < h[i - 1] THEN h[i - 1] ELSE 2 * h[i - 1]
    BY <1>6, Zenon DEF Doubles
  <2>1. h[0] = 1
    BY <2>0
  <2>2. \A i \in 1 .. a : h[i] = IF i < h[i - 1] THEN h[i - 1] ELSE 2 * h[i - 1]
    BY <2>0
  <2>3. \A i \in 1 .. a : h[i - 1] \in R[i - 1] => h[i] \in R[i]
    <3> HIDE DEF R
    <3> QED
      BY <1>2, <2>2
  <2> HIDE DEF R
  <2> QED
    BY <1>4, <2>1, <2>3, LoopKeeps
<1> QED
  BY <1>7, <1>8

\* MIN_BUCKETS is a power of two.
LEMMA MinBucketsIs == MinBuckets \in Powers
<1>1. MinBuckets \in Nat \ {0} /\ NextPowerOf2(MinBuckets - 1) = MinBuckets
  BY DenseMapAssumption
<1>2. PICK a \in Nat : a = MinBuckets - 1
  BY <1>1
<1> QED
  BY <1>1, <1>2, NextPowerIs

\* The types.
Buckets   == [key : Keys \cup {EmptyKey, TombstoneKey}, count : Nat]
DenseMaps == [size : Nat, buckets : UNION {[0 .. n - 1 -> Buckets] : n \in Nat},
              entries : Nat, tombstones : Nat]

Live(m)  == {b \in 0 .. m.size - 1 : m.buckets[b].key \in Keys}
Tombs(m) == {b \in 0 .. m.size - 1 : m.buckets[b].key = TombstoneKey}

\* The search for k comes to bucket b, unless k is before it.
WayTo(m, k, b) ==
  \E i \in 0 .. m.size - 1 :
    /\ Spot(KeyHash[k], i, m.size) = b
    /\ \A j \in 0 .. i - 1 : m.buckets[Spot(KeyHash[k], j, m.size)].key # EmptyKey

\* A map of n buckets.
DenseHas(m, n) ==
  /\ m \in DenseMaps /\ m.size = n /\ m.buckets \in [0 .. n - 1 -> Buckets]
  /\ n = 0 \/ n \in Powers
  /\ \A b, c \in Live(m) : m.buckets[b].key = m.buckets[c].key => b = c
  /\ \A b \in Live(m) : WayTo(m, m.buckets[b].key, b)
  /\ m.entries = Cardinality(Live(m)) /\ m.tombstones = Cardinality(Tombs(m))

\* Some bucket is empty.
HasEmpty(m) == \E b \in 0 .. m.size - 1 : m.buckets[b].key = EmptyKey

\* What is assumed of the constants.
LEMMA DenseConstants ==
  /\ EmptyKey \notin Keys /\ TombstoneKey \notin Keys /\ EmptyKey # TombstoneKey
  /\ \A k \in Keys : KeyHash[k] \in Nat
BY DenseMapAssumption

\* Types and numbers of the buckets of each kind; one is empty exactly if not all are counted.
LEMMA DenseFacts ==
  ASSUME NEW m, NEW n, DenseHas(m, n)
  PROVE  /\ n \in Nat /\ m.entries \in Nat /\ m.tombstones \in Nat /\ m.size = n
         /\ IsFiniteSet(Live(m)) /\ IsFiniteSet(Tombs(m)) /\ m.entries + m.tombstones <= n
         /\ Live(m) \cap Tombs(m) = {} /\ Live(m) \subseteq 0 .. n - 1 /\ Tombs(m) \subseteq 0 .. n - 1
         /\ HasEmpty(m) => m.entries + m.tombstones < n
         /\ m.entries + m.tombstones # n => HasEmpty(m)
         /\ \A b \in 0 .. n - 1 : m.buckets[b] \in Buckets
<1>1. /\ m.size = n /\ m.size \in Nat /\ m.entries \in Nat /\ m.tombstones \in Nat
      /\ m.buckets \in [0 .. n - 1 -> Buckets]
      /\ m.entries = Cardinality(Live(m)) /\ m.tombstones = Cardinality(Tombs(m))
  BY DEF DenseHas, DenseMaps
<1>2. PICK U : U = 0 .. n - 1 /\ IsFiniteSet(U) /\ Cardinality(U) = n
  <2>1. PICK x : x = n - 1 /\ x \in Int
    BY <1>1
  <2>2. IsFiniteSet(0 .. x) /\ Cardinality(0 .. x) = IF 0 > x THEN 0 ELSE x - 0 + 1
    <3>1. x \in Int
      BY <2>1
    <3> QED
      BY <3>1, FS_Interval
  <2>3. (IF 0 > x THEN 0 ELSE x - 0 + 1) = n
    BY <1>1, <2>1
  <2> QED
    BY <2>1, <2>2, <2>3
<1>3. /\ Live(m) = {b \in U : m.buckets[b].key \in Keys}
      /\ Tombs(m) = {b \in U : m.buckets[b].key = TombstoneKey}
  BY <1>1, <1>2 DEF Live, Tombs
<1>4. Live(m) \subseteq U /\ Tombs(m) \subseteq U /\ Live(m) \cap Tombs(m) = {}
  BY <1>3, DenseConstants
<1>5. IsFiniteSet(Live(m)) /\ IsFiniteSet(Tombs(m))
  BY <1>2, <1>4, FS_Subset
<1>6. PICK S : S = Live(m) \cup Tombs(m)
  OBVIOUS
<1>7. Cardinality(S) = m.entries + m.tombstones
  <2>1. Cardinality(Live(m) \cup Tombs(m))
          = Cardinality(Live(m)) + Cardinality(Tombs(m)) - Cardinality(Live(m) \cap Tombs(m))
    BY <1>5, FS_Union
  <2>2. Cardinality(Live(m) \cap Tombs(m)) = 0
    BY <1>4, FS_EmptySet
  <2> QED
    BY <1>1, <1>6, <2>1, <2>2
<1>8. S \subseteq U /\ IsFiniteSet(S) /\ Cardinality(S) <= n /\ (Cardinality(S) = n => S = U)
  BY <1>2, <1>4, <1>6, FS_Subset
<1>9. \A b \in U : m.buckets[b] \in Buckets /\ (b \notin S <=> m.buckets[b].key = EmptyKey)
  BY <1>1, <1>2, <1>3, <1>6, DenseConstants DEF Buckets
<1>10. HasEmpty(m) <=> S # U
  BY <1>1, <1>2, <1>8, <1>9 DEF HasEmpty
<1>11. PICK s, e, d : s = Cardinality(S) /\ e = m.entries /\ d = m.tombstones
  OBVIOUS
<1>12. S # U => s # n
  BY <1>8, <1>11
<1>13. S = U => s = n
  BY <1>2, <1>11
<1>14. e + d <= n /\ (HasEmpty(m) => e + d < n) /\ (e + d # n => HasEmpty(m))
  BY <1>1, <1>7, <1>8, <1>10, <1>11, <1>12, <1>13
<1> QED
  BY <1>1, <1>2, <1>4, <1>5, <1>9, <1>11, <1>14

\* LookupBucketFor: the search ends, and where.
LEMMA StopsAt ==
  ASSUME NEW m, NEW n, DenseHas(m, n), HasEmpty(m), NEW k \in Keys
  PROVE  /\ n \in Powers /\ n \in Nat \ {0} /\ m.size = n
         /\ Stops(m, k) \in 0 .. n - 1
         /\ \A i \in Nat : Probed(m, k, i) = m.buckets[Spot(KeyHash[k], i, n)]
         /\ \A i \in Nat : ProbeAt(m, k, i) = Spot(KeyHash[k], i, n)
         /\ Probed(m, k, Stops(m, k)).key \in {k, EmptyKey}
         /\ \A j \in 0 .. Stops(m, k) - 1 : Probed(m, k, j).key \notin {k, EmptyKey}
<1>1. /\ n \in Nat /\ m.size = n
  BY DenseFacts
<1>2. PICK e \in 0 .. n - 1 : m.buckets[e].key = EmptyKey
  BY <1>1 DEF HasEmpty
<1>3. n \in Powers /\ n \in Nat \ {0}
  BY <1>1, <1>2 DEF DenseHas
<1>4. \A i \in Nat : ProbeAt(m, k, i) = Spot(KeyHash[k], i, n)
  BY <1>1 DEF ProbeAt, Spot, Triangle
<1>5. \A i \in Nat : Probed(m, k, i) = m.buckets[Spot(KeyHash[k], i, n)]
  BY <1>4 DEF Probed
<1>6. PICK d \in 0 .. n - 1 : Spot(KeyHash[k], d, n) = e
  BY <1>3, SpotsCover, DenseConstants
<1>7. PICK S : S = {i \in 0 .. n : Probed(m, k, i).key \in {k, EmptyKey}}
  OBVIOUS
<1>8. S \in SUBSET Nat /\ d \in S
  BY <1>2, <1>3, <1>5, <1>6, <1>7
<1>9. PICK l \in S : \A x \in S : l <= x
  BY <1>8, LeastOf
<1>10. Stops(m, k) = Min(S)
  BY <1>1, <1>7 DEF Stops
<1>11. \A x \in S : (\A y \in S : x <= y) => x = l
  BY <1>8, <1>9
<1>12. Min(S) = l
  BY <1>9, <1>11 DEF Min
<1>13. l \in 0 .. n - 1
  BY <1>3, <1>7, <1>8, <1>9
<1>14. \A j \in 0 .. l - 1 : j \notin S /\ j \in 0 .. n
  <2> SUFFICES ASSUME NEW j \in 0 .. l - 1
               PROVE  j \notin S /\ j \in 0 .. n
    OBVIOUS
  <2>1. l \in Nat /\ l <= n - 1 /\ n \in Nat
    BY <1>3, <1>13
  <2>2. j \in 0 .. n /\ ~(l <= j)
    BY <2>1
  <2> QED
    BY <1>9, <2>2
<1> QED
  BY <1>1, <1>3, <1>4, <1>5, <1>7, <1>9, <1>10, <1>12, <1>13, <1>14

\* What find and LookupBucketFor answer.
LEMMA Lookup ==
  ASSUME NEW m, NEW n, DenseHas(m, n), HasEmpty(m), NEW k \in Keys
  PROVE  /\ \A b \in Live(m) : m.buckets[b].key = k => Found(m, k) /\ BucketFor(m, k) = b
         /\ Found(m, k) => BucketFor(m, k) \in Live(m) /\ m.buckets[BucketFor(m, k)].key = k
         /\ ~Found(m, k) => /\ BucketFor(m, k) \in 0 .. n - 1 /\ WayTo(m, k, BucketFor(m, k))
                            /\ m.buckets[BucketFor(m, k)].key \in Keys
                                 => m.buckets[BucketFor(m, k)].count = 0
<1>1. PICK h, s : h = KeyHash[k] /\ s = Stops(m, k)
  OBVIOUS
<1>2. /\ n \in Powers /\ n \in Nat \ {0} /\ m.size = n /\ s \in 0 .. n - 1
      /\ \A i \in Nat : Probed(m, k, i) = m.buckets[Spot(h, i, n)]
      /\ \A i \in Nat : ProbeAt(m, k, i) = Spot(h, i, n)
      /\ Probed(m, k, s).key \in {k, EmptyKey}
      /\ \A j \in 0 .. s - 1 : Probed(m, k, j).key \notin {k, EmptyKey}
  BY <1>1, StopsAt
<1>3. h \in Nat /\ \A i \in Nat : Spot(h, i, n) \in 0 .. n - 1
  BY <1>1, <1>2, SpotsCover, DenseConstants
<1>4. Found(m, k) <=> m.buckets[Spot(h, s, n)].key = k
  BY <1>1, <1>2 DEF Found
<1>5. PICK U : U = {i \in 0 .. s - 1 : Probed(m, k, i).key = TombstoneKey \/ Probed(m, k, i).count = 0}
  OBVIOUS
<1>6. BucketFor(m, k) = ProbeAt(m, k, IF Found(m, k) \/ U = {} THEN s ELSE Min(U))
  BY <1>1, <1>5 DEF BucketFor
<1>7. ASSUME Found(m, k)
      PROVE  BucketFor(m, k) = Spot(h, s, n) /\ Spot(h, s, n) \in Live(m)
  <2>1. BucketFor(m, k) = Spot(h, s, n)
    BY <1>2, <1>6, <1>7
  <2>2. Spot(h, s, n) \in Live(m)
    BY <1>2, <1>3, <1>4, <1>7 DEF Live
  <2> QED
    BY <2>1, <2>2
<1>8. ASSUME NEW b \in Live(m), m.buckets[b].key = k
      PROVE  Found(m, k) /\ BucketFor(m, k) = b
  <2>1. PICK i \in 0 .. n - 1 : /\ Spot(h, i, n) = b
                                /\ \A j \in 0 .. i - 1 : m.buckets[Spot(h, j, n)].key # EmptyKey
    BY <1>1, <1>2, <1>8 DEF DenseHas, WayTo
  <2>2. ~(i < s)
    BY <1>2, <1>8, <2>1
  <2>3. m.buckets[Spot(h, s, n)].key = k
    <3>1. CASE i = s
      BY <1>8, <2>1, <3>1
    <3>2. CASE i # s
      <4>1. s \in 0 .. i - 1 /\ s \in Nat
        BY <1>2, <2>2, <3>2
      <4> QED
        BY <1>2, <2>1, <4>1
    <3> QED
      BY <3>1, <3>2
  <2>4. Found(m, k)
    BY <1>4, <2>3
  <2>5. BucketFor(m, k) \in Live(m) /\ m.buckets[BucketFor(m, k)].key = k
    BY <1>7, <2>3, <2>4
  <2> QED
    BY <1>8, <2>4, <2>5 DEF DenseHas
<1>9. ASSUME ~Found(m, k)
      PROVE  /\ BucketFor(m, k) \in 0 .. n - 1 /\ WayTo(m, k, BucketFor(m, k))
             /\ m.buckets[BucketFor(m, k)].key \in Keys => m.buckets[BucketFor(m, k)].count = 0
  <2>1. PICK l \in 0 .. s : /\ BucketFor(m, k) = ProbeAt(m, k, l)
                            /\ l = s \/ l \in U
    <3>1. CASE U = {}
      BY <1>2, <1>6, <1>9, <3>1
    <3>2. CASE U # {}
      <4>1. U \in SUBSET Nat /\ U \subseteq 0 .. s
        BY <1>2, <1>5
      <4>2. PICK a \in U : \A x \in U : a <= x
        BY <3>2, <4>1, LeastOf
      <4>3. \E x \in U : \A y \in U : x <= y
        BY <4>2
      <4>4. Min(U) \in U
        BY <4>3 DEF Min
      <4> QED
        BY <1>6, <1>9, <3>2, <4>1, <4>4
    <3> QED
      BY <3>1, <3>2
  <2>2. BucketFor(m, k) = Spot(h, l, n) /\ l \in 0 .. n - 1 /\ l \in Nat
    BY <1>2, <2>1
  <2>3. \A j \in 0 .. l - 1 : j \in 0 .. s - 1 /\ j \in Nat
    BY <1>2, <2>1
  <2>4. WayTo(m, k, BucketFor(m, k))
    BY <1>1, <1>2, <2>2, <2>3 DEF WayTo
  <2>5. BucketFor(m, k) \in 0 .. n - 1
    BY <1>3, <2>2
  <2>6. m.buckets[BucketFor(m, k)].key \in Keys => m.buckets[BucketFor(m, k)].count = 0
    <3>1. CASE l = s
      BY <1>2, <1>4, <1>9, <2>2, <3>1, DenseConstants
    <3>2. CASE l \in U
      BY <1>2, <1>5, <2>2, <3>2, DenseConstants
    <3> QED
      BY <2>1, <3>1, <3>2
  <2> QED
    BY <2>4, <2>5, <2>6
<1> QED
  BY <1>4, <1>7, <1>8, <1>9

\* A key with its count.
Bucket(k, x) == [key |-> k, count |-> x]

\* The search still comes to a bucket when no bucket has become empty.
LEMMA WayStays ==
  ASSUME NEW m, NEW y, NEW n \in Nat, m.size = n, y.size = n, NEW k, NEW b, WayTo(m, k, b),
         n \in Powers, k \in Keys,
         \A j \in 0 .. n - 1 : m.buckets[j].key # EmptyKey => y.buckets[j].key # EmptyKey
  PROVE  WayTo(y, k, b)
<1>1. PICK i \in 0 .. n - 1 :
        /\ Spot(KeyHash[k], i, n) = b
        /\ \A j \in 0 .. i - 1 : m.buckets[Spot(KeyHash[k], j, n)].key # EmptyKey
  BY DEF WayTo
<1>2. \A j \in 0 .. i - 1 : j \in Nat /\ Spot(KeyHash[k], j, n) \in 0 .. n - 1
  <2>1. KeyHash[k] \in Nat /\ n \in Powers
    BY DenseConstants
  <2>2. \A j \in Nat : Spot(KeyHash[k], j, n) \in 0 .. n - 1
    BY <2>1, SpotsCover
  <2> QED
    BY <2>2
<1>3. \A j \in 0 .. i - 1 : y.buckets[Spot(KeyHash[k], j, n)].key # EmptyKey
  BY <1>1, <1>2
<1> QED
  BY <1>1, <1>3 DEF WayTo

\* y is m with B written into bucket c.
Writes(y, m, n, c, B) == y.size = n /\ y.buckets = [m.buckets EXCEPT ![c] = B]

\* One bucket is written.
LEMMA BucketWritten ==
  ASSUME NEW m, NEW n, DenseHas(m, n), NEW c \in 0 .. n - 1, NEW B \in Buckets,
         NEW y, Writes(y, m, n, c, B)
  PROVE  /\ y.buckets \in [0 .. n - 1 -> Buckets] /\ y.buckets[c] = B
         /\ \A b \in (0 .. n - 1) \ {c} : y.buckets[b] = m.buckets[b]
         /\ B.key \in Keys => Live(y) = Live(m) \cup {c}
         /\ B.key \notin Keys => Live(y) = Live(m) \ {c}
         /\ B.key = TombstoneKey => Tombs(y) = Tombs(m) \cup {c}
         /\ B.key # TombstoneKey => Tombs(y) = Tombs(m) \ {c}
<1>1. n \in Nat /\ m.size = n /\ m.buckets \in [0 .. n - 1 -> Buckets]
  BY DenseFacts DEF DenseHas
<1>2. /\ y.size = n /\ y.buckets \in [0 .. n - 1 -> Buckets] /\ y.buckets[c] = B
      /\ \A b \in (0 .. n - 1) \ {c} : y.buckets[b] = m.buckets[b]
  BY <1>1 DEF Writes
<1>3. /\ B.key \in Keys => Live(y) = Live(m) \cup {c}
      /\ B.key \notin Keys => Live(y) = Live(m) \ {c}
  BY <1>1, <1>2 DEF Live
<1>4. /\ B.key = TombstoneKey => Tombs(y) = Tombs(m) \cup {c}
      /\ B.key # TombstoneKey => Tombs(y) = Tombs(m) \ {c}
  BY <1>1, <1>2 DEF Tombs
<1> QED
  BY <1>2, <1>3, <1>4

\* What is written may be a tombstone, or a key that the search finds there.
LEMMA WrittenHas ==
  ASSUME NEW m, NEW n, DenseHas(m, n), NEW c \in 0 .. n - 1, NEW B \in Buckets, B.key # EmptyKey,
         B.key \in Keys => /\ WayTo(m, B.key, c)
                           /\ \A b \in Live(m) \ {c} : m.buckets[b].key # B.key,
         NEW y \in DenseMaps, Writes(y, m, n, c, B),
         y.entries = Cardinality(Live(y)), y.tombstones = Cardinality(Tombs(y))
  PROVE  DenseHas(y, n)
<1>0. y.size = n
  BY DEF Writes
<1>1. /\ y.buckets \in [0 .. n - 1 -> Buckets] /\ y.buckets[c] = B
      /\ \A b \in (0 .. n - 1) \ {c} : y.buckets[b] = m.buckets[b]
      /\ B.key \in Keys => Live(y) = Live(m) \cup {c}
      /\ B.key \notin Keys => Live(y) = Live(m) \ {c}
  BY BucketWritten
<1>2. n \in Nat /\ m.size = n /\ n \in Powers /\ Live(m) \subseteq 0 .. n - 1
  BY DenseFacts DEF DenseHas
<1>3. \A b \in Live(y) : /\ b \in 0 .. n - 1
                         /\ b # c => b \in Live(m) /\ y.buckets[b] = m.buckets[b]
                         /\ b = c => B.key \in Keys
  BY <1>1, <1>2
<1>4. \A a, b \in Live(y) : y.buckets[a].key = y.buckets[b].key => a = b
  <2>1. \A a, b \in Live(m) : m.buckets[a].key = m.buckets[b].key => a = b
    BY DEF DenseHas
  <2> QED
    BY <1>1, <1>3, <2>1
<1>5. \A j \in 0 .. n - 1 : m.buckets[j].key # EmptyKey => y.buckets[j].key # EmptyKey
  BY <1>1
<1>6. ASSUME NEW b \in Live(y)
      PROVE  WayTo(y, y.buckets[b].key, b)
  <2>1. y.buckets[b].key \in Keys /\ WayTo(m, y.buckets[b].key, b)
    <3>1. CASE b = c
      BY <1>1, <1>3, <3>1
    <3>2. CASE b # c
      <4>1. b \in Live(m) /\ y.buckets[b] = m.buckets[b]
        BY <1>3, <3>2
      <4>2. m.buckets[b].key \in Keys
        BY <4>1 DEF Live
      <4>3. WayTo(m, m.buckets[b].key, b)
        BY <4>1 DEF DenseHas
      <4> QED
        BY <4>1, <4>2, <4>3
    <3> QED
      BY <3>1, <3>2
  <2>2. PICK k : k = y.buckets[b].key
    OBVIOUS
  <2>3. n \in Nat /\ m.size = n /\ y.size = n /\ WayTo(m, k, b) /\ n \in Powers /\ k \in Keys
    BY <1>0, <1>2, <2>1, <2>2
  <2>4. WayTo(y, k, b)
    BY <1>5, <2>3, WayStays
  <2> QED
    BY <2>2, <2>4
<1> QED
  BY <1>0, <1>1, <1>2, <1>4, <1>6 DEF DenseHas

\* How many there are, when a member is added or taken away.
LEMMA MemberCounts ==
  ASSUME NEW S, IsFiniteSet(S), NEW x
  PROVE  /\ Cardinality(S) \in Nat
         /\ x \in S => S \cup {x} = S /\ Cardinality(S \ {x}) = Cardinality(S) - 1 /\ Cardinality(S) > 0
         /\ x \notin S => S \ {x} = S /\ Cardinality(S \cup {x}) = Cardinality(S) + 1
<1>1. Cardinality(S) \in Nat
  BY FS_CardinalityType
<1>2. x \in S => Cardinality(S \ {x}) = Cardinality(S) - 1
  BY FS_RemoveElement
<1>3. x \notin S => Cardinality(S \cup {x}) = Cardinality(S) + 1
  BY FS_AddElement
<1>4. x \in S => Cardinality(S) > 0
  <2>1. SUFFICES ASSUME x \in S
                 PROVE  Cardinality(S) > 0
    OBVIOUS
  <2>2. Cardinality(S) # 0
    BY <2>1, FS_EmptySet
  <2> QED
    BY <1>1, <2>2
<1> QED
  BY <1>1, <1>2, <1>3, <1>4

\* A key that is not there gets the bucket that the search offers.
LEMMA Fills ==
  ASSUME NEW m, NEW n, DenseHas(m, n), NEW k \in Keys, \A b \in Live(m) : m.buckets[b].key # k,
         NEW c \in 0 .. n - 1, WayTo(m, k, c), NEW x \in Nat, NEW y,
         Writes(y, m, n, c, Bucket(k, x)),
         c \in Live(m) => y.entries = m.entries, c \notin Live(m) => y.entries = m.entries + 1,
         c \in Tombs(m) => y.tombstones = m.tombstones - 1,
         c \notin Tombs(m) => y.tombstones = m.tombstones,
         y = [size |-> y.size, buckets |-> y.buckets, entries |-> y.entries, tombstones |-> y.tombstones]
  PROVE  /\ DenseHas(y, n) /\ Live(y) = Live(m) \cup {c} /\ y.buckets[c] = Bucket(k, x)
         /\ \A b \in (0 .. n - 1) \ {c} : y.buckets[b] = m.buckets[b]
<1>1. PICK B : B = Bucket(k, x)
  OBVIOUS
<1>2. B \in Buckets /\ B.key = k /\ k # EmptyKey /\ k # TombstoneKey
  BY <1>1, DenseConstants DEF Bucket, Buckets
<1>3. Writes(y, m, n, c, B) /\ y.size = n
  BY <1>1 DEF Writes
<1>4. /\ y.buckets \in [0 .. n - 1 -> Buckets] /\ y.buckets[c] = B
      /\ \A b \in (0 .. n - 1) \ {c} : y.buckets[b] = m.buckets[b]
      /\ B.key \in Keys => Live(y) = Live(m) \cup {c}
      /\ B.key # TombstoneKey => Tombs(y) = Tombs(m) \ {c}
  BY <1>2, <1>3, BucketWritten
<1>5. Live(y) = Live(m) \cup {c} /\ Tombs(y) = Tombs(m) \ {c}
  BY <1>2, <1>4
<1>6. /\ n \in Nat /\ IsFiniteSet(Live(m)) /\ IsFiniteSet(Tombs(m))
      /\ m.entries = Cardinality(Live(m)) /\ m.tombstones = Cardinality(Tombs(m))
  BY DenseFacts DEF DenseHas
<1>7. y.entries = Cardinality(Live(y)) /\ y.entries \in Nat
  <2>0. PICK e : e = Cardinality(Live(m))
    OBVIOUS
  <2>1. /\ Cardinality(Live(m)) \in Nat
        /\ c \in Live(m) => Live(m) \cup {c} = Live(m)
        /\ c \notin Live(m) => Cardinality(Live(m) \cup {c}) = Cardinality(Live(m)) + 1
    BY <1>6, MemberCounts
  <2> QED
    BY <1>5, <1>6, <2>0, <2>1
<1>8. y.tombstones = Cardinality(Tombs(y)) /\ y.tombstones \in Nat
  <2>1. /\ Cardinality(Tombs(m)) \in Nat
        /\ c \in Tombs(m) => Cardinality(Tombs(m) \ {c}) = Cardinality(Tombs(m)) - 1
                             /\ Cardinality(Tombs(m)) > 0
        /\ c \notin Tombs(m) => Tombs(m) \ {c} = Tombs(m)
    BY <1>6, MemberCounts
  <2>2. PICK t, u : t = Cardinality(Tombs(m)) /\ u = Cardinality(Tombs(y))
    OBVIOUS
  <2>3. CASE c \in Tombs(m)
    <3>1. y.tombstones = t - 1 /\ u = t - 1 /\ t \in Nat /\ t > 0
      BY <1>5, <1>6, <2>1, <2>2, <2>3
    <3> QED
      BY <2>2, <3>1
  <2>4. CASE c \notin Tombs(m)
    <3>1. y.tombstones = t /\ u = t /\ t \in Nat
      BY <1>5, <1>6, <2>1, <2>2, <2>4
    <3> QED
      BY <2>2, <3>1
  <2> QED
    BY <2>3, <2>4
<1>9. y \in DenseMaps
  <2>1. y.buckets \in UNION {[0 .. l - 1 -> Buckets] : l \in Nat}
    BY <1>4, <1>6
  <2>2. y.size \in Nat
    BY <1>3, <1>6
  <2>3. PICK s, b, e, t : s = y.size /\ b = y.buckets /\ e = y.entries /\ t = y.tombstones
    OBVIOUS
  <2>4. y = [size |-> s, buckets |-> b, entries |-> e, tombstones |-> t]
    BY <2>3
  <2> QED
    BY <1>7, <1>8, <2>1, <2>2, <2>3, <2>4 DEF DenseMaps
<1>10. DenseHas(y, n)
  <2>1. B.key \in Keys => /\ WayTo(m, B.key, c)
                          /\ \A b \in Live(m) \ {c} : m.buckets[b].key # B.key
    BY <1>2
  <2> QED
    BY <1>2, <1>3, <1>7, <1>8, <1>9, <2>1, WrittenHas
<1> QED
  BY <1>1, <1>4, <1>5, <1>10

\* The counts that a map stands for.
Keeps(m, s) ==
  /\ \A b \in Live(m) : m.buckets[b].count = s[m.buckets[b].key]
  /\ \A k \in Keys : s[k] # 0 => \E b \in Live(m) : m.buckets[b].key = k

\* A new map is empty.
LEMMA NewMapHas ==
  ASSUME NEW n, n = 0 \/ n \in Powers
  PROVE  /\ DenseHas(NewMap(n), n) /\ Live(NewMap(n)) = {} /\ NewMap(n).entries = 0
         /\ NewMap(n).tombstones = 0 /\ (n # 0 => HasEmpty(NewMap(n)))
<1>1. n \in Nat
  BY DEF Powers
<1>2. PICK f : f = [i \in 0 .. n - 1 |-> [key |-> EmptyKey, count |-> 0]]
  OBVIOUS
<1>3. PICK m : m = NewMap(n)
  OBVIOUS
<1>4. m = [size |-> n, buckets |-> f, entries |-> 0, tombstones |-> 0]
  BY <1>2, <1>3 DEF NewMap
<1>5. m.size = n /\ m.buckets = f /\ m.entries = 0 /\ m.tombstones = 0
  BY <1>4
<1>6. f \in [0 .. n - 1 -> Buckets] /\ \A i \in 0 .. n - 1 : f[i].key = EmptyKey
  BY <1>2 DEF Buckets
<1>7. Live(m) = {} /\ Tombs(m) = {}
  BY <1>5, <1>6, DenseConstants DEF Live, Tombs
<1>8. m \in DenseMaps
  <2>1. f \in UNION {[0 .. l - 1 -> Buckets] : l \in Nat}
    BY <1>1, <1>6
  <2> QED
    BY <1>1, <1>4, <2>1 DEF DenseMaps
<1>9. DenseHas(m, n)
  <2>1. Cardinality(Live(m)) = 0 /\ Cardinality(Tombs(m)) = 0
    BY <1>7, FS_EmptySet
  <2> QED
    BY <1>5, <1>6, <1>7, <1>8, <2>1 DEF DenseHas
<1>10. n # 0 => HasEmpty(m)
  <2>1. n # 0 => 0 \in 0 .. n - 1
    BY <1>1
  <2> QED
    BY <1>5, <1>6, <2>1 DEF HasEmpty
<1> QED
  BY <1>3, <1>5, <1>7, <1>9, <1>10

\* The keys that are moved to the new buckets: those with a count.
Stays(m) == {j \in Live(m) : m.buckets[j].count # 0}

\* grow moves the buckets that are not purged, no two of them with one key.
LEMMA StaysFacts ==
  ASSUME NEW m, NEW n, DenseHas(m, n)
  PROVE  /\ \A j \in 0 .. n - 1 : j \in Stays(m) <=> ~Purged(m.buckets[j])
         /\ Stays(m) \subseteq Live(m)
         /\ \A j \in Stays(m) : /\ m.buckets[j].key \in Keys /\ m.buckets[j].count \in Nat \ {0}
                                /\ m.buckets[j] = Bucket(m.buckets[j].key, m.buckets[j].count)
         /\ \A i, j \in Stays(m) : m.buckets[i].key = m.buckets[j].key => i = j
<1>1. m.size = n /\ n \in Nat /\ \A b \in 0 .. n - 1 : m.buckets[b] \in Buckets
  BY DenseFacts
<1>2. \A j \in 0 .. n - 1 : j \in Stays(m) <=> ~Purged(m.buckets[j])
  BY <1>1, DenseConstants DEF Stays, Live, Purged, Buckets
<1>3. \A j \in Stays(m) : j \in 0 .. n - 1 /\ m.buckets[j].key \in Keys /\ m.buckets[j].count # 0
  BY <1>1 DEF Stays, Live
<1>4. \A j \in Stays(m) : /\ m.buckets[j].count \in Nat \ {0}
                          /\ m.buckets[j] = Bucket(m.buckets[j].key, m.buckets[j].count)
  BY <1>1, <1>3 DEF Buckets, Bucket
<1>5. Stays(m) \subseteq Live(m)
  BY DEF Stays
<1>6. \A i, j \in Stays(m) : m.buckets[i].key = m.buckets[j].key => i = j
  BY <1>5 DEF DenseHas
<1> QED
  BY <1>2, <1>3, <1>4, <1>5, <1>6

\* What a map that is being filled by grow has: the buckets in S, each of which holds a count.
Filled(x, n, S) ==
  /\ DenseHas(x, n) /\ x.tombstones = 0 /\ IsFiniteSet(S) /\ x.entries = Cardinality(S)
  /\ \A b \in Live(x) : x.buckets[b] \in S
  /\ \A B \in S : /\ B.key \in Keys /\ B.count \in Nat \ {0} /\ B = Bucket(B.key, B.count)
                  /\ \E b \in Live(x) : x.buckets[b] = B

\* moveFromOldBuckets, one bucket.
LEMMA MovedFills ==
  ASSUME NEW x, NEW n, NEW S, Filled(x, n, S), Cardinality(S) < n,
         NEW k \in Keys, NEW c \in Nat \ {0}, \A B \in S : B.key # k
  PROVE  Filled(Moved(x, Bucket(k, c)), n, S \cup {Bucket(k, c)})
<1>1. /\ DenseHas(x, n) /\ x.tombstones = 0 /\ IsFiniteSet(S) /\ x.entries = Cardinality(S)
      /\ \A b \in Live(x) : x.buckets[b] \in S
      /\ \A B \in S : /\ B.key \in Keys /\ B.count \in Nat \ {0} /\ B = Bucket(B.key, B.count)
                      /\ \E b \in Live(x) : x.buckets[b] = B
  BY DEF Filled
<1>2. /\ n \in Nat /\ x.entries \in Nat /\ x.size = n /\ HasEmpty(x)
      /\ Live(x) \subseteq 0 .. n - 1 /\ IsFiniteSet(Tombs(x))
      /\ \A b \in 0 .. n - 1 : x.buckets[b] \in Buckets
  <2>1. /\ n \in Nat /\ x.entries \in Nat /\ x.size = n
        /\ x.entries + x.tombstones # n => HasEmpty(x)
        /\ Live(x) \subseteq 0 .. n - 1 /\ IsFiniteSet(Tombs(x))
        /\ \A b \in 0 .. n - 1 : x.buckets[b] \in Buckets
    BY <1>1, DenseFacts
  <2>2. x.entries < n
    BY <1>1
  <2>3. x.entries + x.tombstones # n
    BY <1>1, <2>1, <2>2
  <2> QED
    BY <2>1, <2>3
<1>3. Tombs(x) = {}
  <2>1. Cardinality(Tombs(x)) = 0
    BY <1>1 DEF DenseHas
  <2> QED
    BY <1>2, <2>1, FS_EmptySet
<1>4. \A b \in Live(x) : x.buckets[b].key # k
  BY <1>1
<1>5. PICK a, y : a = BucketFor(x, k) /\ y = Moved(x, Bucket(k, c))
  OBVIOUS
<1>6. ~Found(x, k)
  BY <1>1, <1>2, <1>4, Lookup
<1>7. /\ a \in 0 .. n - 1 /\ WayTo(x, k, a)
      /\ x.buckets[a].key \in Keys => x.buckets[a].count = 0
  BY <1>1, <1>2, <1>5, <1>6, Lookup
<1>8. a \notin Live(x)
  <2> SUFFICES ASSUME a \in Live(x)
               PROVE  FALSE
    OBVIOUS
  <2>1. x.buckets[a].key \in Keys
    BY DEF Live
  <2>2. x.buckets[a] \in S
    BY <1>1
  <2> QED
    BY <1>1, <1>7, <2>1, <2>2
<1>9. Bucket(k, c).key = k
  BY DEF Bucket
<1>10. y = [x EXCEPT !.buckets[a] = Bucket(k, c), !.entries = @ + 1]
  BY <1>5, <1>9 DEF Moved
<1>11. DOMAIN x = {"size", "buckets", "entries", "tombstones"}
  BY <1>1 DEF DenseHas, DenseMaps
<1>12. /\ y.size = n /\ y.buckets = [x.buckets EXCEPT ![a] = Bucket(k, c)]
       /\ y.entries = x.entries + 1 /\ y.tombstones = x.tombstones
       /\ y = [size |-> y.size, buckets |-> y.buckets, entries |-> y.entries, tombstones |-> y.tombstones]
  <2>1. x \in DenseMaps
    BY <1>1 DEF DenseHas
  <2> QED
    BY <1>2, <1>10, <2>1 DEF DenseMaps
<1>13. Writes(y, x, n, a, Bucket(k, c))
  BY <1>12 DEF Writes
<1>14. /\ DenseHas(y, n) /\ Live(y) = Live(x) \cup {a} /\ y.buckets[a] = Bucket(k, c)
       /\ \A b \in (0 .. n - 1) \ {a} : y.buckets[b] = x.buckets[b]
  <2>1. c \in Nat /\ a \in 0 .. n - 1 /\ WayTo(x, k, a) /\ a \notin Tombs(x)
    BY <1>3, <1>7
  <2>2. /\ a \in Live(x) => y.entries = x.entries
        /\ a \notin Live(x) => y.entries = x.entries + 1
        /\ a \in Tombs(x) => y.tombstones = x.tombstones - 1
        /\ a \notin Tombs(x) => y.tombstones = x.tombstones
        /\ y = [size |-> y.size, buckets |-> y.buckets, entries |-> y.entries, tombstones |-> y.tombstones]
    BY <1>8, <1>12, <2>1
  <2>3. DenseHas(x, n)
    BY <1>1
  <2> QED
    BY <1>4, <1>13, <2>1, <2>2, <2>3, Fills
<1>15. PICK T : T = S \cup {Bucket(k, c)}
  OBVIOUS
<1>16. IsFiniteSet(T) /\ Cardinality(T) = Cardinality(S) + 1
  <2>1. Bucket(k, c) \notin S
    BY <1>9
  <2> QED
    BY <1>1, <1>15, <2>1, FS_AddElement
<1>17. \A b \in Live(y) : y.buckets[b] \in T
  <2> SUFFICES ASSUME NEW b \in Live(y)
               PROVE  y.buckets[b] \in T
    OBVIOUS
  <2>1. CASE b = a
    BY <1>14, <1>15, <2>1
  <2>2. CASE b # a
    BY <1>1, <1>2, <1>14, <1>15, <2>2
  <2> QED
    BY <2>1, <2>2
<1>18. ASSUME NEW B \in T
       PROVE  /\ B.key \in Keys /\ B.count \in Nat \ {0} /\ B = Bucket(B.key, B.count)
              /\ \E b \in Live(y) : y.buckets[b] = B
  <2>1. CASE B = Bucket(k, c)
    <3>1. B.key = k /\ B.count = c
      BY <2>1 DEF Bucket
    <3> QED
      BY <1>14, <2>1, <3>1
  <2>2. CASE B \in S
    <3>1. PICK b \in Live(x) : x.buckets[b] = B
      BY <1>1, <2>2
    <3>2. b \in Live(y) /\ y.buckets[b] = B
      BY <1>2, <1>8, <1>14, <3>1
    <3> QED
      BY <1>1, <2>2, <3>2
  <2> QED
    BY <1>15, <2>1, <2>2
<1>19. y.entries = Cardinality(T) /\ y.tombstones = 0
  BY <1>1, <1>12, <1>16
<1>20. Filled(y, n, T)
  BY <1>14, <1>16, <1>17, <1>18, <1>19 DEF Filled
<1> QED
  BY <1>5, <1>15, <1>20

\* grow's loop.
Grows(f, n, buckets, base) ==
  f = [i \in 0 .. n |-> IF i = 0 THEN base
                        ELSE IF Purged(buckets[i - 1]) THEN f[i - 1]
                        ELSE Moved(f[i - 1], buckets[i - 1])]

\* The number of buckets that grow allocates.
GrownSize(a) == Max({MinBuckets, NextPowerOf2(a)})

\* The number of buckets after grow.
LEMMA GrownSizeIs ==
  ASSUME NEW a \in Nat
  PROVE  GrownSize(a) \in Powers /\ GrownSize(a) \in Nat /\ GrownSize(a) > a
<1>1. PICK p, q : p = MinBuckets /\ q = NextPowerOf2(a)
  OBVIOUS
<1>2. p \in Powers /\ q \in Powers /\ q > a
  BY <1>1, MinBucketsIs, NextPowerIs
<1>3. p \in Nat /\ q \in Nat
  BY <1>2 DEF Powers
<1>4. \E x \in {p, q} : \A y \in {p, q} : x >= y
  BY <1>3
<1>5. PICK x : x = Max({p, q})
  OBVIOUS
<1>6. x \in {p, q} /\ \A y \in {p, q} : x >= y
  BY <1>4, <1>5 DEF Max
<1> QED
  BY <1>1, <1>2, <1>3, <1>5, <1>6 DEF GrownSize

\* grow moves what has a count, and nothing else.
LEMMA GrowMoves ==
  ASSUME NEW m, NEW n, DenseHas(m, n), NEW a \in Nat, m.entries < GrownSize(a)
  PROVE  Filled(Grow(m, a), GrownSize(a), {m.buckets[j] : j \in Stays(m)})
<1>1. PICK buckets, N : buckets = m.buckets /\ N = GrownSize(a)
  OBVIOUS
<1> DEFINE First(i) == {j \in Stays(m) : j < i}
           Like(x, i) == Filled(x, N, {buckets[j] : j \in First(i)})
           R == [i \in 0 .. n |-> {x \in DenseMaps : Like(x, i)}]
           Turn(x, i) == IF Purged(buckets[i - 1]) THEN x ELSE Moved(x, buckets[i - 1])
           g == [p \in DenseMaps \X (1 .. n) |-> Turn(p[1], p[2])]
<1>2. /\ m.size = n /\ n \in Nat /\ N \in Powers /\ N \in Nat
      /\ IsFiniteSet(Live(m)) /\ Live(m) \subseteq 0 .. n - 1 /\ m.entries = Cardinality(Live(m))
      /\ m.entries < N /\ m.entries \in Nat
  BY <1>1, DenseFacts, GrownSizeIs DEF DenseHas
<1>3. /\ \A j \in 0 .. n - 1 : j \in Stays(m) <=> ~Purged(buckets[j])
      /\ Stays(m) \subseteq Live(m)
      /\ \A j \in Stays(m) : /\ buckets[j].key \in Keys /\ buckets[j].count \in Nat \ {0}
                             /\ buckets[j] = Bucket(buckets[j].key, buckets[j].count)
      /\ \A i, j \in Stays(m) : buckets[i].key = buckets[j].key => i = j
  BY <1>1, StaysFacts
<1>4. ASSUME NEW i \in 1 .. n, NEW x \in R[i - 1]
      PROVE  x \in DenseMaps /\ Turn(x, i) \in R[i]
  <2>1. i - 1 \in 0 .. n /\ i \in 0 .. n /\ i - 1 \in 0 .. n - 1
    BY <1>2
  <2>2. x \in DenseMaps /\ Like(x, i - 1)
    BY <2>1
  <2>3. \A j \in Stays(m) : j \in Nat
    BY <1>2, <1>3
  <2>4. CASE Purged(buckets[i - 1])
    <3>1. First(i) = First(i - 1)
      BY <1>3, <2>1, <2>3, <2>4
    <3>2. Like(x, i) /\ Turn(x, i) = x
      BY <2>2, <2>4, <3>1
    <3> HIDE DEF Like, Turn
    <3> QED
      BY <2>1, <2>2, <3>2
  <2>5. CASE ~Purged(buckets[i - 1])
    <3>1. i - 1 \in Stays(m) /\ First(i) = First(i - 1) \cup {i - 1} /\ i - 1 \notin First(i - 1)
      BY <1>3, <2>1, <2>3, <2>5
    <3>2. PICK k, c : k = buckets[i - 1].key /\ c = buckets[i - 1].count
      OBVIOUS
    <3>3. k \in Keys /\ c \in Nat \ {0} /\ buckets[i - 1] = Bucket(k, c)
      BY <1>3, <3>1, <3>2
    <3>4. PICK S : S = {buckets[j] : j \in First(i - 1)}
      OBVIOUS
    <3>5. Filled(x, N, S)
      BY <2>2, <3>4
    <3>6. \A B \in S : B.key # k
      <4> SUFFICES ASSUME NEW j \in First(i - 1)
                   PROVE  buckets[j].key # k
        BY <3>4
      <4>1. j \in Stays(m) /\ j # i - 1
        BY <3>1
      <4> QED
        BY <1>3, <3>1, <3>2, <4>1
    <3>7. Cardinality(S) < N
      <4>1. Live(m) \ {i - 1} \in SUBSET Live(m) /\ i - 1 \in Live(m)
        BY <1>3, <3>1
      <4>2. PICK L : L = Live(m) \ {i - 1}
        OBVIOUS
      <4>3. IsFiniteSet(L) /\ Cardinality(L) = m.entries - 1
        <5>1. IsFiniteSet(L)
          BY <1>2, <4>1, <4>2, FS_Subset
        <5>2. Cardinality(Live(m) \ {i - 1}) = Cardinality(Live(m)) - 1
          BY <1>2, <4>1, MemberCounts
        <5> QED
          BY <1>2, <4>2, <5>1, <5>2
      <4>4. First(i - 1) \subseteq L
        BY <1>3, <3>1, <4>2
      <4> HIDE DEF First
      <4>5. PICK F : F = First(i - 1) /\ IsFiniteSet(F) /\ Cardinality(F) <= Cardinality(L)
        BY <4>3, <4>4, FS_Subset
      <4>6. PICK h : h = [j \in F |-> buckets[j]]
        OBVIOUS
      <4>7. h \in Surjection(F, S)
        BY <3>4, <4>5, <4>6 DEF Surjection
      <4>8. IsFiniteSet(S) /\ Cardinality(S) <= Cardinality(F)
        BY <4>5, <4>7, FS_Surjection
      <4>9. PICK s, f, l, e : s = Cardinality(S) /\ f = Cardinality(F) /\ l = Cardinality(L) /\ e = m.entries
        OBVIOUS
      <4>10. s \in Nat /\ f \in Nat
        BY <4>5, <4>8, <4>9, FS_CardinalityType
      <4> QED
        BY <1>2, <4>3, <4>5, <4>8, <4>9, <4>10
    <3>8. PICK y : y = Moved(x, Bucket(k, c))
      OBVIOUS
    <3>9. Filled(y, N, S \cup {Bucket(k, c)})
      BY <3>3, <3>5, <3>6, <3>7, <3>8, MovedFills
    <3>10. {buckets[j] : j \in First(i)} = S \cup {Bucket(k, c)}
      <4> HIDE DEF First
      <4> QED
        BY <3>1, <3>3, <3>4
    <3>11. Like(y, i) /\ y \in DenseMaps
      BY <3>9, <3>10 DEF Filled, DenseHas
    <3>12. Turn(x, i) = y
      BY <2>5, <3>3, <3>8
    <3> HIDE DEF Like, Turn
    <3> QED
      BY <2>1, <3>11, <3>12
  <2> HIDE DEF R, Turn
  <2> QED
    BY <2>2, <2>4, <2>5
<1>5. NewMap(N) \in R[0]
  <2>1. 0 \in 0 .. n
    BY <1>2
  <2>2. First(0) = {}
    <3>1. \A j \in Stays(m) : ~(j < 0)
      BY <1>2, <1>3
    <3> QED
      BY <3>1
  <2>3. {buckets[j] : j \in First(0)} = {}
    BY <2>2
  <2>4. PICK x : x = NewMap(N)
    OBVIOUS
  <2>5. /\ DenseHas(x, N) /\ Live(x) = {} /\ x.entries = 0 /\ x.tombstones = 0
    BY <1>2, <2>4, NewMapHas
  <2>6. Filled(x, N, {})
    <3>1. IsFiniteSet({}) /\ Cardinality({}) = 0
      BY FS_EmptySet
    <3> QED
      BY <2>5, <3>1 DEF Filled
  <2>7. Like(x, 0)
    BY <2>3, <2>6
  <2>8. x \in DenseMaps
    BY <2>5 DEF DenseHas
  <2> HIDE DEF Like
  <2> QED
    BY <2>1, <2>4, <2>7, <2>8
<1>6. TurnsKeep(g, n, R)
  <2> SUFFICES ASSUME NEW i \in 1 .. n, NEW x \in R[i - 1]
               PROVE  g[<<x, i>>] \in R[i]
    BY DEF TurnsKeep
  <2>1. x \in DenseMaps /\ Turn(x, i) \in R[i]
    BY <1>4
  <2> HIDE DEF R, Turn
  <2> QED
    BY <2>1
<1>7. PICK f : Loops(f, n, NewMap(N), g) /\ \A i \in 0 .. n : f[i] \in R[i]
  <2> HIDE DEF R, g
  <2> QED
    BY <1>2, <1>5, <1>6, LoopExists
<1>8. \A i \in 0 .. n : f[i] = IF i = 0 THEN NewMap(N) ELSE Turn(f[i - 1], i)
  <2> SUFFICES ASSUME NEW i \in 0 .. n
               PROVE  f[i] = IF i = 0 THEN NewMap(N) ELSE Turn(f[i - 1], i)
    OBVIOUS
  <2>1. CASE i = 0
    <3> HIDE DEF g
    <3> QED
      BY <1>7, <2>1 DEF Loops
  <2>2. CASE i # 0
    <3>1. i \in 1 .. n /\ i - 1 \in 0 .. n
      BY <1>2, <2>2
    <3>2. f[i - 1] \in R[i - 1]
      BY <1>7, <3>1
    <3>3. f[i - 1] \in DenseMaps
      BY <1>4, <3>1, <3>2
    <3>4. f[i] = g[<<f[i - 1], i>>]
      <4> HIDE DEF g
      <4> QED
        BY <1>7, <2>2 DEF Loops
    <3> HIDE DEF R, Turn
    <3> QED
      BY <2>2, <3>1, <3>3, <3>4
  <2> QED
    BY <2>1, <2>2
<1>9. Grows(f, n, buckets, NewMap(N))
  <2>1. f = [i \in 0 .. n |-> f[i]]
    <3> HIDE DEF g
    <3> QED
      BY <1>7 DEF Loops
  <2> QED
    BY <1>8, <2>1 DEF Grows
<1>10. Grows(CHOOSE h : Grows(h, n, buckets, NewMap(N)), n, buckets, NewMap(N))
  BY <1>9, Zenon
<1>11. PICK h : (h = CHOOSE c : Grows(c, n, buckets, NewMap(N))) /\ Grows(h, n, buckets, NewMap(N))
  BY <1>10, Zenon
<1>12. Grow(m, a) = h[n]
  BY <1>1, <1>2, <1>11 DEF Grow, Grows, GrownSize
<1>13. h[0] \in R[0] /\ \A i \in 1 .. n : h[i - 1] \in R[i - 1] => h[i] \in R[i]
  <2>1. \A i \in 0 .. n : h[i] = IF i = 0 THEN NewMap(N) ELSE Turn(h[i - 1], i)
    BY <1>11, Zenon DEF Grows
  <2> HIDE DEF R, Turn
  <2> QED
    BY <1>2, <1>4, <1>5, <2>1
<1>14. h[n] \in R[n]
  <2> HIDE DEF R
  <2>1. \A i \in 0 .. n : h[i] \in R[i]
    BY <1>2, <1>13, LoopKeeps
  <2> QED
    BY <1>2, <2>1
<1>15. Like(h[n], n)
  <2>1. n \in 0 .. n
    BY <1>2
  <2> HIDE DEF Like
  <2> QED
    BY <1>14, <2>1
<1>16. First(n) = Stays(m)
  BY <1>2, <1>3
<1> QED
  BY <1>1, <1>12, <1>15, <1>16

\* grow keeps the counts, drops the zero counts and the tombstones, and leaves room.
LEMMA GrowKeeps ==
  ASSUME NEW m, NEW n, DenseHas(m, n), NEW a \in Nat, m.entries < GrownSize(a)
  PROVE  /\ DenseHas(Grow(m, a), GrownSize(a)) /\ HasEmpty(Grow(m, a))
         /\ Grow(m, a).tombstones = 0 /\ Grow(m, a).entries <= m.entries
         /\ \A b \in Live(Grow(m, a)) :
              \E j \in Live(m) : m.buckets[j].key = Grow(m, a).buckets[b].key
         /\ \A s : Keeps(m, s) => Keeps(Grow(m, a), s)
<1>1. PICK g, N, S : g = Grow(m, a) /\ N = GrownSize(a) /\ S = {m.buckets[j] : j \in Stays(m)}
  OBVIOUS
<1>2. /\ DenseHas(g, N) /\ g.tombstones = 0 /\ IsFiniteSet(S) /\ g.entries = Cardinality(S)
      /\ \A b \in Live(g) : g.buckets[b] \in S
      /\ \A B \in S : \E b \in Live(g) : g.buckets[b] = B
  <2>1. Filled(g, N, S)
    BY <1>1, GrowMoves
  <2> QED
    BY <2>1 DEF Filled
<1>3. /\ n \in Nat /\ IsFiniteSet(Live(m)) /\ m.entries = Cardinality(Live(m)) /\ m.entries \in Nat
      /\ Stays(m) \subseteq Live(m)
  BY DenseFacts, StaysFacts DEF DenseHas
<1>4. g.entries <= m.entries
  <2>1. PICK F : F = Stays(m) /\ IsFiniteSet(F) /\ Cardinality(F) <= Cardinality(Live(m))
    BY <1>3, FS_Subset
  <2>2. PICK h : h = [j \in F |-> m.buckets[j]]
    OBVIOUS
  <2>3. h \in Surjection(F, S)
    BY <1>1, <2>1, <2>2 DEF Surjection
  <2>4. Cardinality(S) <= Cardinality(F)
    BY <2>1, <2>3, FS_Surjection
  <2>5. PICK s, f, l : s = Cardinality(S) /\ f = Cardinality(F) /\ l = Cardinality(Live(m))
    OBVIOUS
  <2>6. s \in Nat /\ f \in Nat /\ l \in Nat
    BY <1>2, <1>3, <2>1, <2>5, FS_CardinalityType
  <2> QED
    BY <1>2, <1>3, <2>1, <2>4, <2>5, <2>6
<1>5. HasEmpty(g)
  <2>1. g.entries \in Nat /\ N \in Nat /\ (g.entries + g.tombstones # N => HasEmpty(g))
    BY <1>2, DenseFacts
  <2>2. g.entries + g.tombstones # N
    BY <1>1, <1>2, <1>3, <1>4, <2>1
  <2> QED
    BY <2>1, <2>2
<1>6. \A b \in Live(g) : \E j \in Live(m) : m.buckets[j].key = g.buckets[b].key
  BY <1>1, <1>2, <1>3
<1>7. ASSUME NEW s, Keeps(m, s)
      PROVE  Keeps(g, s)
  <2>1. \A b \in Live(g) : g.buckets[b].count = s[g.buckets[b].key]
    BY <1>1, <1>2, <1>3, <1>7 DEF Keeps
  <2>2. ASSUME NEW k \in Keys, s[k] # 0
        PROVE  \E b \in Live(g) : g.buckets[b].key = k
    <3>1. PICK j \in Live(m) : m.buckets[j].key = k
      BY <1>7, <2>2 DEF Keeps
    <3>2. m.buckets[j].count # 0
      BY <1>7, <2>2, <3>1 DEF Keeps
    <3>3. m.buckets[j] \in S
      BY <1>1, <3>2 DEF Stays
    <3> QED
      BY <1>2, <3>1, <3>3
  <2> QED
    BY <2>1, <2>2 DEF Keeps
<1> QED
  BY <1>1, <1>2, <1>4, <1>5, <1>6, <1>7

\* A map that holds the counts s, and in which every search ends.
DenseIs(m, s) == Keeps(m, s) /\ \E n : DenseHas(m, n) /\ (n # 0 => HasEmpty(m))

\* No bucket has the key k.
Absent(m, k) == \A b \in Live(m) : m.buckets[b].key # k

\* A map of n buckets with room for one more key.
Roomy(m, n) == /\ DenseHas(m, n) /\ HasEmpty(m)
               /\ m.entries + 1 + m.tombstones < n

\* InsertIntoBucketImpl leaves a bucket empty.
LEMMA RoomIsMade ==
  ASSUME NEW m, NEW s, DenseIs(m, s)
  PROVE  /\ \E n : Roomy(WithRoom(m), n)
         /\ Keeps(WithRoom(m), s)
         /\ \A k : Absent(m, k) => Absent(WithRoom(m), k)
<1>1. PICK n : DenseHas(m, n) /\ (n # 0 => HasEmpty(m))
  BY DEF DenseIs
<1>2. PICK e, t : e = m.entries /\ t = m.tombstones
  OBVIOUS
<1>3. /\ n \in Nat /\ e \in Nat /\ t \in Nat /\ m.size = n /\ e + t <= n
      /\ (HasEmpty(m) => e + t < n) /\ Keeps(m, s)
  <2>1. /\ n \in Nat /\ m.entries \in Nat /\ m.tombstones \in Nat /\ m.size = n
        /\ m.entries + m.tombstones <= n
        /\ HasEmpty(m) => m.entries + m.tombstones < n
    BY <1>1, DenseFacts
  <2> QED
    BY <1>2, <2>1 DEF DenseIs
<1>4. PICK g : g = IF 4 * (e + 1) >= 3 * n THEN Grow(m, 2 * n) ELSE m
  OBVIOUS
<1>5. PICK N : /\ DenseHas(g, N) /\ HasEmpty(g) /\ Keeps(g, s) /\ g.entries <= e
               /\ \A k : Absent(m, k) => Absent(g, k)
  <2>1. CASE 4 * (e + 1) >= 3 * n
    <3>1. PICK a : a = 2 * n /\ a \in Nat
      BY <1>3
    <3>2. m.entries < GrownSize(a)
      <4>1. PICK z : z = GrownSize(a) /\ z \in Nat /\ z > a
        BY <3>1, GrownSizeIs
      <4> QED
        BY <1>2, <1>3, <3>1, <4>1
    <3>3. /\ DenseHas(Grow(m, a), GrownSize(a)) /\ HasEmpty(Grow(m, a))
          /\ Grow(m, a).entries <= m.entries
          /\ \A b \in Live(Grow(m, a)) :
               \E j \in Live(m) : m.buckets[j].key = Grow(m, a).buckets[b].key
          /\ \A x : Keeps(m, x) => Keeps(Grow(m, a), x)
      BY <1>1, <3>1, <3>2, GrowKeeps
    <3>4. g = Grow(m, a)
      BY <1>4, <2>1, <3>1
    <3>5. \A k : Absent(m, k) => Absent(g, k)
      BY <3>3, <3>4 DEF Absent
    <3> QED
      BY <1>2, <1>3, <3>3, <3>4, <3>5
  <2>2. CASE ~(4 * (e + 1) >= 3 * n)
    <3>1. g = m /\ n # 0
      BY <1>3, <1>4, <2>2
    <3> QED
      BY <1>1, <1>2, <1>3, <3>1
  <2> QED
    BY <2>1, <2>2
<1>6. PICK u, v : u = g.entries /\ v = g.tombstones
  OBVIOUS
<1>7. N \in Nat /\ u \in Nat /\ v \in Nat /\ g.size = N /\ u + v < N /\ u <= e
  <2>1. /\ N \in Nat /\ g.entries \in Nat /\ g.tombstones \in Nat /\ g.size = N
        /\ HasEmpty(g) => g.entries + g.tombstones < N
    BY <1>5, DenseFacts
  <2> QED
    BY <1>5, <1>6, <2>1
<1>8. WithRoom(m) = IF N - (e + 1 + v) <= N \div 8 THEN Grow(g, N) ELSE g
  <2>1. g = IF 4 * (m.entries + 1) >= 3 * m.size THEN Grow(m, 2 * m.size) ELSE m
    BY <1>2, <1>3, <1>4
  <2>2. WithRoom(m) = IF g.size - (m.entries + 1 + g.tombstones) <= g.size \div 8
                      THEN Grow(g, g.size) ELSE g
    BY <2>1, Zenon DEF WithRoom
  <2> QED
    BY <1>2, <1>3, <1>6, <1>7, <2>2
<1>9. CASE N - (e + 1 + v) <= N \div 8
  <2>1. PICK z : z = GrownSize(N) /\ z \in Nat /\ z > N
    BY <1>7, GrownSizeIs
  <2>2. g.entries < GrownSize(N)
    BY <1>6, <1>7, <2>1
  <2>3. PICK x : x = Grow(g, N)
    OBVIOUS
  <2>4. /\ DenseHas(x, z) /\ HasEmpty(x) /\ x.tombstones = 0 /\ x.entries <= u
        /\ \A b \in Live(x) : \E j \in Live(g) : g.buckets[j].key = x.buckets[b].key
        /\ \A r : Keeps(g, r) => Keeps(x, r)
    <3>1. /\ DenseHas(Grow(g, N), GrownSize(N)) /\ HasEmpty(Grow(g, N))
          /\ Grow(g, N).tombstones = 0 /\ Grow(g, N).entries <= g.entries
          /\ \A b \in Live(Grow(g, N)) :
               \E j \in Live(g) : g.buckets[j].key = Grow(g, N).buckets[b].key
          /\ \A r : Keeps(g, r) => Keeps(Grow(g, N), r)
      BY <1>5, <1>7, <2>2, GrowKeeps
    <3> QED
      BY <1>6, <2>1, <2>3, <3>1
  <2>5. x.entries \in Nat
    BY <2>4, DenseFacts
  <2>6. x.entries + 1 + x.tombstones < z
    BY <1>7, <2>1, <2>4, <2>5
  <2>7. \A k : Absent(m, k) => Absent(x, k)
    BY <1>5, <2>4 DEF Absent
  <2>8. WithRoom(m) = x
    BY <1>8, <1>9, <2>3
  <2> QED
    BY <1>5, <2>4, <2>6, <2>7, <2>8 DEF Roomy
<1>10. CASE ~(N - (e + 1 + v) <= N \div 8)
  <2>1. WithRoom(m) = g
    BY <1>8, <1>10
  <2>2. u + 1 + v < N
    <3>1. N \div 8 \in Nat
      BY <1>7
    <3> QED
      BY <1>3, <1>7, <1>10, <3>1
  <2> QED
    BY <1>5, <1>6, <2>1, <2>2 DEF Roomy
<1> QED
  BY <1>9, <1>10

\* A key that is not there is inserted with a count of zero.
LEMMA InsertAdds ==
  ASSUME NEW m, NEW s, DenseIs(m, s), NEW k \in Keys, Absent(m, k)
  PROVE  /\ DenseIs(Insert(m, k), s)
         /\ \E b \in Live(Insert(m, k)) : Insert(m, k).buckets[b].key = k
<1>1. PICK r, n : r = WithRoom(m) /\ Roomy(r, n)
  BY RoomIsMade
<1>2. Keeps(r, s) /\ Absent(r, k)
  BY <1>1, RoomIsMade
<1>3. DenseHas(r, n) /\ HasEmpty(r) /\ r.entries + 1 + r.tombstones < n
  BY <1>1 DEF Roomy
<1>4. /\ n \in Nat /\ r.entries \in Nat /\ r.tombstones \in Nat /\ r.size = n
      /\ Live(r) \subseteq 0 .. n - 1 /\ Live(r) \cap Tombs(r) = {}
      /\ \A b \in 0 .. n - 1 : r.buckets[b] \in Buckets
  BY <1>3, DenseFacts
<1>5. PICK c, y : c = BucketFor(r, k) /\ y = Insert(m, k)
  OBVIOUS
<1>6. ~Found(r, k)
  BY <1>2, <1>3, Lookup DEF Absent
<1>7. /\ c \in 0 .. n - 1 /\ WayTo(r, k, c)
      /\ r.buckets[c].key \in Keys => r.buckets[c].count = 0
  BY <1>3, <1>5, <1>6, Lookup
<1>8. /\ r.buckets[c].key \in {EmptyKey, TombstoneKey} <=> c \notin Live(r)
      /\ r.buckets[c].key = TombstoneKey <=> c \in Tombs(r)
  BY <1>4, <1>7, DenseConstants DEF Live, Tombs, Buckets
<1>9. y = [r EXCEPT !.buckets[c] = Bucket(k, 0),
                    !.entries = IF c \notin Live(r) THEN @ + 1 ELSE @,
                    !.tombstones = IF c \in Tombs(r) THEN @ - 1 ELSE @]
  BY <1>1, <1>5, <1>8 DEF Insert, Bucket
<1>10. r \in DenseMaps
  BY <1>3 DEF DenseHas
<1>11. /\ y.size = n /\ y.buckets = [r.buckets EXCEPT ![c] = Bucket(k, 0)]
       /\ c \in Live(r) => y.entries = r.entries
       /\ c \notin Live(r) => y.entries = r.entries + 1
       /\ c \in Tombs(r) => y.tombstones = r.tombstones - 1
       /\ c \notin Tombs(r) => y.tombstones = r.tombstones
       /\ y = [size |-> y.size, buckets |-> y.buckets, entries |-> y.entries, tombstones |-> y.tombstones]
  BY <1>4, <1>9, <1>10 DEF DenseMaps
<1>12. /\ DenseHas(y, n) /\ Live(y) = Live(r) \cup {c} /\ y.buckets[c] = Bucket(k, 0)
       /\ \A b \in (0 .. n - 1) \ {c} : y.buckets[b] = r.buckets[b]
  <2>1. Writes(y, r, n, c, Bucket(k, 0))
    BY <1>11 DEF Writes
  <2>2. /\ DenseHas(r, n) /\ \A b \in Live(r) : r.buckets[b].key # k
        /\ c \in 0 .. n - 1 /\ WayTo(r, k, c) /\ 0 \in Nat
    BY <1>2, <1>3, <1>7 DEF Absent
  <2>3. /\ c \in Live(r) => y.entries = r.entries
        /\ c \notin Live(r) => y.entries = r.entries + 1
        /\ c \in Tombs(r) => y.tombstones = r.tombstones - 1
        /\ c \notin Tombs(r) => y.tombstones = r.tombstones
        /\ y = [size |-> y.size, buckets |-> y.buckets, entries |-> y.entries, tombstones |-> y.tombstones]
    BY <1>11
  <2> QED
    BY <2>1, <2>2, <2>3, Fills
<1>13. HasEmpty(y)
  <2>1. PICK e, t, u, v : e = y.entries /\ t = y.tombstones /\ u = r.entries /\ v = r.tombstones
    OBVIOUS
  <2>2. e \in Nat /\ t \in Nat /\ (e + t # n => HasEmpty(y))
    BY <1>12, <2>1, DenseFacts
  <2>3. u \in Nat /\ v \in Nat /\ (e = u \/ e = u + 1) /\ (t = v \/ t = v - 1) /\ u + 1 + v < n
    BY <1>3, <1>4, <1>11, <2>1
  <2>4. e + t # n
    BY <1>4, <2>2, <2>3
  <2> QED
    BY <2>2, <2>4
<1>14. Bucket(k, 0).key = k /\ Bucket(k, 0).count = 0
  BY DEF Bucket
<1>15. s[k] = 0
  BY <1>2 DEF Keeps, Absent
<1>16. \A b \in Live(y) : y.buckets[b].count = s[y.buckets[b].key]
  <2> SUFFICES ASSUME NEW b \in Live(y)
               PROVE  y.buckets[b].count = s[y.buckets[b].key]
    OBVIOUS
  <2>1. CASE b = c
    BY <1>12, <1>14, <1>15, <2>1
  <2>2. CASE b # c
    BY <1>2, <1>4, <1>12, <2>2 DEF Keeps
  <2> QED
    BY <2>1, <2>2
<1>17. ASSUME NEW q \in Keys, s[q] # 0
       PROVE  \E b \in Live(y) : y.buckets[b].key = q
  <2>1. PICK b \in Live(r) : r.buckets[b].key = q
    BY <1>2, <1>17 DEF Keeps
  <2>2. b # c
    BY <1>2, <1>7, <1>17, <2>1 DEF Keeps
  <2> QED
    BY <1>4, <1>12, <2>1, <2>2
<1>18. DenseIs(y, s)
  BY <1>12, <1>13, <1>16, <1>17 DEF DenseIs, Keeps
<1> QED
  BY <1>5, <1>12, <1>14, <1>18

\* The count of a key that is there is overwritten.
LEMMA CountWritten ==
  ASSUME NEW m, NEW s \in [Keys -> Nat], DenseIs(m, s), NEW k \in Keys, NEW b \in Live(m),
         m.buckets[b].key = k, NEW c \in Nat
  PROVE  DenseIs([m EXCEPT !.buckets[b].count = c], [s EXCEPT ![k] = c])
<1>1. PICK n : DenseHas(m, n) /\ (n # 0 => HasEmpty(m))
  BY DEF DenseIs
<1>2. /\ n \in Nat /\ m.size = n /\ Live(m) \subseteq 0 .. n - 1
      /\ \A i \in 0 .. n - 1 : m.buckets[i] \in Buckets
  BY <1>1, DenseFacts
<1>3. m \in DenseMaps /\ m.buckets \in [0 .. n - 1 -> Buckets]
  BY <1>1 DEF DenseHas
<1>4. PICK y, z : y = [m EXCEPT !.buckets[b].count = c] /\ z = [s EXCEPT ![k] = c]
  OBVIOUS
<1>5. PICK B : B = [m.buckets[b] EXCEPT !.count = c]
  OBVIOUS
<1>6. B \in Buckets /\ B.key = k /\ B.count = c
  <2>1. m.buckets[b] \in Buckets
    BY <1>2
  <2> QED
    BY <1>5, <2>1 DEF Buckets
<1>7. /\ y.size = n /\ y.buckets = [m.buckets EXCEPT ![b] = B]
      /\ y.entries = m.entries /\ y.tombstones = m.tombstones
  BY <1>2, <1>3, <1>4, <1>5 DEF DenseMaps
<1>8. Writes(y, m, n, b, B)
  BY <1>7 DEF Writes
<1>9. /\ y.buckets \in [0 .. n - 1 -> Buckets] /\ y.buckets[b] = B
      /\ \A i \in (0 .. n - 1) \ {b} : y.buckets[i] = m.buckets[i]
      /\ B.key \in Keys => Live(y) = Live(m) \cup {b}
      /\ B.key # TombstoneKey => Tombs(y) = Tombs(m) \ {b}
  <2>1. DenseHas(m, n) /\ b \in 0 .. n - 1 /\ B \in Buckets /\ Writes(y, m, n, b, B)
    BY <1>1, <1>2, <1>6, <1>8
  <2> QED
    BY <2>1, BucketWritten
<1>10. Live(y) = Live(m) /\ Tombs(y) = Tombs(m)
  <2>1. b \notin Tombs(m) /\ k # TombstoneKey
    BY DenseConstants DEF Tombs
  <2> QED
    BY <1>6, <1>9, <2>1
<1>11. y \in DenseMaps
  <2>1. y = [m EXCEPT !.buckets = y.buckets]
    BY <1>3, <1>4, <1>7 DEF DenseMaps
  <2>2. y.buckets \in UNION {[0 .. l - 1 -> Buckets] : l \in Nat}
    BY <1>2, <1>9
  <2> QED
    BY <1>3, <2>1, <2>2 DEF DenseMaps
<1>12. DenseHas(y, n)
  <2>1. /\ B.key # EmptyKey
        /\ B.key \in Keys => /\ WayTo(m, B.key, b)
                             /\ \A i \in Live(m) \ {b} : m.buckets[i].key # B.key
    BY <1>1, <1>6, DenseConstants DEF DenseHas
  <2>2. y.entries = Cardinality(Live(y)) /\ y.tombstones = Cardinality(Tombs(y))
    BY <1>1, <1>7, <1>10 DEF DenseHas
  <2>3. b \in 0 .. n - 1
    BY <1>2
  <2> QED
    BY <1>1, <1>6, <1>8, <1>11, <2>1, <2>2, <2>3, WrittenHas
<1>13. HasEmpty(m) => HasEmpty(y)
  <2> SUFFICES ASSUME NEW i \in 0 .. n - 1, m.buckets[i].key = EmptyKey
               PROVE  HasEmpty(y)
    BY <1>2 DEF HasEmpty
  <2>1. i # b
    BY DenseConstants
  <2> QED
    BY <1>7, <1>9, <2>1 DEF HasEmpty
<1>14. z[k] = c /\ \A q \in Keys \ {k} : z[q] = s[q]
  BY <1>4
<1>15. Keeps(y, z)
  <2>1. \A i \in Live(y) : y.buckets[i].count = z[y.buckets[i].key]
    <3> SUFFICES ASSUME NEW i \in Live(y)
                 PROVE  y.buckets[i].count = z[y.buckets[i].key]
      OBVIOUS
    <3>1. CASE i = b
      BY <1>6, <1>9, <1>14, <3>1
    <3>2. CASE i # b
      <4>1. i \in Live(m) /\ i \in 0 .. n - 1 /\ y.buckets[i] = m.buckets[i]
        BY <1>2, <1>9, <1>10, <3>2
      <4>2. m.buckets[i].key \in Keys /\ m.buckets[i].key # k
        BY <1>1, <3>2, <4>1 DEF Live, DenseHas
      <4>3. m.buckets[i].count = s[m.buckets[i].key]
        BY <4>1 DEF DenseIs, Keeps
      <4> QED
        BY <1>14, <4>1, <4>2, <4>3
    <3> QED
      BY <3>1, <3>2
  <2>2. ASSUME NEW q \in Keys, z[q] # 0
        PROVE  \E i \in Live(y) : y.buckets[i].key = q
    <3>1. CASE q = k
      BY <1>6, <1>9, <1>10, <3>1
    <3>2. CASE q # k
      <4>1. s[q] # 0
        BY <1>14, <2>2, <3>2
      <4>2. PICK i \in Live(m) : m.buckets[i].key = q
        BY <4>1 DEF DenseIs, Keeps
      <4>3. i # b /\ i \in 0 .. n - 1
        BY <1>2, <3>2, <4>2
      <4> QED
        BY <1>9, <1>10, <4>2, <4>3
    <3> QED
      BY <3>1, <3>2
  <2> QED
    BY <2>1, <2>2 DEF Keeps
<1> QED
  BY <1>1, <1>4, <1>12, <1>13, <1>15 DEF DenseIs

\* m without the key in bucket b, before compact.
Erased(m, b) == [m EXCEPT !.buckets[b] = Bucket(TombstoneKey, 0), !.entries = @ - 1, !.tombstones = @ + 1]

\* A key that is there leaves a tombstone.
LEMMA BucketErased ==
  ASSUME NEW m, NEW s \in [Keys -> Nat], DenseIs(m, s), NEW k \in Keys, NEW b \in Live(m),
         m.buckets[b].key = k
  PROVE  DenseIs(Erased(m, b), [s EXCEPT ![k] = 0])
<1>1. PICK n : DenseHas(m, n) /\ (n # 0 => HasEmpty(m))
  BY DEF DenseIs
<1>2. /\ n \in Nat /\ m.size = n /\ Live(m) \subseteq 0 .. n - 1
      /\ m.entries \in Nat /\ m.tombstones \in Nat
      /\ IsFiniteSet(Live(m)) /\ IsFiniteSet(Tombs(m))
  BY <1>1, DenseFacts
<1>3. m \in DenseMaps /\ m.entries = Cardinality(Live(m)) /\ m.tombstones = Cardinality(Tombs(m))
  BY <1>1 DEF DenseHas
<1>4. PICK y, z, B : y = Erased(m, b) /\ z = [s EXCEPT ![k] = 0] /\ B = Bucket(TombstoneKey, 0)
  OBVIOUS
<1>5. B \in Buckets /\ B.key = TombstoneKey
  BY <1>4 DEF Buckets, Bucket
<1>6. /\ y.size = n /\ y.buckets = [m.buckets EXCEPT ![b] = B]
      /\ y.entries = m.entries - 1 /\ y.tombstones = m.tombstones + 1
  BY <1>2, <1>3, <1>4 DEF DenseMaps, Erased
<1>7. Writes(y, m, n, b, B) /\ b \in 0 .. n - 1
  BY <1>2, <1>6 DEF Writes
<1>8. /\ y.buckets \in [0 .. n - 1 -> Buckets] /\ y.buckets[b] = B
      /\ \A i \in (0 .. n - 1) \ {b} : y.buckets[i] = m.buckets[i]
      /\ B.key \notin Keys => Live(y) = Live(m) \ {b}
      /\ B.key = TombstoneKey => Tombs(y) = Tombs(m) \cup {b}
  BY <1>1, <1>5, <1>7, BucketWritten
<1>9. Live(y) = Live(m) \ {b} /\ Tombs(y) = Tombs(m) \cup {b} /\ b \notin Tombs(m)
  BY <1>5, <1>8, DenseConstants DEF Tombs
<1>10. /\ y.entries = Cardinality(Live(y)) /\ y.entries \in Nat
       /\ y.tombstones = Cardinality(Tombs(y)) /\ y.tombstones \in Nat
  <2>1. Cardinality(Live(m) \ {b}) = Cardinality(Live(m)) - 1 /\ Cardinality(Live(m)) > 0
    BY <1>2, MemberCounts
  <2>2. Cardinality(Tombs(m) \cup {b}) = Cardinality(Tombs(m)) + 1
    BY <1>2, <1>9, MemberCounts
  <2>3. PICK e, t, u, v : /\ e = m.entries /\ t = m.tombstones
                          /\ u = Cardinality(Live(y)) /\ v = Cardinality(Tombs(y))
    OBVIOUS
  <2>4. u = e - 1 /\ v = t + 1 /\ e > 0 /\ e \in Nat /\ t \in Nat
    BY <1>2, <1>3, <1>9, <2>1, <2>2, <2>3
  <2> QED
    BY <1>6, <2>3, <2>4
<1>11. y \in DenseMaps
  <2>1. y.buckets \in UNION {[0 .. l - 1 -> Buckets] : l \in Nat}
    BY <1>2, <1>8
  <2>2. y = [size |-> n, buckets |-> y.buckets, entries |-> y.entries, tombstones |-> y.tombstones]
    BY <1>2, <1>3, <1>4 DEF DenseMaps, Erased
  <2>3. PICK bs, e, t : bs = y.buckets /\ e = y.entries /\ t = y.tombstones
    OBVIOUS
  <2>4. y = [size |-> n, buckets |-> bs, entries |-> e, tombstones |-> t]
    BY <2>2, <2>3
  <2> QED
    BY <1>2, <1>10, <2>1, <2>3, <2>4 DEF DenseMaps
<1>12. DenseHas(y, n)
  <2>1. /\ B.key # EmptyKey
        /\ B.key \in Keys => /\ WayTo(m, B.key, b)
                             /\ \A i \in Live(m) \ {b} : m.buckets[i].key # B.key
    BY <1>5, DenseConstants
  <2> QED
    BY <1>1, <1>5, <1>7, <1>10, <1>11, <2>1, WrittenHas
<1>13. HasEmpty(m) => HasEmpty(y)
  <2> SUFFICES ASSUME NEW i \in 0 .. n - 1, m.buckets[i].key = EmptyKey
               PROVE  HasEmpty(y)
    BY <1>2 DEF HasEmpty
  <2>1. i # b
    BY DenseConstants
  <2> QED
    BY <1>6, <1>8, <2>1 DEF HasEmpty
<1>14. z[k] = 0 /\ \A q \in Keys \ {k} : z[q] = s[q]
  BY <1>4
<1>15. \A i \in Live(y) : /\ i \in Live(m) /\ i # b /\ y.buckets[i] = m.buckets[i]
                          /\ m.buckets[i].key \in Keys /\ m.buckets[i].key # k
  <2> SUFFICES ASSUME NEW i \in Live(y)
               PROVE  /\ i \in Live(m) /\ i # b /\ y.buckets[i] = m.buckets[i]
                      /\ m.buckets[i].key \in Keys /\ m.buckets[i].key # k
    OBVIOUS
  <2>1. i \in Live(m) /\ i # b /\ y.buckets[i] = m.buckets[i]
    BY <1>2, <1>8, <1>9
  <2> QED
    BY <1>1, <2>1 DEF Live, DenseHas
<1>16. Keeps(y, z)
  <2>1. \A i \in Live(y) : y.buckets[i].count = z[y.buckets[i].key]
    BY <1>14, <1>15 DEF DenseIs, Keeps
  <2>2. ASSUME NEW q \in Keys, z[q] # 0
        PROVE  \E i \in Live(y) : y.buckets[i].key = q
    <3>1. q # k /\ s[q] # 0
      BY <1>14, <2>2
    <3>2. PICK i \in Live(m) : m.buckets[i].key = q
      BY <3>1 DEF DenseIs, Keeps
    <3>3. i # b
      BY <3>1, <3>2
    <3> QED
      BY <1>9, <1>15, <3>2, <3>3
  <2> QED
    BY <2>1, <2>2 DEF Keeps
<1> QED
  BY <1>1, <1>4, <1>12, <1>13, <1>16 DEF DenseIs

\* compact keeps the counts.
LEMMA CompactKeeps ==
  ASSUME NEW m, NEW s, DenseIs(m, s)
  PROVE  DenseIs(Compact(m), s)
<1>1. PICK n : DenseHas(m, n) /\ (n # 0 => HasEmpty(m))
  BY DEF DenseIs
<1>2. m.entries \in Nat /\ IsFiniteSet(Live(m)) /\ m.entries = Cardinality(Live(m))
  BY <1>1, DenseFacts DEF DenseHas
<1>3. PICK x, c : x = NewMap(0) /\ c = Compact(m)
  OBVIOUS
<1>4. CASE m.entries = 0
  <2>1. Live(m) = {}
    BY <1>2, <1>4, FS_EmptySet
  <2>2. DenseHas(x, 0) /\ Live(x) = {}
    BY <1>3, NewMapHas
  <2>3. DenseIs(x, s)
    BY <2>1, <2>2 DEF DenseIs, Keeps
  <2>4. c = x
    BY <1>3, <1>4 DEF Compact
  <2> QED
    BY <1>3, <2>3, <2>4
<1>5. CASE m.entries # 0 /\ m.size \div 16 > m.entries /\ m.size > MinCompact
  <2>1. PICK e, a : e = m.entries /\ a = 2 * e /\ a \in Nat
    BY <1>2
  <2>2. c = Grow(m, a)
    BY <1>3, <1>5, <2>1 DEF Compact
  <2>3. PICK N : N = GrownSize(a) /\ N \in Nat /\ N > a
    BY <2>1, GrownSizeIs
  <2>4. m.entries < GrownSize(a)
    BY <1>2, <2>1, <2>3
  <2>5. /\ DenseHas(Grow(m, a), GrownSize(a)) /\ HasEmpty(Grow(m, a))
        /\ \A z : Keeps(m, z) => Keeps(Grow(m, a), z)
    BY <1>1, <2>1, <2>4, GrowKeeps
  <2>6. DenseIs(c, s)
    BY <2>2, <2>5 DEF DenseIs
  <2> QED
    BY <1>3, <2>6
<1>6. CASE m.entries # 0 /\ ~(m.size \div 16 > m.entries /\ m.size > MinCompact)
  <2>1. c = m
    BY <1>3, <1>6 DEF Compact
  <2> QED
    BY <1>3, <2>1
<1> QED
  BY <1>4, <1>5, <1>6

\* find, in a map that may have no buckets.
LEMMA Find ==
  ASSUME NEW m, NEW s, DenseIs(m, s), NEW k \in Keys
  PROVE  /\ Found(m, k) => BucketFor(m, k) \in Live(m) /\ m.buckets[BucketFor(m, k)].key = k
         /\ \A b \in Live(m) : m.buckets[b].key = k => Found(m, k) /\ BucketFor(m, k) = b
<1>1. PICK n : DenseHas(m, n) /\ (n # 0 => HasEmpty(m))
  BY DEF DenseIs
<1>2. CASE n = 0
  <2>1. m.size = 0 /\ Live(m) = {}
    <3>1. m.size = 0 /\ Live(m) \subseteq 0 .. n - 1
      BY <1>1, <1>2, DenseFacts
    <3>2. 0 .. n - 1 = {}
      BY <1>2
    <3> QED
      BY <3>1, <3>2
  <2>2. ~Found(m, k)
    BY <2>1 DEF Found
  <2> QED
    BY <2>1, <2>2
<1>3. CASE n # 0
  BY <1>1, <1>3, Lookup
<1> QED
  BY <1>2, <1>3

\* The inductive invariant.
DenseInv == stored \in [Keys -> Nat] /\ DenseIs(refcnts, stored)

\* DenseInv holds at the beginning,
LEMMA DenseInit == InitRefcounts => DenseInv
<1> SUFFICES ASSUME InitRefcounts
             PROVE  DenseInv
  OBVIOUS
<1>1. refcnts = NewMap(0) /\ stored = [k \in Keys |-> 0]
  BY DEF InitRefcounts
<1>2. PICK m : m = NewMap(0)
  OBVIOUS
<1>3. DenseHas(m, 0) /\ Live(m) = {}
  BY <1>2, NewMapHas
<1>4. DenseIs(m, stored)
  BY <1>1, <1>3 DEF DenseIs, Keeps
<1> QED
  BY <1>1, <1>2, <1>4 DEF DenseInv

\* after each store,
LEMMA DenseStore ==
  ASSUME DenseInv, NEW k \in Keys, NEW n \in Counts[k], StoreCount(k, n)
  PROVE  DenseInv'
<1>1. n \in Nat
  BY DenseMapAssumption
<1>2. stored \in [Keys -> Nat] /\ DenseIs(refcnts, stored)
  BY DEF DenseInv
<1>3. PICK m : m = IF Found(refcnts, k) THEN refcnts ELSE Insert(refcnts, k)
  OBVIOUS
<1>4. refcnts' = [m EXCEPT !.buckets[BucketFor(m, k)].count = n] /\ stored' = [stored EXCEPT ![k] = n]
  BY <1>3 DEF StoreCount
<1>5. DenseIs(m, stored) /\ \E b \in Live(m) : m.buckets[b].key = k
  <2>1. CASE Found(refcnts, k)
    BY <1>2, <1>3, <2>1, Find
  <2>2. CASE ~Found(refcnts, k)
    <3>1. Absent(refcnts, k)
      BY <1>2, <2>2, Find DEF Absent
    <3> QED
      BY <1>2, <1>3, <2>2, <3>1, InsertAdds
  <2> QED
    BY <2>1, <2>2
<1>6. PICK b \in Live(m) : m.buckets[b].key = k /\ BucketFor(m, k) = b
  BY <1>5, Find
<1>7. DenseIs([m EXCEPT !.buckets[b].count = n], [stored EXCEPT ![k] = n])
  BY <1>1, <1>2, <1>5, <1>6, CountWritten
<1>8. stored' \in [Keys -> Nat]
  BY <1>1, <1>2, <1>4
<1>9. DenseIs(refcnts', stored')
  BY <1>4, <1>6, <1>7
<1> QED
  BY <1>8, <1>9 DEF DenseInv, DenseIs, Keeps, DenseHas, HasEmpty, Live, Tombs, WayTo

\* after each erasure,
LEMMA DenseErase ==
  ASSUME DenseInv, NEW k \in Keys, EraseCount(k)
  PROVE  DenseInv'
<1>1. stored \in [Keys -> Nat] /\ DenseIs(refcnts, stored)
  BY DEF DenseInv
<1>2. PICK m, b : m = refcnts /\ b = BucketFor(refcnts, k)
  OBVIOUS
<1>3. b \in Live(m) /\ m.buckets[b].key = k
  BY <1>1, <1>2, Find DEF EraseCount
<1>4. refcnts' = Compact(Erased(m, b)) /\ stored' = [stored EXCEPT ![k] = 0]
  BY <1>2 DEF EraseCount, Erased, Bucket
<1>5. DenseIs(Erased(m, b), [stored EXCEPT ![k] = 0])
  BY <1>1, <1>2, <1>3, BucketErased
<1>6. DenseIs(Compact(Erased(m, b)), [stored EXCEPT ![k] = 0])
  BY <1>5, CompactKeeps
<1>7. stored' \in [Keys -> Nat] /\ DenseIs(refcnts', stored')
  BY <1>1, <1>4, <1>6
<1> QED
  BY <1>7 DEF DenseInv, DenseIs, Keeps, DenseHas, HasEmpty, Live, Tombs, WayTo

\* and hence after each step.
LEMMA DenseStep == DenseInv /\ [NextRefcounts]_refcounts => DenseInv'
<1> SUFFICES ASSUME DenseInv, [NextRefcounts]_refcounts
             PROVE  DenseInv'
  OBVIOUS
<1>1. CASE UNCHANGED refcounts
  <2>1. refcnts' = refcnts /\ stored' = stored
    BY <1>1 DEF refcounts
  <2>2. stored' \in [Keys -> Nat] /\ DenseIs(refcnts', stored')
    BY <2>1 DEF DenseInv
  <2> QED
    BY <2>2 DEF DenseInv, DenseIs, Keeps, DenseHas, HasEmpty, Live, Tombs, WayTo
<1>2. ASSUME NEW k \in Keys, EraseCount(k)
      PROVE  DenseInv'
  BY <1>2, DenseErase
<1>3. ASSUME NEW k \in Keys, NEW n \in Counts[k], StoreCount(k, n)
      PROVE  DenseInv'
  BY <1>3, DenseStore
<1> QED
  BY <1>1, <1>2, <1>3 DEF NextRefcounts

\* A map that holds the counts answers with them.
LEMMA CountsAgree == DenseInv => RefcountsAreKept
<1> SUFFICES ASSUME DenseInv
             PROVE  RefcountsAreKept
  OBVIOUS
<1>1. stored \in [Keys -> Nat] /\ DenseIs(refcnts, stored)
  BY DEF DenseInv
<1>2. PICK n : DenseHas(refcnts, n) /\ (n # 0 => HasEmpty(refcnts))
  BY <1>1 DEF DenseIs
<1>3. /\ n \in Nat /\ refcnts.size = n /\ DOMAIN refcnts.buckets = 0 .. n - 1
      /\ IsFiniteSet(Live(refcnts)) /\ refcnts.entries = Cardinality(Live(refcnts))
      /\ refcnts.tombstones = Cardinality(Tombs(refcnts))
  BY <1>2, DenseFacts DEF DenseHas
<1>4. BucketsWith(Keys) = Live(refcnts) /\ BucketsWith({TombstoneKey}) = Tombs(refcnts)
  BY <1>3 DEF BucketsWith, Live, Tombs
<1>5. ASSUME NEW k \in Keys
      PROVE  CountOf(refcnts, k) = stored[k]
  <2>1. CASE Found(refcnts, k)
    <3>1. BucketFor(refcnts, k) \in Live(refcnts) /\ refcnts.buckets[BucketFor(refcnts, k)].key = k
      BY <1>1, <2>1, Find
    <3> QED
      BY <1>1, <2>1, <3>1 DEF CountOf, DenseIs, Keeps
  <2>2. CASE ~Found(refcnts, k)
    <3>1. \A b \in Live(refcnts) : refcnts.buckets[b].key # k
      BY <1>1, <2>2, Find
    <3>2. stored[k] = 0
      BY <1>1, <3>1 DEF DenseIs, Keeps
    <3> QED
      BY <2>2, <3>2 DEF CountOf
  <2> QED
    BY <2>1, <2>2
<1>6. ASSUME NEW k \in Keys
      PROVE  Cardinality(BucketsWith({k})) <= 1
  <2>1. \A b, c \in BucketsWith({k}) : b \in Live(refcnts) /\ b = c
    BY <1>2, <1>3 DEF BucketsWith, Live, DenseHas
  <2>2. PICK S : S = BucketsWith({k})
    OBVIOUS
  <2>3. CASE S = {}
    BY <2>2, <2>3, FS_EmptySet
  <2>4. CASE S # {}
    <3>1. PICK b \in S : S = {b}
      BY <2>1, <2>2, <2>4
    <3>2. Cardinality({b}) = 1
      BY FS_Singleton
    <3> QED
      BY <2>2, <3>1, <3>2
  <2> QED
    BY <2>3, <2>4
<1>7. refcnts.size # 0 => BucketsWith({EmptyKey}) # {}
  BY <1>2, <1>3 DEF HasEmpty, BucketsWith
<1> QED
  BY <1>3, <1>4, <1>5, <1>6, <1>7 DEF RefcountsAreKept

\* DenseInv is an invariant of the map.
THEOREM DenseInvariant == SpecRefcounts => []DenseInv
<1> QED
  BY DenseInit, DenseStep, PTL DEF SpecRefcounts

\* After any stores and erasures, and whatever they grew, compacted and purged, find answers
\* for each object the count stored last, no object has two buckets, and some bucket is empty, so that
\* no search runs round the table (RefcountMap in llvm-DenseMap.h).
THEOREM CountsAreKept == SpecRefcounts => []RefcountsAreKept
<1> QED
  BY DenseInvariant, CountsAgree, PTL
=============================================================================
