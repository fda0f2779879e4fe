------------------------------ MODULE WeakRef -------------------------------
(***************************************************************************)
(* __weak variables: storeWeak and its wrappers, objc_loadWeakRetained,    *)
(* objc_copyWeak and objc_moveWeak (NSObject.mm), over the weak tables of  *)
(* objc-weak.mm, against the deallocation of the objects they refer to.    *)
(*                                                                         *)
(* A side table is one stripe of SideTables(): its lock and its part of    *)
(* the weak table, here the set of variables registered for each object.   *)
(* Stripes are numbered by address. The reference count is the atomic one  *)
(* that RefCount is shown to implement, and deallocation starts at zero.   *)
(*                                                                         *)
(* A thread takes one step per access to memory another thread can reach;  *)
(* the two unlocks of unlockTwo are one step with the access before them.  *)
(***************************************************************************)
EXTENDS Naturals, FiniteSets, FiniteSetsExt

CONSTANTS Threads, NoThread,
          Objs, Nil,       \* objects, and the null pointer
          Locs, NoLoc,     \* __weak variables
          Stripe,          \* the side table of an object, and of nil
          MaxRefs          \* bound: references to one object

Pointers == Objs \cup {Nil}

ASSUME WeakAssumption ==
  /\ IsFiniteSet(Threads) /\ NoThread \notin Threads /\ Nil \notin Objs /\ NoLoc \notin Locs
  /\ Stripe \in [Pointers -> Nat] /\ MaxRefs \in Nat \ {0}

VARIABLES value,        \* what the variable holds
          scope,        \* ghost: the variable is initialized and not destroyed
          registered,   \* weak_table: the referrers of each object
          flagged,      \* weakly_referenced, in isa or in the side table
          count,        \* references; 0 from the last release on
          freed,
          initialized,  \* the objects' class (one for all) has run +initialize
          lock,         \* SideTable::slock of each stripe
          pc, op,
          dst, src,     \* per thread: the variables of the call
          old, new,     \* per thread: oldObj, and newObj or the object loaded
          initTried,    \* per thread: previouslyInitializedClass is newObj's class
          held,         \* ghost: the reference the caller keeps during the call
          dying         \* the object whose -dealloc this thread runs

memory == <<value, scope, registered, flagged, count, freed, initialized>>
locals == <<op, dst, src, old, new, initTried, held, dying>>
vars == <<memory, lock, pc, locals>>

Stripes == {Stripe[p] : p \in Pointers}

Init ==
  /\ value = [l \in Locs |-> Nil] /\ scope = [l \in Locs |-> FALSE]
  /\ registered = [o \in Objs |-> {}] /\ flagged = [o \in Objs |-> FALSE]
  /\ count = [o \in Objs |-> 1] /\ freed = [o \in Objs |-> FALSE]
  /\ initialized = FALSE
  /\ lock = [s \in Stripes |-> NoThread]
  /\ pc = [t \in Threads |-> "idle"] /\ op = [t \in Threads |-> "none"]
  /\ dst = [t \in Threads |-> NoLoc] /\ src = [t \in Threads |-> NoLoc]
  /\ old = [t \in Threads |-> Nil] /\ new = [t \in Threads |-> Nil]
  /\ initTried = [t \in Threads |-> FALSE]
  /\ held = [t \in Threads |-> Nil] /\ dying = [t \in Threads |-> Nil]

-----------------------------------------------------------------------------
(* Who may call what (the comments of NSObject.mm 434-625): storing to and *)
(* loading from a variable is safe against anything but its                *)
(* initialization, destruction or move, which nothing else may overlap.    *)

Unused(l) == \A t \in Threads : l \notin {dst[t], src[t]}
Shareable(l) ==
  scope[l] /\ \A t \in Threads : /\ l = dst[t] => op[t] = "store"
                                 /\ l = src[t] => op[t] \in {"load", "copy"}

HasSpareRef(o) == count[o] > Cardinality({t \in Threads : held[t] = o})

Goto(t, label) == pc' = [pc EXCEPT ![t] = label]

\* Inside -dealloc a thread may use weak variables, and may store the dying
\* object itself with objc_storeWeakOrNil.
CanCall(t) == pc[t] = "idle" \/ (pc[t] = "dealloc" /\ op[t] = "release")
CanStore(t, o) == o \in Objs \ {dying[t]} => HasSpareRef(o)

Call(t, o, d, s, obj, label) ==
  /\ op' = [op EXCEPT ![t] = o]
  /\ dst' = [dst EXCEPT ![t] = d] /\ src' = [src EXCEPT ![t] = s]
  /\ new' = [new EXCEPT ![t] = obj] /\ initTried' = [initTried EXCEPT ![t] = FALSE]
  /\ held' = [held EXCEPT ![t] = IF obj = dying[t] THEN Nil ELSE obj]
  /\ Goto(t, label)
  /\ UNCHANGED <<memory, lock, old, dying>>

\* the locals of a call are gone when it returns, to -dealloc if that called it
Returned(t) ==
  /\ dst' = [dst EXCEPT ![t] = NoLoc] /\ src' = [src EXCEPT ![t] = NoLoc]
  /\ old' = [old EXCEPT ![t] = Nil] /\ new' = [new EXCEPT ![t] = Nil]
  /\ initTried' = [initTried EXCEPT ![t] = FALSE] /\ held' = [held EXCEPT ![t] = Nil]

Return(t) ==
  /\ IF dying[t] = Nil THEN Goto(t, "idle") /\ op' = [op EXCEPT ![t] = "none"]
                       ELSE Goto(t, "dealloc") /\ op' = [op EXCEPT ![t] = "release"]
  /\ Returned(t) /\ UNCHANGED dying

Store(t, l, o) ==
  CanCall(t) /\ Shareable(l) /\ CanStore(t, o) /\ Call(t, "store", l, NoLoc, o, "read")

InitWeak(t, l, o) ==
  /\ pc[t] = "idle" /\ Unused(l) /\ ~scope[l] /\ HasSpareRef(o)
  /\ Call(t, "init", l, NoLoc, o, "read")

\* objc_initWeak of nil writes the variable and takes no lock
InitWeakNil(t, l) ==
  /\ pc[t] = "idle" /\ Unused(l) /\ ~scope[l]
  /\ value' = [value EXCEPT ![l] = Nil] /\ scope' = [scope EXCEPT ![l] = TRUE]
  /\ UNCHANGED <<registered, flagged, count, freed, initialized, lock, pc, locals>>

DestroyWeak(t, l) ==
  CanCall(t) /\ Unused(l) /\ scope[l] /\ Call(t, "destroy", l, NoLoc, Nil, "read")

LoadWeak(t, l) ==
  CanCall(t) /\ Shareable(l) /\ Call(t, "load", NoLoc, l, Nil, "loadRead")

CopyWeak(t, d, s) ==
  /\ pc[t] = "idle" /\ d # s /\ Unused(d) /\ ~scope[d] /\ Shareable(s)
  /\ Call(t, "copy", d, s, Nil, "loadRead")

MoveWeak(t, d, s) ==
  /\ pc[t] = "idle" /\ d # s /\ Unused(d) /\ ~scope[d] /\ Unused(s) /\ scope[s]
  /\ Call(t, "move", d, s, Nil, "loadRead")

-----------------------------------------------------------------------------
(* storeWeak<HaveOld, HaveNew>                                             *)

HaveOld(t) == op[t] \in {"store", "destroy", "moveOut"}
HaveNew(t) == op[t] \in {"store", "init", "copy", "move"}

\* the variable it works on: the second half of a move destroys the source
Location(t) == IF op[t] = "moveOut" THEN src[t] ELSE dst[t]

Read(t) ==
  /\ pc[t] = "read"
  /\ old' = [old EXCEPT ![t] = IF HaveOld(t) THEN value[Location(t)] ELSE Nil]
  /\ Goto(t, "lock")
  /\ UNCHANGED <<memory, lock, op, dst, src, new, initTried, held, dying>>

Tables(t) == (IF HaveOld(t) THEN {Stripe[old[t]]} ELSE {}) \cup
             (IF HaveNew(t) THEN {Stripe[new[t]]} ELSE {})
Missing(t) == {s \in Tables(t) : lock[s] # t}

\* mutant: lockTwo locks the table of the old object first
FirstOld(t) == IF HaveOld(t) /\ Stripe[old[t]] \in Missing(t) THEN Stripe[old[t]]
               ELSE Stripe[new[t]]

\* lockTwo: the higher address first
NextLock(t) == Max(Missing(t))

LockTables(t) ==
  /\ pc[t] = "lock" /\ lock[NextLock(t)] = NoThread
  /\ lock' = [lock EXCEPT ![NextLock(t)] = t]
  /\ Goto(t, IF Cardinality(Missing(t)) = 1 THEN "check" ELSE "lock")
  /\ UNCHANGED <<memory, locals>>

Unlock(t) == lock' = [s \in Stripes |-> IF lock[s] = t THEN NoThread ELSE lock[s]]

\* mutant: the location is not read again under the locks
NeverMoved(t) == FALSE

Moved(t) == HaveOld(t) /\ value[Location(t)] # old[t]
NeedsInitialize(t) ==
  HaveNew(t) /\ new[t] # Nil /\ ~initTried[t] /\ ~initialized

Check(t) ==
  /\ pc[t] = "check"
  /\ \/ /\ Moved(t)
        /\ Unlock(t) /\ Goto(t, "read")
     \/ /\ ~Moved(t) /\ NeedsInitialize(t)
        /\ Unlock(t) /\ Goto(t, "initialize")
     \/ /\ ~Moved(t) /\ ~NeedsInitialize(t)
        /\ UNCHANGED lock
        /\ Goto(t, IF HaveOld(t) THEN "unregister" ELSE "register")
  /\ UNCHANGED <<memory, locals>>

\* _class_initialize; the class stays uninitialized when this thread is the one
\* running its +initialize
Initialize(t) ==
  /\ pc[t] = "initialize" /\ Goto(t, "read")
  /\ initialized' \in {initialized, TRUE}
  /\ initTried' = [initTried EXCEPT ![t] = TRUE]
  /\ UNCHANGED <<value, scope, registered, flagged, count, freed, lock, op, dst, src,
                 old, new, held, dying>>

\* mutant: the entry goes with its first variable, not with its last
RemainingNone(t) == {}

Remaining(t) == registered[old[t]] \ {Location(t)}

Unregister(t) ==
  /\ pc[t] = "unregister"
  /\ registered' = IF old[t] = Nil THEN registered
                   ELSE [registered EXCEPT ![old[t]] = Remaining(t)]
  /\ IF HaveNew(t)
     THEN /\ Goto(t, "register")
          /\ UNCHANGED <<lock, scope, op, dst, src, old, new, initTried, held, dying>>
     ELSE /\ Unlock(t) /\ scope' = [scope EXCEPT ![Location(t)] = FALSE]
          /\ IF op[t] = "moveOut" THEN Goto(t, "moveClear") /\ UNCHANGED locals
                                  ELSE Return(t)
  /\ UNCHANGED <<value, flagged, count, freed, initialized>>

CannotRegister(t) == new[t] = Nil \/ count[new[t]] = 0

Register(t) ==
  /\ pc[t] = "register"
  /\ IF CannotRegister(t)
     THEN Goto(t, "write") /\ new' = [new EXCEPT ![t] = Nil] /\ UNCHANGED registered
     ELSE /\ registered' = [registered EXCEPT ![new[t]] = @ \cup {dst[t]}]
          /\ Goto(t, "flag") /\ UNCHANGED new
  /\ UNCHANGED <<value, scope, flagged, count, freed, initialized, lock, op, dst, src, old,
                 initTried, held, dying>>

SetWeaklyReferenced(t) ==
  /\ pc[t] = "flag" /\ Goto(t, "write")
  /\ flagged' = [flagged EXCEPT ![new[t]] = TRUE]
  /\ UNCHANGED <<value, scope, registered, count, freed, initialized, lock, locals>>

\* *location = newObj; a copy goes on to release what it loaded
Write(t) ==
  /\ pc[t] = "write"
  /\ value' = [value EXCEPT ![dst[t]] = new[t]]
  /\ scope' = [scope EXCEPT ![dst[t]] = TRUE]
  /\ Unlock(t)
  /\ IF op[t] \in {"copy", "move"} THEN Goto(t, "copyRelease") /\ UNCHANGED locals
                                   ELSE Return(t)
  /\ UNCHANGED <<registered, flagged, count, freed, initialized>>

-----------------------------------------------------------------------------
(* objc_loadWeakRetained, alone or at the head of a copy or a move         *)

\* initWeak of nil takes no lock
CopiedNil(t) ==
  /\ value' = [value EXCEPT ![dst[t]] = Nil] /\ scope' = [scope EXCEPT ![dst[t]] = TRUE]
  /\ IF op[t] = "copy" THEN Return(t)
     ELSE /\ Goto(t, "read") /\ op' = [op EXCEPT ![t] = "moveOut"]
          /\ new' = [new EXCEPT ![t] = Nil]
          /\ UNCHANGED <<dst, src, old, initTried, held, dying>>

LoadsNil(t) ==
  IF op[t] = "load" THEN Return(t) /\ UNCHANGED <<value, scope>> ELSE CopiedNil(t)

LoadRead(t) ==
  /\ pc[t] = "loadRead"
  /\ IF value[src[t]] = Nil THEN LoadsNil(t)
     ELSE /\ new' = [new EXCEPT ![t] = value[src[t]]] /\ Goto(t, "loadLock")
          /\ UNCHANGED <<value, scope, op, dst, src, old, initTried, held, dying>>
  /\ UNCHANGED <<registered, flagged, count, freed, initialized, lock>>

LoadLock(t) ==
  /\ pc[t] = "loadLock" /\ lock[Stripe[new[t]]] = NoThread
  /\ lock' = [lock EXCEPT ![Stripe[new[t]]] = t] /\ Goto(t, "loadCheck")
  /\ UNCHANGED <<memory, locals>>

\* mutant: the load does not read the location again under the lock
LoadNeverMoved(t) == FALSE

LoadMoved(t) == value[src[t]] # new[t]

LoadCheck(t) ==
  /\ pc[t] = "loadCheck"
  /\ IF LoadMoved(t) THEN Unlock(t) /\ Goto(t, "loadRead")
                     ELSE UNCHANGED lock /\ Goto(t, "loadTry")
  /\ UNCHANGED <<memory, locals>>

\* weak_read_no_lock: there is an entry for the object, and it can be retained
CanRetain(t) == registered[new[t]] # {} /\ count[new[t]] > 0

LoadTry(t) ==
  /\ pc[t] = "loadTry" /\ Unlock(t)
  /\ \/ /\ ~CanRetain(t)
        /\ LoadsNil(t) /\ UNCHANGED count
     \/ /\ CanRetain(t) /\ count[new[t]] < MaxRefs
        /\ count' = [count EXCEPT ![new[t]] = @ + 1]
        /\ IF op[t] = "load" THEN Return(t)
           ELSE /\ Goto(t, "read") /\ held' = [held EXCEPT ![t] = new[t]]
                /\ UNCHANGED <<op, dst, src, old, new, initTried, dying>>
        /\ UNCHANGED <<value, scope>>
  /\ UNCHANGED <<registered, flagged, freed, initialized>>

\* mutant: the destination of the move is cleared
MoveSourceSwapped(t) == dst[t]

MoveSource(t) == src[t]

\* the last statement of objc_moveWeak: *src = nil
MoveClear(t) ==
  /\ pc[t] = "moveClear"
  /\ value' = [value EXCEPT ![MoveSource(t)] = Nil] /\ scope' = [scope EXCEPT ![src[t]] = TRUE]
  /\ Return(t)
  /\ UNCHANGED <<registered, flagged, count, freed, initialized, lock>>

-----------------------------------------------------------------------------
(* Release and deallocation                                                *)

\* the last release sends -dealloc
Release(t, o) ==
  /\ pc[t] = "idle" /\ HasSpareRef(o)
  /\ count' = [count EXCEPT ![o] = @ - 1]
  /\ IF count[o] = 1
     THEN /\ Goto(t, "dealloc") /\ op' = [op EXCEPT ![t] = "release"]
          /\ dying' = [dying EXCEPT ![t] = o]
     ELSE UNCHANGED <<pc, op, dying>>
  /\ UNCHANGED <<value, scope, registered, flagged, freed, initialized, lock, dst, src,
                 old, new, initTried, held>>

\* the release at the end of objc_copyWeak
AfterCopy(t) ==
  IF op[t] = "copy" THEN Return(t)
  ELSE /\ Goto(t, "read") /\ op' = [op EXCEPT ![t] = "moveOut"]
       /\ held' = [held EXCEPT ![t] = Nil] /\ new' = [new EXCEPT ![t] = Nil]
       /\ UNCHANGED <<dst, src, old, initTried, dying>>

CopyRelease(t) ==
  /\ pc[t] = "copyRelease"
  /\ count' = [count EXCEPT ![held[t]] = @ - 1]
  /\ IF count[held[t]] = 1
     THEN /\ Goto(t, "dealloc") /\ dying' = [dying EXCEPT ![t] = held[t]]
          /\ held' = [held EXCEPT ![t] = Nil]
          /\ UNCHANGED <<op, dst, src, old, new, initTried>>
     ELSE AfterCopy(t)
  /\ UNCHANGED <<value, scope, registered, flagged, freed, initialized, lock>>

\* -dealloc returns to the release that sent it
Freed(t) ==
  /\ freed' = [freed EXCEPT ![dying[t]] = TRUE] /\ dying' = [dying EXCEPT ![t] = Nil]
  /\ IF op[t] = "move"
     THEN /\ Goto(t, "read") /\ op' = [op EXCEPT ![t] = "moveOut"]
          /\ new' = [new EXCEPT ![t] = Nil]
          /\ UNCHANGED <<dst, src, old, initTried, held>>
     ELSE Goto(t, "idle") /\ op' = [op EXCEPT ![t] = "none"] /\ Returned(t)
  /\ UNCHANGED <<value, scope, registered, flagged, count, initialized, lock>>

RootDealloc(t) == pc[t] = "dealloc" /\ ~flagged[dying[t]] /\ Freed(t)

ClearLock(t) ==
  /\ pc[t] = "dealloc" /\ flagged[dying[t]] /\ lock[Stripe[dying[t]]] = NoThread
  /\ lock' = [lock EXCEPT ![Stripe[dying[t]]] = t] /\ Goto(t, "clear")
  /\ UNCHANGED <<memory, locals>>

\* weak_clear_no_lock
Clear(t) ==
  /\ pc[t] = "clear" /\ Goto(t, "free") /\ Unlock(t)
  /\ value' = [l \in Locs |-> IF l \in registered[dying[t]] /\ value[l] = dying[t]
                              THEN Nil ELSE value[l]]
  /\ registered' = [registered EXCEPT ![dying[t]] = {}]
  /\ UNCHANGED <<scope, flagged, count, freed, initialized, locals>>

Dispose(t) == pc[t] = "free" /\ Freed(t)

-----------------------------------------------------------------------------
Calls(t) ==
  \/ \E l \in Locs : \/ \E o \in Pointers : Store(t, l, o)
                     \/ \E o \in Objs : InitWeak(t, l, o)
                     \/ InitWeakNil(t, l) \/ DestroyWeak(t, l) \/ LoadWeak(t, l)
                     \/ \E s \in Locs : CopyWeak(t, l, s) \/ MoveWeak(t, l, s)
  \/ \E o \in Objs : Release(t, o)

Steps(t) ==
  \/ Read(t) \/ LockTables(t) \/ Check(t) \/ Initialize(t) \/ Unregister(t)
  \/ Register(t) \/ SetWeaklyReferenced(t) \/ Write(t)
  \/ LoadRead(t) \/ LoadLock(t) \/ LoadCheck(t) \/ LoadTry(t) \/ MoveClear(t)
  \/ CopyRelease(t) \/ RootDealloc(t) \/ ClearLock(t) \/ Clear(t) \/ Dispose(t)

Next == \E t \in Threads : Calls(t) \/ Steps(t)

Spec == Init /\ [][Next]_vars

-----------------------------------------------------------------------------
(* Properties                                                              *)

\* While nobody holds an object's side table, the variables registered for it are
\* exactly the variables in scope that hold it, so weak_clear_no_lock finds all of
\* them and never the "incorrect use" of objc-weak.mm:610 (storeWeak, objc_moveWeak).
TableAgrees ==
  \A o \in Objs : lock[Stripe[o]] = NoThread =>
    /\ \A l \in registered[o] : value[l] = o
    /\ {l \in Locs : scope[l] /\ value[l] = o} \subseteq registered[o]

\* Whatever stores, copies, moves and loads ran while an object was being deallocated,
\* no weak variable in scope points to freed memory (weak_clear_no_lock), and a thread
\* about to read or write an object it got from a variable - its isa in storeWeak and
\* weak_register, its count in weak_read, the flag - finds it not freed (NSObject.mm:370,
\* 560).
FreedIsUnreachable ==
  /\ \A l \in Locs : scope[l] /\ value[l] # Nil => ~freed[value[l]]
  /\ \A t \in Threads :
       pc[t] \in {"check", "initialize", "register", "flag", "loadTry", "copyRelease"}
         /\ new[t] # Nil => ~freed[new[t]]

Waiting(t) ==
  \/ pc[t] = "lock" /\ lock[NextLock(t)] # NoThread
  \/ pc[t] = "loadLock" /\ lock[Stripe[new[t]]] # NoThread
  \/ pc[t] = "dealloc" /\ flagged[dying[t]] /\ lock[Stripe[dying[t]]] # NoThread

\* Threads that wait for side tables never all wait for each other: while a call is
\* under way some thread in a call can take a step (lockTwo, objc-os.h:261).
NoCircularWait ==
  (\E t \in Threads : pc[t] # "idle") =>
    \E t \in Threads : pc[t] # "idle" /\ ~Waiting(t)

\* A load about to consult the weak table under the lock is right about what the
\* variable holds, and if that object is alive it finds an entry: a variable never
\* reads as nil while it holds a live object (weak_read_no_lock).
LoadFindsLive ==
  \A t \in Threads : pc[t] = "loadTry" =>
    value[src[t]] = new[t] /\ (count[new[t]] > 0 => CanRetain(t))

\* A variable lets go of an object only when a store to that variable replaces it,
\* or because the object's last reference is gone (weak_clear_no_lock, objc_moveWeak).
OnlyDeathClears ==
  [][\A l \in Locs : scope[l] /\ value[l] # Nil /\ value'[l] # value[l] =>
       \/ count[value[l]] = 0
       \/ \E t \in Threads : pc[t] = "write" /\ dst[t] = l]_vars
=============================================================================
