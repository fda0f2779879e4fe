--------------------------- MODULE WeakRefProofs ----------------------------
(***************************************************************************)
(* Proofs about WeakRef, for any numbers of threads, objects, variables    *)
(* and side tables, and for every bound on the references.                 *)
(*                                                                         *)
(* IInv is the inductive invariant. Thread(t) says what a thread's place   *)
(* in the code means for its locals, for the variables it was given, for   *)
(* the locks it has and what they protect, and for the reference it keeps. *)
(* The rest relates threads, variables, tables and objects. A step leaves  *)
(* Thread(u) of the others (OthersKeep) when it changes a variable only    *)
(* where they are not looking (Harmless): that is what the locks are for.  *)
(* Each action has a lemma, which first says what the step did (<1>e).     *)
(*                                                                         *)
(* About WeakTable, for any objects, variables and hashes of them: TableInv*)
(* is the inductive invariant. EntryHas says of an entry, and TableHas of  *)
(* the table, what it holds and that each slot in use is within the reach  *)
(* of a search from the hash, the longest displacement so far, which an    *)
(* insertion alone makes longer and a removal leaves as it is.             *)
(***************************************************************************)
EXTENDS WeakRef, WeakTable, DataFacts, TLAPS

\* The statements of storeWeak, those under its locks, those that replace the content;
\* the statements of a load and of -dealloc.
StoreLabels == {"read", "lock", "check", "initialize", "unregister", "register", "flag", "write"}
LockedLabels == {"check", "unregister", "register", "flag", "write"}
WorkLabels == {"register", "flag", "write"}
LoadLabels == {"loadRead", "loadLock", "loadCheck", "loadTry"}
DeallocLabels == {"dealloc", "clear", "free"}
Labels == {"idle", "copyRelease", "moveClear"} \cup StoreLabels \cup LoadLabels \cup DeallocLabels
Ops == {"none", "store", "init", "destroy", "load", "copy", "move", "moveOut", "release"}

\* The type invariant: what is in the threads' locals, and in everything.
LocalTypes ==
  /\ pc \in [Threads -> Labels] /\ op \in [Threads -> Ops]
  /\ dst \in [Threads -> Locs \cup {NoLoc}] /\ src \in [Threads -> Locs \cup {NoLoc}]
  /\ old \in [Threads -> Pointers] /\ new \in [Threads -> Pointers]
  /\ initTried \in [Threads -> BOOLEAN]
  /\ held \in [Threads -> Pointers] /\ dying \in [Threads -> Pointers]

Types ==
  /\ value \in [Locs -> Pointers] /\ scope \in [Locs -> BOOLEAN]
  /\ registered \in [Objs -> SUBSET Locs] /\ flagged \in [Objs -> BOOLEAN]
  /\ count \in [Objs -> Nat] /\ freed \in [Objs -> BOOLEAN] /\ initialized \in BOOLEAN
  /\ lock \in [Stripes -> Threads \cup {NoThread}]
  /\ LocalTypes

\* Where a thread is determines what it is doing.
Control(t) ==
  /\ pc[t] = "idle" => op[t] = "none" /\ dst[t] = NoLoc /\ src[t] = NoLoc /\ held[t] = Nil
                       /\ dying[t] = Nil
  /\ op[t] = "none" => pc[t] = "idle"
  /\ pc[t] \in StoreLabels => HaveOld(t) \/ HaveNew(t)
  /\ pc[t] = "unregister" => HaveOld(t)
  /\ pc[t] \in WorkLabels \cup {"initialize"} => HaveNew(t)
  /\ pc[t] \in LoadLabels => op[t] \in {"load", "copy", "move"}
  /\ pc[t] = "copyRelease" => op[t] \in {"copy", "move"}
  /\ pc[t] = "moveClear" => op[t] = "moveOut"
  /\ pc[t] \in DeallocLabels => dying[t] # Nil /\ op[t] \in {"release", "copy", "move"}
                                /\ held[t] = Nil
  /\ op[t] = "release" => pc[t] \in DeallocLabels /\ dst[t] = NoLoc /\ src[t] = NoLoc
  /\ dying[t] # Nil => pc[t] \in DeallocLabels \/ op[t] \in {"store", "destroy", "load"}
  /\ op[t] \notin {"none", "release", "load"} => dst[t] \in Locs
  /\ op[t] \in {"load", "copy", "move", "moveOut"} => src[t] \in Locs
  /\ op[t] \in {"copy", "move", "moveOut"} => src[t] # dst[t]

\* Which of its variables are initialized.
Scopes(t) ==
  /\ op[t] \in {"store", "destroy"} => scope[dst[t]]
  /\ op[t] \in {"load", "copy", "move"} => scope[src[t]]
  /\ op[t] = "init" => ~scope[dst[t]]
  /\ op[t] \in {"copy", "move"} => (scope[dst[t]] <=> pc[t] \in {"copyRelease"} \cup DeallocLabels)
  /\ op[t] = "moveOut" => (scope[src[t]] <=> pc[t] # "moveClear")

\* The locks it has, and what they protect for it.
Owns(t) ==
  /\ pc[t] \in LockedLabels =>
       /\ HaveOld(t) => lock[Stripe[old[t]]] = t
       /\ HaveNew(t) /\ (pc[t] = "write" => new[t] # Nil) => lock[Stripe[new[t]]] = t
  /\ pc[t] \in {"loadCheck", "loadTry"} => lock[Stripe[new[t]]] = t
  /\ pc[t] = "clear" => lock[Stripe[dying[t]]] = t
  /\ \A s \in Stripes :
       lock[s] = t => pc[t] \in LockedLabels \cup {"lock", "loadCheck", "loadTry", "clear"}
  /\ pc[t] \in {"unregister"} \cup WorkLabels /\ HaveOld(t) => value[Location(t)] = old[t]
  /\ pc[t] \in {"loadLock", "loadCheck", "loadTry"} => new[t] # Nil
  /\ pc[t] = "loadTry" => value[src[t]] = new[t]
  /\ pc[t] = "free" => \A l \in Locs : scope[l] => value[l] # dying[t]

\* The reference behind what it stores.
Refers(t) ==
  /\ pc[t] \in StoreLabels /\ new[t] # Nil => HaveNew(t) /\ new[t] \in {held[t], dying[t]}
  /\ pc[t] \in StoreLabels \cup {"copyRelease"} /\ op[t] \in {"copy", "move"}
       => held[t] # Nil /\ new[t] \in {held[t], Nil}
  /\ pc[t] \in {"flag", "write"} /\ new[t] # Nil => held[t] = new[t]
  /\ pc[t] = "flag" => new[t] # Nil
  /\ pc[t] = "write" /\ new[t] # Nil => flagged[new[t]]

Thread(t) == Control(t) /\ Scopes(t) /\ Owns(t) /\ Refers(t)

\* The variables nobody else may use.
Own(t) ==
  IF op[t] \in {"init", "destroy", "copy"} THEN {dst[t]}
  ELSE IF op[t] \in {"move", "moveOut"} THEN {dst[t], src[t]} ELSE {}

\* A variable that one thread initializes, destroys or moves is in no other's call.
Exclusive == \A t, u \in Threads : t # u => Own(t) \cap {dst[u], src[u]} = {}

\* A store to the variable is past taking its old object out of the table.
Working(t, l) == pc[t] \in WorkLabels /\ dst[t] = l

\* The weak table has the variables in scope that hold the object, but for a variable in
\* the middle of a store: that one has the new object's entry from weak_register on.
Registration ==
  \A l \in Locs, o \in Objs :
    /\ \A t \in Threads :
         Working(t, l) => (l \in registered[o] <=> pc[t] # "register" /\ new[t] = o)
    /\ (\A t \in Threads : ~Working(t, l)) => (l \in registered[o] <=> scope[l] /\ value[l] = o)

Holders(o) == {t \in Threads : held[t] = o}

\* Who keeps a reference is counted; the last release starts the only deallocation, and
\* the object is freed at its end.
Lives ==
  \A o \in Objs :
    /\ count[o] >= Cardinality(Holders(o))
    /\ count[o] > 0 => ~freed[o]
    /\ \A t \in Threads : dying[t] = o => count[o] = 0 /\ ~freed[o]
    /\ \A t, u \in Threads : dying[t] = o /\ dying[u] = o => t = u

\* What a variable in scope holds is flagged, so that its deallocation looks into the
\* weak table, and is not freed.
Pointing == \A l \in Locs : scope[l] /\ value[l] # Nil => flagged[value[l]] /\ ~freed[value[l]]

\* A thread in lockTwo misses a table, and each it has is higher than those it misses.
Ordered == \A t \in Threads : pc[t] = "lock" =>
     /\ Missing(t) # {}
     /\ \A s \in Stripes : lock[s] = t => s \in Tables(t) /\ \A m \in Missing(t) : m < s

\* The inductive invariant.
IInv ==
  /\ Types /\ (\A t \in Threads : Thread(t)) /\ Exclusive /\ Registration /\ Lives /\ Pointing
  /\ Ordered

-----------------------------------------------------------------------------
(* The side tables that are missing                                        *)

\* lockTwo's next table: the higher of the one or two that are missing.
LEMMA HigherFirst ==
  ASSUME NEW a \in Nat, NEW b \in Nat, NEW S \in SUBSET {a, b}, S # {}
  PROVE  /\ Max(S) \in S /\ \A s \in S : s <= Max(S)
         /\ Cardinality(S) = 1 <=> S = {Max(S)}
<1>1. \E m \in S : \A s \in S : m >= s
  <2>0. PICK x \in S : TRUE
    OBVIOUS
  <2>1. CASE b \in S /\ b >= a
    BY <2>1
  <2>2. CASE a \in S /\ a >= b
    BY <2>2
  <2>3. CASE a \notin S \/ b \notin S
    <3>1. x \in Nat /\ \A s \in S : s = x
      BY <2>0, <2>3
    <3> QED
      BY <2>0, <3>1
  <2> QED
    BY <2>1, <2>2, <2>3, a >= b \/ b >= a
<1>2. Max(S) \in S /\ \A s \in S : s <= Max(S)
  BY <1>1 DEF Max
<1>3. IsFiniteSet(S)
  BY FS_Singleton, FS_AddElement, FS_Subset, {a, b} = {a} \cup {b}
<1>4. Cardinality(S) = 1 <=> S = {Max(S)}
  BY <1>2, <1>3, FS_Singleton
<1> QED
  BY <1>2, <1>4

-----------------------------------------------------------------------------
(* Consequences of the invariant                                           *)

\* A thread holds a reference only to an object that lives.
LEMMA HolderLives ==
  ASSUME IInv, NEW t \in Threads, held[t] # Nil
  PROVE  held[t] \in Objs /\ count[held[t]] > 0 /\ ~freed[held[t]]
<1> DEFINE o == held[t]
<1>1. o \in Objs
  BY DEF IInv, Types, LocalTypes, Pointers
<1>2. Holders(o) \in SUBSET Threads /\ t \in Holders(o) /\ {} \subseteq Holders(o) \ {t}
  BY DEF Holders
<1>3. Cardinality({}) + 1 <= Cardinality(Holders(o)) /\ Cardinality(Holders(o)) \in Nat
  BY <1>2, SizeStep, WeakAssumption
<1>4. count[o] >= Cardinality(Holders(o)) /\ count[o] \in Nat
  BY <1>1 DEF IInv, Lives, Types, LocalTypes
<1>5. count[o] > 0
  BY <1>3, <1>4, FS_EmptySet
<1> QED
  BY <1>1, <1>5 DEF IInv, Lives

\* Two threads that both replace the content of a variable are both in objc_storeWeak,
\* and have the table of its object locked: there is one of them.
LEMMA ReplacesAlone ==
  ASSUME IInv, NEW t \in Threads, NEW u \in Threads, t # u,
         pc[t] \in {"unregister"} \cup WorkLabels, pc[u] \in WorkLabels
  PROVE  Location(t) # dst[u]
<1> SUFFICES ASSUME Location(t) = dst[u]
             PROVE  FALSE
  OBVIOUS
<1>1. /\ op[t] \in {"store", "init", "copy", "move", "destroy", "moveOut"}
      /\ op[u] \in {"store", "init", "copy", "move"}
  BY DEF IInv, Thread, Control, HaveOld, HaveNew, WorkLabels
<1>2. op[t] = "store"
  BY <1>1 DEF IInv, Exclusive, Own, Location
<1>3. op[u] = "store"
  BY <1>1, <1>2 DEF IInv, Exclusive, Own, Location
<1>4. /\ value[dst[t]] = old[t] /\ lock[Stripe[old[t]]] = t
      /\ value[dst[u]] = old[u] /\ lock[Stripe[old[u]]] = u
  BY <1>2, <1>3 DEF IInv, Thread, Owns, LockedLabels, WorkLabels, HaveOld, Location
<1> QED
  BY <1>2, <1>4 DEF Location

\* Nobody works on a variable that is another thread's own.
LEMMA NobodyElseWorks ==
  ASSUME IInv, NEW t \in Threads, NEW u \in Threads, t # u, NEW l \in Own(t)
  PROVE  l \notin {dst[u], src[u]} /\ ~Working(u, l)
BY DEF IInv, Exclusive, Working

\* What the threads that do not take a step find unchanged.
SameLocals(u) ==
  /\ pc'[u] = pc[u] /\ op'[u] = op[u] /\ dst'[u] = dst[u] /\ src'[u] = src[u]
  /\ old'[u] = old[u] /\ new'[u] = new[u] /\ initTried'[u] = initTried[u]
  /\ held'[u] = held[u] /\ dying'[u] = dying[u]

Same(u) == SameLocals(u) /\ \A s \in Stripes : lock'[s] = u <=> lock[s] = u

\* A step changes a variable only where another thread is not looking: the variable is
\* not one of its own, or the other has not locked the table of what it held.
Harmless(u) ==
  /\ \A l \in Locs : l \in {dst[u], src[u]} => scope'[l] = scope[l]
  /\ \A l \in Locs : l \in {dst[u], src[u]} /\ lock[Stripe[value[l]]] = u
                       => value'[l] = value[l]
  /\ \A l \in Locs : scope'[l] => \/ scope[l] /\ value'[l] = value[l]
                                  \/ value'[l] = Nil
                                  \/ value'[l] \in Objs /\ count[value'[l]] > 0
  /\ \A o \in Objs : flagged[o] => flagged'[o]

\* Such a step leaves the other threads' part of the invariant.
LEMMA OthersKeep ==
  ASSUME IInv, NEW u \in Threads, Same(u), Harmless(u)
  PROVE  Thread(u)'
<1>1. Thread(u) /\ Types
  BY DEF IInv
<1>2. /\ old[u] \in Pointers /\ new[u] \in Pointers /\ dying[u] \in Pointers
      /\ Stripe[old[u]] \in Stripes /\ Stripe[new[u]] \in Stripes
      /\ Stripe[dying[u]] \in Stripes
  BY <1>1 DEF Types, LocalTypes, Stripes
<1>3. Control(u)'
  BY <1>1 DEF Thread, Control, Same, SameLocals, HaveOld, HaveNew
<1>4. Scopes(u)'
  <2>1. /\ op[u] \notin {"none", "release", "load"} => dst[u] \in Locs
        /\ op[u] \in {"load", "copy", "move", "moveOut"} => src[u] \in Locs
    BY <1>1 DEF Thread, Control
  <2> QED
    BY <1>1, <2>1 DEF Thread, Scopes, Same, SameLocals, Harmless
<1>5. Owns(u)'
  <2>1. /\ (HaveOld(u) <=> HaveOld(u)') /\ (HaveNew(u) <=> HaveNew(u)')
        /\ Location(u)' = Location(u) /\ Location(u) \in {dst[u], src[u]}
    BY DEF HaveOld, HaveNew, Location, Same, SameLocals
  <2>2. pc[u] \in {"unregister"} \cup WorkLabels /\ HaveOld(u)
          => /\ value[Location(u)] = old[u] /\ Location(u) \in Locs
             /\ lock[Stripe[old[u]]] = u
    BY <1>1 DEF Thread, Owns, Control, HaveOld, Location, LockedLabels, WorkLabels
  <2>3. pc[u] = "loadTry"
          => value[src[u]] = new[u] /\ src[u] \in Locs /\ lock[Stripe[new[u]]] = u
    BY <1>1 DEF Thread, Owns, Control, LoadLabels
  <2>4. pc[u] = "free" => \A l \in Locs : scope'[l] => value'[l] # dying[u]
    <3>1. ASSUME pc[u] = "free"
          PROVE  dying[u] \in Objs /\ count[dying[u]] = 0
      <4>1. dying[u] \in Objs
        BY <1>1, <1>2, <3>1 DEF Thread, Control, DeallocLabels, Pointers
      <4> QED
        BY <4>1 DEF IInv, Lives
    <3> QED
      BY <1>1, <3>1, WeakAssumption DEF Thread, Owns, Harmless
  <2>5. pc[u] \in {"unregister"} \cup WorkLabels /\ HaveOld(u)
          => value'[Location(u)] = old[u]
    BY <2>1, <2>2 DEF Harmless
  <2>6. pc[u] = "loadTry" => value'[src[u]] = new[u]
    BY <2>3 DEF Harmless
  <2> QED
    BY <1>1, <1>2, <2>1, <2>4, <2>5, <2>6 DEF Thread, Owns, Same, SameLocals
<1>6. Refers(u)'
  <2>1. (HaveOld(u) <=> HaveOld(u)') /\ (HaveNew(u) <=> HaveNew(u)')
    BY DEF HaveOld, HaveNew, Same, SameLocals
  <2>2. new[u] # Nil => new[u] \in Objs
    BY <1>2 DEF Pointers
  <2> QED
    BY <1>1, <2>1, <2>2 DEF Thread, Refers, Same, SameLocals, Harmless
<1> QED
  BY <1>3, <1>4, <1>5, <1>6 DEF Thread

\* No other thread takes part in the step.
OnlyStep(t) == \A u \in Threads : u # t => Same(u)

\* A step that gives its thread no variable, and none of its own that it had not.
LEMMA ExclusiveKept ==
  ASSUME IInv, NEW t \in Threads, OnlyStep(t),
         dst'[t] \in {dst[t], NoLoc}, src'[t] \in {src[t], NoLoc},
         Own(t)' \subseteq Own(t)
  PROVE  Exclusive'
<1>1. \A u \in Threads : Own(u) \subseteq Locs
  BY DEF IInv, Thread, Control, Own
<1>2. \A u \in Threads : u # t => Own(u)' = Own(u) /\ dst'[u] = dst[u] /\ src'[u] = src[u]
  BY DEF OnlyStep, Same, SameLocals, Own
<1>3. ASSUME NEW u \in Threads, NEW v \in Threads, u # v
      PROVE  Own(u)' \cap {dst'[v], src'[v]} = {}
  <2>1. Own(u) \cap {dst[v], src[v]} = {} /\ NoLoc \notin Own(u)
    BY <1>1, <1>3, WeakAssumption DEF IInv, Exclusive
  <2>2. Own(u)' \subseteq Own(u)
    BY <1>2
  <2>3. dst'[v] \in {dst[v], NoLoc} /\ src'[v] \in {src[v], NoLoc}
    BY <1>2
  <2> QED
    BY <2>1, <2>2, <2>3
<1> QED
  BY <1>3 DEF Exclusive

\* The registrations of a step that is not in the middle of a store.
LEMMA RegistrationKept ==
  ASSUME IInv, NEW t \in Threads, OnlyStep(t), UNCHANGED <<value, scope, registered>>,
         pc[t] \notin WorkLabels, pc'[t] \notin WorkLabels
  PROVE  Registration'
<1>1. \A u \in Threads, l \in Locs : /\ Working(u, l)' <=> Working(u, l)
                                     /\ Working(u, l) => new'[u] = new[u] /\ pc'[u] = pc[u]
  BY DEF OnlyStep, Same, SameLocals, Working
<1> QED
  BY <1>1 DEF IInv, Registration

\* The references of a step that takes none.
LEMMA HoldersKept ==
  ASSUME IInv, NEW t \in Threads, OnlyStep(t), held'[t] \in {held[t], Nil}, NEW o \in Objs
  PROVE  /\ Cardinality(Holders(o)) \in Nat /\ Cardinality(Holders(o)') \in Nat
         /\ Cardinality(Holders(o)') <= Cardinality(Holders(o))
         /\ held[t] = o /\ held'[t] = Nil
              => Cardinality(Holders(o)') + 1 <= Cardinality(Holders(o))
<1>1. Holders(o) \in SUBSET Threads /\ Holders(o)' \in SUBSET Threads
  BY DEF Holders
<1>2. Holders(o)' \subseteq Holders(o)
  BY WeakAssumption DEF Holders, OnlyStep, Same, SameLocals
<1>3. held[t] = o /\ held'[t] = Nil => t \in Holders(o) /\ Holders(o)' \subseteq Holders(o) \ {t}
  BY <1>2, WeakAssumption DEF Holders
<1> QED
  BY <1>1, <1>2, <1>3, SizeStep, WeakAssumption

\* The objects of a step that changes no count.
LEMMA LivesKept ==
  ASSUME IInv, NEW t \in Threads, OnlyStep(t), UNCHANGED <<count, freed>>,
         held'[t] \in {held[t], Nil}, dying'[t] = dying[t]
  PROVE  Lives'
<1>1. \A u \in Threads : dying'[u] = dying[u]
  BY DEF OnlyStep, Same, SameLocals
<1>2. ASSUME NEW o \in Objs
      PROVE  count'[o] >= Cardinality(Holders(o)')
  BY HoldersKept DEF IInv, Types, Lives
<1> QED
  BY <1>1, <1>2 DEF IInv, Lives

\* The order in which the others take their locks.
LEMMA OrderedKept ==
  ASSUME IInv, NEW t \in Threads, OnlyStep(t), pc'[t] # "lock"
  PROVE  Ordered'
<1> SUFFICES ASSUME NEW u \in Threads, pc'[u] = "lock"
             PROVE  /\ Missing(u)' # {}
                    /\ \A s \in Stripes : lock'[s] = u =>
                         s \in Tables(u)' /\ \A m \in Missing(u)' : m < s
  BY DEF Ordered
<1>1. Same(u) /\ pc[u] = "lock"
  BY DEF OnlyStep, Same, SameLocals
<1>2. Tables(u)' = Tables(u) /\ Tables(u) \subseteq Stripes
  BY <1>1 DEF Same, SameLocals, Tables, HaveOld, HaveNew, IInv, Types, LocalTypes, Stripes
<1>3. Missing(u)' = Missing(u)
  BY <1>1, <1>2 DEF Same, SameLocals, Missing
<1> QED
  BY <1>1, <1>2, <1>3 DEF IInv, Ordered, Same, SameLocals

\* A step that changes neither variables nor objects, outside the middle of a store.
LEMMA QuietStep ==
  ASSUME IInv, NEW t \in Threads, OnlyStep(t),
         UNCHANGED <<value, scope, registered, flagged, count, freed>>,
         pc[t] \notin WorkLabels, pc'[t] \notin WorkLabels,
         dst'[t] \in {dst[t], NoLoc}, src'[t] \in {src[t], NoLoc}, Own(t)' \subseteq Own(t),
         held'[t] \in {held[t], Nil}, dying'[t] = dying[t],
         Types', Thread(t)', Ordered'
  PROVE  IInv'
<1>1. \A u \in Threads : Thread(u)'
  <2>1. \A u \in Threads : Harmless(u)
    BY DEF Harmless
  <2> QED
    BY <2>1, OthersKeep DEF OnlyStep
<1>2. Exclusive'
  BY ExclusiveKept
<1>3. Registration'
  BY RegistrationKept
<1>4. Lives'
  BY LivesKept
<1>5. Pointing'
  BY DEF IInv, Pointing
<1> QED
  BY <1>1, <1>2, <1>3, <1>4, <1>5 DEF IInv

-----------------------------------------------------------------------------
(* Calls                                                                   *)

\* What the caller of an operation makes sure of.
Allowed(t, o, d, s, obj, label) ==
  /\ o \in {"store", "init", "destroy", "load", "copy", "move"}
  /\ CanCall(t) /\ (o \in {"init", "copy", "move"} => pc[t] = "idle")
  /\ IF o = "load" THEN d = NoLoc
     ELSE d \in Locs /\ IF o = "store" THEN Shareable(d) ELSE Unused(d)
  /\ o \in {"init", "copy", "move"} => ~scope[d]
  /\ o = "destroy" => scope[d]
  /\ IF o \in {"load", "copy", "move"}
     THEN s \in Locs /\ s # d /\ scope[s] /\ IF o = "move" THEN Unused(s) ELSE Shareable(s)
     ELSE s = NoLoc
  /\ label = IF o \in {"load", "copy", "move"} THEN "loadRead" ELSE "read"
  /\ IF o \in {"store", "init"} THEN CanStore(t, obj) ELSE obj = Nil

\* A call, from outside or from inside -dealloc: the caller has the variable to itself
\* or shares it as the comments of NSObject.mm allow, and keeps what it stores.
LEMMA CallStep ==
  ASSUME IInv, NEW t \in Threads, NEW o, NEW d, NEW s, NEW obj \in Pointers, NEW label,
         Allowed(t, o, d, s, obj, label), Call(t, o, d, s, obj, label)
  PROVE  IInv'
<1> USE DEF Allowed
<1>1. Types /\ Thread(t)
  BY DEF IInv
<1>e. /\ UNCHANGED <<memory, lock, old, dying>> /\ OnlyStep(t)
      /\ pc'[t] = label /\ op'[t] = o /\ dst'[t] = d /\ src'[t] = s /\ new'[t] = obj
      /\ held'[t] = IF obj = dying[t] THEN Nil ELSE obj
  BY <1>1 DEF Call, Goto, Types, LocalTypes, OnlyStep, Same, SameLocals
<1>2. /\ dst[t] = NoLoc /\ src[t] = NoLoc /\ held[t] = Nil /\ op[t] \in {"none", "release"}
      /\ pc[t] \in {"idle", "dealloc"}
      /\ pc[t] = "idle" => dying[t] = Nil
  BY <1>1 DEF CanCall, Thread, Control, DeallocLabels
<1>3. Types'
  <2>1. d \in Locs \cup {NoLoc} /\ s \in Locs \cup {NoLoc} /\ label \in Labels /\ o \in Ops
    BY DEF Labels, StoreLabels, LoadLabels, Ops
  <2> QED
    BY <1>1, <1>e, <2>1 DEF Call, Goto, Types, LocalTypes, memory, Pointers
<1>4. Thread(t)'
  <2>1. Control(t)'
    BY <1>1, <1>e, <1>2 DEF Control, HaveOld, HaveNew, StoreLabels, WorkLabels, LoadLabels,
         DeallocLabels, CanCall
  <2>2. Scopes(t)'
    BY <1>e, <1>2 DEF Scopes, memory, DeallocLabels, Shareable
  <2>3. Owns(t)'
    BY <1>1, <1>e, <1>2 DEF Thread, Owns, LockedLabels, WorkLabels
  <2>4. Refers(t)'
    BY <1>e, <1>2 DEF Refers, HaveNew, StoreLabels
  <2> QED
    BY <2>1, <2>2, <2>3, <2>4 DEF Thread
<1>5. \A u \in Threads : Thread(u)'
  <2>1. \A u \in Threads : Harmless(u)
    BY <1>e DEF Harmless, memory
  <2> QED
    BY <1>4, <1>e, <2>1, OthersKeep DEF OnlyStep
<1>6. Exclusive'
  <2>1. \A u \in Threads : u # t => Own(u)' = Own(u) /\ dst'[u] = dst[u] /\ src'[u] = src[u]
    BY <1>e DEF OnlyStep, Same, SameLocals, Own
  <2>2. \A u \in Threads : Own(u) \subseteq Locs \cap {dst[u], src[u]}
    BY DEF IInv, Thread, Control, Own
  <2>3. ASSUME NEW u \in Threads, u # t
        PROVE  Own(u) \cap {d, s} = {} /\ Own(t)' \cap {dst[u], src[u]} = {}
    <3>1. d \notin Own(u)
      BY <2>2, WeakAssumption DEF Unused, Shareable, Own
    <3>2. s \notin Own(u)
      BY <2>2, WeakAssumption DEF Unused, Shareable, Own
    <3>3. Own(t)' \cap {dst[u], src[u]} = {}
      BY <1>e DEF Own, Unused
    <3> QED
      BY <3>1, <3>2, <3>3
  <2> QED
    BY <1>e, <2>1, <2>3 DEF IInv, Exclusive
<1>7. Registration'
  BY <1>e, <1>2, RegistrationKept DEF memory, WorkLabels
<1>8. Lives'
  <2>1. \A u \in Threads : dying'[u] = dying[u]
    BY <1>e
  <2>2. ASSUME NEW q \in Objs
        PROVE  count'[q] >= Cardinality(Holders(q)')
    <3>1. Holders(q) \in SUBSET Threads /\ Holders(q)' \in SUBSET Threads
      BY DEF Holders
    <3>2. /\ Cardinality(Holders(q)) \in Nat /\ Cardinality(Holders(q)') \in Nat
          /\ Holders(q)' \subseteq Holders(q)
               => Cardinality(Holders(q)') <= Cardinality(Holders(q))
          /\ Holders(q)' \subseteq Holders(q) \cup {t}
               => Cardinality(Holders(q)') <= Cardinality(Holders(q)) + 1
      BY <3>1, SizeStep, WeakAssumption
    <3>3. count'[q] = count[q] /\ count[q] \in Nat /\ count[q] >= Cardinality(Holders(q))
      BY <1>1, <1>e DEF memory, IInv, Lives, Types, LocalTypes
    <3>4. CASE q = obj /\ q # dying[t]
      <4>1. Holders(q)' \subseteq Holders(q) \cup {t}
        BY <1>e DEF Holders, OnlyStep, Same, SameLocals
      <4>2. count[q] > Cardinality(Holders(q))
        BY <3>4, WeakAssumption DEF CanStore, HasSpareRef, Holders
      <4> QED
        BY <3>2, <3>3, <4>1, <4>2
    <3>5. CASE ~(q = obj /\ q # dying[t])
      <4>1. Holders(q)' \subseteq Holders(q)
        BY <1>e, <3>5, WeakAssumption DEF Holders, OnlyStep, Same, SameLocals
      <4> QED
        BY <3>2, <3>3, <4>1
    <3> QED
      BY <3>4, <3>5
  <2> QED
    BY <1>e, <2>1, <2>2 DEF memory, IInv, Lives
<1>9. Pointing'
  BY <1>e DEF memory, IInv, Pointing
<1>10. Ordered'
  BY <1>e, OrderedKept
<1> QED
  BY <1>3, <1>5, <1>6, <1>7, <1>8, <1>9, <1>10 DEF IInv

-----------------------------------------------------------------------------
(* The steps of a store                                                    *)

\* What a step owes when it gives its thread no variable.
LEMMA Together ==
  ASSUME IInv, NEW t \in Threads, OnlyStep(t), \A u \in Threads : u # t => Harmless(u),
         dst'[t] \in {dst[t], NoLoc}, src'[t] \in {src[t], NoLoc}, Own(t)' \subseteq Own(t),
         Types', Thread(t)', Registration', Lives', Pointing', Ordered'
  PROVE  IInv'
<1>1. \A u \in Threads : Thread(u)'
  BY OthersKeep DEF OnlyStep
<1>2. Exclusive'
  BY ExclusiveKept
<1> QED
  BY <1>1, <1>2 DEF IInv

\* Both unlocks of unlockTwo, or the one there is.
LEMMA Unlocked ==
  ASSUME IInv, NEW t \in Threads, Unlock(t)
  PROVE  /\ lock' \in [Stripes -> Threads \cup {NoThread}]
         /\ \A s \in Stripes : lock'[s] # t
         /\ \A u \in Threads : u # t => \A s \in Stripes : lock'[s] = u <=> lock[s] = u
BY WeakAssumption DEF IInv, Types, LocalTypes, Unlock

\* The locals of a call that returns.
LEMMA Returns ==
  ASSUME IInv, NEW t \in Threads, Return(t), \A s \in Stripes : lock'[s] # t
  PROVE  /\ pc'[t] \in {"idle", "dealloc"} /\ dst'[t] = NoLoc /\ src'[t] = NoLoc
         /\ held'[t] = Nil /\ dying' = dying /\ Own(t)' = {} /\ Thread(t)' /\ LocalTypes'
         /\ \A u \in Threads : u # t => SameLocals(u)
<1>1. Types /\ Thread(t)
  BY DEF IInv
<1>e. /\ IF dying[t] = Nil THEN pc'[t] = "idle" /\ op'[t] = "none"
                           ELSE pc'[t] = "dealloc" /\ op'[t] = "release"
      /\ dst'[t] = NoLoc /\ src'[t] = NoLoc /\ old'[t] = Nil /\ new'[t] = Nil
      /\ held'[t] = Nil /\ dying' = dying
  BY <1>1 DEF Return, Returned, Goto, Types, LocalTypes
<1>2. LocalTypes'
  BY <1>1 DEF Return, Returned, Goto, Types, LocalTypes, Labels, DeallocLabels, Ops, Pointers
<1>3. \A u \in Threads : u # t => SameLocals(u)
  BY <1>1 DEF Return, Returned, Goto, Types, LocalTypes, SameLocals
<1>4. Thread(t)'
  <2>1. Control(t)'
    BY <1>e DEF Control, HaveOld, HaveNew, StoreLabels, WorkLabels, LoadLabels, DeallocLabels
  <2>2. Scopes(t)'
    BY <1>e DEF Scopes
  <2>3. Owns(t)'
    BY <1>e DEF Owns, LockedLabels, WorkLabels
  <2>4. Refers(t)'
    BY <1>e DEF Refers, StoreLabels
  <2> QED
    BY <2>1, <2>2, <2>3, <2>4 DEF Thread
<1>5. Own(t)' = {}
  BY <1>e DEF Own
<1> QED
  BY <1>e, <1>2, <1>3, <1>4, <1>5

\* The old object is read before any lock is taken.
LEMMA ReadStep ==
  ASSUME IInv, NEW t \in Threads, Read(t)
  PROVE  IInv'
<1>1. Types /\ Thread(t)
  BY DEF IInv
<1>e. /\ pc[t] = "read" /\ pc'[t] = "lock" /\ UNCHANGED <<memory, lock>> /\ OnlyStep(t)
      /\ UNCHANGED <<op, dst, src, new, initTried, held, dying>>
      /\ old'[t] = IF HaveOld(t) THEN value[Location(t)] ELSE Nil
  BY <1>1 DEF Read, Goto, Types, LocalTypes, OnlyStep, Same, SameLocals
<1>2. (HaveOld(t)' <=> HaveOld(t)) /\ (HaveNew(t)' <=> HaveNew(t)) /\ (HaveOld(t) \/ HaveNew(t))
  BY <1>1, <1>e DEF HaveOld, HaveNew, Thread, Control, StoreLabels
<1>3. Types'
  <2>1. HaveOld(t) => Location(t) \in Locs
    BY <1>1 DEF Thread, Control, Location, HaveOld
  <2> QED
    BY <1>1, <1>e, <2>1 DEF Read, Goto, Types, LocalTypes, memory, Labels, StoreLabels, Pointers
<1>4. Thread(t)'
  <2>1. Control(t)'
    BY <1>1, <1>e, <1>2 DEF Thread, Control, StoreLabels, WorkLabels, LoadLabels, DeallocLabels
  <2>2. Scopes(t)'
    BY <1>1, <1>e DEF Thread, Scopes, memory, DeallocLabels
  <2>3. Owns(t)'
    BY <1>1, <1>e DEF Thread, Owns, LockedLabels, WorkLabels
  <2>4. Refers(t)'
    BY <1>1, <1>e, <1>2 DEF Thread, Refers, StoreLabels
  <2> QED
    BY <2>1, <2>2, <2>3, <2>4 DEF Thread
<1>5. Ordered'
  <2>1. \A s \in Stripes : lock'[s] # t
    BY <1>1, <1>e DEF Thread, Owns, LockedLabels
  <2>2. /\ HaveOld(t) => Stripe[old'[t]] \in Missing(t)'
        /\ HaveNew(t) => Stripe[new'[t]] \in Missing(t)'
    BY <2>1, <1>3, <1>2 DEF Missing, Tables, Stripes, Types, LocalTypes
  <2>3. \A u \in Threads : u # t => pc'[u] = pc[u] /\ Missing(u)' = Missing(u)
                                    /\ Tables(u)' = Tables(u)
    BY <1>e DEF OnlyStep, Same, SameLocals, Missing, Tables, HaveOld, HaveNew
  <2> QED
    BY <1>e, <1>2, <2>1, <2>2, <2>3 DEF Ordered, IInv
<1> QED
  BY <1>e, <1>3, <1>4, <1>5, QuietStep DEF memory, WorkLabels, Own

\* A thread that is about to take a lock misses one or two, and has the others.
LEMMA AtLock ==
  ASSUME IInv, NEW t \in Threads, pc[t] = "lock"
  PROVE  /\ Missing(t) # {} /\ Missing(t) \subseteq Tables(t) /\ Tables(t) \subseteq Stripes
         /\ Stripes \subseteq Nat
         /\ NextLock(t) \in Missing(t) /\ \A m \in Missing(t) : m <= NextLock(t)
         /\ Cardinality(Missing(t)) = 1 <=> Missing(t) = {NextLock(t)}
<1>1. Missing(t) # {} /\ Missing(t) \subseteq Tables(t)
  BY DEF IInv, Ordered, Missing
<1>2. old[t] \in Pointers /\ new[t] \in Pointers
  BY DEF IInv, Types, LocalTypes
<1>3. Tables(t) \subseteq Stripes /\ Stripes \subseteq Nat
  BY <1>2, WeakAssumption DEF Tables, Stripes
<1> DEFINE S == Missing(t)
           a == Stripe[old[t]]
           b == Stripe[new[t]]
<1>4. a \in Nat /\ b \in Nat
  BY <1>2, WeakAssumption
<1>5. S \in SUBSET {a, b} /\ S # {}
  BY <1>1 DEF Tables
<1> HIDE DEF S, a, b
<1>6. /\ Max(S) \in S /\ \A m \in S : m <= Max(S)
      /\ Cardinality(S) = 1 <=> S = {Max(S)}
  BY <1>4, <1>5, HigherFirst
<1> USE DEF S
<1> QED
  BY <1>1, <1>3, <1>6 DEF NextLock

\* One of the locks of lockTwo is taken.
LEMMA LockTablesStep ==
  ASSUME IInv, NEW t \in Threads, LockTables(t)
  PROVE  IInv'
<1> DEFINE n == NextLock(t)
<1>1. Types /\ Thread(t)
  BY DEF IInv
<1>2. /\ Missing(t) # {} /\ Missing(t) \subseteq Tables(t) /\ Tables(t) \subseteq Stripes
      /\ Stripes \subseteq Nat
      /\ n \in Missing(t) /\ \A m \in Missing(t) : m <= n
      /\ Cardinality(Missing(t)) = 1 <=> Missing(t) = {n}
  BY AtLock DEF LockTables
<1>e. /\ pc[t] = "lock" /\ UNCHANGED <<memory, locals>> /\ lock[n] = NoThread
      /\ \A s \in Stripes : lock'[s] = IF s = n THEN t ELSE lock[s]
      /\ pc'[t] = IF Missing(t) = {n} THEN "check" ELSE "lock"
      /\ lock' \in [Stripes -> Threads \cup {NoThread}] /\ pc' \in [Threads -> Labels]
      /\ \A u \in Threads : u # t => pc'[u] = pc[u]
  BY <1>1, <1>2 DEF LockTables, Goto, Types, LocalTypes, Labels, StoreLabels
<1> HIDE DEF n
<1>3. OnlyStep(t)
  BY <1>e, WeakAssumption DEF OnlyStep, Same, SameLocals, locals
<1>4. Types'
  BY <1>1, <1>e DEF Types, LocalTypes, memory, locals
<1>5. (HaveOld(t)' <=> HaveOld(t)) /\ (HaveNew(t)' <=> HaveNew(t)) /\ Tables(t)' = Tables(t)
  BY <1>e DEF HaveOld, HaveNew, Tables, locals
<1>6. Missing(t)' = Missing(t) \ {n}
  BY <1>1, <1>2, <1>5, <1>e, WeakAssumption DEF Missing
<1>7. Thread(t)'
  <2>1. Control(t)'
    BY <1>1, <1>5, <1>e DEF Thread, Control, StoreLabels, WorkLabels, LoadLabels,
         DeallocLabels, locals
  <2>2. Scopes(t)'
    BY <1>1, <1>e DEF Thread, Scopes, memory, locals, DeallocLabels
  <2>3. Owns(t)'
    <3>1. ASSUME pc'[t] = "check"
          PROVE  /\ HaveOld(t) => lock'[Stripe[old[t]]] = t
                 /\ HaveNew(t) => lock'[Stripe[new[t]]] = t
      <4>1. Missing(t)' = {}
        BY <1>6, <1>e, <3>1
      <4> QED
        BY <1>5, <4>1 DEF Missing, Tables
    <3> QED
      BY <1>5, <1>e, <3>1 DEF Owns, LockedLabels, WorkLabels, locals
  <2>4. Refers(t)'
    BY <1>1, <1>5, <1>e DEF Thread, Refers, StoreLabels, locals
  <2> QED
    BY <2>1, <2>2, <2>3, <2>4 DEF Thread
<1>8. Ordered'
  <2>1. \A u \in Threads : u # t => Tables(u)' = Tables(u) /\ Tables(u) \subseteq Stripes
    BY <1>1, <1>e DEF Tables, HaveOld, HaveNew, locals, Types, LocalTypes, Stripes
  <2>2. \A u \in Threads : u # t => Missing(u)' = Missing(u)
    BY <1>3, <2>1 DEF Missing, OnlyStep, Same, SameLocals
  <2>3. ASSUME pc'[t] = "lock"
        PROVE  /\ Missing(t)' # {}
               /\ \A s \in Stripes : lock'[s] = t =>
                    s \in Tables(t)' /\ \A m \in Missing(t)' : m < s
    <3>1. Missing(t)' # {}
      BY <1>2, <1>6, <1>e, <2>3
    <3>2. ASSUME NEW m \in Missing(t)'
          PROVE  m < n
      <4>1. m \in Missing(t) /\ m # n
        BY <1>6
      <4>2. m <= n /\ m \in Nat /\ n \in Nat
        BY <1>2, <4>1
      <4> QED
        BY <4>1, <4>2
    <3>3. \A s \in Stripes : lock[s] = t => s \in Tables(t) /\ \A m \in Missing(t) : m < s
      BY <1>e DEF IInv, Ordered
    <3> QED
      BY <1>2, <1>5, <1>6, <1>e, <3>1, <3>2, <3>3
  <2> QED
    BY <1>3, <2>1, <2>2, <2>3 DEF OnlyStep, Same, SameLocals, IInv, Ordered
<1> QED
  BY <1>3, <1>4, <1>7, <1>8, <1>e, QuietStep DEF memory, locals, WorkLabels, Own

\* Under the locks, the old object is compared with the variable, and the new object's
\* class looked at.
LEMMA CheckStep ==
  ASSUME IInv, NEW t \in Threads, Check(t)
  PROVE  IInv'
<1>1. Types /\ Thread(t)
  BY DEF IInv
<1>e. /\ pc[t] = "check" /\ UNCHANGED <<memory, locals>>
      /\ \/ Unlock(t) /\ pc'[t] = "read"
         \/ Unlock(t) /\ pc'[t] = "initialize" /\ HaveNew(t)
         \/ /\ UNCHANGED lock
            /\ ~Moved(t)
            /\ pc'[t] = IF HaveOld(t) THEN "unregister" ELSE "register"
      /\ pc' \in [Threads -> Labels]
      /\ \A u \in Threads : u # t => pc'[u] = pc[u]
  BY <1>1 DEF Check, NeedsInitialize, Goto, Types, LocalTypes, Labels, StoreLabels
<1>2. /\ lock' \in [Stripes -> Threads \cup {NoThread}]
      /\ \A u \in Threads : u # t => \A s \in Stripes : lock'[s] = u <=> lock[s] = u
      /\ pc'[t] \in {"read", "initialize"} => \A s \in Stripes : lock'[s] # t
  BY <1>1, <1>e, Unlocked DEF Types, LocalTypes
<1>3. OnlyStep(t)
  BY <1>e, <1>2 DEF OnlyStep, Same, SameLocals, locals
<1>4. Types'
  BY <1>1, <1>e, <1>2 DEF Types, LocalTypes, memory, locals
<1>5. /\ HaveOld(t)' <=> HaveOld(t)
      /\ HaveNew(t)' <=> HaveNew(t)
      /\ HaveOld(t) \/ HaveNew(t)
      /\ Location(t)' = Location(t)
  BY <1>1, <1>e DEF HaveOld, HaveNew, Location, locals, Thread, Control, StoreLabels
<1>6. Thread(t)'
  <2>1. Control(t)'
    BY <1>1, <1>5, <1>e DEF Thread, Control, StoreLabels, WorkLabels, LoadLabels,
         DeallocLabels, locals
  <2>2. Scopes(t)'
    BY <1>1, <1>e DEF Thread, Scopes, memory, locals, DeallocLabels
  <2>3. Owns(t)'
    BY <1>1, <1>2, <1>5, <1>e DEF Thread, Owns, LockedLabels, WorkLabels, locals, memory, Moved
  <2>4. Refers(t)'
    BY <1>1, <1>5, <1>e DEF Thread, Refers, StoreLabels, locals
  <2> QED
    BY <2>1, <2>2, <2>3, <2>4 DEF Thread
<1>7. Ordered'
  BY <1>3, <1>e, OrderedKept
<1>8. CASE pc'[t] # "register"
  BY <1>3, <1>4, <1>6, <1>7, <1>8, <1>e, QuietStep DEF memory, locals, WorkLabels, Own
<1>9. CASE pc'[t] = "register"
  <2>1. op[t] \in {"init", "copy", "move"} /\ dst[t] \in Own(t)
    BY <1>1, <1>5, <1>9, <1>e DEF HaveOld, HaveNew, Own
  <2>2. ~scope[dst[t]]
    BY <1>1, <1>e, <2>1 DEF Thread, Scopes, DeallocLabels
  <2>3. \A u \in Threads : ~Working(u, dst[t])
    BY <1>e, <2>1, NobodyElseWorks DEF Working, WorkLabels
  <2>4. dst[t] \in Locs
    BY <1>1, <2>1 DEF Thread, Control
  <2>5. \A o \in Objs : dst[t] \notin registered[o]
    BY <2>2, <2>3, <2>4 DEF IInv, Registration
  <2>6. /\ \A u \in Threads : u # t => \A l \in Locs : Working(u, l)' <=> Working(u, l)
        /\ \A l \in Locs : ~Working(t, l) /\ (Working(t, l)' <=> l = dst[t])
    BY <1>3, <1>9, <1>e DEF Working, WorkLabels, OnlyStep, Same, SameLocals, locals
  <2>7. Registration'
    <3> SUFFICES ASSUME NEW l \in Locs, NEW o \in Objs
                 PROVE  /\ \A u \in Threads : Working(u, l)' =>
                             (l \in registered[o] <=> pc'[u] # "register" /\ new[u] = o)
                        /\ (\A u \in Threads : ~Working(u, l)') =>
                             (l \in registered[o] <=> scope[l] /\ value[l] = o)
      BY <1>e DEF Registration, memory, locals
    <3>1. CASE l = dst[t]
      BY <1>9, <2>3, <2>5, <2>6, <3>1
    <3>2. CASE l # dst[t]
      BY <1>3, <2>6, <3>2 DEF IInv, Registration, OnlyStep, Same, SameLocals
    <3> QED
      BY <3>1, <3>2
  <2>8. Lives' /\ Pointing'
    BY <1>3, <1>e, LivesKept DEF memory, locals, IInv, Pointing
  <2>9. \A u \in Threads : Harmless(u)
    BY <1>e DEF Harmless, memory
  <2> QED
    BY <1>3, <1>4, <1>6, <1>7, <1>e, <2>7, <2>8, <2>9, Together DEF locals, Own
<1> QED
  BY <1>8, <1>9

\* +initialize runs without the locks.
LEMMA InitializeStep ==
  ASSUME IInv, NEW t \in Threads, Initialize(t)
  PROVE  IInv'
<1>1. Types /\ Thread(t)
  BY DEF IInv
<1>e. /\ pc[t] = "initialize" /\ pc'[t] = "read" /\ pc' \in [Threads -> Labels]
      /\ UNCHANGED <<value, scope, registered, flagged, count, freed, lock, op, dst, src,
                     old, new, held, dying>>
      /\ initialized' \in BOOLEAN /\ initTried' \in [Threads -> BOOLEAN]
      /\ \A u \in Threads : u # t => pc'[u] = pc[u] /\ initTried'[u] = initTried[u]
  BY <1>1 DEF Initialize, Goto, Types, LocalTypes, Labels, StoreLabels
<1>2. OnlyStep(t)
  BY <1>e DEF OnlyStep, Same, SameLocals
<1>3. Types'
  BY <1>1, <1>e DEF Types, LocalTypes
<1>4. Thread(t)'
  <2>1. (HaveOld(t)' <=> HaveOld(t)) /\ (HaveNew(t)' <=> HaveNew(t))
    BY <1>e DEF HaveOld, HaveNew
  <2>2. Control(t)'
    BY <1>1, <1>e, <2>1 DEF Thread, Control, StoreLabels, WorkLabels, LoadLabels, DeallocLabels
  <2>3. Scopes(t)'
    BY <1>1, <1>e DEF Thread, Scopes, DeallocLabels
  <2>4. Owns(t)'
    BY <1>1, <1>e DEF Thread, Owns, LockedLabels, WorkLabels
  <2>5. Refers(t)'
    BY <1>1, <1>e, <2>1 DEF Thread, Refers, StoreLabels
  <2> QED
    BY <2>2, <2>3, <2>4, <2>5 DEF Thread
<1>5. Ordered'
  BY <1>2, <1>e, OrderedKept
<1> QED
  BY <1>2, <1>3, <1>4, <1>5, <1>e, QuietStep DEF WorkLabels, Own

\* weak_unregister_no_lock; a variable that is destroyed goes out of scope with it.
LEMMA UnregisterStep ==
  ASSUME IInv, NEW t \in Threads, Unregister(t)
  PROVE  IInv'
<1> DEFINE l == Location(t)
<1>1. Types /\ Thread(t)
  BY DEF IInv
<1>2. /\ pc[t] = "unregister" /\ HaveOld(t) /\ op[t] \in {"store", "destroy", "moveOut"}
      /\ l \in Locs /\ value[l] = old[t] /\ old[t] \in Pointers
      /\ HaveNew(t) <=> op[t] = "store"
      /\ l = IF op[t] = "moveOut" THEN src[t] ELSE dst[t]
  BY <1>1 DEF Unregister, Thread, Control, Owns, HaveOld, HaveNew, Location, Types, LocalTypes
<1>e. /\ UNCHANGED <<value, flagged, count, freed, initialized>>
      /\ registered' \in [Objs -> SUBSET Locs]
      /\ \A o \in Objs : registered'[o] =
           IF o = old[t] THEN registered[o] \ {l} ELSE registered[o]
  BY <1>1, <1>2, WeakAssumption DEF Unregister, Remaining, Types, Pointers
<1>3. \A u \in Threads : ~Working(u, l)
  BY <1>2, ReplacesAlone DEF Working, WorkLabels
<1>4. \A o \in Objs : l \notin registered'[o]
  BY <1>2, <1>3, <1>e DEF IInv, Registration
<1>5. CASE op[t] = "store"
  <2>e. /\ UNCHANGED <<lock, scope, op, dst, src, old, new, initTried, held, dying>>
        /\ pc'[t] = "register"
        /\ pc' \in [Threads -> Labels] /\ \A u \in Threads : u # t => pc'[u] = pc[u]
    BY <1>1, <1>2, <1>5 DEF Unregister, Goto, Types, LocalTypes, Labels, StoreLabels
  <2>1. OnlyStep(t)
    BY <2>e DEF OnlyStep, Same, SameLocals
  <2>2. Types'
    BY <1>1, <1>e, <2>e DEF Types, LocalTypes
  <2>3. Thread(t)'
    <3>1. HaveOld(t)' /\ HaveNew(t)' /\ HaveOld(t) /\ HaveNew(t) /\ Location(t)' = Location(t)
      BY <1>5, <2>e DEF HaveOld, HaveNew, Location
    <3>2. Control(t)'
      BY <1>1, <1>2, <1>5, <2>e, <3>1 DEF Thread, Control, StoreLabels, WorkLabels, LoadLabels,
           DeallocLabels
    <3>3. Scopes(t)'
      BY <1>1, <1>5, <2>e DEF Thread, Scopes
    <3>4. Owns(t)'
      BY <1>1, <1>2, <1>e, <2>e, <3>1 DEF Thread, Owns, LockedLabels, WorkLabels
    <3>5. Refers(t)'
      BY <1>1, <1>2, <1>5, <2>e, <3>1 DEF Thread, Refers, StoreLabels
    <3> QED
      BY <3>2, <3>3, <3>4, <3>5 DEF Thread
  <2>4. Registration'
    <3> SUFFICES ASSUME NEW k \in Locs, NEW o \in Objs
                 PROVE  /\ \A u \in Threads : Working(u, k)' =>
                             (k \in registered'[o] <=> pc'[u] # "register" /\ new[u] = o)
                        /\ (\A u \in Threads : ~Working(u, k)') =>
                             (k \in registered'[o] <=> scope[k] /\ value[k] = o)
      BY <1>e, <2>e DEF Registration
    <3>1. /\ \A u \in Threads : u # t => (Working(u, k)' <=> Working(u, k)) /\ pc'[u] = pc[u]
          /\ ~Working(t, k) /\ (Working(t, k)' <=> k = l)
      BY <1>2, <1>5, <2>1, <2>e DEF Working, WorkLabels, OnlyStep, Same, SameLocals
    <3>2. CASE k = l
      BY <1>3, <1>4, <2>e, <3>1, <3>2
    <3>3. CASE k # l
      BY <1>e, <3>1, <3>3 DEF IInv, Registration
    <3> QED
      BY <3>2, <3>3
  <2>5. Lives' /\ Pointing' /\ Ordered'
    BY <1>e, <2>1, <2>e, LivesKept, OrderedKept DEF IInv, Pointing
  <2>6. \A u \in Threads : Harmless(u)
    BY <1>e, <2>e DEF Harmless
  <2> QED
    BY <2>1, <2>2, <2>3, <2>4, <2>5, <2>6, <2>e, Together DEF Own
<1>6. CASE op[t] # "store"
  <2>e. /\ Unlock(t) /\ scope' = [scope EXCEPT ![l] = FALSE]
        /\ \/ op[t] = "moveOut" /\ Goto(t, "moveClear") /\ UNCHANGED locals
           \/ op[t] # "moveOut" /\ Return(t)
    BY <1>2, <1>6 DEF Unregister
  <2>1. /\ lock' \in [Stripes -> Threads \cup {NoThread}] /\ \A s \in Stripes : lock'[s] # t
        /\ \A u \in Threads : u # t => \A s \in Stripes : lock'[s] = u <=> lock[s] = u
    BY <2>e, Unlocked
  <2>2. /\ Types' /\ OnlyStep(t) /\ dying' = dying
        /\ dst'[t] \in {dst[t], NoLoc} /\ src'[t] \in {src[t], NoLoc}
        /\ Own(t)' \subseteq Own(t) /\ held'[t] \in {held[t], Nil}
        /\ pc'[t] \in {"moveClear", "idle", "dealloc"} /\ Thread(t)'
    <3>1. CASE op[t] = "moveOut"
      <4>1. /\ pc' \in [Threads -> Labels] /\ pc'[t] = "moveClear" /\ UNCHANGED locals
            /\ \A u \in Threads : u # t => pc'[u] = pc[u]
        BY <1>1, <2>e, <3>1 DEF Goto, Types, LocalTypes, Labels
      <4>2. Types' /\ OnlyStep(t)
        BY <1>1, <1>e, <2>1, <2>e, <4>1 DEF Types, LocalTypes, OnlyStep, Same, SameLocals, locals
      <4>3. Control(t)'
        BY <1>1, <3>1, <4>1 DEF Thread, Control, StoreLabels, WorkLabels, LoadLabels,
             DeallocLabels, locals
      <4>4. Scopes(t)'
        BY <1>1, <1>2, <2>e, <3>1, <4>1 DEF Scopes, locals, Types, LocalTypes
      <4>5. Owns(t)'
        BY <2>1, <4>1 DEF Owns, LockedLabels, WorkLabels
      <4>6. Refers(t)'
        BY <4>1 DEF Refers, StoreLabels, locals, HaveNew
      <4> QED
        BY <4>1, <4>2, <4>3, <4>4, <4>5, <4>6 DEF Thread, locals, Own
    <3>2. CASE op[t] # "moveOut"
      <4>1. Return(t)
        BY <2>e, <3>2
      <4>2. Types' /\ OnlyStep(t)
        <5>1. LocalTypes' /\ \A u \in Threads : u # t => SameLocals(u)
          BY <2>1, <4>1, Returns
        <5> QED
          BY <1>1, <1>e, <2>1, <2>e, <5>1 DEF Types, OnlyStep, Same
      <4> QED
        BY <2>1, <4>1, <4>2, Returns
    <3> QED
      BY <3>1, <3>2
  <2>3. l \in Own(t) /\ \A k \in Locs : scope'[k] <=> scope[k] /\ k # l
    BY <1>1, <1>2, <1>6, <2>e DEF Own, Types, LocalTypes
  <2>4. Registration'
    <3> SUFFICES ASSUME NEW k \in Locs, NEW o \in Objs
                 PROVE  /\ \A u \in Threads : Working(u, k)' =>
                             (k \in registered'[o] <=> pc'[u] # "register" /\ new'[u] = o)
                        /\ (\A u \in Threads : ~Working(u, k)') =>
                             (k \in registered'[o] <=> scope'[k] /\ value[k] = o)
      BY <1>e DEF Registration
    <3>1. /\ \A u \in Threads : u # t => /\ Working(u, k)' <=> Working(u, k)
                                         /\ pc'[u] = pc[u] /\ new'[u] = new[u]
          /\ ~Working(t, k) /\ ~Working(t, k)'
      BY <1>2, <2>2 DEF Working, WorkLabels, OnlyStep, Same, SameLocals
    <3>2. CASE k = l
      BY <1>3, <1>4, <2>3, <3>1, <3>2
    <3>3. CASE k # l
      BY <1>e, <2>3, <3>1, <3>3 DEF IInv, Registration
    <3> QED
      BY <3>2, <3>3
  <2>5. Lives' /\ Pointing' /\ Ordered'
    BY <1>e, <2>2, <2>3, LivesKept, OrderedKept DEF IInv, Pointing
  <2>6. \A u \in Threads : u # t => Harmless(u)
    BY <1>1, <1>e, <2>2, <2>3, NobodyElseWorks DEF Harmless, Types
  <2> QED
    BY <2>2, <2>4, <2>5, <2>6, Together
<1> QED
  BY <1>5, <1>6

\* weak_register_no_lock, or nil because the object is dying.
LEMMA RegisterStep ==
  ASSUME IInv, NEW t \in Threads, Register(t)
  PROVE  IInv'
<1> DEFINE l == dst[t]
<1>1. Types /\ Thread(t)
  BY DEF IInv
<1>2. /\ pc[t] = "register" /\ HaveNew(t) /\ op[t] \in {"store", "init", "copy", "move"}
      /\ l \in Locs /\ new[t] \in Pointers /\ Location(t) = l
  BY <1>1 DEF Register, Thread, Control, WorkLabels, HaveNew, Types, LocalTypes, Location
<1>e. /\ UNCHANGED <<value, scope, flagged, count, freed, initialized, lock, op, dst, src, old,
                     initTried, held, dying>>
      /\ \/ CannotRegister(t) /\ pc'[t] = "write" /\ new'[t] = Nil /\ registered' = registered
         \/ /\ ~CannotRegister(t) /\ pc'[t] = "flag" /\ new'[t] = new[t]
            /\ \A o \in Objs : registered'[o] =
                 IF o = new[t] THEN registered[o] \cup {l} ELSE registered[o]
      /\ pc' \in [Threads -> Labels] /\ new' \in [Threads -> Pointers]
      /\ registered' \in [Objs -> SUBSET Locs]
      /\ \A u \in Threads : u # t => pc'[u] = pc[u] /\ new'[u] = new[u]
  <2> USE <1>1, <1>2 DEF Register, Goto, Types, LocalTypes, Labels, StoreLabels
  <2>1. CASE CannotRegister(t)
    BY <2>1 DEF Pointers
  <2>2. CASE ~CannotRegister(t)
    <3>1. new[t] \in Objs
      BY <2>2 DEF CannotRegister, Pointers
    <3>2. registered' = [registered EXCEPT ![new[t]] = @ \cup {l}]
      BY <2>2
    <3>3. /\ registered' \in [Objs -> SUBSET Locs]
          /\ \A o \in Objs : registered'[o] =
               IF o = new[t] THEN registered[o] \cup {l} ELSE registered[o]
      BY <3>1, <3>2
    <3> QED
      BY <2>2, <3>3
  <2> QED
    BY <2>1, <2>2
<1>3. OnlyStep(t)
  BY <1>e DEF OnlyStep, Same, SameLocals
<1>4. ~CannotRegister(t) => new[t] \in Objs /\ new[t] # Nil /\ held[t] = new[t]
  <2>1. ~CannotRegister(t) => new[t] \in Objs /\ count[new[t]] # 0 /\ new[t] # Nil
    BY <1>2 DEF CannotRegister, Pointers
  <2>2. new[t] # Nil => new[t] \in {held[t], dying[t]}
    BY <1>1, <1>2 DEF Thread, Refers, StoreLabels
  <2> QED
    BY <2>1, <2>2 DEF IInv, Lives
<1>5. Types'
  BY <1>1, <1>e DEF Types, LocalTypes
<1>6. Thread(t)'
  <2>1. /\ (HaveOld(t)' <=> HaveOld(t)) /\ HaveNew(t)' /\ Location(t)' = Location(t)
        /\ pc[t] \in {"unregister"} \cup WorkLabels
    BY <1>2, <1>e DEF HaveOld, HaveNew, Location, WorkLabels
  <2>2. Control(t)'
    BY <1>1, <1>2, <1>e, <2>1 DEF Thread, Control, StoreLabels, WorkLabels, LoadLabels,
         DeallocLabels
  <2>3. Scopes(t)'
    BY <1>1, <1>2, <1>e DEF Thread, Scopes, DeallocLabels
  <2>4. Owns(t)'
    BY <1>1, <1>2, <1>e, <2>1 DEF Thread, Owns, LockedLabels, WorkLabels
  <2>5. Refers(t)'
    BY <1>1, <1>2, <1>4, <1>e, <2>1 DEF Thread, Refers, StoreLabels
  <2> QED
    BY <2>2, <2>3, <2>4, <2>5 DEF Thread
<1>7. Registration'
  <2>1. \A u \in Threads : u # t => ~Working(u, l)
    BY <1>2, ReplacesAlone DEF Working, WorkLabels
  <2> SUFFICES ASSUME NEW k \in Locs, NEW o \in Objs
               PROVE  /\ \A u \in Threads : Working(u, k)' =>
                           (k \in registered'[o] <=> pc'[u] # "register" /\ new'[u] = o)
                      /\ (\A u \in Threads : ~Working(u, k)') =>
                           (k \in registered'[o] <=> scope[k] /\ value[k] = o)
    BY <1>e DEF Registration
  <2>2. \A u \in Threads : Working(u, k)' <=> Working(u, k)
    BY <1>2, <1>3, <1>e DEF Working, WorkLabels, OnlyStep, Same, SameLocals
  <2>3. CASE k = l
    <3>1. Working(t, k) /\ k \notin registered[o]
      BY <1>2, <2>3 DEF IInv, Registration, Working, WorkLabels
    <3>2. k \in registered'[o] <=> pc'[t] # "register" /\ new'[t] = o
      BY <1>4, <1>e, <2>3, <3>1, WeakAssumption
    <3> QED
      BY <2>1, <2>2, <2>3, <3>1, <3>2
  <2>4. CASE k # l
    <3>1. (k \in registered'[o] <=> k \in registered[o]) /\ ~Working(t, k)
      BY <1>e, <2>4 DEF Working
    <3>2. \A u \in Threads : u # t => pc'[u] = pc[u] /\ new'[u] = new[u]
      BY <1>e
    <3> QED
      BY <2>2, <3>1, <3>2 DEF IInv, Registration
  <2> QED
    BY <2>3, <2>4
<1>8. Lives' /\ Pointing' /\ Ordered'
  BY <1>3, <1>e, LivesKept, OrderedKept DEF IInv, Pointing
<1>9. \A u \in Threads : Harmless(u)
  BY <1>e DEF Harmless
<1> QED
  BY <1>3, <1>5, <1>6, <1>7, <1>8, <1>9, <1>e, Together DEF Own

\* The flag that makes -dealloc look into the weak table.
LEMMA SetWeaklyReferencedStep ==
  ASSUME IInv, NEW t \in Threads, SetWeaklyReferenced(t)
  PROVE  IInv'
<1>1. Types /\ Thread(t)
  BY DEF IInv
<1>2. /\ pc[t] = "flag" /\ HaveNew(t) /\ new[t] \in Objs
  BY <1>1 DEF SetWeaklyReferenced, Thread, Control, Refers, WorkLabels, Types, LocalTypes,
       Pointers
<1>e. /\ UNCHANGED <<value, scope, registered, count, freed, initialized, lock, locals>>
      /\ pc'[t] = "write" /\ pc' \in [Threads -> Labels]
      /\ flagged' \in [Objs -> BOOLEAN] /\ flagged'[new[t]]
      /\ \A o \in Objs : flagged[o] => flagged'[o]
      /\ \A u \in Threads : u # t => pc'[u] = pc[u]
  BY <1>1, <1>2 DEF SetWeaklyReferenced, Goto, Types, LocalTypes, Labels, StoreLabels
<1>3. OnlyStep(t)
  BY <1>e DEF OnlyStep, Same, SameLocals, locals
<1>4. Types'
  BY <1>1, <1>e DEF Types, LocalTypes, locals
<1>5. Thread(t)'
  <2>1. (HaveOld(t)' <=> HaveOld(t)) /\ (HaveNew(t)' <=> HaveNew(t)) /\ Location(t)' = Location(t)
    BY <1>e DEF HaveOld, HaveNew, Location, locals
  <2>2. Control(t)'
    BY <1>1, <1>2, <1>e, <2>1 DEF Thread, Control, StoreLabels, WorkLabels, LoadLabels,
         DeallocLabels, locals
  <2>3. Scopes(t)'
    BY <1>1, <1>2, <1>e DEF Thread, Scopes, DeallocLabels, locals
  <2>4. Owns(t)'
    BY <1>1, <1>2, <1>e, <2>1 DEF Thread, Owns, LockedLabels, WorkLabels, locals
  <2>5. Refers(t)'
    BY <1>1, <1>2, <1>e, <2>1 DEF Thread, Refers, StoreLabels, locals
  <2> QED
    BY <2>2, <2>3, <2>4, <2>5 DEF Thread
<1>6. Registration'
  <2>1. \A u \in Threads, l \in Locs :
          /\ Working(u, l)' <=> Working(u, l)
          /\ Working(u, l) => (pc'[u] = "register" <=> pc[u] = "register")
    BY <1>2, <1>e DEF Working, WorkLabels, locals
  <2> QED
    BY <1>e, <2>1 DEF IInv, Registration, locals
<1>7. Lives' /\ Ordered'
  BY <1>3, <1>e, LivesKept, OrderedKept DEF locals
<1>8. Pointing'
  <2>1. \A l \in Locs : value[l] # Nil => value[l] \in Objs
    BY <1>1 DEF Types, Pointers
  <2> QED
    BY <1>e, <2>1 DEF IInv, Pointing
<1>9. \A u \in Threads : Harmless(u)
  BY <1>e DEF Harmless
<1> QED
  BY <1>3, <1>4, <1>5, <1>6, <1>7, <1>8, <1>9, <1>e, Together DEF locals, Own

\* The variable changes at last, and the locks are returned.
LEMMA WriteStep ==
  ASSUME IInv, NEW t \in Threads, Write(t)
  PROVE  IInv'
<1> DEFINE l == dst[t]
<1>1. Types /\ Thread(t)
  BY DEF IInv
<1>2. /\ pc[t] = "write" /\ HaveNew(t) /\ op[t] \in {"store", "init", "copy", "move"}
      /\ l \in Locs /\ new[t] \in Pointers /\ Location(t) = l /\ Working(t, l)
  BY <1>1 DEF Write, Thread, Control, WorkLabels, HaveNew, Types, LocalTypes, Location, Working
<1>3. new[t] # Nil => /\ new[t] \in Objs /\ held[t] = new[t] /\ flagged[new[t]]
                      /\ ~freed[new[t]] /\ count[new[t]] > 0
  BY <1>1, <1>2, HolderLives DEF Thread, Refers, Pointers
<1>e. /\ UNCHANGED <<registered, flagged, count, freed, initialized>> /\ Unlock(t)
      /\ value' \in [Locs -> Pointers] /\ scope' \in [Locs -> BOOLEAN]
      /\ value'[l] = new[t] /\ scope'[l]
      /\ \A k \in Locs : k # l => value'[k] = value[k] /\ scope'[k] = scope[k]
  BY <1>1, <1>2 DEF Write, Types
<1>4. /\ lock' \in [Stripes -> Threads \cup {NoThread}] /\ \A s \in Stripes : lock'[s] # t
      /\ \A u \in Threads : u # t => \A s \in Stripes : lock'[s] = u <=> lock[s] = u
  BY <1>e, Unlocked
<1>5. /\ LocalTypes' /\ OnlyStep(t) /\ dying' = dying
      /\ dst'[t] \in {dst[t], NoLoc} /\ src'[t] \in {src[t], NoLoc}
      /\ Own(t)' \subseteq Own(t) /\ held'[t] \in {held[t], Nil}
      /\ pc'[t] \in {"copyRelease", "idle", "dealloc"} /\ Thread(t)'
  <2>1. CASE op[t] \in {"copy", "move"}
    <3>1. /\ pc' \in [Threads -> Labels] /\ pc'[t] = "copyRelease" /\ UNCHANGED locals
          /\ \A u \in Threads : u # t => pc'[u] = pc[u]
      BY <1>1, <2>1 DEF Write, Goto, Types, LocalTypes, Labels
    <3>2. LocalTypes' /\ OnlyStep(t)
      BY <1>1, <1>4, <3>1 DEF Types, LocalTypes, OnlyStep, Same, SameLocals, locals
    <3>3. Control(t)'
      BY <1>1, <1>2, <2>1, <3>1 DEF Thread, Control, StoreLabels, WorkLabels, LoadLabels,
           DeallocLabels, locals
    <3>4. Scopes(t)'
      <4>1. src[t] \in Locs /\ src[t] # l /\ scope[src[t]]
        BY <1>1, <2>1 DEF Thread, Control, Scopes
      <4> QED
        BY <1>e, <2>1, <3>1, <4>1 DEF Scopes, locals
    <3>5. Owns(t)'
      BY <1>4, <3>1 DEF Owns, LockedLabels, WorkLabels
    <3>6. Refers(t)'
      BY <1>1, <1>2, <2>1, <3>1 DEF Thread, Refers, StoreLabels, locals
    <3> QED
      BY <3>1, <3>2, <3>3, <3>4, <3>5, <3>6 DEF Thread, locals, Own
  <2>2. CASE op[t] \notin {"copy", "move"}
    <3>1. Return(t)
      BY <2>2 DEF Write
    <3>2. LocalTypes' /\ \A u \in Threads : u # t => SameLocals(u)
      BY <1>4, <3>1, Returns
    <3>3. OnlyStep(t)
      BY <1>4, <3>2 DEF OnlyStep, Same
    <3> QED
      BY <1>4, <3>1, <3>2, <3>3, Returns
  <2> QED
    BY <2>1, <2>2
<1>6. Types'
  BY <1>1, <1>4, <1>5, <1>e DEF Types
<1>7. \A u \in Threads : u # t => ~Working(u, l)
  BY <1>2, ReplacesAlone DEF Working, WorkLabels
<1>8. Registration'
  <2> SUFFICES ASSUME NEW k \in Locs, NEW o \in Objs
               PROVE  /\ \A u \in Threads : Working(u, k)' =>
                           (k \in registered[o] <=> pc'[u] # "register" /\ new'[u] = o)
                      /\ (\A u \in Threads : ~Working(u, k)') =>
                           (k \in registered[o] <=> scope'[k] /\ value'[k] = o)
    BY <1>e DEF Registration
  <2>1. /\ \A u \in Threads : u # t => /\ Working(u, k)' <=> Working(u, k)
                                       /\ pc'[u] = pc[u] /\ new'[u] = new[u]
        /\ ~Working(t, k)' /\ (Working(t, k) <=> k = l)
    BY <1>2, <1>5 DEF Working, WorkLabels, OnlyStep, Same, SameLocals
  <2>2. CASE k = l
    <3>1. k \in registered[o] <=> new[t] = o
      BY <1>2, <2>2 DEF IInv, Registration
    <3> QED
      BY <1>7, <1>e, <2>1, <2>2, <3>1
  <2>3. CASE k # l
    BY <1>e, <2>1, <2>3 DEF IInv, Registration
  <2> QED
    BY <2>2, <2>3
<1>9. Lives' /\ Ordered'
  BY <1>5, <1>e, LivesKept, OrderedKept
<1>10. Pointing'
  BY <1>3, <1>e DEF IInv, Pointing
<1>11. ASSUME NEW u \in Threads, u # t
       PROVE  Harmless(u)
  <2>1. l \in {dst[u], src[u]} => op[t] = "store"
    BY <1>2, <1>11 DEF IInv, Exclusive, Own
  <2>2. op[t] = "store" => scope[l] /\ value[l] = old[t] /\ lock[Stripe[old[t]]] = t
    BY <1>1, <1>2 DEF Thread, Scopes, Owns, WorkLabels, LockedLabels, HaveOld
  <2> QED
    BY <1>1, <1>3, <1>11, <1>e, <2>1, <2>2 DEF Harmless, Types
<1> QED
  BY <1>5, <1>6, <1>8, <1>9, <1>10, <1>11, Together

-----------------------------------------------------------------------------
(* The steps of a load                                                     *)

\* A step that changes no object and gives one variable that is the thread's own, and
\* was out of scope, the value nil.
LEMMA NilStored ==
  ASSUME IInv, NEW t \in Threads, NEW l \in Locs, OnlyStep(t), ~scope[l],
         \A u \in Threads : ~Working(u, l),
         value' = [value EXCEPT ![l] = Nil], scope' = [scope EXCEPT ![l] = TRUE],
         UNCHANGED <<registered, flagged, freed>>,
         pc[t] \notin WorkLabels, pc'[t] \notin WorkLabels
  PROVE  /\ value' \in [Locs -> Pointers] /\ scope' \in [Locs -> BOOLEAN]
         /\ \A u \in Threads : l \notin {dst[u], src[u]} => Harmless(u)
         /\ Registration' /\ Pointing'
<1>1. Types
  BY DEF IInv
<1>e. /\ value' \in [Locs -> Pointers] /\ scope' \in [Locs -> BOOLEAN]
      /\ value'[l] = Nil /\ scope'[l]
      /\ \A k \in Locs : k # l => value'[k] = value[k] /\ scope'[k] = scope[k]
  BY <1>1 DEF Types, Pointers
<1>2. \A u \in Threads : l \notin {dst[u], src[u]} => Harmless(u)
  BY <1>e DEF Harmless
<1>3. \A o \in Objs : l \notin registered[o] /\ o # Nil
  BY WeakAssumption DEF IInv, Registration
<1>4. Registration'
  <2>1. \A u \in Threads, k \in Locs :
          /\ Working(u, k)' <=> Working(u, k)
          /\ Working(u, k) => k # l /\ pc'[u] = pc[u] /\ new'[u] = new[u]
    BY DEF Working, OnlyStep, Same, SameLocals
  <2> QED
    BY <1>3, <1>e, <2>1 DEF IInv, Registration
<1>5. Pointing'
  BY <1>e DEF IInv, Pointing
<1> QED
  BY <1>e, <1>2, <1>4, <1>5

\* The destination of a copy or a move whose source holds nil.
LEMMA CopiesNil ==
  ASSUME IInv, NEW t \in Threads, CopiedNil(t), op[t] # "load",
         pc[t] \in {"loadRead", "loadTry"}, \A s \in Stripes : lock'[s] # t,
         \A u \in Threads : u # t => \A s \in Stripes : lock'[s] = u <=> lock[s] = u,
         lock' \in [Stripes -> Threads \cup {NoThread}],
         UNCHANGED <<registered, flagged, count, freed, initialized>>
  PROVE  IInv'
<1> DEFINE l == dst[t]
<1>1. Types /\ Thread(t)
  BY DEF IInv
<1>2. /\ op[t] \in {"copy", "move"} /\ l \in Locs /\ src[t] \in Locs /\ src[t] # l
      /\ l \in Own(t) /\ ~scope[l] /\ scope[src[t]] /\ dying[t] = Nil
  BY <1>1 DEF Thread, Control, Scopes, LoadLabels, DeallocLabels, Own
<1>3. /\ value' = [value EXCEPT ![l] = Nil] /\ scope' = [scope EXCEPT ![l] = TRUE]
  BY DEF CopiedNil
<1>4. /\ LocalTypes' /\ OnlyStep(t) /\ dying' = dying
      /\ dst'[t] \in {dst[t], NoLoc} /\ src'[t] \in {src[t], NoLoc}
      /\ Own(t)' \subseteq Own(t) /\ held'[t] \in {held[t], Nil}
      /\ pc'[t] \in {"read", "idle", "dealloc"} /\ Thread(t)'
  <2>1. CASE op[t] = "copy"
    <3>1. Return(t)
      BY <2>1 DEF CopiedNil
    <3>2. LocalTypes' /\ \A u \in Threads : u # t => SameLocals(u)
      BY <3>1, Returns
    <3>3. OnlyStep(t)
      BY <3>2 DEF OnlyStep, Same
    <3> QED
      BY <3>1, <3>2, <3>3, Returns
  <2>2. CASE op[t] = "move"
    <3>1. /\ UNCHANGED <<dst, src, old, initTried, held, dying>>
          /\ pc'[t] = "read" /\ op'[t] = "moveOut" /\ new'[t] = Nil /\ LocalTypes'
          /\ \A u \in Threads : u # t => SameLocals(u)
      BY <1>1, <2>2 DEF CopiedNil, Goto, Types, LocalTypes, SameLocals, Labels, StoreLabels,
           Ops, Pointers
    <3>2. Control(t)'
      BY <1>1, <1>2, <3>1 DEF Thread, Control, StoreLabels, WorkLabels, LoadLabels,
           DeallocLabels, HaveOld, HaveNew
    <3>3. Scopes(t)'
      BY <1>1, <1>2, <1>3, <3>1 DEF Scopes, Types
    <3>4. Owns(t)'
      BY <3>1 DEF Owns, LockedLabels, WorkLabels
    <3>5. Refers(t)'
      BY <3>1 DEF Refers, StoreLabels, HaveNew
    <3> QED
      BY <2>2, <3>1, <3>2, <3>3, <3>4, <3>5 DEF Thread, OnlyStep, Same, Own
  <2> QED
    BY <1>2, <2>1, <2>2
<1>5. \A u \in Threads : ~Working(u, l) /\ (u # t => l \notin {dst[u], src[u]})
  BY <1>2, NobodyElseWorks DEF Working, WorkLabels
<1>6. /\ value' \in [Locs -> Pointers] /\ scope' \in [Locs -> BOOLEAN]
      /\ \A u \in Threads : u # t => Harmless(u)
      /\ Registration' /\ Pointing'
  BY <1>2, <1>3, <1>4, <1>5, NilStored DEF WorkLabels
<1>7. Types'
  BY <1>1, <1>4, <1>6 DEF Types
<1>8. Lives' /\ Ordered'
  BY <1>4, LivesKept, OrderedKept
<1> QED
  BY <1>4, <1>6, <1>7, <1>8, Together

\* objc_loadWeakRetained returns nil.
LEMMA LoadsNothing ==
  ASSUME IInv, NEW t \in Threads, LoadsNil(t),
         pc[t] \in {"loadRead", "loadTry"}, \A s \in Stripes : lock'[s] # t,
         \A u \in Threads : u # t => \A s \in Stripes : lock'[s] = u <=> lock[s] = u,
         lock' \in [Stripes -> Threads \cup {NoThread}],
         UNCHANGED <<registered, flagged, count, freed, initialized>>
  PROVE  IInv'
<1>1. CASE op[t] # "load"
  BY <1>1, CopiesNil DEF LoadsNil
<1>2. CASE op[t] = "load"
  <2>1. Return(t) /\ UNCHANGED <<value, scope>>
    BY <1>2 DEF LoadsNil
  <2>2. /\ pc'[t] \in {"idle", "dealloc"} /\ dst'[t] = NoLoc /\ src'[t] = NoLoc
        /\ held'[t] = Nil /\ dying' = dying /\ Own(t)' = {} /\ Thread(t)' /\ LocalTypes'
        /\ \A u \in Threads : u # t => SameLocals(u)
    BY <2>1, Returns
  <2>3. OnlyStep(t)
    BY <2>2 DEF OnlyStep, Same
  <2>4. Types'
    BY <2>1, <2>2 DEF IInv, Types
  <2>5. Ordered'
    BY <2>2, <2>3, OrderedKept
  <2> QED
    BY <2>1, <2>2, <2>3, <2>4, <2>5, QuietStep DEF WorkLabels
<1> QED
  BY <1>1, <1>2

\* A load reads the variable before it takes the lock.
LEMMA LoadReadStep ==
  ASSUME IInv, NEW t \in Threads, LoadRead(t)
  PROVE  IInv'
<1>1. Types /\ Thread(t)
  BY DEF IInv
<1>2. /\ pc[t] = "loadRead" /\ op[t] \in {"load", "copy", "move"} /\ src[t] \in Locs
      /\ \A s \in Stripes : lock[s] # t
      /\ UNCHANGED <<registered, flagged, count, freed, initialized, lock>>
  BY <1>1 DEF LoadRead, Thread, Control, Owns, LoadLabels, LockedLabels
<1>3. CASE value[src[t]] = Nil
  <2>1. LoadsNil(t)
    BY <1>3 DEF LoadRead
  <2>2. lock' \in [Stripes -> Threads \cup {NoThread}]
    BY <1>1, <1>2 DEF Types
  <2> QED
    BY <1>2, <2>1, <2>2, LoadsNothing
<1>4. CASE value[src[t]] # Nil
  <2>e. /\ UNCHANGED <<value, scope, op, dst, src, old, initTried, held, dying>>
        /\ pc'[t] = "loadLock" /\ new'[t] = value[src[t]]
        /\ pc' \in [Threads -> Labels] /\ new' \in [Threads -> Pointers]
        /\ \A u \in Threads : u # t => pc'[u] = pc[u] /\ new'[u] = new[u]
    BY <1>1, <1>2, <1>4 DEF LoadRead, Goto, Types, LocalTypes, Labels, LoadLabels
  <2>1. OnlyStep(t)
    BY <1>2, <2>e DEF OnlyStep, Same, SameLocals
  <2>2. Types'
    BY <1>1, <1>2, <2>e DEF Types, LocalTypes
  <2>3. Thread(t)'
    <3>1. Control(t)'
      BY <1>1, <1>2, <2>e DEF Thread, Control, StoreLabels, WorkLabels, LoadLabels, DeallocLabels
    <3>2. Scopes(t)'
      BY <1>1, <1>2, <2>e DEF Thread, Scopes, DeallocLabels
    <3>3. Owns(t)'
      BY <1>2, <1>4, <2>e DEF Owns, LockedLabels, WorkLabels
    <3>4. Refers(t)'
      BY <2>e DEF Refers, StoreLabels
    <3> QED
      BY <3>1, <3>2, <3>3, <3>4 DEF Thread
  <2>4. Ordered'
    BY <2>1, <2>e, OrderedKept
  <2> QED
    BY <1>2, <2>1, <2>2, <2>3, <2>4, <2>e, QuietStep DEF WorkLabels, Own
<1> QED
  BY <1>3, <1>4

\* A load takes the lock of the object it read.
LEMMA LoadLockStep ==
  ASSUME IInv, NEW t \in Threads, LoadLock(t)
  PROVE  IInv'
<1>1. Types /\ Thread(t)
  BY DEF IInv
<1> DEFINE n == Stripe[new[t]]
<1>2. /\ pc[t] = "loadLock" /\ n \in Stripes /\ lock[n] = NoThread
      /\ \A s \in Stripes : lock[s] # t
  BY <1>1 DEF LoadLock, Thread, Owns, LockedLabels, Types, LocalTypes, Stripes
<1>e. /\ UNCHANGED <<memory, locals>> /\ pc'[t] = "loadCheck"
      /\ \A s \in Stripes : lock'[s] = IF s = n THEN t ELSE lock[s]
      /\ lock' \in [Stripes -> Threads \cup {NoThread}] /\ pc' \in [Threads -> Labels]
      /\ \A u \in Threads : u # t => pc'[u] = pc[u]
  BY <1>1, <1>2 DEF LoadLock, Goto, Types, LocalTypes, Labels, LoadLabels
<1>3. OnlyStep(t)
  BY <1>2, <1>e, WeakAssumption DEF OnlyStep, Same, SameLocals, locals
<1>4. Types'
  BY <1>1, <1>e DEF Types, LocalTypes, memory, locals
<1>5. Thread(t)'
  <2>1. Control(t)'
    BY <1>1, <1>2, <1>e DEF Thread, Control, StoreLabels, WorkLabels, LoadLabels,
         DeallocLabels, locals
  <2>2. Scopes(t)'
    BY <1>1, <1>2, <1>e DEF Thread, Scopes, DeallocLabels, memory, locals
  <2>3. Owns(t)'
    BY <1>1, <1>2, <1>e DEF Thread, Owns, LockedLabels, WorkLabels, locals
  <2>4. Refers(t)'
    BY <1>e DEF Refers, StoreLabels
  <2> QED
    BY <2>1, <2>2, <2>3, <2>4 DEF Thread
<1>6. Ordered'
  BY <1>3, <1>e, OrderedKept
<1> QED
  BY <1>2, <1>3, <1>4, <1>5, <1>6, <1>e, QuietStep DEF memory, locals, WorkLabels, Own

\* A load reads the variable again under the lock.
LEMMA LoadCheckStep ==
  ASSUME IInv, NEW t \in Threads, LoadCheck(t)
  PROVE  IInv'
<1>1. Types /\ Thread(t)
  BY DEF IInv
<1>e. /\ pc[t] = "loadCheck" /\ UNCHANGED <<memory, locals>>
      /\ \/ Unlock(t) /\ pc'[t] = "loadRead"
         \/ UNCHANGED lock /\ ~LoadMoved(t) /\ pc'[t] = "loadTry"
      /\ pc' \in [Threads -> Labels]
      /\ \A u \in Threads : u # t => pc'[u] = pc[u]
  BY <1>1 DEF LoadCheck, Goto, Types, LocalTypes, Labels, LoadLabels
<1>2. /\ lock' \in [Stripes -> Threads \cup {NoThread}]
      /\ \A u \in Threads : u # t => \A s \in Stripes : lock'[s] = u <=> lock[s] = u
      /\ pc'[t] = "loadRead" => \A s \in Stripes : lock'[s] # t
  BY <1>1, <1>e, Unlocked DEF Types
<1>3. OnlyStep(t)
  BY <1>e, <1>2 DEF OnlyStep, Same, SameLocals, locals
<1>4. Types'
  BY <1>1, <1>e, <1>2 DEF Types, LocalTypes, memory, locals
<1>5. Thread(t)'
  <2>1. Control(t)'
    BY <1>1, <1>e DEF Thread, Control, StoreLabels, WorkLabels, LoadLabels, DeallocLabels, locals
  <2>2. Scopes(t)'
    BY <1>1, <1>e DEF Thread, Scopes, DeallocLabels, memory, locals
  <2>3. Owns(t)'
    BY <1>1, <1>2, <1>e DEF Thread, Owns, LockedLabels, WorkLabels, memory, locals, LoadMoved
  <2>4. Refers(t)'
    BY <1>e DEF Refers, StoreLabels
  <2> QED
    BY <2>1, <2>2, <2>3, <2>4 DEF Thread
<1>6. Ordered'
  BY <1>3, <1>e, OrderedKept
<1> QED
  BY <1>3, <1>4, <1>5, <1>6, <1>e, QuietStep DEF memory, locals, WorkLabels, Own

\* weak_read_no_lock retains the object, or finds that it is dying.
LEMMA LoadTryStep ==
  ASSUME IInv, NEW t \in Threads, LoadTry(t)
  PROVE  IInv'
<1>1. Types /\ Thread(t)
  BY DEF IInv
<1>2. /\ pc[t] = "loadTry" /\ op[t] \in {"load", "copy", "move"} /\ src[t] \in Locs
      /\ new[t] \in Objs /\ new[t] # Nil /\ Unlock(t)
      /\ UNCHANGED <<registered, flagged, freed, initialized>>
  BY <1>1 DEF LoadTry, Thread, Control, Owns, LoadLabels, Types, LocalTypes, Pointers
<1>3. /\ lock' \in [Stripes -> Threads \cup {NoThread}] /\ \A s \in Stripes : lock'[s] # t
      /\ \A u \in Threads : u # t => \A s \in Stripes : lock'[s] = u <=> lock[s] = u
  BY <1>2, Unlocked
<1>4. CASE ~CanRetain(t)
  <2>1. LoadsNil(t) /\ UNCHANGED count
    BY <1>4 DEF LoadTry
  <2> QED
    BY <1>2, <1>3, <2>1, LoadsNothing
<1>5. CASE CanRetain(t)
  <2>e. /\ UNCHANGED <<value, scope>> /\ count' \in [Objs -> Nat] /\ count[new[t]] > 0
        /\ \A o \in Objs : count'[o] = IF o = new[t] THEN count[o] + 1 ELSE count[o]
    BY <1>1, <1>2, <1>5 DEF LoadTry, CanRetain, Types
  <2>1. /\ LocalTypes' /\ OnlyStep(t) /\ dying' = dying
        /\ dst'[t] \in {dst[t], NoLoc} /\ src'[t] \in {src[t], NoLoc}
        /\ Own(t)' \subseteq Own(t) /\ held'[t] \in {new[t], Nil}
        /\ pc'[t] \in {"read", "idle", "dealloc"} /\ Thread(t)'
    <3>1. CASE op[t] = "load"
      <4>1. Return(t)
        BY <1>5, <3>1 DEF LoadTry
      <4>2. LocalTypes' /\ \A u \in Threads : u # t => SameLocals(u)
        BY <1>3, <4>1, Returns
      <4>3. OnlyStep(t)
        BY <1>3, <4>2 DEF OnlyStep, Same
      <4> QED
        BY <1>3, <4>1, <4>2, <4>3, Returns
    <3>2. CASE op[t] # "load"
      <4>1. /\ UNCHANGED <<op, dst, src, old, new, initTried, dying>>
            /\ pc'[t] = "read" /\ held'[t] = new[t] /\ LocalTypes'
            /\ \A u \in Threads : u # t => SameLocals(u)
        BY <1>1, <1>5, <3>2 DEF LoadTry, Goto, Types, LocalTypes, SameLocals, Labels, StoreLabels
      <4>2. Control(t)'
        BY <1>1, <1>2, <3>2, <4>1 DEF Thread, Control, StoreLabels, WorkLabels, LoadLabels,
             DeallocLabels, HaveOld, HaveNew
      <4>3. Scopes(t)'
        BY <1>1, <1>2, <2>e, <4>1 DEF Thread, Scopes, DeallocLabels
      <4>4. Owns(t)'
        BY <1>3, <4>1 DEF Owns, LockedLabels, WorkLabels
      <4>5. Refers(t)'
        BY <1>2, <3>2, <4>1 DEF Refers, HaveNew
      <4> QED
        BY <1>3, <4>1, <4>2, <4>3, <4>4, <4>5 DEF Thread, OnlyStep, Same, Own
    <3> QED
      BY <3>1, <3>2
  <2>2. Types'
    BY <1>1, <1>2, <1>3, <2>1, <2>e DEF Types
  <2>3. Registration'
    BY <1>2, <2>1, <2>e, RegistrationKept DEF WorkLabels
  <2>4. Lives'
    <3>1. ASSUME NEW o \in Objs
          PROVE  count'[o] >= Cardinality(Holders(o)')
      <4>1. Holders(o) \in SUBSET Threads /\ Holders(o)' \in SUBSET Threads
        BY DEF Holders
      <4>2. /\ Cardinality(Holders(o)) \in Nat /\ Cardinality(Holders(o)') \in Nat
            /\ Holders(o)' \subseteq Holders(o)
                 => Cardinality(Holders(o)') <= Cardinality(Holders(o))
            /\ Holders(o)' \subseteq Holders(o) \cup {t}
                 => Cardinality(Holders(o)') <= Cardinality(Holders(o)) + 1
        BY <4>1, SizeStep, WeakAssumption
      <4>3. Holders(o)' \subseteq Holders(o) \cup {t}
        BY <2>1 DEF Holders, OnlyStep, Same, SameLocals
      <4>4. o # new[t] => Holders(o)' \subseteq Holders(o)
        BY <2>1, WeakAssumption DEF Holders, OnlyStep, Same, SameLocals
      <4>5. count[o] \in Nat /\ count[o] >= Cardinality(Holders(o))
        BY <1>1 DEF IInv, Lives, Types
      <4> QED
        BY <2>e, <4>2, <4>3, <4>4, <4>5
    <3>2. ASSUME NEW o \in Objs
          PROVE  (count'[o] > 0 <=> count[o] > 0) /\ (count'[o] = 0 <=> count[o] = 0)
      BY <1>1, <2>e DEF Types
    <3> QED
      BY <1>2, <2>1, <3>1, <3>2 DEF IInv, Lives
  <2>5. Pointing' /\ Ordered'
    BY <1>2, <2>1, <2>e, OrderedKept DEF IInv, Pointing
  <2>6. \A u \in Threads : Harmless(u)
    BY <1>2, <2>e DEF Harmless
  <2> QED
    BY <2>1, <2>2, <2>3, <2>4, <2>5, <2>6, Together
<1> QED
  BY <1>4, <1>5

\* The source of a move is nil in the end.
LEMMA MoveClearStep ==
  ASSUME IInv, NEW t \in Threads, MoveClear(t)
  PROVE  IInv'
<1> DEFINE l == src[t]
<1>1. Types /\ Thread(t)
  BY DEF IInv
<1>2. /\ pc[t] = "moveClear" /\ op[t] = "moveOut" /\ l \in Locs /\ l \in Own(t) /\ ~scope[l]
      /\ \A s \in Stripes : lock[s] # t
      /\ Return(t) /\ UNCHANGED <<registered, flagged, count, freed, initialized, lock>>
      /\ value' = [value EXCEPT ![l] = Nil] /\ scope' = [scope EXCEPT ![l] = TRUE]
  BY <1>1 DEF MoveClear, MoveSource, Thread, Control, Scopes, Owns, Own, LockedLabels
<1>3. /\ pc'[t] \in {"idle", "dealloc"} /\ dst'[t] = NoLoc /\ src'[t] = NoLoc
      /\ held'[t] = Nil /\ dying' = dying /\ Own(t)' = {} /\ Thread(t)' /\ LocalTypes'
      /\ \A u \in Threads : u # t => SameLocals(u)
  BY <1>2, Returns
<1>4. OnlyStep(t)
  BY <1>2, <1>3 DEF OnlyStep, Same
<1>5. \A u \in Threads : ~Working(u, l) /\ (u # t => l \notin {dst[u], src[u]})
  BY <1>2, NobodyElseWorks DEF Working, WorkLabels
<1>6. /\ value' \in [Locs -> Pointers] /\ scope' \in [Locs -> BOOLEAN]
      /\ \A u \in Threads : u # t => Harmless(u)
      /\ Registration' /\ Pointing'
  BY <1>2, <1>3, <1>4, <1>5, NilStored DEF WorkLabels
<1>7. Types'
  BY <1>1, <1>2, <1>3, <1>6 DEF Types
<1>8. Lives' /\ Ordered'
  BY <1>2, <1>3, <1>4, LivesKept, OrderedKept
<1> QED
  BY <1>3, <1>4, <1>6, <1>7, <1>8, Together

-----------------------------------------------------------------------------
(* Release and deallocation                                                *)

\* objc_initWeak of nil
LEMMA InitWeakNilStep ==
  ASSUME IInv, NEW t \in Threads, NEW l \in Locs, InitWeakNil(t, l)
  PROVE  IInv'
<1>1. Types
  BY DEF IInv
<1>2. /\ pc[t] = "idle" /\ ~scope[l]
      /\ value' = [value EXCEPT ![l] = Nil] /\ scope' = [scope EXCEPT ![l] = TRUE]
      /\ UNCHANGED <<registered, flagged, count, freed, initialized, lock, pc, locals>>
      /\ \A u \in Threads : l \notin {dst[u], src[u]}
  BY DEF InitWeakNil, Unused
<1>3. \A u \in Threads : Same(u)
  BY <1>2 DEF Same, SameLocals, locals
<1>4. /\ value' \in [Locs -> Pointers] /\ scope' \in [Locs -> BOOLEAN]
      /\ \A u \in Threads : Harmless(u)
      /\ Registration' /\ Pointing'
  BY <1>2, <1>3, NilStored DEF OnlyStep, Working, WorkLabels
<1>5. Types'
  BY <1>1, <1>2, <1>4 DEF Types, LocalTypes, locals
<1>6. Thread(t)'
  BY <1>3, <1>4, OthersKeep
<1>7. Lives' /\ Ordered'
  BY <1>2, <1>3, LivesKept, OrderedKept DEF OnlyStep, locals
<1> QED
  BY <1>2, <1>3, <1>4, <1>5, <1>6, <1>7, Together DEF OnlyStep, locals, Own

\* A release of a reference that the thread, or nobody in a call, holds.
LEMMA Released ==
  ASSUME IInv, NEW t \in Threads, OnlyStep(t), NEW o \in Objs, count[o] > 0,
         count' = [count EXCEPT ![o] = @ - 1], UNCHANGED freed, dying[t] = Nil,
         held'[t] \in {held[t], Nil},
         count[o] > Cardinality(Holders(o)) \/ (held[t] = o /\ held'[t] = Nil),
         dying'[t] = IF count[o] = 1 THEN o ELSE Nil
  PROVE  Lives' /\ count' \in [Objs -> Nat]
<1>1. count \in [Objs -> Nat] /\ count[o] - 1 \in Nat
  BY DEF IInv, Types
<1>2. /\ count' \in [Objs -> Nat] /\ count'[o] = count[o] - 1
      /\ \A p \in Objs : p # o => count'[p] = count[p]
  BY <1>1
<1>3. ASSUME NEW p \in Objs
      PROVE  count'[p] >= Cardinality(Holders(p)')
  <2>1. /\ Cardinality(Holders(p)) \in Nat /\ Cardinality(Holders(p)') \in Nat
        /\ Cardinality(Holders(p)') <= Cardinality(Holders(p))
        /\ held[t] = p /\ held'[t] = Nil
             => Cardinality(Holders(p)') + 1 <= Cardinality(Holders(p))
    BY HoldersKept
  <2>2. count[p] \in Nat /\ count[p] >= Cardinality(Holders(p))
    BY <1>1 DEF IInv, Lives
  <2> QED
    BY <1>2, <2>1, <2>2
<1>4. \A u \in Threads : u # t => dying'[u] = dying[u] /\ dying[u] # o
  BY DEF OnlyStep, Same, SameLocals, IInv, Lives
<1>5. \A p \in Objs : count'[p] > 0 => count[p] > 0
  BY <1>1, <1>2
<1> QED
  BY <1>1, <1>2, <1>3, <1>4, <1>5, WeakAssumption DEF IInv, Lives

\* A release from outside; the last one sends -dealloc.
LEMMA ReleaseStep ==
  ASSUME IInv, NEW t \in Threads, NEW o \in Objs, Release(t, o)
  PROVE  IInv'
<1>1. Types /\ Thread(t)
  BY DEF IInv
<1>2. /\ pc[t] = "idle" /\ op[t] = "none" /\ dst[t] = NoLoc /\ src[t] = NoLoc
      /\ held[t] = Nil /\ dying[t] = Nil /\ \A s \in Stripes : lock[s] # t
      /\ count[o] > Cardinality(Holders(o)) /\ o # Nil
  BY <1>1, WeakAssumption DEF Release, HasSpareRef, Holders, Thread, Control, Owns, LockedLabels
<1>e. /\ UNCHANGED <<value, scope, registered, flagged, freed, initialized, lock, dst, src,
                     old, new, initTried, held>>
      /\ count' = [count EXCEPT ![o] = @ - 1]
      /\ IF count[o] = 1 THEN pc'[t] = "dealloc" /\ op'[t] = "release" /\ dying'[t] = o
                         ELSE pc'[t] = "idle" /\ op'[t] = "none" /\ dying'[t] = Nil
      /\ LocalTypes' /\ \A u \in Threads : u # t => SameLocals(u)
  BY <1>1, <1>2 DEF Release, Goto, Types, LocalTypes, SameLocals, Labels, DeallocLabels, Ops,
       Pointers
<1>3. OnlyStep(t)
  BY <1>e DEF OnlyStep, Same
<1>4. Lives' /\ count' \in [Objs -> Nat]
  <2>1. count[o] > 0
    <3>1. Holders(o) \in SUBSET Threads
      BY DEF Holders
    <3>2. Cardinality(Holders(o)) \in Nat
      BY <3>1, SizeStep, WeakAssumption
    <3> QED
      BY <1>1, <1>2, <3>2 DEF Types
  <2> QED
    BY <1>2, <1>3, <1>e, <2>1, Released
<1>5. Types'
  BY <1>1, <1>4, <1>e DEF Types
<1>6. Thread(t)'
  <2>1. Control(t)'
    BY <1>2, <1>e DEF Control, StoreLabels, WorkLabels, LoadLabels, DeallocLabels
  <2>2. Scopes(t)'
    BY <1>e DEF Scopes
  <2>3. Owns(t)'
    BY <1>2, <1>e DEF Owns, LockedLabels, WorkLabels
  <2>4. Refers(t)'
    BY <1>e DEF Refers, StoreLabels
  <2> QED
    BY <2>1, <2>2, <2>3, <2>4 DEF Thread
<1>7. Registration' /\ Pointing' /\ Ordered'
  BY <1>2, <1>3, <1>e, RegistrationKept, OrderedKept DEF IInv, Pointing, WorkLabels
<1>8. \A u \in Threads : u # t => Harmless(u)
  BY <1>e DEF Harmless
<1>9. Own(t)' = {}
  BY <1>e DEF Own
<1> QED
  BY <1>3, <1>4, <1>5, <1>6, <1>7, <1>8, <1>9, <1>e, Together

\* The release at the end of a copy, which may be the last.
LEMMA CopyReleaseStep ==
  ASSUME IInv, NEW t \in Threads, CopyRelease(t)
  PROVE  IInv'
<1> DEFINE o == held[t]
<1>1. Types /\ Thread(t)
  BY DEF IInv
<1>2. /\ pc[t] = "copyRelease" /\ op[t] \in {"copy", "move"} /\ held[t] # Nil /\ dying[t] = Nil
      /\ \A s \in Stripes : lock[s] # t
      /\ scope[dst[t]] /\ scope[src[t]] /\ dst[t] \in Locs /\ src[t] \in Locs /\ src[t] # dst[t]
  BY <1>1 DEF CopyRelease, Thread, Control, Owns, Scopes, Refers, LockedLabels, DeallocLabels
<1>3. o \in Objs /\ count[o] > 0
  BY <1>2, HolderLives
<1>e. /\ UNCHANGED <<value, scope, registered, flagged, freed, initialized, lock>>
      /\ count' = [count EXCEPT ![o] = @ - 1]
  BY DEF CopyRelease
<1>4. /\ LocalTypes' /\ OnlyStep(t)
      /\ dying'[t] = IF count[o] = 1 THEN o ELSE Nil
      /\ dst'[t] \in {dst[t], NoLoc} /\ src'[t] \in {src[t], NoLoc}
      /\ Own(t)' \subseteq Own(t) /\ held'[t] = Nil
      /\ pc'[t] \in {"read", "idle", "dealloc"} /\ Thread(t)'
  <2>1. CASE count[o] = 1
    <3>1. /\ UNCHANGED <<op, dst, src, old, new, initTried>> /\ pc'[t] = "dealloc"
          /\ dying'[t] = o /\ held'[t] = Nil /\ LocalTypes'
          /\ \A u \in Threads : u # t => SameLocals(u)
      BY <1>1, <2>1 DEF CopyRelease, Goto, Types, LocalTypes, SameLocals, Labels, DeallocLabels,
           Pointers
    <3>2. Control(t)'
      BY <1>2, <3>1 DEF Control, StoreLabels, WorkLabels, LoadLabels, DeallocLabels
    <3>3. Scopes(t)'
      BY <1>2, <1>e, <3>1 DEF Scopes, DeallocLabels
    <3>4. Owns(t)'
      BY <1>2, <1>e, <3>1 DEF Owns, LockedLabels, WorkLabels
    <3>5. Refers(t)'
      BY <3>1 DEF Refers, StoreLabels
    <3> QED
      BY <1>e, <2>1, <3>1, <3>2, <3>3, <3>4, <3>5 DEF Thread, OnlyStep, Same, Own
  <2>2. CASE count[o] # 1 /\ op[t] = "copy"
    <3>1. Return(t)
      BY <2>2 DEF CopyRelease, AfterCopy
    <3>2. \A s \in Stripes : lock'[s] # t
      BY <1>2, <1>e
    <3>3. LocalTypes' /\ dying' = dying /\ \A u \in Threads : u # t => SameLocals(u)
      BY <3>1, <3>2, Returns
    <3>4. OnlyStep(t)
      BY <1>e, <3>3 DEF OnlyStep, Same
    <3> QED
      BY <1>2, <2>2, <3>1, <3>2, <3>3, <3>4, Returns
  <2>3. CASE count[o] # 1 /\ op[t] = "move"
    <3>1. /\ UNCHANGED <<dst, src, old, initTried, dying>> /\ pc'[t] = "read"
          /\ op'[t] = "moveOut" /\ held'[t] = Nil /\ new'[t] = Nil /\ LocalTypes'
          /\ \A u \in Threads : u # t => SameLocals(u)
      BY <1>1, <2>3 DEF CopyRelease, AfterCopy, Goto, Types, LocalTypes, SameLocals, Labels,
           StoreLabels, Ops, Pointers
    <3>2. Control(t)'
      BY <1>2, <3>1 DEF Control, StoreLabels, WorkLabels, LoadLabels, DeallocLabels, HaveOld,
           HaveNew
    <3>3. Scopes(t)'
      BY <1>2, <1>e, <3>1 DEF Scopes
    <3>4. Owns(t)'
      BY <1>2, <1>e, <3>1 DEF Owns, LockedLabels, WorkLabels
    <3>5. Refers(t)'
      BY <3>1 DEF Refers, HaveNew
    <3> QED
      BY <1>2, <1>e, <2>3, <3>1, <3>2, <3>3, <3>4, <3>5 DEF Thread, OnlyStep, Same, Own
  <2> QED
    BY <1>2, <2>1, <2>2, <2>3
<1>5. Lives' /\ count' \in [Objs -> Nat]
  BY <1>2, <1>3, <1>4, <1>e, Released
<1>6. Types'
  BY <1>1, <1>4, <1>5, <1>e DEF Types
<1>7. Registration' /\ Pointing' /\ Ordered'
  BY <1>2, <1>4, <1>e, RegistrationKept, OrderedKept DEF IInv, Pointing, WorkLabels
<1>8. \A u \in Threads : u # t => Harmless(u)
  BY <1>e DEF Harmless
<1> QED
  BY <1>4, <1>5, <1>6, <1>7, <1>8, Together

\* -dealloc returns: nothing in scope refers to the object.
LEMMA FreedStep ==
  ASSUME IInv, NEW t \in Threads, RootDealloc(t) \/ Dispose(t)
  PROVE  IInv'
<1> DEFINE o == dying[t]
<1>1. Types /\ Thread(t)
  BY DEF IInv
<1>2. /\ pc[t] \in {"dealloc", "free"} /\ op[t] \in {"release", "copy", "move"}
      /\ o \in Objs /\ count[o] = 0 /\ held[t] = Nil /\ \A s \in Stripes : lock[s] # t
  <2>1. pc[t] \in {"dealloc", "free"}
    BY DEF RootDealloc, Dispose
  <2>2. o \in Objs
    BY <1>1, <2>1 DEF Thread, Control, DeallocLabels, Types, LocalTypes, Pointers
  <2> QED
    BY <1>1, <2>1, <2>2 DEF Thread, Control, Owns, DeallocLabels, LockedLabels, IInv, Lives
<1>3. \A l \in Locs : scope[l] => value[l] # o
  <2>1. CASE RootDealloc(t)
    BY <1>2, <2>1, WeakAssumption DEF RootDealloc, IInv, Pointing
  <2>2. CASE Dispose(t)
    BY <1>1, <2>2 DEF Dispose, Thread, Owns
  <2> QED
    BY <2>1, <2>2
<1>e. /\ UNCHANGED <<value, scope, registered, flagged, count, initialized, lock>>
      /\ freed' \in [Objs -> BOOLEAN]
      /\ \A p \in Objs : p # o => freed'[p] = freed[p]
      /\ Freed(t)
  BY <1>1, <1>2 DEF RootDealloc, Dispose, Freed, Types
<1>4. /\ LocalTypes' /\ OnlyStep(t) /\ dying'[t] = Nil
      /\ dst'[t] \in {dst[t], NoLoc} /\ src'[t] \in {src[t], NoLoc}
      /\ Own(t)' \subseteq Own(t) /\ held'[t] = Nil
      /\ pc'[t] \in {"read", "idle"} /\ Thread(t)'
  <2>1. CASE op[t] = "move"
    <3>1. /\ UNCHANGED <<dst, src, old, initTried, held>> /\ pc'[t] = "read"
          /\ op'[t] = "moveOut" /\ new'[t] = Nil /\ dying'[t] = Nil /\ LocalTypes'
          /\ \A u \in Threads : u # t => SameLocals(u)
      BY <1>1, <1>e, <2>1 DEF Freed, Goto, Types, LocalTypes, SameLocals, Labels, StoreLabels,
           Ops, Pointers
    <3>2. Control(t)'
      BY <1>1, <2>1, <3>1 DEF Thread, Control, StoreLabels, WorkLabels, LoadLabels,
           DeallocLabels, HaveOld, HaveNew
    <3>3. Scopes(t)'
      BY <1>1, <1>e, <2>1, <3>1 DEF Thread, Scopes
    <3>4. Owns(t)'
      BY <1>2, <1>e, <3>1 DEF Owns, LockedLabels, WorkLabels
    <3>5. Refers(t)'
      BY <3>1 DEF Refers, HaveNew
    <3> QED
      BY <1>2, <1>e, <2>1, <3>1, <3>2, <3>3, <3>4, <3>5 DEF Thread, OnlyStep, Same, Own
  <2>2. CASE op[t] # "move"
    <3>1. /\ pc'[t] = "idle" /\ op'[t] = "none" /\ dst'[t] = NoLoc /\ src'[t] = NoLoc
          /\ held'[t] = Nil /\ dying'[t] = Nil /\ LocalTypes'
          /\ \A u \in Threads : u # t => SameLocals(u)
      <4>1. Freed(t) /\ op[t] # "move" /\ Types
        BY <1>1, <1>e, <2>2
      <4>2. LocalTypes'
        BY <4>1 DEF Freed, Returned, Goto, Types, LocalTypes, Labels, Ops, Pointers
      <4>3. \A u \in Threads : u # t => SameLocals(u)
        BY <4>1 DEF Freed, Returned, Goto, Types, LocalTypes, SameLocals
      <4> QED
        BY <4>1, <4>2, <4>3 DEF Freed, Returned, Goto, Types, LocalTypes
    <3>2. Control(t)'
      BY <3>1 DEF Control, StoreLabels, WorkLabels, LoadLabels, DeallocLabels
    <3>3. Scopes(t)'
      BY <3>1 DEF Scopes
    <3>4. Owns(t)'
      BY <1>2, <1>e, <3>1 DEF Owns, LockedLabels, WorkLabels
    <3>5. Refers(t)'
      BY <3>1 DEF Refers, StoreLabels
    <3> QED
      BY <1>e, <3>1, <3>2, <3>3, <3>4, <3>5 DEF Thread, OnlyStep, Same, Own
  <2> QED
    BY <2>1, <2>2
<1>5. Types'
  BY <1>1, <1>4, <1>e DEF Types
<1>6. Lives'
  <2>1. \A p \in Objs : count'[p] >= Cardinality(Holders(p)')
    BY <1>2, <1>4, <1>e, HoldersKept DEF IInv, Lives, Types
  <2>2. \A u \in Threads : u # t => dying'[u] = dying[u] /\ dying[u] # o
    BY <1>2, <1>4 DEF OnlyStep, Same, SameLocals, IInv, Lives
  <2> QED
    BY <1>2, <1>4, <1>e, <2>1, <2>2, WeakAssumption DEF IInv, Lives
<1>7. Pointing'
  <2>1. \A l \in Locs : value[l] # Nil => value[l] \in Objs
    BY <1>1 DEF Types, Pointers
  <2> QED
    BY <1>3, <1>e, <2>1 DEF IInv, Pointing
<1>8. Registration' /\ Ordered'
  BY <1>2, <1>4, <1>e, RegistrationKept, OrderedKept DEF WorkLabels
<1>9. \A u \in Threads : u # t => Harmless(u)
  BY <1>e DEF Harmless
<1> QED
  BY <1>4, <1>5, <1>6, <1>7, <1>8, <1>9, Together

\* -dealloc takes the lock of a flagged object.
LEMMA ClearLockStep ==
  ASSUME IInv, NEW t \in Threads, ClearLock(t)
  PROVE  IInv'
<1>1. Types /\ Thread(t)
  BY DEF IInv
<1> DEFINE n == Stripe[dying[t]]
<1>2. /\ pc[t] = "dealloc" /\ n \in Stripes /\ lock[n] = NoThread
      /\ \A s \in Stripes : lock[s] # t
  BY <1>1 DEF ClearLock, Thread, Owns, LockedLabels, Types, LocalTypes, Stripes
<1>e. /\ UNCHANGED <<memory, locals>> /\ pc'[t] = "clear"
      /\ \A s \in Stripes : lock'[s] = IF s = n THEN t ELSE lock[s]
      /\ lock' \in [Stripes -> Threads \cup {NoThread}] /\ pc' \in [Threads -> Labels]
      /\ \A u \in Threads : u # t => pc'[u] = pc[u]
  BY <1>1, <1>2 DEF ClearLock, Goto, Types, LocalTypes, Labels, DeallocLabels
<1>3. OnlyStep(t)
  BY <1>2, <1>e, WeakAssumption DEF OnlyStep, Same, SameLocals, locals
<1>4. Types'
  BY <1>1, <1>e DEF Types, LocalTypes, memory, locals
<1>5. Thread(t)'
  <2>1. Control(t)'
    BY <1>1, <1>2, <1>e DEF Thread, Control, StoreLabels, WorkLabels, LoadLabels,
         DeallocLabels, locals
  <2>2. Scopes(t)'
    BY <1>1, <1>2, <1>e DEF Thread, Scopes, DeallocLabels, memory, locals
  <2>3. Owns(t)'
    BY <1>2, <1>e DEF Owns, LockedLabels, WorkLabels, locals
  <2>4. Refers(t)'
    BY <1>e DEF Refers, StoreLabels
  <2> QED
    BY <2>1, <2>2, <2>3, <2>4 DEF Thread
<1>6. Ordered'
  BY <1>3, <1>e, OrderedKept
<1> QED
  BY <1>2, <1>3, <1>4, <1>5, <1>6, <1>e, QuietStep DEF memory, locals, WorkLabels, Own

\* weak_clear_no_lock: every variable in scope that holds the object is in its entry,
\* for a store that is changing one of them would have this lock.
LEMMA ClearStep ==
  ASSUME IInv, NEW t \in Threads, Clear(t)
  PROVE  IInv'
<1> DEFINE o == dying[t]
<1>1. Types /\ Thread(t)
  BY DEF IInv
<1>2. /\ pc[t] = "clear" /\ o \in Objs /\ o # Nil /\ lock[Stripe[o]] = t
      /\ op[t] \in {"release", "copy", "move"}
  BY <1>1 DEF Clear, Thread, Control, Owns, DeallocLabels, Types, LocalTypes, Pointers
<1>e. /\ UNCHANGED <<scope, flagged, count, freed, initialized, locals>> /\ Unlock(t)
      /\ pc'[t] = "free" /\ pc' \in [Threads -> Labels]
      /\ \A u \in Threads : u # t => pc'[u] = pc[u]
      /\ value' \in [Locs -> Pointers] /\ registered' \in [Objs -> SUBSET Locs]
      /\ \A l \in Locs :
           value'[l] = IF l \in registered[o] /\ value[l] = o THEN Nil ELSE value[l]
      /\ registered'[o] = {}
      /\ \A p \in Objs : p # o => registered'[p] = registered[p]
  BY <1>1, <1>2 DEF Clear, Goto, Types, LocalTypes, Labels, DeallocLabels, Pointers
<1>3. /\ lock' \in [Stripes -> Threads \cup {NoThread}] /\ \A s \in Stripes : lock'[s] # t
      /\ \A u \in Threads : u # t => \A s \in Stripes : lock'[s] = u <=> lock[s] = u
  BY <1>e, Unlocked
<1>4. OnlyStep(t)
  BY <1>3, <1>e DEF OnlyStep, Same, SameLocals, locals
<1>5. Types'
  BY <1>1, <1>3, <1>e DEF Types, LocalTypes, locals
\* who works on a variable has the table of the object it held and of the new one
<1>6. ASSUME NEW u \in Threads, NEW l \in Locs, Working(u, l)
      PROVE  /\ u # t /\ (scope[l] => value[l] # o)
             /\ pc[u] # "register" => new[u] # o
  <2>1. /\ Thread(u) /\ u # t /\ pc[u] \in WorkLabels /\ dst[u] = l
        /\ op[u] \in {"store", "init", "copy", "move"} /\ HaveNew(u)
    BY <1>2, <1>6 DEF Working, WorkLabels, IInv, Thread, Control, HaveNew
  <2>2. scope[l] => op[u] = "store"
    BY <2>1 DEF Thread, Scopes, WorkLabels, DeallocLabels
  <2>3. op[u] = "store" => value[l] = old[u] /\ lock[Stripe[old[u]]] = u
    BY <2>1 DEF Thread, Owns, Location, HaveOld, WorkLabels, LockedLabels
  <2>4. pc[u] # "register" /\ new[u] # Nil => lock[Stripe[new[u]]] = u
    BY <2>1 DEF Thread, Owns, WorkLabels, LockedLabels
  <2> QED
    BY <1>2, <2>1, <2>2, <2>3, <2>4
<1>7. \A l \in Locs : scope[l] => value'[l] # o
  BY <1>2, <1>6, <1>e DEF IInv, Registration
<1>8. Thread(t)'
  <2>1. Control(t)'
    BY <1>1, <1>2, <1>e DEF Thread, Control, StoreLabels, WorkLabels, LoadLabels,
         DeallocLabels, locals
  <2>2. Scopes(t)'
    BY <1>1, <1>2, <1>e DEF Thread, Scopes, DeallocLabels, locals
  <2>3. Owns(t)'
    BY <1>3, <1>7, <1>e DEF Owns, LockedLabels, WorkLabels, locals
  <2>4. Refers(t)'
    BY <1>e DEF Refers, StoreLabels
  <2> QED
    BY <2>1, <2>2, <2>3, <2>4 DEF Thread
<1>9. Registration'
  <2>1. \A u \in Threads, l \in Locs :
          /\ Working(u, l)' <=> Working(u, l)
          /\ Working(u, l) => (pc'[u] = "register" <=> pc[u] = "register") /\ new'[u] = new[u]
    BY <1>2, <1>e DEF Working, WorkLabels, locals
  <2> SUFFICES ASSUME NEW l \in Locs, NEW p \in Objs
               PROVE  /\ \A u \in Threads : Working(u, l)' =>
                           (l \in registered'[p] <=> pc'[u] # "register" /\ new'[u] = p)
                      /\ (\A u \in Threads : ~Working(u, l)') =>
                           (l \in registered'[p] <=> scope[l] /\ value'[l] = p)
    BY <1>e DEF Registration
  <2>2. CASE p = o
    BY <1>6, <1>7, <1>e, <2>1, <2>2
  <2>3. CASE p # o
    <3>1. (l \in registered'[p] <=> l \in registered[p]) /\ (value'[l] = p <=> value[l] = p)
      BY <1>2, <1>e, <2>3, WeakAssumption
    <3> QED
      BY <2>1, <3>1 DEF IInv, Registration
  <2> QED
    BY <2>2, <2>3
<1>10. Lives' /\ Ordered'
  BY <1>4, <1>e, LivesKept, OrderedKept DEF locals
<1>11. Pointing'
  BY <1>e DEF IInv, Pointing
<1>12. \A u \in Threads : u # t => Harmless(u)
  BY <1>2, <1>e DEF Harmless
<1> QED
  BY <1>4, <1>5, <1>8, <1>9, <1>10, <1>11, <1>12, <1>e, Together DEF locals, Own

-----------------------------------------------------------------------------
(* The invariant                                                           *)

\* No call is under way at first.
LEMMA InitIInv == Init => IInv
<1> SUFFICES ASSUME Init PROVE IInv
  OBVIOUS
<1>1. Types
  BY DEF Init, Types, LocalTypes, Labels, Ops, Pointers
<1>2. ASSUME NEW t \in Threads
      PROVE  Thread(t)
  <2>1. Control(t)
    BY DEF Init, Control, StoreLabels, WorkLabels, LoadLabels, DeallocLabels
  <2>2. Scopes(t)
    BY DEF Init, Scopes
  <2>3. Owns(t)
    BY WeakAssumption DEF Init, Owns, LockedLabels, WorkLabels
  <2>4. Refers(t)
    BY DEF Init, Refers, StoreLabels
  <2> QED
    BY <2>1, <2>2, <2>3, <2>4 DEF Thread
<1>3. Exclusive /\ Pointing /\ Ordered
  BY DEF Init, Exclusive, Own, Pointing, Ordered
<1>4. Registration
  BY WeakAssumption DEF Init, Registration, Working, WorkLabels
<1>5. Lives
  <2>1. \A o \in Objs : o # Nil /\ count[o] = 1 /\ ~freed[o]
    BY WeakAssumption DEF Init
  <2>2. \A t \in Threads : dying[t] = Nil /\ held[t] = Nil
    BY DEF Init
  <2>3. ASSUME NEW o \in Objs
        PROVE  Cardinality(Holders(o)) = 0
    <3>1. Holders(o) = {}
      BY <2>1, <2>2 DEF Holders
    <3> QED
      BY <3>1, FS_EmptySet
  <2> QED
    BY <2>1, <2>2, <2>3 DEF Lives
<1> QED
  BY <1>1, <1>2, <1>3, <1>4, <1>5 DEF IInv

\* Every call, with what its caller makes sure of.
LEMMA CallsStep ==
  ASSUME IInv, NEW t \in Threads, Calls(t)
  PROVE  IInv'
<1> USE DEF Allowed, CanCall
<1>0. Nil \in Pointers /\ Objs \subseteq Pointers
  BY DEF Pointers
<1>1. ASSUME NEW l \in Locs, NEW o \in Pointers, Store(t, l, o)
      PROVE  IInv'
  <2>1. Allowed(t, "store", l, NoLoc, o, "read")
    BY <1>1 DEF Store
  <2> QED
    BY <1>1, <2>1, CallStep DEF Store
<1>2. ASSUME NEW l \in Locs, NEW o \in Objs, InitWeak(t, l, o)
      PROVE  IInv'
  <2>1. Allowed(t, "init", l, NoLoc, o, "read")
    BY <1>2 DEF InitWeak, CanStore
  <2> QED
    BY <1>0, <1>2, <2>1, CallStep DEF InitWeak
<1>3. ASSUME NEW l \in Locs, DestroyWeak(t, l)
      PROVE  IInv'
  <2>1. Allowed(t, "destroy", l, NoLoc, Nil, "read")
    BY <1>3 DEF DestroyWeak
  <2> QED
    BY <1>0, <1>3, <2>1, CallStep DEF DestroyWeak
<1>4. ASSUME NEW l \in Locs, LoadWeak(t, l)
      PROVE  IInv'
  <2>1. Allowed(t, "load", NoLoc, l, Nil, "loadRead")
    BY <1>4, WeakAssumption DEF LoadWeak, Shareable
  <2> QED
    BY <1>0, <1>4, <2>1, CallStep DEF LoadWeak
<1>5. ASSUME NEW l \in Locs, NEW s \in Locs, CopyWeak(t, l, s)
      PROVE  IInv'
  <2>1. Allowed(t, "copy", l, s, Nil, "loadRead")
    BY <1>5 DEF CopyWeak, Shareable
  <2> QED
    BY <1>0, <1>5, <2>1, CallStep DEF CopyWeak
<1>6. ASSUME NEW l \in Locs, NEW s \in Locs, MoveWeak(t, l, s)
      PROVE  IInv'
  <2>1. Allowed(t, "move", l, s, Nil, "loadRead")
    BY <1>6 DEF MoveWeak
  <2> QED
    BY <1>0, <1>6, <2>1, CallStep DEF MoveWeak
<1> QED
  BY <1>1, <1>2, <1>3, <1>4, <1>5, <1>6, InitWeakNilStep, ReleaseStep DEF Calls

\* Every step keeps the invariant.
LEMMA NextIInv == IInv /\ [Next]_vars => IInv'
<1> SUFFICES ASSUME IInv, [Next]_vars PROVE IInv'
  OBVIOUS
<1>1. CASE UNCHANGED vars
  <2>1. \A u \in Threads : Same(u) /\ Harmless(u)
    BY <1>1 DEF vars, memory, locals, Same, SameLocals, Harmless
  <2>2. \A u \in Threads : Thread(u)'
    BY <2>1, OthersKeep
  <2> USE <1>1 DEF vars, memory, locals, IInv
  <2>3. Types' /\ Pointing'
    BY DEF Types, LocalTypes, Pointing
  <2>4. Exclusive'
    BY DEF Exclusive, Own
  <2>5. Registration'
    BY DEF Registration, Working
  <2>6. Lives'
    BY DEF Lives, Holders
  <2>7. Ordered'
    BY DEF Ordered, Missing, Tables, HaveOld, HaveNew
  <2> QED
    BY <2>2, <2>3, <2>4, <2>5, <2>6, <2>7
<1>2. ASSUME NEW t \in Threads, Steps(t)
      PROVE  IInv'
  BY <1>2, ReadStep, LockTablesStep, CheckStep, InitializeStep, UnregisterStep, RegisterStep,
     SetWeaklyReferencedStep, WriteStep, LoadReadStep, LoadLockStep, LoadCheckStep, LoadTryStep,
     MoveClearStep, CopyReleaseStep, FreedStep, ClearLockStep, ClearStep DEF Steps
<1> QED
  BY <1>1, <1>2, CallsStep DEF Next

\* The invariant holds in every state: where each thread is decides which variables are
\* its own, which side tables it has locked, what they protect and which reference it
\* keeps.
THEOREM Invariant == Spec => []IInv
BY InitIInv, NextIInv, PTL DEF Spec

-----------------------------------------------------------------------------
(* The properties                                                          *)

\* However stores, loads, copies, moves and deallocations interleave, on any number of
\* threads, variables, objects and side tables, the weak table of a side table nobody
\* holds lists exactly the variables in scope that hold each of its objects: storeWeak's
\* two locks and its second read of the variable suffice.
THEOREM WeakTablesAgree == Spec => []TableAgrees
<1>1. IInv => TableAgrees
  <2> SUFFICES ASSUME IInv, NEW o \in Objs, lock[Stripe[o]] = NoThread
               PROVE  /\ \A l \in registered[o] : value[l] = o
                      /\ {l \in Locs : scope[l] /\ value[l] = o} \subseteq registered[o]
    BY DEF TableAgrees
  <2>1. registered[o] \subseteq Locs
    BY DEF IInv, Types
  <2>2. ASSUME NEW l \in Locs, NEW t \in Threads, Working(t, l)
        PROVE  l \notin registered[o] /\ ~(scope[l] /\ value[l] = o)
    <3>1. /\ Thread(t) /\ pc[t] \in WorkLabels /\ dst[t] = l
          /\ op[t] \in {"store", "init", "copy", "move"} /\ HaveNew(t)
      BY <2>2 DEF Working, WorkLabels, IInv, Thread, Control, HaveNew
    <3>2. scope[l] => op[t] = "store"
      BY <3>1 DEF Thread, Scopes, WorkLabels, DeallocLabels
    <3>3. op[t] = "store" => value[l] = old[t] /\ lock[Stripe[old[t]]] = t
      BY <3>1 DEF Thread, Owns, Location, HaveOld, WorkLabels, LockedLabels
    <3>4. pc[t] # "register" /\ new[t] # Nil => lock[Stripe[new[t]]] = t
      BY <3>1 DEF Thread, Owns, WorkLabels, LockedLabels
    <3>5. l \in registered[o] => pc[t] # "register" /\ new[t] = o
      BY <2>2 DEF IInv, Registration
    <3> QED
      BY <3>2, <3>3, <3>4, <3>5, WeakAssumption
  <2> QED
    BY <2>1, <2>2 DEF IInv, Registration
<1> QED
  BY <1>1, Invariant, PTL

\* Weak references never dangle: for any number of threads, no variable in scope points
\* to a freed object, and no operation touches one that it got from a variable.
THEOREM NeverDangles == Spec => []FreedIsUnreachable
<1>1. IInv => FreedIsUnreachable
  <2> SUFFICES ASSUME IInv
               PROVE  FreedIsUnreachable
    OBVIOUS
  <2>1. \A l \in Locs : scope[l] /\ value[l] # Nil => ~freed[value[l]]
    BY DEF IInv, Pointing
  <2>2. ASSUME NEW t \in Threads, new[t] # Nil,
               pc[t] \in {"check", "initialize", "register", "flag", "loadTry", "copyRelease"}
        PROVE  ~freed[new[t]]
    <3>1. Thread(t) /\ new[t] \in Objs
      BY <2>2 DEF IInv, Types, LocalTypes, Pointers
    <3>2. held[t] # Nil => ~freed[held[t]]
      BY HolderLives
    <3>3. dying[t] = new[t] => ~freed[new[t]]
      BY <3>1 DEF IInv, Lives
    <3>4. CASE pc[t] = "loadTry"
      <4>1. src[t] \in Locs /\ scope[src[t]] /\ value[src[t]] = new[t]
        BY <3>1, <3>4 DEF Thread, Control, Scopes, Owns, LoadLabels
      <4> QED
        BY <2>1, <2>2, <4>1
    <3>5. CASE pc[t] = "copyRelease"
      BY <2>2, <3>1, <3>2, <3>5 DEF Thread, Control, Refers
    <3>6. CASE pc[t] \in {"check", "initialize", "register", "flag"}
      BY <2>2, <3>1, <3>2, <3>3, <3>6 DEF Thread, Refers, StoreLabels
    <3> QED
      BY <2>2, <3>4, <3>5, <3>6
  <2> QED
    BY <2>1, <2>2 DEF FreedIsUnreachable
<1> QED
  BY <1>1, Invariant, PTL

\* A load that got as far as the weak table under the lock reads the truth: the variable
\* still holds the object, and while the object lives the load retains it.
THEOREM LoadsFindLive == Spec => []LoadFindsLive
<1>1. IInv => LoadFindsLive
  <2> SUFFICES ASSUME IInv, NEW t \in Threads, pc[t] = "loadTry"
               PROVE  value[src[t]] = new[t] /\ (count[new[t]] > 0 => CanRetain(t))
    BY DEF LoadFindsLive
  <2>1. /\ Thread(t) /\ src[t] \in Locs /\ scope[src[t]] /\ value[src[t]] = new[t]
        /\ new[t] \in Objs /\ lock[Stripe[new[t]]] = t
    BY DEF IInv, Types, LocalTypes, Pointers, Thread, Control, Scopes, Owns, LoadLabels
  <2>2. ASSUME NEW u \in Threads
        PROVE  ~Working(u, src[t])
    <3>1. ASSUME Working(u, src[t])
          PROVE  FALSE
      <4>1. /\ Thread(u) /\ pc[u] \in WorkLabels /\ dst[u] = src[t] /\ u # t
            /\ op[u] \in {"store", "init", "copy", "move"} /\ HaveNew(u)
        BY <3>1 DEF Working, WorkLabels, IInv, Thread, Control, HaveNew
      <4>2. op[u] = "store"
        BY <2>1, <4>1 DEF Thread, Scopes, WorkLabels, DeallocLabels
      <4>3. value[src[t]] = old[u] /\ lock[Stripe[old[u]]] = u
        BY <4>1, <4>2 DEF Thread, Owns, Location, HaveOld, WorkLabels, LockedLabels
      <4> QED
        BY <2>1, <4>1, <4>3
    <3> QED
      BY <3>1
  <2>3. src[t] \in registered[new[t]]
    BY <2>1, <2>2 DEF IInv, Registration
  <2> QED
    BY <2>1, <2>3 DEF CanRetain
<1> QED
  BY <1>1, Invariant, PTL

\* The side table a waiting thread waits for.
Wanted(t) == IF pc[t] = "lock" THEN NextLock(t)
             ELSE IF pc[t] = "loadLock" THEN Stripe[new[t]] ELSE Stripe[dying[t]]

\* lockTwo's order: whoever has the side table a thread waits for does not wait, or waits
\* for a lower one.
LEMMA WaitsDownwards ==
  ASSUME IInv, NEW t \in Threads, Waiting(t)
  PROVE  /\ Wanted(t) \in Nat
         /\ \E u \in Threads : pc[u] # "idle" /\ (Waiting(u) => Wanted(u) < Wanted(t))
<1>1. Wanted(t) \in Stripes /\ Stripes \subseteq Nat /\ lock[Wanted(t)] # NoThread
  <2>1. Stripe[new[t]] \in Stripes /\ Stripe[dying[t]] \in Stripes /\ Stripes \subseteq Nat
    BY WeakAssumption DEF IInv, Types, LocalTypes, Stripes
  <2>2. pc[t] = "lock" => NextLock(t) \in Stripes
    BY AtLock
  <2> QED
    BY <2>1, <2>2 DEF Waiting, Wanted
<1>2. PICK u \in Threads : lock[Wanted(t)] = u
  BY <1>1 DEF IInv, Types
<1>3. /\ Thread(u)
      /\ pc[u] \in LockedLabels \cup {"lock", "loadCheck", "loadTry", "clear"}
  BY <1>1, <1>2 DEF IInv, Thread, Owns
<1>4. pc[u] # "idle" /\ (Waiting(u) => pc[u] = "lock")
  BY <1>3 DEF Waiting, LockedLabels
<1>5. ASSUME pc[u] = "lock"
      PROVE  NextLock(u) < Wanted(t)
  <2>1. NextLock(u) \in Missing(u)
    BY <1>5, AtLock
  <2> QED
    BY <1>1, <1>2, <1>5, <2>1 DEF IInv, Ordered
<1> QED
  BY <1>1, <1>4, <1>5 DEF Wanted

\* No number of threads, in storeWeak, in loads and in -dealloc, can come to wait for
\* each other's side tables.
THEOREM NeverCircular == Spec => []NoCircularWait
<1>1. IInv => NoCircularWait
  <2> SUFFICES ASSUME IInv, NEW t0 \in Threads, pc[t0] # "idle",
                      \A t \in Threads : pc[t] # "idle" => Waiting(t)
               PROVE  FALSE
    BY DEF NoCircularWait
  <2> DEFINE Wants == {Wanted(t) : t \in {u \in Threads : pc[u] # "idle"}}
  <2>1. Wants \in SUBSET Nat /\ Wants # {}
    BY WaitsDownwards
  <2> HIDE DEF Wants
  <2>2. PICK n \in Wants : \A m \in Wants : n <= m
    BY <2>1, LeastOf
  <2>3. PICK t \in Threads : pc[t] # "idle" /\ n = Wanted(t)
    BY <2>2 DEF Wants
  <2>4. PICK u \in Threads : pc[u] # "idle" /\ (Waiting(u) => Wanted(u) < Wanted(t))
    BY <2>3, WaitsDownwards
  <2>5. Wanted(u) \in Wants
    BY <2>4 DEF Wants
  <2>6. Wanted(u) < n /\ n <= Wanted(u) /\ n \in Nat /\ Wanted(u) \in Nat
    BY <2>1, <2>2, <2>3, <2>4, <2>5
  <2> QED
    BY <2>6
<1> QED
  BY <1>1, Invariant, PTL

\* A variable lets go of an object only in a store to it, or once the object's last
\* reference is gone: no deallocation of another object, no move and no load clears it.
THEOREM OnlyDeath == Spec => OnlyDeathClears
<1>1. ASSUME IInv, [Next]_vars, NEW l \in Locs, scope[l], value[l] # Nil, value'[l] # value[l]
      PROVE  count[value[l]] = 0 \/ \E t \in Threads : pc[t] = "write" /\ dst[t] = l
  <2>1. PICK t \in Threads : Calls(t) \/ Steps(t)
    BY <1>1 DEF Next, vars, memory
  <2>2. Thread(t) /\ value \in [Locs -> Pointers]
    BY <1>1 DEF IInv, Types
  <2>3. CASE Calls(t)
    <3>1. PICK k \in Locs : InitWeakNil(t, k)
      BY <1>1, <2>3 DEF Calls, Store, InitWeak, DestroyWeak, LoadWeak, CopyWeak, MoveWeak,
           Release, Call, memory
    <3> QED
      BY <1>1, <2>2, <3>1 DEF InitWeakNil
  <2>4. CASE Write(t)
    BY <1>1, <2>2, <2>4 DEF Write
  <2>5. CASE Clear(t)
    <3>1. dying[t] = value[l] /\ value[l] \in Objs
      BY <1>1, <2>2, <2>5 DEF Clear, Pointers
    <3> QED
      BY <1>1, <3>1 DEF IInv, Lives
  <2>6. CASE LoadRead(t) \/ LoadTry(t)
    <3>1. pc[t] \in {"loadRead", "loadTry"} /\ op[t] \in {"copy", "move"} /\ CopiedNil(t)
      BY <1>1, <2>2, <2>6 DEF LoadRead, LoadTry, LoadsNil, Thread, Control, LoadLabels
    <3>2. ~scope[dst[t]]
      BY <2>2, <3>1 DEF Thread, Scopes, DeallocLabels
    <3> QED
      BY <1>1, <2>2, <3>1, <3>2 DEF CopiedNil
  <2>7. CASE MoveClear(t)
    <3>1. ~scope[src[t]]
      BY <2>2, <2>7 DEF MoveClear, Thread, Control, Scopes
    <3> QED
      BY <1>1, <2>2, <2>7, <3>1 DEF MoveClear, MoveSource
  <2>8. CASE Read(t) \/ LockTables(t) \/ Check(t) \/ Initialize(t) \/ Unregister(t) \/ Register(t)
             \/ SetWeaklyReferenced(t) \/ LoadLock(t) \/ LoadCheck(t) \/ CopyRelease(t)
             \/ RootDealloc(t) \/ ClearLock(t) \/ Dispose(t)
    BY <1>1, <2>8 DEF Read, LockTables, Check, Initialize, Unregister, Register,
         SetWeaklyReferenced, LoadLock, LoadCheck, CopyRelease, RootDealloc, ClearLock, Dispose,
         Freed, memory
  <2> QED
    BY <2>1, <2>3, <2>4, <2>5, <2>6, <2>7, <2>8 DEF Steps
<1>2. IInv /\ [Next]_vars =>
        [\A l \in Locs : scope[l] /\ value[l] # Nil /\ value'[l] # value[l] =>
           \/ count[value[l]] = 0
           \/ \E t \in Threads : pc[t] = "write" /\ dst[t] = l]_vars
  BY <1>1
<1> QED
  BY <1>2, Invariant, PTL DEF Spec, OnlyDeathClears

-----------------------------------------------------------------------------
(* WeakTable: the referrers and the entries                                *)

RefSlots(n) == [0 .. n - 1 -> Referrers \cup {NoReferrer}]
Entries == [referent : Referents, out_of_line : BOOLEAN, num : Nat, reach : Nat,
            refs : UNION {RefSlots(n) : n \in Nat}]

\* The entry e has n slots and in them, once each, the referrers S. If they are hashed, they are
\* counted, and each lies within the reach of its hash.
EntryHas(e, n, S) ==
  /\ n \in Nat \ {0} /\ e \in Entries /\ e.refs \in RefSlots(n)
  /\ \A i, j \in 0 .. n - 1 : e.refs[i] = e.refs[j] /\ e.refs[i] # NoReferrer => i = j
  /\ \A r : r \in S <=> r # NoReferrer /\ \E i \in 0 .. n - 1 : e.refs[i] = r
  /\ e.out_of_line =>
       /\ e.num = Cardinality(Held(e))
       /\ \A i \in Held(e) : Within(e.refs, i, HashReferrer[e.refs[i]], e.reach)
  /\ ~e.out_of_line => n = InlineCount

\* How many slots a function from 0 .. n - 1 has.
LEMMA SizeIs ==
  ASSUME NEW n \in Nat, NEW slots, DOMAIN slots = 0 .. n - 1
  PROVE  Size(slots) = n
<1>1. Cardinality(0 .. n - 1) = IF 0 > n - 1 THEN 0 ELSE n - 1 - 0 + 1
  BY FS_Interval
<1> QED
  BY <1>1 DEF Size

\* A displacement leads to a free slot if there is one.
LEMMA FirstFree ==
  ASSUME NEW n \in Nat \ {0}, NEW slots, DOMAIN slots = 0 .. n - 1, NEW free, NEW h \in Nat,
         NEW f \in 0 .. n - 1, slots[f] = free
  PROVE  LET d == Displacement(slots, free, h) IN
         /\ d \in 0 .. n - 1 /\ SlotAt(h, d, n) \in 0 .. n - 1 /\ slots[SlotAt(h, d, n)] = free
         /\ Further(h, SlotAt(h, d, n), n) = d
<1> DEFINE D == {d \in 0 .. n - 1 : slots[SlotAt(h, d, n)] = free}
<1>1. Displacement(slots, free, h) = Min(D)
  BY SizeIs DEF Displacement, SlotAt
<1>2. PICK c : c \in 0 .. n - 1 /\ SlotAt(h, c, n) = f
  BY Distance
<1>3. D \in SUBSET Nat /\ D # {}
  BY <1>2
<1> HIDE DEF D
<1>4. Min(D) \in D
  BY <1>3, LeastOf DEF Min
<1>5. PICK d : d = Displacement(slots, free, h) /\ d \in 0 .. n - 1 /\ slots[SlotAt(h, d, n)] = free
  BY <1>1, <1>4 DEF D
<1>6. SlotAt(h, d, n) \in 0 .. n - 1 /\ Further(h, SlotAt(h, d, n), n) = d
  BY <1>5, Distance
<1> QED
  BY <1>5, <1>6, Zenon

\* What the assumptions say of the hashes and the sizes.
LEMMA ConstantFacts ==
  /\ NoReferent \notin Referents /\ NoReferrer \notin Referrers
  /\ \A r \in Referrers : HashReferrer[r] \in Nat
  /\ \A o \in Referents : HashReferent[o] \in Nat
  /\ InlineCount \in Nat /\ InlineCount > 1 /\ FirstSize \in Nat /\ FirstSize > 1
  /\ CompactSize \in Nat /\ CompactSize > 1
<1>1. \A x \in {2 ^ i : i \in 1 .. 20} : x \in Nat /\ x > 1
  OBVIOUS
<1> QED
  BY <1>1, WeakTableAssumption

-----------------------------------------------------------------------------
(* The referrers of one entry                                              *)

\* hash_in_referrer: a free slot for a new referrer.
LEMMA HashInAdds ==
  ASSUME NEW e, NEW n, NEW S, EntryHas(e, n, S), e.out_of_line, e.num # n,
         NEW r \in Referrers \ S
  PROVE  LET x == HashIn(e, r) IN
         /\ EntryHas(x, n, S \cup {r}) /\ x.out_of_line /\ x.num = e.num + 1
         /\ x.referent = e.referent
<1> DEFINE x == HashIn(e, r)
<1>0. PICK h, d, s : h = HashReferrer[r] /\ d = Displacement(e.refs, NoReferrer, h) /\ s = SlotAt(h, d, n)
  OBVIOUS
<1>1. /\ n \in Nat \ {0} /\ e \in Entries /\ e.refs \in RefSlots(n) /\ DOMAIN e.refs = 0 .. n - 1
      /\ e.num \in Nat /\ e.reach \in Nat /\ h \in Nat /\ e.out_of_line
      /\ Held(e) = {i \in 0 .. n - 1 : e.refs[i] # NoReferrer} /\ e.num = Cardinality(Held(e))
  BY <1>0, ConstantFacts DEF EntryHas, Entries, RefSlots, Held
<1>2. PICK f \in 0 .. n - 1 : e.refs[f] = NoReferrer
  <2>1. Held(e) \in SUBSET (0 .. n - 1) /\ Cardinality(Held(e)) # n
    BY <1>1
  <2>2. \E i \in 0 .. n - 1 : i \notin Held(e)
    BY <1>1, <2>1, FreeSlot
  <2> QED
    BY <1>1, <2>2
<1>3. /\ d \in 0 .. n - 1 /\ s \in 0 .. n - 1 /\ e.refs[s] = NoReferrer /\ Further(h, s, n) = d
  <2>1. n \in Nat \ {0} /\ DOMAIN e.refs = 0 .. n - 1 /\ h \in Nat
    BY <1>1
  <2> QED
    BY <1>0, <1>2, <2>1, FirstFree, SMT
<1>4. Size(e.refs) = n
  BY <1>1, SizeIs
<1>5. x = [e EXCEPT !.refs[s] = r, !.num = @ + 1, !.reach = Reached(@, d)]
  BY <1>0, <1>4 DEF HashIn, SlotAt
<1>6. /\ x \in Entries /\ x.refs = [e.refs EXCEPT ![s] = r] /\ x.num = e.num + 1
      /\ x.reach = Reached(e.reach, d) /\ x.referent = e.referent /\ x.out_of_line
      /\ x.refs \in RefSlots(n)
  <2>1. Reached(e.reach, d) \in Nat
    BY <1>1, <1>3 DEF Reached
  <2>2. [e.refs EXCEPT ![s] = r] \in RefSlots(n)
    BY <1>1, <1>3 DEF RefSlots
  <2>3. PICK c, g, k : c = Reached(e.reach, d) /\ g = [e.refs EXCEPT ![s] = r] /\ k = e.num + 1
    OBVIOUS
  <2>4. g \in UNION {RefSlots(m) : m \in Nat}
    BY <1>1, <2>2, <2>3
  <2>5. x = [e EXCEPT !.refs = g, !.num = k, !.reach = c]
    BY <1>1, <1>5, <2>3 DEF Entries
  <2>0. c \in Nat /\ k \in Nat
    BY <1>1, <2>1, <2>3
  <2>6. x \in Entries /\ x.refs = g /\ x.num = k /\ x.reach = c
        /\ x.referent = e.referent /\ x.out_of_line = e.out_of_line
    BY <1>1, <2>0, <2>4, <2>5 DEF Entries
  <2> QED
    BY <1>1, <2>2, <2>3, <2>6
<1> HIDE DEF x
<1>7. \A i \in 0 .. n - 1 : x.refs[i] = IF i = s THEN r ELSE e.refs[i]
  BY <1>1, <1>6 DEF RefSlots
<1>8. r # NoReferrer /\ \A i \in 0 .. n - 1 : e.refs[i] # r
  BY ConstantFacts DEF EntryHas
<1>9. Held(x) = Held(e) \cup {s} /\ s \notin Held(e)
  BY <1>1, <1>3, <1>6, <1>7, <1>8 DEF Held, RefSlots
<1>10. x.num = Cardinality(Held(x))
  <2>1. IsFiniteSet(Held(e))
    <3>1. IsFiniteSet(0 .. n - 1) /\ Held(e) \subseteq 0 .. n - 1
      BY <1>1, FS_Interval
    <3> QED
      BY <3>1, FS_Subset
  <2>2. Cardinality(Held(e) \cup {s}) = Cardinality(Held(e)) + 1
    BY <1>9, <2>1, FS_AddElement
  <2> QED
    BY <1>1, <1>6, <1>9, <2>2
<1>11. ASSUME NEW i \in Held(x)
       PROVE  Within(x.refs, i, HashReferrer[x.refs[i]], x.reach)
  <2>1. Size(x.refs) = n
    BY <1>1, <1>6, SizeIs DEF RefSlots
  <2>2. CASE i = s
    <3>1. HashReferrer[x.refs[i]] = h
      BY <1>0, <1>3, <1>7, <2>2
    <3>2. Further(h, i, n) <= x.reach
      BY <1>1, <1>3, <1>6, <2>2 DEF Reached
    <3> QED
      BY <2>1, <3>1, <3>2 DEF Within, Further
  <2>3. CASE i # s
    <3>1. i \in Held(e) /\ i \in 0 .. n - 1 /\ x.refs[i] = e.refs[i]
      BY <1>1, <1>7, <1>9, <2>3
    <3>2. Within(e.refs, i, HashReferrer[e.refs[i]], e.reach)
      BY <3>1 DEF EntryHas
    <3>3. HashReferrer[e.refs[i]] \in Nat
      BY <1>1, <3>1, ConstantFacts DEF RefSlots
    <3>4. Further(HashReferrer[e.refs[i]], i, n) <= e.reach
      BY <1>4, <3>2 DEF Within, Further
    <3>5. PICK g, q : g = HashReferrer[e.refs[i]] /\ q = Further(g, i, n)
      OBVIOUS
    <3>6. q \in Nat /\ q <= e.reach
      <4>1. n \in Nat \ {0} /\ g \in Nat /\ i \in 0 .. n - 1
        BY <1>1, <3>1, <3>3, <3>5
      <4>2. q \in 0 .. n - 1
        BY <3>5, <4>1, Distance
      <4> QED
        BY <3>4, <3>5, <4>1, <4>2
    <3>7. q <= x.reach
      BY <1>1, <1>3, <1>6, <3>6 DEF Reached
    <3> QED
      BY <2>1, <3>1, <3>5, <3>7 DEF Within, Further
  <2> QED
    BY <2>2, <2>3
<1>12. \A i, j \in 0 .. n - 1 : x.refs[i] = x.refs[j] /\ x.refs[i] # NoReferrer => i = j
  BY <1>7, <1>8 DEF EntryHas
<1>13. \A q : q \in S \cup {r} <=> q # NoReferrer /\ \E i \in 0 .. n - 1 : x.refs[i] = q
  <2>1. ASSUME NEW q
        PROVE  q \in S \cup {r} <=> q # NoReferrer /\ \E i \in 0 .. n - 1 : x.refs[i] = q
    <3>1. q \in S <=> q # NoReferrer /\ \E i \in 0 .. n - 1 : e.refs[i] = q
      BY DEF EntryHas
    <3>2. q = r => \E i \in 0 .. n - 1 : x.refs[i] = q
      BY <1>3, <1>7
    <3>3. ASSUME NEW i \in 0 .. n - 1, e.refs[i] = q, q # NoReferrer
          PROVE  x.refs[i] = q
      BY <1>3, <1>7, <3>3
    <3>4. ASSUME NEW i \in 0 .. n - 1, x.refs[i] = q
          PROVE  q = r \/ e.refs[i] = q
      BY <1>7, <3>4
    <3> QED
      BY <1>8, <3>1, <3>2, <3>3, <3>4
  <2> QED
    BY <2>1
<1>14. EntryHas(x, n, S \cup {r})
  BY <1>1, <1>6, <1>10, <1>11, <1>12, <1>13 DEF EntryHas
<1> QED
  BY <1>6, <1>14 DEF x

\* The loop of Rehashed.
Rehashes(f, m, refs, e) ==
  f = [i \in 0 .. m |-> IF i = 0 THEN e
                        ELSE IF refs[i - 1] = NoReferrer THEN f[i - 1]
                        ELSE HashIn(f[i - 1], refs[i - 1])]

\* The referrers in the first i slots.
FirstRefs(refs, i) == {refs[j] : j \in 0 .. i - 1} \ {NoReferrer}

\* What is inserted again is what was there, once each.
LEMMA RehashedAdds ==
  ASSUME NEW m \in Nat, NEW refs \in RefSlots(m), NEW e, NEW n, EntryHas(e, n, {}),
         e.out_of_line, e.num = 0, m <= n,
         \A i, j \in 0 .. m - 1 : refs[i] = refs[j] /\ refs[i] # NoReferrer => i = j
  PROVE  LET x == Rehashed(refs, e) IN
         /\ EntryHas(x, n, FirstRefs(refs, m)) /\ x.out_of_line /\ x.num <= m
         /\ x.referent = e.referent
<1> DEFINE Like(x, i) == /\ EntryHas(x, n, FirstRefs(refs, i)) /\ x.out_of_line /\ x.num <= i
                         /\ x.referent = e.referent
           R == [i \in 0 .. m |-> {x \in Entries : Like(x, i)}]
           Turn(x, i) == IF refs[i - 1] = NoReferrer THEN x ELSE HashIn(x, refs[i - 1])
           g == [p \in Entries \X (1 .. m) |-> Turn(p[1], p[2])]
<1>1. ASSUME NEW i \in 1 .. m, NEW x \in R[i - 1]
      PROVE  x \in Entries /\ Turn(x, i) \in R[i]
  <2>1. i - 1 \in 0 .. m /\ i \in 0 .. m /\ i - 1 \in 0 .. m - 1
    OBVIOUS
  <2>2. x \in Entries /\ Like(x, i - 1)
    BY <2>1
  <2>3. PICK r : r = refs[i - 1]
    OBVIOUS
  <2>4. r \in Referrers \cup {NoReferrer}
    BY <2>1, <2>3 DEF RefSlots
  <2>5. FirstRefs(refs, i) = FirstRefs(refs, i - 1) \cup ({r} \ {NoReferrer})
    <3>1. 0 .. i - 1 = 0 .. (i - 1) - 1 \cup {i - 1}
      OBVIOUS
    <3> QED
      BY <2>3, <3>1 DEF FirstRefs
  <2>6. CASE r = NoReferrer
    <3>1. x.num \in Nat /\ x.num <= i
      BY <2>2 DEF Entries
    <3>2. Like(x, i)
      BY <2>2, <2>5, <2>6, <3>1
    <3>3. Turn(x, i) = x
      BY <2>3, <2>6
    <3> HIDE DEF Like, Turn
    <3> QED
      BY <2>1, <2>2, <3>2, <3>3
  <2>7. CASE r # NoReferrer
    <3>1. r \in Referrers \ FirstRefs(refs, i - 1)
      <4>1. ASSUME NEW j \in 0 .. (i - 1) - 1, refs[j] = r
            PROVE  FALSE
        <5>1. j \in 0 .. m - 1 /\ j # i - 1
          OBVIOUS
        <5> QED
          BY <2>1, <2>3, <2>7, <4>1, <5>1
      <4> QED
        BY <2>4, <2>7, <4>1 DEF FirstRefs
    <3>2. x.num \in Nat /\ x.num <= i - 1 /\ n \in Nat
      BY <2>2 DEF Entries, EntryHas
    <3>3. x.num # n
      BY <3>2
    <3>4. PICK y : y = HashIn(x, r)
      OBVIOUS
    <3>5. /\ EntryHas(y, n, FirstRefs(refs, i - 1) \cup {r}) /\ y.out_of_line
          /\ y.num = x.num + 1 /\ y.referent = x.referent
      BY <2>2, <3>1, <3>3, <3>4, HashInAdds
    <3>6. FirstRefs(refs, i) = FirstRefs(refs, i - 1) \cup {r}
      BY <2>5, <2>7
    <3>7. y \in Entries /\ Like(y, i)
      BY <2>2, <3>2, <3>5, <3>6 DEF EntryHas
    <3>8. Turn(x, i) = y
      BY <2>3, <2>7, <3>4
    <3> HIDE DEF Like, Turn
    <3> QED
      BY <2>1, <3>7, <3>8
  <2> QED
    BY <2>2, <2>6, <2>7
<1>2. e \in R[0]
  <2>1. FirstRefs(refs, 0) = {}
    BY DEF FirstRefs
  <2> QED
    BY <2>1 DEF EntryHas
<1>3. TurnsKeep(g, m, R)
  <2> SUFFICES ASSUME NEW i \in 1 .. m, NEW x \in R[i - 1]
               PROVE  g[<<x, i>>] \in R[i]
    BY DEF TurnsKeep
  <2>1. x \in Entries /\ Turn(x, i) \in R[i]
    BY <1>1
  <2> HIDE DEF R, Turn
  <2> QED
    BY <2>1
<1>4. PICK f : Loops(f, m, e, g) /\ \A i \in 0 .. m : f[i] \in R[i]
  <2> HIDE DEF R, g
  <2> QED
    BY <1>2, <1>3, LoopExists
<1>5. \A i \in 0 .. m : f[i] = IF i = 0 THEN e ELSE Turn(f[i - 1], i)
  <2> SUFFICES ASSUME NEW i \in 0 .. m
               PROVE  f[i] = IF i = 0 THEN e ELSE Turn(f[i - 1], i)
    OBVIOUS
  <2>1. CASE i = 0
    BY <1>4, <2>1 DEF Loops
  <2>2. CASE i # 0
    <3>1. i \in 1 .. m /\ i - 1 \in 0 .. m
      BY <2>2
    <3>2. f[i - 1] \in R[i - 1]
      BY <1>4, <3>1
    <3>3. f[i - 1] \in Entries
      BY <1>1, <3>1, <3>2
    <3>4. f[i] = g[<<f[i - 1], i>>]
      <4> HIDE DEF g
      <4> QED
        BY <1>4, <2>2 DEF Loops
    <3> HIDE DEF R, Turn
    <3> QED
      BY <2>2, <3>1, <3>3, <3>4
  <2> QED
    BY <2>1, <2>2
<1>6. Rehashes(f, m, refs, e)
  <2>1. f = [i \in 0 .. m |-> f[i]]
    <3> HIDE DEF g
    <3> QED
      BY <1>4 DEF Loops
  <2> QED
    BY <1>5, <2>1 DEF Rehashes
<1>7. Rehashes(CHOOSE h : Rehashes(h, m, refs, e), m, refs, e)
  BY <1>6, Zenon
<1>8. PICK h : (h = CHOOSE c : Rehashes(c, m, refs, e)) /\ Rehashes(h, m, refs, e)
  BY <1>7, Zenon
<1>9. Rehashed(refs, e) = h[m]
  <2>1. Size(refs) = m
    BY SizeIs DEF RefSlots
  <2> QED
    BY <1>8, <2>1 DEF Rehashed, Rehashes
<1>10. h[0] \in R[0] /\ \A i \in 1 .. m : h[i - 1] \in R[i - 1] => h[i] \in R[i]
  <2>1. \A i \in 0 .. m : h[i] = IF i = 0 THEN e ELSE Turn(h[i - 1], i)
    BY <1>8, Zenon DEF Rehashes
  <2> HIDE DEF R, Turn
  <2> QED
    BY <1>1, <1>2, <2>1
<1>11. h[m] \in R[m]
  <2> HIDE DEF R
  <2>1. \A i \in 0 .. m : h[i] \in R[i]
    BY <1>10, LoopKeeps
  <2> QED
    BY <2>1
<1> QED
  BY <1>9, <1>11

\* The slots of refs hold the referrers S, once each.
HoldsOnce(refs, n, S) ==
  /\ refs \in RefSlots(n)
  /\ \A i, j \in 0 .. n - 1 : refs[i] = refs[j] /\ refs[i] # NoReferrer => i = j
  /\ \A r : r \in S <=> r # NoReferrer /\ \E i \in 0 .. n - 1 : refs[i] = r

\* grow_refs_and_insert: twice the slots for the same referrers and a new one.
LEMMA GrowAdds ==
  ASSUME NEW e \in Entries, NEW n \in Nat \ {0}, NEW S, HoldsOnce(e.refs, n, S), e.out_of_line,
         NEW r \in Referrers \ S
  PROVE  LET x == GrowRefsAndInsert(e, r) IN
         /\ EntryHas(x, 2 * n, S \cup {r}) /\ x.out_of_line /\ x.referent = e.referent
<1>1. PICK refs : refs = e.refs
  OBVIOUS
<1>2. /\ refs \in RefSlots(n) /\ DOMAIN refs = 0 .. n - 1
      /\ \A i, j \in 0 .. n - 1 : refs[i] = refs[j] /\ refs[i] # NoReferrer => i = j
  BY <1>1 DEF HoldsOnce, RefSlots
<1>3. FirstRefs(refs, n) = S
  BY <1>1 DEF FirstRefs, HoldsOnce
<1>4. Size(e.refs) = n
  BY <1>1, <1>2, SizeIs
<1>5. PICK m : m = 2 * n /\ m \in Nat \ {0} /\ n <= m /\ n # m
  OBVIOUS
<1>6. PICK f : f = Slots(m, NoReferrer) /\ f \in RefSlots(m) /\ DOMAIN f = 0 .. m - 1
               /\ \A i \in 0 .. m - 1 : f[i] = NoReferrer
  <2>1. PICK f : f = Slots(m, NoReferrer)
    OBVIOUS
  <2>2. f = [i \in 0 .. m - 1 |-> NoReferrer]
    BY <2>1 DEF Slots
  <2> QED
    BY <2>1, <2>2 DEF RefSlots
<1>7. PICK c : c = [e EXCEPT !.refs = f, !.num = 0, !.reach = 0]
  OBVIOUS
<1>8. f \in UNION {RefSlots(k) : k \in Nat}
  BY <1>5, <1>6
<1>9. c \in Entries /\ c.refs = f /\ c.num = 0 /\ c.out_of_line /\ c.referent = e.referent
  BY <1>7, <1>8 DEF Entries
<1>10. EntryHas(c, m, {})
  <2>1. Held(c) = {}
    BY <1>6, <1>9 DEF Held
  <2>2. c.num = Cardinality(Held(c))
    BY <1>9, <2>1, FS_EmptySet
  <2> QED
    BY <1>5, <1>6, <1>9, <2>1, <2>2 DEF EntryHas
<1>11. PICK y : y = Rehashed(refs, c)
  OBVIOUS
<1>12. EntryHas(y, m, S) /\ y.out_of_line /\ y.num <= n /\ y.referent = e.referent
  <2>1. n \in Nat
    OBVIOUS
  <2> QED
    BY <1>2, <1>3, <1>5, <1>9, <1>10, <1>11, <2>1, RehashedAdds
<1>13. y.num # m
  <2>1. y.num \in Nat
    BY <1>12 DEF EntryHas, Entries
  <2> QED
    BY <1>5, <1>12, <2>1
<1>14. PICK x : x = HashIn(y, r)
  OBVIOUS
<1>15. EntryHas(x, m, S \cup {r}) /\ x.out_of_line /\ x.referent = e.referent
  BY <1>12, <1>13, <1>14, HashInAdds
<1>16. GrowRefsAndInsert(e, r) = x
  BY <1>1, <1>4, <1>5, <1>6, <1>7, <1>11, <1>14 DEF GrowRefsAndInsert
<1> QED
  BY <1>5, <1>15, <1>16

\* append_referrer: whatever the entry looks like, it has one referrer more.
LEMMA AppendAdds ==
  ASSUME NEW e, NEW n, NEW S, EntryHas(e, n, S), NEW r \in Referrers \ S
  PROVE  \E m : /\ EntryHas(AppendReferrer(e, r), m, S \cup {r})
                /\ AppendReferrer(e, r).referent = e.referent
<1>1. /\ n \in Nat \ {0} /\ e \in Entries /\ e.refs \in RefSlots(n) /\ DOMAIN e.refs = 0 .. n - 1
      /\ e.num \in Nat /\ e.out_of_line \in BOOLEAN /\ (~e.out_of_line => n = InlineCount)
  BY DEF EntryHas, Entries, RefSlots
<1>2. Size(e.refs) = n
  BY <1>1, SizeIs
<1> DEFINE nils == {i \in DOMAIN e.refs : e.refs[i] = NoReferrer}
<1>3. CASE ~e.out_of_line /\ nils # {}
  <2>1. PICK k : k = Min(nils) /\ k \in 0 .. n - 1 /\ e.refs[k] = NoReferrer
    <3>1. nils \in SUBSET Nat
      BY <1>1
    <3>2. Min(nils) \in nils
      <4> HIDE DEF nils
      <4> QED
        BY <1>3, <3>1, LeastOf DEF Min
    <3> QED
      BY <1>1, <3>2
  <2>2. PICK f : f = [e.refs EXCEPT ![k] = r]
    OBVIOUS
  <2>3. f \in RefSlots(n) /\ DOMAIN f = 0 .. n - 1
        /\ \A i \in 0 .. n - 1 : f[i] = IF i = k THEN r ELSE e.refs[i]
    BY <1>1, <2>1, <2>2 DEF RefSlots
  <2>4. f \in UNION {RefSlots(m) : m \in Nat}
    BY <1>1, <2>3
  <2>5. PICK x : x = AppendReferrer(e, r)
    OBVIOUS
  <2>6. x = [e EXCEPT !.refs[k] = r]
    BY <1>3, <2>1, <2>5 DEF AppendReferrer
  <2>7. x = [e EXCEPT !.refs = f]
    BY <1>1, <2>2, <2>6 DEF Entries
  <2>8. x \in Entries /\ x.refs = f /\ x.referent = e.referent /\ ~x.out_of_line
    BY <1>1, <1>3, <2>4, <2>7 DEF Entries
  <2>9. r # NoReferrer /\ \A i \in 0 .. n - 1 : e.refs[i] # r
    BY ConstantFacts DEF EntryHas
  <2>10. \A i, j \in 0 .. n - 1 : f[i] = f[j] /\ f[i] # NoReferrer => i = j
    BY <2>3, <2>9 DEF EntryHas
  <2>11. \A q : q \in S \cup {r} <=> q # NoReferrer /\ \E i \in 0 .. n - 1 : f[i] = q
    <3>1. ASSUME NEW q
          PROVE  q \in S \cup {r} <=> q # NoReferrer /\ \E i \in 0 .. n - 1 : f[i] = q
      <4>1. q \in S <=> q # NoReferrer /\ \E i \in 0 .. n - 1 : e.refs[i] = q
        BY DEF EntryHas
      <4>2. q = r => \E i \in 0 .. n - 1 : f[i] = q
        BY <2>1, <2>3
      <4>3. ASSUME NEW i \in 0 .. n - 1, e.refs[i] = q, q # NoReferrer
            PROVE  f[i] = q
        BY <2>1, <2>3, <4>3
      <4>4. ASSUME NEW i \in 0 .. n - 1, f[i] = q
            PROVE  q = r \/ e.refs[i] = q
        BY <2>3, <4>4
      <4> QED
        BY <2>9, <4>1, <4>2, <4>3, <4>4
    <3> QED
      BY <3>1
  <2>12. EntryHas(x, n, S \cup {r})
    BY <1>1, <1>3, <2>3, <2>8, <2>10, <2>11 DEF EntryHas
  <2> QED
    BY <2>5, <2>8, <2>12
<1>4. CASE ~(~e.out_of_line /\ nils # {})
  <2>1. PICK out : out = OutOfLine(e)
    OBVIOUS
  <2>2. /\ out \in Entries /\ out.refs = e.refs /\ out.referent = e.referent /\ out.out_of_line
        /\ (e.out_of_line => out = e) /\ (~e.out_of_line => out.num = n) /\ out.num \in Nat
    <3>1. CASE e.out_of_line
      BY <1>1, <2>1, <3>1 DEF OutOfLine
    <3>2. CASE ~e.out_of_line
      <4>1. PICK c : c = InlineCount
        OBVIOUS
      <4>2. c \in Nat
        BY <4>1, ConstantFacts
      <4>3. out = [e EXCEPT !.out_of_line = TRUE, !.num = c, !.reach = 0]
        BY <2>1, <3>2, <4>1 DEF OutOfLine
      <4> QED
        BY <1>1, <3>2, <4>1, <4>2, <4>3 DEF Entries
    <3> QED
      BY <1>1, <3>1, <3>2
  <2>3. AppendReferrer(e, r) = IF out.num >= (3 * n) \div 4 THEN GrowRefsAndInsert(out, r)
                               ELSE HashIn(out, r)
    BY <1>2, <1>4, <2>1 DEF AppendReferrer
  <2>4. CASE out.num >= (3 * n) \div 4
    <3>1. HoldsOnce(out.refs, n, S)
      BY <2>2 DEF EntryHas, HoldsOnce
    <3>2. PICK x : x = GrowRefsAndInsert(out, r)
      OBVIOUS
    <3>3. EntryHas(x, 2 * n, S \cup {r}) /\ x.referent = out.referent
      BY <1>1, <2>2, <3>1, <3>2, GrowAdds
    <3> QED
      BY <2>2, <2>3, <2>4, <3>2, <3>3
  <2>5. CASE ~(out.num >= (3 * n) \div 4)
    <3>1. PICK k : k = out.num
      OBVIOUS
    <3>2. k \in Nat /\ k < (3 * n) \div 4
      BY <1>1, <2>2, <2>5, <3>1
    <3>3. k # n
      BY <1>1, <3>2
    <3>4. out = e /\ e.out_of_line /\ e.num # n
      BY <1>1, <2>2, <3>1, <3>3
    <3>5. PICK x : x = HashIn(e, r)
      OBVIOUS
    <3>6. EntryHas(x, n, S \cup {r}) /\ x.referent = e.referent
      BY <3>4, <3>5, HashInAdds
    <3> QED
      BY <2>3, <2>5, <3>4, <3>5, <3>6
  <2> QED
    BY <2>4, <2>5
<1> QED
  BY <1>3, <1>4

\* remove_referrer finds a referrer where it is, and nowhere else.
LEMMA OneSlot ==
  ASSUME NEW e, NEW n, NEW S, EntryHas(e, n, S), NEW i \in Held(e)
  PROVE  i \in 0 .. n - 1 /\ e.refs[i] \in S /\ SlotsOf(e, e.refs[i]) = {i}
<1>1. DOMAIN e.refs = 0 .. n - 1 /\ i \in 0 .. n - 1 /\ e.refs[i] # NoReferrer
  BY DEF EntryHas, RefSlots, Held
<1>2. e.out_of_line => Within(e.refs, i, HashReferrer[e.refs[i]], e.reach)
  BY DEF EntryHas
<1> QED
  BY <1>1, <1>2 DEF EntryHas, SlotsOf

\* remove_referrer: a free slot for a referrer less.
LEMMA RemoveTakes ==
  ASSUME NEW e, NEW n, NEW S, EntryHas(e, n, S), NEW r \in S
  PROVE  /\ EntryHas(RemoveReferrer(e, r), n, S \ {r})
         /\ RemoveReferrer(e, r).referent = e.referent
<1>1. /\ n \in Nat \ {0} /\ e \in Entries /\ e.refs \in RefSlots(n) /\ DOMAIN e.refs = 0 .. n - 1
      /\ e.num \in Nat /\ e.reach \in Nat /\ e.out_of_line \in BOOLEAN
      /\ Held(e) = {i \in 0 .. n - 1 : e.refs[i] # NoReferrer}
  BY DEF EntryHas, Entries, RefSlots, Held
<1>2. PICK s \in 0 .. n - 1 : e.refs[s] = r /\ r # NoReferrer
  BY DEF EntryHas
<1>3. s \in Held(e) /\ SlotsOf(e, r) = {s}
  <2>1. s \in Held(e)
    BY <1>1, <1>2
  <2> QED
    BY <1>2, <2>1, OneSlot
<1>4. Min(SlotsOf(e, r)) = s
  BY <1>1, <1>3 DEF Min
<1>5. PICK x, f, k : /\ x = RemoveReferrer(e, r) /\ f = [e.refs EXCEPT ![s] = NoReferrer]
                     /\ k = IF e.out_of_line THEN e.num - 1 ELSE e.num
  OBVIOUS
<1>6. f \in RefSlots(n) /\ DOMAIN f = 0 .. n - 1
      /\ \A i \in 0 .. n - 1 : f[i] = IF i = s THEN NoReferrer ELSE e.refs[i]
  BY <1>1, <1>5 DEF RefSlots
<1>7. IsFiniteSet(Held(e)) /\ Cardinality(Held(e) \ {s}) = Cardinality(Held(e)) - 1
      /\ Cardinality(Held(e)) \in Nat /\ Cardinality(Held(e) \ {s}) \in Nat
  <2>1. IsFiniteSet(0 .. n - 1) /\ Held(e) \subseteq 0 .. n - 1
    <3>1. Held(e) \subseteq 0 .. n - 1
      BY <1>1
    <3>2. n - 1 \in Int
      BY <1>1
    <3> QED
      BY <3>1, <3>2, FS_Interval
  <2>2. IsFiniteSet(Held(e))
    BY <2>1, FS_Subset
  <2>3. IsFiniteSet(Held(e) \ {s}) /\ Cardinality(Held(e) \ {s}) = Cardinality(Held(e)) - 1
    BY <1>3, <2>2, FS_RemoveElement
  <2> QED
    BY <2>2, <2>3, FS_CardinalityType
<1>8. k \in Nat /\ (e.out_of_line => k = Cardinality(Held(e) \ {s}))
  <2>1. e.out_of_line => e.num = Cardinality(Held(e))
    BY DEF EntryHas
  <2> QED
    BY <1>1, <1>5, <1>7, <2>1
<1>9. x = [e EXCEPT !.refs = f, !.num = k]
  <2>1. x = [e EXCEPT !.refs[s] = NoReferrer, !.num = IF e.out_of_line THEN @ - 1 ELSE @]
    BY <1>3, <1>4, <1>5 DEF RemoveReferrer
  <2> QED
    BY <1>1, <1>5, <2>1 DEF Entries
<1>10. /\ x \in Entries /\ x.refs = f /\ x.num = k /\ x.reach = e.reach
       /\ x.referent = e.referent /\ x.out_of_line = e.out_of_line
  <2>1. f \in UNION {RefSlots(m) : m \in Nat}
    BY <1>1, <1>6
  <2> QED
    BY <1>1, <1>8, <1>9, <2>1 DEF Entries
<1>11. Held(x) = Held(e) \ {s}
  BY <1>1, <1>6, <1>10 DEF Held
<1>12. x.out_of_line => \A i \in Held(x) : Within(x.refs, i, HashReferrer[x.refs[i]], x.reach)
  <2> SUFFICES ASSUME x.out_of_line, NEW i \in Held(x)
               PROVE  Within(x.refs, i, HashReferrer[x.refs[i]], x.reach)
    OBVIOUS
  <2>1. i \in Held(e) /\ x.refs[i] = e.refs[i]
    BY <1>1, <1>6, <1>10, <1>11
  <2>2. Size(x.refs) = n /\ Size(e.refs) = n
    BY <1>1, <1>6, <1>10, SizeIs
  <2>3. Within(e.refs, i, HashReferrer[e.refs[i]], e.reach)
    BY <1>10, <2>1 DEF EntryHas
  <2> QED
    BY <1>10, <2>1, <2>2, <2>3 DEF Within
<1>13. \A i, j \in 0 .. n - 1 : f[i] = f[j] /\ f[i] # NoReferrer => i = j
  BY <1>6 DEF EntryHas
<1>14. \A q : q \in S \ {r} <=> q # NoReferrer /\ \E i \in 0 .. n - 1 : f[i] = q
  <2>1. ASSUME NEW q
        PROVE  q \in S \ {r} <=> q # NoReferrer /\ \E i \in 0 .. n - 1 : f[i] = q
    <3>1. q \in S <=> q # NoReferrer /\ \E i \in 0 .. n - 1 : e.refs[i] = q
      BY DEF EntryHas
    <3>2. ASSUME NEW i \in 0 .. n - 1, f[i] = q, q # NoReferrer
          PROVE  e.refs[i] = q /\ q # r
      <4>1. i # s /\ e.refs[i] = q
        BY <1>6, <3>2
      <4> QED
        BY <1>2, <4>1 DEF EntryHas
    <3>3. ASSUME NEW i \in 0 .. n - 1, e.refs[i] = q, q # r
          PROVE  f[i] = q
      BY <1>2, <1>6, <3>3
    <3> QED
      BY <3>1, <3>2, <3>3
  <2> QED
    BY <2>1
<1>15. ~x.out_of_line => n = InlineCount
  BY <1>10 DEF EntryHas
<1>16. EntryHas(x, n, S \ {r})
  BY <1>1, <1>6, <1>8, <1>10, <1>11, <1>12, <1>13, <1>14, <1>15 DEF EntryHas
<1> QED
  BY <1>5, <1>10, <1>16

\* A new entry has one referrer, inline.
LEMMA NewEntryHas ==
  ASSUME NEW o \in Referents, NEW r \in Referrers
  PROVE  EntryHas(NewEntry(o, r), InlineCount, {r}) /\ NewEntry(o, r).referent = o
<1>1. PICK n : n = InlineCount /\ n \in Nat \ {0} /\ 0 \in 0 .. n - 1
  BY ConstantFacts
<1>2. PICK f : f = [Slots(n, NoReferrer) EXCEPT ![0] = r]
  OBVIOUS
<1>3. f \in RefSlots(n) /\ \A i \in 0 .. n - 1 : f[i] = IF i = 0 THEN r ELSE NoReferrer
  BY <1>1, <1>2 DEF Slots, RefSlots
<1>4. f \in UNION {RefSlots(m) : m \in Nat}
  BY <1>1, <1>3
<1>5. PICK x : x = NewEntry(o, r)
  OBVIOUS
<1>6. x = [referent |-> o, out_of_line |-> FALSE, num |-> 0, reach |-> 0, refs |-> f]
  BY <1>1, <1>2, <1>5 DEF NewEntry
<1>7. x \in Entries /\ x.refs = f /\ ~x.out_of_line /\ x.referent = o
  BY <1>4, <1>6 DEF Entries
<1>8. r # NoReferrer
  BY ConstantFacts
<1>9. EntryHas(x, n, {r})
  BY <1>1, <1>3, <1>7, <1>8 DEF EntryHas
<1> QED
  BY <1>1, <1>5, <1>7, <1>9

\* weak_entry_remove is reached for an entry that is inline and has no referrer.
LEMMA EmptyEntry ==
  ASSUME NEW e, NEW n, NEW S, EntryHas(e, n, S)
  PROVE  /\ Held(e) = {} <=> S = {}
         /\ IsEmpty(e) <=> ~e.out_of_line /\ S = {}
         /\ {e.refs[j] : j \in Held(e)} = S
<1>1. DOMAIN e.refs = 0 .. n - 1
  BY DEF EntryHas, RefSlots
<1>2. Held(e) = {} <=> S = {}
  BY <1>1 DEF EntryHas, Held
<1>3. IsEmpty(e) <=> ~e.out_of_line /\ Held(e) = {}
  BY DEF IsEmpty, Held
<1>4. {e.refs[j] : j \in Held(e)} = S
  BY <1>1 DEF EntryHas, Held
<1> QED
  BY <1>2, <1>3, <1>4

-----------------------------------------------------------------------------
(* The entries of the table                                                *)

EntrySlots(n) == [0 .. n - 1 -> Entries \cup {NoEntry}]
WeakTables == [entries : UNION {EntrySlots(n) : n \in Nat}, num : Nat, reach : Nat]
Used(t) == {i \in DOMAIN t.entries : t.entries[i] # NoEntry}

\* The table t has n slots and in them, counted, the entries E: one for each referent, and each
\* within the reach of its hash.
TableHas(t, n, E) ==
  /\ n \in Nat /\ t \in WeakTables /\ t.entries \in EntrySlots(n)
  /\ t.num = Cardinality(Used(t))
  /\ \A i, j \in Used(t) : t.entries[i].referent = t.entries[j].referent => i = j
  /\ \A i \in Used(t) : Within(t.entries, i, HashReferent[t.entries[i].referent], t.reach)
  /\ E = {t.entries[i] : i \in Used(t)}

\* What the slots of a table are.
LEMMA TableFacts ==
  ASSUME NEW t, NEW n, NEW E, TableHas(t, n, E)
  PROVE  /\ n \in Nat /\ t.entries \in EntrySlots(n) /\ DOMAIN t.entries = 0 .. n - 1
         /\ Size(t.entries) = n /\ t.num \in Nat /\ t.reach \in Nat
         /\ t = [entries |-> t.entries, num |-> t.num, reach |-> t.reach]
         /\ Used(t) = {i \in 0 .. n - 1 : t.entries[i] # NoEntry}
         /\ \A i \in Used(t) : t.entries[i] \in Entries /\ t.entries[i].referent \in Referents
         /\ IsFiniteSet(Used(t)) /\ t.num = Cardinality(Used(t)) /\ t.num <= n
<1>1. /\ n \in Nat /\ t.entries \in EntrySlots(n) /\ DOMAIN t.entries = 0 .. n - 1
      /\ t.num = Cardinality(Used(t)) /\ t.num \in Nat /\ t.reach \in Nat
      /\ t = [entries |-> t.entries, num |-> t.num, reach |-> t.reach]
  BY DEF TableHas, WeakTables, EntrySlots
<1>2. Size(t.entries) = n
  BY <1>1, SizeIs
<1>3. Used(t) = {i \in 0 .. n - 1 : t.entries[i] # NoEntry}
  BY <1>1 DEF Used
<1>4. \A i \in Used(t) : t.entries[i] \in Entries /\ t.entries[i].referent \in Referents
  BY <1>1, <1>3 DEF EntrySlots, Entries
<1>5. IsFiniteSet(0 .. n - 1) /\ Cardinality(0 .. n - 1) = n
  <2>1. /\ IsFiniteSet(0 .. n - 1)
        /\ Cardinality(0 .. n - 1) = IF 0 > n - 1 THEN 0 ELSE n - 1 - 0 + 1
    <3>1. n - 1 \in Int
      BY <1>1
    <3> QED
      BY <3>1, FS_Interval
  <2> QED
    BY <1>1, <2>1
<1>6. Used(t) \subseteq 0 .. n - 1
  BY <1>3
<1>7. IsFiniteSet(Used(t)) /\ Cardinality(Used(t)) <= n
  BY <1>5, <1>6, FS_Subset
<1> QED
  BY <1>1, <1>2, <1>3, <1>4, <1>7

\* weak_entry_for_referent finds the entry of a referent, if it has one, and no other.
LEMMA EntryFound ==
  ASSUME NEW t, NEW n, NEW E, TableHas(t, n, E), NEW o \in Referents
  PROVE  /\ \A i \in Used(t) : t.entries[i].referent = o => EntryForReferent(t, o) = {i}
         /\ \A i \in EntryForReferent(t, o) :
              i \in Used(t) /\ t.entries[i] \in E /\ t.entries[i].referent = o
         /\ \A e \in E : e.referent = o => EntryForReferent(t, o) # {}
<1>1. /\ DOMAIN t.entries = 0 .. n - 1 /\ Used(t) = {i \in 0 .. n - 1 : t.entries[i] # NoEntry}
      /\ E = {t.entries[i] : i \in Used(t)}
  BY TableFacts DEF TableHas
<1>2. NoEntry.referent # o
  BY ConstantFacts DEF NoEntry
<1>3. \A i \in EntryForReferent(t, o) : i \in Used(t) /\ t.entries[i].referent = o
  BY <1>1, <1>2 DEF EntryForReferent
<1>4. ASSUME NEW i \in Used(t), t.entries[i].referent = o
      PROVE  EntryForReferent(t, o) = {i}
  <2>1. i \in EntryForReferent(t, o)
    BY <1>1, <1>4 DEF TableHas, EntryForReferent
  <2> QED
    BY <1>3, <1>4, <2>1 DEF TableHas
<1> QED
  BY <1>1, <1>3, <1>4

\* weak_entry_insert: a free slot for a new entry.
LEMMA InsertAdds ==
  ASSUME NEW t, NEW n, NEW E, TableHas(t, n, E), t.num # n,
         NEW e \in Entries, \A x \in E : x.referent # e.referent
  PROVE  TableHas(WeakEntryInsert(t, e), n, E \cup {e}) /\ WeakEntryInsert(t, e).num = t.num + 1
<1>0. PICK h, d, s : /\ h = HashReferent[e.referent] /\ d = Displacement(t.entries, NoEntry, h)
                     /\ s = SlotAt(h, d, n)
  OBVIOUS
<1>1. /\ n \in Nat /\ t.entries \in EntrySlots(n) /\ DOMAIN t.entries = 0 .. n - 1
      /\ Size(t.entries) = n /\ t.num \in Nat /\ t.reach \in Nat
      /\ Used(t) = {i \in 0 .. n - 1 : t.entries[i] # NoEntry}
      /\ IsFiniteSet(Used(t)) /\ t.num = Cardinality(Used(t)) /\ t.num <= n
      /\ E = {t.entries[i] : i \in Used(t)}
  BY TableFacts DEF TableHas
<1>2. n \in Nat \ {0} /\ h \in Nat /\ e.referent \in Referents
  <2>1. e.referent \in Referents
    BY DEF Entries
  <2> QED
    BY <1>0, <1>1, <2>1, ConstantFacts
<1>3. PICK f \in 0 .. n - 1 : t.entries[f] = NoEntry
  <2>1. Used(t) \in SUBSET (0 .. n - 1) /\ Cardinality(Used(t)) # n
    BY <1>1
  <2>2. \E i \in 0 .. n - 1 : i \notin Used(t)
    BY <1>1, <2>1, FreeSlot
  <2> QED
    BY <1>1, <2>2
<1>4. d \in 0 .. n - 1 /\ s \in 0 .. n - 1 /\ t.entries[s] = NoEntry /\ Further(h, s, n) = d
  BY <1>0, <1>1, <1>2, <1>3, FirstFree, SMT
<1>5. PICK x, g, c, k : /\ x = WeakEntryInsert(t, e) /\ g = [t.entries EXCEPT ![s] = e]
                        /\ c = Reached(t.reach, d) /\ k = t.num + 1
  OBVIOUS
<1>6. g \in EntrySlots(n) /\ DOMAIN g = 0 .. n - 1
      /\ \A i \in 0 .. n - 1 : g[i] = IF i = s THEN e ELSE t.entries[i]
  BY <1>1, <1>4, <1>5 DEF EntrySlots
<1>7. k \in Nat /\ c \in Nat /\ d <= c /\ t.reach <= c
  BY <1>1, <1>4, <1>5 DEF Reached
<1>8. x = [entries |-> g, num |-> k, reach |-> c]
  BY <1>0, <1>1, <1>5 DEF WeakEntryInsert, SlotAt
<1>9. x \in WeakTables /\ x.entries = g /\ x.num = k /\ x.reach = c
  <2>1. g \in UNION {EntrySlots(m) : m \in Nat}
    BY <1>1, <1>6
  <2> QED
    BY <1>7, <1>8, <2>1 DEF WeakTables
<1>10. e # NoEntry
  <2>1. NoEntry.referent = NoReferent
    BY DEF NoEntry
  <2> QED
    BY <1>2, <2>1, ConstantFacts
<1>11. Used(x) = Used(t) \cup {s} /\ s \notin Used(t)
  BY <1>1, <1>4, <1>6, <1>9, <1>10 DEF Used
<1>12. x.num = Cardinality(Used(x))
  <2>1. Cardinality(Used(t) \cup {s}) = Cardinality(Used(t)) + 1
    BY <1>1, <1>11, FS_AddElement
  <2> QED
    BY <1>1, <1>5, <1>9, <1>11, <2>1
<1>13. \A i \in Used(t) : i \in 0 .. n - 1 /\ i # s /\ x.entries[i] = t.entries[i] /\ t.entries[i] \in E
  BY <1>1, <1>6, <1>9, <1>11
<1>14. x.entries[s] = e
  BY <1>4, <1>6, <1>9
<1>15. ASSUME NEW i \in Used(x), NEW j \in Used(x), x.entries[i].referent = x.entries[j].referent
       PROVE  i = j
  <2>1. CASE i \in Used(t) /\ j \in Used(t)
    BY <1>13, <1>15, <2>1 DEF TableHas
  <2>2. CASE ~(i \in Used(t) /\ j \in Used(t))
    <3>1. (i = s \/ i \in Used(t)) /\ (j = s \/ j \in Used(t))
      BY <1>11
    <3> QED
      BY <1>13, <1>14, <1>15, <2>2, <3>1
  <2> QED
    BY <2>1, <2>2
<1>16. ASSUME NEW i \in Used(x)
       PROVE  Within(x.entries, i, HashReferent[x.entries[i].referent], x.reach)
  <2>1. Size(x.entries) = n
    BY <1>1, <1>6, <1>9, SizeIs
  <2>2. CASE i = s
    BY <1>0, <1>4, <1>7, <1>9, <1>14, <2>1, <2>2 DEF Within, Further
  <2>3. CASE i # s
    <3>1. i \in Used(t) /\ i \in 0 .. n - 1 /\ x.entries[i] = t.entries[i]
      BY <1>11, <1>13, <2>3
    <3>2. PICK a, q : a = HashReferent[t.entries[i].referent] /\ q = Further(a, i, n)
      OBVIOUS
    <3>3. a \in Nat
      BY <3>1, <3>2, TableFacts, ConstantFacts
    <3>4. q \in Nat
      <4>1. q \in 0 .. n - 1
        BY <1>2, <3>1, <3>2, <3>3, Distance
      <4> QED
        BY <1>2, <4>1
    <3>5. q <= t.reach
      BY <1>1, <3>1, <3>2 DEF TableHas, Within, Further
    <3>6. q <= x.reach
      BY <1>1, <1>7, <1>9, <3>4, <3>5
    <3> QED
      BY <2>1, <3>1, <3>2, <3>6 DEF Within, Further
  <2> QED
    BY <2>2, <2>3
<1>17. E \cup {e} = {x.entries[i] : i \in Used(x)}
  BY <1>1, <1>11, <1>13, <1>14
<1>18. TableHas(x, n, E \cup {e})
  BY <1>1, <1>6, <1>9, <1>12, <1>15, <1>16, <1>17 DEF TableHas
<1> QED
  BY <1>5, <1>9, <1>18

\* A table without entries.
LEMMA NoEntriesHas ==
  ASSUME NEW n \in Nat
  PROVE  TableHas(NoEntries(n), n, {}) /\ NoEntries(n).num = 0
<1>1. PICK t, f : t = NoEntries(n) /\ f = [i \in 0 .. n - 1 |-> NoEntry]
  OBVIOUS
<1>2. t = [entries |-> f, num |-> 0, reach |-> 0]
  BY <1>1 DEF NoEntries, Slots
<1>3. f \in EntrySlots(n) /\ \A i \in DOMAIN f : f[i] = NoEntry
  BY <1>1 DEF EntrySlots
<1>4. t \in WeakTables /\ t.entries = f /\ t.num = 0
  BY <1>2, <1>3 DEF WeakTables
<1>5. Used(t) = {}
  BY <1>3, <1>4 DEF Used
<1>6. TableHas(t, n, {})
  BY <1>3, <1>4, <1>5, FS_EmptySet DEF TableHas
<1> QED
  BY <1>1, <1>4, <1>6

\* The loop of WeakResize.
Resizes(f, m, slots, n) ==
  f = [i \in 0 .. m |-> IF i = 0 THEN NoEntries(n)
                        ELSE IF slots[i - 1] = NoEntry THEN f[i - 1]
                        ELSE WeakEntryInsert(f[i - 1], slots[i - 1])]

\* weak_resize: the same entries in a table of any size that is enough for them.
LEMMA ResizeKeeps ==
  ASSUME NEW t, NEW m, NEW E, TableHas(t, m, E), NEW n \in Nat, t.num <= n
  PROVE  TableHas(WeakResize(t, n), n, E) /\ WeakResize(t, n).num = t.num
<1>0. PICK slots : slots = t.entries
  OBVIOUS
<1> DEFINE First(i) == {j \in 0 .. i - 1 : slots[j] # NoEntry}
           Like(x, i) == TableHas(x, n, {slots[j] : j \in First(i)}) /\ x.num = Cardinality(First(i))
           R == [i \in 0 .. m |-> {x \in WeakTables : Like(x, i)}]
           Turn(x, i) == IF slots[i - 1] = NoEntry THEN x ELSE WeakEntryInsert(x, slots[i - 1])
           g == [p \in WeakTables \X (1 .. m) |-> Turn(p[1], p[2])]
<1>1. /\ m \in Nat /\ Size(slots) = m /\ t.num \in Nat
      /\ Used(t) = First(m) /\ IsFiniteSet(First(m)) /\ t.num = Cardinality(First(m))
      /\ \A j \in First(m) : slots[j] \in Entries
      /\ \A i, j \in First(m) : slots[i].referent = slots[j].referent => i = j
      /\ E = {slots[j] : j \in First(m)}
  <2>1. /\ m \in Nat /\ Size(slots) = m /\ t.num \in Nat
        /\ Used(t) = {i \in 0 .. m - 1 : slots[i] # NoEntry}
        /\ \A i \in Used(t) : slots[i] \in Entries
        /\ IsFiniteSet(Used(t)) /\ t.num = Cardinality(Used(t))
    BY <1>0, TableFacts
  <2>2. Used(t) = First(m)
    BY <2>1
  <2>3. /\ \A i, j \in Used(t) : slots[i].referent = slots[j].referent => i = j
        /\ E = {slots[j] : j \in Used(t)}
    BY <1>0 DEF TableHas
  <2> HIDE DEF First, Like, R, Turn, g
  <2>4. PICK F : F = First(m)
    OBVIOUS
  <2>5. Used(t) = F
    BY <2>2, <2>4
  <2>6. /\ IsFiniteSet(F) /\ t.num = Cardinality(F) /\ \A j \in F : slots[j] \in Entries
        /\ \A i, j \in F : slots[i].referent = slots[j].referent => i = j
        /\ E = {slots[j] : j \in F}
    BY <2>1, <2>3, <2>5, Zenon
  <2> QED
    BY <2>1, <2>4, <2>5, <2>6, Zenon
<1>2. ASSUME NEW i \in 1 .. m, NEW x \in R[i - 1]
      PROVE  x \in WeakTables /\ Turn(x, i) \in R[i]
  <2>1. i - 1 \in 0 .. m /\ i \in 0 .. m /\ i - 1 \in 0 .. m - 1
    BY <1>1
  <2>2. x \in WeakTables /\ Like(x, i - 1)
    BY <2>1
  <2>3. PICK e : e = slots[i - 1]
    OBVIOUS
  <2>4. First(i) = IF e = NoEntry THEN First(i - 1) ELSE First(i - 1) \cup {i - 1}
    <3>1. 0 .. i - 1 = 0 .. (i - 1) - 1 \cup {i - 1}
      BY <1>1
    <3> QED
      BY <2>3, <3>1
  <2>5. First(i) \subseteq First(m) /\ i - 1 \notin First(i - 1) /\ First(i - 1) \subseteq First(i)
    BY <1>1, <2>4
  <2>6. CASE e = NoEntry
    <3>1. First(i) = First(i - 1)
      BY <2>4, <2>6
    <3>2. Like(x, i)
      BY <2>2, <3>1
    <3>3. Turn(x, i) = x
      BY <2>3, <2>6
    <3> HIDE DEF Like, Turn
    <3> QED
      BY <2>1, <2>2, <3>2, <3>3
  <2>7. CASE e # NoEntry
    <3>1. i - 1 \in First(m) /\ First(i) = First(i - 1) \cup {i - 1}
      BY <2>4, <2>5, <2>7
    <3>2. e \in Entries
      BY <1>1, <2>3, <3>1
    <3>3. \A y \in {slots[j] : j \in First(i - 1)} : y.referent # e.referent
      <4> SUFFICES ASSUME NEW j \in First(i - 1)
                   PROVE  slots[j].referent # e.referent
        OBVIOUS
      <4>1. j \in First(m) /\ j # i - 1
        BY <2>5
      <4> HIDE DEF First
      <4> QED
        BY <1>1, <2>3, <3>1, <4>1
    <3>4. /\ IsFiniteSet(First(i - 1)) /\ Cardinality(First(i - 1)) \in Nat
          /\ Cardinality(First(i)) = Cardinality(First(i - 1)) + 1
          /\ Cardinality(First(i)) <= Cardinality(First(m)) /\ Cardinality(First(i)) \in Nat
      <4> HIDE DEF First
      <4>1. IsFiniteSet(First(i)) /\ Cardinality(First(i)) <= Cardinality(First(m))
        BY <1>1, <2>5, FS_Subset
      <4>2. IsFiniteSet(First(i - 1))
        BY <2>5, <4>1, FS_Subset
      <4>3. Cardinality(First(i - 1) \cup {i - 1}) = Cardinality(First(i - 1)) + 1
        BY <2>5, <4>2, FS_AddElement
      <4> QED
        BY <3>1, <4>1, <4>2, <4>3, FS_CardinalityType
    <3>5. x.num # n
      <4>1. PICK a, b, c : a = Cardinality(First(i - 1)) /\ b = Cardinality(First(i)) /\ c = Cardinality(First(m))
        OBVIOUS
      <4> HIDE DEF First
      <4> QED
        BY <1>1, <2>2, <3>4, <4>1
    <3>6. PICK y : y = WeakEntryInsert(x, e)
      OBVIOUS
    <3>7. TableHas(y, n, {slots[j] : j \in First(i - 1)} \cup {e}) /\ y.num = x.num + 1
      <4> HIDE DEF First
      <4>1. TableHas(x, n, {slots[j] : j \in First(i - 1)})
        BY <2>2
      <4> QED
        BY <3>2, <3>3, <3>5, <3>6, <4>1, InsertAdds
    <3>8. {slots[j] : j \in First(i)} = {slots[j] : j \in First(i - 1)} \cup {e}
      <4> HIDE DEF First
      <4> QED
        BY <2>3, <3>1
    <3>9. y \in WeakTables /\ Like(y, i)
      <4> HIDE DEF First
      <4> QED
        BY <2>2, <3>4, <3>7, <3>8 DEF TableHas
    <3>10. Turn(x, i) = y
      BY <2>3, <2>7, <3>6
    <3> HIDE DEF Like, Turn
    <3> QED
      BY <2>1, <3>9, <3>10
  <2> QED
    BY <2>2, <2>6, <2>7
<1>3. NoEntries(n) \in R[0]
  <2>1. First(0) = {} /\ {slots[j] : j \in First(0)} = {}
    OBVIOUS
  <2>2. 0 \in 0 .. m
    BY <1>1
  <2>3. Like(NoEntries(n), 0)
    BY <2>1, NoEntriesHas, FS_EmptySet
  <2>4. NoEntries(n) \in WeakTables
    BY NoEntriesHas DEF TableHas
  <2> HIDE DEF Like
  <2> QED
    BY <2>2, <2>3, <2>4
<1>4. TurnsKeep(g, m, R)
  <2> SUFFICES ASSUME NEW i \in 1 .. m, NEW x \in R[i - 1]
               PROVE  g[<<x, i>>] \in R[i]
    BY DEF TurnsKeep
  <2>1. x \in WeakTables /\ Turn(x, i) \in R[i]
    BY <1>2
  <2> HIDE DEF R, Turn
  <2> QED
    BY <2>1
<1>5. PICK f : Loops(f, m, NoEntries(n), g) /\ \A i \in 0 .. m : f[i] \in R[i]
  <2> HIDE DEF R, g
  <2> QED
    BY <1>1, <1>3, <1>4, LoopExists
<1>6. \A i \in 0 .. m : f[i] = IF i = 0 THEN NoEntries(n) ELSE Turn(f[i - 1], i)
  <2> SUFFICES ASSUME NEW i \in 0 .. m
               PROVE  f[i] = IF i = 0 THEN NoEntries(n) ELSE Turn(f[i - 1], i)
    OBVIOUS
  <2>1. CASE i = 0
    <3> HIDE DEF g
    <3> QED
      BY <1>5, <2>1 DEF Loops
  <2>2. CASE i # 0
    <3>1. i \in 1 .. m /\ i - 1 \in 0 .. m
      BY <1>1, <2>2
    <3>2. f[i - 1] \in R[i - 1]
      BY <1>5, <3>1
    <3>3. f[i - 1] \in WeakTables
      BY <1>2, <3>1, <3>2
    <3>4. f[i] = g[<<f[i - 1], i>>]
      <4> HIDE DEF g
      <4> QED
        BY <1>5, <2>2 DEF Loops
    <3> HIDE DEF R, Turn
    <3> QED
      BY <2>2, <3>1, <3>3, <3>4
  <2> QED
    BY <2>1, <2>2
<1>7. Resizes(f, m, slots, n)
  <2>1. f = [i \in 0 .. m |-> f[i]]
    <3> HIDE DEF g
    <3> QED
      BY <1>5 DEF Loops
  <2> QED
    BY <1>6, <2>1 DEF Resizes
<1>8. Resizes(CHOOSE h : Resizes(h, m, slots, n), m, slots, n)
  BY <1>7, Zenon
<1>9. PICK h : (h = CHOOSE c : Resizes(c, m, slots, n)) /\ Resizes(h, m, slots, n)
  BY <1>8, Zenon
<1>10. WeakResize(t, n) = h[m]
  BY <1>0, <1>1, <1>9 DEF WeakResize, Resizes
<1>11. h[0] \in R[0] /\ \A i \in 1 .. m : h[i - 1] \in R[i - 1] => h[i] \in R[i]
  <2>1. \A i \in 0 .. m : h[i] = IF i = 0 THEN NoEntries(n) ELSE Turn(h[i - 1], i)
    BY <1>9, Zenon DEF Resizes
  <2> HIDE DEF R, Turn
  <2> QED
    BY <1>1, <1>2, <1>3, <2>1
<1>12. h[m] \in R[m]
  <2> HIDE DEF R
  <2>1. \A i \in 0 .. m : h[i] \in R[i]
    BY <1>1, <1>11, LoopKeeps
  <2> QED
    BY <1>1, <2>1
<1>13. Like(h[m], m)
  <2>1. m \in 0 .. m
    BY <1>1
  <2> HIDE DEF Like
  <2> QED
    BY <1>12, <2>1
<1> QED
  BY <1>1, <1>10, <1>13

\* weak_grow_maybe leaves a free slot.
LEMMA GrowKeeps ==
  ASSUME NEW t, NEW n, NEW E, TableHas(t, n, E)
  PROVE  \E m : TableHas(WeakGrowMaybe(t), m, E) /\ WeakGrowMaybe(t).num # m
<1>1. n \in Nat /\ Size(t.entries) = n /\ t.num \in Nat /\ t.num <= n
  BY TableFacts
<1>2. CASE t.num >= (n * 3) \div 4
  <2>1. PICK m : m = IF n = 0 THEN FirstSize ELSE 2 * n
    OBVIOUS
  <2>2. m \in Nat /\ t.num <= m /\ t.num # m
    BY <1>1, <2>1, ConstantFacts
  <2>3. TableHas(WeakResize(t, m), m, E) /\ WeakResize(t, m).num = t.num
    BY <2>2, ResizeKeeps
  <2>4. WeakGrowMaybe(t) = WeakResize(t, m)
    BY <1>1, <1>2, <2>1 DEF WeakGrowMaybe
  <2> QED
    BY <2>2, <2>3, <2>4
<1>3. CASE ~(t.num >= (n * 3) \div 4)
  <2>1. WeakGrowMaybe(t) = t
    BY <1>1, <1>3 DEF WeakGrowMaybe
  <2>2. PICK k : k = t.num
    OBVIOUS
  <2>3. k # n
    BY <1>1, <1>3, <2>2
  <2> QED
    BY <2>1, <2>2, <2>3
<1> QED
  BY <1>2, <1>3

\* weak_compact_maybe leaves room for every entry.
LEMMA CompactKeeps ==
  ASSUME NEW t, NEW n, NEW E, TableHas(t, n, E)
  PROVE  \E m : TableHas(WeakCompactMaybe(t), m, E)
<1>1. n \in Nat /\ Size(t.entries) = n /\ t.num \in Nat
  BY TableFacts
<1>2. CASE n >= CompactSize /\ n \div 16 >= t.num
  <2>1. PICK m, k : m = n \div 8 /\ k = t.num
    OBVIOUS
  <2>2. m \in Nat /\ k <= m
    BY <1>1, <1>2, <2>1
  <2>3. TableHas(WeakResize(t, m), m, E)
    BY <2>1, <2>2, ResizeKeeps
  <2>4. WeakCompactMaybe(t) = WeakResize(t, m)
    BY <1>1, <1>2, <2>1 DEF WeakCompactMaybe
  <2> QED
    BY <2>3, <2>4
<1>3. CASE ~(n >= CompactSize /\ n \div 16 >= t.num)
  BY <1>1, <1>3 DEF WeakCompactMaybe
<1> QED
  BY <1>2, <1>3

\* weak_entry_remove: the entry is gone and the others are found where they were.
LEMMA RemoveKeeps ==
  ASSUME NEW t, NEW n, NEW E, TableHas(t, n, E), NEW s \in Used(t)
  PROVE  \E m : TableHas(WeakEntryRemove(t, s), m, E \ {t.entries[s]})
<1>1. /\ n \in Nat /\ t.entries \in EntrySlots(n) /\ DOMAIN t.entries = 0 .. n - 1
      /\ Size(t.entries) = n /\ t.num \in Nat /\ t.reach \in Nat
      /\ t = [entries |-> t.entries, num |-> t.num, reach |-> t.reach]
      /\ Used(t) = {i \in 0 .. n - 1 : t.entries[i] # NoEntry}
      /\ IsFiniteSet(Used(t)) /\ t.num = Cardinality(Used(t))
      /\ E = {t.entries[i] : i \in Used(t)}
  BY TableFacts DEF TableHas
<1>2. PICK x, g, k : /\ x = [t EXCEPT !.entries[s] = NoEntry, !.num = @ - 1]
                     /\ g = [t.entries EXCEPT ![s] = NoEntry] /\ k = t.num - 1
  OBVIOUS
<1>3. g \in EntrySlots(n) /\ DOMAIN g = 0 .. n - 1
      /\ \A i \in 0 .. n - 1 : g[i] = IF i = s THEN NoEntry ELSE t.entries[i]
  BY <1>1, <1>2 DEF EntrySlots
<1>4. Cardinality(Used(t) \ {s}) = Cardinality(Used(t)) - 1 /\ Cardinality(Used(t) \ {s}) \in Nat
  <2>1. IsFiniteSet(Used(t) \ {s}) /\ Cardinality(Used(t) \ {s}) = Cardinality(Used(t)) - 1
    BY <1>1, FS_RemoveElement
  <2> QED
    BY <2>1, FS_CardinalityType
<1>5. k \in Nat /\ k = Cardinality(Used(t) \ {s})
  BY <1>1, <1>2, <1>4
<1>6. x = [entries |-> g, num |-> k, reach |-> t.reach]
  <2>1. PICK a, b, c : a = t.entries /\ b = t.num /\ c = t.reach
    OBVIOUS
  <2> QED
    BY <1>1, <1>2, <2>1
<1>7. x \in WeakTables /\ x.entries = g /\ x.num = k /\ x.reach = t.reach
  <2>1. g \in UNION {EntrySlots(m) : m \in Nat}
    BY <1>1, <1>3
  <2> QED
    BY <1>1, <1>5, <1>6, <2>1 DEF WeakTables
<1>8. Used(x) = Used(t) \ {s}
  BY <1>1, <1>3, <1>7 DEF Used
<1>9. \A i \in Used(x) : i \in Used(t) /\ x.entries[i] = t.entries[i]
  BY <1>1, <1>3, <1>7, <1>8
<1>10. \A i \in Used(x) : Within(x.entries, i, HashReferent[x.entries[i].referent], x.reach)
  <2>1. Size(x.entries) = n
    BY <1>1, <1>3, <1>7, SizeIs
  <2> QED
    BY <1>1, <1>7, <1>9, <2>1 DEF TableHas, Within
<1>11. E \ {t.entries[s]} = {x.entries[i] : i \in Used(x)}
  <2>1. \A i \in Used(t) : t.entries[i] = t.entries[s] => i = s
    BY DEF TableHas
  <2> QED
    BY <1>1, <1>8, <1>9, <2>1
<1>12. \A i, j \in Used(x) : x.entries[i].referent = x.entries[j].referent => i = j
  BY <1>9 DEF TableHas
<1>13. TableHas(x, n, E \ {t.entries[s]})
  BY <1>1, <1>3, <1>5, <1>7, <1>8, <1>10, <1>11, <1>12 DEF TableHas
<1> QED
  BY <1>2, <1>13, CompactKeeps DEF WeakEntryRemove

\* An entry changes where it is.
LEMMA ChangeKeeps ==
  ASSUME NEW t, NEW n, NEW E, TableHas(t, n, E), NEW s \in Used(t),
         NEW e \in Entries, e.referent = t.entries[s].referent
  PROVE  TableHas([t EXCEPT !.entries[s] = e], n, (E \ {t.entries[s]}) \cup {e})
<1>1. /\ n \in Nat /\ t.entries \in EntrySlots(n) /\ DOMAIN t.entries = 0 .. n - 1
      /\ Size(t.entries) = n /\ t.num \in Nat /\ t.reach \in Nat
      /\ t = [entries |-> t.entries, num |-> t.num, reach |-> t.reach]
      /\ Used(t) = {i \in 0 .. n - 1 : t.entries[i] # NoEntry}
      /\ t.entries[s].referent \in Referents
      /\ t.num = Cardinality(Used(t))
      /\ E = {t.entries[i] : i \in Used(t)}
  BY TableFacts DEF TableHas
<1>2. PICK x, g : /\ x = [t EXCEPT !.entries[s] = e] /\ g = [t.entries EXCEPT ![s] = e]
  OBVIOUS
<1>3. g \in EntrySlots(n) /\ DOMAIN g = 0 .. n - 1
      /\ \A i \in 0 .. n - 1 : g[i] = IF i = s THEN e ELSE t.entries[i]
  BY <1>1, <1>2 DEF EntrySlots
<1>4. x = [entries |-> g, num |-> t.num, reach |-> t.reach]
  <2>1. PICK a, b, c : a = t.entries /\ b = t.num /\ c = t.reach
    OBVIOUS
  <2> QED
    BY <1>1, <1>2, <2>1
<1>5. x \in WeakTables /\ x.entries = g /\ x.num = t.num /\ x.reach = t.reach
  <2>1. g \in UNION {EntrySlots(m) : m \in Nat}
    BY <1>1, <1>3
  <2> QED
    BY <1>1, <1>4, <2>1 DEF WeakTables
<1>6. e # NoEntry
  <2>1. NoEntry.referent = NoReferent
    BY DEF NoEntry
  <2> QED
    BY <1>1, <2>1, ConstantFacts
<1>7. Used(x) = Used(t)
  BY <1>1, <1>3, <1>5, <1>6 DEF Used
<1>8. \A i \in Used(x) : x.entries[i] = IF i = s THEN e ELSE t.entries[i]
  BY <1>1, <1>3, <1>5, <1>7
<1>9. \A i \in Used(x) : x.entries[i].referent = t.entries[i].referent
  BY <1>8
<1>10. \A i \in Used(x) : Within(x.entries, i, HashReferent[x.entries[i].referent], x.reach)
  <2>1. Size(x.entries) = n
    BY <1>1, <1>3, <1>5, SizeIs
  <2> QED
    BY <1>1, <1>5, <1>7, <1>9, <2>1 DEF TableHas, Within
<1>11. (E \ {t.entries[s]}) \cup {e} = {x.entries[i] : i \in Used(x)}
  <2>1. \A i \in Used(t) : t.entries[i] = t.entries[s] => i = s
    BY DEF TableHas
  <2> QED
    BY <1>1, <1>7, <1>8, <2>1
<1>12. \A i, j \in Used(x) : x.entries[i].referent = x.entries[j].referent => i = j
  BY <1>7, <1>9 DEF TableHas
<1>13. TableHas(x, n, (E \ {t.entries[s]}) \cup {e})
  BY <1>1, <1>3, <1>5, <1>7, <1>10, <1>11, <1>12 DEF TableHas
<1> QED
  BY <1>2, <1>13

-----------------------------------------------------------------------------
(* The table and the variables                                             *)

\* The variables that refer to o.
WatchersOf(w, o) == {r \in Referrers : w[r] = o}

\* The table has the entries E, one for each object that a variable refers to, and each has the
\* variables that refer to its object.
Agrees(t, w, n, E) ==
  /\ w \in [Referrers -> Referents \cup {NoReferent}]
  /\ TableHas(t, n, E)
  /\ \A e \in E : /\ \E m : EntryHas(e, m, WatchersOf(w, e.referent))
                  /\ WatchersOf(w, e.referent) = {} => e.out_of_line
  /\ \A r \in Referrers : w[r] # NoReferent => \E e \in E : e.referent = w[r]

\* The inductive invariant.
TableInv == \E n, E : Agrees(weak_table, watching, n, E)

\* An empty weak table is exact.
LEMMA TableInit == InitWeakTable => TableInv
<1> SUFFICES ASSUME InitWeakTable
             PROVE  TableInv
  OBVIOUS
<1>1. TableHas(weak_table, 0, {})
  BY NoEntriesHas DEF InitWeakTable
<1>2. watching = [r \in Referrers |-> NoReferent]
  BY DEF InitWeakTable
<1>3. Agrees(weak_table, watching, 0, {})
  BY <1>1, <1>2 DEF Agrees
<1> QED
  BY <1>3 DEF TableInv

\* What the run checks follows.
LEMMA TableInvAgrees == TableInv => WeakTableAgrees
<1> SUFFICES ASSUME TableInv
             PROVE  WeakTableAgrees
  OBVIOUS
<1>2. PICK n, E : Agrees(weak_table, watching, n, E)
  BY DEF TableInv
<1>0. TableHas(weak_table, n, E)
  BY <1>2 DEF Agrees
<1>3. weak_table.num = Cardinality(Used(weak_table))
  BY <1>0 DEF TableHas
<1>4. ASSUME NEW r \in Referrers, watching[r] # NoReferent
      PROVE  EntryForReferent(weak_table, watching[r]) # {}
  <2>1. watching[r] \in Referents
    BY <1>2, <1>4 DEF Agrees
  <2>2. PICK e \in E : e.referent = watching[r]
    BY <1>2, <1>4 DEF Agrees
  <2> QED
    BY <1>0, <2>1, <2>2, EntryFound
<1>5. ASSUME NEW i \in Used(weak_table), NEW e, e = weak_table.entries[i]
      PROVE  /\ EntryForReferent(weak_table, e.referent) = {i}
             /\ {e.refs[j] : j \in Held(e)} = WatchersOf(watching, e.referent)
             /\ \A j \in Held(e) : SlotsOf(e, e.refs[j]) = {j}
             /\ e.out_of_line => e.num = Cardinality(Held(e))
             /\ Held(e) = {} => e.out_of_line
  <2>2. e \in E /\ e.referent \in Referents
    BY <1>0, <1>5, TableFacts DEF TableHas
  <2>3. EntryForReferent(weak_table, e.referent) = {i}
    BY <1>0, <1>5, <2>2, EntryFound
  <2>4. PICK m : EntryHas(e, m, WatchersOf(watching, e.referent))
    BY <1>2, <2>2 DEF Agrees
  <2>5. {e.refs[j] : j \in Held(e)} = WatchersOf(watching, e.referent)
    BY <2>4, EmptyEntry
  <2>6. \A j \in Held(e) : SlotsOf(e, e.refs[j]) = {j}
    BY <2>4, OneSlot
  <2>7. e.out_of_line => e.num = Cardinality(Held(e))
    BY <2>4 DEF EntryHas
  <2>8. Held(e) = {} => e.out_of_line
    BY <1>2, <2>2, <2>4, EmptyEntry DEF Agrees
  <2> QED
    BY <2>3, <2>5, <2>6, <2>7, <2>8
<1>6. \A i \in Used(weak_table) :
        LET e == weak_table.entries[i] IN
        /\ EntryForReferent(weak_table, e.referent) = {i}
        /\ {e.refs[j] : j \in Held(e)} = {r \in Referrers : watching[r] = e.referent}
        /\ \A j \in Held(e) : SlotsOf(e, e.refs[j]) = {j}
        /\ e.out_of_line => e.num = Cardinality(Held(e))
        /\ Held(e) = {} => e.out_of_line
  BY <1>5 DEF WatchersOf
<1> QED
  BY <1>3, <1>4, <1>6, Zenon DEF WeakTableAgrees, Used

\* A step that concerns the object o: no variable comes to refer to another or ceases to, the
\* entries of the others remain, and the entry of o is right.
OnlyWatches(w, w1, o) ==
  /\ w1 \in [Referrers -> Referents \cup {NoReferent}]
  /\ \A q \in Referrers : w1[q] # w[q] => w[q] \in {o, NoReferent} /\ w1[q] \in {o, NoReferent}
OthersRemain(E, E1, o) ==
  /\ \A e \in E1 : e.referent # o => e \in E
  /\ \A e \in E : e.referent # o => e \in E1
EntryRight(E1, w1, o) ==
  /\ \A e \in E1 : e.referent = o => /\ \E m : EntryHas(e, m, WatchersOf(w1, o))
                                     /\ WatchersOf(w1, o) = {} => e.out_of_line
  /\ WatchersOf(w1, o) # {} => \E e \in E1 : e.referent = o

\* Nothing else is left to show of such a step.
LEMMA Rewatched ==
  ASSUME NEW t, NEW w, NEW n, NEW E, Agrees(t, w, n, E), NEW o \in Referents,
         NEW t1, NEW w1, NEW n1, NEW E1, TableHas(t1, n1, E1),
         OnlyWatches(w, w1, o), OthersRemain(E, E1, o), EntryRight(E1, w1, o)
  PROVE  Agrees(t1, w1, n1, E1)
<1>1. \A e \in E1 : e.referent \in Referents
  BY TableFacts DEF TableHas
<1>2. \A x \in Referents : x # o => WatchersOf(w1, x) = WatchersOf(w, x)
  BY ConstantFacts DEF WatchersOf, OnlyWatches
<1>3. ASSUME NEW e \in E1
      PROVE  /\ \E m : EntryHas(e, m, WatchersOf(w1, e.referent))
             /\ WatchersOf(w1, e.referent) = {} => e.out_of_line
  <2>1. CASE e.referent = o
    BY <2>1 DEF EntryRight
  <2>2. CASE e.referent # o
    <3>1. e \in E /\ WatchersOf(w1, e.referent) = WatchersOf(w, e.referent)
      BY <1>1, <1>2, <2>2 DEF OthersRemain
    <3> QED
      BY <3>1 DEF Agrees
  <2> QED
    BY <2>1, <2>2
<1>4. ASSUME NEW q \in Referrers, w1[q] # NoReferent
      PROVE  \E e \in E1 : e.referent = w1[q]
  <2>1. CASE w1[q] = o
    BY <2>1 DEF WatchersOf, EntryRight
  <2>2. CASE w1[q] # o
    <3>1. w1[q] = w[q]
      BY <1>4, <2>2 DEF OnlyWatches
    <3>2. PICK e \in E : e.referent = w[q]
      BY <1>4, <3>1 DEF Agrees
    <3> QED
      BY <2>2, <3>1, <3>2 DEF OthersRemain
  <2> QED
    BY <2>1, <2>2
<1> QED
  BY <1>3, <1>4 DEF Agrees, OnlyWatches

\* weak_register_no_lock: one more referrer, in the entry of its object or in a new one.
LEMMA TableRegister ==
  ASSUME TableInv, NEW o \in Referents, NEW r \in Referrers, RegisterReferrer(o, r)
  PROVE  TableInv'
<1>1. PICK n, E, t, w : t = weak_table /\ w = watching /\ Agrees(t, w, n, E)
  BY DEF TableInv
<1>2. PICK t1, w1 : t1 = weak_table' /\ w1 = watching'
  OBVIOUS
<1>3. TableHas(t, n, E) /\ w \in [Referrers -> Referents \cup {NoReferent}]
  BY <1>1 DEF Agrees
<1>4. w[r] = NoReferent /\ w1 = [w EXCEPT ![r] = o]
  BY <1>1, <1>2 DEF RegisterReferrer
<1>5. /\ w1 \in [Referrers -> Referents \cup {NoReferent}]
      /\ \A q \in Referrers : w1[q] # w[q] => w[q] \in {o, NoReferent} /\ w1[q] \in {o, NoReferent}
      /\ WatchersOf(w1, o) = WatchersOf(w, o) \cup {r} /\ r \in Referrers \ WatchersOf(w, o)
  BY <1>3, <1>4, ConstantFacts DEF WatchersOf
<1>6. ASSUME NEW n1, NEW E1, NEW x, TableHas(t1, n1, E1),
             \A e \in E1 : e.referent # o => e \in E, \A e \in E : e.referent # o => e \in E1,
             x \in E1, x.referent = o, \E m : EntryHas(x, m, WatchersOf(w, o) \cup {r})
      PROVE  TableInv'
  <2>1. \A e \in E1 : e.referent = o => e = x
    BY <1>6 DEF TableHas
  <2>2. OnlyWatches(w, w1, o) /\ OthersRemain(E, E1, o)
    BY <1>5, <1>6 DEF OnlyWatches, OthersRemain
  <2>3. EntryRight(E1, w1, o)
    BY <1>5, <1>6, <2>1 DEF EntryRight
  <2>4. Agrees(t1, w1, n1, E1)
    BY <1>1, <1>6, <2>2, <2>3, Rewatched
  <2> QED
    BY <1>2, <2>4 DEF TableInv
<1>7. CASE \E i \in EntryForReferent(t, o) : t1 = [t EXCEPT !.entries[i] = AppendReferrer(@, r)]
  <2>1. PICK i \in EntryForReferent(t, o) : t1 = [t EXCEPT !.entries[i] = AppendReferrer(@, r)]
    BY <1>7
  <2>2. i \in Used(t) /\ t.entries[i] \in E /\ t.entries[i].referent = o
    BY <1>3, EntryFound
  <2>3. PICK e, x : e = t.entries[i] /\ x = AppendReferrer(e, r)
    OBVIOUS
  <2>4. PICK k : EntryHas(e, k, WatchersOf(w, o))
    BY <1>1, <2>2, <2>3 DEF Agrees
  <2>5. PICK m : EntryHas(x, m, WatchersOf(w, o) \cup {r}) /\ x.referent = o
    BY <1>5, <2>2, <2>3, <2>4, AppendAdds
  <2>6. t1 = [t EXCEPT !.entries[i] = x]
    BY <2>1, <2>3
  <2>7. x \in Entries
    BY <2>5 DEF EntryHas
  <2>8. TableHas(t1, n, (E \ {e}) \cup {x})
    BY <1>3, <2>2, <2>3, <2>5, <2>6, <2>7, ChangeKeeps
  <2>9. \A y \in E : y.referent # o => y \in (E \ {e}) \cup {x}
    BY <2>2, <2>3
  <2>10. \A y \in (E \ {e}) \cup {x} : y.referent # o => y \in E
    BY <2>5
  <2> QED
    BY <1>6, <2>5, <2>8, <2>9, <2>10
<1>8. CASE EntryForReferent(t, o) = {} /\ t1 = WeakEntryInsert(WeakGrowMaybe(t), NewEntry(o, r))
  <2>1. \A e \in E : e.referent # o
    BY <1>3, <1>8, EntryFound
  <2>2. WatchersOf(w, o) = {}
    BY <1>1, <2>1, ConstantFacts DEF Agrees, WatchersOf
  <2>3. PICK x, y : x = NewEntry(o, r) /\ y = WeakGrowMaybe(t)
    OBVIOUS
  <2>4. EntryHas(x, InlineCount, {r}) /\ x.referent = o
    BY <2>3, NewEntryHas
  <2>5. PICK m : TableHas(y, m, E) /\ y.num # m
    BY <1>3, <2>3, GrowKeeps
  <2>6. x \in Entries
    BY <2>4 DEF EntryHas
  <2>7. TableHas(WeakEntryInsert(y, x), m, E \cup {x})
    BY <2>1, <2>4, <2>5, <2>6, InsertAdds
  <2>8. TableHas(t1, m, E \cup {x})
    BY <1>8, <2>3, <2>7
  <2>9. \E k : EntryHas(x, k, WatchersOf(w, o) \cup {r})
    BY <2>2, <2>4
  <2> QED
    BY <1>6, <2>4, <2>8, <2>9
<1> QED
  BY <1>1, <1>2, <1>7, <1>8 DEF RegisterReferrer

\* weak_unregister_no_lock: one referrer less, and no entry without referrers.
LEMMA TableUnregister ==
  ASSUME TableInv, NEW o \in Referents, NEW r \in Referrers, UnregisterReferrer(o, r)
  PROVE  TableInv'
<1>1. PICK n, E, t, w : t = weak_table /\ w = watching /\ Agrees(t, w, n, E)
  BY DEF TableInv
<1>2. PICK t1, w1 : t1 = weak_table' /\ w1 = watching'
  OBVIOUS
<1>3. TableHas(t, n, E) /\ w \in [Referrers -> Referents \cup {NoReferent}]
  BY <1>1 DEF Agrees
<1>4. w[r] = o /\ w1 = [w EXCEPT ![r] = NoReferent]
  BY <1>1, <1>2 DEF UnregisterReferrer
<1>5. /\ w1 \in [Referrers -> Referents \cup {NoReferent}]
      /\ \A q \in Referrers : w1[q] # w[q] => w[q] \in {o, NoReferent} /\ w1[q] \in {o, NoReferent}
      /\ WatchersOf(w1, o) = WatchersOf(w, o) \ {r} /\ r \in WatchersOf(w, o)
  BY <1>3, <1>4, ConstantFacts DEF WatchersOf
<1>6. PICK i : i \in Used(t) /\ EntryForReferent(t, o) = {i} /\ t.entries[i].referent = o
               /\ t.entries[i] \in E
  <2>1. PICK e \in E : e.referent = o
    BY <1>1, <1>4, ConstantFacts DEF Agrees
  <2>2. PICK i \in Used(t) : t.entries[i] = e
    BY <1>3, <2>1 DEF TableHas
  <2> QED
    BY <1>3, <2>1, <2>2, EntryFound
<1>7. PICK e, x : e = t.entries[i] /\ x = RemoveReferrer(e, r)
  OBVIOUS
<1>8. PICK k : EntryHas(e, k, WatchersOf(w, o))
  BY <1>1, <1>6, <1>7 DEF Agrees
<1>9. EntryHas(x, k, WatchersOf(w1, o)) /\ x.referent = o
  BY <1>5, <1>6, <1>7, <1>8, RemoveTakes
<1>10. IsEmpty(x) <=> ~x.out_of_line /\ WatchersOf(w1, o) = {}
  BY <1>9, EmptyEntry
<1>11. t1 = IF IsEmpty(x) THEN WeakEntryRemove(t, i) ELSE [t EXCEPT !.entries[i] = x]
  <2>1. i \in Nat
    BY <1>3, <1>6, TableFacts
  <2>2. Min(EntryForReferent(t, o)) = i
    BY <1>6, <2>1 DEF Min
  <2> QED
    BY <1>1, <1>2, <1>6, <1>7, <2>2 DEF UnregisterReferrer
<1>12. \A y \in E : y.referent = o => y = e
  BY <1>3, <1>6, <1>7 DEF TableHas
<1>13. CASE IsEmpty(x)
  <2>1. PICK m : TableHas(t1, m, E \ {e})
    BY <1>3, <1>6, <1>7, <1>11, <1>13, RemoveKeeps
  <2>2. WatchersOf(w1, o) = {}
    BY <1>10, <1>13
  <2>3. \A y \in E : y.referent # o => y \in E \ {e}
    BY <1>6, <1>7
  <2>4. \A y \in E \ {e} : y.referent # o /\ y \in E
    BY <1>12
  <2>5. OnlyWatches(w, w1, o) /\ OthersRemain(E, E \ {e}, o) /\ EntryRight(E \ {e}, w1, o)
    BY <1>5, <2>2, <2>3, <2>4 DEF OnlyWatches, OthersRemain, EntryRight
  <2>6. Agrees(t1, w1, m, E \ {e})
    BY <1>1, <2>1, <2>5, Rewatched
  <2> QED
    BY <1>2, <2>6 DEF TableInv
<1>14. CASE ~IsEmpty(x)
  <2>1. x \in Entries
    BY <1>9 DEF EntryHas
  <2>2. TableHas(t1, n, (E \ {e}) \cup {x})
    BY <1>3, <1>6, <1>7, <1>9, <1>11, <1>14, <2>1, ChangeKeeps
  <2>3. \A y \in E : y.referent # o => y \in (E \ {e}) \cup {x}
    BY <1>6, <1>7
  <2>4. \A y \in (E \ {e}) \cup {x} : (y.referent # o => y \in E) /\ (y.referent = o => y = x)
    BY <1>9, <1>12
  <2>5. WatchersOf(w1, o) = {} => x.out_of_line
    BY <1>10, <1>14
  <2>6. OnlyWatches(w, w1, o) /\ OthersRemain(E, (E \ {e}) \cup {x}, o)
    BY <1>5, <2>3, <2>4 DEF OnlyWatches, OthersRemain
  <2>7. EntryRight((E \ {e}) \cup {x}, w1, o)
    BY <1>9, <2>4, <2>5 DEF EntryRight
  <2>8. Agrees(t1, w1, n, (E \ {e}) \cup {x})
    BY <1>1, <2>2, <2>6, <2>7, Rewatched
  <2> QED
    BY <1>2, <2>8 DEF TableInv
<1> QED
  BY <1>13, <1>14

\* weak_clear_no_lock: the entry of the object goes.
LEMMA TableClear ==
  ASSUME TableInv, NEW o \in Referents, ClearReferent(o)
  PROVE  TableInv'
<1>1. PICK n, E, t, w : t = weak_table /\ w = watching /\ Agrees(t, w, n, E)
  BY DEF TableInv
<1>2. PICK t1, w1 : t1 = weak_table' /\ w1 = watching'
  OBVIOUS
<1>3. TableHas(t, n, E) /\ w \in [Referrers -> Referents \cup {NoReferent}]
  BY <1>1 DEF Agrees
<1>4. PICK i \in EntryForReferent(t, o) :
        /\ w1 = [r \in Referrers |->
                   IF \E j \in DOMAIN t.entries[i].refs : t.entries[i].refs[j] = r /\ w[r] = o
                   THEN NoReferent ELSE w[r]]
        /\ t1 = WeakEntryRemove(t, i)
  BY <1>1, <1>2 DEF ClearReferent
<1>5. i \in Used(t) /\ t.entries[i] \in E /\ t.entries[i].referent = o
  BY <1>3, EntryFound
<1>6. PICK e : e = t.entries[i]
  OBVIOUS
<1>7. PICK k : EntryHas(e, k, WatchersOf(w, o))
  BY <1>1, <1>5, <1>6 DEF Agrees
<1>8. \A r \in Referrers : w[r] = o => \E j \in DOMAIN e.refs : e.refs[j] = r
  BY <1>7 DEF EntryHas, RefSlots, WatchersOf
<1>9. /\ w1 \in [Referrers -> Referents \cup {NoReferent}]
      /\ \A q \in Referrers : w1[q] # w[q] => w[q] \in {o, NoReferent} /\ w1[q] \in {o, NoReferent}
      /\ WatchersOf(w1, o) = {}
  <2>1. \A q \in Referrers : w1[q] = IF w[q] = o THEN NoReferent ELSE w[q]
    BY <1>4, <1>6, <1>8
  <2>2. w1 \in [Referrers -> Referents \cup {NoReferent}]
    BY <1>3, <1>4
  <2> QED
    BY <2>1, <2>2, ConstantFacts DEF WatchersOf
<1>10. PICK m : TableHas(t1, m, E \ {e})
  BY <1>3, <1>4, <1>5, <1>6, RemoveKeeps
<1>11. \A y \in E : y.referent = o => y = e
  BY <1>3, <1>5, <1>6 DEF TableHas
<1>12. Agrees(t1, w1, m, E \ {e})
  <2>1. \A y \in E : y.referent # o => y \in E \ {e}
    BY <1>5, <1>6
  <2>2. \A y \in E \ {e} : y.referent # o /\ y \in E
    BY <1>11
  <2>3. OnlyWatches(w, w1, o) /\ OthersRemain(E, E \ {e}, o) /\ EntryRight(E \ {e}, w1, o)
    BY <1>9, <2>1, <2>2 DEF OnlyWatches, OthersRemain, EntryRight
  <2> QED
    BY <1>1, <1>10, <2>3, Rewatched
<1> QED
  BY <1>2, <1>12 DEF TableInv

\* The invariant of the weak table: every entry and every referrer is in a slot that a search
\* for it comes to, within the displacement that the table remembers.
THEOREM TableInvariant == SpecWeakTable => []TableInv
<1>1. InitWeakTable => TableInv
  BY TableInit
<1>2. TableInv /\ [NextWeakTable]_weak => TableInv'
  <2> SUFFICES ASSUME TableInv, [NextWeakTable]_weak
               PROVE  TableInv'
    OBVIOUS
  <2>1. ASSUME NEW o \in Referents, NEW r \in Referrers, RegisterReferrer(o, r)
        PROVE  TableInv'
    BY <2>1, TableRegister
  <2>2. ASSUME NEW o \in Referents, NEW r \in Referrers, UnregisterReferrer(o, r)
        PROVE  TableInv'
    BY <2>2, TableUnregister
  <2>3. ASSUME NEW o \in Referents, ClearReferent(o)
        PROVE  TableInv'
    BY <2>3, TableClear
  <2>4. CASE UNCHANGED weak
    BY <2>4 DEF TableInv, weak
  <2> QED
    BY <2>1, <2>2, <2>3, <2>4 DEF NextWeakTable
<1> QED
  BY <1>1, <1>2, PTL DEF SpecWeakTable

\* The weak table holds exactly the registered referrers of each object, counted, whatever
\* the hashes, through growth, compaction and removals (objc-weak.mm).
THEOREM WeakTableIsExact == SpecWeakTable => []WeakTableAgrees
  BY TableInvariant, TableInvAgrees, PTL
=============================================================================
