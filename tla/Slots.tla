-------------------------------- MODULE Slots --------------------------------
(****************************************************************************)
(* Where a program keeps values for others to find: the associated objects  *)
(* of one object (objc-references.mm), the strong properties behind         *)
(* objc_getProperty and objc_setProperty, and the structures that           *)
(* objc_copyStruct and objc_copyCppObjectAtomic copy (objc-accessors.mm).   *)
(*                                                                          *)
(* A slot that retains holds one reference to its value. Counts are the     *)
(* atomic ones that RefCount is shown to implement; at zero the value is    *)
(* gone, and malloc may hand its address out again. A step of a thread is   *)
(* an access to memory that other threads reach; a critical section in      *)
(* which it touches only what the lock guards is one step.                  *)
(****************************************************************************)
EXTENDS Naturals, FiniteSets, FiniteSetsExt, Functions

CONSTANTS Threads, NoThread,
          Values, Nil,
          Keys,            \* keys of the object's associations
          Policies,        \* association policies in use, as sets of flags
          Props, Atomic,   \* properties, and those that are atomic
          Structs, Data,   \* structures of two words, and what a word may hold
          LockOf,          \* the striped lock of each property and structure
          StackLock,       \* the stripe of a structure on a stack
          MaxOwn,          \* bound: references to a value that a thread owns
          SlotSets          \* bound: the sets of slots a program may use together

\* AssociationsManager::_lock
Manager == 0
Locks   == {Manager, StackLock} \cup Range(LockOf)
NoEntry == [value |-> Nil, policy |-> {}]
\* What a call has taken out of its slots.
Nothing == [s \in Keys \cup Props |-> NoEntry]
\* A thread's own structure, on its stack, has the thread's name.
Places  == Structs \cup Threads
StripeOf(place) == IF place \in Threads THEN StackLock ELSE LockOf[place]

ASSUME SlotsAssumption ==
    /\ \A S \in {Threads, Values, Keys, Props} : IsFiniteSet(S)
    /\ Nil \notin Values /\ NoThread \notin Threads
    /\ Threads \cap Structs = {} /\ Keys \cap Props = {}
    \* What objc_AssociationPolicy lists: nothing is copied, or retained for a getter,
    \* that the association does not retain.
    /\ Policies \subseteq {{}} \cup {p \in SUBSET {"retain", "copy", "getterRetain"} : "retain" \in p}
    /\ Atomic \subseteq Props
    /\ LockOf \in [Props \cup Structs -> Nat \ {Manager}] /\ StackLock \in Nat \ {Manager}
    /\ \A p \in Props, s \in Structs : LockOf[p] \notin {LockOf[s], StackLock}
    /\ MaxOwn \in Nat \ {0}
    /\ SlotSets \subseteq SUBSET (Keys \cup Props \cup Structs)

VARIABLES uses,      \* ghost: the slots this program uses
          refs,      \* the values' reference counts
          own,       \* ghost: references each thread owns, pools included
          alive,     \* ghost: the object with the associations exists
          assoc,     \* its ObjectAssociationMap
          hasMap,    \* AssociationsHashMap has an entry for its address
          flagged,   \* has_assoc
          prop,      \* what the properties hold
          words,     \* the structures
          lock,
          pc,
          arg,       \* per thread: the call's slot, value, policy, lock; the words to copy
          old        \* per thread: what was in the slots and it must still release

assocs == <<uses, alive, assoc, hasMap, flagged>>
vars   == <<refs, own, assocs, prop, words, lock, pc, arg, old>>

NoCall == [slot |-> Nil, value |-> Nil, policy |-> {}, from |-> Nil, word |-> 1, lock |-> Manager]

Init ==
    /\ uses \in SlotSets
    /\ refs = [v \in Values |-> 0] /\ own = [t \in Threads |-> [v \in Values |-> 0]]
    /\ alive = TRUE /\ hasMap = FALSE /\ flagged = FALSE
    /\ assoc = [k \in Keys |-> NoEntry]
    /\ prop = [p \in Props |-> Nil]
    /\ \E x \in Data : words = [place \in Places |-> <<x, x>>]
    /\ lock = [l \in Locks |-> NoThread]
    /\ pc = [t \in Threads |-> "idle"] /\ arg = [t \in Threads |-> NoCall]
    /\ old = [t \in Threads |-> Nothing]

------------------------------------------------------------------------------
(* References                                                               *)

Idle(t)        == pc[t] = "idle"
Goto(t, label) == pc' = [pc EXCEPT ![t] = label]
Free(l)        == lock[l] = NoThread
MayPass(t, v)  == v # Nil => own[t][v] > 0

Retain(v)  == refs' = IF v = Nil THEN refs ELSE [refs EXCEPT ![v] = @ + 1]
Release(v) == refs' = IF v = Nil THEN refs ELSE [refs EXCEPT ![v] = @ - 1]

\* acquireValue: copy retains the value itself or makes a new one.
Acquired(v, policy) ==
    IF v # Nil /\ "copy" \in policy THEN {v} \cup {w \in Values : refs[w] = 0} ELSE {v}
Acquire(w, policy) == IF "retain" \in policy THEN Retain(w) ELSE UNCHANGED refs

\* external: [Class new]
Make(t, v) ==
    /\ Idle(t) /\ refs[v] = 0
    /\ Retain(v) /\ own' = [own EXCEPT ![t][v] = @ + 1]
    /\ UNCHANGED <<assocs, prop, words, lock, pc, arg, old>>

\* external: the thread releases what it owns, or its autorelease pool is popped.
Drop(t, v) ==
    /\ Idle(t) /\ own[t][v] > 0
    /\ Release(v) /\ own' = [own EXCEPT ![t][v] = @ - 1]
    /\ UNCHANGED <<assocs, prop, words, lock, pc, arg, old>>

\* ReleaseValue and objc_release, outside every lock: an association or property value goes,
\* with the policy it had. The associations of an object go in the order of their keys'
\* addresses (ObjectAssociationMap is a std::map): any order, here.
ReleaseOld(t) ==
    /\ pc[t] = "release"
    /\ \/ old[t] = Nothing /\ Goto(t, "idle") /\ arg' = [arg EXCEPT ![t] = NoCall]
          /\ UNCHANGED <<refs, old>>
       \/ \E s \in Keys \cup Props :
            /\ old[t][s] # NoEntry
            /\ IF "retain" \in old[t][s].policy THEN Release(old[t][s].value) ELSE UNCHANGED refs
            /\ old' = [old EXCEPT ![t][s] = NoEntry] /\ UNCHANGED <<pc, arg>>
    /\ UNCHANGED <<own, assocs, prop, words, lock>>

------------------------------------------------------------------------------
(* Associated objects                                                       *)

\* _object_set_associative_reference: the new value is acquired, outside the lock.
SetAssoc(t, k, v, policy) ==
    /\ Idle(t) /\ alive /\ MayPass(t, v)
    /\ \E w \in Acquired(v, policy) :
         /\ Acquire(w, policy)
         /\ arg' = [arg EXCEPT ![t] = [NoCall EXCEPT !.slot = k, !.value = w, !.policy = policy]]
    /\ Goto(t, "setAssoc")
    /\ UNCHANGED <<own, assocs, prop, words, lock, old>>

\* Under the lock. A nil value erases; the first association of an object sets its bit.
SwapAssoc(t) ==
    LET k == arg[t].slot IN
    /\ pc[t] = "setAssoc" /\ Free(Manager)
    /\ old' = [old EXCEPT ![t][k] = assoc[k]]
    /\ IF arg[t].value = Nil
       THEN assoc' = [assoc EXCEPT ![k] = NoEntry] /\ UNCHANGED <<hasMap, flagged>>
       ELSE /\ assoc' = [assoc EXCEPT ![k] = [value |-> arg[t].value, policy |-> arg[t].policy]]
            /\ hasMap' = TRUE /\ flagged' = (flagged \/ ~hasMap)
    /\ Goto(t, "release")
    /\ UNCHANGED <<uses, alive, refs, own, prop, words, lock, arg>>

\* The bound on what a getter may return.
MayGet(t) == \A v \in Values : own[t][v] < MaxOwn

Got(t, l, value, policy) ==
    /\ arg' = [arg EXCEPT ![t] = [NoCall EXCEPT !.lock = l, !.value = value, !.policy = policy]]
    /\ Goto(t, "retain")
    /\ UNCHANGED <<refs, own, assocs, prop, words, old>>

\* _object_get_associative_reference: the value is read and retained under the lock.
GetAssoc(t, k) ==
    /\ Idle(t) /\ alive /\ MayGet(t)
    /\ Free(Manager) /\ lock' = [lock EXCEPT ![Manager] = t]
    /\ Got(t, Manager, assoc[k].value, assoc[k].policy)

\* The value found is retained, the lock let go, the value autoreleased.
RetainFound(t) ==
    LET v == IF "getterRetain" \in arg[t].policy THEN arg[t].value ELSE Nil IN
    /\ pc[t] = "retain"
    /\ Retain(v) /\ own' = IF v = Nil THEN own ELSE [own EXCEPT ![t][v] = @ + 1]
    /\ lock' = [lock EXCEPT ![arg[t].lock] = NoThread]
    /\ Goto(t, "idle") /\ arg' = [arg EXCEPT ![t] = NoCall]
    /\ UNCHANGED <<assocs, prop, words, old>>

\* objc_removeAssociatedObjects looks at the bit first.
RemoveAssocs(t) ==
    /\ Idle(t) /\ alive /\ flagged /\ Goto(t, "remove")
    /\ UNCHANGED <<refs, own, assocs, prop, words, lock, arg, old>>

\* _object_remove_assocations: all are taken out under the lock.
TakeAssocs(t) ==
    /\ pc[t] = "remove" /\ Free(Manager)
    /\ old' = [old EXCEPT ![t] = [s \in Keys \cup Props |-> IF s \in Keys THEN assoc[s] ELSE NoEntry]]
    /\ assoc' = [k \in Keys |-> NoEntry] /\ hasMap' = FALSE
    /\ Goto(t, "release")
    /\ UNCHANGED <<uses, alive, refs, own, flagged, prop, words, lock, arg>>

\* object_dispose, with no call on the object under way: the bit decides.
Dispose(t) ==
    /\ Idle(t) /\ alive /\ Free(Manager)
    /\ \A u \in Threads : pc[u] \notin {"setAssoc", "remove"}
    /\ alive' = FALSE
    /\ IF flagged THEN Goto(t, "remove") ELSE UNCHANGED pc
    /\ UNCHANGED <<uses, refs, own, assoc, hasMap, flagged, prop, words, lock, arg, old>>

\* external: an object is allocated where the last one was, with a new isa.
NewObject ==
    /\ ~alive /\ \A u \in Threads : pc[u] # "remove"
    /\ alive' = TRUE /\ flagged' = FALSE
    /\ UNCHANGED <<uses, refs, own, assoc, hasMap, prop, words, lock, pc, arg, old>>

------------------------------------------------------------------------------
(* Properties                                                               *)

\* A property that is not atomic is used by one thread at a time.
MayUse(t, p) == p \in Atomic \/ \A u \in Threads \ {t} : arg[u].slot # p

\* reallySetProperty: a value that is there already is not stored again, a test
\* made without the lock; else the new value is acquired.
SetProp(t, p, v, policy) ==
    /\ Idle(t) /\ MayUse(t, p) /\ MayPass(t, v)
    /\ "copy" \in policy \/ prop[p] # v
    /\ \E w \in Acquired(v, policy) :
         /\ Acquire(w, policy)
         /\ arg' = [arg EXCEPT ![t] = [NoCall EXCEPT !.slot = p, !.value = w, !.policy = policy]]
    /\ Goto(t, "setProp")
    /\ UNCHANGED <<own, assocs, prop, words, lock, old>>

\* mutant: old value and slot are exchanged without the lock
LockPropNever(t) == UNCHANGED lock

\* The lock of the call's property, if it is atomic
LockProp(t) ==
    LET p == arg[t].slot IN
    IF p \in Atomic THEN Free(LockOf[p]) /\ lock' = [lock EXCEPT ![LockOf[p]] = t] ELSE UNCHANGED lock

\* The old value is read, under the lock of an atomic property ...
ReadOldProp(t) ==
    /\ pc[t] = "setProp" /\ LockProp(t)
    /\ old' = [old EXCEPT ![t][arg[t].slot] = [value |-> prop[arg[t].slot], policy |-> {"retain"}]]
    /\ Goto(t, "storeProp")
    /\ UNCHANGED <<refs, own, assocs, prop, words, arg>>

\* ... and the new one stored, before the lock is let go.
StoreProp(t) ==
    /\ pc[t] = "storeProp"
    /\ prop' = [prop EXCEPT ![arg[t].slot] = arg[t].value]
    /\ lock' = [l \in Locks |-> IF lock[l] = t THEN NoThread ELSE lock[l]]
    /\ Goto(t, "release")
    /\ UNCHANGED <<refs, own, assocs, words, arg, old>>

\* objc_getProperty of an atomic property; RetainFound is its second half. One that is
\* not atomic is just read.
GetProp(t, p) ==
    /\ Idle(t) /\ p \in Atomic /\ MayGet(t)
    /\ Free(LockOf[p]) /\ lock' = [lock EXCEPT ![LockOf[p]] = t]
    /\ Got(t, LockOf[p], prop[p], {"getterRetain"})

------------------------------------------------------------------------------
(* Structures                                                               *)

\* external: the program fills a structure on its stack.
Fill(t, x) ==
    /\ Idle(t) /\ words' = [words EXCEPT ![t] = <<x, x>>]
    /\ UNCHANGED <<refs, own, assocs, prop, lock, pc, arg, old>>

\* objc_copyStruct, atomic, and objc_copyCppObjectAtomic
CopyStruct(t, to, from) ==
    /\ Idle(t) /\ to # from
    /\ arg' = [arg EXCEPT ![t] = [NoCall EXCEPT !.slot = to, !.from = from]]
    /\ Goto(t, "lock")
    /\ UNCHANGED <<refs, own, assocs, prop, words, lock, old>>

\* mutant: only the destination is locked
StripesOfTarget(t) == {StripeOf(arg[t].slot)}

StripesOf(t) == {StripeOf(arg[t].slot), StripeOf(arg[t].from)}
Missing(t)   == {l \in StripesOf(t) : lock[l] # t}

\* lockTwo: the higher address first, and the same lock once
LockNext(t) ==
    /\ pc[t] = "lock"
    /\ IF Missing(t) = {} THEN Goto(t, "copy") /\ UNCHANGED lock
       ELSE LET l == Max(Missing(t))
            IN Free(l) /\ lock' = [lock EXCEPT ![l] = t] /\ UNCHANGED pc
    /\ UNCHANGED <<refs, own, assocs, prop, words, arg, old>>

\* memmove, or the copy constructor, word after word; then unlockTwo
CopyWord(t) ==
    LET to == arg[t].slot  from == arg[t].from  n == arg[t].word IN
    /\ pc[t] = "copy"
    /\ words' = [words EXCEPT ![to][n] = words[from][n]]
    /\ IF n = 1 THEN arg' = [arg EXCEPT ![t].word = 2] /\ UNCHANGED <<lock, pc>>
       ELSE /\ arg' = [arg EXCEPT ![t] = NoCall] /\ Goto(t, "idle")
            /\ lock' = [l \in Locks |-> IF lock[l] = t THEN NoThread ELSE lock[l]]
    /\ UNCHANGED <<refs, own, assocs, prop, old>>

------------------------------------------------------------------------------
Associate(t) ==
    \/ \E k \in Keys \cap uses :
         \/ GetAssoc(t, k)
         \/ \E v \in Values \cup {Nil}, policy \in Policies : SetAssoc(t, k, v, policy)
    \/ SwapAssoc(t) \/ RemoveAssocs(t) \/ TakeAssocs(t) \/ Dispose(t)

Access(t) ==
    \/ \E p \in Props \cap uses :
         \/ GetProp(t, p)
         \/ \E v \in Values \cup {Nil}, policy \in {{"retain"}, {"retain", "copy"}} : SetProp(t, p, v, policy)
    \/ ReadOldProp(t) \/ StoreProp(t)

Copy(t) ==
    \/ \E to, from \in (Structs \cap uses) \cup {t} : CopyStruct(t, to, from)
    \/ LockNext(t) \/ CopyWord(t)
    \/ Structs \cap uses # {} /\ \E x \in Data : Fill(t, x)

Next ==
    \/ \E t \in Threads :
         \/ Associate(t) \/ Access(t) \/ Copy(t) \/ RetainFound(t) \/ ReleaseOld(t)
         \/ \E v \in Values : Make(t, v) \/ Drop(t, v)
    \/ NewObject

Spec == Init /\ [][Next]_vars

------------------------------------------------------------------------------
(* Properties                                                               *)

Retained(entry, v) == entry.value = v /\ "retain" \in entry.policy

\* The references to v that threads own, that calls must release or have acquired, and that
\* associations and properties keep.
OwnRefs(v)   == {x \in Threads \X (1 .. MaxOwn) : x[2] <= own[x[1]][v]}
OldRefs(v)   == {x \in Threads \X (Keys \cup Props) :
                   pc[x[1]] = "release" /\ Retained(old[x[1]][x[2]], v)}
ArgRefs(v)   == {t \in Threads : pc[t] \in {"setAssoc", "setProp", "storeProp"} /\ Retained(arg[t], v)}
AssocRefs(v) == {k \in Keys : Retained(assoc[k], v)}
PropRefs(v)  == {p \in Props : prop[p] = v}
Holders(v) == Cardinality(OwnRefs(v)) + Cardinality(OldRefs(v)) + Cardinality(ArgRefs(v))
              + Cardinality(AssocRefs(v)) + Cardinality(PropRefs(v))

\* Whatever setters, getters, copies and disposals race for a slot, a value is
\* referenced once for every holder, so it dies with the last and not before: what a
\* getter is about to retain is still there (objc-references.mm:236,
\* objc-accessors.mm:60). An object that is gone leaves no association for the next one
\* at its address to find: the bit that object_dispose looks at tells the truth.
HoldersAreCounted ==
    /\ \A v \in Values : refs[v] = Holders(v)
    /\ \A t \in Threads :
         pc[t] = "retain" /\ arg[t].value # Nil /\ "getterRetain" \in arg[t].policy => refs[arg[t].value] > 0
    /\ ~alive /\ (\A t \in Threads : pc[t] # "remove") =>
         ~hasMap /\ \A k \in Keys : assoc[k] = NoEntry

\* A structure is never seen half copied: outside of a copy into it, its words are of
\* one value, though it is copied word by word and from one shared structure to another
\* (objc_copyStruct, objc_copyCppObjectAtomic).
NoTornCopy ==
    \A place \in Places :
        \/ words[place][1] = words[place][2]
        \/ \E t \in Threads : pc[t] = "copy" /\ arg[t].slot = place
==============================================================================
