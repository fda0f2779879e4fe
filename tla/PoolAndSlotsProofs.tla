------------------------- MODULE PoolAndSlotsProofs -------------------------
(***************************************************************************)
(* Proofs about two components that share nothing but the facts of         *)
(* DataFacts: Slots, for any numbers of threads, values, slots and locks,  *)
(* and, from "The pools" on, AutoreleasePool, for pages of any size, any   *)
(* objects and any depth of pools popped inside -dealloc methods.          *)
(*                                                                         *)
(* PoolInv is the pools' inductive invariant. Chain is what holds of the   *)
(* pages alone: pointers lie in the hot page and its ancestors. Popping(k) *)
(* is what the k-th call of pop on the thread's stack relies on, Token(i)  *)
(* what the i-th token does: each is where a boundary is, and they lie in  *)
(* the order in which they came. The pages, flattened, are the stack of    *)
(* PoolStack: every step here is one of its steps or none.                 *)
(***************************************************************************)
EXTENDS Slots, AutoreleasePool, DataFacts

------------------------------------------------------------------------------
(* The inductive invariant.                                                *)

Labels  == {"idle", "setAssoc", "retain", "remove", "setProp", "storeProp", "lock", "copy",
            "release"}
Slot    == Keys \cup Props
Flags   == {"retain", "copy", "getterRetain"}
Associations == [value : Values \cup {Nil}, policy : SUBSET Flags]
Calls   == [slot : Slot \cup Places \cup {Nil}, value : Values \cup {Nil}, policy : SUBSET Flags,
            from : Places \cup {Nil}, word : {1, 2}, lock : Locks]

TypeOK ==
    /\ refs \in [Values -> Nat]
    /\ own \in [Threads -> [Values -> 0 .. MaxOwn]]
    /\ alive \in BOOLEAN /\ hasMap \in BOOLEAN /\ flagged \in BOOLEAN
    /\ assoc \in [Keys -> Associations]
    /\ prop \in [Props -> Values \cup {Nil}]
    /\ words \in [Places -> [1 .. 2 -> Data]]
    /\ lock \in [Locks -> Threads \cup {NoThread}]
    /\ pc \in [Threads -> Labels]
    /\ arg \in [Threads -> Calls]
    /\ old \in [Threads -> [Slot -> Associations]]

\* A value is referenced once for every holder, and nothing is retained for a getter that
\* its association does not retain.
Counted(v) == refs[v] = Holders(v)
GotIsKept(k)    == "getterRetain" \in assoc[k].policy => "retain" \in assoc[k].policy

\* The bit and the map of an object tell of its associations, as do they of the object that
\* was at its address: unless someone is about to take them out, it has left none.
Flagged ==
    /\ \A k \in Keys : assoc[k] # NoEntry => hasMap
    /\ alive /\ hasMap => flagged
    /\ ~alive => /\ \A t \in Threads : pc[t] # "setAssoc"
                 /\ hasMap => \E t \in Threads : pc[t] = "remove"

\* Each label of a setter or a getter: the slot, its lock, and what was read from it.
Setting(t) == pc[t] \in {"setProp", "storeProp"}
Setter(t) ==
    /\ pc[t] = "setAssoc" =>
         /\ arg[t].slot \in Keys
         /\ "getterRetain" \in arg[t].policy => "retain" \in arg[t].policy
    /\ Setting(t) => arg[t].slot \in Props /\ "retain" \in arg[t].policy
    /\ pc[t] = "storeProp" => LET p == arg[t].slot IN
         /\ p \in Atomic => lock[LockOf[p]] = t
         /\ old[t] = [Nothing EXCEPT ![p] = [value |-> prop[p], policy |-> {"retain"}]]
    /\ pc[t] \notin {"storeProp", "release"} => old[t] = Nothing
Getter(t) == pc[t] = "retain" =>
    /\ \A v \in Values : own[t][v] < MaxOwn
    /\ lock[arg[t].lock] = t
    /\ \/ /\ arg[t].lock = Manager
          /\ \E k \in Keys : assoc[k].value = arg[t].value /\ assoc[k].policy = arg[t].policy
       \/ \E p \in Atomic : arg[t].lock = LockOf[p] /\ prop[p] = arg[t].value

\* Two setters of a plain property do not meet.
Alone == \A t, u \in Threads :
    Setting(t) /\ Setting(u) /\ arg[t].slot = arg[u].slot /\ arg[t].slot \notin Atomic => t = u

\* A copy holds the stripes of both structures, and its first word is there when the second
\* is not.
Copier(t) ==
    /\ pc[t] \in {"lock", "copy"} =>
         arg[t].slot \in Structs \cup {t} /\ arg[t].from \in Structs \cup {t}
         /\ arg[t].slot # arg[t].from
    /\ pc[t] = "lock" => arg[t].word = 1
    /\ pc[t] = "copy" => /\ lock[StripeOf(arg[t].slot)] = t /\ lock[StripeOf(arg[t].from)] = t
                         /\ arg[t].word = 2 => words[arg[t].slot][1] = words[arg[t].from][1]
Whole(place) ==
    \/ words[place][1] = words[place][2]
    \/ \E t \in Threads : pc[t] = "copy" /\ arg[t].slot = place /\ arg[t].word = 2

IInv ==
    /\ TypeOK
    /\ \A v \in Values : Counted(v)
    /\ \A k \in Keys : GotIsKept(k)
    /\ Flagged
    /\ \A t \in Threads : Setter(t) /\ Getter(t) /\ Copier(t)
    /\ Alone
    /\ \A place \in Places : Whole(place)

------------------------------------------------------------------------------
(* Counting.                                                               *)

One(b) == IF b THEN 1 ELSE 0

\* Two sets that differ at one point at most.
LEMMA Toggle ==
  ASSUME NEW S, IsFiniteSet(S), NEW T, NEW x, \A y : y # x => (y \in T <=> y \in S)
  PROVE  /\ Cardinality(S) \in Nat /\ Cardinality(T) \in Nat
         /\ Cardinality(T) + One(x \in S) = Cardinality(S) + One(x \in T)
<1>1. Cardinality(S) \in Nat
  BY FS_CardinalityType
<1>2. CASE x \in S /\ x \in T
  <2>1. S = T
    BY <1>2
  <2> QED
    BY <1>1, <1>2, <2>1
<1>3. CASE x \notin S /\ x \notin T
  <2>1. S = T
    BY <1>3
  <2> QED
    BY <1>1, <1>3, <2>1
<1>4. CASE x \notin S /\ x \in T
  <2>1. T = S \cup {x}
    BY <1>4
  <2>2. Cardinality(T) = Cardinality(S) + 1
    BY <1>4, <2>1, FS_AddElement
  <2> QED
    BY <1>1, <1>4, <2>2 DEF One
<1>5. CASE x \in S /\ x \notin T
  <2>1. T = S \ {x} /\ S # {}
    BY <1>5
  <2>2. Cardinality(T) = Cardinality(S) - 1
    BY <1>5, <2>1, FS_RemoveElement
  <2>3. Cardinality(S) # 0
    BY <2>1, FS_EmptySet
  <2> QED
    BY <1>1, <1>5, <2>2, <2>3 DEF One
<1> QED
  BY <1>2, <1>3, <1>4, <1>5

\* The references are finitely many.
LEMMA FinitelyMany ==
  ASSUME NEW v
  PROVE  /\ IsFiniteSet(OwnRefs(v)) /\ IsFiniteSet(OldRefs(v)) /\ IsFiniteSet(ArgRefs(v))
         /\ IsFiniteSet(AssocRefs(v)) /\ IsFiniteSet(PropRefs(v))
<1>1. /\ IsFiniteSet(Threads) /\ IsFiniteSet(Keys) /\ IsFiniteSet(Props)
      /\ MaxOwn \in Nat
  BY SlotsAssumption DEF SlotsAssumption
<1>2. IsFiniteSet(1 .. MaxOwn)
  BY <1>1, FS_Interval
<1>3. IsFiniteSet(Threads \X (1 .. MaxOwn))
  BY <1>1, <1>2, FS_Product
<1>4. IsFiniteSet(Keys \cup Props)
  BY <1>1, FS_Union
<1>5. IsFiniteSet(Threads \X (Keys \cup Props))
  BY <1>1, <1>4, FS_Product
<1>6. IsFiniteSet(OwnRefs(v))
  BY <1>3, FS_Subset DEF OwnRefs
<1>7. IsFiniteSet(OldRefs(v))
  BY <1>5, FS_Subset DEF OldRefs
<1>8. IsFiniteSet(ArgRefs(v))
  BY <1>1, FS_Subset DEF ArgRefs
<1>9. IsFiniteSet(AssocRefs(v))
  BY <1>1, FS_Subset DEF AssocRefs
<1>10. IsFiniteSet(PropRefs(v))
  BY <1>1, FS_Subset DEF PropRefs
<1> QED
  BY <1>6, <1>7, <1>8, <1>9, <1>10

\* How a step changes the count of a value, when it changes each kind of reference at one
\* point at most.
LEMMA Balance ==
  ASSUME NEW v, NEW a, NEW b, NEW c, NEW d, NEW e,
         \A y : y # a => (y \in OwnRefs(v)' <=> y \in OwnRefs(v)),
         \A y : y # b => (y \in OldRefs(v)' <=> y \in OldRefs(v)),
         \A y : y # c => (y \in ArgRefs(v)' <=> y \in ArgRefs(v)),
         \A y : y # d => (y \in AssocRefs(v)' <=> y \in AssocRefs(v)),
         \A y : y # e => (y \in PropRefs(v)' <=> y \in PropRefs(v))
  PROVE  /\ Holders(v) \in Nat /\ Holders(v)' \in Nat
         /\ Holders(v)' + One(a \in OwnRefs(v)) + One(b \in OldRefs(v)) + One(c \in ArgRefs(v))
              + One(d \in AssocRefs(v)) + One(e \in PropRefs(v))
            = Holders(v) + One(a \in OwnRefs(v)') + One(b \in OldRefs(v)')
              + One(c \in ArgRefs(v)') + One(d \in AssocRefs(v)') + One(e \in PropRefs(v)')
<1>1. PICK A, B, C, D, E : A = OwnRefs(v) /\ B = OldRefs(v) /\ C = ArgRefs(v) /\ D = AssocRefs(v)
                           /\ E = PropRefs(v)
  OBVIOUS
<1>2. /\ IsFiniteSet(A) /\ IsFiniteSet(B) /\ IsFiniteSet(C) /\ IsFiniteSet(D) /\ IsFiniteSet(E)
  BY <1>1, FinitelyMany
<1>3. PICK A1, B1, C1, D1, E1 : A1 = OwnRefs(v)' /\ B1 = OldRefs(v)' /\ C1 = ArgRefs(v)'
                                /\ D1 = AssocRefs(v)' /\ E1 = PropRefs(v)'
  OBVIOUS
<1>4. /\ Cardinality(A) \in Nat /\ Cardinality(A1) \in Nat
      /\ Cardinality(A1) + One(a \in A) = Cardinality(A) + One(a \in A1)
  BY <1>1, <1>2, <1>3, Toggle
<1>5. /\ Cardinality(B) \in Nat /\ Cardinality(B1) \in Nat
      /\ Cardinality(B1) + One(b \in B) = Cardinality(B) + One(b \in B1)
  BY <1>1, <1>2, <1>3, Toggle
<1>6. /\ Cardinality(C) \in Nat /\ Cardinality(C1) \in Nat
      /\ Cardinality(C1) + One(c \in C) = Cardinality(C) + One(c \in C1)
  BY <1>1, <1>2, <1>3, Toggle
<1>7. /\ Cardinality(D) \in Nat /\ Cardinality(D1) \in Nat
      /\ Cardinality(D1) + One(d \in D) = Cardinality(D) + One(d \in D1)
  BY <1>1, <1>2, <1>3, Toggle
<1>8. /\ Cardinality(E) \in Nat /\ Cardinality(E1) \in Nat
      /\ Cardinality(E1) + One(e \in E) = Cardinality(E) + One(e \in E1)
  BY <1>1, <1>2, <1>3, Toggle
<1>9. /\ Holders(v) = Cardinality(A) + Cardinality(B) + Cardinality(C) + Cardinality(D)
                      + Cardinality(E)
      /\ Holders(v)' = Cardinality(A1) + Cardinality(B1) + Cardinality(C1) + Cardinality(D1)
                       + Cardinality(E1)
  BY <1>1, <1>3 DEF Holders
<1>10. PICK i, j, k, l, m : /\ i = One(a \in A) /\ j = One(b \in B) /\ k = One(c \in C)
                            /\ l = One(d \in D) /\ m = One(e \in E)
  OBVIOUS
<1>11. PICK i1, j1, k1, l1, m1 :
         /\ i1 = One(a \in A1) /\ j1 = One(b \in B1) /\ k1 = One(c \in C1)
         /\ l1 = One(d \in D1) /\ m1 = One(e \in E1)
  OBVIOUS
<1>12. /\ i \in Nat /\ j \in Nat /\ k \in Nat /\ l \in Nat /\ m \in Nat
       /\ i1 \in Nat /\ j1 \in Nat /\ k1 \in Nat /\ l1 \in Nat /\ m1 \in Nat
  BY <1>10, <1>11 DEF One
<1>13. /\ Cardinality(A1) + i = Cardinality(A) + i1
       /\ Cardinality(B1) + j = Cardinality(B) + j1
       /\ Cardinality(C1) + k = Cardinality(C) + k1
       /\ Cardinality(D1) + l = Cardinality(D) + l1
       /\ Cardinality(E1) + m = Cardinality(E) + m1
  BY <1>4, <1>5, <1>6, <1>7, <1>8, <1>10, <1>11
<1>14. /\ Cardinality(A) \in Nat /\ Cardinality(B) \in Nat /\ Cardinality(C) \in Nat
       /\ Cardinality(D) \in Nat /\ Cardinality(E) \in Nat
       /\ Cardinality(A1) \in Nat /\ Cardinality(B1) \in Nat /\ Cardinality(C1) \in Nat
       /\ Cardinality(D1) \in Nat /\ Cardinality(E1) \in Nat
  BY <1>4, <1>5, <1>6, <1>7, <1>8
<1>15. PICK f, g, h : f = Cardinality(A) + Cardinality(B) /\ g = f + Cardinality(C)
                      /\ h = g + Cardinality(D)
  OBVIOUS
<1>16. PICK f1, g1, h1 : f1 = Cardinality(A1) + Cardinality(B1) /\ g1 = f1 + Cardinality(C1)
                         /\ h1 = g1 + Cardinality(D1)
  OBVIOUS
<1>17. f \in Nat /\ f1 \in Nat /\ f1 + i + j = f + i1 + j1
  BY <1>12, <1>13, <1>14, <1>15, <1>16
<1>18. g \in Nat /\ g1 \in Nat /\ g1 + i + j + k = g + i1 + j1 + k1
  BY <1>12, <1>13, <1>14, <1>15, <1>16, <1>17
<1>19. h \in Nat /\ h1 \in Nat /\ h1 + i + j + k + l = h + i1 + j1 + k1 + l1
  BY <1>12, <1>13, <1>14, <1>15, <1>16, <1>18
<1>20. Holders(v) = h + Cardinality(E) /\ Holders(v)' = h1 + Cardinality(E1)
  BY <1>9, <1>15, <1>16
<1>21. /\ Holders(v) \in Nat /\ Holders(v)' \in Nat
       /\ Holders(v)' + i + j + k + l + m = Holders(v) + i1 + j1 + k1 + l1 + m1
  BY <1>12, <1>13, <1>14, <1>19, <1>20
<1> QED
  BY <1>1, <1>3, <1>10, <1>11, <1>21

\* A value that is retained somewhere has a count above zero.
LEMMA SomeHolder ==
  ASSUME NEW v, \/ OwnRefs(v) # {} \/ AssocRefs(v) # {} \/ PropRefs(v) # {}
  PROVE  Holders(v) \in Nat /\ Holders(v) > 0
<1>1. /\ IsFiniteSet(OwnRefs(v)) /\ IsFiniteSet(OldRefs(v)) /\ IsFiniteSet(ArgRefs(v))
      /\ IsFiniteSet(AssocRefs(v)) /\ IsFiniteSet(PropRefs(v))
  BY FinitelyMany
<1>2. /\ Cardinality(OwnRefs(v)) \in Nat /\ Cardinality(OldRefs(v)) \in Nat
      /\ Cardinality(ArgRefs(v)) \in Nat /\ Cardinality(AssocRefs(v)) \in Nat
      /\ Cardinality(PropRefs(v)) \in Nat
  BY <1>1, FS_CardinalityType
<1>3. \/ Cardinality(OwnRefs(v)) # 0 \/ Cardinality(AssocRefs(v)) # 0
      \/ Cardinality(PropRefs(v)) # 0
  BY <1>1, FS_EmptySet
<1> QED
  BY <1>2, <1>3 DEF Holders

------------------------------------------------------------------------------
(* What a step leaves alone.                                               *)

\* Whose argument is a reference.
Acquiring(t) == pc[t] \in {"setAssoc", "setProp", "storeProp"}

\* What one thread knows.
Local(t) == Setter(t) /\ Getter(t) /\ Copier(t)

\* A step of t leaves to the others what is theirs, what they have locked, and what their
\* locks protect.
OthersSame(t) == \A u \in Threads \ {t} :
    pc'[u] = pc[u] /\ arg'[u] = arg[u] /\ old'[u] = old[u] /\ own'[u] = own[u]
LocksStay(t) == \A u \in Threads \ {t}, l \in Locks : lock[l] = u => lock'[l] = u
GuardedStay(t) == \A u \in Threads \ {t} :
    /\ lock[Manager] = u => assoc' = assoc
    /\ \A p \in Props :
         \/ p \in Atomic /\ lock[LockOf[p]] = u
         \/ pc[u] = "storeProp" /\ arg[u].slot = p
         => prop'[p] = prop[p]

\* The locks of slots and structures.
LEMMA LockFacts ==
  /\ Manager \in Locks /\ \A place \in Places : StripeOf(place) \in Locks
  /\ \A p \in Props : LockOf[p] \in Locks /\ LockOf[p] # Manager
  /\ Atomic \subseteq Props
<1>1. LockOf \in [Props \cup Structs -> Nat \ {Manager}] /\ Atomic \subseteq Props
  BY SlotsAssumption DEF SlotsAssumption
<1>2. \A x \in Props \cup Structs : LockOf[x] \in Range(LockOf) /\ LockOf[x] # Manager
  BY <1>1 DEF Range
<1> QED
  BY <1>1, <1>2 DEF Locks, StripeOf, Places

\* What a thread knows holds on while the others leave that alone.
LEMMA OthersLocal ==
  ASSUME IInv, NEW t \in Threads, OthersSame(t), LocksStay(t), GuardedStay(t), words' = words,
         NEW u \in Threads \ {t}
  PROVE  Local(u)'
<1>1. pc'[u] = pc[u] /\ arg'[u] = arg[u] /\ old'[u] = old[u] /\ own'[u] = own[u]
  BY DEF OthersSame
<1>2. Setter(u) /\ Getter(u) /\ Copier(u) /\ arg[u] \in Calls
  BY DEF IInv, TypeOK
<1>3. \A l \in Locks : lock[l] = u => lock'[l] = u
  BY DEF LocksStay
<1>4. Setter(u)'
  <2>1. Setting(u)' <=> Setting(u)
    BY <1>1 DEF Setting
  <2>2. pc[u] = "storeProp" =>
          /\ arg[u].slot \in Props /\ prop'[arg[u].slot] = prop[arg[u].slot]
          /\ arg[u].slot \in Atomic => lock'[LockOf[arg[u].slot]] = u
    BY <1>2, <1>3, LockFacts DEF GuardedStay, Setter, Setting
  <2> QED
    BY <1>1, <1>2, <2>1, <2>2 DEF Setter
<1>5. Getter(u)'
  <2> SUFFICES ASSUME pc[u] = "retain"
               PROVE  Getter(u)'
    BY <1>1 DEF Getter
  <2>1. arg[u].lock \in Locks /\ lock[arg[u].lock] = u /\ lock'[arg[u].lock] = u
    BY <1>2, <1>3 DEF Getter, Calls
  <2>2. arg[u].lock = Manager => assoc' = assoc
    BY <2>1 DEF GuardedStay
  <2>3. \A p \in Atomic : arg[u].lock = LockOf[p] => prop'[p] = prop[p]
    BY <2>1, LockFacts DEF GuardedStay
  <2> QED
    BY <1>1, <1>2, <2>1, <2>2, <2>3 DEF Getter
<1>6. Copier(u)'
  <2>1. pc[u] \in {"lock", "copy"} =>
          StripeOf(arg[u].slot) \in Locks /\ StripeOf(arg[u].from) \in Locks
    BY <1>2, LockFacts DEF Copier, Places
  <2>2. pc[u] = "copy" => /\ lock'[StripeOf(arg[u].slot)] = u
                          /\ lock'[StripeOf(arg[u].from)] = u
    BY <1>2, <1>3, <2>1 DEF Copier
  <2> QED
    BY <1>1, <1>2, <2>2 DEF Copier
<1> QED
  BY <1>4, <1>5, <1>6 DEF Local

\* A step of t that copies no word, and starts a setter only where it may.
LEMMA Assemble ==
  ASSUME IInv, NEW t \in Threads, TypeOK', OthersSame(t), LocksStay(t), GuardedStay(t),
         words' = words, pc[t] # "copy",
         Setting(t)' => MayUse(t, arg'[t].slot) \/ (Setting(t) /\ arg'[t].slot = arg[t].slot),
         \A v \in Values : Counted(v)', \A k \in Keys : GotIsKept(k)', Flagged', Local(t)'
  PROVE  IInv'
<1>1. \A u \in Threads : Local(u)'
  BY OthersLocal
<1>2. Alone'
  <2>1. Alone /\ \A u \in Threads \ {t} : (Setting(u)' <=> Setting(u)) /\ arg'[u] = arg[u]
    BY DEF OthersSame, Setting, IInv
  <2>2. CASE Setting(t)' => Setting(t) /\ arg'[t].slot = arg[t].slot
    BY <2>1, <2>2 DEF Alone
  <2>3. CASE MayUse(t, arg'[t].slot)
    BY <2>1, <2>3 DEF Alone, MayUse
  <2> QED
    BY <2>2, <2>3
<1>3. \A place \in Places : Whole(place)'
  BY DEF IInv, Whole, OthersSame
<1> QED
  BY <1>1, <1>2, <1>3 DEF IInv, Local

\* A step that passes no reference on.
LEMMA QuietCounts ==
  ASSUME IInv, UNCHANGED <<refs, own, assoc, prop>>,
         \A u \in Threads : /\ pc'[u] = "release" <=> pc[u] = "release"
                            /\ pc[u] = "release" => old'[u] = old[u]
                            /\ Acquiring(u)' <=> Acquiring(u)
                            /\ Acquiring(u) => arg'[u] = arg[u]
  PROVE  \A v \in Values : Counted(v)'
<1> SUFFICES ASSUME NEW v \in Values
             PROVE  Counted(v)'
  OBVIOUS
<1>1. OwnRefs(v)' = OwnRefs(v) /\ AssocRefs(v)' = AssocRefs(v) /\ PropRefs(v)' = PropRefs(v)
  BY DEF OwnRefs, AssocRefs, PropRefs, Retained
<1>2. OldRefs(v)' = OldRefs(v)
  BY DEF OldRefs, Retained
<1>3. ArgRefs(v)' = ArgRefs(v)
  BY DEF ArgRefs, Retained, Acquiring
<1>4. Counted(v)
  BY DEF IInv
<1> QED
  BY <1>1, <1>2, <1>3, <1>4 DEF Counted, Holders

\* A step that leaves the associations and the object alone, and takes nothing out later.
LEMMA FlaggedStays ==
  ASSUME IInv, UNCHANGED <<alive, assoc, hasMap, flagged>>,
         \A u \in Threads : /\ pc'[u] = "setAssoc" => alive \/ pc[u] = "setAssoc"
                            /\ pc[u] = "remove" => pc'[u] = "remove"
  PROVE  Flagged' /\ \A k \in Keys : GotIsKept(k)'
<1>1. Flagged /\ \A k \in Keys : GotIsKept(k)
  BY DEF IInv
<1>2. Flagged'
  BY <1>1 DEF Flagged, NoEntry
<1>3. \A k \in Keys : GotIsKept(k)'
  BY <1>1 DEF GotIsKept
<1> QED
  BY <1>2, <1>3

------------------------------------------------------------------------------
(* Each action in turn: those that pass no reference on.                   *)

\* What an action says of its own thread and of the others.
LEMMA PcOf ==
  ASSUME TypeOK, NEW t \in Threads, NEW label, Goto(t, label)
  PROVE  pc'[t] = label /\ \A u \in Threads \ {t} : pc'[u] = pc[u]
BY DEF TypeOK, Goto

\* A call begins with no arguments.
LEMMA NoCallType == NoCall \in Calls
BY LockFacts DEF NoCall, Calls

\* A getter has found a value, and keeps the lock.
LEMMA GotKeeps ==
  ASSUME IInv, NEW t \in Threads, NEW l \in Locks, NEW value \in Values \cup {Nil},
         NEW policy \in SUBSET Flags,
         Idle(t), MayGet(t), Free(l), lock' = [lock EXCEPT ![l] = t], Got(t, l, value, policy),
         UNCHANGED assocs, UNCHANGED <<assoc, prop>>,
         \/ l = Manager /\ \E k \in Keys : assoc[k].value = value /\ assoc[k].policy = policy
         \/ \E p \in Atomic : l = LockOf[p] /\ prop[p] = value
  PROVE  IInv'
<1> DEFINE call == [NoCall EXCEPT !.lock = l, !.value = value, !.policy = policy]
<1>1. TypeOK /\ pc[t] = "idle" /\ lock[l] = NoThread /\ NoThread \notin Threads
  BY SlotsAssumption DEF IInv, Idle, Free, SlotsAssumption
<1>2. /\ UNCHANGED <<refs, own, assocs, prop, words, old>> /\ Goto(t, "retain")
      /\ arg' = [arg EXCEPT ![t] = call]
  BY DEF Got
<1>3. call \in Calls /\ call.lock = l /\ call.value = value /\ call.policy = policy
  BY NoCallType DEF Calls
<1> HIDE DEF call
<1>4. /\ pc'[t] = "retain" /\ arg'[t] = call /\ lock'[l] = t
      /\ \A u \in Threads \ {t} : pc'[u] = pc[u] /\ arg'[u] = arg[u]
  BY <1>1, <1>2, PcOf DEF TypeOK
<1>5. TypeOK'
  <2>1. pc' \in [Threads -> Labels] /\ arg' \in [Threads -> Calls]
        /\ lock' \in [Locks -> Threads \cup {NoThread}]
    BY <1>1, <1>2, <1>3 DEF TypeOK, Goto, Labels
  <2> QED
    BY <1>1, <1>2, <2>1 DEF TypeOK, assocs
<1>6. OthersSame(t)
  BY <1>2, <1>4 DEF OthersSame
<1>7. LocksStay(t) /\ GuardedStay(t)
  BY <1>1, <1>2 DEF LocksStay, GuardedStay, TypeOK
<1>8. \A v \in Values : Counted(v)'
  BY <1>1, <1>2, <1>4, QuietCounts DEF Acquiring, assocs
<1>9. Flagged' /\ \A k \in Keys : GotIsKept(k)'
  BY <1>1, <1>2, <1>4, FlaggedStays DEF assocs
<1>10. Local(t)'
  <2>1. Setter(t)'
    BY <1>1, <1>2, <1>4 DEF Setter, Setting, IInv
  <2>2. Getter(t)'
    <3>1. \A v \in Values : own'[t][v] < MaxOwn
      BY <1>2 DEF MayGet
    <3> QED
      BY <1>2, <1>3, <1>4, <3>1 DEF Getter
  <2>3. Copier(t)'
    BY <1>4 DEF Copier
  <2> QED
    BY <2>1, <2>2, <2>3 DEF Local
<1> QED
  BY <1>1, <1>2, <1>4, <1>5, <1>6, <1>7, <1>8, <1>9, <1>10, Assemble DEF Setting

\* An association is looked up.
LEMMA GetAssocKeeps ==
  ASSUME IInv, NEW t \in Threads, NEW k \in Keys, GetAssoc(t, k)
  PROVE  IInv'
<1>1. PICK e : e = assoc[k]
  OBVIOUS
<1>2. e.value \in Values \cup {Nil} /\ e.policy \in SUBSET Flags
  BY <1>1 DEF IInv, TypeOK, Associations
<1>3. /\ Idle(t) /\ MayGet(t) /\ Free(Manager) /\ lock' = [lock EXCEPT ![Manager] = t]
      /\ Got(t, Manager, e.value, e.policy)
  BY <1>1 DEF GetAssoc
<1>4. UNCHANGED assocs /\ UNCHANGED <<assoc, prop>>
  BY <1>3 DEF Got, assocs
<1> QED
  BY <1>1, <1>2, <1>3, <1>4, GotKeeps, LockFacts

\* An atomic property is read.
LEMMA GetPropKeeps ==
  ASSUME IInv, NEW t \in Threads, NEW p \in Props, GetProp(t, p)
  PROVE  IInv'
<1>1. PICK v : v = prop[p]
  OBVIOUS
<1>2. v \in Values \cup {Nil} /\ {"getterRetain"} \in SUBSET Flags
  BY <1>1 DEF IInv, TypeOK, Flags
<1>3. /\ Idle(t) /\ MayGet(t) /\ Free(LockOf[p]) /\ lock' = [lock EXCEPT ![LockOf[p]] = t]
      /\ Got(t, LockOf[p], v, {"getterRetain"}) /\ p \in Atomic
  BY <1>1 DEF GetProp
<1>4. UNCHANGED assocs /\ UNCHANGED <<assoc, prop>>
  BY <1>3 DEF Got, assocs
<1> QED
  BY <1>1, <1>2, <1>3, <1>4, GotKeeps, LockFacts

\* A step of t that leaves all memory alone but its own arguments, and that begins or goes
\* on with a removal or a copy.
LEMMA QuietKeeps ==
  ASSUME IInv, NEW t \in Threads, TypeOK',
         UNCHANGED <<refs, own, assoc, hasMap, flagged, prop, words, old>>,
         pc[t] \in {"idle", "lock"}, pc'[t] \in {"idle", "remove", "lock", "copy"},
         \A u \in Threads \ {t} : pc'[u] = pc[u] /\ arg'[u] = arg[u],
         LocksStay(t), Flagged', Copier(t)'
  PROVE  IInv'
<1>1. OthersSame(t) /\ GuardedStay(t)
  BY DEF OthersSame, GuardedStay
<1>2. \A v \in Values : Counted(v)'
  BY QuietCounts DEF Acquiring
<1>3. \A k \in Keys : GotIsKept(k)'
  BY DEF IInv, GotIsKept
<1>4. Setter(t)' /\ Getter(t)'
  BY DEF Setter, Getter, Setting, IInv
<1> QED
  BY <1>1, <1>2, <1>3, <1>4, Assemble DEF Setting, Local

\* objc_removeAssociatedObjects is called.
LEMMA RemoveAssocsKeeps ==
  ASSUME IInv, NEW t \in Threads, RemoveAssocs(t)
  PROVE  IInv'
<1>1. TypeOK /\ pc[t] = "idle" /\ Goto(t, "remove") /\ alive
      /\ UNCHANGED <<refs, own, assocs, prop, words, lock, arg, old>>
  BY DEF IInv, RemoveAssocs, Idle
<1>2. pc'[t] = "remove" /\ \A u \in Threads \ {t} : pc'[u] = pc[u]
  BY <1>1, PcOf
<1>3. TypeOK'
  BY <1>1 DEF TypeOK, assocs, Goto, Labels
<1>4. Flagged'
  BY <1>1, <1>2, FlaggedStays DEF assocs
<1>5. LocksStay(t) /\ Copier(t)'
  BY <1>1, <1>2 DEF LocksStay, Copier
<1> QED
  BY <1>1, <1>2, <1>3, <1>4, <1>5, QuietKeeps DEF assocs

\* The object is disposed of: if its bit says that it has no associations it has none.
LEMMA DisposeKeeps ==
  ASSUME IInv, NEW t \in Threads, Dispose(t)
  PROVE  IInv'
<1>1. /\ TypeOK /\ Flagged /\ pc[t] = "idle" /\ alive
      /\ \A u \in Threads : pc[u] \notin {"setAssoc", "remove"}
      /\ alive' = FALSE
      /\ UNCHANGED <<uses, refs, own, assoc, hasMap, flagged, prop, words, lock, arg, old>>
  BY DEF IInv, Dispose, Idle
<1>2. \/ flagged /\ Goto(t, "remove")
      \/ ~flagged /\ pc' = pc
  BY DEF Dispose
<1>3. /\ (flagged /\ pc'[t] = "remove") \/ (~flagged /\ pc'[t] = "idle")
      /\ \A u \in Threads \ {t} : pc'[u] = pc[u]
  BY <1>1, <1>2, PcOf
<1>4. TypeOK'
  BY <1>1, <1>2 DEF TypeOK, Goto, Labels
<1>5. Flagged'
  <2>1. \A u \in Threads : pc'[u] # "setAssoc"
    BY <1>1, <1>3
  <2>2. hasMap => flagged /\ pc'[t] = "remove"
    BY <1>1, <1>3 DEF Flagged
  <2> QED
    BY <1>1, <2>1, <2>2 DEF Flagged, NoEntry
<1>6. LocksStay(t) /\ Copier(t)'
  BY <1>1, <1>3 DEF LocksStay, Copier
<1> QED
  BY <1>1, <1>3, <1>4, <1>5, <1>6, QuietKeeps

\* A new object finds no associations, and its bit says so.
LEMMA NewObjectKeeps ==
  ASSUME IInv, NewObject
  PROVE  IInv'
<1>1. /\ TypeOK /\ Flagged /\ ~alive /\ \A u \in Threads : pc[u] # "remove"
      /\ alive' = TRUE /\ flagged' = FALSE
      /\ UNCHANGED <<uses, refs, own, assoc, hasMap, prop, words, lock, pc, arg, old>>
  BY DEF IInv, NewObject
<1>2. TypeOK'
  BY <1>1 DEF TypeOK
<1>3. Flagged'
  BY <1>1 DEF Flagged, NoEntry
<1>4. \A v \in Values : Counted(v)'
  BY <1>1, QuietCounts DEF Acquiring
<1>5. \A k \in Keys : GotIsKept(k)'
  BY <1>1 DEF IInv, GotIsKept
<1>6. \A u \in Threads : Setter(u)' /\ Getter(u)' /\ Copier(u)'
  BY <1>1 DEF IInv, Setter, Setting, Getter, Copier
<1>7. Alone' /\ \A place \in Places : Whole(place)'
  BY <1>1 DEF IInv, Alone, Setting, Whole
<1> QED
  BY <1>2, <1>3, <1>4, <1>5, <1>6, <1>7 DEF IInv

\* A copy begins.
LEMMA CopyStructKeeps ==
  ASSUME IInv, NEW t \in Threads, NEW to \in Structs \cup {t}, NEW from \in Structs \cup {t},
         CopyStruct(t, to, from)
  PROVE  IInv'
<1> DEFINE call == [NoCall EXCEPT !.slot = to, !.from = from]
<1>1. /\ TypeOK /\ pc[t] = "idle" /\ to # from /\ Goto(t, "lock")
      /\ arg' = [arg EXCEPT ![t] = call]
      /\ UNCHANGED <<refs, own, assocs, prop, words, lock, old>>
  BY DEF IInv, CopyStruct, Idle
<1>2. call \in Calls /\ call.slot = to /\ call.from = from /\ call.word = 1
  <2>1. to \in Places /\ from \in Places
    BY DEF Places
  <2>2. NoCall.word = 1
    BY DEF NoCall
  <2> QED
    BY <2>1, <2>2, NoCallType DEF Calls
<1> HIDE DEF call
<1>3. /\ pc'[t] = "lock" /\ arg'[t] = call
      /\ \A u \in Threads \ {t} : pc'[u] = pc[u] /\ arg'[u] = arg[u]
  BY <1>1, PcOf DEF TypeOK
<1>4. TypeOK'
  <2>1. pc' \in [Threads -> Labels] /\ arg' \in [Threads -> Calls]
    BY <1>1, <1>2 DEF TypeOK, Goto, Labels
  <2> QED
    BY <1>1, <2>1 DEF TypeOK, assocs
<1>5. Flagged'
  BY <1>1, <1>3, FlaggedStays DEF assocs
<1>6. LocksStay(t) /\ Copier(t)'
  BY <1>1, <1>2, <1>3 DEF LocksStay, Copier
<1> QED
  BY <1>1, <1>3, <1>4, <1>5, <1>6, QuietKeeps DEF assocs

\* A copy takes the next lock that it lacks, or has them all.
LEMMA LockNextKeeps ==
  ASSUME IInv, NEW t \in Threads, LockNext(t)
  PROVE  IInv'
<1>1. /\ TypeOK /\ pc[t] = "lock" /\ Copier(t) /\ NoThread \notin Threads
      /\ UNCHANGED <<refs, own, assocs, prop, words, arg, old>>
  BY SlotsAssumption DEF IInv, LockNext, SlotsAssumption
<1>2. CASE Missing(t) = {} /\ Goto(t, "copy") /\ lock' = lock
  <2>1. pc'[t] = "copy" /\ \A u \in Threads \ {t} : pc'[u] = pc[u]
    BY <1>1, <1>2, PcOf
  <2>2. TypeOK'
    BY <1>1, <1>2 DEF TypeOK, assocs, Goto, Labels
  <2>3. Flagged'
    BY <1>1, <2>1, FlaggedStays DEF assocs
  <2>4. LocksStay(t)
    BY <1>2 DEF LocksStay
  <2>5. Copier(t)'
    <3>1. lock[StripeOf(arg[t].slot)] = t /\ lock[StripeOf(arg[t].from)] = t
      BY <1>2 DEF Missing, StripesOf
    <3> QED
      BY <1>1, <1>2, <2>1, <3>1 DEF Copier
  <2> QED
    BY <1>1, <2>1, <2>2, <2>3, <2>4, <2>5, QuietKeeps DEF assocs
<1>3. ASSUME NEW l, Free(l), lock' = [lock EXCEPT ![l] = t], pc' = pc
      PROVE  IInv'
  <2>1. pc'[t] = "lock" /\ \A u \in Threads \ {t} : pc'[u] = pc[u]
    BY <1>1, <1>3
  <2>2. TypeOK'
    BY <1>1, <1>3 DEF TypeOK, assocs
  <2>3. Flagged'
    BY <1>1, <2>1, FlaggedStays DEF assocs
  <2>4. LocksStay(t)
    BY <1>1, <1>3 DEF LocksStay, Free, TypeOK
  <2>5. Copier(t)'
    BY <1>1, <2>1 DEF Copier
  <2> QED
    BY <1>1, <2>1, <2>2, <2>3, <2>4, <2>5, QuietKeeps DEF assocs
<1> QED
  BY <1>2, <1>3 DEF LockNext

------------------------------------------------------------------------------
(* Each action in turn: those that pass references on.                     *)

InOwn(t, n, v) == n \in 1 .. MaxOwn /\ n <= own[t][v]
InOld(t, s, v) == s \in Slot /\ pc[t] = "release" /\ Retained(old[t][s], v)
InArg(t, v)    == Acquiring(t) /\ Retained(arg[t], v)

\* The count of a value that a step of t changes only with the n-th reference that t owns,
\* what it must release from slot s, its argument, association d and property e.
LEMMA Recount ==
  ASSUME IInv, NEW t \in Threads, OthersSame(t), NEW v \in Values, NEW n, NEW s, NEW d, NEW e,
         \A m \in (1 .. MaxOwn) \ {n} : m <= own'[t][v] <=> m <= own[t][v],
         \A x \in Slot \ {s} : InOld(t, x, v)' <=> InOld(t, x, v),
         \A k \in Keys \ {d} : assoc'[k] = assoc[k],
         \A p \in Props \ {e} : prop'[p] = prop[p]
  PROVE  /\ refs[v] \in Nat /\ Holders(v)' \in Nat
         /\ Holders(v)' + One(InOwn(t, n, v)) + One(InOld(t, s, v)) + One(InArg(t, v))
              + One(d \in Keys /\ Retained(assoc[d], v)) + One(e \in Props /\ prop[e] = v)
            = refs[v] + One(InOwn(t, n, v)') + One(InOld(t, s, v)') + One(InArg(t, v)')
              + One(d \in Keys /\ Retained(assoc'[d], v)) + One(e \in Props /\ prop'[e] = v)
<1>1. \A y : y # <<t, n>> => (y \in OwnRefs(v)' <=> y \in OwnRefs(v))
  BY DEF OwnRefs, OthersSame
<1>2. \A y : y # <<t, s>> => (y \in OldRefs(v)' <=> y \in OldRefs(v))
  <2> SUFFICES ASSUME NEW u \in Threads, NEW x \in Slot, <<u, x>> # <<t, s>>
               PROVE  <<u, x>> \in OldRefs(v)' <=> <<u, x>> \in OldRefs(v)
    BY DEF OldRefs, Slot
  <2>1. CASE u = t
    BY <2>1 DEF OldRefs, InOld, Slot
  <2>2. CASE u # t
    BY <2>2 DEF OldRefs, OthersSame, Retained
  <2> QED
    BY <2>1, <2>2
<1>3. \A y : y # t => (y \in ArgRefs(v)' <=> y \in ArgRefs(v))
  BY DEF ArgRefs, OthersSame, Retained
<1>4. \A y : y # d => (y \in AssocRefs(v)' <=> y \in AssocRefs(v))
  BY DEF AssocRefs, Retained
<1>5. \A y : y # e => (y \in PropRefs(v)' <=> y \in PropRefs(v))
  BY DEF PropRefs
<1>6. /\ Holders(v) \in Nat /\ Holders(v)' \in Nat
      /\ Holders(v)' + One(<<t, n>> \in OwnRefs(v)) + One(<<t, s>> \in OldRefs(v))
           + One(t \in ArgRefs(v)) + One(d \in AssocRefs(v)) + One(e \in PropRefs(v))
         = Holders(v) + One(<<t, n>> \in OwnRefs(v)') + One(<<t, s>> \in OldRefs(v)')
           + One(t \in ArgRefs(v)') + One(d \in AssocRefs(v)') + One(e \in PropRefs(v)')
  BY <1>1, <1>2, <1>3, <1>4, <1>5, Balance
<1>7. /\ <<t, n>> \in OwnRefs(v) <=> InOwn(t, n, v)
      /\ <<t, n>> \in OwnRefs(v)' <=> InOwn(t, n, v)'
  BY DEF OwnRefs, InOwn
<1>8. /\ <<t, s>> \in OldRefs(v) <=> InOld(t, s, v)
      /\ <<t, s>> \in OldRefs(v)' <=> InOld(t, s, v)'
  BY DEF OldRefs, InOld, Slot
<1>9. /\ t \in ArgRefs(v) <=> InArg(t, v)
      /\ t \in ArgRefs(v)' <=> InArg(t, v)'
  BY DEF ArgRefs, InArg, Acquiring
<1>10. /\ d \in AssocRefs(v) <=> d \in Keys /\ Retained(assoc[d], v)
       /\ d \in AssocRefs(v)' <=> d \in Keys /\ Retained(assoc'[d], v)
  BY DEF AssocRefs, Retained
<1>11. /\ e \in PropRefs(v) <=> e \in Props /\ prop[e] = v
       /\ e \in PropRefs(v)' <=> e \in Props /\ prop'[e] = v
  BY DEF PropRefs
<1>12. Holders(v) = refs[v]
  BY DEF IInv, Counted
<1> QED
  BY <1>6, <1>7, <1>8, <1>9, <1>10, <1>11, <1>12 DEF One

\* A step of t that changes the references it owns, and nothing else but its pc.
LEMMA OwnChange ==
  ASSUME IInv, NEW t \in Threads, pc[t] = "idle", NEW w \in Values,
         UNCHANGED <<assocs, prop, words, lock, pc, arg, old>>,
         \A u \in Threads \ {t} : own'[u] = own[u],
         \A v \in Values : Counted(v)', TypeOK'
  PROVE  IInv'
<1>1. OthersSame(t) /\ LocksStay(t) /\ GuardedStay(t)
  BY DEF OthersSame, LocksStay, GuardedStay, assocs
<1>2. Flagged' /\ \A k \in Keys : GotIsKept(k)'
  BY FlaggedStays DEF assocs
<1>3. Local(t)'
  BY DEF Local, Setter, Setting, Getter, Copier, IInv
<1> QED
  BY <1>1, <1>2, <1>3, Assemble DEF Setting

\* A value is made: nobody had a reference to its address.
LEMMA MakeKeeps ==
  ASSUME IInv, NEW t \in Threads, NEW w \in Values, Make(t, w)
  PROVE  IInv'
<1>1. /\ TypeOK /\ pc[t] = "idle" /\ refs[w] = 0 /\ MaxOwn \in Nat \ {0} /\ w # Nil
      /\ refs' = [refs EXCEPT ![w] = @ + 1] /\ own' = [own EXCEPT ![t][w] = @ + 1]
      /\ UNCHANGED <<assocs, prop, words, lock, pc, arg, old>>
  BY SlotsAssumption DEF IInv, Make, Idle, Retain, SlotsAssumption
<1>2. own[t][w] = 0
  <2>1. Holders(w) = 0
    BY <1>1 DEF IInv, Counted
  <2>2. OwnRefs(w) = {}
    BY <2>1, SomeHolder
  <2>3. own[t][w] \in 0 .. MaxOwn /\ <<t, 1>> \notin OwnRefs(w)
    BY <1>1, <2>2 DEF TypeOK
  <2> QED
    BY <1>1, <2>3 DEF OwnRefs
<1>3. /\ own'[t][w] = 1 /\ \A v \in Values \ {w} : own'[t][v] = own[t][v]
      /\ \A u \in Threads \ {t} : own'[u] = own[u]
  BY <1>1, <1>2 DEF TypeOK
<1>4. TypeOK'
  <2>1. refs' \in [Values -> Nat]
    BY <1>1 DEF TypeOK
  <2>2. own' \in [Threads -> [Values -> 0 .. MaxOwn]]
    BY <1>1, <1>2 DEF TypeOK
  <2> QED
    BY <1>1, <2>1, <2>2 DEF TypeOK, assocs
<1>5. ASSUME NEW v \in Values
      PROVE  Counted(v)'
  <2>1. OthersSame(t)
    BY <1>1, <1>3 DEF OthersSame
  <2>2. /\ assoc' = assoc /\ prop' = prop
        /\ \A x : (InOld(t, x, v)' <=> InOld(t, x, v)) /\ (InArg(t, v)' <=> InArg(t, v))
    BY <1>1 DEF InOld, InArg, Acquiring, Retained, assocs
  <2>3. \A m \in (1 .. MaxOwn) \ {1} : m <= own'[t][v] <=> m <= own[t][v]
    BY <1>1, <1>2, <1>3
  <2>4. /\ refs[v] \in Nat /\ Holders(v)' \in Nat
        /\ Holders(v)' + One(InOwn(t, 1, v)) + One(InOld(t, t, v)) + One(InArg(t, v))
             + One(t \in Keys /\ Retained(assoc[t], v)) + One(t \in Props /\ prop[t] = v)
           = refs[v] + One(InOwn(t, 1, v)') + One(InOld(t, t, v)') + One(InArg(t, v)')
             + One(t \in Keys /\ Retained(assoc'[t], v)) + One(t \in Props /\ prop'[t] = v)
    BY <2>1, <2>2, <2>3, Recount
  <2>5. CASE v = w
    <3>1. ~InOwn(t, 1, v) /\ InOwn(t, 1, v)' /\ refs'[v] = refs[v] + 1
      BY <1>1, <1>2, <1>3, <2>5 DEF InOwn, TypeOK
    <3> QED
      BY <2>2, <2>4, <3>1 DEF One, Counted
  <2>6. CASE v # w
    <3>1. (InOwn(t, 1, v)' <=> InOwn(t, 1, v)) /\ refs'[v] = refs[v]
      BY <1>1, <1>3, <2>6 DEF InOwn, TypeOK
    <3> QED
      BY <2>2, <2>4, <3>1 DEF One, Counted
  <2> QED
    BY <2>5, <2>6
<1> QED
  BY <1>1, <1>3, <1>4, <1>5, OwnChange

\* A thread lets go of a reference it owns.
LEMMA DropKeeps ==
  ASSUME IInv, NEW t \in Threads, NEW w \in Values, Drop(t, w)
  PROVE  IInv'
<1>1. /\ TypeOK /\ pc[t] = "idle" /\ own[t][w] > 0 /\ w # Nil
      /\ refs' = [refs EXCEPT ![w] = @ - 1] /\ own' = [own EXCEPT ![t][w] = @ - 1]
      /\ UNCHANGED <<assocs, prop, words, lock, pc, arg, old>>
  BY SlotsAssumption DEF IInv, Drop, Idle, Release, SlotsAssumption
<1>2. PICK n : n = own[t][w]
  OBVIOUS
<1>3. n \in 1 .. MaxOwn /\ MaxOwn \in Nat
  BY <1>1, <1>2, SlotsAssumption DEF TypeOK, SlotsAssumption
<1>4. /\ own'[t][w] = n - 1 /\ \A v \in Values \ {w} : own'[t][v] = own[t][v]
      /\ \A u \in Threads \ {t} : own'[u] = own[u]
  BY <1>1, <1>2 DEF TypeOK
<1>5. ASSUME NEW v \in Values
      PROVE  Counted(v)' /\ refs'[v] \in Nat
  <2>1. OthersSame(t)
    BY <1>1, <1>4 DEF OthersSame
  <2>2. /\ assoc' = assoc /\ prop' = prop
        /\ \A x : (InOld(t, x, v)' <=> InOld(t, x, v)) /\ (InArg(t, v)' <=> InArg(t, v))
    BY <1>1 DEF InOld, InArg, Acquiring, Retained, assocs
  <2>3. \A m \in (1 .. MaxOwn) \ {n} : m <= own'[t][v] <=> m <= own[t][v]
    BY <1>2, <1>3, <1>4
  <2>4. /\ refs[v] \in Nat /\ Holders(v)' \in Nat
        /\ Holders(v)' + One(InOwn(t, n, v)) + One(InOld(t, t, v)) + One(InArg(t, v))
             + One(t \in Keys /\ Retained(assoc[t], v)) + One(t \in Props /\ prop[t] = v)
           = refs[v] + One(InOwn(t, n, v)') + One(InOld(t, t, v)') + One(InArg(t, v)')
             + One(t \in Keys /\ Retained(assoc'[t], v)) + One(t \in Props /\ prop'[t] = v)
    <3>1. /\ \A x \in Slot \ {t} : InOld(t, x, v)' <=> InOld(t, x, v)
          /\ \A k \in Keys \ {t} : assoc'[k] = assoc[k]
          /\ \A q \in Props \ {t} : prop'[q] = prop[q]
      BY <2>2
    <3> QED
      BY <2>1, <2>3, <3>1, Recount
  <2>5. CASE v = w
    <3>1. InOwn(t, n, v) /\ ~InOwn(t, n, v)' /\ refs'[v] = refs[v] - 1
      BY <1>1, <1>2, <1>3, <1>4, <2>5 DEF InOwn, TypeOK
    <3> QED
      BY <2>2, <2>4, <3>1 DEF One, Counted
  <2>6. CASE v # w
    <3>1. (InOwn(t, n, v)' <=> InOwn(t, n, v)) /\ refs'[v] = refs[v]
      BY <1>1, <1>4, <2>6 DEF InOwn, TypeOK
    <3> QED
      BY <2>2, <2>4, <3>1 DEF One, Counted
  <2> QED
    BY <2>5, <2>6
<1>6. TypeOK'
  <2>1. refs' \in [Values -> Nat]
    BY <1>1, <1>5 DEF TypeOK
  <2>2. own' \in [Threads -> [Values -> 0 .. MaxOwn]]
    BY <1>1, <1>2, <1>3 DEF TypeOK
  <2> QED
    BY <1>1, <2>1, <2>2 DEF TypeOK, assocs
<1> QED
  BY <1>1, <1>4, <1>5, <1>6, OwnChange

\* A setter begins: the value it acquires is counted.
LEMMA AcquireKeeps ==
  ASSUME IInv, NEW t \in Threads, NEW call \in Calls, NEW label \in {"setAssoc", "setProp"},
         pc[t] = "idle", Acquire(call.value, call.policy), Goto(t, label),
         arg' = [arg EXCEPT ![t] = call],
         UNCHANGED <<own, assocs, prop, words, lock, old>>,
         label = "setAssoc" =>
            /\ alive /\ call.slot \in Keys
            /\ "getterRetain" \in call.policy => "retain" \in call.policy,
         label = "setProp" =>
            call.slot \in Props /\ "retain" \in call.policy /\ MayUse(t, call.slot)
  PROVE  IInv'
<1>1. TypeOK /\ Nil \notin Values /\ call.value \in Values \cup {Nil}
  BY SlotsAssumption DEF IInv, SlotsAssumption, Calls
<1>2. /\ pc'[t] = label /\ arg'[t] = call
      /\ \A u \in Threads \ {t} : pc'[u] = pc[u] /\ arg'[u] = arg[u]
  BY <1>1, PcOf DEF TypeOK
<1>3. TypeOK'
  <2>1. pc' \in [Threads -> Labels] /\ arg' \in [Threads -> Calls]
    BY <1>1 DEF TypeOK, Goto, Labels
  <2>2. \/ refs' = refs
        \/ call.value \in Values /\ refs' = [refs EXCEPT ![call.value] = @ + 1]
    <3>1. CASE "retain" \in call.policy /\ call.value # Nil
      BY <1>1, <3>1 DEF Acquire, Retain
    <3>2. CASE "retain" \notin call.policy \/ call.value = Nil
      BY <3>2 DEF Acquire, Retain
    <3> QED
      BY <3>1, <3>2
  <2>3. refs' \in [Values -> Nat]
    BY <1>1, <2>2 DEF TypeOK
  <2> QED
    BY <1>1, <2>1, <2>3 DEF TypeOK, assocs
<1>4. OthersSame(t) /\ LocksStay(t) /\ GuardedStay(t)
  BY <1>2 DEF OthersSame, LocksStay, GuardedStay, assocs
<1>5. ASSUME NEW v \in Values
      PROVE  Counted(v)'
  <2>1. /\ assoc' = assoc /\ prop' = prop /\ own' = own
        /\ \A x : ~InOld(t, x, v)' /\ ~InOld(t, x, v) /\ (InOld(t, x, v)' <=> InOld(t, x, v))
        /\ \A m : m <= own'[t][v] <=> m <= own[t][v]
    BY <1>2 DEF InOld, assocs
  <2>2. /\ refs[v] \in Nat /\ Holders(v)' \in Nat
        /\ Holders(v)' + One(InOwn(t, 0, v)) + One(InOld(t, t, v)) + One(InArg(t, v))
             + One(t \in Keys /\ Retained(assoc[t], v)) + One(t \in Props /\ prop[t] = v)
           = refs[v] + One(InOwn(t, 0, v)') + One(InOld(t, t, v)') + One(InArg(t, v)')
             + One(t \in Keys /\ Retained(assoc'[t], v)) + One(t \in Props /\ prop'[t] = v)
    BY <1>4, <2>1, Recount
  <2>3. InOwn(t, 0, v)' <=> InOwn(t, 0, v)
    BY <2>1 DEF InOwn
  <2>4. ~InArg(t, v) /\ (InArg(t, v)' <=> call.value = v /\ "retain" \in call.policy)
    BY <1>2 DEF InArg, Acquiring, Retained
  <2>5. refs'[v] = refs[v] + One(call.value = v /\ "retain" \in call.policy)
    BY <1>1, <2>2 DEF Acquire, Retain, One, TypeOK
  <2> QED
    BY <2>1, <2>2, <2>3, <2>4, <2>5 DEF One, Counted
<1>6. Flagged' /\ \A k \in Keys : GotIsKept(k)'
  BY <1>2, FlaggedStays DEF assocs
<1>7. Local(t)'
  BY <1>2 DEF Local, Setter, Setting, Getter, Copier, IInv
<1>8. Setting(t)' => MayUse(t, arg'[t].slot)
  BY <1>2 DEF Setting
<1> QED
  BY <1>3, <1>4, <1>5, <1>6, <1>7, <1>8, Assemble

\* What a setter acquires is a value.
LEMMA AcquiredType ==
  ASSUME NEW v \in Values \cup {Nil}, NEW policy, NEW w \in Acquired(v, policy)
  PROVE  w \in Values \cup {Nil}
BY DEF Acquired

\* An association is set.
LEMMA SetAssocKeeps ==
  ASSUME IInv, NEW t \in Threads, NEW k \in Keys, NEW v \in Values \cup {Nil},
         NEW policy \in Policies, SetAssoc(t, k, v, policy)
  PROVE  IInv'
<1>1. PICK w, call :
        /\ w \in Acquired(v, policy) /\ Acquire(w, policy) /\ arg' = [arg EXCEPT ![t] = call]
        /\ call = [NoCall EXCEPT !.slot = k, !.value = w, !.policy = policy]
  BY DEF SetAssoc
<1>2. policy \in SUBSET Flags /\ ("getterRetain" \in policy => "retain" \in policy)
  BY SlotsAssumption DEF SlotsAssumption, Flags
<1>3. /\ pc[t] = "idle" /\ alive /\ Goto(t, "setAssoc")
      /\ UNCHANGED <<own, assocs, prop, words, lock, old>>
  BY DEF SetAssoc, Idle
<1>4. k \in Slot /\ w \in Values \cup {Nil}
  BY <1>1, AcquiredType DEF Slot
<1>5. call \in Calls /\ call.slot = k /\ call.value = w /\ call.policy = policy
  BY <1>1, <1>2, <1>4, NoCallType DEF Calls
<1> QED
  BY <1>1, <1>2, <1>3, <1>5, AcquireKeeps

\* A property is set.
LEMMA SetPropKeeps ==
  ASSUME IInv, NEW t \in Threads, NEW p \in Props, NEW v \in Values \cup {Nil},
         NEW policy \in {{"retain"}, {"retain", "copy"}}, SetProp(t, p, v, policy)
  PROVE  IInv'
<1>1. PICK w, call :
        /\ w \in Acquired(v, policy) /\ Acquire(w, policy) /\ arg' = [arg EXCEPT ![t] = call]
        /\ call = [NoCall EXCEPT !.slot = p, !.value = w, !.policy = policy]
  BY DEF SetProp
<1>2. policy \in SUBSET Flags /\ "retain" \in policy
  BY DEF Flags
<1>3. /\ pc[t] = "idle" /\ MayUse(t, p) /\ Goto(t, "setProp")
      /\ UNCHANGED <<own, assocs, prop, words, lock, old>>
  BY DEF SetProp, Idle
<1>4. p \in Slot /\ w \in Values \cup {Nil}
  BY <1>1, AcquiredType DEF Slot
<1>5. call \in Calls /\ call.slot = p /\ call.value = w /\ call.policy = policy
  BY <1>1, <1>2, <1>4, NoCallType DEF Calls
<1> QED
  BY <1>1, <1>2, <1>3, <1>5, AcquireKeeps

\* A setter exchanges an association for its argument.
LEMMA SwapAssocKeeps ==
  ASSUME IInv, NEW t \in Threads, SwapAssoc(t)
  PROVE  IInv'
<1>1. PICK k, e, new : /\ k = arg[t].slot /\ e = assoc[k]
                       /\ new = IF arg[t].value = Nil THEN NoEntry
                                ELSE [value |-> arg[t].value, policy |-> arg[t].policy]
  OBVIOUS
<1>2. /\ TypeOK /\ pc[t] = "setAssoc" /\ lock[Manager] = NoThread /\ Setter(t)
      /\ \A x \in Keys : GotIsKept(x)
      /\ NoThread \notin Threads /\ Nil \notin Values /\ Manager \in Locks
  BY SlotsAssumption, LockFacts DEF IInv, SwapAssoc, SlotsAssumption, Free
<1>3. /\ k \in Keys /\ k \in Slot /\ old[t] = Nothing
      /\ "getterRetain" \in arg[t].policy => "retain" \in arg[t].policy
      /\ arg[t] \in Calls
  BY <1>1, <1>2 DEF Setter, Slot, TypeOK
<1>4. e \in Associations /\ new \in Associations
  <2>1. NoEntry \in Associations
    BY DEF NoEntry, Associations, Flags
  <2> QED
    BY <1>1, <1>2, <1>3, <2>1 DEF TypeOK, Calls, Associations
<1>5. /\ old' = [old EXCEPT ![t][k] = e] /\ assoc' = [assoc EXCEPT ![k] = new]
      /\ Goto(t, "release")
      /\ UNCHANGED <<uses, alive, refs, own, prop, words, lock, arg>>
      /\ \/ arg[t].value = Nil /\ UNCHANGED <<hasMap, flagged>>
         \/ hasMap' = TRUE /\ flagged' = (flagged \/ ~hasMap)
  BY <1>1 DEF SwapAssoc
<1>6. /\ pc'[t] = "release" /\ old'[t] = [Nothing EXCEPT ![k] = e]
      /\ \A u \in Threads \ {t} : pc'[u] = pc[u] /\ old'[u] = old[u]
      /\ assoc'[k] = new /\ \A x \in Keys \ {k} : assoc'[x] = assoc[x]
  BY <1>2, <1>3, <1>5, PcOf DEF TypeOK
<1>7. TypeOK'
  <2>1. pc' \in [Threads -> Labels] /\ old' \in [Threads -> [Slot -> Associations]]
    BY <1>2, <1>3, <1>4, <1>5 DEF TypeOK, Goto, Labels
  <2>2. assoc' \in [Keys -> Associations] /\ hasMap' \in BOOLEAN /\ flagged' \in BOOLEAN
    BY <1>2, <1>3, <1>4, <1>5 DEF TypeOK
  <2> QED
    BY <1>2, <1>5, <2>1, <2>2 DEF TypeOK
<1>8. OthersSame(t) /\ LocksStay(t)
  BY <1>5, <1>6 DEF OthersSame, LocksStay
<1>9. GuardedStay(t)
  BY <1>2, <1>5 DEF GuardedStay
<1>10. ASSUME NEW v \in Values
       PROVE  Counted(v)'
  <2>1. \A x \in Slot \ {k} : ~InOld(t, x, v)' /\ ~InOld(t, x, v)
    BY <1>2, <1>3, <1>6 DEF InOld, Nothing, NoEntry, Retained, Slot
  <2>2. \A p \in Props : prop'[p] = prop[p]
    BY <1>5
  <2>3. \A m : m <= own'[t][v] <=> m <= own[t][v]
    BY <1>5
  <2>4. /\ refs[v] \in Nat /\ Holders(v)' \in Nat
        /\ Holders(v)' + One(InOwn(t, 0, v)) + One(InOld(t, k, v)) + One(InArg(t, v))
             + One(k \in Keys /\ Retained(assoc[k], v)) + One(t \in Props /\ prop[t] = v)
           = refs[v] + One(InOwn(t, 0, v)') + One(InOld(t, k, v)') + One(InArg(t, v)')
             + One(k \in Keys /\ Retained(assoc'[k], v)) + One(t \in Props /\ prop'[t] = v)
    BY <1>6, <1>8, <2>1, <2>2, <2>3, Recount
  <2>5. (InOwn(t, 0, v)' <=> InOwn(t, 0, v)) /\ prop' = prop
    BY <1>5 DEF InOwn
  <2>6. ~InOld(t, k, v) /\ (InOld(t, k, v)' <=> Retained(assoc[k], v))
    BY <1>1, <1>2, <1>3, <1>6 DEF InOld, Retained, Nothing, Slot
  <2>7. (InArg(t, v) <=> Retained(assoc'[k], v)) /\ ~InArg(t, v)'
    BY <1>1, <1>2, <1>6 DEF InArg, Acquiring, Retained, NoEntry
  <2>8. refs'[v] = refs[v]
    BY <1>5
  <2> QED
    BY <1>3, <2>4, <2>5, <2>6, <2>7, <2>8 DEF One, Counted
<1>11. Flagged' /\ \A x \in Keys : GotIsKept(x)'
  <2>1. Flagged /\ alive
    BY <1>2 DEF IInv, Flagged
  <2>2. Flagged'
    <3>1. CASE arg[t].value = Nil /\ UNCHANGED <<hasMap, flagged>>
      BY <1>1, <1>5, <1>6, <2>1, <3>1 DEF Flagged, NoEntry
    <3>2. CASE hasMap' = TRUE /\ flagged' = (flagged \/ ~hasMap)
      BY <1>5, <2>1, <3>2 DEF Flagged
    <3> QED
      BY <1>5, <3>1, <3>2
  <2>3. \A x \in Keys : GotIsKept(x)'
    BY <1>1, <1>2, <1>3, <1>6 DEF GotIsKept, NoEntry
  <2> QED
    BY <2>2, <2>3
<1>12. Local(t)'
  BY <1>6 DEF Local, Setter, Setting, Getter, Copier
<1> QED
  BY <1>2, <1>5, <1>6, <1>7, <1>8, <1>9, <1>10, <1>11, <1>12, Assemble DEF Setting

\* A getter retains what it has found, and lets the lock go.
LEMMA RetainFoundKeeps ==
  ASSUME IInv, NEW t \in Threads, RetainFound(t)
  PROVE  IInv'
<1>1. PICK w, l : /\ w = IF "getterRetain" \in arg[t].policy THEN arg[t].value ELSE Nil
                  /\ l = arg[t].lock
  OBVIOUS
<1>2. PICK n : n = IF w = Nil THEN 0 ELSE own[t][w] + 1
  OBVIOUS
<1>3. /\ TypeOK /\ pc[t] = "retain" /\ Getter(t) /\ Setter(t) /\ Nil \notin Values
      /\ NoThread \notin Threads /\ MaxOwn \in Nat
  BY SlotsAssumption DEF IInv, RetainFound, SlotsAssumption
<1>4. /\ w \in Values \cup {Nil} /\ l \in Locks /\ lock[l] = t
      /\ \A v \in Values : own[t][v] \in 0 .. MaxOwn /\ own[t][v] < MaxOwn
      /\ old[t] = Nothing
  BY <1>1, <1>3 DEF TypeOK, Calls, Getter, Setter
<1>5. /\ refs' = IF w = Nil THEN refs ELSE [refs EXCEPT ![w] = @ + 1]
      /\ own' = IF w = Nil THEN own ELSE [own EXCEPT ![t][w] = @ + 1]
      /\ lock' = [lock EXCEPT ![l] = NoThread]
      /\ Goto(t, "idle") /\ arg' = [arg EXCEPT ![t] = NoCall]
      /\ UNCHANGED <<assocs, prop, words, old>>
  BY <1>1 DEF RetainFound, Retain
<1>6. /\ pc'[t] = "idle" /\ \A u \in Threads \ {t} : pc'[u] = pc[u] /\ arg'[u] = arg[u]
  BY <1>3, <1>5, PcOf DEF TypeOK
<1>7. /\ \A v \in Values : own'[t][v] = IF v = w THEN n ELSE own[t][v]
      /\ \A u \in Threads \ {t} : own'[u] = own[u]
      /\ w # Nil => n = own[t][w] + 1 /\ n \in 1 .. MaxOwn
  <2>1. CASE w = Nil
    BY <1>3, <1>5, <2>1
  <2>2. CASE w # Nil
    BY <1>2, <1>3, <1>4, <1>5, <2>2 DEF TypeOK
  <2> QED
    BY <2>1, <2>2
<1>8. TypeOK'
  <2>1. refs' \in [Values -> Nat]
    BY <1>3, <1>4, <1>5 DEF TypeOK
  <2>2. own' \in [Threads -> [Values -> 0 .. MaxOwn]]
    <3>1. CASE w = Nil
      BY <1>3, <1>5, <3>1 DEF TypeOK
    <3>2. CASE w # Nil
      <4>1. w \in Values /\ own[t][w] + 1 \in 0 .. MaxOwn
        BY <1>3, <1>4, <3>2
      <4> QED
        BY <1>3, <1>5, <3>2, <4>1 DEF TypeOK
    <3> QED
      BY <3>1, <3>2
  <2>3. /\ pc' \in [Threads -> Labels] /\ arg' \in [Threads -> Calls]
        /\ lock' \in [Locks -> Threads \cup {NoThread}]
    BY <1>3, <1>5, NoCallType DEF TypeOK, Goto, Labels
  <2> QED
    BY <1>3, <1>5, <2>1, <2>2, <2>3 DEF TypeOK, assocs
<1>9. OthersSame(t) /\ GuardedStay(t)
  BY <1>5, <1>6, <1>7 DEF OthersSame, GuardedStay, assocs
<1>10. LocksStay(t)
  BY <1>3, <1>4, <1>5 DEF LocksStay, TypeOK
<1>11. ASSUME NEW v \in Values
       PROVE  Counted(v)'
  <2>1. /\ assoc' = assoc /\ prop' = prop
        /\ \A x : ~InOld(t, x, v)' /\ ~InOld(t, x, v) /\ (InOld(t, x, v)' <=> InOld(t, x, v))
        /\ ~InArg(t, v) /\ ~InArg(t, v)'
    BY <1>3, <1>5, <1>6 DEF InOld, InArg, Acquiring, assocs
  <2>2. \A m \in (1 .. MaxOwn) \ {n} : m <= own'[t][v] <=> m <= own[t][v]
    BY <1>3, <1>4, <1>7
  <2>3. /\ refs[v] \in Nat /\ Holders(v)' \in Nat
        /\ Holders(v)' + One(InOwn(t, n, v)) + One(InOld(t, t, v)) + One(InArg(t, v))
             + One(t \in Keys /\ Retained(assoc[t], v)) + One(t \in Props /\ prop[t] = v)
           = refs[v] + One(InOwn(t, n, v)') + One(InOld(t, t, v)') + One(InArg(t, v)')
             + One(t \in Keys /\ Retained(assoc'[t], v)) + One(t \in Props /\ prop'[t] = v)
    BY <1>9, <2>1, <2>2, Recount
  <2>4. CASE v = w
    <3>1. refs'[v] = refs[v] + 1 /\ own'[t][v] = n /\ n = own[t][v] + 1 /\ n \in 1 .. MaxOwn
      BY <1>3, <1>5, <1>7, <2>4 DEF TypeOK
    <3>2. ~InOwn(t, n, v) /\ InOwn(t, n, v)'
      BY <1>4, <3>1 DEF InOwn
    <3> QED
      BY <2>1, <2>3, <3>1, <3>2 DEF One, Counted
  <2>5. CASE v # w
    <3>1. (InOwn(t, n, v)' <=> InOwn(t, n, v)) /\ refs'[v] = refs[v]
      BY <1>3, <1>4, <1>5, <1>7, <2>5 DEF InOwn, TypeOK
    <3> QED
      BY <2>1, <2>3, <3>1 DEF One, Counted
  <2> QED
    BY <2>4, <2>5
<1>12. Flagged' /\ \A k \in Keys : GotIsKept(k)'
  BY <1>3, <1>5, <1>6, FlaggedStays DEF assocs
<1>13. Local(t)'
  BY <1>4, <1>5, <1>6 DEF Local, Setter, Setting, Getter, Copier
<1>14. words' = words /\ pc[t] # "copy" /\ ~Setting(t)'
  BY <1>3, <1>5, <1>6 DEF Setting
<1> QED
  BY <1>8, <1>9, <1>10, <1>11, <1>12, <1>13, <1>14, Assemble

\* A call releases what it took out of a slot, or is done.
LEMMA ReleaseOldKeeps ==
  ASSUME IInv, NEW t \in Threads, ReleaseOld(t)
  PROVE  IInv'
<1>1. /\ TypeOK /\ pc[t] = "release" /\ Nil \notin Values
      /\ UNCHANGED <<own, assocs, prop, words, lock>>
  BY SlotsAssumption DEF IInv, ReleaseOld, SlotsAssumption
<1>2. CASE /\ old[t] = Nothing /\ Goto(t, "idle") /\ arg' = [arg EXCEPT ![t] = NoCall]
           /\ UNCHANGED <<refs, old>>
  <2>1. /\ pc'[t] = "idle" /\ \A u \in Threads \ {t} : pc'[u] = pc[u] /\ arg'[u] = arg[u]
    BY <1>1, <1>2, PcOf DEF TypeOK
  <2>2. TypeOK'
    <3>1. pc' \in [Threads -> Labels] /\ arg' \in [Threads -> Calls]
      BY <1>1, <1>2, NoCallType DEF TypeOK, Goto, Labels
    <3> QED
      BY <1>1, <1>2, <3>1 DEF TypeOK, assocs
  <2>3. OthersSame(t) /\ LocksStay(t) /\ GuardedStay(t)
    BY <1>1, <1>2, <2>1 DEF OthersSame, LocksStay, GuardedStay, assocs
  <2>4. ASSUME NEW v \in Values
        PROVE  Counted(v)'
    <3>1. \A x : ~InOld(t, x, v)' /\ ~InOld(t, x, v) /\ (InOld(t, x, v)' <=> InOld(t, x, v))
      BY <1>1, <1>2, <2>1 DEF InOld, Nothing, NoEntry, Retained, Slot
    <3>2. /\ assoc' = assoc /\ prop' = prop /\ ~InArg(t, v) /\ ~InArg(t, v)'
          /\ \A m : m <= own'[t][v] <=> m <= own[t][v]
      BY <1>1, <2>1 DEF InArg, Acquiring, assocs
    <3>3. /\ refs[v] \in Nat /\ Holders(v)' \in Nat
          /\ Holders(v)' + One(InOwn(t, 0, v)) + One(InOld(t, t, v)) + One(InArg(t, v))
               + One(t \in Keys /\ Retained(assoc[t], v)) + One(t \in Props /\ prop[t] = v)
             = refs[v] + One(InOwn(t, 0, v)') + One(InOld(t, t, v)') + One(InArg(t, v)')
               + One(t \in Keys /\ Retained(assoc'[t], v)) + One(t \in Props /\ prop'[t] = v)
      BY <2>3, <3>1, <3>2, Recount
    <3>4. (InOwn(t, 0, v)' <=> InOwn(t, 0, v)) /\ refs'[v] = refs[v]
      BY <1>1, <1>2 DEF InOwn
    <3> QED
      BY <3>1, <3>2, <3>3, <3>4 DEF One, Counted
  <2>5. Flagged' /\ \A k \in Keys : GotIsKept(k)'
    BY <1>1, <2>1, FlaggedStays DEF assocs
  <2>6. Local(t)' /\ ~Setting(t)'
    BY <1>2, <2>1 DEF Local, Setter, Setting, Getter, Copier
  <2> QED
    BY <1>1, <2>2, <2>3, <2>4, <2>5, <2>6, Assemble
<1>3. ASSUME NEW s \in Slot, old[t][s] # NoEntry,
             IF "retain" \in old[t][s].policy THEN Release(old[t][s].value) ELSE UNCHANGED refs,
             old' = [old EXCEPT ![t][s] = NoEntry], UNCHANGED <<pc, arg>>
      PROVE  IInv'
  <2>1. PICK e : e = old[t][s]
    OBVIOUS
  <2>2. /\ e \in Associations /\ old'[t][s] = NoEntry
        /\ \A x \in Slot \ {s} : old'[t][x] = old[t][x]
        /\ \A u \in Threads \ {t} : old'[u] = old[u]
    BY <1>1, <1>3, <2>1 DEF TypeOK
  <2>3. OthersSame(t) /\ LocksStay(t) /\ GuardedStay(t)
    BY <1>1, <1>3, <2>2 DEF OthersSame, LocksStay, GuardedStay, assocs
  <2>4. \/ "retain" \notin e.policy /\ refs' = refs
        \/ "retain" \in e.policy /\ e.value = Nil /\ refs' = refs
        \/ /\ "retain" \in e.policy /\ e.value \in Values
           /\ refs' = [refs EXCEPT ![e.value] = @ - 1]
    BY <1>1, <1>3, <2>1, <2>2 DEF Release, Associations
  <2>5. ASSUME NEW v \in Values
        PROVE  Counted(v)' /\ refs'[v] \in Nat
    <3>1. \A x \in Slot \ {s} : InOld(t, x, v)' <=> InOld(t, x, v)
      BY <1>3, <2>2 DEF InOld, Retained
    <3>2. /\ assoc' = assoc /\ prop' = prop /\ ~InArg(t, v) /\ ~InArg(t, v)'
          /\ \A m : m <= own'[t][v] <=> m <= own[t][v]
      BY <1>1, <1>3 DEF InArg, Acquiring, assocs
    <3>3. /\ refs[v] \in Nat /\ Holders(v)' \in Nat
          /\ Holders(v)' + One(InOwn(t, 0, v)) + One(InOld(t, s, v)) + One(InArg(t, v))
               + One(t \in Keys /\ Retained(assoc[t], v)) + One(t \in Props /\ prop[t] = v)
             = refs[v] + One(InOwn(t, 0, v)') + One(InOld(t, s, v)') + One(InArg(t, v)')
               + One(t \in Keys /\ Retained(assoc'[t], v)) + One(t \in Props /\ prop'[t] = v)
      BY <2>3, <3>1, <3>2, Recount
    <3>4. InOwn(t, 0, v)' <=> InOwn(t, 0, v)
      BY <1>1 DEF InOwn
    <3>5. (InOld(t, s, v) <=> Retained(e, v)) /\ ~InOld(t, s, v)'
      BY <1>1, <2>1, <2>2 DEF InOld, Retained, NoEntry
    <3>6. refs'[v] = IF Retained(e, v) THEN refs[v] - 1 ELSE refs[v]
      BY <1>1, <2>4 DEF Retained, TypeOK
    <3> QED
      BY <3>2, <3>3, <3>4, <3>5, <3>6 DEF One, Counted
  <2>6. TypeOK'
    <3>1. refs' \in [Values -> Nat]
      BY <1>1, <2>4, <2>5 DEF TypeOK
    <3>2. NoEntry \in Associations
      BY DEF NoEntry, Associations, Flags
    <3>3. old' \in [Threads -> [Slot -> Associations]]
      BY <1>1, <1>3, <3>2 DEF TypeOK
    <3> QED
      BY <1>1, <1>3, <3>1, <3>3 DEF TypeOK, assocs
  <2>7. Flagged' /\ \A k \in Keys : GotIsKept(k)'
    BY <1>1, <1>3, FlaggedStays DEF assocs
  <2>8. Local(t)' /\ ~Setting(t)'
    BY <1>1, <1>3 DEF Local, Setter, Setting, Getter, Copier
  <2> QED
    BY <1>1, <1>3, <2>3, <2>5, <2>6, <2>7, <2>8, Assemble
<1> QED
  BY <1>2, <1>3 DEF ReleaseOld, Slot

\* All associations are taken out, and none is lost: the references that associations held
\* are what the call must release.
LEMMA TakeAssocsKeeps ==
  ASSUME IInv, NEW t \in Threads, TakeAssocs(t)
  PROVE  IInv'
<1>1. /\ TypeOK /\ pc[t] = "remove" /\ lock[Manager] = NoThread /\ NoThread \notin Threads
      /\ Nil \notin Values /\ Flagged /\ Goto(t, "release")
      /\ hasMap' = FALSE /\ assoc' = [k \in Keys |-> NoEntry]
      /\ old' = [old EXCEPT ![t] = [s \in Slot |-> IF s \in Keys THEN assoc[s] ELSE NoEntry]]
      /\ UNCHANGED <<uses, alive, refs, own, flagged, prop, words, lock, arg>>
  BY SlotsAssumption DEF IInv, TakeAssocs, Free, SlotsAssumption, Slot
<1>2. NoEntry \in Associations
  BY DEF NoEntry, Associations, Flags
<1>3. /\ pc'[t] = "release" /\ \A u \in Threads \ {t} : pc'[u] = pc[u] /\ old'[u] = old[u]
      /\ \A s \in Slot : old'[t][s] = IF s \in Keys THEN assoc[s] ELSE NoEntry
  BY <1>1, PcOf DEF TypeOK
<1>4. TypeOK'
  <2>1. pc' \in [Threads -> Labels]
    BY <1>1 DEF TypeOK, Goto, Labels
  <2>2. assoc' \in [Keys -> Associations]
    BY <1>1, <1>2
  <2>3. old' \in [Threads -> [Slot -> Associations]]
    <3>1. [s \in Slot |-> IF s \in Keys THEN assoc[s] ELSE NoEntry] \in [Slot -> Associations]
      BY <1>1, <1>2 DEF TypeOK
    <3> QED
      BY <1>1, <3>1 DEF TypeOK
  <2> QED
    BY <1>1, <2>1, <2>2, <2>3 DEF TypeOK
<1>5. OthersSame(t) /\ LocksStay(t)
  BY <1>1, <1>3 DEF OthersSame, LocksStay
<1>6. GuardedStay(t)
  BY <1>1 DEF GuardedStay
<1>7. ASSUME NEW v \in Values
      PROVE  Counted(v)'
  <2>1. OwnRefs(v)' = OwnRefs(v) /\ PropRefs(v)' = PropRefs(v)
    BY <1>1 DEF OwnRefs, PropRefs
  <2>2. ArgRefs(v)' = ArgRefs(v)
    BY <1>1, <1>3 DEF ArgRefs, Retained
  <2>3. AssocRefs(v)' = {}
    BY <1>1 DEF AssocRefs, Retained, NoEntry
  <2>4. OldRefs(v)' = OldRefs(v) \cup ({t} \X AssocRefs(v))
    <3>1. ASSUME NEW u \in Threads, NEW s \in Slot
          PROVE  <<u, s>> \in OldRefs(v)' <=> <<u, s>> \in OldRefs(v) \cup ({t} \X AssocRefs(v))
      <4>1. CASE u = t
        <5>1. <<u, s>> \in OldRefs(v)' <=> Retained(old'[t][s], v)
          BY <1>3, <4>1 DEF OldRefs, Retained, Slot
        <5>2. <<u, s>> \notin OldRefs(v)
          BY <1>1, <4>1 DEF OldRefs
        <5>3. <<u, s>> \in {t} \X AssocRefs(v) <=> s \in Keys /\ Retained(assoc[s], v)
          BY <4>1 DEF AssocRefs
        <5>4. Retained(old'[t][s], v) <=> s \in Keys /\ Retained(assoc[s], v)
          BY <1>1, <1>3 DEF Retained, NoEntry
        <5> QED
          BY <5>1, <5>2, <5>3, <5>4
      <4>2. CASE u # t
        BY <1>3, <4>2 DEF OldRefs, Retained
      <4> QED
        BY <4>1, <4>2
    <3>2. OldRefs(v)' \subseteq Threads \X Slot /\ OldRefs(v) \subseteq Threads \X Slot
      BY DEF OldRefs, Slot
    <3>3. {t} \X AssocRefs(v) \subseteq Threads \X Slot
      BY DEF AssocRefs, Slot
    <3> QED
      BY <3>1, <3>2, <3>3
  <2>5. OldRefs(v) \cap ({t} \X AssocRefs(v)) = {}
    BY <1>1 DEF OldRefs
  <2>6. PICK A, O : A = AssocRefs(v) /\ O = OldRefs(v)
    OBVIOUS
  <2>7. IsFiniteSet(A) /\ IsFiniteSet(O) /\ IsFiniteSet({t}) /\ Cardinality({t}) = 1
    BY <2>6, FinitelyMany, FS_Singleton
  <2>8. IsFiniteSet({t} \X A) /\ Cardinality({t} \X A) = Cardinality({t}) * Cardinality(A)
    BY <2>7, FS_Product
  <2>9. /\ Cardinality(A) \in Nat /\ Cardinality(O) \in Nat
        /\ Cardinality(O \cap ({t} \X A)) = 0
    BY <2>5, <2>6, <2>7, FS_CardinalityType, FS_EmptySet
  <2>10. Cardinality(O \cup ({t} \X A))
           = Cardinality(O) + Cardinality({t} \X A) - Cardinality(O \cap ({t} \X A))
    BY <2>7, <2>8, FS_Union
  <2>11. /\ Cardinality(OldRefs(v)') = Cardinality(OldRefs(v)) + Cardinality(AssocRefs(v))
         /\ Cardinality(AssocRefs(v)') = 0
    BY <2>3, <2>4, <2>6, <2>7, <2>8, <2>9, <2>10, FS_EmptySet
  <2>12. /\ Cardinality(OwnRefs(v)) \in Nat /\ Cardinality(OldRefs(v)) \in Nat
         /\ Cardinality(ArgRefs(v)) \in Nat /\ Cardinality(AssocRefs(v)) \in Nat
         /\ Cardinality(PropRefs(v)) \in Nat
    BY FinitelyMany, FS_CardinalityType
  <2>13. Holders(v)' = Holders(v)
    BY <2>1, <2>2, <2>11, <2>12 DEF Holders
  <2> QED
    BY <1>1, <2>13 DEF IInv, Counted
<1>8. Flagged' /\ \A k \in Keys : GotIsKept(k)'
  <2>1. Flagged'
    BY <1>1, <1>3 DEF Flagged, NoEntry
  <2>2. \A k \in Keys : GotIsKept(k)'
    BY <1>1 DEF GotIsKept, NoEntry
  <2> QED
    BY <2>1, <2>2
<1>9. Local(t)' /\ ~Setting(t)'
  BY <1>3 DEF Local, Setter, Setting, Getter, Copier
<1> QED
  BY <1>1, <1>4, <1>5, <1>6, <1>7, <1>8, <1>9, Assemble

\* A setter reads what the property held.
LEMMA ReadOldPropKeeps ==
  ASSUME IInv, NEW t \in Threads, ReadOldProp(t)
  PROVE  IInv'
<1>1. PICK p, e : p = arg[t].slot /\ e = [value |-> prop[p], policy |-> {"retain"}]
  OBVIOUS
<1>2. /\ TypeOK /\ pc[t] = "setProp" /\ Setter(t) /\ Setting(t) /\ NoThread \notin Threads
  BY SlotsAssumption DEF IInv, ReadOldProp, SlotsAssumption, Setting
<1>3. p \in Props /\ old[t] = Nothing /\ p \in Slot /\ "retain" \in arg[t].policy
  BY <1>1, <1>2 DEF Setter, Slot
<1>4. /\ \/ p \in Atomic /\ lock[LockOf[p]] = NoThread /\ lock' = [lock EXCEPT ![LockOf[p]] = t]
         \/ p \notin Atomic /\ lock' = lock
      /\ old' = [old EXCEPT ![t][p] = e] /\ Goto(t, "storeProp")
      /\ UNCHANGED <<refs, own, assocs, prop, words, arg>>
  BY <1>1 DEF ReadOldProp, LockProp, Free
<1>5. /\ pc'[t] = "storeProp" /\ \A u \in Threads \ {t} : pc'[u] = pc[u] /\ old'[u] = old[u]
      /\ old'[t] = [Nothing EXCEPT ![p] = e]
  BY <1>2, <1>3, <1>4, PcOf DEF TypeOK
<1>6. p \in Atomic => lock'[LockOf[p]] = t
  BY <1>2, <1>3, <1>4, LockFacts DEF TypeOK
<1>7. TypeOK'
  <2>1. pc' \in [Threads -> Labels] /\ lock' \in [Locks -> Threads \cup {NoThread}]
    BY <1>2, <1>4 DEF TypeOK, Goto, Labels
  <2>2. e \in Associations
    BY <1>1, <1>2, <1>3 DEF TypeOK, Associations, Flags
  <2>3. old' \in [Threads -> [Slot -> Associations]]
    BY <1>2, <1>3, <1>4, <2>2 DEF TypeOK
  <2> QED
    BY <1>2, <1>4, <2>1, <2>3 DEF TypeOK, assocs
<1>8. OthersSame(t) /\ GuardedStay(t)
  BY <1>4, <1>5 DEF OthersSame, GuardedStay, assocs
<1>9. LocksStay(t)
  BY <1>2, <1>4 DEF LocksStay, TypeOK
<1>10. \A v \in Values : Counted(v)'
  BY <1>2, <1>4, <1>5, QuietCounts DEF Acquiring, assocs
<1>11. Flagged' /\ \A k \in Keys : GotIsKept(k)'
  BY <1>2, <1>4, <1>5, FlaggedStays DEF assocs
<1>12. Local(t)'
  <2>1. Setter(t)'
    BY <1>1, <1>3, <1>4, <1>5, <1>6 DEF Setter, Setting
  <2> QED
    BY <1>5, <2>1 DEF Local, Getter, Copier
<1> QED
  BY <1>2, <1>4, <1>7, <1>8, <1>9, <1>10, <1>11, <1>12, Assemble

\* A setter stores its argument: what it read is still what the property holds.
LEMMA StorePropKeeps ==
  ASSUME IInv, NEW t \in Threads, StoreProp(t)
  PROVE  IInv'
<1>1. PICK p, new : p = arg[t].slot /\ new = arg[t].value
  OBVIOUS
<1>2. /\ TypeOK /\ pc[t] = "storeProp" /\ Setter(t) /\ Setting(t) /\ Alone
      /\ NoThread \notin Threads /\ Nil \notin Values
      /\ \A u \in Threads : Setter(u)
  BY SlotsAssumption DEF IInv, StoreProp, SlotsAssumption, Setting
<1>3. /\ p \in Props /\ p \in Slot /\ "retain" \in arg[t].policy /\ new \in Values \cup {Nil}
      /\ p \in Atomic => lock[LockOf[p]] = t
      /\ old[t] = [Nothing EXCEPT ![p] = [value |-> prop[p], policy |-> {"retain"}]]
  BY <1>1, <1>2 DEF Setter, Slot, TypeOK, Calls
<1>4. /\ prop' = [prop EXCEPT ![p] = new]
      /\ lock' = [l \in Locks |-> IF lock[l] = t THEN NoThread ELSE lock[l]]
      /\ Goto(t, "release") /\ UNCHANGED <<refs, own, assocs, words, arg, old>>
  BY <1>1 DEF StoreProp
<1>5. /\ pc'[t] = "release" /\ \A u \in Threads \ {t} : pc'[u] = pc[u]
      /\ prop'[p] = new /\ \A q \in Props \ {p} : prop'[q] = prop[q]
  BY <1>2, <1>3, <1>4, PcOf DEF TypeOK
<1>6. TypeOK'
  <2>1. pc' \in [Threads -> Labels] /\ lock' \in [Locks -> Threads \cup {NoThread}]
    BY <1>2, <1>4 DEF TypeOK, Goto, Labels
  <2>2. prop' \in [Props -> Values \cup {Nil}]
    BY <1>2, <1>3, <1>4 DEF TypeOK
  <2> QED
    BY <1>2, <1>4, <2>1, <2>2 DEF TypeOK, assocs
<1>7. OthersSame(t) /\ LocksStay(t)
  BY <1>4, <1>5 DEF OthersSame, LocksStay
<1>8. GuardedStay(t)
  <2> SUFFICES ASSUME NEW u \in Threads \ {t}, NEW q \in Props,
                      \/ q \in Atomic /\ lock[LockOf[q]] = u
                      \/ pc[u] = "storeProp" /\ arg[u].slot = q
               PROVE  prop'[q] = prop[q]
    BY <1>4 DEF GuardedStay, assocs
  <2>1. q # p
    BY <1>1, <1>2, <1>3 DEF Setter, Setting, Alone
  <2> QED
    BY <1>5, <2>1
<1>9. ASSUME NEW v \in Values
      PROVE  Counted(v)'
  <2>1. /\ \A x \in Slot \ {p} : ~InOld(t, x, v)' /\ ~InOld(t, x, v)
        /\ \A x \in Slot \ {p} : InOld(t, x, v)' <=> InOld(t, x, v)
    BY <1>2, <1>3, <1>4, <1>5 DEF InOld, Nothing, NoEntry, Retained, Slot
  <2>2. assoc' = assoc /\ own' = own /\ \A m : m <= own'[t][v] <=> m <= own[t][v]
    BY <1>4 DEF assocs
  <2>3. /\ refs[v] \in Nat /\ Holders(v)' \in Nat
        /\ Holders(v)' + One(InOwn(t, 0, v)) + One(InOld(t, p, v)) + One(InArg(t, v))
             + One(t \in Keys /\ Retained(assoc[t], v)) + One(p \in Props /\ prop[p] = v)
           = refs[v] + One(InOwn(t, 0, v)') + One(InOld(t, p, v)') + One(InArg(t, v)')
             + One(t \in Keys /\ Retained(assoc'[t], v)) + One(p \in Props /\ prop'[p] = v)
    BY <1>5, <1>7, <2>1, <2>2, Recount
  <2>4. InOwn(t, 0, v)' <=> InOwn(t, 0, v)
    BY <2>2 DEF InOwn
  <2>5. ~InOld(t, p, v) /\ (InOld(t, p, v)' <=> prop[p] = v)
    BY <1>2, <1>3, <1>4, <1>5 DEF InOld, Retained, Nothing, Slot
  <2>6. (InArg(t, v) <=> prop'[p] = v) /\ ~InArg(t, v)'
    BY <1>1, <1>2, <1>3, <1>5 DEF InArg, Acquiring, Retained
  <2>7. refs'[v] = refs[v]
    BY <1>4
  <2> QED
    BY <1>3, <2>2, <2>3, <2>4, <2>5, <2>6, <2>7 DEF One, Counted
<1>10. Flagged' /\ \A k \in Keys : GotIsKept(k)'
  BY <1>2, <1>4, <1>5, FlaggedStays DEF assocs
<1>11. Local(t)' /\ ~Setting(t)'
  BY <1>5 DEF Local, Setter, Setting, Getter, Copier
<1> QED
  BY <1>2, <1>4, <1>6, <1>7, <1>8, <1>9, <1>10, <1>11, Assemble

\* A program fills the structure on its stack, which no other thread copies.
LEMMA FillKeeps ==
  ASSUME IInv, NEW t \in Threads, NEW x \in Data, Fill(t, x)
  PROVE  IInv'
<1>1. /\ TypeOK /\ pc[t] = "idle" /\ words' = [words EXCEPT ![t] = <<x, x>>] /\ t \notin Structs
      /\ UNCHANGED <<refs, own, assocs, prop, lock, pc, arg, old>>
  BY SlotsAssumption DEF IInv, Fill, Idle, SlotsAssumption
<1>2. /\ words'[t] = <<x, x>> /\ \A place \in Places \ {t} : words'[place] = words[place]
  BY <1>1 DEF TypeOK, Places
<1>3. TypeOK'
  <2>1. <<x, x>> \in [1 .. 2 -> Data]
    OBVIOUS
  <2>2. words' \in [Places -> [1 .. 2 -> Data]]
    BY <1>1, <2>1 DEF TypeOK
  <2> QED
    BY <1>1, <2>2 DEF TypeOK, assocs
<1>4. \A v \in Values : Counted(v)'
  BY <1>1, QuietCounts DEF Acquiring, assocs
<1>5. Flagged' /\ \A k \in Keys : GotIsKept(k)'
  BY <1>1, FlaggedStays DEF assocs
<1>6. ASSUME NEW u \in Threads
      PROVE  Setter(u)' /\ Getter(u)' /\ Copier(u)'
  <2>1. Setter(u) /\ Getter(u) /\ Copier(u)
    BY DEF IInv
  <2>2. Setter(u)' /\ Getter(u)'
    BY <1>1, <2>1 DEF Setter, Setting, Getter, assocs
  <2>3. pc[u] = "copy" => arg[u].slot \in Places \ {t} /\ arg[u].from \in Places \ {t}
    BY <1>1, <2>1 DEF Copier, Places
  <2>4. Copier(u)'
    BY <1>1, <1>2, <2>1, <2>3 DEF Copier
  <2> QED
    BY <2>2, <2>4
<1>7. Alone'
  BY <1>1 DEF IInv, Alone, Setting
<1>8. ASSUME NEW place \in Places
      PROVE  Whole(place)'
  <2>1. CASE place = t
    BY <1>2, <2>1 DEF Whole
  <2>2. CASE place # t
    BY <1>1, <1>2, <2>2 DEF IInv, Whole
  <2> QED
    BY <2>1, <2>2
<1> QED
  BY <1>3, <1>4, <1>5, <1>6, <1>7, <1>8 DEF IInv

\* A copy moves a word. It holds the stripes of both structures, so no other copy is into
\* either: the source is whole, and so is the destination when both words are there.
LEMMA CopyWordKeeps ==
  ASSUME IInv, NEW t \in Threads, CopyWord(t)
  PROVE  IInv'
<1>1. PICK to, from, n : to = arg[t].slot /\ from = arg[t].from /\ n = arg[t].word
  OBVIOUS
<1>2. /\ TypeOK /\ pc[t] = "copy" /\ NoThread \notin Threads
      /\ words' = [words EXCEPT ![to][n] = words[from][n]]
      /\ UNCHANGED <<refs, own, assocs, prop, old>>
      /\ \/ n = 1 /\ arg' = [arg EXCEPT ![t].word = 2] /\ UNCHANGED <<lock, pc>>
         \/ /\ n # 1 /\ arg' = [arg EXCEPT ![t] = NoCall] /\ Goto(t, "idle")
            /\ lock' = [l \in Locks |-> IF lock[l] = t THEN NoThread ELSE lock[l]]
  BY <1>1, SlotsAssumption DEF IInv, CopyWord, SlotsAssumption
<1>3. /\ to \in Places /\ from \in Places /\ to # from /\ n \in {1, 2}
      /\ lock[StripeOf(to)] = t /\ lock[StripeOf(from)] = t
      /\ n = 2 => words[to][1] = words[from][1]
      /\ arg[t] \in Calls
  BY <1>1, <1>2 DEF IInv, Copier, Places, TypeOK, Calls
<1>4. /\ words'[to] = [words[to] EXCEPT ![n] = words[from][n]]
      /\ \A place \in Places \ {to} : words'[place] = words[place]
  BY <1>2, <1>3 DEF TypeOK
<1>5. /\ words'[to][n] = words[from][n]
      /\ n = 2 => words'[to][1] = words[to][1]
  BY <1>2, <1>3, <1>4 DEF TypeOK
<1>6. /\ \A u \in Threads \ {t} : pc'[u] = pc[u] /\ arg'[u] = arg[u]
      /\ \/ /\ n = 1 /\ pc'[t] = "copy" /\ arg'[t] \in Calls /\ lock' = lock
            /\ arg'[t].slot = to /\ arg'[t].from = from /\ arg'[t].word = 2
         \/ n = 2 /\ pc'[t] = "idle" /\ arg'[t] = NoCall
  <2>1. CASE n = 1
    <3>1. arg' = [arg EXCEPT ![t].word = 2] /\ lock' = lock /\ pc' = pc
      BY <1>2, <2>1
    <3>2. arg'[t] = [arg[t] EXCEPT !.word = 2] /\ \A u \in Threads \ {t} : arg'[u] = arg[u]
      BY <1>2, <3>1 DEF TypeOK
    <3>3. arg'[t] \in Calls
      BY <1>3, <3>2 DEF Calls
    <3>4. arg'[t].slot = to /\ arg'[t].from = from /\ arg'[t].word = 2
      BY <1>1, <1>3, <3>2 DEF Calls
    <3> QED
      BY <1>2, <2>1, <3>1, <3>2, <3>3, <3>4
  <2>2. CASE n = 2
    BY <1>2, <2>2, PcOf DEF TypeOK
  <2> QED
    BY <1>3, <2>1, <2>2
<1>7. TypeOK'
  <2>1. words' \in [Places -> [1 .. 2 -> Data]]
    <3>1. words[from][n] \in Data /\ words[to] \in [1 .. 2 -> Data]
      BY <1>2, <1>3 DEF TypeOK
    <3>2. words'[to] \in [1 .. 2 -> Data]
      BY <1>4, <3>1
    <3> QED
      BY <1>2, <1>4, <3>2 DEF TypeOK
  <2>2. arg' \in [Threads -> Calls]
    BY <1>2, <1>6, NoCallType DEF TypeOK
  <2>3. pc' \in [Threads -> Labels] /\ lock' \in [Locks -> Threads \cup {NoThread}]
    BY <1>2 DEF TypeOK, Goto, Labels
  <2> QED
    BY <1>2, <2>1, <2>2, <2>3 DEF TypeOK, assocs
<1>8. OthersSame(t) /\ LocksStay(t) /\ GuardedStay(t)
  BY <1>2, <1>6 DEF OthersSame, LocksStay, GuardedStay, assocs
<1>9. \A v \in Values : Counted(v)'
  BY <1>2, <1>6, QuietCounts DEF Acquiring, assocs
<1>10. Flagged' /\ \A k \in Keys : GotIsKept(k)'
  BY <1>2, <1>6, FlaggedStays DEF assocs
<1>11. Alone'
  BY <1>2, <1>6 DEF IInv, Alone, Setting
<1>12. words[from][1] = words[from][2]
  <2>1. \A u \in Threads : pc[u] = "copy" /\ arg[u].slot = from => u = t
    BY <1>3 DEF IInv, Copier
  <2> QED
    BY <1>1, <1>3, <2>1 DEF IInv, Whole
<1>13. ASSUME NEW u \in Threads \ {t}, pc[u] = "copy"
       PROVE  arg[u].slot \in Places \ {to} /\ arg[u].from \in Places \ {to}
  BY <1>3, <1>13 DEF IInv, Copier, Places
<1>14. ASSUME NEW u \in Threads
       PROVE  Setter(u)' /\ Getter(u)' /\ Copier(u)'
  <2>1. Setter(u) /\ Getter(u) /\ Copier(u)
    BY DEF IInv
  <2>2. CASE u = t
    <3>1. Setter(u)' /\ Getter(u)'
      BY <1>2, <1>6, <2>1, <2>2 DEF Setter, Setting, Getter
    <3>2. Copier(u)'
      BY <1>1, <1>2, <1>3, <1>4, <1>5, <1>6, <2>1, <2>2 DEF Copier
    <3> QED
      BY <3>1, <3>2
  <2>3. CASE u # t
    <3>1. pc'[u] = pc[u] /\ arg'[u] = arg[u] /\ old'[u] = old[u] /\ own'[u] = own[u]
      BY <1>2, <1>6, <2>3
    <3>2. lock[arg[u].lock] = u => lock'[arg[u].lock] = u
      BY <1>2, <2>3 DEF TypeOK, Calls
    <3>3. Setter(u)'
      <4>1. \A p \in Props : p \in Atomic /\ lock[LockOf[p]] = u => lock'[LockOf[p]] = u
        BY <1>8, <2>3, LockFacts DEF LocksStay
      <4> QED
        BY <1>2, <2>1, <3>1, <4>1 DEF Setter, Setting
    <3>4. Getter(u)'
      BY <1>2, <2>1, <3>1, <3>2 DEF Getter, assocs
    <3>5. Copier(u)'
      <4>1. pc[u] = "copy" =>
              /\ words'[arg[u].slot] = words[arg[u].slot]
              /\ words'[arg[u].from] = words[arg[u].from]
              /\ StripeOf(arg[u].slot) \in Locks /\ StripeOf(arg[u].from) \in Locks
        BY <1>4, <1>13, <2>3, LockFacts
      <4>2. \A l \in Locks : lock[l] = u => lock'[l] = u
        BY <1>8, <2>3 DEF LocksStay
      <4> QED
        BY <2>1, <3>1, <4>1, <4>2 DEF Copier
    <3> QED
      BY <3>3, <3>4, <3>5
  <2> QED
    BY <2>2, <2>3
<1>15. ASSUME NEW place \in Places
       PROVE  Whole(place)'
  <2>1. CASE place # to
    BY <1>1, <1>4, <1>6, <2>1 DEF IInv, Whole
  <2>2. CASE place = to /\ n = 1
    BY <1>3, <1>6, <2>2 DEF Whole
  <2>3. CASE place = to /\ n = 2
    BY <1>3, <1>5, <1>12, <2>3 DEF Whole
  <2> QED
    BY <1>3, <2>1, <2>2, <2>3
<1> QED
  BY <1>7, <1>9, <1>10, <1>11, <1>14, <1>15 DEF IInv

------------------------------------------------------------------------------
(* The theorems.                                                           *)

\* The first state satisfies the invariant: nobody has a reference to anything.
LEMMA InitIInv == Init => IInv
<1> SUFFICES ASSUME Init
             PROVE  IInv
  OBVIOUS
<1>1. /\ NoThread \notin Threads /\ Nil \notin Values /\ MaxOwn \in Nat \ {0}
  BY SlotsAssumption DEF SlotsAssumption
<1>2. NoEntry \in Associations /\ Nothing \in [Slot -> Associations]
  BY DEF NoEntry, Nothing, Associations, Flags, Slot
<1>3. TypeOK
  <2>1. words \in [Places -> [1 .. 2 -> Data]]
    <3>1. PICK x \in Data : words = [place \in Places |-> <<x, x>>]
      BY DEF Init
    <3>2. <<x, x>> \in [1 .. 2 -> Data]
      OBVIOUS
    <3> QED
      BY <3>1, <3>2
  <2>2. own \in [Threads -> [Values -> 0 .. MaxOwn]]
    BY <1>1 DEF Init
  <2>3. prop \in [Props -> Values \cup {Nil}] /\ assoc \in [Keys -> Associations]
    BY <1>2 DEF Init
  <2>4. /\ arg \in [Threads -> Calls] /\ old \in [Threads -> [Slot -> Associations]]
        /\ pc \in [Threads -> Labels] /\ lock \in [Locks -> Threads \cup {NoThread}]
    BY <1>2, NoCallType DEF Init, Labels
  <2> QED
    BY <2>1, <2>2, <2>3, <2>4 DEF Init, TypeOK
<1>4. ASSUME NEW v \in Values
      PROVE  Counted(v)
  <2>1. OwnRefs(v) = {}
    BY DEF Init, OwnRefs
  <2>2. OldRefs(v) = {} /\ ArgRefs(v) = {}
    BY DEF Init, OldRefs, ArgRefs
  <2>3. AssocRefs(v) = {} /\ PropRefs(v) = {}
    BY <1>1 DEF Init, AssocRefs, PropRefs, Retained, NoEntry
  <2>4. Cardinality({}) = 0
    BY FS_EmptySet
  <2> QED
    BY <2>1, <2>2, <2>3, <2>4 DEF Init, Counted, Holders
<1>5. (\A k \in Keys : GotIsKept(k)) /\ Flagged
  BY DEF Init, GotIsKept, Flagged, NoEntry
<1>6. (\A t \in Threads : Setter(t) /\ Getter(t) /\ Copier(t)) /\ Alone
  BY DEF Init, Setter, Setting, Getter, Copier, Alone
<1>7. \A place \in Places : Whole(place)
  BY DEF Init, Whole
<1> QED
  BY <1>3, <1>4, <1>5, <1>6, <1>7 DEF IInv

\* A call on a slot keeps the invariant, whichever step of it is taken.
LEMMA AssociateKeeps ==
  ASSUME IInv, NEW t \in Threads, Associate(t)
  PROVE  IInv'
<1>1. CASE \E k \in Keys : GetAssoc(t, k)
  BY <1>1, GetAssocKeeps
<1>2. CASE \E k \in Keys, v \in Values \cup {Nil}, policy \in Policies : SetAssoc(t, k, v, policy)
  BY <1>2, SetAssocKeeps
<1>3. CASE SwapAssoc(t)
  BY <1>3, SwapAssocKeeps
<1>4. CASE RemoveAssocs(t)
  BY <1>4, RemoveAssocsKeeps
<1>5. CASE TakeAssocs(t)
  BY <1>5, TakeAssocsKeeps
<1>6. CASE Dispose(t)
  BY <1>6, DisposeKeeps
<1> QED
  BY <1>1, <1>2, <1>3, <1>4, <1>5, <1>6 DEF Associate

\* So does a step of an accessor of a property.
LEMMA AccessKeeps ==
  ASSUME IInv, NEW t \in Threads, Access(t)
  PROVE  IInv'
<1>1. CASE \E p \in Props : GetProp(t, p)
  BY <1>1, GetPropKeeps
<1>2. CASE \E p \in Props, v \in Values \cup {Nil}, policy \in {{"retain"}, {"retain", "copy"}} :
             SetProp(t, p, v, policy)
  BY <1>2, SetPropKeeps
<1>3. CASE ReadOldProp(t)
  BY <1>3, ReadOldPropKeeps
<1>4. CASE StoreProp(t)
  BY <1>4, StorePropKeeps
<1> QED
  BY <1>1, <1>2, <1>3, <1>4 DEF Access

\* And a step of a copy.
LEMMA CopyKeeps ==
  ASSUME IInv, NEW t \in Threads, Copy(t)
  PROVE  IInv'
<1>1. CASE \E to, from \in Structs \cup {t} : CopyStruct(t, to, from)
  BY <1>1, CopyStructKeeps
<1>2. CASE LockNext(t)
  BY <1>2, LockNextKeeps
<1>3. CASE CopyWord(t)
  BY <1>3, CopyWordKeeps
<1>4. CASE \E x \in Data : Fill(t, x)
  BY <1>4, FillKeeps
<1> QED
  BY <1>1, <1>2, <1>3, <1>4 DEF Copy

\* A step that changes nothing.
LEMMA StutterKeeps ==
  ASSUME IInv, UNCHANGED vars
  PROVE  IInv'
<1>1. UNCHANGED <<refs, own, alive, assoc, hasMap, flagged, prop, words, lock, pc, arg, old>>
  BY DEF vars, assocs
<1>2. TypeOK'
  BY <1>1 DEF IInv, TypeOK
<1>3. \A v \in Values : Counted(v)'
  BY <1>1, QuietCounts DEF Acquiring
<1>4. Flagged' /\ \A k \in Keys : GotIsKept(k)'
  BY <1>1, FlaggedStays
<1>5. \A t \in Threads : Setter(t)' /\ Getter(t)' /\ Copier(t)'
  BY <1>1 DEF IInv, Setter, Setting, Getter, Copier
<1>6. Alone' /\ \A place \in Places : Whole(place)'
  BY <1>1 DEF IInv, Alone, Setting, Whole
<1> QED
  BY <1>2, <1>3, <1>4, <1>5, <1>6 DEF IInv

\* Every step keeps the inductive invariant.
LEMMA NextIInv == IInv /\ [Next]_vars => IInv'
<1> SUFFICES ASSUME IInv, [Next]_vars
             PROVE  IInv'
  OBVIOUS
<1>1. CASE \E t \in Threads : Associate(t)
  BY <1>1, AssociateKeeps
<1>2. CASE \E t \in Threads : Access(t)
  BY <1>2, AccessKeeps
<1>3. CASE \E t \in Threads : Copy(t)
  BY <1>3, CopyKeeps
<1>4. CASE \E t \in Threads : RetainFound(t)
  BY <1>4, RetainFoundKeeps
<1>5. CASE \E t \in Threads : ReleaseOld(t)
  BY <1>5, ReleaseOldKeeps
<1>6. CASE \E t \in Threads, v \in Values : Make(t, v)
  BY <1>6, MakeKeeps
<1>7. CASE \E t \in Threads, v \in Values : Drop(t, v)
  BY <1>7, DropKeeps
<1>8. CASE NewObject
  BY <1>8, NewObjectKeeps
<1>9. CASE UNCHANGED vars
  BY <1>9, StutterKeeps
<1> QED
  BY <1>1, <1>2, <1>3, <1>4, <1>5, <1>6, <1>7, <1>8, <1>9 DEF Next

\* Every state of the slots and their locks, and of every call on them, satisfies the
\* inductive invariant.
THEOREM Invariant == Spec => []IInv
<1>1. Init => IInv
  BY InitIInv
<1>2. IInv /\ [Next]_vars => IInv'
  BY NextIInv
<1> QED
  BY <1>1, <1>2, PTL DEF Spec

\* Whatever setters, getters, removals and disposals race for the slots of an object, a
\* value has one reference for each of its holders, a getter under the lock retains a value
\* that is still there, and an object that is gone leaves no association for the next one at
\* its address (objc-references.mm, objc-accessors.mm).
THEOREM Ownership == Spec => []HoldersAreCounted
<1>1. IInv => HoldersAreCounted
  <2> SUFFICES ASSUME IInv
               PROVE  HoldersAreCounted
    OBVIOUS
  <2>1. TypeOK /\ Flagged /\ \A v \in Values : refs[v] = Holders(v)
    BY DEF IInv, Counted
  <2>2. ASSUME NEW t \in Threads, pc[t] = "retain", arg[t].value # Nil,
               "getterRetain" \in arg[t].policy
        PROVE  refs[arg[t].value] > 0
    <3>1. PICK v : v = arg[t].value
      OBVIOUS
    <3>2. v \in Values /\ Getter(t) /\ \A k \in Keys : GotIsKept(k)
      BY <2>1, <2>2, <3>1 DEF IInv, TypeOK, Calls
    <3>3. AssocRefs(v) # {} \/ PropRefs(v) # {}
      <4>1. CASE \E k \in Keys : assoc[k].value = v /\ assoc[k].policy = arg[t].policy
        BY <2>2, <3>2, <4>1 DEF AssocRefs, Retained, GotIsKept
      <4>2. CASE \E p \in Atomic : prop[p] = v
        BY <4>2, LockFacts DEF PropRefs
      <4> QED
        BY <2>2, <3>1, <3>2, <4>1, <4>2 DEF Getter
    <3> QED
      BY <2>1, <3>1, <3>2, <3>3, SomeHolder
  <2>3. ~alive /\ (\A t \in Threads : pc[t] # "remove") =>
          ~hasMap /\ \A k \in Keys : assoc[k] = NoEntry
    BY <2>1 DEF Flagged
  <2> QED
    BY <2>1, <2>2, <2>3 DEF HoldersAreCounted
<1> QED
  BY <1>1, Invariant, PTL

\* A structure is seen whole wherever no copy into it is under way, though copies move it
\* word by word and several go on at once, between any structures that share stripes of
\* locks or do not (objc_copyStruct, objc_copyCppObjectAtomic).
THEOREM WholeCopies == Spec => []NoTornCopy
<1>1. IInv => NoTornCopy
  BY DEF IInv, Whole, NoTornCopy
<1> QED
  BY <1>1, Invariant, PTL

-----------------------------------------------------------------------------
(* The pools                                                               *)

Entry    == Objects \cup {Sentinel}
PopCalls == [page : Nat, stop : Nat, dealloc : BOOLEAN, exit : BOOLEAN]
Tokens   == [page : Nat, slot : Nat, level : Nat]

\* The type invariant.
Types ==
  /\ debugPoolAllocation \in BOOLEAN /\ debugMissingPools \in BOOLEAN
  /\ pages \in Seq(Seq(Entry)) /\ hot \in 0 .. Len(pages)
  /\ frames \in Seq(PopCalls) /\ tokens \in Seq(Tokens)

\* Under either option pop kills a cold page that it has emptied.
KillsCold == debugPoolAllocation \/ debugMissingPools

Chain ==
  /\ hot = 0 <=> pages = <<>>
  /\ \A q \in hot + 1 .. Len(pages) : pages[q] = <<>>
  /\ frames = <<>> => Len(pages) <= hot + 1
  /\ ~debugPoolAllocation => \A q \in 1 .. hot - 1 : pages[q] # <<>>
  /\ KillsCold /\ pages # <<>> =>
       /\ pages[1] # <<>> => pages[1][1] = Sentinel
       /\ pages[1] = <<>> => frames # <<>> /\ ~Frame.dealloc /\ Frame.page = 1

\* A position, by its page and its slot, is below another, or not above it.
Below(p, s, q, r)    == p < q \/ (p = q /\ s < r)
NotAbove(p, s, q, r) == p < q \/ (p = q /\ s <= r)

\* The call pops from a boundary. The pop at the end of a thread starts where the cold page
\* does; what lies there is a boundary too, unless the page was kept empty before.
Bounded(f) == ~f.exit \/ KillsCold

\* The k-th call of pop, the innermost last.
Popping(k) ==
  LET f == frames[k]  n == Len(pages[f.page]) IN
  /\ f.page \in 1 .. hot /\ f.stop >= 1 /\ n + 1 >= f.stop
  /\ n + 1 = f.stop => \A q \in f.page + 1 .. Len(pages) : pages[q] = <<>>
  /\ k < Len(frames) => f.dealloc
  /\ f.exit => k = 1 /\ f.page = 1 /\ f.stop = 1
  /\ Bounded(f) => /\ n >= f.stop => pages[f.page][f.stop] = Sentinel
                   /\ f.dealloc => n >= f.stop
  /\ \A j \in 1 .. k - 1 :
       LET e == frames[j] IN
       /\ NotAbove(e.page, e.stop, f.page, f.stop)
       /\ Bounded(e) => Below(e.page, e.stop, f.page, f.stop)

\* The i-th token, the newest last.
Token(i) ==
  LET t == tokens[i] IN
  /\ t.page \in 1 .. hot /\ t.slot \in 1 .. Len(pages[t.page])
  /\ pages[t.page][t.slot] = Sentinel
  /\ t.level <= Len(frames)
  /\ t.level = Len(frames) => UserRuns
  /\ \A j \in 1 .. i - 1 : /\ Below(tokens[j].page, tokens[j].slot, t.page, t.slot)
                           /\ tokens[j].level <= t.level
  /\ \A k \in 1 .. Len(frames) :
       LET f == frames[k] IN
       /\ t.level < k => Below(t.page, t.slot, f.page, f.stop)
       /\ t.level >= k => NotAbove(f.page, f.stop, t.page, t.slot)
       /\ t.level >= k /\ Bounded(f) => Below(f.page, f.stop, t.page, t.slot)

\* The inductive invariant.
PoolInv ==
  /\ Types /\ Chain
  /\ \A k \in 1 .. Len(frames) : Popping(k)
  /\ \A i \in 1 .. Len(tokens) : Token(i)

-----------------------------------------------------------------------------
(* The pages, the calls and the tokens                                     *)

\* What a token has to do with one call of pop.
LEMMA TokenCall ==
  ASSUME NEW i, NEW k \in 1 .. Len(frames), Token(i)
  PROVE  LET t == tokens[i]  f == frames[k] IN
         /\ t.level < k => Below(t.page, t.slot, f.page, f.stop)
         /\ t.level >= k => NotAbove(f.page, f.stop, t.page, t.slot)
         /\ t.level >= k /\ Bounded(f) => Below(f.page, f.stop, t.page, t.slot)
BY DEF Token

\* What the types say.
LEMMA TypeFacts ==
  ASSUME PoolInv
  PROVE  /\ Len(pages) \in Nat /\ Len(frames) \in Nat /\ Len(tokens) \in Nat /\ hot \in Nat
         /\ hot <= Len(pages) /\ (pages = <<>> <=> Len(pages) = 0)
         /\ \A q \in 1 .. Len(pages) : /\ pages[q] \in Seq(Entry) /\ Len(pages[q]) \in Nat
                                       /\ pages[q] = <<>> <=> Len(pages[q]) = 0
         /\ \A k \in 1 .. Len(frames) : frames[k] \in PopCalls
         /\ \A i \in 1 .. Len(tokens) : tokens[i] \in Tokens
         /\ frames = <<>> <=> Len(frames) = 0
         /\ frames # <<>> => /\ Frame = frames[Len(frames)] /\ Frame \in PopCalls
                             /\ Len(frames) \in 1 .. Len(frames)
<1>1. /\ pages \in Seq(Seq(Entry)) /\ hot \in 0 .. Len(pages)
      /\ frames \in Seq(PopCalls) /\ tokens \in Seq(Tokens)
  BY DEF PoolInv, Types
<1>2. /\ Len(pages) \in Nat /\ Len(frames) \in Nat /\ Len(tokens) \in Nat
      /\ pages = <<>> <=> Len(pages) = 0
      /\ frames = <<>> <=> Len(frames) = 0
  BY <1>1, LenProperties, EmptySeq
<1>3. ASSUME NEW q \in 1 .. Len(pages)
      PROVE  /\ pages[q] \in Seq(Entry) /\ Len(pages[q]) \in Nat
             /\ pages[q] = <<>> <=> Len(pages[q]) = 0
  <2>1. pages[q] \in Seq(Entry)
    BY <1>1, ElementOfSeq
  <2> QED
    BY <2>1, LenProperties, EmptySeq
<1>4. \A k \in 1 .. Len(frames) : frames[k] \in PopCalls
  BY <1>1, ElementOfSeq
<1>5. \A i \in 1 .. Len(tokens) : tokens[i] \in Tokens
  BY <1>1, ElementOfSeq
<1>6. frames # <<>> => Frame = frames[Len(frames)] /\ Len(frames) \in 1 .. Len(frames)
  BY <1>2 DEF Frame, Last
<1> QED
  BY <1>1, <1>2, <1>3, <1>4, <1>5, <1>6

\* Where the next pointer goes when it does not go into the hot page: into the child.
LEMMA NextPage ==
  ASSUME PoolInv
  PROVE  PageAfterHot = hot + 1
<1> DEFINE S == {q \in hot + 1 .. Len(pages) + 1 : q = Len(pages) + 1 \/ ~Full(q)}
<1>1. hot \in Nat /\ Len(pages) \in Nat /\ hot <= Len(pages)
  BY TypeFacts
<1>2. hot + 1 # Len(pages) + 1 => ~Full(hot + 1)
  <2>1. ASSUME hot + 1 # Len(pages) + 1
        PROVE  pages[hot + 1] = <<>> /\ Len(pages[hot + 1]) = 0
    <3>1. hot + 1 \in hot + 1 .. Len(pages) /\ hot + 1 \in 1 .. Len(pages)
      BY <1>1, <2>1
    <3> QED
      BY <3>1, TypeFacts DEF PoolInv, Chain
  <2> QED
    BY <2>1, PoolAssumption DEF Full
<1>3. hot + 1 \in S /\ \A q \in S : hot + 1 <= q /\ q \in Nat
  BY <1>1, <1>2
<1> HIDE DEF S
<1>4. Min(S) = hot + 1
  <2>1. hot + 1 \in S /\ \A y \in S : hot + 1 =< y
    BY <1>3
  <2>2. Min(S) \in S /\ \A y \in S : Min(S) =< y
    BY <2>1 DEF Min
  <2>3. Min(S) \in Nat /\ hot + 1 \in Nat /\ Min(S) <= hot + 1 /\ hot + 1 <= Min(S)
    BY <1>1, <1>3, <2>1, <2>2
  <2> QED
    BY <2>3
<1> QED
  BY <1>4 DEF PageAfterHot, S

\* A pointer was added to page p, the hot page or its child.
Added(p, e) ==
  /\ hot # 0 /\ p \in {hot, hot + 1} /\ hot' = p
  /\ p = hot + 1 => debugPoolAllocation \/ pages[hot] # <<>>
  /\ pages' \in Seq(Seq(Entry)) /\ p \in 1 .. Len(pages')
  /\ Len(pages') = IF p <= Len(pages) THEN Len(pages) ELSE p
  /\ \A q \in 1 .. Len(pages') : q # p => q <= Len(pages) /\ pages'[q] = pages[q]
  /\ Len(pages'[p]) = (IF p = hot THEN Len(pages[p]) ELSE 0) + 1
  /\ pages'[p][Len(pages'[p])] = e
  /\ \A s \in 1 .. Len(pages'[p]) - 1 : pages'[p][s] = pages[p][s]

\* AutoreleaseOnPage adds.
LEMMA OnPageAdds ==
  ASSUME PoolInv, NEW e \in Entry, NEW fresh \in BOOLEAN, AutoreleaseOnPage(e, fresh),
         fresh => debugPoolAllocation
  PROVE  \E p \in Nat : Added(p, e)
<1>1. /\ hot \in Nat /\ hot # 0 /\ Len(pages) \in Nat /\ hot <= Len(pages)
      /\ \A q \in 1 .. Len(pages) : /\ pages[q] \in Seq(Entry) /\ Len(pages[q]) \in Nat
                                    /\ pages[q] = <<>> <=> Len(pages[q]) = 0
      /\ pages \in Seq(Seq(Entry))
  BY TypeFacts DEF AutoreleaseOnPage, PoolInv, Types
<1>2. PICK p \in Nat : /\ p \in {hot, hot + 1} /\ AddTo(p, e)
                       /\ p = hot + 1 => fresh \/ Full(hot)
  <2>1. CASE fresh \/ Full(hot)
    <3>1. AddTo(PageAfterHot, e)
      BY <2>1 DEF AutoreleaseOnPage
    <3> QED
      BY <1>1, <2>1, <3>1, NextPage
  <2>2. CASE ~(fresh \/ Full(hot))
    <3>1. AddTo(hot, e) /\ hot # hot + 1
      BY <1>1, <2>2 DEF AutoreleaseOnPage
    <3> QED
      BY <1>1, <3>1
  <2> QED
    BY <2>1, <2>2
<1>3. p = hot + 1 => debugPoolAllocation \/ pages[hot] # <<>>
  <2>1. ASSUME Full(hot)
        PROVE  pages[hot] # <<>>
    BY <1>1, <2>1, PoolAssumption DEF Full
  <2> QED
    BY <1>2, <2>1
<1>4. hot' = p
  BY <1>2 DEF AddTo
<1>5. CASE p > Len(pages)
  <2>1. p = Len(pages) + 1 /\ p = hot + 1
    BY <1>1, <1>2, <1>5
  <2>2. pages' = Append(pages, <<e>>)
    BY <1>2, <1>5 DEF AddTo
  <2> DEFINE one == <<e>>
  <2>3. one \in Seq(Entry) /\ Len(one) = 1 /\ one[1] = e
    BY OneElement
  <2> HIDE DEF one
  <2>4. pages' = Append(pages, one)
    BY <2>2 DEF one
  <2>5. /\ pages' \in Seq(Seq(Entry)) /\ Len(pages') = p /\ pages'[p] = one
        /\ \A q \in 1 .. Len(pages) : pages'[q] = pages[q]
    BY <1>1, <2>1, <2>3, <2>4, AppendProperties
  <2>6. \A q \in 1 .. Len(pages') : q # p => q \in 1 .. Len(pages) /\ q <= Len(pages)
    BY <1>1, <2>1, <2>5
  <2>7. p # hot /\ ~(p <= Len(pages)) /\ p \in 1 .. Len(pages')
    BY <1>1, <2>1, <2>5
  <2>8. /\ Len(pages'[p]) = 1 /\ pages'[p][1] = e
    BY <2>3, <2>5
  <2>9. Len(pages'[p]) - 1 = 0 /\ \A s \in 1 .. 0 : FALSE
    BY <2>8
  <2>10. Added(p, e)
    BY <1>1, <1>2, <1>3, <1>4, <2>5, <2>6, <2>7, <2>8, <2>9 DEF Added
  <2> QED
    BY <2>10
<1>6. CASE ~(p > Len(pages))
  <2>1. p \in 1 .. Len(pages)
    BY <1>1, <1>2, <1>6
  <2> DEFINE new == Append(pages[p], e)
  <2>2. /\ new \in Seq(Entry) /\ Len(new) = Len(pages[p]) + 1 /\ new[Len(new)] = e
        /\ \A s \in 1 .. Len(pages[p]) : new[s] = pages[p][s]
    BY <1>1, <2>1, AppendProperties
  <2>3. pages' = [pages EXCEPT ![p] = new]
    BY <1>2, <1>6 DEF AddTo
  <2> HIDE DEF new
  <2>4. /\ pages' \in Seq(Seq(Entry)) /\ Len(pages') = Len(pages) /\ pages'[p] = new
        /\ \A q \in 1 .. Len(pages) : q # p => pages'[q] = pages[q]
    BY <1>1, <2>1, <2>2, <2>3, ExceptSeq
  <2>5. p = hot + 1 => Len(pages[p]) = 0
    <3>1. p = hot + 1 => pages[p] = <<>>
      BY <1>1, <2>1 DEF PoolInv, Chain
    <3> QED
      BY <1>1, <2>1, <3>1
  <2>6. Len(pages[p]) \in Nat /\ (p = hot \/ p = hot + 1)
    BY <1>1, <1>2, <2>1
  <2>7. Len(new) = (IF p = hot THEN Len(pages[p]) ELSE 0) + 1 /\ Len(new) - 1 = Len(pages[p])
    BY <2>2, <2>5, <2>6
  <2>8. p <= Len(pages) /\ p \in 1 .. Len(pages')
        /\ \A q \in 1 .. Len(pages') : q # p => q <= Len(pages) /\ pages'[q] = pages[q]
    BY <1>1, <2>1, <2>4
  <2>9. /\ Len(pages'[p]) = (IF p = hot THEN Len(pages[p]) ELSE 0) + 1
        /\ pages'[p][Len(pages'[p])] = e
        /\ \A s \in 1 .. Len(pages'[p]) - 1 : pages'[p][s] = pages[p][s]
    BY <2>2, <2>4, <2>7
  <2>10. Added(p, e)
    BY <1>1, <1>2, <1>3, <1>4, <2>4, <2>8, <2>9 DEF Added
  <2> QED
    BY <2>10
<1> QED
  BY <1>1, <1>2, <1>5, <1>6

\* A call of pop, and a token, in a state of the invariant.
LEMMA PoppingFacts ==
  ASSUME PoolInv, NEW k \in 1 .. Len(frames)
  PROVE  /\ Popping(k) /\ frames[k] \in PopCalls /\ frames[k].page \in 1 .. Len(pages)
         /\ frames[k].stop \in Nat /\ Len(pages[frames[k].page]) \in Nat
         /\ pages # <<>> /\ hot # 0
<1>1. Popping(k) /\ frames[k] \in PopCalls
  BY TypeFacts DEF PoolInv
<1>2. frames[k].page \in 1 .. hot
  BY <1>1 DEF Popping
<1> QED
  BY <1>1, <1>2, TypeFacts DEF PopCalls

\* See PoppingFacts.
LEMMA TokenFacts ==
  ASSUME PoolInv, NEW i \in 1 .. Len(tokens)
  PROVE  /\ Token(i) /\ tokens[i] \in Tokens /\ tokens[i].page \in 1 .. Len(pages)
         /\ tokens[i].slot \in Nat /\ tokens[i].level \in Nat
         /\ Len(pages[tokens[i].page]) \in Nat /\ pages # <<>> /\ hot # 0
<1>1. Token(i) /\ tokens[i] \in Tokens
  BY TypeFacts DEF PoolInv
<1>2. tokens[i].page \in 1 .. hot
  BY <1>1 DEF Token
<1> QED
  BY <1>1, <1>2, TypeFacts DEF Tokens

-----------------------------------------------------------------------------
(* Adding a pointer                                                        *)

\* Every pointer stays where it is, and the chain grows by the one that is added.
LEMMA AddedKeeps ==
  ASSUME PoolInv, NEW p \in Nat, NEW e, Added(p, e), NEW q \in 1 .. Len(pages)
  PROVE  /\ q \in 1 .. Len(pages') /\ Len(pages'[q]) \in Nat /\ Len(pages[q]) \in Nat
         /\ Len(pages[q]) <= Len(pages'[q])
         /\ \A s \in 1 .. Len(pages[q]) : pages'[q][s] = pages[q][s]
         /\ q # p => pages'[q] = pages[q]
         /\ q <= hot => q <= hot'
<1>1. /\ Len(pages) \in Nat /\ hot \in Nat /\ hot <= Len(pages)
      /\ Len(pages[q]) \in Nat /\ (pages[q] = <<>> <=> Len(pages[q]) = 0)
  BY TypeFacts
<1>2. q \in 1 .. Len(pages')
  BY <1>1 DEF Added
<1>3. CASE q # p
  BY <1>1, <1>2, <1>3 DEF Added
<1>4. CASE q = p
  <2>1. q # hot => Len(pages[q]) = 0
    <3>1. ASSUME q # hot
          PROVE  pages[q] = <<>>
      <4>1. q \in hot + 1 .. Len(pages)
        BY <1>1, <1>4, <3>1 DEF Added
      <4> QED
        BY <4>1 DEF PoolInv, Chain
    <3> QED
      BY <1>1, <3>1
  <2>2. /\ Len(pages'[q]) = Len(pages[q]) + 1
        /\ \A s \in 1 .. Len(pages'[q]) - 1 : pages'[q][s] = pages[q][s]
    BY <1>1, <1>4, <2>1 DEF Added
  <2> QED
    BY <1>1, <1>2, <1>4, <2>2 DEF Added
<1> QED
  BY <1>3, <1>4

\* While code outside the pools runs, every pop in progress is inside a -dealloc.
LEMMA AllInDealloc ==
  ASSUME PoolInv, UserRuns, NEW k \in 1 .. Len(frames)
  PROVE  frames[k].dealloc
<1>1. Len(frames) \in Nat /\ (frames = <<>> <=> Len(frames) = 0)
      /\ (frames # <<>> => Frame = frames[Len(frames)])
  BY TypeFacts
<1>2. k < Len(frames) => frames[k].dealloc
  BY PoppingFacts DEF Popping
<1> QED
  BY <1>1, <1>2 DEF UserRuns

\* Then the cold page is not empty, if an option has pop kill it.
LEMMA ColdIsBoundary ==
  ASSUME PoolInv, UserRuns, KillsCold, pages # <<>>
  PROVE  pages[1] # <<>> /\ pages[1][1] = Sentinel
BY DEF PoolInv, Chain, UserRuns

\* The chain after an addition.
LEMMA AddedChain ==
  ASSUME PoolInv, UserRuns, UNCHANGED <<options, frames>>, NEW p \in Nat, NEW e, Added(p, e)
  PROVE  Chain'
<1>1. /\ Len(pages) \in Nat /\ hot \in Nat /\ hot <= Len(pages)
      /\ \A q \in 1 .. Len(pages) : Len(pages[q]) \in Nat /\ (pages[q] = <<>> <=> Len(pages[q]) = 0)
  BY TypeFacts
<1>2. /\ hot' = p /\ p \in Nat /\ p >= 1 /\ (p = hot \/ p = hot + 1) /\ p \in 1 .. Len(pages')
      /\ hot # 0 /\ pages' \in Seq(Seq(Entry))
      /\ Len(pages') = IF p <= Len(pages) THEN Len(pages) ELSE p
      /\ \A q \in 1 .. Len(pages') : q # p => q <= Len(pages) /\ pages'[q] = pages[q]
  BY <1>1 DEF Added
<1>3. pages # <<>> /\ pages' # <<>> /\ 1 \in 1 .. Len(pages)
  <2>1. pages' # <<>>
    BY <1>2, EmptySeq
  <2>2. pages # <<>>
    BY <1>2 DEF PoolInv, Chain
  <2> QED
    BY <1>1, <2>1, <2>2, TypeFacts
<1>4. \A q \in hot' + 1 .. Len(pages') : pages'[q] = <<>>
  <2>1. ASSUME NEW q \in hot' + 1 .. Len(pages')
        PROVE  pages'[q] = <<>>
    <3>1. q \in 1 .. Len(pages') /\ q # p
      BY <1>2, <2>1
    <3>2. pages'[q] = pages[q] /\ q \in hot + 1 .. Len(pages)
      BY <1>1, <1>2, <2>1, <3>1
    <3> QED
      BY <3>2 DEF PoolInv, Chain
  <2> QED
    BY <2>1
<1>5. frames' = <<>> => Len(pages') <= hot' + 1
  BY <1>1, <1>2 DEF PoolInv, Chain
<1>6. ASSUME ~debugPoolAllocation', NEW q \in 1 .. hot' - 1
      PROVE  pages'[q] # <<>>
  <2>1. q \in 1 .. Len(pages') /\ q # p /\ q \in 1 .. hot
    BY <1>1, <1>2, <1>6
  <2>2. pages'[q] = pages[q]
    BY <1>2, <2>1
  <2>3. pages[q] # <<>>
    <3>1. CASE q = hot
      BY <1>1, <1>2, <1>6, <3>1 DEF Added, options
    <3>2. CASE q # hot
      <4>1. q \in 1 .. hot - 1
        BY <1>1, <2>1, <3>2
      <4> QED
        BY <1>6, <4>1 DEF PoolInv, Chain, options
    <3> QED
      BY <3>1, <3>2
  <2> QED
    BY <2>2, <2>3
<1>7. ASSUME KillsCold'
      PROVE  pages'[1] # <<>> /\ pages'[1][1] = Sentinel
  <2>1. pages[1] # <<>> /\ pages[1][1] = Sentinel
    BY <1>3, <1>7, ColdIsBoundary DEF KillsCold, options
  <2>2. Len(pages[1]) \in Nat /\ Len(pages[1]) # 0
    BY <1>1, <1>3, <2>1
  <2>3. /\ Len(pages'[1]) \in Nat /\ Len(pages[1]) <= Len(pages'[1])
        /\ \A s \in 1 .. Len(pages[1]) : pages'[1][s] = pages[1][s]
    BY <1>3, AddedKeeps
  <2>4. Len(pages'[1]) # 0 /\ 1 \in 1 .. Len(pages[1])
    BY <2>2, <2>3
  <2>5. pages'[1] # <<>>
    BY <2>4, EmptySeq
  <2> QED
    BY <2>1, <2>3, <2>4, <2>5
<1> QED
  BY <1>2, <1>3, <1>4, <1>5, <1>6, <1>7 DEF Chain

\* The calls of pop after an addition.
LEMMA AddedPopping ==
  ASSUME PoolInv, UserRuns, UNCHANGED <<options, frames>>, NEW p \in Nat, NEW e, Added(p, e),
         NEW k \in 1 .. Len(frames)
  PROVE  Popping(k)'
<1> DEFINE f == frames[k]
<1>1. /\ Popping(k) /\ f \in PopCalls /\ f.page \in 1 .. Len(pages) /\ f.stop \in Nat
      /\ Len(pages[f.page]) \in Nat /\ f.dealloc
      /\ Len(pages) \in Nat /\ hot \in Nat /\ hot <= Len(pages)
  BY PoppingFacts, AllInDealloc, TypeFacts
<1>2. /\ Len(pages'[f.page]) \in Nat /\ Len(pages[f.page]) <= Len(pages'[f.page])
      /\ \A s \in 1 .. Len(pages[f.page]) : pages'[f.page][s] = pages[f.page][s]
      /\ f.page <= hot => f.page <= hot'
      /\ f.page \in 1 .. Len(pages')
  BY <1>1, AddedKeeps
<1>3. Bounded(f)' <=> Bounded(f)
  BY DEF Bounded, KillsCold, options
<1>4. frames' = frames /\ hot' \in Nat
  BY DEF Added
<1>5. /\ f.page \in 1 .. hot /\ f.stop >= 1 /\ Len(pages[f.page]) + 1 >= f.stop
      /\ Len(pages[f.page]) + 1 = f.stop =>
           \A q \in f.page + 1 .. Len(pages) : pages[q] = <<>>
      /\ f.exit => k = 1 /\ f.page = 1 /\ f.stop = 1
      /\ Bounded(f) => /\ Len(pages[f.page]) >= f.stop => pages[f.page][f.stop] = Sentinel
                       /\ f.dealloc => Len(pages[f.page]) >= f.stop
  BY <1>1 DEF Popping
<1>6. f.page \in 1 .. hot' /\ f.stop >= 1 /\ Len(pages'[f.page]) + 1 >= f.stop
  <2> DEFINE m == Len(pages[f.page])  n == Len(pages'[f.page])
  <2>1. m \in Nat /\ n \in Nat /\ m <= n /\ f.stop \in Nat /\ f.stop >= 1 /\ m + 1 >= f.stop
    BY <1>1, <1>2, <1>5
  <2>2. f.page \in Nat /\ f.page >= 1 /\ f.page <= hot'
    BY <1>1, <1>2, <1>5
  <2> HIDE DEF m, n
  <2>3. n + 1 >= f.stop
    BY <2>1
  <2> QED
    BY <1>4, <2>1, <2>2, <2>3 DEF n
<1>7. Len(pages'[f.page]) + 1 # f.stop
  <2> SUFFICES ASSUME Len(pages'[f.page]) + 1 = f.stop
               PROVE  FALSE
    OBVIOUS
  <2>1. Len(pages[f.page]) + 1 = f.stop
    <3> DEFINE m == Len(pages[f.page])  n == Len(pages'[f.page])  s == f.stop
    <3>1. m \in Nat /\ n \in Nat /\ m <= n /\ s \in Nat /\ n + 1 = s /\ m + 1 >= s
      BY <1>1, <1>2, <1>5
    <3> HIDE DEF m, n, s
    <3>2. m + 1 = s
      BY <3>1
    <3> QED
      BY <3>2 DEF m, s
  <2>2. f.page = 1 /\ Len(pages[1]) = 0 /\ ~debugPoolAllocation
    BY <1>1, <1>5, <2>1 DEF Bounded, KillsCold
  <2>3. pages[1] = <<>> /\ 1 \in 1 .. Len(pages)
    BY <1>1, <2>2, TypeFacts
  <2>4. hot = 1
    <3>1. 1 \notin 1 .. hot - 1
      BY <2>2, <2>3 DEF PoolInv, Chain
    <3> QED
      BY <1>1, <1>5, <2>2, <3>1
  <2>5. p = 1
    BY <2>2, <2>3, <2>4 DEF Added
  <2>6. Len(pages'[p]) = (IF p = hot THEN Len(pages[p]) ELSE 0) + 1
    BY DEF Added
  <2>7. Len(pages'[1]) = 1
    BY <2>2, <2>4, <2>5, <2>6
  <2> QED
    BY <1>1, <1>5, <2>2, <2>7
<1>8. Bounded(f) => /\ Len(pages'[f.page]) >= f.stop
                    /\ pages'[f.page][f.stop] = Sentinel
  <2> SUFFICES ASSUME Bounded(f)
               PROVE  /\ Len(pages'[f.page]) >= f.stop
                      /\ pages'[f.page][f.stop] = Sentinel
    OBVIOUS
  <2> DEFINE m == Len(pages[f.page])  n == Len(pages'[f.page])  s == f.stop
  <2>1. m \in Nat /\ n \in Nat /\ m <= n /\ s \in Nat /\ s >= 1 /\ m >= s
    BY <1>1, <1>2, <1>5
  <2>2. pages[f.page][s] = Sentinel
    BY <1>5, <2>1
  <2> HIDE DEF m, n, s
  <2>3. n >= s /\ s \in 1 .. m
    BY <2>1
  <2>4. pages'[f.page][s] = pages[f.page][s]
    BY <1>2, <2>3 DEF m
  <2> QED
    BY <2>2, <2>3, <2>4 DEF n, s
<1>9. \A j \in 1 .. k - 1 : /\ NotAbove(frames[j].page, frames[j].stop, f.page, f.stop)
                            /\ Bounded(frames[j])' =>
                                 Below(frames[j].page, frames[j].stop, f.page, f.stop)
  <2>1. \A j \in 1 .. k - 1 : Bounded(frames[j])' <=> Bounded(frames[j])
    BY DEF Bounded, KillsCold, options
  <2> QED
    BY <1>1, <2>1 DEF Popping
<1> QED
  BY <1>1, <1>3, <1>4, <1>5, <1>6, <1>7, <1>8, <1>9 DEF Popping, Bounded, KillsCold

\* The tokens that there were, after an addition.
LEMMA AddedToken ==
  ASSUME PoolInv, UserRuns, UNCHANGED <<options, frames>>, NEW p \in Nat, NEW e, Added(p, e),
         NEW i \in 1 .. Len(tokens), \A j \in 1 .. i : tokens'[j] = tokens[j]
  PROVE  Token(i)'
<1> DEFINE t == tokens[i]
<1>1. /\ Token(i) /\ t \in Tokens /\ t.page \in 1 .. Len(pages) /\ t.slot \in Nat
      /\ Len(pages[t.page]) \in Nat /\ Len(tokens) \in Nat
  BY TokenFacts, TypeFacts
<1>2. /\ Len(pages'[t.page]) \in Nat /\ Len(pages[t.page]) <= Len(pages'[t.page])
      /\ \A s \in 1 .. Len(pages[t.page]) : pages'[t.page][s] = pages[t.page][s]
      /\ t.page <= hot => t.page <= hot'
  BY <1>1, AddedKeeps
<1>3. frames' = frames /\ hot' \in Nat /\ hot \in Nat /\ tokens'[i] = t
  <2>1. hot' \in Nat /\ hot \in Nat
    BY TypeFacts DEF Added
  <2>2. i \in 1 .. i
    OBVIOUS
  <2> QED
    BY <2>1, <2>2
<1>4. t.page \in 1 .. hot /\ t.slot \in 1 .. Len(pages[t.page]) /\ pages[t.page][t.slot] = Sentinel
  BY <1>1 DEF Token
<1>5. t.page \in 1 .. hot'
  BY <1>1, <1>2, <1>3, <1>4
<1>6. t.slot \in 1 .. Len(pages'[t.page]) /\ pages'[t.page][t.slot] = Sentinel
  BY <1>1, <1>2, <1>4
<1>7. \A k \in 1 .. Len(frames) : Bounded(frames[k])' <=> Bounded(frames[k])
  BY DEF Bounded, KillsCold, options
<1>8. \A j \in 1 .. i - 1 : tokens'[j] = tokens[j]
  BY <1>1
<1>9. UserRuns'
  BY DEF UserRuns, Frame
<1>10. /\ t.level <= Len(frames)
       /\ \A j \in 1 .. i - 1 : /\ Below(tokens[j].page, tokens[j].slot, t.page, t.slot)
                                /\ tokens[j].level <= t.level
       /\ \A k \in 1 .. Len(frames) :
            LET f == frames[k] IN
            /\ t.level < k => Below(t.page, t.slot, f.page, f.stop)
            /\ t.level >= k => NotAbove(f.page, f.stop, t.page, t.slot)
            /\ t.level >= k /\ Bounded(f) => Below(f.page, f.stop, t.page, t.slot)
  BY <1>1 DEF Token
<1> HIDE DEF t
<1>11. /\ \A j \in 1 .. i - 1 : /\ Below(tokens'[j].page, tokens'[j].slot, t.page, t.slot)
                                /\ tokens'[j].level <= t.level
  BY <1>8, <1>10
<1>12. \A k \in 1 .. Len(frames) :
         LET f == frames'[k] IN
         /\ t.level < k => Below(t.page, t.slot, f.page, f.stop)
         /\ t.level >= k => NotAbove(f.page, f.stop, t.page, t.slot)
         /\ t.level >= k /\ Bounded(frames[k])' => Below(f.page, f.stop, t.page, t.slot)
  BY <1>3, <1>7, <1>10
<1> QED
  BY <1>3, <1>5, <1>6, <1>9, <1>10, <1>11, <1>12 DEF Token

\* A token that is made for what was added.
LEMMA NewToken ==
  ASSUME PoolInv, UserRuns, UNCHANGED <<options, frames>>, NEW p \in Nat, Added(p, Sentinel),
         tokens' = Append(tokens, [page |-> hot', slot |-> Len(pages'[hot']),
                                   level |-> Len(frames)])
  PROVE  /\ tokens' \in Seq(Tokens)
         /\ \A i \in 1 .. Len(tokens') : Token(i)'
<1> DEFINE n == Len(pages'[p])
           t == [page |-> p, slot |-> n, level |-> Len(frames)]
<1>1. /\ Len(tokens) \in Nat /\ Len(frames) \in Nat /\ tokens \in Seq(Tokens) /\ hot \in Nat
      /\ hot # 0 /\ hot <= Len(pages) /\ Len(pages) \in Nat /\ hot \in 1 .. Len(pages)
  BY TypeFacts DEF PoolInv, Types, Added
<1>2. /\ hot' = p /\ (p = hot \/ p = hot + 1) /\ p \in 1 .. Len(pages')
      /\ pages'[p][n] = Sentinel /\ n = (IF p = hot THEN Len(pages[p]) ELSE 0) + 1
  BY DEF Added
<1>3. n \in Nat /\ n >= 1
  BY <1>1, <1>2, TypeFacts
<1> HIDE DEF n
<1>4. t \in Tokens /\ t.page = p /\ t.slot = n /\ t.level = Len(frames)
  BY <1>1, <1>3 DEF Tokens
<1>5. tokens' = Append(tokens, t)
  BY <1>2 DEF n
<1> HIDE DEF t
<1>6. /\ tokens' \in Seq(Tokens) /\ Len(tokens') = Len(tokens) + 1
      /\ \A i \in 1 .. Len(tokens) : tokens'[i] = tokens[i]
      /\ tokens'[Len(tokens) + 1] = t
  BY <1>1, <1>4, <1>5, AppendProperties
<1>7. ASSUME NEW i \in 1 .. Len(tokens)
      PROVE  Token(i)'
  <2>1. \A j \in 1 .. i : tokens'[j] = tokens[j]
    BY <1>1, <1>6
  <2> QED
    BY <2>1, AddedToken
<1>8. ASSUME NEW j \in 1 .. Len(tokens)
      PROVE  /\ Below(tokens[j].page, tokens[j].slot, p, n)
             /\ tokens[j].level <= Len(frames)
  <2>1. /\ tokens[j].page \in 1 .. hot /\ tokens[j].slot \in 1 .. Len(pages[tokens[j].page])
        /\ tokens[j].level <= Len(frames) /\ Len(pages[tokens[j].page]) \in Nat
    BY TokenFacts DEF Token
  <2>2. tokens[j].page < p \/ (tokens[j].page = p /\ p = hot)
    BY <1>1, <1>2, <2>1
  <2>3. tokens[j].page = p /\ p = hot => tokens[j].slot < n
    BY <1>2, <2>1
  <2> QED
    BY <2>1, <2>2, <2>3 DEF Below
<1>9. ASSUME NEW k \in 1 .. Len(frames)
      PROVE  /\ NotAbove(frames[k].page, frames[k].stop, p, n)
             /\ Bounded(frames[k]) => Below(frames[k].page, frames[k].stop, p, n)
  <2> DEFINE f == frames[k]
  <2>1. /\ f.page \in 1 .. hot /\ f.stop \in Nat /\ Len(pages[f.page]) \in Nat
        /\ Len(pages[f.page]) + 1 >= f.stop
        /\ Bounded(f) => Len(pages[f.page]) >= f.stop
    BY PoppingFacts, AllInDealloc DEF Popping
  <2> HIDE DEF f
  <2>2. f.page < p \/ (f.page = p /\ p = hot)
    BY <1>1, <1>2, <2>1
  <2>3. f.page = p /\ p = hot => n = Len(pages[f.page]) + 1
    BY <1>2
  <2> QED
    BY <1>3, <2>1, <2>2, <2>3 DEF Below, NotAbove, f
<1>m. PICK m \in Nat : m = Len(tokens) + 1
  BY <1>1
<1>10. Token(m)'
  <2>1. tokens'[m] = t /\ frames' = frames
    BY <1>6, <1>m
  <2>2. UserRuns'
    BY DEF UserRuns, Frame
  <2>3. p \in 1 .. hot' /\ n \in 1 .. Len(pages'[p]) /\ pages'[p][n] = Sentinel
    BY <1>1, <1>2, <1>3 DEF n
  <2>4. \A j \in 1 .. m - 1 : /\ Below(tokens'[j].page, tokens'[j].slot, p, n)
                             /\ tokens'[j].level <= Len(frames)
    BY <1>1, <1>6, <1>8, <1>m
  <2>5. \A k \in 1 .. Len(frames) :
          /\ ~(Len(frames) < k)
          /\ NotAbove(frames[k].page, frames[k].stop, p, n)
          /\ Bounded(frames[k])' => Below(frames[k].page, frames[k].stop, p, n)
    <3>1. \A k \in 1 .. Len(frames) : Bounded(frames[k])' <=> Bounded(frames[k])
      BY DEF Bounded, KillsCold, options
    <3> QED
      BY <1>1, <1>9, <3>1
  <2>6. Len(frames') = Len(frames) /\ Len(frames) <= Len(frames)
    BY <1>1
  <2> QED
    BY <1>4, <2>1, <2>2, <2>3, <2>4, <2>5, <2>6 DEF Token
<1>11. \A i \in 1 .. Len(tokens') : i \in 1 .. Len(tokens) \/ i = m
  BY <1>1, <1>6, <1>m
<1> QED
  BY <1>6, <1>7, <1>10, <1>11

\* A first page is made, with what is added above a boundary.
LEMMA NoPageAdds ==
  ASSUME PoolInv, NEW e \in Entry, AutoreleaseNoPage(e)
  PROVE  /\ frames = <<>> /\ tokens = <<>> /\ hot' = 1 /\ pages' \in Seq(Seq(Entry))
         /\ Len(pages') = 1 /\ pages'[1] # <<>> /\ pages'[1][1] = Sentinel
         /\ e = Sentinel => Len(pages'[1]) = 1
<1>1. hot = 0 /\ pages = <<>> /\ frames = <<>> /\ tokens = <<>>
  <2>1. hot = 0 /\ pages = <<>>
    BY DEF AutoreleaseNoPage, PoolInv, Chain
  <2>2. Len(frames) = 0
    <3>1. ASSUME Len(frames) # 0
          PROVE  FALSE
      <4>1. 1 \in 1 .. Len(frames)
        BY <3>1, TypeFacts
      <4> QED
        BY <2>1, <4>1, PoppingFacts
    <3> QED
      BY <3>1
  <2>3. Len(tokens) = 0
    <3>1. ASSUME Len(tokens) # 0
          PROVE  FALSE
      <4>1. 1 \in 1 .. Len(tokens)
        BY <3>1, TypeFacts
      <4> QED
        BY <2>1, <4>1, TokenFacts
    <3> QED
      BY <3>1
  <2> QED
    BY <2>1, <2>2, <2>3, TypeFacts, EmptySeq DEF PoolInv, Types
<1> DEFINE page == IF e = Sentinel THEN <<e>> ELSE <<Sentinel, e>>
<1>2. /\ page \in Seq(Entry) /\ page # <<>> /\ page[1] = Sentinel
      /\ e = Sentinel => Len(page) = 1
  <2>1. Sentinel \in Entry
    BY DEF Entry
  <2>2. CASE e = Sentinel
    BY <2>1, <2>2, OneElement
  <2>3. CASE e # Sentinel
    <3>1. /\ <<Sentinel, e>> \in Seq(Entry) /\ <<Sentinel, e>>[1] = Sentinel
          /\ <<Sentinel, e>> # <<>>
      BY <2>1
    <3> QED
      BY <2>3, <3>1
  <2> QED
    BY <2>2, <2>3
<1>3. pages' = <<page>> /\ hot' = 1
  BY DEF AutoreleaseNoPage
<1> HIDE DEF page
<1>4. pages' \in Seq(Seq(Entry)) /\ Len(pages') = 1 /\ pages'[1] = page
  BY <1>2, <1>3
<1> QED
  BY <1>1, <1>2, <1>3, <1>4

\* The chain is right then.
LEMMA NoPageChain ==
  ASSUME PoolInv, NEW e \in Entry, AutoreleaseNoPage(e), UNCHANGED <<options, frames>>
  PROVE  Chain' /\ frames' = <<>>
<1>1. /\ frames = <<>> /\ hot' = 1 /\ Len(pages') = 1 /\ pages'[1] # <<>>
      /\ pages'[1][1] = Sentinel /\ pages' \in Seq(Seq(Entry))
  BY NoPageAdds
<1>2. pages' # <<>>
  <2>1. Len(<<>>) = 0
    OBVIOUS
  <2> QED
    BY <1>1, <2>1
<1> QED
  BY <1>1, <1>2 DEF Chain

\* Autorelease keeps the invariant.
LEMMA AutoreleaseKeeps ==
  ASSUME PoolInv, NEW o \in Objects, Autorelease(o)
  PROVE  PoolInv'
<1>1. o \in Entry /\ UserRuns /\ UNCHANGED <<options, frames, tokens>>
  BY DEF Autorelease, Entry
<1>2. debugPoolAllocation' \in BOOLEAN /\ debugMissingPools' \in BOOLEAN
      /\ frames' \in Seq(PopCalls) /\ tokens' \in Seq(Tokens)
  BY <1>1 DEF PoolInv, Types, options
<1>3. CASE AutoreleaseOnPage(o, FALSE)
  <2>1. PICK p \in Nat : Added(p, o)
    BY <1>1, <1>3, OnPageAdds
  <2>2. Types'
    BY <1>2, <2>1, TypeFacts DEF Types, Added
  <2>3. Chain'
    BY <1>1, <2>1, AddedChain
  <2>4. \A k \in 1 .. Len(frames') : Popping(k)'
    BY <1>1, <2>1, AddedPopping
  <2>5. \A i \in 1 .. Len(tokens') : Token(i)'
    BY <1>1, <2>1, AddedToken
  <2> QED
    BY <2>2, <2>3, <2>4, <2>5 DEF PoolInv
<1>4. CASE AutoreleaseNoPage(o)
  <2>1. /\ frames = <<>> /\ tokens = <<>> /\ hot' = 1 /\ pages' \in Seq(Seq(Entry))
        /\ Len(pages') = 1
    BY <1>1, <1>4, NoPageAdds
  <2>2. Chain' /\ frames' = <<>> /\ tokens' = <<>>
    BY <1>1, <1>4, <2>1, NoPageChain
  <2>3. Types'
    BY <1>2, <2>1 DEF Types
  <2>4. Len(frames') = 0 /\ Len(tokens') = 0
    BY <2>2, EmptySeq
  <2> QED
    BY <2>2, <2>3, <2>4 DEF PoolInv
<1> QED
  BY <1>3, <1>4 DEF Autorelease

\* Push keeps the invariant.
LEMMA PushKeeps ==
  ASSUME PoolInv, Push
  PROVE  PoolInv'
<1>1. Sentinel \in Entry /\ UserRuns /\ UNCHANGED <<options, frames>>
      /\ tokens' = Append(tokens, [page |-> hot', slot |-> Len(pages'[hot']),
                                   level |-> Len(frames)])
  BY DEF Push, Entry, Level
<1>2. debugPoolAllocation' \in BOOLEAN /\ debugMissingPools' \in BOOLEAN
      /\ frames' \in Seq(PopCalls) /\ debugPoolAllocation \in BOOLEAN
  BY <1>1 DEF PoolInv, Types, options
<1>3. CASE AutoreleaseOnPage(Sentinel, debugPoolAllocation)
  <2>1. PICK p \in Nat : Added(p, Sentinel)
    BY <1>1, <1>2, <1>3, OnPageAdds
  <2>2. tokens' \in Seq(Tokens) /\ \A i \in 1 .. Len(tokens') : Token(i)'
    BY <1>1, <2>1, NewToken
  <2>3. Types'
    BY <1>2, <2>1, <2>2, TypeFacts DEF Types, Added
  <2>4. Chain'
    BY <1>1, <2>1, AddedChain
  <2>5. \A k \in 1 .. Len(frames') : Popping(k)'
    BY <1>1, <2>1, AddedPopping
  <2> QED
    BY <2>2, <2>3, <2>4, <2>5 DEF PoolInv
<1>4. CASE AutoreleaseNoPage(Sentinel)
  <2>1. /\ frames = <<>> /\ tokens = <<>> /\ hot' = 1 /\ pages' \in Seq(Seq(Entry))
        /\ Len(pages') = 1 /\ pages'[1][1] = Sentinel /\ Len(pages'[1]) = 1
    BY <1>1, <1>4, NoPageAdds
  <2>2. Chain' /\ frames' = <<>> /\ Len(frames') = 0 /\ Len(frames) = 0
    BY <1>1, <1>4, <2>1, NoPageChain, EmptySeq
  <2> DEFINE t == [page |-> 1, slot |-> 1, level |-> 0]
  <2>3. tokens' = <<t>> /\ t \in Tokens /\ t.page = 1 /\ t.slot = 1 /\ t.level = 0
    BY <1>1, <2>1, <2>2 DEF Tokens
  <2> HIDE DEF t
  <2>4. tokens' \in Seq(Tokens) /\ Len(tokens') = 1 /\ tokens'[1] = t
    BY <2>3
  <2>5. Types'
    BY <1>2, <2>1, <2>4 DEF Types
  <2>6. Token(1)'
    BY <2>1, <2>2, <2>3, <2>4 DEF Token, UserRuns
  <2> QED
    BY <2>2, <2>4, <2>5, <2>6 DEF PoolInv
<1> QED
  BY <1>3, <1>4 DEF Push

-----------------------------------------------------------------------------
(* Popping                                                                 *)

\* A new call of pop, over those that are all inside a -dealloc.
LEMMA NewCall ==
  ASSUME PoolInv, UserRuns, UNCHANGED <<options, pages, hot>>, NEW p \in Nat, NEW s \in Nat,
         NEW exit \in BOOLEAN, frames' = Append(frames, NewFrame(p, s, exit)),
         p \in 1 .. hot, s \in 1 .. Len(pages[p]),
         exit => frames = <<>> /\ p = 1 /\ s = 1,
         ~exit \/ KillsCold => pages[p][s] = Sentinel,
         \A j \in 1 .. Len(frames) : /\ NotAbove(frames[j].page, frames[j].stop, p, s)
                                     /\ Bounded(frames[j]) =>
                                          Below(frames[j].page, frames[j].stop, p, s)
  PROVE  /\ frames' \in Seq(PopCalls) /\ frames' # <<>> /\ Len(frames') = Len(frames) + 1
         /\ \A k \in 1 .. Len(frames) : frames'[k] = frames[k]
         /\ frames'[Len(frames) + 1] = NewFrame(p, s, exit)
         /\ \A k \in 1 .. Len(frames') : Popping(k)'
         /\ Chain'
<1> DEFINE f == NewFrame(p, s, exit)
<1>1. f \in PopCalls /\ f.page = p /\ f.stop = s /\ ~f.dealloc /\ f.exit = exit
  BY DEF NewFrame, PopCalls
<1> HIDE DEF f
<1>2. frames' = Append(frames, f) /\ frames \in Seq(PopCalls) /\ Len(frames) \in Nat
  BY TypeFacts DEF f, PoolInv, Types
<1>3. /\ frames' \in Seq(PopCalls) /\ frames' # <<>> /\ Len(frames') = Len(frames) + 1
      /\ \A k \in 1 .. Len(frames) : frames'[k] = frames[k]
      /\ frames'[Len(frames) + 1] = f
  BY <1>1, <1>2, AppendProperties
<1>4. \A k \in 1 .. Len(frames) : Bounded(frames[k])' <=> Bounded(frames[k])
  BY <1>3 DEF Bounded, KillsCold, options
<1>5. /\ Len(pages) \in Nat /\ hot \in Nat /\ hot <= Len(pages) /\ p \in 1 .. Len(pages)
      /\ Len(pages[p]) \in Nat
  BY TypeFacts
<1>6. ASSUME NEW k \in 1 .. Len(frames)
      PROVE  Popping(k)'
  <2>1. Popping(k) /\ frames[k].dealloc
    BY AllInDealloc, PoppingFacts
  <2>2. \A j \in 1 .. k - 1 : j \in 1 .. Len(frames) /\ frames'[j] = frames[j]
    BY <1>2, <1>3
  <2>3. frames'[k] = frames[k] /\ pages' = pages /\ hot' = hot
    BY <1>3
  <2> QED
    BY <1>3, <1>4, <2>1, <2>2, <2>3 DEF Popping
<1>m. PICK m \in Nat : m = Len(frames) + 1
  BY <1>2
<1>7. Popping(m)'
  <2>1. frames'[m] = f /\ pages' = pages /\ hot' = hot /\ Len(frames') = m
    BY <1>3, <1>m
  <2>2. /\ p \in 1 .. hot /\ s >= 1 /\ Len(pages[p]) + 1 >= s /\ Len(pages[p]) + 1 # s
        /\ Len(pages[p]) >= s /\ ~(m < m)
    BY <1>5
  <2>3. exit => m = 1 /\ p = 1 /\ s = 1
    BY <1>2, <1>m, TypeFacts
  <2>4. \A j \in 1 .. m - 1 : /\ NotAbove(frames'[j].page, frames'[j].stop, p, s)
                              /\ Bounded(frames[j])' =>
                                   Below(frames'[j].page, frames'[j].stop, p, s)
    BY <1>2, <1>3, <1>4, <1>m
  <2>5. Bounded(frames[m])' => pages[p][s] = Sentinel
    BY <1>1, <2>1 DEF Bounded, KillsCold, options
  <2> QED
    BY <1>1, <2>1, <2>2, <2>3, <2>4, <2>5 DEF Popping
<1>8. \A k \in 1 .. Len(frames') : Popping(k)'
  <2>1. \A k \in 1 .. Len(frames') : k \in 1 .. Len(frames) \/ k = m
    BY <1>2, <1>3, <1>m
  <2> QED
    BY <1>6, <1>7, <2>1
<1>9. Chain'
  <2>1. KillsCold' /\ pages # <<>> => pages[1] # <<>> /\ pages[1][1] = Sentinel
    BY ColdIsBoundary DEF KillsCold, options
  <2> QED
    BY <1>3, <2>1 DEF PoolInv, Chain, KillsCold, options
<1> QED
  BY <1>3, <1>8, <1>9 DEF f

\* Pop keeps the invariant: the tokens that stay are below the one that is popped.
LEMMA PopKeeps ==
  ASSUME PoolInv, NEW i \in DOMAIN tokens, Pop(i)
  PROVE  PoolInv'
<1> DEFINE t == tokens[i]
<1>1. /\ UserRuns /\ t.level = Len(frames) /\ tokens' = SubSeq(tokens, 1, i - 1)
      /\ frames' = Append(frames, NewFrame(t.page, t.slot, FALSE))
      /\ UNCHANGED <<options, pages, hot>>
  BY DEF Pop, Level
<1>2. i \in 1 .. Len(tokens) /\ tokens \in Seq(Tokens) /\ Len(tokens) \in Nat
      /\ Len(frames) \in Nat
  BY TypeFacts DEF PoolInv, Types
<1>3. Token(i) /\ t.page \in Nat /\ t.slot \in Nat
  BY <1>2, TokenFacts
<1>4. /\ t.page \in 1 .. hot /\ t.slot \in 1 .. Len(pages[t.page])
      /\ pages[t.page][t.slot] = Sentinel
      /\ \A j \in 1 .. i - 1 : Below(tokens[j].page, tokens[j].slot, t.page, t.slot)
      /\ \A k \in 1 .. Len(frames) :
           /\ NotAbove(frames[k].page, frames[k].stop, t.page, t.slot)
           /\ Bounded(frames[k]) => Below(frames[k].page, frames[k].stop, t.page, t.slot)
  <2>1. \A k \in 1 .. Len(frames) : t.level >= k
    BY <1>1, <1>2
  <2> QED
    BY <1>3, <2>1 DEF Token
<1>5. /\ frames' \in Seq(PopCalls) /\ frames' # <<>> /\ Len(frames') = Len(frames) + 1
      /\ \A k \in 1 .. Len(frames) : frames'[k] = frames[k]
      /\ frames'[Len(frames) + 1] = NewFrame(t.page, t.slot, FALSE)
      /\ \A k \in 1 .. Len(frames') : Popping(k)'
      /\ Chain'
  <2> HIDE DEF t
  <2> QED
    BY <1>1, <1>3, <1>4, NewCall
<1>6. i - 1 \in 0 .. Len(tokens)
  BY <1>2
<1>7. /\ tokens' \in Seq(Tokens) /\ Len(tokens') = i - 1
      /\ \A j \in 1 .. i - 1 : tokens'[j] = tokens[j]
  BY <1>1, <1>2, <1>6, PrefixFacts
<1>8. Types'
  BY <1>1, <1>5, <1>7, TypeFacts DEF PoolInv, Types, options
<1>9. ASSUME NEW j \in 1 .. i - 1
      PROVE  Token(j)'
  <2>1. j \in 1 .. Len(tokens) /\ Token(j) /\ tokens[j].level \in Nat
    BY <1>2, TokenFacts
  <2>2. tokens'[j] = tokens[j] /\ \A l \in 1 .. j - 1 : tokens'[l] = tokens[l]
    BY <1>2, <1>7
  <2>3. tokens[j].level <= Len(frames) /\ tokens[j].level # Len(frames')
        /\ tokens[j].level <= Len(frames')
    <3>1. tokens[j].level <= Len(frames)
      BY <2>1 DEF Token
    <3>2. PICK l, m : l = tokens[j].level /\ m = Len(frames)
      OBVIOUS
    <3>3. l \in Nat /\ m \in Nat /\ l <= m /\ Len(frames') = m + 1
      BY <1>2, <1>5, <2>1, <3>1, <3>2
    <3>4. l # m + 1 /\ l <= m + 1
      BY <3>3
    <3> QED
      BY <3>1, <3>2, <3>3, <3>4
  <2>4. ASSUME NEW k \in 1 .. Len(frames')
        PROVE  LET f == frames'[k] IN
               /\ tokens[j].level < k => Below(tokens[j].page, tokens[j].slot, f.page, f.stop)
               /\ tokens[j].level >= k => NotAbove(f.page, f.stop, tokens[j].page, tokens[j].slot)
               /\ tokens[j].level >= k /\ Bounded(frames[k])' =>
                     Below(f.page, f.stop, tokens[j].page, tokens[j].slot)
    <3>1. CASE k \in 1 .. Len(frames)
      <4>1. frames'[k] = frames[k] /\ (Bounded(frames[k])' <=> Bounded(frames[k]))
        BY <1>1, <1>5, <3>1 DEF Bounded, KillsCold, options
      <4> QED
        BY <2>1, <3>1, <4>1, TokenCall
    <3>2. CASE k = Len(frames) + 1
      <4>1. frames'[k].page = t.page /\ frames'[k].stop = t.slot
        BY <1>5, <3>2 DEF NewFrame
      <4>2. tokens[j].level < k
        BY <1>2, <2>1, <2>3, <3>2
      <4> QED
        BY <1>4, <2>1, <4>1, <4>2
    <3> QED
      BY <1>2, <1>5, <3>1, <3>2
  <2> QED
    BY <1>1, <2>1, <2>2, <2>3, <2>4 DEF Token
<1> QED
  BY <1>5, <1>7, <1>8, <1>9 DEF PoolInv

-----------------------------------------------------------------------------
(* Releasing                                                               *)

\* What a turn of releaseUntil takes away is the last pointer of page h, at or above the
\* boundary of the innermost call of pop.
Taken(h) ==
  /\ frames # <<>> /\ ~Frame.dealloc /\ Len(pages[Frame.page]) >= Frame.stop
  /\ h \in 1 .. hot /\ Frame.page <= h /\ pages[h] # <<>>
  /\ \A q \in h + 1 .. Len(pages) : pages[q] = <<>>
  /\ hot' = h
  /\ pages' \in Seq(Seq(Entry)) /\ Len(pages') = Len(pages)
  /\ \A q \in 1 .. Len(pages) : q # h => pages'[q] = pages[q]
  /\ Len(pages'[h]) = Len(pages[h]) - 1
  /\ \A s \in 1 .. Len(pages[h]) - 1 : pages'[h][s] = pages[h][s]
  /\ frames' \in Seq(PopCalls) /\ Len(frames') = Len(frames)
  /\ \A k \in 1 .. Len(frames) : k # Len(frames) => frames'[k] = frames[k]
  /\ LET f == frames'[Len(frames)] IN
       /\ f.page = Frame.page /\ f.stop = Frame.stop /\ f.exit = Frame.exit
       /\ f.dealloc <=> pages[h][Len(pages[h])] # Sentinel

\* ReleaseNext takes the pointer so.
LEMMA ReleaseTakes ==
  ASSUME PoolInv, ReleaseNext
  PROVE  \E h \in Nat : Taken(h)
<1> DEFINE L == Len(frames)
           F == Frame
           S == {q \in 1 .. hot : pages[q] # <<>>}
<1>1. /\ frames # <<>> /\ ~F.dealloc /\ F = frames[L] /\ F \in PopCalls /\ L \in 1 .. L
      /\ frames \in Seq(PopCalls) /\ pages \in Seq(Seq(Entry))
      /\ hot \in Nat /\ Len(pages) \in Nat /\ hot <= Len(pages) /\ L \in Nat
  BY TypeFacts DEF ReleaseNext, UserRuns, PoolInv, Types
<1>2. /\ Popping(L) /\ F.page \in 1 .. Len(pages) /\ F.stop \in Nat
      /\ Len(pages[F.page]) \in Nat
  BY <1>1, PoppingFacts
<1>3. F.page \in 1 .. hot /\ F.stop >= 1 /\ Len(pages[F.page]) + 1 >= F.stop
  BY <1>1, <1>2 DEF Popping
<1>4. Len(pages[F.page]) >= F.stop
  <2>1. Len(pages[F.page]) # F.stop - 1
    BY DEF ReleaseNext, Remaining
  <2> QED
    BY <1>2, <1>3, <2>1
<1>5. F.page \in S
  <2>1. Len(pages[F.page]) # 0
    BY <1>2, <1>3, <1>4
  <2> QED
    BY <1>2, <1>3, <2>1, TypeFacts
<1> DEFINE h == Max(S)
<1>6. h \in S /\ \A q \in S : q <= h
  <2>1. S \in SUBSET (0 .. hot) /\ S # {}
    BY <1>1, <1>5
  <2> HIDE DEF S
  <2> QED
    BY <1>1, <2>1, MaxOfBounded
<1>7. h \in 1 .. hot /\ h \in Nat /\ F.page <= h /\ pages[h] # <<>> /\ h = HottestNonempty
  BY <1>1, <1>5, <1>6 DEF HottestNonempty
<1> HIDE DEF h
<1>8. \A q \in h + 1 .. Len(pages) : pages[q] = <<>>
  <2>1. ASSUME NEW q \in h + 1 .. Len(pages)
        PROVE  pages[q] = <<>>
    <3>1. CASE q \in 1 .. hot
      <4>1. ~(q <= h)
        BY <1>1, <1>7, <2>1
      <4>2. q \notin S
        BY <1>6, <4>1
      <4> QED
        BY <3>1, <4>2
    <3>2. CASE ~(q \in 1 .. hot)
      <4>1. q \in hot + 1 .. Len(pages)
        BY <1>1, <1>7, <2>1, <3>2
      <4> QED
        BY <4>1 DEF PoolInv, Chain
    <3> QED
      BY <3>1, <3>2
  <2> QED
    BY <2>1
<1> HIDE DEF S
<1>9. /\ pages' = [pages EXCEPT ![h] = Front(pages[h])] /\ hot' = h
  BY <1>7 DEF ReleaseNext
<1>d. PICK d \in BOOLEAN : d = (Last(pages[h]) # Sentinel)
  OBVIOUS
<1>10. h \in 1 .. Len(pages) /\ pages[h] \in Seq(Entry)
  BY <1>1, <1>7, TypeFacts
<1>11. /\ Last(pages[h]) = pages[h][Len(pages[h])]
       /\ Front(pages[h]) \in Seq(Entry) /\ Len(Front(pages[h])) = Len(pages[h]) - 1
       /\ \A s \in 1 .. Len(pages[h]) - 1 : Front(pages[h])[s] = pages[h][s]
  BY <1>7, <1>10, FrontFacts
<1>12. /\ pages' \in Seq(Seq(Entry)) /\ Len(pages') = Len(pages)
       /\ \A q \in 1 .. Len(pages) : q # h => pages'[q] = pages[q]
       /\ pages'[h] = Front(pages[h])
  <2> DEFINE front == Front(pages[h])
  <2>1. front \in Seq(Entry) /\ pages' = [pages EXCEPT ![h] = front]
    BY <1>9, <1>11
  <2> HIDE DEF front
  <2>2. /\ pages' \in Seq(Seq(Entry)) /\ Len(pages') = Len(pages)
        /\ \A q \in 1 .. Len(pages) : pages'[q] = IF q = h THEN front ELSE pages[q]
    BY <1>1, <1>10, <2>1, ExceptSeq
  <2> QED
    BY <1>10, <2>2 DEF front
<1>13. /\ frames' \in Seq(PopCalls) /\ Len(frames') = L
       /\ \A k \in 1 .. L : k # L => frames'[k] = frames[k]
       /\ LET f == frames'[L] IN
            /\ f.page = F.page /\ f.stop = F.stop /\ f.exit = F.exit
            /\ f.dealloc <=> pages[h][Len(pages[h])] # Sentinel
  <2> DEFINE G == [F EXCEPT !.dealloc = d]
  <2>1. /\ G \in PopCalls /\ G.page = F.page /\ G.stop = F.stop /\ G.exit = F.exit
        /\ G.dealloc = d
    BY <1>1 DEF PopCalls
  <2>2. frames' = [frames EXCEPT ![L] = G]
    <3>1. frames' = [frames EXCEPT ![L].dealloc = (Last(pages[h]) # Sentinel)]
      BY <1>7, Zenon DEF ReleaseNext, Level
    <3>2. frames' = [frames EXCEPT ![L].dealloc = d]
      BY <1>d, <3>1, Zenon
    <3> QED
      BY <1>1, <3>2
  <2> HIDE DEF G, F
  <2>3. /\ frames' \in Seq(PopCalls) /\ Len(frames') = L
        /\ \A k \in 1 .. L : frames'[k] = IF k = L THEN G ELSE frames[k]
    BY <1>1, <2>1, <2>2, ExceptSeq
  <2>4. frames'[L] = G
    BY <1>1, <2>3
  <2>5. d <=> pages[h][Len(pages[h])] # Sentinel
    BY <1>11, <1>d
  <2> QED
    BY <2>1, <2>3, <2>4, <2>5
<1>14. Taken(h)
  BY <1>1, <1>4, <1>7, <1>8, <1>9, <1>11, <1>12, <1>13 DEF Taken
<1> QED
  BY <1>7, <1>14

\* The last pointer that a call of pop takes is its boundary.
LEMMA BoundaryLast ==
  ASSUME PoolInv, NEW h \in Nat, Taken(h), Bounded(Frame), Frame.page = h,
         Len(pages[h]) = Frame.stop
  PROVE  pages[h][Len(pages[h])] = Sentinel
<1>1. frames # <<>> /\ Frame = frames[Len(frames)] /\ Len(frames) \in 1 .. Len(frames)
  BY TypeFacts DEF Taken
<1>2. Popping(Len(frames)) /\ Frame.stop \in Nat
  BY <1>1, PoppingFacts
<1> QED
  BY <1>1, <1>2 DEF Popping

\* What does not change in the calls.
LEMMA TakenCalls ==
  ASSUME PoolInv, NEW h \in Nat, Taken(h), UNCHANGED options, NEW k \in 1 .. Len(frames)
  PROVE  /\ frames'[k].page = frames[k].page /\ frames'[k].stop = frames[k].stop
         /\ frames'[k].exit = frames[k].exit /\ frames[k] \in PopCalls
         /\ k # Len(frames) => frames'[k] = frames[k]
         /\ Bounded(frames[k])' <=> Bounded(frames[k])
<1>1. frames[k] \in PopCalls /\ Frame = frames[Len(frames)]
  BY TypeFacts DEF Taken
<1>2. /\ frames'[k].page = frames[k].page /\ frames'[k].stop = frames[k].stop
      /\ frames'[k].exit = frames[k].exit
      /\ k # Len(frames) => frames'[k] = frames[k]
  BY <1>1 DEF Taken, PopCalls
<1> QED
  BY <1>1, <1>2 DEF Bounded, KillsCold, options

\* The chain after a release.
LEMMA TakenChain ==
  ASSUME PoolInv, NEW h \in Nat, Taken(h), UNCHANGED options
  PROVE  Chain'
<1> DEFINE L == Len(frames)
<1>1. /\ hot \in Nat /\ Len(pages) \in Nat /\ hot <= Len(pages) /\ L \in 1 .. L /\ L \in Nat
      /\ Frame = frames[L] /\ Frame \in PopCalls /\ frames # <<>>
      /\ Frame.page \in 1 .. Len(pages) /\ Frame.stop \in Nat /\ Frame.stop >= 1
      /\ Len(pages[Frame.page]) \in Nat
  BY TypeFacts, PoppingFacts DEF Taken, Popping
<1>2. /\ h \in 1 .. hot /\ h \in 1 .. Len(pages) /\ hot' = h /\ Len(pages') = Len(pages)
      /\ Len(frames') = L /\ pages' \in Seq(Seq(Entry)) /\ frames' \in Seq(PopCalls)
      /\ Len(pages[h]) \in Nat /\ pages[h] # <<>> /\ Len(pages[h]) # 0
  BY <1>1, TypeFacts DEF Taken
<1>3. pages # <<>> /\ pages' # <<>> /\ frames' # <<>> /\ 1 \in 1 .. Len(pages)
  <2>1. Len(pages) # 0 /\ L # 0 /\ 1 \in 1 .. Len(pages)
    BY <1>1, <1>2
  <2> QED
    BY <1>2, <2>1, EmptySeq
<1>4. \A q \in hot' + 1 .. Len(pages') : pages'[q] = <<>>
  <2>1. \A q \in h + 1 .. Len(pages) : q \in 1 .. Len(pages) /\ q # h
    BY <1>1, <1>2
  <2> QED
    BY <1>2, <2>1 DEF Taken
<1>5. ~debugPoolAllocation' => \A q \in 1 .. hot' - 1 : pages'[q] # <<>>
  <2>1. ~debugPoolAllocation => \A q \in 1 .. hot - 1 : pages[q] # <<>>
    BY DEF PoolInv, Chain
  <2>2. h <= hot /\ hot \in Nat /\ hot <= Len(pages) /\ Len(pages) \in Nat
    BY <1>1, <1>2
  <2>3. \A q \in 1 .. h - 1 : q \in 1 .. hot - 1 /\ q \in 1 .. Len(pages) /\ q # h
    BY <2>2
  <2> QED
    BY <1>2, <2>1, <2>3 DEF Taken, options
<1>6. Frame' = frames'[L]
  BY <1>2, <1>3 DEF Frame, Last
<1>7. ASSUME KillsCold
      PROVE  /\ pages'[1] # <<>> => pages'[1][1] = Sentinel
             /\ pages'[1] = <<>> => ~Frame'.dealloc /\ Frame'.page = 1
  <2>1. pages[1] # <<>> /\ pages[1][1] = Sentinel
    <3>1. ASSUME pages[1] = <<>>
          PROVE  FALSE
      <4>1. Frame.page = 1
        BY <1>3, <1>7, <3>1 DEF PoolInv, Chain
      <4>2. Len(pages[Frame.page]) = 0
        BY <1>3, <3>1, <4>1, TypeFacts
      <4> QED
        BY <1>1, <4>2 DEF Taken
    <3> QED
      BY <1>3, <1>7, <3>1 DEF PoolInv, Chain
  <2>2. CASE h # 1
    BY <1>3, <2>1, <2>2 DEF Taken
  <2>3. CASE h = 1
    <3>1. Len(pages'[1]) = Len(pages[1]) - 1 /\ pages'[1] \in Seq(Entry)
      <4>1. 1 \in 1 .. Len(pages')
        BY <1>2, <1>3
      <4>2. pages'[1] \in Seq(Entry)
        BY <1>2, <4>1, ElementOfSeq
      <4> QED
        BY <2>3, <4>2 DEF Taken
    <3>n. PICK n \in Nat : n = Len(pages[1]) /\ n # 0
      BY <1>2, <2>3
    <3>2. pages'[1] = <<>> <=> n = 1
      <4>1. Len(pages'[1]) = n - 1
        BY <3>1, <3>n
      <4>2. n = 1 <=> Len(pages'[1]) = 0
        BY <3>n, <4>1
      <4>3. pages'[1] = <<>> <=> Len(pages'[1]) = 0
        BY <3>1, EmptySeq
      <4> QED
        BY <4>2, <4>3
    <3>3. ASSUME pages'[1] # <<>>
          PROVE  pages'[1][1] = Sentinel
      <4>1. n # 1
        BY <3>2, <3>3
      <4>2. 1 \in 1 .. n - 1
        <5>1. n # 0 /\ n \in Nat
          BY <3>n
        <5> QED
          BY <4>1, <5>1
      <4> QED
        BY <2>1, <2>3, <3>n, <4>2 DEF Taken
    <3>4. ASSUME pages'[1] = <<>>
          PROVE  ~Frame'.dealloc /\ Frame'.page = 1
      <4>1. pages[h][Len(pages[h])] = Sentinel
        BY <2>1, <2>3, <3>n, <3>2, <3>4
      <4>2. Frame.page = 1
        BY <1>1, <2>3 DEF Taken
      <4> QED
        BY <1>1, <1>6, <4>1, <4>2 DEF Taken, PopCalls
    <3> QED
      BY <3>3, <3>4
  <2> QED
    BY <2>2, <2>3
<1> QED
  BY <1>2, <1>3, <1>4, <1>5, <1>7 DEF Chain, KillsCold, options

\* The calls of pop after a release.
LEMMA TakenPopping ==
  ASSUME PoolInv, NEW h \in Nat, Taken(h), UNCHANGED options, NEW k \in 1 .. Len(frames)
  PROVE  Popping(k)'
<1> DEFINE L == Len(frames)  f == frames[k]  n == Len(pages[f.page])  m == Len(pages'[f.page])
           F == Frame
<1>1. /\ hot \in Nat /\ Len(pages) \in Nat /\ hot <= Len(pages) /\ L \in 1 .. L /\ L \in Nat
      /\ F = frames[L] /\ F \in PopCalls /\ F.page \in Nat /\ F.stop \in Nat
      /\ Popping(L) /\ Popping(k) /\ f \in PopCalls /\ f.page \in 1 .. Len(pages)
      /\ f.stop \in Nat /\ n \in Nat
  BY TypeFacts, PoppingFacts DEF Taken, PopCalls
<1>2. /\ h \in 1 .. hot /\ hot' = h /\ F.page <= h /\ pages[h] # <<>>
      /\ Len(pages[F.page]) >= F.stop
      /\ \A q \in h + 1 .. Len(pages) : pages[q] = <<>>
  BY DEF Taken
<1>3. /\ f.page \in 1 .. hot /\ f.stop >= 1 /\ n + 1 >= f.stop
      /\ n + 1 = f.stop => \A q \in f.page + 1 .. Len(pages) : pages[q] = <<>>
      /\ f.exit => k = 1 /\ f.page = 1 /\ f.stop = 1
      /\ Bounded(f) => /\ n >= f.stop => pages[f.page][f.stop] = Sentinel
                       /\ f.dealloc => n >= f.stop
      /\ k # L => f.dealloc
  <2>1. /\ f.page \in 1 .. hot /\ f.stop >= 1 /\ n + 1 >= f.stop
        /\ n + 1 = f.stop => \A q \in f.page + 1 .. Len(pages) : pages[q] = <<>>
        /\ f.exit => k = 1 /\ f.page = 1 /\ f.stop = 1
        /\ Bounded(f) => /\ n >= f.stop => pages[f.page][f.stop] = Sentinel
                         /\ f.dealloc => n >= f.stop
        /\ k < L => f.dealloc
    BY <1>1, Zenon DEF Popping
  <2>2. k # L => k < L
    BY <1>1
  <2> QED
    BY <2>1, <2>2, Zenon
<1>4. /\ NotAbove(f.page, f.stop, F.page, F.stop)
      /\ k # L /\ Bounded(f) => Below(f.page, f.stop, F.page, F.stop)
  <2>1. CASE k = L
    BY <1>1, <2>1 DEF NotAbove
  <2>2. CASE k # L
    <3>1. k \in 1 .. L - 1
      BY <1>1, <2>2
    <3> QED
      BY <1>1, <3>1 DEF Popping
  <2> QED
    BY <2>1, <2>2
<1>5. /\ f.page # h => m = n /\ pages'[f.page] = pages[f.page]
      /\ f.page = h => m = n - 1 /\ \A s \in 1 .. n - 1 : pages'[f.page][s] = pages[f.page][s]
  BY <1>1 DEF Taken
<1> HIDE DEF F
<1>6. f.page = h => F.page = h /\ f.stop <= F.stop /\ n >= F.stop
                    /\ (k # L /\ Bounded(f) => f.stop < F.stop)
  BY <1>1, <1>2, <1>3, <1>4 DEF Below, NotAbove
<1>7. f.page <= h /\ f.page \in 1 .. h
  <2>1. PICK p, q : p = f.page /\ q = F.page
    OBVIOUS
  <2>2. p \in Nat /\ p >= 1 /\ q \in Nat /\ q <= h /\ (p < q \/ p = q)
    BY <1>1, <1>2, <1>3, <1>4, <2>1 DEF NotAbove
  <2>3. p <= h /\ p \in 1 .. h
    BY <2>2
  <2> QED
    BY <2>1, <2>3
<1> HIDE DEF f, n, m
<1>8. m \in Nat /\ m + 1 >= f.stop /\ m <= n
  <2>1. PICK a, b, r : a = m /\ b = n /\ r = f.stop
    OBVIOUS
  <2>2. b \in Nat /\ r \in Nat /\ r >= 1 /\ b + 1 >= r
    BY <1>1, <1>3, <2>1
  <2>3. CASE f.page # h
    BY <1>5, <2>1, <2>2, <2>3
  <2>4. CASE f.page = h
    <3>1. a = b - 1 /\ F.stop \in Nat /\ r <= F.stop /\ b >= F.stop
      BY <1>1, <1>5, <1>6, <2>1, <2>4
    <3>2. a \in Nat /\ a + 1 >= r /\ a <= b
      BY <2>2, <3>1
    <3> QED
      BY <2>1, <3>2
  <2> QED
    BY <2>3, <2>4
<1>9. ASSUME m + 1 = f.stop
      PROVE  \A q \in f.page + 1 .. Len(pages') : pages'[q] = <<>>
  <2>1. f.page = h
    <3>1. ASSUME f.page # h
          PROVE  FALSE
      <4>1. n + 1 = f.stop /\ h \in f.page + 1 .. Len(pages)
        <5>1. n + 1 = f.stop
          BY <1>5, <1>9, <3>1
        <5>2. f.page \in Nat /\ f.page < h /\ h <= Len(pages)
          BY <1>1, <1>2, <1>7, <3>1
        <5> QED
          BY <1>1, <5>1, <5>2
      <4> QED
        BY <1>2, <1>3, <4>1
    <3> QED
      BY <3>1
  <2>2. Len(pages') = Len(pages)
    BY DEF Taken
  <2>3. ASSUME NEW q \in h + 1 .. Len(pages)
        PROVE  pages'[q] = <<>>
    <3>1. q \in 1 .. Len(pages) /\ q # h
      BY <1>1, <1>2
    <3>2. pages'[q] = pages[q]
      BY <3>1 DEF Taken
    <3> QED
      BY <1>2, <3>2
  <2> QED
    BY <2>1, <2>2, <2>3
<1>10. ASSUME Bounded(f), m >= f.stop
       PROVE  pages'[f.page][f.stop] = Sentinel
  <2>1. n >= f.stop /\ pages[f.page][f.stop] = Sentinel
    BY <1>1, <1>3, <1>8, <1>10
  <2>2. f.page = h => f.stop \in 1 .. n - 1
    BY <1>1, <1>3, <1>5, <1>8, <1>10
  <2> QED
    BY <1>5, <2>1, <2>2
<1>11. ASSUME Bounded(f), frames'[k].dealloc
       PROVE  m >= f.stop
  <2>1. CASE k # L
    BY <1>1, <1>3, <1>5, <1>6, <1>8, <1>11, <2>1
  <2>2. CASE k = L
    <3>1. f = F
      BY <1>1, <2>2 DEF f, F
    <3>2. pages[h][Len(pages[h])] # Sentinel
      <4>1. frames'[L].dealloc <=> pages[h][Len(pages[h])] # Sentinel
        BY DEF Taken
      <4> QED
        BY <1>11, <2>2, <4>1
    <3>3. f.page = h => n # f.stop
      <4>1. f.page = h => n = Len(pages[h])
        BY DEF n
      <4> QED
        BY <1>11, <3>1, <3>2, <4>1, BoundaryLast DEF F
    <3> QED
      <4>1. n >= f.stop
        BY <1>2, <3>1 DEF n
      <4> QED
        BY <1>1, <1>5, <1>8, <3>3, <4>1
  <2> QED
    BY <2>1, <2>2
<1>12. /\ frames'[k].page = f.page /\ frames'[k].stop = f.stop /\ frames'[k].exit = f.exit
       /\ k # Len(frames) => frames'[k] = f
       /\ Bounded(frames[k])' <=> Bounded(f)
  BY TakenCalls DEF f
<1>13. /\ f.page \in 1 .. hot' /\ Len(frames') = L
       /\ k < Len(frames') => frames'[k].dealloc
  <2>1. Len(frames') = L
    BY DEF Taken
  <2> QED
    BY <1>1, <1>2, <1>3, <1>7, <1>12, <2>1
<1>14. ASSUME NEW j \in 1 .. k - 1
       PROVE  LET e == frames'[j] IN
              /\ NotAbove(e.page, e.stop, f.page, f.stop)
              /\ Bounded(frames[j])' => Below(e.page, e.stop, f.page, f.stop)
  <2>1. j \in 1 .. L
    BY <1>1
  <2>2. /\ frames'[j].page = frames[j].page /\ frames'[j].stop = frames[j].stop
        /\ Bounded(frames[j])' <=> Bounded(frames[j])
    BY <2>1, TakenCalls
  <2> QED
    BY <1>1, <2>2 DEF Popping, f
<1> QED
  BY <1>3, <1>8, <1>9, <1>10, <1>11, <1>12, <1>13, <1>14 DEF Popping, m

\* The tokens after a release: they lie below what the innermost call of pop releases.
LEMMA TakenToken ==
  ASSUME PoolInv, NEW h \in Nat, Taken(h), UNCHANGED <<options, tokens>>,
         NEW i \in 1 .. Len(tokens)
  PROVE  Token(i)'
<1> DEFINE L == Len(frames)  t == tokens[i]  F == Frame  n == Len(pages[t.page])
<1>1. /\ hot \in Nat /\ Len(pages) \in Nat /\ hot <= Len(pages) /\ L \in 1 .. L /\ L \in Nat
      /\ F = frames[L] /\ F.page \in Nat /\ F.stop \in Nat
      /\ Token(i) /\ t.page \in 1 .. Len(pages) /\ t.slot \in Nat /\ t.level \in Nat
      /\ n \in Nat
  BY TypeFacts, TokenFacts DEF Taken, PopCalls
<1>2. /\ h \in 1 .. hot /\ hot' = h /\ F.page <= h /\ Len(pages[F.page]) >= F.stop
      /\ ~UserRuns /\ Len(frames') = L
  BY DEF Taken, UserRuns
<1>3. t.level < L /\ t.page \in 1 .. hot /\ t.slot \in 1 .. n /\ pages[t.page][t.slot] = Sentinel
  <2>1. /\ t.page \in 1 .. hot /\ t.slot \in 1 .. n /\ pages[t.page][t.slot] = Sentinel
        /\ t.level <= L /\ (t.level = L => UserRuns)
    BY <1>1, Zenon DEF Token
  <2>2. t.level # L
    BY <1>2, <2>1, Zenon
  <2>3. PICK l, m : l = t.level /\ m = L
    OBVIOUS
  <2>4. l \in Nat /\ m \in Nat /\ l <= m /\ l # m
    BY <1>1, <2>1, <2>2, <2>3
  <2>5. l < m
    BY <2>4
  <2> QED
    BY <2>1, <2>3, <2>5
<1>4. Below(t.page, t.slot, F.page, F.stop)
  BY <1>1, <1>3, TokenCall
<1> HIDE DEF F
<1>5. t.page \in 1 .. h /\ (t.page = h => t.slot \in 1 .. n - 1)
  <2>1. t.page = h => t.page = F.page /\ t.slot < F.stop
    BY <1>1, <1>2, <1>4 DEF Below
  <2>2. t.page <= h
    BY <1>1, <1>2, <1>4 DEF Below
  <2>3. t.page = F.page => n >= F.stop
    BY <1>2
  <2> HIDE DEF n
  <2> QED
    BY <1>1, <1>2, <1>3, <2>1, <2>2, <2>3
<1>6. t.slot \in 1 .. Len(pages'[t.page]) /\ pages'[t.page][t.slot] = Sentinel
  <2>1. CASE t.page # h
    BY <1>1, <1>3, <2>1 DEF Taken
  <2>2. CASE t.page = h
    BY <1>1, <1>3, <1>5, <2>2 DEF Taken
  <2> QED
    BY <2>1, <2>2
<1>7. ASSUME NEW k \in 1 .. Len(frames)
      PROVE  LET f == frames'[k] IN
             /\ t.level < k => Below(t.page, t.slot, f.page, f.stop)
             /\ t.level >= k => NotAbove(f.page, f.stop, t.page, t.slot)
             /\ t.level >= k /\ Bounded(frames[k])' => Below(f.page, f.stop, t.page, t.slot)
  BY <1>1, TakenCalls DEF Token
<1>8. /\ t.level <= Len(frames') /\ t.level # Len(frames') /\ tokens' = tokens
      /\ \A j \in 1 .. i - 1 : /\ Below(tokens[j].page, tokens[j].slot, t.page, t.slot)
                               /\ tokens[j].level <= t.level
  BY <1>1, <1>2, <1>3 DEF Token
<1> HIDE DEF t
<1> QED
  BY <1>2, <1>5, <1>6, <1>7, <1>8 DEF Token, t

\* ReleaseNext keeps the invariant.
LEMMA ReleaseNextKeeps ==
  ASSUME PoolInv, ReleaseNext
  PROVE  PoolInv'
<1>1. PICK h \in Nat : Taken(h)
  BY ReleaseTakes
<1>2. UNCHANGED <<options, tokens>>
  BY DEF ReleaseNext
<1>3. Len(frames') = Len(frames)
  BY <1>1 DEF Taken
<1>4. Types'
  <2>1. h \in Nat /\ h \in 1 .. hot /\ hot' = h /\ Len(pages') = Len(pages) /\ hot <= Len(pages)
        /\ hot \in Nat /\ Len(pages) \in Nat
    BY <1>1, TypeFacts DEF Taken
  <2>2. hot' \in 0 .. Len(pages')
    BY <2>1
  <2> QED
    BY <1>1, <1>2, <2>2 DEF PoolInv, Types, Taken, options
<1>5. Chain'
  BY <1>1, <1>2, TakenChain
<1>6. \A k \in 1 .. Len(frames') : Popping(k)'
  BY <1>1, <1>2, <1>3, TakenPopping
<1>7. \A i \in 1 .. Len(tokens') : Token(i)'
  BY <1>1, <1>2, TakenToken
<1> QED
  BY <1>4, <1>5, <1>6, <1>7 DEF PoolInv

\* DeallocReturns keeps the invariant: the tokens that stay are those of the code outside,
\* the oldest.
LEMMA DeallocReturnsKeeps ==
  ASSUME PoolInv, DeallocReturns
  PROVE  PoolInv'
<1> DEFINE L == Len(frames)
           G == [Frame EXCEPT !.dealloc = FALSE]
           S == {0} \cup {i \in DOMAIN tokens : tokens[i].level < L}
           m == Max(S)
<1>1. /\ hot \in Nat /\ Len(pages) \in Nat /\ L \in 1 .. L /\ L \in Nat /\ frames # <<>>
      /\ Frame = frames[L] /\ Frame \in PopCalls /\ Frame.dealloc /\ frames \in Seq(PopCalls)
      /\ tokens \in Seq(Tokens) /\ Len(tokens) \in Nat /\ DOMAIN tokens = 1 .. Len(tokens)
  BY TypeFacts DEF DeallocReturns, PoolInv, Types
<1>2. /\ frames' = [frames EXCEPT ![L] = G] /\ tokens' = SubSeq(tokens, 1, m)
      /\ UNCHANGED <<options, pages, hot>>
  BY <1>1 DEF DeallocReturns, Level
<1>3. /\ G \in PopCalls /\ G.page = Frame.page /\ G.stop = Frame.stop /\ G.exit = Frame.exit
      /\ ~G.dealloc
  BY <1>1 DEF PopCalls
<1> HIDE DEF G
<1>4. /\ frames' \in Seq(PopCalls) /\ Len(frames') = L /\ frames' # <<>> /\ frames'[L] = G
      /\ \A k \in 1 .. L : k # L => frames'[k] = frames[k]
  <2>1. /\ frames' \in Seq(PopCalls) /\ Len(frames') = L
        /\ \A k \in 1 .. L : frames'[k] = IF k = L THEN G ELSE frames[k]
    BY <1>1, <1>2, <1>3, ExceptSeq
  <2> QED
    BY <1>1, <2>1, EmptySeq
<1>5. ASSUME NEW k \in 1 .. L
      PROVE  /\ frames'[k].page = frames[k].page /\ frames'[k].stop = frames[k].stop
             /\ frames'[k].exit = frames[k].exit /\ frames[k] \in PopCalls
             /\ k # L => frames'[k] = frames[k]
             /\ frames'[k].dealloc => frames[k].dealloc
             /\ Bounded(frames[k])' <=> Bounded(frames[k])
  <2>1. frames'[k].exit = frames[k].exit
    BY <1>1, <1>3, <1>4
  <2> QED
    BY <1>1, <1>2, <1>3, <1>4, <2>1, TypeFacts DEF Bounded, KillsCold, options
<1>6. ASSUME NEW k \in 1 .. L
      PROVE  Popping(k)'
  <2>1. Popping(k)
    BY PoppingFacts
  <2>2. \A j \in 1 .. k - 1 : j \in 1 .. L
    BY <1>1
  <2> HIDE DEF L
  <2>3. \A j \in 1 .. k - 1 :
          LET e == frames'[j]  f == frames'[k] IN
          /\ NotAbove(e.page, e.stop, f.page, f.stop)
          /\ Bounded(frames[j])' => Below(e.page, e.stop, f.page, f.stop)
    BY <1>5, <2>1, <2>2 DEF Popping
  <2>4. Len(frames') = L /\ pages' = pages /\ hot' = hot /\ (k < L => frames'[k].dealloc)
    <3>1. k < L => k # L /\ frames[k].dealloc
      BY <1>1, <2>1 DEF Popping, L
    <3> QED
      BY <1>2, <1>4, <1>5, <3>1
  <2> QED
    BY <1>5, <2>1, <2>3, <2>4 DEF Popping
<1>7. m \in S /\ \A i \in S : i <= m
  <2>1. S \in SUBSET (0 .. Len(tokens)) /\ S # {}
    BY <1>1
  <2> HIDE DEF S
  <2> QED
    BY <1>1, <2>1, MaxOfBounded
<1>8. m \in 0 .. Len(tokens) /\ (m # 0 => tokens[m].level < L)
  BY <1>1, <1>7
<1> HIDE DEF S, m
<1>9. /\ tokens' \in Seq(Tokens) /\ Len(tokens') = m
      /\ \A j \in 1 .. m : tokens'[j] = tokens[j]
  BY <1>1, <1>2, <1>8, PrefixFacts
<1>10. ASSUME NEW i \in 1 .. m
       PROVE  Token(i)'
  <2>1. i \in 1 .. Len(tokens) /\ m \in 1 .. Len(tokens)
    BY <1>1, <1>8
  <2>2. Token(i) /\ tokens[i].level \in Nat /\ Token(m) /\ tokens[m].level \in Nat
    BY <2>1, TokenFacts
  <2>3. tokens[i].level < L
    <3>1. i # m => tokens[i].level <= tokens[m].level
      BY <1>8, <2>1, <2>2 DEF Token
    <3> QED
      BY <1>1, <1>8, <2>1, <2>2, <3>1
  <2>4. tokens'[i] = tokens[i] /\ \A j \in 1 .. i - 1 : tokens'[j] = tokens[j]
    BY <1>8, <1>9
  <2>5. \A k \in 1 .. L :
          LET f == frames'[k] IN
          /\ tokens[i].level < k => Below(tokens[i].page, tokens[i].slot, f.page, f.stop)
          /\ tokens[i].level >= k => NotAbove(f.page, f.stop, tokens[i].page, tokens[i].slot)
          /\ tokens[i].level >= k /\ Bounded(frames[k])' =>
                Below(f.page, f.stop, tokens[i].page, tokens[i].slot)
    BY <1>5, <2>2 DEF Token
  <2>6. tokens[i].level <= L /\ tokens[i].level # L
    BY <1>1, <2>2, <2>3
  <2> QED
    BY <1>2, <1>4, <2>2, <2>4, <2>5, <2>6 DEF Token
<1>11. Chain'
  <2>1. Frame' = G
    BY <1>4 DEF Frame, Last
  <2>2. KillsCold /\ pages # <<>> => pages[1] # <<>> /\ pages[1][1] = Sentinel
    BY <1>1, ColdIsBoundary DEF UserRuns
  <2> QED
    BY <1>2, <1>4, <2>2 DEF PoolInv, Chain, KillsCold, options
<1>12. Types'
  BY <1>2, <1>4, <1>9 DEF PoolInv, Types, options
<1> QED
  BY <1>4, <1>6, <1>9, <1>10, <1>11, <1>12 DEF PoolInv

-----------------------------------------------------------------------------
(* The end of a pop and of the thread                                      *)

\* The innermost call of pop has released what lay above its boundary.
Released ==
  /\ frames # <<>> /\ ~Frame.dealloc
  /\ Len(pages[Frame.page]) + 1 = Frame.stop

\* How much of the chain pop keeps: one page fewer than the page of its token when that is
\* empty and an option wants it killed, else that page and perhaps the next.
LEMMA KeptFacts ==
  ASSUME PoolInv, NEW p \in 1 .. Len(pages)
  PROVE  /\ Kept(p) \in 0 .. Len(pages)
         /\ \/ Kept(p) = p - 1 /\ pages[p] = <<>> /\ KillsCold
            \/ Kept(p) \in {p, p + 1}
         /\ KillsCold /\ pages[p] = <<>> /\ p = 1 => Kept(p) = 0
<1>1. Len(pages) \in Nat
  BY TypeFacts
<1>2. Reserve(p) \in {p, p + 1} /\ Reserve(p) <= Len(pages)
  <2>1. Min({p + 1, Len(pages)}) = IF p = Len(pages) THEN p ELSE p + 1
    <3> DEFINE S == {p + 1, Len(pages)}
               m == IF p = Len(pages) THEN p ELSE p + 1
    <3>1. m \in S /\ (\A y \in S : m <= y) /\ S \subseteq Nat
      BY <1>1
    <3> HIDE DEF S, m
    <3>2. Min(S) \in S /\ \A y \in S : Min(S) <= y
      BY <3>1 DEF Min
    <3>3. Min(S) \in Nat /\ m \in Nat /\ Min(S) <= m /\ m <= Min(S)
      BY <3>1, <3>2
    <3>4. Min(S) = m
      BY <3>3
    <3> QED
      BY <3>4 DEF S, m
  <2>2. Reserve(p) = p \/ Reserve(p) = Min({p + 1, Len(pages)})
    BY DEF Reserve
  <2> QED
    BY <1>1, <2>1, <2>2
<1>3. CASE debugPoolAllocation /\ pages[p] = <<>>
  BY <1>1, <1>3 DEF Kept, KillsCold
<1>4. CASE /\ ~(debugPoolAllocation /\ pages[p] = <<>>)
           /\ debugMissingPools /\ pages[p] = <<>> /\ p = 1
  BY <1>1, <1>4 DEF Kept, KillsCold
<1>5. CASE /\ ~(debugPoolAllocation /\ pages[p] = <<>>)
           /\ ~(debugMissingPools /\ pages[p] = <<>> /\ p = 1)
  <2>1. Kept(p) = Reserve(p)
    BY <1>5 DEF Kept
  <2> QED
    BY <1>1, <1>2, <1>5, <2>1 DEF KillsCold
<1> QED
  BY <1>3, <1>4, <1>5

\* The calls outside, and the tokens, lie below the boundary of a pop that is done.
LEMMA BelowReleased ==
  ASSUME PoolInv, Released
  PROVE  /\ \A q \in Frame.page + 1 .. Len(pages) : pages[q] = <<>>
         /\ Frame.page \in 1 .. hot /\ Frame.page \in 1 .. Len(pages)
         /\ \A k \in 1 .. Len(frames) - 1 :
              /\ frames[k].page <= Frame.page
              /\ pages[Frame.page] = <<>> /\ KillsCold => frames[k].page < Frame.page
              /\ frames[k].dealloc
         /\ \A i \in 1 .. Len(tokens) :
              /\ tokens[i].page <= Frame.page
              /\ pages[Frame.page] = <<>> => tokens[i].page < Frame.page
              /\ tokens[i].level < Len(frames)
<1> DEFINE L == Len(frames)  F == Frame
<1>1. /\ L \in 1 .. L /\ L \in Nat /\ F = frames[L] /\ Popping(L)
      /\ F.page \in 1 .. Len(pages) /\ F.page \in Nat /\ F.stop \in Nat
      /\ Len(pages[F.page]) + 1 = F.stop /\ Len(pages[F.page]) \in Nat
      /\ pages[F.page] = <<>> <=> F.stop = 1
  <2>1. /\ L \in 1 .. L /\ L \in Nat /\ F = frames[L] /\ Len(pages[F.page]) + 1 = F.stop
    BY TypeFacts DEF Released
  <2>2. /\ Popping(L) /\ F.page \in 1 .. Len(pages) /\ F.page \in Nat /\ F.stop \in Nat
        /\ Len(pages[F.page]) \in Nat
    BY <2>1, PoppingFacts DEF PopCalls
  <2>3. pages[F.page] = <<>> <=> Len(pages[F.page]) = 0
    BY <2>2, TypeFacts
  <2> QED
    BY <2>1, <2>2, <2>3
<1>2. F.page \in 1 .. hot /\ \A q \in F.page + 1 .. Len(pages) : pages[q] = <<>>
  BY <1>1 DEF Popping
<1>3. ASSUME NEW k \in 1 .. L - 1
      PROVE  /\ frames[k].page <= F.page
             /\ pages[F.page] = <<>> /\ KillsCold => frames[k].page < F.page
             /\ frames[k].dealloc
  <2>1. k \in 1 .. L /\ k < L
    BY <1>1
  <2>2. /\ frames[k].page \in Nat /\ frames[k].stop \in Nat /\ frames[k].stop >= 1
        /\ frames[k].dealloc
    BY <2>1, PoppingFacts DEF PopCalls, Popping
  <2>3. /\ NotAbove(frames[k].page, frames[k].stop, F.page, F.stop)
        /\ KillsCold => Below(frames[k].page, frames[k].stop, F.page, F.stop)
    BY <1>1 DEF Popping, Bounded
  <2> HIDE DEF F
  <2> QED
    BY <1>1, <2>2, <2>3 DEF Below, NotAbove
<1>4. ASSUME NEW i \in 1 .. Len(tokens)
      PROVE  /\ tokens[i].page <= F.page
             /\ pages[F.page] = <<>> => tokens[i].page < F.page
             /\ tokens[i].level < L
  <2>1. /\ Token(i) /\ tokens[i].page \in Nat /\ tokens[i].slot \in Nat /\ tokens[i].level \in Nat
        /\ tokens[i].slot \in 1 .. Len(pages[tokens[i].page]) /\ tokens[i].slot >= 1
    <3>1. /\ Token(i) /\ tokens[i] \in Tokens /\ tokens[i].page \in 1 .. Len(pages)
          /\ tokens[i].slot \in Nat /\ tokens[i].level \in Nat
      BY TokenFacts
    <3>2. tokens[i].slot \in 1 .. Len(pages[tokens[i].page])
      BY <3>1 DEF Token
    <3> QED
      BY <3>1, <3>2
  <2>2. tokens[i].level < L
    <3>1. tokens[i].level <= L /\ (tokens[i].level = L => UserRuns)
      BY <2>1 DEF Token
    <3>2. ~UserRuns
      BY DEF Released, UserRuns
    <3> QED
      <4>1. PICK l : l = tokens[i].level
        OBVIOUS
      <4>2. l \in Nat /\ l <= L /\ l # L
        BY <2>1, <3>1, <3>2, <4>1
      <4>3. l < L
        BY <1>1, <4>2
      <4> QED
        BY <4>1, <4>3
  <2>3. Below(tokens[i].page, tokens[i].slot, F.page, F.stop)
    BY <1>1, <2>1, <2>2 DEF Token
  <2> HIDE DEF F
  <2>4. PICK a, b, p, q : a = tokens[i].page /\ b = tokens[i].slot /\ p = F.page /\ q = F.stop
    OBVIOUS
  <2>5. /\ a \in Nat /\ b \in Nat /\ p \in Nat /\ q \in Nat /\ b >= 1
        /\ b \in 1 .. Len(pages[a]) /\ (a < p \/ (a = p /\ b < q))
    BY <1>1, <2>1, <2>3, <2>4 DEF Below
  <2>6. a <= p /\ (pages[p] = <<>> => a < p)
    <3>1. pages[p] = <<>> => Len(pages[p]) = 0
      OBVIOUS
    <3> QED
      BY <2>5, <3>1
  <2> QED
    BY <2>2, <2>4, <2>6
<1> QED
  BY <1>1, <1>2, <1>3, <1>4

\* AllReleased is left.
AllReleased ==
  /\ debugPoolAllocation \in BOOLEAN /\ debugMissingPools \in BOOLEAN
  /\ pages = <<>> /\ hot = 0 /\ frames = <<>> /\ tokens = <<>>

\* Then the invariant holds.
LEMMA NothingLeft == AllReleased => PoolInv
<1> SUFFICES ASSUME AllReleased
             PROVE  PoolInv
  OBVIOUS
<1>1. Len(pages) = 0 /\ Len(frames) = 0 /\ Len(tokens) = 0
  BY EmptySeq DEF AllReleased
<1>2. Types
  <2>1. pages \in Seq(Seq(Entry)) /\ frames \in Seq(PopCalls) /\ tokens \in Seq(Tokens)
    BY EmptySeq DEF AllReleased
  <2> QED
    BY <1>1, <2>1 DEF Types, AllReleased
<1>3. Chain
  BY <1>1 DEF Chain, AllReleased
<1> QED
  BY <1>1, <1>2, <1>3 DEF PoolInv

\* See NothingLeft.
LEMMA NothingLeftNext == AllReleased' => PoolInv'
BY NothingLeft, PTL

\* The pop at the end of a thread leaves nothing.
LEMMA FinishExit ==
  ASSUME PoolInv, Released, Frame.exit, UNCHANGED <<options, tokens>>, hot' = 0,
         pages' = SubSeq(pages, 1, KeptAtExit(Kept(Frame.page))), frames' = Front(frames)
  PROVE  PoolInv'
<1>1. /\ Len(frames) \in 1 .. Len(frames) /\ Len(frames) \in Nat /\ Frame = frames[Len(frames)]
      /\ Popping(Len(frames)) /\ Frame.page \in 1 .. Len(pages)
      /\ frames \in Seq(PopCalls) /\ tokens \in Seq(Tokens)
  BY TypeFacts, BelowReleased, PoppingFacts DEF Released, PoolInv, Types
<1>2. Len(frames) = 1 /\ Frame.page = 1 /\ Frame.stop = 1
  BY <1>1 DEF Popping
<1>3. pages[1] = <<>>
  <2>1. Len(pages[1]) + 1 = 1 /\ 1 \in 1 .. Len(pages)
    BY <1>1, <1>2 DEF Released
  <2> QED
    BY <2>1, TypeFacts
<1>4. pages' = <<>>
  <2>1. KeptAtExit(Kept(1)) = 0
    BY <1>1, <1>2, <1>3, KeptFacts DEF KeptAtExit, KillsCold
  <2> QED
    BY <1>2, <2>1, SubSeqEmpty
<1>5. frames' = <<>>
  <2>1. frames' \in Seq(PopCalls) /\ Len(frames') = 0
    <3>1. frames # <<>>
      BY DEF Released
    <3> QED
      BY <1>1, <1>2, <3>1, FrontFacts
  <2> QED
    BY <2>1, EmptySeq
<1>6. tokens = <<>>
  <2>1. ASSUME NEW i \in 1 .. Len(tokens)
        PROVE  FALSE
    <3>1. tokens[i].page < 1 /\ tokens[i].page \in 1 .. Len(pages)
      BY <1>2, <1>3, BelowReleased, TokenFacts
    <3> QED
      BY <3>1
  <2>2. Len(tokens) = 0
    <3>1. Len(tokens) # 0 => 1 \in 1 .. Len(tokens)
      BY TypeFacts
    <3> QED
      BY <2>1, <3>1
  <2> QED
    BY <2>2, TypeFacts, EmptySeq DEF PoolInv, Types
<1>7. debugPoolAllocation' \in BOOLEAN /\ debugMissingPools' \in BOOLEAN /\ tokens' = <<>>
  BY <1>6 DEF PoolInv, Types, options
<1> QED
  BY <1>4, <1>5, <1>7, NothingLeftNext DEF AllReleased

\* Any other pop leaves what the calls and the tokens outside refer to.
LEMMA FinishOther ==
  ASSUME PoolInv, Released, UNCHANGED <<options, tokens>>,
         pages' = SubSeq(pages, 1, Kept(Frame.page)), hot' = Min({Kept(Frame.page), Frame.page}),
         frames' = Front(frames)
  PROVE  PoolInv'
<1> DEFINE L == Len(frames)  F == Frame  n == Kept(F.page)
<1>1. /\ L \in 1 .. L /\ L \in Nat /\ F = frames[L] /\ F.page \in 1 .. hot
      /\ F.page \in 1 .. Len(pages) /\ F.page \in Nat /\ F.page >= 1
      /\ Len(pages) \in Nat /\ hot \in Nat /\ hot <= Len(pages)
      /\ frames # <<>> /\ pages \in Seq(Seq(Entry)) /\ frames \in Seq(PopCalls)
      /\ tokens \in Seq(Tokens) /\ Len(tokens) \in Nat
  BY TypeFacts, BelowReleased DEF Released, PoolInv, Types
<1>2. /\ n \in 0 .. Len(pages)
      /\ \/ n = F.page - 1 /\ pages[F.page] = <<>> /\ KillsCold
         \/ n \in {F.page, F.page + 1}
      /\ KillsCold /\ pages[F.page] = <<>> /\ F.page = 1 => n = 0
  BY <1>1, KeptFacts
<1>3. /\ \A q \in F.page + 1 .. Len(pages) : pages[q] = <<>>
      /\ \A k \in 1 .. L - 1 :
           /\ frames[k].page <= F.page
           /\ pages[F.page] = <<>> /\ KillsCold => frames[k].page < F.page
           /\ frames[k].dealloc
      /\ \A i \in 1 .. Len(tokens) :
           /\ tokens[i].page <= F.page
           /\ pages[F.page] = <<>> => tokens[i].page < F.page
           /\ tokens[i].level < L
  BY BelowReleased
<1>4. hot' = IF n = F.page - 1 THEN n ELSE F.page
  <2> DEFINE S == {n, F.page}
             m == IF n = F.page - 1 THEN n ELSE F.page
  <2>1. m \in S /\ (\A y \in S : m <= y) /\ S \subseteq Nat
    <3> HIDE DEF n, F
    <3>1. n \in Nat /\ F.page \in Nat /\ (n = F.page - 1 \/ n >= F.page)
      <4>1. PICK a, b : a = n /\ b = F.page
        OBVIOUS
      <4>2. a \in Nat /\ b \in Nat /\ (a = b - 1 \/ a \in {b, b + 1})
        BY <1>1, <1>2, <4>1
      <4>3. a = b - 1 \/ a >= b
        BY <4>2
      <4> QED
        BY <4>1, <4>2, <4>3
    <3> QED
      BY <3>1
  <2>2. hot' = Min(S)
    OBVIOUS
  <2> HIDE DEF S, m
  <2>3. Min(S) \in S /\ \A y \in S : Min(S) <= y
    BY <2>1 DEF Min
  <2>4. Min(S) \in Nat /\ m \in Nat /\ Min(S) <= m /\ m <= Min(S)
    BY <2>1, <2>3
  <2>5. Min(S) = m
    BY <2>4
  <2> QED
    BY <2>2, <2>5 DEF m
<1>5. /\ pages' \in Seq(Seq(Entry)) /\ Len(pages') = n
      /\ \A q \in 1 .. n : pages'[q] = pages[q]
  <2> HIDE DEF n
  <2> QED
    BY <1>1, <1>2, PrefixFacts DEF n
<1>6. /\ frames' \in Seq(PopCalls) /\ Len(frames') = L - 1
      /\ \A k \in 1 .. L - 1 : frames'[k] = frames[k]
  BY <1>1, FrontFacts
<1>7. ASSUME NEW q \in Nat, q <= F.page, pages[F.page] = <<>> /\ KillsCold => q < F.page
      PROVE  q <= hot' /\ q <= n
  <2> HIDE DEF n, F
  <2>1. PICK p, m : p = F.page /\ m = n
    OBVIOUS
  <2>2. p \in Nat /\ m \in Nat /\ q <= p /\ hot' = IF m = p - 1 THEN m ELSE p
    BY <1>1, <1>2, <1>4, <1>7, <2>1
  <2>3. CASE m = p - 1
    <3>1. q < p
      <4>1. pages[F.page] = <<>> /\ KillsCold
        <5>1. n # F.page /\ n # F.page + 1
          BY <2>1, <2>2, <2>3
        <5> QED
          BY <1>2, <5>1
      <4> QED
        BY <1>7, <2>1, <4>1
    <3>2. q <= m /\ hot' = m
      BY <2>2, <2>3, <3>1
    <3> QED
      BY <2>1, <3>2
  <2>4. CASE m # p - 1
    <3>1. m = p \/ m = p + 1
      BY <1>2, <2>1, <2>4
    <3>2. q <= m /\ hot' = p
      BY <2>2, <2>4, <3>1
    <3> QED
      BY <2>1, <2>2, <3>2
  <2> QED
    BY <2>3, <2>4
<1>8. hot' \in 0 .. n /\ hot' <= hot /\ hot' \in Nat /\ n <= hot' + 1 /\ (hot' = 0 <=> n = 0)
      /\ (n # hot' => hot' = F.page)
  <2> HIDE DEF n, F
  <2>1. n \in Nat /\ n <= Len(pages) /\ F.page <= hot /\ F.page # 0
    BY <1>1, <1>2
  <2>2. CASE n = F.page - 1
    <3>1. hot' = n /\ n <= hot
      BY <1>1, <1>4, <2>1, <2>2
    <3> QED
      BY <2>1, <3>1
  <2>3. CASE n # F.page - 1
    <3>1. hot' = F.page /\ (n = F.page \/ n = F.page + 1) /\ n # 0 /\ F.page <= n
      <4>1. PICK a, b : a = n /\ b = F.page
        OBVIOUS
      <4>2. b \in Nat /\ b >= 1 /\ (a = b \/ a = b + 1)
        BY <1>1, <1>2, <2>3, <4>1
      <4>3. a # 0 /\ b <= a
        BY <4>2
      <4>4. hot' = b
        BY <1>4, <2>3, <4>1
      <4> QED
        BY <4>1, <4>2, <4>3, <4>4
    <3> QED
      BY <1>1, <2>1, <3>1
  <2> QED
    BY <2>2, <2>3
<1> HIDE DEF n
<1>9. frames' = <<>> <=> L = 1
  <2>1. frames' = <<>> <=> Len(frames') = 0
    BY <1>6, EmptySeq
  <2>2. L - 1 = 0 <=> L = 1
    BY <1>1
  <2> QED
    BY <1>6, <2>1, <2>2
<1>10. frames' # <<>> => Frame' = frames[L - 1] /\ Frame'.dealloc
  <2>1. ASSUME frames' # <<>>
        PROVE  Frame' = frames[L - 1] /\ L - 1 \in 1 .. L - 1
    BY <1>1, <1>6, <1>9, <2>1 DEF Frame, Last
  <2> QED
    BY <1>3, <2>1
<1>11. UserRuns'
  BY <1>10 DEF UserRuns
<1>12. Chain'
  <2>1. hot' = 0 <=> pages' = <<>>
    BY <1>5, <1>8, EmptySeq
  <2>2. \A q \in hot' + 1 .. Len(pages') : pages'[q] = <<>>
    <3>1. ASSUME NEW q \in hot' + 1 .. n
          PROVE  pages'[q] = <<>>
      <4>1. q \in 1 .. n /\ q \in F.page + 1 .. Len(pages)
        BY <1>1, <1>2, <1>8
      <4> QED
        BY <1>3, <1>5, <4>1
    <3> QED
      BY <1>5, <3>1
  <2>3. ~debugPoolAllocation => \A q \in 1 .. hot' - 1 : pages'[q] # <<>>
    <3>1. ASSUME ~debugPoolAllocation, NEW q \in 1 .. hot' - 1
          PROVE  pages'[q] # <<>>
      <4>1. q \in 1 .. n /\ q \in 1 .. hot - 1
        BY <1>1, <1>2, <1>8
      <4> QED
        BY <1>5, <3>1, <4>1 DEF PoolInv, Chain
    <3> QED
      BY <3>1
  <2>4. ASSUME KillsCold, pages' # <<>>
        PROVE  pages'[1] # <<>> /\ pages'[1][1] = Sentinel
    <3>1. n # 0 /\ 1 \in 1 .. n /\ pages # <<>>
      BY <1>1, <1>2, <1>5, <2>4, EmptySeq
    <3>2. pages[1] # <<>>
      <4>1. ASSUME pages[1] = <<>>
            PROVE  FALSE
        <5>1. F.page = 1
          BY <2>4, <3>1, <4>1 DEF PoolInv, Chain
        <5> QED
          BY <1>2, <2>4, <3>1, <4>1, <5>1
      <4> QED
        BY <4>1
    <3> QED
      BY <1>5, <2>4, <3>1, <3>2 DEF PoolInv, Chain
  <2> QED
    BY <1>5, <1>8, <2>1, <2>2, <2>3, <2>4 DEF Chain, KillsCold, options
<1>13. ASSUME NEW k \in 1 .. L - 1
       PROVE  Popping(k)'
  <2> DEFINE f == frames[k]
  <2>1. k \in 1 .. L /\ Popping(k) /\ f.page \in 1 .. Len(pages) /\ f.page \in 1 .. hot
    <3>1. k \in 1 .. L
      BY <1>1
    <3>2. Popping(k) /\ f.page \in 1 .. Len(pages)
      BY <3>1, PoppingFacts
    <3> QED
      BY <3>1, <3>2 DEF Popping
  <2>2. /\ f.page \in 1 .. hot' /\ f.page \in 1 .. n
        /\ pages'[f.page] = pages[f.page]
    <3>1. f.page <= hot' /\ f.page <= n
      <4>1. f.page \in Nat /\ f.page <= F.page
            /\ (pages[F.page] = <<>> /\ KillsCold => f.page < F.page)
        BY <1>3, <2>1
      <4>2. PICK q : q = f.page
        OBVIOUS
      <4>3. q <= hot' /\ q <= n
        BY <1>7, <4>1, <4>2
      <4> QED
        BY <4>2, <4>3
    <3>2. f.page \in Nat /\ f.page >= 1 /\ n \in Nat /\ hot' \in Nat
      BY <1>2, <1>8, <2>1
    <3>3. f.page \in 1 .. hot' /\ f.page \in 1 .. n
      BY <3>1, <3>2
    <3> QED
      BY <1>5, <3>3
  <2>3. \A j \in 1 .. k : frames'[j] = frames[j]
    <3>1. \A j \in 1 .. k : j \in 1 .. L - 1
      BY <1>1
    <3> QED
      BY <1>6, <3>1
  <2>4. \A j \in 1 .. k : Bounded(frames[j])' <=> Bounded(frames[j])
    BY <2>3 DEF Bounded, KillsCold, options
  <2>5. f.dealloc /\ k \in 1 .. k /\ \A j \in 1 .. k - 1 : j \in 1 .. k
    BY <1>3
  <2>6. Len(pages[f.page]) + 1 = f.stop =>
           \A q \in f.page + 1 .. Len(pages') : pages'[q] = <<>>
    <3>1. ASSUME Len(pages[f.page]) + 1 = f.stop, NEW q \in f.page + 1 .. n
          PROVE  pages'[q] = <<>>
      <4>1. q \in 1 .. n /\ q \in f.page + 1 .. Len(pages)
        BY <1>2, <2>1
      <4> QED
        BY <1>5, <2>1, <3>1, <4>1 DEF Popping
    <3> QED
      BY <1>5, <3>1
  <2>7. \A j \in 1 .. k - 1 :
          /\ NotAbove(frames'[j].page, frames'[j].stop, f.page, f.stop)
          /\ Bounded(frames[j])' => Below(frames'[j].page, frames'[j].stop, f.page, f.stop)
    BY <2>1, <2>3, <2>4, <2>5 DEF Popping
  <2> QED
    BY <2>1, <2>2, <2>3, <2>4, <2>5, <2>6, <2>7 DEF Popping
<1>14. ASSUME NEW i \in 1 .. Len(tokens)
       PROVE  Token(i)'
  <2> DEFINE t == tokens[i]
  <2>1. Token(i) /\ t.page \in 1 .. Len(pages) /\ t.page \in 1 .. hot /\ t.level \in Nat
    BY TokenFacts DEF Token
  <2>2. t.page \in 1 .. hot' /\ t.page \in 1 .. n /\ pages'[t.page] = pages[t.page]
    <3>1. t.page <= hot' /\ t.page <= n
      <4>1. t.page \in Nat /\ t.page <= F.page
            /\ (pages[F.page] = <<>> /\ KillsCold => t.page < F.page)
        BY <1>3, <2>1
      <4>2. PICK q : q = t.page
        OBVIOUS
      <4>3. q <= hot' /\ q <= n
        BY <1>7, <4>1, <4>2
      <4> QED
        BY <4>2, <4>3
    <3>2. t.page \in Nat /\ t.page >= 1 /\ n \in Nat /\ hot' \in Nat
      BY <1>2, <1>8, <2>1
    <3>3. t.page \in 1 .. hot' /\ t.page \in 1 .. n
      BY <3>1, <3>2
    <3> QED
      BY <1>5, <3>3
  <2>3. t.level <= Len(frames') /\ tokens' = tokens
    <3>1. PICK l : l = t.level
      OBVIOUS
    <3>2. l \in Nat /\ l < L /\ Len(frames') = L - 1
      BY <1>3, <1>6, <2>1, <3>1
    <3>3. l <= L - 1
      BY <1>1, <3>2
    <3> QED
      BY <3>1, <3>2, <3>3
  <2>4. \A k \in 1 .. Len(frames') :
          LET f == frames'[k] IN
          /\ t.level < k => Below(t.page, t.slot, f.page, f.stop)
          /\ t.level >= k => NotAbove(f.page, f.stop, t.page, t.slot)
          /\ t.level >= k /\ Bounded(frames[k])' => Below(f.page, f.stop, t.page, t.slot)
    <3>1. ASSUME NEW k \in 1 .. L - 1
          PROVE  LET f == frames'[k] IN
                 /\ t.level < k => Below(t.page, t.slot, f.page, f.stop)
                 /\ t.level >= k => NotAbove(f.page, f.stop, t.page, t.slot)
                 /\ t.level >= k /\ Bounded(frames[k])' => Below(f.page, f.stop, t.page, t.slot)
      <4>1. k \in 1 .. Len(frames)
        BY <1>1
      <4>2. frames'[k] = frames[k]
        BY <1>6
      <4>3. Bounded(frames[k])' <=> Bounded(frames[k])
        BY <1>1, <4>2 DEF Bounded, KillsCold, options
      <4> QED
        BY <2>1, <4>1, <4>2, <4>3, TokenCall
    <3> QED
      BY <1>6, <3>1
  <2> QED
    BY <1>11, <2>1, <2>2, <2>3, <2>4 DEF Token
<1>15. Types'
  BY <1>5, <1>6, <1>8 DEF PoolInv, Types, options
<1>16. \A k \in 1 .. Len(frames') : Popping(k)'
  BY <1>6, <1>13
<1>17. \A i \in 1 .. Len(tokens') : Token(i)'
  BY <1>14
<1> QED
  BY <1>12, <1>15, <1>16, <1>17 DEF PoolInv

\* FinishPop keeps the invariant.
LEMMA FinishPopKeeps ==
  ASSUME PoolInv, FinishPop
  PROVE  PoolInv'
<1>1. Released
  <2>1. frames # <<>> /\ ~Frame.dealloc /\ Len(pages[Frame.page]) = Frame.stop - 1
    BY DEF FinishPop, UserRuns, Remaining
  <2>2. Frame = frames[Len(frames)] /\ Len(frames) \in 1 .. Len(frames)
    BY <2>1, TypeFacts
  <2>3. Frame.stop \in Nat /\ Len(pages[Frame.page]) \in Nat
    BY <2>2, PoppingFacts
  <2> QED
    BY <2>1, <2>3 DEF Released
<1>2. CASE Frame.exit
  BY <1>1, <1>2, FinishExit DEF FinishPop
<1>3. CASE ~Frame.exit
  BY <1>1, <1>3, FinishOther DEF FinishPop
<1> QED
  BY <1>2, <1>3

\* ThreadExit keeps the invariant.
LEMMA ThreadExitKeeps ==
  ASSUME PoolInv, ThreadExit
  PROVE  PoolInv'
<1>1. /\ frames = <<>> /\ hot # 0 /\ tokens' = <<>> /\ UNCHANGED options /\ UserRuns
      /\ pages # <<>> /\ 1 \in 1 .. Len(pages) /\ 1 \in 1 .. hot
      /\ Len(frames) = 0 /\ pages[1] \in Seq(Entry) /\ Len(pages[1]) \in Nat
      /\ pages[1] = <<>> <=> Len(pages[1]) = 0
  <2>1. frames = <<>> /\ hot # 0 /\ tokens' = <<>> /\ UNCHANGED options /\ UserRuns
    BY DEF ThreadExit, UserRuns
  <2>2. pages # <<>> /\ 1 \in 1 .. Len(pages) /\ 1 \in 1 .. hot
    BY <2>1, TypeFacts DEF PoolInv, Chain
  <2> QED
    BY <2>1, <2>2, TypeFacts
<1>2. KillsCold => pages[1] # <<>> /\ pages[1][1] = Sentinel
  BY <1>1, ColdIsBoundary
<1>3. CASE pages[1] # <<>>
  <2>1. frames' = <<NewFrame(1, 1, TRUE)>> /\ UNCHANGED <<pages, hot>>
    BY <1>3 DEF ThreadExit
  <2>2. frames' = Append(frames, NewFrame(1, 1, TRUE))
    BY <1>1, <2>1
  <2>3. 1 \in 1 .. Len(pages[1])
    BY <1>1, <1>3
  <2>4. \A j \in 1 .. Len(frames) : FALSE
    BY <1>1
  <2>5. /\ frames' \in Seq(PopCalls)
        /\ \A k \in 1 .. Len(frames') : Popping(k)'
        /\ Chain'
    BY <1>1, <1>2, <2>1, <2>2, <2>3, <2>4, NewCall
  <2>6. Types'
    BY <1>1, <2>1, <2>5, EmptySeq DEF PoolInv, Types, options
  <2>7. \A i \in 1 .. Len(tokens') : Token(i)'
    <3>1. Len(tokens') = 0
      BY <1>1, EmptySeq
    <3> QED
      BY <3>1
  <2> QED
    BY <2>5, <2>6, <2>7 DEF PoolInv
<1>4. CASE ~(pages[1] # <<>>)
  <2>1. pages' = SubSeq(pages, 1, KeptAtExit(Len(pages))) /\ hot' = 0 /\ frames' = <<>>
    BY <1>1, <1>4 DEF ThreadExit
  <2>2. KeptAtExit(Len(pages)) = 0
    BY <1>2, <1>4 DEF KeptAtExit, KillsCold
  <2>3. pages' = <<>>
    BY <2>1, <2>2, SubSeqEmpty
  <2>4. debugPoolAllocation' \in BOOLEAN /\ debugMissingPools' \in BOOLEAN
    BY <1>1 DEF PoolInv, Types, options
  <2> QED
    BY <1>1, <2>1, <2>3, <2>4, NothingLeftNext DEF AllReleased
<1> QED
  BY <1>3, <1>4

-----------------------------------------------------------------------------
(* The theorems                                                            *)

\* Every step keeps the invariant.
LEMMA StepKeeps ==
  ASSUME PoolInv, [NextPool]_poolVars
  PROVE  PoolInv'
<1>1. CASE \E o \in Objects : Autorelease(o)
  BY <1>1, AutoreleaseKeeps
<1>2. CASE Push
  BY <1>2, PushKeeps
<1>3. CASE \E i \in DOMAIN tokens : Pop(i)
  BY <1>3, PopKeeps
<1>4. CASE ReleaseNext
  BY <1>4, ReleaseNextKeeps
<1>5. CASE DeallocReturns
  BY <1>5, DeallocReturnsKeeps
<1>6. CASE FinishPop
  BY <1>6, FinishPopKeeps
<1>7. CASE ThreadExit
  BY <1>7, ThreadExitKeeps
<1>8. CASE UNCHANGED poolVars
  BY <1>8 DEF poolVars, PoolInv, Types, Chain, Popping, Token, Bounded, KillsCold, UserRuns, Frame
<1> QED
  BY <1>1, <1>2, <1>3, <1>4, <1>5, <1>6, <1>7, <1>8 DEF NextPool

\* In every state the pages, the calls of pop on the stack and the tokens fit together, the
\* types of the variables included.
THEOREM PoolInvariant == SpecPool => []PoolInv
<1>1. InitPool => PoolInv
  BY NothingLeft DEF InitPool, AllReleased
<1>2. PoolInv /\ [NextPool]_poolVars => PoolInv'
  BY StepKeeps
<1> QED
  BY <1>1, <1>2, PTL DEF SpecPool

\* What the invariant says of the pages that are in use.
LEMMA KeptInState ==
  ASSUME PoolInv
  PROVE  PagesAreKept
<1>1. NothingInUseIsKilled
  <2>1. ASSUME NEW t \in Range(tokens)
        PROVE  /\ t.page <= Len(pages) /\ t.slot <= Len(pages[t.page])
               /\ pages[t.page][t.slot] = Sentinel
    <3>1. PICK i \in 1 .. Len(tokens) : tokens[i] = t
      BY RangeFacts DEF PoolInv, Types
    <3>2. /\ t.page \in 1 .. Len(pages) /\ t.slot \in 1 .. Len(pages[t.page])
          /\ pages[t.page][t.slot] = Sentinel
      BY <3>1, TokenFacts DEF Token
    <3> QED
      BY <3>2
  <2>2. ASSUME NEW f \in Range(frames)
        PROVE  f.page <= Len(pages)
    <3>1. PICK k \in 1 .. Len(frames) : frames[k] = f
      BY RangeFacts DEF PoolInv, Types
    <3>2. f.page \in 1 .. Len(pages)
      BY <3>1, PoppingFacts
    <3> QED
      BY <3>2
  <2> QED
    BY <2>1, <2>2 DEF NothingInUseIsKilled
<1>2. NoChainIsLost /\ OneSpare
  BY DEF PoolInv, Chain, NoChainIsLost, OneSpare
<1> QED
  BY <1>1, <1>2 DEF PagesAreKept

\* What kill and tls_dealloc do to the list of pages never hits a page that a token or a
\* pop in progress still refers to, at any depth of nesting, under any of the options.
THEOREM PagesStay == SpecPool => []PagesAreKept
BY PoolInvariant, KeptInState, PTL

\* In the fixme of releaseUntil, the `while' could be an `if' when DebugPoolAllocation is
\* off: of two pages in a row on the way down, one has a pointer.
LEMMA NoTwoEmpty ==
  ASSUME PoolInv
  PROVE  WhileCouldBeIf
<1> SUFFICES ASSUME ~debugPoolAllocation, frames # <<>>, ~Frame.dealloc, Remaining
             PROVE  pages[hot] # <<>> \/ pages[hot - 1] # <<>>
  BY DEF WhileCouldBeIf
<1> DEFINE F == Frame
<1>1. /\ Len(frames) \in 1 .. Len(frames) /\ F = frames[Len(frames)] /\ hot \in Nat
      /\ hot <= Len(pages) /\ Len(pages) \in Nat
  BY TypeFacts
<1>2. /\ F.page \in 1 .. hot /\ F.stop >= 1 /\ Len(pages[F.page]) + 1 >= F.stop
      /\ F.page \in 1 .. Len(pages) /\ F.stop \in Nat /\ Len(pages[F.page]) \in Nat
  BY <1>1, PoppingFacts DEF Popping
<1>3. CASE hot >= 2
  <2>1. hot - 1 \in 1 .. hot - 1
    BY <1>1, <1>3
  <2> QED
    BY <2>1 DEF PoolInv, Chain
<1>4. CASE hot < 2
  <2>1. F.page = 1 /\ hot = 1
    BY <1>1, <1>2, <1>4
  <2>2. Len(pages[F.page]) # 0
    BY <1>2 DEF Remaining
  <2> QED
    BY <1>2, <2>1, <2>2, TypeFacts
<1> QED
  BY <1>1, <1>3, <1>4

\* See NoTwoEmpty.
THEOREM TheWhileIsAnIf == SpecPool => []WhileCouldBeIf
BY PoolInvariant, NoTwoEmpty, PTL

-----------------------------------------------------------------------------
(* The pages as a stack                                                    *)

\* What the calls of pop go down to, and the pointers above it.
Pops == [k \in DOMAIN frames |-> Position(frames[k].page, frames[k].stop)]

\* See ConcatAppend.
LEMMA ConcatFront ==
  ASSUME NEW E, NEW a \in Seq(E), NEW b \in Seq(E), b # <<>>
  PROVE  a \o Front(b) = Front(a \o b)
<1>1. Len(a) \in Nat /\ Len(b) \in Nat
  BY LenProperties
<1>2. /\ a \o b \in Seq(E) /\ Len(a \o b) = Len(a) + Len(b)
      /\ \A i \in 1 .. Len(a) + Len(b) :
           (a \o b)[i] = IF i <= Len(a) THEN a[i] ELSE b[i - Len(a)]
  BY ConcatProperties
<1>3. /\ Len(b) >= 1 /\ Front(b) \in Seq(E) /\ Len(Front(b)) = Len(b) - 1
      /\ \A i \in 1 .. Len(b) - 1 : Front(b)[i] = b[i]
  BY FrontFacts
<1>4. a \o b # <<>>
  BY <1>1, <1>2, <1>3, EmptySeq
<1>5. PICK c, d : c = a \o b /\ d = Front(b)
  OBVIOUS
<1>6. /\ Front(c) \in Seq(E) /\ Len(Front(c)) = Len(c) - 1
      /\ \A i \in 1 .. Len(c) - 1 : Front(c)[i] = c[i]
  BY <1>2, <1>4, <1>5, FrontFacts
<1>7. /\ a \o d \in Seq(E) /\ Len(a \o d) = Len(a) + Len(d)
      /\ \A i \in 1 .. Len(a) + Len(d) :
           (a \o d)[i] = IF i <= Len(a) THEN a[i] ELSE d[i - Len(a)]
  BY <1>3, <1>5, ConcatProperties
<1>8. Len(a \o d) = Len(Front(c)) /\ Len(a) + Len(d) = Len(c) - 1
  <2>1. PICK m, n : m = Len(a) /\ n = Len(b)
    OBVIOUS
  <2>2. m \in Nat /\ n \in Nat /\ Len(c) = m + n /\ Len(d) = n - 1
    BY <1>1, <1>2, <1>3, <1>5, <2>1
  <2>3. Len(a \o d) = m + Len(d) /\ Len(Front(c)) = Len(c) - 1
    BY <1>6, <1>7, <2>1
  <2> QED
    BY <2>1, <2>2, <2>3
<1>9. ASSUME NEW i \in 1 .. Len(c) - 1
      PROVE  (a \o d)[i] = Front(c)[i]
  <2>1. PICK m, n : m = Len(a) /\ n = Len(b)
    OBVIOUS
  <2>2. m \in Nat /\ n \in Nat /\ n >= 1 /\ Len(c) = m + n /\ Len(d) = n - 1
    BY <1>1, <1>2, <1>3, <1>5, <2>1
  <2>3. i \in 1 .. m + n /\ i \in 1 .. m + Len(d) /\ i \in Nat
    BY <2>2
  <2>4. Front(c)[i] = IF i <= m THEN a[i] ELSE b[i - m]
    BY <1>2, <1>5, <1>6, <2>1, <2>3
  <2>5. (a \o d)[i] = IF i <= m THEN a[i] ELSE d[i - m]
    BY <1>7, <2>1, <2>3
  <2>6. i > m => i - m \in 1 .. n - 1
    BY <2>2, <2>3
  <2>7. i > m => d[i - m] = b[i - m]
    BY <1>3, <1>5, <2>1, <2>6
  <2>8. i <= m \/ i > m
    BY <2>2, <2>3
  <2> QED
    BY <2>4, <2>5, <2>7, <2>8
<1>10. a \o d = Front(c)
  BY <1>6, <1>7, <1>8, <1>9, SeqEqual
<1> QED
  BY <1>4, <1>5, <1>10

\* No page holds nothing, and one page what it holds.
LEMMA FlattenFew ==
  /\ FlattenSeq(<<>>) = <<>>
  /\ \A x \in Seq(Entry) : FlattenSeq(<<x>>) = x
<1>1. FlattenSeq(<<>>) = <<>>
  BY DEF FlattenSeq
<1>2. ASSUME NEW x \in Seq(Entry)
      PROVE  FlattenSeq(<<x>>) = x
  <2>1. PICK s : s = <<x>>
    OBVIOUS
  <2>2. s \in Seq(Seq(Entry)) /\ Len(s) = 1 /\ s[1] = x /\ 1 \in 1 .. Len(s) /\ 1 - 1 = 0
    BY <2>1
  <2>3. Upto(s, 0) = <<>> /\ Upto(s, 1) = Upto(s, 0) \o s[1]
    BY <2>2, UptoNext
  <2>4. <<>> \o x = x
    BY ConcatEmptySeq
  <2> QED
    BY <2>1, <2>2, <2>3, <2>4, Flat
<1> QED
  BY <1>1, <1>2

\* The pages flattened, and the place of a page in them.
LEMMA EntriesFacts ==
  ASSUME PoolInv
  PROVE  /\ pages \in Seq(Seq(Entry)) /\ Len(pages) \in Nat
         /\ Entries = Upto(pages, Len(pages)) /\ Entries \in Seq(Entry) /\ Len(Entries) \in Nat
         /\ \A q \in 0 .. Len(pages) : Upto(pages, q) \in Seq(Entry) /\ Len(Upto(pages, q)) \in Nat
         /\ \A q \in 1 .. Len(pages) :
              /\ Upto(pages, q) = Upto(pages, q - 1) \o pages[q]
              /\ Len(Upto(pages, q)) = Len(Upto(pages, q - 1)) + Len(pages[q])
         /\ \A q \in 0 .. Len(pages) :
              (\A i \in q + 1 .. Len(pages) : pages[i] = <<>>) => Entries = Upto(pages, q)
<1>1. PICK s : s = pages
  OBVIOUS
<1>2. s \in Seq(Seq(Entry)) /\ Entries = FlattenSeq(s)
  BY <1>1 DEF PoolInv, Types, Entries
<1>3. /\ Len(s) \in Nat /\ FlattenSeq(s) = Upto(s, Len(s))
      /\ \A q \in 0 .. Len(s) : Upto(s, q) \in Seq(Entry) /\ Len(Upto(s, q)) \in Nat
      /\ \A q \in 1 .. Len(s) : s[q] \in Seq(Entry) /\ Upto(s, q) = Upto(s, q - 1) \o s[q]
      /\ \A q \in 0 .. Len(s) :
           (\A i \in q + 1 .. Len(s) : s[i] = <<>>) => FlattenSeq(s) = Upto(s, q)
  BY <1>2, Flat
<1>4. ASSUME NEW q \in 1 .. Len(s)
      PROVE  Len(Upto(s, q)) = Len(Upto(s, q - 1)) + Len(s[q])
  <2>1. q - 1 \in 0 .. Len(s)
    BY <1>3
  <2> QED
    BY <1>3, <2>1, ConcatProperties
<1>5. Len(s) \in 0 .. Len(s)
  BY <1>3
<1> QED
  BY <1>1, <1>2, <1>3, <1>4, <1>5

\* Where the pointers are: each at its position.
LEMMA AtPosition ==
  ASSUME PoolInv, NEW q \in 1 .. Len(pages), NEW s \in 1 .. Len(pages[q])
  PROVE  /\ Position(q, s) \in 1 .. Len(Entries)
         /\ Entries[Position(q, s)] = pages[q][s]
<1>1. PICK u, v, e : u = Upto(pages, q - 1) /\ v = Upto(pages, q) /\ e = pages[q]
  OBVIOUS
<1>2. /\ u \in Seq(Entry) /\ v = u \o e /\ e \in Seq(Entry) /\ Len(u) \in Nat /\ Len(e) \in Nat
      /\ Len(v) = Len(u) + Len(e) /\ s \in 1 .. Len(e) /\ Position(q, s) = Len(u) + s
  <2>1. q - 1 \in 0 .. Len(pages)
    BY EntriesFacts
  <2> QED
    BY <1>1, <2>1, EntriesFacts, TypeFacts DEF Position, Upto
<1>3. Len(u) + s \in 1 .. Len(v) /\ v[Len(u) + s] = e[s]
  BY <1>2, ConcatProperties
<1>4. /\ Len(v) <= Len(Entries)
      /\ \A i \in 1 .. Len(v) : Entries[i] = v[i]
  <2>1. PICK n : n = Len(pages) /\ n \in Nat
    BY EntriesFacts
  <2>2. n \in 0 .. Len(pages) /\ q \in 0 .. n
    BY <2>1
  <2>3. /\ Len(Upto(pages, q)) <= Len(Upto(pages, n))
        /\ \A i \in 1 .. Len(Upto(pages, q)) : Upto(pages, n)[i] = Upto(pages, q)[i]
    BY <2>2, EntriesFacts, UptoGrows
  <2> QED
    BY <1>1, <2>1, <2>3, EntriesFacts
<1>5. Len(Entries) \in Nat
  BY EntriesFacts
<1>6. PICK n : n = Position(q, s) /\ n = Len(u) + s
  BY <1>2
<1>7. n \in 1 .. Len(v) /\ v[n] = e[s]
  BY <1>3, <1>6
<1>8. n \in 1 .. Len(Entries) /\ Entries[n] = v[n]
  <2>1. PICK x : x = Entries
    OBVIOUS
  <2>2. Len(v) <= Len(x) /\ Len(x) \in Nat /\ Len(v) \in Nat /\ x[n] = v[n]
    BY <1>2, <1>4, <1>5, <1>7, <2>1
  <2>3. n \in 1 .. Len(x)
    BY <1>7, <2>2
  <2> QED
    BY <2>1, <2>2, <2>3
<1> QED
  BY <1>1, <1>6, <1>7, <1>8

\* Positions are in the order of pages and slots.
LEMMA PositionOrder ==
  ASSUME PoolInv, NEW q \in 1 .. Len(pages), NEW s \in Nat, NEW p \in 1 .. Len(pages), NEW r \in Nat,
         s <= Len(pages[q]) + 1, r >= 1, NotAbove(q, s, p, r)
  PROVE  /\ Position(q, s) \in Nat /\ Position(p, r) \in Nat
         /\ Position(q, s) <= Position(p, r)
<1>1. Len(pages) \in Nat /\ q - 1 \in 0 .. Len(pages) /\ p - 1 \in 0 .. Len(pages)
  <2>1. Len(pages) \in Nat
    BY EntriesFacts
  <2> QED
    BY <2>1
<1>2. PICK a, b, c, d : /\ a = Len(Upto(pages, q - 1)) /\ b = Len(Upto(pages, p - 1))
                        /\ c = Len(Upto(pages, q)) /\ d = Len(pages[q])
  OBVIOUS
<1>3. /\ a \in Nat /\ b \in Nat /\ c \in Nat /\ d \in Nat /\ c = a + d /\ s <= d + 1
      /\ Position(q, s) = a + s /\ Position(p, r) = b + r
  <2>1. Position(q, s) = a + s /\ Position(p, r) = b + r
    BY <1>2 DEF Position, Upto
  <2>2. a \in Nat /\ b \in Nat /\ d \in Nat /\ c = a + d
    BY <1>1, <1>2, EntriesFacts, TypeFacts
  <2>3. c \in Nat
    BY <2>2
  <2>4. s <= d + 1
    BY <1>2
  <2> QED
    BY <2>1, <2>2, <2>3, <2>4, Zenon
<1>4. CASE q < p
  <2>1. q \in 0 .. p - 1
    BY <1>1, <1>4
  <2>2. c <= b
    BY <1>1, <1>2, <2>1, EntriesFacts, UptoGrows
  <2> QED
    BY <1>3, <2>2
<1>5. CASE q = p /\ s <= r
  BY <1>2, <1>3, <1>5
<1> QED
  BY <1>4, <1>5 DEF NotAbove

\* The pops in progress, and the last.
LEMMA PopsFacts ==
  ASSUME PoolInv
  PROVE  /\ DOMAIN frames = 1 .. Len(frames) /\ Len(frames) \in Nat
         /\ Pops = [k \in 1 .. Len(frames) |-> Position(frames[k].page, frames[k].stop)]
         /\ \A k \in 1 .. Len(frames) : Position(frames[k].page, frames[k].stop) \in Nat
         /\ Pops \in Seq(Nat) /\ Len(Pops) = Len(frames)
         /\ frames = <<>> <=> Pops = <<>>
         /\ frames # <<>> => Last(Pops) = Position(Frame.page, Frame.stop)
<1>1. Len(frames) \in Nat /\ frames \in Seq(PopCalls)
  BY TypeFacts DEF PoolInv, Types
<1>2. DOMAIN frames = 1 .. Len(frames)
  BY <1>1, LenProperties
<1>3. Pops = [k \in 1 .. Len(frames) |-> Position(frames[k].page, frames[k].stop)]
  BY <1>2 DEF Pops
<1>4. ASSUME NEW k \in 1 .. Len(frames)
      PROVE  Position(frames[k].page, frames[k].stop) \in Nat
  <2>1. frames[k].page \in 1 .. Len(pages) /\ frames[k].stop \in Nat
    BY PoppingFacts
  <2>2. frames[k].page - 1 \in 0 .. Len(pages)
    BY <2>1, EntriesFacts
  <2>3. Len(Upto(pages, frames[k].page - 1)) \in Nat
    BY <2>2, EntriesFacts
  <2> QED
    BY <2>1, <2>3 DEF Position, Upto
<1>5. Pops \in Seq(Nat) /\ Len(Pops) = Len(frames)
  <2>1. Pops \in [1 .. Len(frames) -> Nat]
    BY <1>3, <1>4
  <2> QED
    BY <1>1, <2>1, SeqDef, LenProperties
<1>6. frames = <<>> <=> Pops = <<>>
  BY <1>1, <1>5, EmptySeq
<1>7. frames # <<>> => Last(Pops) = Position(Frame.page, Frame.stop)
  BY <1>3, <1>5, TypeFacts DEF Last
<1> QED
  BY <1>1, <1>2, <1>3, <1>4, <1>5, <1>6, <1>7

\* What is added to a page is added to the pointers, above all calls of pop.
LEMMA AddedEntries ==
  ASSUME PoolInv, NEW e \in Entry, NEW p \in Nat, Added(p, e)
  PROVE  /\ Entries' = Append(Entries, e)
         /\ \A q \in 1 .. hot : Upto(pages', q - 1) = Upto(pages, q - 1)
<1>1. PICK s, t, h : s = pages /\ t = pages' /\ h = hot
  OBVIOUS
<1>2. /\ s \in Seq(Seq(Entry)) /\ t \in Seq(Seq(Entry)) /\ Len(s) \in Nat /\ Len(t) \in Nat
      /\ h \in Nat /\ h # 0 /\ h <= Len(s) /\ p \in {h, h + 1} /\ p \in 1 .. Len(t)
      /\ Len(t) = (IF p <= Len(s) THEN Len(s) ELSE p)
      /\ \A q \in 1 .. Len(t) : q # p => q <= Len(s) /\ t[q] = s[q]
      /\ Entries = FlattenSeq(s) /\ Entries' = FlattenSeq(t)
  <2>1. t \in Seq(Seq(Entry)) /\ Len(t) \in Nat
    BY <1>1, LenProperties DEF Added
  <2>2. s \in Seq(Seq(Entry)) /\ Entries = FlattenSeq(s) /\ Entries' = FlattenSeq(t)
    BY <1>1 DEF PoolInv, Types, Entries
  <2>3. h # 0 /\ p \in {h, h + 1} /\ p \in 1 .. Len(t)
        /\ Len(t) = (IF p <= Len(s) THEN Len(s) ELSE p)
        /\ \A q \in 1 .. Len(t) : q # p => q <= Len(s) /\ t[q] = s[q]
    BY <1>1 DEF Added
  <2> QED
    BY <1>1, <2>1, <2>2, <2>3, TypeFacts
<1>3. ASSUME NEW q \in 0 .. p - 1
      PROVE  Upto(t, q) = Upto(s, q)
  <2>1. q \in 0 .. Len(t) /\ q <= Len(s) /\ \A i \in 1 .. q : t[i] = s[i]
    BY <1>2
  <2> QED
    BY <1>2, <2>1, UptoSame
<1>4. FlattenSeq(t) = Upto(t, p) /\ Upto(t, p) = Upto(t, p - 1) \o t[p] /\ t[p] \in Seq(Entry)
  <2>1. \A i \in p + 1 .. Len(t) : t[i] = <<>>
    <3>1. \A i \in h + 1 .. Len(s) : s[i] = <<>>
      BY <1>1 DEF PoolInv, Chain
    <3> QED
      BY <1>2, <3>1
  <2>2. p \in 0 .. Len(t)
    BY <1>2
  <2> QED
    BY <1>2, <2>1, <2>2, Flat
<1>5. FlattenSeq(s) = Upto(s, h) /\ Upto(s, h) = Upto(s, h - 1) \o s[h]
      /\ s[h] \in Seq(Entry) /\ Upto(s, h) \in Seq(Entry) /\ Upto(s, h - 1) \in Seq(Entry)
  <2>1. \A i \in h + 1 .. Len(s) : s[i] = <<>>
    BY <1>1 DEF PoolInv, Chain
  <2>2. h \in 0 .. Len(s) /\ h \in 1 .. Len(s) /\ h - 1 \in 0 .. Len(s)
    BY <1>2
  <2> QED
    BY <1>2, <2>1, <2>2, Flat
<1>6. ASSUME p = h
      PROVE  Entries' = Append(Entries, e)
  <2>1. t[p] = Append(s[h], e)
    <3>1. PICK a, b : a = t[p] /\ b = s[h]
      OBVIOUS
    <3>2. /\ a \in Seq(Entry) /\ b \in Seq(Entry) /\ Len(b) \in Nat /\ Len(a) = Len(b) + 1
          /\ a[Len(a)] = e /\ \A i \in 1 .. Len(a) - 1 : a[i] = b[i]
      BY <1>1, <1>4, <1>5, <1>6, <3>1, LenProperties DEF Added
    <3>3. Append(b, e) \in Seq(Entry) /\ Len(Append(b, e)) = Len(b) + 1
          /\ \A i \in 1 .. Len(b) + 1 : Append(b, e)[i] = IF i <= Len(b) THEN b[i] ELSE e
      BY <3>2, AppendProperties
    <3>4. \A i \in 1 .. Len(a) : a[i] = Append(b, e)[i]
      BY <3>2, <3>3
    <3>5. a = Append(b, e)
      BY <3>2, <3>3, <3>4, SeqEqual
    <3> QED
      BY <3>1, <3>5
  <2>2. Upto(t, p - 1) = Upto(s, h - 1)
    BY <1>2, <1>3, <1>6
  <2>3. PICK u, b : u = Upto(s, h - 1) /\ b = s[h]
    OBVIOUS
  <2>4. u \o Append(b, e) = Append(u \o b, e)
    <3>1. u \in Seq(Entry) /\ b \in Seq(Entry)
      BY <1>5, <2>3
    <3> QED
      BY <3>1, ConcatAppend
  <2> QED
    BY <1>2, <1>4, <1>5, <2>1, <2>2, <2>3, <2>4
<1>7. ASSUME p # h
      PROVE  Entries' = Append(Entries, e)
  <2>1. p = h + 1 /\ p - 1 = h
    BY <1>2, <1>7
  <2>2. t[p] = <<e>>
    <3>1. PICK a : a = t[p]
      OBVIOUS
    <3>2. a \in Seq(Entry) /\ Len(a) = 1 /\ a[1] = e
      BY <1>1, <1>2, <1>4, <1>7, <3>1 DEF Added
    <3>3. <<e>> \in Seq(Entry) /\ Len(<<e>>) = 1 /\ <<e>>[1] = e
      OBVIOUS
    <3>4. \A i \in 1 .. Len(a) : a[i] = <<e>>[i]
      BY <3>2, <3>3
    <3>5. a = <<e>>
      BY <3>2, <3>3, <3>4, SeqEqual
    <3> QED
      BY <3>1, <3>5
  <2>3. Upto(t, p - 1) = Upto(s, h)
    BY <1>2, <1>3, <2>1
  <2>4. PICK u : u = Upto(s, h)
    OBVIOUS
  <2>5. u \o <<e>> = Append(u, e)
    BY <1>5, <2>4, ConcatAppend
  <2> QED
    BY <1>2, <1>4, <1>5, <2>2, <2>3, <2>4, <2>5
<1>8. \A q \in 1 .. h : q - 1 \in 0 .. p - 1
  BY <1>2
<1> QED
  BY <1>1, <1>3, <1>6, <1>7, <1>8

\* What a turn of releaseUntil takes is the last pointer of all.
LEMMA TakenEntries ==
  ASSUME PoolInv, NEW h \in Nat, Taken(h)
  PROVE  /\ Entries' = Front(Entries)
         /\ \A q \in 1 .. h : Upto(pages', q - 1) = Upto(pages, q - 1)
<1>1. PICK s, t : s = pages /\ t = pages'
  OBVIOUS
<1>2. /\ s \in Seq(Seq(Entry)) /\ t \in Seq(Seq(Entry)) /\ Len(s) \in Nat
      /\ h \in 1 .. Len(s) /\ Len(t) = Len(s)
      /\ \A q \in 1 .. Len(t) : q # h => t[q] = s[q]
      /\ \A i \in h + 1 .. Len(s) : s[i] = <<>>
      /\ s[h] # <<>>
      /\ Entries = FlattenSeq(s) /\ Entries' = FlattenSeq(t)
  <2>1. t \in Seq(Seq(Entry)) /\ s[h] # <<>>
    BY <1>1 DEF Taken
  <2>2. s \in Seq(Seq(Entry)) /\ Entries = FlattenSeq(s) /\ Entries' = FlattenSeq(t)
    BY <1>1 DEF PoolInv, Types, Entries
  <2>3. Len(s) \in Nat /\ h \in 1 .. Len(s)
    <3>1. h \in 1 .. hot
      BY DEF Taken
    <3> QED
      BY <1>1, <3>1, TypeFacts
  <2>4. Len(t) = Len(s)
        /\ (\A q \in 1 .. Len(t) : q # h => t[q] = s[q])
        /\ (\A i \in h + 1 .. Len(s) : s[i] = <<>>)
    BY <1>1 DEF Taken
  <2> QED
    BY <2>1, <2>2, <2>3, <2>4
<1>3. ASSUME NEW q \in 0 .. h - 1
      PROVE  Upto(t, q) = Upto(s, q)
  <2>1. q \in 0 .. Len(t) /\ q <= Len(s) /\ \A i \in 1 .. q : t[i] = s[i]
    BY <1>2
  <2> QED
    BY <1>2, <2>1, UptoSame
<1>4. FlattenSeq(t) = Upto(t, h) /\ Upto(t, h) = Upto(t, h - 1) \o t[h] /\ t[h] \in Seq(Entry)
  <2>1. ASSUME NEW i \in h + 1 .. Len(t)
        PROVE  t[i] = <<>>
    <3>1. i \in 1 .. Len(t) /\ i # h /\ i \in h + 1 .. Len(s)
      BY <1>2
    <3> QED
      BY <1>2, <3>1
  <2>2. h \in 0 .. Len(t) /\ h \in 1 .. Len(t)
    BY <1>2
  <2> QED
    BY <1>2, <2>1, <2>2, Flat
<1>5. FlattenSeq(s) = Upto(s, h) /\ Upto(s, h) = Upto(s, h - 1) \o s[h]
      /\ s[h] \in Seq(Entry) /\ Upto(s, h - 1) \in Seq(Entry)
  <2>1. h \in 0 .. Len(s) /\ h - 1 \in 0 .. Len(s)
    BY <1>2
  <2> QED
    BY <1>2, <2>1, Flat
<1>6. t[h] = Front(s[h])
  <2>1. PICK a, b : a = t[h] /\ b = s[h]
    OBVIOUS
  <2>2. /\ a \in Seq(Entry) /\ b \in Seq(Entry) /\ b # <<>> /\ Len(a) = Len(b) - 1
        /\ \A i \in 1 .. Len(b) - 1 : a[i] = b[i]
    BY <1>1, <1>2, <1>4, <1>5, <2>1 DEF Taken
  <2>3. /\ Front(b) \in Seq(Entry) /\ Len(Front(b)) = Len(b) - 1
        /\ \A i \in 1 .. Len(b) - 1 : Front(b)[i] = b[i]
    BY <2>2, FrontFacts
  <2>4. a = Front(b)
    BY <2>2, <2>3, SeqEqual
  <2> QED
    BY <2>1, <2>4
<1>7. Upto(t, h - 1) = Upto(s, h - 1)
  BY <1>2, <1>3
<1>8. Upto(s, h - 1) \o Front(s[h]) = Front(Upto(s, h - 1) \o s[h])
  <2>1. PICK u, b : u = Upto(s, h - 1) /\ b = s[h]
    OBVIOUS
  <2>2. u \in Seq(Entry) /\ b \in Seq(Entry) /\ b # <<>>
    BY <1>2, <1>5, <2>1
  <2>3. u \o Front(b) = Front(u \o b)
    BY <2>2, ConcatFront
  <2> QED
    BY <2>1, <2>3
<1>9. Entries' = Front(Entries)
  BY <1>2, <1>4, <1>5, <1>6, <1>7, <1>8
<1>10. \A q \in 1 .. h : q - 1 \in 0 .. h - 1
  BY <1>2
<1> QED
  BY <1>1, <1>3, <1>9, <1>10

\* The pops in progress go down to the same positions when their boundaries stay, and the
\* pages below them.
LEMMA SamePops ==
  ASSUME PoolInv, frames' \in Seq(PopCalls), Len(frames') = Len(frames),
         \A k \in 1 .. Len(frames) :
           /\ frames'[k].page = frames[k].page /\ frames'[k].stop = frames[k].stop
           /\ Upto(pages', frames[k].page - 1) = Upto(pages, frames[k].page - 1)
  PROVE  Pops' = Pops
<1>1. DOMAIN frames = 1 .. Len(frames) /\ DOMAIN frames' = 1 .. Len(frames)
  BY PopsFacts, LenProperties
<1>2. ASSUME NEW k \in 1 .. Len(frames)
      PROVE  Position(frames[k].page, frames[k].stop)' = Position(frames[k].page, frames[k].stop)
  BY DEF Position, Upto
<1> QED
  BY <1>1, <1>2 DEF Pops

\* An addition, in terms of the stack.
LEMMA AddedMaps ==
  ASSUME PoolInv, NEW e \in Entry, NEW p \in Nat, Added(p, e), UNCHANGED frames
  PROVE  Entries' = Append(Entries, e) /\ Pops' = Pops
<1>1. \A q \in 1 .. hot : Upto(pages', q - 1) = Upto(pages, q - 1)
  BY AddedEntries
<1>2. \A k \in 1 .. Len(frames) : frames[k].page \in 1 .. hot
  BY PoppingFacts DEF Popping
<1>3. frames' \in Seq(PopCalls)
  BY DEF PoolInv, Types
<1>4. Pops' = Pops
  BY <1>1, <1>2, <1>3, SamePops
<1> QED
  BY <1>4, AddedEntries

\* The ends of a sequence are the same in PoolStack.
LEMMA StackEnds == \A x : Stack!Last(x) = Last(x) /\ Stack!Front(x) = Front(x)
BY DEF Stack!Last, Last, Stack!Front, Front

\* An object autoreleased is the next pointer, or opens a pool of its own.
LEMMA AutoreleaseMaps ==
  ASSUME PoolInv, NEW o \in Objects, Autorelease(o)
  PROVE  Stack!Autorelease(o)
<1>1. CASE AutoreleaseOnPage(o, FALSE)
  <2>1. o \in Entry /\ FALSE \in BOOLEAN
    BY DEF Entry
  <2>2. PICK p \in Nat : Added(p, o)
    BY <1>1, <2>1, OnPageAdds
  <2>3. Entries' = Append(Entries, o) /\ Pops' = Pops
    BY <2>1, <2>2, AddedMaps DEF Autorelease
  <2> QED
    BY <2>3 DEF Stack!Autorelease, Pops
<1>2. CASE AutoreleaseNoPage(o)
  <2>1. pages = <<>> /\ pages' = << <<Sentinel, o>> >> /\ frames = <<>> /\ frames' = <<>>
    <3>1. o # Sentinel /\ o \in Entry
      BY PoolAssumption DEF Entry
    <3>2. hot = 0 /\ pages' = << <<Sentinel, o>> >>
      BY <1>2, <3>1 DEF AutoreleaseNoPage
    <3> QED
      BY <1>2, <3>1, <3>2, NoPageAdds DEF PoolInv, Chain, Autorelease
  <2>2. Entries = <<>> /\ Entries' = <<Sentinel, o>>
    <3>1. <<Sentinel, o>> \in Seq(Entry)
      BY DEF Entry
    <3>2. PICK x : x = <<Sentinel, o>>
      OBVIOUS
    <3>3. x \in Seq(Entry)
      BY <3>1, <3>2
    <3>4. FlattenSeq(<<x>>) = x
      BY <3>3, FlattenFew
    <3>5. Entries = FlattenSeq(<<>>) /\ Entries' = FlattenSeq(<<x>>)
      BY <2>1, <3>2 DEF Entries
    <3> QED
      BY <3>2, <3>4, <3>5, FlattenFew
  <2>3. Pops' = Pops
    BY <2>1 DEF Pops
  <2> QED
    BY <2>2, <2>3 DEF Stack!Autorelease, Pops
<1> QED
  BY <1>1, <1>2 DEF Autorelease

\* A boundary is pushed.
LEMMA PushMaps ==
  ASSUME PoolInv, Push
  PROVE  Stack!Push
<1>1. Sentinel \in Entry /\ UNCHANGED <<options, frames>>
  BY DEF Entry, Push
<1>2. CASE AutoreleaseOnPage(Sentinel, debugPoolAllocation)
  <2>1. debugPoolAllocation \in BOOLEAN
    BY DEF PoolInv, Types
  <2>2. PICK p \in Nat : Added(p, Sentinel)
    BY <1>1, <1>2, <2>1, OnPageAdds
  <2>3. Entries' = Append(Entries, Sentinel) /\ Pops' = Pops
    BY <1>1, <2>2, AddedMaps
  <2> QED
    BY <2>3 DEF Stack!Push, Pops
<1>3. CASE AutoreleaseNoPage(Sentinel)
  <2>1. pages = <<>> /\ pages' = << <<Sentinel>> >> /\ frames = <<>> /\ frames' = <<>>
    <3>1. hot = 0 /\ pages' = << <<Sentinel>> >>
      BY <1>3 DEF AutoreleaseNoPage
    <3> QED
      BY <1>1, <1>3, <3>1, NoPageAdds DEF PoolInv, Chain
  <2>2. Entries = <<>> /\ Entries' = <<Sentinel>>
    <3>1. PICK x : x = <<Sentinel>>
      OBVIOUS
    <3>2. x \in Seq(Entry)
      BY <1>1, <3>1
    <3>3. FlattenSeq(<<x>>) = x
      BY <3>2, FlattenFew
    <3>4. Entries = FlattenSeq(<<>>) /\ Entries' = FlattenSeq(<<x>>)
      BY <2>1, <3>1 DEF Entries
    <3> QED
      BY <3>1, <3>3, <3>4, FlattenFew
  <2>3. Pops' = Pops
    BY <2>1 DEF Pops
  <2>4. Append(<<>>, Sentinel) = <<Sentinel>>
    OBVIOUS
  <2> QED
    BY <2>2, <2>3, <2>4 DEF Stack!Push, Pops
<1> QED
  BY <1>2, <1>3 DEF Push

\* A call of pop goes down to the position of its token.
LEMMA NewPop ==
  ASSUME PoolInv, UNCHANGED pages, NEW p \in Nat, NEW r \in Nat, NEW exit \in BOOLEAN,
         frames' = Append(frames, NewFrame(p, r, exit)), Position(p, r) \in Nat
  PROVE  Pops' = Append(Pops, Position(p, r))
<1>1. PICK n, place : n = Len(frames) /\ place = Position(p, r)
  OBVIOUS
<1>2. /\ n \in Nat /\ place \in Nat /\ Pops \in Seq(Nat) /\ Len(Pops) = n
      /\ \A k \in 1 .. n : Pops[k] = Position(frames[k].page, frames[k].stop)
  BY <1>1, PopsFacts
<1>3. /\ Append(Pops, place) \in Seq(Nat) /\ Len(Append(Pops, place)) = n + 1
      /\ \A k \in 1 .. n + 1 : Append(Pops, place)[k] = IF k <= n THEN Pops[k] ELSE place
  <2>1. PICK q \in Seq(Nat) : q = Pops /\ Len(q) = n
    BY <1>2
  <2>2. PICK r2 : r2 = Append(q, place)
    OBVIOUS
  <2>3. /\ r2 \in Seq(Nat) /\ Len(r2) = n + 1 /\ r2[n + 1] = place
        /\ \A k \in 1 .. n : r2[k] = q[k]
    BY <1>2, <2>1, <2>2, AppendProperties
  <2>4. \A k \in 1 .. n + 1 : r2[k] = IF k <= n THEN q[k] ELSE place
    <3>1. n \in Nat
      BY <1>2
    <3>2. \A k \in 1 .. n + 1 : (k \in 1 .. n /\ k <= n) \/ (k = n + 1 /\ ~(k <= n))
      BY <3>1
    <3> QED
      BY <2>3, <3>2
  <2> QED
    BY <2>1, <2>2, <2>3, <2>4
<1>4. NewFrame(p, r, exit) \in PopCalls /\ frames \in Seq(PopCalls)
  BY DEF NewFrame, PopCalls, PoolInv, Types
<1>5. /\ Len(frames') = n + 1 /\ DOMAIN frames' = 1 .. n + 1
      /\ \A k \in 1 .. n : frames'[k] = frames[k]
      /\ frames'[n + 1] = NewFrame(p, r, exit)
  BY <1>1, <1>2, <1>4, AppendProperties, LenProperties
<1>6. Pops' = [k \in 1 .. n + 1 |-> IF k <= n THEN Pops[k] ELSE place]
  <2>1. Pops' = [k \in 1 .. n + 1 |-> Position(frames[k].page, frames[k].stop)']
    BY <1>5 DEF Pops
  <2>2. ASSUME NEW k \in 1 .. n + 1
        PROVE  Position(frames[k].page, frames[k].stop)' = IF k <= n THEN Pops[k] ELSE place
    <3>1. Position(frames[k].page, frames[k].stop)'
            = Len(Upto(pages, frames'[k].page - 1)) + frames'[k].stop
      BY DEF Position, Upto
    <3>2. CASE k <= n
      <4>1. k \in 1 .. n
        BY <1>2, <3>2
      <4> QED
        BY <1>2, <1>5, <3>1, <3>2, <4>1 DEF Position, Upto
    <3>3. CASE ~(k <= n)
      <4>1. k = n + 1
        BY <1>2, <3>3
      <4>2. frames'[k].page = p /\ frames'[k].stop = r
        BY <1>5, <4>1 DEF NewFrame
      <4> QED
        BY <1>1, <3>1, <3>3, <4>2 DEF Position, Upto
    <3> QED
      BY <3>2, <3>3
  <2> QED
    BY <2>1, <2>2
<1>7. Pops' = Append(Pops, place)
  <2>1. Append(Pops, place) = [k \in 1 .. n + 1 |-> Append(Pops, place)[k]]
    BY <1>3, LenProperties
  <2>2. [k \in 1 .. n + 1 |-> Append(Pops, place)[k]]
          = [k \in 1 .. n + 1 |-> IF k <= n THEN Pops[k] ELSE place]
    BY <1>3
  <2> QED
    BY <1>6, <2>1, <2>2, Zenon
<1> QED
  BY <1>1, <1>7

\* A pop begins at the boundary that its token names, above those in progress.
LEMMA PopMaps ==
  ASSUME PoolInv, NEW i \in DOMAIN tokens, Pop(i)
  PROVE  \E place \in DOMAIN Entries : Stack!BeginPop(place)
<1>1. i \in 1 .. Len(tokens)
  BY LenProperties DEF PoolInv, Types
<1>2. PICK t, place : t = tokens[i] /\ place = Position(t.page, t.slot)
  OBVIOUS
<1>3. /\ UserRuns /\ t.level = Len(frames) /\ UNCHANGED pages
      /\ frames' = Append(frames, NewFrame(t.page, t.slot, FALSE))
  BY <1>2 DEF Pop, Level
<1>4. /\ t.page \in 1 .. Len(pages) /\ t.slot \in 1 .. Len(pages[t.page])
      /\ t.page \in Nat /\ t.slot \in Nat /\ t.slot >= 1
      /\ pages[t.page][t.slot] = Sentinel
  <2>1. /\ t.page \in 1 .. Len(pages) /\ t.slot \in 1 .. Len(pages[t.page])
        /\ pages[t.page][t.slot] = Sentinel
    BY <1>1, <1>2, TokenFacts DEF Token
  <2> QED
    BY <1>1, <1>2, <2>1, TokenFacts
<1>5. place \in 1 .. Len(Entries) /\ Entries[place] = Sentinel
  BY <1>2, <1>4, AtPosition
<1>6. DOMAIN Entries = 1 .. Len(Entries) /\ place \in Nat
  BY <1>5, EntriesFacts, LenProperties
<1>7. Pops # <<>> => place >= Last(Pops)
  <2> SUFFICES ASSUME Pops # <<>>
               PROVE  place >= Last(Pops)
    OBVIOUS
  <2>1. PICK f : f = Frame
    OBVIOUS
  <2>2. frames # <<>> /\ Last(Pops) = Position(f.page, f.stop)
    BY <2>1, PopsFacts
  <2>3. Len(frames) \in 1 .. Len(frames) /\ f = frames[Len(frames)]
    BY <2>1, <2>2, TypeFacts
  <2>4. /\ f.page \in 1 .. Len(pages) /\ f.stop \in Nat
        /\ f.stop <= Len(pages[f.page]) + 1
    BY <2>3, PoppingFacts DEF Popping
  <2>5. NotAbove(f.page, f.stop, t.page, t.slot)
    <3>1. Token(i) /\ t.level >= Len(frames)
      BY <1>1, <1>3, TokenFacts, TypeFacts
    <3> QED
      BY <1>2, <2>3, <3>1 DEF Token
  <2>6. /\ Position(f.page, f.stop) \in Nat /\ Position(t.page, t.slot) \in Nat
        /\ Position(f.page, f.stop) <= Position(t.page, t.slot)
    BY <1>4, <2>4, <2>5, PositionOrder
  <2> QED
    BY <1>2, <2>2, <2>6
<1>8. Pops' = Append(Pops, place)
  BY <1>2, <1>3, <1>4, <1>6, NewPop
<1>9. Entries' = Entries
  BY <1>3 DEF Entries
<1>10. Stack!BeginPop(place)
  BY <1>5, <1>7, <1>8, <1>9, StackEnds DEF Stack!BeginPop, Pops
<1> QED
  BY <1>5, <1>6, <1>10

\* A turn of releaseUntil releases the hottest pointer, which the innermost pop is to release.
LEMMA ReleaseMaps ==
  ASSUME PoolInv, ReleaseNext
  PROVE  Stack!ReleaseHottest
<1>1. PICK h \in Nat : Taken(h)
  BY ReleaseTakes
<1>2. UNCHANGED options
  BY DEF ReleaseNext
<1>3. /\ Entries' = Front(Entries)
      /\ \A q \in 1 .. h : Upto(pages', q - 1) = Upto(pages, q - 1)
  BY <1>1, TakenEntries
<1>4. PICK f, n : f = Frame /\ n = Len(frames)
  OBVIOUS
<1>5. /\ frames # <<>> /\ n \in 1 .. n /\ n \in Nat /\ f = frames[n] /\ f.page <= h /\ Popping(n)
      /\ f.page \in 1 .. Len(pages) /\ f.stop \in 1 .. Len(pages[f.page])
  <2>1. frames # <<>> /\ f.page <= h /\ Len(pages[f.page]) >= f.stop
    BY <1>1, <1>4 DEF Taken
  <2>2. n \in 1 .. n /\ n \in Nat /\ f = frames[n]
    BY <1>4, <2>1, TypeFacts
  <2>3. /\ Popping(n) /\ f.page \in 1 .. Len(pages) /\ f.stop \in Nat /\ f.stop >= 1
        /\ Len(pages[f.page]) \in Nat
    BY <1>4, <2>2, PoppingFacts DEF Popping
  <2> QED
    BY <2>1, <2>2, <2>3
<1>6. Pops' = Pops
  <2>1. ASSUME NEW k \in 1 .. n
        PROVE  frames[k].page \in 1 .. h
    <3>1. frames[k].page \in Nat /\ frames[k].page >= 1 /\ f.page \in Nat
      BY <1>4, <1>5, PoppingFacts
    <3>2. k = n \/ NotAbove(frames[k].page, frames[k].stop, f.page, f.stop)
      <4>1. k = n \/ k \in 1 .. n - 1
        BY <1>5
      <4> QED
        BY <1>5, <4>1 DEF Popping
    <3> QED
      BY <1>5, <3>1, <3>2 DEF NotAbove
  <2>2. frames' \in Seq(PopCalls) /\ Len(frames') = Len(frames)
    BY <1>1 DEF Taken
  <2> QED
    BY <1>1, <1>2, <1>3, <1>4, <2>1, <2>2, TakenCalls, SamePops
<1>7. Pops # <<>> /\ Last(Pops) \in 1 .. Len(Entries)
  BY <1>4, <1>5, AtPosition, PopsFacts
<1>8. Len(Entries) >= Last(Pops)
  BY <1>7, EntriesFacts
<1> QED
  BY <1>3, <1>6, <1>7, <1>8, StackEnds DEF Stack!ReleaseHottest, Pops

\* FinishPop runs when the innermost call has released everything.
LEMMA FinishReleased ==
  ASSUME PoolInv, FinishPop
  PROVE  Released
<1>1. frames # <<>> /\ ~Frame.dealloc /\ Len(pages[Frame.page]) = Frame.stop - 1
  BY DEF FinishPop, UserRuns, Remaining
<1>2. Frame = frames[Len(frames)] /\ Len(frames) \in 1 .. Len(frames)
  BY <1>1, TypeFacts
<1>3. Frame.stop \in Nat /\ Len(pages[Frame.page]) \in Nat
  BY <1>2, PoppingFacts
<1> QED
  BY <1>1, <1>3 DEF Released

\* A pop that is done leaves only empty pages above its boundary, and kills no others.
LEMMA FinishMaps ==
  ASSUME PoolInv, FinishPop
  PROVE  Stack!EndPop
<1>1. PICK f, n, p : f = Frame /\ n = Len(frames) /\ p = Frame.page
  OBVIOUS
<1>2. Released
  BY FinishReleased
<1>3. /\ frames # <<>> /\ n \in 1 .. n /\ n \in Nat /\ f = frames[n] /\ p = f.page
      /\ p \in 1 .. Len(pages) /\ f.stop \in Nat /\ Len(pages[p]) + 1 = f.stop
      /\ \A q \in p + 1 .. Len(pages) : pages[q] = <<>>
      /\ \A k \in 1 .. n - 1 : frames[k].page <= p
      /\ Len(pages[p]) \in Nat /\ Len(pages) \in Nat /\ frames \in Seq(PopCalls)
      /\ Popping(n)
  <2>1. frames # <<>> /\ Len(pages[p]) + 1 = f.stop
    BY <1>1, <1>2 DEF Released
  <2>2. n \in 1 .. n /\ n \in Nat /\ f = frames[n] /\ p = f.page
    BY <1>1, <2>1, TypeFacts
  <2> QED
    BY <1>1, <1>2, <2>1, <2>2, BelowReleased, PoppingFacts, EntriesFacts DEF PoolInv, Types
<1>4. PICK m \in 0 .. Len(pages) :
        /\ pages' = SubSeq(pages, 1, m) /\ frames' = Front(frames)
        /\ \A q \in m + 1 .. Len(pages) : pages[q] = <<>>
        /\ m >= p - 1 \/ n = 1
  <2>1. /\ Kept(p) \in 0 .. Len(pages)
        /\ \/ Kept(p) = p - 1 /\ pages[p] = <<>> /\ KillsCold
           \/ Kept(p) \in {p, p + 1}
    BY <1>3, KeptFacts
  <2>2. Kept(p) >= p - 1 /\ Kept(p) \in Nat /\ p \in Nat
    BY <1>3, <2>1
  <2>3. ASSUME NEW q \in Kept(p) + 1 .. Len(pages)
        PROVE  pages[q] = <<>>
    <3>1. (q = p /\ Kept(p) = p - 1) \/ q \in p + 1 .. Len(pages)
      BY <1>3, <2>1, <2>2
    <3> QED
      BY <1>3, <2>1, <2>2, <3>1
  <2>4. frames' = Front(frames)
    BY DEF FinishPop
  <2>5. CASE ~f.exit
    <3>1. pages' = SubSeq(pages, 1, Kept(p))
      BY <1>1, <2>5 DEF FinishPop
    <3> QED
      BY <2>1, <2>2, <2>3, <2>4, <3>1
  <2>6. CASE f.exit
    <3>1. pages' = SubSeq(pages, 1, KeptAtExit(Kept(p)))
      BY <1>1, <2>6 DEF FinishPop
    <3>2. n = 1 /\ p = 1 /\ f.stop = 1
      BY <1>3, <2>6 DEF Popping
    <3>3. \A q \in 0 + 1 .. Len(pages) : pages[q] = <<>>
      <4>1. pages[1] = <<>>
        BY <1>3, <3>2, TypeFacts
      <4>2. ASSUME NEW q \in 0 + 1 .. Len(pages)
            PROVE  q = 1 \/ q \in 1 + 1 .. Len(pages)
        BY <1>3
      <4> QED
        BY <1>3, <3>2, <4>1, <4>2
    <3>4. KeptAtExit(Kept(p)) \in {0, Kept(p)} /\ 0 \in 0 .. Len(pages)
      BY <1>3 DEF KeptAtExit
    <3>5. CASE KeptAtExit(Kept(p)) = 0
      BY <2>4, <3>1, <3>2, <3>3, <3>4, <3>5
    <3>6. CASE KeptAtExit(Kept(p)) = Kept(p)
      BY <2>1, <2>2, <2>3, <2>4, <3>1, <3>6
    <3> QED
      BY <3>4, <3>5, <3>6
  <2> QED
    BY <2>5, <2>6
<1>5. Entries' = Entries
  <2>1. Entries' = Upto(pages, m)
    BY <1>4 DEF Entries, Upto
  <2> QED
    BY <1>4, <2>1, EntriesFacts
<1>6. Len(Entries) = Last(Pops) - 1
  <2>1. PICK u, d : u = Len(Upto(pages, p - 1)) /\ d = Len(pages[p])
    OBVIOUS
  <2>2. Entries = Upto(pages, p) /\ Len(Entries) = u + d /\ u \in Nat
    <3>1. p \in 0 .. Len(pages) /\ p - 1 \in 0 .. Len(pages)
      <4>1. Len(pages) \in Nat /\ p \in 1 .. Len(pages)
        BY <1>3
      <4> QED
        BY <4>1
    <3>2. Entries = Upto(pages, p)
      BY <1>3, <3>1, EntriesFacts
    <3> QED
      BY <1>3, <2>1, <3>1, <3>2, EntriesFacts
  <2>3. Last(Pops) = u + f.stop
    BY <1>1, <1>3, <2>1, PopsFacts DEF Position, Upto
  <2> QED
    <3>1. PICK l : l = Last(Pops)
      OBVIOUS
    <3>2. d \in Nat /\ u \in Nat /\ f.stop \in Nat /\ d + 1 = f.stop /\ l = u + f.stop
      BY <1>3, <2>1, <2>2, <2>3, <3>1
    <3>3. Len(Entries) = l - 1
      BY <2>2, <3>2
    <3> QED
      BY <3>1, <3>3
<1>7. Pops' = Front(Pops)
  <2>1. /\ Len(frames') = n - 1 /\ DOMAIN frames' = 1 .. n - 1
        /\ \A k \in 1 .. n - 1 : frames'[k] = frames[k]
    BY <1>1, <1>3, <1>4, FrontFacts, LenProperties
  <2>2. ASSUME NEW k \in 1 .. n - 1
        PROVE  Upto(pages', frames[k].page - 1) = Upto(pages, frames[k].page - 1)
    <3>1. PICK s, t, q : s = pages /\ t = pages' /\ q = frames[k].page - 1
      OBVIOUS
    <3>2. q \in Nat /\ q <= m
      <4>1. k \in 1 .. n /\ n # 1
        BY <1>3
      <4>2. frames[k].page \in Nat /\ frames[k].page >= 1 /\ frames[k].page <= p
        BY <1>1, <1>3, <4>1, PoppingFacts
      <4>3. PICK r : r = frames[k].page
        OBVIOUS
      <4>4. r \in Nat /\ r >= 1 /\ r <= p /\ q = r - 1 /\ p \in Nat
        BY <1>3, <3>1, <4>2, <4>3
      <4>5. m >= p - 1 /\ m \in Nat
        BY <1>3, <1>4, <4>1
      <4> QED
        BY <4>4, <4>5
    <3>3. /\ s \in Seq(Seq(Entry)) /\ t \in Seq(Seq(Entry)) /\ Len(t) = m
          /\ \A i \in 1 .. m : t[i] = s[i]
      BY <1>4, <3>1, EntriesFacts, PrefixFacts
    <3>4. q \in 0 .. Len(t) /\ q <= Len(s) /\ \A i \in 1 .. q : t[i] = s[i]
      <4>1. m <= Len(s) /\ Len(s) \in Nat /\ m \in Nat
        BY <1>3, <3>1
      <4>2. \A i \in 1 .. q : i \in 1 .. m
        BY <3>2, <4>1
      <4> QED
        BY <3>2, <3>3, <4>1, <4>2
    <3>5. Upto(t, q) = Upto(s, q)
      BY <3>3, <3>4, UptoSame
    <3> QED
      BY <3>1, <3>5
  <2>3. Pops' = [k \in 1 .. n - 1 |-> Position(frames[k].page, frames[k].stop)]
    <3>1. Pops' = [k \in 1 .. n - 1 |-> Position(frames[k].page, frames[k].stop)']
      BY <2>1 DEF Pops
    <3>2. ASSUME NEW k \in 1 .. n - 1
          PROVE  Position(frames[k].page, frames[k].stop)'
                   = Position(frames[k].page, frames[k].stop)
      BY <2>1, <2>2 DEF Position, Upto
    <3> QED
      BY <3>1, <3>2
  <2>4. /\ Len(Front(Pops)) = n - 1 /\ Front(Pops) \in Seq(Nat)
        /\ \A k \in 1 .. n - 1 : Front(Pops)[k] = Pops[k]
    <3>1. PICK x : x = Pops
      OBVIOUS
    <3>2. x \in Seq(Nat) /\ x # <<>> /\ Len(x) = n
      BY <1>1, <1>3, <3>1, PopsFacts
    <3>3. /\ Front(x) \in Seq(Nat) /\ Len(Front(x)) = Len(x) - 1
          /\ \A k \in 1 .. Len(x) - 1 : Front(x)[k] = x[k]
      BY <3>2, FrontFacts
    <3> QED
      BY <3>1, <3>2, <3>3
  <2>5. Front(Pops) = [k \in 1 .. n - 1 |-> Front(Pops)[k]]
    BY <2>4, LenProperties
  <2>6. \A k \in 1 .. n - 1 : Front(Pops)[k] = Position(frames[k].page, frames[k].stop)
    <3>1. \A k \in 1 .. n - 1 : k \in 1 .. n
      BY <1>3
    <3> QED
      BY <1>1, <2>4, <3>1, PopsFacts
  <2>7. [k \in 1 .. n - 1 |-> Front(Pops)[k]]
          = [k \in 1 .. n - 1 |-> Position(frames[k].page, frames[k].stop)]
    BY <2>6
  <2> QED
    BY <2>3, <2>5, <2>7, Zenon
<1>8. Pops # <<>>
  BY <1>3, PopsFacts
<1> QED
  BY <1>5, <1>6, <1>7, <1>8, StackEnds DEF Stack!EndPop, Pops

\* The end of the thread pops all there is, or there is nothing.
LEMMA ThreadExitMaps ==
  ASSUME PoolInv, ThreadExit
  PROVE  \/ \E place \in DOMAIN Entries : Stack!BeginPop(place)
         \/ Entries' = Entries /\ Pops' = Pops
<1>1. /\ frames = <<>> /\ hot # 0 /\ pages # <<>> /\ 1 \in 1 .. Len(pages) /\ UserRuns
      /\ hot \in Nat /\ hot <= Len(pages) /\ Len(pages) \in Nat
  <2>1. frames = <<>> /\ hot # 0
    BY DEF ThreadExit
  <2>2. UserRuns
    BY <2>1 DEF UserRuns
  <2> QED
    BY <2>1, <2>2, TypeFacts
<1>2. /\ pages[1] \in Seq(Entry) /\ Len(pages[1]) \in Nat
      /\ pages[1] = <<>> <=> Len(pages[1]) = 0
  BY <1>1, TypeFacts
<1>3. CASE pages[1] # <<>>
  <2>1. frames' = Append(frames, NewFrame(1, 1, TRUE)) /\ UNCHANGED pages
    <3>1. frames' = <<NewFrame(1, 1, TRUE)>> /\ UNCHANGED pages
      BY <1>3 DEF ThreadExit
    <3>2. Append(<<>>, NewFrame(1, 1, TRUE)) = <<NewFrame(1, 1, TRUE)>>
      OBVIOUS
    <3> QED
      BY <1>1, <3>1, <3>2
  <2>2. Position(1, 1) = 1
    <3>1. SubSeq(pages, 1, 1 - 1) = <<>> /\ Len(<<>>) = 0
      BY SubSeqEmpty
    <3>2. Position(1, 1) = Len(FlattenSeq(<<>>)) + 1
      BY <3>1, Zenon DEF Position
    <3> QED
      BY <3>1, <3>2, FlattenFew
  <2>3. 1 \in 1 .. Len(pages[1])
    BY <1>2, <1>3
  <2>4. 1 \in 1 .. Len(Entries) /\ 1 \in DOMAIN Entries
    BY <1>1, <2>2, <2>3, AtPosition, EntriesFacts, LenProperties
  <2>5. Pops' = Append(Pops, 1)
    <3>1. Position(1, 1) \in Nat
      BY <2>2
    <3>2. Pops' = Append(Pops, Position(1, 1))
      BY <2>1, <3>1, NewPop
    <3> QED
      BY <2>2, <3>2
  <2>6. Pops = <<>>
    BY <1>1, PopsFacts
  <2>7. Entries' = Entries
    BY <2>1 DEF Entries
  <2>8. Stack!BeginPop(1)
    BY <2>5, <2>6, <2>7 DEF Stack!BeginPop, Pops
  <2> QED
    BY <2>4, <2>8
<1>4. CASE pages[1] = <<>>
  <2>1. ~KillsCold
    BY <1>1, <1>4, ColdIsBoundary
  <2>2. hot = 1
    <3>1. \A q \in 1 .. hot - 1 : pages[q] # <<>>
      BY <2>1 DEF KillsCold, PoolInv, Chain
    <3> QED
      BY <1>1, <1>4, <3>1
  <2>3. ASSUME NEW q \in 0 + 1 .. Len(pages)
        PROVE  pages[q] = <<>>
    <3>1. q = 1 \/ q \in hot + 1 .. Len(pages)
      BY <1>1, <2>2
    <3> QED
      BY <1>4, <3>1 DEF PoolInv, Chain
  <2>4. Entries = <<>>
    <3>1. Entries = Upto(pages, 0)
      <4>1. 0 \in 0 .. Len(pages)
        BY <1>1
      <4> QED
        BY <2>3, <4>1, EntriesFacts
    <3>2. SubSeq(pages, 1, 0) = <<>>
      BY SubSeqEmpty
    <3> QED
      BY <3>1, <3>2, FlattenFew DEF Upto
  <2>5. pages' = <<>> /\ frames' = frames
    <3>1. KeptAtExit(Len(pages)) = 0
      BY <2>1 DEF KeptAtExit, KillsCold
    <3>2. pages' = SubSeq(pages, 1, KeptAtExit(Len(pages))) /\ frames' = frames
      BY <1>4 DEF ThreadExit
    <3> QED
      BY <3>1, <3>2, SubSeqEmpty
  <2>6. Entries' = <<>>
    BY <2>5, FlattenFew DEF Entries
  <2>7. Pops = <<>> /\ Pops' = <<>>
    BY <1>1, <2>5, PopsFacts DEF Pops
  <2> QED
    BY <2>4, <2>6, <2>7
<1> QED
  BY <1>3, <1>4

\* A -dealloc that returns changes nothing of the stack.
LEMMA DeallocReturnsMaps ==
  ASSUME PoolInv, DeallocReturns
  PROVE  Entries' = Entries /\ Pops' = Pops
<1> DEFINE n == Len(frames)
           G == [Frame EXCEPT !.dealloc = FALSE]
<1>1. /\ frames \in Seq(PopCalls) /\ n \in 1 .. n /\ n \in Nat
      /\ Frame = frames[n] /\ Frame \in PopCalls
  BY TypeFacts DEF DeallocReturns, PoolInv, Types
<1>2. frames' = [frames EXCEPT ![n] = G] /\ UNCHANGED pages
  BY <1>1 DEF DeallocReturns, Level
<1>3. G \in PopCalls /\ G.page = Frame.page /\ G.stop = Frame.stop
  BY <1>1 DEF PopCalls
<1> HIDE DEF G
<1>4. /\ frames' \in Seq(PopCalls) /\ Len(frames') = n
      /\ \A k \in 1 .. n : frames'[k] = IF k = n THEN G ELSE frames[k]
  BY <1>1, <1>2, <1>3, ExceptSeq
<1>5. ASSUME NEW k \in 1 .. n
      PROVE  frames'[k].page = frames[k].page /\ frames'[k].stop = frames[k].stop
  BY <1>1, <1>3, <1>4
<1>6. Pops' = Pops
  BY <1>2, <1>4, <1>5, SamePops
<1> QED
  BY <1>2, <1>6 DEF Entries

\* The list of pages implements a stack: a pop releases exactly what lies above its boundary,
\* the hottest first, whatever the -dealloc methods push and pop meanwhile, and no page that
\* is killed or skipped holds a pointer.
THEOREM ImplementsStack == SpecPool => Implements
<1>1. InitPool => Stack!Init
  <2> SUFFICES ASSUME InitPool
               PROVE  Entries = <<>> /\ Pops = <<>>
    BY DEF Stack!Init, Pops
  <2>1. pages = <<>> /\ frames = <<>>
    BY DEF InitPool
  <2> QED
    BY <2>1, FlattenFew DEF Entries, Pops
<1>2. ASSUME PoolInv, [NextPool]_poolVars
      PROVE  [Stack!Next]_<<Entries, Pops>>
  <2>1. CASE \E o \in Objects : Autorelease(o)
    BY <1>2, <2>1, AutoreleaseMaps DEF Stack!Next
  <2>2. CASE Push
    BY <1>2, <2>2, PushMaps DEF Stack!Next
  <2>3. CASE \E i \in DOMAIN tokens : Pop(i)
    BY <1>2, <2>3, PopMaps DEF Stack!Next
  <2>4. CASE ReleaseNext
    BY <1>2, <2>4, ReleaseMaps DEF Stack!Next
  <2>5. CASE DeallocReturns
    BY <1>2, <2>5, DeallocReturnsMaps
  <2>6. CASE FinishPop
    BY <1>2, <2>6, FinishMaps DEF Stack!Next
  <2>7. CASE ThreadExit
    BY <1>2, <2>7, ThreadExitMaps DEF Stack!Next
  <2>8. CASE UNCHANGED poolVars
    BY <2>8 DEF poolVars, Entries, Pops, Position
  <2> QED
    BY <1>2, <2>1, <2>2, <2>3, <2>4, <2>5, <2>6, <2>7, <2>8 DEF NextPool
<1>3. [Stack!Next]_<<Entries, Pops>> => [Stack!Next]_(Stack!abstractVars)
  BY DEF Stack!abstractVars, Pops
<1> QED
  BY <1>1, <1>2, <1>3, PoolInvariant, PTL DEF SpecPool, Implements, Stack!Spec
=============================================================================
