--------------------------- MODULE AtomicRefCount ---------------------------
(***************************************************************************)
(* What -retain, -release, __weak and -dealloc promise together, with one  *)
(* number for the count and every operation a single step:                 *)
(*   - a live object has a count of at least one;                          *)
(*   - the release that takes the last reference, and no other, begins     *)
(*     deallocation, and nothing is retained after it;                     *)
(*   - a weak variable is cleared before the memory is freed.              *)
(* RefCount implements this (its property Implements).                     *)
(***************************************************************************)
EXTENDS Naturals

VARIABLES count,      \* references; 0 from the last release on
          location,   \* the weak variable holds the object
          freed

vars == <<count, location, freed>>

Init == count = 1 /\ location = FALSE /\ freed = FALSE

\* also what a successful load of the weak variable does
Retain == count > 0 /\ count' = count + 1 /\ UNCHANGED <<location, freed>>

\* the release that leaves 0 is the one that begins deallocation
Release == count > 0 /\ count' = count - 1 /\ UNCHANGED <<location, freed>>

StoreWeak == count > 0 /\ location' = TRUE /\ UNCHANGED <<count, freed>>

ClearWeak == location' = FALSE /\ UNCHANGED <<count, freed>>

Free == count = 0 /\ ~freed /\ ~location /\ freed' = TRUE /\ UNCHANGED <<count, location>>

Next == Retain \/ Release \/ StoreWeak \/ ClearWeak \/ Free

Spec == Init /\ [][Next]_vars
=============================================================================
