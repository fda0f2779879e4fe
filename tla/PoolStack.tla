------------------------------ MODULE PoolStack ------------------------------
(***************************************************************************)
(* What the autorelease pools of one thread promise: a stack of pointers,  *)
(* each an object to release or the boundary of a pool.  Popping a pool    *)
(* releases everything hotter than its boundary, hottest first, whatever   *)
(* is added while that happens.                                            *)
(***************************************************************************)
EXTENDS Naturals, Sequences, SequencesExt

CONSTANTS Objects, Sentinel
VARIABLES stack,   \* the pointers, coldest first
          pops     \* the positions that the pops in progress go down to

abstractVars == <<stack, pops>>

Init == stack = <<>> /\ pops = <<>>

\* An object autoreleased when there is no pool opens one that nobody pops.
Autorelease(o) ==
    /\ stack' \in {Append(stack, o)} \cup
                  (IF stack = <<>> THEN {<<Sentinel, o>>} ELSE {})
    /\ UNCHANGED pops

Push == stack' = Append(stack, Sentinel) /\ UNCHANGED pops

\* Pop a pool newer than those already being popped, or, at the exit of the
\* thread, everything.
BeginPop(at) ==
    /\ stack[at] = Sentinel \/ at = 1
    /\ pops # <<>> => at >= Last(pops)
    /\ pops' = Append(pops, at)
    /\ UNCHANGED stack

ReleaseHottest ==
    /\ pops # <<>> /\ Len(stack) >= Last(pops)
    /\ stack' = Front(stack)
    /\ UNCHANGED pops

EndPop ==
    /\ pops # <<>> /\ Len(stack) = Last(pops) - 1
    /\ pops' = Front(pops)
    /\ UNCHANGED stack

Next ==
    \/ \E o \in Objects : Autorelease(o)
    \/ Push
    \/ \E at \in DOMAIN stack : BeginPop(at)
    \/ ReleaseHottest
    \/ EndPop

Spec == Init /\ [][Next]_abstractVars
==============================================================================
