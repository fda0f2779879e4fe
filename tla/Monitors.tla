------------------------------ MODULE Monitors ------------------------------
(***************************************************************************)
(* What @synchronized promises: every object has a recursive lock of its   *)
(* own. A thread is inside an object as many times as it entered it, and   *)
(* two threads are never inside the same object. Sync implements this.     *)
(***************************************************************************)
EXTENDS Naturals

CONSTANTS Threads, Objs

VARIABLE depth     \* how many times a thread is inside an object

Init == depth = [t \in Threads |-> [o \in Objs |-> 0]]

Becomes(t, o, n) ==
  /\ depth'[t][o] = n
  /\ depth' = [depth EXCEPT ![t][o] = n]

\* objc_sync_enter returns
Enter(t, o) ==
  /\ \A u \in Threads \ {t} : depth[u][o] = 0
  /\ Becomes(t, o, depth[t][o] + 1)

\* objc_sync_exit by a thread that is inside; by any other thread it does nothing
Exit(t, o) == depth[t][o] > 0 /\ Becomes(t, o, depth[t][o] - 1)

Next == \E t \in Threads, o \in Objs : Enter(t, o) \/ Exit(t, o)

Spec == Init /\ [][Next]_depth
=============================================================================
