----------------------------- MODULE ClassInit ------------------------------
(***************************************************************************)
(* What class initialization promises: every class is initialized at most  *)
(* once, by one thread, which may begin once the superclass is initialized *)
(* or is being initialized by that same thread; and a class becomes        *)
(* initialized only after its superclass. Initialize implements this.      *)
(***************************************************************************)
CONSTANTS Threads, Classes, NoClass, Super, Nobody, Done

VARIABLE initializer    \* Nobody, a thread, or Done

Init == initializer = [c \in Classes |-> Nobody]

SuperIs(c, allowed) == Super[c] = NoClass \/ initializer[Super[c]] \in allowed

Begin(t, c) ==
  /\ initializer[c] = Nobody /\ SuperIs(c, {t, Done})
  /\ initializer' = [initializer EXCEPT ![c] = t]

Complete(c) ==
  /\ initializer[c] \in Threads /\ SuperIs(c, {Done})
  /\ initializer' = [initializer EXCEPT ![c] = Done]

Next == \E c \in Classes : Complete(c) \/ \E t \in Threads : Begin(t, c)

Spec == Init /\ [][Next]_initializer
=============================================================================
