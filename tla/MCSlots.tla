------------------------------- MODULE MCSlots -------------------------------
(* Slots with two threads, two values, an atomic and a plain property, and   *)
(* structures in two stripes, one of them that of the stacks.                *)
EXTENDS Slots, TLC

MCPolicies == {{}, {"retain", "getterRetain"}, {"retain", "copy"}}
MCLockOf   == [x \in Props \cup Structs |-> CASE x \in Props -> 1 [] x = "s1" -> 2 [] OTHER -> 4]
MCSlotSets == {{"k1", "k2"}, {"k1", "atomic"}, {"atomic", "plain"}, {"s1", "s2"}}
MCSymmetry == Permutations(Threads) \cup Permutations(Values)
==============================================================================
