------------------------------- MODULE MCSync -------------------------------
(* Sync on small instances; the .cfg files give the constants.             *)
EXTENDS Sync, TLC

\* objects 1 and 2 share a list, 3 has another
TwoStripes == [o \in Objs |-> IF o = 3 THEN 2 ELSE 1]

\* only the first object is entered again by a thread inside it
FirstTwice == [o \in Objs |-> IF o = 1 THEN 2 ELSE 1]

MCSymmetry == Permutations(Threads)
=============================================================================
