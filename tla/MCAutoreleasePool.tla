-------------------------- MODULE MCAutoreleasePool --------------------------
(* AutoreleasePool with two interchangeable objects. *)
EXTENDS AutoreleasePool, TLC
Symmetry == Permutations(Objects)
==============================================================================
