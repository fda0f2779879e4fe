---------------------------- MODULE MCMethodCache ----------------------------
(* MethodCache with a class and its superclass. *)
EXTENDS MethodCache, TLC
CONSTANTS Base, Sub, impBase, impSub
MCSuperclass == Sub :> Base @@ Base :> NoClass
\* Sub overrides 3; nobody implements 7 yet.
MCMethods  == {Base :> (3 :> impBase @@ 7 :> NoImp) @@ Sub :> (3 :> impSub @@ 7 :> NoImp)}
MCMessages == {<<Sub, 3>>, <<Sub, 7>>, <<Base, 7>>}
MCChanged  == {<<Sub, 3>>, <<Base, 7>>}
Symmetry == Permutations(Threads)
==============================================================================
