----------------------------- MODULE MCBuilding -----------------------------
(* A small feature and a large one; both can be built with one model. *)
EXTENDS Building, TLC

CONSTANTS f1, f2
Areas    == f1 :> 1 @@ f2 :> 2
Symmetry == Permutations(Users) \union Permutations(Tasks)
=============================================================================
