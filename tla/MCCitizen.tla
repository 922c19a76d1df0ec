----------------------------- MODULE MCCitizen ------------------------------
(* The services that share state run together, social-service alone. *)
EXTENDS Citizen, TLC

CONSTANTS l1, l2

MCGroups    == {{"levels", "sessions"}, {"sessions", "security"}, {"social"}}
MCMaxCalls  == [g \in MCGroups |-> IF "social" \in g THEN 4 ELSE 3]
MCThreshold == l1 :> 1 @@ l2 :> 2
Symmetry    == Permutations(Users) \union Permutations(Tasks) \union Permutations(Phones)
=============================================================================
