----------------------------- MODULE MCDynasty -----------------------------
(* Values for model checking Dynasty: a founder and a minor who is already *)
(* a member of the founder's family.                                       *)
EXTENDS Dynasty, TLC

CONSTANTS u1, u2

Joined   == {[from |-> u1, to |-> u2, rel |-> "sister"]}
Symmetry == Permutations(Tasks)
=============================================================================
