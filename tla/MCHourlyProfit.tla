--------------------------- MODULE MCHourlyProfit ---------------------------
(* Instances of HourlyProfit for TLC. *)
EXTENDS HourlyProfit, TLC

(* Every feature has the same use, so that one withdrawal settles several. *)
MCKarbari == [f \in Features |-> "m"]

Symmetry == Permutations(Tasks)
=============================================================================
