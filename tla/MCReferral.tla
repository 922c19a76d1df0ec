----------------------------- MODULE MCReferral -----------------------------
(* An instance of Referral for TLC: two buyers with the same referrer, one *)
(* buyer whose referrer has no wallet, one buyer without a referrer.       *)
EXTENDS Referral, TLC

MCUsers    == {"r", "s", "b1", "b2", "b3"}
MCOrders   == 1..7
MCBuyer    == <<"b1", "b2", "b1", "b2", "b1", "b3", "r">>
MCAsset    == <<"psc", "psc", "red", "psc", "irr", "psc", "psc">>
MCAmount   == <<2, 1, 1, 2, 1, 1, 1>>
MCReferrer == [u \in MCUsers |-> CASE u \in {"b1", "b2"} -> "r"
                                   [] u = "b3" -> "s" [] OTHER -> "none"]
MCLimit    == [u \in MCUsers |-> IF u = "r" THEN 1 ELSE IF u = "s" THEN 2 ELSE 0]
MCRate     == [a \in {"psc", "red"} |-> IF a = "psc" THEN 1 ELSE 2]
Symmetry   == Permutations(Workers)
=============================================================================
