--------------------------- MODULE MCOrderPayment ---------------------------
(* Instances of OrderPayment for TLC. *)
EXTENDS OrderPayment, TLC

Request(u, a, n) == [user |-> u, asset |-> a, amount |-> n]

(* A valid psc order, a valid irr order, and inputs that are refused. *)
MCRequests == {Request("u1", "psc", 1), Request("u1", "irr", 2), Request("u2", "psc", 1),
               Request("u1", "psc", 0), Request("u1", "effect", 1)}

(* u1 is an adult; u2 is a child whose permissions are not verified. *)
MCProfiles ==
  [u \in Buyers |-> [birthdate |-> TRUE, adult |-> u = "u1",
                    permissions |-> TRUE, verified |-> FALSE, BFR |-> TRUE]]
=============================================================================
