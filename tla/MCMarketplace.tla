--------------------------- MODULE MCMarketplace ---------------------------
(* Instances of Marketplace for TLC. *)
EXTENDS Marketplace, TLC

CONSTANTS f1, f2, u1, u2, u3

(* parseWalletString as its comment wants it. *)
Exact(n) == n

BothAssets == [psc |-> 1, irr |-> 1]
PscOnly    == [psc |-> 1, irr |-> 0]
SomePrices == {BothAssets, PscOnly}
TwoAssets  == {BothAssets, [psc |-> 1, irr |-> 2]}

(* f1 belongs to a user, f2 to the platform. *)
Owner    == (f1 :> u1) @@ (f2 :> Rgb)
OwnerOne == f1 :> u1

Offer(f, b, s) == [feature |-> f, buyer |-> b, seller |-> s, price |-> BothAssets,
                   state |-> "pending"]
NoOffers      == <<>>
TwoOffers     == <<Offer(f1, u2, u1), Offer(f1, u3, u1)>>

Symmetry == Permutations(Tasks)
=============================================================================
