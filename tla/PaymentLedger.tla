---------------------------- MODULE PaymentLedger ----------------------------
(***************************************************************************)
(* What buying an asset promises: an order's payment is verified with the  *)
(* gateway, then recorded, then credited to the wallet, then rewarded to   *)
(* the referrer; in this order, and each at most once per order.  A        *)
(* failure may stop an order anywhere, so nothing has to happen.           *)
(***************************************************************************)
EXTENDS Naturals

CONSTANT Orders

VARIABLES verified,   \* orders whose payment the gateway confirmed
          recorded,   \* recorded[o]: payment rows of o
          credited,   \* credited[o]: wallet credits for o
          rewarded    \* rewarded[o]: referral commissions requested for o

vars == <<verified, recorded, credited, rewarded>>

Init ==
  /\ verified = {}
  /\ recorded = [o \in Orders |-> 0]
  /\ credited = [o \in Orders |-> 0]
  /\ rewarded = [o \in Orders |-> 0]

Verify(o) ==
  /\ o \notin verified
  /\ verified' = verified \union {o}
  /\ UNCHANGED <<recorded, credited, rewarded>>

Record(o) ==
  /\ o \in verified
  /\ recorded[o] = 0
  /\ recorded' = [recorded EXCEPT ![o] = 1]
  /\ UNCHANGED <<verified, credited, rewarded>>

Credit(o) ==
  /\ recorded[o] = 1
  /\ credited[o] = 0
  /\ credited' = [credited EXCEPT ![o] = 1]
  /\ UNCHANGED <<verified, recorded, rewarded>>

Reward(o) ==
  /\ credited[o] = 1
  /\ rewarded[o] = 0
  /\ rewarded' = [rewarded EXCEPT ![o] = 1]
  /\ UNCHANGED <<verified, recorded, credited>>

Next == \E o \in Orders : Verify(o) \/ Record(o) \/ Credit(o) \/ Reward(o)

Spec == Init /\ [][Next]_vars
==============================================================================
