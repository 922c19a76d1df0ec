------------------------------ MODULE Referral ------------------------------
(***************************************************************************)
(* commercial-service: ProcessReferralCommission, called once a purchase   *)
(* is credited (module OrderPayment, action RequestReferral).  The buyer's *)
(* referrer gets half of the order, in psc, until what the referrer got    *)
(* reaches a limit.  The steps are separate statements: the total is read, *)
(* compared with the limit, the wallet credited, the commission recorded.  *)
(*                                                                         *)
(* Values are in half rials: a commission of n units of asset a is worth   *)
(* n * Rate[a], and the comparison "total * pscRate >= limit" and the      *)
(* conversion to psc are exact in that unit while the rates stand still.   *)
(***************************************************************************)
EXTENDS Integers, FiniteSets, FiniteSetsExt

CONSTANTS Purchases,   \* orders whose commission is requested
          Buyer,       \* Buyer[o], Asset[o], Amount[o]: the order's columns
          Asset,
          Amount,
          Members,     \* users of the platform
          None,        \* no referrer
          Referrer,    \* Referrer[u]: column referrer_id of u, or None
          Limit,       \* Limit[u]: referral_profit of u (0 without a row)
          Rate,        \* Rate[a]: the price of an asset in rials
          WalletOwners,\* users who have a wallet
          Workers,     \* goroutines that serve ProcessReferral
          MaxErrors    \* bound: database errors

ASSUME PurchasesAssumption ==
  /\ Purchases # {} /\ IsFiniteSet(Purchases)
  /\ \A o \in Purchases : /\ Buyer[o] \in Members /\ Amount[o] \in Nat
                          /\ Asset[o] = "irr" \/ Rate[Asset[o]] \in Nat
ASSUME MembersAssumption ==
  /\ None \notin Members /\ WalletOwners \subseteq Members
  /\ \A u \in Members : Referrer[u] \in Members \union {None} /\ Limit[u] \in Nat
ASSUME ErrorsAssumption == IsFiniteSet(Workers) /\ MaxErrors \in Nat

VARIABLES requested,   \* orders whose commission was requested
          recorded,    \* recorded[u]: the sum over u's referral_order_histories
          paid,        \* paid[u]: what the calls credited to u's wallet
          referral,    \* referral[c]: what goroutine c is doing
          errors       \* database errors so far

referralVars == <<requested, recorded, paid, referral, errors>>

ReferralCall == [pc: {"idle", "total", "credit", "record"}, order: Purchases]

ReferralTypeOK ==
  /\ requested \subseteq Purchases
  /\ recorded \in [Members -> Nat]
  /\ paid \in [Members -> Nat]
  /\ referral \in [Workers -> ReferralCall]
  /\ errors \in 0..MaxErrors

Free == [pc |-> "idle", order |-> CHOOSE o \in Purchases : TRUE]

ReferralInit ==
  /\ requested = {}
  /\ recorded = [u \in Members |-> 0]
  /\ paid = [u \in Members |-> 0]
  /\ referral = [c \in Workers |-> Free]
  /\ errors = 0

(* Half of the order, converted to psc when it is of a colour. *)
Commission(o)     == Amount[o] * Rate[Asset[o]]
ReferralAt(c, pc) == referral[c].pc = pc
ReferrerOf(c)     == Referrer[Buyer[referral[c].order]]
MoveTo(c, pc)     == referral' = [referral EXCEPT ![c].pc = pc]
EndReferral(c)    == referral' = [referral EXCEPT ![c] = Free]

(* The request arrives; irr orders and buyers without a referrer are done. *)
ProcessReferral(c) ==
  /\ ReferralAt(c, "idle")
  /\ \E o \in Purchases \ requested :
       /\ requested' = requested \union {o}
       /\ IF Asset[o] # "irr" /\ Referrer[Buyer[o]] # None
            THEN referral' = [referral EXCEPT ![c] = [pc |-> "total", order |-> o]]
            ELSE UNCHANGED referral
  /\ UNCHANGED <<recorded, paid, errors>>

LimitIgnored(c) ==
  /\ ReferralAt(c, "total")
  /\ MoveTo(c, "credit")
  /\ UNCHANGED <<requested, recorded, paid, errors>>

(* GetTotalReferredAmount, GetReferralProfitLimit and their comparison. *)
CheckLimit(c) ==
  /\ ReferralAt(c, "total")
  /\ IF recorded[ReferrerOf(c)] >= Limit[ReferrerOf(c)] THEN EndReferral(c)
                                                        ELSE MoveTo(c, "credit")
  /\ UNCHANGED <<requested, recorded, paid, errors>>

IgnoreCreditError(c) ==
  /\ ReferralAt(c, "credit")
  /\ \/ /\ paid' = [paid EXCEPT ![ReferrerOf(c)] = @ + Commission(referral[c].order)]
        /\ UNCHANGED errors
     \/ errors < MaxErrors /\ errors' = errors + 1 /\ UNCHANGED paid
  /\ MoveTo(c, "record")
  /\ UNCHANGED <<requested, recorded>>

(* AddBalance on the referrer's wallet; no error when there is none. *)
CreditReferrer(c) ==
  LET r == ReferrerOf(c) IN
  /\ ReferralAt(c, "credit")
  /\ paid' = IF r \in WalletOwners
               THEN [paid EXCEPT ![r] = @ + Commission(referral[c].order)] ELSE paid
  /\ MoveTo(c, "record")
  /\ UNCHANGED <<requested, recorded, errors>>

(* CreateReferralOrder *)
Record(c) ==
  /\ ReferralAt(c, "record")
  /\ recorded' = [recorded EXCEPT ![ReferrerOf(c)] = @ + Commission(referral[c].order)]
  /\ EndReferral(c)
  /\ UNCHANGED <<requested, paid, errors>>

(* The next statement fails and the error is returned; what was done stays *)
(* done, and the caller only logs the error.                               *)
StatementFails(c) ==
  /\ ~ReferralAt(c, "idle")
  /\ errors < MaxErrors
  /\ errors' = errors + 1
  /\ EndReferral(c)
  /\ UNCHANGED <<requested, recorded, paid>>

ReferralStep(c) ==
  \/ ProcessReferral(c)
  \/ CheckLimit(c)
  \/ CreditReferrer(c)
  \/ Record(c)
  \/ StatementFails(c)

ReferralNext == \E c \in Workers : ReferralStep(c)

ReferralSpec == ReferralInit /\ [][ReferralNext]_referralVars

-----------------------------------------------------------------------------
MaxCommission ==
  Max({0} \union {Commission(o) : o \in {x \in Purchases : Asset[x] # "irr"}})

(* The limit can be overshot, because it is compared with a total that     *)
(* other calls are about to raise and that misses commissions whose record *)
(* failed, but not by more than one commission for each call that can be   *)
(* in flight and one for each failure.                                     *)
OvershootIsBounded ==
  \A u \in Members : paid[u] > 0 =>
    paid[u] < Limit[u] + (Cardinality(Workers) + errors) * MaxCommission

(* A commission on record was credited, whatever fails and in whatever     *)
(* order concurrent calls credit and record; if the referrer has a wallet. *)
RecordedWasPaid == \A u \in WalletOwners : recorded[u] <= paid[u]

(* Nothing is lost without a trace: once no call is in flight, a payment   *)
(* that is not on record goes back to a failure.                           *)
PaidIsRecorded ==
  (\A c \in Workers : ReferralAt(c, "idle")) /\ errors = 0 =>
    \A u \in WalletOwners : paid[u] = recorded[u]

(* The history and the commissions that were paid agree in both            *)
(* directions, up to what is in flight or failed.                          *)
HistoryInv == ReferralTypeOK /\ RecordedWasPaid /\ PaidIsRecorded
=============================================================================
