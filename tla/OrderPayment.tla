---------------------------- MODULE OrderPayment ----------------------------
(***************************************************************************)
(* financial-service: buying assets through the Sadad payment gateway.     *)
(*                                                                         *)
(* CreateOrder inserts an order and its transaction, asks the gateway for  *)
(* a payment and returns its link.  HandleCallback runs when the browser   *)
(* comes back from the gateway: it verifies the payment, records it in one *)
(* database transaction and then credits the wallet in commercial-service. *)
(* Callbacks are delivered any number of times and handled concurrently;   *)
(* each statement and each remote call of a handler is one step.           *)
(*                                                                         *)
(* Amounts are in halves of a unit, because the first-order bonus is half  *)
(* of the amount.  Result codes are the integers parseStatusCode yields.   *)
(***************************************************************************)
EXTENDS WalletStore, FiniteSets

CONSTANTS Orders,        \* order ids
          Buyers,        \* users
          Handlers,      \* goroutines that serve callbacks
          Requests,      \* the CreateOrder requests users may send
          Profiles,      \* Profiles[u]: what the age check knows of user u
          MaxDeliveries, \* bound: callback deliveries in a behaviour
          MaxMishaps     \* bound: failures in a behaviour

ASSUME OrdersAssumption == Orders # {}
ASSUME RequestsAssumption ==
  \A r \in Requests : r.user \in Buyers /\ r.amount \in Int
ASSUME LimitsAssumption == MaxDeliveries \in Nat /\ MaxMishaps \in Nat

(* Status codes of orders and transactions, and gateway result codes. *)
Success         == 0
Pending         == -138
Open            == 1       \* a transaction before its payment is decided
Unknown         == -1
InvalidToken    == 106
AlreadyVerified == 107
Codes == {Success, Pending, Open, Unknown, InvalidToken, AlreadyVerified}

VARIABLES request,     \* request[o]: the CreateOrder request order o comes from
          creation,    \* creation[o]: the next step of the CreateOrder call
          orderRows,   \* orders that have a row in table orders
          orderStatus, \* their status column
          txnRows,     \* orders that have a row in table transactions
          txn,         \* its columns status, ref (ref_id set), token (token set)
          payments,    \* payments[o]: rows of table payments written for o
          firstOrders, \* firstOrders[u]: rows of table first_orders
          walletOf,    \* the wallets in commercial-service
          gateway,     \* gateway[o]: the payment of o at Sadad
          sent,        \* callbacks the gateway has sent a browser to deliver
          handler,     \* handler[h]: what callback handler h is doing
          credits,     \* history: wallet credits applied for o
          bonuses,     \* history: those of them that included the bonus
          referrals,   \* ProcessReferral calls made for o
          uncredited,  \* history: orders whose AddBalance call returned an error
          deliveries, mishaps

tables      == <<orderRows, orderStatus, txnRows, txn, payments, firstOrders>>
history     == <<credits, bonuses, referrals, uncredited>>
paymentVars == <<request, creation, tables, walletOf, gateway, sent, handler, history,
                 deliveries, mishaps>>

Txn      == [status: Codes, ref: BOOLEAN, token: BOOLEAN]
Callback == [order: Orders, code: {Success, Unknown}, token: BOOLEAN]
Steps    == {"idle", "verify", "bonus", "commit", "credit", "referral",
             "failOrder", "failTxn"}
Handler  == [pc: Steps, cb: Callback, txn: Txn, code: Codes, bonus: BOOLEAN]
NewTxn   == [status |-> Open, ref |-> FALSE, token |-> FALSE]
TokenTxn == [status |-> Open, ref |-> FALSE, token |-> TRUE]
Idle     == [pc |-> "idle", cb |-> CHOOSE cb \in Callback : TRUE, txn |-> NewTxn,
             code |-> Unknown, bonus |-> FALSE]

PaymentTypeOK ==
  /\ request \in [Orders -> Requests]
  /\ creation \in [Orders -> {"new", "order", "txn", "token", "cleanTxn",
                              "cleanOrder", "linked", "refused"}]
  /\ orderRows \subseteq Orders
  /\ orderStatus \in [Orders -> Codes]
  /\ txnRows \subseteq Orders
  /\ txn \in [Orders -> Txn]
  /\ payments \in [Orders -> Nat]
  /\ firstOrders \in [Buyers -> Nat]
  /\ walletOf \in [Buyers -> Seq([Assets -> Int])]
  /\ gateway \in [Orders -> {"none", "open", "paid", "verified"}]
  /\ sent \subseteq Callback
  /\ handler \in [Handlers -> Handler]
  /\ credits \in [Orders -> Nat]
  /\ bonuses \in [Orders -> Nat]
  /\ referrals \in [Orders -> Nat]
  /\ uncredited \subseteq Orders
  /\ deliveries \in 0..MaxDeliveries
  /\ mishaps \in 0..MaxMishaps

(* Registration creates the wallet on a best-effort basis: a user may have *)
(* none (auth_service.go:303 only logs the error).                         *)
PaymentInit ==
  /\ request \in [Orders -> Requests]
  /\ creation = [o \in Orders |-> "new"]
  /\ orderRows = {} /\ txnRows = {}
  /\ orderStatus = [o \in Orders |-> Pending]
  /\ txn = [o \in Orders |-> NewTxn]
  /\ payments = [o \in Orders |-> 0]
  /\ firstOrders = [u \in Buyers |-> 0]
  /\ walletOf \in [Buyers -> {<<>>, <<NewWallet>>}]
  /\ gateway = [o \in Orders |-> "none"]
  /\ sent = {}
  /\ handler = [h \in Handlers |-> Idle]
  /\ credits = [o \in Orders |-> 0]
  /\ bonuses = [o \in Orders |-> 0]
  /\ referrals = [o \in Orders |-> 0]
  /\ uncredited = {}
  /\ deliveries = 0 /\ mishaps = 0

Mishap == mishaps < MaxMishaps /\ mishaps' = mishaps + 1

-----------------------------------------------------------------------------
(* CreateOrder *)

(* validateCreateOrderInput *)
ValidOrderAssets == {"psc", "irr", "red", "blue", "yellow"}
ValidInput(r)    == r.amount >= 1 /\ r.asset \in ValidOrderAssets

(* OrderPolicy.CanBuyFromStore: no birthdate on file, an adult, or a child *)
(* whose parent gave a verified BFR permission.                            *)
CanBuyFromStore(u) ==
  LET p == Profiles[u] IN
  \/ ~p.birthdate
  \/ p.adult
  \/ p.permissions /\ p.verified /\ p.BFR

CreationUnchanged == UNCHANGED <<request, payments, firstOrders, walletOf, sent,
                                 handler, history, deliveries>>

(* Validation, policy, rate, then INSERT INTO orders; or an early return. *)
CreateOrder(o) ==
  /\ creation[o] = "new"
  /\ IF ValidInput(request[o]) /\ CanBuyFromStore(request[o].user)
       THEN /\ creation' = [creation EXCEPT ![o] = "order"]
            /\ orderRows' = orderRows \union {o}
            /\ orderStatus' = [orderStatus EXCEPT ![o] = Pending]
       ELSE /\ creation' = [creation EXCEPT ![o] = "refused"]
            /\ UNCHANGED <<orderRows, orderStatus>>
  /\ UNCHANGED <<txnRows, txn, gateway, mishaps>>
  /\ CreationUnchanged

(* createDepositTransaction: an error leaves the pending order behind. *)
CreateTransaction(o) ==
  /\ creation[o] = "order"
  /\ \/ /\ creation' = [creation EXCEPT ![o] = "txn"]
        /\ txnRows' = txnRows \union {o}
        /\ txn' = [txn EXCEPT ![o] = NewTxn]
        /\ UNCHANGED mishaps
     \/ /\ Mishap
        /\ creation' = [creation EXCEPT ![o] = "refused"]
        /\ UNCHANGED <<txnRows, txn>>
  /\ UNCHANGED <<orderRows, orderStatus, gateway>>
  /\ CreationUnchanged

(* requestSadadPayment: a failed request starts the clean-up. *)
RequestPayment(o) ==
  /\ creation[o] = "txn"
  /\ \/ /\ creation' = [creation EXCEPT ![o] = "token"]
        /\ gateway' = [gateway EXCEPT ![o] = "open"]
        /\ UNCHANGED mishaps
     \/ /\ Mishap
        /\ creation' = [creation EXCEPT ![o] = "cleanTxn"]
        /\ UNCHANGED gateway
  /\ UNCHANGED <<orderRows, orderStatus, txnRows, txn>>
  /\ CreationUnchanged

(* storeTransactionToken, whose error is only logged; then the link is *)
(* returned to the user.                                               *)
StoreToken(o) ==
  /\ creation[o] = "token"
  /\ creation' = [creation EXCEPT ![o] = "linked"]
  /\ \/ txn' = [txn EXCEPT ![o] = TokenTxn] /\ UNCHANGED mishaps
     \/ Mishap /\ UNCHANGED txn
  /\ UNCHANGED <<orderRows, orderStatus, txnRows, gateway>>
  /\ CreationUnchanged

(* cleanupPendingOrder: two deletions, whose errors are only logged. *)
DeleteTransaction(o) ==
  /\ creation[o] = "cleanTxn"
  /\ creation' = [creation EXCEPT ![o] = "cleanOrder"]
  /\ \/ txnRows' = txnRows \ {o} /\ UNCHANGED mishaps
     \/ Mishap /\ UNCHANGED txnRows
  /\ UNCHANGED <<orderRows, orderStatus, txn, gateway>>
  /\ CreationUnchanged

LinkAfterCleanup(o) ==
  /\ creation[o] = "cleanOrder"
  /\ creation' = [creation EXCEPT ![o] = "linked"]
  /\ orderRows' = orderRows \ {o} /\ UNCHANGED mishaps
  /\ UNCHANGED <<orderStatus, txnRows, txn, gateway>>
  /\ CreationUnchanged

DeleteOrder(o) ==
  /\ creation[o] = "cleanOrder"
  /\ creation' = [creation EXCEPT ![o] = "refused"]
  /\ \/ orderRows' = orderRows \ {o} /\ UNCHANGED mishaps
     \/ Mishap /\ UNCHANGED orderRows
  /\ UNCHANGED <<orderStatus, txnRows, txn, gateway>>
  /\ CreationUnchanged

CreateStep(o) ==
  \/ CreateOrder(o)
  \/ CreateTransaction(o)
  \/ RequestPayment(o)
  \/ StoreToken(o)
  \/ DeleteTransaction(o)
  \/ DeleteOrder(o)

-----------------------------------------------------------------------------
(* The user at the gateway (external) *)

GatewayUnchanged == UNCHANGED <<request, creation, tables, walletOf, handler,
                                history, deliveries, mishaps>>

(* The user pays; the browser is sent back with result code 0. *)
Pay(o) ==
  /\ creation[o] = "linked"
  /\ gateway[o] = "open"
  /\ gateway' = [gateway EXCEPT ![o] = "paid"]
  /\ \E t \in BOOLEAN :
       sent' = sent \union {[order |-> o, code |-> Success, token |-> t]}
  /\ GatewayUnchanged

(* The user gives up, and may still return to the page and pay. *)
Cancel(o) ==
  /\ creation[o] = "linked"
  /\ gateway[o] = "open"
  /\ sent' = sent \union {[order |-> o, code |-> Unknown, token |-> TRUE]}
  /\ UNCHANGED gateway
  /\ GatewayUnchanged

(* What VerifyPayment answers for the payment of o: 106 for a token it     *)
(* does not know, 0 the first time, 107 when it was verified before.       *)
VerifyCode(o, hasToken) ==
  IF ~hasToken THEN InvalidToken
  ELSE CASE gateway[o] = "paid"     -> Success
         [] gateway[o] = "verified" -> AlreadyVerified
         [] OTHER                   -> Unknown

-----------------------------------------------------------------------------
(* HandleCallback *)

AtStep(h, pc)      == handler[h].pc = pc
OrderOf(h)         == handler[h].cb.order
UserOf(h)          == request[OrderOf(h)].user
AssetOf(h)         == request[OrderOf(h)].asset
HandlerGoto(h, pc) == handler' = [handler EXCEPT ![h].pc = pc]
Return(h)          == handler' = [handler EXCEPT ![h] = Idle]

(* A callback is delivered; findCallbackOrderAndTransaction reads both     *)
(* rows, and the handler keeps the transaction it read.                    *)
ReceiveCallback(h) ==
  /\ AtStep(h, "idle")
  /\ deliveries < MaxDeliveries
  /\ deliveries' = deliveries + 1
  /\ \E cb \in sent :
       IF cb.order \in orderRows \intersect txnRows
         THEN handler' = [handler EXCEPT ![h] =
                [pc    |-> IF cb.code = Success THEN "verify" ELSE "failOrder",
                 cb    |-> cb,
                 txn   |-> txn[cb.order],
                 code  |-> cb.code,
                 bonus |-> FALSE]]
         ELSE UNCHANGED handler
  /\ UNCHANGED <<request, creation, tables, walletOf, gateway, sent, history, mishaps>>

HandlerUnchanged == UNCHANGED <<request, creation, sent, deliveries>>

AcceptAlreadyVerified(h) ==
  LET o    == OrderOf(h)
      code == VerifyCode(o, handler[h].cb.token \/ handler[h].txn.token)
  IN
  /\ AtStep(h, "verify")
  /\ gateway' = [gateway EXCEPT ![o] = IF code = Success THEN "verified" ELSE @]
  /\ handler' = [handler EXCEPT
       ![h].pc = IF code \in {Success, AlreadyVerified} THEN "bonus" ELSE "failOrder",
       ![h].code = code]
  /\ UNCHANGED <<tables, walletOf, history, mishaps>>
  /\ HandlerUnchanged

SkipVerification(h) ==
  /\ AtStep(h, "verify")
  /\ HandlerGoto(h, "bonus")
  /\ UNCHANGED <<tables, walletOf, gateway, history, mishaps>>
  /\ HandlerUnchanged

(* verifySadadPayment, with the callback's token or else the stored one.   *)
(* An error, also one that hides the gateway's answer, fails the order.    *)
Verify(h) ==
  LET o    == OrderOf(h)
      code == VerifyCode(o, handler[h].cb.token \/ handler[h].txn.token)
      done == [gateway EXCEPT ![o] = IF code = Success THEN "verified" ELSE @]
  IN
  /\ AtStep(h, "verify")
  /\ \/ /\ gateway' = done
        /\ handler' = [handler EXCEPT
             ![h].pc = IF code = Success THEN "bonus" ELSE "failOrder",
             ![h].code = code]
        /\ UNCHANGED mishaps
     \/ /\ Mishap
        /\ gateway' \in {gateway, done}
        /\ handler' = [handler EXCEPT ![h].pc = "failOrder", ![h].code = Unknown]
  /\ UNCHANGED <<tables, walletOf, history>>
  /\ HandlerUnchanged

(* OrderPolicy.CanGetBonus: not for irr, and no first order on record. *)
CanGetBonus(h) == AssetOf(h) # "irr" /\ firstOrders[UserOf(h)] = 0

CheckBonus(h) ==
  /\ AtStep(h, "bonus")
  /\ handler' = [handler EXCEPT ![h].pc = "commit", ![h].bonus = CanGetBonus(h)]
  /\ UNCHANGED <<tables, walletOf, gateway, history, mishaps>>
  /\ HandlerUnchanged

ForgetFirstOrder(h) ==
  LET o == OrderOf(h) IN
  /\ AtStep(h, "commit")
  /\ orderStatus' = [orderStatus EXCEPT ![o] = Success]
  /\ txn' = [txn EXCEPT ![o] = [handler[h].txn EXCEPT !.status = Success, !.ref = TRUE]]
  /\ payments' = [payments EXCEPT ![o] = @ + 1]
  /\ HandlerGoto(h, "credit")
  /\ UNCHANGED <<orderRows, txnRows, firstOrders, walletOf, gateway, history, mishaps>>
  /\ HandlerUnchanged

CreditOnlyWithBonus(h) ==
  LET o == OrderOf(h) IN
  /\ AtStep(h, "commit")
  /\ orderStatus' = [orderStatus EXCEPT ![o] = Success]
  /\ txn' = [txn EXCEPT ![o] = [handler[h].txn EXCEPT !.status = Success, !.ref = TRUE]]
  /\ payments' = [payments EXCEPT ![o] = @ + 1]
  /\ firstOrders' = [firstOrders EXCEPT ![UserOf(h)] =
                       IF handler[h].bonus THEN @ + 1 ELSE @]
  /\ HandlerGoto(h, IF handler[h].bonus THEN "credit" ELSE "referral")
  /\ UNCHANGED <<orderRows, txnRows, walletOf, gateway, history, mishaps>>
  /\ HandlerUnchanged

(* finalizeSuccessfulPaymentTx: the four writes commit together. *)
FinalizeTx(h) ==
  LET o == OrderOf(h) IN
  /\ AtStep(h, "commit")
  /\ orderStatus' = [orderStatus EXCEPT ![o] = Success]
  /\ txn' = [txn EXCEPT ![o] = [handler[h].txn EXCEPT !.status = Success, !.ref = TRUE]]
  /\ payments' = [payments EXCEPT ![o] = @ + 1]
  /\ firstOrders' = [firstOrders EXCEPT ![UserOf(h)] =
                       IF handler[h].bonus THEN @ + 1 ELSE @]
  /\ HandlerGoto(h, "credit")
  /\ UNCHANGED <<orderRows, txnRows, walletOf, gateway, history, mishaps>>
  /\ HandlerUnchanged

(* The amount credited, in halves: the order, and half of it as bonus. *)
WalletAmount(h) ==
  LET n == request[OrderOf(h)].amount IN IF handler[h].bonus THEN 3 * n ELSE 2 * n

(* The effect of an AddBalance call that reached a wallet. *)
CreditWallet(h) ==
  LET o == OrderOf(h) IN
  /\ HasWallet(walletOf[UserOf(h)])
  /\ walletOf' = [walletOf EXCEPT ![UserOf(h)] = AddRows(@, AssetOf(h), WalletAmount(h))]
  /\ credits' = [credits EXCEPT ![o] = @ + 1]
  /\ bonuses' = [bonuses EXCEPT ![o] = IF handler[h].bonus THEN @ + 1 ELSE @]

RetryCredit(h) ==
  LET o == OrderOf(h) IN
  /\ AtStep(h, "credit")
  /\ \/ CreditWallet(h) /\ HandlerGoto(h, "referral") /\ UNCHANGED mishaps
     \/ CreditWallet(h) /\ Mishap /\ UNCHANGED handler
  /\ UNCHANGED <<tables, gateway, referrals, uncredited>>
  /\ HandlerUnchanged

IgnoreMissingWallet(h) ==
  /\ AtStep(h, "credit")
  /\ \/ CreditWallet(h)
     \/ ~HasWallet(walletOf[UserOf(h)]) /\ UNCHANGED <<walletOf, credits, bonuses>>
  /\ HandlerGoto(h, "referral")
  /\ UNCHANGED <<tables, gateway, referrals, uncredited, mishaps>>
  /\ HandlerUnchanged

(* addWalletBalance, after the commit: an answer, an error although the    *)
(* wallet was credited (the reply was lost), or no wallet to credit.  An   *)
(* error is returned to the browser and nothing calls AddBalance again.    *)
Credit(h) ==
  LET o == OrderOf(h) IN
  /\ AtStep(h, "credit")
  /\ \/ /\ CreditWallet(h)
        /\ HandlerGoto(h, "referral")
        /\ UNCHANGED <<uncredited, mishaps>>
     \/ /\ CreditWallet(h)
        /\ Mishap
        /\ Return(h)
        /\ UNCHANGED uncredited
     \/ /\ ~HasWallet(walletOf[UserOf(h)])
        /\ Return(h)
        /\ uncredited' = uncredited \union {o}
        /\ UNCHANGED <<walletOf, credits, bonuses, mishaps>>
  /\ UNCHANGED <<tables, gateway, referrals>>
  /\ HandlerUnchanged

(* processReferral, whose error is only logged; the SMS changes no state. *)
RequestReferral(h) ==
  /\ AtStep(h, "referral")
  /\ referrals' = [referrals EXCEPT ![OrderOf(h)] = @ + 1]
  /\ Return(h)
  /\ UNCHANGED <<tables, walletOf, gateway, credits, bonuses, uncredited, mishaps>>
  /\ HandlerUnchanged

HttpStatusAsCode(h) ==
  /\ AtStep(h, "failOrder")
  /\ orderStatus' = [orderStatus EXCEPT ![OrderOf(h)] = 500]
  /\ HandlerGoto(h, "failTxn")
  /\ UNCHANGED <<orderRows, txnRows, txn, payments, firstOrders, walletOf, gateway,
                 history, mishaps>>
  /\ HandlerUnchanged

(* markOrderAndTransactionFailed: two statements, neither of which looks   *)
(* at the status it overwrites; the second writes back the columns ref_id  *)
(* and token the handler read at its start.                                *)
FailOrder(h) ==
  /\ AtStep(h, "failOrder")
  /\ orderStatus' = [orderStatus EXCEPT ![OrderOf(h)] = handler[h].code]
  /\ HandlerGoto(h, "failTxn")
  /\ UNCHANGED <<orderRows, txnRows, txn, payments, firstOrders, walletOf, gateway,
                 history, mishaps>>
  /\ HandlerUnchanged

FailTxn(h) ==
  /\ AtStep(h, "failTxn")
  /\ txn' = [txn EXCEPT ![OrderOf(h)] = [handler[h].txn EXCEPT !.status = handler[h].code]]
  /\ Return(h)
  /\ UNCHANGED <<orderRows, orderStatus, txnRows, payments, firstOrders, walletOf,
                 gateway, history, mishaps>>
  /\ HandlerUnchanged

(* The next statement or call of h fails without effect, or the process    *)
(* stops: the handler ends here, and what it has done stays done.          *)
HandlerFails(h) ==
  /\ ~AtStep(h, "idle")
  /\ Mishap
  /\ Return(h)
  /\ uncredited' = IF AtStep(h, "credit") THEN uncredited \union {OrderOf(h)} ELSE uncredited
  /\ UNCHANGED <<tables, walletOf, gateway, credits, bonuses, referrals>>
  /\ HandlerUnchanged

HandlerStep(h) ==
  \/ Verify(h)
  \/ CheckBonus(h)
  \/ FinalizeTx(h)
  \/ Credit(h)
  \/ RequestReferral(h)
  \/ FailOrder(h)
  \/ FailTxn(h)

PaymentNext ==
  \/ \E o \in Orders : CreateStep(o) \/ Pay(o) \/ Cancel(o)
  \/ \E h \in Handlers : ReceiveCallback(h) \/ HandlerStep(h) \/ HandlerFails(h)

(* A goroutine that can take its next step eventually takes it; nothing    *)
(* makes a user pay or a browser deliver a callback.                       *)
Fairness == \A h \in Handlers : WF_paymentVars(HandlerStep(h))

PaymentSpec     == PaymentInit /\ [][PaymentNext]_paymentVars
FairPaymentSpec == PaymentSpec /\ Fairness

-----------------------------------------------------------------------------
(* Safety *)

(* However often and however concurrently a callback is delivered, a paid  *)
(* order is recorded once and credited once: HandleCallback never looks at *)
(* the order's status, it is the gateway's answer 107 to the second        *)
(* verification that keeps a handler from finalizing again.                *)
CreditedOnce == \A o \in Orders : payments[o] <= 1 /\ credits[o] <= payments[o]

(* An order shows success only if the gateway confirmed its payment and    *)
(* the payment is on record, in whatever order handlers overwrite statuses.*)
SuccessIsPaid ==
  \A o \in Orders :
    orderStatus[o] = Success \/ txn[o].status = Success =>
      gateway[o] = "verified" /\ payments[o] = 1

(* A recorded payment is never lost silently: it is credited, or a handler *)
(* is about to credit it, or the AddBalance call has returned an error.    *)
(* finalizeSuccessfulPayment credits after the commit, so the last case    *)
(* exists and is permanent.                                                *)
RecordedIsAccountedFor ==
  \A o \in Orders : payments[o] = 1 =>
    \/ credits[o] = 1
    \/ o \in uncredited
    \/ \E h \in Handlers : AtStep(h, "credit") /\ OrderOf(h) = o

(* The orders of u that were credited with the bonus. *)
BonusOrders(u) == {o \in Orders : request[o].user = u /\ bonuses[o] > 0}

(* Every bonus in a wallet has its first_orders row, and none is paid for  *)
(* an irr order, although the check, the row and the credit are three      *)
(* steps that interleave with those of the user's other orders.            *)
BonusIsOnRecord ==
  /\ \A u \in Buyers : Cardinality(BonusOrders(u)) <= firstOrders[u]
  /\ \A o \in Orders : bonuses[o] > 0 => request[o].asset # "irr"

(* A link is only handed out for an order whose rows are both there, so    *)
(* no payment's callback ends in "order not found", whatever failures and  *)
(* clean-ups CreateOrder went through.                                     *)
LinkHasRows ==
  \A o \in Orders : creation[o] = "linked" => o \in orderRows \intersect txnRows

(* The detailed specification implements the ledger. *)
Ledger == INSTANCE PaymentLedger WITH
  verified <- {o \in Orders : gateway[o] = "verified"},
  recorded <- payments,
  credited <- credits,
  rewarded <- referrals

(* Every step of every handler verifies, records, credits or rewards one   *)
(* order for the first time, in that order, or does none of these.         *)
ImplementsLedger == Ledger!Spec

-----------------------------------------------------------------------------
(* Liveness *)

(* Once a handler is about to verify a payment made at the gateway, the    *)
(* buyer who has a wallet is eventually credited, by this handler or by    *)
(* one that overtook it, unless something failed.                          *)
PaidIsCredited ==
  \A o \in Orders :
    (\E h \in Handlers : /\ AtStep(h, "verify") /\ OrderOf(h) = o
                         /\ gateway[o] = "paid" /\ HasWallet(walletOf[UserOf(h)]))
      ~> credits[o] = 1 \/ mishaps > 0
=============================================================================
