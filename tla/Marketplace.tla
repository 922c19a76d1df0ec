---------------------------- MODULE Marketplace ----------------------------
(***************************************************************************)
(* features-service: the marketplace.  BuyFeature buys a feature from the  *)
(* platform or from its owner; SendBuyRequest makes an offer and takes the *)
(* money from the buyer's wallet until AcceptBuyRequest, RejectBuyRequest  *)
(* or DeleteBuyRequest settles it.  CreateSellRequest puts a feature on    *)
(* sale, which changes its status, until DeleteSellRequest or a sale.      *)
(*                                                                         *)
(* Requests are goroutines; each call of the wallet client and each write  *)
(* to the database between two of them is one step.  The reads at the      *)
(* start of a handler, with the checks made of them, are one step, and     *)
(* what they read is used unchecked afterwards; a refused request is no    *)
(* step (the price floor and checkUnderpricedRestriction only refuse).     *)
(* Prices are in units; money is in twentieths of a unit, so that the fee  *)
(* of 5% is exact.  Every user has one wallet; what happens without one is *)
(* in module Wallet, and the hourly profit of a feature that is sold in    *)
(* module HourlyProfit.                                                    *)
(***************************************************************************)
EXTENDS Integers, Sequences, FiniteSets, FiniteSetsExt

CONSTANTS Features,
          Users,
          Rgb,             \* the platform's user
          Limited,         \* features sold in a campaign without price limit
          Stability,       \* the price of a platform feature in its colour
          Prices,          \* prices [psc, irr] that pass the price floor
          Funds,           \* each asset of each wallet at the start
          InitialOwner,    \* InitialOwner[f]
          InitialRequests, \* pending offers in the database, with their locks
          ParseWallet(_),  \* parseWalletString applied to the string of a balance
          Tasks,           \* goroutines that serve requests
          MaxAttempts,     \* how often the wallet client tries a call (3)
          MaxTasks,        \* bound: requests served in a behaviour
          MaxRequests,     \* bound: rows of buy_feature_requests
          MaxSales,        \* bound: rows of sell_feature_requests
          MaxFaults        \* bound: failures in a behaviour

Assets    == {"psc", "irr", "color"}
Price     == [psc: Nat, irr: Nat]
Accounts  == Users \union {Rgb}
Request   == [feature: Features, buyer: Users, seller: Accounts, price: Price,
              state: {"pending", "accepted", "refunded", "cancelled", "removed"}]
Sale      == [feature: Features, seller: Users, state: {"open", "completed", "removed"}]

ASSUME UsersAssumption ==
  /\ Users # {} /\ IsFiniteSet(Users) /\ Rgb \notin Users
  /\ Features # {} /\ Limited \subseteq Features
ASSUME PricesAssumption ==
  /\ Prices \subseteq Price /\ IsFiniteSet(Prices)
  /\ Stability \in Nat /\ Funds \in Nat
ASSUME InitialAssumption ==
  /\ InitialOwner \in [Features -> Accounts]
  /\ InitialRequests \in Seq(Request) /\ Len(InitialRequests) <= MaxRequests
  /\ \A r \in Range(InitialRequests) : r.state = "pending" /\ r.price \in Prices
ASSUME BoundsAssumption ==
  /\ Tasks # {} /\ IsFiniteSet(Tasks)
  /\ {MaxTasks, MaxRequests, MaxSales, MaxFaults, MaxAttempts} \subseteq Nat

VARIABLES owner,      \* owner[f]: column owner_id
          limited,    \* features whose status is "trading limited"
          priced,     \* features whose status is "sold and priced"
          sales,      \* the rows of sell_feature_requests, by id
          requests,   \* the rows of buy_feature_requests, by id
          locked,     \* ids that have a row in locked_wallets
          wallet,     \* wallet[u][a], kept by commercial-service
          task,       \* task[t]: what goroutine t is doing
          started, faults

vars == <<owner, limited, priced, sales, requests, locked, wallet, task, started, faults>>

Ids == 1..MaxRequests
(* asset: the asset of the next wallet call; todo: offers still to refund. *)
Task == [op: {"send", "accept", "reject", "delete", "buy", "rgb", "sell", "unsell"},
         pc: {"idle", "insert", "charge", "uncharge", "record", "pay", "unpay",
              "fee", "own", "cancel", "others", "refund", "repay", "release",
              "close", "commit", "complete", "list", "price", "unprice", "unlist"},
         asset: Assets, id: Nat, buyer: Users, seller: Accounts,
         feature: Features, price: Price, todo: SUBSET Ids]

Idle == [op |-> "send", pc |-> "idle", asset |-> "psc", id |-> 0,
         buyer |-> CHOOSE u \in Users : TRUE, seller |-> Rgb,
         feature |-> CHOOSE f \in Features : TRUE,
         price |-> [psc |-> 0, irr |-> 0], todo |-> {}]

TypeOK ==
  /\ owner \in [Features -> Accounts]
  /\ limited \subseteq Limited /\ priced \subseteq Features \ limited
  /\ sales \in Seq(Sale) /\ Len(sales) <= MaxSales
  /\ requests \in Seq(Request) /\ Len(requests) <= MaxRequests
  /\ locked \subseteq DOMAIN requests
  /\ wallet \in [Accounts -> [Assets -> Nat]]
  /\ task \in [Tasks -> Task]
  /\ started \in 0..MaxTasks
  /\ faults \in 0..MaxFaults

Init ==
  /\ owner = InitialOwner
  /\ limited = Limited /\ priced = {} /\ sales = <<>>
  /\ requests = InitialRequests
  /\ locked = DOMAIN InitialRequests
  /\ wallet = [u \in Accounts |-> [a \in Assets |-> Funds]]
  /\ task = [t \in Tasks |-> Idle]
  /\ started = 0 /\ faults = 0

-----------------------------------------------------------------------------
(* Prices, in twentieths of a unit *)

UnevenCharge(n)   == 20 * n
BuyerCharge(n)    == 20 * n + n        \* CalculateBuyerCharge
SellerPayment(n)  == 20 * n - n        \* CalculateSellerPayment
PlatformFee(n)    == 2 * n             \* CalculatePlatformFee

(* What the buyer pays of the task's asset. *)
Due(k) == IF k.op = "rgb" THEN 20 * Stability ELSE BuyerCharge(k.price[k.asset])

-----------------------------------------------------------------------------
(* The wallet client.  It repeats a call whose answer was lost, so a call  *)
(* may fail although it took effect, or take effect more than once (module *)
(* WalletClient).  ok and err are the task afterwards.                     *)

Fault == faults < MaxFaults /\ faults' = faults + 1
Set(t, k) == task' = [task EXCEPT ![t] = k]
Change(u, a, n) == wallet[u][a] + n >= 0 /\ wallet' = [wallet EXCEPT ![u][a] = @ + n]

(* A call that changes the balance by n each time it takes effect. *)
Unreliable(t, u, a, n, ok, err) ==
  /\ Fault
  /\ \/ Set(t, err) /\ \E times \in 0..MaxAttempts : Change(u, a, times * n)
     \/ Set(t, ok)  /\ \E times \in 2..MaxAttempts : Change(u, a, times * n)

AddBalance(t, u, a, n, ok, err) ==
  \/ Set(t, ok) /\ Change(u, a, n) /\ UNCHANGED faults
  \/ Unreliable(t, u, a, n, ok, err)

(* A deduction of zero that changes no row is refused, too (see Wallet). *)
DeductBalance(t, u, a, n, ok, err) ==
  \/ Set(t, ok) /\ Change(u, a, -n) /\ UNCHANGED faults
  \/ Set(t, err) /\ (wallet[u][a] < n \/ n = 0) /\ UNCHANGED <<wallet, faults>>
  \/ Unreliable(t, u, a, -n, ok, err)

(* CheckBalance compares with what parseWalletString makes of the balance. *)
CheckBalance(u, a, n) == ParseWallet(wallet[u][a]) >= n
CanAfford(u, p) == \A a \in {"psc", "irr"} : CheckBalance(u, a, BuyerCharge(p[a]))

(* After a call for psc the same call is made for irr; then comes pc. *)
BothThen(k, pc) == IF k.asset = "psc" THEN [k EXCEPT !.asset = "irr"]
                                      ELSE [k EXCEPT !.pc = pc, !.asset = "psc"]

-----------------------------------------------------------------------------
(* Offers *)

(* FindByID and GetAllForFeature see the rows that are not soft-deleted. *)
Live(i)          == i \in DOMAIN requests /\ requests[i].state = "pending"
LiveFor(f)       == {i \in DOMAIN requests : Live(i) /\ requests[i].feature = f}
HasPending(b, f) == \E i \in LiveFor(f) : requests[i].buyer = b

(* SoftDelete of a live row; a row that is gone stays gone. *)
SoftDelete(r, why) == IF r.state = "pending" THEN [r EXCEPT !.state = why] ELSE r

Begin(t) == task[t].pc = "idle" /\ started < MaxTasks /\ started' = started + 1
At(t, pc) == task[t].pc = pc
StatusUnchanged == UNCHANGED <<limited, priced>>
StoreUnchanged == UNCHANGED <<owner, limited, priced, sales, requests, locked>>
MoneyUnchanged == UNCHANGED <<wallet, faults>>

(* SendBuyRequest reads the feature's owner and makes its checks. *)
SendBuyRequest(t) ==
  /\ Begin(t)
  /\ \E f \in Features, b \in Users, p \in Prices :
       /\ ~HasPending(b, f)
       /\ p.psc > 0 \/ p.irr > 0
       /\ CanAfford(b, p)
       /\ Set(t, [Idle EXCEPT !.op = "send", !.pc = "insert", !.buyer = b,
                              !.seller = owner[f], !.feature = f, !.price = p])
  /\ StoreUnchanged /\ MoneyUnchanged

(* The row is inserted before the money is taken. *)
InsertRequest(t) ==
  LET k == task[t] IN
  /\ At(t, "insert")
  /\ Len(requests) < MaxRequests
  /\ \/ /\ requests' = Append(requests, [feature |-> k.feature, buyer |-> k.buyer,
                                 seller |-> k.seller, price |-> k.price,
                                 state |-> "pending"])
        /\ Set(t, [k EXCEPT !.pc = "charge", !.id = Len(requests) + 1])
        /\ UNCHANGED faults
     \/ Set(t, Idle) /\ Fault /\ UNCHANGED requests
  /\ UNCHANGED <<owner, limited, priced, sales, locked, wallet, started>>

ChargeWithoutRollback(t) ==
  LET k == task[t] IN
  /\ At(t, "charge")
  /\ DeductBalance(t, k.buyer, k.asset, Due(k),
       IF k.op = "rgb" THEN [k EXCEPT !.pc = "pay"]
       ELSE BothThen(k, IF k.op = "send" THEN "record" ELSE "pay"), Idle)
  /\ StoreUnchanged /\ UNCHANGED started

(* The buyer is charged; a refused irr charge takes the psc charge back. *)
Charge(t) ==
  LET k == task[t] IN
  /\ At(t, "charge")
  /\ DeductBalance(t, k.buyer, k.asset, Due(k),
       IF k.op = "rgb" THEN [k EXCEPT !.pc = "pay"]
       ELSE BothThen(k, IF k.op = "send" THEN "record" ELSE "pay"),
       IF k.asset = "irr" THEN [k EXCEPT !.pc = "uncharge", !.asset = "psc"] ELSE Idle)
  /\ StoreUnchanged /\ UNCHANGED started

(* The rollback, whose own error is ignored. *)
Uncharge(t) ==
  /\ At(t, "uncharge")
  /\ AddBalance(t, task[t].buyer, task[t].asset, Due(task[t]), Idle, Idle)
  /\ StoreUnchanged /\ UNCHANGED started

(* The row in locked_wallets; an error is only logged. *)
RecordLock(t) ==
  /\ At(t, "record")
  /\ \/ locked' = locked \union {task[t].id} /\ UNCHANGED faults
     \/ Fault /\ UNCHANGED locked
  /\ Set(t, Idle)
  /\ UNCHANGED <<owner, limited, priced, sales, requests, wallet, started>>

-----------------------------------------------------------------------------
(* The transaction of an acceptance holds the rows it wrote, those of the  *)
(* feature and of the request, until it ends; who writes them waits.       *)

InTransaction(t) ==
  task[t].op = "accept" /\ task[t].pc \in {"refund", "repay", "release", "close", "commit"}
FeatureHeld(f) == \E x \in Tasks : InTransaction(x) /\ task[x].feature = f
RequestHeld(i) == \E x \in Tasks : InTransaction(x) /\ task[x].id = i

(* What a sale makes of the feature's status and of its sell requests. *)
NotPriced(f) == limited' = limited \ {f} /\ priced' = priced \ {f}
Completed(f) == [i \in DOMAIN sales |-> IF sales[i].feature = f /\ sales[i].state = "open"
                                        THEN [sales[i] EXCEPT !.state = "completed"] ELSE sales[i]]

-----------------------------------------------------------------------------
(* RejectBuyRequest and DeleteBuyRequest, and the refunds of an acceptance *)

(* A task for request i, once it and its locked_wallets row were read. *)
For(i, op, pc) ==
  [Idle EXCEPT !.op = op, !.pc = pc, !.id = i, !.buyer = requests[i].buyer,
               !.seller = requests[i].seller, !.feature = requests[i].feature,
               !.price = requests[i].price]

RejectBuyRequest(t) ==
  /\ Begin(t)
  /\ \E i \in locked : Live(i) /\ Set(t, For(i, "reject", "repay"))
  /\ StoreUnchanged /\ MoneyUnchanged

DeleteBuyRequest(t) ==
  /\ Begin(t)
  /\ \E i \in locked : Live(i) /\ Set(t, For(i, "delete", "repay"))
  /\ StoreUnchanged /\ MoneyUnchanged

(* The request a task is refunding: its own, or the first of an            *)
(* acceptance's others.                                                    *)
Refunded(k) == IF k.op = "accept" THEN Min(k.todo) ELSE k.id

(* Both assets are returned.  An error ends a rejection or a deletion; in  *)
(* an acceptance it is ignored.                                            *)
Repay(t) ==
  LET k == task[t]
      r == requests[Refunded(k)]
      next == BothThen(k, "release") IN
  /\ At(t, "repay")
  /\ AddBalance(t, r.buyer, k.asset, BuyerCharge(r.price[k.asset]), next,
                IF k.op = "accept" THEN next ELSE Idle)
  /\ StoreUnchanged /\ UNCHANGED started

KeepLock(t) ==
  /\ At(t, "release")
  /\ Set(t, [task[t] EXCEPT !.pc = "close"])
  /\ UNCHANGED <<owner, limited, priced, sales, requests, locked, wallet, started, faults>>

(* The row in locked_wallets is deleted; an error is only logged. *)
Release(t) ==
  /\ At(t, "release") /\ ~RequestHeld(Refunded(task[t]))
  /\ \/ locked' = locked \ {Refunded(task[t])} /\ UNCHANGED faults
     \/ Fault /\ UNCHANGED locked
  /\ Set(t, [task[t] EXCEPT !.pc = "close"])
  /\ UNCHANGED <<owner, limited, priced, sales, requests, wallet, started>>

(* The request is deleted, or soft-deleted by an acceptance. *)
CloseRequest(t) ==
  LET k == task[t]
      i == Refunded(k) IN
  /\ At(t, "close") /\ ~RequestHeld(i)
  /\ \/ /\ requests' = [requests EXCEPT ![i] =
             IF k.op = "accept" THEN SoftDelete(@, "refunded")
                                ELSE [@ EXCEPT !.state = "removed"]]
        /\ UNCHANGED faults
     \/ Fault /\ UNCHANGED requests
  /\ Set(t, IF k.op = "accept" THEN [k EXCEPT !.pc = "refund", !.todo = @ \ {i}] ELSE Idle)
  /\ UNCHANGED <<owner, limited, priced, sales, locked, wallet, started>>

-----------------------------------------------------------------------------
(* AcceptBuyRequest *)

(* The caller is the seller the request names; the request is pending and  *)
(* has its locked_wallets row.  Who owns the feature is not looked at.     *)
AcceptBuyRequest(t) ==
  /\ Begin(t)
  /\ \E i \in locked : Live(i) /\ Set(t, For(i, "accept", "pay"))
  /\ StoreUnchanged /\ MoneyUnchanged

(* The seller is paid.  A failed irr payment takes the psc payment back in *)
(* an acceptance, a failed payment of the platform the buyer's charge.     *)
PaySeller(t) ==
  LET k == task[t] IN
  /\ At(t, "pay")
  /\ IF k.op = "rgb"
       THEN AddBalance(t, k.seller, "color", Due(k), [k EXCEPT !.pc = "own"],
                       [k EXCEPT !.pc = "uncharge"])
       ELSE AddBalance(t, k.seller, k.asset, SellerPayment(k.price[k.asset]),
              BothThen(k, "fee"),
              IF k.op = "accept" /\ k.asset = "irr" THEN [k EXCEPT !.pc = "unpay"]
                                                    ELSE Idle)
  /\ StoreUnchanged /\ UNCHANGED started

Unpay(t) ==
  LET k == task[t] IN
  /\ At(t, "unpay")
  /\ DeductBalance(t, k.seller, "psc", SellerPayment(k.price.psc), Idle, Idle)
  /\ StoreUnchanged /\ UNCHANGED started

(* The platform gets both fees, unless its user is not found; errors are   *)
(* ignored.                                                                *)
PayPlatform(t) ==
  LET k == task[t]
      after == IF k.op = "accept" THEN "others" ELSE "own"
      next == BothThen(k, after) IN
  /\ At(t, "fee")
  /\ \/ AddBalance(t, Rgb, k.asset, PlatformFee(k.price[k.asset]), next, next)
     \/ k.asset = "psc" /\ Set(t, [k EXCEPT !.pc = after]) /\ Fault /\ UNCHANGED wallet
  /\ StoreUnchanged /\ UNCHANGED started

(* The transaction's first statements, which may fail or wait for another  *)
(* acceptance for the feature; then the other live requests for it are     *)
(* read, outside of the transaction and with errors ignored.               *)
ReadOthers(t) ==
  LET k == task[t] IN
  /\ At(t, "others") /\ ~FeatureHeld(k.feature)
  /\ \/ /\ Set(t, [k EXCEPT !.pc = "refund", !.todo = LiveFor(k.feature) \ {k.id}])
        /\ UNCHANGED faults
     \/ task' \in {[task EXCEPT ![t] = Idle], [task EXCEPT ![t].pc = "refund"]} /\ Fault
  /\ UNCHANGED <<owner, limited, priced, sales, requests, locked, wallet, started>>

(* refundBuyRequest reads the request and its lock again.  Without a lock  *)
(* it returns, as after an error; with a lock but no live request it       *)
(* dereferences nil, which ends the handler (or, without the interceptor   *)
(* of shared/pkg/sentry, the process: see ProcessStops).                   *)
RefundOther(t) ==
  LET k == task[t]
      i == Min(k.todo) IN
  /\ At(t, "refund") /\ k.todo # {}
  /\ \/ /\ i \in locked /\ Live(i)
        /\ Set(t, [k EXCEPT !.pc = "repay"]) /\ UNCHANGED faults
     \/ i \in locked /\ ~Live(i) /\ Set(t, Idle) /\ UNCHANGED faults
     \/ /\ IF i \in locked THEN Fault ELSE UNCHANGED faults
        /\ Set(t, [k EXCEPT !.todo = @ \ {i}])
  /\ UNCHANGED <<owner, limited, priced, sales, requests, locked, wallet, started>>

OthersDone(t) ==
  /\ At(t, "refund") /\ task[t].todo = {}
  /\ Set(t, [task[t] EXCEPT !.pc = "commit"])
  /\ UNCHANGED <<owner, limited, priced, sales, requests, locked, wallet, started, faults>>

CommitKeepsLock(t) ==
  LET k == task[t] IN
  /\ At(t, "commit")
  /\ owner' = [owner EXCEPT ![k.feature] = k.buyer]
  /\ NotPriced(k.feature) /\ sales' = Completed(k.feature)
  /\ requests' = [requests EXCEPT ![k.id].state = IF @ = "removed" THEN @ ELSE "accepted"]
  /\ Set(t, Idle)
  /\ UNCHANGED <<locked, wallet, started, faults>>

(* The commit: ownership, the status of the feature, of the request and of *)
(* the sell requests, and the deletion of its lock become visible          *)
(* together, or not at all.                                                *)
Commit(t) ==
  LET k == task[t] IN
  /\ At(t, "commit")
  /\ \/ /\ owner' = [owner EXCEPT ![k.feature] = k.buyer]
        /\ NotPriced(k.feature) /\ sales' = Completed(k.feature)
        /\ requests' = [requests EXCEPT ![k.id].state =
                          IF @ = "removed" THEN @ ELSE "accepted"]
        /\ locked' = locked \ {k.id}
        /\ UNCHANGED faults
     \/ Fault /\ StoreUnchanged
  /\ Set(t, Idle)
  /\ UNCHANGED <<wallet, started>>

-----------------------------------------------------------------------------
(* BuyFeature *)

(* handleLimitedFeature and buyFromRGB: the colour is charged and credited *)
(* to the owner; only the second looks at the balance first.               *)
BuyFromRgb(t) ==
  /\ Begin(t)
  /\ \E f \in Features, b \in Users :
       /\ \/ f \in limited
          \/ owner[f] = Rgb /\ CheckBalance(b, "color", 20 * Stability)
       /\ Set(t, [Idle EXCEPT !.op = "rgb", !.pc = "charge", !.asset = "color",
                              !.buyer = b, !.seller = owner[f], !.feature = f])
  /\ StoreUnchanged /\ MoneyUnchanged

(* buyFromUser, at the price the feature has (any price of Prices). *)
BuyFromUser(t) ==
  /\ Begin(t)
  /\ \E f \in Features \ limited, b \in Users, p \in Prices :
       /\ owner[f] # Rgb
       /\ CanAfford(b, p)
       /\ Set(t, [Idle EXCEPT !.op = "buy", !.pc = "charge", !.buyer = b,
                              !.seller = owner[f], !.feature = f, !.price = p])
  /\ StoreUnchanged /\ MoneyUnchanged

(* UpdateOwner and UpdateStatus, unless the trade or one of them fails:    *)
(* then the handler ends with the money paid.                              *)
TransferOwnership(t) ==
  LET k == task[t] IN
  /\ At(t, "own") /\ ~FeatureHeld(k.feature)
  /\ \/ /\ owner' = [owner EXCEPT ![k.feature] = k.buyer]
        /\ NotPriced(k.feature)
        /\ Set(t, IF k.op = "buy" THEN [k EXCEPT !.pc = "cancel"] ELSE Idle)
        /\ UNCHANGED faults
     \/ /\ owner' \in {owner, [owner EXCEPT ![k.feature] = k.buyer]}
        /\ Set(t, Idle) /\ Fault /\ StatusUnchanged
  /\ UNCHANGED <<sales, requests, locked, wallet, started>>

(* CancelAllForFeature soft-deletes the offers; their locks stay. *)
CancelRequests(t) ==
  LET k == task[t] IN
  /\ At(t, "cancel") /\ ~FeatureHeld(k.feature)
  /\ \/ /\ requests' = [i \in DOMAIN requests |->
             IF requests[i].feature = k.feature THEN SoftDelete(requests[i], "cancelled")
                                                ELSE requests[i]]
        /\ UNCHANGED faults
     \/ Fault /\ UNCHANGED requests
  /\ Set(t, [k EXCEPT !.pc = "complete"])
  /\ UNCHANGED <<owner, limited, priced, sales, locked, wallet, started>>

KeepSales(t) ==
  /\ At(t, "complete")
  /\ Set(t, Idle)
  /\ UNCHANGED <<owner, limited, priced, sales, requests, locked, wallet, started, faults>>

(* UpdateAllForFeatureToCompleted; an error is only logged. *)
CompleteSales(t) ==
  LET k == task[t] IN
  /\ At(t, "complete")
  /\ \/ sales' = Completed(k.feature) /\ UNCHANGED faults
     \/ Fault /\ UNCHANGED sales
  /\ Set(t, Idle)
  /\ UNCHANGED <<owner, limited, priced, requests, locked, wallet, started>>

-----------------------------------------------------------------------------
(* Sell requests *)

(* CreateSellRequest by the owner, at a price the limits allow.  That the  *)
(* platform puts a feature on sale is left out: nobody logs in as its user. *)
CreateSellRequest(t) ==
  /\ Begin(t)
  /\ \E f \in Features :
       /\ owner[f] # Rgb
       /\ Set(t, [Idle EXCEPT !.op = "sell", !.pc = "list", !.seller = owner[f], !.feature = f])
  /\ StoreUnchanged /\ MoneyUnchanged

(* Whether the feature is on sale already is not looked at. *)
InsertSale(t) ==
  LET k == task[t] IN
  /\ At(t, "list") /\ Len(sales) < MaxSales
  /\ \/ /\ sales' = Append(sales, [feature |-> k.feature, seller |-> k.seller, state |-> "open"])
        /\ Set(t, [k EXCEPT !.pc = "price"]) /\ UNCHANGED faults
     \/ Set(t, Idle) /\ Fault /\ UNCHANGED sales
  /\ UNCHANGED <<owner, limited, priced, requests, locked, wallet, started>>

SetPriced(t) ==
  LET f == task[t].feature IN
  /\ At(t, "price") /\ ~FeatureHeld(f)
  /\ \/ limited' = limited \ {f} /\ priced' = priced \union {f} /\ UNCHANGED faults
     \/ Fault /\ StatusUnchanged
  /\ Set(t, Idle)
  /\ UNCHANGED <<owner, sales, requests, locked, wallet, started>>

(* DeleteSellRequest by the seller it names, be it completed or not. *)
DeleteSellRequest(t) ==
  /\ Begin(t)
  /\ \E i \in DOMAIN sales :
       /\ sales[i].state # "removed"
       /\ Set(t, [Idle EXCEPT !.op = "unsell", !.pc = "unprice", !.id = i,
                              !.seller = sales[i].seller, !.feature = sales[i].feature])
  /\ StoreUnchanged /\ MoneyUnchanged

Unprice(t) ==
  LET k == task[t] IN
  /\ At(t, "unprice") /\ ~FeatureHeld(k.feature)
  /\ \/ NotPriced(k.feature) /\ Set(t, [k EXCEPT !.pc = "unlist"]) /\ UNCHANGED faults
     \/ Set(t, Idle) /\ Fault /\ StatusUnchanged
  /\ UNCHANGED <<owner, sales, requests, locked, wallet, started>>

RemoveSale(t) ==
  /\ At(t, "unlist")
  /\ \/ sales' = [sales EXCEPT ![task[t].id].state = "removed"] /\ UNCHANGED faults
     \/ Fault /\ UNCHANGED sales
  /\ Set(t, Idle)
  /\ UNCHANGED <<owner, limited, priced, requests, locked, wallet, started>>

Step(t) ==
  \/ SendBuyRequest(t)   \/ InsertRequest(t) \/ Charge(t) \/ Uncharge(t) \/ RecordLock(t)
  \/ RejectBuyRequest(t) \/ DeleteBuyRequest(t)
  \/ Repay(t) \/ Release(t) \/ CloseRequest(t)
  \/ AcceptBuyRequest(t) \/ PaySeller(t) \/ Unpay(t) \/ PayPlatform(t)
  \/ ReadOthers(t) \/ RefundOther(t) \/ OthersDone(t) \/ Commit(t)
  \/ BuyFromRgb(t) \/ BuyFromUser(t) \/ TransferOwnership(t) \/ CancelRequests(t)
  \/ CompleteSales(t)
  \/ CreateSellRequest(t) \/ InsertSale(t) \/ SetPriced(t)
  \/ DeleteSellRequest(t) \/ Unprice(t) \/ RemoveSale(t)

(* The process stops, by a panic or from outside, and is restarted: all    *)
(* handlers end where they are and open transactions are rolled back.      *)
ProcessStops ==
  /\ \E t \in Tasks : ~At(t, "idle")
  /\ Fault
  /\ task' = [t \in Tasks |-> Idle]
  /\ UNCHANGED <<owner, limited, priced, sales, requests, locked, wallet, started>>

Next == ProcessStops \/ \E t \in Tasks : Step(t)

Spec == Init /\ [][Next]_vars

-----------------------------------------------------------------------------
(* Properties *)

AllIdle == \A t \in Tasks : task[t].pc = "idle"

(* What there is of an asset: in wallets, and taken for the offers that    *)
(* have a row in locked_wallets.                                           *)
Reserve(rows, a) ==
  [i \in DOMAIN rows |-> IF a = "color" THEN 0 ELSE BuyerCharge(rows[i].price[a])]
InWallets(a)     == SumFunctionOnSet([u \in Accounts |-> wallet[u][a]], Accounts)
InOffers(a)      == SumFunctionOnSet(Reserve(requests, a), locked)
InitialMoney(a)  ==
  Cardinality(Accounts) * Funds
    + SumFunctionOnSet(Reserve(InitialRequests, a), DOMAIN InitialRequests)

(* Requests one at a time and without failures neither create nor destroy  *)
(* money, whatever sequence of offers, refunds and sales they make: the    *)
(* buyer's 105% are the seller's 95% and the platform's 10%                *)
(* (config.go:8-11), and every refund returns what was taken.              *)
Conservation ==
  AllIdle /\ faults = 0 => \A a \in Assets : InWallets(a) + InOffers(a) = InitialMoney(a)

(* Requests that overlap may pay an offer out twice, to a seller who       *)
(* accepts it and a buyer who withdraws it, but they never make money      *)
(* disappear: what was taken from a buyer is in a wallet or in a row of    *)
(* locked_wallets when all of them are done.                               *)
NothingDestroyed ==
  AllIdle /\ faults = 0 => \A a \in Assets : InWallets(a) + InOffers(a) >= InitialMoney(a)

(* When requests come one at a time, for prices in both assets, a live     *)
(* offer has its money set aside, and money is set aside only for offers   *)
(* that can still be settled or that a direct purchase cancelled (those    *)
(* CancelAllForFeature leaves with their money taken).                     *)
OffersAreBacked ==
  AllIdle /\ faults = 0 =>
    \A i \in DOMAIN requests :
      /\ Live(i) => i \in locked
      /\ i \in locked => requests[i].state \in {"pending", "cancelled"}

(* When requests come one at a time, an offer that can be accepted names   *)
(* the owner of its feature, or the platform, as the seller: a sale closes *)
(* the offers made to the previous owner.                                  *)
OffersNameTheOwner ==
  AllIdle /\ faults = 0 =>
    \A i \in locked : Live(i) => requests[i].seller \in {owner[requests[i].feature], Rgb}

(* When requests come one at a time, an open sell request names the owner  *)
(* of its feature, and a feature with the status "sold and priced" has one *)
(* (the converse fails: a deletion changes the status whatever other       *)
(* requests there are).                                                    *)
SalesNameTheOwner ==
  AllIdle /\ faults = 0 =>
    /\ \A i \in DOMAIN sales : sales[i].state = "open" => sales[i].seller = owner[sales[i].feature]
    /\ \A f \in priced : \E i \in DOMAIN sales : sales[i].feature = f /\ sales[i].state = "open"

(* A failure, a stop of the process between taking an offer's money and    *)
(* recording it or between paying a seller and the commit included, does   *)
(* limited harm: with requests one at a time it makes at most one price    *)
(* per attempt of a wallet call disappear or be paid twice, whatever       *)
(* requests come after it.                                                 *)
LargestCharge == Max({BuyerCharge(p.psc) : p \in Prices} \union {BuyerCharge(p.irr) : p \in Prices}
                       \union {20 * Stability})
HarmIsBounded ==
  AllIdle => \A a \in Assets :
    LET harm == InWallets(a) + InOffers(a) - InitialMoney(a)
        most == faults * MaxAttempts * LargestCharge
    IN  harm \in -most .. most

(* With requests one at a time, who can sell a feature is its owner. *)
SellerInv == TypeOK /\ OffersNameTheOwner /\ SalesNameTheOwner
=============================================================================
