--------------------------- MODULE MarketplaceProofs ---------------------------
(***************************************************************************)
(* The marketplace, for any users, features, prices and initial offers:    *)
(* however many requests overlap, no money disappears; and when requests   *)
(* come one at a time, money is conserved, a failure does bounded harm,    *)
(* offers are backed by money, and who can sell a feature is its owner.    *)
(***************************************************************************)
EXTENDS Marketplace, TableLemmas

(* Requests come one at a time: there is one goroutine to serve them. *)
OneAtATime == \A t, u \in Tasks : t = u

-----------------------------------------------------------------------------
(* What a request in progress is and knows *)

(* The steps of each handler. *)
OnCourse(k) ==
  \/ k.pc = "idle"
  \/ k.op = "send" /\ k.pc \in {"insert", "charge", "uncharge", "record"}
  \/ k.op = "buy" /\ k.pc \in {"charge", "uncharge", "pay", "fee", "own", "cancel", "complete"}
  \/ k.op = "rgb" /\ k.pc \in {"charge", "uncharge", "pay", "own"}
  \/ /\ k.op = "accept"
     /\ k.pc \in {"pay", "unpay", "fee", "others", "refund", "repay", "release", "close", "commit"}
  \/ k.op \in {"reject", "delete"} /\ k.pc \in {"repay", "release", "close"}
  \/ k.op = "sell" /\ k.pc \in {"list", "price"}
  \/ k.op = "unsell" /\ k.pc \in {"unprice", "unlist"}

(* A purchase from the platform is paid in its colour, others in psc and   *)
(* irr, and only a step that handles both assets is ever at irr.           *)
AssetFits(k) ==
  IF k.op = "rgb" THEN k.asset = "color"
  ELSE \/ k.asset = "psc"
       \/ k.asset = "irr" /\ k.pc \in {"charge", "pay", "unpay", "fee", "repay"}

(* The requests whose handlers work on a row of buy_feature_requests. *)
Inserted(k) == k.op = "send" /\ k.pc \in {"charge", "uncharge", "record"}
Settling(k) == k.op \in {"accept", "reject", "delete"} /\ k.pc # "idle"

(* What a handler read of its row and of its price stays true. *)
KnowsItsRow(k) ==
  /\ Inserted(k) \/ Settling(k) => k.id \in DOMAIN requests /\ requests[k.id].price = k.price
  /\ k.pc # "idle" /\ k.op \in {"send", "buy", "accept", "reject", "delete"} => k.price \in Prices
  /\ k.op = "accept" =>
       /\ k.todo \subseteq DOMAIN requests
       /\ k.pc \in {"repay", "release", "close"} => k.todo # {}

(* So do the seller of a sell request and the row that is removed. *)
KnowsItsSale(k) ==
  /\ k.op = "sell" => k.pc = "idle" \/ k.seller \in Users
  /\ k.op = "unsell" => k.pc = "idle" \/ k.id \in DOMAIN sales

TaskOK(k) == OnCourse(k) /\ AssetFits(k) /\ KnowsItsRow(k) /\ KnowsItsSale(k)

(* An offer that is being paid for has no row in locked_wallets yet, and   *)
(* one goroutine pays for it.                                              *)
LocksAreNew ==
  \A t \in Tasks : Inserted(task[t]) =>
    /\ task[t].id \notin locked
    /\ \A u \in Tasks : Inserted(task[u]) /\ task[u].id = task[t].id => u = t

IInv ==
  /\ TypeOK
  /\ \A t \in Tasks : TaskOK(task[t])
  /\ LocksAreNew
  /\ \A i \in DOMAIN requests : requests[i].price \in Prices

-----------------------------------------------------------------------------
(* Money *)

(* A two-asset step that is at irr is done with psc. *)
DoneWith(k, a) == a = "psc" /\ k.asset = "irr"
Only(b, n)     == IF b THEN n ELSE 0

(* Taken from a buyer, and neither paid on nor in a row of locked_wallets. *)
Coming(k, a) ==
  Only(\/ k.pc = "charge" /\ DoneWith(k, a)
       \/ k.pc = "uncharge" /\ a = "psc"
       \/ k.op = "send" /\ k.pc = "record"
       \/ k.op = "buy" /\ k.pc \in {"pay", "fee"}, BuyerCharge(k.price[a]))

(* Paid to the seller and the platform, while the lock is still there. *)
Going(k, a) ==
  Only(\/ k.pc = "pay" /\ DoneWith(k, a)
       \/ k.pc = "unpay" /\ a = "psc"
       \/ k.pc = "fee", SellerPayment(k.price[a]))
  + Only(k.pc = "fee" /\ DoneWith(k, a), PlatformFee(k.price[a]))
  + Only(k.op = "accept" /\ k.pc \in {"others", "refund", "repay", "release", "close", "commit"},
         BuyerCharge(k.price[a]))

(* Returned to a buyer, while the lock of the offer is still there. *)
Returning(k, a) ==
  Only(\/ k.pc = "repay" /\ DoneWith(k, a)
       \/ k.pc = "release", BuyerCharge(requests[Refunded(k)].price[a]))

(* What a request has taken and not given, so far. *)
Flight(k, a) ==
  IF k.op = "rgb" THEN Only(a = "color" /\ k.pc \in {"pay", "uncharge"}, 20 * Stability)
  ELSE IF a = "color" THEN 0
  ELSE Coming(k, a) - Going(k, a) - Returning(k, a)

InFlight(a) == SumFunctionOnSet([t \in Tasks |-> Flight(task[t], a)], Tasks)
Total(a)    == InWallets(a) + InOffers(a) + InFlight(a)

(* Nothing disappears while nothing fails. *)
NothingLost == faults = 0 => \A a \in Assets : Total(a) >= InitialMoney(a)

-----------------------------------------------------------------------------
(* Requests one at a time *)

(* A handler that nobody interferes with finds its locks and live requests *)
(* as it read them, and can take back what it paid.                        *)
Alone(k) ==
  /\ k.op \in {"reject", "delete"} /\ k.pc \in {"repay", "release"} => k.id \in locked
  /\ k.op = "accept" /\ k.pc # "idle" =>
       /\ k.id \in locked \ k.todo
       /\ \A i \in k.todo : Live(i)
       /\ k.pc \in {"repay", "release"} => Refunded(k) \in locked
       /\ k.pc = "unpay" \/ (k.pc = "pay" /\ k.asset = "irr") =>
            wallet[k.seller]["psc"] >= SellerPayment(k.price["psc"])

AllAlone == \A t \in Tasks : Alone(task[t])

(* What can be lost or paid twice with each failure. *)
Harm == MaxAttempts * LargestCharge
HarmSoFar == \A a \in Assets : Total(a) - InitialMoney(a) \in -(faults * Harm) .. (faults * Harm)

-----------------------------------------------------------------------------
(* Offers, one request at a time and without failures *)

BothPriced == \A p \in Prices : p.psc > 0 /\ p.irr > 0

(* parseWalletString makes no balance larger than it is (it returns 0).    *)
NeverOverstates == \A n \in Nat : ParseWallet(n) \in Nat /\ ParseWallet(n) <= n

(* The balance that was checked is still there to be charged. *)
Affordable(k) ==
  k.op = "send" =>
    /\ k.pc # "uncharge"
    /\ k.pc = "insert" \/ (k.pc = "charge" /\ k.asset = "psc") =>
         wallet[k.buyer]["psc"] >= BuyerCharge(k.price["psc"])
    /\ k.pc = "insert" \/ k.pc = "charge" =>
         wallet[k.buyer]["irr"] >= BuyerCharge(k.price["irr"])

(* A live offer has its lock, or a request is about to give it one or to   *)
(* close it, after its lock was deleted.                                   *)
BackedBut(k) ==
  /\ \A i \in DOMAIN requests : Live(i) =>
       \/ i \in locked
       \/ Inserted(k) /\ k.id = i
       \/ k.pc = "close" /\ Refunded(k) = i
  /\ \A i \in locked : requests[i].state \in {"pending", "cancelled"}
  /\ Inserted(k) => Live(k.id)
  /\ k.pc = "close" => Refunded(k) \notin locked

Backed(k) == Affordable(k) /\ BackedBut(k)
BackedInv == faults = 0 => \A t \in Tasks : Backed(task[t])

(* The platform sells what is limited, and initial offers name the owner. *)
RightlyNamed ==
  /\ \A r \in Range(InitialRequests) : r.seller \in {InitialOwner[r.feature], Rgb}
  /\ \A f \in Limited : InitialOwner[f] = Rgb

(* What a request knows of its row and of the owner of its feature. *)
OwnerKnown(k) ==
  /\ k.op \in {"send", "sell"} /\ k.pc # "idle" => k.seller = owner[k.feature]
  /\ k.op = "rgb" /\ k.pc # "idle" => owner[k.feature] = Rgb
  /\ Inserted(k) => requests[k.id].feature = k.feature /\ requests[k.id].seller = k.seller

(* An acceptance will have refunded all the other offers that could still  *)
(* be settled when it commits.                                             *)
OthersListed(k) ==
  k.op = "accept" /\ k.pc \in {"refund", "repay", "release", "close", "commit"} =>
    /\ \A i \in locked :
         Live(i) /\ requests[i].feature = k.feature => i \in k.todo \union {k.id}
    /\ k.pc = "commit" => k.todo = {}

(* Offers and sell requests name the owner, but those that a purchase is   *)
(* about to cancel or complete.                                            *)
NamedBut(k) ==
  /\ \A f \in limited : owner[f] = Rgb
  /\ \A i \in locked : Live(i) =>
       \/ requests[i].seller \in {owner[requests[i].feature], Rgb}
       \/ k.pc = "cancel" /\ requests[i].feature = k.feature
  /\ \A i \in DOMAIN sales : sales[i].state = "open" =>
       \/ sales[i].seller = owner[sales[i].feature]
       \/ k.pc \in {"cancel", "complete"} /\ sales[i].feature = k.feature

(* A feature has its status because it is on sale. *)
OnSale(f) == \E i \in DOMAIN sales : sales[i].feature = f /\ sales[i].state = "open"
PricedBut(k) ==
  /\ \A f \in priced : OnSale(f)
  /\ k.op = "sell" /\ k.pc = "price" => OnSale(k.feature)
  /\ k.op = "unsell" /\ k.pc # "idle" => sales[k.id].feature = k.feature
  /\ k.pc \in {"cancel", "complete", "unlist"} => k.feature \notin priced

Named(k) == OwnerKnown(k) /\ OthersListed(k) /\ NamedBut(k) /\ PricedBut(k)
NamedInv == faults = 0 => \A t \in Tasks : Named(task[t])

-----------------------------------------------------------------------------
(* Tasks *)

Steps == {"idle", "insert", "charge", "uncharge", "record", "pay", "unpay",
          "fee", "own", "cancel", "others", "refund", "repay", "release",
          "close", "commit", "complete", "list", "price", "unprice", "unlist"}

(* The same request at another step. *)
Same(j, k) ==
  /\ j.op = k.op /\ j.id = k.id /\ j.buyer = k.buyer /\ j.seller = k.seller
  /\ j.feature = k.feature /\ j.price = k.price /\ j.todo = k.todo

(* A goroutine that serves nothing. *)
LEMMA IdleFits ==
  /\ Idle \in Task /\ Idle.pc = "idle" /\ Idle.op = "send" /\ Idle.asset = "psc"
  /\ Idle.todo = {} /\ TaskOK(Idle) /\ ~ Inserted(Idle)
<1>1. (CHOOSE u \in Users : TRUE) \in Users /\ (CHOOSE f \in Features : TRUE) \in Features
  BY UsersAssumption
<1>2. /\ Idle \in Task /\ Idle.pc = "idle" /\ Idle.op = "send" /\ Idle.asset = "psc"
      /\ Idle.todo = {}
  BY <1>1 DEF Idle, Task, Assets, Accounts, Price
<1> QED BY <1>2 DEF TaskOK, OnCourse, AssetFits, KnowsItsRow, KnowsItsSale, Inserted, Settling

(* A request that goes on to another step. *)
LEMMA AtStep ==
  ASSUME NEW k \in Task, NEW pc \in Steps, NEW j, j = [k EXCEPT !.pc = pc]
  PROVE  j \in Task /\ j.pc = pc /\ j.asset = k.asset /\ Same(j, k)
BY DEF Task, Steps, Same

(* A request that goes on to the other asset, or to another step.          *)
LEMMA AfterBoth ==
  ASSUME NEW k \in Task, NEW pc \in Steps, NEW j, j = BothThen(k, pc)
  PROVE  /\ j \in Task /\ Same(j, k)
         /\ k.asset = "psc" => j.pc = k.pc /\ j.asset = "irr"
         /\ k.asset # "psc" => j.pc = pc /\ j.asset = "psc"
<1>1. CASE k.asset = "psc"
  <2>1. j = [k EXCEPT !.asset = "irr"]
    BY <1>1 DEF BothThen
  <2> QED BY <1>1, <2>1 DEF Task, Assets, Same
<1>2. CASE k.asset # "psc"
  <2>1. j = [k EXCEPT !.pc = pc, !.asset = "psc"]
    BY <1>2 DEF BothThen
  <2> QED BY <1>2, <2>1 DEF Task, Assets, Steps, Same
<1> QED BY <1>1, <1>2

(* The tables, the wallets and the counters have their types. *)
TablesOK ==
  /\ owner \in [Features -> Accounts]
  /\ limited \subseteq Limited /\ priced \subseteq Features \ limited
  /\ sales \in Seq(Sale) /\ Len(sales) <= MaxSales
  /\ requests \in Seq(Request) /\ Len(requests) <= MaxRequests
  /\ locked \subseteq DOMAIN requests
  /\ wallet \in [Accounts -> [Assets -> Nat]]
  /\ started \in 0..MaxTasks
  /\ faults \in 0..MaxFaults
  /\ \A i \in DOMAIN requests : requests[i].price \in Prices

(* Rows stay where they are, and the price of an offer does not change. *)
RowsStay ==
  /\ \A i \in DOMAIN requests : i \in DOMAIN requests' /\ requests'[i].price = requests[i].price
  /\ \A i \in DOMAIN sales : i \in DOMAIN sales'

(* What a request knows stays true. *)
LEMMA TaskKept ==
  ASSUME NEW k, TaskOK(k), RowsStay
  PROVE  TaskOK(k)'
BY DEF TaskOK, OnCourse, AssetFits, KnowsItsRow, KnowsItsSale, Inserted, Settling, RowsStay

(* A step that moves one request to k keeps the invariant. *)
LEMMA Moves ==
  ASSUME IInv, TablesOK', RowsStay, NEW t \in Tasks, NEW k \in Task,
         task' = [task EXCEPT ![t] = k], TaskOK(k)',
         Inserted(k) => k.id \notin locked',
         \A u \in Tasks \ {t} : Inserted(task[u]) =>
           task[u].id \notin locked' /\ (Inserted(k) => task[u].id # k.id)
  PROVE  IInv'
<1>1. /\ task \in [Tasks -> Task]
      /\ \A u \in Tasks : TaskOK(task[u])
  BY DEF IInv, TypeOK
<1>2. /\ task' \in [Tasks -> Task] /\ task'[t] = k
      /\ \A u \in Tasks \ {t} : task'[u] = task[u]
  BY <1>1
<1>3. \A u \in Tasks : TaskOK(task[u])'
  <2> SUFFICES ASSUME NEW u \in Tasks PROVE TaskOK(task[u])'
    OBVIOUS
  <2>1. CASE u = t
    BY <1>2, <2>1 DEF TaskOK, OnCourse, AssetFits, KnowsItsRow, KnowsItsSale, Inserted, Settling
  <2>2. CASE u # t
    <3>1. PICK j : j = task[u]
      OBVIOUS
    <3>2. TaskOK(j)
      BY <1>1, <3>1
    <3>3. TaskOK(j)'
      BY <3>2, TaskKept
    <3>4. task'[u] = j
      BY <1>2, <2>2, <3>1
    <3> QED BY <3>3, <3>4
          DEF TaskOK, OnCourse, AssetFits, KnowsItsRow, KnowsItsSale, Inserted, Settling
  <2> QED BY <2>1, <2>2
<1>4. LocksAreNew'
  <2>1. \A u \in Tasks : Inserted(task[u]) =>
          \A v \in Tasks : Inserted(task[v]) /\ task[v].id = task[u].id => v = u
    BY DEF IInv, LocksAreNew
  <2>2. \A u \in Tasks : Inserted(task[u])' => task'[u].id \notin locked'
    BY <1>2 DEF Inserted
  <2>3. \A u \in Tasks : Inserted(task[u])' =>
          \A v \in Tasks : Inserted(task[v])' /\ task'[v].id = task'[u].id => v = u
    BY <1>2, <2>1 DEF Inserted
  <2> QED BY <2>2, <2>3 DEF LocksAreNew
<1> QED BY <1>2, <1>3, <1>4 DEF IInv, TypeOK, TablesOK

(* A step that inserts no offer and takes no lock. *)
LEMMA Continues ==
  ASSUME IInv, TablesOK', RowsStay, locked' \subseteq locked,
         NEW t \in Tasks, NEW k \in Task, Set(t, k), TaskOK(k),
         Inserted(k) => Inserted(task[t]) /\ k.id = task[t].id
  PROVE  IInv'
<1>1. TaskOK(k)'
  BY TaskKept
<1>2. Inserted(k) => k.id \notin locked'
  BY DEF IInv, LocksAreNew
<1>3. \A u \in Tasks \ {t} : Inserted(task[u]) =>
        task[u].id \notin locked' /\ (Inserted(k) => task[u].id # k.id)
  BY DEF IInv, LocksAreNew
<1>4. task' = [task EXCEPT ![t] = k]
  BY DEF Set
<1> QED BY <1>1, <1>2, <1>3, <1>4, Moves

(* A step that changes nothing but its request, wallets and counters. *)
LEMMA ContinuesOnly ==
  ASSUME IInv, StoreUnchanged, wallet' \in [Accounts -> [Assets -> Nat]],
         started' \in 0..MaxTasks, faults' \in 0..MaxFaults,
         NEW t \in Tasks, NEW k \in Task, Set(t, k), TaskOK(k),
         Inserted(k) => Inserted(task[t]) /\ k.id = task[t].id
  PROVE  IInv'
<1>1. RowsStay /\ locked' \subseteq locked
  BY DEF RowsStay, StoreUnchanged
<1>2. TablesOK'
  BY DEF TablesOK, StoreUnchanged, IInv, TypeOK
<1> QED BY <1>1, <1>2, Continues

(* What is known of the request that takes a step. *)
LEMMA Known ==
  ASSUME IInv, NEW t \in Tasks
  PROVE  /\ task[t] \in Task /\ TaskOK(task[t]) /\ TablesOK
         /\ started \in 0..MaxTasks /\ faults \in 0..MaxFaults
         /\ wallet \in [Accounts -> [Assets -> Nat]]
BY DEF IInv, TypeOK, TablesOK

(* A failure is counted. *)
LEMMA FaultCounts ==
  ASSUME faults \in 0..MaxFaults, Fault
  PROVE  faults' \in 0..MaxFaults /\ faults' = faults + 1
BY BoundsAssumption DEF Fault

(* A handler that ends. *)
LEMMA Ends ==
  ASSUME IInv, TablesOK', RowsStay, locked' \subseteq locked, NEW t \in Tasks, Set(t, Idle)
  PROVE  IInv'
BY IdleFits, Continues

-----------------------------------------------------------------------------
(* The wallet client *)

(* The asset u[w] changes by n, a number of times that is 1 unless a       *)
(* failure is counted, and the request goes on to ok or, after a failure,  *)
(* perhaps to err.                                                         *)
Called(t, u, w, n, ok, err) ==
  \E times \in Nat :
    /\ wallet' = [wallet EXCEPT ![u][w] = @ + times * n]
    /\ \/ Set(t, ok) /\ times = 1 /\ faults' = faults
       \/ /\ Set(t, ok) \/ Set(t, err)
          /\ times <= MaxAttempts /\ faults' = faults + 1

(* A deduction that is refused. *)
Refused(t, u, w, n, err) ==
  Set(t, err) /\ (wallet[u][w] < n \/ n = 0) /\ UNCHANGED <<wallet, faults>>

(* What both calls have in common. *)
LEMMA CallOutcome ==
  ASSUME IInv, NEW t, NEW u \in Accounts, NEW w \in Assets, NEW n \in Int, NEW ok, NEW err,
         \/ Set(t, ok) /\ Change(u, w, n) /\ UNCHANGED faults
         \/ Unreliable(t, u, w, n, ok, err)
  PROVE  /\ wallet' \in [Accounts -> [Assets -> Nat]]
         /\ faults' \in 0..MaxFaults
         /\ Called(t, u, w, n, ok, err)
<1>1. wallet \in [Accounts -> [Assets -> Nat]] /\ faults \in 0..MaxFaults
  BY DEF IInv, TypeOK
<1>2. ASSUME NEW m \in Int, Change(u, w, m)
      PROVE  /\ wallet' \in [Accounts -> [Assets -> Nat]]
             /\ wallet' = [wallet EXCEPT ![u][w] = @ + m]
  <2>1. wallet[u] \in [Assets -> Nat] /\ wallet[u][w] + m \in Nat
    BY <1>1, <1>2 DEF Change
  <2>2. wallet' = [wallet EXCEPT ![u][w] = @ + m]
    BY <1>2 DEF Change
  <2>3. PICK r : r = [wallet[u] EXCEPT ![w] = @ + m]
    OBVIOUS
  <2>4. r \in [Assets -> Nat]
    BY <2>1, <2>3
  <2>5. wallet' = [wallet EXCEPT ![u] = r]
    BY <2>2, <2>3
  <2> QED BY <1>1, <2>2, <2>4, <2>5
<1>3. CASE Set(t, ok) /\ Change(u, w, n) /\ UNCHANGED faults
  <2>1. 1 \in Nat /\ 1 * n = n
    OBVIOUS
  <2>2. wallet' = [wallet EXCEPT ![u][w] = @ + 1 * n]
    BY <1>2, <1>3, <2>1
  <2> QED BY <1>1, <1>2, <1>3, <2>1, <2>2 DEF Called
<1>4. CASE Unreliable(t, u, w, n, ok, err)
  <2>1. MaxAttempts \in Nat
    BY BoundsAssumption
  <2>2. PICK times \in Nat : times <= MaxAttempts /\ Change(u, w, times * n)
    <3>1. \A m \in 0..MaxAttempts : m \in Nat /\ m <= MaxAttempts
      BY <2>1
    <3>2. \A m \in 2..MaxAttempts : m \in Nat /\ m <= MaxAttempts
      BY <2>1
    <3> QED BY <1>4, <3>1, <3>2 DEF Unreliable
  <2>3. times * n \in Int
    OBVIOUS
  <2>4. (Set(t, ok) \/ Set(t, err)) /\ Fault
    BY <1>4 DEF Unreliable
  <2>5. faults' \in 0..MaxFaults /\ faults' = faults + 1
    BY <1>1, <2>4, FaultCounts
  <2>6. /\ wallet' \in [Accounts -> [Assets -> Nat]]
        /\ wallet' = [wallet EXCEPT ![u][w] = @ + times * n]
    BY <1>2, <2>2, <2>3
  <2> QED BY <2>2, <2>4, <2>5, <2>6 DEF Called
<1> QED BY <1>3, <1>4

(* AddBalance *)
LEMMA AddOutcome ==
  ASSUME IInv, NEW t, NEW u \in Accounts, NEW w \in Assets, NEW n \in Int, NEW ok, NEW err,
         AddBalance(t, u, w, n, ok, err)
  PROVE  /\ wallet' \in [Accounts -> [Assets -> Nat]]
         /\ faults' \in 0..MaxFaults
         /\ Called(t, u, w, n, ok, err)
         /\ Set(t, ok) \/ Set(t, err)
<1>1. \/ Set(t, ok) /\ Change(u, w, n) /\ UNCHANGED faults
      \/ Unreliable(t, u, w, n, ok, err)
  BY DEF AddBalance
<1>2. /\ wallet' \in [Accounts -> [Assets -> Nat]]
      /\ faults' \in 0..MaxFaults
      /\ Called(t, u, w, n, ok, err)
  BY <1>1, CallOutcome
<1> QED BY <1>1, <1>2 DEF Unreliable

(* DeductBalance *)
LEMMA DeductOutcome ==
  ASSUME IInv, NEW t, NEW u \in Accounts, NEW w \in Assets, NEW n \in Int, NEW ok, NEW err,
         DeductBalance(t, u, w, n, ok, err)
  PROVE  /\ wallet' \in [Accounts -> [Assets -> Nat]]
         /\ faults' \in 0..MaxFaults
         /\ Called(t, u, w, -n, ok, err) \/ Refused(t, u, w, n, err)
         /\ Set(t, ok) \/ Set(t, err)
<1>1. CASE Set(t, err) /\ (wallet[u][w] < n \/ n = 0) /\ UNCHANGED <<wallet, faults>>
  BY <1>1 DEF IInv, TypeOK, Refused
<1>2. CASE \/ Set(t, ok) /\ Change(u, w, -n) /\ UNCHANGED faults
           \/ Unreliable(t, u, w, -n, ok, err)
  <2>1. -n \in Int
    OBVIOUS
  <2>2. PICK m \in Int : m = -n
    BY <2>1
  <2>3. \/ Set(t, ok) /\ Change(u, w, m) /\ UNCHANGED faults
        \/ Unreliable(t, u, w, m, ok, err)
    BY <1>2, <2>2
  <2>4. /\ wallet' \in [Accounts -> [Assets -> Nat]]
        /\ faults' \in 0..MaxFaults
        /\ Called(t, u, w, m, ok, err)
    BY <2>3, CallOutcome
  <2> QED BY <2>2, <2>3, <2>4 DEF Unreliable
<1> QED BY <1>1, <1>2 DEF DeductBalance

(* The amounts of a request are natural numbers. *)
LEMMA Amounts ==
  ASSUME NEW k \in Task
  PROVE  /\ k.price["psc"] \in Nat /\ k.price["irr"] \in Nat
         /\ k.price.psc = k.price["psc"] /\ k.price.irr = k.price["irr"]
         /\ 20 * Stability \in Nat
         /\ k.asset \in Assets /\ k.buyer \in Accounts /\ k.seller \in Accounts
         /\ k.op # "rgb" /\ AssetFits(k) => /\ k.asset \in {"psc", "irr"}
                                           /\ k.price[k.asset] \in Nat
         /\ AssetFits(k) => Due(k) \in Nat
<1>1. k.price \in Price /\ k.asset \in Assets /\ k.buyer \in Accounts /\ k.seller \in Accounts
  BY DEF Task, Accounts
<1>2. k.price["psc"] \in Nat /\ k.price["irr"] \in Nat
  BY <1>1 DEF Price
<1>3. Stability \in Nat /\ 20 * Stability \in Nat
  BY PricesAssumption
<1>4. k.op # "rgb" /\ AssetFits(k) => k.asset \in {"psc", "irr"} /\ k.price[k.asset] \in Nat
  BY <1>2 DEF AssetFits
<1>5. AssetFits(k) => Due(k) \in Nat
  BY <1>3, <1>4 DEF Due, BuyerCharge
<1> QED BY <1>1, <1>2, <1>3, <1>4, <1>5

-----------------------------------------------------------------------------
(* Requests that arrive *)

(* A step at which nothing is taken from anybody, or given too early. *)
AtRest(k) ==
  \/ k.pc \in {"idle", "insert", "own", "cancel", "complete", "list", "price", "unprice", "unlist"}
  \/ k.pc = "charge" /\ k.asset # "irr"
  \/ k.op = "accept" /\ k.pc = "pay" /\ k.asset = "psc"
  \/ k.op \in {"reject", "delete"} /\ k.pc = "repay" /\ k.asset = "psc"

(* What a request has read when it begins. *)
Informed(k) ==
  /\ k.op \in {"send", "sell"} => k.seller = owner[k.feature]
  /\ k.op = "rgb" => k.feature \in limited \/ owner[k.feature] = Rgb
  /\ k.op = "unsell" => sales[k.id].feature = k.feature
  /\ k.op = "send" =>
       \A a \in {"psc", "irr"} : ParseWallet(wallet[k.buyer][a]) >= BuyerCharge(k.price[a])

(* A request was taken, and nothing else happened. *)
Begun(t) ==
  /\ StoreUnchanged /\ MoneyUnchanged /\ task[t].pc = "idle"
  /\ \E k \in Task :
       /\ Set(t, k) /\ TaskOK(k) /\ AtRest(k) /\ Alone(k) /\ Informed(k) /\ ~ Inserted(k)
       /\ k.pc \in {"insert", "charge", "pay", "repay", "list", "unprice"}

LEMMA Starts ==
  ASSUME IInv, NEW t \in Tasks, Begin(t), StoreUnchanged, MoneyUnchanged,
         NEW k \in Task, Set(t, k), TaskOK(k), ~ Inserted(k), AtRest(k), Alone(k),
         Informed(k), k.pc \in {"insert", "charge", "pay", "repay", "list", "unprice"}
  PROVE  IInv' /\ Begun(t)
<1>1. started' \in 0..MaxTasks /\ faults' \in 0..MaxFaults
  BY BoundsAssumption DEF Begin, MoneyUnchanged, IInv, TypeOK
<1>2. wallet' \in [Accounts -> [Assets -> Nat]]
  BY DEF MoneyUnchanged, IInv, TypeOK
<1> QED BY <1>1, <1>2, ContinuesOnly DEF Begun, Begin

(* SendBuyRequest *)
LEMMA SendOK ==
  ASSUME IInv, NEW t \in Tasks, SendBuyRequest(t)
  PROVE  IInv' /\ Begun(t)
<1>1. PICK f \in Features, b \in Users, p \in Prices :
        /\ CanAfford(b, p)
        /\ Set(t, [Idle EXCEPT !.op = "send", !.pc = "insert", !.buyer = b,
                               !.seller = owner[f], !.feature = f, !.price = p])
  BY DEF SendBuyRequest
<1>2. PICK k : k = [Idle EXCEPT !.op = "send", !.pc = "insert", !.buyer = b,
                                !.seller = owner[f], !.feature = f, !.price = p]
  OBVIOUS
<1>3. owner[f] \in Accounts /\ p \in Price
  BY PricesAssumption DEF IInv, TypeOK
<1>4. /\ k \in Task /\ k.op = "send" /\ k.pc = "insert" /\ k.price = p
      /\ k.asset = "psc" /\ k.todo = {} /\ k.buyer = b /\ k.seller = owner[f] /\ k.feature = f
  BY <1>2, <1>3, IdleFits DEF Task
<1>7. \A a \in {"psc", "irr"} : ParseWallet(wallet[b][a]) >= BuyerCharge(p[a])
  BY <1>1 DEF CanAfford, CheckBalance
<1>5. TaskOK(k) /\ ~ Inserted(k) /\ AtRest(k) /\ Alone(k) /\ Informed(k)
  BY <1>4, <1>7 DEF TaskOK, OnCourse, AssetFits, KnowsItsRow, KnowsItsSale, Inserted, Settling,
              AtRest, Alone, Informed
<1>6. Set(t, k) /\ Begin(t) /\ StoreUnchanged /\ MoneyUnchanged
  BY <1>1, <1>2 DEF SendBuyRequest
<1> QED BY <1>4, <1>5, <1>6, Starts

(* A task for a live offer. *)
LEMMA ForFits ==
  ASSUME IInv, NEW i \in locked, NEW op \in {"accept", "reject", "delete"},
         NEW pc \in {"pay", "repay"}, op = "accept" => pc = "pay", NEW k, k = For(i, op, pc)
  PROVE  /\ k \in Task /\ k.op = op /\ k.pc = pc /\ k.id = i /\ k.asset = "psc" /\ k.todo = {}
         /\ k.price = requests[i].price /\ k.seller = requests[i].seller
         /\ k.feature = requests[i].feature /\ k.buyer = requests[i].buyer
         /\ KnowsItsRow(k)
<1>1. i \in DOMAIN requests /\ requests \in Seq(Request)
  BY DEF IInv, TypeOK
<1>2. requests[i] \in Request /\ i \in Nat
  BY <1>1
<1>3. /\ requests[i].price \in Price /\ requests[i].seller \in Accounts
      /\ requests[i].buyer \in Users /\ requests[i].feature \in Features
  BY <1>2 DEF Request
<1>4. /\ k \in Task /\ k.op = op /\ k.pc = pc /\ k.id = i /\ k.asset = "psc" /\ k.todo = {}
      /\ k.price = requests[i].price /\ k.seller = requests[i].seller
      /\ k.feature = requests[i].feature /\ k.buyer = requests[i].buyer
  BY <1>2, <1>3, IdleFits DEF Task, For
<1>5. requests[i].price \in Prices
  BY <1>1 DEF IInv
<1> QED BY <1>1, <1>4, <1>5 DEF KnowsItsRow, Inserted, Settling

(* RejectBuyRequest, DeleteBuyRequest and AcceptBuyRequest. *)
LEMMA ForOK ==
  ASSUME IInv, NEW t \in Tasks,
         NEW op \in {"accept", "reject", "delete"}, NEW pc,
         pc = IF op = "accept" THEN "pay" ELSE "repay",
         Begin(t), NEW i \in locked, Set(t, For(i, op, pc)), StoreUnchanged, MoneyUnchanged
  PROVE  IInv' /\ Begun(t)
<1>1. PICK k : k = For(i, op, pc)
  OBVIOUS
<1>2. pc \in {"pay", "repay"} /\ (op = "accept" => pc = "pay")
  OBVIOUS
<1>3. /\ k \in Task /\ k.op = op /\ k.pc = pc /\ k.asset = "psc" /\ k.todo = {}
      /\ k.id = i /\ KnowsItsRow(k)
  BY <1>1, <1>2, ForFits
<1>4. TaskOK(k) /\ ~ Inserted(k) /\ AtRest(k) /\ Alone(k) /\ Informed(k)
  BY <1>3 DEF TaskOK, OnCourse, AssetFits, KnowsItsSale, Inserted, AtRest, Alone, Informed
<1> QED BY <1>1, <1>3, <1>4, Starts

(* BuyFromRgb *)
LEMMA BuyFromRgbOK ==
  ASSUME IInv, NEW t \in Tasks, BuyFromRgb(t)
  PROVE  IInv' /\ Begun(t)
<1>1. PICK f \in Features, b \in Users :
        /\ f \in limited \/ owner[f] = Rgb
        /\ Set(t, [Idle EXCEPT !.op = "rgb", !.pc = "charge", !.asset = "color",
                               !.buyer = b, !.seller = owner[f], !.feature = f])
  BY DEF BuyFromRgb
<1>2. PICK k : k = [Idle EXCEPT !.op = "rgb", !.pc = "charge", !.asset = "color",
                                !.buyer = b, !.seller = owner[f], !.feature = f]
  OBVIOUS
<1>3. owner[f] \in Accounts
  BY DEF IInv, TypeOK
<1>4. k \in Task /\ k.op = "rgb" /\ k.pc = "charge" /\ k.asset = "color" /\ k.feature = f
  BY <1>2, <1>3, IdleFits DEF Task, Assets
<1>5. TaskOK(k) /\ ~ Inserted(k) /\ AtRest(k) /\ Alone(k) /\ Informed(k)
  BY <1>1, <1>4 DEF TaskOK, OnCourse, AssetFits, KnowsItsRow, KnowsItsSale, Inserted, Settling,
              AtRest, Alone, Informed
<1>6. Set(t, k) /\ Begin(t) /\ StoreUnchanged /\ MoneyUnchanged
  BY <1>1, <1>2 DEF BuyFromRgb
<1> QED BY <1>4, <1>5, <1>6, Starts

(* BuyFromUser *)
LEMMA BuyFromUserOK ==
  ASSUME IInv, NEW t \in Tasks, BuyFromUser(t)
  PROVE  IInv' /\ Begun(t)
<1>1. PICK f \in Features \ limited, b \in Users, p \in Prices :
        Set(t, [Idle EXCEPT !.op = "buy", !.pc = "charge", !.buyer = b,
                            !.seller = owner[f], !.feature = f, !.price = p])
  BY DEF BuyFromUser
<1>2. PICK k : k = [Idle EXCEPT !.op = "buy", !.pc = "charge", !.buyer = b,
                                !.seller = owner[f], !.feature = f, !.price = p]
  OBVIOUS
<1>3. owner[f] \in Accounts /\ p \in Price
  BY PricesAssumption DEF IInv, TypeOK
<1>4. k \in Task /\ k.op = "buy" /\ k.pc = "charge" /\ k.price = p /\ k.asset = "psc"
  BY <1>2, <1>3, IdleFits DEF Task
<1>5. TaskOK(k) /\ ~ Inserted(k) /\ AtRest(k) /\ Alone(k) /\ Informed(k)
  BY <1>4 DEF TaskOK, OnCourse, AssetFits, KnowsItsRow, KnowsItsSale, Inserted, Settling,
              AtRest, Alone, Informed
<1>6. Set(t, k) /\ Begin(t) /\ StoreUnchanged /\ MoneyUnchanged
  BY <1>1, <1>2 DEF BuyFromUser
<1> QED BY <1>4, <1>5, <1>6, Starts

(* CreateSellRequest *)
LEMMA CreateSellOK ==
  ASSUME IInv, NEW t \in Tasks, CreateSellRequest(t)
  PROVE  IInv' /\ Begun(t)
<1>1. PICK f \in Features :
        /\ owner[f] # Rgb
        /\ Set(t, [Idle EXCEPT !.op = "sell", !.pc = "list", !.seller = owner[f], !.feature = f])
  BY DEF CreateSellRequest
<1>2. PICK k : k = [Idle EXCEPT !.op = "sell", !.pc = "list", !.seller = owner[f], !.feature = f]
  OBVIOUS
<1>3. owner[f] \in Accounts /\ owner[f] \in Users
  BY <1>1 DEF IInv, TypeOK, Accounts
<1>4. /\ k \in Task /\ k.op = "sell" /\ k.pc = "list" /\ k.asset = "psc"
      /\ k.seller = owner[f] /\ k.feature = f
  BY <1>2, <1>3, IdleFits DEF Task
<1>5. TaskOK(k) /\ ~ Inserted(k) /\ AtRest(k) /\ Alone(k) /\ Informed(k)
  BY <1>3, <1>4 DEF TaskOK, OnCourse, AssetFits, KnowsItsRow, KnowsItsSale, Inserted, Settling,
              AtRest, Alone, Informed
<1>6. Set(t, k) /\ Begin(t) /\ StoreUnchanged /\ MoneyUnchanged
  BY <1>1, <1>2 DEF CreateSellRequest
<1> QED BY <1>4, <1>5, <1>6, Starts

(* DeleteSellRequest *)
LEMMA DeleteSellOK ==
  ASSUME IInv, NEW t \in Tasks, DeleteSellRequest(t)
  PROVE  IInv' /\ Begun(t)
<1>1. PICK i \in DOMAIN sales :
        Set(t, [Idle EXCEPT !.op = "unsell", !.pc = "unprice", !.id = i,
                            !.seller = sales[i].seller, !.feature = sales[i].feature])
  BY DEF DeleteSellRequest
<1>2. PICK k : k = [Idle EXCEPT !.op = "unsell", !.pc = "unprice", !.id = i,
                                !.seller = sales[i].seller, !.feature = sales[i].feature]
  OBVIOUS
<1>3. sales \in Seq(Sale)
  BY DEF IInv, TypeOK
<1>4. sales[i] \in Sale /\ i \in Nat
  BY <1>3
<1>5. sales[i].seller \in Accounts /\ sales[i].feature \in Features
  BY <1>4 DEF Sale, Accounts
<1>6. /\ k \in Task /\ k.op = "unsell" /\ k.pc = "unprice" /\ k.asset = "psc" /\ k.id = i
      /\ k.feature = sales[i].feature
  BY <1>2, <1>4, <1>5, IdleFits DEF Task
<1>7. TaskOK(k) /\ ~ Inserted(k) /\ AtRest(k) /\ Alone(k) /\ Informed(k)
  BY <1>6 DEF TaskOK, OnCourse, AssetFits, KnowsItsRow, KnowsItsSale, Inserted, Settling,
              AtRest, Alone, Informed
<1>8. Set(t, k) /\ Begin(t) /\ StoreUnchanged /\ MoneyUnchanged
  BY <1>1, <1>2 DEF DeleteSellRequest
<1> QED BY <1>6, <1>7, <1>8, Starts

-----------------------------------------------------------------------------
(* Requests that go on *)

(* What a request knows it still knows at its next step. *)
LEMMA GoesOn ==
  ASSUME NEW k \in Task, TaskOK(k), k.pc # "idle", NEW j \in Task, Same(j, k),
         OnCourse(j), AssetFits(j), Inserted(j) => Inserted(k),
         j.op = "accept" /\ j.pc \in {"repay", "release", "close"} => j.todo # {}
  PROVE  TaskOK(j) /\ (Inserted(j) => Inserted(k) /\ j.id = k.id)
BY DEF TaskOK, KnowsItsRow, KnowsItsSale, Settling, Same, Inserted

(* A row is added to a table. *)
LEMMA Appended ==
  ASSUME NEW S, NEW s \in Seq(S), NEW r \in S, NEW q, q = Append(s, r)
  PROVE  /\ q \in Seq(S) /\ Len(q) = Len(s) + 1 /\ Len(s) + 1 \in DOMAIN q
         /\ DOMAIN q = DOMAIN s \union {Len(s) + 1} /\ Len(s) + 1 \notin DOMAIN s
         /\ \A i \in DOMAIN s : q[i] = s[i]
         /\ q[Len(s) + 1] = r /\ Len(s) \in Nat
OBVIOUS

(* InsertRequest: the row of an offer, or a failure. *)
LEMMA InsertOK ==
  ASSUME IInv, NEW t \in Tasks, InsertRequest(t)
  PROVE  IInv' /\ RowsStay
<1> DEFINE k == task[t]
           n == Len(requests) + 1
<1>1. /\ k \in Task /\ TaskOK(k) /\ k.pc = "insert" /\ k.op = "send"
      /\ TablesOK /\ Len(requests) < MaxRequests
  BY Known DEF InsertRequest, At, TaskOK, OnCourse
<1>2. CASE Set(t, Idle) /\ Fault /\ UNCHANGED requests
  <2>1. TablesOK' /\ RowsStay /\ locked' \subseteq locked
    BY <1>1, <1>2, FaultCounts DEF InsertRequest, TablesOK, RowsStay
  <2> QED BY <1>2, <2>1, Ends
<1>3. CASE /\ requests' = Append(requests, [feature |-> k.feature, buyer |-> k.buyer,
                                 seller |-> k.seller, price |-> k.price,
                                 state |-> "pending"])
           /\ Set(t, [k EXCEPT !.pc = "charge", !.id = Len(requests) + 1])
           /\ UNCHANGED faults
  <2>1. PICK r : r = [feature |-> k.feature, buyer |-> k.buyer, seller |-> k.seller,
                      price |-> k.price, state |-> "pending"]
    OBVIOUS
  <2>2. r \in Request /\ r.price = k.price
    BY <1>1, <2>1 DEF Task, Request
  <2>3. requests \in Seq(Request) /\ requests' = Append(requests, r)
    BY <1>1, <1>3, <2>1 DEF TablesOK
  <2>4. /\ requests' \in Seq(Request) /\ Len(requests') = n /\ n \in DOMAIN requests'
        /\ DOMAIN requests' = DOMAIN requests \union {n} /\ n \notin DOMAIN requests
        /\ \A i \in DOMAIN requests : requests'[i] = requests[i]
        /\ requests'[n] = r /\ n \in Nat
    BY <2>2, <2>3, Appended
  <2>5. PICK j : j = [k EXCEPT !.pc = "charge", !.id = n]
    OBVIOUS
  <2>6. /\ j \in Task /\ j.pc = "charge" /\ j.id = n /\ j.op = "send" /\ j.price = k.price
        /\ j.asset = k.asset
    BY <1>1, <2>4, <2>5 DEF Task
  <2>7. k.price \in Prices /\ k.asset = "psc"
    BY <1>1 DEF TaskOK, KnowsItsRow, AssetFits
  <2>8. TablesOK' /\ RowsStay
    <3>1. Len(requests') <= MaxRequests
      BY <1>1, <2>3, <2>4, BoundsAssumption
    <3>2. \A i \in DOMAIN requests' : requests'[i].price \in Prices
      BY <1>1, <2>2, <2>4, <2>7 DEF TablesOK
    <3>3. locked' \subseteq DOMAIN requests'
      BY <1>1, <2>4 DEF InsertRequest, TablesOK
    <3>4. TablesOK'
      BY <1>1, <1>3, <2>4, <3>1, <3>2, <3>3 DEF InsertRequest, TablesOK
    <3>5. RowsStay
      BY <2>4 DEF RowsStay, InsertRequest
    <3> QED BY <3>4, <3>5
  <2>9. TaskOK(j)'
    BY <2>2, <2>4, <2>6, <2>7
       DEF TaskOK, OnCourse, AssetFits, KnowsItsRow, KnowsItsSale, Inserted, Settling
  <2>10. j.id \notin locked'
    BY <1>1, <2>4, <2>6 DEF InsertRequest, TablesOK
  <2>11. \A u \in Tasks \ {t} : Inserted(task[u]) =>
           task[u].id \notin locked' /\ (Inserted(j) => task[u].id # j.id)
    <3>1. \A u \in Tasks : Inserted(task[u]) =>
            task[u].id \notin locked /\ task[u].id \in DOMAIN requests
      BY DEF IInv, LocksAreNew, TaskOK, KnowsItsRow
    <3> QED BY <2>4, <2>6, <3>1 DEF InsertRequest
  <2>12. task' = [task EXCEPT ![t] = j]
    BY <1>3, <2>5 DEF Set
  <2> QED BY <2>6, <2>8, <2>9, <2>10, <2>11, <2>12, Moves
<1> QED BY <1>2, <1>3 DEF InsertRequest

(* RecordLock: the only step that takes a lock. *)
LEMMA RecordOK ==
  ASSUME IInv, NEW t \in Tasks, RecordLock(t)
  PROVE  IInv' /\ RowsStay
<1> DEFINE k == task[t]
<1>1. k \in Task /\ TaskOK(k) /\ k.pc = "record" /\ TablesOK
  BY Known DEF RecordLock, At
<1>2. Inserted(k) /\ k.id \in DOMAIN requests
  BY <1>1 DEF TaskOK, OnCourse, Inserted, KnowsItsRow
<1>3. locked' \subseteq locked \union {k.id} /\ faults' \in 0..MaxFaults
  BY FaultCounts DEF RecordLock, IInv, TypeOK
<1>4. TablesOK' /\ RowsStay
  BY <1>1, <1>2, <1>3 DEF RecordLock, TablesOK, RowsStay
<1>5. PICK j : j = Idle
  OBVIOUS
<1>6. j \in Task /\ TaskOK(j) /\ ~ Inserted(j) /\ task' = [task EXCEPT ![t] = j]
  BY <1>5, IdleFits DEF RecordLock, Set
<1>7. TaskOK(j)'
  BY <1>4, <1>6, TaskKept
<1>8. \A u \in Tasks \ {t} : Inserted(task[u]) =>
        task[u].id \notin locked' /\ (Inserted(j) => task[u].id # j.id)
  BY <1>2, <1>3, <1>6 DEF IInv, LocksAreNew
<1> QED BY <1>4, <1>6, <1>7, <1>8, Moves

(* Where a charge leads. *)
ChargeDone(k) ==
  IF k.op = "rgb" THEN [k EXCEPT !.pc = "pay"]
  ELSE BothThen(k, IF k.op = "send" THEN "record" ELSE "pay")
ChargeFailed(k) == IF k.asset = "irr" THEN [k EXCEPT !.pc = "uncharge", !.asset = "psc"] ELSE Idle

LEMMA ChargeNext ==
  ASSUME NEW k \in Task, TaskOK(k), k.pc = "charge", NEW ok, NEW err,
         ok = ChargeDone(k), err = ChargeFailed(k)
  PROVE  /\ ok \in Task /\ TaskOK(ok) /\ Same(ok, k)
         /\ Inserted(ok) => Inserted(k) /\ ok.id = k.id
         /\ k.op = "rgb" => ok.pc = "pay" /\ ok.asset = "color"
         /\ k.op # "rgb" /\ k.asset = "psc" => ok.pc = "charge" /\ ok.asset = "irr"
         /\ k.op # "rgb" /\ k.asset = "irr" =>
              ok.asset = "psc" /\ ok.pc = IF k.op = "send" THEN "record" ELSE "pay"
         /\ err \in Task /\ TaskOK(err)
         /\ Inserted(err) => Inserted(k) /\ err.id = k.id
         /\ k.asset = "irr" => err.pc = "uncharge" /\ err.asset = "psc" /\ Same(err, k)
         /\ k.asset # "irr" => err = Idle
<1>1. /\ k.op \in {"send", "buy", "rgb"}
      /\ k.op = "rgb" => k.asset = "color"
      /\ k.op # "rgb" => k.asset \in {"psc", "irr"}
  BY DEF TaskOK, OnCourse, AssetFits
<1>2. /\ ok \in Task /\ Same(ok, k)
      /\ k.op = "rgb" => ok.pc = "pay" /\ ok.asset = "color"
      /\ k.op # "rgb" /\ k.asset = "psc" => ok.pc = "charge" /\ ok.asset = "irr"
      /\ k.op # "rgb" /\ k.asset = "irr" =>
           ok.asset = "psc" /\ ok.pc = IF k.op = "send" THEN "record" ELSE "pay"
  <2>1. CASE k.op = "rgb"
    <3>1. ok = [k EXCEPT !.pc = "pay"]
      BY <2>1 DEF ChargeDone
    <3> QED BY <1>1, <2>1, <3>1, AtStep DEF Steps
  <2>2. CASE k.op = "send"
    <3>1. ok = BothThen(k, "record")
      BY <2>2 DEF ChargeDone
    <3>2. "record" \in Steps
      BY DEF Steps
    <3> QED BY <1>1, <2>2, <3>1, <3>2, AfterBoth
  <2>3. CASE k.op = "buy"
    <3>1. ok = BothThen(k, "pay")
      BY <2>3 DEF ChargeDone
    <3>2. "pay" \in Steps
      BY DEF Steps
    <3> QED BY <1>1, <2>3, <3>1, <3>2, AfterBoth
  <2> QED BY <1>1, <2>1, <2>2, <2>3
<1>3. TaskOK(ok) /\ (Inserted(ok) => Inserted(k) /\ ok.id = k.id)
  <2>1. OnCourse(ok) /\ AssetFits(ok) /\ (Inserted(ok) => Inserted(k)) /\ ok.op # "accept"
    BY <1>1, <1>2 DEF OnCourse, AssetFits, Inserted, Same
  <2> QED BY <1>2, <2>1, GoesOn
<1>4. CASE k.asset = "irr"
  <2>1. err = [k EXCEPT !.pc = "uncharge", !.asset = "psc"]
    BY <1>4 DEF ChargeFailed
  <2>2. err \in Task /\ Same(err, k) /\ err.pc = "uncharge" /\ err.asset = "psc"
    BY <2>1 DEF Task, Assets, Same
  <2>3. OnCourse(err) /\ AssetFits(err) /\ (Inserted(err) => Inserted(k)) /\ err.op # "accept"
    BY <1>1, <1>4, <2>2 DEF OnCourse, AssetFits, Inserted, Same
  <2>4. TaskOK(err) /\ (Inserted(err) => Inserted(k) /\ err.id = k.id)
    BY <2>2, <2>3, GoesOn
  <2> QED BY <1>2, <1>3, <1>4, <2>2, <2>4
<1>5. CASE k.asset # "irr"
  <2>1. err = Idle
    BY <1>5 DEF ChargeFailed
  <2> QED BY <1>2, <1>3, <1>5, <2>1, IdleFits
<1> QED BY <1>4, <1>5

(* Charge *)
LEMMA ChargeOK ==
  ASSUME IInv, NEW t \in Tasks, Charge(t)
  PROVE  IInv'
<1> DEFINE k == task[t]
<1>1. k \in Task /\ TaskOK(k) /\ k.pc = "charge" /\ started \in 0..MaxTasks
  BY Known DEF Charge, At
<1>2. PICK ok, err : ok = ChargeDone(k) /\ err = ChargeFailed(k)
  OBVIOUS
<1>3. DeductBalance(t, k.buyer, k.asset, Due(k), ok, err) /\ StoreUnchanged /\ UNCHANGED started
  BY <1>2 DEF Charge, ChargeDone, ChargeFailed
<1>4. k.buyer \in Accounts /\ k.asset \in Assets /\ Due(k) \in Int
  BY <1>1, Amounts DEF TaskOK
<1>5. /\ wallet' \in [Accounts -> [Assets -> Nat]] /\ faults' \in 0..MaxFaults
      /\ Set(t, ok) \/ Set(t, err)
  BY <1>3, <1>4, DeductOutcome
<1>6. /\ ok \in Task /\ TaskOK(ok) /\ (Inserted(ok) => Inserted(k) /\ ok.id = k.id)
      /\ err \in Task /\ TaskOK(err) /\ (Inserted(err) => Inserted(k) /\ err.id = k.id)
  BY <1>1, <1>2, ChargeNext
<1>7. started' \in 0..MaxTasks
  BY <1>1, <1>3
<1> QED BY <1>3, <1>5, <1>6, <1>7, ContinuesOnly

(* Uncharge *)
LEMMA UnchargeOK ==
  ASSUME IInv, NEW t \in Tasks, Uncharge(t)
  PROVE  IInv'
<1> DEFINE k == task[t]
<1>1. k \in Task /\ TaskOK(k) /\ k.pc = "uncharge" /\ started \in 0..MaxTasks
  BY Known DEF Uncharge, At
<1>2. AddBalance(t, k.buyer, k.asset, Due(k), Idle, Idle) /\ StoreUnchanged /\ UNCHANGED started
  BY DEF Uncharge
<1>3. k.buyer \in Accounts /\ k.asset \in Assets /\ Due(k) \in Int
  BY <1>1, Amounts DEF TaskOK
<1>4. PICK j : j = Idle
  OBVIOUS
<1>5. /\ wallet' \in [Accounts -> [Assets -> Nat]] /\ faults' \in 0..MaxFaults
      /\ Set(t, j)
  BY <1>2, <1>3, <1>4, AddOutcome
<1>6. started' \in 0..MaxTasks
  BY <1>1, <1>2
<1> QED BY <1>2, <1>4, <1>5, <1>6, IdleFits, ContinuesOnly

(* The offer that is being refunded is a row of the table. *)
LEMMA RefundedRow ==
  ASSUME IInv, NEW k \in Task, TaskOK(k), k.pc \in {"repay", "release", "close"}
  PROVE  /\ Refunded(k) \in DOMAIN requests
         /\ k.op = "accept" => Refunded(k) = Min(k.todo) /\ Refunded(k) \in k.todo /\ k.todo # {}
         /\ k.op # "accept" => Refunded(k) = k.id /\ k.op \in {"reject", "delete"}
<1>1. k.op \in {"accept", "reject", "delete"}
  BY DEF TaskOK, OnCourse
<1>2. CASE k.op = "accept"
  <2>1. k.todo \subseteq DOMAIN requests /\ k.todo # {} /\ k.todo \subseteq Ids
    BY <1>2 DEF TaskOK, KnowsItsRow, Task
  <2>2. IsFiniteSet(Ids) /\ Ids \subseteq Int
    BY BoundsAssumption, FS_Interval DEF Ids
  <2>3. IsFiniteSet(k.todo) /\ k.todo \subseteq Int
    BY <2>1, <2>2, FS_Subset
  <2>4. Min(k.todo) \in k.todo
    BY <2>1, <2>3, SmallestOf
  <2> QED BY <1>2, <2>1, <2>4 DEF Refunded
<1>3. CASE k.op # "accept"
  BY <1>1, <1>3 DEF Refunded, TaskOK, KnowsItsRow, Settling
<1> QED BY <1>2, <1>3

(* Both assets of a row have prices. *)
LEMMA RowPrice ==
  ASSUME IInv, NEW i \in DOMAIN requests
  PROVE  /\ requests[i].price["psc"] \in Nat /\ requests[i].price["irr"] \in Nat
         /\ requests[i].buyer \in Accounts
         /\ requests[i].price \in Prices
<1>1. requests \in Seq(Request) /\ requests[i].price \in Prices
  BY DEF IInv, TypeOK
<1>2. requests[i] \in Request
  BY <1>1
<1> QED BY <1>1, <1>2 DEF Request, Price, Accounts

(* Where a refund leads. *)
RepayDone(k)   == BothThen(k, "release")
RepayFailed(k) == IF k.op = "accept" THEN RepayDone(k) ELSE Idle

LEMMA RepayNext ==
  ASSUME NEW k \in Task, TaskOK(k), k.pc = "repay", NEW ok, NEW err,
         ok = RepayDone(k), err = RepayFailed(k)
  PROVE  /\ ok \in Task /\ TaskOK(ok) /\ Same(ok, k) /\ ~ Inserted(ok)
         /\ k.asset = "psc" => ok.pc = "repay" /\ ok.asset = "irr"
         /\ k.asset # "psc" => ok.pc = "release" /\ ok.asset = "psc"
         /\ err \in Task /\ TaskOK(err) /\ ~ Inserted(err)
         /\ IF k.op = "accept" THEN err = ok ELSE err = Idle
<1>1. k.op \in {"accept", "reject", "delete"} /\ k.asset \in {"psc", "irr"}
  BY DEF TaskOK, OnCourse, AssetFits
<1>2. /\ ok \in Task /\ Same(ok, k)
      /\ k.asset = "psc" => ok.pc = "repay" /\ ok.asset = "irr"
      /\ k.asset # "psc" => ok.pc = "release" /\ ok.asset = "psc"
  <2>1. "release" \in Steps
    BY DEF Steps
  <2> QED BY <2>1, AfterBoth DEF RepayDone
<1>3. TaskOK(ok) /\ ~ Inserted(ok)
  <2>1. OnCourse(ok) /\ AssetFits(ok) /\ ~ Inserted(ok)
    BY <1>1, <1>2 DEF OnCourse, AssetFits, Inserted, Same
  <2>2. ok.op = "accept" => ok.todo # {}
    BY <1>2 DEF Same, TaskOK, KnowsItsRow
  <2> QED BY <1>2, <2>1, <2>2, GoesOn
<1>4. IF k.op = "accept" THEN err = ok ELSE err = Idle
  BY DEF RepayFailed
<1> QED BY <1>2, <1>3, <1>4, IdleFits

(* Repay *)
LEMMA RepayOK ==
  ASSUME IInv, NEW t \in Tasks, Repay(t)
  PROVE  IInv'
<1> DEFINE k == task[t]
           i == Refunded(k)
<1>1. k \in Task /\ TaskOK(k) /\ k.pc = "repay" /\ started \in 0..MaxTasks
  BY Known DEF Repay, At
<1>2. PICK ok, err : ok = RepayDone(k) /\ err = RepayFailed(k)
  OBVIOUS
<1>3. /\ AddBalance(t, requests[i].buyer, k.asset, BuyerCharge(requests[i].price[k.asset]), ok, err)
      /\ StoreUnchanged /\ UNCHANGED started
  BY <1>2 DEF Repay, RepayDone, RepayFailed
<1>4. k.asset \in {"psc", "irr"} /\ i \in DOMAIN requests
  BY <1>1, RefundedRow DEF TaskOK, AssetFits, OnCourse
<1>5. /\ requests[i].buyer \in Accounts /\ k.asset \in Assets
      /\ BuyerCharge(requests[i].price[k.asset]) \in Int
  BY <1>4, RowPrice DEF Assets, BuyerCharge
<1>6. /\ wallet' \in [Accounts -> [Assets -> Nat]] /\ faults' \in 0..MaxFaults
      /\ Set(t, ok) \/ Set(t, err)
  BY <1>3, <1>5, AddOutcome
<1>7. ok \in Task /\ TaskOK(ok) /\ ~ Inserted(ok) /\ err \in Task /\ TaskOK(err) /\ ~ Inserted(err)
  BY <1>1, <1>2, RepayNext
<1>8. started' \in 0..MaxTasks
  BY <1>1, <1>3
<1> QED BY <1>3, <1>6, <1>7, <1>8, ContinuesOnly

(* Release *)
LEMMA ReleaseOK ==
  ASSUME IInv, NEW t \in Tasks, Release(t)
  PROVE  IInv' /\ RowsStay
<1> DEFINE k == task[t]
<1>1. k \in Task /\ TaskOK(k) /\ k.pc = "release" /\ TablesOK
  BY Known DEF Release, At
<1>2. PICK j : j = [k EXCEPT !.pc = "close"]
  OBVIOUS
<1>3. j \in Task /\ j.pc = "close" /\ j.asset = k.asset /\ Same(j, k) /\ Set(t, j)
  BY <1>1, <1>2, AtStep DEF Release, Steps
<1>4. TaskOK(j) /\ ~ Inserted(j)
  <2>1. OnCourse(j) /\ AssetFits(j) /\ ~ Inserted(j) /\ (j.op = "accept" => j.todo # {})
    BY <1>1, <1>3 DEF OnCourse, AssetFits, Inserted, Same, TaskOK, KnowsItsRow
  <2> QED BY <1>1, <1>3, <2>1, GoesOn
<1>5. TablesOK' /\ RowsStay /\ locked' \subseteq locked
  BY <1>1, FaultCounts DEF Release, TablesOK, RowsStay
<1> QED BY <1>3, <1>4, <1>5, Continues

(* CloseRequest *)
LEMMA CloseOK ==
  ASSUME IInv, NEW t \in Tasks, CloseRequest(t)
  PROVE  IInv' /\ RowsStay
<1> DEFINE k == task[t]
           i == Refunded(k)
<1>1. k \in Task /\ TaskOK(k) /\ k.pc = "close" /\ TablesOK /\ i \in DOMAIN requests
  BY Known, RefundedRow DEF CloseRequest, At
<1>2. /\ DOMAIN requests' = DOMAIN requests /\ requests' \in Seq(Request)
      /\ Len(requests') = Len(requests)
      /\ \A x \in DOMAIN requests : requests'[x].price = requests[x].price
  <2>1. CASE UNCHANGED requests
    BY <1>1, <2>1 DEF TablesOK
  <2>2. CASE requests' = [requests EXCEPT ![i] =
               IF k.op = "accept" THEN SoftDelete(@, "refunded")
                                  ELSE [@ EXCEPT !.state = "removed"]]
    <3>1. requests \in Seq(Request) /\ requests[i] \in Request
      BY <1>1 DEF TablesOK
    <3>2. PICK r : r = IF k.op = "accept" THEN SoftDelete(requests[i], "refunded")
                                         ELSE [requests[i] EXCEPT !.state = "removed"]
      OBVIOUS
    <3>3. r \in Request /\ r.price = requests[i].price
      BY <3>1, <3>2 DEF SoftDelete, Request
    <3>4. requests' = [requests EXCEPT ![i] = r]
      BY <2>2, <3>2
    <3> QED BY <1>1, <3>1, <3>3, <3>4
  <2> QED BY <2>1, <2>2 DEF CloseRequest
<1>3. TablesOK' /\ RowsStay /\ locked' \subseteq locked
  BY <1>1, <1>2, FaultCounts DEF CloseRequest, TablesOK, RowsStay
<1>4. PICK j : j = IF k.op = "accept" THEN [k EXCEPT !.pc = "refund", !.todo = @ \ {i}] ELSE Idle
  OBVIOUS
<1>5. Set(t, j)
  BY <1>4 DEF CloseRequest
<1>6. j \in Task /\ TaskOK(j) /\ ~ Inserted(j)
  <2>1. CASE k.op = "accept"
    <3>1. j = [k EXCEPT !.pc = "refund", !.todo = @ \ {i}]
      BY <1>4, <2>1
    <3>2. /\ j \in Task /\ j.pc = "refund" /\ j.op = "accept" /\ j.id = k.id
          /\ j.price = k.price /\ j.todo = k.todo \ {i} /\ j.asset = k.asset
      BY <1>1, <2>1, <3>1 DEF Task
    <3> QED BY <1>1, <2>1, <3>2
        DEF TaskOK, OnCourse, AssetFits, KnowsItsRow, KnowsItsSale, Inserted, Settling
  <2>2. CASE k.op # "accept"
    BY <1>4, <2>2, IdleFits
  <2> QED BY <2>1, <2>2
<1> QED BY <1>3, <1>5, <1>6, Continues

-----------------------------------------------------------------------------
(* Payments of the seller and of the platform *)

PayDone(k)   == IF k.op = "rgb" THEN [k EXCEPT !.pc = "own"] ELSE BothThen(k, "fee")
PayFailed(k) ==
  IF k.op = "rgb" THEN [k EXCEPT !.pc = "uncharge"]
  ELSE IF k.op = "accept" /\ k.asset = "irr" THEN [k EXCEPT !.pc = "unpay"] ELSE Idle

(* The asset and the amount that the seller gets. *)
PayAsset(k)  == IF k.op = "rgb" THEN "color" ELSE k.asset
PayAmount(k) == IF k.op = "rgb" THEN Due(k) ELSE SellerPayment(k.price[k.asset])

LEMMA PayNext ==
  ASSUME NEW k \in Task, TaskOK(k), k.pc = "pay", NEW ok, NEW err,
         ok = PayDone(k), err = PayFailed(k)
  PROVE  /\ k.op \in {"buy", "rgb", "accept"}
         /\ ok \in Task /\ TaskOK(ok) /\ Same(ok, k) /\ ~ Inserted(ok)
         /\ k.op = "rgb" => ok.pc = "own" /\ ok.asset = "color"
         /\ k.op # "rgb" /\ k.asset = "psc" => ok.pc = "pay" /\ ok.asset = "irr"
         /\ k.op # "rgb" /\ k.asset = "irr" => ok.pc = "fee" /\ ok.asset = "psc"
         /\ err \in Task /\ TaskOK(err) /\ ~ Inserted(err)
         /\ k.op = "rgb" => err.pc = "uncharge" /\ err.asset = "color" /\ Same(err, k)
         /\ k.op = "accept" /\ k.asset = "irr" =>
              err.pc = "unpay" /\ err.asset = "irr" /\ Same(err, k)
         /\ k.op = "buy" \/ (k.op = "accept" /\ k.asset = "psc") => err = Idle
<1>1. /\ k.op \in {"buy", "rgb", "accept"}
      /\ k.op = "rgb" => k.asset = "color"
      /\ k.op # "rgb" => k.asset \in {"psc", "irr"}
  BY DEF TaskOK, OnCourse, AssetFits
<1>2. /\ ok \in Task /\ Same(ok, k)
      /\ k.op = "rgb" => ok.pc = "own" /\ ok.asset = "color"
      /\ k.op # "rgb" /\ k.asset = "psc" => ok.pc = "pay" /\ ok.asset = "irr"
      /\ k.op # "rgb" /\ k.asset = "irr" => ok.pc = "fee" /\ ok.asset = "psc"
  <2>1. CASE k.op = "rgb"
    <3>1. ok = [k EXCEPT !.pc = "own"]
      BY <2>1 DEF PayDone
    <3> QED BY <1>1, <2>1, <3>1, AtStep DEF Steps
  <2>2. CASE k.op # "rgb"
    <3>1. ok = BothThen(k, "fee") /\ "fee" \in Steps
      BY <2>2 DEF PayDone, Steps
    <3> QED BY <1>1, <2>2, <3>1, AfterBoth
  <2> QED BY <2>1, <2>2
<1>3. TaskOK(ok) /\ ~ Inserted(ok)
  <2>1. OnCourse(ok) /\ AssetFits(ok) /\ ~ Inserted(ok) /\ ok.pc \notin {"repay", "release", "close"}
    BY <1>1, <1>2 DEF OnCourse, AssetFits, Inserted, Same
  <2> QED BY <1>2, <2>1, GoesOn
<1>4. /\ k.op = "rgb" => err = [k EXCEPT !.pc = "uncharge"]
      /\ k.op = "accept" /\ k.asset = "irr" => err = [k EXCEPT !.pc = "unpay"]
      /\ k.op = "buy" \/ (k.op = "accept" /\ k.asset = "psc") => err = Idle
  BY DEF PayFailed
<1>5. CASE k.op = "rgb" \/ (k.op = "accept" /\ k.asset = "irr")
  <2>1. /\ err \in Task /\ Same(err, k) /\ err.asset = k.asset
        /\ err.pc = IF k.op = "rgb" THEN "uncharge" ELSE "unpay"
    <3>1. PICK pc \in {"uncharge", "unpay"} : /\ err = [k EXCEPT !.pc = pc]
                                              /\ pc = IF k.op = "rgb" THEN "uncharge" ELSE "unpay"
      BY <1>4, <1>5
    <3>2. pc \in Steps
      BY DEF Steps
    <3> QED BY <3>1, <3>2, AtStep
  <2>2. /\ OnCourse(err) /\ AssetFits(err) /\ ~ Inserted(err)
        /\ err.pc \notin {"repay", "release", "close"}
    BY <1>1, <1>5, <2>1 DEF OnCourse, AssetFits, Inserted, Same
  <2>3. TaskOK(err)
    BY <2>1, <2>2, GoesOn
  <2> QED BY <1>1, <1>2, <1>3, <1>4, <1>5, <2>1, <2>2, <2>3
<1>6. CASE k.op = "buy" \/ (k.op = "accept" /\ k.asset = "psc")
  BY <1>1, <1>2, <1>3, <1>4, <1>6, IdleFits
<1> QED BY <1>1, <1>5, <1>6

(* PaySeller, in the words of the last definitions. *)
LEMMA PayCall ==
  ASSUME IInv, NEW t \in Tasks, PaySeller(t), NEW k, k = task[t],
         NEW ok, NEW err, ok = PayDone(k), err = PayFailed(k)
  PROVE  /\ k \in Task /\ TaskOK(k) /\ k.pc = "pay" /\ started \in 0..MaxTasks
         /\ k.seller \in Accounts /\ PayAsset(k) \in Assets /\ PayAmount(k) \in Nat
         /\ AddBalance(t, k.seller, PayAsset(k), PayAmount(k), ok, err)
         /\ StoreUnchanged /\ UNCHANGED started
<1>1. k \in Task /\ TaskOK(k) /\ k.pc = "pay" /\ started \in 0..MaxTasks
  BY Known DEF PaySeller, At
<1>2. /\ k.seller \in Accounts /\ k.asset \in Assets /\ Due(k) \in Nat
      /\ k.op # "rgb" => k.price[k.asset] \in Nat
  BY <1>1, Amounts DEF TaskOK
<1>3. PayAsset(k) \in Assets /\ PayAmount(k) \in Nat
  <2>1. \A n \in Nat : SellerPayment(n) \in Nat
    BY DEF SellerPayment
  <2> QED BY <1>2, <2>1 DEF PayAsset, PayAmount, Assets
<1>4. AddBalance(t, k.seller, PayAsset(k), PayAmount(k), ok, err)
  BY DEF PaySeller, PayAsset, PayAmount, PayDone, PayFailed
<1> QED BY <1>1, <1>2, <1>3, <1>4 DEF PaySeller

LEMMA PayOK ==
  ASSUME IInv, NEW t \in Tasks, PaySeller(t)
  PROVE  IInv'
<1>1. PICK k, ok, err : k = task[t] /\ ok = PayDone(k) /\ err = PayFailed(k)
  OBVIOUS
<1>2. /\ k \in Task /\ TaskOK(k) /\ k.pc = "pay" /\ started \in 0..MaxTasks
      /\ k.seller \in Accounts /\ PayAsset(k) \in Assets /\ PayAmount(k) \in Nat
      /\ AddBalance(t, k.seller, PayAsset(k), PayAmount(k), ok, err)
      /\ StoreUnchanged /\ UNCHANGED started
  BY <1>1, PayCall
<1>3. /\ wallet' \in [Accounts -> [Assets -> Nat]] /\ faults' \in 0..MaxFaults
      /\ Set(t, ok) \/ Set(t, err)
  <2>1. PayAmount(k) \in Int
    BY <1>2
  <2> QED BY <1>2, <2>1, AddOutcome
<1>4. ok \in Task /\ TaskOK(ok) /\ ~ Inserted(ok) /\ err \in Task /\ TaskOK(err) /\ ~ Inserted(err)
  BY <1>1, <1>2, PayNext
<1>5. started' \in 0..MaxTasks
  BY <1>2
<1> QED BY <1>2, <1>3, <1>4, <1>5, ContinuesOnly

(* Unpay *)
LEMMA UnpayOK ==
  ASSUME IInv, NEW t \in Tasks, Unpay(t)
  PROVE  IInv'
<1> DEFINE k == task[t]
<1>1. k \in Task /\ TaskOK(k) /\ k.pc = "unpay" /\ started \in 0..MaxTasks
  BY Known DEF Unpay, At
<1>2. PICK n : n = SellerPayment(k.price.psc)
  OBVIOUS
<1>3. k.seller \in Accounts /\ n \in Int /\ "psc" \in Assets
  BY <1>1, <1>2, Amounts DEF SellerPayment, Assets
<1>4. PICK j : j = Idle
  OBVIOUS
<1>5. DeductBalance(t, k.seller, "psc", n, j, j) /\ StoreUnchanged /\ UNCHANGED started
  BY <1>2, <1>4 DEF Unpay
<1>6. /\ wallet' \in [Accounts -> [Assets -> Nat]] /\ faults' \in 0..MaxFaults /\ Set(t, j)
  BY <1>3, <1>5, DeductOutcome
<1>7. started' \in 0..MaxTasks
  BY <1>1, <1>5
<1> QED BY <1>4, <1>5, <1>6, <1>7, IdleFits, ContinuesOnly

(* Where the fees lead: to the next one, or past both. *)
FeesThen(k) == IF k.op = "accept" THEN "others" ELSE "own"
FeeDone(k)  == BothThen(k, FeesThen(k))
NoFees(k)   == [k EXCEPT !.pc = FeesThen(k)]

LEMMA FeeNext ==
  ASSUME NEW k \in Task, TaskOK(k), k.pc = "fee", NEW ok, NEW no,
         ok = FeeDone(k), no = NoFees(k)
  PROVE  /\ k.op \in {"buy", "accept"} /\ k.asset \in {"psc", "irr"}
         /\ ok \in Task /\ TaskOK(ok) /\ Same(ok, k) /\ ~ Inserted(ok)
         /\ k.asset = "psc" => ok.pc = "fee" /\ ok.asset = "irr"
         /\ k.asset = "irr" => ok.pc = FeesThen(k) /\ ok.asset = "psc"
         /\ no \in Task /\ Same(no, k) /\ ~ Inserted(no) /\ no.pc = FeesThen(k)
         /\ k.asset = "psc" => TaskOK(no)
<1>1. k.op \in {"buy", "accept"} /\ k.asset \in {"psc", "irr"}
  BY DEF TaskOK, OnCourse, AssetFits
<1>2. PICK pc \in Steps : pc = FeesThen(k)
  BY DEF FeesThen, Steps
<1>3. /\ ok \in Task /\ Same(ok, k)
      /\ k.asset = "psc" => ok.pc = "fee" /\ ok.asset = "irr"
      /\ k.asset = "irr" => ok.pc = pc /\ ok.asset = "psc"
  BY <1>1, <1>2, AfterBoth DEF FeeDone
<1>4. no \in Task /\ Same(no, k) /\ no.pc = pc /\ no.asset = k.asset
  BY <1>2, AtStep DEF NoFees
<1>5. TaskOK(ok) /\ ~ Inserted(ok)
  <2>1. OnCourse(ok) /\ AssetFits(ok) /\ ~ Inserted(ok) /\ ok.pc \notin {"repay", "release", "close"}
    BY <1>1, <1>2, <1>3 DEF OnCourse, AssetFits, Inserted, Same, FeesThen
  <2> QED BY <1>3, <2>1, GoesOn
<1>6. ~ Inserted(no) /\ (k.asset = "psc" => TaskOK(no))
  <2>1. OnCourse(no) /\ ~ Inserted(no) /\ no.pc \notin {"repay", "release", "close"}
    BY <1>1, <1>2, <1>4 DEF OnCourse, Inserted, Same, FeesThen
  <2>2. k.asset = "psc" => AssetFits(no)
    BY <1>1, <1>4 DEF AssetFits, Same
  <2> QED BY <1>4, <2>1, <2>2, GoesOn
<1> QED BY <1>1, <1>2, <1>3, <1>4, <1>5, <1>6

(* PayPlatform, in the same words. *)
LEMMA FeeCall ==
  ASSUME IInv, NEW t \in Tasks, PayPlatform(t), NEW k, k = task[t], NEW ok, NEW no,
         ok = FeeDone(k), no = NoFees(k)
  PROVE  /\ k \in Task /\ TaskOK(k) /\ k.pc = "fee" /\ started \in 0..MaxTasks
         /\ Rgb \in Accounts /\ k.asset \in Assets /\ PlatformFee(k.price[k.asset]) \in Nat
         /\ \/ AddBalance(t, Rgb, k.asset, PlatformFee(k.price[k.asset]), ok, ok)
            \/ k.asset = "psc" /\ Set(t, no) /\ Fault /\ UNCHANGED wallet
         /\ StoreUnchanged /\ UNCHANGED started
<1>1. k \in Task /\ TaskOK(k) /\ k.pc = "fee" /\ started \in 0..MaxTasks
  BY Known DEF PayPlatform, At
<1>2. k.op # "rgb" /\ k.asset \in Assets /\ k.price[k.asset] \in Nat
  BY <1>1, Amounts DEF TaskOK, OnCourse
<1>3. Rgb \in Accounts /\ PlatformFee(k.price[k.asset]) \in Nat
  BY <1>2 DEF Accounts, PlatformFee
<1> QED BY <1>1, <1>2, <1>3 DEF PayPlatform, FeeDone, NoFees, FeesThen

LEMMA FeeOK ==
  ASSUME IInv, NEW t \in Tasks, PayPlatform(t)
  PROVE  IInv'
<1>1. PICK k, ok, no : k = task[t] /\ ok = FeeDone(k) /\ no = NoFees(k)
  OBVIOUS
<1>2. /\ k \in Task /\ TaskOK(k) /\ k.pc = "fee" /\ started \in 0..MaxTasks
      /\ Rgb \in Accounts /\ k.asset \in Assets /\ PlatformFee(k.price[k.asset]) \in Nat
      /\ \/ AddBalance(t, Rgb, k.asset, PlatformFee(k.price[k.asset]), ok, ok)
         \/ k.asset = "psc" /\ Set(t, no) /\ Fault /\ UNCHANGED wallet
      /\ StoreUnchanged /\ UNCHANGED started
  BY <1>1, FeeCall
<1>3. /\ ok \in Task /\ TaskOK(ok) /\ ~ Inserted(ok)
      /\ no \in Task /\ ~ Inserted(no) /\ (k.asset = "psc" => TaskOK(no))
  BY <1>1, <1>2, FeeNext
<1>4. started' \in 0..MaxTasks
  BY <1>2
<1>5. CASE AddBalance(t, Rgb, k.asset, PlatformFee(k.price[k.asset]), ok, ok)
  <2>1. /\ wallet' \in [Accounts -> [Assets -> Nat]] /\ faults' \in 0..MaxFaults /\ Set(t, ok)
    <3>1. PlatformFee(k.price[k.asset]) \in Int
      BY <1>2
    <3> QED BY <1>2, <1>5, <3>1, AddOutcome
  <2> QED BY <1>2, <1>3, <1>4, <2>1, ContinuesOnly
<1>6. CASE k.asset = "psc" /\ Set(t, no) /\ Fault /\ UNCHANGED wallet
  <2>1. wallet' \in [Accounts -> [Assets -> Nat]] /\ faults' \in 0..MaxFaults
    BY <1>6, Known, FaultCounts
  <2> QED BY <1>2, <1>3, <1>4, <1>6, <2>1, ContinuesOnly
<1> QED BY <1>2, <1>5, <1>6

-----------------------------------------------------------------------------
(* The transaction of an acceptance *)

(* ReadOthers *)
LEMMA OthersOK ==
  ASSUME IInv, NEW t \in Tasks, ReadOthers(t)
  PROVE  IInv' /\ RowsStay
<1> DEFINE k == task[t]
<1>1. k \in Task /\ TaskOK(k) /\ k.pc = "others" /\ TablesOK
  BY Known DEF ReadOthers, At
<1>2. k.op = "accept" /\ k.asset = "psc"
  BY <1>1 DEF TaskOK, OnCourse, AssetFits
<1>3. TablesOK' /\ RowsStay /\ locked' \subseteq locked
  BY <1>1, FaultCounts DEF ReadOthers, TablesOK, RowsStay
<1>4. CASE Set(t, [k EXCEPT !.pc = "refund", !.todo = LiveFor(k.feature) \ {k.id}])
  <2>1. LiveFor(k.feature) \subseteq DOMAIN requests /\ DOMAIN requests \subseteq Ids
    BY <1>1, BoundsAssumption DEF LiveFor, TablesOK, Ids
  <2>2. PICK j : j = [k EXCEPT !.pc = "refund", !.todo = LiveFor(k.feature) \ {k.id}]
    OBVIOUS
  <2>3. /\ j \in Task /\ j.pc = "refund" /\ j.op = "accept" /\ j.id = k.id /\ j.asset = "psc"
        /\ j.price = k.price /\ j.todo \subseteq DOMAIN requests
    BY <1>1, <1>2, <2>1, <2>2 DEF Task
  <2>4. TaskOK(j) /\ ~ Inserted(j)
    BY <1>1, <1>2, <2>3
       DEF TaskOK, OnCourse, AssetFits, KnowsItsRow, KnowsItsSale, Inserted, Settling
  <2> QED BY <1>3, <1>4, <2>2, <2>3, <2>4, Continues
<1>5. CASE task' = [task EXCEPT ![t] = Idle]
  <2>1. Set(t, Idle)
    BY <1>5 DEF Set
  <2> QED BY <1>3, <2>1, Ends
<1>6. CASE task' = [task EXCEPT ![t].pc = "refund"]
  <2>1. PICK j : j = [k EXCEPT !.pc = "refund"]
    OBVIOUS
  <2>2. Set(t, j)
    BY <1>6, <2>1 DEF Set
  <2>3. j \in Task /\ j.pc = "refund" /\ j.asset = k.asset /\ Same(j, k)
    BY <1>1, <2>1, AtStep DEF Steps
  <2>4. OnCourse(j) /\ AssetFits(j) /\ ~ Inserted(j)
    BY <1>2, <2>3 DEF OnCourse, AssetFits, Inserted, Same
  <2>5. TaskOK(j)
    BY <1>1, <2>3, <2>4, GoesOn
  <2> QED BY <1>3, <2>2, <2>3, <2>4, <2>5, Continues
<1> QED BY <1>4, <1>5, <1>6 DEF ReadOthers

(* RefundOther *)
LEMMA RefundOK ==
  ASSUME IInv, NEW t \in Tasks, RefundOther(t)
  PROVE  IInv' /\ RowsStay
<1> DEFINE k == task[t]
           i == Min(k.todo)
<1>1. k \in Task /\ TaskOK(k) /\ k.pc = "refund" /\ TablesOK /\ k.todo # {}
  BY Known DEF RefundOther, At
<1>2. k.op = "accept" /\ k.asset = "psc"
  BY <1>1 DEF TaskOK, OnCourse, AssetFits
<1>3. TablesOK' /\ RowsStay /\ locked' \subseteq locked
  BY <1>1, FaultCounts DEF RefundOther, TablesOK, RowsStay
<1>4. CASE Set(t, [k EXCEPT !.pc = "repay"])
  <2>1. PICK j : j = [k EXCEPT !.pc = "repay"]
    OBVIOUS
  <2>2. j \in Task /\ j.pc = "repay" /\ j.asset = k.asset /\ Same(j, k)
    BY <1>1, <2>1, AtStep DEF Steps
  <2>3. OnCourse(j) /\ AssetFits(j) /\ ~ Inserted(j) /\ j.todo # {}
    BY <1>1, <1>2, <2>2 DEF OnCourse, AssetFits, Inserted, Same
  <2>4. TaskOK(j)
    BY <1>1, <2>2, <2>3, GoesOn
  <2> QED BY <1>3, <1>4, <2>1, <2>2, <2>3, <2>4, Continues
<1>5. CASE Set(t, Idle)
  BY <1>3, <1>5, Ends
<1>6. CASE Set(t, [k EXCEPT !.todo = @ \ {i}])
  <2>1. PICK j : j = [k EXCEPT !.todo = @ \ {i}]
    OBVIOUS
  <2>2. /\ j \in Task /\ j.pc = "refund" /\ j.op = "accept" /\ j.id = k.id
        /\ j.price = k.price /\ j.todo = k.todo \ {i} /\ j.asset = k.asset
    BY <1>1, <1>2, <2>1 DEF Task
  <2>3. TaskOK(j) /\ ~ Inserted(j)
    BY <1>1, <1>2, <2>2
       DEF TaskOK, OnCourse, AssetFits, KnowsItsRow, KnowsItsSale, Inserted, Settling
  <2> QED BY <1>3, <1>6, <2>1, <2>2, <2>3, Continues
<1> QED BY <1>4, <1>5, <1>6 DEF RefundOther

(* OthersDone *)
LEMMA DoneOK ==
  ASSUME IInv, NEW t \in Tasks, OthersDone(t)
  PROVE  IInv' /\ RowsStay
<1> DEFINE k == task[t]
<1>1. k \in Task /\ TaskOK(k) /\ k.pc = "refund" /\ TablesOK
  BY Known DEF OthersDone, At
<1>2. k.op = "accept" /\ k.asset = "psc"
  BY <1>1 DEF TaskOK, OnCourse, AssetFits
<1>3. TablesOK' /\ RowsStay /\ locked' \subseteq locked
  BY <1>1 DEF OthersDone, TablesOK, RowsStay
<1>4. PICK j : j = [k EXCEPT !.pc = "commit"]
  OBVIOUS
<1>5. Set(t, j) /\ j \in Task /\ j.pc = "commit" /\ j.asset = k.asset /\ Same(j, k)
  BY <1>1, <1>4, AtStep DEF Steps, OthersDone
<1>6. OnCourse(j) /\ AssetFits(j) /\ ~ Inserted(j)
  BY <1>2, <1>5 DEF OnCourse, AssetFits, Inserted, Same
<1>7. TaskOK(j)
  BY <1>1, <1>5, <1>6, GoesOn
<1> QED BY <1>3, <1>5, <1>6, <1>7, Continues

(* What a sale makes of the sell requests. *)
LEMMA CompletedRows ==
  ASSUME TablesOK, NEW f
  PROVE  /\ Completed(f) \in Seq(Sale) /\ Len(Completed(f)) = Len(sales)
         /\ DOMAIN Completed(f) = DOMAIN sales
         /\ \A i \in DOMAIN sales :
              Completed(f)[i].feature = sales[i].feature /\ Completed(f)[i].seller = sales[i].seller
<1>1. sales \in Seq(Sale)
  BY DEF TablesOK
<1>2. \A i \in DOMAIN sales : sales[i] \in Sale
  BY <1>1
<1>3. ASSUME NEW s \in Sale
      PROVE  LET r == [s EXCEPT !.state = "completed"]
             IN  r \in Sale /\ r.feature = s.feature /\ r.seller = s.seller
  BY DEF Sale
<1>4. DOMAIN Completed(f) = DOMAIN sales
  BY DEF Completed
<1>5. \A i \in DOMAIN sales : Completed(f)[i] \in Sale /\ Completed(f)[i].feature = sales[i].feature
                              /\ Completed(f)[i].seller = sales[i].seller
  BY <1>2, <1>3 DEF Completed
<1>6. PICK s : s = Completed(f)
  OBVIOUS
<1>7. s \in [1..Len(sales) -> Sale] /\ Len(sales) \in Nat
  BY <1>1, <1>4, <1>5, <1>6 DEF Completed
<1>8. s \in Seq(Sale) /\ Len(s) = Len(sales)
  BY <1>7
<1> QED BY <1>4, <1>5, <1>6, <1>8

(* The new owner of a feature, and its new status. *)
LEMMA OwnerTypes ==
  ASSUME TablesOK, NEW k \in Task, owner' = [owner EXCEPT ![k.feature] = k.buyer],
         NotPriced(k.feature)
  PROVE  /\ owner' \in [Features -> Accounts]
         /\ limited' \subseteq Limited /\ priced' \subseteq Features \ limited'
BY DEF TablesOK, NotPriced, Task, Accounts

(* Commit *)
LEMMA CommitOK ==
  ASSUME IInv, NEW t \in Tasks, Commit(t)
  PROVE  IInv' /\ RowsStay
<1> DEFINE k == task[t]
<1>1. k \in Task /\ TaskOK(k) /\ k.pc = "commit" /\ TablesOK
  BY Known DEF Commit, At
<1>2. k.id \in DOMAIN requests
  BY <1>1 DEF TaskOK, OnCourse, KnowsItsRow, Settling
<1>3. CASE Fault /\ StoreUnchanged
  <2>1. TablesOK' /\ RowsStay /\ locked' \subseteq locked
    BY <1>1, <1>3, FaultCounts DEF Commit, TablesOK, RowsStay, StoreUnchanged
  <2>2. Set(t, Idle)
    BY DEF Commit
  <2> QED BY <2>1, <2>2, Ends
<1>4. CASE /\ owner' = [owner EXCEPT ![k.feature] = k.buyer]
           /\ NotPriced(k.feature) /\ sales' = Completed(k.feature)
           /\ requests' = [requests EXCEPT ![k.id].state =
                             IF @ = "removed" THEN @ ELSE "accepted"]
           /\ locked' = locked \ {k.id}
           /\ UNCHANGED faults
  <2>1. /\ owner' \in [Features -> Accounts]
        /\ limited' \subseteq Limited /\ priced' \subseteq Features \ limited'
    BY <1>1, <1>4, OwnerTypes
  <2>2. /\ sales' \in Seq(Sale) /\ Len(sales') = Len(sales) /\ DOMAIN sales' = DOMAIN sales
    BY <1>1, <1>4, CompletedRows
  <2>3. /\ DOMAIN requests' = DOMAIN requests /\ requests' \in Seq(Request)
        /\ Len(requests') = Len(requests)
        /\ \A x \in DOMAIN requests : requests'[x].price = requests[x].price
    <3>1. requests \in Seq(Request) /\ requests[k.id] \in Request
      BY <1>1, <1>2 DEF TablesOK
    <3>2. PICK r : r = [requests[k.id] EXCEPT !.state = IF @ = "removed" THEN @ ELSE "accepted"]
      OBVIOUS
    <3>3. r \in Request /\ r.price = requests[k.id].price
      BY <3>1, <3>2 DEF Request
    <3>4. requests' = [requests EXCEPT ![k.id] = r]
      BY <1>4, <3>2
    <3> QED BY <1>2, <3>1, <3>3, <3>4
  <2>4. TablesOK' /\ RowsStay
    BY <1>1, <1>4, <2>1, <2>2, <2>3 DEF Commit, TablesOK, RowsStay
  <2>5. Set(t, Idle) /\ locked' \subseteq locked
    BY <1>4 DEF Commit
  <2> QED BY <2>4, <2>5, Ends
<1> QED BY <1>3, <1>4 DEF Commit

-----------------------------------------------------------------------------
(* The end of a purchase, and sell requests *)

(* TransferOwnership *)
LEMMA TransferOK ==
  ASSUME IInv, NEW t \in Tasks, TransferOwnership(t)
  PROVE  IInv' /\ RowsStay
<1> DEFINE k == task[t]
<1>1. k \in Task /\ TaskOK(k) /\ k.pc = "own" /\ TablesOK
  BY Known DEF TransferOwnership, At
<1>2. RowsStay /\ locked' \subseteq locked
  BY DEF TransferOwnership, RowsStay
<1>3. CASE /\ owner' = [owner EXCEPT ![k.feature] = k.buyer]
           /\ NotPriced(k.feature)
           /\ Set(t, IF k.op = "buy" THEN [k EXCEPT !.pc = "cancel"] ELSE Idle)
           /\ UNCHANGED faults
  <2>1. /\ owner' \in [Features -> Accounts]
        /\ limited' \subseteq Limited /\ priced' \subseteq Features \ limited'
    BY <1>1, <1>3, OwnerTypes
  <2>2. TablesOK'
    BY <1>1, <1>3, <2>1 DEF TransferOwnership, TablesOK
  <2>3. PICK j : j = [k EXCEPT !.pc = "cancel"]
    OBVIOUS
  <2>4. j \in Task /\ j.pc = "cancel" /\ j.asset = k.asset /\ Same(j, k)
    BY <1>1, <2>3, AtStep DEF Steps
  <2>5. CASE k.op = "buy"
    <3>1. OnCourse(j) /\ AssetFits(j) /\ ~ Inserted(j)
      BY <1>1, <2>4, <2>5 DEF OnCourse, AssetFits, Inserted, Same, TaskOK
    <3>2. TaskOK(j)
      BY <1>1, <2>4, <3>1, GoesOn
    <3>3. Set(t, j)
      BY <1>3, <2>3, <2>5
    <3> QED BY <1>2, <2>2, <2>4, <3>1, <3>2, <3>3, Continues
  <2>6. CASE k.op # "buy"
    <3>1. Set(t, Idle)
      BY <1>3, <2>6
    <3> QED BY <1>2, <2>2, <3>1, Ends
  <2> QED BY <2>5, <2>6
<1>4. CASE /\ owner' \in {owner, [owner EXCEPT ![k.feature] = k.buyer]}
           /\ Set(t, Idle) /\ Fault /\ StatusUnchanged
  <2>1. owner' \in [Features -> Accounts]
    BY <1>1, <1>4 DEF TablesOK, Task, Accounts
  <2>2. TablesOK'
    BY <1>1, <1>4, <2>1, FaultCounts DEF TransferOwnership, TablesOK, StatusUnchanged
  <2> QED BY <1>2, <1>4, <2>2, Ends
<1> QED BY <1>3, <1>4 DEF TransferOwnership

(* What CancelAllForFeature makes of the offers. *)
Cancelled(f) ==
  [i \in DOMAIN requests |->
     IF requests[i].feature = f THEN SoftDelete(requests[i], "cancelled") ELSE requests[i]]

LEMMA CancelledRows ==
  ASSUME TablesOK, NEW f, NEW q, q = Cancelled(f)
  PROVE  /\ q \in Seq(Request) /\ Len(q) = Len(requests) /\ DOMAIN q = DOMAIN requests
         /\ \A i \in DOMAIN requests :
              /\ q[i].price = requests[i].price /\ q[i].feature = requests[i].feature
              /\ q[i].seller = requests[i].seller
              /\ q[i].state = IF requests[i].feature = f /\ requests[i].state = "pending"
                                THEN "cancelled" ELSE requests[i].state
<1>1. requests \in Seq(Request)
  BY DEF TablesOK
<1>2. \A i \in DOMAIN requests : requests[i] \in Request
  BY <1>1
<1>3. ASSUME NEW s \in Request
      PROVE  LET r == SoftDelete(s, "cancelled")
             IN  /\ r \in Request /\ r.price = s.price /\ r.feature = s.feature
                 /\ r.seller = s.seller
                 /\ r.state = IF s.state = "pending" THEN "cancelled" ELSE s.state
  BY DEF Request, SoftDelete
<1>4. \A i \in DOMAIN requests :
        /\ q[i] \in Request
        /\ q[i].price = requests[i].price /\ q[i].feature = requests[i].feature
        /\ q[i].seller = requests[i].seller
        /\ q[i].state = IF requests[i].feature = f /\ requests[i].state = "pending"
                          THEN "cancelled" ELSE requests[i].state
  BY <1>2, <1>3 DEF Cancelled
<1>5. q \in [1..Len(requests) -> Request] /\ Len(requests) \in Nat
  BY <1>1, <1>4 DEF Cancelled
<1>6. q \in Seq(Request) /\ Len(q) = Len(requests)
  BY <1>5
<1> QED BY <1>4, <1>6 DEF Cancelled

(* CancelRequests *)
LEMMA CancelOK ==
  ASSUME IInv, NEW t \in Tasks, CancelRequests(t)
  PROVE  IInv' /\ RowsStay
<1> DEFINE k == task[t]
<1>1. k \in Task /\ TaskOK(k) /\ k.pc = "cancel" /\ TablesOK
  BY Known DEF CancelRequests, At
<1>2. k.op = "buy"
  BY <1>1 DEF TaskOK, OnCourse
<1>3. /\ DOMAIN requests' = DOMAIN requests /\ requests' \in Seq(Request)
      /\ Len(requests') = Len(requests)
      /\ \A x \in DOMAIN requests : requests'[x].price = requests[x].price
  <2>1. CASE UNCHANGED requests
    BY <1>1, <2>1 DEF TablesOK
  <2>2. CASE requests' = [i \in DOMAIN requests |->
             IF requests[i].feature = k.feature THEN SoftDelete(requests[i], "cancelled")
                                                ELSE requests[i]]
    <3>1. PICK q : q = Cancelled(k.feature)
      OBVIOUS
    <3>2. requests' = q
      BY <2>2, <3>1 DEF Cancelled
    <3>3. /\ q \in Seq(Request) /\ Len(q) = Len(requests) /\ DOMAIN q = DOMAIN requests
          /\ \A i \in DOMAIN requests : q[i].price = requests[i].price
      BY <1>1, <3>1, CancelledRows
    <3> QED BY <3>2, <3>3
  <2> QED BY <2>1, <2>2 DEF CancelRequests
<1>4. TablesOK' /\ RowsStay /\ locked' \subseteq locked
  BY <1>1, <1>3, FaultCounts DEF CancelRequests, TablesOK, RowsStay
<1>5. PICK j : j = [k EXCEPT !.pc = "complete"]
  OBVIOUS
<1>6. Set(t, j) /\ j \in Task /\ j.pc = "complete" /\ j.asset = k.asset /\ Same(j, k)
  BY <1>1, <1>5, AtStep DEF Steps, CancelRequests
<1>7. OnCourse(j) /\ AssetFits(j) /\ ~ Inserted(j)
  BY <1>1, <1>2, <1>6 DEF OnCourse, AssetFits, Inserted, Same, TaskOK
<1>8. TaskOK(j)
  BY <1>1, <1>6, <1>7, GoesOn
<1> QED BY <1>4, <1>6, <1>7, <1>8, Continues

(* CompleteSales *)
LEMMA CompleteOK ==
  ASSUME IInv, NEW t \in Tasks, CompleteSales(t)
  PROVE  IInv' /\ RowsStay
<1>1. TablesOK
  BY Known
<1>2. /\ sales' \in Seq(Sale) /\ Len(sales') = Len(sales) /\ DOMAIN sales' = DOMAIN sales
      /\ faults' \in 0..MaxFaults
  BY <1>1, CompletedRows, FaultCounts DEF CompleteSales, TablesOK
<1>3. TablesOK' /\ RowsStay /\ locked' \subseteq locked /\ Set(t, Idle)
  BY <1>1, <1>2 DEF CompleteSales, TablesOK, RowsStay
<1> QED BY <1>3, Ends

(* InsertSale *)
LEMMA SaleOK ==
  ASSUME IInv, NEW t \in Tasks, InsertSale(t)
  PROVE  IInv' /\ RowsStay
<1> DEFINE k == task[t]
<1>1. /\ k \in Task /\ TaskOK(k) /\ k.pc = "list" /\ TablesOK /\ Len(sales) < MaxSales
  BY Known DEF InsertSale, At
<1>2. k.op = "sell" /\ k.asset = "psc" /\ k.seller \in Users
  BY <1>1 DEF TaskOK, OnCourse, AssetFits, KnowsItsSale
<1>3. CASE Set(t, Idle) /\ Fault /\ UNCHANGED sales
  <2>1. TablesOK' /\ RowsStay /\ locked' \subseteq locked
    BY <1>1, <1>3, FaultCounts DEF InsertSale, TablesOK, RowsStay
  <2> QED BY <1>3, <2>1, Ends
<1>4. CASE /\ sales' = Append(sales, [feature |-> k.feature, seller |-> k.seller, state |-> "open"])
           /\ Set(t, [k EXCEPT !.pc = "price"]) /\ UNCHANGED faults
  <2>1. PICK r : r = [feature |-> k.feature, seller |-> k.seller, state |-> "open"]
    OBVIOUS
  <2>2. r \in Sale /\ sales \in Seq(Sale) /\ sales' = Append(sales, r)
    BY <1>1, <1>2, <1>4, <2>1 DEF Sale, Task, TablesOK
  <2>3. /\ sales' \in Seq(Sale) /\ Len(sales') = Len(sales) + 1
        /\ DOMAIN sales' = DOMAIN sales \union {Len(sales) + 1} /\ Len(sales) \in Nat
    BY <2>2, Appended
  <2>4. TablesOK' /\ RowsStay /\ locked' \subseteq locked
    <3>1. Len(sales') <= MaxSales
      BY <1>1, <2>3, BoundsAssumption
    <3> QED BY <1>1, <1>4, <2>3, <3>1 DEF InsertSale, TablesOK, RowsStay
  <2>5. PICK j : j = [k EXCEPT !.pc = "price"]
    OBVIOUS
  <2>6. Set(t, j) /\ j \in Task /\ j.pc = "price" /\ j.asset = k.asset /\ Same(j, k)
    BY <1>1, <1>4, <2>5, AtStep DEF Steps
  <2>7. OnCourse(j) /\ AssetFits(j) /\ ~ Inserted(j)
    BY <1>2, <2>6 DEF OnCourse, AssetFits, Inserted, Same
  <2>8. TaskOK(j)
    BY <1>1, <2>6, <2>7, GoesOn
  <2> QED BY <2>4, <2>6, <2>7, <2>8, Continues
<1> QED BY <1>3, <1>4 DEF InsertSale

(* SetPriced *)
LEMMA PricedOK ==
  ASSUME IInv, NEW t \in Tasks, SetPriced(t)
  PROVE  IInv' /\ RowsStay
<1>1. task[t] \in Task /\ TablesOK
  BY Known
<1>2. limited' \subseteq Limited /\ priced' \subseteq Features \ limited' /\ faults' \in 0..MaxFaults
  BY <1>1, FaultCounts DEF SetPriced, TablesOK, Task, StatusUnchanged
<1>3. TablesOK' /\ RowsStay /\ locked' \subseteq locked /\ Set(t, Idle)
  BY <1>1, <1>2 DEF SetPriced, TablesOK, RowsStay
<1> QED BY <1>3, Ends

(* Unprice *)
LEMMA UnpriceOK ==
  ASSUME IInv, NEW t \in Tasks, Unprice(t)
  PROVE  IInv' /\ RowsStay
<1> DEFINE k == task[t]
<1>1. k \in Task /\ TaskOK(k) /\ k.pc = "unprice" /\ TablesOK
  BY Known DEF Unprice, At
<1>2. k.op = "unsell" /\ k.asset = "psc"
  BY <1>1 DEF TaskOK, OnCourse, AssetFits
<1>3. limited' \subseteq Limited /\ priced' \subseteq Features \ limited' /\ faults' \in 0..MaxFaults
  BY <1>1, FaultCounts DEF Unprice, TablesOK, StatusUnchanged, NotPriced
<1>4. TablesOK' /\ RowsStay /\ locked' \subseteq locked
  BY <1>1, <1>3 DEF Unprice, TablesOK, RowsStay
<1>5. PICK j : j = [k EXCEPT !.pc = "unlist"]
  OBVIOUS
<1>6. j \in Task /\ j.pc = "unlist" /\ j.asset = k.asset /\ Same(j, k)
  BY <1>1, <1>5, AtStep DEF Steps
<1>7. OnCourse(j) /\ AssetFits(j) /\ ~ Inserted(j)
  BY <1>2, <1>6 DEF OnCourse, AssetFits, Inserted, Same
<1>8. TaskOK(j)
  BY <1>1, <1>6, <1>7, GoesOn
<1>9. Set(t, j) \/ Set(t, Idle)
  BY <1>5 DEF Unprice
<1> QED BY <1>4, <1>6, <1>7, <1>8, <1>9, Continues, Ends

(* RemoveSale *)
LEMMA RemoveOK ==
  ASSUME IInv, NEW t \in Tasks, RemoveSale(t)
  PROVE  IInv' /\ RowsStay
<1> DEFINE k == task[t]
<1>1. k \in Task /\ TaskOK(k) /\ k.pc = "unlist" /\ TablesOK
  BY Known DEF RemoveSale, At
<1>2. k.id \in DOMAIN sales
  BY <1>1 DEF TaskOK, OnCourse, KnowsItsSale
<1>3. sales' \in Seq(Sale) /\ Len(sales') = Len(sales) /\ DOMAIN sales' = DOMAIN sales
  <2>1. CASE UNCHANGED sales
    BY <1>1, <2>1 DEF TablesOK
  <2>2. CASE sales' = [sales EXCEPT ![k.id].state = "removed"]
    <3>1. sales \in Seq(Sale) /\ sales[k.id] \in Sale
      BY <1>1, <1>2 DEF TablesOK
    <3>2. PICK r : r = [sales[k.id] EXCEPT !.state = "removed"]
      OBVIOUS
    <3>3. r \in Sale /\ sales' = [sales EXCEPT ![k.id] = r]
      BY <2>2, <3>1, <3>2 DEF Sale
    <3> QED BY <1>2, <3>1, <3>3
  <2> QED BY <2>1, <2>2 DEF RemoveSale
<1>4. faults' \in 0..MaxFaults
  BY <1>1, FaultCounts DEF RemoveSale, TablesOK
<1>5. TablesOK' /\ RowsStay /\ locked' \subseteq locked /\ Set(t, Idle)
  BY <1>1, <1>3, <1>4 DEF RemoveSale, TablesOK, RowsStay
<1> QED BY <1>5, Ends

-----------------------------------------------------------------------------
(* The invariant *)

LEMMA InitOK == Init => IInv
<1> SUFFICES ASSUME Init PROVE IInv
  OBVIOUS
<1>1. /\ requests \in Seq(Request) /\ Len(requests) <= MaxRequests
      /\ \A i \in DOMAIN requests : requests[i].price \in Prices
  BY InitialAssumption DEF Init, Range
<1>2. wallet \in [Accounts -> [Assets -> Nat]]
  BY PricesAssumption DEF Init
<1>3. <<>> \in Seq(Sale) /\ Len(<<>>) = 0
  OBVIOUS
<1>4. TypeOK
  BY <1>1, <1>2, <1>3, IdleFits, InitialAssumption, UsersAssumption, BoundsAssumption
     DEF Init, TypeOK
<1>5. \A t \in Tasks : TaskOK(task[t]) /\ ~ Inserted(task[t])
  BY IdleFits DEF Init
<1> QED BY <1>1, <1>4, <1>5 DEF IInv, LocksAreNew

(* ProcessStops *)
LEMMA StopsOK ==
  ASSUME IInv, ProcessStops
  PROVE  IInv'
<1>1. TablesOK
  BY DEF IInv, TypeOK, TablesOK
<1>2. TablesOK'
  BY <1>1, FaultCounts DEF ProcessStops, TablesOK
<1>3. PICK j : j = Idle
  OBVIOUS
<1>4. j \in Task /\ TaskOK(j) /\ ~ Inserted(j) /\ task' = [t \in Tasks |-> j]
  BY <1>3, IdleFits DEF ProcessStops
<1>5. RowsStay
  BY DEF ProcessStops, RowsStay
<1>6. TaskOK(j)'
  BY <1>4, <1>5, TaskKept
<1>7. \A t \in Tasks : task'[t] = j
  BY <1>4
<1>8. \A t \in Tasks : TaskOK(task[t])'
  BY <1>6, <1>7 DEF TaskOK, OnCourse, AssetFits, KnowsItsRow, KnowsItsSale, Inserted, Settling
<1>9. LocksAreNew'
  BY <1>4, <1>7 DEF LocksAreNew, Inserted
<1> QED BY <1>2, <1>4, <1>8, <1>9 DEF IInv, TypeOK, TablesOK

(* The three requests that find an offer. *)
LEMMA SettlingOK ==
  ASSUME IInv, NEW t \in Tasks, RejectBuyRequest(t) \/ DeleteBuyRequest(t) \/ AcceptBuyRequest(t)
  PROVE  IInv' /\ Begun(t)
<1>1. PICK op \in {"accept", "reject", "delete"}, i \in locked :
        /\ Begin(t) /\ Set(t, For(i, op, IF op = "accept" THEN "pay" ELSE "repay"))
        /\ StoreUnchanged /\ MoneyUnchanged
  BY DEF RejectBuyRequest, DeleteBuyRequest, AcceptBuyRequest
<1>2. PICK pc : pc = IF op = "accept" THEN "pay" ELSE "repay"
  OBVIOUS
<1> QED BY <1>1, <1>2, ForOK

LEMMA StepOK ==
  ASSUME IInv, NEW t \in Tasks, Step(t)
  PROVE  IInv'
BY SendOK, InsertOK, ChargeOK, UnchargeOK, RecordOK, SettlingOK, RepayOK, ReleaseOK, CloseOK,
   PayOK, UnpayOK, FeeOK, OthersOK, RefundOK, DoneOK, CommitOK, BuyFromRgbOK, BuyFromUserOK,
   TransferOK, CancelOK, CompleteOK, CreateSellOK, SaleOK, PricedOK, DeleteSellOK, UnpriceOK,
   RemoveOK DEF Step

LEMMA NextOK == IInv /\ [Next]_vars => IInv'
<1>1. ASSUME IInv, UNCHANGED vars
      PROVE  IInv'
  BY <1>1 DEF vars, IInv, TypeOK, TaskOK, OnCourse, AssetFits, KnowsItsRow, KnowsItsSale,
              Inserted, Settling, LocksAreNew
<1> QED BY <1>1, StepOK, StopsOK DEF Next

-----------------------------------------------------------------------------
(* Sums of money *)

(* The wallets hold so much, and a change of one wallet changes the sum.   *)
LEMMA WalletsType ==
  ASSUME IInv, NEW a \in Assets
  PROVE  InWallets(a) \in Int
<1>1. IsFiniteSet(Accounts)
  BY UsersAssumption, FS_AddElement DEF Accounts
<1>2. PICK f : f = [u \in Accounts |-> wallet[u][a]]
  OBVIOUS
<1>3. \A u \in Accounts : f[u] \in Int
  BY <1>2 DEF IInv, TypeOK
<1>4. SumFunctionOnSet(f, Accounts) \in Int
  BY <1>1, <1>3, SumRemove
<1> QED BY <1>2, <1>4 DEF InWallets

Gains(u, w, m) == wallet' = [wallet EXCEPT ![u][w] = @ + m]

LEMMA WalletsChange ==
  ASSUME IInv, IInv', NEW u \in Accounts, NEW w \in Assets, NEW m \in Int, Gains(u, w, m),
         NEW a \in Assets
  PROVE  InWallets(a)' = InWallets(a) + Only(a = w, m)
<1>1. IsFiniteSet(Accounts)
  BY UsersAssumption, FS_AddElement DEF Accounts
<1>2. wallet \in [Accounts -> [Assets -> Nat]] /\ wallet' \in [Accounts -> [Assets -> Nat]]
  BY DEF IInv, TypeOK
<1>3. PICK f, g : f = [x \in Accounts |-> wallet[x][a]] /\ g = [x \in Accounts |-> wallet'[x][a]]
  OBVIOUS
<1>4. PICK r : r = [wallet[u] EXCEPT ![w] = @ + m]
  OBVIOUS
<1>5. wallet' = [wallet EXCEPT ![u] = r] /\ r[a] = wallet[u][a] + Only(a = w, m)
  BY <1>2, <1>4 DEF Only, Gains
<1>6. /\ \A x \in Accounts : f[x] \in Int
      /\ g[u] \in Int /\ \A x \in Accounts \ {u} : g[x] = f[x]
      /\ g[u] = f[u] + Only(a = w, m) /\ Only(a = w, m) \in Int
  BY <1>2, <1>3, <1>5 DEF Only
<1>a. \A x \in Accounts : f[x] \in Int
  BY <1>6
<1>b. g[u] \in Int
  BY <1>6
<1>c. \A x \in Accounts \ {u} : g[x] = f[x]
  BY <1>6
<1>7. SumFunctionOnSet(g, Accounts) = SumFunctionOnSet(f, Accounts) - f[u] + g[u]
  BY <1>1, <1>a, <1>b, <1>c, SumUpdate
<1>8. SumFunctionOnSet(f, Accounts) \in Int /\ f[u] \in Int
  BY <1>1, <1>6, SumRemove
<1>9. SumFunctionOnSet(g, Accounts) = SumFunctionOnSet(f, Accounts) + Only(a = w, m)
  BY <1>6, <1>7, <1>8
<1> QED BY <1>3, <1>9 DEF InWallets

(* What is set aside for an offer. *)
Charged(i, a) == IF a = "color" THEN 0 ELSE BuyerCharge(requests[i].price[a])

LEMMA ChargedType ==
  ASSUME IInv, NEW a \in Assets, NEW i \in DOMAIN requests
  PROVE  Charged(i, a) \in Nat /\ Reserve(requests, a)[i] = Charged(i, a)
BY RowPrice DEF Charged, BuyerCharge, Reserve, Assets

(* The rows of locked_wallets are finitely many. *)
LEMMA LockedFinite ==
  ASSUME IInv
  PROVE  IsFiniteSet(locked) /\ locked \subseteq DOMAIN requests
<1>1. requests \in Seq(Request) /\ locked \subseteq DOMAIN requests
  BY DEF IInv, TypeOK
<1>2. DOMAIN requests = 1..Len(requests) /\ Len(requests) \in Int
  BY <1>1
<1>3. IsFiniteSet(DOMAIN requests)
  BY <1>2, FS_Interval
<1> QED BY <1>1, <1>3, FS_Subset

LEMMA OffersType ==
  ASSUME IInv, NEW a \in Assets
  PROVE  InOffers(a) \in Int
<1>1. PICK f : f = Reserve(requests, a)
  OBVIOUS
<1>2. \A i \in locked : f[i] \in Int
  BY <1>1, LockedFinite, ChargedType
<1>3. SumFunctionOnSet(f, locked) \in Int
  BY <1>2, LockedFinite, SumRemove
<1> QED BY <1>1, <1>3 DEF InOffers

(* The offers that stay keep their money. *)
LEMMA OffersStay ==
  ASSUME IInv, IInv', RowsStay, NEW a \in Assets
  PROVE  /\ SumFunctionOnSet(Reserve(requests, a)', locked) = InOffers(a)
         /\ \A i \in DOMAIN requests :
              Reserve(requests, a)'[i] = Charged(i, a) /\ Charged(i, a) \in Nat
<1>1. PICK f, g : f = Reserve(requests, a) /\ g = Reserve(requests, a)'
  OBVIOUS
<1>2. \A i \in DOMAIN requests : g[i] = Charged(i, a) /\ Charged(i, a) \in Nat /\ f[i] = Charged(i, a)
  <2>1. \A i \in DOMAIN requests : Charged(i, a) \in Nat /\ f[i] = Charged(i, a)
    BY <1>1, ChargedType
  <2>2. \A i \in DOMAIN requests : g[i] = Charged(i, a)
    BY <1>1 DEF Reserve, RowsStay, Charged
  <2> QED BY <2>1, <2>2
<1>3. \A i \in locked : f[i] \in Int /\ g[i] = f[i]
  BY <1>2, LockedFinite
<1>4. SumFunctionOnSet(g, locked) = SumFunctionOnSet(f, locked)
  BY <1>3, LockedFinite, SumEqual
<1> QED BY <1>1, <1>2, <1>4 DEF InOffers

LEMMA OffersUnchanged ==
  ASSUME IInv, IInv', RowsStay, UNCHANGED locked, NEW a \in Assets
  PROVE  InOffers(a)' = InOffers(a)
BY OffersStay DEF InOffers

LEMMA OfferAdded ==
  ASSUME IInv, IInv', RowsStay, NEW i \in DOMAIN requests, i \notin locked,
         locked' = locked \union {i}, NEW a \in Assets
  PROVE  InOffers(a)' = InOffers(a) + Charged(i, a)
<1>1. PICK g : g = Reserve(requests, a)'
  OBVIOUS
<1>2. /\ SumFunctionOnSet(g, locked) = InOffers(a)
      /\ \A x \in DOMAIN requests : g[x] = Charged(x, a) /\ Charged(x, a) \in Nat
  BY <1>1, OffersStay
<1>3. PICK L : L = locked'
  OBVIOUS
<1>4. L = locked \union {i} /\ \A x \in L : g[x] \in Int
  BY <1>2, <1>3, LockedFinite
<1>5. SumFunctionOnSet(g, L) = SumFunctionOnSet(g, locked) + g[i]
  BY <1>4, LockedFinite, SumWith
<1> QED BY <1>1, <1>2, <1>3, <1>5 DEF InOffers

LEMMA OfferRemoved ==
  ASSUME IInv, IInv', RowsStay, NEW i \in DOMAIN requests,
         locked' = locked \ {i}, NEW a \in Assets
  PROVE  InOffers(a)' = InOffers(a) - Only(i \in locked, Charged(i, a))
<1>1. PICK g : g = Reserve(requests, a)'
  OBVIOUS
<1>2. /\ SumFunctionOnSet(g, locked) = InOffers(a)
      /\ \A x \in DOMAIN requests : g[x] = Charged(x, a) /\ Charged(x, a) \in Nat
  BY <1>1, OffersStay
<1>3. PICK L : L = locked'
  OBVIOUS
<1>4. L = locked \ {i} /\ \A x \in locked : g[x] \in Int
  BY <1>2, <1>3, LockedFinite
<1>5. CASE i \in locked
  <2>1. SumFunctionOnSet(g, locked) = g[i] + SumFunctionOnSet(g, L)
    BY <1>4, <1>5, LockedFinite, SumRemove
  <2>2. IsFiniteSet(L) /\ \A x \in L : g[x] \in Int
    BY <1>4, LockedFinite, FS_Subset
  <2>3. SumFunctionOnSet(g, L) \in Int
    BY <2>2, SumRemove
  <2>4. InOffers(a)' = SumFunctionOnSet(g, L)
    BY <1>1, <1>3 DEF InOffers
  <2>5. g[i] = Charged(i, a) /\ Charged(i, a) \in Nat /\ SumFunctionOnSet(g, locked) = InOffers(a)
    BY <1>2
  <2> QED BY <1>5, <2>1, <2>3, <2>4, <2>5, OffersType DEF Only
<1>6. CASE i \notin locked
  <2>1. L = locked
    BY <1>4, <1>6
  <2>2. InOffers(a)' = InOffers(a)
    BY <1>1, <1>2, <1>3, <2>1 DEF InOffers
  <2> QED BY <1>6, <2>2, OffersType DEF Only
<1> QED BY <1>5, <1>6

-----------------------------------------------------------------------------
(* What a request has taken and not given *)

(* What an offer that is refunded is worth. *)
Refund(k, a) == requests[Refunded(k)].price[a]

(* It is an integer; for the platform's features it is in their colour. *)
LEMMA FlightOfColour ==
  ASSUME NEW k \in Task, NEW a \in Assets, k.op = "rgb" \/ a = "color"
  PROVE  Flight(k, a) = Only(/\ k.op = "rgb" /\ a = "color"
                             /\ k.pc \in {"pay", "uncharge"}, 20 * Stability)
BY DEF Flight, Only

(* For each step of the other requests. *)
LEMMA FlightOfAsset ==
  ASSUME IInv, NEW k \in Task, TaskOK(k), k.op # "rgb", NEW a \in {"psc", "irr"},
         NEW n, n = k.price[a]
  PROVE  /\ n \in Nat
         /\ k.pc \in {"repay", "release", "close"} => Refund(k, a) \in Nat
         /\ k.pc \in {"idle", "insert", "own", "cancel", "complete",
                      "list", "price", "unprice", "unlist"} => Flight(k, a) = 0
         /\ k.pc = "charge"   => Flight(k, a) = Only(DoneWith(k, a), 21 * n)
         /\ k.pc = "uncharge" => Flight(k, a) = Only(a = "psc", 21 * n)
         /\ k.pc = "record"   => Flight(k, a) = 21 * n
         /\ k.pc = "pay"      => Flight(k, a) = Only(k.op = "buy", 21 * n) - Only(DoneWith(k, a), 19 * n)
         /\ k.pc = "unpay"    => Flight(k, a) = - Only(a = "psc", 19 * n)
         /\ k.pc = "fee"      => Flight(k, a) = Only(k.op = "buy", 21 * n) - 19 * n
                                                  - Only(DoneWith(k, a), 2 * n)
         /\ k.pc \in {"others", "refund", "commit"} => Flight(k, a) = - (21 * n)
         /\ k.pc = "repay"    => Flight(k, a) = - Only(k.op = "accept", 21 * n)
                                                  - Only(DoneWith(k, a), 21 * Refund(k, a))
         /\ k.pc = "release"  => Flight(k, a) = - Only(k.op = "accept", 21 * n) - 21 * Refund(k, a)
         /\ k.pc = "close"    => Flight(k, a) = - Only(k.op = "accept", 21 * n)
<1>1. n \in Nat
  BY Amounts
<1>2. k.pc \in {"repay", "release", "close"} => Refund(k, a) \in Nat
  BY RefundedRow, RowPrice DEF Refund
<1>3. Flight(k, a) = Coming(k, a) - Going(k, a) - Returning(k, a)
  BY DEF Flight
<1>4. BuyerCharge(n) = 21 * n /\ SellerPayment(n) = 19 * n /\ PlatformFee(n) = 2 * n
  BY <1>1 DEF BuyerCharge, SellerPayment, PlatformFee
<1>5. k.pc \in {"repay", "release", "close"} => BuyerCharge(Refund(k, a)) = 21 * Refund(k, a)
  BY <1>2 DEF BuyerCharge
<1>6. OnCourse(k)
  BY DEF TaskOK
<1>7. /\ Coming(k, a) = Only(\/ k.pc = "charge" /\ DoneWith(k, a)
                             \/ k.pc = "uncharge" /\ a = "psc"
                             \/ k.op = "send" /\ k.pc = "record"
                             \/ k.op = "buy" /\ k.pc \in {"pay", "fee"}, 21 * n)
      /\ Going(k, a) = Only(\/ k.pc = "pay" /\ DoneWith(k, a)
                            \/ k.pc = "unpay" /\ a = "psc"
                            \/ k.pc = "fee", 19 * n)
           + Only(k.pc = "fee" /\ DoneWith(k, a), 2 * n)
           + Only(/\ k.op = "accept"
                  /\ k.pc \in {"others", "refund", "repay", "release", "close", "commit"}, 21 * n)
      /\ k.pc \notin {"repay", "release"} => Returning(k, a) = 0
      /\ k.pc = "repay" => Returning(k, a) = Only(DoneWith(k, a), 21 * Refund(k, a))
      /\ k.pc = "release" => Returning(k, a) = 21 * Refund(k, a)
  BY <1>4, <1>5 DEF Coming, Going, Returning, Refund, Only
<1>8. k.pc \in {"idle", "insert", "own", "cancel", "complete",
                "list", "price", "unprice", "unlist"} => Flight(k, a) = 0
  BY <1>1, <1>3, <1>6, <1>7 DEF Only, OnCourse
<1>9. /\ k.pc = "charge"   => Flight(k, a) = Only(DoneWith(k, a), 21 * n)
      /\ k.pc = "uncharge" => Flight(k, a) = Only(a = "psc", 21 * n)
      /\ k.pc = "record"   => Flight(k, a) = 21 * n
      /\ k.pc = "pay"      => Flight(k, a) = Only(k.op = "buy", 21 * n) - Only(DoneWith(k, a), 19 * n)
  BY <1>1, <1>3, <1>6, <1>7 DEF Only, OnCourse
<1>10. /\ k.pc = "unpay"   => Flight(k, a) = - Only(a = "psc", 19 * n)
       /\ k.pc = "fee"     => Flight(k, a) = Only(k.op = "buy", 21 * n) - 19 * n
                                               - Only(DoneWith(k, a), 2 * n)
       /\ k.pc \in {"others", "refund", "commit"} => Flight(k, a) = - (21 * n)
  BY <1>1, <1>3, <1>6, <1>7 DEF Only, OnCourse
<1>11. /\ k.pc = "repay"   => Flight(k, a) = - Only(k.op = "accept", 21 * n)
                                               - Only(DoneWith(k, a), 21 * Refund(k, a))
       /\ k.pc = "release" => Flight(k, a) = - Only(k.op = "accept", 21 * n) - 21 * Refund(k, a)
       /\ k.pc = "close"   => Flight(k, a) = - Only(k.op = "accept", 21 * n)
  <2>1. CASE k.pc = "repay"
    BY <1>1, <1>2, <1>3, <1>6, <1>7, <2>1 DEF Only, OnCourse
  <2>2. CASE k.pc = "release"
    BY <1>1, <1>2, <1>3, <1>6, <1>7, <2>2 DEF Only, OnCourse
  <2>3. CASE k.pc = "close"
    BY <1>1, <1>2, <1>3, <1>6, <1>7, <2>3 DEF Only, OnCourse
  <2> QED BY <2>1, <2>2, <2>3
<1> QED BY <1>1, <1>2, <1>8, <1>9, <1>10, <1>11

(* The largest charge bounds every amount. *)
LEMMA Largest ==
  /\ LargestCharge \in Nat /\ 20 * Stability <= LargestCharge
  /\ \A p \in Prices : \A a \in {"psc", "irr"} : p[a] \in Nat /\ 21 * p[a] <= LargestCharge
<1> DEFINE f == [p \in Prices |-> BuyerCharge(p.psc)]
           g == [p \in Prices |-> BuyerCharge(p.irr)]
           P == {f[p] : p \in Prices}
           R == {g[p] : p \in Prices}
           S == P \union R \union {20 * Stability}
<1>1. 20 * Stability \in Nat /\ IsFiniteSet(Prices)
  BY PricesAssumption
<1>2. \A p \in Prices : /\ p["psc"] \in Nat /\ f[p] = 21 * p["psc"]
                        /\ p["irr"] \in Nat /\ g[p] = 21 * p["irr"]
  <2>1. \A p \in Prices : p["psc"] \in Nat /\ p["irr"] \in Nat
    BY PricesAssumption DEF Price
  <2> QED BY <2>1 DEF BuyerCharge
<1>3. LargestCharge = Max(S)
  BY DEF LargestCharge
<1>4. \A p \in Prices : f[p] \in Nat /\ g[p] \in Nat
  BY <1>2
<1> HIDE DEF f, g
<1>5. IsFiniteSet(P) /\ IsFiniteSet(R)
  BY <1>1, FiniteImage
<1>6. P \subseteq Nat /\ R \subseteq Nat
  BY <1>4
<1>7. \A p \in Prices : f[p] \in S /\ g[p] \in S
  OBVIOUS
<1> HIDE DEF P, R
<1>8. IsFiniteSet(S) /\ S \subseteq Nat /\ S \subseteq Int /\ S # {} /\ 20 * Stability \in S
  <2>1. IsFiniteSet(P \union R)
    BY <1>5, FS_Union
  <2>2. IsFiniteSet((P \union R) \union {20 * Stability})
    BY <2>1, FS_AddElement
  <2>3. S \subseteq Nat
    BY <1>1, <1>6
  <2>4. S \subseteq Int
    BY <2>3
  <2> QED BY <2>2, <2>3, <2>4
<1> HIDE DEF S
<1>9. Max(S) \in S /\ \A n \in S : n <= Max(S)
  BY <1>8, LargestOf
<1> QED BY <1>2, <1>3, <1>7, <1>8, <1>9

(* What is taken, or given too early, is at most one charge, or two.       *)
LEMMA FlightBounds ==
  ASSUME IInv, NEW k \in Task, TaskOK(k), NEW a \in Assets
  PROVE  /\ Flight(k, a) \in Int
         /\ -(2 * LargestCharge) <= Flight(k, a) /\ Flight(k, a) <= LargestCharge
<1>1. LargestCharge \in Nat /\ 20 * Stability <= LargestCharge /\ 20 * Stability \in Nat
  BY Largest, PricesAssumption
<1>2. CASE k.op = "rgb" \/ a = "color"
  BY <1>1, <1>2, FlightOfColour DEF Only
<1>3. CASE k.op # "rgb" /\ a # "color"
  <2>1. a \in {"psc", "irr"}
    BY <1>3 DEF Assets
  <2>2. PICK n : n = k.price[a]
    OBVIOUS
  <2>3. CASE k.pc \in {"idle", "insert", "own", "cancel", "complete",
                       "list", "price", "unprice", "unlist"}
    BY <1>1, <1>3, <2>1, <2>2, <2>3, FlightOfAsset
  <2>4. CASE k.pc \notin {"idle", "insert", "own", "cancel", "complete",
                          "list", "price", "unprice", "unlist"}
    <3>1. k.op \in {"send", "buy", "accept", "reject", "delete"} /\ k.pc # "idle"
      BY <1>3, <2>4 DEF TaskOK, OnCourse
    <3>2. k.price \in Prices
      BY <3>1 DEF TaskOK, KnowsItsRow
    <3>3. n \in Nat /\ 21 * n <= LargestCharge
      BY <2>1, <2>2, <3>2, Largest
    <3>4. k.pc \in {"repay", "release", "close"} =>
            Refund(k, a) \in Nat /\ 21 * Refund(k, a) <= LargestCharge
      BY <2>1, RefundedRow, RowPrice, Largest DEF Refund
    <3>5. CASE k.pc \in {"charge", "uncharge", "record", "pay", "unpay", "fee",
                         "others", "refund", "commit"}
      BY <1>1, <1>3, <2>1, <2>2, <3>3, <3>5, FlightOfAsset DEF Only
    <3>6. CASE k.pc \in {"repay", "release", "close"}
      BY <1>1, <1>3, <2>1, <2>2, <3>3, <3>4, <3>6, FlightOfAsset DEF Only
    <3> QED BY <2>4, <3>5, <3>6 DEF Task
  <2> QED BY <2>3, <2>4
<1> QED BY <1>2, <1>3

(* It depends on nothing that another step changes. *)
LEMMA FlightKept ==
  ASSUME IInv, RowsStay, NEW k \in Task, TaskOK(k), NEW a \in Assets
  PROVE  Flight(k, a)' = Flight(k, a)
<1>1. k.pc \in {"repay", "release"} =>
        requests'[Refunded(k)].price[a] = requests[Refunded(k)].price[a]
  BY RefundedRow DEF RowsStay
<1>2. Coming(k, a)' = Coming(k, a) /\ Going(k, a)' = Going(k, a)
  BY DEF Coming, Going
<1>3. Returning(k, a)' = Returning(k, a)
  BY <1>1 DEF Returning, Only, Refunded
<1> QED BY <1>2, <1>3 DEF Flight

LEMMA FlightsChange ==
  ASSUME IInv, IInv', RowsStay, NEW t \in Tasks, NEW j \in Task, Set(t, j),
         NEW a \in Assets, NEW e \in Int, Flight(j, a)' = e
  PROVE  /\ InFlight(a) \in Int
         /\ InFlight(a)' = InFlight(a) - Flight(task[t], a) + e
<1>1. IsFiniteSet(Tasks)
  BY BoundsAssumption
<1>2. PICK f, g : /\ f = [x \in Tasks |-> Flight(task[x], a)]
                  /\ g = [x \in Tasks |-> Flight(task[x], a)']
  OBVIOUS
<1>3. task' \in [Tasks -> Task] /\ task'[t] = j /\ \A x \in Tasks \ {t} : task'[x] = task[x]
  BY DEF Set, IInv, TypeOK
<1>4. \A x \in Tasks : f[x] = Flight(task[x], a) /\ f[x] \in Int
  BY <1>2, Known, FlightBounds
<1>5. g[t] = e
  BY <1>2, <1>3 DEF Flight, Coming, Going, Returning, Refunded, DoneWith
<1>6. ASSUME NEW x \in Tasks \ {t} PROVE g[x] = f[x]
  <2>1. PICK k : k = task[x]
    OBVIOUS
  <2>2. k \in Task /\ TaskOK(k)
    BY <2>1, Known
  <2>3. Flight(k, a)' = Flight(k, a)
    BY <2>2, FlightKept
  <2>4. task'[x] = k
    BY <1>3, <2>1
  <2>5. g[x] = Flight(k, a)'
    BY <1>2, <2>4 DEF Flight, Coming, Going, Returning, Refunded, DoneWith
  <2> QED BY <1>4, <2>1, <2>3, <2>5
<1>7. SumFunctionOnSet(g, Tasks) = SumFunctionOnSet(f, Tasks) - f[t] + g[t]
  <2>1. g[t] \in Int
    BY <1>5
  <2>2. \A x \in Tasks : f[x] \in Int
    BY <1>4
  <2> QED BY <1>1, <2>1, <2>2, <1>6, SumUpdate
<1>8. SumFunctionOnSet(f, Tasks) \in Int
  BY <1>1, <1>4, SumRemove
<1>9. InFlight(a) = SumFunctionOnSet(f, Tasks) /\ InFlight(a)' = SumFunctionOnSet(g, Tasks)
  BY <1>2 DEF InFlight
<1> QED BY <1>4, <1>5, <1>7, <1>8, <1>9
-----------------------------------------------------------------------------
(* Accounts of the steps *)

(* Products with a bounded factor. *)
LEMMA ProductBounds ==
  ASSUME NEW m \in Nat, NEW M \in Nat, m <= M, NEW L \in Nat, NEW x \in Int, -L <= x, x <= L
  PROVE  /\ m * x \in Int /\ M * L \in Nat /\ -(M * L) <= m * x /\ m * x <= M * L
         /\ x >= 0 => m * x >= 0
         /\ m >= 1 => -(M * L) <= m * x - x /\ m * x - x <= M * L
<1>1. m * x \in Int /\ M * L \in Nat /\ m * L \in Nat
  OBVIOUS
<1>2. m * L <= M * L
  <2>1. PICK y \in Nat : M = m + y
    <3>1. M - m \in Nat /\ M = m + (M - m)
      OBVIOUS
    <3> QED BY <3>1
  <2>2. M * L = m * L + y * L /\ y * L \in Nat
    BY <2>1
  <2> QED BY <1>1, <2>2
<1>3. -(m * L) <= m * x /\ m * x <= m * L /\ (x >= 0 => m * x >= 0)
  <2>1. PICK y \in Nat, z \in Nat : L = x + y /\ L = z - x
    <3>1. L - x \in Nat /\ L + x \in Nat /\ L = x + (L - x) /\ L = (L + x) - x
      OBVIOUS
    <3> QED BY <3>1
  <2>2. m * L = m * x + m * y /\ m * y \in Nat
    BY <2>1
  <2>3. m * L = m * z - m * x /\ m * z \in Nat
    BY <2>1
  <2>4. x >= 0 => m * x >= 0
    OBVIOUS
  <2> QED BY <1>1, <2>2, <2>3, <2>4
<1>4. ASSUME m >= 1 PROVE -(M * L) <= m * x - x /\ m * x - x <= M * L
  <2>1. PICK y \in Nat : m = y + 1
    <3>1. m - 1 \in Nat /\ m = (m - 1) + 1
      BY <1>4
    <3> QED BY <3>1
  <2>2. m * x - x = y * x /\ y * x \in Int
    BY <2>1
  <2>3. m * L = y * L + L /\ y * L \in Nat
    BY <2>1
  <2>4. PICK v \in Nat, z \in Nat : L = x + v /\ L = z - x
    <3>1. L - x \in Nat /\ L + x \in Nat /\ L = x + (L - x) /\ L = (L + x) - x
      OBVIOUS
    <3> QED BY <3>1
  <2>5. y * L = y * x + y * v /\ y * v \in Nat
    BY <2>4
  <2>6. y * L = y * z - y * x /\ y * z \in Nat
    BY <2>4
  <2> QED BY <1>1, <1>2, <2>2, <2>3, <2>5, <2>6
<1> QED BY <1>1, <1>2, <1>3, <1>4

(* A charge is no more than the harm of a failure, two if a call is tried  *)
(* twice.                                                                  *)
LEMMA HarmBounds ==
  /\ LargestCharge \in Nat /\ Harm \in Nat
  /\ MaxAttempts >= 1 => LargestCharge <= Harm
  /\ MaxAttempts >= 2 => 2 * LargestCharge <= Harm
<1>1. LargestCharge \in Nat /\ MaxAttempts \in Nat
  BY Largest, BoundsAssumption
<1>2. PICK L \in Nat, M \in Nat : L = LargestCharge /\ M = MaxAttempts
  BY <1>1
<1>3. Harm = M * L /\ M * L \in Nat
  BY <1>2 DEF Harm
<1>4. M >= 1 => L <= M * L
  <2>1. 1 * L = L
    OBVIOUS
  <2>2. ASSUME M >= 1 PROVE L <= M * L
    <3>1. PICK y \in Nat : M = y + 1
      <4>1. M - 1 \in Nat /\ M = (M - 1) + 1
        BY <2>2
      <4> QED BY <4>1
    <3>2. M * L = y * L + L /\ y * L \in Nat
      BY <3>1
    <3> QED BY <3>2
  <2> QED BY <2>2
<1>5. M >= 2 => 2 * L <= M * L
  <2>1. ASSUME M >= 2 PROVE 2 * L <= M * L
    <3>1. PICK y \in Nat : M = y + 2
      <4>1. M - 2 \in Nat /\ M = (M - 2) + 2
        BY <2>1
      <4> QED BY <4>1
    <3>2. M * L = y * L + 2 * L /\ y * L \in Nat
      BY <3>1
    <3> QED BY <3>2
  <2> QED BY <2>1
<1> QED BY <1>2, <1>3, <1>4, <1>5

(* What a step may do to what there is of an asset: it takes nothing while *)
(* nothing fails, and if its request is alone, then a step that does not   *)
(* fail keeps it as it is and a failure does bounded harm.                 *)
Accounted(a, alone) ==
  \E d \in Int :
    /\ Total(a)' = Total(a) + d
    /\ faults' = faults => d >= 0 /\ (alone => d = 0)
    /\ alone /\ MaxAttempts >= 2 => -Harm <= d /\ d <= Harm

(* The account of a step that moves a request to j.                        *)
LEMMA Account ==
  ASSUME IInv, IInv', RowsStay, NEW t \in Tasks, NEW j \in Task, TaskOK(j), Set(t, j),
         NEW a \in Assets, NEW w \in Int, NEW o \in Int,
         InWallets(a)' = InWallets(a) + w, InOffers(a)' = InOffers(a) + o
  PROVE  /\ Flight(j, a) \in Int /\ Flight(task[t], a) \in Int
         /\ Total(a)' = Total(a) + (w + o + Flight(j, a) - Flight(task[t], a))
<1>1. PICK e \in Int : e = Flight(j, a) /\ Flight(j, a)' = e
  BY FlightBounds, FlightKept
<1>2. PICK c \in Int : c = Flight(task[t], a)
  BY Known, FlightBounds
<1>3. InFlight(a) \in Int /\ InFlight(a)' = InFlight(a) - c + e
  BY <1>1, <1>2, FlightsChange
<1>4. InWallets(a) \in Int /\ InOffers(a) \in Int
  BY WalletsType, OffersType
<1> QED BY <1>1, <1>2, <1>3, <1>4 DEF Total

LEMMA Small ==
  ASSUME NEW a, NEW d \in Int, Total(a)' = Total(a) + d, NEW alone,
         -LargestCharge <= d, d <= LargestCharge,
         faults' = faults => d >= 0 /\ (alone => d = 0)
  PROVE  Accounted(a, alone)
<1>1. MaxAttempts >= 2 => -Harm <= d /\ d <= Harm
  BY HarmBounds, BoundsAssumption
<1> QED BY <1>1 DEF Accounted

(* A step that touches neither wallets nor locks. *)
LEMMA Untouched ==
  ASSUME IInv, IInv', RowsStay, UNCHANGED <<wallet, locked>>, NEW t \in Tasks,
         NEW j \in Task, TaskOK(j), Set(t, j), NEW a \in Assets, NEW alone
  PROVE  LET d == Flight(j, a) - Flight(task[t], a)
         IN  /\ Flight(j, a) \in Int /\ Flight(task[t], a) \in Int
             /\ Total(a)' = Total(a) + d
             /\ d = 0 => Accounted(a, alone)
             /\ -LargestCharge <= d /\ d <= LargestCharge
                /\ (faults' = faults => d >= 0 /\ (alone => d = 0)) => Accounted(a, alone)
<1>1. InWallets(a)' = InWallets(a) /\ InWallets(a) \in Int
  BY WalletsType DEF InWallets
<1>2. InOffers(a)' = InOffers(a) /\ InOffers(a) \in Int
  BY OffersUnchanged, OffersType
<1>3. PICK z \in Int : z = 0
  OBVIOUS
<1>4. InWallets(a)' = InWallets(a) + z /\ InOffers(a)' = InOffers(a) + z
  BY <1>1, <1>2, <1>3
<1>5. /\ Flight(j, a) \in Int /\ Flight(task[t], a) \in Int
      /\ Total(a)' = Total(a) + (z + z + Flight(j, a) - Flight(task[t], a))
  BY <1>4, Account
<1>6. PICK d \in Int : d = Flight(j, a) - Flight(task[t], a) /\ Total(a)' = Total(a) + d
  BY <1>3, <1>5
<1>7. d = 0 \/ (/\ -LargestCharge <= d /\ d <= LargestCharge
                /\ (faults' = faults => d >= 0 /\ (alone => d = 0))) => Accounted(a, alone)
  BY <1>6, Small, Largest
<1> QED BY <1>5, <1>6, <1>7
(* A call of the wallet client.  n is what it adds to the asset w of u; ok *)
(* takes that into account, and so does err, unless err gives up with      *)
(* something that was taken.                                               *)
LEMMA CallMoney ==
  ASSUME IInv, IInv', StoreUnchanged, NEW t \in Tasks, NEW u \in Accounts, NEW w \in Assets,
         NEW n \in Int, -LargestCharge <= n, n <= LargestCharge,
         NEW ok \in Task, TaskOK(ok), NEW err \in Task, TaskOK(err),
         Called(t, u, w, n, ok, err), NEW a \in Assets, NEW alone, NEW e \in Int,
         Flight(ok, a) = Flight(task[t], a) - Only(a = w, n),
         Flight(err, a) = Flight(task[t], a) + e,
         \/ e = 0
         \/ e = - Only(a = w, n)
         \/ n >= 0 /\ -LargestCharge <= e /\ e <= LargestCharge /\ (a = w => e <= 0)
  PROVE  Accounted(a, alone)
<1>1. PICK times \in Nat :
        /\ wallet' = [wallet EXCEPT ![u][w] = @ + times * n]
        /\ \/ Set(t, ok) /\ times = 1 /\ faults' = faults
           \/ /\ Set(t, ok) \/ Set(t, err)
              /\ times <= MaxAttempts /\ faults' = faults + 1
  BY DEF Called
<1>2. PICK m \in Int : m = times * n
  OBVIOUS
<1>3. RowsStay /\ UNCHANGED locked
  BY DEF StoreUnchanged, RowsStay
<1>4. PICK v \in Int : v = Only(a = w, m) /\ InWallets(a)' = InWallets(a) + v
  <2>1. Gains(u, w, m)
    BY <1>1, <1>2 DEF Gains
  <2>2. InWallets(a)' = InWallets(a) + Only(a = w, m)
    BY <2>1, WalletsChange
  <2>3. Only(a = w, m) \in Int
    BY DEF Only
  <2> QED BY <2>2, <2>3
<1>5. PICK z \in Int : z = 0 /\ InOffers(a)' = InOffers(a) + z
  <2>1. InOffers(a)' = InOffers(a) /\ InOffers(a) \in Int
    BY <1>3, OffersUnchanged, OffersType
  <2> QED BY <2>1
<1>6. PICK c \in Int : c = Flight(task[t], a)
  BY Known, FlightBounds
<1>7. PICK x \in Int : x = Only(a = w, n)
  BY DEF Only
<1>8. LargestCharge \in Nat /\ Harm \in Nat /\ MaxAttempts \in Nat /\ faults \in Int
      /\ Harm = MaxAttempts * LargestCharge
  BY HarmBounds, BoundsAssumption, Known DEF Harm
<1>9. CASE Set(t, ok)
  <2>1. Total(a)' = Total(a) + (v + z + Flight(ok, a) - Flight(task[t], a))
    BY <1>3, <1>4, <1>5, <1>9, Account
  <2>2. PICK d \in Int : d = v - x /\ Total(a)' = Total(a) + d
    <3>1. v + z + Flight(ok, a) - Flight(task[t], a) = v - x /\ v - x \in Int
      BY <1>4, <1>5, <1>6, <1>7
    <3> QED BY <2>1, <3>1
  <2>3. times = 1 => d = 0
    BY <1>2, <1>4, <1>7, <2>2 DEF Only
  <2>4. times # 1 => times <= MaxAttempts /\ faults' # faults
    BY <1>1, <1>8
  <2>5. ASSUME times <= MaxAttempts, MaxAttempts >= 2 PROVE -Harm <= d /\ d <= Harm
    <3>1. /\ -Harm <= m /\ m <= Harm
          /\ times >= 1 => -Harm <= m - n /\ m - n <= Harm
      BY <1>2, <1>8, <2>5, ProductBounds
    <3>2. LargestCharge <= Harm
      BY <1>8, <2>5, HarmBounds
    <3>3. times = 0 => m = 0
      BY <1>2
    <3> QED BY <1>4, <1>7, <1>8, <2>2, <3>1, <3>2, <3>3 DEF Only
  <2>6. MaxAttempts >= 2 => -Harm <= d /\ d <= Harm
    BY <1>8, <2>3, <2>4, <2>5
  <2> QED BY <2>2, <2>3, <2>4, <2>6 DEF Accounted
<1>10. CASE ~ Set(t, ok)
  <2>1. Set(t, err) /\ times <= MaxAttempts /\ faults' # faults
    BY <1>1, <1>8, <1>10
  <2>2. Total(a)' = Total(a) + (v + z + Flight(err, a) - Flight(task[t], a))
    BY <1>3, <1>4, <1>5, <2>1, Account
  <2>3. PICK d \in Int : d = v + e /\ Total(a)' = Total(a) + d
    <3>1. v + z + Flight(err, a) - Flight(task[t], a) = v + e /\ v + e \in Int
      BY <1>4, <1>5, <1>6
    <3> QED BY <2>2, <3>1
  <2>4. ASSUME MaxAttempts >= 2 PROVE -Harm <= d /\ d <= Harm
    <3>1. /\ -Harm <= m /\ m <= Harm
          /\ n >= 0 => m >= 0
          /\ times >= 1 => -Harm <= m - n /\ m - n <= Harm
      BY <1>2, <1>8, <2>1, ProductBounds
    <3>2. LargestCharge <= Harm
      BY <1>8, <2>4, HarmBounds
    <3>3. times = 0 => m = 0
      BY <1>2
    <3>4. CASE e = 0
      BY <1>4, <1>8, <2>3, <3>1, <3>4 DEF Only
    <3>5. CASE e = - Only(a = w, n)
      BY <1>4, <1>8, <2>3, <3>1, <3>2, <3>3, <3>5 DEF Only
    <3>6. CASE n >= 0 /\ -LargestCharge <= e /\ e <= LargestCharge /\ (a = w => e <= 0)
      BY <1>4, <1>8, <2>3, <3>1, <3>2, <3>6 DEF Only
    <3> QED BY <3>4, <3>5, <3>6
  <2> QED BY <2>1, <2>3, <2>4 DEF Accounted
<1> QED BY <1>9, <1>10

(* A deduction that is refused. *)
LEMMA RefusedMoney ==
  ASSUME IInv, IInv', StoreUnchanged, NEW t \in Tasks, NEW u, NEW w, NEW n,
         NEW err \in Task, TaskOK(err), Refused(t, u, w, n, err), NEW a \in Assets, NEW alone,
         NEW e \in Int, Flight(err, a) = Flight(task[t], a) + e,
         0 <= e, e <= LargestCharge, alone => e = 0
  PROVE  Accounted(a, alone)
<1>1. RowsStay /\ UNCHANGED <<wallet, locked>> /\ Set(t, err)
  BY DEF StoreUnchanged, RowsStay, Refused
<1>2. PICK c \in Int : c = Flight(task[t], a)
  BY Known, FlightBounds
<1>3. Flight(err, a) - Flight(task[t], a) = e
  BY <1>2
<1>4. -LargestCharge <= e
  BY Largest
<1> QED BY <1>1, <1>3, <1>4, Untouched
-----------------------------------------------------------------------------
(* Accounts of the calls *)

LEMMA IdleFlight ==
  ASSUME IInv, NEW a \in Assets
  PROVE  Flight(Idle, a) = 0
<1>1. PICK j : j = Idle
  OBVIOUS
<1>2. j \in Task /\ TaskOK(j) /\ j.pc = "idle" /\ j.op = "send"
  BY <1>1, IdleFits
<1>3. CASE a = "color"
  BY <1>1, <1>2, <1>3, FlightOfColour DEF Only
<1>4. CASE a # "color"
  <2>1. a \in {"psc", "irr"}
    BY <1>4 DEF Assets
  <2>2. PICK n : n = j.price[a]
    OBVIOUS
  <2>3. Flight(j, a) = 0
    BY <1>2, <2>1, <2>2, FlightOfAsset
  <2> QED BY <1>1, <2>3
<1> QED BY <1>3, <1>4

(* The amounts that a request moves. *)
LEMMA AmountBounds ==
  ASSUME NEW k \in Task, TaskOK(k), k.pc # "idle"
  PROVE  /\ k.op = "rgb" => Due(k) = 20 * Stability /\ k.asset = "color"
         /\ k.op \in {"send", "buy", "accept", "reject", "delete"} =>
              /\ k.asset \in {"psc", "irr"} /\ Due(k) = 21 * k.price[k.asset]
              /\ \A a \in {"psc", "irr"} :
                   k.price[a] \in Nat /\ 21 * k.price[a] <= LargestCharge
         /\ k.op \in {"send", "buy", "rgb", "accept", "reject", "delete"} =>
              Due(k) \in Nat /\ Due(k) <= LargestCharge
<1>1. k.op = "rgb" => Due(k) = 20 * Stability /\ k.asset = "color" /\ Due(k) \in Nat
  BY PricesAssumption DEF Due, TaskOK, AssetFits
<1>2. ASSUME k.op \in {"send", "buy", "accept", "reject", "delete"}
      PROVE  /\ k.asset \in {"psc", "irr"}
             /\ \A a \in {"psc", "irr"} : k.price[a] \in Nat /\ 21 * k.price[a] <= LargestCharge
  <2>1. k.price \in Prices /\ k.asset \in {"psc", "irr"}
    BY <1>2 DEF TaskOK, KnowsItsRow, AssetFits
  <2> QED BY <2>1, Largest
<1>3. ASSUME k.op \in {"send", "buy", "accept", "reject", "delete"}
      PROVE  Due(k) = 21 * k.price[k.asset]
  <2>1. k.price[k.asset] \in Nat
    BY <1>2, <1>3
  <2> QED BY <1>3, <2>1 DEF Due, BuyerCharge
<1> QED BY <1>1, <1>2, <1>3, Largest

LEMMA ChargeFlights ==
  ASSUME IInv, NEW k \in Task, TaskOK(k), k.pc = "charge", NEW ok, NEW err,
         ok = ChargeDone(k), err = ChargeFailed(k), NEW a \in Assets
  PROVE  /\ Flight(ok, a) = Flight(k, a) + Only(a = k.asset, Due(k))
         /\ Flight(err, a) = Flight(k, a)
<1>1. k.op \in {"send", "buy", "rgb"}
  BY DEF TaskOK, OnCourse
<1>2. /\ ok \in Task /\ TaskOK(ok) /\ Same(ok, k)
      /\ k.op = "rgb" => ok.pc = "pay" /\ ok.asset = "color"
      /\ k.op # "rgb" /\ k.asset = "psc" => ok.pc = "charge" /\ ok.asset = "irr"
      /\ k.op # "rgb" /\ k.asset = "irr" =>
           ok.asset = "psc" /\ ok.pc = IF k.op = "send" THEN "record" ELSE "pay"
      /\ err \in Task /\ TaskOK(err)
      /\ k.asset = "irr" => err.pc = "uncharge" /\ err.asset = "psc" /\ Same(err, k)
      /\ k.asset # "irr" => err = Idle
  BY ChargeNext
<1>3. /\ k.op = "rgb" => Due(k) = 20 * Stability /\ k.asset = "color" /\ Due(k) \in Nat
      /\ k.op # "rgb" => k.asset \in {"psc", "irr"} /\ Due(k) = 21 * k.price[k.asset]
  BY <1>1, AmountBounds
<1>4. CASE k.op = "rgb"
  <2>1. Flight(k, a) = 0
    BY <1>4, FlightOfColour DEF Only
  <2>2. Flight(ok, a) = Only(a = "color", 20 * Stability)
    BY <1>2, <1>4, FlightOfColour DEF Only, Same
  <2>3. err = Idle
    BY <1>2, <1>3, <1>4
  <2>4. Flight(err, a) = 0
    BY <2>3, IdleFlight
  <2> QED BY <1>3, <1>4, <2>1, <2>2, <2>4 DEF Only
<1>5. CASE k.op # "rgb" /\ a = "color"
  <2>1. Flight(k, a) = 0
    BY <1>5, FlightOfColour DEF Only
  <2>2. Flight(ok, a) = 0
    BY <1>2, <1>5, FlightOfColour DEF Only, Same
  <2>3. Flight(err, a) = 0
    <3>1. err = Idle \/ Same(err, k)
      BY <1>2
    <3>2. CASE err = Idle
      BY <3>2, IdleFlight
    <3>3. CASE Same(err, k)
      BY <1>2, <1>5, <3>3, FlightOfColour DEF Only, Same
    <3> QED BY <3>1, <3>2, <3>3
  <2> QED BY <1>3, <1>5, <2>1, <2>2, <2>3 DEF Only
<1>6. CASE k.op # "rgb" /\ a # "color"
  <2>1. a \in {"psc", "irr"}
    BY <1>6 DEF Assets
  <2>2. PICK n \in Nat : n = k.price[a] /\ Flight(k, a) = Only(DoneWith(k, a), 21 * n)
    <3>1. PICK n : n = k.price[a]
      OBVIOUS
    <3> QED BY <1>6, <2>1, <3>1, FlightOfAsset
  <2>3. n = ok.price[a] /\ ok.op = k.op /\ ok.op # "rgb"
    BY <1>2, <1>6, <2>2 DEF Same
  <2>4. /\ ok.pc = "charge" => Flight(ok, a) = Only(DoneWith(ok, a), 21 * n)
        /\ ok.pc = "record" => Flight(ok, a) = 21 * n
        /\ ok.pc = "pay" => Flight(ok, a) = Only(ok.op = "buy", 21 * n) - Only(DoneWith(ok, a), 19 * n)
    BY <1>2, <2>1, <2>3, FlightOfAsset
  <2>5. Flight(ok, a) = Flight(k, a) + Only(a = k.asset, Due(k))
    <3>1. CASE k.asset = "psc"
      BY <1>2, <1>3, <1>6, <2>1, <2>2, <2>4, <3>1 DEF Only, DoneWith
    <3>2. CASE k.asset = "irr"
      <4>1. Flight(ok, a) = 21 * n
        <5>1. k.op = "send" => ok.pc = "record"
          BY <1>2, <1>6, <3>2
        <5>2. k.op = "buy" => ok.pc = "pay" /\ ok.asset = "psc"
          BY <1>2, <1>6, <3>2
        <5> QED BY <1>1, <1>6, <2>2, <2>3, <2>4, <5>1, <5>2 DEF Only, DoneWith
      <4>2. CASE a = "psc"
        BY <2>2, <3>2, <4>1, <4>2 DEF Only, DoneWith
      <4>3. CASE a = "irr"
        BY <1>3, <1>6, <2>2, <3>2, <4>1, <4>3 DEF Only, DoneWith
      <4> QED BY <2>1, <4>2, <4>3
    <3> QED BY <1>3, <1>6, <3>1, <3>2
  <2>6. Flight(err, a) = Flight(k, a)
    <3>1. CASE k.asset = "psc"
      <4>1. Flight(err, a) = 0
        BY <1>2, <3>1, IdleFlight
      <4> QED BY <2>2, <3>1, <4>1 DEF Only, DoneWith
    <3>2. CASE k.asset = "irr"
      <4>1. n = err.price[a] /\ err.op # "rgb" /\ err.pc = "uncharge"
        BY <1>2, <1>6, <2>2, <3>2 DEF Same
      <4>2. Flight(err, a) = Only(a = "psc", 21 * n)
        BY <1>2, <2>1, <4>1, FlightOfAsset
      <4> QED BY <2>2, <3>2, <4>2 DEF Only, DoneWith
    <3> QED BY <1>3, <1>6, <3>1, <3>2
  <2> QED BY <2>5, <2>6
<1> QED BY <1>4, <1>5, <1>6

LEMMA ChargeMoney ==
  ASSUME IInv, IInv', NEW t \in Tasks, Charge(t), NEW a \in Assets, NEW alone
  PROVE  Accounted(a, alone)
<1>1. PICK k, ok, err : k = task[t] /\ ok = ChargeDone(k) /\ err = ChargeFailed(k)
  OBVIOUS
<1>2. k \in Task /\ TaskOK(k) /\ k.pc = "charge"
  BY <1>1, Known DEF Charge, At
<1>3. PICK n \in Int : n = Due(k) /\ 0 <= n /\ n <= LargestCharge
  <2>1. k.op \in {"send", "buy", "rgb"}
    BY <1>2 DEF TaskOK, OnCourse
  <2>2. Due(k) \in Nat /\ Due(k) <= LargestCharge
    BY <1>2, <2>1, AmountBounds
  <2> QED BY <2>2
<1>4. k.buyer \in Accounts /\ k.asset \in Assets
  BY <1>2, Amounts
<1>5. DeductBalance(t, k.buyer, k.asset, n, ok, err) /\ StoreUnchanged
  BY <1>1, <1>3 DEF Charge, ChargeDone, ChargeFailed
<1>6. Called(t, k.buyer, k.asset, -n, ok, err) \/ Refused(t, k.buyer, k.asset, n, err)
  BY <1>4, <1>5, DeductOutcome
<1>7. ok \in Task /\ TaskOK(ok) /\ err \in Task /\ TaskOK(err)
  BY <1>1, <1>2, ChargeNext
<1>8. PICK c \in Int : c = Flight(k, a) /\ c = Flight(task[t], a)
  BY <1>1, <1>2, FlightBounds
<1>9. Flight(ok, a) = c + Only(a = k.asset, n) /\ Flight(err, a) = c
  BY <1>1, <1>2, <1>3, <1>8, ChargeFlights
<1>10. PICK e \in Int : e = 0
  OBVIOUS
<1>11. Flight(err, a) = Flight(task[t], a) + e
  BY <1>8, <1>9, <1>10
<1>12. CASE Called(t, k.buyer, k.asset, -n, ok, err)
  <2>1. PICK m \in Int : m = -n /\ -LargestCharge <= m /\ m <= LargestCharge
    BY <1>3, Largest
  <2>2. Called(t, k.buyer, k.asset, m, ok, err)
    BY <1>12, <2>1
  <2>3. Flight(ok, a) = Flight(task[t], a) - Only(a = k.asset, m)
    BY <1>8, <1>9, <2>1 DEF Only
  <2> QED BY <1>4, <1>5, <1>7, <1>10, <1>11, <2>1, <2>2, <2>3, CallMoney
<1>13. CASE Refused(t, k.buyer, k.asset, n, err)
  <2>1. 0 <= e /\ e <= LargestCharge /\ (alone => e = 0)
    BY <1>10, Largest
  <2> QED BY <1>5, <1>7, <1>11, <1>13, <2>1, RefusedMoney
<1> QED BY <1>6, <1>12, <1>13
(* A payment after which the request goes on in the same way, be there an  *)
(* error or not.                                                           *)
LEMMA SureCallMoney ==
  ASSUME IInv, IInv', StoreUnchanged, NEW t \in Tasks, NEW u \in Accounts, NEW w \in Assets,
         NEW n \in Int, -LargestCharge <= n, n <= LargestCharge,
         NEW j \in Task, TaskOK(j), Called(t, u, w, n, j, j), NEW a \in Assets, NEW alone,
         Flight(j, a) = Flight(task[t], a) - Only(a = w, n)
  PROVE  Accounted(a, alone)
<1>1. PICK c \in Int : c = Flight(task[t], a)
  BY Known, FlightBounds
<1>2. PICK e \in Int : e = - Only(a = w, n)
  BY DEF Only
<1>3. Flight(j, a) = Flight(task[t], a) + e
  BY <1>1, <1>2 DEF Only
<1> QED BY <1>2, <1>3, CallMoney

LEMMA UnchargeMoney ==
  ASSUME IInv, IInv', NEW t \in Tasks, Uncharge(t), NEW a \in Assets, NEW alone
  PROVE  Accounted(a, alone)
<1>1. PICK k, j : k = task[t] /\ j = Idle
  OBVIOUS
<1>2. k \in Task /\ TaskOK(k) /\ k.pc = "uncharge" /\ j \in Task /\ TaskOK(j)
  BY <1>1, Known, IdleFits DEF Uncharge, At
<1>3. k.op \in {"send", "buy", "rgb"} /\ (k.op # "rgb" => k.asset = "psc")
  BY <1>2 DEF TaskOK, OnCourse, AssetFits
<1>4. PICK n \in Int : n = Due(k) /\ 0 <= n /\ n <= LargestCharge
  <2>1. Due(k) \in Nat /\ Due(k) <= LargestCharge
    BY <1>2, <1>3, AmountBounds
  <2> QED BY <2>1
<1>5. k.buyer \in Accounts /\ k.asset \in Assets
  BY <1>2, Amounts
<1>6. AddBalance(t, k.buyer, k.asset, n, j, j) /\ StoreUnchanged
  BY <1>1, <1>4 DEF Uncharge
<1>7. Called(t, k.buyer, k.asset, n, j, j)
  BY <1>5, <1>6, AddOutcome
<1>8. Flight(k, a) = Only(a = k.asset, n)
  <2>1. CASE k.op = "rgb"
    <3>1. Due(k) = 20 * Stability /\ k.asset = "color"
      BY <1>2, <2>1, AmountBounds
    <3> QED BY <1>2, <1>4, <2>1, <3>1, FlightOfColour DEF Only
  <2>2. CASE k.op # "rgb" /\ a = "color"
    BY <1>2, <1>3, <2>2, FlightOfColour DEF Only
  <2>3. CASE k.op # "rgb" /\ a # "color"
    <3>1. a \in {"psc", "irr"} /\ k.asset = "psc"
      BY <1>3, <2>3 DEF Assets
    <3>2. PICK m : m = k.price[a]
      OBVIOUS
    <3>3. Flight(k, a) = Only(a = "psc", 21 * m)
      BY <1>2, <2>3, <3>1, <3>2, FlightOfAsset
    <3>4. Due(k) = 21 * k.price["psc"]
      BY <1>2, <1>3, <2>3, <3>1, AmountBounds
    <3> QED BY <1>4, <3>1, <3>2, <3>3, <3>4 DEF Only
  <2> QED BY <2>1, <2>2, <2>3
<1>9. Flight(j, a) = Flight(task[t], a) - Only(a = k.asset, n)
  BY <1>1, <1>4, <1>8, IdleFlight DEF Only
<1>10. -LargestCharge <= n
  BY <1>4, Largest
<1> QED BY <1>2, <1>4, <1>5, <1>6, <1>7, <1>9, <1>10, SureCallMoney

(* Refunds *)
LEMMA RepayFlights ==
  ASSUME IInv, NEW k \in Task, TaskOK(k), k.pc = "repay", NEW ok, ok = RepayDone(k), NEW a \in Assets
  PROVE  /\ Flight(ok, a) = Flight(k, a) - Only(a = k.asset, 21 * Refund(k, a))
         /\ k.asset \in {"psc", "irr"}
         /\ k.op # "accept" => Flight(k, a) = - Only(DoneWith(k, a), 21 * Refund(k, "psc"))
         /\ \A x \in {"psc", "irr"} : Refund(k, x) \in Nat /\ 21 * Refund(k, x) <= LargestCharge
<1>1. k.op \in {"accept", "reject", "delete"} /\ k.asset \in {"psc", "irr"}
  BY DEF TaskOK, OnCourse, AssetFits
<1>2. \A x \in {"psc", "irr"} : Refund(k, x) \in Nat /\ 21 * Refund(k, x) <= LargestCharge
  BY RefundedRow, RowPrice, Largest DEF Refund
<1>3. /\ ok \in Task /\ TaskOK(ok) /\ Same(ok, k)
      /\ k.asset = "psc" => ok.pc = "repay" /\ ok.asset = "irr"
      /\ k.asset # "psc" => ok.pc = "release" /\ ok.asset = "psc"
  <2>1. PICK err : err = RepayFailed(k)
    OBVIOUS
  <2> QED BY <2>1, RepayNext
<1>4. Refunded(ok) = Refunded(k)
  BY <1>3 DEF Refunded, Same
<1>5. CASE a = "color"
  <2>1. Flight(k, a) = 0 /\ Flight(ok, a) = 0
    BY <1>1, <1>3, <1>5, FlightOfColour DEF Only, Same
  <2> QED BY <1>1, <1>2, <1>5, <2>1 DEF Only, DoneWith
<1>6. CASE a # "color"
  <2>1. a \in {"psc", "irr"} /\ k.op # "rgb" /\ ok.op = k.op /\ ok.price = k.price
    BY <1>1, <1>3, <1>6 DEF Assets, Same
  <2>2. PICK n : n = k.price[a] /\ n = ok.price[a]
    BY <2>1
  <2>3. PICK m \in Nat : m = Refund(k, a) /\ m = Refund(ok, a)
    BY <1>2, <1>4, <2>1 DEF Refund
  <2>4. /\ n \in Nat
        /\ Flight(k, a) = - Only(k.op = "accept", 21 * n) - Only(DoneWith(k, a), 21 * m)
    <3>1. /\ n \in Nat
          /\ Flight(k, a) = - Only(k.op = "accept", 21 * n) - Only(DoneWith(k, a), 21 * Refund(k, a))
      BY <2>1, <2>2, FlightOfAsset
    <3> QED BY <2>3, <3>1
  <2>5. /\ ok.pc = "repay" => Flight(ok, a) = - Only(ok.op = "accept", 21 * n) - Only(DoneWith(ok, a), 21 * m)
        /\ ok.pc = "release" => Flight(ok, a) = - Only(ok.op = "accept", 21 * n) - 21 * m
    BY <1>3, <2>1, <2>2, <2>3, FlightOfAsset
  <2>6. Flight(ok, a) = Flight(k, a) - Only(a = k.asset, 21 * m)
    <3>1. CASE k.asset = "psc"
      BY <1>3, <2>1, <2>3, <2>4, <2>5, <3>1 DEF Only, DoneWith
    <3>2. CASE k.asset = "irr"
      BY <1>3, <2>1, <2>3, <2>4, <2>5, <3>2 DEF Only, DoneWith
    <3> QED BY <1>1, <3>1, <3>2
  <2>7. k.op # "accept" => Flight(k, a) = - Only(DoneWith(k, a), 21 * Refund(k, "psc"))
    <3>1. CASE DoneWith(k, a)
      <4>1. a = "psc" /\ m = Refund(k, "psc")
        BY <2>3, <3>1 DEF DoneWith
      <4> QED BY <2>3, <2>4, <3>1, <4>1 DEF Only
    <3>2. CASE ~ DoneWith(k, a)
      <4>1. ASSUME k.op # "accept" PROVE Flight(k, a) = 0
        BY <2>3, <2>4, <3>2, <4>1 DEF Only, DoneWith
      <4> QED BY <3>2, <4>1 DEF Only, DoneWith
    <3> QED BY <3>1, <3>2
  <2> QED BY <1>1, <1>2, <2>3, <2>6, <2>7
<1> QED BY <1>5, <1>6

LEMMA RepayMoney ==
  ASSUME IInv, IInv', NEW t \in Tasks, Repay(t), NEW a \in Assets, NEW alone
  PROVE  Accounted(a, alone)
<1>1. PICK k, ok, err : k = task[t] /\ ok = RepayDone(k) /\ err = RepayFailed(k)
  OBVIOUS
<1>2. PICK i : i = Refunded(k)
  OBVIOUS
<1>3. k \in Task /\ TaskOK(k) /\ k.pc = "repay"
  BY <1>1, Known DEF Repay, At
<1>4. /\ Flight(ok, a) = Flight(k, a) - Only(a = k.asset, 21 * Refund(k, a))
      /\ k.asset \in {"psc", "irr"}
      /\ k.op # "accept" => Flight(k, a) = - Only(DoneWith(k, a), 21 * Refund(k, "psc"))
      /\ \A x \in {"psc", "irr"} : Refund(k, x) \in Nat /\ 21 * Refund(k, x) <= LargestCharge
  BY <1>1, <1>3, RepayFlights
<1>5. PICK n \in Int : /\ n = BuyerCharge(requests[i].price[k.asset])
                       /\ n = 21 * Refund(k, k.asset) /\ 0 <= n /\ n <= LargestCharge
  <2>1. PICK m \in Nat : m = Refund(k, k.asset) /\ 21 * m <= LargestCharge
    BY <1>4
  <2>2. requests[i].price[k.asset] = m
    BY <1>2, <2>1 DEF Refund
  <2>3. BuyerCharge(m) = 21 * m
    BY DEF BuyerCharge
  <2> QED BY <2>1, <2>2, <2>3
<1>6. requests[i].buyer \in Accounts /\ k.asset \in Assets
  BY <1>2, <1>3, <1>4, RefundedRow, RowPrice DEF Assets
<1>7. AddBalance(t, requests[i].buyer, k.asset, n, ok, err) /\ StoreUnchanged
  BY <1>1, <1>2, <1>5 DEF Repay, RepayDone, RepayFailed
<1>8. Called(t, requests[i].buyer, k.asset, n, ok, err)
  BY <1>6, <1>7, AddOutcome
<1>9. /\ ok \in Task /\ TaskOK(ok) /\ err \in Task /\ TaskOK(err)
      /\ IF k.op = "accept" THEN err = ok ELSE err = Idle
  BY <1>1, <1>3, RepayNext
<1>10. PICK c \in Int : c = Flight(k, a) /\ c = Flight(task[t], a)
  BY <1>1, <1>3, FlightBounds
<1>11. Flight(ok, a) = Flight(task[t], a) - Only(a = k.asset, n)
  BY <1>4, <1>5, <1>10 DEF Only
<1>12. -LargestCharge <= n
  BY <1>5, Largest
<1>13. CASE k.op = "accept"
  <2>1. err = ok
    BY <1>9, <1>13
  <2>2. Called(t, requests[i].buyer, k.asset, n, ok, ok)
    BY <1>8, <2>1
  <2> QED BY <1>5, <1>6, <1>7, <1>9, <1>11, <1>12, <2>2, SureCallMoney
<1>14. CASE k.op # "accept"
  <2>1. PICK m \in Nat : m = Refund(k, "psc") /\ 21 * m <= LargestCharge
    BY <1>4
  <2>2. PICK e \in Int : e = Only(DoneWith(k, a), 21 * m)
    BY DEF Only
  <2>3. Flight(err, a) = Flight(task[t], a) + e
    <3>1. Flight(err, a) = 0
      BY <1>9, <1>14, IdleFlight
    <3>2. c = - e
      BY <1>4, <1>10, <1>14, <2>1, <2>2 DEF Only
    <3> QED BY <1>10, <2>2, <3>1, <3>2
  <2>4. n >= 0 /\ -LargestCharge <= e /\ e <= LargestCharge /\ (a = k.asset => e <= 0)
    BY <1>5, <2>1, <2>2, Largest DEF Only, DoneWith
  <2> QED BY <1>5, <1>6, <1>7, <1>8, <1>9, <1>11, <1>12, <2>3, <2>4, CallMoney
<1> QED BY <1>13, <1>14
(* Payments of the seller *)
LEMMA PayFlights ==
  ASSUME IInv, NEW k \in Task, TaskOK(k), k.pc = "pay", NEW ok, NEW err,
         ok = PayDone(k), err = PayFailed(k), NEW a \in Assets
  PROVE  /\ 0 <= PayAmount(k) /\ PayAmount(k) <= LargestCharge /\ PayAmount(k) \in Int
         /\ Flight(ok, a) = Flight(k, a) - Only(a = PayAsset(k), PayAmount(k))
         /\ \E e \in Int : /\ Flight(err, a) = Flight(k, a) + e
                           /\ -LargestCharge <= e /\ e <= 0
<1>1. /\ k.op \in {"buy", "rgb", "accept"}
      /\ ok \in Task /\ TaskOK(ok) /\ Same(ok, k)
      /\ k.op = "rgb" => ok.pc = "own" /\ ok.asset = "color"
      /\ k.op # "rgb" /\ k.asset = "psc" => ok.pc = "pay" /\ ok.asset = "irr"
      /\ k.op # "rgb" /\ k.asset = "irr" => ok.pc = "fee" /\ ok.asset = "psc"
      /\ err \in Task /\ TaskOK(err)
      /\ k.op = "rgb" => err.pc = "uncharge" /\ err.asset = "color" /\ Same(err, k)
      /\ k.op = "accept" /\ k.asset = "irr" => err.pc = "unpay" /\ err.asset = "irr" /\ Same(err, k)
      /\ k.op = "buy" \/ (k.op = "accept" /\ k.asset = "psc") => err = Idle
  BY PayNext
<1>2. LargestCharge \in Nat
  BY Largest
<1>3. CASE k.op = "rgb"
  <2>1. PICK n \in Nat : n = 20 * Stability /\ n = Due(k) /\ n <= LargestCharge
    BY <1>3, AmountBounds, PricesAssumption, Largest
  <2>2. PayAsset(k) = "color" /\ PayAmount(k) = n
    BY <1>3, <2>1 DEF PayAsset, PayAmount
  <2>3. Flight(k, a) = Only(a = "color", n)
    BY <1>3, <2>1, FlightOfColour DEF Only
  <2>4. Flight(ok, a) = 0
    BY <1>1, <1>3, FlightOfColour DEF Only, Same
  <2>5. Flight(err, a) = Only(a = "color", n)
    BY <1>1, <1>3, <2>1, FlightOfColour DEF Only, Same
  <2>6. PICK e \in Int : e = 0
    OBVIOUS
  <2>7. /\ Flight(err, a) = Flight(k, a) + e /\ -LargestCharge <= e /\ e <= 0
        /\ Flight(ok, a) = Flight(k, a) - Only(a = PayAsset(k), PayAmount(k))
        /\ 0 <= PayAmount(k) /\ PayAmount(k) <= LargestCharge /\ PayAmount(k) \in Int
    BY <1>2, <2>1, <2>2, <2>3, <2>4, <2>5, <2>6 DEF Only
  <2> QED BY <2>7
<1>4. CASE k.op # "rgb"
  <2>1. /\ k.asset \in {"psc", "irr"}
        /\ \A x \in {"psc", "irr"} : k.price[x] \in Nat /\ 21 * k.price[x] <= LargestCharge
    BY <1>1, <1>4, AmountBounds
  <2>2. /\ PayAsset(k) = k.asset /\ PayAmount(k) = 19 * k.price[k.asset]
        /\ 0 <= PayAmount(k) /\ PayAmount(k) <= LargestCharge /\ PayAmount(k) \in Int
    <3>1. PICK n \in Nat : n = k.price[k.asset] /\ 21 * n <= LargestCharge
      BY <2>1
    <3>2. SellerPayment(n) = 19 * n
      BY DEF SellerPayment
    <3> QED BY <1>2, <1>4, <3>1, <3>2 DEF PayAsset, PayAmount
  <2>3. CASE a = "color"
    <3>1. Flight(k, a) = 0 /\ Flight(ok, a) = 0
      BY <1>1, <1>4, <2>3, FlightOfColour DEF Only, Same
    <3>2. Flight(err, a) = 0
      <4>1. err = Idle \/ Same(err, k)
        BY <1>1, <1>4, <2>1
      <4>2. CASE err = Idle
        BY <4>2, IdleFlight
      <4>3. CASE Same(err, k)
        BY <1>1, <1>4, <2>3, <4>3, FlightOfColour DEF Only, Same
      <4> QED BY <4>1, <4>2, <4>3
    <3>3. PICK e \in Int : e = 0
      OBVIOUS
    <3>4. /\ Flight(err, a) = Flight(k, a) + e /\ -LargestCharge <= e /\ e <= 0
          /\ Flight(ok, a) = Flight(k, a) - Only(a = PayAsset(k), PayAmount(k))
      BY <1>2, <2>1, <2>2, <2>3, <3>1, <3>2, <3>3 DEF Only
    <3> QED BY <2>2, <3>4
  <2>4. CASE a # "color"
    <3>1. a \in {"psc", "irr"} /\ ok.op = k.op /\ ok.price = k.price
      BY <1>1, <2>4 DEF Assets, Same
    <3>2. PICK n \in Nat : n = k.price[a] /\ n = ok.price[a] /\ 21 * n <= LargestCharge
      BY <2>1, <3>1
    <3>3. Flight(k, a) = Only(k.op = "buy", 21 * n) - Only(DoneWith(k, a), 19 * n)
      BY <1>4, <3>1, <3>2, FlightOfAsset
    <3>4. /\ ok.pc = "pay" => Flight(ok, a) = Only(ok.op = "buy", 21 * n) - Only(DoneWith(ok, a), 19 * n)
          /\ ok.pc = "fee" => Flight(ok, a) = Only(ok.op = "buy", 21 * n) - 19 * n - Only(DoneWith(ok, a), 2 * n)
      BY <1>1, <1>4, <3>1, <3>2, FlightOfAsset
    <3>5. Flight(ok, a) = Flight(k, a) - Only(a = k.asset, 19 * n)
      <4>1. CASE k.asset = "psc"
        BY <1>1, <1>4, <3>1, <3>2, <3>3, <3>4, <4>1 DEF Only, DoneWith
      <4>2. CASE k.asset = "irr"
        BY <1>1, <1>4, <3>1, <3>2, <3>3, <3>4, <4>2 DEF Only, DoneWith
      <4> QED BY <2>1, <4>1, <4>2
    <3>6. Flight(ok, a) = Flight(k, a) - Only(a = PayAsset(k), PayAmount(k))
      BY <2>2, <3>2, <3>5 DEF Only
    <3>7. \E e \in Int : Flight(err, a) = Flight(k, a) + e /\ -LargestCharge <= e /\ e <= 0
      <4>1. CASE err = Idle
        <5>1. PICK e \in Int : e = - (Only(k.op = "buy", 21 * n) - Only(DoneWith(k, a), 19 * n))
          BY DEF Only
        <5>2. k.op = "buy" \/ ~ DoneWith(k, a)
          BY <1>1, <1>4, <4>1, IdleFits DEF DoneWith, Same
        <5>3. Flight(err, a) = 0
          BY <4>1, IdleFlight
        <5>4. Flight(err, a) = Flight(k, a) + e
          BY <3>3, <5>1, <5>3 DEF Only
        <5>5. -LargestCharge <= e /\ e <= 0
          BY <1>2, <3>2, <5>1, <5>2 DEF Only, DoneWith
        <5> QED BY <5>4, <5>5
      <4>2. CASE k.op = "accept" /\ k.asset = "irr"
        <5>1. n = err.price[a] /\ err.op # "rgb" /\ err.pc = "unpay"
          BY <1>1, <3>2, <4>2 DEF Same
        <5>2. Flight(err, a) = - Only(a = "psc", 19 * n)
          BY <1>1, <3>1, <5>1, FlightOfAsset
        <5>3. Flight(k, a) = - Only(a = "psc", 19 * n)
          BY <3>3, <4>2 DEF Only, DoneWith
        <5>4. PICK e \in Int : e = 0
          OBVIOUS
        <5>5. Flight(err, a) = Flight(k, a) + e /\ -LargestCharge <= e /\ e <= 0
          BY <1>2, <5>2, <5>3, <5>4 DEF Only
        <5> QED BY <5>5
      <4> QED BY <1>1, <1>4, <2>1, <4>1, <4>2
    <3> QED BY <2>2, <3>6, <3>7
  <2> QED BY <2>3, <2>4
<1> QED BY <1>3, <1>4

LEMMA PayMoney ==
  ASSUME IInv, IInv', NEW t \in Tasks, PaySeller(t), NEW a \in Assets, NEW alone
  PROVE  Accounted(a, alone)
<1>1. PICK k, ok, err : k = task[t] /\ ok = PayDone(k) /\ err = PayFailed(k)
  OBVIOUS
<1>2. /\ k \in Task /\ TaskOK(k) /\ k.pc = "pay"
      /\ k.seller \in Accounts /\ PayAsset(k) \in Assets
      /\ AddBalance(t, k.seller, PayAsset(k), PayAmount(k), ok, err)
      /\ StoreUnchanged
  BY <1>1, PayCall
<1>3. PICK n \in Int, w \in Assets :
        /\ n = PayAmount(k) /\ 0 <= n /\ n <= LargestCharge /\ w = PayAsset(k)
        /\ Flight(ok, a) = Flight(k, a) - Only(a = w, n)
        /\ \E e \in Int : /\ Flight(err, a) = Flight(k, a) + e
                          /\ -LargestCharge <= e /\ e <= 0
  BY <1>1, <1>2, PayFlights
<1>4. PICK e \in Int : Flight(err, a) = Flight(k, a) + e /\ -LargestCharge <= e /\ e <= 0
  BY <1>3
<1>5. ok \in Task /\ TaskOK(ok) /\ err \in Task /\ TaskOK(err)
  BY <1>1, <1>2, PayNext
<1>6. Called(t, k.seller, w, n, ok, err)
  <2>1. AddBalance(t, k.seller, w, n, ok, err)
    BY <1>2, <1>3
  <2> QED BY <1>2, <2>1, AddOutcome
<1>7. /\ Flight(ok, a) = Flight(task[t], a) - Only(a = w, n)
      /\ Flight(err, a) = Flight(task[t], a) + e
  BY <1>1, <1>3, <1>4
<1>8. n >= 0 /\ -LargestCharge <= n /\ e <= LargestCharge /\ (a = w => e <= 0)
  BY <1>3, <1>4, Largest
<1> QED BY <1>2, <1>3, <1>4, <1>5, <1>6, <1>7, <1>8, CallMoney
(* The payment of the seller that is taken back. *)
LEMMA UnpayMoney ==
  ASSUME IInv, IInv', NEW t \in Tasks, Unpay(t), NEW a \in Assets
  PROVE  Accounted(a, Alone(task[t]))
<1>1. PICK k, j : k = task[t] /\ j = Idle
  OBVIOUS
<1>2. /\ k \in Task /\ TaskOK(k) /\ k.pc = "unpay" /\ k.op = "accept"
      /\ j \in Task /\ TaskOK(j)
  BY <1>1, Known, IdleFits DEF Unpay, At, TaskOK, OnCourse
<1>3. PICK m \in Nat : m = k.price["psc"] /\ 21 * m <= LargestCharge
  BY <1>2, AmountBounds
<1>4. PICK n \in Int : /\ n = SellerPayment(k.price["psc"]) /\ n = 19 * m
                       /\ 0 <= n /\ n <= LargestCharge
  <2>1. SellerPayment(m) = 19 * m
    BY DEF SellerPayment
  <2> QED BY <1>3, <2>1, Largest
<1>5. k.seller \in Accounts /\ "psc" \in Assets
  BY <1>2, Amounts DEF Assets
<1>6. k.price.psc = k.price["psc"]
  BY <1>2, Amounts
<1>7. DeductBalance(t, k.seller, "psc", n, j, j) /\ StoreUnchanged
  BY <1>1, <1>4, <1>6 DEF Unpay
<1>8. Called(t, k.seller, "psc", -n, j, j) \/ Refused(t, k.seller, "psc", n, j)
  BY <1>5, <1>7, DeductOutcome
<1>9. Flight(k, a) = - Only(a = "psc", n) /\ Flight(j, a) = 0
  <2>1. CASE a = "color"
    BY <1>1, <1>2, <2>1, FlightOfColour, IdleFlight DEF Only
  <2>2. CASE a # "color"
    <3>1. a \in {"psc", "irr"} /\ k.op # "rgb"
      BY <1>2, <2>2 DEF Assets
    <3>2. PICK x : x = k.price[a]
      OBVIOUS
    <3>3. Flight(k, a) = - Only(a = "psc", 19 * x)
      BY <1>2, <3>1, <3>2, FlightOfAsset
    <3> QED BY <1>1, <1>3, <1>4, <3>2, <3>3, IdleFlight DEF Only
  <2> QED BY <2>1, <2>2
<1>10. CASE Called(t, k.seller, "psc", -n, j, j)
  <2>1. PICK v \in Int, w \in Assets :
          v = -n /\ w = "psc" /\ -LargestCharge <= v /\ v <= LargestCharge
    BY <1>4, <1>5, Largest
  <2>2. Called(t, k.seller, w, v, j, j)
    BY <1>10, <2>1
  <2>3. Flight(j, a) = Flight(task[t], a) - Only(a = w, v)
    BY <1>1, <1>4, <1>9, <2>1 DEF Only
  <2> QED BY <1>2, <1>5, <1>7, <2>1, <2>2, <2>3, SureCallMoney
<1>11. CASE Refused(t, k.seller, "psc", n, j)
  <2>1. PICK e \in Int : e = Only(a = "psc", n) /\ 0 <= e /\ e <= LargestCharge
    BY <1>4, Largest DEF Only
  <2>2. Flight(j, a) = Flight(task[t], a) + e
    BY <1>1, <1>4, <1>9, <2>1 DEF Only
  <2>3. Alone(task[t]) => e = 0
    <3>1. ASSUME Alone(task[t]) PROVE wallet[k.seller]["psc"] >= n
      BY <1>1, <1>2, <1>4, <3>1 DEF Alone
    <3>2. wallet[k.seller]["psc"] \in Int
      BY <1>5 DEF IInv, TypeOK
    <3>3. wallet[k.seller]["psc"] < n \/ n = 0
      BY <1>11 DEF Refused
    <3> QED BY <1>4, <2>1, <3>1, <3>2, <3>3 DEF Only
  <2> QED BY <1>2, <1>7, <1>11, <2>1, <2>2, <2>3, RefusedMoney
<1> QED BY <1>8, <1>10, <1>11

(* Fees *)
LEMMA FeeFlights ==
  ASSUME IInv, NEW k \in Task, TaskOK(k), k.pc = "fee", NEW ok, NEW no,
         ok = FeeDone(k), no = NoFees(k), NEW a \in Assets
  PROVE  /\ \A x \in {"psc", "irr"} : k.price[x] \in Nat /\ 21 * k.price[x] <= LargestCharge
         /\ k.asset \in {"psc", "irr"}
         /\ Flight(ok, a) = Flight(k, a) - Only(a = k.asset, 2 * k.price[k.asset])
         /\ k.asset = "psc" => /\ -LargestCharge <= Flight(no, a) - Flight(k, a)
                               /\ Flight(no, a) - Flight(k, a) <= LargestCharge
<1>1. /\ k.op \in {"buy", "accept"} /\ k.asset \in {"psc", "irr"}
      /\ ok \in Task /\ TaskOK(ok) /\ Same(ok, k)
      /\ k.asset = "psc" => ok.pc = "fee" /\ ok.asset = "irr"
      /\ k.asset = "irr" => ok.pc = FeesThen(k) /\ ok.asset = "psc"
      /\ no \in Task /\ Same(no, k) /\ no.pc = FeesThen(k)
      /\ k.asset = "psc" => TaskOK(no)
  BY FeeNext
<1>2. \A x \in {"psc", "irr"} : k.price[x] \in Nat /\ 21 * k.price[x] <= LargestCharge
  BY <1>1, AmountBounds
<1>3. PICK p \in Nat : p = k.price[k.asset]
  BY <1>1, <1>2
<1>4. LargestCharge \in Nat
  BY Largest
<1>5. CASE a = "color"
  <2>1. Flight(k, a) = 0 /\ Flight(ok, a) = 0 /\ Flight(no, a) = 0
    BY <1>1, <1>5, FlightOfColour DEF Only, Same
  <2> QED BY <1>1, <1>2, <1>3, <1>4, <1>5, <2>1 DEF Only
<1>6. CASE a # "color"
  <2>1. /\ a \in {"psc", "irr"} /\ k.op # "rgb"
        /\ ok.op = k.op /\ ok.price = k.price /\ no.op = k.op /\ no.price = k.price
    BY <1>1, <1>6 DEF Assets, Same
  <2>2. PICK n \in Nat : n = k.price[a] /\ n = ok.price[a] /\ n = no.price[a] /\ 21 * n <= LargestCharge
    BY <1>2, <2>1
  <2>3. Flight(k, a) = Only(k.op = "buy", 21 * n) - 19 * n - Only(DoneWith(k, a), 2 * n)
    BY <2>1, <2>2, FlightOfAsset
  <2>4. /\ ok.pc = "fee" => Flight(ok, a) = Only(ok.op = "buy", 21 * n) - 19 * n - Only(DoneWith(ok, a), 2 * n)
        /\ ok.pc = "own" => Flight(ok, a) = 0
        /\ ok.pc = "others" => Flight(ok, a) = - (21 * n)
    BY <1>1, <2>1, <2>2, FlightOfAsset
  <2>5. k.asset = "psc" => /\ no.pc = "own" => Flight(no, a) = 0
                           /\ no.pc = "others" => Flight(no, a) = - (21 * n)
    BY <1>1, <2>1, <2>2, FlightOfAsset
  <2>6. Flight(ok, a) = Flight(k, a) - Only(a = k.asset, 2 * n)
    <3>1. CASE k.asset = "psc"
      BY <1>1, <2>1, <2>2, <2>3, <2>4, <3>1 DEF Only, DoneWith
    <3>2. CASE k.asset = "irr"
      <4>1. ok.pc = IF k.op = "accept" THEN "others" ELSE "own"
        BY <1>1, <3>2 DEF FeesThen
      <4>2. CASE k.op = "buy"
        BY <2>1, <2>2, <2>3, <2>4, <3>2, <4>1, <4>2 DEF Only, DoneWith
      <4>3. CASE k.op = "accept"
        BY <2>1, <2>2, <2>3, <2>4, <3>2, <4>1, <4>3 DEF Only, DoneWith
      <4> QED BY <1>1, <4>2, <4>3
    <3> QED BY <1>1, <3>1, <3>2
  <2>7. Flight(ok, a) = Flight(k, a) - Only(a = k.asset, 2 * k.price[k.asset])
    BY <2>2, <2>6 DEF Only
  <2>8. k.asset = "psc" => /\ -LargestCharge <= Flight(no, a) - Flight(k, a)
                           /\ Flight(no, a) - Flight(k, a) <= LargestCharge
    <3>1. no.pc = IF k.op = "accept" THEN "others" ELSE "own"
      BY <1>1 DEF FeesThen
    <3>2. ASSUME k.asset = "psc" PROVE Flight(no, a) - Flight(k, a) = - (2 * n)
      BY <1>1, <2>2, <2>3, <2>5, <3>1, <3>2 DEF Only, DoneWith
    <3> QED BY <1>4, <2>2, <3>2
  <2> QED BY <1>1, <1>2, <2>7, <2>8
<1> QED BY <1>5, <1>6

LEMMA FeeMoney ==
  ASSUME IInv, IInv', NEW t \in Tasks, PayPlatform(t), NEW a \in Assets, NEW alone
  PROVE  Accounted(a, alone)
<1>1. PICK k, ok, no : k = task[t] /\ ok = FeeDone(k) /\ no = NoFees(k)
  OBVIOUS
<1>2. /\ k \in Task /\ TaskOK(k) /\ k.pc = "fee"
      /\ Rgb \in Accounts /\ k.asset \in Assets
      /\ \/ AddBalance(t, Rgb, k.asset, PlatformFee(k.price[k.asset]), ok, ok)
         \/ k.asset = "psc" /\ Set(t, no) /\ Fault /\ UNCHANGED wallet
      /\ StoreUnchanged
  BY <1>1, FeeCall
<1>3. /\ \A x \in {"psc", "irr"} : k.price[x] \in Nat /\ 21 * k.price[x] <= LargestCharge
      /\ k.asset \in {"psc", "irr"}
      /\ Flight(ok, a) = Flight(k, a) - Only(a = k.asset, 2 * k.price[k.asset])
      /\ k.asset = "psc" => /\ -LargestCharge <= Flight(no, a) - Flight(k, a)
                            /\ Flight(no, a) - Flight(k, a) <= LargestCharge
  BY <1>1, <1>2, FeeFlights
<1>4. /\ ok \in Task /\ TaskOK(ok) /\ no \in Task /\ (k.asset = "psc" => TaskOK(no))
  BY <1>1, <1>2, FeeNext
<1>5. PICK m \in Nat : m = k.price[k.asset] /\ 21 * m <= LargestCharge
  BY <1>3
<1>6. PICK n \in Int : n = PlatformFee(m) /\ n = 2 * m /\ -LargestCharge <= n /\ n <= LargestCharge
  BY <1>5, Largest DEF PlatformFee
<1>7. CASE AddBalance(t, Rgb, k.asset, PlatformFee(k.price[k.asset]), ok, ok)
  <2>1. AddBalance(t, Rgb, k.asset, n, ok, ok)
    BY <1>5, <1>6, <1>7
  <2>2. Called(t, Rgb, k.asset, n, ok, ok)
    BY <1>2, <2>1, AddOutcome
  <2>3. Flight(ok, a) = Flight(task[t], a) - Only(a = k.asset, n)
    BY <1>1, <1>3, <1>5, <1>6 DEF Only
  <2> QED BY <1>2, <1>4, <1>6, <2>2, <2>3, SureCallMoney
<1>8. CASE k.asset = "psc" /\ Set(t, no) /\ Fault /\ UNCHANGED wallet
  <2>1. RowsStay /\ UNCHANGED <<wallet, locked>>
    BY <1>2, <1>8 DEF StoreUnchanged, RowsStay
  <2>2. faults' # faults
    BY <1>8, Known, FaultCounts
  <2>3. /\ -LargestCharge <= Flight(no, a) - Flight(task[t], a)
        /\ Flight(no, a) - Flight(task[t], a) <= LargestCharge
    BY <1>1, <1>3, <1>8
  <2> QED BY <1>4, <1>8, <2>1, <2>2, <2>3, Untouched
<1> QED BY <1>2, <1>7, <1>8
-----------------------------------------------------------------------------
(* Accounts of the steps on offers and locks *)

(* What an offer, or the offer that is refunded, was charged for.          *)
LEMMA FlightOfOffer ==
  ASSUME IInv, NEW k \in Task, TaskOK(k), k.op # "rgb", NEW a \in Assets,
         NEW x, x = IF a = "color" THEN 0 ELSE 21 * k.price[a],
         NEW y, y = Charged(Refunded(k), a)
  PROVE  /\ x \in Nat
         /\ k.pc # "idle" /\ k.op \in {"send", "buy", "accept", "reject", "delete"} =>
              x <= LargestCharge
         /\ Inserted(k) \/ Settling(k) => Charged(k.id, a) = x
         /\ k.pc \in {"repay", "release", "close"} => y \in Nat /\ y <= LargestCharge
         /\ k.pc \in {"idle", "insert", "own", "cancel", "complete",
                      "list", "price", "unprice", "unlist"} => Flight(k, a) = 0
         /\ k.pc \in {"charge", "pay"} /\ k.op # "buy" /\ k.asset = "psc" => Flight(k, a) = 0
         /\ k.pc = "charge" /\ k.asset = "psc" => Flight(k, a) = 0
         /\ k.pc = "record" => Flight(k, a) = x
         /\ k.pc \in {"others", "refund", "commit"} => Flight(k, a) = - x
         /\ k.pc = "repay" /\ k.asset = "psc" => Flight(k, a) = - Only(k.op = "accept", x)
         /\ k.pc = "release"  => Flight(k, a) = - Only(k.op = "accept", x) - y
         /\ k.pc = "close"    => Flight(k, a) = - Only(k.op = "accept", x)
<1>1. CASE a = "color"
  <2>1. Flight(k, a) = 0 /\ x = 0 /\ y = 0 /\ Charged(k.id, a) = 0
    BY <1>1, FlightOfColour DEF Only, Charged
  <2>2. x \in Nat /\ y \in Nat /\ x <= LargestCharge /\ y <= LargestCharge
    BY <2>1, Largest
  <2>3. PICK z \in Int : z = Only(k.op = "accept", x) /\ z = 0
    BY <2>1 DEF Only
  <2>4. - z = 0 - z /\ - z - y = (0 - z) - y /\ - x = 0 - x
    BY <2>2
  <2>5. 0 - z = 0 /\ (0 - z) - y = 0 /\ 0 - x = 0
    BY <2>1, <2>3
  <2> QED BY <2>1, <2>2, <2>3, <2>4, <2>5
<1>2. CASE a # "color"
  <2>1. a \in {"psc", "irr"}
    BY <1>2 DEF Assets
  <2>2. PICK n \in Nat : n = k.price[a] /\ x = 21 * n
    <3>1. k.price["psc"] \in Nat /\ k.price["irr"] \in Nat
      BY Amounts
    <3> QED BY <1>2, <2>1, <3>1
  <2>3. k.pc # "idle" /\ k.op \in {"send", "buy", "accept", "reject", "delete"} => x <= LargestCharge
    BY <2>1, <2>2, AmountBounds
  <2>4. Inserted(k) \/ Settling(k) => Charged(k.id, a) = x
    <3>1. BuyerCharge(n) = 21 * n
      BY DEF BuyerCharge
    <3> QED BY <1>2, <2>2, <3>1 DEF Charged, TaskOK, KnowsItsRow
  <2>5. ASSUME k.pc \in {"repay", "release", "close"}
        PROVE  y = 21 * Refund(k, a) /\ y \in Nat /\ y <= LargestCharge
    <3>1. Refunded(k) \in DOMAIN requests
      BY <2>5, RefundedRow
    <3>2. Refund(k, a) \in Nat /\ 21 * Refund(k, a) <= LargestCharge
      BY <2>1, <3>1, RowPrice, Largest DEF Refund
    <3>3. y = BuyerCharge(Refund(k, a))
      BY <1>2 DEF Charged, Refund
    <3> QED BY <3>2, <3>3 DEF BuyerCharge
  <2>6. /\ k.pc \in {"idle", "insert", "own", "cancel", "complete",
                     "list", "price", "unprice", "unlist"} => Flight(k, a) = 0
        /\ k.pc = "record" => Flight(k, a) = x
        /\ k.pc \in {"others", "refund", "commit"} => Flight(k, a) = - x
    BY <2>1, <2>2, FlightOfAsset
  <2>7. /\ k.pc = "charge" => Flight(k, a) = Only(DoneWith(k, a), 21 * n)
        /\ k.pc = "pay"      => Flight(k, a) = Only(k.op = "buy", 21 * n) - Only(DoneWith(k, a), 19 * n)
    BY <2>1, <2>2, FlightOfAsset
  <2>8. /\ k.pc \in {"charge", "pay"} /\ k.op # "buy" /\ k.asset = "psc" => Flight(k, a) = 0
        /\ k.pc = "charge" /\ k.asset = "psc" => Flight(k, a) = 0
    BY <2>7 DEF Only, DoneWith
  <2>9. /\ k.pc = "repay" => Flight(k, a) = - Only(k.op = "accept", 21 * n) - Only(DoneWith(k, a), 21 * Refund(k, a))
        /\ k.pc = "release"  => Flight(k, a) = - Only(k.op = "accept", 21 * n) - 21 * Refund(k, a)
        /\ k.pc = "close"    => Flight(k, a) = - Only(k.op = "accept", 21 * n)
    BY <2>1, <2>2, FlightOfAsset
  <2>10. /\ k.pc = "repay" /\ k.asset = "psc" => Flight(k, a) = - Only(k.op = "accept", x)
         /\ k.pc = "release"  => Flight(k, a) = - Only(k.op = "accept", x) - y
         /\ k.pc = "close"    => Flight(k, a) = - Only(k.op = "accept", x)
    BY <2>2, <2>5, <2>9 DEF Only, DoneWith
  <2> QED BY <2>2, <2>3, <2>4, <2>5, <2>6, <2>8, <2>10
<1> QED BY <1>1, <1>2

(* A step on a lock. *)
LEMMA LockMoney ==
  ASSUME IInv, IInv', RowsStay, UNCHANGED wallet, NEW t \in Tasks, NEW j \in Task, TaskOK(j),
         Set(t, j), NEW a \in Assets, NEW o \in Int, InOffers(a)' = InOffers(a) + o, NEW alone,
         NEW d, d = o + Flight(j, a) - Flight(task[t], a),
         -LargestCharge <= d, d <= LargestCharge,
         faults' = faults => d >= 0 /\ (alone => d = 0)
  PROVE  Accounted(a, alone)
<1>1. PICK z \in Int : z = 0 /\ InWallets(a)' = InWallets(a) + z
  <2>1. InWallets(a)' = InWallets(a) /\ InWallets(a) \in Int
    BY WalletsType DEF InWallets
  <2> QED BY <2>1
<1>2. /\ Flight(j, a) \in Int /\ Flight(task[t], a) \in Int
      /\ Total(a)' = Total(a) + (z + o + Flight(j, a) - Flight(task[t], a))
  BY <1>1, Account
<1>3. d \in Int /\ Total(a)' = Total(a) + d
  BY <1>1, <1>2
<1> QED BY <1>3, Small

(* RecordLock: the money that was taken is now in the offer. *)
LEMMA RecordMoney ==
  ASSUME IInv, IInv', RowsStay, NEW t \in Tasks, RecordLock(t), NEW a \in Assets, NEW alone
  PROVE  Accounted(a, alone)
<1>1. PICK k, j : k = task[t] /\ j = Idle
  OBVIOUS
<1>2. /\ k \in Task /\ TaskOK(k) /\ k.pc = "record" /\ k.op = "send" /\ Inserted(k)
      /\ j \in Task /\ TaskOK(j) /\ Set(t, j)
  BY <1>1, Known, IdleFits DEF RecordLock, At, TaskOK, OnCourse, Inserted
<1>3. PICK x \in Int : /\ x = Charged(k.id, a) /\ 0 <= x /\ x <= LargestCharge
                       /\ Flight(task[t], a) = x
  <2>1. PICK x, y : x = (IF a = "color" THEN 0 ELSE 21 * k.price[a]) /\ y = Charged(Refunded(k), a)
    OBVIOUS
  <2> QED BY <1>1, <1>2, <2>1, FlightOfOffer
<1>4. k.id \in DOMAIN requests /\ k.id \notin locked
  BY <1>1, <1>2 DEF TaskOK, KnowsItsRow, IInv, LocksAreNew
<1>5. InOffers(a) \in Int /\ Flight(j, a) = 0
  BY <1>1, OffersType, IdleFlight
<1>6. CASE locked' = locked \union {k.id} /\ UNCHANGED faults
  <2>1. InOffers(a)' = InOffers(a) + x
    BY <1>3, <1>4, <1>6, OfferAdded
  <2>2. PICK d \in Int : d = 0 /\ d = x + Flight(j, a) - Flight(task[t], a)
    BY <1>3, <1>5
  <2>3. -LargestCharge <= d /\ d <= LargestCharge /\ d >= 0
    BY <2>2, Largest
  <2> QED BY <1>2, <1>3, <2>1, <2>2, <2>3, LockMoney DEF RecordLock
<1>7. CASE Fault /\ UNCHANGED locked
  <2>1. PICK o \in Int : o = 0 /\ InOffers(a)' = InOffers(a) + o
    <3>1. InOffers(a)' = InOffers(a)
      BY <1>7, OffersUnchanged
    <3> QED BY <1>5, <3>1
  <2>2. PICK d \in Int : d = - x /\ d = o + Flight(j, a) - Flight(task[t], a)
    BY <1>3, <1>5, <2>1
  <2>3. -LargestCharge <= d /\ d <= LargestCharge /\ faults' # faults
    BY <1>3, <1>7, <2>2, Largest, Known, FaultCounts
  <2> QED BY <1>2, <2>1, <2>2, <2>3, LockMoney DEF RecordLock
<1> QED BY <1>1, <1>6, <1>7 DEF RecordLock

(* Release: the money that was returned is no longer in the offer. *)
LEMMA ReleaseMoney ==
  ASSUME IInv, IInv', RowsStay, NEW t \in Tasks, Release(t), NEW a \in Assets
  PROVE  Accounted(a, Alone(task[t]))
<1>1. PICK k, j : k = task[t] /\ j = [k EXCEPT !.pc = "close"]
  OBVIOUS
<1>2. k \in Task /\ TaskOK(k) /\ k.pc = "release"
  BY <1>1, Known DEF Release, At
<1>3. j \in Task /\ j.pc = "close" /\ j.asset = k.asset /\ Same(j, k) /\ Set(t, j)
  BY <1>1, <1>2, AtStep DEF Release, Steps
<1>4. k.op \in {"accept", "reject", "delete"} /\ k.op # "rgb" /\ j.op = k.op
  BY <1>2, <1>3 DEF TaskOK, OnCourse, Same
<1>5. TaskOK(j)
  <2>1. OnCourse(j) /\ AssetFits(j) /\ ~ Inserted(j) /\ (j.op = "accept" => j.todo # {})
    BY <1>2, <1>3 DEF OnCourse, AssetFits, Inserted, Same, TaskOK, KnowsItsRow
  <2> QED BY <1>2, <1>3, <2>1, GoesOn
<1>6. PICK i : i = Refunded(k)
  OBVIOUS
<1>7. i \in DOMAIN requests /\ Refunded(j) = i
  BY <1>2, <1>3, <1>6, RefundedRow DEF Refunded, Same
<1>8. PICK x, y : x = (IF a = "color" THEN 0 ELSE 21 * k.price[a]) /\ y = Charged(i, a)
  OBVIOUS
<1>9. /\ x \in Nat /\ y \in Nat /\ y <= LargestCharge
      /\ Flight(k, a) = - Only(k.op = "accept", x) - y
  BY <1>2, <1>4, <1>6, <1>8, FlightOfOffer
<1>10. Flight(j, a) = - Only(k.op = "accept", x)
  <2>1. x = (IF a = "color" THEN 0 ELSE 21 * j.price[a]) /\ y = Charged(Refunded(j), a)
    BY <1>3, <1>7, <1>8 DEF Same
  <2> QED BY <1>3, <1>4, <1>5, <2>1, FlightOfOffer
<1>11. Flight(j, a) - Flight(task[t], a) = y /\ Flight(j, a) \in Int /\ Flight(task[t], a) \in Int
  BY <1>1, <1>9, <1>10 DEF Only
<1>12. UNCHANGED wallet
  BY DEF Release
<1>13. CASE locked' = locked \ {i} /\ UNCHANGED faults
  <2>1. PICK o \in Int : o = - Only(i \in locked, y) /\ InOffers(a)' = InOffers(a) + o
    <3>1. InOffers(a)' = InOffers(a) - Only(i \in locked, Charged(i, a))
      BY <1>7, <1>13, OfferRemoved
    <3> QED BY <1>8, <1>9, <3>1, OffersType DEF Only
  <2>2. PICK d \in Int : d = o + y /\ d = o + Flight(j, a) - Flight(task[t], a)
    BY <1>9, <1>11
  <2>3. -LargestCharge <= d /\ d <= LargestCharge /\ d >= 0
    BY <1>9, <2>1, <2>2, Largest DEF Only
  <2>4. Alone(task[t]) => d = 0
    <3>1. Alone(task[t]) => i \in locked
      BY <1>1, <1>2, <1>4, <1>6 DEF Alone, Refunded
    <3> QED BY <1>9, <2>1, <2>2, <3>1 DEF Only
  <2> QED BY <1>3, <1>5, <1>12, <2>1, <2>2, <2>3, <2>4, LockMoney
<1>14. CASE Fault /\ UNCHANGED locked
  <2>1. PICK o \in Int : o = 0 /\ InOffers(a)' = InOffers(a) + o
    <3>1. InOffers(a)' = InOffers(a)
      BY <1>14, OffersUnchanged
    <3> QED BY <3>1, OffersType
  <2>2. PICK d \in Int : d = y /\ d = o + Flight(j, a) - Flight(task[t], a)
    BY <1>9, <1>11, <2>1
  <2>3. -LargestCharge <= d /\ d <= LargestCharge /\ faults' # faults
    BY <1>9, <1>14, <2>2, Largest, Known, FaultCounts
  <2> QED BY <1>3, <1>5, <1>12, <2>1, <2>2, <2>3, LockMoney
<1> QED BY <1>1, <1>6, <1>13, <1>14 DEF Release
(* A step of an acceptance that moves no money, whatever becomes of todo. *)
LEMMA AcceptFits ==
  ASSUME IInv, NEW k \in Task, TaskOK(k), k.op = "accept", k.pc # "idle", k.asset = "psc",
         NEW j \in Task, j.op = "accept", j.asset = "psc", j.id = k.id, j.price = k.price,
         j.todo \subseteq DOMAIN requests,
         j.pc \in {"refund", "commit"} \/ (j.pc = "repay" /\ j.todo # {})
  PROVE  TaskOK(j) /\ ~ Inserted(j)
BY DEF TaskOK, OnCourse, AssetFits, KnowsItsRow, KnowsItsSale, Inserted, Settling

LEMMA AcceptFlights ==
  ASSUME IInv, NEW k \in Task, TaskOK(k), k.op = "accept",
         k.asset = "psc", k.pc \in {"others", "refund", "close", "commit"}, NEW a \in Assets
  PROVE  \E x \in Nat :
           /\ x <= LargestCharge /\ Flight(k, a) = - x /\ Charged(k.id, a) = x
           /\ k.id \in DOMAIN requests
           /\ \A j \in Task :
                /\ TaskOK(j) /\ j.op = "accept" /\ j.asset = "psc" /\ j.price = k.price
                /\ j.pc \in {"refund", "repay", "commit"}
                => Flight(j, a) = - x
<1>1. PICK x, y : x = (IF a = "color" THEN 0 ELSE 21 * k.price[a]) /\ y = Charged(Refunded(k), a)
  OBVIOUS
<1>2. x \in Nat /\ x <= LargestCharge /\ Charged(k.id, a) = x /\ k.id \in DOMAIN requests
  <2>1. Settling(k)
    BY DEF Settling
  <2> QED BY <1>1, <2>1, FlightOfOffer DEF TaskOK, KnowsItsRow
<1>3. Flight(k, a) = - x
  BY <1>1, FlightOfOffer DEF Only
<1>4. ASSUME NEW j \in Task, TaskOK(j), j.op = "accept", j.asset = "psc", j.price = k.price,
             j.pc \in {"refund", "repay", "commit"}
      PROVE  Flight(j, a) = - x
  <2>1. PICK z : z = Charged(Refunded(j), a)
    OBVIOUS
  <2>2. x = (IF a = "color" THEN 0 ELSE 21 * j.price[a])
    BY <1>1, <1>4
  <2> QED BY <1>4, <2>1, <2>2, FlightOfOffer DEF Only
<1> QED BY <1>2, <1>3, <1>4

(* CloseRequest *)
LEMMA CloseMoney ==
  ASSUME IInv, IInv', RowsStay, NEW t \in Tasks, CloseRequest(t), NEW a \in Assets, NEW alone
  PROVE  Accounted(a, alone)
<1>1. PICK k, i : k = task[t] /\ i = Refunded(k)
  OBVIOUS
<1>2. k \in Task /\ TaskOK(k) /\ k.pc = "close" /\ k.asset = "psc"
  BY <1>1, Known DEF CloseRequest, At, TaskOK, AssetFits, OnCourse
<1>3. UNCHANGED <<wallet, locked>>
  BY DEF CloseRequest
<1>4. CASE k.op = "accept"
  <2>1. PICK j : j = [k EXCEPT !.pc = "refund", !.todo = @ \ {i}]
    OBVIOUS
  <2>2. Set(t, j)
    BY <1>1, <1>4, <2>1 DEF CloseRequest
  <2>3. /\ j \in Task /\ j.pc = "refund" /\ j.op = "accept" /\ j.id = k.id
        /\ j.price = k.price /\ j.todo = k.todo \ {i} /\ j.asset = k.asset
    BY <1>2, <1>4, <2>1 DEF Task
  <2>4. j.todo \subseteq DOMAIN requests
    BY <1>2, <1>4, <2>3 DEF TaskOK, KnowsItsRow
  <2>5. TaskOK(j)
    BY <1>2, <1>4, <2>3, <2>4, AcceptFits
  <2>6. Flight(j, a) = Flight(task[t], a)
    BY <1>1, <1>2, <1>4, <2>3, <2>5, AcceptFlights
  <2>7. Flight(j, a) - Flight(task[t], a) = 0
    BY <2>3, <2>5, <2>6, FlightBounds
  <2> QED BY <1>3, <2>2, <2>3, <2>5, <2>7, Untouched
<1>5. CASE k.op # "accept"
  <2>1. PICK j : j = Idle
    OBVIOUS
  <2>2. Set(t, j) /\ j \in Task /\ TaskOK(j) /\ Flight(j, a) = 0
    BY <1>1, <1>5, <2>1, IdleFits, IdleFlight DEF CloseRequest
  <2>3. PICK x, y : x = (IF a = "color" THEN 0 ELSE 21 * k.price[a]) /\ y = Charged(Refunded(k), a)
    OBVIOUS
  <2>4. k.op # "rgb"
    BY <1>2 DEF TaskOK, OnCourse
  <2>5. Flight(k, a) = - Only(k.op = "accept", x)
    BY <1>2, <2>3, <2>4, FlightOfOffer
  <2>6. PICK z \in Int : z = Only(k.op = "accept", x) /\ z = 0
    BY <1>5 DEF Only
  <2>7. - z = 0 - z
    OBVIOUS
  <2>8. Flight(j, a) - Flight(task[t], a) = 0
    BY <1>1, <2>2, <2>5, <2>6, <2>7
  <2> QED BY <1>3, <2>2, <2>8, Untouched
<1> QED BY <1>4, <1>5

(* ReadOthers *)
LEMMA OthersMoney ==
  ASSUME IInv, IInv', RowsStay, NEW t \in Tasks, ReadOthers(t), NEW a \in Assets, NEW alone
  PROVE  Accounted(a, alone)
<1>1. PICK k : k = task[t]
  OBVIOUS
<1>2. /\ k \in Task /\ TaskOK(k) /\ k.pc = "others" /\ k.op = "accept" /\ k.asset = "psc"
  BY <1>1, Known DEF ReadOthers, At, TaskOK, AssetFits, OnCourse
<1>3. UNCHANGED <<wallet, locked>>
  BY DEF ReadOthers
<1>4. PICK x \in Nat :
        /\ x <= LargestCharge /\ Flight(k, a) = - x
        /\ \A j \in Task :
             /\ TaskOK(j) /\ j.op = "accept" /\ j.asset = "psc" /\ j.price = k.price
             /\ j.pc \in {"refund", "repay", "commit"}
             => Flight(j, a) = - x
  BY <1>2, AcceptFlights
<1>5. ASSUME NEW j \in Task, j.op = "accept", j.asset = "psc", j.price = k.price, j.id = k.id,
             j.pc = "refund", j.todo \subseteq DOMAIN requests, Set(t, j)
      PROVE  Accounted(a, alone)
  <2>1. TaskOK(j)
    BY <1>2, <1>5, AcceptFits
  <2>2. Flight(j, a) - Flight(task[t], a) = 0
    BY <1>1, <1>4, <1>5, <2>1
  <2> QED BY <1>3, <1>5, <2>1, <2>2, Untouched
<1>6. CASE Set(t, [k EXCEPT !.pc = "refund", !.todo = LiveFor(k.feature) \ {k.id}])
  <2>1. LiveFor(k.feature) \subseteq DOMAIN requests /\ DOMAIN requests \subseteq Ids
    BY BoundsAssumption DEF LiveFor, IInv, TypeOK, Ids
  <2>2. PICK j : j = [k EXCEPT !.pc = "refund", !.todo = LiveFor(k.feature) \ {k.id}]
    OBVIOUS
  <2>3. /\ j \in Task /\ j.pc = "refund" /\ j.op = "accept" /\ j.id = k.id /\ j.asset = "psc"
        /\ j.price = k.price /\ j.todo \subseteq DOMAIN requests
    BY <1>2, <2>1, <2>2 DEF Task
  <2> QED BY <1>5, <1>6, <2>2, <2>3
<1>7. CASE task' = [task EXCEPT ![t].pc = "refund"]
  <2>1. PICK j : j = [k EXCEPT !.pc = "refund"]
    OBVIOUS
  <2>2. Set(t, j)
    BY <1>1, <1>7, <2>1 DEF Set
  <2>3. j \in Task /\ j.pc = "refund" /\ j.asset = k.asset /\ Same(j, k)
    BY <1>2, <2>1, AtStep DEF Steps
  <2>4. j.todo \subseteq DOMAIN requests
    BY <1>2, <2>3 DEF Same, TaskOK, KnowsItsRow
  <2> QED BY <1>2, <1>5, <2>2, <2>3, <2>4 DEF Same
<1>8. CASE task' = [task EXCEPT ![t] = Idle] /\ Fault
  <2>1. PICK j : j = Idle
    OBVIOUS
  <2>2. Set(t, j) /\ j \in Task /\ TaskOK(j) /\ Flight(j, a) = 0
    BY <1>8, <2>1, IdleFits, IdleFlight DEF Set
  <2>3. faults' # faults
    BY <1>8, Known, FaultCounts
  <2>4. /\ -LargestCharge <= Flight(j, a) - Flight(task[t], a)
        /\ Flight(j, a) - Flight(task[t], a) <= LargestCharge
    BY <1>1, <1>4, <2>2, Largest
  <2> QED BY <1>3, <2>2, <2>3, <2>4, Untouched
<1> QED BY <1>1, <1>6, <1>7, <1>8 DEF ReadOthers

(* RefundOther: a request that is alone finds what it listed. *)
LEMMA RefundMoney ==
  ASSUME IInv, IInv', RowsStay, NEW t \in Tasks, RefundOther(t), NEW a \in Assets
  PROVE  Accounted(a, Alone(task[t]))
<1>1. PICK k, i : k = task[t] /\ i = Min(k.todo)
  OBVIOUS
<1>2. /\ k \in Task /\ TaskOK(k) /\ k.pc = "refund" /\ k.op = "accept" /\ k.asset = "psc"
      /\ k.todo # {} /\ k.todo \subseteq DOMAIN requests
  BY <1>1, Known DEF RefundOther, At, TaskOK, AssetFits, OnCourse, KnowsItsRow
<1>3. UNCHANGED <<wallet, locked>>
  BY DEF RefundOther
<1>4. PICK x \in Nat :
        /\ x <= LargestCharge /\ Flight(k, a) = - x
        /\ \A j \in Task :
             /\ TaskOK(j) /\ j.op = "accept" /\ j.asset = "psc" /\ j.price = k.price
             /\ j.pc \in {"refund", "repay", "commit"}
             => Flight(j, a) = - x
  BY <1>2, AcceptFlights
<1>5. ASSUME NEW j \in Task, j.op = "accept", j.asset = "psc", j.price = k.price, j.id = k.id,
             j.pc = "refund" \/ (j.pc = "repay" /\ j.todo # {}),
             j.todo \subseteq DOMAIN requests, Set(t, j)
      PROVE  Accounted(a, Alone(task[t]))
  <2>1. TaskOK(j)
    BY <1>2, <1>5, AcceptFits
  <2>2. Flight(j, a) - Flight(task[t], a) = 0
    BY <1>1, <1>4, <1>5, <2>1
  <2> QED BY <1>3, <1>5, <2>1, <2>2, Untouched
<1>6. CASE Set(t, [k EXCEPT !.pc = "repay"])
  <2>1. PICK j : j = [k EXCEPT !.pc = "repay"]
    OBVIOUS
  <2>2. j \in Task /\ j.pc = "repay" /\ j.asset = k.asset /\ Same(j, k)
    BY <1>2, <2>1, AtStep DEF Steps
  <2> QED BY <1>2, <1>5, <1>6, <2>1, <2>2 DEF Same
<1>7. CASE Set(t, [k EXCEPT !.todo = @ \ {i}])
  <2>1. PICK j : j = [k EXCEPT !.todo = @ \ {i}]
    OBVIOUS
  <2>2. /\ j \in Task /\ j.pc = "refund" /\ j.op = "accept" /\ j.id = k.id
        /\ j.price = k.price /\ j.todo = k.todo \ {i} /\ j.asset = k.asset
    BY <1>2, <2>1 DEF Task
  <2>3. j.todo \subseteq DOMAIN requests
    BY <1>2, <2>2
  <2> QED BY <1>2, <1>5, <1>7, <2>1, <2>2, <2>3
<1>8. CASE ~ Live(i) /\ Set(t, Idle) /\ UNCHANGED faults
  <2>1. PICK j : j = Idle
    OBVIOUS
  <2>2. Set(t, j) /\ j \in Task /\ TaskOK(j) /\ Flight(j, a) = 0
    BY <1>8, <2>1, IdleFits, IdleFlight
  <2>3. ~ Alone(task[t])
    <3>1. i \in k.todo
      <4>1. k.todo \subseteq Ids /\ IsFiniteSet(Ids) /\ Ids \subseteq Int
        <5>1. MaxRequests \in Int
          BY BoundsAssumption
        <5>2. IsFiniteSet(Ids) /\ Ids \subseteq Int
          BY <5>1, FS_Interval DEF Ids
        <5> QED BY <1>2, <5>2 DEF Task
      <4>2. IsFiniteSet(k.todo) /\ k.todo \subseteq Int
        BY <4>1, FS_Subset
      <4> QED BY <1>1, <1>2, <4>2, SmallestOf
    <3> QED BY <1>1, <1>2, <1>8, <3>1 DEF Alone
  <2>4. /\ 0 <= Flight(j, a) - Flight(task[t], a)
        /\ -LargestCharge <= Flight(j, a) - Flight(task[t], a)
        /\ Flight(j, a) - Flight(task[t], a) <= LargestCharge
    BY <1>1, <1>4, <2>2, Largest
  <2> QED BY <1>3, <2>2, <2>3, <2>4, Untouched
<1> QED BY <1>1, <1>6, <1>7, <1>8 DEF RefundOther

(* A step between two that have nothing in flight. *)
LEMMA AtRestFlight ==
  ASSUME IInv, NEW k \in Task, TaskOK(k), AtRest(k), NEW a \in Assets
  PROVE  Flight(k, a) = 0
<1>1. CASE k.op = "rgb"
  BY <1>1, FlightOfColour DEF AtRest, Only
<1>2. CASE k.op # "rgb"
  <2>1. PICK x, y : x = (IF a = "color" THEN 0 ELSE 21 * k.price[a]) /\ y = Charged(Refunded(k), a)
    OBVIOUS
  <2>2. k.asset # "irr" => k.asset = "psc"
    BY <1>2 DEF TaskOK, AssetFits
  <2>3. CASE k.pc # "repay"
    BY <1>2, <2>1, <2>2, <2>3, FlightOfOffer DEF AtRest
  <2>4. CASE k.pc = "repay"
    <3>1. k.op # "accept" /\ k.asset = "psc" /\ Flight(k, a) = - Only(k.op = "accept", x)
      BY <1>2, <2>1, <2>4, FlightOfOffer DEF AtRest
    <3>2. PICK z \in Int : z = Only(k.op = "accept", x) /\ z = 0
      BY <3>1 DEF Only
    <3>3. - z = 0 - z
      OBVIOUS
    <3> QED BY <3>1, <3>2, <3>3
  <2> QED BY <2>3, <2>4
<1> QED BY <1>1, <1>2

LEMMA RestMoney ==
  ASSUME IInv, IInv', RowsStay, UNCHANGED <<wallet, locked>>, NEW t \in Tasks, AtRest(task[t]),
         NEW j \in Task, TaskOK(j), AtRest(j), Set(t, j), NEW a \in Assets, NEW alone
  PROVE  Accounted(a, alone)
<1>1. PICK k : k = task[t]
  OBVIOUS
<1>2. k \in Task /\ TaskOK(k) /\ AtRest(k)
  BY <1>1, Known
<1>3. Flight(task[t], a) = 0 /\ Flight(j, a) = 0
  BY <1>1, <1>2, AtRestFlight
<1> QED BY <1>3, Untouched

(* The requests that arrive. *)
LEMMA BegunMoney ==
  ASSUME IInv, IInv', NEW t \in Tasks, Begun(t), NEW a \in Assets, NEW alone
  PROVE  Accounted(a, alone)
<1>1. PICK k \in Task : Set(t, k) /\ TaskOK(k) /\ AtRest(k)
  BY DEF Begun
<1>2. AtRest(task[t]) /\ RowsStay /\ UNCHANGED <<wallet, locked>>
  BY DEF Begun, AtRest, StoreUnchanged, MoneyUnchanged, RowsStay
<1> QED BY <1>1, <1>2, RestMoney

(* The requests that end without money in flight. *)
LEMMA EndMoney ==
  ASSUME IInv, IInv', RowsStay, UNCHANGED <<wallet, locked>>, NEW t \in Tasks, AtRest(task[t]),
         Set(t, Idle), NEW a \in Assets, NEW alone
  PROVE  Accounted(a, alone)
<1>1. PICK j : j = Idle
  OBVIOUS
<1>2. j \in Task /\ TaskOK(j) /\ AtRest(j) /\ Set(t, j)
  BY <1>1, IdleFits DEF AtRest
<1> QED BY <1>2, RestMoney

(* The requests that go on without. *)
LEMMA OnwardMoney ==
  ASSUME IInv, IInv', RowsStay, UNCHANGED <<wallet, locked>>, NEW t \in Tasks, AtRest(task[t]),
         NEW pc \in {"cancel", "complete", "price", "unlist"}, Set(t, [task[t] EXCEPT !.pc = pc]),
         \/ task[t].pc \in {"own", "cancel"} /\ task[t].op = "buy" /\ pc \in {"cancel", "complete"}
         \/ task[t].pc = "list" /\ pc = "price"
         \/ task[t].pc = "unprice" /\ pc = "unlist",
         NEW a \in Assets, NEW alone
  PROVE  Accounted(a, alone)
<1>1. PICK k, j : k = task[t] /\ j = [k EXCEPT !.pc = pc]
  OBVIOUS
<1>2. k \in Task /\ TaskOK(k) /\ k.pc # "idle"
  BY <1>1, Known
<1>3. j \in Task /\ j.pc = pc /\ j.asset = k.asset /\ Same(j, k)
  BY <1>1, <1>2, AtStep DEF Steps
<1>4. OnCourse(j) /\ AssetFits(j) /\ ~ Inserted(j) /\ AtRest(j)
  BY <1>1, <1>2, <1>3 DEF OnCourse, AssetFits, Inserted, Same, TaskOK, AtRest
<1>5. TaskOK(j)
  BY <1>2, <1>3, <1>4, GoesOn
<1> QED BY <1>1, <1>3, <1>4, <1>5, RestMoney

(* InsertRequest *)
LEMMA InsertMoney ==
  ASSUME IInv, IInv', RowsStay, NEW t \in Tasks, InsertRequest(t), NEW a \in Assets, NEW alone
  PROVE  Accounted(a, alone)
<1>1. UNCHANGED <<wallet, locked>> /\ AtRest(task[t])
  BY DEF InsertRequest, At, AtRest
<1>2. CASE Set(t, Idle)
  BY <1>1, <1>2, EndMoney
<1>3. CASE Set(t, [task[t] EXCEPT !.pc = "charge", !.id = Len(requests) + 1])
  <2>1. PICK k, n, j : k = task[t] /\ n = Len(requests) + 1 /\ j = [k EXCEPT !.pc = "charge", !.id = n]
    OBVIOUS
  <2>2. k \in Task /\ TaskOK(k) /\ k.op = "send" /\ k.asset = "psc" /\ n \in Nat
    <3>1. k \in Task /\ TaskOK(k) /\ k.op = "send" /\ k.asset = "psc"
      BY <2>1, Known DEF InsertRequest, At, TaskOK, OnCourse, AssetFits
    <3>2. requests \in Seq(Request)
      BY DEF IInv, TypeOK
    <3>3. Len(requests) + 1 \in Nat
      BY <3>2
    <3> QED BY <2>1, <3>1, <3>3
  <2>3. j \in Task /\ j.op = "send" /\ j.pc = "charge" /\ j.asset = "psc"
    BY <2>1, <2>2 DEF Task
  <2>4. PICK e \in Int : e = 0
    OBVIOUS
  <2>5. Flight(j, a)' = e
    BY <2>3, <2>4 DEF Flight, Coming, Going, Returning, Only, DoneWith
  <2>6. Set(t, j)
    BY <1>3, <2>1
  <2>7. InFlight(a) \in Int /\ InFlight(a)' = InFlight(a) - Flight(task[t], a) + e
    BY <2>3, <2>5, <2>6, FlightsChange
  <2>8. Flight(task[t], a) = 0
    BY <1>1, <2>1, <2>2, AtRestFlight
  <2>9. InWallets(a)' = InWallets(a) /\ InWallets(a) \in Int
    BY <1>1, WalletsType DEF InWallets
  <2>10. InOffers(a)' = InOffers(a) /\ InOffers(a) \in Int
    BY <1>1, OffersUnchanged, OffersType
  <2>11. Total(a)' = Total(a) + e
    BY <2>4, <2>7, <2>8, <2>9, <2>10 DEF Total
  <2>12. -LargestCharge <= e /\ e <= LargestCharge
    BY <2>4, Largest
  <2> QED BY <2>4, <2>11, <2>12, Small
<1> QED BY <1>2, <1>3 DEF InsertRequest

(* OthersDone *)
LEMMA DoneMoney ==
  ASSUME IInv, IInv', RowsStay, NEW t \in Tasks, OthersDone(t), NEW a \in Assets, NEW alone
  PROVE  Accounted(a, alone)
<1>1. PICK k, j : k = task[t] /\ j = [k EXCEPT !.pc = "commit"]
  OBVIOUS
<1>2. /\ k \in Task /\ TaskOK(k) /\ k.pc = "refund" /\ k.op = "accept" /\ k.asset = "psc"
      /\ k.todo \subseteq DOMAIN requests
  BY <1>1, Known DEF OthersDone, At, TaskOK, AssetFits, OnCourse, KnowsItsRow
<1>3. UNCHANGED <<wallet, locked>> /\ Set(t, j)
  BY <1>1 DEF OthersDone
<1>4. j \in Task /\ j.pc = "commit" /\ j.asset = k.asset /\ Same(j, k)
  BY <1>1, <1>2, AtStep DEF Steps
<1>5. TaskOK(j)
  BY <1>2, <1>4, AcceptFits DEF Same
<1>6. Flight(j, a) = Flight(k, a)
  BY <1>2, <1>4, <1>5, AcceptFlights DEF Same
<1>7. Flight(j, a) - Flight(task[t], a) = 0
  BY <1>1, <1>4, <1>5, <1>6, FlightBounds
<1> QED BY <1>3, <1>4, <1>5, <1>7, Untouched

(* Commit: the money that was paid is no longer in the offer. *)
LEMMA CommitMoney ==
  ASSUME IInv, IInv', RowsStay, NEW t \in Tasks, Commit(t), NEW a \in Assets
  PROVE  Accounted(a, Alone(task[t]))
<1>1. PICK k, j : k = task[t] /\ j = Idle
  OBVIOUS
<1>2. /\ k \in Task /\ TaskOK(k) /\ k.pc = "commit" /\ k.op = "accept" /\ k.asset = "psc"
      /\ j \in Task /\ TaskOK(j) /\ Set(t, j) /\ UNCHANGED wallet
  BY <1>1, Known, IdleFits DEF Commit, At, TaskOK, AssetFits, OnCourse
<1>3. PICK x \in Nat : /\ x <= LargestCharge /\ Flight(k, a) = - x /\ Charged(k.id, a) = x
                       /\ k.id \in DOMAIN requests
  BY <1>2, AcceptFlights
<1>4. Flight(j, a) = 0
  BY <1>1, IdleFlight
<1>5. Flight(j, a) - Flight(task[t], a) = x
  BY <1>1, <1>3, <1>4
<1>6. CASE locked' = locked \ {k.id} /\ UNCHANGED faults
  <2>1. PICK o \in Int : o = - Only(k.id \in locked, x) /\ InOffers(a)' = InOffers(a) + o
    <3>1. InOffers(a)' = InOffers(a) - Only(k.id \in locked, Charged(k.id, a))
      BY <1>3, <1>6, OfferRemoved
    <3> QED BY <1>3, <3>1, OffersType DEF Only
  <2>2. PICK d \in Int : d = o + x /\ d = o + Flight(j, a) - Flight(task[t], a)
    BY <1>1, <1>3, <1>4
  <2>3. -LargestCharge <= d /\ d <= LargestCharge /\ d >= 0
    BY <1>3, <2>1, <2>2, Largest DEF Only
  <2>4. Alone(task[t]) => d = 0
    <3>1. Alone(task[t]) => k.id \in locked
      BY <1>1, <1>2 DEF Alone
    <3> QED BY <1>3, <2>1, <2>2, <3>1 DEF Only
  <2> QED BY <1>2, <2>1, <2>2, <2>3, <2>4, LockMoney
<1>7. CASE Fault /\ StoreUnchanged
  <2>1. UNCHANGED locked /\ faults' # faults
    BY <1>7, Known, FaultCounts DEF StoreUnchanged
  <2>2. PICK d \in Int : d = x /\ d = Flight(j, a) - Flight(task[t], a)
    BY <1>5
  <2>3. -LargestCharge <= d /\ d <= LargestCharge
    BY <1>3, <2>2, Largest
  <2> QED BY <1>2, <2>1, <2>2, <2>3, Untouched
<1> QED BY <1>1, <1>6, <1>7 DEF Commit

(* The end of a purchase, and the sell requests. *)
LEMMA TradeMoney ==
  ASSUME IInv, IInv', NEW t \in Tasks,
         \/ TransferOwnership(t) \/ CancelRequests(t) \/ CompleteSales(t)
         \/ InsertSale(t) \/ SetPriced(t) \/ Unprice(t) \/ RemoveSale(t),
         NEW a \in Assets, NEW alone
  PROVE  Accounted(a, alone)
<1>1. RowsStay
  BY TransferOK, CancelOK, CompleteOK, SaleOK, PricedOK, UnpriceOK, RemoveOK
<1>2. UNCHANGED <<wallet, locked>>
  BY DEF TransferOwnership, CancelRequests, CompleteSales, InsertSale, SetPriced, Unprice, RemoveSale
<1>3. AtRest(task[t])
  BY DEF TransferOwnership, CancelRequests, CompleteSales, InsertSale, SetPriced, Unprice,
         RemoveSale, At, AtRest
<1>4. CASE Set(t, Idle)
  BY <1>1, <1>2, <1>3, <1>4, EndMoney
<1>5. CASE TransferOwnership(t) /\ task[t].op = "buy" /\ Set(t, [task[t] EXCEPT !.pc = "cancel"])
  BY <1>1, <1>2, <1>3, <1>5, OnwardMoney DEF TransferOwnership, At
<1>6. CASE CancelRequests(t)
  <2>1. task[t].op = "buy"
    BY <1>6, Known DEF CancelRequests, At, TaskOK, OnCourse
  <2> QED BY <1>1, <1>2, <1>3, <1>6, <2>1, OnwardMoney DEF CancelRequests, At
<1>7. CASE InsertSale(t) /\ Set(t, [task[t] EXCEPT !.pc = "price"])
  BY <1>1, <1>2, <1>3, <1>7, OnwardMoney DEF InsertSale, At
<1>8. CASE Unprice(t) /\ Set(t, [task[t] EXCEPT !.pc = "unlist"])
  BY <1>1, <1>2, <1>3, <1>8, OnwardMoney DEF Unprice, At
<1>9. TransferOwnership(t) => Set(t, Idle)
        \/ (task[t].op = "buy" /\ Set(t, [task[t] EXCEPT !.pc = "cancel"]))
  BY DEF TransferOwnership
<1>10. InsertSale(t) => Set(t, Idle) \/ Set(t, [task[t] EXCEPT !.pc = "price"])
  BY DEF InsertSale
<1>11. Unprice(t) => Set(t, Idle) \/ Set(t, [task[t] EXCEPT !.pc = "unlist"])
  BY DEF Unprice
<1>12. CompleteSales(t) \/ SetPriced(t) \/ RemoveSale(t) => Set(t, Idle)
  BY DEF CompleteSales, SetPriced, RemoveSale
<1> QED BY <1>4, <1>5, <1>6, <1>7, <1>8, <1>9, <1>10, <1>11, <1>12

-----------------------------------------------------------------------------
(* Accounts of every step *)

LEMMA StepMoney ==
  ASSUME IInv, IInv', NEW t \in Tasks, Step(t), NEW a \in Assets
  PROVE  Accounted(a, Alone(task[t]))
<1>1. PICK alone : alone = Alone(task[t])
  OBVIOUS
<1>2. CASE \/ SendBuyRequest(t) \/ RejectBuyRequest(t) \/ DeleteBuyRequest(t) \/ AcceptBuyRequest(t)
           \/ BuyFromRgb(t) \/ BuyFromUser(t) \/ CreateSellRequest(t) \/ DeleteSellRequest(t)
  <2>1. Begun(t)
    BY <1>2, SendOK, SettlingOK, BuyFromRgbOK, BuyFromUserOK, CreateSellOK, DeleteSellOK
  <2>2. Accounted(a, alone)
    BY <2>1, BegunMoney
  <2> QED BY <1>1, <2>2 DEF Accounted
<1>3. CASE Charge(t) \/ Uncharge(t) \/ Repay(t) \/ PaySeller(t) \/ PayPlatform(t)
  <2>1. Accounted(a, alone)
    BY <1>3, ChargeMoney, UnchargeMoney, RepayMoney, PayMoney, FeeMoney
  <2> QED BY <1>1, <2>1 DEF Accounted
<1>4. CASE InsertRequest(t) \/ RecordLock(t) \/ CloseRequest(t) \/ ReadOthers(t) \/ OthersDone(t)
  <2>1. RowsStay
    BY <1>4, InsertOK, RecordOK, CloseOK, DoneOK DEF ReadOthers, RowsStay
  <2>2. Accounted(a, alone)
    BY <1>4, <2>1, InsertMoney, RecordMoney, CloseMoney, OthersMoney, DoneMoney
  <2> QED BY <1>1, <2>2 DEF Accounted
<1>5. CASE Unpay(t) \/ Release(t) \/ RefundOther(t) \/ Commit(t)
  <2>1. Release(t) \/ RefundOther(t) \/ Commit(t) => RowsStay
    BY ReleaseOK, RefundOK, CommitOK
  <2> QED BY <1>5, <2>1, UnpayMoney, ReleaseMoney, RefundMoney, CommitMoney
<1>6. CASE \/ TransferOwnership(t) \/ CancelRequests(t) \/ CompleteSales(t)
           \/ InsertSale(t) \/ SetPriced(t) \/ Unprice(t) \/ RemoveSale(t)
  <2>1. Accounted(a, alone)
    BY <1>6, TradeMoney
  <2> QED BY <1>1, <2>1 DEF Accounted
<1> QED BY <1>2, <1>3, <1>4, <1>5, <1>6 DEF Step

(* Nothing is in flight when nobody is served. *)
LEMMA NothingInFlight ==
  ASSUME IInv, AllIdle, NEW a \in Assets
  PROVE  InFlight(a) = 0
<1>1. PICK f : f = [t \in Tasks |-> Flight(task[t], a)]
  OBVIOUS
<1>2. ASSUME NEW t \in Tasks PROVE f[t] = 0
  <2>1. PICK k : k = task[t]
    OBVIOUS
  <2>2. k \in Task /\ TaskOK(k) /\ AtRest(k)
    BY <2>1, Known DEF AllIdle, AtRest
  <2>3. Flight(k, a) = 0
    BY <2>2, AtRestFlight
  <2> QED BY <1>1, <2>1, <2>3
<1>3. IsFiniteSet(Tasks) /\ Cardinality(Tasks) \in Nat
  BY BoundsAssumption, FS_CardinalityType
<1>4. PICK z \in Int : z = 0
  OBVIOUS
<1>5. \A t \in Tasks : f[t] = z
  BY <1>2, <1>4
<1>6. SumFunctionOnSet(f, Tasks) = z * Cardinality(Tasks)
  BY <1>3, <1>5, SumConstant
<1> QED BY <1>1, <1>3, <1>4, <1>6 DEF InFlight

(* What one request has in flight is at most two charges. *)
LEMMA OneInFlight ==
  ASSUME IInv, NEW a \in Assets
  PROVE  /\ InFlight(a) \in Int
         /\ OneAtATime => -(2 * LargestCharge) <= InFlight(a) /\ InFlight(a) <= 2 * LargestCharge
<1>1. PICK f : f = [t \in Tasks |-> Flight(task[t], a)]
  OBVIOUS
<1>2. ASSUME NEW t \in Tasks
      PROVE  f[t] \in Int /\ -(2 * LargestCharge) <= f[t] /\ f[t] <= 2 * LargestCharge
  <2>1. PICK k : k = task[t]
    OBVIOUS
  <2>2. k \in Task /\ TaskOK(k)
    BY <2>1, Known
  <2> QED BY <1>1, <2>1, <2>2, FlightBounds, Largest
<1>3. IsFiniteSet(Tasks) /\ \A t \in Tasks : f[t] \in Int
  BY <1>2, BoundsAssumption
<1>4. SumFunctionOnSet(f, Tasks) \in Int
  BY <1>3, SumRemove
<1>5. SumFunctionOnSet(f, {}) = 0
  BY FS_EmptySet, SumRecursion
<1>6. CASE Tasks = {}
  BY <1>1, <1>4, <1>5, <1>6, Largest DEF InFlight
<1>7. ASSUME NEW t \in Tasks, OneAtATime
      PROVE  SumFunctionOnSet(f, Tasks) = f[t]
  <2>1. Tasks \ {t} = {}
    BY <1>7 DEF OneAtATime
  <2>2. SumFunctionOnSet(f, Tasks) = f[t] + SumFunctionOnSet(f, Tasks \ {t})
    BY <1>3, SumRemove
  <2>3. f[t] \in Int
    BY <1>2
  <2> QED BY <1>5, <2>1, <2>2, <2>3
<1> QED BY <1>1, <1>2, <1>4, <1>6, <1>7 DEF InFlight

(* ProcessStops: what was in flight is lost, or was paid twice. *)
LEMMA StopsMoney ==
  ASSUME IInv, IInv', ProcessStops, NEW a \in Assets
  PROVE  Accounted(a, OneAtATime)
<1>1. UNCHANGED <<wallet, locked>> /\ RowsStay /\ faults' # faults
  <2>1. /\ \A i \in DOMAIN requests : i \in DOMAIN requests' /\ requests'[i] = requests[i]
        /\ \A i \in DOMAIN sales : i \in DOMAIN sales'
    BY DEF ProcessStops
  <2>2. faults \in 0..MaxFaults
    BY DEF IInv, TypeOK
  <2> QED BY <2>1, <2>2, FaultCounts DEF ProcessStops, RowsStay
<1>2. InWallets(a)' = InWallets(a) /\ InWallets(a) \in Int
  BY <1>1, WalletsType DEF InWallets
<1>3. InOffers(a)' = InOffers(a) /\ InOffers(a) \in Int
  BY <1>1, OffersUnchanged, OffersType
<1>4. InFlight(a)' = 0
  <2>1. PICK f : f = [t \in Tasks |-> Flight(task[t], a)']
    OBVIOUS
  <2>2. PICK j : j = Idle
    OBVIOUS
  <2>3. j \in Task /\ TaskOK(j) /\ j.pc = "idle"
    BY <2>2, IdleFits
  <2>4. Flight(j, a)' = 0
    BY <2>2, <2>3, <1>1, IdleFlight, FlightKept
  <2>5. \A t \in Tasks : task'[t] = j
    BY <2>2 DEF ProcessStops
  <2>6. PICK z \in Int : z = 0
    OBVIOUS
  <2>7. ASSUME NEW t \in Tasks PROVE f[t] = z
    <3>1. f[t] = Flight(task[t], a)'
      BY <2>1
    <3>2. PICK k : k = task'[t]
      OBVIOUS
    <3>3. f[t] = Flight(k, a)'
      BY <3>1, <3>2 DEF Flight, Coming, Going, Returning, Refunded, DoneWith
    <3>4. k = j
      BY <2>5, <3>2
    <3> QED BY <2>4, <2>6, <3>3, <3>4
  <2>8. IsFiniteSet(Tasks) /\ Cardinality(Tasks) \in Nat
    BY BoundsAssumption, FS_CardinalityType
  <2>9. SumFunctionOnSet(f, Tasks) = z * Cardinality(Tasks)
    BY <2>7, <2>8, SumConstant
  <2> QED BY <2>1, <2>6, <2>8, <2>9 DEF InFlight
<1>5. PICK d \in Int : d = 0 - InFlight(a) /\ Total(a)' = Total(a) + d
  <2>1. InFlight(a) \in Int
    BY OneInFlight
  <2> QED BY <1>2, <1>3, <1>4, <2>1 DEF Total
<1>6. OneAtATime /\ MaxAttempts >= 2 => -Harm <= d /\ d <= Harm
  BY <1>5, OneInFlight, HarmBounds
<1> QED BY <1>1, <1>5, <1>6 DEF Accounted

(* A step without a failure leaves faults as it is. *)
LEMMA FaultsGrow ==
  ASSUME IInv, [Next]_vars
  PROVE  faults' = faults \/ faults' = faults + 1
<1>1. Fault => faults' = faults + 1
  BY DEF Fault
<1>2. ASSUME NEW t, NEW u, NEW a, NEW n, NEW ok, NEW err,
             AddBalance(t, u, a, n, ok, err) \/ DeductBalance(t, u, a, n, ok, err)
      PROVE  faults' = faults \/ faults' = faults + 1
  BY <1>1, <1>2 DEF AddBalance, DeductBalance, Unreliable
<1>3. ASSUME NEW t \in Tasks,
             Charge(t) \/ Uncharge(t) \/ Repay(t) \/ PaySeller(t) \/ Unpay(t) \/ PayPlatform(t)
      PROVE  faults' = faults \/ faults' = faults + 1
  BY <1>1, <1>2, <1>3 DEF Charge, Uncharge, Repay, PaySeller, Unpay, PayPlatform
<1>4. ASSUME NEW t \in Tasks,
             \/ SendBuyRequest(t) \/ RejectBuyRequest(t) \/ DeleteBuyRequest(t)
             \/ AcceptBuyRequest(t) \/ BuyFromRgb(t) \/ BuyFromUser(t)
             \/ CreateSellRequest(t) \/ DeleteSellRequest(t)
      PROVE  faults' = faults
  BY <1>4 DEF SendBuyRequest, RejectBuyRequest, DeleteBuyRequest, AcceptBuyRequest, BuyFromRgb,
              BuyFromUser, CreateSellRequest, DeleteSellRequest, MoneyUnchanged
<1>5. ASSUME NEW t \in Tasks,
             \/ InsertRequest(t) \/ RecordLock(t) \/ Release(t) \/ CloseRequest(t) \/ ReadOthers(t)
             \/ RefundOther(t) \/ OthersDone(t) \/ Commit(t)
      PROVE  faults' = faults \/ faults' = faults + 1
  BY <1>1, <1>5 DEF InsertRequest, RecordLock, Release, CloseRequest, ReadOthers, RefundOther,
                    OthersDone, Commit
<1>6. ASSUME NEW t \in Tasks,
             \/ TransferOwnership(t) \/ CancelRequests(t) \/ CompleteSales(t)
             \/ InsertSale(t) \/ SetPriced(t) \/ Unprice(t) \/ RemoveSale(t)
      PROVE  faults' = faults \/ faults' = faults + 1
  BY <1>1, <1>6 DEF TransferOwnership, CancelRequests, CompleteSales, InsertSale, SetPriced,
                    Unprice, RemoveSale
<1>7. ProcessStops => faults' = faults + 1
  BY <1>1 DEF ProcessStops
<1>8. UNCHANGED vars => faults' = faults
  BY DEF vars
<1> QED BY <1>3, <1>4, <1>5, <1>6, <1>7, <1>8 DEF Next, Step

LEMMA NextMoney ==
  ASSUME IInv, IInv', [Next]_vars, NEW a \in Assets, NEW alone, alone => OneAtATime /\ AllAlone
  PROVE  Accounted(a, alone)
<1>1. CASE UNCHANGED vars
  <2>1. InWallets(a)' = InWallets(a) /\ InWallets(a) \in Int
    BY <1>1, WalletsType DEF InWallets, vars
  <2>2. InOffers(a)' = InOffers(a) /\ InOffers(a) \in Int
    BY <1>1, OffersType DEF InOffers, vars
  <2>3. InFlight(a)' = InFlight(a) /\ InFlight(a) \in Int
    <3>1. PICK f, g : /\ f = [t \in Tasks |-> Flight(task[t], a)]
                      /\ g = [t \in Tasks |-> Flight(task[t], a)']
      OBVIOUS
    <3>2. task' = task /\ requests' = requests
      BY <1>1 DEF vars
    <3>3. \A t \in Tasks : Flight(task[t], a)' = Flight(task[t], a)
      BY <3>2 DEF Flight, Coming, Going, Returning, Refunded, DoneWith
    <3>4. f = g
      BY <3>1, <3>3
    <3> QED BY <3>1, <3>4, OneInFlight DEF InFlight
  <2>4. PICK d \in Int : d = 0 /\ Total(a)' = Total(a) + d
    BY <2>1, <2>2, <2>3 DEF Total
  <2>5. -LargestCharge <= d /\ d <= LargestCharge /\ d >= 0
    BY <2>4, Largest
  <2> QED BY <2>4, <2>5, Small
<1>2. CASE ProcessStops
  <2>1. Accounted(a, OneAtATime)
    BY <1>2, StopsMoney
  <2> QED BY <2>1 DEF Accounted
<1>3. ASSUME NEW t \in Tasks, Step(t) PROVE Accounted(a, alone)
  <2>1. Accounted(a, Alone(task[t]))
    BY <1>3, StepMoney
  <2>2. alone => Alone(task[t])
    BY DEF AllAlone
  <2> QED BY <2>1, <2>2 DEF Accounted
<1> QED BY <1>1, <1>2, <1>3 DEF Next

-----------------------------------------------------------------------------
(* A request that is alone *)

(* What it still knows at its next step the only goroutine knows. *)
LEMMA OneAlone ==
  ASSUME OneAtATime, IInv, NEW t \in Tasks, NEW j \in Task, Set(t, j), Alone(j)'
  PROVE  AllAlone'
<1>1. \A u \in Tasks : task'[u] = j
  BY DEF OneAtATime, Set, IInv, TypeOK
<1> QED BY <1>1 DEF AllAlone, Alone, Live, Refunded

(* A request that settles no offer needs to know nothing. *)
LEMMA OthersAlone ==
  ASSUME OneAtATime, IInv, NEW t \in Tasks, NEW j \in Task, Set(t, j),
         j.op \notin {"accept", "reject", "delete"} \/ j.pc = "idle"
  PROVE  AllAlone'
<1>1. Alone(j)'
  BY DEF Alone
<1> QED BY <1>1, OneAlone

LEMMA IdleAlone ==
  ASSUME OneAtATime, IInv, NEW t \in Tasks, Set(t, Idle)
  PROVE  AllAlone'
<1>1. PICK j : j = Idle
  OBVIOUS
<1> QED BY <1>1, IdleFits, OthersAlone

(* A payment that succeeds arrives. *)
LEMMA Arrives ==
  ASSUME IInv, NEW t, NEW u \in Accounts, NEW w \in Assets, NEW n \in Nat, NEW ok, NEW err,
         AddBalance(t, u, w, n, ok, err), ~ Set(t, err)
  PROVE  Set(t, ok) /\ wallet'[u][w] >= n
<1>1. wallet \in [Accounts -> [Assets -> Nat]]
  BY DEF IInv, TypeOK
<1>2. ASSUME NEW m \in Int, Change(u, w, m) PROVE wallet'[u][w] = wallet[u][w] + m
  BY <1>1, <1>2 DEF Change
<1>3. wallet[u][w] \in Nat
  BY <1>1
<1>4. CASE Set(t, ok) /\ Change(u, w, n)
  BY <1>2, <1>3, <1>4
<1>5. CASE Set(t, ok) /\ \E times \in 2..MaxAttempts : Change(u, w, times * n)
  <2>1. PICK times \in Int : times >= 2 /\ Change(u, w, times * n)
    BY <1>5, BoundsAssumption
  <2>2. PICK y \in Nat : times = y + 1
    <3>1. times - 1 \in Nat /\ times = (times - 1) + 1
      BY <2>1
    <3> QED BY <3>1
  <2>3. times * n = y * n + n /\ y * n \in Nat
    BY <2>2
  <2>4. wallet'[u][w] = wallet[u][w] + (y * n + n)
    BY <1>2, <2>1, <2>3
  <2> QED BY <1>3, <1>5, <2>3, <2>4
<1> QED BY <1>4, <1>5 DEF AddBalance, Unreliable

(* Repay *)
LEMMA RepayAlone ==
  ASSUME OneAtATime, IInv, AllAlone, NEW t \in Tasks, Repay(t)
  PROVE  AllAlone'
<1>1. PICK k, ok, err : k = task[t] /\ ok = RepayDone(k) /\ err = RepayFailed(k)
  OBVIOUS
<1>2. k \in Task /\ TaskOK(k) /\ k.pc = "repay" /\ Alone(k)
  BY <1>1, Known DEF Repay, At, AllAlone
<1>3. /\ ok \in Task /\ Same(ok, k) /\ ok.pc \in {"repay", "release"}
      /\ err = ok \/ err = Idle
  BY <1>1, <1>2, RepayNext
<1>4. Set(t, ok) \/ Set(t, err)
  BY <1>1 DEF Repay, AddBalance, Unreliable, RepayDone, RepayFailed
<1>5. UNCHANGED <<requests, locked>>
  BY DEF Repay, StoreUnchanged
<1>6. Alone(ok)'
  BY <1>2, <1>3, <1>5 DEF Alone, Same, Live, Refunded
<1> QED BY <1>3, <1>4, <1>6, OneAlone, IdleAlone

(* Release *)
LEMMA ReleaseAlone ==
  ASSUME OneAtATime, IInv, AllAlone, NEW t \in Tasks, Release(t)
  PROVE  AllAlone'
<1>1. PICK k, j : k = task[t] /\ j = [k EXCEPT !.pc = "close"]
  OBVIOUS
<1>2. k \in Task /\ TaskOK(k) /\ k.pc = "release" /\ Alone(k)
  BY <1>1, Known DEF Release, At, AllAlone
<1>3. j \in Task /\ j.pc = "close" /\ Same(j, k) /\ Set(t, j)
  BY <1>1, <1>2, AtStep DEF Release, Steps
<1>4. UNCHANGED requests /\ locked \ {Refunded(k)} \subseteq locked'
  BY <1>1 DEF Release
<1>5. k.op = "accept" => Refunded(k) # k.id
  BY <1>2, RefundedRow DEF Alone
<1>6. Alone(j)'
  BY <1>2, <1>3, <1>4, <1>5 DEF Alone, Same, Live
<1> QED BY <1>3, <1>6, OneAlone

(* CloseRequest *)
LEMMA CloseAlone ==
  ASSUME OneAtATime, IInv, AllAlone, NEW t \in Tasks, CloseRequest(t)
  PROVE  AllAlone'
<1>1. PICK k, i : k = task[t] /\ i = Refunded(k)
  OBVIOUS
<1>2. k \in Task /\ TaskOK(k) /\ k.pc = "close" /\ Alone(k) /\ UNCHANGED locked
  BY <1>1, Known DEF CloseRequest, At, AllAlone
<1>3. CASE k.op # "accept"
  BY <1>1, <1>3, IdleAlone DEF CloseRequest
<1>4. CASE k.op = "accept"
  <2>1. PICK j : j = [k EXCEPT !.pc = "refund", !.todo = @ \ {i}]
    OBVIOUS
  <2>2. Set(t, j)
    BY <1>1, <1>4, <2>1 DEF CloseRequest
  <2>3. j \in Task /\ j.pc = "refund" /\ j.op = "accept" /\ j.id = k.id /\ j.todo = k.todo \ {i}
    BY <1>2, <1>4, <2>1 DEF Task
  <2>4. \A x \in DOMAIN requests \ {i} : x \in DOMAIN requests' /\ requests'[x] = requests[x]
    BY <1>1 DEF CloseRequest
  <2>5. k.id \in locked \ k.todo /\ \A x \in k.todo : Live(x)
    BY <1>2, <1>4 DEF Alone
  <2>6. \A x \in j.todo : Live(x)'
    BY <2>3, <2>4, <2>5 DEF Live
  <2>7. Alone(j)'
    BY <1>2, <2>3, <2>5, <2>6 DEF Alone
  <2> QED BY <2>2, <2>3, <2>7, OneAlone
<1> QED BY <1>3, <1>4

(* PaySeller *)
LEMMA PayAlone ==
  ASSUME OneAtATime, IInv, AllAlone, NEW t \in Tasks, PaySeller(t)
  PROVE  AllAlone'
<1>1. PICK k, ok, err : k = task[t] /\ ok = PayDone(k) /\ err = PayFailed(k)
  OBVIOUS
<1>2. /\ k \in Task /\ TaskOK(k) /\ k.pc = "pay" /\ k.seller \in Accounts
      /\ PayAsset(k) \in Assets /\ PayAmount(k) \in Nat
      /\ AddBalance(t, k.seller, PayAsset(k), PayAmount(k), ok, err)
      /\ StoreUnchanged
  BY <1>1, PayCall
<1>3. Alone(k) /\ (Set(t, ok) \/ Set(t, err))
  BY <1>1, <1>2 DEF AllAlone, AddBalance, Unreliable
<1>4. UNCHANGED <<requests, locked>>
  BY <1>2 DEF StoreUnchanged
<1>5. CASE k.op # "accept"
  <2>1. /\ ok \in Task /\ Same(ok, k) /\ err \in Task /\ (Same(err, k) \/ err = Idle)
        /\ k.op \in {"buy", "rgb"}
    BY <1>1, <1>2, <1>5, PayNext
  <2>2. ok.op \notin {"accept", "reject", "delete"} /\ err.op \notin {"accept", "reject", "delete"}
    BY <2>1, IdleFits DEF Same
  <2> QED BY <1>3, <2>1, <2>2, OthersAlone
<1>6. CASE k.op = "accept" /\ k.asset = "psc"
  <2>1. ok \in Task /\ Same(ok, k) /\ ok.pc = "pay" /\ ok.asset = "irr" /\ err = Idle
    BY <1>1, <1>2, <1>6, PayNext
  <2>2. CASE Set(t, err)
    BY <2>1, <2>2, IdleAlone
  <2>3. CASE ~ Set(t, err)
    <3>1. Set(t, ok) /\ wallet'[k.seller][PayAsset(k)] >= PayAmount(k)
      BY <1>2, <2>3, Arrives
    <3>2. wallet'[k.seller]["psc"] >= SellerPayment(k.price["psc"])
      BY <1>6, <3>1 DEF PayAsset, PayAmount
    <3>3. Alone(ok)'
      BY <1>3, <1>2, <1>4, <1>6, <2>1, <3>2 DEF Alone, Same, Live
    <3> QED BY <2>1, <3>1, <3>3, OneAlone
  <2> QED BY <2>2, <2>3
<1>7. CASE k.op = "accept" /\ k.asset # "psc"
  <2>1. k.asset = "irr"
    BY <1>2, <1>7 DEF TaskOK, AssetFits
  <2>2. /\ ok \in Task /\ Same(ok, k) /\ ok.pc = "fee"
        /\ err \in Task /\ Same(err, k) /\ err.pc = "unpay"
    BY <1>1, <1>2, <1>7, <2>1, PayNext
  <2>3. wallet'[k.seller]["psc"] = wallet[k.seller]["psc"]
    <3>1. Called(t, k.seller, "irr", PayAmount(k), ok, err)
      <4>1. PayAmount(k) \in Int /\ PayAsset(k) = "irr"
        BY <1>2, <1>7, <2>1 DEF PayAsset
      <4> QED BY <1>2, <4>1, AddOutcome
    <3> QED BY <1>2, <3>1 DEF Called, IInv, TypeOK, Assets
  <2>4. Alone(ok)' /\ Alone(err)'
    BY <1>2, <1>3, <1>4, <1>7, <2>1, <2>2, <2>3 DEF Alone, Same, Live
  <2> QED BY <1>3, <2>2, <2>4, OneAlone
<1> QED BY <1>5, <1>6, <1>7

(* PayPlatform *)
LEMMA FeeAlone ==
  ASSUME OneAtATime, IInv, AllAlone, NEW t \in Tasks, PayPlatform(t)
  PROVE  AllAlone'
<1>1. PICK k, ok, no : k = task[t] /\ ok = FeeDone(k) /\ no = NoFees(k)
  OBVIOUS
<1>2. /\ k \in Task /\ TaskOK(k) /\ k.pc = "fee" /\ StoreUnchanged
      /\ Set(t, ok) \/ Set(t, no)
  BY <1>1, FeeCall DEF AddBalance, Unreliable
<1>3. /\ ok \in Task /\ Same(ok, k) /\ ok.pc \in {"fee", "others", "own"}
      /\ no \in Task /\ Same(no, k) /\ no.pc \in {"others", "own"}
  BY <1>1, <1>2, FeeNext DEF FeesThen
<1>4. Alone(k) /\ UNCHANGED <<requests, locked>> /\ k.op \in {"buy", "accept"}
  BY <1>1, <1>2, FeeNext DEF AllAlone, StoreUnchanged
<1>5. Alone(ok)' /\ Alone(no)'
  BY <1>2, <1>3, <1>4 DEF Alone, Same, Live
<1> QED BY <1>2, <1>3, <1>5, OneAlone

(* A step of an acceptance on the list of the other offers. *)
LEMMA ListAlone ==
  ASSUME OneAtATime, IInv, AllAlone, NEW t \in Tasks, UNCHANGED <<requests, locked>>,
         task[t].op = "accept", task[t].pc # "idle",
         NEW j \in Task, Set(t, j), j.op = "accept", j.id = task[t].id,
         j.pc \in {"refund", "commit"} \/ (j.pc = "repay" /\ Min(j.todo) \in locked),
         \A i \in j.todo : i # j.id /\ Live(i)
  PROVE  AllAlone'
<1>1. task[t].id \in locked
  BY DEF AllAlone, Alone
<1>2. Alone(j)'
  BY <1>1 DEF Alone, Live, Refunded
<1> QED BY <1>2, OneAlone

(* ReadOthers *)
LEMMA OthersRead ==
  ASSUME OneAtATime, IInv, AllAlone, NEW t \in Tasks, ReadOthers(t)
  PROVE  AllAlone'
<1>1. PICK k : k = task[t]
  OBVIOUS
<1>2. /\ k \in Task /\ TaskOK(k) /\ k.pc = "others" /\ k.op = "accept" /\ Alone(k)
      /\ UNCHANGED <<requests, locked>>
  BY <1>1, Known DEF ReadOthers, At, TaskOK, OnCourse, AllAlone
<1>3. CASE Set(t, [k EXCEPT !.pc = "refund", !.todo = LiveFor(k.feature) \ {k.id}])
  <2>1. LiveFor(k.feature) \subseteq DOMAIN requests /\ DOMAIN requests \subseteq Ids
    BY BoundsAssumption DEF LiveFor, IInv, TypeOK, Ids
  <2>2. PICK j : j = [k EXCEPT !.pc = "refund", !.todo = LiveFor(k.feature) \ {k.id}]
    OBVIOUS
  <2>3. /\ j \in Task /\ j.pc = "refund" /\ j.op = "accept" /\ j.id = k.id
        /\ j.todo = LiveFor(k.feature) \ {k.id}
    BY <1>2, <2>1, <2>2 DEF Task
  <2>4. \A i \in j.todo : i # j.id /\ Live(i)
    BY <2>3 DEF LiveFor
  <2> QED BY <1>1, <1>2, <1>3, <2>2, <2>3, <2>4, ListAlone
<1>4. CASE task' = [task EXCEPT ![t].pc = "refund"]
  <2>1. PICK j : j = [k EXCEPT !.pc = "refund"]
    OBVIOUS
  <2>2. Set(t, j)
    BY <1>1, <1>4, <2>1 DEF Set
  <2>3. j \in Task /\ j.pc = "refund" /\ Same(j, k)
    BY <1>2, <2>1, AtStep DEF Steps
  <2>4. \A i \in j.todo : i # j.id /\ Live(i)
    BY <1>2, <2>3 DEF Alone, Same
  <2> QED BY <1>1, <1>2, <2>2, <2>3, <2>4, ListAlone DEF Same
<1>5. CASE Set(t, Idle)
  BY <1>5, IdleAlone
<1> QED BY <1>1, <1>3, <1>4, <1>5 DEF ReadOthers, Set

(* RefundOther *)
LEMMA RefundAlone ==
  ASSUME OneAtATime, IInv, AllAlone, NEW t \in Tasks, RefundOther(t)
  PROVE  AllAlone'
<1>1. PICK k, i : k = task[t] /\ i = Min(k.todo)
  OBVIOUS
<1>2. /\ k \in Task /\ TaskOK(k) /\ k.pc = "refund" /\ k.op = "accept" /\ Alone(k)
      /\ UNCHANGED <<requests, locked>>
  BY <1>1, Known DEF RefundOther, At, TaskOK, OnCourse, AllAlone
<1>3. CASE i \in locked /\ Set(t, [k EXCEPT !.pc = "repay"])
  <2>1. PICK j : j = [k EXCEPT !.pc = "repay"]
    OBVIOUS
  <2>2. j \in Task /\ j.pc = "repay" /\ Same(j, k)
    BY <1>2, <2>1, AtStep DEF Steps
  <2>3. \A x \in j.todo : x # j.id /\ Live(x)
    BY <1>2, <2>2 DEF Alone, Same
  <2> QED BY <1>1, <1>2, <1>3, <2>1, <2>2, <2>3, ListAlone DEF Same
<1>4. CASE Set(t, [k EXCEPT !.todo = @ \ {i}])
  <2>1. PICK j : j = [k EXCEPT !.todo = @ \ {i}]
    OBVIOUS
  <2>2. j \in Task /\ j.pc = "refund" /\ j.op = "accept" /\ j.id = k.id /\ j.todo = k.todo \ {i}
    BY <1>2, <2>1 DEF Task
  <2>3. \A x \in j.todo : x # j.id /\ Live(x)
    BY <1>2, <2>2 DEF Alone
  <2> QED BY <1>1, <1>2, <1>4, <2>1, <2>2, <2>3, ListAlone
<1>5. CASE Set(t, Idle)
  BY <1>5, IdleAlone
<1> QED BY <1>1, <1>3, <1>4, <1>5 DEF RefundOther

(* OthersDone *)
LEMMA DoneAlone ==
  ASSUME OneAtATime, IInv, AllAlone, NEW t \in Tasks, OthersDone(t)
  PROVE  AllAlone'
<1>1. PICK k, j : k = task[t] /\ j = [k EXCEPT !.pc = "commit"]
  OBVIOUS
<1>2. /\ k \in Task /\ TaskOK(k) /\ k.pc = "refund" /\ k.op = "accept" /\ Alone(k)
      /\ UNCHANGED <<requests, locked>> /\ Set(t, j)
  BY <1>1, Known DEF OthersDone, At, TaskOK, OnCourse, AllAlone
<1>3. j \in Task /\ j.pc = "commit" /\ Same(j, k)
  BY <1>1, <1>2, AtStep DEF Steps
<1>4. \A x \in j.todo : x # j.id /\ Live(x)
  BY <1>2, <1>3 DEF Alone, Same
<1> QED BY <1>1, <1>2, <1>3, <1>4, ListAlone DEF Same

(* The requests that settle no offer. *)
LEMMA UnsettlingAlone ==
  ASSUME OneAtATime, IInv, NEW t \in Tasks,
         NEW pc \in Steps, NEW n \in Nat,
         \/ Set(t, [task[t] EXCEPT !.pc = pc])
         \/ Set(t, [task[t] EXCEPT !.pc = pc, !.id = n]),
         task[t].op \notin {"accept", "reject", "delete"}
  PROVE  AllAlone'
<1>1. PICK k : k = task[t]
  OBVIOUS
<1>2. k \in Task
  BY <1>1, Known
<1>3. PICK j : /\ Set(t, j)
               /\ \/ j = [k EXCEPT !.pc = pc]
                  \/ j = [k EXCEPT !.pc = pc, !.id = n]
  BY <1>1
<1>4. j \in Task /\ j.op \notin {"accept", "reject", "delete"}
  <2>1. CASE j = [k EXCEPT !.pc = pc]
    BY <1>1, <1>2, <2>1, AtStep DEF Same
  <2>2. CASE j = [k EXCEPT !.pc = pc, !.id = n]
    <3>1. j \in Task /\ j.op = k.op
      BY <1>2, <2>2 DEF Task, Steps
    <3> QED BY <1>1, <3>1
  <2> QED BY <1>3, <2>1, <2>2
<1> QED BY <1>3, <1>4, OthersAlone

LEMMA ChargeAlone ==
  ASSUME OneAtATime, IInv, NEW t \in Tasks, Charge(t)
  PROVE  AllAlone'
<1>1. PICK k, ok, err : k = task[t] /\ ok = ChargeDone(k) /\ err = ChargeFailed(k)
  OBVIOUS
<1>2. k \in Task /\ TaskOK(k) /\ k.pc = "charge" /\ k.op \notin {"accept", "reject", "delete"}
  BY <1>1, Known DEF Charge, At, TaskOK, OnCourse
<1>3. Set(t, ok) \/ Set(t, err)
  BY <1>1 DEF Charge, DeductBalance, Unreliable, ChargeDone, ChargeFailed
<1>4. ok \in Task /\ Same(ok, k) /\ err \in Task /\ (Same(err, k) \/ err = Idle)
  BY <1>1, <1>2, ChargeNext
<1>5. ok.op \notin {"accept", "reject", "delete"} /\ err.op \notin {"accept", "reject", "delete"}
  BY <1>2, <1>4, IdleFits DEF Same
<1> QED BY <1>3, <1>4, <1>5, OthersAlone

LEMMA AloneOK ==
  ASSUME OneAtATime, IInv, AllAlone, [Next]_vars
  PROVE  AllAlone'
<1>1. CASE UNCHANGED vars
  BY <1>1 DEF vars, AllAlone, Alone, Live, Refunded
<1>2. CASE ProcessStops
  <2>1. PICK j : j = Idle
    OBVIOUS
  <2>2. \A t \in Tasks : task'[t] = j
    BY <1>2, <2>1 DEF ProcessStops
  <2> QED BY <2>1, <2>2, IdleFits DEF AllAlone, Alone
<1>3. ASSUME NEW t \in Tasks,
             \/ SendBuyRequest(t) \/ RejectBuyRequest(t) \/ DeleteBuyRequest(t)
             \/ AcceptBuyRequest(t) \/ BuyFromRgb(t) \/ BuyFromUser(t)
             \/ CreateSellRequest(t) \/ DeleteSellRequest(t)
      PROVE  AllAlone'
  <2>1. Begun(t)
    BY <1>3, SendOK, SettlingOK, BuyFromRgbOK, BuyFromUserOK, CreateSellOK, DeleteSellOK
  <2>2. PICK k \in Task : Set(t, k) /\ Alone(k)
    BY <2>1 DEF Begun
  <2>3. UNCHANGED <<requests, locked, wallet>>
    BY <2>1 DEF Begun, StoreUnchanged, MoneyUnchanged
  <2>4. Alone(k)'
    BY <2>2, <2>3 DEF Alone, Live, Refunded
  <2> QED BY <2>2, <2>4, OneAlone
<1>4. ASSUME NEW t \in Tasks,
             \/ Uncharge(t) \/ RecordLock(t) \/ Unpay(t) \/ Commit(t)
             \/ CompleteSales(t) \/ SetPriced(t) \/ RemoveSale(t)
      PROVE  AllAlone'
  <2>1. Set(t, Idle)
    BY <1>4 DEF Uncharge, RecordLock, Unpay, Commit, CompleteSales, SetPriced, RemoveSale,
                AddBalance, DeductBalance, Unreliable
  <2> QED BY <2>1, IdleAlone
<1>5. ASSUME NEW t \in Tasks,
             \/ InsertRequest(t) \/ TransferOwnership(t) \/ CancelRequests(t)
             \/ InsertSale(t) \/ Unprice(t)
      PROVE  AllAlone'
  <2>1. task[t].op \notin {"accept", "reject", "delete"}
    BY <1>5, Known DEF InsertRequest, TransferOwnership, CancelRequests, InsertSale, Unprice, At,
                       TaskOK, OnCourse
  <2>2. PICK n \in Nat : n = Len(requests) + 1
    <3>1. requests \in Seq(Request)
      BY DEF IInv, TypeOK
    <3>2. Len(requests) + 1 \in Nat
      BY <3>1
    <3> QED BY <3>2
  <2>3. \/ Set(t, Idle)
        \/ Set(t, [task[t] EXCEPT !.pc = "charge", !.id = n])
        \/ \E pc \in {"cancel", "complete", "price", "unlist"} : Set(t, [task[t] EXCEPT !.pc = pc])
    BY <1>5, <2>2 DEF InsertRequest, TransferOwnership, CancelRequests, InsertSale, Unprice
  <2>4. {"charge", "cancel", "complete", "price", "unlist"} \subseteq Steps
    BY DEF Steps
  <2> QED BY <2>1, <2>3, <2>4, IdleAlone, UnsettlingAlone
<1>6. ASSUME NEW t \in Tasks,
             \/ Charge(t) \/ Repay(t) \/ Release(t) \/ CloseRequest(t) \/ PaySeller(t)
             \/ PayPlatform(t) \/ ReadOthers(t) \/ RefundOther(t) \/ OthersDone(t)
      PROVE  AllAlone'
  BY <1>6, ChargeAlone, RepayAlone, ReleaseAlone, CloseAlone, PayAlone, FeeAlone, OthersRead,
     RefundAlone, DoneAlone
<1> QED BY <1>1, <1>2, <1>3, <1>4, <1>5, <1>6 DEF Next, Step

-----------------------------------------------------------------------------
(* What there is at the start *)

LEMMA InitMoney ==
  ASSUME Init, IInv, NEW a \in Assets
  PROVE  Total(a) = InitialMoney(a) /\ InitialMoney(a) \in Int
<1>1. /\ IsFiniteSet(Accounts) /\ Cardinality(Accounts) \in Nat /\ Funds \in Int
  BY UsersAssumption, PricesAssumption, FS_AddElement, FS_CardinalityType DEF Accounts
<1>2. InWallets(a) = Cardinality(Accounts) * Funds
  <2>1. PICK f : f = [u \in Accounts |-> wallet[u][a]]
    OBVIOUS
  <2>2. \A u \in Accounts : f[u] = Funds
    BY <2>1 DEF Init
  <2>3. SumFunctionOnSet(f, Accounts) = Funds * Cardinality(Accounts)
    BY <1>1, <2>2, SumConstant
  <2> QED BY <1>1, <2>1, <2>3 DEF InWallets
<1>3. /\ InOffers(a) = SumFunctionOnSet(Reserve(InitialRequests, a), DOMAIN InitialRequests)
      /\ InOffers(a) \in Int
  BY OffersType DEF InOffers, Init
<1>4. InFlight(a) = 0
  <2>1. AllIdle
    BY IdleFits DEF Init, AllIdle
  <2> QED BY <2>1, NothingInFlight
<1>5. Cardinality(Accounts) * Funds \in Int
  BY <1>1
<1> QED BY <1>2, <1>3, <1>4, <1>5 DEF Total, InitialMoney

(* InitialMoney is the same at every step. *)
LEMMA InitialType ==
  ASSUME NEW a \in Assets
  PROVE  InitialMoney(a) \in Int
<1>1. Cardinality(Accounts) * Funds \in Int
  BY UsersAssumption, PricesAssumption, FS_AddElement, FS_CardinalityType DEF Accounts
<1>2. PICK f, S : f = Reserve(InitialRequests, a) /\ S = DOMAIN InitialRequests
  OBVIOUS
<1>3. IsFiniteSet(S)
  <2>1. InitialRequests \in Seq(Request)
    BY InitialAssumption
  <2>2. S = 1..Len(InitialRequests) /\ Len(InitialRequests) \in Int
    BY <1>2, <2>1
  <2> QED BY <2>2, FS_Interval
<1>4. \A i \in S : f[i] \in Int
  <2>1. \A i \in S : InitialRequests[i].price \in Prices
    BY <1>2, InitialAssumption DEF Range
  <2>2. a # "color" => a \in {"psc", "irr"}
    BY DEF Assets
  <2>3. \A p \in Prices : a # "color" => p[a] \in Int
    BY <2>2, Largest
  <2> QED BY <1>2, <2>1, <2>3 DEF Reserve, BuyerCharge
<1>5. SumFunctionOnSet(f, S) \in Int
  BY <1>3, <1>4, SumRemove
<1> QED BY <1>1, <1>2, <1>5 DEF InitialMoney

-----------------------------------------------------------------------------
(* Nothing disappears *)

LEMMA TotalType ==
  ASSUME IInv, NEW a \in Assets
  PROVE  Total(a) \in Int
BY WalletsType, OffersType, OneInFlight DEF Total

LEMMA NothingLostOK ==
  ASSUME IInv, IInv', NothingLost, [Next]_vars
  PROVE  NothingLost'
<1> SUFFICES ASSUME faults' = 0, NEW a \in Assets
             PROVE  Total(a)' >= InitialMoney(a)
  BY DEF NothingLost, InitialMoney
<1>1. faults' = faults /\ faults = 0
  BY FaultsGrow DEF IInv, TypeOK
<1>2. PICK no : no = FALSE
  OBVIOUS
<1>3. Accounted(a, no)
  BY <1>2, NextMoney
<1>4. PICK d \in Int : Total(a)' = Total(a) + d /\ d >= 0
  BY <1>1, <1>3 DEF Accounted
<1>5. Total(a) >= InitialMoney(a)
  BY <1>1 DEF NothingLost
<1> QED BY <1>4, <1>5, TotalType, InitialType

(* Whatever requests overlap: when they are done, and while nothing        *)
(* failed, what was taken from the buyers is in wallets or set aside for   *)
(* offers (buyFromUser, SendBuyRequest, AcceptBuyRequest and refunds).     *)
THEOREM NothingIsDestroyed == Spec => []NothingDestroyed
<1>1. Init => IInv /\ NothingLost
  <2>1. ASSUME Init PROVE IInv /\ NothingLost
    BY <2>1, InitOK, InitMoney DEF NothingLost
  <2> QED BY <2>1
<1>2. IInv /\ NothingLost /\ [Next]_vars => (IInv /\ NothingLost)'
  BY NextOK, NothingLostOK
<1>3. IInv /\ NothingLost => NothingDestroyed
  <2> SUFFICES ASSUME IInv, NothingLost, AllIdle, faults = 0, NEW a \in Assets
               PROVE  InWallets(a) + InOffers(a) >= InitialMoney(a)
    BY DEF NothingDestroyed
  <2>1. InFlight(a) = 0
    BY NothingInFlight
  <2>2. Total(a) >= InitialMoney(a)
    BY DEF NothingLost
  <2> QED BY <2>1, <2>2, WalletsType, OffersType DEF Total
<1> QED BY <1>1, <1>2, <1>3, PTL DEF Spec

-----------------------------------------------------------------------------
(* Requests one at a time *)

(* Nothing is paid twice either, while nothing fails. *)
Kept == faults = 0 => \A a \in Assets : Total(a) = InitialMoney(a)

LEMMA AllAloneInit == Init => AllAlone
BY IdleFits DEF Init, AllAlone, Alone

LEMMA KeptOK ==
  ASSUME OneAtATime, IInv, IInv', AllAlone, Kept, [Next]_vars
  PROVE  Kept'
<1> SUFFICES ASSUME faults' = 0, NEW a \in Assets
             PROVE  Total(a)' = InitialMoney(a)
  BY DEF Kept, InitialMoney
<1>1. faults' = faults /\ faults = 0
  BY FaultsGrow DEF IInv, TypeOK
<1>2. PICK yes : yes = TRUE
  OBVIOUS
<1>3. Accounted(a, yes)
  BY <1>2, NextMoney
<1>4. PICK d \in Int : Total(a)' = Total(a) + d /\ d = 0
  BY <1>1, <1>2, <1>3 DEF Accounted
<1>5. Total(a) = InitialMoney(a)
  BY <1>1 DEF Kept
<1> QED BY <1>4, <1>5, TotalType, InitialType

(* A sequence of requests neither creates nor destroys money: the buyer's  *)
(* 105% are the seller's 95% and the platform's 10%, and every refund      *)
(* returns what was taken.                                                 *)
THEOREM MoneyIsConserved ==
  ASSUME OneAtATime
  PROVE  Spec => []Conservation
<1>1. Init => IInv /\ AllAlone /\ Kept
  <2>1. ASSUME Init PROVE IInv /\ AllAlone /\ Kept
    BY <2>1, InitOK, InitMoney, AllAloneInit DEF Kept
  <2> QED BY <2>1
<1>2. IInv /\ AllAlone /\ Kept /\ [Next]_vars => (IInv /\ AllAlone /\ Kept)'
  BY NextOK, AloneOK, KeptOK
<1>3. IInv /\ AllAlone /\ Kept => Conservation
  <2> SUFFICES ASSUME IInv, Kept, AllIdle, faults = 0, NEW a \in Assets
               PROVE  InWallets(a) + InOffers(a) = InitialMoney(a)
    BY DEF Conservation
  <2>1. InFlight(a) = 0
    BY NothingInFlight
  <2>2. Total(a) = InitialMoney(a)
    BY DEF Kept
  <2> QED BY <2>1, <2>2, WalletsType, OffersType DEF Total
<1> QED BY <1>1, <1>2, <1>3, PTL DEF Spec

(* Failures *)
LEMMA HarmGrows ==
  ASSUME OneAtATime, MaxAttempts >= 2, IInv, IInv', AllAlone, HarmSoFar, [Next]_vars
  PROVE  HarmSoFar'
<1> SUFFICES ASSUME NEW a \in Assets
             PROVE  Total(a)' - InitialMoney(a) \in -(faults' * Harm) .. (faults' * Harm)
  BY DEF HarmSoFar, InitialMoney, Harm, LargestCharge
<1>1. PICK yes : yes = TRUE
  OBVIOUS
<1>2. Accounted(a, yes)
  BY <1>1, NextMoney
<1>3. PICK d \in Int : /\ Total(a)' = Total(a) + d
                       /\ faults' = faults => d = 0
                       /\ -Harm <= d /\ d <= Harm
  BY <1>1, <1>2 DEF Accounted
<1>4. PICK H \in Nat, n \in Nat, x \in Int :
        H = Harm /\ n = faults /\ x = Total(a) - InitialMoney(a)
  <2>1. Harm \in Nat
    BY HarmBounds
  <2>2. faults \in Nat
    BY BoundsAssumption DEF IInv, TypeOK
  <2>3. Total(a) - InitialMoney(a) \in Int
    BY TotalType, InitialType
  <2> QED BY <2>1, <2>2, <2>3
<1>5. x \in -(n * H) .. (n * H) /\ n * H \in Nat
  BY <1>4 DEF HarmSoFar
<1>6. Total(a)' - InitialMoney(a) = x + d
  BY <1>3, <1>4, TotalType, InitialType
<1>7. CASE faults' = faults
  <2>1. x + d = x
    BY <1>3, <1>7
  <2> QED BY <1>4, <1>5, <1>6, <1>7, <2>1
<1>8. CASE faults' = n + 1
  <2>1. (n + 1) * H = n * H + H
    BY <1>4
  <2>2. x + d \in -(n * H + H) .. (n * H + H)
    BY <1>3, <1>4, <1>5
  <2> QED BY <1>4, <1>6, <1>8, <2>1, <2>2
<1> QED BY <1>4, <1>7, <1>8, FaultsGrow

(* Every failure of a call or a write, and every stop of the process, does *)
(* bounded harm, whatever requests come after it.                          *)
THEOREM HarmIsLimited ==
  ASSUME OneAtATime, MaxAttempts >= 2
  PROVE  Spec => []HarmIsBounded
<1>1. Init => IInv /\ AllAlone /\ HarmSoFar
  <2>1. ASSUME Init, NEW a \in Assets
        PROVE  Total(a) - InitialMoney(a) \in -(faults * Harm) .. (faults * Harm)
    <3>1. Total(a) - InitialMoney(a) = 0 /\ faults = 0 /\ Harm \in Nat
      BY <2>1, InitOK, InitMoney, HarmBounds DEF Init
    <3> QED BY <3>1
  <2> QED BY <2>1, InitOK, AllAloneInit DEF HarmSoFar
<1>2. IInv /\ AllAlone /\ HarmSoFar /\ [Next]_vars => (IInv /\ AllAlone /\ HarmSoFar)'
  BY NextOK, AloneOK, HarmGrows
<1>3. IInv /\ AllAlone /\ HarmSoFar => HarmIsBounded
  <2>1. ASSUME IInv, HarmSoFar, AllIdle, NEW a \in Assets,
               NEW harm, harm = InWallets(a) + InOffers(a) - InitialMoney(a),
               NEW most, most = faults * MaxAttempts * LargestCharge
        PROVE  harm \in -most .. most
    <3>1. InFlight(a) = 0
      BY <2>1, NothingInFlight
    <3>2. harm = Total(a) - InitialMoney(a)
      <4>1. InWallets(a) \in Int /\ InOffers(a) \in Int /\ InitialMoney(a) \in Int
        BY <2>1, WalletsType, OffersType, InitialType
      <4> QED BY <2>1, <3>1, <4>1 DEF Total
    <3>3. most = faults * Harm
      <4>1. PICK n \in Int, M \in Int, L \in Int : n = faults /\ M = MaxAttempts /\ L = LargestCharge
        <5>1. faults \in Int /\ MaxAttempts \in Int
          BY <2>1, BoundsAssumption DEF IInv, TypeOK
        <5> QED BY <5>1, HarmBounds
      <4>2. n * (M * L) = n * M * L
        OBVIOUS
      <4> QED BY <2>1, <4>1, <4>2 DEF Harm
    <3> QED BY <2>1, <3>2, <3>3 DEF HarmSoFar
  <2> QED BY <2>1 DEF HarmIsBounded
<1> QED BY <1>1, <1>2, <1>3, PTL DEF Spec

-----------------------------------------------------------------------------
(* Where the steps lead *)

LEMMA NoFault ==
  ASSUME IInv, faults' = faults
  PROVE  ~ Fault
BY FaultCounts DEF IInv, TypeOK

(* The calls of the wallet client. *)
CallSteps == {"charge", "uncharge", "record", "pay", "unpay", "fee", "own", "others",
              "repay", "release"}

LEMMA CallStep ==
  ASSUME IInv, NEW t \in Tasks,
         Charge(t) \/ Uncharge(t) \/ Repay(t) \/ PaySeller(t) \/ Unpay(t) \/ PayPlatform(t)
  PROVE  /\ StoreUnchanged
         /\ task[t].pc \in CallSteps
         /\ \E j \in Task :
              /\ Set(t, j)
              /\ \/ j = Idle
                 \/ /\ Same(j, task[t]) /\ (Inserted(j) => Inserted(task[t])) /\ j.pc \in CallSteps
                    /\ j.pc \in {"repay", "release"} => task[t].pc = "repay"
<1>1. PICK k : k = task[t] /\ k \in Task /\ TaskOK(k)
  BY Known
<1>2. StoreUnchanged
  BY DEF Charge, Uncharge, Repay, PaySeller, Unpay, PayPlatform
<1>3. Idle \in Task
  BY IdleFits
<1>4. CASE Charge(t)
  <2>1. PICK ok, err : ok = ChargeDone(k) /\ err = ChargeFailed(k)
    OBVIOUS
  <2>2. k.pc = "charge" /\ (Set(t, ok) \/ Set(t, err))
    BY <1>1, <1>4, <2>1
       DEF Charge, At, DeductBalance, Unreliable, ChargeDone, ChargeFailed
  <2>3. /\ ok \in Task /\ Same(ok, k) /\ (Inserted(ok) => Inserted(k))
        /\ ok.pc \in {"charge", "record", "pay"}
        /\ err = Idle \/ (/\ err \in Task /\ Same(err, k) /\ (Inserted(err) => Inserted(k))
                          /\ err.pc = "uncharge")
    <3>1. k.asset = "irr" \/ k.asset = "psc" \/ k.op = "rgb"
      BY <1>1 DEF TaskOK, AssetFits
    <3> QED BY <1>1, <2>1, <2>2, <3>1, ChargeNext
  <2> QED BY <1>1, <1>2, <1>3, <2>2, <2>3 DEF CallSteps
<1>5. CASE Repay(t)
  <2>1. PICK ok, err : ok = RepayDone(k) /\ err = RepayFailed(k)
    OBVIOUS
  <2>2. k.pc = "repay" /\ (Set(t, ok) \/ Set(t, err))
    BY <1>1, <1>5, <2>1 DEF Repay, At, AddBalance, Unreliable, RepayDone, RepayFailed
  <2>3. /\ ok \in Task /\ Same(ok, k) /\ ~ Inserted(ok) /\ ok.pc \in {"repay", "release"}
        /\ err = ok \/ err = Idle
    BY <1>1, <2>1, <2>2, RepayNext
  <2> QED BY <1>1, <1>2, <1>3, <2>2, <2>3 DEF CallSteps
<1>6. CASE PaySeller(t)
  <2>1. PICK ok, err : ok = PayDone(k) /\ err = PayFailed(k)
    OBVIOUS
  <2>2. k.pc = "pay" /\ (Set(t, ok) \/ Set(t, err))
    BY <1>1, <1>6, <2>1, PayCall DEF AddBalance, Unreliable
  <2>3. /\ ok \in Task /\ Same(ok, k) /\ ~ Inserted(ok) /\ ok.pc \in {"pay", "own", "fee"}
        /\ err = Idle \/ (/\ err \in Task /\ Same(err, k) /\ ~ Inserted(err)
                          /\ err.pc \in {"uncharge", "unpay"})
    <3>1. k.asset = "irr" \/ k.asset = "psc" \/ k.op = "rgb"
      BY <1>1 DEF TaskOK, AssetFits
    <3> QED BY <1>1, <2>1, <2>2, <3>1, PayNext
  <2> QED BY <1>1, <1>2, <1>3, <2>2, <2>3 DEF CallSteps
<1>7. CASE PayPlatform(t)
  <2>1. PICK ok, no : ok = FeeDone(k) /\ no = NoFees(k)
    OBVIOUS
  <2>2. k.pc = "fee" /\ (Set(t, ok) \/ Set(t, no))
    BY <1>1, <1>7, <2>1, FeeCall DEF AddBalance, Unreliable
  <2>3. /\ ok \in Task /\ Same(ok, k) /\ ~ Inserted(ok) /\ ok.pc \in {"fee", "own", "others"}
        /\ no \in Task /\ Same(no, k) /\ ~ Inserted(no) /\ no.pc \in {"own", "others"}
    BY <1>1, <2>1, <2>2, FeeNext DEF FeesThen
  <2> QED BY <1>1, <1>2, <2>2, <2>3 DEF CallSteps
<1>8. CASE Uncharge(t) \/ Unpay(t)
  <2>1. Set(t, Idle) /\ task[t].pc \in CallSteps
    BY <1>8 DEF Uncharge, Unpay, At, AddBalance, DeductBalance, Unreliable, CallSteps
  <2> QED BY <1>2, <1>3, <2>1
<1> QED BY <1>4, <1>5, <1>6, <1>7, <1>8

(* The steps of an acceptance on its list. *)
LEMMA ListStep ==
  ASSUME IInv, faults' = faults, NEW t \in Tasks, ReadOthers(t) \/ RefundOther(t) \/ OthersDone(t)
  PROVE  /\ StoreUnchanged /\ task[t].op = "accept" /\ task[t].pc \in {"others", "refund"}
         /\ \E j \in Task :
              /\ Set(t, j)
              /\ \/ j = Idle
                 \/ /\ j.op = "accept" /\ j.pc \in {"refund", "repay", "commit"}
                    /\ OthersListed(task[t]) => OthersListed(j)
<1>1. PICK k : k = task[t] /\ k \in Task /\ TaskOK(k)
  BY Known
<1>2. StoreUnchanged /\ k.op = "accept" /\ k.pc \in {"others", "refund"}
  BY <1>1 DEF ReadOthers, RefundOther, OthersDone, At, StoreUnchanged, TaskOK, OnCourse
<1>3. Idle \in Task /\ ~ Fault
  BY IdleFits, NoFault
<1>4. CASE ReadOthers(t)
  <2>1. LiveFor(k.feature) \subseteq DOMAIN requests /\ DOMAIN requests \subseteq Ids
    BY BoundsAssumption DEF LiveFor, IInv, TypeOK, Ids
  <2>2. PICK j : j = [k EXCEPT !.pc = "refund", !.todo = LiveFor(k.feature) \ {k.id}]
    OBVIOUS
  <2>3. Set(t, j)
    BY <1>1, <1>3, <1>4, <2>2 DEF ReadOthers
  <2>4. /\ j \in Task /\ j.pc = "refund" /\ j.op = "accept" /\ j.id = k.id
        /\ j.feature = k.feature /\ j.todo = LiveFor(k.feature) \ {k.id}
    BY <1>1, <1>2, <2>1, <2>2 DEF Task
  <2>5. OthersListed(j)
    BY <2>4 DEF OthersListed, LiveFor, Live
  <2> QED BY <1>1, <1>2, <2>3, <2>4, <2>5
<1>5. CASE RefundOther(t)
  <2>1. PICK i : i = Min(k.todo)
    OBVIOUS
  <2>2. \/ Set(t, [k EXCEPT !.pc = "repay"])
        \/ Set(t, Idle)
        \/ i \notin locked /\ Set(t, [k EXCEPT !.todo = @ \ {i}])
    BY <1>1, <1>3, <1>5, <2>1 DEF RefundOther
  <2>3. k.pc = "refund"
    BY <1>1, <1>5 DEF RefundOther, At
  <2>4. CASE Set(t, [k EXCEPT !.pc = "repay"])
    <3>1. PICK j : j = [k EXCEPT !.pc = "repay"]
      OBVIOUS
    <3>2. j \in Task /\ j.pc = "repay" /\ Same(j, k)
      BY <1>1, <3>1, AtStep DEF Steps
    <3>3. OthersListed(k) => OthersListed(j)
      BY <1>2, <2>3, <3>2 DEF OthersListed, Same
    <3> QED BY <1>1, <1>2, <2>4, <3>1, <3>2, <3>3 DEF Same
  <2>5. CASE i \notin locked /\ Set(t, [k EXCEPT !.todo = @ \ {i}])
    <3>1. PICK j : j = [k EXCEPT !.todo = @ \ {i}]
      OBVIOUS
    <3>2. /\ j \in Task /\ j.pc = "refund" /\ j.op = "accept" /\ j.id = k.id
          /\ j.feature = k.feature /\ j.todo = k.todo \ {i}
      BY <1>1, <1>2, <2>3, <3>1 DEF Task
    <3>3. OthersListed(k) => OthersListed(j)
      BY <1>2, <2>3, <2>5, <3>2 DEF OthersListed
    <3> QED BY <1>1, <1>2, <2>5, <3>1, <3>2, <3>3
  <2> QED BY <1>1, <1>2, <1>3, <2>2, <2>4, <2>5
<1>6. CASE OthersDone(t)
  <2>1. PICK j : j = [k EXCEPT !.pc = "commit"]
    OBVIOUS
  <2>2. Set(t, j) /\ k.todo = {} /\ k.pc = "refund"
    BY <1>1, <1>6, <2>1 DEF OthersDone, At
  <2>3. j \in Task /\ j.pc = "commit" /\ Same(j, k)
    BY <1>1, <2>1, AtStep DEF Steps
  <2>4. OthersListed(k) => OthersListed(j)
    BY <1>2, <2>2, <2>3 DEF OthersListed, Same
  <2> QED BY <1>1, <1>2, <2>2, <2>3, <2>4 DEF Same
<1> QED BY <1>4, <1>5, <1>6

(* The steps at the end of a purchase and of the sell requests. *)
LEMMA TradeStep ==
  ASSUME IInv, NEW t \in Tasks,
         \/ TransferOwnership(t) \/ CancelRequests(t) \/ CompleteSales(t)
         \/ InsertSale(t) \/ SetPriced(t) \/ Unprice(t) \/ RemoveSale(t)
  PROVE  /\ task[t].op # "send" /\ task[t].pc # "close"
         /\ \E j \in Task :
              /\ Set(t, j)
              /\ j = Idle \/ (Same(j, task[t]) /\ j.pc \in {"cancel", "complete", "price", "unlist"})
<1>1. PICK k : k = task[t] /\ k \in Task /\ TaskOK(k)
  BY Known
<1>2. k.op # "send" /\ k.pc # "close"
  BY <1>1 DEF TransferOwnership, CancelRequests, CompleteSales, InsertSale, SetPriced, Unprice,
              RemoveSale, At, TaskOK, OnCourse
<1>3. \/ Set(t, Idle)
      \/ \E pc \in {"cancel", "complete", "price", "unlist"} : Set(t, [k EXCEPT !.pc = pc])
  BY <1>1 DEF TransferOwnership, CancelRequests, CompleteSales, InsertSale, SetPriced, Unprice,
              RemoveSale
<1>4. ASSUME NEW pc \in {"cancel", "complete", "price", "unlist"}, NEW j, j = [k EXCEPT !.pc = pc]
      PROVE  j \in Task /\ Same(j, k) /\ j.pc = pc
  BY <1>1, <1>4, AtStep DEF Steps
<1> QED BY <1>1, <1>2, <1>3, <1>4, IdleFits

-----------------------------------------------------------------------------
(* Live offers have their money *)

(* One goroutine: what holds of its next step holds of all of them. *)
LEMMA OneBacked ==
  ASSUME OneAtATime, IInv, NEW t \in Tasks, NEW j \in Task, Set(t, j), Backed(j)'
  PROVE  BackedInv'
<1>1. task \in [Tasks -> Task]
  BY DEF IInv, TypeOK
<1>2. \A u \in Tasks : task'[u] = j
  BY <1>1 DEF OneAtATime, Set
<1> QED BY <1>2 DEF BackedInv, Backed, Affordable, BackedBut, Inserted, Refunded, Live

(* A step that touches neither offers nor locks. *)
LEMMA BackedQuiet ==
  ASSUME NEW k, Backed(k), UNCHANGED <<requests, locked>>, ~ Inserted(k), k.pc # "close",
         NEW j, ~ Inserted(j), j.pc # "close", Affordable(j)'
  PROVE  Backed(j)'
BY DEF Backed, BackedBut, Live

(* The requests that arrive: an offer is made by who can pay for it. *)
LEMMA BegunBacked ==
  ASSUME OneAtATime, NeverOverstates, IInv, NEW t \in Tasks, Begun(t), Backed(task[t])
  PROVE  BackedInv'
<1>1. PICK j \in Task : /\ Set(t, j) /\ TaskOK(j) /\ Informed(j) /\ ~ Inserted(j)
                        /\ j.pc \in {"insert", "charge", "pay", "repay", "list", "unprice"}
  BY DEF Begun
<1>2. UNCHANGED <<requests, locked, wallet>> /\ task[t].pc = "idle"
  BY DEF Begun, StoreUnchanged, MoneyUnchanged
<1>3. Affordable(j)
  <2> SUFFICES ASSUME j.op = "send"
               PROVE  /\ wallet[j.buyer]["psc"] >= BuyerCharge(j.price["psc"])
                      /\ wallet[j.buyer]["irr"] >= BuyerCharge(j.price["irr"])
                      /\ j.pc # "uncharge"
    BY DEF Affordable
  <2>1. ASSUME NEW a \in {"psc", "irr"}
        PROVE  wallet[j.buyer][a] >= BuyerCharge(j.price[a])
    <3>1. PICK n \in Nat : n = wallet[j.buyer][a]
      <4>1. j.buyer \in Accounts /\ wallet \in [Accounts -> [Assets -> Nat]]
        BY Amounts DEF IInv, TypeOK
      <4>2. wallet[j.buyer] \in [Assets -> Nat] /\ a \in Assets
        BY <4>1 DEF Assets
      <4> QED BY <4>2
    <3>2. ParseWallet(n) \in Nat /\ ParseWallet(n) <= n
      BY DEF NeverOverstates
    <3>3. ParseWallet(n) >= BuyerCharge(j.price[a])
      BY <1>1, <3>1 DEF Informed
    <3>4. BuyerCharge(j.price[a]) \in Nat
      BY Amounts DEF BuyerCharge
    <3> QED BY <3>1, <3>2, <3>3, <3>4
  <2> QED BY <1>1, <2>1
<1>4. Affordable(j)'
  BY <1>2, <1>3 DEF Affordable
<1>5. Backed(j)'
  BY <1>1, <1>2, <1>4, BackedQuiet DEF Inserted
<1> QED BY <1>1, <1>5, OneBacked

(* InsertRequest: the new offer is the one that is paid for. *)
LEMMA InsertBacked ==
  ASSUME OneAtATime, IInv, faults' = faults, NEW t \in Tasks, InsertRequest(t), Backed(task[t])
  PROVE  BackedInv'
<1>1. PICK k : k = task[t] /\ k \in Task /\ TaskOK(k) /\ k.pc = "insert"
  BY Known DEF InsertRequest, At
<1>2. k.op = "send" /\ ~ Inserted(k)
  BY <1>1 DEF TaskOK, OnCourse, Inserted
<1>3. k.asset = "psc"
  BY <1>1, <1>2 DEF TaskOK, AssetFits
<1>4. PICK r : r = [feature |-> k.feature, buyer |-> k.buyer, seller |-> k.seller,
                    price |-> k.price, state |-> "pending"]
  OBVIOUS
<1>5. PICK n : n = Len(requests) + 1
  OBVIOUS
<1>6. PICK j : j = [k EXCEPT !.pc = "charge", !.id = n]
  OBVIOUS
<1>7. requests' = Append(requests, r) /\ Set(t, j) /\ UNCHANGED <<locked, wallet>>
  BY <1>1, <1>4, <1>5, <1>6, NoFault DEF InsertRequest
<1>8. r \in Request /\ r.state = "pending"
  BY <1>1, <1>4 DEF Request, Task
<1>9. PICK q : q = requests'
  OBVIOUS
<1>10. /\ DOMAIN q = DOMAIN requests \union {n} /\ n \notin DOMAIN requests /\ n \in Nat
       /\ \A i \in DOMAIN requests : q[i] = requests[i]
       /\ q[n] = r /\ locked \subseteq DOMAIN requests
  <2>1. requests \in Seq(Request) /\ q = Append(requests, r) /\ locked \subseteq DOMAIN requests
    BY <1>7, <1>9 DEF IInv, TypeOK
  <2>2. Len(requests) \in Nat
    BY <2>1
  <2>3. n \in Nat
    BY <1>5, <2>2
  <2> QED BY <1>5, <1>8, <2>1, <2>3, Appended
<1>11. /\ j \in Task /\ j.op = "send" /\ j.pc = "charge" /\ j.id = n /\ j.asset = "psc"
       /\ j.price = k.price /\ j.buyer = k.buyer
  BY <1>1, <1>2, <1>3, <1>6, <1>10 DEF Task
<1>12. Affordable(j)'
  BY <1>1, <1>2, <1>7, <1>11 DEF Backed, Affordable
<1>13. BackedBut(j)'
  <2>1. \A i \in DOMAIN q : q[i].state = "pending" => i \in locked \/ i = n
    BY <1>1, <1>2, <1>10 DEF Backed, BackedBut, Live
  <2>2. \A i \in locked : q[i].state \in {"pending", "cancelled"}
    BY <1>1, <1>10 DEF Backed, BackedBut
  <2>3. n \in DOMAIN q /\ q[n].state = "pending" /\ Inserted(j)
    BY <1>8, <1>10, <1>11 DEF Inserted
  <2> QED BY <1>7, <1>9, <1>11, <2>1, <2>2, <2>3 DEF BackedBut, Live
<1> QED BY <1>7, <1>11, <1>12, <1>13, OneBacked DEF Backed

(* Charge: who can pay is charged, for both assets. *)
LEMMA ChargeBacked ==
  ASSUME OneAtATime, BothPriced, IInv, faults' = faults, NEW t \in Tasks, Charge(t),
         Backed(task[t])
  PROVE  BackedInv'
<1>1. PICK k : k = task[t] /\ k \in Task /\ TaskOK(k) /\ k.pc = "charge"
  BY Known DEF Charge, At
<1>2. UNCHANGED <<requests, locked>>
  BY DEF Charge, StoreUnchanged
<1>3. CASE k.op # "send"
  <2>1. PICK j \in Task : /\ Set(t, j)
                          /\ j = Idle \/ (j.pc # "close" /\ j.op # "send")
    BY <1>1, <1>3, CallStep DEF CallSteps, Same, Inserted
  <2>2. ~ Inserted(j) /\ j.pc # "close" /\ Affordable(j)'
    BY <2>1, IdleFits DEF Affordable, Inserted
  <2>3. Backed(j)'
    BY <1>1, <1>2, <1>3, <2>2, BackedQuiet DEF Inserted
  <2> QED BY <2>1, <2>3, OneBacked
<1>4. CASE k.op = "send"
  <2>1. PICK n \in Nat : n = Due(k)
    BY <1>1, Amounts DEF TaskOK
  <2>2. k.asset \in {"psc", "irr"} /\ k.price \in Prices
    BY <1>1, <1>4 DEF TaskOK, AssetFits, KnowsItsRow
  <2>3. n = BuyerCharge(k.price[k.asset]) /\ n > 0 /\ wallet[k.buyer][k.asset] >= n
    <3>1. n = BuyerCharge(k.price[k.asset])
      BY <1>4, <2>1 DEF Due
    <3>2. wallet[k.buyer][k.asset] >= n
      BY <1>1, <1>4, <2>2, <3>1 DEF Backed, Affordable
    <3>3. k.price.psc > 0 /\ k.price.irr > 0
      BY <2>2 DEF BothPriced
    <3>4. k.price[k.asset] > 0 /\ k.price[k.asset] \in Nat
      BY <1>1, <2>2, <3>3, Amounts
    <3> QED BY <3>1, <3>2, <3>4 DEF BuyerCharge
  <2>4. k.buyer \in Accounts /\ wallet \in [Accounts -> [Assets -> Nat]]
    BY <1>1, Amounts DEF IInv, TypeOK
  <2>5. wallet[k.buyer] \in [Assets -> Nat] /\ k.asset \in Assets
    BY <2>2, <2>4 DEF Assets
  <2>6. ~ (wallet[k.buyer][k.asset] < n \/ n = 0)
    BY <2>3, <2>5
  <2>7. PICK j : j = BothThen(k, "record")
    OBVIOUS
  <2>8. Set(t, j) /\ Change(k.buyer, k.asset, -n)
    BY <1>1, <1>4, <2>1, <2>6, <2>7, NoFault DEF Charge, DeductBalance, Unreliable
  <2>9. /\ j \in Task /\ Same(j, k)
        /\ k.asset = "psc" => j.pc = "charge" /\ j.asset = "irr"
        /\ k.asset # "psc" => j.pc = "record" /\ j.asset = "psc"
    BY <1>1, <2>7, AfterBoth DEF Steps
  <2>10. k.asset = "psc" => wallet'[k.buyer]["irr"] = wallet[k.buyer]["irr"]
    BY <2>4, <2>8 DEF Change, Assets
  <2>11. Affordable(j)'
    <3>1. CASE k.asset = "psc"
      <4>1. wallet[k.buyer]["irr"] >= BuyerCharge(k.price["irr"])
        BY <1>1, <1>4 DEF Backed, Affordable
      <4> QED BY <2>9, <2>10, <3>1, <4>1 DEF Affordable, Same
    <3>2. CASE k.asset # "psc"
      BY <2>9, <3>2 DEF Affordable
    <3> QED BY <3>1, <3>2
  <2>12. BackedBut(j)'
    <3>1. Inserted(k) /\ Inserted(j) /\ j.id = k.id /\ k.pc # "close" /\ j.pc # "close"
      BY <1>1, <1>4, <2>2, <2>9 DEF Inserted, Same
    <3> QED BY <1>1, <1>2, <3>1 DEF Backed, BackedBut, Live
  <2> QED BY <2>8, <2>9, <2>11, <2>12, OneBacked DEF Backed
<1> QED BY <1>3, <1>4

(* The other calls, and the list of an acceptance. *)
LEMMA CallBacked ==
  ASSUME OneAtATime, IInv, faults' = faults, NEW t \in Tasks, Backed(task[t]),
         \/ Uncharge(t) \/ Repay(t) \/ PaySeller(t) \/ Unpay(t) \/ PayPlatform(t)
         \/ ReadOthers(t) \/ RefundOther(t) \/ OthersDone(t)
  PROVE  BackedInv'
<1>1. PICK k : k = task[t] /\ k \in Task /\ TaskOK(k) /\ Backed(k)
  BY Known
<1>2. k.op # "send" /\ k.pc # "close"
  BY <1>1 DEF Uncharge, Repay, PaySeller, Unpay, PayPlatform, ReadOthers, RefundOther, OthersDone,
              At, TaskOK, OnCourse, Backed, Affordable
<1>3. PICK j \in Task : Set(t, j) /\ (j = Idle \/ (j.op # "send" /\ j.pc # "close"))
  <2>1. CASE Uncharge(t) \/ Repay(t) \/ PaySeller(t) \/ Unpay(t) \/ PayPlatform(t)
    <3>1. PICK j \in Task : Set(t, j) /\ (j = Idle \/ (Same(j, k) /\ j.pc \in CallSteps))
      BY <1>1, <2>1, CallStep
    <3>2. j = Idle \/ (j.op # "send" /\ j.pc # "close")
      BY <1>2, <3>1 DEF CallSteps, Same
    <3> QED BY <3>1, <3>2
  <2>2. CASE ReadOthers(t) \/ RefundOther(t) \/ OthersDone(t)
    <3>1. PICK j \in Task : /\ Set(t, j)
                            /\ \/ j = Idle
                               \/ j.op = "accept" /\ j.pc \in {"refund", "repay", "commit"}
      BY <2>2, ListStep
    <3>2. j = Idle \/ (j.op # "send" /\ j.pc # "close")
      BY <3>1
    <3> QED BY <3>1, <3>2
  <2> QED BY <2>1, <2>2
<1>4. UNCHANGED <<requests, locked>>
  BY CallStep, ListStep DEF StoreUnchanged
<1>5. ~ Inserted(j) /\ j.pc # "close" /\ Affordable(j)'
  BY <1>3, IdleFits DEF Inserted, Affordable
<1>6. Backed(j)'
  BY <1>1, <1>2, <1>4, <1>5, BackedQuiet DEF Inserted
<1> QED BY <1>3, <1>6, OneBacked

(* RecordLock: the offer that was paid for is live. *)
LEMMA RecordBacked ==
  ASSUME OneAtATime, IInv, faults' = faults, NEW t \in Tasks, RecordLock(t), Backed(task[t])
  PROVE  BackedInv'
<1>1. PICK k : k = task[t] /\ k \in Task /\ TaskOK(k) /\ k.pc = "record" /\ Backed(k)
  BY Known DEF RecordLock, At
<1>2. Inserted(k)
  BY <1>1 DEF TaskOK, OnCourse, Inserted
<1>3. PICK j : j = Idle /\ j \in Task /\ ~ Inserted(j) /\ j.pc = "idle"
  BY IdleFits
<1>4. locked' = locked \union {k.id} /\ requests' = requests /\ Set(t, j)
  BY <1>1, <1>3, NoFault DEF RecordLock
<1>5. BackedBut(j)'
  BY <1>1, <1>2, <1>3, <1>4 DEF Backed, BackedBut, Live
<1>6. Affordable(j)'
  BY <1>3 DEF Affordable
<1> QED BY <1>3, <1>4, <1>5, <1>6, OneBacked DEF Backed

(* Release: the offer without lock is about to be closed. *)
LEMMA ReleaseBacked ==
  ASSUME OneAtATime, IInv, faults' = faults, NEW t \in Tasks, Release(t), Backed(task[t])
  PROVE  BackedInv'
<1>1. PICK k : k = task[t] /\ k \in Task /\ TaskOK(k) /\ k.pc = "release" /\ Backed(k)
  BY Known DEF Release, At
<1>2. PICK j : j = [k EXCEPT !.pc = "close"]
  OBVIOUS
<1>3. j \in Task /\ j.pc = "close" /\ Same(j, k)
  BY <1>1, <1>2, AtStep DEF Steps
<1>4. k.op # "send" /\ j.op # "send" /\ Refunded(j) = Refunded(k)
  BY <1>1, <1>3 DEF TaskOK, OnCourse, Same, Refunded
<1>5. locked' = locked \ {Refunded(k)} /\ requests' = requests /\ Set(t, j)
  BY <1>1, <1>2, NoFault DEF Release
<1>6. BackedBut(j)'
  <2>1. PICK i : i = Refunded(k)
    OBVIOUS
  <2>2. Refunded(j)' = i /\ locked' = locked \ {i} /\ ~ Inserted(j) /\ ~ Inserted(k)
    BY <1>4, <1>5, <2>1 DEF Refunded, Inserted
  <2> QED BY <1>1, <1>3, <1>5, <2>2 DEF Backed, BackedBut, Live
<1>7. Affordable(j)'
  BY <1>4 DEF Affordable
<1> QED BY <1>3, <1>5, <1>6, <1>7, OneBacked DEF Backed

(* CloseRequest: an offer that lost its lock is no longer live. *)
LEMMA CloseBacked ==
  ASSUME OneAtATime, IInv, faults' = faults, NEW t \in Tasks, CloseRequest(t), Backed(task[t])
  PROVE  BackedInv'
<1>1. PICK k : k = task[t] /\ k \in Task /\ TaskOK(k) /\ k.pc = "close" /\ Backed(k)
  BY Known DEF CloseRequest, At
<1>2. PICK i : i = Refunded(k)
  OBVIOUS
<1>3. i \in DOMAIN requests /\ i \notin locked /\ ~ Inserted(k)
  BY <1>1, <1>2, RefundedRow DEF Backed, BackedBut, Inserted
<1>4. PICK j : j = IF k.op = "accept" THEN [k EXCEPT !.pc = "refund", !.todo = @ \ {i}] ELSE Idle
  OBVIOUS
<1>5. Set(t, j) /\ locked' = locked
  BY <1>1, <1>2, <1>4 DEF CloseRequest
<1>6. j \in Task /\ ~ Inserted(j) /\ j.pc # "close" /\ (j.op = "send" => j.pc = "idle")
  <2>1. CASE k.op = "accept"
    BY <1>1, <1>4, <2>1 DEF Task, Inserted
  <2>2. CASE k.op # "accept"
    BY <1>4, <2>2, IdleFits
  <2> QED BY <2>1, <2>2
<1>7. /\ DOMAIN requests' = DOMAIN requests
      /\ \A x \in DOMAIN requests \ {i} : requests'[x] = requests[x]
      /\ requests'[i].state # "pending"
  <2>1. requests' = [requests EXCEPT ![i] =
               IF k.op = "accept" THEN SoftDelete(@, "refunded")
                                  ELSE [@ EXCEPT !.state = "removed"]]
    BY <1>1, <1>2, NoFault DEF CloseRequest
  <2>2. requests \in Seq(Request) /\ requests[i] \in Request
    <3>1. requests \in Seq(Request)
      BY DEF IInv, TypeOK
    <3> QED BY <1>3, <3>1
  <2>3. PICK r : r = IF k.op = "accept" THEN SoftDelete(requests[i], "refunded")
                                       ELSE [requests[i] EXCEPT !.state = "removed"]
    OBVIOUS
  <2>4. r.state # "pending"
    BY <2>2, <2>3 DEF SoftDelete, Request
  <2>5. requests' = [requests EXCEPT ![i] = r]
    BY <2>1, <2>3
  <2> QED BY <1>3, <2>2, <2>4, <2>5
<1>8. BackedBut(j)'
  <2>1. \A x \in DOMAIN requests' : requests'[x].state = "pending" => x \in locked
    BY <1>1, <1>2, <1>3, <1>7 DEF Backed, BackedBut, Live
  <2>2. locked \subseteq DOMAIN requests
    BY DEF IInv, TypeOK
  <2>3. \A x \in locked : requests'[x].state \in {"pending", "cancelled"}
    BY <1>1, <1>3, <1>7, <2>2 DEF Backed, BackedBut
  <2> QED BY <1>5, <1>6, <2>1, <2>3 DEF BackedBut, Live
<1>9. Affordable(j)'
  BY <1>6 DEF Affordable
<1> QED BY <1>5, <1>6, <1>8, <1>9, OneBacked DEF Backed

(* Commit: the accepted offer is no longer live. *)
LEMMA CommitBacked ==
  ASSUME OneAtATime, IInv, faults' = faults, NEW t \in Tasks, Commit(t), Backed(task[t])
  PROVE  BackedInv'
<1>1. PICK k : k = task[t] /\ k \in Task /\ TaskOK(k) /\ k.pc = "commit" /\ Backed(k)
  BY Known DEF Commit, At
<1>2. k.id \in DOMAIN requests /\ ~ Inserted(k)
  BY <1>1 DEF TaskOK, OnCourse, KnowsItsRow, Settling, Inserted
<1>3. PICK j : j = Idle /\ j \in Task /\ ~ Inserted(j) /\ j.pc = "idle"
  BY IdleFits
<1>4. /\ requests' = [requests EXCEPT ![k.id].state = IF @ = "removed" THEN @ ELSE "accepted"]
      /\ locked' = locked \ {k.id} /\ Set(t, j)
  BY <1>1, <1>3, NoFault DEF Commit
<1>5. /\ DOMAIN requests' = DOMAIN requests
      /\ \A x \in DOMAIN requests \ {k.id} : requests'[x] = requests[x]
      /\ requests'[k.id].state # "pending"
  <2>1. requests \in Seq(Request)
    BY DEF IInv, TypeOK
  <2>2. requests[k.id] \in Request
    BY <1>2, <2>1
  <2>3. PICK r : r = [requests[k.id] EXCEPT !.state = IF @ = "removed" THEN @ ELSE "accepted"]
    OBVIOUS
  <2>4. r.state # "pending"
    BY <2>2, <2>3 DEF Request
  <2>5. requests' = [requests EXCEPT ![k.id] = r]
    BY <1>4, <2>3
  <2> QED BY <1>2, <2>1, <2>4, <2>5
<1>6. BackedBut(j)'
  <2>1. \A x \in DOMAIN requests' : requests'[x].state = "pending" => x \in locked'
    BY <1>1, <1>2, <1>4, <1>5 DEF Backed, BackedBut, Live
  <2>2. locked \subseteq DOMAIN requests
    BY DEF IInv, TypeOK
  <2>3. \A x \in locked' : requests'[x].state \in {"pending", "cancelled"}
    BY <1>1, <1>4, <1>5, <2>2 DEF Backed, BackedBut
  <2> QED BY <1>3, <2>1, <2>3 DEF BackedBut, Live
<1>7. Affordable(j)'
  BY <1>3 DEF Affordable
<1> QED BY <1>3, <1>4, <1>6, <1>7, OneBacked DEF Backed

(* CancelRequests: what is cancelled keeps its lock. *)
LEMMA CancelBacked ==
  ASSUME OneAtATime, IInv, faults' = faults, NEW t \in Tasks, CancelRequests(t), Backed(task[t])
  PROVE  BackedInv'
<1>1. PICK k : /\ k = task[t] /\ k \in Task /\ TaskOK(k) /\ k.pc = "cancel" /\ Backed(k)
               /\ TablesOK
  BY Known DEF CancelRequests, At
<1>2. k.op = "buy" /\ ~ Inserted(k)
  BY <1>1 DEF TaskOK, OnCourse, Inserted
<1>3. PICK j : j = [k EXCEPT !.pc = "complete"]
  OBVIOUS
<1>4. j \in Task /\ j.pc = "complete" /\ Same(j, k)
  BY <1>1, <1>3, AtStep DEF Steps
<1>5. PICK q : q = Cancelled(k.feature)
  OBVIOUS
<1>6. requests' = q /\ locked' = locked /\ Set(t, j)
  BY <1>1, <1>3, <1>5, NoFault DEF CancelRequests, Cancelled
<1>7. /\ DOMAIN q = DOMAIN requests
      /\ \A i \in DOMAIN requests :
           q[i].state = IF requests[i].feature = k.feature /\ requests[i].state = "pending"
                          THEN "cancelled" ELSE requests[i].state
  BY <1>1, <1>5, CancelledRows
<1>8. ~ Inserted(j) /\ j.op # "send" /\ j.pc # "close"
  BY <1>2, <1>4 DEF Inserted, Same
<1>9. BackedBut(j)'
  <2>1. \A i \in DOMAIN q : q[i].state = "pending" => i \in locked
    BY <1>1, <1>2, <1>7 DEF Backed, BackedBut, Live
  <2>2. locked \subseteq DOMAIN requests
    BY DEF IInv, TypeOK
  <2>3. \A i \in locked : q[i].state \in {"pending", "cancelled"}
    BY <1>1, <1>7, <2>2 DEF Backed, BackedBut
  <2> QED BY <1>6, <1>8, <2>1, <2>3 DEF BackedBut, Live
<1>10. Affordable(j)'
  BY <1>8 DEF Affordable
<1> QED BY <1>4, <1>6, <1>9, <1>10, OneBacked DEF Backed

(* The other steps of purchases and sell requests. *)
LEMMA TradeBacked ==
  ASSUME OneAtATime, IInv, NEW t \in Tasks, Backed(task[t]),
         \/ TransferOwnership(t) \/ CompleteSales(t)
         \/ InsertSale(t) \/ SetPriced(t) \/ Unprice(t) \/ RemoveSale(t)
  PROVE  BackedInv'
<1>1. PICK k : k = task[t] /\ k \in Task /\ k.op # "send" /\ k.pc # "close" /\ Backed(k)
  BY Known, TradeStep
<1>2. PICK j \in Task : /\ Set(t, j)
                        /\ \/ j = Idle
                           \/ Same(j, k) /\ j.pc \in {"cancel", "complete", "price", "unlist"}
  BY <1>1, TradeStep
<1>3. UNCHANGED <<requests, locked>>
  BY DEF TransferOwnership, CompleteSales, InsertSale, SetPriced, Unprice, RemoveSale
<1>4. ~ Inserted(j) /\ j.pc # "close" /\ Affordable(j)' /\ ~ Inserted(k)
  BY <1>1, <1>2, IdleFits DEF Inserted, Affordable, Same
<1>5. Backed(j)'
  BY <1>1, <1>3, <1>4, BackedQuiet
<1> QED BY <1>2, <1>5, OneBacked

LEMMA BackedOK ==
  ASSUME OneAtATime, BothPriced, NeverOverstates, IInv, IInv', BackedInv, [Next]_vars
  PROVE  BackedInv'
<1>1. CASE faults' # 0
  BY <1>1 DEF BackedInv
<1>2. CASE UNCHANGED vars
  BY <1>2 DEF vars, BackedInv, Backed, Affordable, BackedBut, Inserted, Refunded, Live
<1>3. CASE faults' = 0 /\ Next
  <2>1. faults' = faults /\ faults = 0 /\ ~ Fault
    BY <1>3, FaultsGrow, NoFault DEF IInv, TypeOK
  <2>2. ~ ProcessStops /\ \A t \in Tasks : Backed(task[t])
    BY <2>1 DEF ProcessStops, BackedInv
  <2>3. PICK t \in Tasks : Step(t)
    BY <1>3, <2>2 DEF Next
  <2>4. CASE \/ SendBuyRequest(t) \/ RejectBuyRequest(t) \/ DeleteBuyRequest(t)
             \/ AcceptBuyRequest(t) \/ BuyFromRgb(t) \/ BuyFromUser(t)
             \/ CreateSellRequest(t) \/ DeleteSellRequest(t)
    <3>1. Begun(t)
      BY <2>4, SendOK, SettlingOK, BuyFromRgbOK, BuyFromUserOK, CreateSellOK, DeleteSellOK
    <3> QED BY <2>2, <3>1, BegunBacked
  <2>5. CASE \/ Uncharge(t) \/ Repay(t) \/ PaySeller(t) \/ Unpay(t) \/ PayPlatform(t)
             \/ ReadOthers(t) \/ RefundOther(t) \/ OthersDone(t)
    BY <2>1, <2>2, <2>5, CallBacked
  <2>6. CASE \/ TransferOwnership(t) \/ CompleteSales(t)
             \/ InsertSale(t) \/ SetPriced(t) \/ Unprice(t) \/ RemoveSale(t)
    BY <2>2, <2>6, TradeBacked
  <2>7. CASE \/ InsertRequest(t) \/ Charge(t) \/ RecordLock(t) \/ Release(t) \/ CloseRequest(t)
             \/ Commit(t) \/ CancelRequests(t)
    BY <2>1, <2>2, <2>7, InsertBacked, ChargeBacked, RecordBacked, ReleaseBacked, CloseBacked,
       CommitBacked, CancelBacked
  <2> QED BY <2>3, <2>4, <2>5, <2>6, <2>7 DEF Step
<1> QED BY <1>1, <1>2, <1>3

(* One request at a time, and nothing failed: a live offer has its money   *)
(* set aside, and nothing is set aside for an offer that was settled.      *)
THEOREM OffersBacked ==
  ASSUME OneAtATime, BothPriced, NeverOverstates
  PROVE  Spec => []OffersAreBacked
<1>1. Init => IInv /\ BackedInv
  <2>1. ASSUME Init PROVE BackedInv
    <3>1. \A i \in DOMAIN requests : requests[i].state = "pending"
      BY <2>1, InitialAssumption DEF Init, Range
    <3>2. locked = DOMAIN requests /\ \A t \in Tasks : task[t] = Idle
      BY <2>1 DEF Init
    <3> QED BY <3>1, <3>2, IdleFits
        DEF BackedInv, Backed, Affordable, BackedBut, Live
  <2> QED BY <2>1, InitOK
<1>2. IInv /\ BackedInv /\ [Next]_vars => (IInv /\ BackedInv)'
  BY NextOK, BackedOK
<1>3. IInv /\ BackedInv => OffersAreBacked
  <2> SUFFICES ASSUME BackedInv, AllIdle, faults = 0, NEW i \in DOMAIN requests
               PROVE  /\ Live(i) => i \in locked
                      /\ i \in locked => requests[i].state \in {"pending", "cancelled"}
    BY DEF OffersAreBacked
  <2>1. PICK t \in Tasks : TRUE
    BY BoundsAssumption
  <2>2. Backed(task[t]) /\ task[t].pc = "idle"
    BY <2>1 DEF BackedInv, AllIdle
  <2> QED BY <2>2 DEF Backed, BackedBut, Inserted
<1> QED BY <1>1, <1>2, <1>3, PTL DEF Spec

-----------------------------------------------------------------------------
(* Who can sell a feature is its owner *)

LEMMA OneNamed ==
  ASSUME OneAtATime, IInv, NEW t \in Tasks, NEW j \in Task, Set(t, j), Named(j)'
  PROVE  NamedInv'
<1>1. task \in [Tasks -> Task]
  BY DEF IInv, TypeOK
<1>2. \A u \in Tasks : task'[u] = j
  BY <1>1 DEF OneAtATime, Set
<1> QED BY <1>2 DEF NamedInv, Named, OwnerKnown, OthersListed, NamedBut, PricedBut, OnSale,
                   Inserted, Live

(* A step that changes nothing but its request. *)
LEMMA NamedKept ==
  ASSUME StoreUnchanged, NEW j, Named(j)
  PROVE  Named(j)'
BY DEF StoreUnchanged, Named, OwnerKnown, OthersListed, NamedBut, PricedBut, OnSale, Live

(* A handler that ends, other than a purchase that closes offers. *)
LEMMA IdleNamed ==
  ASSUME NEW k, NamedBut(k), PricedBut(k), k.pc \notin {"cancel", "complete"}
  PROVE  Named(Idle)
<1>1. OwnerKnown(Idle) /\ OthersListed(Idle)
  BY IdleFits DEF OwnerKnown, OthersListed
<1>2. NamedBut(Idle) /\ PricedBut(Idle)
  BY IdleFits DEF NamedBut, PricedBut
<1> QED BY <1>1, <1>2 DEF Named

(* The requests that arrive. *)
LEMMA BegunNamed ==
  ASSUME OneAtATime, IInv, NEW t \in Tasks, Begun(t), Named(task[t])
  PROVE  NamedInv'
<1>1. PICK k : k = task[t] /\ k.pc = "idle" /\ Named(k)
  BY DEF Begun
<1>2. PICK j \in Task : /\ Set(t, j) /\ Informed(j) /\ ~ Inserted(j) /\ AtRest(j)
                        /\ j.pc \in {"insert", "charge", "pay", "repay", "list", "unprice"}
  BY DEF Begun
<1>3. OwnerKnown(j)
  BY <1>1, <1>2 DEF OwnerKnown, Informed, Named, NamedBut
<1>4. OthersListed(j)
  BY <1>2 DEF OthersListed, AtRest
<1>5. NamedBut(j) /\ PricedBut(j)
  BY <1>1, <1>2 DEF Named, NamedBut, PricedBut, Informed
<1>6. Named(j)' /\ Set(t, j)
  BY <1>2, <1>3, <1>4, <1>5, NamedKept DEF Named, Begun
<1> QED BY <1>6, OneNamed

(* The calls of the wallet client, and the list of an acceptance. *)
LEMMA CallNamed ==
  ASSUME OneAtATime, IInv, faults' = faults, NEW t \in Tasks, Named(task[t]),
         \/ Charge(t) \/ Uncharge(t) \/ Repay(t) \/ PaySeller(t) \/ Unpay(t) \/ PayPlatform(t)
         \/ ReadOthers(t) \/ RefundOther(t) \/ OthersDone(t)
  PROVE  NamedInv'
<1>1. PICK k : k = task[t] /\ Named(k)
  OBVIOUS
<1>2. PICK j \in Task : Set(t, j) /\ Named(j)
  <2>1. CASE \/ Charge(t) \/ Uncharge(t) \/ Repay(t) \/ PaySeller(t) \/ Unpay(t)
             \/ PayPlatform(t)
    <3>1. PICK j \in Task :
            /\ Set(t, j)
            /\ \/ j = Idle
               \/ /\ Same(j, k) /\ (Inserted(j) => Inserted(k)) /\ j.pc \in CallSteps
                  /\ j.pc \in {"repay", "release"} => k.pc = "repay"
      BY <1>1, <2>1, CallStep
    <3>2. k.pc \in CallSteps
      BY <1>1, <2>1, CallStep
    <3>3. CASE j = Idle
      BY <1>1, <3>1, <3>2, <3>3, IdleNamed DEF CallSteps, Named
    <3>4. CASE j # Idle
      <4>1. /\ Same(j, k) /\ (Inserted(j) => Inserted(k)) /\ j.pc \in CallSteps
            /\ j.pc \in {"repay", "release"} => k.pc = "repay"
        BY <3>1, <3>4
      <4>2. OwnerKnown(j)
        BY <1>1, <3>2, <4>1 DEF Named, OwnerKnown, Same, CallSteps
      <4>3. OthersListed(j)
        BY <1>1, <3>2, <4>1 DEF Named, OthersListed, Same, CallSteps
      <4>4. NamedBut(j) /\ PricedBut(j)
        BY <1>1, <3>2, <4>1 DEF Named, NamedBut, PricedBut, Same, CallSteps
      <4> QED BY <3>1, <4>2, <4>3, <4>4 DEF Named
    <3> QED BY <3>3, <3>4
  <2>2. CASE ReadOthers(t) \/ RefundOther(t) \/ OthersDone(t)
    <3>1. PICK j \in Task : /\ Set(t, j)
                            /\ \/ j = Idle
                               \/ /\ j.op = "accept" /\ j.pc \in {"refund", "repay", "commit"}
                                  /\ OthersListed(k) => OthersListed(j)
      BY <1>1, <2>2, ListStep
    <3>2. k.pc \in {"others", "refund"}
      BY <1>1, <2>2, ListStep
    <3>3. CASE j = Idle
      BY <1>1, <3>1, <3>2, <3>3, IdleNamed DEF Named
    <3>4. CASE j # Idle
      <4>1. j.op = "accept" /\ j.pc \in {"refund", "repay", "commit"} /\ OthersListed(j)
        BY <1>1, <3>1, <3>4 DEF Named
      <4>2. OwnerKnown(j) /\ NamedBut(j) /\ PricedBut(j)
        BY <1>1, <3>2, <4>1 DEF Named, OwnerKnown, NamedBut, PricedBut, Inserted
      <4> QED BY <3>1, <4>1, <4>2 DEF Named
    <3> QED BY <3>3, <3>4
  <2> QED BY <2>1, <2>2
<1>3. StoreUnchanged
  BY CallStep, ListStep
<1>4. Named(j)'
  BY <1>2, <1>3, NamedKept
<1> QED BY <1>2, <1>4, OneNamed

(* Features and sellers of the rows. *)
LEMMA OfferRow ==
  ASSUME IInv, NEW i \in DOMAIN requests
  PROVE  requests[i].feature \in Features /\ requests[i].buyer \in Users
<1>1. requests \in Seq(Request)
  BY DEF IInv, TypeOK
<1>2. requests[i] \in Request
  BY <1>1
<1> QED BY <1>2 DEF Request

LEMMA SaleRow ==
  ASSUME IInv, NEW i \in DOMAIN sales
  PROVE  sales[i].seller \in Users /\ sales[i].feature \in Features
<1>1. sales \in Seq(Sale)
  BY DEF IInv, TypeOK
<1>2. sales[i] \in Sale
  BY <1>1
<1> QED BY <1>2 DEF Sale

(* InsertRequest: the new row names the owner. *)
LEMMA InsertNamed ==
  ASSUME OneAtATime, IInv, faults' = faults, NEW t \in Tasks, InsertRequest(t), Named(task[t])
  PROVE  NamedInv'
<1>1. PICK k : k = task[t] /\ k \in Task /\ TaskOK(k) /\ k.pc = "insert" /\ Named(k)
  BY Known DEF InsertRequest, At
<1>2. k.op = "send"
  BY <1>1 DEF TaskOK, OnCourse
<1>3. PICK r : r = [feature |-> k.feature, buyer |-> k.buyer, seller |-> k.seller,
                    price |-> k.price, state |-> "pending"]
  OBVIOUS
<1>4. PICK n : n = Len(requests) + 1
  OBVIOUS
<1>5. PICK j : j = [k EXCEPT !.pc = "charge", !.id = n]
  OBVIOUS
<1>6. /\ requests' = Append(requests, r) /\ Set(t, j)
      /\ UNCHANGED <<owner, limited, priced, sales, locked>>
  BY <1>1, <1>3, <1>4, <1>5, NoFault DEF InsertRequest
<1>7. r \in Request /\ r.feature = k.feature /\ r.seller = k.seller
  BY <1>1, <1>3 DEF Request, Task
<1>8. PICK q : q = requests'
  OBVIOUS
<1>9. /\ DOMAIN q = DOMAIN requests \union {n} /\ n \in Nat
      /\ \A i \in DOMAIN requests : q[i] = requests[i]
      /\ q[n] = r /\ locked \subseteq DOMAIN requests
  <2>1. requests \in Seq(Request) /\ q = Append(requests, r) /\ locked \subseteq DOMAIN requests
    BY <1>6, <1>8 DEF IInv, TypeOK
  <2>2. Len(requests) \in Nat
    BY <2>1
  <2>3. n \in Nat
    BY <1>4, <2>2
  <2> QED BY <1>4, <1>7, <2>1, <2>3, Appended
<1>10. /\ j \in Task /\ j.op = "send" /\ j.pc = "charge" /\ j.id = n
       /\ j.seller = k.seller /\ j.feature = k.feature
  BY <1>1, <1>2, <1>5, <1>9 DEF Task
<1>11. k.seller = owner[k.feature]
  BY <1>1, <1>2 DEF Named, OwnerKnown
<1>12. OwnerKnown(j)' /\ OthersListed(j)'
  BY <1>6, <1>7, <1>8, <1>9, <1>10, <1>11 DEF OwnerKnown, OthersListed
<1>13. NamedBut(j)'
  <2>1. \A f \in limited : owner[f] = Rgb
    BY <1>1 DEF Named, NamedBut
  <2>2. \A i \in locked : q[i].state = "pending" => q[i].seller \in {owner[q[i].feature], Rgb}
    BY <1>1, <1>9 DEF Named, NamedBut, Live
  <2>3. \A i \in DOMAIN sales : sales[i].state = "open" => sales[i].seller = owner[sales[i].feature]
    BY <1>1 DEF Named, NamedBut
  <2> QED BY <1>6, <1>8, <2>1, <2>2, <2>3 DEF NamedBut, Live
<1>14. PricedBut(j)'
  BY <1>1, <1>6, <1>10 DEF Named, PricedBut, OnSale
<1> QED BY <1>6, <1>10, <1>12, <1>13, <1>14, OneNamed DEF Named

(* RecordLock: the offer that can now be accepted names the owner. *)
LEMMA RecordNamed ==
  ASSUME OneAtATime, IInv, faults' = faults, NEW t \in Tasks, RecordLock(t), Named(task[t])
  PROVE  NamedInv'
<1>1. PICK k : k = task[t] /\ k \in Task /\ TaskOK(k) /\ k.pc = "record" /\ Named(k)
  BY Known DEF RecordLock, At
<1>2. k.op = "send" /\ Inserted(k)
  BY <1>1 DEF TaskOK, OnCourse, Inserted
<1>3. PICK j : j = Idle
  OBVIOUS
<1>4. /\ locked' = locked \union {k.id} /\ Set(t, j)
      /\ UNCHANGED <<owner, limited, priced, sales, requests>>
  BY <1>1, <1>3, NoFault DEF RecordLock
<1>5. requests[k.id].seller = owner[requests[k.id].feature]
  BY <1>1, <1>2 DEF Named, OwnerKnown
<1>6. NamedBut(j)'
  <2>1. \A f \in limited : owner[f] = Rgb
    BY <1>1 DEF Named, NamedBut
  <2>2. \A i \in locked' : Live(i) => requests[i].seller \in {owner[requests[i].feature], Rgb}
    BY <1>1, <1>4, <1>5 DEF Named, NamedBut
  <2>3. \A i \in DOMAIN sales : sales[i].state = "open" => sales[i].seller = owner[sales[i].feature]
    BY <1>1 DEF Named, NamedBut
  <2> QED BY <1>4, <2>1, <2>2, <2>3 DEF NamedBut, Live
<1>7. OwnerKnown(j)' /\ OthersListed(j)' /\ PricedBut(j)'
  BY <1>1, <1>3, <1>4, IdleFits DEF Named, OwnerKnown, OthersListed, PricedBut, OnSale
<1> QED BY <1>3, <1>4, <1>6, <1>7, IdleFits, OneNamed DEF Named

(* Release *)
LEMMA ReleaseNamed ==
  ASSUME OneAtATime, IInv, faults' = faults, NEW t \in Tasks, Release(t), Named(task[t])
  PROVE  NamedInv'
<1>1. PICK k : k = task[t] /\ k \in Task /\ TaskOK(k) /\ k.pc = "release" /\ Named(k)
  BY Known DEF Release, At
<1>2. PICK j : j = [k EXCEPT !.pc = "close"]
  OBVIOUS
<1>3. j \in Task /\ j.pc = "close" /\ Same(j, k)
  BY <1>1, <1>2, AtStep DEF Steps
<1>4. /\ locked' \subseteq locked /\ Set(t, j)
      /\ UNCHANGED <<owner, limited, priced, sales, requests>>
  BY <1>1, <1>2, NoFault DEF Release
<1>5. j.op \in {"accept", "reject", "delete"}
  BY <1>1, <1>3 DEF TaskOK, OnCourse, Same
<1>6. OwnerKnown(j)'
  BY <1>5 DEF OwnerKnown, Inserted
<1>7. OthersListed(j)'
  <2>1. j.op = "accept" => \A i \in locked' : Live(i) /\ requests[i].feature = j.feature =>
                             i \in j.todo \union {j.id}
    BY <1>1, <1>3, <1>4 DEF Named, OthersListed, Same
  <2> QED BY <1>3, <1>4, <2>1 DEF OthersListed, Live
<1>8. NamedBut(j)'
  <2>1. /\ \A f \in limited : owner[f] = Rgb
        /\ \A i \in DOMAIN sales : sales[i].state = "open" => sales[i].seller = owner[sales[i].feature]
    BY <1>1 DEF Named, NamedBut
  <2>2. \A i \in locked' : Live(i) => requests[i].seller \in {owner[requests[i].feature], Rgb}
    BY <1>1, <1>4 DEF Named, NamedBut
  <2> QED BY <1>4, <2>1, <2>2 DEF NamedBut, Live
<1>9. PricedBut(j)'
  BY <1>1, <1>3, <1>4, <1>5 DEF Named, PricedBut, OnSale
<1> QED BY <1>3, <1>4, <1>6, <1>7, <1>8, <1>9, OneNamed DEF Named

(* CloseRequest *)
LEMMA CloseNamed ==
  ASSUME OneAtATime, IInv, faults' = faults, NEW t \in Tasks, CloseRequest(t), Named(task[t])
  PROVE  NamedInv'
<1>1. PICK k : k = task[t] /\ k \in Task /\ TaskOK(k) /\ k.pc = "close" /\ Named(k)
  BY Known DEF CloseRequest, At
<1>2. PICK i : i = Refunded(k)
  OBVIOUS
<1>3. i \in DOMAIN requests /\ k.op \in {"accept", "reject", "delete"}
  BY <1>1, <1>2, RefundedRow
<1>4. PICK j : j = IF k.op = "accept" THEN [k EXCEPT !.pc = "refund", !.todo = @ \ {i}] ELSE Idle
  OBVIOUS
<1>5. Set(t, j) /\ UNCHANGED <<owner, limited, priced, sales, locked>>
  BY <1>1, <1>2, <1>4 DEF CloseRequest
<1>6. \/ /\ k.op = "accept" /\ j.op = "accept" /\ j.pc = "refund" /\ j.feature = k.feature
         /\ j.id = k.id /\ j.todo = k.todo \ {i} /\ j \in Task
      \/ j = Idle /\ j \in Task
  <2>1. CASE k.op = "accept"
    <3>1. j = [k EXCEPT !.pc = "refund", !.todo = @ \ {i}]
      BY <1>4, <2>1
    <3>2. /\ j.op = "accept" /\ j.pc = "refund" /\ j.feature = k.feature
          /\ j.id = k.id /\ j.todo = k.todo \ {i} /\ j \in Task
      BY <1>1, <2>1, <3>1 DEF Task
    <3> QED BY <2>1, <3>2
  <2>2. CASE k.op # "accept"
    BY <1>4, <2>2, IdleFits
  <2> QED BY <2>1, <2>2
<1>7. PICK q : q = requests'
  OBVIOUS
<1>8. /\ DOMAIN q = DOMAIN requests
      /\ \A x \in DOMAIN requests : x # i => q[x] = requests[x]
      /\ q[i].state # "pending" /\ locked \subseteq DOMAIN requests
  <2>1. q = [requests EXCEPT ![i] =
               IF k.op = "accept" THEN SoftDelete(@, "refunded")
                                  ELSE [@ EXCEPT !.state = "removed"]]
    BY <1>1, <1>2, <1>7, NoFault DEF CloseRequest
  <2>2. requests \in Seq(Request) /\ requests[i] \in Request /\ locked \subseteq DOMAIN requests
    <3>1. requests \in Seq(Request) /\ locked \subseteq DOMAIN requests
      BY DEF IInv, TypeOK
    <3> QED BY <1>3, <3>1
  <2>3. PICK r : r = IF k.op = "accept" THEN SoftDelete(requests[i], "refunded")
                                       ELSE [requests[i] EXCEPT !.state = "removed"]
    OBVIOUS
  <2>4. r.state # "pending"
    BY <2>2, <2>3 DEF SoftDelete, Request
  <2>5. q = [requests EXCEPT ![i] = r]
    BY <2>1, <2>3
  <2> QED BY <1>3, <2>2, <2>4, <2>5
<1>9. OwnerKnown(j)'
  BY <1>6, IdleFits DEF OwnerKnown, Inserted
<1>10. OthersListed(j)'
  <2>1. CASE j.op = "accept" /\ j.pc = "refund"
    <3>1. \A x \in locked : q[x].state = "pending" /\ q[x].feature = j.feature =>
            x \in j.todo \union {j.id}
      BY <1>1, <1>6, <1>8, <2>1, IdleFits DEF Named, OthersListed, Live
    <3> QED BY <1>5, <1>7, <2>1, <3>1 DEF OthersListed, Live
  <2>2. CASE j = Idle
    BY <2>2, IdleFits DEF OthersListed
  <2> QED BY <1>6, <2>1, <2>2
<1>11. NamedBut(j)'
  <2>1. /\ \A f \in limited : owner[f] = Rgb
        /\ \A x \in DOMAIN sales : sales[x].state = "open" => sales[x].seller = owner[sales[x].feature]
    BY <1>1 DEF Named, NamedBut
  <2>2. \A x \in locked : q[x].state = "pending" => q[x].seller \in {owner[q[x].feature], Rgb}
    BY <1>1, <1>8 DEF Named, NamedBut, Live
  <2> QED BY <1>5, <1>7, <2>1, <2>2 DEF NamedBut, Live
<1>12. PricedBut(j)'
  BY <1>1, <1>5, <1>6, IdleFits DEF Named, PricedBut, OnSale
<1> QED BY <1>5, <1>6, <1>9, <1>10, <1>11, <1>12, OneNamed DEF Named

(* What a sale leaves on sale are other features. *)
LEMMA CompletedSales ==
  ASSUME IInv, NEW f, NEW s, s = Completed(f)
  PROVE  /\ DOMAIN s = DOMAIN sales
         /\ \A i \in DOMAIN sales : s[i].feature = sales[i].feature /\ s[i].seller = sales[i].seller
         /\ \A i \in DOMAIN sales : s[i].state = "open" =>
              sales[i].state = "open" /\ sales[i].feature # f
         /\ \A i \in DOMAIN sales : sales[i].feature # f => s[i].state = sales[i].state
<1>1. /\ DOMAIN s = DOMAIN sales
      /\ \A i \in DOMAIN sales : s[i].feature = sales[i].feature /\ s[i].seller = sales[i].seller
  <2>1. TablesOK
    BY DEF IInv, TypeOK, TablesOK
  <2> QED BY <2>1, CompletedRows
<1>2. ASSUME NEW i \in DOMAIN sales
      PROVE  /\ s[i].state = "open" => sales[i].state = "open" /\ sales[i].feature # f
             /\ sales[i].feature # f => s[i].state = sales[i].state
  <2>1. sales[i] \in Sale
    <3>1. sales \in Seq(Sale)
      BY DEF IInv, TypeOK
    <3> QED BY <3>1
  <2>2. s[i] = IF sales[i].feature = f /\ sales[i].state = "open"
                 THEN [sales[i] EXCEPT !.state = "completed"] ELSE sales[i]
    BY DEF Completed
  <2>3. [sales[i] EXCEPT !.state = "completed"].state = "completed"
    BY <2>1 DEF Sale
  <2> QED BY <2>2, <2>3
<1> QED BY <1>1, <1>2

(* Commit: whoever can still sell is not concerned. *)
LEMMA CommitNamed ==
  ASSUME OneAtATime, IInv, faults' = faults, NEW t \in Tasks, Commit(t), Named(task[t])
  PROVE  NamedInv'
<1>1. PICK k : k = task[t] /\ k \in Task /\ TaskOK(k) /\ k.pc = "commit" /\ Named(k)
  BY Known DEF Commit, At
<1>2. k.op = "accept"
  BY <1>1 DEF TaskOK, OnCourse
<1>3. PICK f, s : f = k.feature /\ s = Completed(f) /\ f \in Features
  BY <1>1 DEF Task
<1>4. PICK j : j = Idle
  OBVIOUS
<1>5. /\ owner' = [owner EXCEPT ![f] = k.buyer]
      /\ limited' = limited \ {f} /\ priced' = priced \ {f} /\ sales' = s
      /\ requests' = [requests EXCEPT ![k.id].state = IF @ = "removed" THEN @ ELSE "accepted"]
      /\ locked' = locked \ {k.id} /\ Set(t, j)
  BY <1>1, <1>3, <1>4, NoFault DEF Commit, NotPriced
<1>6. \A g \in Features : g # f => owner'[g] = owner[g]
  BY <1>5 DEF IInv, TypeOK
<1>7. /\ DOMAIN requests' = DOMAIN requests
      /\ \A x \in DOMAIN requests \ {k.id} : requests'[x] = requests[x]
      /\ locked \subseteq DOMAIN requests
  <2>1. requests \in Seq(Request) /\ locked \subseteq DOMAIN requests
    BY DEF IInv, TypeOK
  <2>2. PICK r : r = [requests[k.id] EXCEPT !.state = IF @ = "removed" THEN @ ELSE "accepted"]
    OBVIOUS
  <2>3. requests' = [requests EXCEPT ![k.id] = r]
    BY <1>5, <2>2
  <2> QED BY <2>1, <2>3
<1>8. NamedBut(j)'
  <2>1. \A g \in limited' : owner'[g] = Rgb
    BY <1>1, <1>5, <1>6, UsersAssumption DEF Named, NamedBut, IInv, TypeOK
  <2>2. ASSUME NEW i \in locked', Live(i)'
        PROVE  requests'[i].seller \in {owner'[requests'[i].feature], Rgb}
    <3>1. i \in locked /\ i # k.id /\ requests'[i] = requests[i] /\ Live(i)
      BY <1>5, <1>7, <2>2 DEF Live
    <3>2. requests[i].feature # f
      BY <1>1, <1>2, <1>3, <3>1 DEF Named, OthersListed
    <3>3. requests[i].seller \in {owner[requests[i].feature], Rgb}
      BY <1>1, <3>1 DEF Named, NamedBut
    <3>4. requests[i].feature \in Features
      BY <1>7, <3>1, OfferRow
    <3> QED BY <1>6, <3>1, <3>2, <3>3, <3>4
  <2>3. ASSUME NEW i \in DOMAIN sales', sales'[i].state = "open"
        PROVE  sales'[i].seller = owner'[sales'[i].feature]
    <3>1. /\ i \in DOMAIN sales /\ sales[i].state = "open" /\ sales[i].feature # f
          /\ sales'[i].feature = sales[i].feature /\ sales'[i].seller = sales[i].seller
      BY <1>3, <1>5, <2>3, CompletedSales
    <3>2. sales[i].seller = owner[sales[i].feature]
      BY <1>1, <3>1 DEF Named, NamedBut
    <3> QED BY <1>6, <3>1, <3>2, SaleRow
  <2> QED BY <2>1, <2>2, <2>3 DEF NamedBut
<1>9. PricedBut(j)'
  <2>1. ASSUME NEW g \in priced' PROVE OnSale(g)'
    <3>1. g \in priced /\ g # f
      BY <1>5
    <3>2. PICK i \in DOMAIN sales : sales[i].feature = g /\ sales[i].state = "open"
      BY <1>1, <3>1 DEF Named, PricedBut, OnSale
    <3>3. i \in DOMAIN s /\ s[i].feature = g /\ s[i].state = "open"
      BY <1>3, <3>1, <3>2, CompletedSales
    <3> QED BY <1>5, <3>3 DEF OnSale
  <2> QED BY <1>4, <2>1, IdleFits DEF PricedBut
<1>10. OwnerKnown(j)' /\ OthersListed(j)'
  BY <1>4, IdleFits DEF OwnerKnown, OthersListed
<1> QED BY <1>4, <1>5, <1>8, <1>9, <1>10, IdleFits, OneNamed DEF Named

(* TransferOwnership: what named the old owner is about to be closed, and  *)
(* nothing names the platform but what may.                                *)
LEMMA TransferNamed ==
  ASSUME OneAtATime, IInv, faults' = faults, NEW t \in Tasks, TransferOwnership(t), Named(task[t])
  PROVE  NamedInv'
<1>1. PICK k : k = task[t] /\ k \in Task /\ TaskOK(k) /\ k.pc = "own" /\ Named(k)
  BY Known DEF TransferOwnership, At
<1>2. k.op \in {"buy", "rgb"}
  BY <1>1 DEF TaskOK, OnCourse
<1>3. PICK f : f = k.feature /\ f \in Features
  BY <1>1 DEF Task
<1>4. PICK j : j = IF k.op = "buy" THEN [k EXCEPT !.pc = "cancel"] ELSE Idle
  OBVIOUS
<1>5. /\ owner' = [owner EXCEPT ![f] = k.buyer]
      /\ limited' = limited \ {f} /\ priced' = priced \ {f} /\ Set(t, j)
      /\ UNCHANGED <<sales, requests, locked>>
  BY <1>1, <1>3, <1>4, NoFault DEF TransferOwnership, NotPriced
<1>6. \A g \in Features : g # f => owner'[g] = owner[g]
  BY <1>5 DEF IInv, TypeOK
<1>7. \/ k.op = "buy" /\ j.op = "buy" /\ j.pc = "cancel" /\ j.feature = f /\ j \in Task
      \/ k.op = "rgb" /\ j = Idle /\ j \in Task
  <2>1. CASE k.op = "buy"
    <3>1. j = [k EXCEPT !.pc = "cancel"]
      BY <1>4, <2>1
    <3>2. j \in Task /\ j.pc = "cancel" /\ Same(j, k)
      BY <1>1, <3>1, AtStep DEF Steps
    <3> QED BY <1>3, <2>1, <3>2 DEF Same
  <2>2. CASE k.op = "rgb"
    BY <1>4, <2>2, IdleFits
  <2> QED BY <1>2, <2>1, <2>2
<1>8. OwnerKnown(j)' /\ OthersListed(j)'
  BY <1>7, IdleFits DEF OwnerKnown, OthersListed, Inserted
<1>9. NamedBut(j)'
  <2>1. \A g \in limited' : owner'[g] = Rgb
    BY <1>1, <1>5, <1>6, UsersAssumption DEF Named, NamedBut, IInv, TypeOK
  <2>2. k.op = "rgb" => owner[f] = Rgb
    BY <1>1, <1>3 DEF Named, OwnerKnown
  <2>3. ASSUME NEW i \in locked, Live(i)
        PROVE  \/ requests[i].seller \in {owner'[requests[i].feature], Rgb}
               \/ j.pc = "cancel" /\ requests[i].feature = j.feature
    <3>1. requests[i].seller \in {owner[requests[i].feature], Rgb}
      BY <1>1, <2>3 DEF Named, NamedBut
    <3>2. requests[i].feature \in Features
      BY <2>3, OfferRow DEF Live
    <3>3. CASE requests[i].feature # f
      BY <1>6, <3>1, <3>2, <3>3
    <3>4. CASE requests[i].feature = f
      BY <1>7, <2>2, <3>1, <3>4
    <3> QED BY <3>3, <3>4
  <2>4. ASSUME NEW i \in DOMAIN sales, sales[i].state = "open"
        PROVE  \/ sales[i].seller = owner'[sales[i].feature]
               \/ j.pc \in {"cancel", "complete"} /\ sales[i].feature = j.feature
    <3>1. sales[i].seller = owner[sales[i].feature]
      BY <1>1, <2>4 DEF Named, NamedBut
    <3>2. sales[i].seller \in Users /\ sales[i].feature \in Features
      BY SaleRow
    <3>3. CASE sales[i].feature # f
      BY <1>6, <3>1, <3>2, <3>3
    <3>4. CASE sales[i].feature = f
      BY <1>7, <2>2, <3>1, <3>2, <3>4, UsersAssumption
    <3> QED BY <3>3, <3>4
  <2> QED BY <1>5, <2>1, <2>3, <2>4 DEF NamedBut, Live
<1>10. PricedBut(j)'
  <2>1. \A g \in priced' : OnSale(g)
    BY <1>1, <1>5 DEF Named, PricedBut
  <2>2. /\ ~ (j.op = "sell" /\ j.pc = "price") /\ ~ (j.op = "unsell" /\ j.pc # "idle")
        /\ j.pc \in {"cancel", "complete", "unlist"} => j.feature \notin priced'
    BY <1>5, <1>7, IdleFits
  <2> QED BY <1>5, <2>1, <2>2 DEF PricedBut, OnSale
<1> QED BY <1>5, <1>7, <1>8, <1>9, <1>10, OneNamed DEF Named

(* CancelRequests *)
LEMMA CancelNamed ==
  ASSUME OneAtATime, IInv, faults' = faults, NEW t \in Tasks, CancelRequests(t), Named(task[t])
  PROVE  NamedInv'
<1>1. PICK k : /\ k = task[t] /\ k \in Task /\ TaskOK(k) /\ k.pc = "cancel" /\ Named(k)
               /\ TablesOK
  BY Known DEF CancelRequests, At
<1>2. k.op = "buy"
  BY <1>1 DEF TaskOK, OnCourse
<1>3. PICK j : j = [k EXCEPT !.pc = "complete"]
  OBVIOUS
<1>4. j \in Task /\ j.pc = "complete" /\ Same(j, k)
  BY <1>1, <1>3, AtStep DEF Steps
<1>5. PICK q : q = Cancelled(k.feature)
  OBVIOUS
<1>6. requests' = q /\ Set(t, j) /\ UNCHANGED <<owner, limited, priced, sales, locked>>
  BY <1>1, <1>3, <1>5, NoFault DEF CancelRequests, Cancelled
<1>7. /\ DOMAIN q = DOMAIN requests
      /\ \A i \in DOMAIN requests :
           /\ q[i].feature = requests[i].feature /\ q[i].seller = requests[i].seller
           /\ q[i].state = "pending" =>
                requests[i].feature # k.feature /\ requests[i].state = "pending"
  BY <1>1, <1>5, CancelledRows
<1>8. OwnerKnown(j)' /\ OthersListed(j)'
  BY <1>2, <1>4 DEF OwnerKnown, OthersListed, Inserted, Same
<1>9. NamedBut(j)'
  <2>1. \A f \in limited : owner[f] = Rgb
    BY <1>1 DEF Named, NamedBut
  <2>2. locked \subseteq DOMAIN requests
    BY DEF IInv, TypeOK
  <2>3. \A i \in locked : q[i].state = "pending" => q[i].seller \in {owner[q[i].feature], Rgb}
    BY <1>1, <1>7, <2>2 DEF Named, NamedBut, Live
  <2>4. \A i \in DOMAIN sales : sales[i].state = "open" =>
          \/ sales[i].seller = owner[sales[i].feature]
          \/ j.pc = "complete" /\ sales[i].feature = j.feature
    BY <1>1, <1>4 DEF Named, NamedBut, Same
  <2> QED BY <1>6, <2>1, <2>3, <2>4 DEF NamedBut, Live
<1>10. PricedBut(j)'
  <2>1. (\A f \in priced : OnSale(f)) /\ k.feature \notin priced
    BY <1>1 DEF Named, PricedBut
  <2> QED BY <1>2, <1>4, <1>6, <2>1 DEF PricedBut, OnSale, Same
<1> QED BY <1>4, <1>6, <1>8, <1>9, <1>10, OneNamed DEF Named

(* CompleteSales *)
LEMMA CompleteNamed ==
  ASSUME OneAtATime, IInv, faults' = faults, NEW t \in Tasks, CompleteSales(t), Named(task[t])
  PROVE  NamedInv'
<1>1. PICK k : k = task[t] /\ k \in Task /\ TaskOK(k) /\ k.pc = "complete" /\ Named(k)
  BY Known DEF CompleteSales, At
<1>2. PICK f, s : f = k.feature /\ s = Completed(f)
  OBVIOUS
<1>3. PICK j : j = Idle
  OBVIOUS
<1>4. sales' = s /\ Set(t, j) /\ UNCHANGED <<owner, limited, priced, requests, locked>>
  BY <1>1, <1>2, <1>3, NoFault DEF CompleteSales
<1>5. OwnerKnown(j)' /\ OthersListed(j)'
  BY <1>3, IdleFits DEF OwnerKnown, OthersListed
<1>6. NamedBut(j)'
  <2>1. /\ \A g \in limited : owner[g] = Rgb
        /\ \A i \in locked : Live(i) => requests[i].seller \in {owner[requests[i].feature], Rgb}
    BY <1>1 DEF Named, NamedBut
  <2>2. ASSUME NEW i \in DOMAIN s, s[i].state = "open"
        PROVE  s[i].seller = owner[s[i].feature]
    <3>1. /\ i \in DOMAIN sales /\ sales[i].state = "open" /\ sales[i].feature # f
          /\ s[i].feature = sales[i].feature /\ s[i].seller = sales[i].seller
      BY <1>2, <2>2, CompletedSales
    <3> QED BY <1>1, <1>2, <3>1 DEF Named, NamedBut
  <2> QED BY <1>4, <2>1, <2>2 DEF NamedBut, Live
<1>7. PricedBut(j)'
  <2>1. ASSUME NEW g \in priced PROVE OnSale(g)'
    <3>1. g # f
      BY <1>1, <1>2 DEF Named, PricedBut
    <3>2. PICK i \in DOMAIN sales : sales[i].feature = g /\ sales[i].state = "open"
      BY <1>1 DEF Named, PricedBut, OnSale
    <3>3. i \in DOMAIN s /\ s[i].feature = g /\ s[i].state = "open"
      BY <1>2, <3>1, <3>2, CompletedSales
    <3> QED BY <1>4, <3>3 DEF OnSale
  <2> QED BY <1>3, <1>4, <2>1, IdleFits DEF PricedBut
<1> QED BY <1>3, <1>4, <1>5, <1>6, <1>7, IdleFits, OneNamed DEF Named

(* InsertSale: the owner puts the feature on sale. *)
LEMMA SaleNamed ==
  ASSUME OneAtATime, IInv, faults' = faults, NEW t \in Tasks, InsertSale(t), Named(task[t])
  PROVE  NamedInv'
<1>1. PICK k : k = task[t] /\ k \in Task /\ TaskOK(k) /\ k.pc = "list" /\ Named(k)
  BY Known DEF InsertSale, At
<1>2. k.op = "sell" /\ k.seller \in Users
  BY <1>1 DEF TaskOK, OnCourse, KnowsItsSale
<1>3. PICK r : r = [feature |-> k.feature, seller |-> k.seller, state |-> "open"]
  OBVIOUS
<1>4. r \in Sale /\ r.feature = k.feature /\ r.seller = k.seller /\ r.state = "open"
  BY <1>1, <1>2, <1>3 DEF Sale, Task
<1>5. PICK j : j = [k EXCEPT !.pc = "price"]
  OBVIOUS
<1>6. j \in Task /\ j.pc = "price" /\ Same(j, k)
  BY <1>1, <1>5, AtStep DEF Steps
<1>7. PICK s, n : s = sales' /\ n = Len(sales) + 1
  OBVIOUS
<1>8. s = Append(sales, r) /\ Set(t, j) /\ UNCHANGED <<owner, limited, priced, requests, locked>>
  BY <1>1, <1>3, <1>5, <1>7, NoFault DEF InsertSale
<1>9. /\ DOMAIN s = DOMAIN sales \union {n} /\ s[n] = r /\ n \in DOMAIN s
      /\ \A i \in DOMAIN sales : s[i] = sales[i]
  <2>1. sales \in Seq(Sale)
    BY DEF IInv, TypeOK
  <2> QED BY <1>4, <1>7, <1>8, <2>1, Appended
<1>10. OwnerKnown(j)' /\ OthersListed(j)'
  BY <1>1, <1>2, <1>6, <1>8 DEF Named, OwnerKnown, OthersListed, Inserted, Same
<1>11. NamedBut(j)'
  <2>1. /\ \A g \in limited : owner[g] = Rgb
        /\ \A i \in locked : Live(i) => requests[i].seller \in {owner[requests[i].feature], Rgb}
    BY <1>1 DEF Named, NamedBut
  <2>2. k.seller = owner[k.feature]
    BY <1>1, <1>2 DEF Named, OwnerKnown
  <2>3. \A i \in DOMAIN s : s[i].state = "open" => s[i].seller = owner[s[i].feature]
    BY <1>1, <1>4, <1>9, <2>2 DEF Named, NamedBut
  <2> QED BY <1>7, <1>8, <2>1, <2>3 DEF NamedBut, Live
<1>12. PricedBut(j)'
  <2>1. ASSUME NEW g, OnSale(g) PROVE OnSale(g)'
    BY <1>7, <1>9, <2>1 DEF OnSale
  <2>2. OnSale(j.feature)'
    BY <1>4, <1>6, <1>7, <1>9 DEF OnSale, Same
  <2> QED BY <1>1, <1>2, <1>6, <1>8, <2>1, <2>2 DEF Named, PricedBut, Same
<1> QED BY <1>6, <1>8, <1>10, <1>11, <1>12, OneNamed DEF Named

(* SetPriced *)
LEMMA PricedNamed ==
  ASSUME OneAtATime, IInv, faults' = faults, NEW t \in Tasks, SetPriced(t), Named(task[t])
  PROVE  NamedInv'
<1>1. PICK k : k = task[t] /\ k \in Task /\ TaskOK(k) /\ k.pc = "price" /\ Named(k)
  BY Known DEF SetPriced, At
<1>2. k.op = "sell" /\ OnSale(k.feature)
  BY <1>1 DEF TaskOK, OnCourse, Named, PricedBut
<1>3. PICK j : j = Idle
  OBVIOUS
<1>4. /\ limited' \subseteq limited /\ priced' = priced \union {k.feature} /\ Set(t, j)
      /\ UNCHANGED <<owner, sales, requests, locked>>
  BY <1>1, <1>3, NoFault DEF SetPriced
<1>5. OwnerKnown(j)' /\ OthersListed(j)'
  BY <1>3, IdleFits DEF OwnerKnown, OthersListed
<1>6. NamedBut(j)'
  BY <1>1, <1>4 DEF Named, NamedBut, Live
<1>7. PricedBut(j)'
  BY <1>1, <1>2, <1>3, <1>4, IdleFits DEF Named, PricedBut, OnSale
<1> QED BY <1>3, <1>4, <1>5, <1>6, <1>7, IdleFits, OneNamed DEF Named

(* Unprice *)
LEMMA UnpriceNamed ==
  ASSUME OneAtATime, IInv, faults' = faults, NEW t \in Tasks, Unprice(t), Named(task[t])
  PROVE  NamedInv'
<1>1. PICK k : k = task[t] /\ k \in Task /\ TaskOK(k) /\ k.pc = "unprice" /\ Named(k)
  BY Known DEF Unprice, At
<1>2. k.op = "unsell"
  BY <1>1 DEF TaskOK, OnCourse
<1>3. PICK j : j = [k EXCEPT !.pc = "unlist"]
  OBVIOUS
<1>4. j \in Task /\ j.pc = "unlist" /\ Same(j, k)
  BY <1>1, <1>3, AtStep DEF Steps
<1>5. /\ limited' \subseteq limited /\ priced' = priced \ {k.feature} /\ Set(t, j)
      /\ UNCHANGED <<owner, sales, requests, locked>>
  BY <1>1, <1>3, NoFault DEF Unprice, NotPriced
<1>6. OwnerKnown(j)' /\ OthersListed(j)'
  BY <1>2, <1>4 DEF OwnerKnown, OthersListed, Inserted, Same
<1>7. NamedBut(j)'
  BY <1>1, <1>5 DEF Named, NamedBut, Live
<1>8. PricedBut(j)'
  BY <1>1, <1>2, <1>4, <1>5 DEF Named, PricedBut, OnSale, Same
<1> QED BY <1>4, <1>5, <1>6, <1>7, <1>8, OneNamed DEF Named

(* RemoveSale: the feature no longer has the status that it is on sale. *)
LEMMA RemoveNamed ==
  ASSUME OneAtATime, IInv, faults' = faults, NEW t \in Tasks, RemoveSale(t), Named(task[t])
  PROVE  NamedInv'
<1>1. PICK k : k = task[t] /\ k \in Task /\ TaskOK(k) /\ k.pc = "unlist" /\ Named(k)
  BY Known DEF RemoveSale, At
<1>2. k.op = "unsell" /\ k.id \in DOMAIN sales
  BY <1>1 DEF TaskOK, OnCourse, KnowsItsSale
<1>3. sales[k.id].feature = k.feature /\ k.feature \notin priced
  BY <1>1, <1>2 DEF Named, PricedBut
<1>4. PICK j : j = Idle
  OBVIOUS
<1>5. PICK r : r = [sales[k.id] EXCEPT !.state = "removed"]
  OBVIOUS
<1>6. PICK s : s = sales'
  OBVIOUS
<1>7. /\ s = [sales EXCEPT ![k.id].state = "removed"] /\ Set(t, j)
      /\ UNCHANGED <<owner, limited, priced, requests, locked>>
  BY <1>1, <1>4, <1>6, NoFault DEF RemoveSale
<1>8. /\ DOMAIN s = DOMAIN sales /\ s[k.id].state # "open"
      /\ \A i \in DOMAIN sales : i # k.id => s[i] = sales[i]
  <2>1. sales \in Seq(Sale)
    BY DEF IInv, TypeOK
  <2>2. sales[k.id] \in Sale
    BY <1>2, <2>1
  <2>3. r.state = "removed"
    BY <1>5, <2>2 DEF Sale
  <2>4. s = [sales EXCEPT ![k.id] = r]
    BY <1>5, <1>7
  <2> QED BY <1>2, <2>1, <2>3, <2>4
<1>9. OwnerKnown(j)' /\ OthersListed(j)'
  BY <1>4, IdleFits DEF OwnerKnown, OthersListed
<1>10. NamedBut(j)'
  <2>1. /\ \A g \in limited : owner[g] = Rgb
        /\ \A i \in locked : Live(i) => requests[i].seller \in {owner[requests[i].feature], Rgb}
    BY <1>1 DEF Named, NamedBut
  <2>2. \A i \in DOMAIN s : s[i].state = "open" => s[i].seller = owner[s[i].feature]
    BY <1>1, <1>8 DEF Named, NamedBut
  <2> QED BY <1>6, <1>7, <2>1, <2>2 DEF NamedBut, Live
<1>11. PricedBut(j)'
  <2>1. ASSUME NEW g \in priced PROVE OnSale(g)'
    <3>1. PICK i \in DOMAIN sales : sales[i].feature = g /\ sales[i].state = "open"
      BY <1>1 DEF Named, PricedBut, OnSale
    <3>2. i # k.id
      BY <1>3, <3>1
    <3> QED BY <1>6, <1>8, <3>1, <3>2 DEF OnSale
  <2> QED BY <1>4, <1>7, <2>1, IdleFits DEF PricedBut
<1> QED BY <1>4, <1>7, <1>9, <1>10, <1>11, IdleFits, OneNamed DEF Named

LEMMA NamedOK ==
  ASSUME OneAtATime, IInv, IInv', NamedInv, [Next]_vars
  PROVE  NamedInv'
<1>1. CASE faults' # 0
  BY <1>1 DEF NamedInv
<1>2. CASE UNCHANGED vars
  BY <1>2 DEF vars, NamedInv, Named, OwnerKnown, OthersListed, NamedBut, PricedBut, OnSale,
              Inserted, Live
<1>3. CASE faults' = 0 /\ Next
  <2>1. faults' = faults /\ faults = 0 /\ ~ Fault
    BY <1>3, FaultsGrow, NoFault DEF IInv, TypeOK
  <2>2. ~ ProcessStops /\ \A t \in Tasks : Named(task[t])
    BY <2>1 DEF ProcessStops, NamedInv
  <2>3. PICK t \in Tasks : Step(t)
    BY <1>3, <2>2 DEF Next
  <2>4. CASE \/ SendBuyRequest(t) \/ RejectBuyRequest(t) \/ DeleteBuyRequest(t)
             \/ AcceptBuyRequest(t) \/ BuyFromRgb(t) \/ BuyFromUser(t)
             \/ CreateSellRequest(t) \/ DeleteSellRequest(t)
    <3>1. Begun(t)
      BY <2>4, SendOK, SettlingOK, BuyFromRgbOK, BuyFromUserOK, CreateSellOK, DeleteSellOK
    <3> QED BY <2>2, <3>1, BegunNamed
  <2>5. CASE \/ Charge(t) \/ Uncharge(t) \/ Repay(t) \/ PaySeller(t) \/ Unpay(t)
             \/ PayPlatform(t) \/ ReadOthers(t) \/ RefundOther(t) \/ OthersDone(t)
    BY <2>1, <2>2, <2>5, CallNamed
  <2>6. CASE \/ InsertRequest(t) \/ RecordLock(t) \/ Release(t) \/ CloseRequest(t) \/ Commit(t)
    BY <2>1, <2>2, <2>6, InsertNamed, RecordNamed, ReleaseNamed, CloseNamed, CommitNamed
  <2>7. CASE \/ TransferOwnership(t) \/ CancelRequests(t) \/ CompleteSales(t)
             \/ InsertSale(t) \/ SetPriced(t) \/ Unprice(t) \/ RemoveSale(t)
    BY <2>1, <2>2, <2>7, TransferNamed, CancelNamed, CompleteNamed, SaleNamed, PricedNamed,
       UnpriceNamed, RemoveNamed
  <2> QED BY <2>3, <2>4, <2>5, <2>6, <2>7 DEF Step
<1> QED BY <1>1, <1>2, <1>3

(* One request at a time, and nothing failed: an offer that can be         *)
(* accepted and a sell request that is open name the owner of the feature, *)
(* whatever sales came before (CancelAllForFeature, the refunds of         *)
(* AcceptBuyRequest, UpdateAllForFeatureToCompleted).                      *)
THEOREM SellersNamed ==
  ASSUME OneAtATime, RightlyNamed
  PROVE  Spec => []SellerInv
<1>1. Init => IInv /\ NamedInv
  <2>1. ASSUME Init PROVE NamedInv
    <3>1. /\ owner = InitialOwner /\ limited = Limited /\ priced = {} /\ sales = <<>>
          /\ requests = InitialRequests /\ locked = DOMAIN InitialRequests
          /\ \A t \in Tasks : task[t] = Idle
      BY <2>1 DEF Init
    <3>2. \A i \in locked : requests[i].seller \in {owner[requests[i].feature], Rgb}
      BY <3>1 DEF RightlyNamed, Range
    <3>3. NamedBut(Idle) /\ PricedBut(Idle)
      BY <3>1, <3>2, IdleFits DEF NamedBut, PricedBut, RightlyNamed
    <3> QED BY <3>1, <3>3, IdleFits, IdleNamed DEF NamedInv
  <2> QED BY <2>1, InitOK
<1>2. IInv /\ NamedInv /\ [Next]_vars => (IInv /\ NamedInv)'
  BY NextOK, NamedOK
<1>3. IInv /\ NamedInv => SellerInv
  <2> SUFFICES ASSUME IInv, NamedInv, AllIdle, faults = 0
               PROVE  /\ \A i \in locked : Live(i) =>
                           requests[i].seller \in {owner[requests[i].feature], Rgb}
                      /\ \A i \in DOMAIN sales : sales[i].state = "open" =>
                           sales[i].seller = owner[sales[i].feature]
                      /\ \A f \in priced : \E i \in DOMAIN sales :
                           sales[i].feature = f /\ sales[i].state = "open"
    BY DEF SellerInv, OffersNameTheOwner, SalesNameTheOwner, IInv
  <2>1. PICK t \in Tasks : TRUE
    BY BoundsAssumption
  <2>2. Named(task[t]) /\ task[t].pc = "idle"
    BY <2>1 DEF NamedInv, AllIdle
  <2> QED BY <2>2 DEF Named, NamedBut, PricedBut, OnSale
<1> QED BY <1>1, <1>2, <1>3, PTL DEF Spec
=============================================================================
