---------------------------- MODULE HourlyProfit ----------------------------
(***************************************************************************)
(* features-service: the hourly profit of features.                        *)
(*                                                                         *)
(* A calculator adds one increment to every eligible row of table          *)
(* feature_hourly_profits, in batches: a SELECT, then one UPDATE per row.  *)
(* Owners withdraw what has accrued (GetSingleProfit,                      *)
(* GetProfitsByApplication): the row is read, the wallet is credited over  *)
(* gRPC, the row is reset.  A sale hands the row to the buyer, and         *)
(* construction switches it off.  Calculators, withdrawals and sales are   *)
(* goroutines; each statement and each remote call is one step.            *)
(***************************************************************************)
EXTENDS Integers, Sequences, FiniteSets, FiniteSetsExt

CONSTANTS Features,     \* features that can be bought
          Users,
          Rgb,          \* the platform, owner of every unsold feature
          Karbari,      \* Karbari[f]: the use of f, "m", "t" or "a"
          Broken,       \* features that have no feature_properties row
          Calculators,  \* processes that run RunHourlyProfitCalculation
          Tasks,        \* goroutines that serve withdrawals and sales
          BatchLimit,   \* LIMIT of the SELECT (100)
          MaxBatches,   \* batches of one run (1000)
          Interval,     \* hours between two increments of a row (3)
          Period,       \* withdraw_profit, the life of a row (10 days)
          MaxTime,      \* bound: hours that pass in a behaviour
          MaxRows,      \* bound: rows of the table
          MaxAttempts,  \* how often the wallet client tries a call (3)
          MaxTasks,     \* bound: withdrawals and sales started in a behaviour
          MaxFaults     \* bound: failures in a behaviour

ASSUME FeaturesAssumption ==
  /\ Features # {} /\ Users # {}
  /\ Broken \subseteq Features /\ Rgb \notin Users
ASSUME BoundsAssumption ==
  /\ {Interval, Period, MaxTime, MaxRows} \subseteq Nat
  /\ {MaxAttempts, MaxTasks, MaxFaults} \subseteq Nat
  /\ {BatchLimit, MaxBatches} \subseteq Nat \ {0}

VARIABLES now,          \* the clock, in hours
          owner,        \* owner[f]: column owner_id of f
          profit,       \* the rows of feature_hourly_profits, by id
          calc,         \* calc[c]: what calculator c is doing
          task,         \* task[t]: what goroutine t is doing
          accrued,      \* history: increments added to each row
          credited,     \* history: what each goroutine credited of each row
          lastAccrual,  \* history: when each row was last incremented
          started, faults

vars == <<now, owner, profit, calc, task, accrued, credited, lastAccrual, started,
          faults>>

(* The asset of a row that a sale made up. *)
NoAsset == ""

Ids  == 1..MaxRows
Row  == [feature: Features, user: Users, asset: {"color", NoAsset}, amount: Nat,
         deadLine: Nat, active: BOOLEAN, updatedAt: Nat]
Calc == [pc: {"idle", "select", "update"}, batch: SUBSET Ids, updated: BOOLEAN,
         batches: 0..MaxBatches]

(* op: the handler; todo: rows it still has to settle; seen: the amounts   *)
(* it read; user: whom it credits; feature and buyer: the sale.            *)
Task == [op: {"single", "karbari", "sale", "accept"},
         pc: {"idle", "own", "look", "settle", "reset", "transfer", "commit"},
         todo: SUBSET Ids, seen: [Ids -> Nat], user: Users,
         feature: Features, buyer: Users]

IdleCalc == [pc |-> "idle", batch |-> {}, updated |-> FALSE, batches |-> 0]
NoAmount == [i \in Ids |-> 0]
IdleTask == [op |-> "single", pc |-> "idle", todo |-> {}, seen |-> NoAmount,
             user |-> CHOOSE u \in Users : TRUE,
             feature |-> CHOOSE f \in Features : TRUE,
             buyer |-> CHOOSE u \in Users : TRUE]

TypeOK ==
  /\ now \in 0..MaxTime
  /\ owner \in [Features -> Users \union {Rgb}]
  /\ profit \in Seq(Row) /\ Len(profit) <= MaxRows
  /\ calc \in [Calculators -> Calc]
  /\ task \in [Tasks -> Task]
  /\ accrued \in [Ids -> Nat]
  /\ credited \in [Tasks -> [Ids -> Nat]]
  /\ lastAccrual \in [Ids -> Int]
  /\ started \in 0..MaxTasks
  /\ faults \in 0..MaxFaults

Init ==
  /\ now = 0
  /\ owner = [f \in Features |-> Rgb]
  /\ profit = <<>>
  /\ calc = [c \in Calculators |-> IdleCalc]
  /\ task = [t \in Tasks |-> IdleTask]
  /\ accrued = NoAmount
  /\ credited = [t \in Tasks |-> NoAmount]
  /\ lastAccrual = [i \in Ids |-> -Interval - 1]
  /\ started = 0 /\ faults = 0

history == <<accrued, credited, lastAccrual>>
Fault   == faults < MaxFaults /\ faults' = faults + 1

-----------------------------------------------------------------------------
(* Rows *)

(* Create: a new row, active and empty. *)
NewRow(f, u, a) ==
  [feature |-> f, user |-> u, asset |-> a, amount |-> 0,
   deadLine |-> now + Period, active |-> TRUE, updatedAt |-> now]

(* ResetProfitAndUpdateDeadline *)
ResetRow(r) == [r EXCEPT !.amount = 0, !.deadLine = now + Period, !.updatedAt = now]

(* The UPDATE of TransferProfitToNewOwner *)
HandOver(r, u) == [ResetRow(r) EXCEPT !.user = u, !.active = TRUE]

(* The rows that GetByFeatureAndUser and TransferProfitToNewOwner look up. *)
RowsOf(f, u) == {i \in DOMAIN profit : profit[i].feature = f /\ profit[i].user = u}

(* The WHERE clause of CalculateAndUpdateProfits. *)
Eligible(i) ==
  /\ profit[i].deadLine > now
  /\ profit[i].updatedAt + Interval < now
  /\ profit[i].active

Tick ==
  /\ now < MaxTime
  /\ now' = now + 1
  /\ UNCHANGED <<owner, profit, calc, task, history, started, faults>>

(* A feature is bought from the platform: its row is created, unless the   *)
(* INSERT fails, which is only logged.                                     *)
BuyFromRgb(f, u) ==
  /\ owner[f] = Rgb
  /\ Len(profit) < MaxRows
  /\ owner' = [owner EXCEPT ![f] = u]
  /\ \/ profit' = Append(profit, NewRow(f, u, "color")) /\ UNCHANGED faults
     \/ Fault /\ UNCHANGED profit
  /\ UNCHANGED <<now, calc, task, history, started>>

(* Building construction deactivates the rows of a feature, destroying the *)
(* building activates them; both touch updated_at.                         *)
SetActive(f, b) ==
  /\ \E i \in DOMAIN profit : profit[i].feature = f
  /\ profit' = [i \in DOMAIN profit |->
       IF profit[i].feature = f
         THEN [profit[i] EXCEPT !.active = b, !.updatedAt = now] ELSE profit[i]]
  /\ UNCHANGED <<now, owner, calc, task, history, started, faults>>

-----------------------------------------------------------------------------
(* The calculator *)

CalcUnchanged == UNCHANGED <<now, owner, task, credited, started>>

(* The ticker fires, or the cron job starts. *)
StartRun(c) ==
  /\ calc[c].pc = "idle"
  /\ calc' = [calc EXCEPT ![c] = [IdleCalc EXCEPT !.pc = "select"]]
  /\ UNCHANGED <<profit, accrued, lastAccrual, faults>>
  /\ CalcUnchanged

(* SELECT ... LIMIT without ORDER BY: any BatchLimit eligible rows.  An    *)
(* error ends the run.                                                     *)
SelectBatch(c) ==
  LET eligible == {i \in DOMAIN profit : Eligible(i)} IN
  /\ calc[c].pc = "select"
  /\ \/ \E batch \in kSubset(Min({BatchLimit, Cardinality(eligible)}), eligible) :
          /\ calc' = [calc EXCEPT ![c].pc = "update", ![c].batch = batch,
                                  ![c].updated = FALSE]
          /\ UNCHANGED faults
     \/ calc' = [calc EXCEPT ![c] = IdleCalc] /\ Fault
  /\ UNCHANGED <<profit, accrued, lastAccrual>>
  /\ CalcUnchanged

AccrueWithoutStamp(c) ==
  /\ calc[c].pc = "update"
  /\ \E i \in calc[c].batch :
       /\ profit' = [profit EXCEPT ![i].amount = @ + 1]
       /\ accrued' = [accrued EXCEPT ![i] = @ + 1]
       /\ lastAccrual' = [lastAccrual EXCEPT ![i] = now]
       /\ calc' = [calc EXCEPT ![c].batch = @ \ {i}, ![c].updated = TRUE]
  /\ UNCHANGED faults
  /\ CalcUnchanged

StopAtBroken(c) ==
  /\ calc[c].pc = "update"
  /\ \E i \in calc[c].batch :
       IF profit[i].feature \in Broken
         THEN /\ calc' = [calc EXCEPT ![c] = IdleCalc]
              /\ UNCHANGED <<profit, accrued, lastAccrual, faults>>
         ELSE /\ profit' = [profit EXCEPT ![i].amount = @ + 1, ![i].updatedAt = now]
              /\ accrued' = [accrued EXCEPT ![i] = @ + 1]
              /\ lastAccrual' = [lastAccrual EXCEPT ![i] = now]
              /\ calc' = [calc EXCEPT ![c].batch = @ \ {i}, ![c].updated = TRUE]
              /\ UNCHANGED faults
  /\ CalcUnchanged

(* The next row of the batch: its stability is read and the row updated,   *)
(* with no second look at its eligibility.  A row whose feature has no     *)
(* properties, or whose UPDATE fails, is skipped.                          *)
UpdateRow(c) ==
  /\ calc[c].pc = "update"
  /\ \E i \in calc[c].batch :
       \/ /\ profit[i].feature \notin Broken
          /\ profit' = [profit EXCEPT ![i].amount = @ + 1, ![i].updatedAt = now]
          /\ accrued' = [accrued EXCEPT ![i] = @ + 1]
          /\ lastAccrual' = [lastAccrual EXCEPT ![i] = now]
          /\ calc' = [calc EXCEPT ![c].batch = @ \ {i}, ![c].updated = TRUE]
          /\ UNCHANGED faults
       \/ /\ IF profit[i].feature \in Broken THEN UNCHANGED faults ELSE Fault
          /\ calc' = [calc EXCEPT ![c].batch = @ \ {i}]
          /\ UNCHANGED <<profit, accrued, lastAccrual>>
  /\ CalcUnchanged

(* The run goes on while a batch updated something. *)
EndBatch(c) ==
  /\ calc[c].pc = "update"
  /\ calc[c].batch = {}
  /\ calc' = [calc EXCEPT ![c] =
       IF calc[c].updated /\ calc[c].batches + 1 < MaxBatches
         THEN [IdleCalc EXCEPT !.pc = "select", !.batches = calc[c].batches + 1]
         ELSE IdleCalc]
  /\ UNCHANGED <<profit, accrued, lastAccrual, faults>>
  /\ CalcUnchanged

CalcStep(c) == StartRun(c) \/ SelectBatch(c) \/ UpdateRow(c) \/ EndBatch(c)

-----------------------------------------------------------------------------
(* Withdrawals and sales *)

TaskUnchanged == UNCHANGED <<now, calc, accrued, lastAccrual>>

(* A free goroutine takes a request. *)
Accept(t) ==
  /\ task[t].pc = "idle"
  /\ started < MaxTasks
  /\ started' = started + 1

Amounts == [i \in Ids |-> IF i \in DOMAIN profit THEN profit[i].amount ELSE 0]

(* Where a sale goes when the seller's profit is paid, or cannot be. *)
HandOverStep(k) == IF k.op = "sale" THEN "transfer" ELSE "commit"
IsSale(k)       == k.op \in {"sale", "accept"}

(* Where a task goes when it is done with a row. *)
Settled(k, i) ==
  CASE IsSale(k)                        -> [k EXCEPT !.pc = HandOverStep(k), !.todo = {}]
    [] k.op = "karbari" /\ k.todo # {i} -> [k EXCEPT !.pc = "settle", !.todo = @ \ {i}]
    [] OTHER                            -> IdleTask

(* GetSingleProfit: FindByID (whose join fails for a Broken feature) and   *)
(* the ownership check.                                                    *)
GetSingleProfit(t) ==
  /\ Accept(t)
  /\ \E i \in DOMAIN profit :
       /\ profit[i].feature \notin Broken
       /\ task' = [task EXCEPT ![t] =
            [IdleTask EXCEPT !.op = "single", !.pc = "settle", !.todo = {i},
                             !.seen = Amounts, !.user = profit[i].user]]
  /\ UNCHANGED <<owner, profit, credited, faults>>
  /\ TaskUnchanged

(* GetProfitsByApplication: GetAllByUserAndKarbari reads all the rows of   *)
(* the user that it will settle one after the other.                       *)
GetProfitsByApplication(t) ==
  /\ Accept(t)
  /\ \E u \in Users, k \in {"m", "t", "a"} :
       LET rows == {i \in DOMAIN profit : /\ profit[i].user = u
                                          /\ profit[i].feature \notin Broken
                                          /\ Karbari[profit[i].feature] = k} IN
       /\ rows # {}
       /\ task' = [task EXCEPT ![t] =
            [IdleTask EXCEPT !.op = "karbari", !.pc = "settle", !.todo = rows,
                             !.seen = Amounts, !.user = u]]
  /\ UNCHANGED <<owner, profit, credited, faults>>
  /\ TaskUnchanged

(* buyFromUser reads the feature and its owner, the seller, long before it *)
(* changes anything; AcceptBuyRequest takes the seller from the request,   *)
(* which got it from the feature when it was sent.                         *)
StartSale(t) ==
  /\ Accept(t)
  /\ \E f \in Features, buyer \in Users, op \in {"sale", "accept"} :
       /\ owner[f] \in Users \ {buyer}
       /\ task' = [task EXCEPT ![t] =
            [op |-> op, pc |-> IF op = "sale" THEN "own" ELSE "look", todo |-> {},
             seen |-> NoAmount, user |-> owner[f], feature |-> f, buyer |-> buyer]]
  /\ UNCHANGED <<owner, profit, credited, faults>>
  /\ TaskUnchanged

(* buyFromUser: UpdateOwner, whoever the owner is by now, and UpdateStatus; *)
(* an error of either ends the purchase.                                    *)
UpdateOwner(t) ==
  LET k == task[t] IN
  /\ k.pc = "own"
  /\ \/ /\ owner' = [owner EXCEPT ![k.feature] = k.buyer]
        /\ task' = [task EXCEPT ![t].pc = "look"]
        /\ UNCHANGED faults
     \/ /\ Fault
        /\ task' = [task EXCEPT ![t] = IdleTask]
        /\ owner' \in {owner, [owner EXCEPT ![k.feature] = k.buyer]}
  /\ UNCHANGED <<profit, credited>>
  /\ UNCHANGED started
  /\ TaskUnchanged

(* GetByFeatureAndUser for the seller, before AcceptBuyRequest changes     *)
(* ownership and after buyFromUser did; without a row, or after an error,  *)
(* the payment is skipped.                                                 *)
LookUpProfit(t) ==
  LET k == task[t]
      found == RowsOf(k.feature, k.user) IN
  /\ k.pc = "look"
  /\ \/ \E i \in found :
          /\ task' = [task EXCEPT ![t] = [k EXCEPT !.pc = "settle", !.todo = {i},
                                                  !.seen = Amounts]]
          /\ UNCHANGED faults
     \/ /\ IF found = {} THEN UNCHANGED faults ELSE Fault
        /\ task' = [task EXCEPT ![t].pc = HandOverStep(k)]
  /\ UNCHANGED <<owner, profit, credited>>
  /\ UNCHANGED started
  /\ TaskUnchanged

(* AcceptBuyRequest: ownership and the row change hands in one transaction *)
(* (a row that has to be created, because there is none or the SELECT      *)
(* failed, is created outside of it); what the row holds by then is reset. *)
CommitAccept(t) ==
  LET k == task[t]
      found == RowsOf(k.feature, k.user) IN
  /\ k.pc = "commit"
  /\ \/ /\ owner' = [owner EXCEPT ![k.feature] = k.buyer]
        /\ \E i \in found : profit' = [profit EXCEPT ![i] = HandOver(@, k.buyer)]
        /\ UNCHANGED faults
     \/ /\ Len(profit) < MaxRows
        /\ profit' = Append(profit, NewRow(k.feature, k.buyer, NoAsset))
        /\ \/ /\ owner' = [owner EXCEPT ![k.feature] = k.buyer]
              /\ IF found = {} THEN UNCHANGED faults ELSE Fault
           \/ Fault /\ UNCHANGED owner
     \/ Fault /\ UNCHANGED <<owner, profit>>
  /\ task' = [task EXCEPT ![t] = IdleTask]
  /\ UNCHANGED credited
  /\ UNCHANGED started
  /\ TaskUnchanged

(* The first row to settle: rows come ORDER BY id. *)
Current(k, i) == i \in k.todo /\ \A j \in k.todo : i <= j

CreditWithoutReset(t) ==
  /\ task[t].pc = "settle"
  /\ \E i \in Ids :
       /\ Current(task[t], i)
       /\ credited' = [credited EXCEPT ![t][i] = @ + task[t].seen[i]]
       /\ task' = [task EXCEPT ![t] = Settled(task[t], i)]
  /\ UNCHANGED <<owner, profit, faults>>
  /\ UNCHANGED started
  /\ TaskUnchanged

(* AddBalance, for a positive amount, then the reset; an error is handled  *)
(* by going on without it.  The client repeats a call whose answer was     *)
(* lost, so a failure may leave any number of credits, also before an      *)
(* answer that is finally a success.  A row with no asset is not credited. *)
Settle(t) ==
  LET k == task[t] IN
  /\ k.pc = "settle"
  /\ \E i \in Ids :
       /\ Current(k, i)
       /\ LET goReset == [task EXCEPT ![t].pc = IF IsSale(k) THEN HandOverStep(k)
                                                             ELSE "reset"]
              goOn    == [task EXCEPT ![t] = Settled(k, i)]
              Pay(n)  == credited' = [credited EXCEPT ![t][i] = @ + n * k.seen[i]]
          IN
          \/ /\ k.seen[i] = 0
             /\ task' = goReset /\ UNCHANGED <<credited, faults>>
          \/ /\ k.seen[i] > 0 /\ profit[i].asset = "color"
             /\ task' = goReset /\ Pay(1) /\ UNCHANGED faults
          \/ /\ k.seen[i] > 0 /\ profit[i].asset = "color" /\ Fault
             /\ \/ task' = goOn /\ \E n \in 0..MaxAttempts : Pay(n)
                \/ task' = goReset /\ \E n \in 2..MaxAttempts : Pay(n)
          \/ /\ k.seen[i] > 0 /\ profit[i].asset = NoAsset
             /\ task' = goOn /\ UNCHANGED <<credited, faults>>
  /\ UNCHANGED <<owner, profit>>
  /\ UNCHANGED started
  /\ TaskUnchanged

(* ResetProfitAndUpdateDeadline, whose failure leaves the row as it is. *)
Reset(t) ==
  /\ task[t].pc = "reset"
  /\ \E i \in Ids :
       /\ Current(task[t], i)
       /\ \/ profit' = [profit EXCEPT ![i] = ResetRow(@)] /\ UNCHANGED faults
          \/ Fault /\ UNCHANGED profit
       /\ task' = [task EXCEPT ![t] = Settled(task[t], i)]
  /\ UNCHANGED <<owner, credited>>
  /\ UNCHANGED started
  /\ TaskUnchanged

TransferKeepsUser(t) ==
  LET k == task[t] IN
  /\ k.pc = "transfer"
  /\ \E i \in RowsOf(k.feature, k.user) : profit' = [profit EXCEPT ![i] = ResetRow(@)]
  /\ task' = [task EXCEPT ![t] = IdleTask]
  /\ UNCHANGED <<owner, credited, faults>>
  /\ UNCHANGED started
  /\ TaskUnchanged

(* TransferProfitToNewOwner looks the seller's row up again.  When there   *)
(* is none, or the SELECT fails, it creates one with the empty asset that  *)
(* the SELECT left.                                                        *)
Transfer(t) ==
  LET k == task[t] IN
  /\ k.pc = "transfer"
  /\ \/ /\ \E i \in RowsOf(k.feature, k.user) :
             profit' = [profit EXCEPT ![i] = HandOver(@, k.buyer)]
        /\ UNCHANGED faults
     \/ /\ Len(profit) < MaxRows
        /\ profit' = Append(profit, NewRow(k.feature, k.buyer, NoAsset))
        /\ IF RowsOf(k.feature, k.user) = {} THEN UNCHANGED faults ELSE Fault
     \/ Fault /\ UNCHANGED profit
  /\ task' = [task EXCEPT ![t] = IdleTask]
  /\ UNCHANGED <<owner, credited>>
  /\ UNCHANGED started
  /\ TaskUnchanged

TaskStep(t) ==
  \/ GetSingleProfit(t)
  \/ GetProfitsByApplication(t)
  \/ StartSale(t)
  \/ UpdateOwner(t)
  \/ LookUpProfit(t)
  \/ CommitAccept(t)
  \/ Settle(t)
  \/ Reset(t)
  \/ Transfer(t)

Next ==
  \/ Tick
  \/ \E f \in Features, u \in Users : BuyFromRgb(f, u)
  \/ \E f \in Features, b \in BOOLEAN : SetActive(f, b)
  \/ \E c \in Calculators : CalcStep(c)
  \/ \E t \in Tasks : TaskStep(t)

Spec == Init /\ [][Next]_vars

(* The ticker fires every minute and a run takes its steps. *)
FairSpec == Spec /\ \A c \in Calculators : WF_vars(CalcStep(c))

-----------------------------------------------------------------------------
(* Properties *)

(* The row is the only one of its feature. *)
SoleRow(i) == \A j \in DOMAIN profit : profit[j].feature = profit[i].feature => j = i

(* A goroutine never pays out more of a row than has accrued on it, while  *)
(* calculators, sales and other withdrawals of the same row overlap with   *)
(* it: what it read is an amount it has not paid before, because it resets *)
(* the row after each payment.  So n overlapping withdrawals pay a row at  *)
(* most n times, and withdrawals that do not overlap pay it once.  (Sales  *)
(* of one feature that overlap can give it a second row; then the transfer *)
(* of the first may reset the wrong one, and the promise is lost.)         *)
PaidOncePerTask ==
  faults = 0 =>
    \A t \in Tasks, i \in DOMAIN profit : SoleRow(i) => credited[t][i] <= accrued[i]

(* profit_service.go:303 says "each record is only updated once every 3    *)
(* hours".  It holds for one calculator (two of them that selected the     *)
(* same row both increment it): whatever withdrawals, sales and            *)
(* constructions do to the row, two increments are over Interval apart.    *)
OncePerInterval ==
  [][\A i \in Ids : accrued'[i] > accrued[i] => lastAccrual[i] + Interval < now]_vars

(* With sales one at a time and no failure, a row always belongs to the    *)
(* owner of its feature once the sale is over, so that it is the owner who *)
(* can withdraw (GetSingleProfit compares the caller with user_id).        *)
ProfitFollowsOwner ==
  faults = 0 /\ (\A t \in Tasks : task[t].pc = "idle") =>
    \A i \in DOMAIN profit : profit[i].user = owner[profit[i].feature]

(* profit_service.go:277 says the run "processes all eligible profit       *)
(* records".  An eligible row eventually gets its increment, provided the  *)
(* rows that cannot be updated do not fill a whole batch.                  *)
EligibleIsProcessed ==
  \A i \in Ids :
    (i \in DOMAIN profit /\ Eligible(i) /\ profit[i].feature \notin Broken)
      ~> ~(i \in DOMAIN profit /\ Eligible(i))

(* What the calculator and the withdrawals of a row leave in it. *)
ProfitInv == TypeOK /\ PaidOncePerTask
=============================================================================
