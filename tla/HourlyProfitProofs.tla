-------------------------- MODULE HourlyProfitProofs --------------------------
(***************************************************************************)
(* Hourly profits, for any features, users, calculators and goroutines.    *)
(***************************************************************************)
EXTENDS HourlyProfit, TLAPS

(* The steps of each kind of task, and the rows it works on. *)
OnCourse(k) ==
  /\ k.pc = "own" => k.op = "sale"
  /\ k.pc = "look" => IsSale(k)
  /\ k.pc = "transfer" => k.op = "sale"
  /\ k.pc = "commit" => k.op = "accept"
  /\ k.pc = "reset" => ~ IsSale(k)
  /\ k.todo \subseteq DOMAIN profit
  /\ IsSale(k) => \A i \in k.todo : profit[i].feature = k.feature

(* A row is stamped whenever it is incremented. *)
StampsAreOld ==
  /\ \A i \in Ids : lastAccrual[i] <= now
  /\ \A i \in DOMAIN profit : lastAccrual[i] <= profit[i].updatedAt

Basics ==
  /\ TypeOK
  /\ \A c \in Calculators : calc[c].batch \subseteq DOMAIN profit
  /\ \A t \in Tasks : OnCourse(task[t])
  /\ StampsAreOld

-----------------------------------------------------------------------------
(* What a goroutine paid of a row, against what accrued on it *)

(* t has credited row i, or gave up on it, and the row is not reset yet. *)
Unreset(t, i) ==
  \/ task[t].pc = "reset" /\ Current(task[t], i)
  \/ task[t].pc \in {"transfer", "commit"} /\ profit[i].feature = task[t].feature

(* t will credit what it read of row i. *)
ToCredit(t, i) ==
  /\ task[t].pc \in {"settle", "reset"}
  /\ i \in task[t].todo
  /\ task[t].pc = "reset" => ~ Current(task[t], i)

Paid(t, i) ==
  /\ credited[t][i] <= accrued[i]
  /\ ToCredit(t, i) => credited[t][i] + task[t].seen[i] <= accrued[i]
  /\ ~ Unreset(t, i) => credited[t][i] + profit[i].amount <= accrued[i]

PaidFor(t) ==
  /\ \A i \in Ids \ DOMAIN profit : credited[t][i] <= accrued[i]
  /\ faults = 0 => \A i \in DOMAIN profit : SoleRow(i) => Paid(t, i)

PaidInv == \A t \in Tasks : PaidFor(t)

-----------------------------------------------------------------------------
(* Types *)

LEMMA IdleType ==
  /\ IdleTask \in Task /\ IdleTask.pc = "idle" /\ IdleTask.todo = {} /\ IdleTask.op = "single"
  /\ IdleTask.seen = NoAmount
<1>1. (CHOOSE u \in Users : TRUE) \in Users /\ (CHOOSE f \in Features : TRUE) \in Features
  BY FeaturesAssumption
<1>2. NoAmount \in [Ids -> Nat]
  BY DEF NoAmount
<1>3. PICK u \in Users, f \in Features :
        u = (CHOOSE x \in Users : TRUE) /\ f = (CHOOSE x \in Features : TRUE)
  BY <1>1
<1>4. IdleTask = [op |-> "single", pc |-> "idle", todo |-> {}, seen |-> NoAmount,
                  user |-> u, feature |-> f, buyer |-> u]
  BY <1>3 DEF IdleTask
<1> QED BY <1>2, <1>4 DEF Task

LEMMA IdleCalcType == IdleCalc \in Calc
BY BoundsAssumption DEF IdleCalc, Calc

LEMMA Numbers ==
  /\ Interval \in Nat /\ Period \in Nat /\ MaxTime \in Nat /\ MaxRows \in Nat
  /\ MaxAttempts \in Nat /\ MaxTasks \in Nat /\ MaxFaults \in Nat /\ MaxBatches \in Nat \ {0}
BY BoundsAssumption

LEMMA NewRowType ==
  ASSUME now \in Nat, NEW f \in Features, NEW u \in Users, NEW a \in {"color", NoAsset}
  PROVE  /\ NewRow(f, u, a) \in Row
         /\ NewRow(f, u, a).feature = f /\ NewRow(f, u, a).user = u
         /\ NewRow(f, u, a).amount = 0 /\ NewRow(f, u, a).updatedAt = now
<1>1. now + Period \in Nat
  BY Numbers
<1> QED BY <1>1 DEF NewRow, Row

LEMMA ResetRowType ==
  ASSUME now \in Nat, NEW r \in Row
  PROVE  /\ ResetRow(r) \in Row
         /\ ResetRow(r).feature = r.feature /\ ResetRow(r).user = r.user
         /\ ResetRow(r).amount = 0 /\ ResetRow(r).updatedAt = now
<1>1. now + Period \in Nat
  BY Numbers
<1> QED BY <1>1 DEF ResetRow, Row

LEMMA HandOverType ==
  ASSUME now \in Nat, NEW r \in Row, NEW u \in Users
  PROVE  /\ HandOver(r, u) \in Row
         /\ HandOver(r, u).feature = r.feature /\ HandOver(r, u).user = u
         /\ HandOver(r, u).amount = 0 /\ HandOver(r, u).updatedAt = now
<1>1. /\ ResetRow(r) \in Row /\ ResetRow(r).feature = r.feature
      /\ ResetRow(r).amount = 0 /\ ResetRow(r).updatedAt = now
  BY ResetRowType
<1> QED BY <1>1 DEF HandOver, Row

LEMMA IncrementType ==
  ASSUME now \in Nat, NEW q \in Row, NEW r,
         r = [q EXCEPT !.amount = q.amount + 1, !.updatedAt = now]
  PROVE  /\ r \in Row /\ r.feature = q.feature /\ r.user = q.user
         /\ r.amount = q.amount + 1 /\ r.updatedAt = now
<1>1. q.amount + 1 \in Nat
  BY DEF Row
<1> QED BY <1>1 DEF Row

LEMMA BatchType ==
  ASSUME NEW q \in Calc, NEW i, NEW k, k = [q EXCEPT !.batch = q.batch \ {i}, !.updated = TRUE]
  PROVE  k \in Calc /\ k.batch = q.batch \ {i}
<1>1. q.batch \ {i} \in SUBSET Ids
  BY DEF Calc
<1> QED BY <1>1 DEF Calc

(* The table after one row of it was written, and after a row was added. *)
LEMMA RowWritten ==
  ASSUME NEW rows \in Seq(Row), NEW i \in DOMAIN rows, NEW r \in Row,
         NEW next, next = [rows EXCEPT ![i] = r]
  PROVE  /\ next \in Seq(Row) /\ Len(next) = Len(rows) /\ DOMAIN next = DOMAIN rows
         /\ next[i] = r /\ \A j \in DOMAIN rows \ {i} : next[j] = rows[j]
<1>1. rows \in [1..Len(rows) -> Row] /\ DOMAIN rows = 1..Len(rows) /\ Len(rows) \in Nat
  OBVIOUS
<1>2. next \in [1..Len(rows) -> Row]
  BY <1>1
<1> QED BY <1>1, <1>2

LEMMA RowAdded ==
  ASSUME NEW rows \in Seq(Row), NEW r \in Row, NEW next, next = Append(rows, r)
  PROVE  /\ next \in Seq(Row) /\ Len(next) = Len(rows) + 1
         /\ DOMAIN next = DOMAIN rows \union {Len(rows) + 1}
         /\ Len(rows) + 1 \notin DOMAIN rows
         /\ next[Len(rows) + 1] = r /\ \A j \in DOMAIN rows : next[j] = rows[j]
OBVIOUS

-----------------------------------------------------------------------------
(* Rows keep their places and features, and a new one starts empty and     *)
(* stamped.                                                                *)
RowsStay ==
  /\ profit' \in Seq(Row) /\ Len(profit') <= MaxRows
  /\ DOMAIN profit \subseteq DOMAIN profit'
  /\ \A i \in DOMAIN profit : profit'[i].feature = profit[i].feature
  /\ \A i \in DOMAIN profit' \ DOMAIN profit : profit'[i].amount = 0
  /\ \A i \in DOMAIN profit' :
       profit'[i].updatedAt = now \/ (i \in DOMAIN profit /\ profit'[i].updatedAt = profit[i].updatedAt)

(* What accrues on a row stays in it or leaves it: amounts rise by what    *)
(* accrues, or fall.                                                       *)
AmountsAgree ==
  /\ \A i \in Ids : accrued'[i] >= accrued[i]
  /\ \A i \in DOMAIN profit : profit'[i].amount + accrued[i] <= profit[i].amount + accrued'[i]

LEMMA Rows ==
  ASSUME Basics
  PROVE  /\ now \in Nat /\ profit \in Seq(Row) /\ DOMAIN profit = 1..Len(profit)
         /\ Len(profit) \in Nat /\ DOMAIN profit \subseteq Ids
         /\ \A i \in DOMAIN profit : profit[i] \in Row
         /\ MaxRows \in Nat
BY BoundsAssumption DEF Basics, TypeOK, Ids

LEMMA RowsNext ==
  ASSUME Basics'
  PROVE  /\ DOMAIN profit' \subseteq Ids /\ \A i \in DOMAIN profit' : profit'[i] \in Row
<1>1. profit' \in Seq(Row) /\ Len(profit') <= MaxRows
  BY DEF Basics, TypeOK
<1> QED BY <1>1, Numbers DEF Ids

LEMMA RowsUnchanged ==
  ASSUME Basics, UNCHANGED profit
  PROVE  RowsStay
BY Rows DEF RowsStay, Basics, TypeOK

LEMMA RowUpdated ==
  ASSUME Basics, NEW i \in DOMAIN profit, NEW r \in Row, profit' = [profit EXCEPT ![i] = r],
         r.feature = profit[i].feature, r.updatedAt = now
  PROVE  /\ RowsStay /\ DOMAIN profit' = DOMAIN profit
         /\ profit'[i] = r /\ \A j \in DOMAIN profit \ {i} : profit'[j] = profit[j]
<1>1. /\ profit' \in Seq(Row) /\ Len(profit') = Len(profit) /\ DOMAIN profit' = DOMAIN profit
      /\ profit'[i] = r /\ \A j \in DOMAIN profit \ {i} : profit'[j] = profit[j]
  BY Rows, RowWritten
<1> QED BY <1>1 DEF RowsStay, Basics, TypeOK

LEMMA RowInserted ==
  ASSUME Basics, Len(profit) < MaxRows, NEW r \in Row, profit' = Append(profit, r),
         r.amount = 0, r.updatedAt = now
  PROVE  /\ RowsStay
         /\ DOMAIN profit' = DOMAIN profit \union {Len(profit) + 1}
         /\ Len(profit) + 1 \notin DOMAIN profit
         /\ profit'[Len(profit) + 1] = r
         /\ \A j \in DOMAIN profit : profit'[j] = profit[j]
<1>1. /\ profit' \in Seq(Row) /\ Len(profit') = Len(profit) + 1
      /\ DOMAIN profit' = DOMAIN profit \union {Len(profit) + 1}
      /\ Len(profit) + 1 \notin DOMAIN profit
      /\ profit'[Len(profit) + 1] = r /\ \A j \in DOMAIN profit : profit'[j] = profit[j]
  BY Rows, RowAdded
<1>2. Len(profit') <= MaxRows
  BY <1>1, Rows
<1> QED BY <1>1, <1>2 DEF RowsStay

(* What a step leaves to a goroutine that does not take it. *)
LEMMA BystanderPaid ==
  ASSUME Basics, Basics', RowsStay, AmountsAgree, faults' = 0 => faults = 0,
         NEW t \in Tasks, PaidFor(t), task'[t] = task[t], credited'[t] = credited[t]
  PROVE  PaidFor(t)'
<1>1. /\ credited[t] \in [Ids -> Nat] /\ accrued \in [Ids -> Nat] /\ accrued' \in [Ids -> Nat]
  BY DEF Basics, TypeOK
<1>2. ASSUME NEW i \in Ids \ DOMAIN profit' PROVE credited'[t][i] <= accrued'[i]
  BY <1>1, <1>2 DEF RowsStay, AmountsAgree, PaidFor
<1>3. ASSUME faults' = 0, NEW i \in DOMAIN profit', SoleRow(i)' PROVE Paid(t, i)'
  <2>1. /\ i \in Ids /\ profit'[i].amount \in Nat /\ task[t] \in Task
        /\ credited[t][i] \in Nat /\ accrued[i] \in Nat /\ accrued'[i] \in Nat
        /\ task[t].seen[i] \in Nat
    <3>1. i \in Ids /\ profit'[i] \in Row
      BY <1>3, RowsNext
    <3>2. task[t] \in Task
      BY DEF Basics, TypeOK
    <3> QED BY <1>1, <3>1, <3>2 DEF Row, Task
  <2>2. CASE i \in DOMAIN profit
    <3>1. SoleRow(i)
      BY <1>3, <2>2 DEF SoleRow, RowsStay
    <3>2. Paid(t, i)
      BY <1>3, <2>2, <3>1 DEF PaidFor
    <3>3. /\ ToCredit(t, i)' => ToCredit(t, i)
          /\ Unreset(t, i) => Unreset(t, i)'
      BY <2>2 DEF ToCredit, Unreset, Current, RowsStay
    <3>4. /\ profit[i].amount \in Nat /\ accrued'[i] >= accrued[i]
          /\ profit'[i].amount + accrued[i] <= profit[i].amount + accrued'[i]
      BY <2>1, <2>2, Rows DEF AmountsAgree, Row
    <3> QED BY <2>1, <3>2, <3>3, <3>4 DEF Paid
  <2>3. CASE i \notin DOMAIN profit
    <3>1. credited[t][i] <= accrued[i] /\ accrued'[i] >= accrued[i] /\ profit'[i].amount = 0
      BY <1>3, <2>1, <2>3 DEF PaidFor, AmountsAgree, RowsStay
    <3>2. ~ ToCredit(t, i)'
      BY <2>3 DEF ToCredit, Basics, OnCourse
    <3>3. credited[t][i] + profit'[i].amount = credited[t][i] /\ credited[t][i] <= accrued'[i]
      BY <2>1, <3>1
    <3> QED BY <3>2, <3>3 DEF Paid
  <2> QED BY <2>2, <2>3
<1> QED BY <1>2, <1>3 DEF PaidFor

-----------------------------------------------------------------------------
(* Steps that no goroutine takes *)

TableStep ==
  /\ Basics' /\ RowsStay /\ AmountsAgree
  /\ UNCHANGED <<task, credited>>
  /\ faults' = 0 => faults = 0

LEMMA FaultType ==
  ASSUME Basics, Fault \/ UNCHANGED faults
  PROVE  /\ faults' \in 0..MaxFaults
         /\ faults' = 0 => faults = 0 /\ UNCHANGED faults
BY Numbers DEF Basics, TypeOK, Fault

LEMMA StampsKept ==
  ASSUME Basics, RowsStay, UNCHANGED <<now, lastAccrual>>
  PROVE  StampsAreOld'
<1>1. \A i \in DOMAIN profit' : i \in Ids
  BY Numbers DEF RowsStay, Ids
<1>2. now \in Nat /\ lastAccrual \in [Ids -> Int]
  BY Rows DEF Basics, TypeOK
<1> QED BY <1>1, <1>2 DEF StampsAreOld, RowsStay, Basics

LEMMA OnCourseKept ==
  ASSUME Basics, RowsStay, NEW t \in Tasks, task'[t] = task[t]
  PROVE  OnCourse(task[t])'
BY DEF Basics, OnCourse, RowsStay, IsSale

LEMMA AmountsKept ==
  ASSUME Basics, UNCHANGED accrued,
         \A i \in DOMAIN profit : profit'[i].amount = profit[i].amount
  PROVE  AmountsAgree
<1>1. \A i \in DOMAIN profit : i \in Ids /\ profit[i].amount \in Nat
  BY Rows DEF Row
<1>2. accrued \in [Ids -> Nat]
  BY DEF Basics, TypeOK
<1> QED BY <1>1, <1>2 DEF AmountsAgree

(* A calculator moves to k. *)
LEMMA CalcMoves ==
  ASSUME Basics, RowsStay, NEW c \in Calculators, NEW k \in Calc, k.batch \subseteq DOMAIN profit,
         calc' = [calc EXCEPT ![c] = k]
  PROVE  /\ calc' \in [Calculators -> Calc]
         /\ \A d \in Calculators : calc'[d].batch \subseteq DOMAIN profit'
BY DEF Basics, TypeOK, RowsStay

LEMMA TickOK ==
  ASSUME Basics, Tick
  PROVE  TableStep
<1>1. RowsStay
  BY RowsUnchanged DEF Tick
<1>2. AmountsAgree
  BY AmountsKept DEF Tick, history
<1>3. now' \in 0..MaxTime /\ now \in Nat /\ now' = now + 1
  BY Numbers, Rows DEF Tick, Basics, TypeOK
<1>4. TypeOK'
  BY <1>3 DEF Tick, history, Basics, TypeOK
<1>5. StampsAreOld'
  <2>1. lastAccrual \in [Ids -> Int] /\ DOMAIN profit \subseteq Ids
    BY Rows DEF Basics, TypeOK
  <2> QED BY <1>3, <2>1 DEF Tick, history, Basics, StampsAreOld
<1>6. \A t \in Tasks : OnCourse(task[t])'
  BY <1>1, OnCourseKept DEF Tick
<1>7. Basics'
  BY <1>4, <1>5, <1>6 DEF Tick, Basics
<1> QED BY <1>1, <1>2, <1>7 DEF Tick, history, TableStep

LEMMA BuyOK ==
  ASSUME Basics, NEW f \in Features, NEW u \in Users, BuyFromRgb(f, u)
  PROVE  TableStep
<1>1. RowsStay /\ \A i \in DOMAIN profit : profit'[i] = profit[i]
  <2>1. CASE UNCHANGED profit
    BY <2>1, RowsUnchanged
  <2>2. CASE profit' = Append(profit, NewRow(f, u, "color"))
    <3>1. PICK r : r = NewRow(f, u, "color")
      OBVIOUS
    <3>2. r \in Row /\ r.amount = 0 /\ r.updatedAt = now
      BY <3>1, Rows, NewRowType
    <3> QED BY <2>2, <3>1, <3>2, RowInserted DEF BuyFromRgb
  <2> QED BY <2>1, <2>2 DEF BuyFromRgb
<1>2. AmountsAgree
  BY <1>1, AmountsKept DEF BuyFromRgb, history
<1>3. faults' \in 0..MaxFaults /\ (faults' = 0 => faults = 0)
  BY FaultType DEF BuyFromRgb
<1>4. TypeOK'
  BY <1>1, <1>3 DEF BuyFromRgb, history, Basics, TypeOK, RowsStay
<1>5. StampsAreOld'
  BY <1>1, StampsKept DEF BuyFromRgb, history
<1>6. \A t \in Tasks : OnCourse(task[t])'
  BY <1>1, OnCourseKept DEF BuyFromRgb
<1>7. Basics'
  BY <1>1, <1>4, <1>5, <1>6 DEF BuyFromRgb, Basics, RowsStay
<1> QED BY <1>1, <1>2, <1>3, <1>7 DEF BuyFromRgb, history, TableStep

LEMMA SetActiveOK ==
  ASSUME Basics, NEW f \in Features, NEW b \in BOOLEAN, SetActive(f, b)
  PROVE  /\ TableStep
         /\ DOMAIN profit' = DOMAIN profit
         /\ \A i \in DOMAIN profit : profit'[i].user = profit[i].user
<1>1. /\ profit' \in Seq(Row) /\ Len(profit') = Len(profit) /\ DOMAIN profit' = DOMAIN profit
      /\ \A i \in DOMAIN profit :
           /\ profit'[i].feature = profit[i].feature /\ profit'[i].user = profit[i].user
           /\ profit'[i].amount = profit[i].amount
           /\ profit'[i].updatedAt \in {now, profit[i].updatedAt}
  <2>1. ASSUME NEW r \in Row, NEW s, s = [r EXCEPT !.active = b, !.updatedAt = now]
        PROVE  /\ s \in Row /\ s.feature = r.feature /\ s.user = r.user /\ s.amount = r.amount
               /\ s.updatedAt = now
    BY <2>1, Rows DEF Row
  <2>2. \A i \in DOMAIN profit :
          /\ profit'[i] \in Row
          /\ profit'[i].feature = profit[i].feature /\ profit'[i].user = profit[i].user
          /\ profit'[i].amount = profit[i].amount
          /\ profit'[i].updatedAt \in {now, profit[i].updatedAt}
    BY <2>1, Rows DEF SetActive
  <2>3. DOMAIN profit' = DOMAIN profit /\ profit' \in [DOMAIN profit -> Row]
    BY <2>2 DEF SetActive
  <2>4. profit' \in Seq(Row) /\ Len(profit') = Len(profit)
    BY <2>3, Rows
  <2> QED BY <2>2, <2>3, <2>4
<1>2. RowsStay
  BY <1>1 DEF RowsStay, Basics, TypeOK
<1>3. AmountsAgree
  BY <1>1, AmountsKept DEF SetActive, history
<1>4. TypeOK'
  BY <1>2 DEF SetActive, history, Basics, TypeOK, RowsStay
<1>5. StampsAreOld'
  BY <1>2, StampsKept DEF SetActive, history
<1>6. \A t \in Tasks : OnCourse(task[t])'
  BY <1>2, OnCourseKept DEF SetActive
<1>7. Basics'
  BY <1>2, <1>4, <1>5, <1>6 DEF SetActive, Basics, RowsStay
<1> QED BY <1>1, <1>2, <1>3, <1>7 DEF SetActive, history, TableStep

-----------------------------------------------------------------------------
(* The calculator *)

(* A step of c that increments nothing. *)
LEMMA CalcRests ==
  ASSUME Basics, NEW c \in Calculators, NEW k \in Calc, k.batch \subseteq DOMAIN profit,
         calc' = [calc EXCEPT ![c] = k], UNCHANGED <<profit, accrued, lastAccrual>>,
         CalcUnchanged, Fault \/ UNCHANGED faults
  PROVE  TableStep
<1>1. RowsStay
  BY RowsUnchanged
<1>2. AmountsAgree
  BY AmountsKept
<1>3. faults' \in 0..MaxFaults /\ (faults' = 0 => faults = 0)
  BY FaultType
<1>4. /\ calc' \in [Calculators -> Calc]
      /\ \A d \in Calculators : calc'[d].batch \subseteq DOMAIN profit'
  BY <1>1, CalcMoves
<1>5. TypeOK'
  BY <1>3, <1>4 DEF CalcUnchanged, Basics, TypeOK
<1>6. StampsAreOld'
  BY <1>1, StampsKept DEF CalcUnchanged
<1>7. \A t \in Tasks : OnCourse(task[t])'
  BY <1>1, OnCourseKept DEF CalcUnchanged
<1>8. Basics'
  BY <1>4, <1>5, <1>6, <1>7 DEF Basics
<1> QED BY <1>1, <1>2, <1>3, <1>8 DEF CalcUnchanged, TableStep

(* c increments row i. *)
Accrues(c, i) ==
  /\ i \in calc[c].batch
  /\ profit' = [profit EXCEPT ![i].amount = @ + 1, ![i].updatedAt = now]
  /\ accrued' = [accrued EXCEPT ![i] = @ + 1]
  /\ lastAccrual' = [lastAccrual EXCEPT ![i] = now]
  /\ calc' = [calc EXCEPT ![c].batch = @ \ {i}, ![c].updated = TRUE]
  /\ UNCHANGED faults
  /\ CalcUnchanged

LEMMA AccruesOK ==
  ASSUME Basics, NEW c \in Calculators, NEW i, Accrues(c, i)
  PROVE  /\ TableStep
         /\ DOMAIN profit' = DOMAIN profit
         /\ \A j \in DOMAIN profit : profit'[j].user = profit[j].user
<1>1. i \in DOMAIN profit /\ i \in Ids
  BY Rows DEF Accrues, Basics
<1>2. PICK r \in Row : /\ r = [profit[i] EXCEPT !.amount = @ + 1, !.updatedAt = now]
                       /\ r.amount = profit[i].amount + 1 /\ r.updatedAt = now
                       /\ r.feature = profit[i].feature /\ r.user = profit[i].user
  <2>1. PICK q \in Row : q = profit[i]
    BY <1>1, Rows
  <2>2. PICK r : r = [q EXCEPT !.amount = q.amount + 1, !.updatedAt = now]
    OBVIOUS
  <2>3. /\ r \in Row /\ r.feature = q.feature /\ r.user = q.user
        /\ r.amount = q.amount + 1 /\ r.updatedAt = now
    BY <2>2, Rows, IncrementType
  <2> QED BY <2>1, <2>2, <2>3
<1>3. profit' = [profit EXCEPT ![i] = r]
  BY <1>1, <1>2, Rows DEF Accrues
<1>4. /\ RowsStay /\ DOMAIN profit' = DOMAIN profit
      /\ profit'[i] = r /\ \A j \in DOMAIN profit \ {i} : profit'[j] = profit[j]
  BY <1>1, <1>2, <1>3, RowUpdated
<1>5. /\ accrued \in [Ids -> Nat] /\ accrued' \in [Ids -> Nat]
      /\ accrued'[i] = accrued[i] + 1 /\ \A j \in Ids \ {i} : accrued'[j] = accrued[j]
  BY <1>1 DEF Accrues, Basics, TypeOK
<1>6. /\ lastAccrual \in [Ids -> Int] /\ lastAccrual' \in [Ids -> Int]
      /\ lastAccrual'[i] = now /\ \A j \in Ids \ {i} : lastAccrual'[j] = lastAccrual[j]
  BY <1>1, Rows DEF Accrues, Basics, TypeOK
<1>7. AmountsAgree
  <2>1. \A j \in DOMAIN profit : j \in Ids /\ profit[j].amount \in Nat
    BY Rows DEF Row
  <2>2. \A j \in Ids : accrued[j] \in Nat /\ accrued'[j] >= accrued[j]
    BY <1>5
  <2>3. profit'[i].amount + accrued[i] <= profit[i].amount + accrued'[i]
    BY <1>1, <1>2, <1>4, <1>5, <2>1, <2>2
  <2>4. \A j \in DOMAIN profit \ {i} :
          profit'[j].amount + accrued[j] <= profit[j].amount + accrued'[j]
    BY <1>4, <1>5, <2>1, <2>2
  <2> QED BY <2>2, <2>3, <2>4 DEF AmountsAgree
<1>8. PICK k \in Calc : /\ k = [calc[c] EXCEPT !.batch = @ \ {i}, !.updated = TRUE]
                        /\ k.batch \subseteq DOMAIN profit
  <2>1. PICK q \in Calc : q = calc[c] /\ q.batch \subseteq DOMAIN profit
    BY DEF Basics, TypeOK
  <2>2. PICK k : k = [q EXCEPT !.batch = q.batch \ {i}, !.updated = TRUE]
    OBVIOUS
  <2>3. k \in Calc /\ k.batch = q.batch \ {i}
    BY <2>2, BatchType
  <2> QED BY <2>1, <2>2, <2>3
<1>9. calc' = [calc EXCEPT ![c] = k]
  BY <1>8 DEF Accrues, Basics, TypeOK
<1>10. /\ calc' \in [Calculators -> Calc]
       /\ \A d \in Calculators : calc'[d].batch \subseteq DOMAIN profit'
  BY <1>4, <1>8, <1>9, CalcMoves
<1>11. TypeOK'
  BY <1>4, <1>5, <1>6, <1>10 DEF Accrues, CalcUnchanged, Basics, TypeOK, RowsStay
<1>12. StampsAreOld'
  <2>1. \A j \in Ids : lastAccrual'[j] <= now
    BY <1>6, Rows DEF Basics, StampsAreOld
  <2>2. \A j \in DOMAIN profit : lastAccrual'[j] <= profit'[j].updatedAt
    <3>1. lastAccrual'[i] <= profit'[i].updatedAt
      BY <1>2, <1>4, <1>6, Rows
    <3>2. ASSUME NEW j \in DOMAIN profit \ {i} PROVE lastAccrual'[j] <= profit'[j].updatedAt
      BY <1>4, <1>6, Rows DEF Basics, StampsAreOld
    <3> QED BY <3>1, <3>2
  <2> QED BY <1>4, <2>1, <2>2 DEF StampsAreOld, Accrues, CalcUnchanged
<1>13. \A t \in Tasks : OnCourse(task[t])'
  BY <1>4, OnCourseKept DEF Accrues, CalcUnchanged
<1>14. Basics'
  BY <1>10, <1>11, <1>12, <1>13 DEF Basics
<1> QED BY <1>2, <1>4, <1>7, <1>14 DEF Accrues, CalcUnchanged, TableStep

LEMMA CalcStepOK ==
  ASSUME Basics, NEW c \in Calculators, CalcStep(c)
  PROVE  /\ TableStep
         /\ \/ \E i : Accrues(c, i)
            \/ /\ UNCHANGED <<now, profit, accrued, lastAccrual>>
               /\ \E k \in Calc :
                    /\ calc' = [calc EXCEPT ![c] = k]
                    /\ k.batch \subseteq calc[c].batch \union {i \in DOMAIN profit : Eligible(i)}
<1>1. PICK q \in Calc : q = calc[c] /\ q.batch \subseteq DOMAIN profit
  BY DEF Basics, TypeOK
<1>2. /\ IdleCalc \in Calc /\ IdleCalc.batch = {}
      /\ calc \in [Calculators -> Calc]
  BY IdleCalcType DEF IdleCalc, Basics, TypeOK
<1>3. CASE StartRun(c)
  <2>1. PICK k : k = [IdleCalc EXCEPT !.pc = "select"]
    OBVIOUS
  <2>2. k \in Calc /\ k.batch = {}
    BY <1>2, <2>1 DEF Calc
  <2>3. calc' = [calc EXCEPT ![c] = k]
    BY <1>3, <2>1 DEF StartRun
  <2> QED BY <1>3, <2>2, <2>3, CalcRests DEF StartRun, CalcUnchanged
<1>4. CASE SelectBatch(c)
  <2>1. PICK k \in Calc : /\ k.batch \subseteq {i \in DOMAIN profit : Eligible(i)}
                          /\ calc' = [calc EXCEPT ![c] = k]
    <3>1. CASE calc' = [calc EXCEPT ![c] = IdleCalc]
      BY <1>2, <3>1
    <3>2. ASSUME NEW batch \in SUBSET {i \in DOMAIN profit : Eligible(i)},
                 calc' = [calc EXCEPT ![c].pc = "update", ![c].batch = batch, ![c].updated = FALSE]
          PROVE  \E k \in Calc : /\ k.batch \subseteq {i \in DOMAIN profit : Eligible(i)}
                                 /\ calc' = [calc EXCEPT ![c] = k]
      <4>1. PICK k : k = [q EXCEPT !.pc = "update", !.batch = batch, !.updated = FALSE]
        OBVIOUS
      <4>2. batch \in SUBSET Ids
        BY Rows
      <4>3. k \in Calc /\ k.batch = batch
        BY <4>1, <4>2 DEF Calc
      <4>4. calc' = [calc EXCEPT ![c] = k]
        BY <1>1, <1>2, <3>2, <4>1
      <4> QED BY <4>3, <4>4
    <3> QED BY <1>4, <3>1, <3>2 DEF SelectBatch, kSubset
  <2> QED BY <1>4, <2>1, CalcRests DEF SelectBatch, CalcUnchanged
<1>5. CASE UpdateRow(c)
  <2>1. PICK i \in calc[c].batch :
          \/ Accrues(c, i)
          \/ /\ Fault \/ UNCHANGED faults
             /\ calc' = [calc EXCEPT ![c].batch = @ \ {i}]
             /\ UNCHANGED <<profit, accrued, lastAccrual>>
    BY <1>5 DEF UpdateRow, Accrues
  <2>2. CASE Accrues(c, i)
    BY <2>2, AccruesOK
  <2>3. CASE ~ Accrues(c, i)
    <3>1. PICK k : k = [q EXCEPT !.batch = q.batch \ {i}]
      OBVIOUS
    <3>2. q.batch \ {i} \in SUBSET Ids
      BY DEF Calc
    <3>3. k \in Calc /\ k.batch = q.batch \ {i}
      BY <3>1, <3>2 DEF Calc
    <3>4. calc' = [calc EXCEPT ![c] = k]
      BY <1>1, <1>2, <2>1, <2>3, <3>1
    <3>5. CalcUnchanged
      BY <1>5 DEF UpdateRow
    <3>6. TableStep
      BY <1>1, <2>1, <2>3, <3>3, <3>4, <3>5, CalcRests
    <3> QED BY <1>1, <2>1, <2>3, <3>3, <3>4, <3>5, <3>6 DEF CalcUnchanged
  <2> QED BY <2>2, <2>3
<1>6. CASE EndBatch(c)
  <2>1. PICK k : k = IF q.updated /\ q.batches + 1 < MaxBatches
                       THEN [IdleCalc EXCEPT !.pc = "select", !.batches = q.batches + 1]
                       ELSE IdleCalc
    OBVIOUS
  <2>2. k \in Calc /\ k.batch = {}
    <3>1. q.batches \in Nat /\ (q.batches + 1 < MaxBatches => q.batches + 1 \in 0..MaxBatches)
      BY Numbers DEF Calc
    <3> QED BY <1>2, <2>1, <3>1 DEF Calc
  <2>3. calc' = [calc EXCEPT ![c] = k]
    BY <1>1, <1>6, <2>1 DEF EndBatch
  <2> QED BY <1>6, <2>2, <2>3, CalcRests DEF EndBatch, CalcUnchanged
<1> QED BY <1>3, <1>4, <1>5, <1>6 DEF CalcStep

-----------------------------------------------------------------------------
(* Goroutines *)

(* t moves to k. *)
Moves(t, k) == task' = [task EXCEPT ![t] = k]

TaskStepped(t) ==
  /\ Basics' /\ RowsStay /\ AmountsAgree
  /\ \A d \in Tasks \ {t} : task'[d] = task[d] /\ credited'[d] = credited[d]
  /\ faults' = 0 => faults = 0
  /\ UNCHANGED <<accrued, lastAccrual>>

(* What every step of a goroutine does to everything but its own slot. *)
LEMMA TaskRests ==
  ASSUME Basics, RowsStay, NEW t \in Tasks, NEW k \in Task, Moves(t, k), OnCourse(k)',
         \A i \in DOMAIN profit : profit'[i].amount <= profit[i].amount,
         owner' \in [Features -> Users \union {Rgb}],
         credited' \in [Tasks -> [Ids -> Nat]],
         \A d \in Tasks \ {t} : credited'[d] = credited[d],
         started' \in 0..MaxTasks, Fault \/ UNCHANGED faults, TaskUnchanged
  PROVE  TaskStepped(t)
<1>1. faults' \in 0..MaxFaults /\ (faults' = 0 => faults = 0)
  BY FaultType
<1>2. task' \in [Tasks -> Task] /\ task'[t] = k /\ \A d \in Tasks \ {t} : task'[d] = task[d]
  BY DEF Moves, Basics, TypeOK
<1>3. \A d \in Tasks : OnCourse(task[d])'
  <2>1. \A d \in Tasks \ {t} : OnCourse(task[d])'
    BY <1>2, OnCourseKept
  <2>2. OnCourse(task[t])'
    BY <1>2 DEF OnCourse
  <2> QED BY <2>1, <2>2
<1>4. TypeOK'
  BY <1>1, <1>2 DEF TaskUnchanged, Basics, TypeOK, RowsStay
<1>5. StampsAreOld'
  BY StampsKept DEF TaskUnchanged
<1>6. Basics'
  BY <1>3, <1>4, <1>5 DEF TaskUnchanged, Basics, RowsStay
<1>7. AmountsAgree
  <2>1. \A i \in DOMAIN profit : i \in Ids /\ profit[i].amount \in Nat /\ i \in DOMAIN profit'
    BY Rows DEF Row, RowsStay
  <2>2. \A i \in DOMAIN profit : profit'[i].amount \in Nat
    BY <1>6, <2>1, RowsNext DEF Row
  <2>3. accrued \in [Ids -> Nat] /\ accrued' = accrued
    BY DEF TaskUnchanged, Basics, TypeOK
  <2> QED BY <2>1, <2>2, <2>3 DEF AmountsAgree
<1> QED BY <1>1, <1>2, <1>6, <1>7 DEF TaskStepped, TaskUnchanged

LEMMA AmountsType ==
  ASSUME Basics
  PROVE  Amounts \in [Ids -> Nat] /\ \A i \in DOMAIN profit : Amounts[i] = profit[i].amount
<1>1. \A i \in DOMAIN profit : i \in Ids /\ profit[i].amount \in Nat
  BY Rows DEF Row
<1> QED BY <1>1 DEF Amounts

LEMMA Accepts ==
  ASSUME Basics, NEW t \in Tasks, Accept(t)
  PROVE  started' \in 0..MaxTasks /\ task[t].pc = "idle"
BY Numbers DEF Accept, Basics, TypeOK

LEMMA WithdrawalStarts ==
  ASSUME Basics, NEW t \in Tasks, GetSingleProfit(t) \/ GetProfitsByApplication(t)
  PROVE  /\ TaskStepped(t)
         /\ UNCHANGED <<owner, profit, credited, faults>>
         /\ task[t].pc = "idle"
         /\ \E k \in Task : /\ Moves(t, k) /\ ~ IsSale(k) /\ k.pc = "settle" /\ k.seen = Amounts
                           /\ k.todo \subseteq DOMAIN profit
<1>1. PICK q : q = IdleTask
  OBVIOUS
<1>2. q \in Task
  BY <1>1, IdleType
<1>3. PICK seen \in [Ids -> Nat] : seen = Amounts
  BY AmountsType
<1>4. PICK k \in Task : /\ Moves(t, k) /\ ~ IsSale(k) /\ k.pc = "settle" /\ k.seen = seen
                        /\ k.todo \subseteq DOMAIN profit
  <2>1. CASE GetSingleProfit(t)
    <3>1. PICK i \in DOMAIN profit :
            task' = [task EXCEPT ![t] =
              [q EXCEPT !.op = "single", !.pc = "settle", !.todo = {i}, !.seen = seen,
                        !.user = profit[i].user]]
      BY <1>1, <1>3, <2>1 DEF GetSingleProfit
    <3>2. PICK u \in Users : u = profit[i].user
      BY Rows DEF Row
    <3>3. PICK k : k = [q EXCEPT !.op = "single", !.pc = "settle", !.todo = {i}, !.seen = seen,
                                 !.user = u]
      OBVIOUS
    <3>4. {i} \in SUBSET Ids
      BY Rows
    <3>5. k \in Task /\ k.op = "single" /\ k.pc = "settle" /\ k.seen = seen /\ k.todo = {i}
      BY <1>2, <3>3, <3>4 DEF Task
    <3> QED BY <3>1, <3>2, <3>3, <3>5 DEF Moves, IsSale
  <2>2. CASE GetProfitsByApplication(t)
    <3>1. PICK u \in Users, rows \in SUBSET DOMAIN profit :
            task' = [task EXCEPT ![t] =
              [q EXCEPT !.op = "karbari", !.pc = "settle", !.todo = rows, !.seen = seen,
                        !.user = u]]
      BY <1>1, <1>3, <2>2 DEF GetProfitsByApplication
    <3>2. PICK k : k = [q EXCEPT !.op = "karbari", !.pc = "settle", !.todo = rows, !.seen = seen,
                                 !.user = u]
      OBVIOUS
    <3>3. rows \in SUBSET Ids
      BY Rows
    <3>4. k \in Task /\ k.op = "karbari" /\ k.pc = "settle" /\ k.seen = seen /\ k.todo = rows
      BY <1>2, <3>2, <3>3 DEF Task
    <3> QED BY <3>1, <3>2, <3>4 DEF Moves, IsSale
  <2> QED BY <2>1, <2>2
<1>5. /\ UNCHANGED <<owner, profit, credited, faults>> /\ TaskUnchanged /\ Accept(t)
  BY DEF GetSingleProfit, GetProfitsByApplication
<1>6. started' \in 0..MaxTasks /\ task[t].pc = "idle"
  BY <1>5, Accepts
<1>7. RowsStay
  BY <1>5, RowsUnchanged
<1>8. OnCourse(k)'
  BY <1>4, <1>5 DEF OnCourse
<1>9. owner' \in [Features -> Users \union {Rgb}] /\ credited' \in [Tasks -> [Ids -> Nat]]
  BY <1>5 DEF Basics, TypeOK
<1>10. \A i \in DOMAIN profit : profit'[i].amount <= profit[i].amount
  BY <1>5, Rows DEF Row
<1>11. TaskStepped(t)
  BY <1>4, <1>5, <1>6, <1>7, <1>8, <1>9, <1>10, TaskRests
<1> QED BY <1>3, <1>4, <1>5, <1>6, <1>11

LEMMA SaleStarts ==
  ASSUME Basics, NEW t \in Tasks, StartSale(t)
  PROVE  /\ TaskStepped(t)
         /\ UNCHANGED <<owner, profit, credited, faults>>
         /\ task[t].pc = "idle"
         /\ \E k \in Task : /\ Moves(t, k) /\ IsSale(k) /\ k.todo = {}
                           /\ k.pc = (IF k.op = "sale" THEN "own" ELSE "look")
                           /\ k.user = owner[k.feature]
<1>1. PICK k \in Task : /\ Moves(t, k) /\ IsSale(k) /\ k.todo = {}
                        /\ k.pc = (IF k.op = "sale" THEN "own" ELSE "look")
                        /\ k.user = owner[k.feature]
  <2>1. PICK f \in Features, buyer \in Users, op \in {"sale", "accept"}, u \in Users :
          /\ u = owner[f]
          /\ task' = [task EXCEPT ![t] =
               [op |-> op, pc |-> IF op = "sale" THEN "own" ELSE "look", todo |-> {},
                seen |-> NoAmount, user |-> u, feature |-> f, buyer |-> buyer]]
    BY DEF StartSale
  <2>2. PICK k : k = [op |-> op, pc |-> IF op = "sale" THEN "own" ELSE "look", todo |-> {},
                      seen |-> NoAmount, user |-> u, feature |-> f, buyer |-> buyer]
    OBVIOUS
  <2>3. NoAmount \in [Ids -> Nat]
    BY DEF NoAmount
  <2>4. k \in Task
    BY <2>2, <2>3 DEF Task
  <2> QED BY <2>1, <2>2, <2>4 DEF Moves, IsSale
<1>2. /\ UNCHANGED <<owner, profit, credited, faults>> /\ TaskUnchanged /\ Accept(t)
  BY DEF StartSale
<1>3. started' \in 0..MaxTasks /\ task[t].pc = "idle"
  BY <1>2, Accepts
<1>4. RowsStay
  BY <1>2, RowsUnchanged
<1>5. OnCourse(k)'
  BY <1>1 DEF OnCourse, IsSale
<1>6. owner' \in [Features -> Users \union {Rgb}] /\ credited' \in [Tasks -> [Ids -> Nat]]
  BY <1>2 DEF Basics, TypeOK
<1>7. \A i \in DOMAIN profit : profit'[i].amount <= profit[i].amount
  BY <1>2, Rows DEF Row
<1>8. TaskStepped(t)
  BY <1>1, <1>2, <1>3, <1>4, <1>5, <1>6, <1>7, TaskRests
<1> QED BY <1>1, <1>2, <1>3, <1>8

LEMMA OwnerStep ==
  ASSUME Basics, NEW t \in Tasks, UpdateOwner(t)
  PROVE  /\ TaskStepped(t)
         /\ UNCHANGED <<profit, credited>>
         /\ task[t].pc = "own" /\ task[t].op = "sale" /\ task[t] \in Task
         /\ \E k \in Task : Moves(t, k) /\ k.pc \in {"look", "idle"} /\ k.todo \subseteq task[t].todo
         /\ faults' = 0 =>
              /\ owner' = [owner EXCEPT ![task[t].feature] = task[t].buyer]
              /\ task' = [task EXCEPT ![t].pc = "look"]
<1>1. PICK q \in Task : q = task[t]
  BY DEF Basics, TypeOK
<1>2. q.pc = "own" /\ q.op = "sale" /\ OnCourse(q)
  BY <1>1 DEF UpdateOwner, Basics, OnCourse
<1>3. PICK k \in Task : /\ Moves(t, k) /\ k.pc \in {"look", "idle"} /\ OnCourse(k)
                        /\ k.todo \subseteq q.todo
  <2>1. CASE task' = [task EXCEPT ![t] = IdleTask]
    BY <2>1, IdleType DEF Moves, OnCourse, IsSale
  <2>2. CASE task' = [task EXCEPT ![t].pc = "look"]
    <3>1. PICK k : k = [q EXCEPT !.pc = "look"]
      OBVIOUS
    <3>2. /\ k \in Task /\ k.pc = "look" /\ k.op = q.op /\ k.todo = q.todo
          /\ k.feature = q.feature
      BY <3>1 DEF Task
    <3>3. Moves(t, k)
      BY <1>1, <2>2, <3>1 DEF Moves, Basics, TypeOK
    <3> QED BY <1>2, <3>2, <3>3 DEF OnCourse, IsSale
  <2> QED BY <2>1, <2>2 DEF UpdateOwner
<1>4. /\ UNCHANGED <<profit, credited, started>> /\ TaskUnchanged
      /\ Fault \/ UNCHANGED faults
      /\ owner' \in {owner, [owner EXCEPT ![q.feature] = q.buyer]}
  BY <1>1 DEF UpdateOwner
<1>5. RowsStay
  BY <1>4, RowsUnchanged
<1>6. OnCourse(k)'
  BY <1>3, <1>4 DEF OnCourse, IsSale
<1>7. /\ owner' \in [Features -> Users \union {Rgb}] /\ credited' \in [Tasks -> [Ids -> Nat]]
      /\ started' \in 0..MaxTasks
  <2>1. q.buyer \in Users /\ q.feature \in Features
    BY DEF Task
  <2> QED BY <1>4, <2>1 DEF Basics, TypeOK
<1>8. \A i \in DOMAIN profit : profit'[i].amount <= profit[i].amount
  BY <1>4, Rows DEF Row
<1>9. TaskStepped(t)
  BY <1>3, <1>4, <1>5, <1>6, <1>7, <1>8, TaskRests
<1>10. faults' = 0 => UNCHANGED faults /\ faults \in Nat
  BY <1>4, FaultType DEF Basics, TypeOK
<1>11. faults' = 0 =>
              /\ owner' = [owner EXCEPT ![task[t].feature] = task[t].buyer]
              /\ task' = [task EXCEPT ![t].pc = "look"]
  BY <1>10 DEF UpdateOwner, Fault
<1> QED BY <1>1, <1>2, <1>3, <1>4, <1>9, <1>11

LEMMA LookUpStep ==
  ASSUME Basics, NEW t \in Tasks, LookUpProfit(t)
  PROVE  /\ TaskStepped(t)
         /\ UNCHANGED <<owner, profit, credited>>
         /\ task[t].pc = "look" /\ IsSale(task[t]) /\ task[t] \in Task
         /\ \E k \in Task :
              /\ Moves(t, k)
              /\ k.op = task[t].op /\ k.user = task[t].user /\ k.feature = task[t].feature
              /\ k.buyer = task[t].buyer
              /\ \/ k.pc = "settle" /\ k.seen = Amounts /\ k.todo \subseteq DOMAIN profit
                 \/ k.pc = HandOverStep(task[t])
<1>1. PICK q \in Task : q = task[t]
  BY DEF Basics, TypeOK
<1>2. q.pc = "look" /\ IsSale(q) /\ OnCourse(q)
  BY <1>1 DEF LookUpProfit, Basics, OnCourse
<1>3. PICK seen \in [Ids -> Nat] : seen = Amounts
  BY AmountsType
<1>4. PICK k \in Task :
        /\ Moves(t, k)
        /\ k.op = q.op /\ k.user = q.user /\ k.feature = q.feature /\ k.buyer = q.buyer
        /\ \/ k.pc = "settle" /\ k.seen = seen /\ k.todo \subseteq DOMAIN profit
           \/ k.pc = HandOverStep(q)
        /\ OnCourse(k)
  <2>1. ASSUME NEW i \in RowsOf(q.feature, q.user),
               task' = [task EXCEPT ![t] = [q EXCEPT !.pc = "settle", !.todo = {i}, !.seen = seen]]
        PROVE  \E k \in Task :
                 /\ Moves(t, k)
                 /\ k.op = q.op /\ k.user = q.user /\ k.feature = q.feature /\ k.buyer = q.buyer
                 /\ k.pc = "settle" /\ k.seen = seen /\ k.todo \subseteq DOMAIN profit
                 /\ OnCourse(k)
    <3>1. PICK k : k = [q EXCEPT !.pc = "settle", !.todo = {i}, !.seen = seen]
      OBVIOUS
    <3>2. i \in DOMAIN profit /\ profit[i].feature = q.feature /\ {i} \in SUBSET Ids
      BY Rows DEF RowsOf
    <3>3. /\ k \in Task /\ k.pc = "settle" /\ k.todo = {i} /\ k.seen = seen
          /\ k.op = q.op /\ k.user = q.user /\ k.feature = q.feature /\ k.buyer = q.buyer
      BY <3>1, <3>2 DEF Task
    <3>4. OnCourse(k)
      BY <3>2, <3>3 DEF OnCourse
    <3> QED BY <2>1, <3>1, <3>2, <3>3, <3>4 DEF Moves
  <2>2. CASE task' = [task EXCEPT ![t].pc = HandOverStep(q)]
    <3>0. PICK pc \in {"transfer", "commit"} :
            /\ pc = HandOverStep(q)
            /\ q.op = "sale" => pc = "transfer"
            /\ q.op # "sale" => pc = "commit"
      BY DEF HandOverStep
    <3>1. PICK k : k = [q EXCEPT !.pc = pc]
      OBVIOUS
    <3>2. /\ k \in Task /\ k.pc = pc /\ k.todo = q.todo
          /\ k.op = q.op /\ k.user = q.user /\ k.feature = q.feature /\ k.buyer = q.buyer
      BY <3>1 DEF Task
    <3>3. OnCourse(k)
      BY <1>2, <3>0, <3>2 DEF OnCourse, IsSale
    <3>4. Moves(t, k)
      BY <1>1, <2>2, <3>0, <3>1 DEF Moves, Basics, TypeOK
    <3> QED BY <3>0, <3>2, <3>3, <3>4
  <2>3. \/ \E i \in RowsOf(q.feature, q.user) :
             task' = [task EXCEPT ![t] = [q EXCEPT !.pc = "settle", !.todo = {i}, !.seen = seen]]
        \/ task' = [task EXCEPT ![t].pc = HandOverStep(q)]
    BY <1>1, <1>3 DEF LookUpProfit
  <2> QED BY <2>1, <2>2, <2>3
<1>5. /\ UNCHANGED <<owner, profit, credited, started>> /\ TaskUnchanged
      /\ Fault \/ UNCHANGED faults
  BY DEF LookUpProfit
<1>6. RowsStay
  BY <1>5, RowsUnchanged
<1>7. OnCourse(k)'
  BY <1>4, <1>5 DEF OnCourse, IsSale
<1>8. /\ owner' \in [Features -> Users \union {Rgb}] /\ credited' \in [Tasks -> [Ids -> Nat]]
      /\ started' \in 0..MaxTasks
  BY <1>5 DEF Basics, TypeOK
<1>9. \A i \in DOMAIN profit : profit'[i].amount <= profit[i].amount
  BY <1>5, Rows DEF Row
<1>10. TaskStepped(t)
  BY <1>4, <1>5, <1>6, <1>7, <1>8, <1>9, TaskRests
<1> QED BY <1>1, <1>2, <1>3, <1>4, <1>5, <1>10

(* A sale hands over one row of the seller, or makes a row for the buyer. *)
HandsOver(q) ==
  \/ \E i \in RowsOf(q.feature, q.user) : profit' = [profit EXCEPT ![i] = HandOver(@, q.buyer)]
  \/ /\ Len(profit) < MaxRows
     /\ profit' = Append(profit, NewRow(q.feature, q.buyer, NoAsset))

LEMMA HandOverRows ==
  ASSUME Basics, NEW q \in Task, HandsOver(q)
  PROVE  /\ RowsStay
         /\ \A i \in DOMAIN profit :
              /\ profit'[i].amount <= profit[i].amount
              /\ SoleRow(i) /\ SoleRow(i)' /\ profit[i].feature = q.feature => profit'[i].amount = 0
<1>1. \A i \in DOMAIN profit : profit[i].amount \in Nat
  BY Rows DEF Row
<1>2. CASE \E i \in RowsOf(q.feature, q.user) : profit' = [profit EXCEPT ![i] = HandOver(@, q.buyer)]
  <2>1. PICK i \in DOMAIN profit :
          /\ profit[i].feature = q.feature /\ profit[i].user = q.user
          /\ profit' = [profit EXCEPT ![i] = HandOver(profit[i], q.buyer)]
    BY <1>2 DEF RowsOf
  <2>2. PICK r : r = HandOver(profit[i], q.buyer)
    OBVIOUS
  <2>3. r \in Row /\ r.amount = 0 /\ r.feature = profit[i].feature /\ r.updatedAt = now
    <3>1. q.buyer \in Users
      BY DEF Task
    <3> QED BY <2>2, <3>1, Rows, HandOverType
  <2>4. /\ RowsStay /\ DOMAIN profit' = DOMAIN profit
        /\ profit'[i] = r /\ \A j \in DOMAIN profit \ {i} : profit'[j] = profit[j]
    BY <2>1, <2>2, <2>3, RowUpdated
  <2>5. ASSUME NEW j \in DOMAIN profit, SoleRow(j), profit[j].feature = q.feature
        PROVE  profit'[j].amount = 0
    BY <2>1, <2>3, <2>4, <2>5 DEF SoleRow
  <2>6. \A j \in DOMAIN profit : profit'[j].amount <= profit[j].amount
    BY <1>1, <2>3, <2>4
  <2> QED BY <2>4, <2>5, <2>6
<1>3. CASE /\ Len(profit) < MaxRows
           /\ profit' = Append(profit, NewRow(q.feature, q.buyer, NoAsset))
  <2>1. PICK r : r = NewRow(q.feature, q.buyer, NoAsset)
    OBVIOUS
  <2>2. r \in Row /\ r.amount = 0 /\ r.updatedAt = now /\ r.feature = q.feature
    <3>1. q.buyer \in Users /\ q.feature \in Features
      BY DEF Task
    <3> QED BY <2>1, <3>1, Rows, NewRowType
  <2>3. /\ RowsStay
        /\ DOMAIN profit' = DOMAIN profit \union {Len(profit) + 1}
        /\ Len(profit) + 1 \notin DOMAIN profit
        /\ profit'[Len(profit) + 1] = r
        /\ \A j \in DOMAIN profit : profit'[j] = profit[j]
    BY <1>3, <2>1, <2>2, RowInserted
  <2>4. ASSUME NEW j \in DOMAIN profit, SoleRow(j)', profit[j].feature = q.feature
        PROVE  FALSE
    BY <2>2, <2>3, <2>4 DEF SoleRow
  <2>5. \A j \in DOMAIN profit : profit'[j].amount <= profit[j].amount
    BY <1>1, <2>3
  <2> QED BY <2>3, <2>4, <2>5
<1> QED BY <1>2, <1>3 DEF HandsOver

LEMMA HandOverStepOK ==
  ASSUME Basics, NEW t \in Tasks, Transfer(t) \/ CommitAccept(t)
  PROVE  /\ TaskStepped(t)
         /\ UNCHANGED credited /\ Moves(t, IdleTask)
         /\ task[t].pc \in {"transfer", "commit"} /\ task[t] \in Task
         /\ task[t].pc = "transfer" => task[t].op = "sale" /\ UNCHANGED owner
         /\ faults' = 0 =>
              /\ HandsOver(task[t])
              /\ RowsOf(task[t].feature, task[t].user) # {} =>
                   \E i \in RowsOf(task[t].feature, task[t].user) :
                     profit' = [profit EXCEPT ![i] = HandOver(@, task[t].buyer)]
              /\ task[t].pc = "commit" =>
                   /\ task[t].op = "accept"
                   /\ owner' = [owner EXCEPT ![task[t].feature] = task[t].buyer]
<1>1. PICK q \in Task : q = task[t]
  BY DEF Basics, TypeOK
<1>2. OnCourse(q) /\ q.pc \in {"transfer", "commit"} /\ q.feature \in Features /\ q.buyer \in Users
  BY <1>1 DEF Transfer, CommitAccept, Basics, Task
<1>3. HandsOver(q) \/ UNCHANGED profit
  BY <1>1 DEF Transfer, CommitAccept, HandsOver
<1>4. RowsStay /\ \A i \in DOMAIN profit : profit'[i].amount <= profit[i].amount
  <2>1. CASE HandsOver(q)
    BY <2>1, HandOverRows
  <2>2. CASE UNCHANGED profit
    BY <2>2, RowsUnchanged, Rows DEF Row
  <2> QED BY <1>3, <2>1, <2>2
<1>5. /\ UNCHANGED <<credited, started>> /\ TaskUnchanged /\ Moves(t, IdleTask)
      /\ Fault \/ UNCHANGED faults
  <2>1. CASE Transfer(t)
    BY <2>1 DEF Transfer, Moves
  <2>2. CASE CommitAccept(t)
    BY <2>2 DEF CommitAccept, Moves
  <2> QED BY <2>1, <2>2
<1>6. owner' \in {owner, [owner EXCEPT ![q.feature] = q.buyer]}
  BY <1>1 DEF Transfer, CommitAccept
<1>7. /\ owner' \in [Features -> Users \union {Rgb}] /\ credited' \in [Tasks -> [Ids -> Nat]]
      /\ started' \in 0..MaxTasks
  BY <1>2, <1>5, <1>6 DEF Basics, TypeOK
<1>8. IdleTask \in Task /\ OnCourse(IdleTask)'
  BY IdleType DEF OnCourse, IsSale
<1>9. TaskStepped(t)
  BY <1>4, <1>5, <1>7, <1>8, TaskRests
<1>10. faults' = 0 => ~ Fault
  BY <1>5, FaultType DEF Fault, Basics, TypeOK
<1>11. faults' = 0 =>
         /\ HandsOver(q)
         /\ RowsOf(q.feature, q.user) # {} =>
              \E i \in RowsOf(q.feature, q.user) :
                profit' = [profit EXCEPT ![i] = HandOver(@, q.buyer)]
         /\ q.pc = "commit" => owner' = [owner EXCEPT ![q.feature] = q.buyer]
  <2>1. CASE Transfer(t)
    BY <1>1, <1>10, <2>1 DEF Transfer, HandsOver
  <2>2. CASE CommitAccept(t)
    BY <1>1, <1>10, <2>2 DEF CommitAccept, HandsOver
  <2> QED BY <2>1, <2>2
<1>12. q.pc = "transfer" => UNCHANGED owner
  BY <1>1 DEF Transfer, CommitAccept
<1> QED BY <1>1, <1>2, <1>5, <1>9, <1>11, <1>12 DEF OnCourse

(* Paying a row. *)
LEMMA SettledType ==
  ASSUME Basics, NEW q \in Task, OnCourse(q), q.pc \in {"settle", "reset"}, NEW i \in q.todo
  PROVE  /\ Settled(q, i) \in Task
         /\ OnCourse(Settled(q, i))
         /\ \/ /\ IsSale(q)
               /\ Settled(q, i).pc = HandOverStep(q)
               /\ Settled(q, i).op = q.op /\ Settled(q, i).user = q.user
               /\ Settled(q, i).feature = q.feature /\ Settled(q, i).buyer = q.buyer
            \/ /\ ~ IsSale(q) /\ ~ IsSale(Settled(q, i)) /\ Settled(q, i).pc = "settle"
               /\ Settled(q, i).todo = q.todo \ {i} /\ Settled(q, i).seen = q.seen
            \/ ~ IsSale(q) /\ Settled(q, i) = IdleTask
<1>1. CASE IsSale(q)
  <2>1. PICK pc \in {"transfer", "commit"} :
          /\ pc = HandOverStep(q)
          /\ q.op = "sale" => pc = "transfer"
          /\ q.op # "sale" => pc = "commit"
    BY DEF HandOverStep
  <2>2. PICK k : k = [q EXCEPT !.pc = pc, !.todo = {}]
    OBVIOUS
  <2>3. /\ k \in Task /\ k.pc = pc /\ k.op = q.op /\ k.user = q.user /\ k.feature = q.feature
        /\ k.buyer = q.buyer /\ k.todo = {}
    BY <2>2 DEF Task
  <2>4. Settled(q, i) = k
    BY <1>1, <2>1, <2>2 DEF Settled, IsSale
  <2>5. OnCourse(k)
    <3>1. /\ q.op \in {"sale", "accept"}
          /\ pc = "transfer" => q.op = "sale"
          /\ pc = "commit" => q.op = "accept"
      BY <1>1, <2>1 DEF IsSale
    <3> QED BY <2>3, <3>1 DEF OnCourse
  <2> QED BY <1>1, <2>1, <2>3, <2>4, <2>5
<1>2. CASE ~ IsSale(q) /\ q.op = "karbari" /\ q.todo # {i}
  <2>1. PICK k : k = [q EXCEPT !.pc = "settle", !.todo = q.todo \ {i}]
    OBVIOUS
  <2>2. q.todo \ {i} \in SUBSET Ids
    BY DEF Task
  <2>3. k \in Task /\ k.pc = "settle" /\ k.op = q.op /\ k.seen = q.seen /\ k.todo = q.todo \ {i}
    BY <2>1, <2>2 DEF Task
  <2>4. Settled(q, i) = k
    BY <1>2, <2>1 DEF Settled
  <2>5. OnCourse(k)
    BY <1>2, <2>3 DEF OnCourse, IsSale
  <2> QED BY <1>2, <2>3, <2>4, <2>5 DEF IsSale
<1>3. CASE ~ IsSale(q) /\ ~ (q.op = "karbari" /\ q.todo # {i})
  <2>1. Settled(q, i) = IdleTask
    BY <1>3 DEF Settled
  <2> QED BY <1>3, <2>1, IdleType DEF OnCourse, IsSale
<1> QED BY <1>1, <1>2, <1>3

LEMMA ResetStep ==
  ASSUME Basics, NEW t \in Tasks, Reset(t)
  PROVE  /\ TaskStepped(t)
         /\ UNCHANGED <<owner, credited>>
         /\ task[t].pc = "reset" /\ ~ IsSale(task[t]) /\ task[t] \in Task
         /\ DOMAIN profit' = DOMAIN profit
         /\ \A j \in DOMAIN profit : profit'[j].user = profit[j].user
         /\ \E i \in DOMAIN profit :
              /\ Current(task[t], i)
              /\ Moves(t, Settled(task[t], i))
              /\ ~ IsSale(Settled(task[t], i))
              /\ faults' = 0 => profit'[i].amount = 0
              /\ \A j \in DOMAIN profit \ {i} : profit'[j].amount = profit[j].amount
<1>1. PICK q \in Task : q = task[t]
  BY DEF Basics, TypeOK
<1>2. OnCourse(q) /\ q.pc = "reset"
  BY <1>1 DEF Reset, Basics
<1>3. PICK i \in Ids :
        /\ Current(q, i)
        /\ \/ profit' = [profit EXCEPT ![i] = ResetRow(@)] /\ UNCHANGED faults
           \/ Fault /\ UNCHANGED profit
        /\ task' = [task EXCEPT ![t] = Settled(q, i)]
  BY <1>1 DEF Reset
<1>4. i \in q.todo /\ i \in DOMAIN profit
  BY <1>2, <1>3 DEF Current, OnCourse
<1>5. PICK k : k = Settled(q, i)
  OBVIOUS
<1>6. k \in Task /\ OnCourse(k) /\ ~ IsSale(k)
  BY <1>2, <1>4, <1>5, SettledType, IdleType DEF OnCourse, IsSale
<1>7. /\ RowsStay /\ DOMAIN profit' = DOMAIN profit
      /\ \A j \in DOMAIN profit : profit'[j].user = profit[j].user
      /\ profit'[i].amount = 0 \/ (Fault /\ UNCHANGED profit)
      /\ \A j \in DOMAIN profit \ {i} : profit'[j] = profit[j]
  <2>1. CASE profit' = [profit EXCEPT ![i] = ResetRow(@)]
    <3>1. PICK r : r = ResetRow(profit[i])
      OBVIOUS
    <3>2. /\ r \in Row /\ r.amount = 0 /\ r.feature = profit[i].feature /\ r.user = profit[i].user
          /\ r.updatedAt = now
      BY <1>4, <3>1, Rows, ResetRowType
    <3>3. profit' = [profit EXCEPT ![i] = r]
      BY <1>4, <2>1, <3>1
    <3> QED BY <1>4, <3>2, <3>3, RowUpdated
  <2>2. CASE Fault /\ UNCHANGED profit
    BY <2>2, RowsUnchanged
  <2> QED BY <1>3, <2>1, <2>2
<1>8. \A j \in DOMAIN profit : profit'[j].amount <= profit[j].amount
  <2>1. \A j \in DOMAIN profit : profit[j].amount \in Nat
    BY Rows DEF Row
  <2> QED BY <1>7, <2>1
<1>9. /\ UNCHANGED <<owner, credited, started>> /\ TaskUnchanged
      /\ Fault \/ UNCHANGED faults
  BY DEF Reset
<1>10. OnCourse(k)'
  BY <1>6, <1>7 DEF OnCourse, IsSale, RowsStay
<1>11. /\ owner' \in [Features -> Users \union {Rgb}] /\ credited' \in [Tasks -> [Ids -> Nat]]
       /\ started' \in 0..MaxTasks
  BY <1>9 DEF Basics, TypeOK
<1>12. Moves(t, k)
  BY <1>3, <1>5 DEF Moves
<1>13. TaskStepped(t)
  BY <1>6, <1>7, <1>8, <1>9, <1>10, <1>11, <1>12, TaskRests
<1>14. faults' = 0 => ~ Fault
  BY <1>9, FaultType DEF Fault, Basics, TypeOK
<1> QED BY <1>1, <1>2, <1>3, <1>4, <1>5, <1>6, <1>7, <1>9, <1>12, <1>13, <1>14 DEF OnCourse

LEMMA SettleStep ==
  ASSUME Basics, NEW t \in Tasks, Settle(t)
  PROVE  /\ TaskStepped(t)
         /\ UNCHANGED <<owner, profit>>
         /\ task[t].pc = "settle" /\ task[t] \in Task
         /\ \E i \in DOMAIN profit, k \in Task :
              /\ Current(task[t], i)
              /\ Moves(t, k)
              /\ \A j \in Ids \ {i} : credited'[t][j] = credited[t][j]
              /\ IsSale(task[t]) =>
                   /\ k.pc = HandOverStep(task[t])
                   /\ k.op = task[t].op /\ k.user = task[t].user
                   /\ k.feature = task[t].feature /\ k.buyer = task[t].buyer
              /\ ~ IsSale(task[t]) =>
                   \/ /\ k.pc = "reset" /\ k.todo = task[t].todo /\ k.seen = task[t].seen
                      /\ ~ IsSale(k)
                   \/ /\ k = Settled(task[t], i) /\ ~ IsSale(k)
                      /\ faults' = 0 => credited'[t][i] = credited[t][i]
              /\ faults' = 0 => credited'[t][i] \in {credited[t][i], credited[t][i] + task[t].seen[i]}
<1>1. PICK q \in Task : q = task[t]
  BY DEF Basics, TypeOK
<1>2. OnCourse(q) /\ q.pc = "settle"
  BY <1>1 DEF Settle, Basics
<1>3. PICK pc : pc = (IF IsSale(q) THEN HandOverStep(q) ELSE "reset")
  OBVIOUS
<1>4. PICK i \in Ids : /\ Current(q, i)
                      /\ \/ /\ \/ task' = [task EXCEPT ![t].pc = pc]
                               \/ task' = [task EXCEPT ![t] = Settled(q, i)] /\ UNCHANGED credited
                            /\ \/ UNCHANGED credited
                               \/ credited' = [credited EXCEPT ![t][i] = @ + 1 * q.seen[i]]
                            /\ UNCHANGED faults
                         \/ /\ \/ task' = [task EXCEPT ![t].pc = pc]
                               \/ task' = [task EXCEPT ![t] = Settled(q, i)]
                            /\ \E n \in 0..MaxAttempts :
                                 credited' = [credited EXCEPT ![t][i] = @ + n * q.seen[i]]
                            /\ Fault
  <2>1. \A n \in 2..MaxAttempts : n \in 0..MaxAttempts
    BY Numbers
  <2>2. PICK i \in Ids :
          /\ Current(q, i)
          /\ LET goReset == [task EXCEPT ![t].pc = pc]
                 goOn    == [task EXCEPT ![t] = Settled(q, i)]
                 Pay(n)  == credited' = [credited EXCEPT ![t][i] = @ + n * q.seen[i]]
             IN \/ task' = goReset /\ UNCHANGED <<credited, faults>>
                \/ task' = goReset /\ Pay(1) /\ UNCHANGED faults
                \/ /\ Fault
                   /\ \/ task' = goOn /\ \E n \in 0..MaxAttempts : Pay(n)
                      \/ task' = goReset /\ \E n \in 2..MaxAttempts : Pay(n)
                \/ task' = goOn /\ UNCHANGED <<credited, faults>>
    BY <1>1, <1>3 DEF Settle
  <2> QED BY <2>1, <2>2
<1>5. i \in q.todo /\ i \in DOMAIN profit
  BY <1>2, <1>4 DEF Current, OnCourse
<1>6. faults' = 0 => ~ Fault
  BY <1>4, FaultType DEF Fault, Basics, TypeOK
<1>7. /\ credited' \in [Tasks -> [Ids -> Nat]]
      /\ \A d \in Tasks \ {t} : credited'[d] = credited[d]
      /\ \A j \in Ids \ {i} : credited'[t][j] = credited[t][j]
      /\ faults' = 0 => credited'[t][i] \in {credited[t][i], credited[t][i] + q.seen[i]}
  <2>1. PICK row \in [Ids -> Nat] : row = credited[t]
    BY DEF Basics, TypeOK
  <2>2. PICK m \in Nat : m = q.seen[i]
    BY DEF Task
  <2>3. CASE UNCHANGED credited
    BY <2>3 DEF Basics, TypeOK
  <2>4. ASSUME NEW n \in Nat, credited' = [credited EXCEPT ![t][i] = @ + n * q.seen[i]],
               faults' = 0 => n = 1
        PROVE  <1>7!:
    <3>1. PICK p \in Nat : p = n * m
      OBVIOUS
    <3>2. n = 1 => p = m
      BY <3>1
    <3>3. PICK next : next = [row EXCEPT ![i] = row[i] + p]
      OBVIOUS
    <3>4. /\ next \in [Ids -> Nat] /\ next[i] = row[i] + p
          /\ \A j \in Ids \ {i} : next[j] = row[j]
      BY <3>3
    <3>5. credited' = [credited EXCEPT ![t] = next]
      BY <2>1, <2>2, <2>4, <3>1, <3>3
    <3>6. credited' \in [Tasks -> [Ids -> Nat]] /\ credited'[t] = next
      BY <3>4, <3>5 DEF Basics, TypeOK
    <3>7. \A d \in Tasks \ {t} : credited'[d] = credited[d]
      BY <3>5 DEF Basics, TypeOK
    <3> QED BY <2>1, <2>2, <2>4, <3>2, <3>4, <3>6, <3>7
  <2>5. 1 \in Nat /\ 0..MaxAttempts \subseteq Nat
    BY Numbers
  <2> QED BY <1>4, <1>6, <2>3, <2>4, <2>5
<1>8. PICK s \in Task : s = Settled(q, i)
  BY <1>2, <1>5, SettledType
<1>9. PICK r : r = [q EXCEPT !.pc = pc]
  OBVIOUS
<1>10. pc \in {"transfer", "commit", "reset"} /\ (q.op = "sale" => pc = "transfer")
       /\ (q.op = "accept" => pc = "commit") /\ (~ IsSale(q) => pc = "reset")
  BY <1>3 DEF HandOverStep, IsSale
<1>11. /\ r \in Task /\ r.pc = pc /\ r.op = q.op /\ r.user = q.user /\ r.feature = q.feature
       /\ r.buyer = q.buyer /\ r.todo = q.todo /\ r.seen = q.seen
  BY <1>9, <1>10 DEF Task
<1>12. OnCourse(r)
  BY <1>2, <1>10, <1>11 DEF OnCourse, IsSale
<1>13. /\ OnCourse(s)
       /\ IsSale(q) => /\ s.pc = HandOverStep(q) /\ s.op = q.op /\ s.user = q.user
                       /\ s.feature = q.feature /\ s.buyer = q.buyer
       /\ ~ IsSale(q) => ~ IsSale(s)
  BY <1>2, <1>5, <1>8, SettledType, IdleType DEF IsSale
<1>14. PICK k \in {r, s} : Moves(t, k) /\ (k = s => k = r \/ UNCHANGED credited \/ Fault)
  <2>1. CASE task' = [task EXCEPT ![t].pc = pc]
    BY <1>1, <1>9, <2>1 DEF Moves, Basics, TypeOK
  <2>2. CASE task' = [task EXCEPT ![t] = Settled(q, i)] /\ (UNCHANGED credited \/ Fault)
    BY <1>8, <2>2 DEF Moves
  <2> QED BY <1>4, <2>1, <2>2
<1>15. /\ UNCHANGED <<owner, profit, started>> /\ TaskUnchanged
       /\ Fault \/ UNCHANGED faults
  BY <1>4 DEF Settle
<1>16. RowsStay
  BY <1>15, RowsUnchanged
<1>17. k \in Task /\ OnCourse(k)'
  BY <1>8, <1>11, <1>12, <1>13, <1>14, <1>15 DEF OnCourse, IsSale
<1>18. /\ owner' \in [Features -> Users \union {Rgb}] /\ started' \in 0..MaxTasks
       /\ \A j \in DOMAIN profit : profit'[j].amount <= profit[j].amount
  <2>1. \A j \in DOMAIN profit : profit[j].amount \in Nat
    BY Rows DEF Row
  <2> QED BY <1>15, <2>1 DEF Basics, TypeOK
<1>19. TaskStepped(t)
  BY <1>7, <1>14, <1>15, <1>16, <1>17, <1>18, TaskRests
<1>20. IsSale(q) => /\ k.pc = HandOverStep(q) /\ k.op = q.op /\ k.user = q.user
                    /\ k.feature = q.feature /\ k.buyer = q.buyer
  BY <1>3, <1>11, <1>13, <1>14
<1>21. ~ IsSale(q) =>
         \/ k.pc = "reset" /\ k.todo = q.todo /\ k.seen = q.seen /\ ~ IsSale(k)
         \/ /\ k = s /\ ~ IsSale(k)
            /\ faults' = 0 => credited'[t][i] = credited[t][i]
  BY <1>6, <1>10, <1>11, <1>13, <1>14 DEF IsSale
<1> QED BY <1>1, <1>2, <1>4, <1>5, <1>7, <1>8, <1>14, <1>15, <1>17, <1>19, <1>20, <1>21

-----------------------------------------------------------------------------
(* The step of a goroutine leaves what it paid within what accrued *)

LEMMA MoverPaid ==
  ASSUME Basics, NEW t \in Tasks, TaskStepped(t), PaidFor(t),
         \A i \in Ids \ DOMAIN profit : credited'[t][i] = credited[t][i],
         DOMAIN profit' # DOMAIN profit => task'[t].todo = {},
         faults' = 0 => \A i \in DOMAIN profit :
                          SoleRow(i) /\ SoleRow(i)' /\ Paid(t, i) => Paid(t, i)'
  PROVE  PaidFor(t)'
<1>1. /\ credited[t] \in [Ids -> Nat] /\ accrued \in [Ids -> Nat] /\ accrued' = accrued
      /\ DOMAIN profit \subseteq DOMAIN profit' /\ DOMAIN profit \subseteq Ids
      /\ DOMAIN profit' \subseteq Ids
  BY Rows, RowsNext DEF Basics, TypeOK, TaskStepped, RowsStay
<1>2. ASSUME NEW i \in Ids \ DOMAIN profit' PROVE credited'[t][i] <= accrued'[i]
  BY <1>1, <1>2 DEF PaidFor
<1>3. ASSUME faults' = 0, NEW i \in DOMAIN profit', SoleRow(i)' PROVE Paid(t, i)'
  <2>1. CASE i \in DOMAIN profit
    <3>1. SoleRow(i)
      BY <1>3, <2>1 DEF SoleRow, RowsStay, TaskStepped
    <3>2. Paid(t, i)
      BY <1>3, <2>1, <3>1 DEF PaidFor, TaskStepped
    <3> QED BY <1>3, <2>1, <3>1, <3>2
  <2>2. CASE i \notin DOMAIN profit
    <3>1. credited'[t][i] = credited[t][i] /\ credited[t][i] <= accrued[i] /\ profit'[i].amount = 0
      BY <1>1, <1>3, <2>2 DEF PaidFor, TaskStepped, RowsStay
    <3>2. ~ ToCredit(t, i)'
      BY <1>3, <2>2 DEF ToCredit
    <3>3. credited[t][i] \in Nat /\ accrued[i] \in Nat
      BY <1>1, <1>3
    <3>4. credited'[t][i] + profit'[i].amount = credited[t][i]
      BY <3>1, <3>3
    <3> QED BY <1>1, <3>1, <3>2, <3>4 DEF Paid
  <2> QED BY <2>1, <2>2
<1> QED BY <1>2, <1>3 DEF PaidFor

(* A goroutine that reads rows, and has paid nothing since they were       *)
(* reset, may pay what it read.                                            *)
LEMMA ReadPaid ==
  ASSUME Basics, NEW t \in Tasks, TaskStepped(t), PaidFor(t), UNCHANGED <<profit, credited>>,
         task[t].pc \in {"idle", "own", "look"},
         NEW k \in Task, Moves(t, k),
         \/ k.pc = "settle" /\ k.seen = Amounts
         \/ k.pc \notin {"settle", "reset"}
  PROVE  PaidFor(t)'
<1>1. task'[t] = k
  BY DEF Moves, Basics, TypeOK
<1>2. ASSUME NEW i \in DOMAIN profit, Paid(t, i) PROVE Paid(t, i)'
  <2>1. ~ Unreset(t, i)
    BY DEF Unreset
  <2>2. credited[t][i] + profit[i].amount <= accrued[i] /\ credited[t][i] <= accrued[i]
    BY <1>2, <2>1 DEF Paid
  <2>3. accrued' = accrued
    BY DEF TaskStepped
  <2>4. ToCredit(t, i)' => task'[t].seen[i] = profit[i].amount
    BY <1>1, AmountsType DEF ToCredit
  <2> QED BY <2>2, <2>3, <2>4 DEF Paid
<1> QED BY <1>2, MoverPaid

LEMMA HandOverPaid ==
  ASSUME Basics, NEW t \in Tasks, PaidFor(t), Transfer(t) \/ CommitAccept(t)
  PROVE  PaidFor(t)'
<1>1. PICK q \in Task : q = task[t] /\ q.pc \in {"transfer", "commit"}
  BY HandOverStepOK
<1>2. /\ TaskStepped(t) /\ UNCHANGED credited /\ Moves(t, IdleTask)
      /\ faults' = 0 => HandsOver(q)
  BY <1>1, HandOverStepOK
<1>3. task'[t] = IdleTask
  BY <1>2 DEF Moves, Basics, TypeOK
<1>4. task'[t].pc = "idle" /\ task'[t].todo = {}
  BY <1>3, IdleType
<1>5. ASSUME faults' = 0, NEW i \in DOMAIN profit, SoleRow(i), SoleRow(i)', Paid(t, i)
      PROVE  Paid(t, i)'
  <2>1. /\ credited[t][i] \in Nat /\ accrued[i] \in Nat /\ accrued' = accrued
        /\ credited' = credited /\ profit[i].amount \in Nat /\ profit'[i].amount \in Nat
        /\ profit'[i].amount <= profit[i].amount
    <3>1. i \in Ids /\ i \in DOMAIN profit' /\ profit[i] \in Row /\ profit'[i] \in Row
      BY <1>2, Rows, RowsNext DEF TaskStepped, RowsStay
    <3>2. profit'[i].amount <= profit[i].amount
      BY <1>2, <1>5, HandOverRows
    <3> QED BY <1>2, <3>1, <3>2 DEF Basics, TypeOK, TaskStepped, Row
  <2>2. ~ ToCredit(t, i)'
    BY <1>4 DEF ToCredit
  <2>3. credited[t][i] <= accrued[i]
    BY <1>5 DEF Paid
  <2>4. credited[t][i] + profit'[i].amount <= accrued[i]
    <3>1. CASE profit[i].feature = q.feature
      <4>1. profit'[i].amount = 0
        BY <1>2, <1>5, <3>1, HandOverRows
      <4> QED BY <2>1, <2>3, <4>1
    <3>2. CASE profit[i].feature # q.feature
      <4>1. ~ Unreset(t, i)
        BY <1>1, <3>2 DEF Unreset
      <4> QED BY <1>5, <2>1, <4>1 DEF Paid
    <3> QED BY <3>1, <3>2
  <2> QED BY <2>1, <2>2, <2>3, <2>4 DEF Paid
<1> QED BY <1>2, <1>4, <1>5, MoverPaid

LEMMA ResetPaid ==
  ASSUME Basics, NEW t \in Tasks, PaidFor(t), Reset(t)
  PROVE  PaidFor(t)'
<1>1. PICK q \in Task : q = task[t] /\ q.pc = "reset" /\ ~ IsSale(q)
  BY ResetStep
<1>2. PICK i \in DOMAIN profit :
        /\ Current(q, i)
        /\ Moves(t, Settled(q, i))
        /\ ~ IsSale(Settled(q, i))
        /\ faults' = 0 => profit'[i].amount = 0
        /\ \A j \in DOMAIN profit \ {i} : profit'[j].amount = profit[j].amount
  BY <1>1, ResetStep
<1>3. TaskStepped(t) /\ UNCHANGED credited /\ DOMAIN profit' = DOMAIN profit
  BY ResetStep
<1>4. i \in q.todo /\ OnCourse(q)
  BY <1>1, <1>2 DEF Current, Basics
<1>5. PICK k \in Task : /\ k = Settled(q, i)
                        /\ \/ k.pc = "settle" /\ k.todo = q.todo \ {i} /\ k.seen = q.seen
                           \/ k.pc = "idle"
  BY <1>1, <1>4, SettledType, IdleType
<1>6. task'[t] = k
  BY <1>2, <1>5 DEF Moves, Basics, TypeOK
<1>7. ASSUME faults' = 0, NEW j \in DOMAIN profit, Paid(t, j)
      PROVE  Paid(t, j)'
  <2>1. /\ credited[t][j] \in Nat /\ accrued[j] \in Nat /\ accrued' = accrued
        /\ credited' = credited
    <3>1. j \in Ids
      BY Rows
    <3> QED BY <1>3, <3>1 DEF Basics, TypeOK, TaskStepped
  <2>2. ToCredit(t, j)' => j # i /\ ToCredit(t, j) /\ task'[t].seen[j] = task[t].seen[j]
    <3>1. j # i => ~ Current(q, j) \/ j \notin q.todo
      <4>1. i \in Int /\ j \in Int
        BY Rows
      <4> QED BY <1>2, <4>1 DEF Current
    <3> QED BY <1>1, <1>5, <1>6, <3>1 DEF ToCredit
  <2>3. credited[t][j] + profit'[j].amount <= accrued[j]
    <3>1. CASE j = i
      BY <1>2, <1>7, <2>1, <3>1 DEF Paid
    <3>2. CASE j # i
      <4>1. i \in Int /\ j \in Int
        BY Rows
      <4>2. ~ Unreset(t, j)
        BY <1>1, <1>2, <3>2, <4>1 DEF Unreset, Current
      <4> QED BY <1>2, <1>7, <3>2, <4>2 DEF Paid
    <3> QED BY <3>1, <3>2
  <2> QED BY <1>7, <2>1, <2>2, <2>3 DEF Paid
<1> QED BY <1>3, <1>7, MoverPaid

LEMMA SettlePaid ==
  ASSUME Basics, NEW t \in Tasks, PaidFor(t), Settle(t)
  PROVE  PaidFor(t)'
<1>1. PICK q \in Task : q = task[t] /\ q.pc = "settle"
  BY SettleStep
<1>2. PICK i \in DOMAIN profit, k \in Task :
        /\ Current(q, i)
        /\ Moves(t, k)
        /\ \A j \in Ids \ {i} : credited'[t][j] = credited[t][j]
        /\ IsSale(q) => k.pc = HandOverStep(q) /\ k.feature = q.feature
        /\ ~ IsSale(q) =>
              \/ k.pc = "reset" /\ k.todo = q.todo /\ k.seen = q.seen
              \/ /\ k = Settled(q, i)
                 /\ faults' = 0 => credited'[t][i] = credited[t][i]
        /\ faults' = 0 => credited'[t][i] \in {credited[t][i], credited[t][i] + q.seen[i]}
  BY <1>1, SettleStep
<1>3. TaskStepped(t) /\ UNCHANGED profit
  BY SettleStep
<1>4. i \in q.todo /\ OnCourse(q) /\ i \in Ids
  BY <1>1, <1>2, Rows DEF Current, Basics
<1>5. task'[t] = k
  BY <1>2 DEF Moves, Basics, TypeOK
<1>6. \/ k.pc \in {"transfer", "commit"} /\ IsSale(q) /\ k.feature = q.feature
      \/ k.pc = "reset" /\ k.todo = q.todo /\ k.seen = q.seen
      \/ /\ k.pc = "idle" \/ (k.pc = "settle" /\ k.todo = q.todo \ {i} /\ k.seen = q.seen)
         /\ faults' = 0 => credited'[t][i] = credited[t][i]
  <2>1. HandOverStep(q) \in {"transfer", "commit"}
    BY DEF HandOverStep
  <2>2. ~ IsSale(q) =>
          \/ Settled(q, i).pc = "settle" /\ Settled(q, i).todo = q.todo \ {i}
             /\ Settled(q, i).seen = q.seen
          \/ Settled(q, i).pc = "idle"
    BY <1>1, <1>4, SettledType, IdleType
  <2> QED BY <1>2, <2>1, <2>2
<1>7. ASSUME faults' = 0, NEW j \in DOMAIN profit, Paid(t, j)
      PROVE  Paid(t, j)'
  <2>1. /\ credited[t][j] \in Nat /\ credited'[t][j] \in Nat /\ accrued[j] \in Nat
        /\ accrued' = accrued /\ profit' = profit /\ q.seen[j] \in Nat /\ j \in Ids
    <3>1. j \in Ids
      BY Rows
    <3> QED BY <1>3, <3>1 DEF Basics, TypeOK, TaskStepped, Task
  <2>2. ~ Unreset(t, j)
    BY <1>1 DEF Unreset
  <2>3. credited[t][j] <= accrued[j] /\ credited[t][j] + profit[j].amount <= accrued[j]
    BY <1>7, <2>2 DEF Paid
  <2>4. j \in q.todo => credited[t][j] + q.seen[j] <= accrued[j]
    BY <1>1, <1>7 DEF Paid, ToCredit
  <2>5. CASE j # i
    <3>1. credited'[t][j] = credited[t][j]
      BY <1>2, <2>1, <2>5
    <3>2. ToCredit(t, j)' => j \in q.todo /\ k.seen[j] = q.seen[j]
      BY <1>5, <1>6 DEF ToCredit
    <3> QED BY <1>5, <2>1, <2>3, <2>4, <3>1, <3>2 DEF Paid
  <2>6. CASE j = i
    <3>1. credited'[t][j] <= accrued[j]
      BY <1>2, <1>4, <1>7, <2>3, <2>4, <2>6
    <3>2. ~ ToCredit(t, j)'
      <4>1. k.pc = "reset" => Current(k, i)
        BY <1>2, <1>6 DEF Current
      <4> QED BY <1>5, <1>6, <2>6, <4>1 DEF ToCredit
    <3>3. ~ Unreset(t, j)' => credited'[t][j] = credited[t][j]
      <4>1. k.pc = "reset" => Current(k, i)
        BY <1>2, <1>6 DEF Current
      <4>2. IsSale(q) => profit[i].feature = q.feature
        BY <1>4 DEF OnCourse
      <4> QED BY <1>5, <1>6, <1>7, <2>1, <2>6, <4>1, <4>2 DEF Unreset
    <3> QED BY <2>1, <2>3, <3>1, <3>2, <3>3 DEF Paid
  <2> QED BY <2>5, <2>6
<1>8. \A j \in Ids \ DOMAIN profit : credited'[t][j] = credited[t][j]
  BY <1>2
<1> QED BY <1>3, <1>7, <1>8, MoverPaid

LEMMA TaskStepOK ==
  ASSUME Basics, NEW t \in Tasks, TaskStep(t), PaidFor(t)
  PROVE  TaskStepped(t) /\ PaidFor(t)'
<1>1. CASE GetSingleProfit(t) \/ GetProfitsByApplication(t)
  BY <1>1, WithdrawalStarts, ReadPaid
<1>2. CASE StartSale(t)
  BY <1>2, SaleStarts, ReadPaid
<1>3. CASE UpdateOwner(t)
  BY <1>3, OwnerStep, ReadPaid
<1>4. CASE LookUpProfit(t)
  <2>1. HandOverStep(task[t]) \notin {"settle", "reset"}
    BY DEF HandOverStep
  <2> QED BY <1>4, <2>1, LookUpStep, ReadPaid
<1>5. CASE Transfer(t) \/ CommitAccept(t)
  BY <1>5, HandOverStepOK, HandOverPaid
<1>6. CASE Settle(t)
  BY <1>6, SettleStep, SettlePaid
<1>7. CASE Reset(t)
  BY <1>7, ResetStep, ResetPaid
<1> QED BY <1>1, <1>2, <1>3, <1>4, <1>5, <1>6, <1>7 DEF TaskStep

LEMMA TableStepPaid ==
  ASSUME Basics, PaidInv, TableStep
  PROVE  PaidInv'
BY BystanderPaid DEF PaidInv, TableStep, Basics, TypeOK

LEMMA StutterOK ==
  ASSUME Basics, UNCHANGED vars
  PROVE  TableStep
<1>1. RowsStay
  BY RowsUnchanged DEF vars
<1>2. AmountsAgree
  BY AmountsKept DEF vars
<1>3. \A t \in Tasks : OnCourse(task[t])'
  BY <1>1, OnCourseKept DEF vars
<1>4. StampsAreOld'
  BY <1>1, StampsKept DEF vars
<1>5. TypeOK'
  BY DEF vars, Basics, TypeOK
<1>6. Basics'
  BY <1>3, <1>4, <1>5 DEF vars, Basics
<1> QED BY <1>1, <1>2, <1>6 DEF vars, TableStep

LEMMA InitInv == Init => Basics /\ PaidInv
<1> SUFFICES ASSUME Init PROVE Basics /\ PaidInv
  OBVIOUS
<1>1. /\ NoAmount \in [Ids -> Nat] /\ -Interval - 1 \in Int /\ -Interval - 1 < 0
      /\ 0 \in 0..MaxTime /\ 0 \in 0..MaxTasks /\ 0 \in 0..MaxFaults
  BY Numbers DEF NoAmount
<1>2. profit \in Seq(Row) /\ Len(profit) = 0 /\ DOMAIN profit = {}
  BY DEF Init
<1>3. TypeOK
  BY <1>1, <1>2, IdleType, IdleCalcType, Numbers DEF Init, TypeOK
<1>4. \A t \in Tasks : OnCourse(task[t])
  BY IdleType DEF Init, OnCourse, IsSale
<1>5. StampsAreOld
  BY <1>1, <1>2 DEF Init, StampsAreOld
<1>6. \A c \in Calculators : calc[c].batch \subseteq DOMAIN profit
  BY DEF Init, IdleCalc
<1>7. PaidInv
  BY <1>2 DEF Init, PaidInv, PaidFor, NoAmount
<1> QED BY <1>3, <1>4, <1>5, <1>6, <1>7 DEF Basics

LEMMA NextInv ==
  ASSUME Basics, PaidInv, [Next]_vars
  PROVE  Basics' /\ PaidInv'
<1>1. ASSUME NEW t \in Tasks, TaskStep(t) PROVE Basics' /\ PaidInv'
  <2>1. TaskStepped(t) /\ PaidFor(t)'
    BY <1>1, TaskStepOK DEF PaidInv
  <2>2. \A d \in Tasks \ {t} : PaidFor(d)'
    BY <2>1, BystanderPaid DEF PaidInv, TaskStepped
  <2> QED BY <2>1, <2>2 DEF PaidInv, TaskStepped
<1>2. CASE TableStep
  BY <1>2, TableStepPaid DEF TableStep
<1>3. CASE Tick \/ UNCHANGED vars
  BY <1>2, <1>3, TickOK, StutterOK
<1>4. ASSUME NEW f \in Features, NEW u \in Users, BuyFromRgb(f, u) PROVE TableStep
  BY <1>4, BuyOK
<1>5. ASSUME NEW f \in Features, NEW b \in BOOLEAN, SetActive(f, b) PROVE TableStep
  BY <1>5, SetActiveOK
<1>6. ASSUME NEW c \in Calculators, CalcStep(c) PROVE TableStep
  BY <1>6, CalcStepOK
<1> QED BY <1>1, <1>2, <1>3, <1>4, <1>5, <1>6 DEF Next

(* However calculators, withdrawals, sales and constructions interleave, a *)
(* goroutine pays out no more of a row than has accrued on it.             *)
THEOREM ProfitIsEarned == Spec => []ProfitInv
<1>1. Basics /\ PaidInv => ProfitInv
  <2> SUFFICES ASSUME Basics, PaidInv, faults = 0, NEW t \in Tasks, NEW i \in DOMAIN profit,
                      SoleRow(i)
               PROVE  credited[t][i] <= accrued[i]
    BY DEF ProfitInv, PaidOncePerTask, Basics
  <2> QED BY DEF PaidInv, PaidFor, Paid
<1>2. Basics /\ PaidInv /\ [Next]_vars => (Basics /\ PaidInv)'
  BY NextInv
<1> QED BY <1>1, <1>2, InitInv, PTL DEF Spec

-----------------------------------------------------------------------------
(* Increments, by one calculator                                           *)

OneCalculator == \A c, d \in Calculators : c = d

(* The rows of a batch were incremented long ago, and still are. *)
SelectedLongAgo ==
  \A c \in Calculators : \A i \in calc[c].batch : lastAccrual[i] + Interval < now

LEMMA CalcStepKeeps ==
  ASSUME OneCalculator, Basics, SelectedLongAgo, NEW c \in Calculators, CalcStep(c)
  PROVE  /\ SelectedLongAgo'
         /\ \A i \in Ids : accrued'[i] > accrued[i] => lastAccrual[i] + Interval < now
<1>0. /\ \A d \in Calculators : d = c
      /\ accrued \in [Ids -> Nat] /\ lastAccrual \in [Ids -> Int] /\ DOMAIN profit \subseteq Ids
      /\ calc \in [Calculators -> Calc] /\ calc[c].batch \subseteq DOMAIN profit
      /\ now' = now
  <2>1. now' = now
    BY DEF CalcStep, CalcUnchanged, StartRun, SelectBatch, UpdateRow, EndBatch
  <2> QED BY <2>1, Rows DEF OneCalculator, Basics, TypeOK
<1>1. ASSUME NEW i, Accrues(c, i)
      PROVE  /\ SelectedLongAgo'
             /\ \A j \in Ids : accrued'[j] > accrued[j] => lastAccrual[j] + Interval < now
  <2>1. /\ i \in calc[c].batch /\ i \in Ids
        /\ \A j \in Ids \ {i} : accrued'[j] = accrued[j] /\ lastAccrual'[j] = lastAccrual[j]
    BY <1>0, <1>1 DEF Accrues
  <2>2. calc'[c].batch = calc[c].batch \ {i}
    <3>1. PICK q \in Calc : q = calc[c]
      BY <1>0
    <3>2. PICK k : k = [q EXCEPT !.batch = q.batch \ {i}, !.updated = TRUE]
      OBVIOUS
    <3>3. k.batch = q.batch \ {i}
      BY <3>2, BatchType
    <3>4. calc' = [calc EXCEPT ![c] = k]
      BY <1>1, <3>1, <3>2 DEF Accrues
    <3> QED BY <1>0, <3>1, <3>3, <3>4
  <2>3. SelectedLongAgo'
    BY <1>0, <2>1, <2>2 DEF SelectedLongAgo
  <2>4. \A j \in Ids : accrued'[j] > accrued[j] => j = i
    BY <1>0, <2>1
  <2> QED BY <2>1, <2>3, <2>4 DEF SelectedLongAgo
<1>2. ASSUME UNCHANGED <<now, profit, accrued, lastAccrual>>, NEW k \in Calc,
             calc' = [calc EXCEPT ![c] = k],
             k.batch \subseteq calc[c].batch \union {i \in DOMAIN profit : Eligible(i)}
      PROVE  /\ SelectedLongAgo'
             /\ \A j \in Ids : accrued'[j] > accrued[j] => lastAccrual[j] + Interval < now
  <2>1. calc'[c] = k
    BY <1>0, <1>2
  <2>2. ASSUME NEW i \in DOMAIN profit, Eligible(i) PROVE lastAccrual[i] + Interval < now
    <3>1. /\ lastAccrual[i] \in Int /\ profit[i].updatedAt \in Nat /\ Interval \in Nat /\ now \in Nat
          /\ lastAccrual[i] <= profit[i].updatedAt /\ profit[i].updatedAt + Interval < now
      BY <1>0, <2>2, Rows, Numbers DEF Basics, StampsAreOld, Row, Eligible
    <3> QED BY <3>1
  <2>3. SelectedLongAgo'
    BY <1>0, <1>2, <2>1, <2>2 DEF SelectedLongAgo
  <2>4. \A j \in Ids : ~ accrued'[j] > accrued[j]
    BY <1>0, <1>2
  <2> QED BY <2>3, <2>4
<1> QED BY <1>1, <1>2, CalcStepOK

LEMMA OthersKeep ==
  ASSUME Basics, SelectedLongAgo, UNCHANGED <<calc, accrued, lastAccrual>>,
         now' = now \/ now' = now + 1
  PROVE  /\ SelectedLongAgo'
         /\ \A i \in Ids : accrued'[i] > accrued[i] => lastAccrual[i] + Interval < now
<1>1. /\ accrued \in [Ids -> Nat] /\ lastAccrual \in [Ids -> Int] /\ DOMAIN profit \subseteq Ids
      /\ now \in Nat /\ Interval \in Nat
      /\ \A c \in Calculators : calc[c].batch \subseteq DOMAIN profit
  BY Rows, Numbers DEF Basics, TypeOK
<1>2. SelectedLongAgo'
  BY <1>1 DEF SelectedLongAgo
<1>3. \A i \in Ids : ~ accrued'[i] > accrued[i]
  BY <1>1
<1> QED BY <1>2, <1>3

(* Whatever withdrawals, sales and constructions do to a row between its   *)
(* SELECT and its UPDATE, one calculator never increments it twice within  *)
(* an interval: whoever writes the row stamps it.                          *)
THEOREM IncrementsAreSpaced ==
  ASSUME OneCalculator
  PROVE  Spec => OncePerInterval
<1>1. ASSUME Basics, PaidInv, SelectedLongAgo, [Next]_vars
      PROVE  /\ SelectedLongAgo'
             /\ \A i \in Ids : accrued'[i] > accrued[i] => lastAccrual[i] + Interval < now
  <2>1. CASE \E c \in Calculators : CalcStep(c)
    BY <1>1, <2>1, CalcStepKeeps
  <2>2. CASE /\ UNCHANGED <<calc, accrued, lastAccrual>>
             /\ now' = now \/ now' = now + 1
    BY <1>1, <2>2, OthersKeep
  <2>3. CASE Tick \/ UNCHANGED vars
    BY <2>2, <2>3 DEF Tick, history, vars
  <2>4. CASE \/ \E f \in Features, u \in Users : BuyFromRgb(f, u)
             \/ \E f \in Features, b \in BOOLEAN : SetActive(f, b)
    BY <2>2, <2>4 DEF BuyFromRgb, SetActive, history
  <2>5. ASSUME NEW t \in Tasks, TaskStep(t) PROVE TaskUnchanged
    BY <2>5 DEF TaskStep, GetSingleProfit, GetProfitsByApplication, StartSale, UpdateOwner,
       LookUpProfit, CommitAccept, Settle, Reset, Transfer
  <2> QED BY <1>1, <2>1, <2>2, <2>3, <2>4, <2>5 DEF Next, TaskUnchanged
<1>2. Init => SelectedLongAgo
  BY DEF Init, IdleCalc, SelectedLongAgo
<1>3. Basics /\ PaidInv /\ SelectedLongAgo /\ [Next]_vars =>
        /\ (Basics /\ PaidInv /\ SelectedLongAgo)'
        /\ \A i \in Ids : accrued'[i] > accrued[i] => lastAccrual[i] + Interval < now
  BY <1>1, NextInv
<1>4. Basics /\ PaidInv /\ SelectedLongAgo /\ [Next]_vars =>
        [\A i \in Ids : accrued'[i] > accrued[i] => lastAccrual[i] + Interval < now]_vars
  BY <1>3
<1> QED BY <1>2, <1>3, <1>4, InitInv, PTL DEF Spec, OncePerInterval

-----------------------------------------------------------------------------
(* Owners, one withdrawal or sale at a time and without failures           *)

OneAtATime == \A t, u \in Tasks : t = u

(* buyFromUser has changed the owner and not yet handed over the row. *)
Selling(k) == k.op = "sale" /\ k.pc \in {"look", "settle", "transfer"}

(* A feature that was bought has one row. *)
OneRowEach ==
  \A f \in Features :
    /\ owner[f] = Rgb => \A i \in DOMAIN profit : profit[i].feature # f
    /\ owner[f] # Rgb => \E i \in DOMAIN profit : profit[i].feature = f /\ SoleRow(i)

(* The row of a feature is its owner's or, while it is handed over, the    *)
(* seller's.                                                               *)
RightUser(k) ==
  \A i \in DOMAIN profit :
    profit[i].user = IF Selling(k) /\ k.feature = profit[i].feature
                     THEN k.user ELSE owner[profit[i].feature]

RightSeller(k) ==
  k.pc # "idle" /\ IsSale(k) => owner[k.feature] = IF Selling(k) THEN k.buyer ELSE k.user

RowsAreOwned ==
  faults = 0 =>
    /\ OneRowEach
    /\ \A t \in Tasks : RightUser(task[t]) /\ RightSeller(task[t])
    /\ Tasks = {} => \A i \in DOMAIN profit : profit[i].user = owner[profit[i].feature]

(* A step that moves neither rows nor owners. *)
SameOwners ==
  /\ DOMAIN profit' = DOMAIN profit /\ UNCHANGED owner
  /\ \A i \in DOMAIN profit :
       profit'[i].feature = profit[i].feature /\ profit'[i].user = profit[i].user

LEMMA OwnedStays ==
  ASSUME RowsAreOwned, faults' = 0 => faults = 0, SameOwners, UNCHANGED task
  PROVE  RowsAreOwned'
BY DEF RowsAreOwned, SameOwners, OneRowEach, SoleRow, RightUser, RightSeller

(* The one goroutine moves to k. *)
LEMMA OwnedMoves ==
  ASSUME OneAtATime, Basics, RowsAreOwned, NEW t \in Tasks, TaskStepped(t), SameOwners,
         NEW k \in Task, Moves(t, k),
         faults' = 0 /\ RightUser(task[t]) /\ RightSeller(task[t]) => RightUser(k) /\ RightSeller(k)
  PROVE  RowsAreOwned'
<1>1. task'[t] = k /\ \A d \in Tasks : d = t
  BY DEF Moves, Basics, TypeOK, OneAtATime
<1> QED BY <1>1 DEF RowsAreOwned, SameOwners, OneRowEach, SoleRow, RightUser, RightSeller, TaskStepped

LEMMA BuyOwned ==
  ASSUME Basics, RowsAreOwned, NEW f \in Features, NEW u \in Users, BuyFromRgb(f, u)
  PROVE  RowsAreOwned'
<1> SUFFICES ASSUME faults' = 0 PROVE RowsAreOwned'
  BY DEF RowsAreOwned
<1>1. faults = 0 /\ profit' = Append(profit, NewRow(f, u, "color"))
  <2>1. faults' = 0 => faults = 0 /\ UNCHANGED faults
    BY FaultType DEF BuyFromRgb
  <2> QED BY <2>1 DEF BuyFromRgb, Fault
<1>2. PICK r \in Row : /\ r = NewRow(f, u, "color") /\ r.feature = f /\ r.user = u
                       /\ r.amount = 0 /\ r.updatedAt = now
  BY Rows, NewRowType
<1>3. PICK n : /\ DOMAIN profit' = DOMAIN profit \union {n} /\ n \notin DOMAIN profit
               /\ profit'[n] = r /\ \A j \in DOMAIN profit : profit'[j] = profit[j]
  BY <1>1, <1>2, RowInserted DEF BuyFromRgb
<1>4. /\ owner[f] = Rgb /\ owner' = [owner EXCEPT ![f] = u] /\ task' = task
      /\ owner \in [Features -> Users \union {Rgb}] /\ u # Rgb
      /\ owner'[f] = u /\ \A g \in Features \ {f} : owner'[g] = owner[g]
  BY FeaturesAssumption DEF BuyFromRgb, Basics, TypeOK
<1>5. \A i \in DOMAIN profit : profit[i].feature \in Features \ {f}
  BY <1>1, <1>4, Rows DEF RowsAreOwned, OneRowEach, Row
<1>6. OneRowEach'
  <2>1. ASSUME NEW g \in Features \ {f}
        PROVE  /\ owner'[g] = Rgb => \A i \in DOMAIN profit' : profit'[i].feature # g
               /\ owner'[g] # Rgb => \E i \in DOMAIN profit' : profit'[i].feature = g /\ SoleRow(i)'
    <3>1. CASE owner[g] = Rgb
      BY <1>1, <1>2, <1>3, <1>4, <3>1 DEF RowsAreOwned, OneRowEach
    <3>2. CASE owner[g] # Rgb
      <4>1. PICK i \in DOMAIN profit : profit[i].feature = g /\ SoleRow(i)
        BY <1>1, <3>2 DEF RowsAreOwned, OneRowEach
      <4>2. SoleRow(i)'
        BY <1>2, <1>3, <4>1 DEF SoleRow
      <4> QED BY <1>3, <1>4, <3>2, <4>1, <4>2
    <3> QED BY <3>1, <3>2
  <2>2. SoleRow(n)'
    BY <1>2, <1>3, <1>5 DEF SoleRow
  <2> QED BY <1>2, <1>3, <1>4, <2>1, <2>2 DEF OneRowEach
<1>7. ASSUME NEW t \in Tasks PROVE RightUser(task[t])' /\ RightSeller(task[t])'
  <2>1. PICK k \in Task : k = task[t] /\ RightUser(k) /\ RightSeller(k)
    BY <1>1 DEF Basics, TypeOK, RowsAreOwned
  <2>2. /\ k.user # Rgb /\ k.buyer # Rgb /\ k.feature \in Features
        /\ k.pc # "idle" /\ IsSale(k) => k.feature # f
    BY <1>4, <2>1, FeaturesAssumption DEF Task, RightSeller
  <2>3. RightSeller(k)'
    BY <1>4, <2>1, <2>2 DEF RightSeller, Selling, IsSale
  <2>4. RightUser(k)'
    <3>1. Selling(k) => k.feature # f
      BY <2>2 DEF Selling, IsSale
    <3> QED BY <1>2, <1>3, <1>4, <1>5, <2>1, <3>1 DEF RightUser, Selling
  <2> QED BY <1>4, <2>1, <2>3, <2>4 DEF RightUser, RightSeller
<1>8. Tasks = {} => \A i \in DOMAIN profit' : profit'[i].user = owner'[profit'[i].feature]
  BY <1>1, <1>2, <1>3, <1>4, <1>5 DEF RowsAreOwned
<1> QED BY <1>6, <1>7, <1>8 DEF RowsAreOwned

(* The buyer becomes the owner of the feature, which had an owner. *)
LEMMA OwnerOwned ==
  ASSUME OneAtATime, Basics, RowsAreOwned, NEW t \in Tasks, UpdateOwner(t)
  PROVE  RowsAreOwned'
<1> SUFFICES ASSUME faults' = 0 PROVE RowsAreOwned'
  BY DEF RowsAreOwned
<1>1. PICK q \in Task : q = task[t] /\ q.pc = "own" /\ q.op = "sale"
  BY OwnerStep
<1>2. /\ UNCHANGED profit /\ faults = 0
      /\ owner' = [owner EXCEPT ![q.feature] = q.buyer]
      /\ task' = [task EXCEPT ![t].pc = "look"]
  BY <1>1, OwnerStep DEF TaskStepped
<1>3. PICK k \in Task : /\ task'[t] = k /\ k.pc = "look" /\ k.op = q.op /\ k.user = q.user
                        /\ k.feature = q.feature /\ k.buyer = q.buyer
  <2>1. PICK k : k = [q EXCEPT !.pc = "look"]
    OBVIOUS
  <2>2. /\ k \in Task /\ k.pc = "look" /\ k.op = q.op /\ k.user = q.user
        /\ k.feature = q.feature /\ k.buyer = q.buyer
    BY <2>1 DEF Task
  <2>3. task'[t] = k
    BY <1>1, <1>2, <2>1 DEF Basics, TypeOK
  <2> QED BY <2>2, <2>3
<1>4. /\ owner \in [Features -> Users \union {Rgb}] /\ q.feature \in Features
      /\ q.user # Rgb /\ q.buyer # Rgb
      /\ owner'[q.feature] = q.buyer
      /\ \A g \in Features \ {q.feature} : owner'[g] = owner[g]
  BY <1>2, FeaturesAssumption DEF Basics, TypeOK, Task
<1>5. owner[q.feature] = q.user /\ RightUser(q) /\ OneRowEach
  BY <1>1, <1>2 DEF RowsAreOwned, RightSeller, Selling, IsSale
<1>6. OneRowEach'
  <2>1. \A i \in DOMAIN profit : SoleRow(i)' <=> SoleRow(i)
    BY <1>2 DEF SoleRow
  <2> QED BY <1>2, <1>4, <1>5, <2>1 DEF OneRowEach
<1>7. RightSeller(k)'
  BY <1>1, <1>3, <1>4 DEF RightSeller, Selling, IsSale
<1>8. RightUser(k)'
  <2>1. \A i \in DOMAIN profit : /\ profit[i].feature \in Features
                                 /\ profit[i].user = owner[profit[i].feature]
    BY <1>1, <1>5, Rows DEF RightUser, Selling, Row
  <2> QED BY <1>1, <1>2, <1>3, <1>4, <1>5, <2>1 DEF RightUser, Selling
<1>9. \A d \in Tasks : d = t
  BY DEF OneAtATime
<1> QED BY <1>3, <1>6, <1>7, <1>8, <1>9 DEF RowsAreOwned, RightUser, RightSeller

(* The row of a feature follows to the buyer. *)
LEMMA HandOverOwned ==
  ASSUME OneAtATime, Basics, RowsAreOwned, NEW t \in Tasks, Transfer(t) \/ CommitAccept(t)
  PROVE  RowsAreOwned'
<1> SUFFICES ASSUME faults' = 0 PROVE RowsAreOwned'
  BY DEF RowsAreOwned
<1>1. PICK q \in Task : q = task[t] /\ q.pc \in {"transfer", "commit"}
  BY HandOverStepOK
<1>2. TaskStepped(t) /\ Moves(t, IdleTask) /\ faults = 0
  BY HandOverStepOK DEF TaskStepped
<1>3. /\ q.pc = "transfer" => q.op = "sale" /\ UNCHANGED owner
      /\ q.pc = "commit" => q.op = "accept" /\ owner' = [owner EXCEPT ![q.feature] = q.buyer]
      /\ RowsOf(q.feature, q.user) # {} =>
            \E i \in RowsOf(q.feature, q.user) :
              profit' = [profit EXCEPT ![i] = HandOver(@, q.buyer)]
  BY <1>1, HandOverStepOK
<1>4. /\ owner \in [Features -> Users \union {Rgb}] /\ q.feature \in Features
      /\ q.user # Rgb /\ q.buyer # Rgb /\ q.buyer \in Users
  BY FeaturesAssumption DEF Basics, TypeOK, Task
<1>5. OneRowEach /\ RightUser(q) /\ RightSeller(q)
  BY <1>1, <1>2 DEF RowsAreOwned
<1>6. /\ Selling(q) => owner[q.feature] = q.buyer /\ q.pc = "transfer"
      /\ ~ Selling(q) => owner[q.feature] = q.user /\ q.pc = "commit"
  BY <1>1, <1>3, <1>5 DEF RightSeller, Selling, IsSale
<1>7. /\ owner'[q.feature] = q.buyer
      /\ \A g \in Features \ {q.feature} : owner'[g] = owner[g]
      /\ owner[q.feature] # Rgb
  BY <1>3, <1>4, <1>6
<1>8. PICK i \in DOMAIN profit : profit[i].feature = q.feature /\ SoleRow(i)
  BY <1>4, <1>5, <1>7 DEF OneRowEach
<1>9. profit[i].user = q.user
  BY <1>5, <1>6, <1>8 DEF RightUser
<1>10. RowsOf(q.feature, q.user) = {i}
  BY <1>8, <1>9 DEF RowsOf, SoleRow
<1>11. PICK r \in Row : /\ profit' = [profit EXCEPT ![i] = r]
                        /\ r.feature = q.feature /\ r.user = q.buyer /\ r.updatedAt = now
  <2>1. profit' = [profit EXCEPT ![i] = HandOver(profit[i], q.buyer)]
    BY <1>3, <1>8, <1>10
  <2>2. PICK r : r = HandOver(profit[i], q.buyer)
    OBVIOUS
  <2>3. profit[i] \in Row /\ now \in Nat
    BY Rows
  <2>4. r \in Row /\ r.feature = profit[i].feature /\ r.user = q.buyer /\ r.updatedAt = now
    BY <1>4, <2>2, <2>3, HandOverType
  <2> QED BY <1>8, <2>1, <2>2, <2>4
<1>12. /\ DOMAIN profit' = DOMAIN profit
       /\ profit'[i] = r /\ \A j \in DOMAIN profit \ {i} : profit'[j] = profit[j]
  BY <1>8, <1>11, RowUpdated
<1>13. OneRowEach'
  <2>1. \A j \in DOMAIN profit : profit'[j].feature = profit[j].feature
    BY <1>8, <1>11, <1>12
  <2>2. \A j \in DOMAIN profit : SoleRow(j) => SoleRow(j)'
    BY <1>12, <2>1 DEF SoleRow
  <2> QED BY <1>4, <1>5, <1>7, <1>12, <2>1, <2>2 DEF OneRowEach
<1>14. \A j \in DOMAIN profit' : profit'[j].user = owner'[profit'[j].feature]
  <2>1. ASSUME NEW j \in DOMAIN profit \ {i} PROVE profit'[j].user = owner'[profit'[j].feature]
    <3>1. profit[j].feature \in Features \ {q.feature}
      BY <1>8, Rows DEF SoleRow, Row
    <3>2. profit[j].user = owner[profit[j].feature]
      BY <1>5, <3>1 DEF RightUser
    <3> QED BY <1>7, <1>12, <3>1, <3>2
  <2> QED BY <1>7, <1>11, <1>12, <2>1
<1>15. /\ task'[t].pc = "idle" /\ \A d \in Tasks : d = t
       /\ ~ Selling(task'[t])
  BY <1>2, IdleType DEF Moves, Basics, TypeOK, OneAtATime, Selling
<1> QED BY <1>13, <1>14, <1>15 DEF RowsAreOwned, RightUser, RightSeller, Selling

LEMMA TableOwned ==
  ASSUME Basics, RowsAreOwned, TableStep, SameOwners
  PROVE  RowsAreOwned'
BY OwnedStays DEF TableStep

LEMMA CalcOwned ==
  ASSUME Basics, RowsAreOwned, NEW c \in Calculators, CalcStep(c)
  PROVE  RowsAreOwned'
<1>1. UNCHANGED owner /\ TableStep /\ RowsStay
  BY CalcStepOK DEF CalcStep, StartRun, SelectBatch, UpdateRow, EndBatch, CalcUnchanged, TableStep
<1>2. DOMAIN profit' = DOMAIN profit /\ \A i \in DOMAIN profit : profit'[i].user = profit[i].user
  BY CalcStepOK, AccruesOK
<1>3. SameOwners
  BY <1>1, <1>2 DEF SameOwners, RowsStay
<1> QED BY <1>1, <1>3, TableOwned

(* A withdrawal or the start or the middle of a sale. *)
LEMMA TaskOwned ==
  ASSUME OneAtATime, Basics, RowsAreOwned, NEW t \in Tasks,
         \/ GetSingleProfit(t) \/ GetProfitsByApplication(t) \/ StartSale(t)
         \/ LookUpProfit(t) \/ Settle(t) \/ Reset(t)
  PROVE  RowsAreOwned'
<1>1. CASE GetSingleProfit(t) \/ GetProfitsByApplication(t)
  <2>1. PICK k \in Task : Moves(t, k) /\ ~ IsSale(k)
    BY <1>1, WithdrawalStarts
  <2>2. TaskStepped(t) /\ UNCHANGED <<owner, profit>> /\ task[t].pc = "idle"
    BY <1>1, WithdrawalStarts
  <2>3. SameOwners
    BY <2>2 DEF SameOwners
  <2>4. RightUser(task[t]) => RightUser(k) /\ RightSeller(k)
    BY <2>1, <2>2 DEF RightUser, RightSeller, Selling, IsSale
  <2> QED BY <2>1, <2>2, <2>3, <2>4, OwnedMoves
<1>2. CASE StartSale(t)
  <2>1. PICK k \in Task : /\ Moves(t, k) /\ k.pc = (IF k.op = "sale" THEN "own" ELSE "look")
                          /\ k.user = owner[k.feature]
    BY <1>2, SaleStarts
  <2>2. TaskStepped(t) /\ UNCHANGED <<owner, profit>> /\ task[t].pc = "idle"
    BY <1>2, SaleStarts
  <2>3. SameOwners
    BY <2>2 DEF SameOwners
  <2>4. RightUser(task[t]) => RightUser(k) /\ RightSeller(k)
    BY <2>1, <2>2 DEF RightUser, RightSeller, Selling, IsSale
  <2> QED BY <2>1, <2>2, <2>3, <2>4, OwnedMoves
<1>3. CASE LookUpProfit(t)
  <2>1. PICK k \in Task :
          /\ Moves(t, k)
          /\ k.op = task[t].op /\ k.user = task[t].user /\ k.feature = task[t].feature
          /\ k.buyer = task[t].buyer
          /\ k.pc = "settle" \/ k.pc = HandOverStep(task[t])
    BY <1>3, LookUpStep
  <2>2. /\ TaskStepped(t) /\ UNCHANGED <<owner, profit>>
        /\ task[t].pc = "look" /\ IsSale(task[t])
    BY <1>3, LookUpStep
  <2>3. SameOwners
    BY <2>2 DEF SameOwners
  <2>4. Selling(k) <=> Selling(task[t])
    BY <2>1, <2>2 DEF Selling, IsSale, HandOverStep
  <2>5. RightUser(task[t]) /\ RightSeller(task[t]) => RightUser(k) /\ RightSeller(k)
    BY <2>1, <2>2, <2>4 DEF RightUser, RightSeller
  <2> QED BY <2>1, <2>2, <2>3, <2>5, OwnedMoves
<1>4. CASE Settle(t)
  <2>1. PICK i \in DOMAIN profit, k \in Task :
          /\ Moves(t, k)
          /\ IsSale(task[t]) =>
               /\ k.pc = HandOverStep(task[t])
               /\ k.op = task[t].op /\ k.user = task[t].user
               /\ k.feature = task[t].feature /\ k.buyer = task[t].buyer
          /\ ~ IsSale(task[t]) => ~ IsSale(k)
    BY <1>4, SettleStep
  <2>2. TaskStepped(t) /\ UNCHANGED <<owner, profit>> /\ task[t].pc = "settle"
    BY <1>4, SettleStep
  <2>3. SameOwners
    BY <2>2 DEF SameOwners
  <2>4. Selling(k) <=> Selling(task[t])
    BY <2>1, <2>2 DEF Selling, IsSale, HandOverStep
  <2>5. RightUser(task[t]) /\ RightSeller(task[t]) => RightUser(k) /\ RightSeller(k)
    <3>1. CASE IsSale(task[t])
      BY <2>1, <2>2, <2>4, <3>1 DEF RightUser, RightSeller
    <3>2. CASE ~ IsSale(task[t])
      BY <2>1, <3>2 DEF RightUser, RightSeller, Selling, IsSale
    <3> QED BY <3>1, <3>2
  <2> QED BY <2>1, <2>2, <2>3, <2>5, OwnedMoves
<1>5. CASE Reset(t)
  <2>1. PICK i \in DOMAIN profit :
          /\ Moves(t, Settled(task[t], i)) /\ ~ IsSale(Settled(task[t], i))
          /\ i \in task[t].todo
    BY <1>5, ResetStep DEF Current
  <2>2. PICK k : k = Settled(task[t], i)
    OBVIOUS
  <2>3. /\ TaskStepped(t) /\ UNCHANGED owner /\ task[t].pc = "reset" /\ ~ IsSale(task[t])
        /\ DOMAIN profit' = DOMAIN profit
        /\ \A j \in DOMAIN profit : profit'[j].user = profit[j].user
        /\ task[t] \in Task
    BY <1>5, ResetStep
  <2>4. SameOwners
    BY <2>3 DEF SameOwners, TaskStepped, RowsStay
  <2>5. RightUser(task[t]) => RightUser(k) /\ RightSeller(k)
    BY <2>1, <2>2, <2>3 DEF RightUser, RightSeller, Selling, IsSale
  <2>6. k \in Task
    BY <2>1, <2>2, <2>3, SettledType DEF Basics
  <2> QED BY <2>1, <2>2, <2>3, <2>4, <2>5, <2>6, OwnedMoves
<1> QED BY <1>1, <1>2, <1>3, <1>4, <1>5

LEMMA NextOwned ==
  ASSUME OneAtATime, Basics, RowsAreOwned, [Next]_vars
  PROVE  RowsAreOwned'
<1>1. CASE UNCHANGED vars
  <2>1. SameOwners /\ TableStep
    BY <1>1, StutterOK DEF vars, SameOwners
  <2> QED BY <2>1, TableOwned
<1>2. CASE Tick
  <2>1. SameOwners /\ TableStep
    BY <1>2, TickOK DEF Tick, SameOwners
  <2> QED BY <2>1, TableOwned
<1>3. ASSUME NEW f \in Features, NEW b \in BOOLEAN, SetActive(f, b) PROVE RowsAreOwned'
  <2>1. SameOwners /\ TableStep
    BY <1>3, SetActiveOK DEF SetActive, SameOwners, TableStep, RowsStay
  <2> QED BY <2>1, TableOwned
<1>4. ASSUME NEW t \in Tasks, TaskStep(t) PROVE RowsAreOwned'
  BY <1>4, TaskOwned, OwnerOwned, HandOverOwned DEF TaskStep
<1> QED BY <1>1, <1>2, <1>3, <1>4, BuyOwned, CalcOwned DEF Next

(* While withdrawals and sales do not overlap and nothing fails, the row   *)
(* of a feature is its owner's whenever no sale is under way, whatever the *)
(* calculators and constructions do meanwhile.                             *)
THEOREM RowsFollowOwners ==
  ASSUME OneAtATime
  PROVE  Spec => []ProfitFollowsOwner
<1>1. Init => RowsAreOwned
  BY DEF Init, RowsAreOwned, OneRowEach, RightUser, RightSeller, IdleTask
<1>2. Basics /\ RowsAreOwned => ProfitFollowsOwner
  <2>1. ASSUME RowsAreOwned, faults = 0, NEW t \in Tasks, task[t].pc = "idle",
               NEW i \in DOMAIN profit
        PROVE  profit[i].user = owner[profit[i].feature]
    BY <2>1 DEF RowsAreOwned, RightUser, Selling
  <2> QED BY <2>1 DEF RowsAreOwned, ProfitFollowsOwner
<1>3. Basics /\ PaidInv /\ RowsAreOwned /\ [Next]_vars => (Basics /\ PaidInv /\ RowsAreOwned)'
  BY NextInv, NextOwned
<1> QED BY <1>1, <1>2, <1>3, InitInv, PTL DEF Spec
=============================================================================
