--------------------------- MODULE BuildingProofs ---------------------------
(***************************************************************************)
(* Buildings, for any users, features, models, requests and failures:      *)
(* where satisfaction can be created or lost, how many buildings and       *)
(* refunds overlapping requests can cause, and when the profits of a       *)
(* feature are active.                                                     *)
(***************************************************************************)
EXTENDS Building, TableLemmas

(* The steps after BuildFeature found the feature free, up to its insert,  *)
(* and the steps of DestroyBuilding after it found the building.           *)
Erecting(t) == task[t].pc \in {"deduct", "deactivate", "create"}
Removing(t) == task[t].op = "destroy" /\ task[t].pc \in {"delete", "activate", "refund"}
Removed(t)  == task[t].op = "destroy" /\ task[t].pc \in {"activate", "refund"}

Builders(f)  == {t \in Tasks : Erecting(t) /\ task[t].feature = f}
Refunders(i) == {t \in Tasks : Removing(t) /\ task[t].id = i}

(* The operation that a step belongs to, and the row that was found. *)
Shape ==
  \A t \in Tasks :
    /\ task[t].pc \in {"check", "deduct", "deactivate", "create", "reactivate"} =>
         task[t].op = "build"
    /\ task[t].pc \in {"limits", "update"} => task[t].op = "update"
    /\ task[t].pc = "write" => task[t].op = "inform"
    /\ task[t].pc = "find" => task[t].op # "build"
    /\ task[t].pc \in {"delete", "activate"} => task[t].op = "destroy"
    /\ task[t].pc = "refund" => task[t].op \in {"build", "destroy"}
    /\ task[t].late => Removed(t)
    /\ Removing(t) => /\ task[t].id \in DOMAIN buildings
                      /\ buildings[task[t].id].feature = task[t].feature
                      /\ buildings[task[t].id].model = task[t].model

(* Without overlapping requests a feature has one request and one building. *)
Alone ==
  \A f \in Features \ raced :
    /\ \A s, t \in Tasks : s \in Busy(f) /\ t \in Busy(f) => s = t
    /\ \A i, j \in DOMAIN buildings : i \in Standing(f) /\ j \in Standing(f) => i = j

(* What such a request read of the feature's building is still so. *)
CurrentOf(t) ==
  task[t].pc # "idle" /\ task[t].feature \notin raced =>
    /\ task[t].pc \in {"deduct", "deactivate", "create", "reactivate", "activate"} =>
         Standing(task[t].feature) = {}
    /\ task[t].pc = "delete" => /\ task[t].id \in Standing(task[t].feature)
                                /\ task[t].launched = buildings[task[t].id].launched
    /\ ~ task[t].late
    /\ Removed(t) => buildings[task[t].id].refunds = 0
ReadIsCurrent == \A t \in Tasks : CurrentOf(t)

(* A building that stands was not refunded, and its refund is not due. *)
StandingIsUnrefunded ==
  \A i \in DOMAIN buildings : buildings[i].standing =>
    /\ buildings[i].refunds = 0
    /\ \A t \in Tasks : Removed(t) => task[t].id # i

(* Refunds were made, or will be, by requests that found it standing. *)
RefundsAreBounded ==
  \A i \in DOMAIN buildings :
    /\ buildings[i].refunds + Cardinality(Refunders(i)) <= Cardinality(Tasks)
    /\ buildings[i].feature \notin raced => buildings[i].refunds <= 1

(* Buildings were put up, or will be, by requests that found none. *)
BuildersAreBounded ==
  \A f \in Features : Cardinality(Standing(f)) + Cardinality(Builders(f)) <= Cardinality(Tasks)

(* Profits are stopped before the insert, and not resumed while it stands. *)
ProfitsAreStopped ==
  \A f \in Features \ (raced \union sold) :
    (Standing(f) # {} \/ \E t \in Tasks : At(t, "create") /\ task[t].feature = f) => ~ active[f]

(* Profits are only stopped while a request that will resume them runs. *)
ProfitsAreResumed ==
  \A f \in Features \ raced :
    /\ faults = 0 /\ Standing(f) = {}
    /\ \A t \in Busy(f) : task[t].pc \notin {"create", "reactivate", "activate"}
    => active[f]

(* While one feature's package is all that was fetched, models, requests   *)
(* and buildings carry what this feature requires.                         *)
RequirementIsKnown ==
  \A f \in Features : fetched \subseteq {f} =>
    /\ \A m \in Models : required[m] \in {0, Need[f]}
    /\ \A t \in Tasks : /\ task[t].feature = f
                        /\ task[t].pc \in {"deactivate", "create", "update"} \/
                           (task[t].pc = "find" /\ task[t].op = "update")
                        => task[t].launched >= Need[f]
    /\ \A i \in Standing(f) : buildings[i].launched >= Need[f]

(* Requests carry no information, or one with an activity line. *)
InformationIsKnown ==
  /\ \A i \in DOMAIN buildings : "activity_line" \in buildings[i].info
  /\ \A t \in Tasks :
       /\ task[t].op \in {"build", "update"} /\ task[t].info # {} =>
            "activity_line" \in task[t].info
       /\ task[t].pc = "write" => "activity_line" \in task[t].info

(* Every building has a ceiling: no smaller than what it holds, and than   *)
(* what a request that is about to delete it will give back.  Counted at   *)
(* its ceilings, the satisfaction is what the wallets had and the leaks.   *)
Ceilings(P) ==
  /\ P \in [DOMAIN buildings -> Nat]
  /\ \A i \in DOMAIN buildings : buildings[i].launched <= P[i]
  /\ \A t \in Tasks : At(t, "delete") => task[t].launched <= P[task[t].id]

AtCeilings(P) == [i \in DOMAIN buildings |-> IF buildings[i].standing THEN P[i] ELSE 0]

CreatedIsKnown ==
  \E P \in [DOMAIN buildings -> Nat] :
    /\ Ceilings(P)
    /\ SumFunctionOnSet(wallet, Users) + SumFunctionOnSet(AtCeilings(P), DOMAIN buildings)
         + InFlight <= Total + raised + again

IInv ==
  /\ TypeOK /\ Shape
  /\ Alone /\ ReadIsCurrent
  /\ StandingIsUnrefunded /\ RefundsAreBounded
  /\ BuildersAreBounded
  /\ ProfitsAreStopped /\ ProfitsAreResumed
  /\ RequirementIsKnown /\ InformationIsKnown
  /\ CreatedIsKnown /\ NothingLost

-----------------------------------------------------------------------------
(* How a step changes tasks: only t moves, and keeps what it works on. *)
Moves(t) == /\ task' \in [Tasks -> Task]
            /\ \A d \in Tasks \ {t} : task'[d] = task[d]
Keeps(t) == /\ task'[t].op = task[t].op /\ task'[t].user = task[t].user
            /\ task'[t].feature = task[t].feature /\ task'[t].model = task[t].model
            /\ task'[t].launched = task[t].launched /\ task'[t].info = task[t].info
            /\ task'[t].id = task[t].id /\ task'[t].valid = task[t].valid
Goes(t, pc) == Moves(t) /\ Keeps(t) /\ task'[t].pc = pc /\ task'[t].late = task[t].late
Returns(t)  == /\ Moves(t)
               /\ task'[t].pc = "idle" /\ task'[t].op = "build" /\ task'[t].info = {}
               /\ task'[t].late = FALSE

(* How a step changes the rows: none disappears, moves or is put up again. *)
RowsStay ==
  \A i \in DOMAIN buildings :
    /\ i \in DOMAIN buildings'
    /\ buildings'[i].feature = buildings[i].feature
    /\ buildings'[i].model = buildings[i].model
    /\ buildings'[i].standing => buildings[i].standing

(* The task of a free goroutine. *)
LEMMA IdleTask ==
  /\ Idle \in Task
  /\ Idle.pc = "idle" /\ Idle.op = "build" /\ Idle.info = {} /\ Idle.late = FALSE
  /\ Idle.id = 0 /\ Idle.launched = 0
<1>1. /\ (CHOOSE u \in Users : TRUE) \in Users /\ (CHOOSE f \in Features : TRUE) \in Features
      /\ (CHOOSE m \in Models : TRUE) \in Models
  BY BuildingAssumption
<1> QED BY <1>1 DEF Idle, Task, Ops

(* A task that is replaced by another. *)
LEMMA Replace ==
  ASSUME TypeOK, NEW t \in Tasks, NEW k \in Task, task' = [task EXCEPT ![t] = k]
  PROVE  Moves(t) /\ task'[t] = k
BY DEF TypeOK, Moves

(* The two ways in which most steps end. *)
LEMMA GotoStep ==
  ASSUME TypeOK, NEW t \in Tasks, NEW pc,
         Goto(t, pc), pc \in {"deduct", "deactivate", "create", "reactivate", "find", "refund"}
  PROVE  Goes(t, pc)
<1>1. PICK k : k = [task[t] EXCEPT !.pc = pc]
  OBVIOUS
<1>2. task[t] \in Task
  BY DEF TypeOK
<1>3. k \in Task /\ task' = [task EXCEPT ![t] = k]
  BY <1>1, <1>2 DEF Goto, Task
<1>4. Moves(t) /\ task'[t] = k
  BY <1>3, Replace
<1> QED BY <1>1, <1>2, <1>4 DEF Goes, Keeps, Task

(* A handler that answers frees its task. *)
LEMMA ReturnStep ==
  ASSUME TypeOK, NEW t \in Tasks, Return(t)
  PROVE  Returns(t)
<1>1. PICK k : k = Idle
  OBVIOUS
<1>2. k \in Task /\ task' = [task EXCEPT ![t] = k]
  BY <1>1, IdleTask DEF Return
<1>3. Moves(t) /\ task'[t] = k
  BY <1>2, Replace
<1> QED BY <1>1, <1>3, IdleTask DEF Returns

(* A request that arrives. *)
Begins(t) ==
  /\ Moves(t) /\ At(t, "idle")
  /\ task'[t].user = owner[task'[t].feature]
  /\ ~ task'[t].late
  /\ \/ task'[t].pc = "check" /\ task'[t].op = "build"
     \/ task'[t].pc = "limits" /\ task'[t].op = "update"
     \/ task'[t].pc = "find" /\ task'[t].op \in {"inform", "destroy"}
  /\ task'[t].op \in {"build", "update"} /\ task'[t].info # {} =>
       "activity_line" \in task'[t].info
  /\ raced' = IF Busy(task'[t].feature) = {} THEN raced ELSE raced \union {task'[t].feature}

LEMMA CallsType ==
  ASSUME TypeOK, Arrives
  PROVE  calls' \in 0..MaxCalls
<1>1. MaxCalls \in Nat
  BY BuildingAssumption
<1> QED BY <1>1 DEF Arrives, TypeOK

(* A request that arrives takes a free task and changes nothing else. *)
LEMMA RequestStep ==
  ASSUME TypeOK, NEW t \in Tasks, Request(t)
  PROVE  Begins(t) /\ TypeOK'
         /\ UNCHANGED <<rows, wallet, fetched, sold, raised, lowered, again, forfeited, faults>>
<1>1. ASSUME NEW op \in Ops, NEW f \in Features, NEW m \in Models, NEW n \in Nat,
             NEW info \in SUBSET Fields, NEW valid \in BOOLEAN, Begin(t, op, f, m, n, info, valid),
             op \in {"build", "update"} /\ info # {} => "activity_line" \in info
      PROVE  Begins(t) /\ TypeOK'
             /\ UNCHANGED <<rows, wallet, fetched, sold, raised, lowered, again, forfeited, faults>>
  <2> DEFINE step == CASE op = "build" -> "check" [] op = "update" -> "limits" [] OTHER -> "find"
  <2>1. PICK pc : pc = step
    OBVIOUS
  <2>2. \/ pc = "check" /\ op = "build"
        \/ pc = "limits" /\ op = "update"
        \/ pc = "find" /\ op \in {"inform", "destroy"}
    BY <2>1 DEF Ops
  <2>3. PICK k : k = [Idle EXCEPT !.pc = pc, !.op = op, !.user = owner[f], !.feature = f,
                        !.model = m, !.launched = n, !.info = info, !.valid = valid]
    OBVIOUS
  <2>4. owner[f] \in Users
    BY DEF TypeOK
  <2>5. /\ k \in Task /\ k.pc = pc /\ k.op = op /\ k.user = owner[f] /\ k.feature = f
        /\ k.info = info /\ k.late = FALSE
    BY <2>2, <2>3, <2>4, IdleTask DEF Task, Ops
  <2>6. task' = [task EXCEPT ![t] = k]
    BY <1>1, <2>1, <2>3 DEF Begin
  <2>7. Moves(t) /\ task'[t] = k
    BY <2>5, <2>6, Replace
  <2>8. Begins(t)
    BY <1>1, <2>2, <2>5, <2>7 DEF Begins, Begin
  <2>9. TypeOK'
    <3>1. calls' \in 0..MaxCalls
      BY <1>1, CallsType DEF Begin
    <3>2. raced' \subseteq Features
      BY <1>1 DEF Begin, TypeOK
    <3>3. UNCHANGED <<rows, wallet, fetched, sold, raised, lowered, again, forfeited, faults>>
      BY <1>1 DEF Begin
    <3> QED BY <2>7, <3>1, <3>2, <3>3 DEF TypeOK, Moves, rows
  <2> QED BY <1>1, <2>8, <2>9 DEF Begin
<1>2. \A info \in Infos : /\ Information(info) \in SUBSET Fields
                          /\ Information(info) # {} => "activity_line" \in Information(info)
  BY BuildingAssumption DEF Information
<1>3. 1..MaxLaunched \subseteq Nat
  OBVIOUS
<1>4. PICK f \in Features, m \in Models :
        \/ \E op \in {"build", "update"}, n \in 1..MaxLaunched, info \in Infos, valid \in BOOLEAN :
             Begin(t, op, f, m, n, Information(info), valid)
        \/ \E x \in Fields : Begin(t, "inform", f, m, 0, {x}, TRUE)
        \/ Begin(t, "destroy", f, m, 0, {}, TRUE)
  BY DEF Request
<1>5. CASE \E op \in {"build", "update"}, n \in 1..MaxLaunched, info \in Infos, valid \in BOOLEAN :
             Begin(t, op, f, m, n, Information(info), valid)
  <2>1. PICK op \in {"build", "update"}, n \in 1..MaxLaunched, info \in Infos, valid \in BOOLEAN :
             Begin(t, op, f, m, n, Information(info), valid)
    BY <1>5
  <2>2. op \in Ops /\ n \in Nat
    BY <1>3 DEF Ops
  <2> QED BY <1>1, <1>2, <2>1, <2>2
<1>6. CASE \E x \in Fields : Begin(t, "inform", f, m, 0, {x}, TRUE)
  <2>1. PICK x \in Fields : Begin(t, "inform", f, m, 0, {x}, TRUE)
    BY <1>6
  <2>2. "inform" \in Ops /\ {x} \in SUBSET Fields /\ "inform" \notin {"build", "update"}
    BY DEF Ops
  <2> QED BY <1>1, <2>1, <2>2
<1>7. CASE Begin(t, "destroy", f, m, 0, {}, TRUE)
  <2>1. "destroy" \in Ops /\ {} \in SUBSET Fields /\ "destroy" \notin {"build", "update"}
    BY DEF Ops
  <2> QED BY <1>1, <1>7, <2>1
<1> QED BY <1>4, <1>5, <1>6, <1>7

(* A step that may fail keeps count of the failures. *)
LEMMA FaultType == TypeOK /\ (Fault \/ NoFault) => faults' \in 0..MaxFaults
<1>1. MaxFaults \in Nat
  BY BuildingAssumption
<1> QED BY <1>1 DEF TypeOK, Fault, NoFault

(* The rows, one by one. *)
LEMMA EachRow ==
  ASSUME TypeOK
  PROVE  /\ Len(buildings) \in Nat /\ DOMAIN buildings = 1..Len(buildings)
         /\ IsFiniteSet(DOMAIN buildings)
         /\ \A i \in DOMAIN buildings :
              /\ i \in Nat /\ buildings[i] \in Row
              /\ buildings[i].launched \in Nat /\ buildings[i].refunds \in Nat
              /\ buildings[i].feature \in Features /\ buildings[i].standing \in BOOLEAN
              /\ buildings[i].info \subseteq Fields
<1>1. Len(buildings) \in Nat /\ DOMAIN buildings = 1..Len(buildings)
  BY DEF TypeOK
<1>2. IsFiniteSet(DOMAIN buildings)
  BY <1>1, FS_Interval
<1>3. \A i \in DOMAIN buildings : i \in Nat /\ buildings[i] \in Row
  BY <1>1 DEF TypeOK
<1> QED BY <1>1, <1>2, <1>3 DEF Row

(* A request that found row i goes on with it. *)
Finds(t) ==
  /\ Moves(t) /\ At(t, "find")
  /\ task'[t].op = task[t].op /\ task'[t].user = task[t].user
  /\ task'[t].feature = task[t].feature /\ task'[t].model = task[t].model
  /\ task'[t].late = task[t].late
  /\ \E i \in Matching(task[t].feature, task[t].model) :
       \/ /\ task[t].op = "update" /\ task'[t].pc = "update"
          /\ task'[t].launched = task[t].launched /\ task'[t].info = task[t].info
       \/ /\ task[t].op = "inform" /\ task'[t].pc = "write"
          /\ task'[t].info = task[t].info \union buildings[i].info
       \/ /\ task[t].op = "destroy" /\ task'[t].pc = "delete"
          /\ task'[t].id = i /\ task'[t].launched = buildings[i].launched

(* A request reads one of the rows that match, or answers that there is none. *)
LEMMA FindStep ==
  ASSUME TypeOK, Shape, NEW t \in Tasks, FindBuilding(t)
  PROVE  Finds(t) \/ Returns(t)
<1>1. CASE Return(t)
  BY <1>1, ReturnStep
<1> DEFINE G(i) == CASE task[t].op = "update"  -> [task[t] EXCEPT !.pc = "update"]
                     [] task[t].op = "inform"  ->
                          [task[t] EXCEPT !.pc = "write", !.info = @ \union buildings[i].info]
                     [] task[t].op = "destroy" ->
                          [task[t] EXCEPT !.pc = "delete", !.id = i,
                                          !.launched = buildings[i].launched]
<1>2. ASSUME NEW i \in Matching(task[t].feature, task[t].model),
             task' = [task EXCEPT ![t] = G(i)],
             task[t].op \in {"update", "inform", "destroy"}
      PROVE  Finds(t)
  <2>1. PICK k : k = G(i)
    OBVIOUS
  <2>2. /\ task[t] \in Task
        /\ i \in DOMAIN buildings /\ i \in Nat /\ buildings[i].launched \in Nat
        /\ buildings[i].info \subseteq Fields
    BY EachRow DEF TypeOK, Matching, Standing
  <2>3. task' = [task EXCEPT ![t] = k]
    BY <1>2, <2>1
  <2>4. CASE task[t].op = "update"
    <3>1. k = [task[t] EXCEPT !.pc = "update"]
      BY <2>1, <2>4
    <3>2. k \in Task
      BY <2>2, <3>1 DEF Task
    <3>3. Moves(t) /\ task'[t] = k
      BY <2>3, <3>2, Replace
    <3> QED BY <1>2, <2>2, <2>4, <3>1, <3>3 DEF Finds, At, Task, FindBuilding
  <2>5. CASE task[t].op = "inform"
    <3>1. k = [task[t] EXCEPT !.pc = "write", !.info = @ \union buildings[i].info]
      BY <2>1, <2>5
    <3>2. k \in Task
      BY <2>2, <3>1 DEF Task
    <3>3. Moves(t) /\ task'[t] = k
      BY <2>3, <3>2, Replace
    <3>4. /\ k.pc = "write" /\ k.op = task[t].op /\ k.user = task[t].user
          /\ k.feature = task[t].feature /\ k.model = task[t].model /\ k.late = task[t].late
          /\ k.info = task[t].info \union buildings[i].info
      BY <2>2, <3>1 DEF Task
    <3> QED BY <2>5, <3>3, <3>4 DEF Finds, FindBuilding
  <2>6. CASE task[t].op = "destroy"
    <3>1. k = [task[t] EXCEPT !.pc = "delete", !.id = i, !.launched = buildings[i].launched]
      BY <2>1, <2>6
    <3>2. k \in Task
      BY <2>2, <3>1 DEF Task
    <3>3. Moves(t) /\ task'[t] = k
      BY <2>3, <3>2, Replace
    <3>4. /\ k.pc = "delete" /\ k.op = task[t].op /\ k.user = task[t].user
          /\ k.feature = task[t].feature /\ k.model = task[t].model /\ k.late = task[t].late
          /\ k.id = i /\ k.launched = buildings[i].launched
      BY <2>2, <3>1 DEF Task
    <3> QED BY <2>6, <3>3, <3>4 DEF Finds, FindBuilding
  <2> QED BY <1>2, <2>4, <2>5, <2>6
<1>3. task[t].op \in {"update", "inform", "destroy"}
  BY DEF Shape, FindBuilding, At, TypeOK, Task, Ops
<1>4. \/ \E i \in Matching(task[t].feature, task[t].model) : task' = [task EXCEPT ![t] = G(i)]
      \/ Return(t)
  BY DEF FindBuilding
<1> HIDE DEF G
<1> QED BY <1>1, <1>2, <1>3, <1>4

(* A building is deleted, unless another request did it. *)
Deletes(t) ==
  /\ Moves(t) /\ Keeps(t) /\ At(t, "delete")
  /\ task'[t].pc = "activate"
  /\ task'[t].late = (task[t].id \notin Matching(task[t].feature, task[t].model))

(* A DELETE moves its task on, late if the row it had found is gone. *)
LEMMA DeleteStep ==
  ASSUME TypeOK, NEW t \in Tasks, DeleteBuilding(t)
  PROVE  Deletes(t)
<1> DEFINE late == task[t].id \notin Matching(task[t].feature, task[t].model)
<1>1. PICK k : k = [task[t] EXCEPT !.pc = "activate", !.late = late]
  OBVIOUS
<1>2. task[t] \in Task /\ late \in BOOLEAN
  BY DEF TypeOK
<1>3. task' = [task EXCEPT ![t] = k]
  BY <1>1, <1>2 DEF DeleteBuilding, TypeOK, Task
<1>4. /\ k \in Task /\ k.pc = "activate" /\ k.late = late
      /\ k.op = task[t].op /\ k.user = task[t].user /\ k.feature = task[t].feature
      /\ k.model = task[t].model /\ k.launched = task[t].launched /\ k.info = task[t].info
      /\ k.id = task[t].id /\ k.valid = task[t].valid
  BY <1>1, <1>2 DEF Task
<1>5. Moves(t) /\ task'[t] = k
  BY <1>3, <1>4, Replace
<1> QED BY <1>4, <1>5 DEF Deletes, Keeps, DeleteBuilding

-----------------------------------------------------------------------------
(* What the sums of UpdateBuilding add to the history. *)
Raises(t)  == [i \in Matching(task[t].feature, task[t].model) |->
                 Beyond(task[t].launched, buildings[i].launched)]
Lowers(t)  == [i \in Matching(task[t].feature, task[t].model) |->
                 Beyond(buildings[i].launched, task[t].launched)]

(* What an UPDATE adds and removes are natural numbers. *)
LEMMA UpdateSums ==
  ASSUME TypeOK, NEW t \in Tasks
  PROVE  LET hit == Matching(task[t].feature, task[t].model) IN
         /\ hit \subseteq DOMAIN buildings /\ IsFiniteSet(hit)
         /\ \A i \in hit : Raises(t)[i] \in Nat /\ Lowers(t)[i] \in Nat
         /\ SumFunctionOnSet(Raises(t), hit) \in Nat
         /\ SumFunctionOnSet(Lowers(t), hit) \in Nat
<1> DEFINE hit == Matching(task[t].feature, task[t].model)
<1>1. hit \subseteq DOMAIN buildings /\ IsFiniteSet(hit)
  <2>1. hit \subseteq DOMAIN buildings
    BY DEF Matching, Standing
  <2> QED BY <2>1, EachRow, FS_Subset
<1>2. \A i \in hit : Raises(t)[i] \in Nat /\ Lowers(t)[i] \in Nat
  <2>1. task[t].launched \in Nat /\ \A i \in hit : buildings[i].launched \in Nat
    BY <1>1, EachRow DEF TypeOK, Task
  <2> QED BY <2>1 DEF Raises, Lowers, Beyond
<1> HIDE DEF hit
<1>3. SumFunctionOnSet(Raises(t), hit) \in Nat
  BY <1>1, <1>2, SumNat
<1>4. SumFunctionOnSet(Lowers(t), hit) \in Nat
  BY <1>1, <1>2, SumNat
<1> QED BY <1>1, <1>2, <1>3, <1>4 DEF hit

(* Rows that are changed in place keep their number. *)
LEMMA InPlace ==
  ASSUME TypeOK, NEW f, buildings' = [i \in DOMAIN buildings |-> f[i]],
         \A i \in DOMAIN buildings :
           /\ f[i] \in Row
           /\ f[i].feature = buildings[i].feature /\ f[i].model = buildings[i].model
           /\ f[i].standing => buildings[i].standing
  PROVE  buildings' \in Seq(Row) /\ DOMAIN buildings' = DOMAIN buildings /\ RowsStay
<1>1. Len(buildings) \in Nat /\ DOMAIN buildings = 1..Len(buildings)
  BY EachRow
<1>2. DOMAIN buildings' = DOMAIN buildings /\ \A i \in DOMAIN buildings : buildings'[i] = f[i]
  OBVIOUS
<1>3. buildings' \in [1..Len(buildings) -> Row]
  BY <1>1
<1>4. buildings' \in Seq(Row)
  BY <1>1, <1>3
<1> QED BY <1>2, <1>4 DEF RowsStay

(* Every step of a request keeps the types, and the rows. *)
LEMMA UpdateType ==
  ASSUME TypeOK, NEW t \in Tasks, UpdateBuilding(t)
  PROVE  TypeOK' /\ RowsStay /\ DOMAIN buildings' = DOMAIN buildings
<1> DEFINE hit == Matching(task[t].feature, task[t].model)
           f == [i \in DOMAIN buildings |->
                   IF i \in hit THEN [buildings[i] EXCEPT !.launched = task[t].launched,
                                                          !.info = task[t].info]
                                ELSE buildings[i]]
<1>1. Returns(t)
  BY ReturnStep DEF UpdateBuilding
<1>2. raised' \in Nat /\ lowered' \in Nat
  <2>1. PICK m, n \in Nat :
          /\ m = SumFunctionOnSet(Raises(t), hit)
          /\ n = SumFunctionOnSet(Lowers(t), hit)
    BY UpdateSums
  <2>2. \/ raised' = raised + m /\ lowered' = lowered + n
        \/ UNCHANGED <<raised, lowered>>
    BY <2>1, Zenon DEF UpdateBuilding, Raises, Lowers
  <2> QED BY <2>1, <2>2 DEF TypeOK
<1>3. buildings' \in Seq(Row) /\ DOMAIN buildings' = DOMAIN buildings /\ RowsStay
  <2>1. CASE JsonValid(task[t].info)
    <3>1. buildings' = [i \in DOMAIN buildings |-> f[i]]
      BY <2>1 DEF UpdateBuilding
    <3>2. task[t].launched \in Nat /\ task[t].info \in SUBSET Fields
      BY DEF TypeOK, Task
    <3>3. ASSUME NEW i \in DOMAIN buildings
          PROVE  /\ f[i] \in Row
                 /\ f[i].feature = buildings[i].feature /\ f[i].model = buildings[i].model
                 /\ f[i].standing = buildings[i].standing
      <4>1. buildings[i] \in Row
        BY EachRow
      <4> QED BY <3>2, <4>1 DEF Row
    <3> HIDE DEF f
    <3> QED BY <3>1, <3>3, InPlace
  <2>2. CASE ~ JsonValid(task[t].info)
    <3>1. UNCHANGED buildings
      BY <2>2 DEF UpdateBuilding
    <3> QED BY <3>1 DEF TypeOK, RowsStay
  <2> QED BY <2>1, <2>2
<1> QED BY <1>1, <1>2, <1>3 DEF UpdateBuilding, TypeOK, Returns, Moves

(* An UPDATE of the information keeps the types, the rows and their number. *)
LEMMA UpdateInformationType ==
  ASSUME TypeOK, NEW t \in Tasks, UpdateInformation(t)
  PROVE  TypeOK' /\ RowsStay /\ DOMAIN buildings' = DOMAIN buildings
<1> DEFINE f == [i \in DOMAIN buildings |->
                   IF i \in Matching(task[t].feature, task[t].model)
                     THEN [buildings[i] EXCEPT !.info = task[t].info] ELSE buildings[i]]
<1>1. Returns(t)
  BY ReturnStep DEF UpdateInformation
<1>2. buildings' = [i \in DOMAIN buildings |-> f[i]]
  BY DEF UpdateInformation
<1>3. task[t].info \in SUBSET Fields
  BY DEF TypeOK, Task
<1>4. ASSUME NEW i \in DOMAIN buildings
      PROVE  /\ f[i] \in Row
             /\ f[i].feature = buildings[i].feature /\ f[i].model = buildings[i].model
             /\ f[i].standing = buildings[i].standing
  <2>1. buildings[i] \in Row
    BY EachRow
  <2> QED BY <1>3, <2>1 DEF Row
<1> HIDE DEF f
<1>5. buildings' \in Seq(Row) /\ DOMAIN buildings' = DOMAIN buildings /\ RowsStay
  BY <1>2, <1>4, InPlace
<1> QED BY <1>1, <1>5 DEF UpdateInformation, TypeOK, Returns, Moves, history

(* A DELETE keeps the types and every row's place. *)
LEMMA DeleteType ==
  ASSUME TypeOK, NEW t \in Tasks, DeleteBuilding(t)
  PROVE  TypeOK' /\ RowsStay /\ DOMAIN buildings' = DOMAIN buildings
<1> DEFINE f == [i \in DOMAIN buildings |->
                   IF i \in Matching(task[t].feature, task[t].model)
                     THEN [buildings[i] EXCEPT !.standing = FALSE] ELSE buildings[i]]
<1>1. Deletes(t)
  BY DeleteStep
<1>2. buildings' = [i \in DOMAIN buildings |-> f[i]]
  BY DEF DeleteBuilding
<1>3. ASSUME NEW i \in DOMAIN buildings
      PROVE  /\ f[i] \in Row
             /\ f[i].feature = buildings[i].feature /\ f[i].model = buildings[i].model
             /\ f[i].standing => buildings[i].standing
  <2>1. buildings[i] \in Row
    BY EachRow
  <2> QED BY <2>1 DEF Row
<1> HIDE DEF f
<1>4. buildings' \in Seq(Row) /\ DOMAIN buildings' = DOMAIN buildings /\ RowsStay
  BY <1>2, <1>3, InPlace
<1> QED BY <1>1, <1>4 DEF DeleteBuilding, TypeOK, Deletes, Moves, history

(* A refund keeps the types and the rows. *)
LEMMA RefundType ==
  ASSUME TypeOK, NEW t \in Tasks, AddBalance(t)
  PROVE  TypeOK' /\ RowsStay /\ DOMAIN buildings' = DOMAIN buildings
<1> DEFINE f == [i \in DOMAIN buildings |->
                   IF task[t].op = "destroy" /\ i = task[t].id
                     THEN [buildings[i] EXCEPT !.refunds = @ + 1] ELSE buildings[i]]
<1>1. Returns(t)
  BY ReturnStep DEF AddBalance
<1>2. buildings' = [i \in DOMAIN buildings |-> f[i]]
  BY DEF AddBalance
<1>3. ASSUME NEW i \in DOMAIN buildings
      PROVE  /\ f[i] \in Row
             /\ f[i].feature = buildings[i].feature /\ f[i].model = buildings[i].model
             /\ f[i].standing = buildings[i].standing
  <2>1. buildings[i] \in Row /\ buildings[i].refunds + 1 \in Nat
    BY EachRow
  <2> QED BY <2>1 DEF Row
<1>4. wallet' \in [Users -> Nat] /\ again' \in Nat /\ faults' \in 0..MaxFaults
  <2>1. PICK n \in 0..2 :
           /\ IF n = 1 THEN NoFault ELSE Fault
           /\ wallet' = [wallet EXCEPT ![task[t].user] = @ + n * task[t].launched]
           /\ again' = again + task[t].launched * (IF task[t].late THEN n ELSE IF n = 2 THEN 1 ELSE 0)
    BY DEF AddBalance
  <2>2. task[t].launched \in Nat /\ task[t].user \in Users
    BY DEF TypeOK, Task
  <2>3. \A x \in Nat : n * x \in Nat /\ x * n \in Nat /\ x * 1 \in Nat /\ x * 0 \in Nat
    BY <2>1
  <2>4. wallet[task[t].user] + n * task[t].launched \in Nat
    BY <2>2, <2>3 DEF TypeOK
  <2>5. wallet' \in [Users -> Nat]
    BY <2>1, <2>4 DEF TypeOK
  <2>6. again' \in Nat
    BY <2>1, <2>2, <2>3 DEF TypeOK
  <2>7. faults' \in 0..MaxFaults
    BY <2>1, FaultType
  <2> QED BY <2>5, <2>6, <2>7
<1> HIDE DEF f
<1>5. buildings' \in Seq(Row) /\ DOMAIN buildings' = DOMAIN buildings /\ RowsStay
  BY <1>2, <1>3, InPlace
<1> QED BY <1>1, <1>4, <1>5 DEF AddBalance, TypeOK, Returns, Moves

(* An INSERT keeps the types and the rows that were there. *)
LEMMA CreateType ==
  ASSUME TypeOK, NEW t \in Tasks, CreateBuilding(t)
  PROVE  TypeOK' /\ RowsStay
<1>1. task[t] \in Task /\ task[t].feature \in Features /\ task[t].model \in Models
      /\ task[t].launched \in Nat /\ task[t].info \in SUBSET Fields
  BY DEF TypeOK, Task
<1>2. Returns(t) \/ Goes(t, "reactivate")
  <2>1. Return(t) \/ Goto(t, "reactivate")
    BY DEF CreateBuilding
  <2>2. CASE Return(t)
    BY <2>2, ReturnStep
  <2>3. CASE Goto(t, "reactivate")
    BY <2>3, GotoStep
  <2> QED BY <2>1, <2>2, <2>3
<1>3. buildings' \in Seq(Row) /\ RowsStay
  <2>1. CASE UNCHANGED buildings
    BY <2>1 DEF TypeOK, RowsStay
  <2>2. ASSUME NEW r \in Row, buildings' = Append(buildings, r)
        PROVE  buildings' \in Seq(Row) /\ RowsStay
    BY <2>2, EachRow DEF TypeOK, RowsStay
  <2>3. [feature |-> task[t].feature, model |-> task[t].model, launched |-> task[t].launched,
         info |-> task[t].info, standing |-> TRUE, refunds |-> 0] \in Row
    BY <1>1 DEF Row
  <2> QED BY <2>1, <2>2, <2>3 DEF CreateBuilding
<1>4. faults' \in 0..MaxFaults
  BY BuildingAssumption DEF CreateBuilding, TypeOK, Fault, NoFault
<1> QED BY <1>2, <1>3, <1>4 DEF CreateBuilding, TypeOK, Returns, Goes, Moves, history

(* The charge keeps the types. *)
LEMMA DeductType ==
  ASSUME TypeOK, NEW t \in Tasks, DeductBalance(t)
  PROVE  TypeOK'
<1>1. task[t].user \in Users /\ task[t].launched \in Nat /\ wallet[task[t].user] \in Nat
  BY DEF TypeOK, Task
<1>2. Returns(t) \/ Goes(t, "deactivate")
  <2>1. Return(t) \/ Goto(t, "deactivate")
    BY DEF DeductBalance
  <2>2. CASE Return(t)
    BY <2>2, ReturnStep
  <2>3. CASE Goto(t, "deactivate")
    BY <2>3, GotoStep
  <2> QED BY <2>1, <2>2, <2>3
<1>3. wallet' \in [Users -> Nat]
  <2>1. ASSUME NEW n \in {1, 2}, wallet[task[t].user] >= n * task[t].launched,
               wallet' = [wallet EXCEPT ![task[t].user] = @ - n * task[t].launched]
        PROVE  wallet' \in [Users -> Nat]
    <3>1. n * task[t].launched \in Nat
      BY <1>1
    <3>2. wallet[task[t].user] - n * task[t].launched \in Nat
      BY <1>1, <2>1, <3>1
    <3> QED BY <2>1, <3>2 DEF TypeOK
  <2>2. CASE UNCHANGED wallet
    BY <2>2 DEF TypeOK
  <2> QED BY <2>1, <2>2 DEF DeductBalance
<1>4. faults' \in 0..MaxFaults /\ forfeited' \in Nat
  <2>1. Fault \/ NoFault
    BY DEF DeductBalance, NoFault
  <2>2. forfeited' = forfeited \/ forfeited' = forfeited + task[t].launched
    BY DEF DeductBalance
  <2> QED BY <1>1, <2>1, <2>2, FaultType DEF TypeOK
<1> QED BY <1>2, <1>3, <1>4 DEF DeductBalance, TypeOK, Returns, Goes, Moves, rows

(* A DELETE of the rows that match. *)
Drops(t) ==
  /\ Deletes(t)
  /\ DOMAIN buildings' = DOMAIN buildings
  /\ \A i \in DOMAIN buildings :
       /\ buildings'[i].launched = buildings[i].launched
       /\ buildings'[i].refunds = buildings[i].refunds
       /\ buildings'[i].info = buildings[i].info
       /\ buildings'[i].standing =
            (buildings[i].standing /\ i \notin Matching(task[t].feature, task[t].model))

(* A DELETE takes down what matches and nothing else. *)
LEMMA DropStep ==
  ASSUME TypeOK, NEW t \in Tasks, DeleteBuilding(t)
  PROVE  Drops(t)
<1>1. Deletes(t)
  BY DeleteStep
<1>2. buildings' = [i \in DOMAIN buildings |->
        IF i \in Matching(task[t].feature, task[t].model)
          THEN [buildings[i] EXCEPT !.standing = FALSE] ELSE buildings[i]]
  BY DEF DeleteBuilding
<1>3. DOMAIN buildings' = DOMAIN buildings
  BY <1>2
<1>4. ASSUME NEW i \in DOMAIN buildings
      PROVE  /\ buildings'[i].launched = buildings[i].launched
             /\ buildings'[i].refunds = buildings[i].refunds
             /\ buildings'[i].info = buildings[i].info
             /\ buildings'[i].standing =
                  (buildings[i].standing /\ i \notin Matching(task[t].feature, task[t].model))
  <2>1. buildings[i] \in Row
    BY EachRow
  <2>2. CASE i \in Matching(task[t].feature, task[t].model)
    <3>1. PICK r : r = [buildings[i] EXCEPT !.standing = FALSE]
      OBVIOUS
    <3>2. /\ r.standing = FALSE /\ r.launched = buildings[i].launched
          /\ r.refunds = buildings[i].refunds /\ r.info = buildings[i].info
      BY <2>1, <3>1 DEF Row
    <3>3. buildings'[i] = r
      BY <1>2, <2>2, <3>1
    <3> QED BY <2>2, <3>2, <3>3
  <2>3. CASE i \notin Matching(task[t].feature, task[t].model)
    <3>1. buildings'[i] = buildings[i] /\ buildings[i].standing \in BOOLEAN
      BY <1>2, <2>1, <2>3 DEF Row
    <3> QED BY <2>3, <3>1
  <2> QED BY <2>2, <2>3
<1> QED BY <1>1, <1>3, <1>4 DEF Drops

(* The steps of a request, as its task goes through them. *)
Forward(t) ==
  \/ At(t, "check") /\ Goes(t, "deduct") /\ Standing(task[t].feature) = {}
  \/ At(t, "deduct") /\ Goes(t, "deactivate") /\ Affordable(t)
  \/ At(t, "deactivate") /\ (Goes(t, "create") \/ Goes(t, "refund"))
  \/ At(t, "create") /\ Goes(t, "reactivate")
  \/ (At(t, "activate") \/ At(t, "reactivate")) /\ Goes(t, "refund")
  \/ At(t, "limits") /\ Goes(t, "find") /\ Affordable(t)
  \/ Finds(t)
  \/ Drops(t)
  \/ Returns(t)

(* Every step of a request moves its task forward and keeps types and rows. *)
LEMMA ServeStep ==
  ASSUME TypeOK, Shape, NEW t \in Tasks, Serve(t)
  PROVE  Forward(t) /\ TypeOK' /\ RowsStay /\ UNCHANGED <<raced, sold, fetched, required, owner>>
<1>1. CASE HasBuilding(t)
  <2>1. \/ Returns(t)
        \/ At(t, "check") /\ Goes(t, "deduct") /\ Standing(task[t].feature) = {}
    BY <1>1, ReturnStep, GotoStep DEF HasBuilding
  <2>2. TypeOK'
    BY <1>1, <2>1 DEF HasBuilding, TypeOK, Returns, Goes, Moves, rows, history
  <2> QED BY <1>1, <2>1, <2>2 DEF HasBuilding, Forward, RowsStay, rows, history
<1>2. CASE DeductBalance(t)
  <2>1. Return(t) \/ (Goto(t, "deactivate") /\ Affordable(t))
    BY <1>2 DEF DeductBalance
  <2>2. Returns(t) \/ (Goes(t, "deactivate") /\ Affordable(t))
    BY <2>1, ReturnStep, GotoStep
  <2> QED BY <1>2, <2>2, DeductType DEF DeductBalance, Forward, RowsStay, rows
<1>3. CASE DeactivateProfits(t)
  <2>1. Goes(t, "create") \/ Goes(t, "refund")
    BY <1>3, GotoStep DEF DeactivateProfits
  <2>2. active' \in [Features -> BOOLEAN] /\ faults' \in 0..MaxFaults
    <3>1. Fault \/ NoFault
      BY <1>3 DEF DeactivateProfits
    <3>2. active' = active \/ active' = [active EXCEPT ![task[t].feature] = FALSE]
      BY <1>3 DEF DeactivateProfits
    <3> QED BY <3>1, <3>2, FaultType DEF TypeOK
  <2>3. TypeOK'
    BY <1>3, <2>1, <2>2 DEF DeactivateProfits, TypeOK, Goes, Moves, history
  <2> QED BY <1>3, <2>1, <2>3 DEF DeactivateProfits, Forward, RowsStay, history
<1>4. CASE CreateBuilding(t)
  <2>1. Returns(t) \/ Goes(t, "reactivate")
    BY <1>4, ReturnStep, GotoStep DEF CreateBuilding
  <2> QED BY <1>4, <2>1, CreateType DEF CreateBuilding, Forward, history
<1>5. CASE CheckLimits(t)
  <2>1. Returns(t) \/ (At(t, "limits") /\ Goes(t, "find") /\ Affordable(t))
    BY <1>5, ReturnStep, GotoStep DEF CheckLimits
  <2>2. TypeOK'
    BY <1>5, <2>1 DEF CheckLimits, TypeOK, Returns, Goes, Moves, rows, history
  <2> QED BY <1>5, <2>1, <2>2 DEF CheckLimits, Forward, RowsStay, rows, history
<1>6. CASE FindBuilding(t)
  <2>1. Finds(t) \/ Returns(t)
    BY <1>6, FindStep
  <2>2. TypeOK'
    BY <1>6, <2>1 DEF FindBuilding, TypeOK, Returns, Finds, Moves, rows, history
  <2> QED BY <1>6, <2>1, <2>2 DEF FindBuilding, Forward, RowsStay, rows, history
<1>7. CASE UpdateBuilding(t)
  BY <1>7, UpdateType, ReturnStep DEF UpdateBuilding, Forward
<1>8. CASE UpdateInformation(t)
  BY <1>8, UpdateInformationType, ReturnStep DEF UpdateInformation, Forward, history
<1>9. CASE DeleteBuilding(t)
  BY <1>9, DeleteType, DropStep DEF DeleteBuilding, Forward, history
<1>10. CASE ActivateProfits(t)
  <2>1. Goes(t, "refund")
    BY <1>10, GotoStep DEF ActivateProfits
  <2>2. active' \in [Features -> BOOLEAN] /\ faults' \in 0..MaxFaults
    <3>1. Fault \/ NoFault
      BY <1>10 DEF ActivateProfits
    <3>2. active' = active \/ active' = [active EXCEPT ![task[t].feature] = TRUE]
      BY <1>10 DEF ActivateProfits
    <3> QED BY <3>1, <3>2, FaultType DEF TypeOK
  <2>3. TypeOK'
    BY <1>10, <2>1, <2>2 DEF ActivateProfits, TypeOK, Goes, Moves, history
  <2> QED BY <1>10, <2>1, <2>3 DEF ActivateProfits, Forward, RowsStay, history
<1>11. CASE AddBalance(t)
  BY <1>11, RefundType, ReturnStep DEF AddBalance, Forward
<1>12. CASE Fails(t)
  <2>1. Returns(t)
    BY <1>12, ReturnStep DEF Fails
  <2>2. faults' \in 0..MaxFaults
    BY <1>12, BuildingAssumption DEF Fails, TypeOK, Fault
  <2>3. TypeOK'
    BY <1>12, <2>1, <2>2 DEF Fails, TypeOK, Returns, Moves, rows, history
  <2> QED BY <1>12, <2>1, <2>3 DEF Fails, Forward, RowsStay, rows, history
<1> QED BY <1>1, <1>2, <1>3, <1>4, <1>5, <1>6, <1>7, <1>8, <1>9, <1>10, <1>11, <1>12 DEF Serve

-----------------------------------------------------------------------------
(* The three ways in which a step changes what stands: a new row, a DELETE *)
(* of the rows that match, or nothing.                                     *)
Puts(t) ==
  /\ At(t, "create") /\ Returns(t)
  /\ \E r \in Row :
       /\ r.feature = task[t].feature /\ r.launched = task[t].launched /\ r.info = task[t].info
       /\ r.standing /\ r.refunds = 0 /\ JsonValid(task[t].info)
       /\ DOMAIN buildings' = DOMAIN buildings \union {Len(buildings) + 1}
       /\ buildings'[Len(buildings) + 1] = r
       /\ \A i \in DOMAIN buildings : buildings'[i] = buildings[i]
       /\ Len(buildings) + 1 \notin DOMAIN buildings

(* Rows that stay may be updated, or count a refund. *)
Leaves(t) ==
  /\ DOMAIN buildings' = DOMAIN buildings
  /\ \A i \in DOMAIN buildings :
       /\ buildings'[i].standing = buildings[i].standing
       /\ \/ buildings'[i].launched = buildings[i].launched
          \/ /\ At(t, "update") /\ Returns(t) /\ i \in Matching(task[t].feature, task[t].model)
             /\ buildings'[i].launched = task[t].launched
       /\ \/ buildings'[i].info = buildings[i].info
          \/ (At(t, "update") \/ At(t, "write")) /\ buildings'[i].info = task[t].info
               /\ (At(t, "update") => task[t].info # {})
       /\ buildings'[i].refunds =
            IF At(t, "refund") /\ Returns(t) /\ task[t].op = "destroy" /\ i = task[t].id /\ AddBalance(t)
              THEN buildings[i].refunds + 1 ELSE buildings[i].refunds

(* Every step of a request is one of the three. *)
LEMMA RowsStep ==
  ASSUME TypeOK, NEW t \in Tasks, Serve(t)
  PROVE  Puts(t) \/ Drops(t) \/ Leaves(t)
<1>1. CASE UNCHANGED buildings /\ ~ AddBalance(t)
  BY <1>1 DEF Leaves
<1>2. CASE CreateBuilding(t) /\ ~ UNCHANGED buildings
  <2>1. PICK r : /\ r = [feature |-> task[t].feature, model |-> task[t].model,
                         launched |-> task[t].launched, info |-> task[t].info,
                         standing |-> TRUE, refunds |-> 0]
                 /\ buildings' = Append(buildings, r) /\ JsonValid(task[t].info) /\ Return(t)
    BY <1>2 DEF CreateBuilding
  <2>2. /\ task[t].feature \in Features /\ task[t].model \in Models
        /\ task[t].launched \in Nat /\ task[t].info \in SUBSET Fields
    BY DEF TypeOK, Task
  <2>3. /\ r \in Row /\ r.feature = task[t].feature /\ r.launched = task[t].launched
        /\ r.info = task[t].info /\ r.standing /\ r.refunds = 0
    BY <2>1, <2>2 DEF Row
  <2>4. /\ DOMAIN buildings' = DOMAIN buildings \union {Len(buildings) + 1}
        /\ buildings'[Len(buildings) + 1] = r
        /\ \A i \in DOMAIN buildings : buildings'[i] = buildings[i]
        /\ Len(buildings) + 1 \notin DOMAIN buildings
    BY <2>1, <2>3, EachRow DEF TypeOK
  <2>5. At(t, "create") /\ Returns(t)
    BY <1>2, <2>1, ReturnStep DEF CreateBuilding
  <2> QED BY <2>1, <2>3, <2>4, <2>5 DEF Puts
<1>3. CASE DeleteBuilding(t)
  BY <1>3, DropStep
<1>4. CASE UpdateBuilding(t) /\ JsonValid(task[t].info)
  <2>1. Returns(t) /\ At(t, "update") /\ task[t].info # {} /\ ~ At(t, "refund")
    BY <1>4, ReturnStep DEF UpdateBuilding, At, JsonValid
  <2>2. buildings' = [i \in DOMAIN buildings |->
          IF i \in Matching(task[t].feature, task[t].model)
            THEN [buildings[i] EXCEPT !.launched = task[t].launched, !.info = task[t].info]
            ELSE buildings[i]]
    BY <1>4 DEF UpdateBuilding
  <2>3. ASSUME NEW i \in DOMAIN buildings, i \in Matching(task[t].feature, task[t].model)
        PROVE  /\ buildings'[i].launched = task[t].launched /\ buildings'[i].info = task[t].info
               /\ buildings'[i].standing = buildings[i].standing
               /\ buildings'[i].refunds = buildings[i].refunds
    <3>1. buildings[i] \in Row
      BY EachRow
    <3> QED BY <2>2, <2>3, <3>1 DEF Row
  <2> QED BY <2>1, <2>2, <2>3 DEF Leaves
<1>5. CASE UpdateInformation(t)
  <2>1. At(t, "write") /\ ~ At(t, "refund") /\ ~ At(t, "update")
    BY <1>5 DEF UpdateInformation, At
  <2>2. buildings' = [i \in DOMAIN buildings |->
          IF i \in Matching(task[t].feature, task[t].model)
            THEN [buildings[i] EXCEPT !.info = task[t].info] ELSE buildings[i]]
    BY <1>5 DEF UpdateInformation
  <2>3. ASSUME NEW i \in DOMAIN buildings, i \in Matching(task[t].feature, task[t].model)
        PROVE  /\ buildings'[i].launched = buildings[i].launched /\ buildings'[i].info = task[t].info
               /\ buildings'[i].standing = buildings[i].standing
               /\ buildings'[i].refunds = buildings[i].refunds
    <3>1. buildings[i] \in Row
      BY EachRow
    <3> QED BY <2>2, <2>3, <3>1 DEF Row
  <2> QED BY <2>1, <2>2, <2>3 DEF Leaves
<1>6. CASE AddBalance(t)
  <2>1. Returns(t) /\ At(t, "refund")
    BY <1>6, ReturnStep DEF AddBalance
  <2>2. buildings' = [i \in DOMAIN buildings |->
          IF task[t].op = "destroy" /\ i = task[t].id
            THEN [buildings[i] EXCEPT !.refunds = @ + 1] ELSE buildings[i]]
    BY <1>6 DEF AddBalance
  <2>3. ASSUME NEW i \in DOMAIN buildings, task[t].op = "destroy" /\ i = task[t].id
        PROVE  /\ buildings'[i].launched = buildings[i].launched
               /\ buildings'[i].info = buildings[i].info
               /\ buildings'[i].standing = buildings[i].standing
               /\ buildings'[i].refunds = buildings[i].refunds + 1
    <3>1. buildings[i] \in Row
      BY EachRow
    <3> QED BY <2>2, <2>3, <3>1 DEF Row
  <2> QED BY <1>6, <2>1, <2>2, <2>3 DEF Leaves
<1> QED BY <1>1, <1>2, <1>3, <1>4, <1>5, <1>6
        DEF Serve, HasBuilding, DeductBalance, DeactivateProfits, CreateBuilding, CheckLimits,
            FindBuilding, UpdateBuilding, ActivateProfits, Fails, AddBalance, At, rows

(* The buildings that stand on a feature after each of these ways. *)
LEMMA StandingStep ==
  ASSUME TypeOK, RowsStay, NEW t \in Tasks, NEW f \in Features
  PROVE  /\ Puts(t) => Standing(f)' = IF f = task[t].feature
                                        THEN Standing(f) \union {Len(buildings) + 1}
                                        ELSE Standing(f)
         /\ Drops(t) => Standing(f)' = Standing(f) \ Matching(task[t].feature, task[t].model)
         /\ Leaves(t) => Standing(f)' = Standing(f)
<1>1. ASSUME Puts(t)
      PROVE  Standing(f)' = IF f = task[t].feature THEN Standing(f) \union {Len(buildings) + 1}
                                                   ELSE Standing(f)
  <2>1. PICK n, r : /\ n = Len(buildings) + 1 /\ r = buildings'[n]
                    /\ r.feature = task[t].feature /\ r.standing
                    /\ DOMAIN buildings' = DOMAIN buildings \union {n} /\ n \notin DOMAIN buildings
                    /\ \A i \in DOMAIN buildings : buildings'[i] = buildings[i]
    BY <1>1 DEF Puts
  <2>2. \A i \in DOMAIN buildings : i \in Standing(f)' <=> i \in Standing(f)
    BY <2>1 DEF Standing
  <2>3. n \in Standing(f)' <=> f = task[t].feature
    BY <2>1 DEF Standing
  <2>4. Standing(f)' \subseteq DOMAIN buildings \union {n} /\ Standing(f) \subseteq DOMAIN buildings
    BY <2>1 DEF Standing
  <2>5. CASE f = task[t].feature
    <3>1. Standing(f)' = Standing(f) \union {n}
      BY <2>2, <2>3, <2>4, <2>5
    <3> QED BY <2>1, <2>5, <3>1
  <2>6. CASE f # task[t].feature
    <3>1. Standing(f)' = Standing(f)
      BY <2>2, <2>3, <2>4, <2>6
    <3> QED BY <2>6, <3>1
  <2> QED BY <2>5, <2>6
<1>2. ASSUME Drops(t)
      PROVE  Standing(f)' = Standing(f) \ Matching(task[t].feature, task[t].model)
  <2>1. /\ DOMAIN buildings' = DOMAIN buildings
        /\ \A i \in DOMAIN buildings :
             /\ buildings'[i].feature = buildings[i].feature
             /\ buildings'[i].standing =
                  (buildings[i].standing /\ i \notin Matching(task[t].feature, task[t].model))
    BY <1>2 DEF Drops, RowsStay
  <2> QED BY <2>1 DEF Standing
<1>3. ASSUME Leaves(t) PROVE Standing(f)' = Standing(f)
  BY <1>3 DEF Leaves, Standing, RowsStay
<1> QED BY <1>1, <1>2, <1>3

-----------------------------------------------------------------------------
(* The operation of a step and the row that was found stay known. *)
LEMMA ShapeStep ==
  ASSUME TypeOK, Shape, NEW t \in Tasks, Begins(t) \/ Forward(t), RowsStay
  PROVE  Shape'
<1> USE DEF Removing, Removed, At
<1> SUFFICES ASSUME NEW d \in Tasks PROVE
    /\ task'[d].pc \in {"check", "deduct", "deactivate", "create", "reactivate"} =>
         task'[d].op = "build"
    /\ task'[d].pc \in {"limits", "update"} => task'[d].op = "update"
    /\ task'[d].pc = "write" => task'[d].op = "inform"
    /\ task'[d].pc = "find" => task'[d].op # "build"
    /\ task'[d].pc \in {"delete", "activate"} => task'[d].op = "destroy"
    /\ task'[d].pc = "refund" => task'[d].op \in {"build", "destroy"}
    /\ task'[d].late => task'[d].op = "destroy" /\ task'[d].pc \in {"activate", "refund"}
    /\ task'[d].op = "destroy" /\ task'[d].pc \in {"delete", "activate", "refund"} =>
         /\ task'[d].id \in DOMAIN buildings'
         /\ buildings'[task'[d].id].feature = task'[d].feature
         /\ buildings'[task'[d].id].model = task'[d].model
  BY DEF Shape
<1>1. CASE d # t
  <2>1. task'[d] = task[d]
    BY <1>1 DEF Begins, Forward, Goes, Finds, Drops, Deletes, Returns, Moves
  <2> QED BY <2>1 DEF Shape, RowsStay
<1>2. CASE d = t /\ Begins(t)
  BY <1>2 DEF Begins
<1>3. CASE d = t /\ Forward(t)
  <2>1. CASE Finds(t)
    BY <1>3, <2>1 DEF Finds, Shape, Matching, Standing, RowsStay
  <2>2. CASE Drops(t)
    BY <1>3, <2>2 DEF Drops, Deletes, Keeps, Shape, RowsStay
  <2>3. CASE Returns(t)
    BY <1>3, <2>3 DEF Returns
  <2>4. ASSUME NEW pc, Goes(t, pc),
               \/ At(t, "check") /\ pc = "deduct"
               \/ At(t, "deduct") /\ pc = "deactivate"
               \/ At(t, "deactivate") /\ pc \in {"create", "refund"}
               \/ At(t, "create") /\ pc = "reactivate"
               \/ (At(t, "activate") \/ At(t, "reactivate")) /\ pc = "refund"
               \/ At(t, "limits") /\ pc = "find"
        PROVE  /\ task'[d].pc = pc /\ task'[d].op = task[t].op /\ task'[d].late = task[t].late
               /\ task'[d].id = task[t].id /\ task'[d].feature = task[t].feature
               /\ task'[d].model = task[t].model
    BY <1>3, <2>4 DEF Goes, Keeps
  <2> QED BY <1>3, <2>1, <2>2, <2>3, <2>4 DEF Forward, Shape, RowsStay
<1> QED BY <1>1, <1>2, <1>3

(* A request is only joined by another, or a sale, where that is recorded. *)
LEMMA AloneStep ==
  ASSUME TypeOK, Shape, Alone, ReadIsCurrent, NEW t \in Tasks, Request(t) \/ Serve(t)
  PROVE  Alone'
<1>1. CASE Request(t)
  <2>1. Begins(t) /\ UNCHANGED rows
    BY <1>1, RequestStep
  <2>2. ASSUME NEW f \in Features, f \notin raced'
        PROVE  /\ f \notin raced /\ Standing(f)' = Standing(f)
               /\ \A r, s \in Tasks : r \in Busy(f)' /\ s \in Busy(f)' => r = s
    <3>1. f \notin raced /\ Standing(f)' = Standing(f)
      BY <2>1, <2>2 DEF Begins, Standing, rows
    <3>2. CASE f = task'[t].feature
      <4>1. Busy(f) = {}
        BY <2>1, <2>2, <3>2 DEF Begins
      <4>2. Busy(f)' \subseteq {t}
        BY <2>1, <4>1 DEF Begins, Moves, Busy
      <4> QED BY <3>1, <4>2
    <3>3. CASE f # task'[t].feature
      <4>1. Busy(f)' \subseteq Busy(f)
        BY <2>1, <3>3 DEF Begins, Moves, Busy
      <4> QED BY <2>2, <3>1, <4>1 DEF Alone
    <3> QED BY <3>2, <3>3
  <2> QED BY <2>1, <2>2 DEF Alone, Standing, rows
<1>2. CASE Serve(t)
  <2>1. Forward(t) /\ RowsStay /\ raced' = raced
    BY <1>2, ServeStep
  <2>2. \A f \in Features : Busy(f)' \subseteq Busy(f)
    BY <2>1 DEF Forward, Goes, Finds, Drops, Deletes, Returns, Moves, Keeps, Busy, At
  <2>3. ASSUME NEW f \in Features, f \notin raced, NEW i \in Standing(f)', NEW j \in Standing(f)'
        PROVE  i = j
    <3>1. CASE Puts(t) /\ f = task[t].feature
      <4>1. Standing(f) = {}
        BY <2>3, <3>1 DEF Puts, ReadIsCurrent, CurrentOf, At
      <4>2. Standing(f)' = {Len(buildings) + 1}
        BY <2>1, <3>1, <4>1, StandingStep
      <4> QED BY <2>3, <4>2
    <3>2. CASE ~ (Puts(t) /\ f = task[t].feature)
      <4>1. Standing(f)' \subseteq Standing(f)
        BY <1>2, <2>1, <3>2, RowsStep, StandingStep
      <4>2. i \in DOMAIN buildings /\ j \in DOMAIN buildings
        BY <2>3, <4>1 DEF Standing
      <4> QED BY <2>3, <4>1, <4>2 DEF Alone
    <3> QED BY <3>1, <3>2
  <2> QED BY <2>1, <2>2, <2>3 DEF Alone
<1> QED BY <1>1, <1>2

(* A step leaves alone what a request on another feature read. *)
LEMMA ElsewhereStep ==
  ASSUME TypeOK, Shape, NEW t \in Tasks, Serve(t), NEW f \in Features, f # task[t].feature
  PROVE  /\ Standing(f)' = Standing(f)
         /\ \A i \in DOMAIN buildings : buildings[i].feature = f =>
              /\ buildings'[i].launched = buildings[i].launched
              /\ buildings'[i].refunds = buildings[i].refunds
         /\ active'[f] = active[f]
<1>1. RowsStay /\ (Puts(t) \/ Drops(t) \/ Leaves(t))
  BY ServeStep, RowsStep
<1>2. Standing(f)' = Standing(f)
  <2>1. Drops(t) => Standing(f)' = Standing(f)
    <3>1. Standing(f) \intersect Matching(task[t].feature, task[t].model) = {}
      BY DEF Standing, Matching
    <3>2. Standing(f) \ Matching(task[t].feature, task[t].model) = Standing(f)
      BY <3>1, Zenon
    <3> QED BY <1>1, <3>2, StandingStep
  <2> QED BY <1>1, <2>1, StandingStep
<1>3. ASSUME NEW i \in DOMAIN buildings, buildings[i].feature = f
      PROVE  /\ buildings'[i].launched = buildings[i].launched
             /\ buildings'[i].refunds = buildings[i].refunds
  <2>1. i \notin Matching(task[t].feature, task[t].model)
    BY <1>3 DEF Matching, Standing
  <2>2. At(t, "refund") /\ task[t].op = "destroy" => i # task[t].id
    BY <1>3 DEF Shape, Removing, At
  <2> QED BY <1>1, <2>1, <2>2 DEF Puts, Drops, Leaves
<1>4. active'[f] = active[f]
  <2>1. UNCHANGED active \/ \E b \in BOOLEAN : active' = [active EXCEPT ![task[t].feature] = b]
    BY DEF Serve, HasBuilding, DeductBalance, DeactivateProfits, CreateBuilding, CheckLimits,
           FindBuilding, UpdateBuilding, UpdateInformation, DeleteBuilding, ActivateProfits,
           AddBalance, Fails, rows
  <2> QED BY <2>1 DEF TypeOK
<1> QED BY <1>2, <1>3, <1>4

(* What a request read of its feature stays so without other requests. *)
LEMMA ReadIsCurrentStep ==
  ASSUME TypeOK, Shape, Alone, ReadIsCurrent, StandingIsUnrefunded, NEW t \in Tasks,
         Request(t) \/ Serve(t)
  PROVE  ReadIsCurrent'
<1> SUFFICES ASSUME NEW d \in Tasks PROVE CurrentOf(d)'
  BY DEF ReadIsCurrent
<1>1. CASE Request(t)
  <2>1. Begins(t) /\ UNCHANGED rows
    BY <1>1, RequestStep
  <2>2. CASE d = t
    BY <2>1, <2>2 DEF Begins, CurrentOf, Removed, At
  <2>3. CASE d # t
    <3>1. task'[d] = task[d] /\ raced \subseteq raced'
      BY <2>1, <2>3 DEF Begins, Moves
    <3>2. CurrentOf(d)
      BY DEF ReadIsCurrent
    <3> QED BY <2>1, <3>1, <3>2 DEF CurrentOf, Removed, Standing, rows
  <2> QED BY <2>2, <2>3
<1>2. CASE Serve(t) /\ task'[d].pc # "idle" /\ task'[d].feature \notin raced
  <2>1. Forward(t) /\ RowsStay /\ raced' = raced /\ (Puts(t) \/ Drops(t) \/ Leaves(t))
    BY <1>2, ServeStep, RowsStep
  <2>2. task[t].pc # "idle" /\ task[t].feature \in Features
    BY <1>2 DEF Serve, HasBuilding, DeductBalance, DeactivateProfits, CreateBuilding, CheckLimits,
           FindBuilding, UpdateBuilding, UpdateInformation, DeleteBuilding, ActivateProfits,
           AddBalance, Fails, At, TypeOK, Task
  <2>3. CASE d # t
    <3>1. task'[d] = task[d] /\ task[d].feature \in Features
      BY <2>1, <2>3 DEF Forward, Goes, Finds, Drops, Deletes, Returns, Moves, TypeOK, Task
    <3>2. task[d].feature # task[t].feature
      BY <1>2, <2>1, <2>2, <2>3, <3>1 DEF Alone, Busy
    <3>3. PICK f \in Features : f = task[d].feature
      BY <3>1
    <3>4. /\ Standing(f)' = Standing(f)
          /\ \A i \in DOMAIN buildings : buildings[i].feature = f =>
               /\ buildings'[i].launched = buildings[i].launched
               /\ buildings'[i].refunds = buildings[i].refunds
      BY <1>2, <3>2, <3>3, ElsewhereStep
    <3>5. /\ task[d].pc \in {"deduct", "deactivate", "create", "reactivate", "activate"} =>
               Standing(f) = {}
          /\ task[d].pc = "delete" => /\ task[d].id \in Standing(f)
                                      /\ task[d].launched = buildings[task[d].id].launched
          /\ ~ task[d].late
          /\ Removed(d) => /\ buildings[task[d].id].refunds = 0
                           /\ task[d].id \in DOMAIN buildings
                           /\ buildings[task[d].id].feature = f
      BY <1>2, <3>1, <3>3 DEF ReadIsCurrent, CurrentOf, Shape, Removed, Removing
    <3>6. \A i \in Standing(f) : i \in DOMAIN buildings /\ buildings[i].feature = f
      BY DEF Standing
    <3>7. Standing(task[d].feature)' = Standing(f)'
      BY <3>1, <3>3 DEF Standing
    <3> QED BY <3>1, <3>3, <3>4, <3>5, <3>6, <3>7 DEF CurrentOf, Removed
  <2>4. CASE d = t
    <3>1. PICK f \in Features : f = task[t].feature
      BY <2>2
    <3>2. task'[t].feature = f
      BY <1>2, <2>1, <2>4, <3>1 DEF Forward, Goes, Finds, Drops, Deletes, Returns, Keeps
    <3>3. /\ task[t].pc \in {"deduct", "deactivate", "create", "reactivate", "activate"} =>
               Standing(f) = {}
          /\ task[t].pc = "delete" => task[t].id \in Standing(f)
          /\ ~ task[t].late
          /\ Removed(t) => buildings[task[t].id].refunds = 0
      BY <1>2, <2>2, <2>4, <3>1, <3>2 DEF ReadIsCurrent, CurrentOf
    <3>4. ~ Puts(t) /\ Standing(task[t].feature)' = Standing(f)'
      BY <1>2, <2>4, <3>2 DEF Puts, Returns, Standing
    <3>5. CASE Drops(t)
      <4>1. /\ Standing(f)' = Standing(f) \ Matching(f, task[t].model)
            /\ task'[t].late = (task[t].id \notin Matching(f, task[t].model))
            /\ task'[t].pc = "activate" /\ task'[t].id = task[t].id
        BY <2>1, <3>1, <3>5, StandingStep DEF Drops, Deletes, Keeps
      <4>2. task[t].id \in Standing(f) /\ Removing(t) /\ task[t].id \in DOMAIN buildings
        BY <3>3, <3>5 DEF Drops, Deletes, At, Removing, Shape, Standing
      <4>3. task[t].id \in Matching(f, task[t].model)
        BY <4>2 DEF Matching, Shape
      <4>4. \A i \in Standing(f) : i = task[t].id
        BY <1>2, <2>4, <3>2, <4>2 DEF Alone, Standing
      <4>5. buildings'[task[t].id].refunds = 0
        BY <3>5, <4>2 DEF Drops, StandingIsUnrefunded, Standing
      <4> QED BY <2>4, <3>4, <4>1, <4>3, <4>4, <4>5 DEF CurrentOf
    <3>6. CASE Leaves(t)
      <4>1. Standing(f)' = Standing(f)
        BY <2>1, <3>6, StandingStep
      <4>2. ~ Returns(t) /\ \A i \in DOMAIN buildings :
                               /\ buildings'[i].refunds = buildings[i].refunds
                               /\ buildings'[i].launched = buildings[i].launched
        BY <1>2, <2>4, <3>6 DEF Leaves, Returns
      <4>3. CASE Finds(t)
        <5>1. PICK i \in Matching(f, task[t].model) :
                \/ task'[t].pc \in {"update", "write"}
                \/ /\ task'[t].pc = "delete" /\ task'[t].id = i
                   /\ task'[t].launched = buildings[i].launched
          BY <3>1, <4>3 DEF Finds
        <5>2. i \in Standing(f) /\ i \in DOMAIN buildings
          BY <5>1 DEF Matching, Standing
        <5>3. ~ task'[t].late
          BY <3>3, <4>3 DEF Finds
        <5> QED BY <2>4, <3>4, <4>1, <4>2, <5>1, <5>2, <5>3 DEF CurrentOf, Removed
      <4>4. ASSUME NEW pc, Goes(t, pc),
                   \/ pc = "deduct" /\ Standing(f) = {}
                   \/ At(t, "deduct") /\ pc = "deactivate"
                   \/ At(t, "deactivate") /\ pc \in {"create", "refund"}
                   \/ At(t, "create") /\ pc = "reactivate"
                   \/ (At(t, "activate") \/ At(t, "reactivate")) /\ pc = "refund"
                   \/ pc = "find"
            PROVE  CurrentOf(d)'
        <5>1. /\ task'[t].pc = pc /\ task'[t].op = task[t].op /\ ~ task'[t].late
              /\ task'[t].id = task[t].id
          BY <3>3, <4>4 DEF Goes, Keeps
        <5>2. Removed(t)' => Removed(t) /\ task[t].id \in DOMAIN buildings
          BY <4>4, <5>1 DEF Removed, Removing, Shape, At
        <5>3. pc # "delete" /\ (pc \in {"deduct", "deactivate", "create", "reactivate"} =>
                                  Standing(f) = {})
          BY <3>3, <4>4 DEF At
        <5>4. pc # "activate"
          BY <4>4
        <5> QED BY <2>4, <3>3, <3>4, <4>1, <4>2, <5>1, <5>2, <5>3, <5>4 DEF CurrentOf
      <4>5. ~ Drops(t) => Forward(t) /\ ~ Returns(t)
        BY <2>1, <4>2
      <4> QED BY <3>1, <3>5, <4>3, <4>4, <4>5 DEF Forward
    <3> QED BY <2>1, <3>4, <3>5, <3>6
  <2> QED BY <2>3, <2>4
<1>3. CASE Serve(t) /\ ~ (task'[d].pc # "idle" /\ task'[d].feature \notin raced)
  <2>1. raced' = raced
    BY <1>3, ServeStep
  <2> QED BY <1>3, <2>1 DEF CurrentOf
<1> QED BY <1>1, <1>2, <1>3

-----------------------------------------------------------------------------
(* What stands was not refunded, and no refund of it is due.               *)
LEMMA UnrefundedStep ==
  ASSUME TypeOK, Shape, StandingIsUnrefunded, NEW t \in Tasks, Request(t) \/ Serve(t)
  PROVE  StandingIsUnrefunded'
<1>1. CASE Request(t)
  <2>1. Begins(t) /\ UNCHANGED rows
    BY <1>1, RequestStep
  <2> QED BY <2>1 DEF Begins, Moves, StandingIsUnrefunded, Removed, rows
<1>2. CASE Serve(t)
  <2>1. Forward(t) /\ RowsStay /\ (Puts(t) \/ Drops(t) \/ Leaves(t))
    BY <1>2, ServeStep, RowsStep
  <2>2. ASSUME NEW d \in Tasks, Removed(d)'
        PROVE  /\ task'[d].id \in DOMAIN buildings
               /\ \/ Removed(d) /\ task'[d].id = task[d].id
                  \/ d = t /\ Drops(t)
    <3>1. CASE d # t
      <4>1. task'[d] = task[d]
        BY <2>1, <3>1 DEF Forward, Goes, Finds, Drops, Deletes, Returns, Moves
      <4> QED BY <2>2, <4>1 DEF Removed, Removing, Shape
    <3>2. CASE d = t
      <4>1. ~ Returns(t) /\ ~ Finds(t)
        BY <2>2, <3>2 DEF Removed, Returns, Finds
      <4>2. CASE Drops(t)
        BY <2>2, <3>2, <4>2 DEF Drops, Deletes, Keeps, Removed, Removing, Shape, At
      <4>3. CASE ~ Drops(t)
        <5>1. PICK pc : /\ Goes(t, pc)
                        /\ \/ pc \in {"deduct", "deactivate", "create", "reactivate", "find"}
                           \/ At(t, "deactivate") /\ pc = "refund"
                           \/ (At(t, "activate") \/ At(t, "reactivate")) /\ pc = "refund"
          BY <2>1, <4>1, <4>3 DEF Forward
        <5> QED BY <2>2, <3>2, <5>1 DEF Goes, Keeps, Removed, Removing, Shape, At
      <4> QED BY <4>2, <4>3
    <3> QED BY <3>1, <3>2
  <2>3. ASSUME NEW i \in DOMAIN buildings, buildings'[i].standing
        PROVE  /\ buildings'[i].refunds = 0
               /\ \A d \in Tasks : Removed(d)' => task'[d].id # i
    <3>1. buildings[i].standing
      BY <2>1, <2>3 DEF RowsStay
    <3>2. buildings'[i].refunds = 0
      <4>1. buildings[i].refunds = 0 /\ (Removed(t) => task[t].id # i)
        BY <3>1 DEF StandingIsUnrefunded
      <4>2. At(t, "refund") /\ task[t].op = "destroy" => Removed(t)
        BY DEF At, Removed
      <4> QED BY <2>1, <4>1, <4>2 DEF Puts, Drops, Leaves
    <3>3. ASSUME NEW d \in Tasks, Removed(d)' PROVE task'[d].id # i
      <4>1. CASE Removed(d) /\ task'[d].id = task[d].id
        BY <3>1, <4>1 DEF StandingIsUnrefunded
      <4>2. CASE d = t /\ Drops(t)
        <5>1. task'[t].id = task[t].id /\ i \notin Matching(task[t].feature, task[t].model)
          BY <2>3, <4>2 DEF Drops, Deletes, Keeps
        <5>2. i = task[t].id => i \in Matching(task[t].feature, task[t].model)
          BY <3>1, <4>2 DEF Drops, Deletes, At, Shape, Removing, Matching, Standing
        <5> QED BY <4>2, <5>1, <5>2
      <4> QED BY <2>2, <3>3, <4>1, <4>2
    <3> QED BY <3>2, <3>3
  <2>4. ASSUME NEW i \in DOMAIN buildings' \ DOMAIN buildings
        PROVE  /\ buildings'[i].refunds = 0
               /\ \A d \in Tasks : Removed(d)' => task'[d].id # i
    <3>1. buildings'[i].refunds = 0
      BY <2>1 DEF Puts, Drops, Leaves
    <3> QED BY <2>2, <3>1
  <2> QED BY <2>3, <2>4 DEF StandingIsUnrefunded
<1> QED BY <1>1, <1>2

(* Only requests that found a building standing can refund it.             *)
LEMMA RefundStep ==
  ASSUME TypeOK, Shape, ReadIsCurrent, StandingIsUnrefunded, RefundsAreBounded,
         NEW t \in Tasks, Request(t) \/ Serve(t)
  PROVE  RefundsAreBounded'
<1>0. /\ IsFiniteSet(Tasks) /\ Cardinality(Tasks) \in Nat
      /\ \A i : IsFiniteSet(Refunders(i)) /\ Cardinality(Refunders(i)) \in Nat
                /\ Cardinality(Refunders(i)) <= Cardinality(Tasks)
                /\ IsFiniteSet(Refunders(i)') /\ Cardinality(Refunders(i)') \in Nat
                /\ Cardinality(Refunders(i)') <= Cardinality(Tasks)
  <2>1. \A i : Refunders(i) \subseteq Tasks /\ Refunders(i)' \subseteq Tasks
    BY DEF Refunders
  <2> QED BY <2>1, BuildingAssumption, FS_Subset, FS_CardinalityType
<1>1. CASE Request(t)
  <2>1. Begins(t) /\ UNCHANGED rows
    BY <1>1, RequestStep
  <2>2. ASSUME NEW i \in DOMAIN buildings
        PROVE  Cardinality(Refunders(i)') <= Cardinality(Refunders(i))
    <3>1. Refunders(i)' \subseteq Refunders(i)
      BY <2>1 DEF Begins, Moves, Refunders, Removing, At
    <3> QED BY <1>0, <3>1, FS_Subset
  <2>3. raced \subseteq raced' /\ UNCHANGED buildings
    BY <2>1 DEF Begins, rows
  <2>4. \A i \in DOMAIN buildings : buildings[i].refunds \in Nat
    BY EachRow
  <2>5. ASSUME NEW i \in DOMAIN buildings
        PROVE  /\ buildings[i].refunds + Cardinality(Refunders(i)') <= Cardinality(Tasks)
               /\ buildings[i].feature \notin raced' => buildings[i].refunds <= 1
    BY <1>0, <2>2, <2>3, <2>4 DEF RefundsAreBounded
  <2> QED BY <2>3, <2>5 DEF RefundsAreBounded, Refunders, Removing
<1>2. CASE Serve(t)
  <2>1. Forward(t) /\ RowsStay /\ raced' = raced /\ (Puts(t) \/ Drops(t) \/ Leaves(t))
    BY <1>2, ServeStep, RowsStep
  <2>2. ASSUME NEW i \in DOMAIN buildings', buildings'[i].refunds = 0
        PROVE  /\ buildings'[i].refunds + Cardinality(Refunders(i)') <= Cardinality(Tasks)
               /\ buildings'[i].refunds <= 1
    BY <1>0, <2>2
  <2>3. ASSUME NEW i \in DOMAIN buildings, buildings'[i].refunds = buildings[i].refunds,
               buildings[i].refunds # 0
        PROVE  /\ buildings'[i].refunds + Cardinality(Refunders(i)') <= Cardinality(Tasks)
               /\ buildings'[i].feature \notin raced => buildings'[i].refunds <= 1
    <3>1. Refunders(i)' \subseteq Refunders(i)
      <4>1. ~ buildings[i].standing
        BY <2>3 DEF StandingIsUnrefunded
      <4>2. ASSUME NEW d \in Tasks, Removing(d)', task'[d].id = i
            PROVE  Removing(d) /\ task[d].id = i
        <5>1. CASE d # t
          <6>1. task'[d] = task[d]
            BY <2>1, <5>1 DEF Forward, Goes, Finds, Drops, Deletes, Returns, Moves
          <6> QED BY <4>2, <6>1 DEF Removing
        <5>2. CASE d = t
          <6>1. ~ Returns(t)
            BY <4>2, <5>2 DEF Removing, Returns
          <6>2. ~ Finds(t)
            BY <4>1, <4>2, <5>2 DEF Finds, Removing, Matching, Standing
          <6>3. CASE Drops(t)
            BY <4>2, <5>2, <6>3 DEF Drops, Deletes, Keeps, Removing, Shape, At
          <6>4. CASE ~ Drops(t)
            <7>1. PICK pc : /\ Goes(t, pc)
                            /\ \/ pc \in {"deduct", "deactivate", "create", "reactivate", "find"}
                               \/ At(t, "deactivate") /\ pc = "refund"
                               \/ (At(t, "activate") \/ At(t, "reactivate")) /\ pc = "refund"
              BY <2>1, <6>1, <6>2, <6>4 DEF Forward
            <7> QED BY <4>2, <5>2, <7>1 DEF Goes, Keeps, Removing, Shape, At
          <6> QED BY <6>3, <6>4
        <5> QED BY <5>1, <5>2
      <4> QED BY <4>2 DEF Refunders
    <3>2. Cardinality(Refunders(i)') <= Cardinality(Refunders(i))
      BY <1>0, <3>1, FS_Subset
    <3>3. buildings[i].refunds \in Nat /\ buildings'[i].feature = buildings[i].feature
      BY <2>1, EachRow DEF RowsStay
    <3> QED BY <1>0, <2>3, <3>2, <3>3 DEF RefundsAreBounded
  <2>4. ASSUME NEW i \in DOMAIN buildings, buildings'[i].refunds = buildings[i].refunds + 1,
               At(t, "refund"), Returns(t), task[t].op = "destroy", i = task[t].id
        PROVE  /\ buildings'[i].refunds + Cardinality(Refunders(i)') <= Cardinality(Tasks)
               /\ buildings'[i].feature \notin raced => buildings'[i].refunds <= 1
    <3>1. Refunders(i)' = Refunders(i) \ {t} /\ t \in Refunders(i)
      BY <2>4 DEF Refunders, Removing, Returns, Moves, At
    <3>2. Cardinality(Refunders(i)') = Cardinality(Refunders(i)) - 1
      BY <1>0, <3>1, FS_RemoveElement
    <3>3. buildings[i].refunds \in Nat /\ buildings'[i].feature = buildings[i].feature
      BY <2>1, EachRow DEF RowsStay
    <3>4. buildings[i].feature \notin raced => buildings[i].refunds = 0
      BY <2>4 DEF ReadIsCurrent, CurrentOf, Shape, Removed, Removing, At
    <3> QED BY <1>0, <2>4, <3>2, <3>3, <3>4 DEF RefundsAreBounded
  <2>5. ASSUME NEW i \in DOMAIN buildings'
        PROVE  \/ buildings'[i].refunds = 0
               \/ /\ i \in DOMAIN buildings /\ buildings'[i].refunds = buildings[i].refunds
                  /\ buildings[i].refunds # 0
               \/ /\ i \in DOMAIN buildings /\ buildings'[i].refunds = buildings[i].refunds + 1
                  /\ At(t, "refund") /\ Returns(t) /\ task[t].op = "destroy" /\ i = task[t].id
    BY <2>1 DEF Puts, Drops, Leaves
  <2>6. ASSUME NEW i \in DOMAIN buildings'
        PROVE  /\ buildings'[i].refunds + Cardinality(Refunders(i)') <= Cardinality(Tasks)
               /\ buildings'[i].feature \notin raced => buildings'[i].refunds <= 1
    BY <2>2, <2>3, <2>4, <2>5
  <2> QED BY <2>1, <2>6 DEF RefundsAreBounded, Refunders, Removing
<1> QED BY <1>1, <1>2

-----------------------------------------------------------------------------
(* Only requests that found the feature free can build on it.              *)
LEMMA BuilderStep ==
  ASSUME TypeOK, Shape, BuildersAreBounded, NEW t \in Tasks, Request(t) \/ Serve(t)
  PROVE  BuildersAreBounded'
<1>0. /\ IsFiniteSet(Tasks) /\ Cardinality(Tasks) \in Nat
      /\ \A f : IsFiniteSet(Builders(f)) /\ Cardinality(Builders(f)) \in Nat
                /\ IsFiniteSet(Builders(f)') /\ Cardinality(Builders(f)') \in Nat
                /\ Cardinality(Builders(f)') <= Cardinality(Tasks)
      /\ \A f : IsFiniteSet(Standing(f)) /\ Cardinality(Standing(f)) \in Nat
  <2>1. \A f : Builders(f) \subseteq Tasks /\ Builders(f)' \subseteq Tasks
               /\ Standing(f) \subseteq DOMAIN buildings
    BY DEF Builders, Standing
  <2> QED BY <2>1, EachRow, BuildingAssumption, FS_Subset, FS_CardinalityType
<1>1. ASSUME NEW f \in Features, Standing(f)' \subseteq Standing(f), Builders(f)' \subseteq Builders(f)
      PROVE  Cardinality(Standing(f)') + Cardinality(Builders(f)') <= Cardinality(Tasks)
  <2>1. Cardinality(Standing(f)') <= Cardinality(Standing(f)) /\ Cardinality(Standing(f)') \in Nat
    BY <1>0, <1>1, FS_Subset, FS_CardinalityType
  <2>2. Cardinality(Builders(f)') <= Cardinality(Builders(f))
    BY <1>0, <1>1, FS_Subset
  <2> QED BY <1>0, <2>1, <2>2 DEF BuildersAreBounded
<1>2. CASE Request(t)
  <2>1. Begins(t) /\ UNCHANGED rows
    BY <1>2, RequestStep
  <2>2. ASSUME NEW f \in Features
        PROVE  Standing(f)' \subseteq Standing(f) /\ Builders(f)' \subseteq Builders(f)
    BY <2>1 DEF Begins, Moves, Builders, Erecting, Standing, rows
  <2>3. ASSUME NEW f \in Features
        PROVE  Cardinality(Standing(f)') + Cardinality(Builders(f)') <= Cardinality(Tasks)
    BY <1>1, <2>2
  <2> QED BY <2>3 DEF BuildersAreBounded
<1>3. CASE Serve(t)
  <2>1. Forward(t) /\ RowsStay /\ (Puts(t) \/ Drops(t) \/ Leaves(t))
    BY <1>3, ServeStep, RowsStep
  <2>2. ASSUME NEW f \in Features, ~ (Goes(t, "deduct") /\ f = task[t].feature /\ Standing(f) = {})
        PROVE  Builders(f)' \subseteq Builders(f)
    <3> SUFFICES ASSUME NEW d \in Tasks, Erecting(d)', task'[d].feature = f
                 PROVE  Erecting(d) /\ task[d].feature = f
      BY DEF Builders
    <3>1. CASE d # t
      <4>1. task'[d] = task[d]
        BY <2>1, <3>1 DEF Forward, Goes, Finds, Drops, Deletes, Returns, Moves
      <4> QED BY <4>1 DEF Erecting
    <3>2. CASE d = t
      <4>1. ~ Returns(t) /\ ~ Finds(t) /\ ~ Drops(t)
        BY <3>2 DEF Erecting, Returns, Finds, Drops, Deletes
      <4>2. \/ Goes(t, "deduct") /\ Standing(task[t].feature) = {}
            \/ At(t, "deduct") /\ Goes(t, "deactivate")
            \/ At(t, "deactivate") /\ Goes(t, "create")
            \/ Goes(t, "reactivate") \/ Goes(t, "refund") \/ Goes(t, "find")
        BY <2>1, <4>1 DEF Forward
      <4> QED BY <2>2, <3>2, <4>2 DEF Goes, Keeps, Erecting, At
    <3> QED BY <3>1, <3>2
  <2>3. ASSUME NEW f \in Features
        PROVE  Cardinality(Standing(f)') + Cardinality(Builders(f)') <= Cardinality(Tasks)
    <3>1. CASE Goes(t, "deduct") /\ f = task[t].feature /\ Standing(f) = {}
      <4>1. ~ Puts(t)
        BY <3>1 DEF Goes, Puts, Returns
      <4>2. Standing(f)' = {}
        BY <2>1, <3>1, <4>1, StandingStep
      <4>3. Cardinality(Standing(f)') = 0
        BY <4>2, FS_EmptySet
      <4> QED BY <1>0, <4>3
    <3>2. CASE Puts(t) /\ f = task[t].feature
      <4>1. Builders(f)' = Builders(f) \ {t} /\ t \in Builders(f)
        <5>1. Builders(f)' \subseteq Builders(f) /\ t \in Builders(f) /\ t \notin Builders(f)'
          BY <2>2, <3>2 DEF Builders, Erecting, Puts, Goes, Returns, At
        <5>2. Builders(f) \ {t} \subseteq Builders(f)'
          BY <3>2 DEF Builders, Erecting, Puts, Returns, Moves
        <5> QED BY <5>1, <5>2
      <4>2. Cardinality(Builders(f)') = Cardinality(Builders(f)) - 1
        BY <1>0, <4>1, FS_RemoveElement
      <4>3. PICK n : n = Len(buildings) + 1
        OBVIOUS
      <4>4. Standing(f)' = Standing(f) \union {n} /\ n \notin Standing(f)
        BY <2>1, <3>2, <4>3, StandingStep DEF Puts, Standing
      <4>5. Cardinality(Standing(f)') = Cardinality(Standing(f)) + 1
        BY <1>0, <4>4, FS_AddElement
      <4> QED BY <1>0, <4>2, <4>5 DEF BuildersAreBounded
    <3>3. CASE /\ ~ (Goes(t, "deduct") /\ f = task[t].feature /\ Standing(f) = {})
               /\ ~ (Puts(t) /\ f = task[t].feature)
      <4>1. Standing(f)' \subseteq Standing(f)
        BY <2>1, <3>3, StandingStep
      <4> QED BY <1>1, <2>2, <3>3, <4>1
    <3> QED BY <3>1, <3>2, <3>3
  <2> QED BY <2>3 DEF BuildersAreBounded
<1> QED BY <1>2, <1>3

-----------------------------------------------------------------------------
(* How a step of a request changes the profits of its feature.             *)
LEMMA ActiveStep ==
  ASSUME TypeOK, Shape, NEW t \in Tasks, Serve(t), NEW f \in Features, f = task[t].feature
  PROVE  /\ faults' = 0 => faults = 0
         /\ At(t, "deactivate") /\ Goes(t, "create") => active'[f] = FALSE
         /\ At(t, "deactivate") /\ Goes(t, "refund") => faults' # 0
         /\ (At(t, "activate") \/ At(t, "reactivate")) /\ Goes(t, "refund") =>
              active'[f] = TRUE \/ (faults' # 0 /\ active'[f] = active[f])
         /\ (At(t, "activate") \/ At(t, "reactivate")) /\ Returns(t) => faults' # 0
         /\ At(t, "create") /\ Returns(t) => Puts(t) \/ faults' # 0
         /\ \/ active'[f] = active[f]
            \/ At(t, "deactivate") /\ Goes(t, "create")
            \/ (At(t, "activate") \/ At(t, "reactivate")) /\ Goes(t, "refund")
<1>1. CASE DeactivateProfits(t)
  <2>1. Goes(t, "create") \/ Goes(t, "refund")
    BY <1>1, GotoStep DEF DeactivateProfits
  <2>2. \/ Goto(t, "create") /\ active' = [active EXCEPT ![f] = FALSE] /\ faults' = faults
        \/ Goto(t, "refund") /\ active' = active /\ faults' = faults + 1
    BY <1>1 DEF DeactivateProfits, Fault, NoFault
  <2>3. Goto(t, "create") => Goes(t, "create")
    BY GotoStep
  <2>4. Goto(t, "refund") => Goes(t, "refund")
    BY GotoStep
  <2> QED BY <1>1, <2>2, <2>3, <2>4 DEF DeactivateProfits, Goes, Returns, At, TypeOK
<1>2. CASE ActivateProfits(t)
  <2>1. Goes(t, "refund")
    BY <1>2, GotoStep DEF ActivateProfits
  <2>2. \/ active' = [active EXCEPT ![f] = TRUE] /\ faults' = faults
        \/ active' = active /\ faults' = faults + 1
    BY <1>2 DEF ActivateProfits, Fault, NoFault
  <2> QED BY <1>2, <2>1, <2>2 DEF ActivateProfits, Goes, Returns, At, TypeOK
<1>3. CASE CreateBuilding(t)
  <2>1. active' = active /\ At(t, "create") /\ (faults' = faults \/ faults' = faults + 1)
    BY <1>3 DEF CreateBuilding, Fault, NoFault
  <2>2. CASE Return(t)
    <3>1. CASE Puts(t)
      BY <2>1, <3>1 DEF Puts, Returns, Goes, At, TypeOK
    <3>2. CASE ~ Puts(t)
      <4>1. Drops(t) \/ Leaves(t)
        BY <1>3, <3>2, RowsStep DEF Serve
      <4>2. DOMAIN buildings' = DOMAIN buildings
        BY <4>1 DEF Drops, Leaves
      <4>3. Len(buildings') = Len(buildings) /\ Len(buildings) \in Nat
        BY <1>3, <4>2, EachRow, CreateType DEF TypeOK
      <4>4. buildings' # Append(buildings, [feature |-> task[t].feature, model |-> task[t].model,
              launched |-> task[t].launched, info |-> task[t].info, standing |-> TRUE,
              refunds |-> 0])
        <5>1. PICK r : r = [feature |-> task[t].feature, model |-> task[t].model,
              launched |-> task[t].launched, info |-> task[t].info, standing |-> TRUE,
              refunds |-> 0]
          OBVIOUS
        <5>2. task[t].feature \in Features /\ task[t].model \in Models
              /\ task[t].launched \in Nat /\ task[t].info \in SUBSET Fields
          BY DEF TypeOK, Task
        <5>3. r \in Row
          BY <5>1, <5>2 DEF Row
        <5>4. buildings' # Append(buildings, r)
          BY <4>3, <5>3 DEF TypeOK
        <5> QED BY <5>1, <5>4
      <4>5. Goto(t, "reactivate")
        BY <1>3, <4>4 DEF CreateBuilding
      <4>6. Goes(t, "reactivate")
        BY <4>5, GotoStep
      <4> QED BY <2>1, <4>6 DEF Goes, Returns, At, TypeOK
    <3> QED BY <3>1, <3>2
  <2>3. CASE Goto(t, "reactivate")
    <3>1. Goes(t, "reactivate")
      BY <2>3, GotoStep
    <3> QED BY <2>1, <3>1 DEF Goes, Returns, At, TypeOK
  <2> QED BY <1>3, <2>2, <2>3 DEF CreateBuilding
<1>4. CASE Fails(t)
  <2>1. Returns(t) /\ active' = active /\ faults' = faults + 1
    BY <1>4, ReturnStep DEF Fails, Fault, rows
  <2> QED BY <2>1 DEF Returns, Goes, TypeOK
<1>5. CASE HasBuilding(t) \/ DeductBalance(t) \/ CheckLimits(t) \/ FindBuilding(t)
           \/ UpdateBuilding(t) \/ UpdateInformation(t) \/ DeleteBuilding(t) \/ AddBalance(t)
  <2>1. task[t].pc \in {"check", "deduct", "limits", "find", "update", "write", "delete", "refund"}
    BY <1>5 DEF HasBuilding, DeductBalance, CheckLimits, FindBuilding, UpdateBuilding,
                UpdateInformation, DeleteBuilding, AddBalance, At
  <2>2. active' = active
    BY <1>5 DEF HasBuilding, DeductBalance, CheckLimits, FindBuilding, UpdateBuilding,
                UpdateInformation, DeleteBuilding, AddBalance, rows
  <2>3. faults' = faults \/ faults' = faults + 1
    BY <1>5 DEF HasBuilding, DeductBalance, CheckLimits, FindBuilding, UpdateBuilding,
                UpdateInformation, DeleteBuilding, AddBalance, Fault, NoFault
  <2> QED BY <2>1, <2>2, <2>3 DEF At, TypeOK
<1> QED BY <1>1, <1>2, <1>3, <1>4, <1>5 DEF Serve

(* A step that is not on feature f keeps its requests. *)
LEMMA BusyElsewhere ==
  ASSUME TypeOK, NEW t \in Tasks, Forward(t), NEW f \in Features, f # task[t].feature
  PROVE  /\ Busy(f)' \subseteq Busy(f) /\ Busy(f) \subseteq Busy(f)'
         /\ \A d \in Busy(f) : task'[d] = task[d]
         /\ \A d \in Tasks : task'[d].pc = "create" /\ task'[d].feature = f => task'[d] = task[d]
<1>1. \A d \in Tasks \ {t} : task'[d] = task[d]
  BY DEF Forward, Goes, Finds, Drops, Deletes, Returns, Moves
<1>2. task'[t].pc = "idle" \/ task'[t].feature = task[t].feature
  BY DEF Forward, Goes, Finds, Drops, Deletes, Returns, Keeps
<1> QED BY <1>1, <1>2 DEF Busy

(* The profits of a feature stop before a building stands there.           *)
LEMMA StoppedStep ==
  ASSUME TypeOK, Shape, Alone, ReadIsCurrent, ProfitsAreStopped, NEW t \in Tasks,
         Request(t) \/ Serve(t)
  PROVE  ProfitsAreStopped'
<1> SUFFICES ASSUME NEW f \in Features, f \notin raced', f \notin sold', active'[f],
                    Standing(f)' # {} \/ \E d \in Tasks : task'[d].pc = "create" /\ task'[d].feature = f
             PROVE  FALSE
  BY DEF ProfitsAreStopped, At
<1>1. CASE Request(t)
  <2>1. Begins(t) /\ UNCHANGED rows /\ sold' = sold
    BY <1>1, RequestStep
  <2>2. Standing(f)' = Standing(f) /\ f \notin raced /\ f \notin sold /\ active[f]
    BY <2>1 DEF Begins, Standing, rows
  <2>3. \A d \in Tasks : task'[d].pc = "create" => task'[d] = task[d]
    BY <2>1 DEF Begins, Moves
  <2> QED BY <2>2, <2>3 DEF ProfitsAreStopped, At
<1>2. CASE Serve(t)
  <2>1. Forward(t) /\ RowsStay /\ raced' = raced /\ sold' = sold /\ (Puts(t) \/ Drops(t) \/ Leaves(t))
    BY <1>2, ServeStep, RowsStep
  <2>2. CASE f # task[t].feature
    <3>1. Standing(f)' = Standing(f) /\ active'[f] = active[f]
      BY <1>2, <2>2, ElsewhereStep
    <3>2. \A d \in Tasks : task'[d].pc = "create" /\ task'[d].feature = f => task'[d] = task[d]
      BY <2>1, <2>2, BusyElsewhere
    <3> QED BY <2>1, <3>1, <3>2 DEF ProfitsAreStopped, At
  <2>3. CASE f = task[t].feature
    <3>1. task[t].pc # "idle"
      BY <1>2 DEF Serve, HasBuilding, DeductBalance, DeactivateProfits, CreateBuilding, CheckLimits,
             FindBuilding, UpdateBuilding, UpdateInformation, DeleteBuilding, ActivateProfits,
             AddBalance, Fails, At
    <3>2. \A d \in Tasks : task'[d].pc = "create" /\ task'[d].feature = f =>
                             d = t /\ At(t, "deactivate") /\ Goes(t, "create")
      <4>1. ASSUME NEW d \in Tasks, task'[d].pc = "create", task'[d].feature = f, d # t
            PROVE  FALSE
        <5>1. task'[d] = task[d]
          BY <2>1, <4>1 DEF Forward, Goes, Finds, Drops, Deletes, Returns, Moves
        <5> QED BY <2>1, <2>3, <3>1, <4>1, <5>1 DEF Alone, Busy
      <4>2. ASSUME task'[t].pc = "create"
            PROVE  At(t, "deactivate") /\ Goes(t, "create")
        BY <2>1, <4>2 DEF Forward, Goes, Finds, Drops, Deletes, Returns
      <4> QED BY <4>1, <4>2
    <3>3. ~ (At(t, "deactivate") /\ Goes(t, "create"))
      BY <1>2, <2>3, ActiveStep
    <3>4. Standing(f)' # {}
      BY <3>2, <3>3
    <3>5. CASE (At(t, "activate") \/ At(t, "reactivate")) /\ Goes(t, "refund")
      <4>1. Standing(f) = {}
        BY <2>1, <2>3, <3>5 DEF ReadIsCurrent, CurrentOf, At
      <4>2. ~ Puts(t)
        BY <3>5 DEF Puts, Goes, Returns
      <4>3. Standing(f)' = {}
        BY <2>1, <4>1, <4>2, StandingStep
      <4> QED BY <3>4, <4>3
    <3>6. CASE active'[f] = active[f]
      <4>1. CASE Puts(t)
        BY <2>1, <2>3, <3>6, <4>1 DEF Puts, ProfitsAreStopped
      <4>2. CASE ~ Puts(t)
        <5>1. Standing(f)' \subseteq Standing(f)
          BY <2>1, <4>2, StandingStep
        <5> QED BY <2>1, <3>4, <3>6, <5>1 DEF ProfitsAreStopped
      <4> QED BY <4>1, <4>2
    <3> QED BY <1>2, <2>3, <3>3, <3>5, <3>6, ActiveStep
  <2> QED BY <2>2, <2>3
<1> QED BY <1>1, <1>2

(* Every path that stopped them resumes them.                              *)
LEMMA ResumedStep ==
  ASSUME TypeOK, Shape, Alone, ReadIsCurrent, ProfitsAreResumed, NEW t \in Tasks,
         Request(t) \/ Serve(t)
  PROVE  ProfitsAreResumed'
<1> SUFFICES ASSUME NEW f \in Features, f \notin raced', faults' = 0, Standing(f)' = {},
                    \A d \in Busy(f)' : task'[d].pc \notin {"create", "reactivate", "activate"}
             PROVE  active'[f]
  BY DEF ProfitsAreResumed
<1>1. CASE Request(t)
  <2>1. Begins(t) /\ UNCHANGED rows /\ faults' = faults
    BY <1>1, RequestStep
  <2>2. Standing(f)' = Standing(f) /\ f \notin raced /\ active'[f] = active[f]
    BY <2>1 DEF Begins, Standing, rows
  <2>3. \A d \in Busy(f) : task[d].pc \notin {"create", "reactivate", "activate"}
    BY <2>1 DEF Begins, Moves, Busy, At
  <2> QED BY <2>1, <2>2, <2>3 DEF ProfitsAreResumed
<1>2. CASE Serve(t)
  <2>1. Forward(t) /\ RowsStay /\ raced' = raced /\ (Puts(t) \/ Drops(t) \/ Leaves(t))
    BY <1>2, ServeStep, RowsStep
  <2>2. faults = 0
    <3>1. task[t].feature \in Features
      BY DEF TypeOK, Task
    <3> QED BY <1>2, <3>1, ActiveStep
  <2>3. CASE f # task[t].feature
    <3>1. Standing(f)' = Standing(f) /\ active'[f] = active[f]
      BY <1>2, <2>3, ElsewhereStep
    <3>2. Busy(f) \subseteq Busy(f)' /\ \A d \in Busy(f) : task'[d] = task[d]
      BY <2>1, <2>3, BusyElsewhere
    <3>3. \A d \in Busy(f) : task[d].pc \notin {"create", "reactivate", "activate"}
      BY <3>2
    <3> QED BY <2>1, <2>2, <3>1, <3>3 DEF ProfitsAreResumed
  <2>4. CASE f = task[t].feature
    <3>1. task[t].pc # "idle" /\ t \in Busy(f)
      BY <1>2, <2>4 DEF Serve, HasBuilding, DeductBalance, DeactivateProfits, CreateBuilding,
             CheckLimits, FindBuilding, UpdateBuilding, UpdateInformation, DeleteBuilding,
             ActivateProfits, AddBalance, Fails, At, Busy
    <3>2. \A d \in Busy(f) : d = t
      BY <2>1, <3>1 DEF Alone, Busy
    <3>3. ~ Puts(t) /\ ~ Drops(t)
      <4>1. ~ Puts(t)
        BY <2>1, <2>4, StandingStep
      <4>2. Drops(t) => t \in Busy(f)' /\ task'[t].pc = "activate"
        BY <2>4 DEF Drops, Deletes, Keeps, Busy
      <4> QED BY <4>1, <4>2
    <3>4. Standing(f) = {}
      BY <2>1, <3>3, StandingStep
    <3>5. CASE task[t].pc \notin {"create", "reactivate", "activate"}
      <4>1. active[f]
        BY <2>1, <2>2, <3>2, <3>4, <3>5 DEF ProfitsAreResumed
      <4>2. ~ (At(t, "deactivate") /\ Goes(t, "create"))
        BY <2>4 DEF Goes, Keeps, Busy
      <4>3. ~ ((At(t, "activate") \/ At(t, "reactivate")) /\ Goes(t, "refund"))
        BY <3>5 DEF At
      <4>4. active'[f] = active[f]
        BY <1>2, <2>4, <4>2, <4>3, ActiveStep
      <4> QED BY <4>1, <4>4
    <3>6. CASE task[t].pc \in {"create", "reactivate", "activate"}
      <4>1. ~ Returns(t)
        BY <1>2, <2>4, <3>3, <3>6, ActiveStep DEF At
      <4>2. ~ Goes(t, "reactivate") /\ ~ Finds(t)
        BY <2>4, <3>6 DEF Goes, Keeps, Busy, Finds, At
      <4>3. (At(t, "activate") \/ At(t, "reactivate")) /\ Goes(t, "refund")
        BY <2>1, <3>3, <3>6, <4>1, <4>2 DEF Forward, At
      <4> QED BY <1>2, <2>4, <4>3, ActiveStep
    <3> QED BY <3>5, <3>6
  <2> QED BY <2>3, <2>4
<1> QED BY <1>1, <1>2

-----------------------------------------------------------------------------
(* Buildings carry what their feature requires.                            *)
LEMMA RequirementStep ==
  ASSUME TypeOK, Shape, RequirementIsKnown, NEW t \in Tasks, Request(t) \/ Serve(t)
  PROVE  RequirementIsKnown'
<1> SUFFICES ASSUME NEW f \in Features, fetched \subseteq {f}, fetched' = fetched
             PROVE
      /\ \A m \in Models : required'[m] \in {0, Need[f]}
      /\ \A d \in Tasks : /\ task'[d].feature = f
                          /\ task'[d].pc \in {"deactivate", "create", "update"} \/
                             (task'[d].pc = "find" /\ task'[d].op = "update")
                          => task'[d].launched >= Need[f]
      /\ \A i \in Standing(f)' : buildings'[i].launched >= Need[f]
  <2>1. fetched' = fetched
    BY RequestStep, ServeStep
  <2> QED BY <2>1 DEF RequirementIsKnown
<1>1. /\ \A m \in Models : required[m] \in {0, Need[f]}
      /\ \A d \in Tasks : /\ task[d].feature = f
                          /\ task[d].pc \in {"deactivate", "create", "update"} \/
                             (task[d].pc = "find" /\ task[d].op = "update")
                          => task[d].launched >= Need[f]
      /\ \A i \in Standing(f) : buildings[i].launched >= Need[f]
  BY DEF RequirementIsKnown
<1>2. CASE Request(t)
  <2>1. Begins(t) /\ UNCHANGED rows
    BY <1>2, RequestStep
  <2>2. Standing(f)' = Standing(f) /\ buildings' = buildings /\ required' = required
    BY <2>1 DEF Standing, rows
  <2>3. \A d \in Tasks : task'[d] = task[d] \/
          (task'[d].pc \notin {"deactivate", "create", "update"} /\
           ~ (task'[d].pc = "find" /\ task'[d].op = "update"))
    BY <2>1 DEF Begins, Moves
  <2>4. \A d \in Tasks : /\ task'[d].feature = f
                         /\ task'[d].pc \in {"deactivate", "create", "update"} \/
                            (task'[d].pc = "find" /\ task'[d].op = "update")
                         => task'[d].launched >= Need[f]
    BY <1>1, <2>3
  <2> QED BY <1>1, <2>2, <2>4
<1>3. CASE Serve(t)
  <2>1. /\ Forward(t) /\ RowsStay /\ required' = required /\ (Puts(t) \/ Drops(t) \/ Leaves(t))
        /\ task[t].model \in Models
    BY <1>3, ServeStep, RowsStep DEF TypeOK, Task
  <2>2. ASSUME NEW d \in Tasks, task'[d].feature = f,
               task'[d].pc \in {"deactivate", "create", "update"} \/
                 (task'[d].pc = "find" /\ task'[d].op = "update")
        PROVE  task'[d].launched >= Need[f]
    <3>1. CASE d # t
      <4>1. task'[d] = task[d]
        BY <2>1, <3>1 DEF Forward, Goes, Finds, Drops, Deletes, Returns, Moves
      <4> QED BY <1>1, <2>2, <4>1
    <3>2. CASE d = t
      <4>1. \/ (Goes(t, "deactivate") \/ Goes(t, "find")) /\ Affordable(t)
            \/ At(t, "deactivate") /\ Goes(t, "create")
            \/ Finds(t) /\ task[t].op = "update" /\ task'[t].launched = task[t].launched
        BY <2>1, <2>2, <3>2 DEF Forward, Goes, Finds, Drops, Deletes, Returns
      <4>2. CASE (Goes(t, "deactivate") \/ Goes(t, "find")) /\ Affordable(t)
        <5>1. required[task[t].model] = Need[f] /\ task[t].launched >= required[task[t].model]
          BY <1>1, <2>1, <4>2 DEF Affordable
        <5> QED BY <3>2, <4>2, <5>1 DEF Goes, Keeps
      <4>3. CASE At(t, "deactivate") /\ Goes(t, "create")
        BY <1>1, <2>2, <3>2, <4>3 DEF Goes, Keeps, At
      <4>4. CASE Finds(t) /\ task[t].op = "update" /\ task'[t].launched = task[t].launched
        BY <1>1, <2>2, <3>2, <4>4 DEF Finds, At
      <4> QED BY <4>1, <4>2, <4>3, <4>4
    <3> QED BY <3>1, <3>2
  <2>3. ASSUME NEW i \in Standing(f)' PROVE buildings'[i].launched >= Need[f]
    <3>1. CASE Puts(t)
      <4>1. CASE i = Len(buildings) + 1
        <5>1. f = task[t].feature /\ buildings'[i].launched = task[t].launched /\ At(t, "create")
          BY <2>3, <3>1, <4>1 DEF Puts, Standing
        <5> QED BY <1>1, <5>1 DEF At
      <4>2. CASE i # Len(buildings) + 1
        <5>1. i \in Standing(f) /\ buildings'[i] = buildings[i]
          BY <2>3, <3>1, <4>2 DEF Puts, Standing
        <5> QED BY <1>1, <5>1
      <4> QED BY <4>1, <4>2
    <3>2. CASE Drops(t)
      <4>1. i \in Standing(f) /\ i \in DOMAIN buildings
        BY <2>1, <2>3, <3>2 DEF Drops, Standing, RowsStay
      <4> QED BY <1>1, <3>2, <4>1 DEF Drops
    <3>3. CASE Leaves(t)
      <4>1. i \in Standing(f) /\ i \in DOMAIN buildings
        BY <2>1, <2>3, <3>3 DEF Leaves, Standing, RowsStay
      <4>2. CASE buildings'[i].launched = buildings[i].launched
        BY <1>1, <4>1, <4>2
      <4>3. CASE /\ At(t, "update") /\ i \in Matching(task[t].feature, task[t].model)
                 /\ buildings'[i].launched = task[t].launched
        BY <1>1, <4>1, <4>3 DEF At, Matching, Standing
      <4> QED BY <3>3, <4>1, <4>2, <4>3 DEF Leaves
    <3> QED BY <2>1, <3>1, <3>2, <3>3
  <2> QED BY <1>1, <2>1, <2>2, <2>3
<1> QED BY <1>2, <1>3

(* Information that has no activity line is never stored.                  *)
LEMMA InformationStep ==
  ASSUME TypeOK, Shape, InformationIsKnown, NEW t \in Tasks, Request(t) \/ Serve(t)
  PROVE  InformationIsKnown'
<1>1. CASE Request(t)
  <2>1. Begins(t) /\ UNCHANGED rows
    BY <1>1, RequestStep
  <2> QED BY <2>1 DEF Begins, Moves, InformationIsKnown, rows
<1>2. CASE Serve(t)
  <2>1. Forward(t) /\ RowsStay /\ (Puts(t) \/ Drops(t) \/ Leaves(t))
    BY <1>2, ServeStep, RowsStep
  <2>2. ASSUME NEW d \in Tasks
        PROVE  /\ task'[d].op \in {"build", "update"} /\ task'[d].info # {} =>
                    "activity_line" \in task'[d].info
               /\ task'[d].pc = "write" => "activity_line" \in task'[d].info
    <3>1. CASE d # t
      <4>1. task'[d] = task[d]
        BY <2>1, <3>1 DEF Forward, Goes, Finds, Drops, Deletes, Returns, Moves
      <4> QED BY <4>1 DEF InformationIsKnown
    <3>2. CASE d = t
      <4>1. CASE Finds(t)
        <5>1. PICK i \in Matching(task[t].feature, task[t].model) :
                \/ /\ task'[t].pc = "update" /\ task'[t].info = task[t].info
                \/ /\ task[t].op = "inform"
                   /\ task'[t].info = task[t].info \union buildings[i].info
                \/ task[t].op = "destroy" /\ task'[t].pc = "delete"
          BY <4>1 DEF Finds
        <5>2. "activity_line" \in buildings[i].info
          BY DEF InformationIsKnown, Matching, Standing
        <5> QED BY <3>2, <4>1, <5>1, <5>2 DEF Finds, InformationIsKnown
      <4>2. CASE Returns(t)
        BY <3>2, <4>2 DEF Returns
      <4>3. CASE Drops(t)
        BY <3>2, <4>3 DEF Drops, Deletes, Keeps, InformationIsKnown
      <4>4. CASE ~ Finds(t) /\ ~ Returns(t) /\ ~ Drops(t)
        <5>1. PICK pc : Goes(t, pc) /\ pc # "write"
          BY <2>1, <4>4 DEF Forward
        <5> QED BY <3>2, <5>1 DEF Goes, Keeps, InformationIsKnown
      <4> QED BY <4>1, <4>2, <4>3, <4>4
    <3> QED BY <3>1, <3>2
  <2>3. ASSUME NEW i \in DOMAIN buildings' PROVE "activity_line" \in buildings'[i].info
    <3>1. CASE Puts(t)
      <4>1. "activity_line" \in task[t].info
        BY <3>1 DEF Puts, At, JsonValid, Shape, InformationIsKnown
      <4> QED BY <2>3, <3>1, <4>1 DEF Puts, InformationIsKnown
    <3>2. CASE Drops(t)
      BY <2>3, <3>2 DEF Drops, InformationIsKnown
    <3>3. CASE Leaves(t)
      <4>1. i \in DOMAIN buildings
        BY <2>3, <3>3 DEF Leaves
      <4>2. CASE buildings'[i].info = buildings[i].info
        BY <4>1, <4>2 DEF InformationIsKnown
      <4>3. CASE At(t, "update") /\ buildings'[i].info = task[t].info /\ task[t].info # {}
        BY <4>3 DEF At, Shape, InformationIsKnown
      <4>4. CASE At(t, "write") /\ buildings'[i].info = task[t].info
        BY <4>4 DEF At, InformationIsKnown
      <4> QED BY <3>3, <4>1, <4>2, <4>3, <4>4 DEF Leaves
    <3> QED BY <2>1, <3>1, <3>2, <3>3
  <2> QED BY <2>2, <2>3 DEF InformationIsKnown
<1> QED BY <1>1, <1>2

-----------------------------------------------------------------------------
(* The three sums that a step can change: wallets, buildings and tasks.    *)
InWallets == SumFunctionOnSet(wallet, Users)
Value(P)  == SumFunctionOnSet(AtCeilings(P), DOMAIN buildings)
Launched  == [i \in DOMAIN buildings |-> buildings[i].launched]
Share(t)  == IF OnTheWay(t) THEN task[t].launched ELSE 0

(* They are natural numbers, and buildings at what they hold are InBuildings. *)
LEMMA SumsType ==
  ASSUME TypeOK
  PROVE  /\ InWallets \in Nat /\ InFlight \in Nat
         /\ \A t \in Tasks : Share(t) \in Nat /\ Share(t) = InTasks[t]
         /\ \A P : (\A i \in DOMAIN buildings : P[i] \in Nat) => Value(P) \in Nat
         /\ Value(Launched) = SumFunctionOnSet(InBuildings, DOMAIN buildings)
         /\ Held = InWallets + Value(Launched)
<1>1. InWallets \in Nat
  BY BuildingAssumption, SumNat DEF TypeOK, InWallets
<1>2. \A t \in Tasks : Share(t) \in Nat /\ Share(t) = InTasks[t]
  BY DEF TypeOK, Task, InTasks, Share
<1>3. InFlight \in Nat
  <2>1. PICK f : f = InTasks
    OBVIOUS
  <2>2. SumFunctionOnSet(f, Tasks) \in Nat
    BY <1>2, <2>1, BuildingAssumption, SumNat
  <2> QED BY <2>1, <2>2 DEF InFlight
<1>4. ASSUME NEW P, \A i \in DOMAIN buildings : P[i] \in Nat
      PROVE  Value(P) \in Nat
  <2>1. PICK f : f = AtCeilings(P)
    OBVIOUS
  <2>2. \A i \in DOMAIN buildings : f[i] \in Nat
    BY <1>4, <2>1 DEF AtCeilings
  <2>3. SumFunctionOnSet(f, DOMAIN buildings) \in Nat
    BY <2>2, EachRow, SumNat
  <2> QED BY <2>1, <2>3 DEF Value
<1>5. AtCeilings(Launched) = InBuildings
  BY DEF AtCeilings, Launched, InBuildings
<1> QED BY <1>1, <1>2, <1>3, <1>4, <1>5 DEF Value, Held, InWallets

(* The same of the state after a step. *)
LEMMA SumsNext ==
  (TypeOK => /\ InWallets \in Nat /\ InFlight \in Nat
             /\ \A t \in Tasks : Share(t) \in Nat
             /\ Held = InWallets + Value(Launched))'
<1>1. TypeOK => /\ InWallets \in Nat /\ InFlight \in Nat
                /\ \A t \in Tasks : Share(t) \in Nat
                /\ Held = InWallets + Value(Launched)
  BY SumsType
<1> QED BY <1>1, PTL

(* The same of the value of rows, at any values. *)
LEMMA ValueNext ==
  (TypeOK => \A P : (\A i \in DOMAIN buildings : P[i] \in Nat) => Value(P) \in Nat)'
<1>1. TypeOK => \A P : (\A i \in DOMAIN buildings : P[i] \in Nat) => Value(P) \in Nat
  BY SumsType
<1> QED BY <1>1, PTL

(* One wallet changes. *)
LEMMA WalletSum ==
  ASSUME TypeOK, NEW u \in Users, NEW n \in Int, wallet' = [wallet EXCEPT ![u] = @ + n]
  PROVE  InWallets' = InWallets + n
<1>1. PICK f, g : f = wallet /\ g = wallet'
  OBVIOUS
<1>2. /\ \A v \in Users : f[v] \in Int
      /\ g[u] \in Int /\ g[u] = f[u] + n /\ \A v \in Users \ {u} : g[v] = f[v]
  BY <1>1 DEF TypeOK
<1>3. SumFunctionOnSet(g, Users) = SumFunctionOnSet(f, Users) - f[u] + g[u]
  BY <1>2, BuildingAssumption, SumUpdate
<1>4. SumFunctionOnSet(f, Users) \in Nat
  BY <1>1, SumsType DEF InWallets
<1> QED BY <1>1, <1>2, <1>3, <1>4 DEF InWallets

(* One task changes. *)
LEMMA TaskSum ==
  ASSUME TypeOK, TypeOK', NEW t \in Tasks, Moves(t)
  PROVE  InFlight' = InFlight - Share(t) + Share(t)'
<1>1. PICK f, g : f = InTasks /\ g = InTasks'
  OBVIOUS
<1>2. /\ \A d \in Tasks : f[d] \in Int
      /\ f[t] = Share(t) /\ g[t] = Share(t)'
      /\ g[t] \in Int
      /\ \A d \in Tasks \ {t} : g[d] = f[d]
  <2>1. \A d \in Tasks : f[d] \in Int /\ f[d] = Share(d)
    BY <1>1, SumsType
  <2>2. g[t] = Share(t)' /\ Share(t)' \in Nat
    BY <1>1, SumsNext DEF InTasks, Share
  <2>3. \A d \in Tasks \ {t} : g[d] = f[d]
    BY <1>1 DEF InTasks, OnTheWay, Moves
  <2> QED BY <2>1, <2>2, <2>3
<1>3. SumFunctionOnSet(g, Tasks) = SumFunctionOnSet(f, Tasks) - f[t] + g[t]
  BY <1>2, BuildingAssumption, SumUpdate
<1> QED BY <1>1, <1>2, <1>3 DEF InFlight

(* Rows that stand and keep their value. *)
LEMMA SameValue ==
  ASSUME TypeOK, DOMAIN buildings' = DOMAIN buildings, NEW P,
         \A i \in DOMAIN buildings : buildings'[i].standing = buildings[i].standing
  PROVE  Value(P)' = Value(P)
<1>1. AtCeilings(P)' = AtCeilings(P)
  BY DEF AtCeilings
<1> QED BY <1>1 DEF Value

(* A new row adds its value. *)
LEMMA PutValue ==
  ASSUME TypeOK, NEW t \in Tasks, Puts(t), NEW P, NEW Q,
         \A i \in DOMAIN buildings : P[i] \in Nat /\ Q[i] = P[i], Q[Len(buildings) + 1] \in Nat
  PROVE  Value(Q)' = Value(P) + Q[Len(buildings) + 1]
<1>1. PICK f, g, n : f = AtCeilings(P) /\ g = AtCeilings(Q)' /\ n = Len(buildings) + 1
  OBVIOUS
<1>2. /\ DOMAIN buildings' = DOMAIN buildings \union {n} /\ n \notin DOMAIN buildings
      /\ \A i \in DOMAIN buildings : buildings'[i] = buildings[i]
      /\ buildings'[n].standing
  BY <1>1 DEF Puts
<1>3. /\ \A i \in DOMAIN buildings : f[i] \in Int /\ g[i] = f[i]
      /\ g[n] = Q[n] /\ g[n] \in Int
  BY <1>1, <1>2 DEF AtCeilings
<1>4. PICK X, Y : X = DOMAIN buildings /\ Y = DOMAIN buildings'
  OBVIOUS
<1>5. SumFunctionOnSet(g, Y) = SumFunctionOnSet(f, X) + g[n]
  <2>1. IsFiniteSet(X)
    BY <1>4, EachRow
  <2>2. n \notin X
    BY <1>2, <1>4
  <2>3. Y = X \union {n}
    BY <1>2, <1>4
  <2>4. \A i \in X : f[i] \in Int /\ g[i] = f[i]
    BY <1>3, <1>4
  <2>5. g[n] \in Int
    BY <1>3
  <2>6. \A i \in Y : g[i] \in Int
    BY <2>3, <2>4, <2>5
  <2>7. SumFunctionOnSet(g, Y) = SumFunctionOnSet(g, X) + g[n]
    BY <2>1, <2>2, <2>3, <2>6, SumWith
  <2>8. SumFunctionOnSet(g, X) = SumFunctionOnSet(f, X)
    BY <2>1, <2>4, SumEqual
  <2> QED BY <2>7, <2>8
<1> QED BY <1>1, <1>3, <1>4, <1>5 DEF Value

(* A DELETE takes the values of the rows that match. *)
LEMMA DropValue ==
  ASSUME TypeOK, NEW t \in Tasks, Drops(t), NEW P, \A i \in DOMAIN buildings : P[i] \in Nat
  PROVE  LET hit == Matching(task[t].feature, task[t].model) IN
         /\ Value(P)' <= Value(P)
         /\ \A i \in hit : /\ Value(P)' <= Value(P) - P[i]
                           /\ hit = {i} => Value(P)' = Value(P) - P[i]
<1>1. PICK f, g, H, X : /\ f = AtCeilings(P) /\ g = AtCeilings(P)'
                        /\ H = Matching(task[t].feature, task[t].model) /\ X = DOMAIN buildings
  OBVIOUS
<1>2. \A i \in H : buildings[i].standing
  BY <1>1, EachRow DEF Matching, Standing
<1>7. H \in SUBSET X
  BY <1>1 DEF Matching, Standing
<1>8. IsFiniteSet(X)
  BY <1>1, EachRow
<1>3. \A i \in X : f[i] \in Nat /\ g[i] = IF i \in H THEN 0 ELSE f[i]
  BY <1>1, <1>2 DEF AtCeilings, Drops
<1>4. /\ SumFunctionOnSet(g, X) <= SumFunctionOnSet(f, X)
      /\ \A i \in H : /\ SumFunctionOnSet(g, X) <= SumFunctionOnSet(f, X) - f[i]
                      /\ H = {i} => SumFunctionOnSet(g, X) = SumFunctionOnSet(f, X) - f[i]
  BY <1>7, <1>8, <1>3, SumCleared
<1>5. \A i \in H : f[i] = P[i]
  BY <1>1, <1>2, <1>7 DEF AtCeilings
<1>6. Value(P) = SumFunctionOnSet(f, X) /\ Value(P)' = SumFunctionOnSet(g, X)
  BY <1>1 DEF Value, Drops
<1> QED BY <1>1, <1>4, <1>5, <1>6

(* An UPDATE changes the values of the rows that match. *)
LEMMA RaiseValue ==
  ASSUME TypeOK, NEW t \in Tasks, DOMAIN buildings' = DOMAIN buildings,
         \A i \in DOMAIN buildings : buildings'[i].standing = buildings[i].standing,
         NEW P, NEW Q, NEW e,
         \A i \in DOMAIN buildings : P[i] \in Nat,
         \A i \in Matching(task[t].feature, task[t].model) : e[i] \in Int,
         \A i \in DOMAIN buildings :
           Q[i] = IF i \in Matching(task[t].feature, task[t].model) THEN P[i] + e[i] ELSE P[i]
  PROVE  Value(Q)' = Value(P) + SumFunctionOnSet(e, Matching(task[t].feature, task[t].model))
<1>1. PICK f, g, H, X : /\ f = AtCeilings(P) /\ g = AtCeilings(Q)'
                        /\ H = Matching(task[t].feature, task[t].model) /\ X = DOMAIN buildings
  OBVIOUS
<1>2. H \in SUBSET X /\ IsFiniteSet(X) /\ \A i \in H : buildings[i].standing
  BY <1>1, EachRow DEF Matching, Standing
<1>3. /\ \A i \in X : f[i] \in Int
      /\ \A i \in H : e[i] \in Int
      /\ \A i \in X : g[i] = IF i \in H THEN f[i] + e[i] ELSE f[i]
  BY <1>1, <1>2 DEF AtCeilings
<1>4. SumFunctionOnSet(g, X) = SumFunctionOnSet(f, X) + SumFunctionOnSet(e, H)
  BY <1>2, <1>3, SumRaised
<1> QED BY <1>1, <1>4 DEF Value

-----------------------------------------------------------------------------
(* The steps that change no row's value: what leaves the wallets is on its *)
(* way, and what arrives was.                                              *)
Quiet(t) ==
  /\ Moves(t) /\ UNCHANGED <<raised, lowered>> /\ again' \in Nat
  /\ DOMAIN buildings' = DOMAIN buildings
  /\ \A i \in DOMAIN buildings : /\ buildings'[i].standing = buildings[i].standing
                                 /\ buildings'[i].launched = buildings[i].launched
  /\ task'[t].pc = "delete" => /\ task'[t].id \in DOMAIN buildings
                               /\ task'[t].launched = buildings[task'[t].id].launched
  /\ InWallets' + Share(t)' - again' <= InWallets + Share(t) - again
  /\ raced' = {} /\ faults' = 0 =>
       /\ raced = {} /\ faults = 0
       /\ InWallets' + Share(t)' + forfeited' = InWallets + Share(t) + forfeited

(* A step that moves no satisfaction is such a step. *)
LEMMA StillStep ==
  ASSUME TypeOK, TypeOK', NEW t \in Tasks, Moves(t), UNCHANGED <<wallet, raised, lowered, again, forfeited>>,
         DOMAIN buildings' = DOMAIN buildings,
         \A i \in DOMAIN buildings : /\ buildings'[i].standing = buildings[i].standing
                                     /\ buildings'[i].launched = buildings[i].launched,
         task'[t].pc # "delete" \/ (task'[t].id \in DOMAIN buildings
                                   /\ task'[t].launched = buildings[task'[t].id].launched),
         Share(t)' <= Share(t),
         raced' = {} /\ faults' = 0 => raced = {} /\ faults = 0 /\ Share(t)' = Share(t)
  PROVE  Quiet(t)
<1>1. InWallets \in Nat /\ InWallets' = InWallets
  BY SumsType DEF InWallets
<1>2. Share(t) \in Nat /\ Share(t)' \in Nat
  BY SumsType, SumsNext
<1>3. again \in Nat /\ again' = again /\ forfeited \in Nat /\ forfeited' = forfeited
  BY DEF TypeOK
<1> QED BY <1>1, <1>2, <1>3 DEF Quiet

(* The charge of BuildFeature: what is taken is on its way, unless the     *)
(* request turns out invalid, or the call failed.                          *)
LEMMA DeductQuiet ==
  ASSUME TypeOK, TypeOK', Shape, NEW t \in Tasks, DeductBalance(t)
  PROVE  Quiet(t)
<1> DEFINE n == task[t].launched
           u == task[t].user
<1>1. /\ u \in Users /\ n \in Nat /\ wallet[u] \in Nat /\ InWallets \in Nat
      /\ forfeited \in Nat /\ faults \in Nat /\ again \in Nat
      /\ wallet \in [Users -> Nat]
  <2>1. task[t] \in Task
    BY DEF TypeOK
  <2>2. InWallets \in Nat
    BY SumsType
  <2>3. /\ wallet \in [Users -> Nat] /\ forfeited \in Nat /\ again \in Nat
        /\ faults \in 0..MaxFaults
    BY DEF TypeOK
  <2> QED BY <2>1, <2>2, <2>3 DEF Task
<1>2. Share(t) = 0 /\ ~ task[t].late
  BY DEF DeductBalance, At, Shape, Share, OnTheWay, Removed
<1>3. UNCHANGED <<buildings, raced, raised, lowered, again>>
  BY DEF DeductBalance, rows
<1>4. ASSUME NEW c \in {1, 2}, wallet' = [wallet EXCEPT ![u] = @ - c * n]
      PROVE  InWallets' = InWallets - c * n
  <2>1. PICK d : d = 0 - c * n
    OBVIOUS
  <2>2. d \in Int /\ wallet[u] - c * n = wallet[u] + d
    BY <1>1, <2>1
  <2>3. wallet' = [wallet EXCEPT ![u] = @ + d]
    BY <1>4, <2>2
  <2>4. InWallets' = InWallets + d
    BY <1>1, <2>2, <2>3, WalletSum
  <2> QED BY <1>1, <2>1, <2>4
<1>5. CASE Goto(t, "deactivate")
  <2>1. Goes(t, "deactivate")
    BY <1>5, GotoStep
  <2>2. Share(t)' = n
    BY <1>2, <2>1 DEF Goes, Keeps, Share, OnTheWay
  <2>3. /\ forfeited' = forfeited
        /\ \/ NoFault /\ wallet' = [wallet EXCEPT ![u] = @ - 1 * n]
           \/ Fault /\ wallet' = [wallet EXCEPT ![u] = @ - 2 * n]
    <3>1. ~ Return(t)
      BY <2>1, ReturnStep DEF Goes, Returns
    <3> QED BY <3>1 DEF DeductBalance
  <2>4. \/ faults' = faults /\ InWallets' = InWallets - 1 * n
        \/ faults' = faults + 1 /\ InWallets' = InWallets - 2 * n
    BY <1>4, <2>3 DEF NoFault, Fault
  <2> HIDE DEF n, u
  <2>5. /\ InWallets' + Share(t)' - again' <= InWallets + Share(t) - again
        /\ faults' = 0 =>
             faults = 0 /\ InWallets' + Share(t)' + forfeited' = InWallets + Share(t) + forfeited
    BY <1>1, <1>2, <1>3, <2>2, <2>3, <2>4
  <2> QED BY <1>1, <1>3, <2>1, <2>5 DEF Quiet, Goes
<1>6. CASE Return(t)
  <2>1. Returns(t)
    BY <1>6, ReturnStep
  <2>2. Share(t)' = 0
    BY <2>1 DEF Returns, Share, OnTheWay
  <2>3. ~ Goto(t, "deactivate")
    BY <2>1, GotoStep DEF Goes, Returns
  <2>4. \/ /\ wallet' = [wallet EXCEPT ![u] = @ - 1 * n]
           /\ faults' = faults /\ forfeited' = forfeited + n
        \/ /\ wallet' = [wallet EXCEPT ![u] = @ - 1 * n]
           /\ faults' = faults + 1 /\ forfeited' = forfeited
        \/ UNCHANGED <<wallet, forfeited, faults>>
    BY <2>3 DEF DeductBalance, NoFault, Fault
  <2>5. \/ InWallets' = InWallets - 1 * n /\ faults' = faults /\ forfeited' = forfeited + n
        \/ InWallets' = InWallets - 1 * n /\ faults' = faults + 1 /\ forfeited' = forfeited
        \/ InWallets' = InWallets /\ faults' = faults /\ forfeited' = forfeited
    <3>1. UNCHANGED wallet => InWallets' = InWallets
      BY DEF InWallets
    <3> QED BY <1>4, <2>4, <3>1
  <2> HIDE DEF n, u
  <2>6. /\ InWallets' + Share(t)' - again' <= InWallets + Share(t) - again
        /\ faults' = 0 =>
             faults = 0 /\ InWallets' + Share(t)' + forfeited' = InWallets + Share(t) + forfeited
    BY <1>1, <1>2, <1>3, <2>2, <2>5
  <2> QED BY <1>1, <1>3, <2>1, <2>6 DEF Quiet, Returns
<1> QED BY <1>5, <1>6 DEF DeductBalance

(* The refund: what arrives was on its way, or is counted as one too many. *)
LEMMA RefundQuiet ==
  ASSUME TypeOK, TypeOK', Shape, ReadIsCurrent, NEW t \in Tasks, AddBalance(t)
  PROVE  Quiet(t)
<1> DEFINE n == task[t].launched
           u == task[t].user
<1>1. /\ u \in Users /\ n \in Nat /\ wallet[u] \in Nat /\ InWallets \in Nat
      /\ forfeited \in Nat /\ faults \in Nat /\ again \in Nat
      /\ wallet \in [Users -> Nat] /\ task[t].late \in BOOLEAN /\ task[t].feature \in Features
  <2>1. task[t] \in Task
    BY DEF TypeOK
  <2>2. InWallets \in Nat
    BY SumsType
  <2>3. /\ wallet \in [Users -> Nat] /\ forfeited \in Nat /\ again \in Nat
        /\ faults \in 0..MaxFaults
    BY DEF TypeOK
  <2> QED BY <2>1, <2>2, <2>3 DEF Task
<1>2. Share(t) = IF task[t].late THEN 0 ELSE n
  BY DEF AddBalance, At, Share, OnTheWay
<1>3. Returns(t)
  BY ReturnStep DEF AddBalance
<1>4. Share(t)' = 0
  BY <1>3 DEF Returns, Share, OnTheWay
<1>5. UNCHANGED <<raced, raised, lowered, forfeited>>
  BY DEF AddBalance
<1>6. PICK c \in 0..2 :
        /\ IF c = 1 THEN NoFault ELSE Fault
        /\ wallet' = [wallet EXCEPT ![u] = @ + c * n]
        /\ again' = again + n * (IF task[t].late THEN c ELSE IF c = 2 THEN 1 ELSE 0)
  BY DEF AddBalance
<1>7. InWallets' = InWallets + c * n
  <2>1. PICK d : d = c * n
    OBVIOUS
  <2>2. d \in Int
    BY <1>1, <2>1
  <2> QED BY <1>1, <1>6, <2>1, <2>2, WalletSum
<1>8. raced' = {} => ~ task[t].late
  <2>1. At(t, "refund")
    BY DEF AddBalance
  <2> QED BY <1>1, <1>5, <2>1 DEF ReadIsCurrent, CurrentOf, At
<1>9. /\ DOMAIN buildings' = DOMAIN buildings
      /\ \A i \in DOMAIN buildings : /\ buildings'[i].standing = buildings[i].standing
                                     /\ buildings'[i].launched = buildings[i].launched
  <2>1. buildings' = [i \in DOMAIN buildings |->
          IF task[t].op = "destroy" /\ i = task[t].id
            THEN [buildings[i] EXCEPT !.refunds = @ + 1] ELSE buildings[i]]
    BY DEF AddBalance
  <2>2. ASSUME NEW i \in DOMAIN buildings
        PROVE  /\ buildings'[i].standing = buildings[i].standing
               /\ buildings'[i].launched = buildings[i].launched
    <3>1. PICK r : r = [buildings[i] EXCEPT !.refunds = @ + 1]
      OBVIOUS
    <3>2. r.standing = buildings[i].standing /\ r.launched = buildings[i].launched
      BY <3>1, EachRow DEF Row
    <3>3. buildings'[i] = r \/ buildings'[i] = buildings[i]
      BY <2>1, <3>1
    <3> QED BY <3>2, <3>3
  <2> QED BY <2>1, <2>2
<1> HIDE DEF n, u
<1>10. /\ again' \in Nat
       /\ InWallets' + Share(t)' - again' <= InWallets + Share(t) - again
       /\ faults' = 0 /\ ~ task[t].late =>
            faults = 0 /\ InWallets' + Share(t)' + forfeited' = InWallets + Share(t) + forfeited
  <2>1. CASE c = 0
    <3>1. InWallets' = InWallets /\ again' = again /\ faults' = faults + 1
      BY <1>1, <1>6, <1>7, <2>1 DEF Fault
    <3> QED BY <1>1, <1>2, <1>4, <3>1
  <2>2. CASE c = 1
    <3>1. /\ InWallets' = InWallets + n /\ faults' = faults
          /\ again' = IF task[t].late THEN again + n ELSE again
      BY <1>1, <1>6, <1>7, <2>2 DEF NoFault
    <3> QED BY <1>1, <1>2, <1>4, <1>5, <3>1
  <2>3. CASE c = 2
    <3>1. /\ InWallets' = InWallets + n + n /\ faults' = faults + 1
          /\ again' = IF task[t].late THEN again + n + n ELSE again + n
      BY <1>1, <1>6, <1>7, <2>3 DEF Fault
    <3> QED BY <1>1, <1>2, <1>4, <3>1
  <2> QED BY <2>1, <2>2, <2>3
<1> QED BY <1>3, <1>5, <1>8, <1>9, <1>10 DEF Quiet, Returns

(* All steps but three are such steps. *)
LEMMA QuietStep ==
  ASSUME TypeOK, TypeOK', Shape, ReadIsCurrent, NEW t \in Tasks, Request(t) \/ Serve(t)
  PROVE  \/ Quiet(t)
         \/ CreateBuilding(t) /\ Puts(t)
         \/ UpdateBuilding(t) /\ JsonValid(task[t].info)
         \/ DeleteBuilding(t)
<1>1. /\ task[t] \in Task /\ task'[t] \in Task /\ faults \in Nat /\ Share(t) \in Nat
      /\ again \in Nat
  <2>1. task[t] \in Task /\ task'[t] \in Task /\ faults \in 0..MaxFaults /\ again \in Nat
    BY DEF TypeOK
  <2> QED BY <2>1, SumsType
<1>2. CASE Request(t)
  <2>1. /\ Begins(t)
        /\ UNCHANGED <<rows, wallet, fetched, sold, raised, lowered, again, forfeited, faults>>
    BY <1>2, RequestStep
  <2>2. Share(t) = 0 /\ Share(t)' = 0 /\ task'[t].pc # "delete"
    BY <2>1 DEF Begins, At, Share, OnTheWay
  <2>3. raced \subseteq raced'
    BY <2>1 DEF Begins
  <2>4. /\ Moves(t) /\ UNCHANGED <<wallet, raised, lowered, again, forfeited>>
        /\ UNCHANGED <<buildings, faults>>
    BY <2>1 DEF Begins, rows
  <2> QED BY <2>2, <2>3, <2>4, StillStep
<1>3. CASE HasBuilding(t)
  <2>1. Goes(t, "deduct") \/ Returns(t)
    BY <1>3, ReturnStep, GotoStep DEF HasBuilding
  <2>2. Share(t) = 0 /\ Share(t)' = 0 /\ task'[t].pc # "delete" /\ Moves(t)
    BY <1>3, <2>1 DEF HasBuilding, At, Share, OnTheWay, Goes, Returns
  <2> QED BY <1>3, <2>2, StillStep DEF HasBuilding, rows, history
<1>4. CASE DeductBalance(t)
  BY <1>4, DeductQuiet
<1>5. CASE DeactivateProfits(t)
  <2>1. Goes(t, "create") \/ Goes(t, "refund")
    BY <1>5, GotoStep DEF DeactivateProfits
  <2>2. Share(t)' = Share(t) /\ task'[t].pc # "delete" /\ Moves(t)
    BY <1>5, <2>1 DEF DeactivateProfits, At, Share, OnTheWay, Goes, Keeps
  <2>3. faults' = 0 => faults = 0
    BY <1>1, <1>5 DEF DeactivateProfits, Fault, NoFault
  <2> QED BY <1>1, <1>5, <2>2, <2>3, StillStep DEF DeactivateProfits, history
<1>6. CASE CreateBuilding(t) /\ ~ Puts(t)
  <2>1. Drops(t) \/ Leaves(t)
    BY <1>6, RowsStep DEF Serve
  <2>2. DOMAIN buildings' = DOMAIN buildings
    BY <2>1 DEF Drops, Leaves
  <2>3. UNCHANGED buildings /\ Goto(t, "reactivate")
    <3>1. ASSUME NEW r, buildings' = Append(buildings, r) PROVE FALSE
      <4>1. Len(buildings') = Len(buildings) + 1 /\ Len(buildings) \in Nat
        BY <3>1 DEF TypeOK
      <4>2. DOMAIN buildings = 1..Len(buildings) /\ DOMAIN buildings' = 1..(Len(buildings) + 1)
        BY <4>1 DEF TypeOK
      <4> QED BY <2>2, <4>1, <4>2
    <3> QED BY <1>6, <3>1 DEF CreateBuilding
  <2>4. Goes(t, "reactivate")
    BY <2>3, GotoStep
  <2>5. Share(t)' = Share(t) /\ task'[t].pc # "delete" /\ Moves(t)
    BY <1>6, <2>4 DEF CreateBuilding, At, Share, OnTheWay, Goes, Keeps
  <2>6. faults' = 0 => faults = 0
    BY <1>1, <1>6 DEF CreateBuilding, Fault, NoFault
  <2> QED BY <1>1, <1>6, <2>3, <2>5, <2>6, StillStep DEF CreateBuilding, history
<1>7. CASE CheckLimits(t)
  <2>1. Goes(t, "find") \/ Returns(t)
    BY <1>7, ReturnStep, GotoStep DEF CheckLimits
  <2>2. Share(t) = 0 /\ Share(t)' = 0 /\ task'[t].pc # "delete" /\ Moves(t)
    BY <1>7, <2>1 DEF CheckLimits, At, Share, OnTheWay, Goes, Returns
  <2> QED BY <1>7, <2>2, StillStep DEF CheckLimits, rows, history
<1>8. CASE FindBuilding(t)
  <2>1. Finds(t) \/ Returns(t)
    BY <1>8, FindStep
  <2>2. Share(t) = 0 /\ Share(t)' = 0 /\ Moves(t)
    BY <1>8, <2>1 DEF FindBuilding, At, Share, OnTheWay, Finds, Returns
  <2>3. task'[t].pc = "delete" => /\ task'[t].id \in DOMAIN buildings
                                  /\ task'[t].launched = buildings[task'[t].id].launched
    BY <2>1 DEF Finds, Returns, Matching, Standing
  <2>4. UNCHANGED <<buildings, wallet, raced, raised, lowered, again, forfeited, faults>>
    BY <1>8 DEF FindBuilding, rows, history
  <2> QED BY <2>2, <2>3, <2>4, StillStep
<1>9. CASE UpdateBuilding(t) /\ ~ JsonValid(task[t].info)
  <2>1. Returns(t)
    BY <1>9, ReturnStep DEF UpdateBuilding
  <2>2. Share(t) = 0 /\ Share(t)' = 0 /\ task'[t].pc # "delete" /\ Moves(t)
    BY <1>9, <2>1 DEF UpdateBuilding, At, Share, OnTheWay, Returns
  <2> QED BY <1>9, <2>2, StillStep DEF UpdateBuilding
<1>10. CASE UpdateInformation(t)
  <2>1. Returns(t)
    BY <1>10, ReturnStep DEF UpdateInformation
  <2>2. Share(t) = 0 /\ Share(t)' = 0 /\ task'[t].pc # "delete" /\ Moves(t)
    BY <1>10, <2>1 DEF UpdateInformation, At, Share, OnTheWay, Returns
  <2>3. buildings' = [i \in DOMAIN buildings |->
          IF i \in Matching(task[t].feature, task[t].model)
            THEN [buildings[i] EXCEPT !.info = task[t].info] ELSE buildings[i]]
    BY <1>10 DEF UpdateInformation
  <2>4. ASSUME NEW i \in DOMAIN buildings
        PROVE  /\ buildings'[i].standing = buildings[i].standing
               /\ buildings'[i].launched = buildings[i].launched
    <3>1. PICK r : r = [buildings[i] EXCEPT !.info = task[t].info]
      OBVIOUS
    <3>2. r.standing = buildings[i].standing /\ r.launched = buildings[i].launched
      BY <3>1, EachRow DEF Row
    <3>3. buildings'[i] = r \/ buildings'[i] = buildings[i]
      BY <2>3, <3>1
    <3> QED BY <3>2, <3>3
  <2>5. DOMAIN buildings' = DOMAIN buildings
    BY <2>3
  <2> QED BY <1>10, <2>2, <2>4, <2>5, StillStep DEF UpdateInformation, history
<1>11. CASE ActivateProfits(t)
  <2>1. Goes(t, "refund")
    BY <1>11, GotoStep DEF ActivateProfits
  <2>2. Share(t)' = Share(t) /\ task'[t].pc # "delete" /\ Moves(t)
    BY <1>11, <2>1 DEF ActivateProfits, At, Share, OnTheWay, Goes, Keeps
  <2>3. faults' = 0 => faults = 0
    BY <1>1, <1>11 DEF ActivateProfits, Fault, NoFault
  <2> QED BY <1>1, <1>11, <2>2, <2>3, StillStep DEF ActivateProfits, history
<1>12. CASE AddBalance(t)
  BY <1>12, RefundQuiet
<1>13. CASE Fails(t)
  <2>1. Returns(t)
    BY <1>13, ReturnStep DEF Fails
  <2>2. Share(t)' = 0 /\ task'[t].pc # "delete" /\ Moves(t)
    BY <2>1 DEF Share, OnTheWay, Returns
  <2>3. faults' # 0
    BY <1>1, <1>13 DEF Fails, Fault
  <2> QED BY <1>1, <1>13, <2>2, <2>3, StillStep DEF Fails, rows, history
<1> QED BY <1>2, <1>3, <1>4, <1>5, <1>6, <1>7, <1>8, <1>9, <1>10, <1>11, <1>12, <1>13 DEF Serve

(* Such a step keeps the ceilings, and what a state shows to be lost. *)
LEMMA QuietKeeps ==
  ASSUME TypeOK, TypeOK', NEW t \in Tasks, Quiet(t), CreatedIsKnown, NothingLost
  PROVE  CreatedIsKnown' /\ NothingLost'
<1>1. /\ InFlight' = InFlight - Share(t) + Share(t)'
      /\ InFlight \in Nat /\ InWallets \in Nat /\ Share(t) \in Nat
      /\ InWallets' \in Nat /\ Share(t)' \in Nat /\ InFlight' \in Nat
      /\ Held = InWallets + Value(Launched)
      /\ Held' = InWallets' + Value(Launched)'
  BY SumsType, SumsNext, TaskSum DEF Quiet
<1>2. ASSUME NEW P, \A i \in DOMAIN buildings : P[i] \in Nat
      PROVE  Value(P)' = Value(P) /\ Value(P) \in Nat
  <2>1. Value(P)' = Value(P)
    BY SameValue DEF Quiet
  <2> QED BY <1>2, <2>1, SumsType
<1>3. /\ raised \in Nat /\ again \in Nat /\ again' \in Nat /\ lowered \in Nat /\ Total \in Nat
      /\ raised' = raised /\ lowered' = lowered /\ forfeited \in Nat /\ forfeited' \in Nat
  <2>1. Total \in Nat
    BY BuildingAssumption, FS_CardinalityType DEF Total
  <2> QED BY <2>1 DEF TypeOK, Quiet
<1>4. CreatedIsKnown'
  <2>1. PICK P \in [DOMAIN buildings -> Nat] :
             /\ Ceilings(P)
             /\ InWallets + Value(P) + InFlight <= Total + raised + again
    BY DEF CreatedIsKnown, InWallets, Value
  <2>2. Value(P)' = Value(P) /\ Value(P) \in Nat
    BY <1>2
  <2>3. InWallets' + Value(P)' + InFlight' <= Total + raised' + again'
    BY <1>1, <1>3, <2>1, <2>2 DEF Quiet
  <2>4. Ceilings(P)'
    <3>1. \A d \in Tasks : task'[d].pc = "delete" => task'[d].launched <= P[task'[d].id]
      BY <2>1 DEF Ceilings, Quiet, Moves, At
    <3> QED BY <2>1, <3>1 DEF Ceilings, Quiet, At
  <2> QED BY <2>3, <2>4 DEF CreatedIsKnown, InWallets, Value, Ceilings, Total
<1>5. NothingLost'
  <2> SUFFICES ASSUME raced' = {}, faults' = 0
               PROVE  Held' + InFlight' + forfeited' + lowered' = Total + raised'
    BY DEF NothingLost, Total
  <2>1. Held + InFlight + forfeited + lowered = Total + raised
    BY DEF NothingLost, Quiet
  <2>2. PICK P : P = Launched
    OBVIOUS
  <2>3. Launched' = P
    BY <2>2 DEF Launched, Quiet
  <2>4. \A i \in DOMAIN buildings : P[i] \in Nat
    BY <2>2, EachRow DEF Launched
  <2>5. Value(Launched)' = Value(Launched) /\ Value(Launched) \in Nat
    <3>1. Value(P)' = Value(P) /\ Value(P) \in Nat
      BY <1>2, <2>4
    <3>2. Value(Launched)' = Value(P)'
      BY <2>3 DEF Value, AtCeilings
    <3> QED BY <2>2, <3>1, <3>2
  <2>6. InWallets' + Share(t)' + forfeited' = InWallets + Share(t) + forfeited
    BY DEF Quiet
  <2> QED BY <1>1, <1>3, <2>1, <2>5, <2>6
<1> QED BY <1>4, <1>5

(* A new building holds what was on its way. *)
LEMMA PutKeeps ==
  ASSUME TypeOK, TypeOK', Shape, NEW t \in Tasks, CreateBuilding(t), Puts(t),
         CreatedIsKnown, NothingLost
  PROVE  CreatedIsKnown' /\ NothingLost'
<1>1. PICK r \in Row :
         /\ r.launched = task[t].launched /\ r.standing
         /\ DOMAIN buildings' = DOMAIN buildings \union {Len(buildings) + 1}
         /\ buildings'[Len(buildings) + 1] = r
         /\ \A i \in DOMAIN buildings : buildings'[i] = buildings[i]
         /\ Len(buildings) + 1 \notin DOMAIN buildings
  BY DEF Puts
<1>2. PICK n : n = Len(buildings) + 1
  OBVIOUS
<1>3. task[t].launched \in Nat /\ faults \in Nat /\ raised \in Nat /\ again \in Nat
      /\ lowered \in Nat /\ forfeited \in Nat /\ Total \in Nat
  <2>1. task[t] \in Task /\ faults \in 0..MaxFaults /\ raised \in Nat /\ again \in Nat
        /\ lowered \in Nat /\ forfeited \in Nat
    BY DEF TypeOK
  <2>2. Total \in Nat
    BY BuildingAssumption, FS_CardinalityType DEF Total
  <2> QED BY <2>1, <2>2 DEF Task
<1>4. Share(t) = task[t].launched /\ Share(t)' = 0 /\ Moves(t)
  BY DEF Puts, Returns, Share, OnTheWay, Shape, Removed, At
<1>5. /\ InFlight' = InFlight - task[t].launched
      /\ InFlight \in Nat /\ InWallets \in Nat /\ InWallets' = InWallets
      /\ Held = InWallets + Value(Launched)
      /\ Held' = InWallets' + Value(Launched)'
  <2>1. InWallets' = InWallets
    BY DEF CreateBuilding, InWallets
  <2>2. InFlight' = InFlight - Share(t) + Share(t)' /\ InFlight \in Nat
    BY <1>4, TaskSum, SumsType
  <2> QED BY <1>3, <1>4, <2>1, <2>2, SumsType, SumsNext
<1>6. UNCHANGED <<raced, raised, lowered, again, forfeited>> /\ (faults' = 0 => faults = 0)
  BY <1>3 DEF CreateBuilding, Fault, NoFault, history
<1>7. ASSUME NEW P, NEW Q, \A i \in DOMAIN buildings : P[i] \in Nat /\ Q[i] = P[i],
             Q[n] = task[t].launched
      PROVE  Value(Q)' = Value(P) + task[t].launched /\ Value(P) \in Nat
  <2>1. Q[Len(buildings) + 1] \in Nat
    BY <1>2, <1>3, <1>7
  <2>2. Value(Q)' = Value(P) + Q[Len(buildings) + 1]
    BY <1>7, <2>1, PutValue
  <2>3. Value(P) \in Nat
    BY <1>7, SumsType
  <2> QED BY <1>2, <1>7, <2>2, <2>3
<1>8. CreatedIsKnown'
  <2>1. PICK P \in [DOMAIN buildings -> Nat] :
             /\ Ceilings(P)
             /\ InWallets + Value(P) + InFlight <= Total + raised + again
    BY DEF CreatedIsKnown, InWallets, Value
  <2>2. PICK Q : Q = [i \in DOMAIN buildings' |->
                        IF i \in DOMAIN buildings THEN P[i] ELSE task[t].launched]
    OBVIOUS
  <2>3. /\ Q \in [DOMAIN buildings' -> Nat]
        /\ \A i \in DOMAIN buildings : P[i] \in Nat /\ Q[i] = P[i]
        /\ Q[n] = task[t].launched
    BY <1>1, <1>2, <1>3, <2>2
  <2>4. Value(Q)' = Value(P) + task[t].launched /\ Value(P) \in Nat
    BY <1>7, <2>3
  <2>5. InWallets' + Value(Q)' + InFlight' <= Total + raised' + again'
    BY <1>3, <1>5, <1>6, <2>1, <2>4
  <2>6. Ceilings(Q)'
    <3>1. \A i \in DOMAIN buildings' : buildings'[i].launched <= Q[i]
      <4>1. buildings'[n].launched <= Q[n]
        BY <1>1, <1>2, <1>3, <2>3
      <4>2. \A i \in DOMAIN buildings : buildings'[i].launched <= Q[i]
        BY <1>1, <2>1, <2>3 DEF Ceilings
      <4> QED BY <1>1, <1>2, <4>1, <4>2
    <3>2. ASSUME NEW d \in Tasks, task'[d].pc = "delete"
          PROVE  task'[d].launched <= Q[task'[d].id]
      <4>1. d # t /\ task'[d] = task[d]
        BY <3>2 DEF Puts, Returns, Moves
      <4>2. task[d].id \in DOMAIN buildings
        BY <3>2, <4>1 DEF Shape, Removing
      <4> QED BY <2>1, <2>3, <3>2, <4>1, <4>2 DEF Ceilings, At
    <3> QED BY <2>3, <3>1, <3>2 DEF Ceilings, At
  <2> QED BY <2>3, <2>5, <2>6 DEF CreatedIsKnown, InWallets, Value, Total
<1>9. NothingLost'
  <2> SUFFICES ASSUME raced' = {}, faults' = 0
               PROVE  Held' + InFlight' + forfeited' + lowered' = Total + raised'
    BY DEF NothingLost, Total
  <2>1. Held + InFlight + forfeited + lowered = Total + raised
    BY <1>6 DEF NothingLost
  <2>2. PICK P, Q : P = Launched /\ Q = Launched'
    OBVIOUS
  <2>3. \A i \in DOMAIN buildings : P[i] \in Nat /\ Q[i] = P[i]
    BY <1>1, <2>2, EachRow DEF Launched
  <2>4. Q[n] = task[t].launched
    BY <1>1, <1>2, <2>2 DEF Launched
  <2>5. Value(Q)' = Value(P) + task[t].launched /\ Value(P) \in Nat
    BY <1>7, <2>3, <2>4
  <2>6. Value(Launched)' = Value(Q)' /\ Value(P) = Value(Launched)
    BY <2>2 DEF Value, AtCeilings
  <2> QED BY <1>3, <1>5, <1>6, <2>1, <2>5, <2>6
<1> QED BY <1>8, <1>9

(* A DELETE puts on its way no more than the ceiling of the row it hit; of *)
(* a request that is alone, what the row held.                             *)
LEMMA DropKeeps ==
  ASSUME TypeOK, TypeOK', Shape, Alone, ReadIsCurrent, NEW t \in Tasks, DeleteBuilding(t),
         CreatedIsKnown, NothingLost
  PROVE  CreatedIsKnown' /\ NothingLost'
<1>1. PICK H, i, l : /\ H = Matching(task[t].feature, task[t].model)
                     /\ i = task[t].id /\ l = task[t].launched
  OBVIOUS
<1>2. Drops(t) /\ Deletes(t) /\ Moves(t)
  BY DropStep, DeleteStep DEF Deletes
<1>3. /\ l \in Nat /\ raised \in Nat /\ again \in Nat /\ lowered \in Nat
      /\ forfeited \in Nat /\ Total \in Nat /\ i \in DOMAIN buildings
  <2>1. task[t] \in Task /\ raised \in Nat /\ again \in Nat /\ lowered \in Nat /\ forfeited \in Nat
    BY DEF TypeOK
  <2>2. Total \in Nat
    BY BuildingAssumption, FS_CardinalityType DEF Total
  <2>3. i \in DOMAIN buildings
    BY <1>1, <1>2 DEF Deletes, Shape, Removing, At
  <2> QED BY <1>1, <2>1, <2>2, <2>3 DEF Task
<1>4. Share(t) = 0 /\ Share(t)' = IF i \in H THEN l ELSE 0
  <2>1. task[t].pc = "delete" /\ task'[t].pc = "activate" /\ task'[t].late = (i \notin H)
        /\ task'[t].launched = l
    BY <1>1, <1>2 DEF Deletes, At, Keeps
  <2> QED BY <2>1 DEF Share, OnTheWay
<1>5. /\ InFlight' = InFlight + (IF i \in H THEN l ELSE 0)
      /\ InFlight \in Nat /\ InWallets \in Nat /\ InWallets' = InWallets
      /\ Held = InWallets + Value(Launched)
      /\ Held' = InWallets' + Value(Launched)'
  <2>1. InWallets' = InWallets
    BY DEF DeleteBuilding, InWallets
  <2>2. InFlight' = InFlight - Share(t) + Share(t)' /\ InFlight \in Nat
    BY <1>2, TaskSum, SumsType
  <2> QED BY <1>3, <1>4, <2>1, <2>2, SumsType, SumsNext
<1>6. UNCHANGED <<raced, raised, lowered, again, forfeited, faults>>
  BY DEF DeleteBuilding, history
<1>7. ASSUME NEW P, \A j \in DOMAIN buildings : P[j] \in Nat
      PROVE  /\ Value(P) \in Nat /\ Value(P)' \in Nat
             /\ Value(P)' <= Value(P)
             /\ i \in H => Value(P)' <= Value(P) - P[i]
             /\ i \in H /\ H = {i} => Value(P)' = Value(P) - P[i]
  <2>1. Value(P) \in Nat
    BY <1>7, SumsType
  <2>2. Value(P)' \in Nat
    <3>1. \A j \in DOMAIN buildings' : P[j] \in Nat
      BY <1>2, <1>7 DEF Drops
    <3> QED BY <3>1, ValueNext
  <2>3. /\ Value(P)' <= Value(P)
        /\ \A j \in H : /\ Value(P)' <= Value(P) - P[j]
                        /\ H = {j} => Value(P)' = Value(P) - P[j]
    BY <1>1, <1>2, <1>7, DropValue
  <2> QED BY <2>1, <2>2, <2>3
<1>8. CreatedIsKnown'
  <2>1. PICK P \in [DOMAIN buildings -> Nat] :
             /\ Ceilings(P)
             /\ InWallets + Value(P) + InFlight <= Total + raised + again
    BY DEF CreatedIsKnown, InWallets, Value
  <2>2. /\ Value(P) \in Nat /\ Value(P)' \in Nat
        /\ Value(P)' <= Value(P)
        /\ i \in H => Value(P)' <= Value(P) - P[i]
    BY <1>7
  <2>3. l <= P[i] /\ P[i] \in Nat
    BY <1>1, <1>2, <1>3, <2>1 DEF Ceilings, Deletes
  <2>4. InWallets' + Value(P)' + InFlight' <= Total + raised' + again'
    BY <1>3, <1>5, <1>6, <2>1, <2>2, <2>3
  <2>5. Ceilings(P)'
    <3>1. \A d \in Tasks : task'[d].pc = "delete" => task'[d].launched <= P[task'[d].id]
      BY <1>2, <2>1 DEF Ceilings, Deletes, Moves, At
    <3> QED BY <1>2, <2>1, <3>1 DEF Ceilings, Drops, At
  <2>6. P \in [DOMAIN buildings' -> Nat]
    BY <1>2 DEF Drops
  <2> QED BY <2>4, <2>5, <2>6 DEF CreatedIsKnown, InWallets, Value, Total
<1>9. NothingLost'
  <2> SUFFICES ASSUME raced' = {}, faults' = 0
               PROVE  Held' + InFlight' + forfeited' + lowered' = Total + raised'
    BY DEF NothingLost, Total
  <2>1. Held + InFlight + forfeited + lowered = Total + raised /\ raced = {}
    BY <1>6 DEF NothingLost
  <2>2. PICK P : P = Launched
    OBVIOUS
  <2>3. \A j \in DOMAIN buildings : P[j] \in Nat
    BY <2>2, EachRow DEF Launched
  <2>4. i \in H /\ H = {i} /\ P[i] = l
    <3>1. task[t].feature \in Features \ raced /\ task[t].pc = "delete"
      BY <1>2, <2>1 DEF TypeOK, Task, Deletes, At
    <3>2. i \in Standing(task[t].feature) /\ l = buildings[i].launched
      BY <1>1, <3>1 DEF ReadIsCurrent, CurrentOf
    <3>3. i \in H
      BY <1>1, <1>2, <3>1, <3>2 DEF Matching, Shape, Removing, Deletes
    <3>4. H \subseteq {i}
      BY <1>1, <3>1, <3>2 DEF Matching, Standing, Alone
    <3> QED BY <1>3, <2>2, <3>2, <3>3, <3>4 DEF Launched
  <2>5. Value(P) \in Nat /\ Value(P)' = Value(P) - l
    BY <1>7, <2>3, <2>4
  <2>6. Value(Launched)' = Value(P)' /\ Value(P) = Value(Launched)
    <3>1. Launched' = P
      BY <1>2, <2>2 DEF Launched, Drops
    <3> QED BY <2>2, <3>1 DEF Value, AtCeilings
  <2> QED BY <1>3, <1>5, <1>6, <2>1, <2>4, <2>5, <2>6
<1> QED BY <1>8, <1>9

(* An UPDATE raises the ceilings by what it adds. *)
LEMMA RaiseKeeps ==
  ASSUME TypeOK, TypeOK', Shape, NEW t \in Tasks, UpdateBuilding(t), JsonValid(task[t].info),
         CreatedIsKnown, NothingLost
  PROVE  CreatedIsKnown' /\ NothingLost'
<1>1. PICK H, l : H = Matching(task[t].feature, task[t].model) /\ l = task[t].launched
  OBVIOUS
<1>2. PICK R, L : /\ R = [i \in H |-> Beyond(l, buildings[i].launched)]
                  /\ L = [i \in H |-> Beyond(buildings[i].launched, l)]
  OBVIOUS
<1>3. /\ l \in Nat /\ raised \in Nat /\ again \in Nat /\ lowered \in Nat
      /\ forfeited \in Nat /\ Total \in Nat
  <2>1. task[t] \in Task /\ raised \in Nat /\ again \in Nat /\ lowered \in Nat /\ forfeited \in Nat
    BY DEF TypeOK
  <2>2. Total \in Nat
    BY BuildingAssumption, FS_CardinalityType DEF Total
  <2> QED BY <1>1, <2>1, <2>2 DEF Task
<1>4. H \subseteq DOMAIN buildings /\ IsFiniteSet(H)
  <2>1. H \subseteq DOMAIN buildings
    BY <1>1 DEF Matching, Standing
  <2> QED BY <2>1, EachRow, FS_Subset
<1>5. \A i \in H : /\ R[i] \in Nat /\ L[i] \in Nat /\ buildings[i].launched \in Nat
                   /\ l <= buildings[i].launched + R[i]
                   /\ l = buildings[i].launched + (R[i] - L[i])
  BY <1>2, <1>3, <1>4, EachRow DEF Beyond
<1>6. /\ raised' = raised + SumFunctionOnSet(R, H) /\ SumFunctionOnSet(R, H) \in Nat
      /\ lowered' = lowered + SumFunctionOnSet(L, H) /\ SumFunctionOnSet(L, H) \in Nat
      /\ buildings' = [i \in DOMAIN buildings |->
           IF i \in H THEN [buildings[i] EXCEPT !.launched = l, !.info = task[t].info]
                      ELSE buildings[i]]
  <2>1. SumFunctionOnSet(R, H) \in Nat
    BY <1>4, <1>5, SumNat
  <2>2. SumFunctionOnSet(L, H) \in Nat
    BY <1>4, <1>5, SumNat
  <2> QED BY <1>1, <1>2, <2>1, <2>2 DEF UpdateBuilding
<1>7. /\ DOMAIN buildings' = DOMAIN buildings
      /\ \A i \in DOMAIN buildings :
           /\ buildings'[i].standing = buildings[i].standing
           /\ buildings'[i].launched = IF i \in H THEN l ELSE buildings[i].launched
  <2>1. ASSUME NEW i \in DOMAIN buildings
        PROVE  /\ buildings'[i].standing = buildings[i].standing
               /\ buildings'[i].launched = IF i \in H THEN l ELSE buildings[i].launched
    <3>1. PICK r : r = [buildings[i] EXCEPT !.launched = l, !.info = task[t].info]
      OBVIOUS
    <3>2. r.standing = buildings[i].standing /\ r.launched = l
      BY <3>1, EachRow DEF Row
    <3>3. buildings'[i] = IF i \in H THEN r ELSE buildings[i]
      BY <1>6, <3>1
    <3> QED BY <3>2, <3>3
  <2> QED BY <1>6, <2>1
<1>8. Returns(t) /\ Moves(t)
  BY ReturnStep DEF UpdateBuilding, Returns
<1>9. Share(t) = 0 /\ Share(t)' = 0
  BY <1>8 DEF UpdateBuilding, At, Share, OnTheWay, Returns
<1>10. /\ InFlight' = InFlight
       /\ InFlight \in Nat /\ InWallets \in Nat /\ InWallets' = InWallets
       /\ Held = InWallets + Value(Launched)
       /\ Held' = InWallets' + Value(Launched)'
  <2>1. InWallets' = InWallets
    BY DEF UpdateBuilding, InWallets
  <2>2. InFlight' = InFlight - Share(t) + Share(t)' /\ InFlight \in Nat
    BY <1>8, TaskSum, SumsType
  <2> QED BY <1>9, <2>1, <2>2, SumsType, SumsNext
<1>11. UNCHANGED <<raced, again, forfeited, faults>>
  BY DEF UpdateBuilding
<1>12. ASSUME NEW P, NEW Q, NEW e, \A i \in DOMAIN buildings : P[i] \in Nat,
              \A i \in H : e[i] \in Int,
              \A i \in DOMAIN buildings : Q[i] = IF i \in H THEN P[i] + e[i] ELSE P[i]
       PROVE  Value(Q)' = Value(P) + SumFunctionOnSet(e, H) /\ Value(P) \in Nat
  <2>1. Value(P) \in Nat
    BY <1>12, SumsType
  <2>2. Value(Q)' = Value(P) + SumFunctionOnSet(e, H)
    BY <1>1, <1>7, <1>12, RaiseValue
  <2> QED BY <2>1, <2>2
<1>13. CreatedIsKnown'
  <2>1. PICK P \in [DOMAIN buildings -> Nat] :
             /\ Ceilings(P)
             /\ InWallets + Value(P) + InFlight <= Total + raised + again
    BY DEF CreatedIsKnown, InWallets, Value
  <2>2. PICK Q : Q = [i \in DOMAIN buildings |-> IF i \in H THEN P[i] + R[i] ELSE P[i]]
    OBVIOUS
  <2>3. /\ Q \in [DOMAIN buildings' -> Nat]
        /\ \A i \in DOMAIN buildings : /\ Q[i] = IF i \in H THEN P[i] + R[i] ELSE P[i]
                                       /\ P[i] <= Q[i] /\ P[i] \in Nat /\ Q[i] \in Nat
    BY <1>5, <1>7, <2>2
  <2>4. Value(Q)' = Value(P) + SumFunctionOnSet(R, H) /\ Value(P) \in Nat
    <3>1. \A i \in DOMAIN buildings : P[i] \in Nat
      BY <2>3
    <3>2. \A i \in H : R[i] \in Int
      BY <1>5
    <3>3. \A i \in DOMAIN buildings : Q[i] = IF i \in H THEN P[i] + R[i] ELSE P[i]
      BY <2>3
    <3> QED BY <1>12, <3>1, <3>2, <3>3
  <2>5. InWallets' + Value(Q)' + InFlight' <= Total + raised' + again'
    <3>1. PICK x : x = SumFunctionOnSet(R, H)
      OBVIOUS
    <3>2. x \in Nat /\ raised' = raised + x /\ Value(Q)' = Value(P) + x /\ Value(P) \in Nat
      BY <1>6, <2>4, <3>1
    <3> QED BY <1>3, <1>10, <1>11, <2>1, <3>2
  <2>6. Ceilings(Q)'
    <3>1. ASSUME NEW i \in DOMAIN buildings'
          PROVE  buildings'[i].launched <= Q[i]
      <4>1. buildings[i].launched <= P[i] /\ buildings[i].launched \in Nat
        BY <1>7, <2>1, EachRow DEF Ceilings
      <4> QED BY <1>3, <1>5, <1>7, <2>3, <4>1
    <3>2. ASSUME NEW d \in Tasks, task'[d].pc = "delete"
          PROVE  task'[d].launched <= Q[task'[d].id]
      <4>1. d # t /\ task'[d] = task[d] /\ task[d] \in Task
        BY <1>8, <3>2 DEF Returns, Moves, TypeOK
      <4>2. task[d].id \in DOMAIN buildings /\ task[d].launched \in Nat
        BY <3>2, <4>1 DEF Shape, Removing, Task
      <4>3. task[d].launched <= P[task[d].id]
        BY <2>1, <3>2, <4>1 DEF Ceilings, At
      <4> QED BY <2>3, <4>1, <4>2, <4>3
    <3> QED BY <2>3, <3>1, <3>2 DEF Ceilings, At
  <2> QED BY <2>3, <2>5, <2>6 DEF CreatedIsKnown, InWallets, Value, Total
<1>14. NothingLost'
  <2> SUFFICES ASSUME raced' = {}, faults' = 0
               PROVE  Held' + InFlight' + forfeited' + lowered' = Total + raised'
    BY DEF NothingLost, Total
  <2>1. Held + InFlight + forfeited + lowered = Total + raised
    BY <1>11 DEF NothingLost
  <2>2. PICK P, Q, e : P = Launched /\ Q = Launched' /\ e = [i \in H |-> R[i] - L[i]]
    OBVIOUS
  <2>3. /\ \A i \in DOMAIN buildings : P[i] \in Nat
        /\ \A i \in H : e[i] \in Int /\ R[i] = e[i] + L[i] /\ L[i] \in Int
        /\ \A i \in DOMAIN buildings : Q[i] = IF i \in H THEN P[i] + e[i] ELSE P[i]
    BY <1>4, <1>5, <1>7, <2>2, EachRow DEF Launched
  <2>4. Value(Q)' = Value(P) + SumFunctionOnSet(e, H) /\ Value(P) \in Nat
    BY <1>12, <2>3
  <2>5. SumFunctionOnSet(R, H) = SumFunctionOnSet(e, H) + SumFunctionOnSet(L, H)
    BY <1>4, <2>3, SumPlus
  <2>6. SumFunctionOnSet(e, H) \in Int
    BY <1>4, <2>3, SumRemove
  <2>7. Value(Launched)' = Value(Q)' /\ Value(P) = Value(Launched)
    BY <2>2 DEF Value, AtCeilings
  <2>8. PICK x, y, z : /\ x = SumFunctionOnSet(R, H) /\ y = SumFunctionOnSet(L, H)
                       /\ z = SumFunctionOnSet(e, H)
    OBVIOUS
  <2>9. /\ x \in Nat /\ y \in Nat /\ z \in Int /\ x = z + y
        /\ raised' = raised + x /\ lowered' = lowered + y
        /\ Value(Launched)' = Value(Launched) + z /\ Value(Launched) \in Nat
    BY <1>6, <2>4, <2>5, <2>6, <2>7, <2>8
  <2> QED BY <1>3, <1>10, <1>11, <2>1, <2>9
<1> QED BY <1>13, <1>14

-----------------------------------------------------------------------------
(* Every step of a request keeps the invariant. *)
LEMMA TaskKeepsInv ==
  ASSUME IInv, NEW t \in Tasks, Request(t) \/ Serve(t)
  PROVE  IInv'
<1>1. /\ TypeOK /\ Shape /\ Alone /\ ReadIsCurrent /\ StandingIsUnrefunded /\ RefundsAreBounded
      /\ BuildersAreBounded /\ ProfitsAreStopped /\ ProfitsAreResumed
      /\ RequirementIsKnown /\ InformationIsKnown /\ CreatedIsKnown /\ NothingLost
  BY DEF IInv
<1>2. TypeOK' /\ (Begins(t) \/ Forward(t)) /\ RowsStay
  <2>1. CASE Request(t)
    BY <1>1, <2>1, RequestStep DEF RowsStay, rows
  <2>2. CASE Serve(t)
    BY <1>1, <2>2, ServeStep
  <2> QED BY <2>1, <2>2
<1>3. Shape'
  BY <1>1, <1>2, ShapeStep
<1>4. Alone' /\ ReadIsCurrent'
  BY <1>1, AloneStep, ReadIsCurrentStep
<1>5. StandingIsUnrefunded' /\ RefundsAreBounded'
  BY <1>1, UnrefundedStep, RefundStep
<1>6. BuildersAreBounded'
  BY <1>1, BuilderStep
<1>7. ProfitsAreStopped' /\ ProfitsAreResumed'
  BY <1>1, StoppedStep, ResumedStep
<1>8. RequirementIsKnown' /\ InformationIsKnown'
  BY <1>1, RequirementStep, InformationStep
<1>9. CreatedIsKnown' /\ NothingLost'
  <2>1. \/ Quiet(t)
        \/ CreateBuilding(t) /\ Puts(t)
        \/ UpdateBuilding(t) /\ JsonValid(task[t].info)
        \/ DeleteBuilding(t)
    BY <1>1, <1>2, QuietStep
  <2>2. CASE Quiet(t)
    BY <1>1, <1>2, <2>2, QuietKeeps
  <2>3. CASE CreateBuilding(t) /\ Puts(t)
    BY <1>1, <1>2, <2>3, PutKeeps
  <2>4. CASE UpdateBuilding(t) /\ JsonValid(task[t].info)
    BY <1>1, <1>2, <2>4, RaiseKeeps
  <2>5. CASE DeleteBuilding(t)
    BY <1>1, <1>2, <2>5, DropKeeps
  <2> QED BY <2>1, <2>2, <2>3, <2>4, <2>5
<1> QED BY <1>2, <1>3, <1>4, <1>5, <1>6, <1>7, <1>8, <1>9 DEF IInv

(* What does not touch requests, rows and satisfaction keeps their parts. *)
LEMMA Aside ==
  ASSUME IInv, raced \subseteq raced',
         UNCHANGED <<buildings, wallet, task, raised, lowered, again, forfeited, faults>>
  PROVE  /\ Shape' /\ Alone' /\ ReadIsCurrent' /\ StandingIsUnrefunded' /\ RefundsAreBounded'
         /\ BuildersAreBounded' /\ InformationIsKnown' /\ CreatedIsKnown' /\ NothingLost'
<1>1. Shape' /\ StandingIsUnrefunded'
  BY DEF IInv, Shape, Removing, Removed, StandingIsUnrefunded
<1>2. Alone' /\ ReadIsCurrent'
  <2>1. Alone'
    BY DEF IInv, Alone, Busy, Standing
  <2>2. ReadIsCurrent'
    BY DEF IInv, ReadIsCurrent, CurrentOf, Standing, Removed
  <2> QED BY <2>1, <2>2
<1>3. RefundsAreBounded' /\ BuildersAreBounded'
  <2>1. RefundsAreBounded'
    BY DEF IInv, RefundsAreBounded, Refunders, Removing
  <2>2. BuildersAreBounded'
    BY DEF IInv, BuildersAreBounded, Builders, Erecting, Standing
  <2> QED BY <2>1, <2>2
<1>4. InformationIsKnown'
  BY DEF IInv, InformationIsKnown
<1>5. InFlight' = InFlight /\ Held' = Held
  BY DEF InFlight, InTasks, OnTheWay, Held, InBuildings
<1>6. CreatedIsKnown'
  BY <1>5 DEF IInv, CreatedIsKnown, Ceilings, AtCeilings, At
<1>7. NothingLost'
  BY <1>5 DEF IInv, NothingLost
<1> QED BY <1>1, <1>2, <1>3, <1>4, <1>6, <1>7

(* A sale makes the profits of the feature active. *)
LEMMA SellKeepsInv ==
  ASSUME IInv, NEW f \in Features, NEW u \in Users, Sell(f, u)
  PROVE  IInv'
<1>1. /\ raced \subseteq raced' /\ raced' \subseteq raced \union {f}
      /\ UNCHANGED <<buildings, wallet, task, raised, lowered, again, forfeited, faults>>
      /\ UNCHANGED <<required, fetched>>
  BY DEF Sell
<1>2. /\ owner' \in [Features -> Users] /\ active' \in [Features -> BOOLEAN]
      /\ sold' = sold \union {f} /\ calls' \in 0..MaxCalls
      /\ \A g \in Features : active'[g] = IF g = f THEN TRUE ELSE active[g]
  <2>1. calls' \in 0..MaxCalls
    BY CallsType DEF Sell, IInv
  <2>2. owner' \in [Features -> Users] /\ sold' = sold \union {f}
    BY DEF Sell, IInv, TypeOK
  <2>3. /\ active' \in [Features -> BOOLEAN]
        /\ \A g \in Features : active'[g] = IF g = f THEN TRUE ELSE active[g]
    BY DEF Sell, IInv, TypeOK
  <2> QED BY <2>1, <2>2, <2>3
<1>3. TypeOK'
  BY <1>1, <1>2 DEF IInv, TypeOK
<1>4. ProfitsAreStopped'
  BY <1>1, <1>2 DEF IInv, ProfitsAreStopped, Standing, At
<1>5. ProfitsAreResumed'
  BY <1>1, <1>2 DEF IInv, ProfitsAreResumed, Standing, Busy
<1>6. RequirementIsKnown'
  BY <1>1 DEF IInv, RequirementIsKnown, Standing
<1> QED BY <1>1, <1>3, <1>4, <1>5, <1>6, Aside DEF IInv

(* A fetched package writes the requirement of the feature asked for. *)
LEMMA UpsertKeepsInv ==
  ASSUME IInv, NEW f \in Features, NEW m \in Models, UpsertBuildingModel(f, m)
  PROVE  IInv'
<1>1. /\ UNCHANGED <<buildings, wallet, task, raised, lowered, again, forfeited, faults>>
      /\ UNCHANGED <<owner, active, raced, sold>>
      /\ fetched' = fetched \union {f}
  BY DEF UpsertBuildingModel
<1>2. /\ calls' \in 0..MaxCalls
      /\ required' \in [Models -> {0} \union {Need[g] : g \in Features}]
      /\ \A n \in Models : required'[n] = IF n = m THEN Need[f] ELSE required[n]
  BY BuildingAssumption DEF UpsertBuildingModel, Arrives, IInv, TypeOK
<1>3. TypeOK'
  BY <1>1, <1>2 DEF IInv, TypeOK
<1>4. ProfitsAreStopped' /\ ProfitsAreResumed'
  BY <1>1 DEF IInv, ProfitsAreStopped, ProfitsAreResumed, Standing, Busy, At
<1>5. RequirementIsKnown'
  <2> SUFFICES ASSUME NEW g \in Features, fetched' \subseteq {g}
               PROVE
        /\ \A n \in Models : required'[n] \in {0, Need[g]}
        /\ \A t \in Tasks : /\ task'[t].feature = g
                            /\ task'[t].pc \in {"deactivate", "create", "update"} \/
                               (task'[t].pc = "find" /\ task'[t].op = "update")
                            => task'[t].launched >= Need[g]
        /\ \A i \in Standing(g)' : buildings'[i].launched >= Need[g]
    BY DEF RequirementIsKnown
  <2>1. f = g /\ fetched \subseteq {g}
    BY <1>1
  <2>2. Standing(g)' = Standing(g)
    BY <1>1 DEF Standing
  <2> QED BY <1>1, <1>2, <2>1, <2>2 DEF IInv, RequirementIsKnown
<1> QED BY <1>1, <1>3, <1>4, <1>5, Aside DEF IInv

(* So the invariant is inductive. *)
LEMMA NextInv == IInv /\ [Next]_vars => IInv'
<1> SUFFICES ASSUME IInv, [Next]_vars PROVE IInv'
  OBVIOUS
<1>1. ASSUME NEW t \in Tasks, Request(t) \/ Serve(t) PROVE IInv'
  BY <1>1, TaskKeepsInv
<1>2. ASSUME NEW f \in Features, NEW m \in Models, UpsertBuildingModel(f, m) PROVE IInv'
  BY <1>2, UpsertKeepsInv
<1>3. ASSUME NEW f \in Features, NEW u \in Users, Sell(f, u) PROVE IInv'
  BY <1>3, SellKeepsInv
<1>4. CASE UNCHANGED vars
  <2>1. /\ UNCHANGED <<buildings, wallet, task, raised, lowered, again, forfeited, faults>>
        /\ UNCHANGED <<owner, required, active, fetched, raced, sold, calls>>
    BY <1>4 DEF vars, rows, history
  <2>2. TypeOK'
    BY <2>1 DEF IInv, TypeOK
  <2>3. ProfitsAreStopped' /\ ProfitsAreResumed'
    BY <2>1 DEF IInv, ProfitsAreStopped, ProfitsAreResumed, Standing, Busy, At
  <2>4. RequirementIsKnown'
    BY <2>1 DEF IInv, RequirementIsKnown, Standing
  <2> QED BY <2>1, <2>2, <2>3, <2>4, Aside DEF IInv
<1> QED BY <1>1, <1>2, <1>3, <1>4 DEF Next

(* It holds at the start: nothing is built and nothing is on its way. *)
LEMMA InitInv == Init => IInv
<1> SUFFICES ASSUME Init PROVE IInv
  OBVIOUS
<1>1. /\ buildings = <<>> /\ DOMAIN buildings = {}
      /\ \A f : Standing(f) = {}
  BY DEF Init, Standing
<1>2. \A t \in Tasks : /\ task[t] = Idle /\ task[t].pc = "idle" /\ task[t].op = "build"
                       /\ task[t].info = {} /\ task[t].late = FALSE
  BY IdleTask DEF Init
<1>3. TypeOK
  <2>1. task \in [Tasks -> Task]
    BY IdleTask DEF Init
  <2>2. required \in [Models -> {0} \union {Need[f] : f \in Features}] /\ fetched \subseteq Features
    BY DEF Init
  <2>3. buildings \in Seq(Row)
    BY <1>1
  <2> QED BY <2>1, <2>2, <2>3, BuildingAssumption DEF Init, TypeOK
<1>4. Shape /\ Alone /\ ReadIsCurrent /\ StandingIsUnrefunded
  BY <1>1, <1>2 DEF Shape, Alone, Busy, ReadIsCurrent, CurrentOf, StandingIsUnrefunded, Removing, Removed
<1>5. RefundsAreBounded /\ BuildersAreBounded
  <2>1. \A f \in Features : Builders(f) = {}
    BY <1>2 DEF Builders, Erecting
  <2>2. Cardinality({}) = 0 /\ Cardinality(Tasks) \in Nat
    BY BuildingAssumption, FS_EmptySet, FS_CardinalityType
  <2> QED BY <1>1, <2>1, <2>2 DEF RefundsAreBounded, BuildersAreBounded
<1>6. ProfitsAreStopped /\ ProfitsAreResumed
  BY <1>1, <1>2 DEF ProfitsAreStopped, ProfitsAreResumed, At, Init
<1>7. RequirementIsKnown
  <2>1. ASSUME NEW f \in Features, fetched \subseteq {f}, NEW m \in Models
        PROVE  required[m] \in {0, Need[f]}
    BY <2>1 DEF Init
  <2> QED BY <1>1, <1>2, <2>1 DEF RequirementIsKnown
<1>8. InformationIsKnown
  BY <1>1, <1>2 DEF InformationIsKnown
<1>9. InWallets = Total /\ InFlight = 0 /\ Total \in Nat
  <2>1. PICK f, g : f = wallet /\ g = InTasks
    OBVIOUS
  <2>2. \A u \in Users : f[u] = Funds
    BY <2>1 DEF Init
  <2>3. \A t \in Tasks : g[t] = 0
    BY <1>2, <2>1 DEF InTasks, OnTheWay
  <2>4. Funds \in Int
    BY BuildingAssumption
  <2>5. SumFunctionOnSet(f, Users) = Funds * Cardinality(Users)
    BY <2>2, <2>4, BuildingAssumption, SumConstant
  <2>6. SumFunctionOnSet(g, Tasks) = 0 * Cardinality(Tasks)
    BY <2>3, BuildingAssumption, SumConstant
  <2>7. Cardinality(Tasks) \in Nat /\ Cardinality(Users) \in Nat
    BY BuildingAssumption, FS_CardinalityType
  <2>8. InFlight = 0
    BY <2>1, <2>6, <2>7 DEF InFlight
  <2>9. InWallets = Total
    BY <2>1, <2>5 DEF InWallets, Total
  <2>10. InWallets \in Nat
    BY <1>3, SumsType
  <2> QED BY <2>8, <2>9, <2>10
<1>10. \A P : Value(P) = 0
  <2> SUFFICES ASSUME NEW P PROVE Value(P) = 0
    OBVIOUS
  <2>1. PICK f : f = AtCeilings(P)
    OBVIOUS
  <2>2. SumFunctionOnSet(f, {}) = 0
    BY FS_EmptySet, SumRecursion
  <2> QED BY <1>1, <2>1, <2>2 DEF Value
<1>11. CreatedIsKnown
  <2>1. PICK P : P = [i \in {} |-> 0]
    OBVIOUS
  <2>2. P \in [DOMAIN buildings -> Nat]
    BY <1>1, <2>1
  <2>3. Ceilings(P)
    BY <1>1, <1>2, <2>2 DEF Ceilings, At
  <2>4. Value(P) = 0
    BY <1>10
  <2>5. InWallets + Value(P) + InFlight <= Total + raised + again
    BY <1>9, <2>4 DEF Init
  <2> QED BY <2>2, <2>3, <2>5 DEF CreatedIsKnown, InWallets, Value
<1>12. NothingLost
  <2>1. Held = InWallets + Value(Launched)
    BY <1>3, SumsType
  <2> QED BY <1>9, <1>10, <2>1 DEF NothingLost, Init
<1> QED BY <1>3, <1>4, <1>5, <1>6, <1>7, <1>8, <1>11, <1>12 DEF IInv

(* The inductive invariant holds in every behaviour. *)
THEOREM Invariance == Spec => []IInv
BY InitInv, NextInv, PTL DEF Spec

(* What buildings hold is at most what their ceilings say. *)
LEMMA CeilingsCover ==
  ASSUME TypeOK, NEW P, \A i \in DOMAIN buildings : P[i] \in Nat /\ buildings[i].launched <= P[i]
  PROVE  Value(Launched) <= Value(P)
<1>1. PICK f, g, X : f = AtCeilings(Launched) /\ g = AtCeilings(P) /\ X = DOMAIN buildings
  OBVIOUS
<1>2. \A i \in X : f[i] \in Int /\ g[i] \in Int /\ f[i] <= g[i]
  BY <1>1, EachRow DEF AtCeilings, Launched
<1>3. SumFunctionOnSet(f, X) <= SumFunctionOnSet(g, X)
  BY <1>1, <1>2, EachRow, SumMonotone
<1> QED BY <1>1, <1>3 DEF Value

(* SatisfactionInv: what BuildFeature charges, UpdateBuilding changes and  *)
(* DestroyBuilding gives back adds up, except for the leaks it names.      *)
THEOREM SatisfactionIsKept == Spec => []SatisfactionInv
<1>1. ASSUME IInv PROVE SatisfactionInv
  <2>1. TypeOK
    BY <1>1 DEF IInv
  <2>2. NothingCreated
    <3>1. PICK P \in [DOMAIN buildings -> Nat] :
               /\ Ceilings(P)
               /\ InWallets + Value(P) + InFlight <= Total + raised + again
      BY <1>1 DEF IInv, CreatedIsKnown, InWallets, Value
    <3>2. Value(Launched) <= Value(P)
      BY <2>1, <3>1, CeilingsCover DEF Ceilings
    <3>3. /\ Value(P) \in Nat /\ InWallets \in Nat /\ InFlight \in Nat
          /\ Value(Launched) \in Nat /\ Held = InWallets + Value(Launched)
      BY <2>1, <3>1, SumsType, EachRow DEF Launched
    <3>4. raised \in Nat /\ again \in Nat /\ Total \in Nat
      BY <2>1, BuildingAssumption, FS_CardinalityType DEF TypeOK, Total
    <3> QED BY <3>1, <3>2, <3>3, <3>4 DEF NothingCreated
  <2>3. RefundsAreConcurrent
    <3>1. ASSUME NEW i \in DOMAIN buildings
          PROVE  buildings[i].refunds <= Cardinality(Tasks)
      <4>1. buildings[i].refunds + Cardinality(Refunders(i)) <= Cardinality(Tasks)
        BY <1>1 DEF IInv, RefundsAreBounded
      <4>2. Cardinality(Refunders(i)) \in Nat /\ Cardinality(Tasks) \in Nat
        <5>1. Refunders(i) \subseteq Tasks
          BY DEF Refunders
        <5> QED BY <5>1, BuildingAssumption, FS_Subset, FS_CardinalityType
      <4>3. buildings[i].refunds \in Nat
        BY <2>1, EachRow
      <4> QED BY <4>1, <4>2, <4>3
    <3> QED BY <1>1, <3>1 DEF RefundsAreConcurrent, IInv, RefundsAreBounded
  <2>4. NothingLost
    BY <1>1 DEF IInv
  <2> QED BY <2>2, <2>3, <2>4 DEF SatisfactionInv
<1> QED BY <1>1, Invariance, PTL

(* ProfitInv: the hourly profits of a feature stop with its building and   *)
(* resume without, whatever fails, unless requests overlap.                *)
THEOREM ProfitsFollowBuildings == Spec => []ProfitInv
<1>1. ASSUME IInv PROVE ProfitInv
  <2>1. ProfitsStop
    BY <1>1 DEF IInv, ProfitsAreStopped, ProfitsStop
  <2>2. ProfitsResume
    BY <1>1 DEF IInv, ProfitsAreResumed, ProfitsResume
  <2> QED BY <2>1, <2>2 DEF ProfitInv
<1> QED BY <1>1, Invariance, PTL

(* RowsInv: rows have their types, a feature has one building unless       *)
(* requests overlap, and what a building requires and tells is known.      *)
THEOREM RowsAreSound == Spec => []RowsInv
<1>1. ASSUME IInv PROVE RowsInv
  <2>1. TypeOK
    BY <1>1 DEF IInv
  <2>2. ASSUME NEW f \in Features
        PROVE  Cardinality(Standing(f)) <= IF f \in raced THEN Cardinality(Tasks) ELSE 1
    <3>1. Cardinality(Standing(f)) + Cardinality(Builders(f)) <= Cardinality(Tasks)
      BY <1>1 DEF IInv, BuildersAreBounded
    <3>2. Builders(f) \subseteq Tasks /\ Standing(f) \subseteq DOMAIN buildings
      BY DEF Builders, Standing
    <3>3. /\ Cardinality(Builders(f)) \in Nat /\ Cardinality(Tasks) \in Nat
          /\ Cardinality(Standing(f)) \in Nat
      <4>1. IsFiniteSet(Builders(f)) /\ IsFiniteSet(Standing(f)) /\ IsFiniteSet(Tasks)
        BY <2>1, <3>2, EachRow, BuildingAssumption, FS_Subset
      <4> QED BY <4>1, FS_CardinalityType
    <3>4. CASE f \in raced
      BY <3>1, <3>3, <3>4
    <3>5. CASE f \notin raced /\ Standing(f) = {}
      BY <3>5, FS_EmptySet
    <3>6. CASE f \notin raced /\ Standing(f) # {}
      <4>1. PICK i : i \in Standing(f)
        BY <3>6
      <4>2. Standing(f) = {i}
        BY <1>1, <3>2, <3>6, <4>1 DEF IInv, Alone
      <4>3. Cardinality({i}) = 1
        BY FS_Singleton
      <4> QED BY <3>6, <4>2, <4>3
    <3> QED BY <3>4, <3>5, <3>6
  <2>3. RequirementIsOwn
    BY <1>1 DEF IInv, RequirementIsKnown, RequirementIsOwn
  <2>4. ActivityIsKnown
    BY <1>1 DEF IInv, InformationIsKnown, ActivityIsKnown
  <2> QED BY <2>1, <2>2, <2>3, <2>4 DEF RowsInv, BuildingsAreBounded
<1> QED BY <1>1, Invariance, PTL
=============================================================================
