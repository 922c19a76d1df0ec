------------------------------ MODULE Building ------------------------------
(***************************************************************************)
(* features-service: BuildingService.  A building costs satisfaction from  *)
(* the owner's wallet, which destroying it gives back, and stops the       *)
(* hourly profits of its feature while it stands.                          *)
(*                                                                         *)
(* There is no transaction: each goroutine (Tasks) reads, charges the      *)
(* wallet in commercial-service and writes in separate steps, and undoes   *)
(* the earlier ones by hand when a later one fails.  The wallet service    *)
(* and the sale of features are external here; modules Wallet,             *)
(* WalletClient and Marketplace have their details.                        *)
(***************************************************************************)
EXTENDS Integers, Sequences, FiniteSets, Functions

CONSTANTS Users, Features, Models,
          Fields,        \* fields of a building's information, one is "activity_line"
          Infos,         \* informations that requests to build or update carry
          Need,          \* Need[f]: the satisfaction a building on f requires
          Funds,         \* initial satisfaction of a wallet
          MaxLaunched,   \* bound: satisfaction a request launches
          Tasks,
          MaxBuildings,  \* bound: rows ever inserted
          MaxCalls,      \* bound: requests and sales in a behaviour
          MaxFaults      \* bound: failures in a behaviour

ASSUME BuildingAssumption ==
  /\ "activity_line" \in Fields /\ Infos \subseteq SUBSET Fields
  /\ Need \in [Features -> Nat \ {0}]
  /\ {Funds, MaxLaunched, MaxBuildings, MaxCalls, MaxFaults} \subseteq Nat
  /\ IsFiniteSet(Users) /\ IsFiniteSet(Tasks)
  /\ Users # {} /\ Features # {} /\ Models # {}

VARIABLES owner,      \* features.owner_id
          required,   \* building_models.required_satisfaction; 0: no such row
          buildings,  \* rows of buildings, the deleted ones too
          active,     \* active[f]: is_active of f's feature_hourly_profits rows
          wallet,     \* wallet[u]: satisfaction
          task,
          fetched,    \* history: features whose build package was fetched
          raced,      \* history: features that met two requests, or one and a sale, at once
          sold,       \* history: features that were sold
          raised,     \* history: satisfaction that UpdateBuilding added without a charge
          lowered,    \* history: satisfaction that UpdateBuilding removed without a refund
          again,      \* history: satisfaction refunded more than once
          forfeited,  \* history: satisfaction charged for requests found invalid later
          calls, faults

rows    == <<owner, required, buildings, active>>
history == <<fetched, raced, sold, raised, lowered, again, forfeited>>
vars    == <<rows, wallet, task, history, calls, faults>>

(* info is the set of the fields that are present.  refunds: history. *)
Row  == [feature: Features, model: Models, launched: Nat, info: SUBSET Fields,
         standing: BOOLEAN, refunds: Nat]
Ops  == {"build", "update", "inform", "destroy"}
Task == [pc: {"idle", "check", "deduct", "deactivate", "create", "reactivate", "limits",
              "find", "update", "write", "delete", "activate", "refund"},
         op: Ops, user: Users, feature: Features, model: Models, launched: Nat,
         info: SUBSET Fields, valid: BOOLEAN, id: Nat, late: BOOLEAN]
Idle == [pc |-> "idle", op |-> "build", user |-> CHOOSE u \in Users : TRUE,
         feature |-> CHOOSE f \in Features : TRUE, model |-> CHOOSE m \in Models : TRUE,
         launched |-> 0, info |-> {}, valid |-> TRUE, id |-> 0, late |-> FALSE]

TypeOK ==
  /\ owner \in [Features -> Users]
  /\ required \in [Models -> {0} \union {Need[f] : f \in Features}]
  /\ buildings \in Seq(Row)
  /\ active \in [Features -> BOOLEAN]
  /\ wallet \in [Users -> Nat]
  /\ task \in [Tasks -> Task]
  /\ fetched \subseteq Features /\ raced \subseteq Features /\ sold \subseteq Features
  /\ raised \in Nat /\ lowered \in Nat /\ again \in Nat /\ forfeited \in Nat
  /\ calls \in 0..MaxCalls /\ faults \in 0..MaxFaults

Init ==
  /\ owner \in [Features -> Users]
  /\ \/ required = [m \in Models |-> 0] /\ fetched = {}
     \/ \E f \in Features : required = [m \in Models |-> Need[f]] /\ fetched = {f}
  /\ buildings = <<>>
  /\ active = [f \in Features |-> TRUE]
  /\ wallet = [u \in Users |-> Funds]
  /\ task = [t \in Tasks |-> Idle]
  /\ raced = {} /\ sold = {}
  /\ raised = 0 /\ lowered = 0 /\ again = 0 /\ forfeited = 0
  /\ calls = 0 /\ faults = 0

Fault       == faults < MaxFaults /\ faults' = faults + 1
NoFault     == UNCHANGED faults
At(t, pc)   == task[t].pc = pc
Goto(t, pc) == task' = [task EXCEPT ![t].pc = pc]
Return(t)   == task' = [task EXCEPT ![t] = Idle]
Busy(f)     == {t \in Tasks : task[t].pc # "idle" /\ task[t].feature = f}

Arrives     == calls < MaxCalls /\ calls' = calls + 1

Standing(f)    == {i \in DOMAIN buildings : buildings[i].standing /\ buildings[i].feature = f}
Matching(f, m) == {i \in Standing(f) : buildings[i].model = m}

(* A statement or remote call of t fails and the handler returns the       *)
(* error, or the process stops: nothing is undone.                         *)
Fails(t) ==
  /\ ~ At(t, "idle")
  /\ Fault
  /\ Return(t)
  /\ UNCHANGED <<rows, wallet, history, calls>>

-----------------------------------------------------------------------------
(* GetBuildPackage: one model of the package is upserted.  Its             *)
(* requirement is computed from the feature that was asked for.            *)
UpsertBuildingModel(f, m) ==
  /\ required' = [required EXCEPT ![m] = Need[f]]
  /\ fetched' = fetched \union {f} /\ Arrives
  /\ UNCHANGED <<owner, buildings, active, wallet, task, raced, sold, raised, lowered, again,
                 forfeited, faults>>

(* A sale: the feature gets a new owner and its profits become active.  *)
Sell(f, u) ==
  /\ u # owner[f] /\ Arrives
  /\ owner' = [owner EXCEPT ![f] = u]
  /\ active' = [active EXCEPT ![f] = TRUE]
  /\ sold' = sold \union {f}
  /\ raced' = IF Busy(f) = {} THEN raced ELSE raced \union {f}
  /\ UNCHANGED <<required, buildings, wallet, task, fetched, raised, lowered, again, forfeited, faults>>

(* A request arrives and the feature is read: its owner must be the caller. *)
Begin(t, op, f, m, n, info, valid) ==
  /\ At(t, "idle") /\ Arrives
  /\ task' = [task EXCEPT ![t] = [Idle EXCEPT
       !.pc = CASE op = "build" -> "check" [] op = "update" -> "limits" [] OTHER -> "find",
       !.op = op, !.user = owner[f], !.feature = f, !.model = m, !.launched = n,
       !.info = info, !.valid = valid]]
  /\ raced' = IF Busy(f) = {} THEN raced ELSE raced \union {f}
  /\ UNCHANGED <<rows, wallet, fetched, sold, raised, lowered, again, forfeited, faults>>

(* What a request stores as information: without an activity line, ''. *)
Information(info) == IF "activity_line" \in info THEN info ELSE {}

(* The requests of the four operations; one for information sets a field. *)
Request(t) ==
  \E f \in Features, m \in Models :
    \/ \E op \in {"build", "update"}, n \in 1..MaxLaunched,
          info \in Infos, valid \in BOOLEAN :
         Begin(t, op, f, m, n, Information(info), valid)
    \/ \E x \in Fields : Begin(t, "inform", f, m, 0, {x}, TRUE)
    \/ Begin(t, "destroy", f, m, 0, {}, TRUE)

-----------------------------------------------------------------------------
(* BuildFeature *)

BuildAnyway(t) ==
  /\ At(t, "check")
  /\ Goto(t, "deduct")
  /\ UNCHANGED <<rows, wallet, history, calls, faults>>

HasBuilding(t) ==
  /\ At(t, "check")
  /\ IF Standing(task[t].feature) = {} THEN Goto(t, "deduct") ELSE Return(t)
  /\ UNCHANGED <<rows, wallet, history, calls, faults>>

Affordable(t) ==
  LET k == task[t] IN
  /\ required[k.model] # 0 /\ k.launched >= required[k.model]
  /\ k.launched <= wallet[k.user]

(* DeductBalance, after the model and the wallet were read.  The client    *)
(* repeats a call whose reply is late, so a call that meets a failure may  *)
(* have been executed any number of times, whatever it returns.  Rotation, *)
(* position and information are validated after the charge.                *)
DeductBalance(t) ==
  LET k == task[t]
      Charge(n) == wallet[k.user] >= n * k.launched
                     /\ wallet' = [wallet EXCEPT ![k.user] = @ - n * k.launched]
  IN
  /\ At(t, "deduct")
  /\ \/ /\ Affordable(t) /\ k.valid
        /\ \/ NoFault /\ Charge(1)
           \/ Fault /\ Charge(2)
        /\ Goto(t, "deactivate") /\ UNCHANGED forfeited
     \/ /\ Affordable(t) /\ ~ k.valid
        /\ Charge(1) /\ forfeited' = forfeited + k.launched
        /\ Return(t) /\ NoFault
     \/ /\ Affordable(t) /\ Fault /\ Charge(1)       \* executed, but answered with an error
        /\ Return(t) /\ UNCHANGED forfeited
     \/ /\ ~ Affordable(t)
        /\ Return(t) /\ UNCHANGED <<wallet, forfeited, faults>>
  /\ UNCHANGED <<rows, fetched, raced, sold, raised, lowered, again, calls>>

(* An error of this statement only refunds. *)
DeactivateProfits(t) ==
  /\ At(t, "deactivate")
  /\ \/ /\ active' = [active EXCEPT ![task[t].feature] = FALSE]
        /\ Goto(t, "create") /\ NoFault
     \/ Goto(t, "refund") /\ Fault /\ UNCHANGED active
  /\ UNCHANGED <<owner, required, buildings, wallet, history, calls>>

(* The column information has CHECK (json_valid(information)), which '' is *)
(* not.                                                                    *)
JsonValid(info) == info # {}

CreateBuilding(t) ==
  LET k == task[t] IN
  /\ At(t, "create") /\ Len(buildings) < MaxBuildings
  /\ \/ /\ JsonValid(k.info)
        /\ buildings' = Append(buildings,
             [feature |-> k.feature, model |-> k.model, launched |-> k.launched,
              info |-> k.info, standing |-> TRUE, refunds |-> 0])
        /\ Return(t) /\ NoFault
     \/ /\ \/ ~ JsonValid(k.info) /\ NoFault
           \/ JsonValid(k.info) /\ Fault
        /\ Goto(t, "reactivate") /\ UNCHANGED buildings
  /\ UNCHANGED <<owner, required, active, wallet, history, calls>>

-----------------------------------------------------------------------------
(* UpdateBuilding and UpdateBuildingInformation *)

(* The model and the wallet are read, but the wallet is not charged. *)
CheckLimits(t) ==
  /\ At(t, "limits")
  /\ IF Affordable(t) /\ task[t].valid THEN Goto(t, "find") ELSE Return(t)
  /\ UNCHANGED <<rows, wallet, history, calls, faults>>

(* FindBuildingByFeatureAndModel: one of the rows. *)
FindBuilding(t) ==
  LET k == task[t] IN
  /\ At(t, "find")
  /\ \/ \E i \in Matching(k.feature, k.model) :
          task' = [task EXCEPT ![t] = CASE
            k.op = "update"  -> [k EXCEPT !.pc = "update"]
         [] k.op = "inform"  -> [k EXCEPT !.pc = "write", !.info = @ \union buildings[i].info]
         [] k.op = "destroy" -> [k EXCEPT !.pc = "delete", !.id = i,
                                          !.launched = buildings[i].launched]]
     \/ Matching(k.feature, k.model) = {} /\ Return(t)
  /\ UNCHANGED <<rows, wallet, history, calls, faults>>

Beyond(m, n) == IF m > n THEN m - n ELSE 0

(* UPDATE ... WHERE feature_id = ? AND model_id = ? *)
UpdateBuilding(t) ==
  LET k    == task[t]
      hit  == Matching(k.feature, k.model)
  IN
  /\ At(t, "update")
  /\ IF JsonValid(k.info)
     THEN /\ buildings' = [i \in DOMAIN buildings |->
               IF i \in hit THEN [buildings[i] EXCEPT !.launched = k.launched, !.info = k.info]
                            ELSE buildings[i]]
          /\ raised' = raised + SumFunctionOnSet(
               [i \in hit |-> Beyond(k.launched, buildings[i].launched)], hit)
          /\ lowered' = lowered + SumFunctionOnSet(
               [i \in hit |-> Beyond(buildings[i].launched, k.launched)], hit)
     ELSE UNCHANGED <<buildings, raised, lowered>>
  /\ Return(t)
  /\ UNCHANGED <<owner, required, active, wallet, fetched, raced, sold, again, forfeited,
                 calls, faults>>

UpdateInformation(t) ==
  LET k == task[t] IN
  /\ At(t, "write")
  /\ buildings' = [i \in DOMAIN buildings |->
       IF i \in Matching(k.feature, k.model) THEN [buildings[i] EXCEPT !.info = k.info]
                                             ELSE buildings[i]]
  /\ Return(t)
  /\ UNCHANGED <<owner, required, active, wallet, history, calls, faults>>

-----------------------------------------------------------------------------
(* DestroyBuilding *)

KeepBuilding(t) ==
  /\ At(t, "delete")
  /\ Goto(t, "activate")
  /\ UNCHANGED <<rows, wallet, history, calls, faults>>

(* Whether the DELETE removed a row is not looked at. *)
DeleteBuilding(t) ==
  LET hit == Matching(task[t].feature, task[t].model) IN
  /\ At(t, "delete")
  /\ buildings' = [i \in DOMAIN buildings |->
       IF i \in hit THEN [buildings[i] EXCEPT !.standing = FALSE] ELSE buildings[i]]
  /\ task' = [task EXCEPT ![t].pc = "activate", ![t].late = (task[t].id \notin hit)]
  /\ UNCHANGED <<owner, required, active, wallet, history, calls, faults>>

DropActivation(t) ==
  /\ At(t, "activate") \/ At(t, "reactivate")
  /\ Goto(t, "refund")
  /\ UNCHANGED <<rows, wallet, history, calls, faults>>

(* ActivateProfitsForFeature, here and after a failed CreateBuilding; its  *)
(* error is ignored.                                                       *)
ActivateProfits(t) ==
  /\ At(t, "activate") \/ At(t, "reactivate")
  /\ \/ active' = [active EXCEPT ![task[t].feature] = TRUE] /\ NoFault
     \/ Fault /\ UNCHANGED active
  /\ Goto(t, "refund")
  /\ UNCHANGED <<owner, required, buildings, wallet, history, calls>>

(* AddBalance to the caller's wallet; its error is ignored and its retries *)
(* may credit twice.                                                       *)
AddBalance(t) ==
  LET k == task[t] IN
  /\ At(t, "refund")
  /\ \E n \in 0..2 :
       /\ IF n = 1 THEN NoFault ELSE Fault
       /\ wallet' = [wallet EXCEPT ![k.user] = @ + n * k.launched]
       /\ again' = again + k.launched * (IF k.late THEN n ELSE IF n = 2 THEN 1 ELSE 0)
  /\ buildings' = [i \in DOMAIN buildings |->
       IF k.op = "destroy" /\ i = k.id THEN [buildings[i] EXCEPT !.refunds = @ + 1]
                                       ELSE buildings[i]]
  /\ Return(t)
  /\ UNCHANGED <<owner, required, active, fetched, raced, sold, raised, lowered, forfeited, calls>>

-----------------------------------------------------------------------------
Serve(t) ==
  \/ HasBuilding(t) \/ DeductBalance(t) \/ DeactivateProfits(t) \/ CreateBuilding(t)
  \/ CheckLimits(t) \/ FindBuilding(t) \/ UpdateBuilding(t) \/ UpdateInformation(t)
  \/ DeleteBuilding(t) \/ ActivateProfits(t) \/ AddBalance(t) \/ Fails(t)

Next ==
  \/ \E t \in Tasks : Request(t) \/ Serve(t)
  \/ \E f \in Features, m \in Models : UpsertBuildingModel(f, m)
  \/ \E f \in Features, u \in Users : Sell(f, u)

Spec == Init /\ [][Next]_vars

-----------------------------------------------------------------------------
(* Satisfaction in wallets, in standing buildings, and on its way from one *)
(* to the other or back.                                                   *)
InBuildings == [i \in DOMAIN buildings |->
                  IF buildings[i].standing THEN buildings[i].launched ELSE 0]
OnTheWay(t) == /\ task[t].pc \in {"deactivate", "create", "reactivate", "activate", "refund"}
               /\ ~ task[t].late
InTasks     == [t \in Tasks |-> IF OnTheWay(t) THEN task[t].launched ELSE 0]
Held        == SumFunctionOnSet(wallet, Users) + SumFunctionOnSet(InBuildings, DOMAIN buildings)
InFlight    == SumFunctionOnSet(InTasks, Tasks)
Total == Funds * Cardinality(Users)

(* Building, changing, destroying and compensating in any order create no  *)
(* satisfaction beyond two leaks that are known: UpdateBuilding raises     *)
(* launched_satisfaction without charging the wallet, and the refund of a  *)
(* DestroyBuilding whose DELETE found the row gone, or whose AddBalance    *)
(* was repeated, is one too many.                                          *)
NothingCreated == Held + InFlight <= Total + raised + again

(* Without concurrent requests for a feature and without failures no       *)
(* satisfaction disappears, except what BuildFeature charges before it     *)
(* finds rotation, position or information invalid.                        *)
NothingLost ==
  raced = {} /\ faults = 0 => Held + InFlight + forfeited + lowered = Total + raised

(* A building is refunded only by requests that found it standing, so more *)
(* than once only by requests that overlap: a DestroyBuilding after a      *)
(* completed one finds nothing.                                            *)
RefundsAreConcurrent ==
  \A i \in DOMAIN buildings :
    buildings[i].refunds <= IF buildings[i].feature \in raced THEN Cardinality(Tasks) ELSE 1

(* BuildFeature checks HasBuilding before a remote call and inserts after  *)
(* it: requests that overlap may put up one building each, others find the *)
(* feature taken.                                                          *)
BuildingsAreBounded ==
  \A f \in Features :
    Cardinality(Standing(f)) <= IF f \in raced THEN Cardinality(Tasks) ELSE 1

(* A feature with a building earns no hourly profit, whatever fails,       *)
(* unless requests overlapped or a sale made its profits active again.     *)
ProfitsStop ==
  \A f \in Features \ (raced \union sold) : Standing(f) # {} => ~ active[f]

(* A feature without a building earns again once its requests are done:    *)
(* every failure path that stopped the profits restarts them.              *)
ProfitsResume ==
  \A f \in Features \ raced :
    faults = 0 /\ Standing(f) = {} /\ Busy(f) = {} => active[f]

(* required_satisfaction is stored per model, although it depends on the   *)
(* feature: only if no other feature's package is ever fetched does each   *)
(* building carry what its own feature requires.                           *)
RequirementIsOwn ==
  \A f \in Features : fetched \subseteq {f} =>
    \A i \in Standing(f) : buildings[i].launched >= Need[f]

(* Every building has an activity line, although no operation demands one: *)
(* without it '' would be stored, which the column refuses, and merging    *)
(* never removes a field.                                                  *)
ActivityIsKnown ==
  \A i \in DOMAIN buildings : "activity_line" \in buildings[i].info

(* Satisfaction is charged for what stands and given back for what is      *)
(* destroyed, except where the comments of the parts say.                  *)
SatisfactionInv == NothingCreated /\ NothingLost /\ RefundsAreConcurrent

(* The profits of a feature stop with a building and resume without. *)
ProfitInv == ProfitsStop /\ ProfitsResume

(* The rows of buildings and of their models are what a build needs. *)
RowsInv == TypeOK /\ BuildingsAreBounded /\ RequirementIsOwn /\ ActivityIsKnown
=============================================================================
