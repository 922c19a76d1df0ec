------------------------------ MODULE Dynasty ------------------------------
(***************************************************************************)
(* dynasty-service: dynasties and their families, join requests, the       *)
(* permissions of children, and the prizes of new members.                 *)
(*                                                                         *)
(* No operation uses a transaction except the last step of ClaimPrize, and *)
(* no table has a unique key besides its id.  A goroutine (Tasks) serves   *)
(* one request at a time; each of its SQL statements and remote calls is a *)
(* step.  Reads of what no operation takes back (a dynasty, its family)    *)
(* are made in the step that uses them.                                    *)
(***************************************************************************)
EXTENDS Integers, Sequences, FiniteSets, Bags, Functions

CONSTANTS Users,
          Minors,        \* users whose kycs row makes them younger than 18
          Features,
          Relationships, \* contains "offspring" and "father", not "owner"
          Rewarded,      \* relationships that have a dynasty_prizes row
          Stable,        \* features with properties and a positive stability
          Permissions,   \* columns of children_permissions: BFR, SF, W, ...
          Founders,      \* users who have a dynasty at the start
          Accepted,      \* requests that were accepted before the start
          Tasks,
          MaxDynasties,  \* bound: rows of dynasties
          MaxRequests,   \* bound: rows of join_requests
          MaxCalls,      \* bound: requests served in a behaviour
          MaxFaults      \* bound: failures in a behaviour

Invitation == [from: Users, to: Users, rel: Relationships]

ASSUME DynastyAssumption ==
  /\ Users # {} /\ Features # {}
  /\ Minors \subseteq Users /\ Founders \subseteq Users /\ Stable \subseteq Features
  /\ Rewarded \subseteq Relationships /\ "owner" \notin Relationships
  /\ Accepted \subseteq Invitation /\ \A i \in Accepted : i.from \in Founders
  /\ IsFiniteSet(Founders) /\ IsFiniteSet(Accepted) /\ IsFiniteSet(Tasks) /\ Tasks # {}
  /\ {MaxDynasties, MaxRequests, MaxCalls, MaxFaults} \subseteq Nat

VARIABLES dynasties,  \* rows of dynasties, each with its families row if any
          members,    \* rows of family_members, a bag
          requests,   \* rows of join_requests; a deleted row keeps its place
          perms,      \* rows of children_permissions
          prizes,     \* rows of received_prizes; a claimed row is deleted
          debts,      \* debts[u]: rows of debts for u
          locks,      \* locks[f]: rows of locked_features for f
          labels,     \* features labelled as locked
          task,
          paid,       \* history: what was credited for each received prize
          hurried,    \* history: changes in less than 30 days, by user and feature
          calls, faults

vars == <<dynasties, members, requests, perms, prizes, debts, locks, labels, task,
          paid, hurried, calls, faults>>

Member  == [dynasty: Nat, user: Users, rel: Relationships \union {"owner"}]
Dynasty == [user: Users, feature: Features, family: BOOLEAN, fresh: BOOLEAN]
Request == [from: Users, to: Users, rel: Relationships,
            status: {"pending", "accepted", "rejected", "deleted"}]
Perm    == [user: Users, verified: BOOLEAN, granted: SUBSET Permissions]
Prize   == [user: Users, rel: Rewarded, open: BOOLEAN]
Paid    == [psc: Nat, satisfaction: Nat, boosts: Nat]

(* user: the caller; id: the row the call is about; feature: the one it    *)
(* brings; left, fresh and perm: what it read, to be used later.           *)
Steps == {"idle", "insert", "family", "owner", "permit", "status", "member", "age",
          "verify", "award", "delete", "psc", "satisfaction", "redeem", "debt",
          "lock", "label", "move", "grant"}
Ops    == {"-", "accepted", "rejected", "deleted", "grant", "claim"}
Task   == [pc: Steps, user: Users, id: Nat, op: Ops, feature: Features, left: Features,
           fresh: BOOLEAN, perm: Perm]
NoPerm == [user |-> CHOOSE u \in Users : TRUE, verified |-> FALSE, granted |-> {}]
Idle   == [pc |-> "idle", user |-> CHOOSE u \in Users : TRUE, id |-> 0, op |-> "-",
           feature |-> CHOOSE f \in Features : TRUE,
           left |-> CHOOSE f \in Features : TRUE, fresh |-> FALSE, perm |-> NoPerm]

TypeOK ==
  /\ dynasties \in Seq(Dynasty)
  /\ IsABag(members) /\ DOMAIN members \subseteq Member
  /\ requests \in Seq(Request)
  /\ perms \in Seq(Perm)
  /\ prizes \in Seq(Prize)
  /\ debts \in [Users -> Nat] /\ locks \in [Features -> Nat] /\ labels \subseteq Features
  /\ task \in [Tasks -> Task]
  /\ paid \in Seq(Paid) /\ Len(paid) = Len(prizes)
  /\ hurried \in [by: [Users -> Nat], from: [Features -> Nat]]
  /\ calls \in 0..MaxCalls /\ faults \in 0..MaxFaults

(* The rows of a set in some order. *)
Listed(S) == CHOOSE s \in [1..Cardinality(S) -> S] : \A x \in S : \E i \in DOMAIN s : s[i] = x
Unpaid    == [psc |-> 0, satisfaction |-> 0, boosts |-> 0]

Init ==
  /\ dynasties = [i \in 1..Cardinality(Founders) |->
       [user |-> Listed(Founders)[i], feature |-> CHOOSE f \in Features : TRUE,
        family |-> TRUE, fresh |-> TRUE]]
  /\ requests = [i \in 1..Cardinality(Accepted) |->
       [from |-> Listed(Accepted)[i].from, to |-> Listed(Accepted)[i].to,
        rel |-> Listed(Accepted)[i].rel, status |-> "accepted"]]
  /\ members = SetToBag(
       {[dynasty |-> i, user |-> dynasties[i].user, rel |-> "owner"] : i \in DOMAIN dynasties}
       \union UNION {{[dynasty |-> i, user |-> a.to, rel |-> a.rel] :
                       i \in {j \in DOMAIN dynasties : dynasties[j].user = a.from}} :
                     a \in Accepted})
  /\ LET won == {a \in Accepted : a.rel \in Rewarded}
     IN  prizes = [i \in 1..Cardinality(won) |->
                    [user |-> Listed(won)[i].to, rel |-> Listed(won)[i].rel, open |-> TRUE]]
  /\ perms = <<>>
  /\ debts = [u \in Users |-> 0] /\ locks = [f \in Features |-> 0] /\ labels = {}
  /\ hurried = [by |-> debts, from |-> locks]
  /\ task = [t \in Tasks |-> Idle]
  /\ paid = [i \in DOMAIN prizes |-> Unpaid]
  /\ calls = 0 /\ faults = 0

Fault   == faults < MaxFaults /\ faults' = faults + 1
Goto(t, pc) == task' = [task EXCEPT ![t].pc = pc]
Return(t)   == task' = [task EXCEPT ![t] = Idle]

(* A call arrives; its first read, made here, either ends it at once (the  *)
(* call then changes nothing and is left out) or takes it to its next step.*)
Begin(t, pc, op, u, id) ==
  /\ task[t].pc = "idle" /\ calls < MaxCalls
  /\ calls' = calls + 1
  /\ task' = [task EXCEPT ![t] = [Idle EXCEPT !.pc = pc, !.op = op, !.user = u, !.id = id]]

penalties == <<debts, locks, labels, hurried>>
tables    == <<dynasties, members, requests, perms, prizes, penalties>>

(* A statement or remote call of t fails and the handler returns the       *)
(* error; or the process of t stops.                                       *)
Fails(t) ==
  /\ task[t].pc # "idle"
  /\ Fault
  /\ Return(t)
  /\ UNCHANGED <<tables, paid, calls>>

-----------------------------------------------------------------------------
(* CreateDynasty *)

DynastiesOf(u) == {i \in DOMAIN dynasties : dynasties[i].user = u}

(* GetDynastyByUserID finds none. *)
CheckDynasty(t, u, f) ==
  /\ DynastiesOf(u) = {}
  /\ task[t].pc = "idle" /\ calls < MaxCalls
  /\ calls' = calls + 1
  /\ task' = [task EXCEPT ![t] = [Idle EXCEPT !.pc = "insert", !.user = u, !.feature = f]]
  /\ UNCHANGED <<tables, paid, faults>>

InsertDynasty(t) ==
  /\ task[t].pc = "insert" /\ Len(dynasties) < MaxDynasties
  /\ dynasties' = Append(dynasties, [user |-> task[t].user, feature |-> task[t].feature,
                                     family |-> FALSE, fresh |-> TRUE])
  /\ task' = [task EXCEPT ![t].pc = "family", ![t].id = Len(dynasties) + 1]
  /\ UNCHANGED <<members, requests, perms, prizes, penalties, paid, calls, faults>>

CreateFamily(t) ==
  /\ task[t].pc = "family"
  /\ dynasties' = [dynasties EXCEPT ![task[t].id].family = TRUE]
  /\ Goto(t, "owner")
  /\ UNCHANGED <<members, requests, perms, prizes, penalties, paid, calls, faults>>

AddMember(d, u, r) == members (+) SetToBag({[dynasty |-> d, user |-> u, rel |-> r]})

AddOwner(t) ==
  /\ task[t].pc = "owner"
  /\ members' = AddMember(task[t].id, task[t].user, "owner")
  /\ Return(t)
  /\ UNCHANGED <<dynasties, requests, perms, prizes, penalties, paid, calls, faults>>

-----------------------------------------------------------------------------
(* SendJoinRequest *)

(* The INSERT of the request.  Permissions can only be given to a minor;   *)
(* the gateway does not let the caller set verified.                       *)
CreateJoinRequest(t, u, v, r) ==
  /\ Len(requests) < MaxRequests
  /\ task[t].pc = "idle" /\ calls < MaxCalls
  /\ calls' = calls + 1
  /\ requests' = Append(requests, [from |-> u, to |-> v, rel |-> r, status |-> "pending"])
  /\ \/ UNCHANGED task
     \/ /\ r = "offspring" /\ v \in Minors
        /\ \E g \in SUBSET Permissions :
             task' = [task EXCEPT ![t] = [Idle EXCEPT !.pc = "permit", !.perm =
                        [user |-> v, verified |-> FALSE, granted |-> g]]]
  /\ UNCHANGED <<dynasties, members, perms, prizes, penalties, paid, faults>>

CreateChildPermission(t) ==
  /\ task[t].pc = "permit"
  /\ perms' = Append(perms, task[t].perm)
  /\ Return(t)
  /\ UNCHANGED <<dynasties, members, requests, prizes, penalties, paid, calls, faults>>

-----------------------------------------------------------------------------
(* AcceptJoinRequest, RejectJoinRequest, DeleteJoinRequest *)

Exists(i) == i \in DOMAIN requests /\ requests[i].status # "deleted"

(* The request is read and its parties are checked; whether it is still    *)
(* pending is not.                                                         *)
AnyoneReplies(t, u, i, op) ==
  /\ Exists(i)
  /\ op \in {"accepted", "rejected", "deleted"}
  /\ Begin(t, "status", op, u, i)
  /\ UNCHANGED <<tables, paid, faults>>

ReadRequest(t, u, i, op) ==
  /\ Exists(i)
  /\ u = IF op = "deleted" THEN requests[i].from ELSE requests[i].to
  /\ Begin(t, "status", op, u, i)
  /\ UNCHANGED <<tables, paid, faults>>

(* UPDATE or DELETE ... WHERE id = ?, which do nothing to a deleted row. *)
UpdateStatus(t) ==
  /\ task[t].pc = "status"
  /\ requests' = [requests EXCEPT ![task[t].id].status =
                    IF @ = "deleted" THEN @ ELSE task[t].op]
  /\ IF task[t].op = "accepted" THEN Goto(t, "member") ELSE Return(t)
  /\ UNCHANGED <<dynasties, members, perms, prizes, penalties, paid, calls, faults>>

(* Without a dynasty the handler answers with an error; without a family   *)
(* it dereferences nil.  The request stays accepted in both cases.         *)
CreateFamilyMember(t) ==
  /\ task[t].pc = "member"
  /\ LET req == requests[task[t].id]
     IN  \/ \E d \in DynastiesOf(req.from) :
              IF dynasties[d].family
              THEN members' = AddMember(d, task[t].user, req.rel) /\ Goto(t, "age")
              ELSE Return(t) /\ UNCHANGED members
         \/ DynastiesOf(req.from) = {} /\ Return(t) /\ UNCHANGED members
  /\ UNCHANGED <<dynasties, requests, perms, prizes, penalties, paid, calls, faults>>

(* A minor who calls a father gets the default permissions, verified; the  *)
(* permissions of a minor who becomes a child are read, to be verified.    *)
(* SQL errors are ignored.                                                 *)
CheckAges(t) ==
  /\ task[t].pc = "age"
  /\ LET req == requests[task[t].id]
     IN  \/ /\ req.from \in Minors /\ req.rel = "father"
            /\ \E g \in SUBSET Permissions :
                 perms' = Append(perms, [user |-> req.from, verified |-> TRUE, granted |-> g])
            /\ Goto(t, "award") /\ UNCHANGED faults
         \/ /\ req.from \notin Minors \/ req.rel # "father"
            /\ req.to \in Minors /\ req.rel = "offspring"
            /\ \E i \in DOMAIN perms : perms[i].user = req.to /\
                 task' = [task EXCEPT ![t].pc = "verify", ![t].perm =
                            [perms[i] EXCEPT !.verified = TRUE]]
            /\ UNCHANGED <<perms, faults>>
         \/ /\ ~ (req.from \in Minors /\ req.rel = "father")
            /\ ~ (/\ req.to \in Minors /\ req.rel = "offspring"
                  /\ \E i \in DOMAIN perms : perms[i].user = req.to)
            /\ Goto(t, "award") /\ UNCHANGED <<perms, faults>>
         \/ Fault /\ Goto(t, "award") /\ UNCHANGED perms
  /\ UNCHANGED <<dynasties, members, requests, prizes, penalties, paid, calls>>

(* The row that was read is written over every row of the child. *)
VerifyPermissions(t) ==
  /\ task[t].pc = "verify"
  /\ perms' = [i \in DOMAIN perms |->
       IF perms[i].user = task[t].user THEN task[t].perm ELSE perms[i]]
  /\ Goto(t, "award")
  /\ UNCHANGED <<dynasties, members, requests, prizes, penalties, paid, calls, faults>>

(* An error of the INSERT is only logged. *)
AwardPrize(t) ==
  /\ task[t].pc = "award"
  /\ LET rel == requests[task[t].id].rel
     IN  \/ /\ rel \in Rewarded
            /\ prizes' = Append(prizes, [user |-> task[t].user, rel |-> rel, open |-> TRUE])
            /\ paid' = Append(paid, Unpaid) /\ UNCHANGED faults
         \/ rel \notin Rewarded /\ UNCHANGED <<prizes, paid, faults>>
         \/ Fault /\ UNCHANGED <<prizes, paid>>
  /\ Return(t)
  /\ UNCHANGED <<dynasties, members, requests, perms, penalties, calls>>

-----------------------------------------------------------------------------
(* UpdateChildPermission, by somebody in whose family the child is *)

InFamily(p, c) == \E m \in DOMAIN members : m.user = c /\ m.dynasty \in DynastiesOf(p)

CanControlPermissions(t, p, c) ==
  /\ p # c /\ c \in Minors /\ InFamily(p, c)
  /\ \E i \in DOMAIN perms : perms[i].user = c
  /\ Begin(t, "grant", "grant", c, 0)
  /\ UNCHANGED <<tables, paid, faults>>

(* One column of every row of the child; the handler only ever sets it. *)
UpdatePermission(t, p) ==
  /\ task[t].pc = "grant"
  /\ perms' = [i \in DOMAIN perms |->
       IF perms[i].user = task[t].user
       THEN [perms[i] EXCEPT !.granted = @ \union {p}] ELSE perms[i]]
  /\ Return(t)
  /\ UNCHANGED <<dynasties, members, requests, prizes, penalties, paid, calls, faults>>

-----------------------------------------------------------------------------
(* ClaimPrize *)

GetReceivedPrize(t, u, i) ==
  /\ i \in DOMAIN prizes /\ prizes[i].open /\ prizes[i].user = u
  /\ Begin(t, "psc", "claim", u, i)
  /\ UNCHANGED <<tables, paid, faults>>

(* A credit by gRPC, without retries.  When it is answered with an error   *)
(* or not at all, it may have been made nevertheless.                      *)
IgnoreCreditError(t) ==
  /\ task[t].pc = "psc"
  /\ \/ paid' = [paid EXCEPT ![task[t].id].psc = @ + 1] /\ UNCHANGED faults
     \/ Fault /\ UNCHANGED paid
  /\ Goto(t, "satisfaction")
  /\ UNCHANGED <<tables, calls>>

IncrementWalletPSC(t) ==
  /\ task[t].pc = "psc"
  /\ paid' = [paid EXCEPT ![task[t].id].psc = @ + 1]
  /\ \/ Goto(t, "satisfaction") /\ UNCHANGED faults
     \/ Fault /\ Return(t)
  /\ UNCHANGED <<tables, calls>>

IncrementSatisfaction(t) ==
  /\ task[t].pc = "satisfaction"
  /\ paid' = [paid EXCEPT ![task[t].id].satisfaction = @ + 1]
  /\ \/ Goto(t, "redeem") /\ UNCHANGED faults
     \/ Fault /\ Return(t)
  /\ UNCHANGED <<tables, calls>>

(* The transaction: the user's variables and the DELETE of the receipt. *)
Redeem(t) ==
  /\ task[t].pc = "redeem"
  /\ paid' = [paid EXCEPT ![task[t].id].boosts = @ + 1]
  /\ prizes' = [prizes EXCEPT ![task[t].id].open = FALSE]
  /\ Return(t)
  /\ UNCHANGED <<dynasties, members, requests, perms, penalties, calls, faults>>

-----------------------------------------------------------------------------
(* UpdateDynastyFeature *)

(* The row is read; fresh: it was changed less than 30 days ago. *)
ReadDynasty(t, u, d, f) ==
  /\ d \in DynastiesOf(u) /\ dynasties[d].feature # f
  /\ task[t].pc = "idle" /\ calls < MaxCalls
  /\ calls' = calls + 1
  /\ task' = [task EXCEPT ![t] =
       [Idle EXCEPT !.pc = IF dynasties[d].fresh THEN "debt" ELSE "move", !.id = d,
                    !.user = u, !.feature = f, !.left = dynasties[d].feature,
                    !.fresh = dynasties[d].fresh]]
  /\ UNCHANGED <<tables, paid, faults>>

CreateDebt(t) ==
  /\ task[t].pc = "debt"
  /\ debts' = IF task[t].left \in Stable THEN [debts EXCEPT ![task[t].user] = @ + 1]
              ELSE debts
  /\ Goto(t, "lock")
  /\ UNCHANGED <<dynasties, members, requests, perms, prizes, locks, labels, hurried, paid,
                 calls, faults>>

MoveUnlocked(t) ==
  /\ task[t].pc = "lock"
  /\ Goto(t, "move")
  /\ UNCHANGED <<tables, paid, calls, faults>>

LockFeature(t) ==
  /\ task[t].pc = "lock"
  /\ locks' = [locks EXCEPT ![task[t].left] = @ + 1]
  /\ Goto(t, "label")
  /\ UNCHANGED <<dynasties, members, requests, perms, prizes, debts, labels, hurried, paid,
                 calls, faults>>

SetFeatureLabel(t) ==
  /\ task[t].pc = "label"
  /\ labels' = labels \union {task[t].left}
  /\ Goto(t, "move")
  /\ UNCHANGED <<dynasties, members, requests, perms, prizes, debts, locks, hurried, paid,
                 calls, faults>>

UpdateFeature(t) ==
  /\ task[t].pc = "move"
  /\ dynasties' = [dynasties EXCEPT ![task[t].id].feature = task[t].feature,
                                    ![task[t].id].fresh = TRUE]
  /\ hurried' = IF ~ task[t].fresh THEN hurried
       ELSE [hurried EXCEPT !.from[task[t].left] = @ + 1,
              !.by[task[t].user] = IF task[t].left \in Stable THEN @ + 1 ELSE @]
  /\ Return(t)
  /\ UNCHANGED <<members, requests, perms, prizes, debts, locks, labels, paid, calls, faults>>

(* Thirty days pass after the last change of a dynasty. *)
MonthPasses(d) ==
  /\ dynasties[d].fresh
  /\ dynasties' = [dynasties EXCEPT ![d].fresh = FALSE]
  /\ UNCHANGED <<members, requests, perms, prizes, penalties, task, paid, calls, faults>>

-----------------------------------------------------------------------------
Step(t) ==
  \/ InsertDynasty(t) \/ CreateFamily(t) \/ AddOwner(t)
  \/ CreateChildPermission(t)
  \/ UpdateStatus(t) \/ CreateFamilyMember(t) \/ CheckAges(t) \/ VerifyPermissions(t)
  \/ AwardPrize(t)
  \/ IncrementWalletPSC(t) \/ IncrementSatisfaction(t) \/ Redeem(t)
  \/ CreateDebt(t) \/ LockFeature(t) \/ SetFeatureLabel(t) \/ UpdateFeature(t)
  \/ \E p \in Permissions : UpdatePermission(t, p)
  \/ Fails(t)

Call(t, u) ==
  \/ \E f \in Features : CheckDynasty(t, u, f)
  \/ \E v \in Users, r \in Relationships : CreateJoinRequest(t, u, v, r)
  \/ \E i \in DOMAIN requests, op \in {"accepted", "rejected", "deleted"} :
       ReadRequest(t, u, i, op)
  \/ \E c \in Users : CanControlPermissions(t, u, c)
  \/ \E i \in DOMAIN prizes : GetReceivedPrize(t, u, i)
  \/ \E d \in DOMAIN dynasties, f \in Features : ReadDynasty(t, u, d, f)

Next ==
  \/ \E t \in Tasks : Step(t)
  \/ \E t \in Tasks, u \in Users : Call(t, u)
  \/ \E d \in DOMAIN dynasties : MonthPasses(d)

Spec == Init /\ [][Next]_vars

-----------------------------------------------------------------------------
(* Nobody is in a family uninvited: a member who is not the owner was      *)
(* sent a request for this relationship by the owner of the dynasty, even  *)
(* if the request is withdrawn, rejected or accepted again meanwhile.      *)
MembersWereInvited ==
  \A m \in DOMAIN members :
    IF m.rel = "owner" THEN dynasties[m.dynasty].user = m.user
    ELSE \E i \in DOMAIN requests :
           /\ requests[i].to = m.user /\ requests[i].rel = m.rel
           /\ requests[i].from = dynasties[m.dynasty].user

(* AcceptJoinRequest inserts the member before it verifies permissions:    *)
(* verified permissions belong to a minor who is somebody's child, or      *)
(* whose father is in the minor's own family.                              *)
VerifiedIsRelated ==
  \A i \in DOMAIN perms : perms[i].verified =>
    /\ perms[i].user \in Minors
    /\ \E m \in DOMAIN members :
         \/ m.user = perms[i].user /\ m.rel = "offspring"
         \/ m.dynasty \in DynastiesOf(perms[i].user) /\ m.rel = "father"

RowsOf(u, r) == {m \in DOMAIN members : m.user = u /\ m.rel = r}

(* A prize is awarded for a membership: a user has received no more prizes *)
(* for a relationship than there are rows that make her such a member.     *)
PrizesAreEarned ==
  \A u \in Users, r \in Rewarded :
    Cardinality({i \in DOMAIN prizes : prizes[i].user = u /\ prizes[i].rel = r})
      <= SumFunctionOnSet(members, RowsOf(u, r))

(* ClaimPrize deletes the receipt after both credits: what is claimed was  *)
(* paid in full, and its boosts were applied.                              *)
ClaimedIsPaid ==
  \A i \in DOMAIN prizes : ~ prizes[i].open =>
    paid[i].psc >= 1 /\ paid[i].satisfaction >= 1 /\ paid[i].boosts >= 1

(* The receipt is not locked while it is paid, so concurrent claims pay it *)
(* several times, and so does a claim that is repeated after a failure;    *)
(* but no more often than that.                                            *)
ClaimsAreBounded ==
  \A i \in DOMAIN prizes : paid[i].psc <= Cardinality(Tasks) + faults

(* The check of CreateDynasty and its INSERT are two statements: only as   *)
(* many dynasties of one user as there are concurrent calls.               *)
DynastiesAreBounded == \A u \in Users : Cardinality(DynastiesOf(u)) <= Cardinality(Tasks)

(* A dynasty without a family is being created, or its creation failed.    *)
(* A second attempt is refused, so the family stays missing.               *)
FamilyMissingMeansFailed ==
  Cardinality({d \in DOMAIN dynasties : ~ dynasties[d].family})
    <= faults + Cardinality({t \in Tasks : task[t].pc = "family"})

(* UpdateDynastyFeature punishes before it changes: every change made in   *)
(* less than 30 days has its debt, its lock and its label.                 *)
PenaltyForEveryChange ==
  /\ \A u \in Users : hurried.by[u] <= debts[u]
  /\ \A f \in Features : hurried.from[f] <= locks[f] /\ (hurried.from[f] > 0 => f \in labels)

(* The tables of families, requests and permissions agree, although each   *)
(* is written in a statement of its own.                                   *)
FamilyInv == TypeOK /\ MembersWereInvited /\ VerifiedIsRelated

(* A prize is awarded for a membership, and paid before and not much more  *)
(* often than it is claimed.                                               *)
PrizeInv == PrizesAreEarned /\ ClaimedIsPaid /\ ClaimsAreBounded

(* What half-done creations and moves of dynasties leave behind. *)
DynastyInv == DynastiesAreBounded /\ FamilyMissingMeansFailed /\ PenaltyForEveryChange
=============================================================================
