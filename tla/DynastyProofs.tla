---------------------------- MODULE DynastyProofs ----------------------------
(***************************************************************************)
(* Dynasties, for any users, relationships and number of goroutines: the   *)
(* tables of families, requests and permissions agree; prizes are awarded  *)
(* for memberships, paid before they are claimed and not much more often   *)
(* than that; and creations and moves of dynasties that are half done      *)
(* leave behind what the goroutines at work and the failures account for.  *)
(***************************************************************************)
EXTENDS Dynasty, TableLemmas

(* m is the owner of a dynasty or was invited by her. *)
MemberOK(m) ==
  /\ m.dynasty \in DOMAIN dynasties
  /\ m.rel = "owner" => dynasties[m.dynasty].user = m.user
  /\ m.rel # "owner" =>
       \E i \in DOMAIN requests :
         /\ requests[i].to = m.user /\ requests[i].rel = m.rel
         /\ requests[i].from = dynasties[m.dynasty].user

(* u is somebody's child, or her father is in her own family. *)
Related(u) ==
  /\ u \in Minors
  /\ \E m \in DOMAIN members :
       \/ m.user = u /\ m.rel = "offspring"
       \/ /\ m.dynasty \in DOMAIN dynasties /\ dynasties[m.dynasty].user = u
          /\ m.rel = "father"

(* The member that the acceptance k of a request has inserted. *)
Inserted(k) ==
  \E m \in DOMAIN members :
    /\ m.user = requests[k.id].to /\ m.rel = requests[k.id].rel
    /\ m.dynasty \in DOMAIN dynasties
    /\ dynasties[m.dynasty].user = requests[k.id].from

Replying  == {"status", "member", "age", "verify", "award"}
Accepting == Replying \ {"status"}

(* What a goroutine between two statements may rely on. *)
TaskOK(k) ==
  /\ k.pc \in {"family", "owner"} =>
       k.id \in DOMAIN dynasties /\ dynasties[k.id].user = k.user
  /\ k.pc \in {"debt", "lock", "label", "move"} => k.id \in DOMAIN dynasties
  /\ k.pc \in Replying => k.id \in DOMAIN requests
  /\ k.pc \in Replying /\ k.op = "accepted" => k.user = requests[k.id].to
  /\ k.pc = "status" => k.op \in {"accepted", "rejected", "deleted"}
  /\ k.pc \in Accepting => k.op = "accepted"
  /\ k.pc \in {"age", "verify", "award"} => Inserted(k)
  /\ k.pc = "verify" => /\ requests[k.id].rel = "offspring" /\ k.user \in Minors
                        /\ k.perm.user = k.user
  /\ k.pc = "permit" => ~ k.perm.verified
  /\ k.pc \in {"psc", "satisfaction", "redeem"} => k.id \in DOMAIN prizes

IInv ==
  /\ TypeOK
  /\ \A m \in DOMAIN members : MemberOK(m)
  /\ \A i \in DOMAIN perms : perms[i].verified => Related(perms[i].user)
  /\ \A t \in Tasks : TaskOK(task[t])

-----------------------------------------------------------------------------
(* What every step keeps: rows stay at their places, with the columns that *)
(* no statement updates.                                                   *)
Grows ==
  /\ DOMAIN dynasties \subseteq DOMAIN dynasties'
  /\ \A i \in DOMAIN dynasties : dynasties'[i].user = dynasties[i].user
  /\ DOMAIN requests \subseteq DOMAIN requests'
  /\ \A i \in DOMAIN requests :
       /\ requests'[i].from = requests[i].from /\ requests'[i].to = requests[i].to
       /\ requests'[i].rel = requests[i].rel
  /\ DOMAIN members \subseteq DOMAIN members'
  /\ DOMAIN prizes \subseteq DOMAIN prizes'

(* What is true of a member, of a child and of a goroutine stays true. *)
LEMMA MemberKept ==
  ASSUME Grows, NEW m, MemberOK(m)
  PROVE  MemberOK(m)'
BY DEF Grows, MemberOK

LEMMA RelatedKept ==
  ASSUME Grows, NEW u, Related(u)
  PROVE  Related(u)'
BY DEF Grows, Related

LEMMA TaskKept ==
  ASSUME Grows, NEW k, TaskOK(k)
  PROVE  TaskOK(k)'
<1>1. k.pc \in Replying /\ Inserted(k) => Inserted(k)'
  BY DEF Grows, Inserted, TaskOK
<1> QED BY <1>1 DEF Grows, TaskOK, Replying, Accepting

(* A step preserves the invariant when the rows and goroutines it changes  *)
(* are right after it.                                                     *)
LEMMA Frame ==
  ASSUME IInv, Grows, TypeOK',
         \A m \in DOMAIN members' : m \in DOMAIN members \/ MemberOK(m)',
         \A i \in DOMAIN perms' : perms'[i].verified =>
           \/ \E j \in DOMAIN perms :
                perms[j].verified /\ perms[j].user = perms'[i].user
           \/ Related(perms[i].user)',
         \A t \in Tasks : task'[t] = task[t] \/ TaskOK(task[t])'
  PROVE  IInv'
<1>1. ASSUME NEW m \in DOMAIN members' PROVE MemberOK(m)'
  BY <1>1, MemberKept DEF IInv
<1>2. ASSUME NEW i \in DOMAIN perms', perms'[i].verified PROVE Related(perms[i].user)'
  <2>1. CASE Related(perms[i].user)'
    BY <2>1
  <2>2. ASSUME NEW j \in DOMAIN perms, perms[j].verified, perms[j].user = perms'[i].user
        PROVE  Related(perms[i].user)'
    <3>1. Related(perms[j].user)
      BY <2>2 DEF IInv
    <3> DEFINE u == perms[j].user
    <3>2. Related(u)
      BY <3>1
    <3>3. ASSUME NEW v, Related(v) PROVE Related(v)'
      BY <3>3, RelatedKept
    <3> QED BY <2>2, <3>1, <3>3 DEF Related
  <2> QED BY <1>2, <2>1, <2>2
<1>3. ASSUME NEW t \in Tasks PROVE TaskOK(task[t])'
  <2>1. ASSUME NEW k, TaskOK(k) PROVE TaskOK(k)'
    BY <2>1, TaskKept
  <2>2. TaskOK(task[t])
    BY DEF IInv
  <2> QED BY <2>1, <2>2 DEF TaskOK, Inserted
<1> QED BY <1>1, <1>2, <1>3 DEF IInv

-----------------------------------------------------------------------------
LEMMA ListedType ==
  ASSUME NEW S, IsFiniteSet(S)
  PROVE  /\ Cardinality(S) \in Nat
         /\ Listed(S) \in [1..Cardinality(S) -> S]
         /\ \A x \in S : \E i \in 1..Cardinality(S) : Listed(S)[i] = x
<1>1. Cardinality(S) \in Nat /\ ExistsBijection(1..Cardinality(S), S)
  BY FS_CardinalityType
<1>2. PICK s \in [1..Cardinality(S) -> S] : \A x \in S : \E i \in 1..Cardinality(S) : s[i] = x
  BY <1>1 DEF ExistsBijection, Bijection, Injection, Surjection
<1>3. \A x \in S : \E i \in DOMAIN s : s[i] = x
  BY <1>2
<1>4. \E q \in [1..Cardinality(S) -> S] : \A x \in S : \E i \in DOMAIN q : q[i] = x
  BY <1>2, <1>3
<1>5. /\ Listed(S) \in [1..Cardinality(S) -> S]
      /\ \A x \in S : \E i \in DOMAIN Listed(S) : Listed(S)[i] = x
  BY <1>4 DEF Listed
<1> QED BY <1>1, <1>5

(* A function on an initial segment is a sequence. *)
LEMMA SequenceOfType ==
  ASSUME NEW S, NEW n \in Nat, NEW q \in [1..n -> S]
  PROVE  q \in Seq(S) /\ Len(q) = n /\ DOMAIN q = 1..n
OBVIOUS

LEMMA IdleType ==
  /\ NoPerm \in Perm
  /\ Idle \in Task
  /\ Idle.pc = "idle"
<1>1. /\ (CHOOSE u \in Users : TRUE) \in Users
      /\ (CHOOSE f \in Features : TRUE) \in Features
  BY DynastyAssumption
<1>2. NoPerm \in Perm
  BY <1>1 DEF NoPerm, Perm
<1>3. "idle" \in Steps
  BY DEF Steps
<1>4. "-" \in Ops
  BY DEF Ops
<1> HIDE DEF NoPerm
<1> QED BY <1>1, <1>2, <1>3, <1>4 DEF Idle, Task

LEMMA IdleOK == TaskOK(Idle)
BY IdleType DEF TaskOK, Replying, Accepting

LEMMA InitInv ==
  ASSUME Init
  PROVE  IInv
<1> USE DynastyAssumption
<1>1. /\ Cardinality(Founders) \in Nat
      /\ Listed(Founders) \in [1..Cardinality(Founders) -> Founders]
      /\ \A x \in Founders : \E i \in 1..Cardinality(Founders) : Listed(Founders)[i] = x
  BY ListedType
<1>2. /\ Cardinality(Accepted) \in Nat
      /\ Listed(Accepted) \in [1..Cardinality(Accepted) -> Accepted]
      /\ \A x \in Accepted : \E i \in 1..Cardinality(Accepted) : Listed(Accepted)[i] = x
  BY ListedType
<1> DEFINE won == {a \in Accepted : a.rel \in Rewarded}
<1>3. /\ Cardinality(won) \in Nat
      /\ Listed(won) \in [1..Cardinality(won) -> won]
  <2>1. IsFiniteSet(won)
    BY FS_Subset
  <2> QED BY <2>1, ListedType
<1>4. dynasties \in Seq(Dynasty) /\ DOMAIN dynasties = 1..Cardinality(Founders)
  <2>1. (CHOOSE f \in Features : TRUE) \in Features
    OBVIOUS
  <2>2. dynasties \in [1..Cardinality(Founders) -> Dynasty]
    BY <1>1, <2>1 DEF Init, Dynasty
  <2> QED BY <1>1, <2>2, SequenceOfType
<1>5. /\ requests \in Seq(Request) /\ DOMAIN requests = 1..Cardinality(Accepted)
      /\ \A i \in DOMAIN requests :
           /\ requests[i].from = Listed(Accepted)[i].from
           /\ requests[i].to = Listed(Accepted)[i].to
           /\ requests[i].rel = Listed(Accepted)[i].rel
  <2>1. requests \in [1..Cardinality(Accepted) -> Request]
    BY <1>2 DEF Init, Request, Invitation
  <2>2. requests \in Seq(Request) /\ DOMAIN requests = 1..Cardinality(Accepted)
    BY <1>2, <2>1, SequenceOfType
  <2>3. requests = [i \in 1..Cardinality(Accepted) |->
          [from |-> Listed(Accepted)[i].from, to |-> Listed(Accepted)[i].to,
           rel |-> Listed(Accepted)[i].rel, status |-> "accepted"]]
    BY DEF Init
  <2> QED BY <2>2, <2>3
<1>6. /\ prizes \in Seq(Prize) /\ paid \in Seq(Paid) /\ Len(paid) = Len(prizes)
  <2>1. ASSUME NEW i \in 1..Cardinality(won)
        PROVE  [user |-> Listed(won)[i].to, rel |-> Listed(won)[i].rel, open |-> TRUE] \in Prize
    <3>1. Listed(won)[i] \in Invitation /\ Listed(won)[i].rel \in Rewarded
      BY <1>3
    <3> QED BY <3>1 DEF Prize, Invitation
  <2>2. /\ prizes = [i \in 1..Cardinality(won) |->
             [user |-> Listed(won)[i].to, rel |-> Listed(won)[i].rel, open |-> TRUE]]
        /\ paid = [i \in DOMAIN prizes |-> Unpaid]
    BY DEF Init
  <2> HIDE DEF won
  <2>3. /\ prizes \in [1..Cardinality(won) -> Prize]
        /\ paid \in [1..Cardinality(won) -> Paid]
    BY <2>1, <2>2 DEF Paid, Unpaid
  <2> QED BY <1>3, <2>3, SequenceOfType
<1>7. /\ IsABag(members)
      /\ \A m \in DOMAIN members :
           \/ \E i \in DOMAIN dynasties :
                m = [dynasty |-> i, user |-> dynasties[i].user, rel |-> "owner"]
           \/ \E a \in Accepted, i \in DOMAIN dynasties :
                dynasties[i].user = a.from /\ m = [dynasty |-> i, user |-> a.to, rel |-> a.rel]
  <2> DEFINE X == {[dynasty |-> i, user |-> dynasties[i].user, rel |-> "owner"] :
                    i \in DOMAIN dynasties}
             Y == UNION {{[dynasty |-> i, user |-> a.to, rel |-> a.rel] :
                           i \in {j \in DOMAIN dynasties : dynasties[j].user = a.from}} :
                         a \in Accepted}
  <2>1. members = SetToBag(X \union Y)
    BY DEF Init
  <2>2. DOMAIN members = X \union Y /\ IsABag(members)
    <3> HIDE DEF X, Y
    <3> QED BY <2>1 DEF SetToBag, IsABag
  <2> QED BY <2>2
<1>8. ASSUME NEW m \in DOMAIN members
      PROVE  m \in Member /\ MemberOK(m)
  <2>1. ASSUME NEW i \in DOMAIN dynasties,
               m = [dynasty |-> i, user |-> dynasties[i].user, rel |-> "owner"]
        PROVE  m \in Member /\ MemberOK(m)
    <3>1. dynasties[i].user \in Users /\ i \in Nat
      <4>1. dynasties[i] \in Dynasty /\ i \in Nat
        BY <1>1, <1>4
      <4> QED BY <4>1 DEF Dynasty
    <3> QED BY <2>1, <3>1 DEF Member, MemberOK
  <2>2. ASSUME NEW a \in Accepted, NEW i \in DOMAIN dynasties, dynasties[i].user = a.from,
               m = [dynasty |-> i, user |-> a.to, rel |-> a.rel]
        PROVE  m \in Member /\ MemberOK(m)
    <3>1. a \in Invitation
      OBVIOUS
    <3>2. PICK j \in DOMAIN requests : Listed(Accepted)[j] = a
      BY <1>2, <1>5
    <3> QED BY <1>1, <1>4, <1>5, <2>2, <3>1, <3>2 DEF Member, MemberOK, Invitation
  <2> QED BY <1>7, <2>1, <2>2
<1>9. TypeOK
  <2>1. /\ perms \in Seq(Perm) /\ labels \subseteq Features
        /\ debts \in [Users -> Nat] /\ locks \in [Features -> Nat]
        /\ hurried \in [by: [Users -> Nat], from: [Features -> Nat]]
    BY DEF Init
  <2>2. task \in [Tasks -> Task]
    BY IdleType DEF Init
  <2>3. calls \in 0..MaxCalls /\ faults \in 0..MaxFaults
    BY DEF Init
  <2> QED BY <1>4, <1>5, <1>6, <1>7, <1>8, <2>1, <2>2, <2>3 DEF TypeOK
<1>10. \A t \in Tasks : TaskOK(task[t])
  BY IdleOK DEF Init
<1>11. perms = <<>>
  BY DEF Init
<1> QED BY <1>8, <1>9, <1>10, <1>11 DEF IInv

-----------------------------------------------------------------------------
LEMMA BoundsType == MaxCalls \in Nat /\ MaxFaults \in Nat
BY DynastyAssumption

(* What a step of t does to the record of t. *)
LEMMA TaskType ==
  ASSUME TypeOK, NEW t \in Tasks
  PROVE  /\ task[t] \in Task
         /\ \A k \in Task : [task EXCEPT ![t] = k] \in [Tasks -> Task]
         /\ \A p \in Steps : [task[t] EXCEPT !.pc = p] \in Task
         /\ Idle \in Task
BY IdleType DEF TypeOK, Task

(* Only the goroutine that takes a step has a new record. *)
LEMMA OneMoves ==
  ASSUME TypeOK, NEW t \in Tasks, NEW k, task' = [task EXCEPT ![t] = k], TaskOK(k)'
  PROVE  \A s \in Tasks : task'[s] = task[s] \/ TaskOK(task[s])'
<1> SUFFICES ASSUME NEW s \in Tasks PROVE task'[s] = task[s] \/ TaskOK(task[s])'
  OBVIOUS
<1>1. CASE s = t
  <2>1. task'[s] = k
    BY <1>1 DEF TypeOK
  <2> QED BY <2>1 DEF TaskOK, Inserted
<1>2. CASE s # t
  BY <1>2 DEF TypeOK
<1> QED BY <1>1, <1>2

(* Steps that change no family, request or permission, and at most add     *)
(* prizes, are right when they leave the goroutine in a right state.       *)
LEMMA TaskOnly ==
  ASSUME IInv, TypeOK', NEW t \in Tasks,
         UNCHANGED <<dynasties, members, requests, perms>>,
         DOMAIN prizes \subseteq DOMAIN prizes',
         NEW k, task' = [task EXCEPT ![t] = k], TaskOK(k)'
  PROVE  IInv'
<1>1. Grows
  BY DEF Grows
<1>2. \A s \in Tasks : task'[s] = task[s] \/ TaskOK(task[s])'
  BY OneMoves DEF IInv
<1> QED BY <1>1, <1>2, Frame

-----------------------------------------------------------------------------
(* A step that writes no table but returns, or the process stops. *)
LEMMA FailsInv ==
  ASSUME IInv, NEW t \in Tasks, Fails(t)
  PROVE  IInv'
<1>1. TypeOK'
  <2>1. faults' \in 0..MaxFaults
    BY BoundsType DEF Fails, Fault, IInv, TypeOK
  <2>2. task' \in [Tasks -> Task]
    BY TaskType DEF Fails, Return, IInv
  <2> QED BY <2>1, <2>2 DEF Fails, IInv, TypeOK, tables, penalties
<1>2. TaskOK(Idle)'
  BY IdleType DEF TaskOK, Replying, Accepting
<1> QED BY <1>1, <1>2, TaskOnly DEF Fails, Return, tables, penalties

(* A call that begins with a read. *)
LEMMA BeginInv ==
  ASSUME IInv, NEW t \in Tasks, NEW k \in Task, TaskOK(k),
         calls < MaxCalls, calls' = calls + 1, task' = [task EXCEPT ![t] = k],
         UNCHANGED <<tables, paid, faults>>
  PROVE  IInv'
<1>1. TypeOK'
  <2>1. calls' \in 0..MaxCalls
    BY BoundsType DEF IInv, TypeOK
  <2>2. task' \in [Tasks -> Task]
    BY TaskType DEF IInv
  <2> QED BY <2>1, <2>2 DEF IInv, TypeOK, tables, penalties
<1>2. TaskOK(k)'
  BY TaskKept DEF Grows, tables
<1> QED BY <1>1, <1>2, TaskOnly DEF tables

LEMMA CheckDynastyInv ==
  ASSUME IInv, NEW t \in Tasks, NEW u \in Users, NEW f \in Features, CheckDynasty(t, u, f)
  PROVE  IInv'
<1> DEFINE k == [Idle EXCEPT !.pc = "insert", !.user = u, !.feature = f]
<1>1. k \in Task /\ k.pc = "insert"
  BY IdleType DEF Task, Steps
<1>2. TaskOK(k)
  BY <1>1 DEF TaskOK, Replying, Accepting
<1> QED BY <1>1, <1>2, BeginInv DEF CheckDynasty

LEMMA ReadRequestInv ==
  ASSUME IInv, NEW t \in Tasks, NEW u \in Users, NEW i \in DOMAIN requests,
         NEW op \in {"accepted", "rejected", "deleted"}, ReadRequest(t, u, i, op)
  PROVE  IInv'
<1> DEFINE k == [Idle EXCEPT !.pc = "status", !.op = op, !.user = u, !.id = i]
<1>0. i \in Nat
  BY DEF IInv, TypeOK
<1>1. k \in Task /\ k.pc = "status" /\ k.op = op /\ k.user = u /\ k.id = i
  BY <1>0, IdleType DEF Task, Steps, Ops
<1>2. op = "accepted" => u = requests[i].to
  BY DEF ReadRequest
<1>3. TaskOK(k)
  BY <1>1, <1>2 DEF TaskOK, Replying, Accepting
<1> QED BY <1>1, <1>3, BeginInv DEF ReadRequest, Begin

LEMMA CanControlPermissionsInv ==
  ASSUME IInv, NEW t \in Tasks, NEW u \in Users, NEW c \in Users,
         CanControlPermissions(t, u, c)
  PROVE  IInv'
<1> DEFINE k == [Idle EXCEPT !.pc = "grant", !.op = "grant", !.user = c, !.id = 0]
<1>1. k \in Task /\ k.pc = "grant"
  BY IdleType DEF Task, Steps, Ops
<1>2. TaskOK(k)
  BY <1>1 DEF TaskOK, Replying, Accepting
<1> QED BY <1>1, <1>2, BeginInv DEF CanControlPermissions, Begin

LEMMA GetReceivedPrizeInv ==
  ASSUME IInv, NEW t \in Tasks, NEW u \in Users, NEW i \in DOMAIN prizes,
         GetReceivedPrize(t, u, i)
  PROVE  IInv'
<1> DEFINE k == [Idle EXCEPT !.pc = "psc", !.op = "claim", !.user = u, !.id = i]
<1>0. i \in Nat
  BY DEF IInv, TypeOK
<1>1. k \in Task /\ k.pc = "psc" /\ k.id = i
  BY <1>0, IdleType DEF Task, Steps, Ops
<1>2. TaskOK(k)
  BY <1>1 DEF TaskOK, Replying, Accepting
<1> QED BY <1>1, <1>2, BeginInv DEF GetReceivedPrize, Begin

LEMMA ReadDynastyInv ==
  ASSUME IInv, NEW t \in Tasks, NEW u \in Users, NEW d \in DOMAIN dynasties,
         NEW f \in Features, ReadDynasty(t, u, d, f)
  PROVE  IInv'
<1> DEFINE k == [Idle EXCEPT !.pc = IF dynasties[d].fresh THEN "debt" ELSE "move",
                   !.id = d, !.user = u, !.feature = f, !.left = dynasties[d].feature,
                   !.fresh = dynasties[d].fresh]
<1>1. dynasties[d] \in Dynasty /\ d \in Nat
  BY DEF IInv, TypeOK
<1>2. k \in Task
  BY <1>1, IdleType DEF Task, Steps, Dynasty
<1>3. k.pc \in {"debt", "move"} /\ k.id = d
  BY IdleType DEF Task
<1>4. TaskOK(k)
  BY <1>3 DEF TaskOK, Replying, Accepting
<1> QED BY <1>2, <1>4, BeginInv DEF ReadDynasty

-----------------------------------------------------------------------------
(* Steps between two statements of a claim, a prize or a change of feature *)
LEMMA GotoOK ==
  ASSUME TypeOK, NEW t \in Tasks, TaskOK(task[t]),
         NEW p \in Steps, p \notin {"member", "age", "verify", "award", "family", "owner",
                                    "status", "permit"},
         p \in {"debt", "lock", "label", "move"} =>
           task[t].pc \in {"debt", "lock", "label", "move"},
         p \in {"psc", "satisfaction", "redeem"} =>
           task[t].pc \in {"psc", "satisfaction", "redeem"}
  PROVE  TaskOK([task[t] EXCEPT !.pc = p])
<1> DEFINE k == [task[t] EXCEPT !.pc = p]
<1>1. task[t] \in Task
  BY TaskType
<1>2. k.pc = p /\ k.id = task[t].id
  BY <1>1 DEF Task
<1> HIDE DEF k
<1>3. TaskOK(k)
  BY <1>2 DEF TaskOK, Replying, Accepting
<1> QED BY <1>3 DEF k

(* A step that only moves t on, or ends its call, as far as the tables of  *)
(* families, requests and permissions are concerned.                       *)
LEMMA Along ==
  ASSUME IInv, TypeOK', NEW t \in Tasks,
         UNCHANGED <<dynasties, members, requests, perms>>,
         DOMAIN prizes \subseteq DOMAIN prizes',
         \/ Return(t)
         \/ \E p \in {"satisfaction", "redeem"} :
              Goto(t, p) /\ task[t].pc \in {"psc", "satisfaction"}
         \/ \E p \in {"lock", "label", "move"} :
              Goto(t, p) /\ task[t].pc \in {"debt", "lock", "label"}
  PROVE  IInv'
<1>0. TypeOK /\ TaskOK(task[t])
  BY DEF IInv
<1>1. ASSUME NEW k, TaskOK(k), task' = [task EXCEPT ![t] = k] PROVE IInv'
  <2>1. TaskOK(k)'
    BY <1>1, TaskKept DEF Grows
  <2> QED BY <1>1, <2>1, TaskOnly
<1>2. CASE Return(t)
  BY <1>1, <1>2, IdleOK DEF Return
<1>3. ASSUME NEW p \in {"satisfaction", "redeem"},
             Goto(t, p), task[t].pc \in {"psc", "satisfaction"}
      PROVE  IInv'
  <2>1. TaskOK([task[t] EXCEPT !.pc = p])
    BY <1>0, <1>3, GotoOK DEF Steps
  <2>2. task' = [task EXCEPT ![t] = [task[t] EXCEPT !.pc = p]]
    BY <1>3 DEF Goto
  <2> QED BY <1>1, <2>1, <2>2
<1>4. ASSUME NEW p \in {"lock", "label", "move"},
             Goto(t, p), task[t].pc \in {"debt", "lock", "label"}
      PROVE  IInv'
  <2>1. TaskOK([task[t] EXCEPT !.pc = p])
    BY <1>0, <1>4, GotoOK DEF Steps
  <2>2. task' = [task EXCEPT ![t] = [task[t] EXCEPT !.pc = p]]
    BY <1>4 DEF Goto
  <2> QED BY <1>1, <2>1, <2>2
<1> QED BY <1>2, <1>3, <1>4

(* The record of t is right in type after Goto and Return. *)
LEMMA MoveType ==
  ASSUME TypeOK, NEW t \in Tasks, Return(t) \/ \E p \in Steps : Goto(t, p)
  PROVE  task' \in [Tasks -> Task]
<1>1. CASE Return(t)
  BY <1>1, TaskType DEF Return
<1>2. ASSUME NEW p \in Steps, Goto(t, p) PROVE task' \in [Tasks -> Task]
  <2>1. task' = [task EXCEPT ![t] = [task[t] EXCEPT !.pc = p]]
    BY <1>2 DEF Goto
  <2> QED BY <2>1, TaskType
<1> QED BY <1>1, <1>2

LEMMA FaultType ==
  ASSUME TypeOK, Fault
  PROVE  faults' \in 0..MaxFaults
BY BoundsType DEF TypeOK, Fault

(* What is paid for a prize is counted up. *)
LEMMA PaidType ==
  ASSUME TypeOK, NEW i \in DOMAIN prizes
  PROVE  LET q == [paid EXCEPT ![i].psc = @ + 1]
             r == [paid EXCEPT ![i].satisfaction = @ + 1]
             s == [paid EXCEPT ![i].boosts = @ + 1]
         IN  /\ q \in Seq(Paid) /\ Len(q) = Len(paid)
             /\ r \in Seq(Paid) /\ Len(r) = Len(paid)
             /\ s \in Seq(Paid) /\ Len(s) = Len(paid)
<1>1. i \in DOMAIN paid /\ paid \in Seq(Paid) /\ paid[i] \in Paid
  BY DEF TypeOK
<1>2. ASSUME NEW p \in Paid
      PROVE  /\ [p EXCEPT !.psc = @ + 1] \in Paid
             /\ [p EXCEPT !.satisfaction = @ + 1] \in Paid
             /\ [p EXCEPT !.boosts = @ + 1] \in Paid
  BY DEF Paid
<1>3. \A k \in Paid : /\ [paid EXCEPT ![i] = k] \in Seq(Paid)
                      /\ Len([paid EXCEPT ![i] = k]) = Len(paid)
  BY <1>1
<1> QED BY <1>1, <1>2, <1>3

LEMMA IncrementWalletPSCInv ==
  ASSUME IInv, NEW t \in Tasks, IncrementWalletPSC(t)
  PROVE  IInv'
<1>1. task[t].id \in DOMAIN prizes
  BY DEF IInv, TaskOK, IncrementWalletPSC
<1>2. faults' \in 0..MaxFaults
  BY FaultType DEF IncrementWalletPSC, IInv, TypeOK
<1>3. TypeOK'
  BY <1>1, <1>2, PaidType, MoveType DEF IncrementWalletPSC, IInv, TypeOK, tables, penalties,
     Steps
<1> QED BY <1>3, Along DEF IncrementWalletPSC, tables

LEMMA IncrementSatisfactionInv ==
  ASSUME IInv, NEW t \in Tasks, IncrementSatisfaction(t)
  PROVE  IInv'
<1>1. task[t].id \in DOMAIN prizes
  BY DEF IInv, TaskOK, IncrementSatisfaction
<1>2. faults' \in 0..MaxFaults
  BY FaultType DEF IncrementSatisfaction, IInv, TypeOK
<1>3. TypeOK'
  BY <1>1, <1>2, PaidType, MoveType DEF IncrementSatisfaction, IInv, TypeOK, tables,
     penalties, Steps
<1> QED BY <1>3, Along DEF IncrementSatisfaction, tables

LEMMA RedeemInv ==
  ASSUME IInv, NEW t \in Tasks, Redeem(t)
  PROVE  IInv'
<1>1. task[t].id \in DOMAIN prizes
  BY DEF IInv, TaskOK, Redeem
<1>2. prizes' \in Seq(Prize) /\ Len(prizes') = Len(prizes) /\ DOMAIN prizes' = DOMAIN prizes
  <2>1. prizes[task[t].id] \in Prize
    BY <1>1 DEF IInv, TypeOK
  <2>2. [prizes[task[t].id] EXCEPT !.open = FALSE] \in Prize
    BY <2>1 DEF Prize
  <2> QED BY <1>1, <2>2 DEF Redeem, IInv, TypeOK
<1>3. TypeOK'
  BY <1>1, <1>2, PaidType, MoveType DEF Redeem, IInv, TypeOK, penalties
<1> QED BY <1>2, <1>3, Along DEF Redeem

LEMMA CreateDebtInv ==
  ASSUME IInv, NEW t \in Tasks, CreateDebt(t)
  PROVE  IInv'
<1>1. debts' \in [Users -> Nat]
  <2>1. task[t].user \in Users
    BY TaskType DEF Task, IInv
  <2>2. debts \in [Users -> Nat]
    BY DEF IInv, TypeOK
  <2> QED BY <2>1, <2>2 DEF CreateDebt
<1>2. TypeOK'
  BY <1>1, MoveType DEF CreateDebt, IInv, TypeOK, Steps
<1> QED BY <1>2, Along DEF CreateDebt

LEMMA LockFeatureInv ==
  ASSUME IInv, NEW t \in Tasks, LockFeature(t)
  PROVE  IInv'
<1>1. locks' \in [Features -> Nat]
  <2>1. task[t].left \in Features
    BY TaskType DEF Task, IInv
  <2>2. locks \in [Features -> Nat]
    BY DEF IInv, TypeOK
  <2> QED BY <2>1, <2>2 DEF LockFeature
<1>2. TypeOK'
  BY <1>1, MoveType DEF LockFeature, IInv, TypeOK, Steps
<1> QED BY <1>2, Along DEF LockFeature

LEMMA SetFeatureLabelInv ==
  ASSUME IInv, NEW t \in Tasks, SetFeatureLabel(t)
  PROVE  IInv'
<1>1. labels' \subseteq Features
  BY TaskType DEF SetFeatureLabel, IInv, TypeOK, Task
<1>2. TypeOK'
  BY <1>1, MoveType DEF SetFeatureLabel, IInv, TypeOK, Steps
<1> QED BY <1>2, Along DEF SetFeatureLabel

LEMMA AwardPrizeInv ==
  ASSUME IInv, NEW t \in Tasks, AwardPrize(t)
  PROVE  IInv'
<1>1. /\ prizes' \in Seq(Prize) /\ paid' \in Seq(Paid) /\ Len(paid') = Len(prizes')
      /\ DOMAIN prizes \subseteq DOMAIN prizes'
  <2>1. CASE UNCHANGED <<prizes, paid>>
    BY <2>1 DEF IInv, TypeOK
  <2>2. ASSUME requests[task[t].id].rel \in Rewarded,
               prizes' = Append(prizes, [user |-> task[t].user, open |-> TRUE,
                                         rel |-> requests[task[t].id].rel]),
               paid' = Append(paid, Unpaid)
        PROVE  <1>1!1
    <3>1. [user |-> task[t].user, rel |-> requests[task[t].id].rel, open |-> TRUE] \in Prize
      BY <2>2, TaskType DEF Prize, Task, IInv
    <3>2. Unpaid \in Paid
      BY DEF Unpaid, Paid
    <3> QED BY <2>2, <3>1, <3>2 DEF IInv, TypeOK
  <2> QED BY <2>1, <2>2 DEF AwardPrize
<1>2. faults' \in 0..MaxFaults
  BY FaultType DEF AwardPrize, IInv, TypeOK
<1>3. TypeOK'
  BY <1>1, <1>2, MoveType DEF AwardPrize, IInv, TypeOK, penalties
<1> QED BY <1>1, <1>3, Along DEF AwardPrize

-----------------------------------------------------------------------------
(* Steps that change dynasties, members, requests or permissions *)
LEMMA ReturnOK ==
  ASSUME TypeOK, NEW t \in Tasks, Return(t)
  PROVE  \A s \in Tasks : task'[s] = task[s] \/ TaskOK(task[s])'
<1>1. TaskOK(Idle)'
  BY IdleType DEF TaskOK, Replying, Accepting
<1> QED BY <1>1, OneMoves DEF Return

LEMMA UpdateFeatureInv ==
  ASSUME IInv, NEW t \in Tasks, UpdateFeature(t)
  PROVE  IInv'
<1> DEFINE d == task[t].id
           row == [dynasties[d] EXCEPT !.feature = task[t].feature, !.fresh = TRUE]
<1>1. /\ task[t] \in Task /\ d \in DOMAIN dynasties /\ dynasties \in Seq(Dynasty)
      /\ dynasties[d] \in Dynasty
  BY TaskType DEF UpdateFeature, IInv, TypeOK, TaskOK
<1>2. row \in Dynasty /\ row.user = dynasties[d].user
  BY <1>1 DEF Dynasty, Task
<1>3. dynasties' = [dynasties EXCEPT ![d] = row]
  BY DEF UpdateFeature
<1>4. dynasties' \in Seq(Dynasty)
  BY <1>1, <1>2, <1>3
<1>5. hurried' \in [by: [Users -> Nat], from: [Features -> Nat]]
  <2>1. /\ hurried \in [by: [Users -> Nat], from: [Features -> Nat]]
        /\ task[t].user \in Users /\ task[t].left \in Features
    BY <1>1 DEF IInv, TypeOK, Task
  <2>2. CASE ~ task[t].fresh
    BY <2>1, <2>2 DEF UpdateFeature
  <2>3. CASE task[t].fresh
    <3> DEFINE n == hurried.by[task[t].user]
               b == IF task[t].left \in Stable THEN n + 1 ELSE n
               m == hurried.from[task[t].left] + 1
    <3>1. b \in Nat /\ m \in Nat
      BY <2>1
    <3>2. hurried' = [by |-> [hurried.by EXCEPT ![task[t].user] = b],
                      from |-> [hurried.from EXCEPT ![task[t].left] = m]]
      BY <2>1, <2>3 DEF UpdateFeature
    <3> QED BY <2>1, <3>1, <3>2
  <2> QED BY <2>2, <2>3
<1>6. TypeOK'
  BY <1>4, <1>5, MoveType DEF UpdateFeature, IInv, TypeOK
<1>7. Grows
  BY <1>1, <1>2, <1>3 DEF Grows, UpdateFeature
<1>8. \A s \in Tasks : task'[s] = task[s] \/ TaskOK(task[s])'
  BY ReturnOK DEF UpdateFeature, IInv
<1> QED BY <1>6, <1>7, <1>8, Frame DEF UpdateFeature

LEMMA MonthPassesInv ==
  ASSUME IInv, NEW d \in DOMAIN dynasties, MonthPasses(d)
  PROVE  IInv'
<1> DEFINE row == [dynasties[d] EXCEPT !.fresh = FALSE]
<1>1. dynasties \in Seq(Dynasty) /\ dynasties[d] \in Dynasty
  BY DEF IInv, TypeOK
<1>2. row \in Dynasty /\ row.user = dynasties[d].user
  BY <1>1 DEF Dynasty
<1>3. dynasties' = [dynasties EXCEPT ![d] = row]
  BY DEF MonthPasses
<1>4. dynasties' \in Seq(Dynasty)
  BY <1>1, <1>2, <1>3
<1>5. TypeOK'
  BY <1>4 DEF MonthPasses, penalties, IInv, TypeOK
<1>6. Grows
  BY <1>1, <1>2, <1>3 DEF Grows, MonthPasses
<1> QED BY <1>5, <1>6, Frame DEF MonthPasses

LEMMA InsertDynastyInv ==
  ASSUME IInv, NEW t \in Tasks, InsertDynasty(t)
  PROVE  IInv'
<1> DEFINE n == Len(dynasties) + 1
           row == [user |-> task[t].user, feature |-> task[t].feature,
                   family |-> FALSE, fresh |-> TRUE]
<1>1. task[t] \in Task /\ dynasties \in Seq(Dynasty) /\ n \in Nat
  BY TaskType DEF IInv, TypeOK
<1>2. row \in Dynasty
  BY <1>1 DEF Dynasty, Task
<1> PICK k : k = [task[t] EXCEPT !.pc = "family", !.id = n]
  OBVIOUS
<1>3. k \in Task /\ k.pc = "family" /\ k.id = n /\ k.user = task[t].user
  BY <1>1 DEF Task, Steps
<1>4. /\ dynasties' = Append(dynasties, row)
      /\ dynasties' \in Seq(Dynasty)
      /\ n \in DOMAIN dynasties' /\ dynasties'[n] = row
      /\ \A i \in DOMAIN dynasties : i \in DOMAIN dynasties' /\ dynasties'[i] = dynasties[i]
  BY <1>1, <1>2 DEF InsertDynasty
<1>5. task' = [task EXCEPT ![t] = k]
  BY DEF InsertDynasty, IInv, TypeOK
<1>6. TypeOK'
  BY <1>1, <1>3, <1>4, <1>5, TaskType DEF InsertDynasty, penalties, IInv, TypeOK
<1>7. Grows
  BY <1>4 DEF Grows, InsertDynasty
<1>8. \A s \in Tasks : task'[s] = task[s] \/ TaskOK(task[s])'
  <2>1. TaskOK(k)'
    BY <1>3, <1>4 DEF TaskOK, Replying, Accepting
  <2> QED BY <1>5, <2>1, OneMoves DEF IInv
<1> QED BY <1>6, <1>7, <1>8, Frame DEF InsertDynasty

LEMMA CreateFamilyInv ==
  ASSUME IInv, NEW t \in Tasks, CreateFamily(t)
  PROVE  IInv'
<1> DEFINE d == task[t].id
           row == [dynasties[d] EXCEPT !.family = TRUE]
<1>1. /\ task[t] \in Task /\ dynasties \in Seq(Dynasty) /\ d \in DOMAIN dynasties
      /\ dynasties[d] \in Dynasty /\ dynasties[d].user = task[t].user
  BY TaskType DEF IInv, TypeOK, CreateFamily, TaskOK
<1>2. row \in Dynasty /\ row.user = dynasties[d].user
  BY <1>1 DEF Dynasty
<1> PICK k : k = [task[t] EXCEPT !.pc = "owner"]
  OBVIOUS
<1>3. k \in Task /\ k.pc = "owner" /\ k.id = d /\ k.user = task[t].user
  BY <1>1 DEF Task, Steps
<1>4. /\ dynasties' = [dynasties EXCEPT ![d] = row]
      /\ dynasties' \in Seq(Dynasty)
  BY <1>1, <1>2 DEF CreateFamily
<1>5. task' = [task EXCEPT ![t] = k]
  BY DEF CreateFamily, Goto
<1>6. TypeOK'
  BY <1>3, <1>4, <1>5, TaskType DEF CreateFamily, penalties, IInv, TypeOK
<1>7. Grows
  BY <1>1, <1>2, <1>4 DEF Grows, CreateFamily
<1>8. \A s \in Tasks : task'[s] = task[s] \/ TaskOK(task[s])'
  <2>1. d \in DOMAIN dynasties' /\ dynasties'[d].user = task[t].user
    BY <1>1, <1>2, <1>4
  <2>2. TaskOK(k)'
    BY <1>3, <2>1 DEF TaskOK, Replying, Accepting
  <2> QED BY <1>5, <2>2, OneMoves DEF IInv
<1> QED BY <1>6, <1>7, <1>8, Frame DEF CreateFamily

-----------------------------------------------------------------------------
LEMMA AddedMember ==
  ASSUME IsABag(members), NEW m
  PROVE  /\ IsABag(members (+) SetToBag({m}))
         /\ DOMAIN (members (+) SetToBag({m})) = DOMAIN members \union {m}
<1> DEFINE b == members (+) SetToBag({m})
<1>1. /\ members \in [DOMAIN members -> {n \in Nat : n > 0}]
      /\ SetToBag({m}) = [e \in {m} |-> 1]
  BY DEF IsABag, SetToBag
<1>2. b = [e \in DOMAIN members \union {m} |->
             (IF e \in DOMAIN members THEN members[e] ELSE 0) + (IF e \in {m} THEN 1 ELSE 0)]
  BY <1>1 DEF (+)
<1> HIDE DEF b
<1>3. DOMAIN b = DOMAIN members \union {m}
  BY <1>2
<1>4. ASSUME NEW e \in DOMAIN b PROVE b[e] \in {n \in Nat : n > 0}
  <2>1. e \in DOMAIN members \/ e = m
    BY <1>3
  <2>2. e \in DOMAIN members => members[e] \in Nat /\ members[e] > 0
    BY <1>1
  <2>3. b[e] = (IF e \in DOMAIN members THEN members[e] ELSE 0) + (IF e \in {m} THEN 1 ELSE 0)
    BY <1>2, <1>3
  <2> QED BY <2>1, <2>2, <2>3
<1>5. b = [e \in DOMAIN b |-> b[e]]
  BY <1>2
<1>6. b \in [DOMAIN b -> {n \in Nat : n > 0}]
  BY <1>4, <1>5
<1> QED BY <1>3, <1>6 DEF b, IsABag

LEMMA AddOwnerInv ==
  ASSUME IInv, NEW t \in Tasks, AddOwner(t)
  PROVE  IInv'
<1> DEFINE d == task[t].id
<1> PICK m : m = [dynasty |-> d, user |-> task[t].user, rel |-> "owner"]
  OBVIOUS
<1>1. /\ task[t] \in Task /\ d \in DOMAIN dynasties
      /\ dynasties[d].user = task[t].user
  BY TaskType DEF IInv, TypeOK, AddOwner, TaskOK
<1>2. m \in Member /\ m.dynasty = d /\ m.user = task[t].user /\ m.rel = "owner"
  BY <1>1 DEF Member, Task
<1>3. IsABag(members') /\ DOMAIN members' = DOMAIN members \union {m}
  BY AddedMember DEF AddOwner, AddMember, IInv, TypeOK
<1>4. TypeOK'
  BY <1>2, <1>3, MoveType DEF AddOwner, penalties, IInv, TypeOK
<1>5. Grows
  BY <1>3 DEF Grows, AddOwner
<1>6. MemberOK(m)'
  BY <1>1, <1>2 DEF MemberOK, AddOwner
<1>7. \A s \in Tasks : task'[s] = task[s] \/ TaskOK(task[s])'
  BY ReturnOK DEF AddOwner, IInv
<1> QED BY <1>3, <1>4, <1>5, <1>6, <1>7, Frame DEF AddOwner

LEMMA CreateJoinRequestInv ==
  ASSUME IInv, NEW t \in Tasks, NEW u \in Users, NEW v \in Users, NEW r \in Relationships,
         CreateJoinRequest(t, u, v, r)
  PROVE  IInv'
<1> DEFINE row == [from |-> u, to |-> v, rel |-> r, status |-> "pending"]
<1>1. requests \in Seq(Request) /\ row \in Request
  BY DEF IInv, TypeOK, Request
<1>2. /\ requests' \in Seq(Request)
      /\ \A i \in DOMAIN requests : i \in DOMAIN requests' /\ requests'[i] = requests[i]
  <2>1. requests' = Append(requests, row)
    BY DEF CreateJoinRequest
  <2> QED BY <1>1, <2>1
<1>3. calls' \in 0..MaxCalls
  <2>1. calls \in 0..MaxCalls /\ calls < MaxCalls /\ calls' = calls + 1
    BY DEF CreateJoinRequest, IInv, TypeOK
  <2> QED BY <2>1, BoundsType
<1>4. Grows
  BY <1>2 DEF Grows, CreateJoinRequest
<1>5. CASE UNCHANGED task
  <2>1. TypeOK'
    BY <1>2, <1>3, <1>5 DEF CreateJoinRequest, penalties, IInv, TypeOK
  <2> QED BY <1>4, <1>5, <2>1, Frame DEF CreateJoinRequest
<1>6. ASSUME NEW g \in SUBSET Permissions,
             task' = [task EXCEPT ![t] = [Idle EXCEPT !.pc = "permit", !.perm =
                        [user |-> v, verified |-> FALSE, granted |-> g]]]
      PROVE  IInv'
  <2> PICK k : k = [Idle EXCEPT !.pc = "permit", !.perm =
                      [user |-> v, verified |-> FALSE, granted |-> g]]
    OBVIOUS
  <2>1. [user |-> v, verified |-> FALSE, granted |-> g] \in Perm
    BY DEF Perm
  <2>2. k \in Task /\ k.pc = "permit" /\ ~ k.perm.verified
    BY <2>1, IdleType DEF Task, Steps
  <2>3. TaskOK(k)'
    BY <2>2 DEF TaskOK, Replying, Accepting
  <2>4. TypeOK'
    BY <1>2, <1>3, <1>6, <2>2, TaskType DEF CreateJoinRequest, penalties, IInv, TypeOK
  <2>5. \A s \in Tasks : task'[s] = task[s] \/ TaskOK(task[s])'
    BY <1>6, <2>3, OneMoves DEF IInv
  <2> QED BY <1>4, <2>4, <2>5, Frame DEF CreateJoinRequest
<1> QED BY <1>5, <1>6 DEF CreateJoinRequest

LEMMA CreateChildPermissionInv ==
  ASSUME IInv, NEW t \in Tasks, CreateChildPermission(t)
  PROVE  IInv'
<1>1. /\ task[t].perm \in Perm /\ perms \in Seq(Perm) /\ ~ task[t].perm.verified
  BY TaskType DEF IInv, TypeOK, Task, TaskOK, CreateChildPermission
<1>2. /\ perms' \in Seq(Perm)
      /\ \A i \in DOMAIN perms' : perms'[i].verified =>
           i \in DOMAIN perms /\ perms'[i] = perms[i]
  BY <1>1 DEF CreateChildPermission
<1>3. TypeOK'
  BY <1>2, MoveType DEF CreateChildPermission, penalties, IInv, TypeOK
<1>4. Grows
  BY DEF Grows, CreateChildPermission
<1>5. \A s \in Tasks : task'[s] = task[s] \/ TaskOK(task[s])'
  BY ReturnOK DEF CreateChildPermission, IInv
<1> QED BY <1>2, <1>3, <1>4, <1>5, Frame DEF CreateChildPermission

LEMMA UpdateStatusInv ==
  ASSUME IInv, NEW t \in Tasks, UpdateStatus(t)
  PROVE  IInv'
<1> DEFINE i == task[t].id
<1> PICK row : row = [requests[i] EXCEPT !.status =
                        IF @ = "deleted" THEN @ ELSE task[t].op]
  OBVIOUS
<1>1. /\ task[t] \in Task /\ i \in DOMAIN requests /\ requests \in Seq(Request)
      /\ requests[i] \in Request /\ task[t].op \in {"accepted", "rejected", "deleted"}
      /\ task[t].op = "accepted" => task[t].user = requests[i].to
  BY TaskType DEF UpdateStatus, IInv, TypeOK, TaskOK, Replying
<1>2. /\ row \in Request /\ row.from = requests[i].from /\ row.to = requests[i].to
      /\ row.rel = requests[i].rel
  BY <1>1 DEF Request
<1>3. requests' = [requests EXCEPT ![i] = row]
  BY DEF UpdateStatus
<1>4. requests' \in Seq(Request) /\ i \in DOMAIN requests'
  BY <1>1, <1>2, <1>3
<1>5. TypeOK'
  BY <1>4, MoveType DEF UpdateStatus, penalties, IInv, TypeOK, Steps
<1>6. Grows
  BY <1>1, <1>2, <1>3 DEF Grows, UpdateStatus
<1>7. \A s \in Tasks : task'[s] = task[s] \/ TaskOK(task[s])'
  <2>1. CASE task[t].op # "accepted"
    BY <2>1, ReturnOK DEF UpdateStatus, IInv
  <2>2. CASE task[t].op = "accepted"
    <3> PICK k : k = [task[t] EXCEPT !.pc = "member"]
      OBVIOUS
    <3>1. k.pc = "member" /\ k.op = "accepted" /\ k.id = i /\ k.user = task[t].user
      BY <1>1, <2>2 DEF Task
    <3>2. requests'[i].to = task[t].user
      BY <1>1, <1>2, <1>3, <2>2
    <3>3. TaskOK(k)'
      BY <1>4, <3>1, <3>2 DEF TaskOK, Replying, Accepting
    <3>4. task' = [task EXCEPT ![t] = k]
      BY <2>2 DEF UpdateStatus, Goto
    <3> QED BY <3>3, <3>4, OneMoves DEF IInv
  <2> QED BY <2>1, <2>2
<1> QED BY <1>5, <1>6, <1>7, Frame DEF UpdateStatus

LEMMA CreateFamilyMemberInv ==
  ASSUME IInv, NEW t \in Tasks, CreateFamilyMember(t)
  PROVE  IInv'
<1> DEFINE req == requests[task[t].id]
<1>1. /\ task[t] \in Task /\ task[t].id \in DOMAIN requests /\ req \in Request
      /\ task[t].op = "accepted" /\ task[t].user = req.to
  BY TaskType DEF CreateFamilyMember, IInv, TypeOK, TaskOK, Replying, Accepting
<1>2. CASE Return(t) /\ UNCHANGED members
  <2>1. TypeOK'
    BY <1>2, MoveType DEF CreateFamilyMember, penalties, IInv, TypeOK
  <2> QED BY <1>2, <2>1, Along DEF CreateFamilyMember
<1>3. ASSUME NEW d \in DynastiesOf(req.from),
             members' = AddMember(d, task[t].user, req.rel), Goto(t, "age")
      PROVE  IInv'
  <2> PICK m : m = [dynasty |-> d, user |-> task[t].user, rel |-> req.rel]
    OBVIOUS
  <2> PICK k : k = [task[t] EXCEPT !.pc = "age"]
    OBVIOUS
  <2>1. d \in DOMAIN dynasties /\ d \in Nat /\ dynasties[d].user = req.from
    BY DEF DynastiesOf, IInv, TypeOK
  <2>2. /\ m \in Member /\ m.dynasty = d /\ m.user = task[t].user /\ m.rel = req.rel
        /\ m.rel # "owner"
    BY <1>1, <2>1, DynastyAssumption DEF Member, Task, Request
  <2>3. IsABag(members') /\ DOMAIN members' = DOMAIN members \union {m}
    BY <1>3, AddedMember DEF AddMember, IInv, TypeOK
  <2>4. TypeOK'
    BY <1>3, <2>2, <2>3, MoveType DEF CreateFamilyMember, penalties, IInv, TypeOK, Steps
  <2>5. Grows
    BY <2>3 DEF Grows, CreateFamilyMember
  <2>6. MemberOK(m)'
    BY <1>1, <2>1, <2>2 DEF MemberOK, CreateFamilyMember
  <2>7. /\ k.pc = "age" /\ k.op = "accepted" /\ k.id = task[t].id
        /\ k.user = task[t].user
    BY <1>1 DEF Task
  <2>8. Inserted(k)'
    BY <1>1, <2>1, <2>2, <2>3, <2>7 DEF Inserted, CreateFamilyMember
  <2>9. TaskOK(k)'
    BY <1>1, <2>7, <2>8 DEF TaskOK, Replying, Accepting, CreateFamilyMember
  <2>10. task' = [task EXCEPT ![t] = k]
    BY <1>3 DEF Goto
  <2>11. \A s \in Tasks : task'[s] = task[s] \/ TaskOK(task[s])'
    BY <2>9, <2>10, OneMoves DEF IInv
  <2> QED BY <2>3, <2>4, <2>5, <2>6, <2>11, Frame DEF CreateFamilyMember
<1> QED BY <1>2, <1>3 DEF CreateFamilyMember

(* The accepted request that t is about, and what t knows of it. *)
LEMMA Acceptance ==
  ASSUME IInv, NEW t \in Tasks, task[t].pc \in {"age", "verify", "award"}
  PROVE  LET req == requests[task[t].id]
         IN  /\ task[t] \in Task /\ task[t].id \in DOMAIN requests /\ req \in Request
             /\ task[t].op = "accepted" /\ task[t].user = req.to
             /\ Inserted(task[t])
BY TaskType DEF IInv, TypeOK, TaskOK, Replying, Accepting

(* After a step that changes no request and keeps the members, t goes on   *)
(* with the request it has accepted.                                       *)
LEMMA AcceptanceGoesOn ==
  ASSUME IInv, Grows, UNCHANGED requests,
         NEW t \in Tasks, task[t].pc \in {"age", "verify"}, Goto(t, "award")
  PROVE  \A s \in Tasks : task'[s] = task[s] \/ TaskOK(task[s])'
<1> PICK k : k = [task[t] EXCEPT !.pc = "award"]
  OBVIOUS
<1>1. /\ k.pc = "award" /\ k.op = "accepted" /\ k.id = task[t].id
      /\ k.user = requests[k.id].to /\ k.id \in DOMAIN requests
  BY Acceptance DEF Task
<1>2. Inserted(k)'
  BY <1>1, Acceptance DEF Inserted, Grows
<1>3. TaskOK(k)'
  BY <1>1, <1>2 DEF TaskOK, Replying, Accepting
<1>4. task' = [task EXCEPT ![t] = k]
  BY DEF Goto
<1> QED BY <1>3, <1>4, OneMoves DEF IInv

LEMMA CheckAgesInv ==
  ASSUME IInv, NEW t \in Tasks, CheckAges(t)
  PROVE  IInv'
<1> DEFINE req == requests[task[t].id]
<1>1. /\ task[t] \in Task /\ task[t].id \in DOMAIN requests /\ req \in Request
      /\ task[t].op = "accepted" /\ task[t].user = req.to /\ Inserted(task[t])
  BY Acceptance DEF CheckAges
<1>2. Grows
  BY DEF Grows, CheckAges
<1>3. ASSUME NEW g \in SUBSET Permissions, req.from \in Minors, req.rel = "father",
             perms' = Append(perms, [user |-> req.from, verified |-> TRUE, granted |-> g]),
             Goto(t, "award"), UNCHANGED faults
      PROVE  IInv'
  <2> PICK row : row = [user |-> req.from, verified |-> TRUE, granted |-> g]
    OBVIOUS
  <2>1. perms \in Seq(Perm) /\ row \in Perm /\ row.user = req.from
    BY <1>1 DEF IInv, TypeOK, Perm, Request
  <2>2. /\ perms' \in Seq(Perm)
        /\ \A i \in DOMAIN perms' : (i \in DOMAIN perms /\ perms'[i] = perms[i])
                                      \/ perms'[i] = row
    BY <1>3, <2>1
  <2>3. TypeOK'
    BY <1>3, <2>2, MoveType DEF CheckAges, penalties, IInv, TypeOK, Steps
  <2>4. Related(row.user)'
    BY <1>1, <1>3, <2>1 DEF Related, Inserted, CheckAges
  <2>5. ASSUME NEW i \in DOMAIN perms', perms'[i].verified
        PROVE  \/ \E j \in DOMAIN perms :
                    perms[j].verified /\ perms[j].user = perms'[i].user
               \/ Related(perms[i].user)'
    <3>1. CASE perms'[i] = row
      BY <2>4, <3>1 DEF Related
    <3> QED BY <2>2, <2>5, <3>1
  <2>6. \A s \in Tasks : task'[s] = task[s] \/ TaskOK(task[s])'
    BY <1>2, <1>3, AcceptanceGoesOn DEF CheckAges
  <2> QED BY <1>2, <2>3, <2>5, <2>6, Frame DEF CheckAges
<1>4. ASSUME req.to \in Minors, req.rel = "offspring",
             NEW i \in DOMAIN perms, perms[i].user = req.to,
             task' = [task EXCEPT ![t].pc = "verify",
                                  ![t].perm = [perms[i] EXCEPT !.verified = TRUE]],
             UNCHANGED <<perms, faults>>
      PROVE  IInv'
  <2> PICK p : p = [perms[i] EXCEPT !.verified = TRUE]
    OBVIOUS
  <2> PICK k : k = [task[t] EXCEPT !.pc = "verify", !.perm = p]
    OBVIOUS
  <2>1. perms[i] \in Perm
    BY DEF IInv, TypeOK
  <2>2. p \in Perm /\ p.user = req.to
    BY <1>4, <2>1 DEF Perm
  <2>3. /\ k \in Task /\ k.pc = "verify" /\ k.op = "accepted" /\ k.id = task[t].id
        /\ k.user = req.to /\ k.perm.user = req.to
    BY <1>1, <2>2 DEF Task, Steps
  <2>4. Inserted(k)
    BY <1>1, <2>3 DEF Inserted
  <2>5. TaskOK(k)
    BY <1>1, <1>4, <2>3, <2>4 DEF TaskOK, Replying, Accepting
  <2>6. task' = [task EXCEPT ![t] = k]
    BY <1>4 DEF IInv, TypeOK
  <2>7. TypeOK'
    <3>1. task' \in [Tasks -> Task]
      BY <2>3, <2>6 DEF IInv, TypeOK
    <3> QED BY <1>4, <3>1 DEF CheckAges, penalties, IInv, TypeOK
  <2>8. TaskOK(k)'
    BY <1>2, <2>5, TaskKept
  <2> QED BY <1>4, <2>6, <2>7, <2>8, TaskOnly DEF CheckAges
<1>5. ASSUME Goto(t, "award"), UNCHANGED perms, UNCHANGED faults \/ Fault
      PROVE  IInv'
  <2>1. faults' \in 0..MaxFaults
    BY <1>5, FaultType DEF IInv, TypeOK
  <2>2. TypeOK'
    BY <1>5, <2>1, MoveType DEF CheckAges, penalties, IInv, TypeOK, Steps
  <2>3. \A s \in Tasks : task'[s] = task[s] \/ TaskOK(task[s])'
    BY <1>2, <1>5, AcceptanceGoesOn DEF CheckAges
  <2> QED BY <1>2, <1>5, <2>2, <2>3, Frame DEF CheckAges
<1> QED BY <1>3, <1>4, <1>5 DEF CheckAges

(* Permissions are rewritten in place. *)
LEMMA RewrittenType ==
  ASSUME TypeOK, NEW S, NEW F, F = [i \in DOMAIN perms |-> IF i \in S THEN F[i] ELSE perms[i]],
         \A i \in DOMAIN perms \intersect S : F[i] \in Perm
  PROVE  F \in Seq(Perm) /\ DOMAIN F = DOMAIN perms
<1>1. perms \in Seq(Perm) /\ DOMAIN perms = 1..Len(perms) /\ Len(perms) \in Nat
  BY DEF TypeOK
<1>2. \A i \in DOMAIN perms : F[i] \in Perm
  BY <1>1
<1>3. F \in [1..Len(perms) -> Perm]
  BY <1>1, <1>2
<1> QED BY <1>1, <1>3, SequenceOfType

LEMMA VerifyPermissionsInv ==
  ASSUME IInv, NEW t \in Tasks, VerifyPermissions(t)
  PROVE  IInv'
<1> DEFINE own == {i \in DOMAIN perms : perms[i].user = task[t].user}
<1>1. /\ requests[task[t].id].rel = "offspring" /\ task[t].user \in Minors
      /\ task[t].perm.user = task[t].user /\ Inserted(task[t])
      /\ task[t].user = requests[task[t].id].to /\ task[t].perm \in Perm
  BY Acceptance, TaskType DEF VerifyPermissions, IInv, TaskOK, Task
<1>2. /\ DOMAIN perms' = DOMAIN perms
      /\ \A i \in DOMAIN perms :
           perms'[i] = IF perms[i].user = task[t].user THEN task[t].perm ELSE perms[i]
  BY DEF VerifyPermissions
<1>3. perms' \in Seq(Perm)
  <2>1. perms' = [i \in DOMAIN perms |-> IF i \in own THEN perms'[i] ELSE perms[i]]
    BY <1>2 DEF VerifyPermissions
  <2>2. \A i \in DOMAIN perms \intersect own : perms'[i] \in Perm
    BY <1>1, <1>2
  <2> HIDE DEF own
  <2> QED BY <2>1, <2>2, RewrittenType DEF IInv
<1>4. TypeOK'
  BY <1>3, MoveType DEF VerifyPermissions, penalties, IInv, TypeOK, Steps
<1>5. Grows
  BY DEF Grows, VerifyPermissions
<1>6. Related(task[t].user)
  BY <1>1 DEF Related, Inserted
<1>7. ASSUME NEW i \in DOMAIN perms', perms'[i].verified
      PROVE  \/ \E j \in DOMAIN perms :
                  perms[j].verified /\ perms[j].user = perms'[i].user
             \/ Related(perms[i].user)'
  <2>1. CASE perms[i].user = task[t].user
    <3>1. perms'[i].user = task[t].user
      BY <1>1, <1>2, <1>7, <2>1
    <3> QED BY <1>6, <3>1 DEF Related, VerifyPermissions
  <2>2. CASE perms[i].user # task[t].user
    BY <1>2, <1>7, <2>2
  <2> QED BY <2>1, <2>2
<1>8. \A s \in Tasks : task'[s] = task[s] \/ TaskOK(task[s])'
  BY <1>5, AcceptanceGoesOn DEF VerifyPermissions
<1> QED BY <1>4, <1>5, <1>7, <1>8, Frame DEF VerifyPermissions

LEMMA UpdatePermissionInv ==
  ASSUME IInv, NEW t \in Tasks, NEW p \in Permissions, UpdatePermission(t, p)
  PROVE  IInv'
<1> DEFINE own == {i \in DOMAIN perms : perms[i].user = task[t].user}
<1>1. /\ DOMAIN perms' = DOMAIN perms
      /\ \A i \in DOMAIN perms :
           perms'[i] = IF perms[i].user = task[t].user
                       THEN [perms[i] EXCEPT !.granted = @ \union {p}] ELSE perms[i]
  BY DEF UpdatePermission
<1>2. ASSUME NEW i \in DOMAIN perms
      PROVE  /\ perms'[i] \in Perm /\ perms'[i].user = perms[i].user
             /\ perms'[i].verified = perms[i].verified
  <2>1. perms[i] \in Perm
    BY DEF IInv, TypeOK
  <2> QED BY <1>1, <2>1 DEF Perm
<1>3. perms' \in Seq(Perm)
  <2>1. perms' = [i \in DOMAIN perms |-> IF i \in own THEN perms'[i] ELSE perms[i]]
    BY <1>1 DEF UpdatePermission
  <2> QED BY <1>2, <2>1, RewrittenType DEF IInv
<1>4. TypeOK'
  BY <1>3, MoveType DEF UpdatePermission, penalties, IInv, TypeOK
<1>5. Grows
  BY DEF Grows, UpdatePermission
<1>6. \A s \in Tasks : task'[s] = task[s] \/ TaskOK(task[s])'
  BY ReturnOK DEF UpdatePermission, IInv
<1> QED BY <1>1, <1>2, <1>4, <1>5, <1>6, Frame DEF UpdatePermission

-----------------------------------------------------------------------------
LEMMA NextInv ==
  ASSUME IInv, [Next]_vars
  PROVE  IInv'
<1>1. ASSUME NEW t \in Tasks, Step(t) PROVE IInv'
  BY <1>1, InsertDynastyInv, CreateFamilyInv, AddOwnerInv, CreateChildPermissionInv,
     UpdateStatusInv, CreateFamilyMemberInv, CheckAgesInv, VerifyPermissionsInv,
     AwardPrizeInv, IncrementWalletPSCInv, IncrementSatisfactionInv, RedeemInv,
     CreateDebtInv, LockFeatureInv, SetFeatureLabelInv, UpdateFeatureInv,
     UpdatePermissionInv, FailsInv DEF Step
<1>2. ASSUME NEW t \in Tasks, NEW u \in Users, Call(t, u) PROVE IInv'
  BY <1>2, CheckDynastyInv, CreateJoinRequestInv, ReadRequestInv, CanControlPermissionsInv,
     GetReceivedPrizeInv, ReadDynastyInv DEF Call
<1>3. CASE UNCHANGED vars
  <2>1. Grows
    BY <1>3 DEF Grows, vars
  <2>2. TypeOK'
    BY <1>3 DEF vars, IInv, TypeOK
  <2> QED BY <1>3, <2>1, <2>2, Frame DEF vars
<1> QED BY <1>1, <1>2, <1>3, MonthPassesInv DEF Next

(* The invariant says what the properties say. *)
LEMMA InvFamily ==
  ASSUME IInv
  PROVE  FamilyInv
<1>1. MembersWereInvited
  BY DEF IInv, MemberOK, MembersWereInvited
<1>2. VerifiedIsRelated
  BY DEF IInv, Related, VerifiedIsRelated, DynastiesOf
<1> QED BY <1>1, <1>2 DEF IInv, FamilyInv

(* Whatever calls of dynasty-service overlap or fail: nobody is in a       *)
(* family whose owner did not invite her for this relationship, and        *)
(* verified permissions belong to a minor with a parent in a family.       *)
THEOREM FamiliesAgree == Spec => []FamilyInv
<1>1. Init => IInv
  BY InitInv
<1>2. IInv /\ [Next]_vars => IInv'
  BY NextInv
<1>3. IInv => FamilyInv
  BY InvFamily
<1> QED BY <1>1, <1>2, <1>3, PTL DEF Spec

-----------------------------------------------------------------------------
(* A claim that has come to its second or third step has paid before. *)
PaidBefore(k) ==
  /\ k.pc \in {"satisfaction", "redeem"} => paid[k.id].psc >= 1
  /\ k.pc = "redeem" => paid[k.id].satisfaction >= 1

ClaimInv == ClaimedIsPaid /\ \A t \in Tasks : PaidBefore(task[t])

(* What is paid is not taken back, and a receipt stays claimed. *)
PaidGrows ==
  \A i \in DOMAIN prizes :
    /\ i \in DOMAIN prizes'
    /\ paid'[i].psc >= paid[i].psc /\ paid'[i].satisfaction >= paid[i].satisfaction
    /\ paid'[i].boosts >= paid[i].boosts

(* A step keeps ClaimInv when the receipts and claims it changes are right *)
(* after it.                                                               *)
LEMMA ClaimFrame ==
  ASSUME IInv, IInv', ClaimInv, PaidGrows,
         \A i \in DOMAIN prizes' : \/ prizes'[i].open
                                   \/ i \in DOMAIN prizes /\ ~ prizes[i].open
                                   \/ /\ paid'[i].psc >= 1 /\ paid'[i].satisfaction >= 1
                                      /\ paid'[i].boosts >= 1,
         \A t \in Tasks : task'[t] = task[t] \/ PaidBefore(task[t])'
  PROVE  ClaimInv'
<1>1. ASSUME NEW i \in DOMAIN prizes
      PROVE  /\ paid[i].psc \in Nat /\ paid[i].satisfaction \in Nat /\ paid[i].boosts \in Nat
             /\ i \in DOMAIN prizes'
             /\ paid'[i].psc \in Nat /\ paid'[i].satisfaction \in Nat
             /\ paid'[i].boosts \in Nat
  <2>1. paid[i] \in Paid
    BY DEF IInv, TypeOK
  <2>2. i \in DOMAIN prizes' /\ paid'[i] \in Paid
    BY DEF PaidGrows, IInv, TypeOK
  <2> QED BY <2>1, <2>2 DEF Paid
<1>2. ClaimedIsPaid'
  <2>1. ASSUME NEW i \in DOMAIN prizes', ~ prizes'[i].open
        PROVE  paid'[i].psc >= 1 /\ paid'[i].satisfaction >= 1 /\ paid'[i].boosts >= 1
    <3>1. CASE i \in DOMAIN prizes /\ ~ prizes[i].open
      <4>1. paid[i].psc >= 1 /\ paid[i].satisfaction >= 1 /\ paid[i].boosts >= 1
        BY <3>1 DEF ClaimInv, ClaimedIsPaid
      <4> QED BY <1>1, <3>1, <4>1 DEF PaidGrows
    <3> QED BY <2>1, <3>1
  <2> QED BY <2>1 DEF ClaimedIsPaid
<1>3. ASSUME NEW t \in Tasks PROVE PaidBefore(task[t])'
  <2>1. CASE task'[t] = task[t]
    <3>1. PaidBefore(task[t]) /\ TaskOK(task[t])
      BY DEF ClaimInv, IInv
    <3>2. task[t].pc \in {"satisfaction", "redeem"} => task[t].id \in DOMAIN prizes
      BY <3>1 DEF TaskOK
    <3> QED BY <1>1, <2>1, <3>1, <3>2 DEF PaidBefore, PaidGrows
  <2> QED BY <2>1
<1> QED BY <1>2, <1>3 DEF ClaimInv

(* Steps outside of ClaimPrize. *)
LEMMA NotPaying ==
  ASSUME IInv, IInv', ClaimInv, UNCHANGED <<prizes, paid>>,
         \A t \in Tasks : task'[t] = task[t] \/ task'[t].pc \notin {"satisfaction", "redeem"}
  PROVE  ClaimInv'
<1>1. PaidGrows
  <2>1. ASSUME NEW i \in DOMAIN prizes PROVE paid[i] \in Paid
    BY DEF IInv, TypeOK
  <2> QED BY <2>1 DEF PaidGrows, Paid
<1>2. \A t \in Tasks : task'[t] = task[t] \/ PaidBefore(task[t])'
  BY DEF PaidBefore
<1> QED BY <1>1, <1>2, ClaimFrame

(* What a step that calls Goto or Return does to the other goroutines. *)
LEMMA MovesOnly ==
  ASSUME IInv, NEW t \in Tasks, NEW p \in Steps, Goto(t, p) \/ Return(t)
  PROVE  \A s \in Tasks : \/ task'[s] = task[s]
                          \/ s = t /\ task'[s].pc = p /\ task'[s].id = task[t].id
                          \/ s = t /\ task'[s].pc = "idle"
<1>1. CASE Return(t)
  BY <1>1, IdleType DEF Return, IInv, TypeOK
<1>2. CASE Goto(t, p)
  BY <1>2, TaskType DEF Goto, IInv, TypeOK, Task
<1> QED BY <1>1, <1>2

(* What was paid are numbers, which a credit counts up. *)
LEMMA CountedUp ==
  ASSUME IInv
  PROVE  /\ paid \in Seq(Paid) /\ DOMAIN paid = DOMAIN prizes
         /\ \A j \in DOMAIN prizes :
              paid[j].psc \in Nat /\ paid[j].satisfaction \in Nat /\ paid[j].boosts \in Nat
<1>1. paid \in Seq(Paid) /\ DOMAIN paid = DOMAIN prizes
  BY DEF IInv, TypeOK
<1>2. \A j \in DOMAIN prizes : paid[j] \in Paid
  BY <1>1
<1> QED BY <1>1, <1>2 DEF Paid

LEMMA Credited ==
  ASSUME IInv, NEW i \in DOMAIN prizes, NEW p \in Paid, paid' = [paid EXCEPT ![i] = p],
         p.psc >= paid[i].psc, p.satisfaction >= paid[i].satisfaction,
         p.boosts >= paid[i].boosts, DOMAIN prizes' = DOMAIN prizes
  PROVE  paid'[i] = p /\ PaidGrows
<1>1. paid'[i] = p /\ \A j \in DOMAIN prizes : j # i => paid'[j] = paid[j]
  BY CountedUp
<1>2. ASSUME NEW j \in DOMAIN prizes
      PROVE  /\ paid'[j].psc >= paid[j].psc /\ paid'[j].satisfaction >= paid[j].satisfaction
             /\ paid'[j].boosts >= paid[j].boosts
  <2>1. CASE j = i
    BY <1>1, <2>1
  <2>2. CASE j # i
    <3>1. paid'[j] = paid[j]
      BY <1>1, <2>2
    <3> QED BY <3>1, CountedUp
  <2> QED BY <2>1, <2>2
<1> QED BY <1>1, <1>2 DEF PaidGrows

LEMMA PayStep ==
  ASSUME IInv, IInv', ClaimInv, NEW t \in Tasks,
         \/ IncrementWalletPSC(t) \/ IncrementSatisfaction(t) \/ Redeem(t)
  PROVE  ClaimInv'
<1> DEFINE i == task[t].id
<1>1. i \in DOMAIN prizes /\ TaskOK(task[t]) /\ PaidBefore(task[t])
  BY DEF IInv, TaskOK, ClaimInv, IncrementWalletPSC, IncrementSatisfaction, Redeem
<1>2. /\ paid[i] \in Paid
      /\ paid[i].psc \in Nat /\ paid[i].satisfaction \in Nat /\ paid[i].boosts \in Nat
  BY <1>1, CountedUp
<1>3. CASE IncrementWalletPSC(t)
  <2>1. prizes' = prizes /\ paid' = [paid EXCEPT ![i].psc = @ + 1]
    BY <1>3 DEF IncrementWalletPSC, tables
  <2>2. PaidGrows /\ paid'[i].psc >= 1
    <3> PICK p : p = [paid[i] EXCEPT !.psc = @ + 1]
      OBVIOUS
    <3>1. /\ p \in Paid /\ p.psc = paid[i].psc + 1 /\ p.satisfaction = paid[i].satisfaction
          /\ p.boosts = paid[i].boosts
      BY <1>2 DEF Paid
    <3>2. paid' = [paid EXCEPT ![i] = p]
      BY <2>1
    <3>3. p.psc >= 1 /\ p.psc >= paid[i].psc /\ p.satisfaction >= paid[i].satisfaction
          /\ p.boosts >= paid[i].boosts
      BY <1>2, <3>1
    <3>4. DOMAIN prizes' = DOMAIN prizes
      BY <2>1
    <3> QED BY <1>1, <3>1, <3>2, <3>3, <3>4, Credited
  <2>3. \A s \in Tasks : \/ task'[s] = task[s]
                         \/ task'[s].pc = "satisfaction" /\ task'[s].id = i
                         \/ task'[s].pc = "idle"
    BY <1>3, MovesOnly DEF IncrementWalletPSC, Steps
  <2>4. \A s \in Tasks : task'[s] = task[s] \/ PaidBefore(task[s])'
    BY <2>2, <2>3 DEF PaidBefore
  <2> QED BY <2>1, <2>2, <2>4, ClaimFrame
<1>4. CASE IncrementSatisfaction(t)
  <2>1. prizes' = prizes /\ paid' = [paid EXCEPT ![i].satisfaction = @ + 1]
    BY <1>4 DEF IncrementSatisfaction, tables
  <2>2. PaidGrows /\ paid'[i].psc >= 1 /\ paid'[i].satisfaction >= 1
    <3> PICK p : p = [paid[i] EXCEPT !.satisfaction = @ + 1]
      OBVIOUS
    <3>1. paid[i].psc >= 1
      BY <1>1, <1>4 DEF PaidBefore, IncrementSatisfaction
    <3>2. /\ p \in Paid /\ p.psc = paid[i].psc /\ p.satisfaction = paid[i].satisfaction + 1
          /\ p.boosts = paid[i].boosts
      BY <1>2 DEF Paid
    <3>3. paid' = [paid EXCEPT ![i] = p]
      BY <2>1
    <3>4. /\ p.psc >= 1 /\ p.satisfaction >= 1
          /\ p.psc >= paid[i].psc /\ p.satisfaction >= paid[i].satisfaction
          /\ p.boosts >= paid[i].boosts
      BY <1>2, <3>1, <3>2
    <3>5. DOMAIN prizes' = DOMAIN prizes
      BY <2>1
    <3> QED BY <1>1, <3>2, <3>3, <3>4, <3>5, Credited
  <2>3. \A s \in Tasks : \/ task'[s] = task[s]
                         \/ task'[s].pc = "redeem" /\ task'[s].id = i
                         \/ task'[s].pc = "idle"
    BY <1>4, MovesOnly DEF IncrementSatisfaction, Steps
  <2>4. \A s \in Tasks : task'[s] = task[s] \/ PaidBefore(task[s])'
    BY <2>2, <2>3 DEF PaidBefore
  <2> QED BY <2>1, <2>2, <2>4, ClaimFrame
<1>5. CASE Redeem(t)
  <2>1. /\ prizes' = [prizes EXCEPT ![i].open = FALSE]
        /\ paid' = [paid EXCEPT ![i].boosts = @ + 1]
    BY <1>5 DEF Redeem
  <2>2. /\ PaidGrows
        /\ paid'[i].psc >= 1 /\ paid'[i].satisfaction >= 1 /\ paid'[i].boosts >= 1
    <3>1. paid[i].psc >= 1 /\ paid[i].satisfaction >= 1
      BY <1>1, <1>5 DEF PaidBefore, Redeem
    <3> PICK p : p = [paid[i] EXCEPT !.boosts = @ + 1]
      OBVIOUS
    <3>2. /\ p \in Paid /\ p.psc = paid[i].psc /\ p.satisfaction = paid[i].satisfaction
          /\ p.boosts = paid[i].boosts + 1
      BY <1>2 DEF Paid
    <3>3. paid' = [paid EXCEPT ![i] = p]
      BY <2>1
    <3>4. /\ p.psc >= 1 /\ p.satisfaction >= 1 /\ p.boosts >= 1
          /\ p.psc >= paid[i].psc /\ p.satisfaction >= paid[i].satisfaction
          /\ p.boosts >= paid[i].boosts
      BY <1>2, <3>1, <3>2
    <3>5. DOMAIN prizes' = DOMAIN prizes
      BY <2>1 DEF IInv, TypeOK
    <3> QED BY <1>1, <3>2, <3>3, <3>4, <3>5, Credited
  <2>3. \A j \in DOMAIN prizes' : j = i \/ (j \in DOMAIN prizes /\ prizes'[j] = prizes[j])
    BY <2>1
  <2>4. \A s \in Tasks : task'[s] = task[s] \/ task'[s].pc = "idle"
    BY <1>5, IdleType DEF Redeem, Return, IInv, TypeOK
  <2>5. \A s \in Tasks : task'[s] = task[s] \/ PaidBefore(task[s])'
    BY <2>4 DEF PaidBefore
  <2>6. \A j \in DOMAIN prizes' : prizes'[j].open \in BOOLEAN
    <3>1. \A j \in DOMAIN prizes' : prizes'[j] \in Prize
      BY DEF IInv, TypeOK
    <3> QED BY <3>1 DEF Prize
  <2> QED BY <2>2, <2>3, <2>5, <2>6, ClaimFrame
<1> QED BY <1>3, <1>4, <1>5

LEMMA AwardStep ==
  ASSUME IInv, IInv', ClaimInv, NEW t \in Tasks, AwardPrize(t)
  PROVE  ClaimInv'
<1>1. \A s \in Tasks : task'[s] = task[s] \/ task'[s].pc = "idle"
  BY IdleType DEF AwardPrize, Return, IInv, TypeOK
<1>2. CASE UNCHANGED <<prizes, paid>>
  BY <1>1, <1>2, NotPaying
<1>3. ASSUME NEW row, row.open = TRUE, prizes' = Append(prizes, row),
             paid' = Append(paid, Unpaid)
      PROVE  ClaimInv'
  <2>1. /\ \A i \in DOMAIN prizes : /\ i \in DOMAIN prizes' /\ prizes'[i] = prizes[i]
                                    /\ paid'[i] = paid[i]
        /\ \A i \in DOMAIN prizes' : i \in DOMAIN prizes \/ prizes'[i] = row
    BY <1>3 DEF IInv, TypeOK
  <2>2. PaidGrows
    BY <2>1, CountedUp DEF PaidGrows
  <2>3. \A s \in Tasks : task'[s] = task[s] \/ PaidBefore(task[s])'
    BY <1>1 DEF PaidBefore
  <2> QED BY <1>3, <2>1, <2>2, <2>3, ClaimFrame
<1> QED BY <1>2, <1>3 DEF AwardPrize

(* The other steps of a goroutine. *)
LEMMA OtherStep ==
  ASSUME IInv, IInv', ClaimInv, NEW t \in Tasks, Step(t)
  PROVE  ClaimInv'
<1>1. CASE IncrementWalletPSC(t) \/ IncrementSatisfaction(t) \/ Redeem(t)
  BY <1>1, PayStep
<1>2. CASE AwardPrize(t)
  BY <1>2, AwardStep
<1>3. CASE InsertDynasty(t)
  BY <1>3, NotPaying, TaskType DEF InsertDynasty, IInv, TypeOK, Task
<1>4. CASE CreateFamily(t) \/ AddOwner(t) \/ CreateChildPermission(t)
  <2>1. Goto(t, "owner") \/ Return(t)
    BY <1>4 DEF CreateFamily, AddOwner, CreateChildPermission
  <2> QED BY <1>4, <2>1, MovesOnly, NotPaying
          DEF CreateFamily, AddOwner, CreateChildPermission, Steps
<1>5. CASE UpdateStatus(t) \/ CreateFamilyMember(t) \/ VerifyPermissions(t)
  <2>1. Goto(t, "member") \/ Goto(t, "age") \/ Goto(t, "award") \/ Return(t)
    BY <1>5 DEF UpdateStatus, CreateFamilyMember, VerifyPermissions
  <2>2. \A s \in Tasks : \/ task'[s] = task[s]
                         \/ task'[s].pc \in {"member", "age", "award", "idle"}
    BY <2>1, MovesOnly DEF Steps
  <2>3. UNCHANGED <<prizes, paid>>
    BY <1>5 DEF UpdateStatus, CreateFamilyMember, VerifyPermissions
  <2> QED BY <2>2, <2>3, NotPaying
<1>6. CASE CheckAges(t)
  <2>1. \A s \in Tasks : task'[s] = task[s] \/ task'[s].pc \in {"verify", "award"}
    <3>1. CASE Goto(t, "award")
      BY <3>1, TaskType DEF Goto, IInv, TypeOK, Task
    <3>2. ASSUME NEW p, task' = [task EXCEPT ![t].pc = "verify", ![t].perm = p]
          PROVE  \A s \in Tasks : task'[s] = task[s] \/ task'[s].pc \in {"verify", "award"}
      <4>1. task' = [task EXCEPT ![t] = [task[t] EXCEPT !.pc = "verify", !.perm = p]]
        BY <3>2 DEF IInv, TypeOK
      <4>2. [task[t] EXCEPT !.pc = "verify", !.perm = p].pc = "verify"
        BY TaskType DEF IInv, Task
      <4> QED BY <4>1, <4>2 DEF IInv, TypeOK
    <3>3. \/ Goto(t, "award")
          \/ \E i \in DOMAIN perms :
               task' = [task EXCEPT ![t].pc = "verify",
                                    ![t].perm = [perms[i] EXCEPT !.verified = TRUE]]
      BY <1>6 DEF CheckAges
    <3> QED BY <3>1, <3>2, <3>3
  <2>2. UNCHANGED <<prizes, paid>>
    BY <1>6 DEF CheckAges
  <2> QED BY <2>1, <2>2, NotPaying
<1>7. CASE CreateDebt(t) \/ LockFeature(t) \/ SetFeatureLabel(t) \/ UpdateFeature(t)
  <2>1. Goto(t, "lock") \/ Goto(t, "label") \/ Goto(t, "move") \/ Return(t)
    BY <1>7 DEF CreateDebt, LockFeature, SetFeatureLabel, UpdateFeature
  <2>2. \A s \in Tasks : \/ task'[s] = task[s]
                         \/ task'[s].pc \in {"lock", "label", "move", "idle"}
    BY <2>1, MovesOnly DEF Steps
  <2>3. UNCHANGED <<prizes, paid>>
    BY <1>7 DEF CreateDebt, LockFeature, SetFeatureLabel, UpdateFeature
  <2> QED BY <2>2, <2>3, NotPaying
<1>8. ASSUME Return(t), UNCHANGED <<prizes, paid>> PROVE ClaimInv'
  <2>1. \A s \in Tasks : task'[s] = task[s] \/ task'[s].pc = "idle"
    BY <1>8, IdleType DEF Return, IInv, TypeOK
  <2> QED BY <1>8, <2>1, NotPaying
<1>9. CASE Fails(t) \/ \E p \in Permissions : UpdatePermission(t, p)
  BY <1>8, <1>9 DEF Fails, UpdatePermission, tables
<1> QED BY <1>1, <1>2, <1>3, <1>4, <1>5, <1>6, <1>7, <1>9 DEF Step

LEMMA CallStep ==
  ASSUME IInv, IInv', ClaimInv, NEW t \in Tasks, NEW u \in Users, Call(t, u)
  PROVE  ClaimInv'
<1>1. ASSUME NEW k, k.pc \notin {"satisfaction", "redeem"},
             task' = task \/ task' = [task EXCEPT ![t] = k], UNCHANGED <<prizes, paid>>
      PROVE  ClaimInv'
  BY <1>1, NotPaying DEF IInv, TypeOK
<1>2. ASSUME NEW f \in Features, CheckDynasty(t, u, f) PROVE ClaimInv'
  <2> PICK k : k = [Idle EXCEPT !.pc = "insert", !.user = u, !.feature = f]
    OBVIOUS
  <2>1. k.pc = "insert"
    BY IdleType DEF Task
  <2> QED BY <1>1, <1>2, <2>1 DEF CheckDynasty, tables
<1>3. ASSUME NEW v \in Users, NEW r \in Relationships, CreateJoinRequest(t, u, v, r)
      PROVE  ClaimInv'
  <2>1. CASE UNCHANGED task
    BY <1>3, <2>1, NotPaying DEF CreateJoinRequest
  <2>2. ASSUME NEW g, task' = [task EXCEPT ![t] = [Idle EXCEPT !.pc = "permit", !.perm = g]]
        PROVE  ClaimInv'
    <3> PICK k : k = [Idle EXCEPT !.pc = "permit", !.perm = g]
      OBVIOUS
    <3>1. k.pc = "permit"
      BY IdleType DEF Task
    <3> QED BY <1>1, <1>3, <2>2, <3>1 DEF CreateJoinRequest
  <2> QED BY <1>3, <2>1, <2>2 DEF CreateJoinRequest
<1>4. ASSUME NEW pc \in {"status", "grant", "psc"}, NEW op, NEW v, NEW i,
             Begin(t, pc, op, v, i), UNCHANGED <<tables, paid>>
      PROVE  ClaimInv'
  <2> PICK k : k = [Idle EXCEPT !.pc = pc, !.op = op, !.user = v, !.id = i]
    OBVIOUS
  <2>1. k.pc = pc
    BY IdleType DEF Task
  <2> QED BY <1>1, <1>4, <2>1 DEF Begin, tables
<1>5. ASSUME NEW d \in DOMAIN dynasties, NEW f \in Features, ReadDynasty(t, u, d, f)
      PROVE  ClaimInv'
  <2> PICK k : k = [Idle EXCEPT !.pc = IF dynasties[d].fresh THEN "debt" ELSE "move",
                      !.id = d, !.user = u, !.feature = f, !.left = dynasties[d].feature,
                      !.fresh = dynasties[d].fresh]
    OBVIOUS
  <2>1. k.pc \in {"debt", "move"}
    BY IdleType DEF Task
  <2> QED BY <1>1, <1>5, <2>1 DEF ReadDynasty, tables
<1> QED BY <1>2, <1>3, <1>4, <1>5
        DEF Call, ReadRequest, CanControlPermissions, GetReceivedPrize

LEMMA ClaimInductive ==
  /\ Init => ClaimInv
  /\ IInv /\ IInv' /\ ClaimInv /\ [Next]_vars => ClaimInv'
<1>1. ASSUME Init PROVE ClaimInv
  <2>1. \A i \in DOMAIN prizes : prizes[i].open
    BY <1>1 DEF Init
  <2>2. \A t \in Tasks : task[t].pc = "idle"
    BY <1>1, IdleType DEF Init
  <2> QED BY <2>1, <2>2 DEF ClaimInv, ClaimedIsPaid, PaidBefore
<1>2. ASSUME IInv, IInv', ClaimInv, [Next]_vars PROVE ClaimInv'
  <2>1. ASSUME NEW d \in DOMAIN dynasties, MonthPasses(d) PROVE ClaimInv'
    BY <1>2, <2>1, NotPaying DEF MonthPasses
  <2>2. CASE UNCHANGED vars
    BY <1>2, <2>2, NotPaying DEF vars
  <2> QED BY <1>2, <2>1, <2>2, OtherStep, CallStep DEF Next
<1> QED BY <1>1, <1>2

(* However claims overlap, fail and are repeated: a receipt is deleted     *)
(* only after both credits of its prize were made and with its boosts.     *)
THEOREM ClaimsArePaid == Spec => []ClaimedIsPaid
<1>1. Init => IInv
  BY InitInv
<1>2. IInv /\ [Next]_vars => IInv'
  BY NextInv
<1>3. ClaimInv => ClaimedIsPaid
  BY DEF ClaimInv
<1> QED BY <1>1, <1>2, <1>3, ClaimInductive, PTL DEF Spec

-----------------------------------------------------------------------------
(* How a step changes goroutines: only t moves; it goes on with its call,  *)
(* or ends it.                                                             *)
Alone(t)      == \A s \in Tasks \ {t} : task'[s] = task[s]
Forward(t, p) == /\ Alone(t) /\ task'[t].pc = p
                 /\ task'[t].user = task[t].user /\ task'[t].id = task[t].id
                 /\ task'[t].left = task[t].left /\ task'[t].fresh = task[t].fresh
                 /\ task'[t].op = task[t].op
Ended(t)      == Alone(t) /\ task'[t].pc = "idle"

(* What Goto and Return do to goroutines. *)
LEMMA ForwardStep ==
  ASSUME IInv, NEW t \in Tasks
  PROVE  /\ \A p \in Steps : Goto(t, p) => Forward(t, p)
         /\ Return(t) => Ended(t)
<1>1. ASSUME NEW p \in Steps, Goto(t, p) PROVE Forward(t, p)
  <2>1. PICK k : k = [task[t] EXCEPT !.pc = p]
    OBVIOUS
  <2>2. task[t] \in Task /\ task \in [Tasks -> Task]
    BY DEF IInv, TypeOK
  <2>3. /\ k.pc = p /\ k.user = task[t].user /\ k.id = task[t].id /\ k.left = task[t].left
        /\ k.fresh = task[t].fresh /\ k.op = task[t].op
    BY <2>1, <2>2 DEF Task
  <2>4. task' = [task EXCEPT ![t] = k]
    BY <1>1, <2>1 DEF Goto
  <2> QED BY <2>2, <2>3, <2>4 DEF Forward, Alone
<1>2. ASSUME Return(t) PROVE Ended(t)
  BY <1>2, IdleType DEF Return, Ended, Alone, IInv, TypeOK
<1> QED BY <1>1, <1>2

(* The step of a goroutine, by where it comes from and goes to. *)
Kind(t) ==
  \/ /\ InsertDynasty(t) /\ Alone(t) /\ task'[t].pc = "family"
     /\ task'[t].id = Len(dynasties) + 1
  \/ CreateFamily(t) /\ Forward(t, "owner")
  \/ UpdateStatus(t) /\ Forward(t, "member")
  \/ /\ CreateFamilyMember(t) /\ Forward(t, "age")
     /\ \E d \in DynastiesOf(requests[task[t].id].from) :
          members' = AddMember(d, task[t].user, requests[task[t].id].rel)
  \/ CheckAges(t) /\ (Forward(t, "verify") \/ Forward(t, "award"))
  \/ VerifyPermissions(t) /\ Forward(t, "award")
  \/ IncrementWalletPSC(t) /\ Forward(t, "satisfaction")
  \/ IncrementSatisfaction(t) /\ Forward(t, "redeem")
  \/ CreateDebt(t) /\ Forward(t, "lock")
  \/ LockFeature(t) /\ Forward(t, "label")
  \/ SetFeatureLabel(t) /\ Forward(t, "move")
  \/ AddOwner(t) /\ Ended(t)
  \/ CreateChildPermission(t) /\ Ended(t)
  \/ UpdateStatus(t) /\ Ended(t)
  \/ CreateFamilyMember(t) /\ Ended(t) /\ UNCHANGED members
  \/ AwardPrize(t) /\ Ended(t)
  \/ IncrementWalletPSC(t) /\ Fault /\ Ended(t)
  \/ IncrementSatisfaction(t) /\ Fault /\ Ended(t)
  \/ Redeem(t) /\ Ended(t)
  \/ UpdateFeature(t) /\ Ended(t)
  \/ (\E p \in Permissions : UpdatePermission(t, p)) /\ Ended(t)
  \/ Fails(t) /\ Ended(t)

(* The INSERT of a dynasty takes its call to the INSERT of the family. *)
LEMMA InsertKind ==
  ASSUME IInv, NEW t \in Tasks, InsertDynasty(t)
  PROVE  /\ Alone(t) /\ task'[t].pc = "family" /\ task'[t].id = Len(dynasties) + 1
         /\ faults' = faults
<1>1. PICK k : k = [task[t] EXCEPT !.pc = "family", !.id = Len(dynasties) + 1]
  OBVIOUS
<1>2. task[t] \in Task /\ task \in [Tasks -> Task]
  BY DEF IInv, TypeOK
<1>3. task' = [task EXCEPT ![t] = k]
  BY <1>1, <1>2 DEF InsertDynasty
<1>4. k.pc = "family" /\ k.id = Len(dynasties) + 1
  BY <1>1, <1>2 DEF Task
<1> QED BY <1>2, <1>3, <1>4 DEF Alone, InsertDynasty

LEMMA StepKind ==
  ASSUME IInv, NEW t \in Tasks, Step(t)
  PROVE  Kind(t)
<1>1. /\ \A p \in {"owner", "member", "age", "verify", "award", "satisfaction", "redeem",
                   "lock", "label", "move"} : Goto(t, p) => Forward(t, p)
      /\ Return(t) => Ended(t)
  BY ForwardStep DEF Steps
<1>2. CASE InsertDynasty(t)
  BY <1>2, InsertKind DEF Kind
<1>3. CASE CreateFamily(t)
  BY <1>1, <1>3 DEF CreateFamily, Kind
<1>4. CASE UpdateStatus(t)
  BY <1>1, <1>4 DEF UpdateStatus, Kind
<1>5. CASE CreateFamilyMember(t)
  BY <1>1, <1>5 DEF CreateFamilyMember, Kind
<1>6. CASE CheckAges(t)
  <2>1. ASSUME NEW q, task' = [task EXCEPT ![t].pc = "verify", ![t].perm = q]
        PROVE  Forward(t, "verify")
    <3>1. PICK k : k = [task[t] EXCEPT !.pc = "verify", !.perm = q]
      OBVIOUS
    <3>2. task[t] \in Task /\ task \in [Tasks -> Task]
      BY DEF IInv, TypeOK
    <3>3. task' = [task EXCEPT ![t] = k]
      BY <2>1, <3>1, <3>2
    <3>4. /\ k.pc = "verify" /\ k.user = task[t].user /\ k.id = task[t].id
          /\ k.left = task[t].left /\ k.fresh = task[t].fresh /\ k.op = task[t].op
      BY <3>1, <3>2 DEF Task
    <3> QED BY <3>2, <3>3, <3>4 DEF Forward, Alone
  <2>2. \/ Goto(t, "award")
        \/ \E i \in DOMAIN perms :
             task' = [task EXCEPT ![t].pc = "verify",
                                  ![t].perm = [perms[i] EXCEPT !.verified = TRUE]]
    BY <1>6 DEF CheckAges
  <2> QED BY <1>1, <1>6, <2>1, <2>2 DEF Kind
<1>7. CASE VerifyPermissions(t)
  BY <1>1, <1>7 DEF VerifyPermissions, Kind
<1>8. CASE IncrementWalletPSC(t) \/ IncrementSatisfaction(t)
  BY <1>1, <1>8 DEF IncrementWalletPSC, IncrementSatisfaction, Kind
<1>9. CASE CreateDebt(t) \/ LockFeature(t) \/ SetFeatureLabel(t)
  BY <1>1, <1>9 DEF CreateDebt, LockFeature, SetFeatureLabel, Kind
<1>10. CASE AddOwner(t) \/ CreateChildPermission(t) \/ AwardPrize(t) \/ Redeem(t)
            \/ UpdateFeature(t) \/ (\E p \in Permissions : UpdatePermission(t, p)) \/ Fails(t)
  BY <1>1, <1>10 DEF AddOwner, CreateChildPermission, AwardPrize, Redeem, UpdateFeature,
                     UpdatePermission, Fails, Kind
<1> QED BY <1>2, <1>3, <1>4, <1>5, <1>6, <1>7, <1>8, <1>9, <1>10 DEF Step

(* The arrival of a call, by its first step. *)
Arrival(t, u) ==
  /\ Alone(t) /\ task[t].pc = "idle" /\ faults' = faults
  /\ UNCHANGED <<dynasties, members, prizes, debts, locks, labels, hurried, paid>>
  /\ \A i \in DOMAIN requests : requests'[i].rel = requests[i].rel
  /\ \/ task'[t].pc \in {"idle", "permit", "grant"}
     \/ task'[t].pc = "insert" /\ task'[t].user = u /\ DynastiesOf(u) = {}
     \/ task'[t].pc = "status"
     \/ task'[t].pc = "psc" /\ prizes[task'[t].id].open
     \/ task'[t].pc = "debt" /\ task'[t].fresh
     \/ task'[t].pc = "move" /\ ~ task'[t].fresh

LEMMA CallKind ==
  ASSUME IInv, NEW t \in Tasks, NEW u \in Users, Call(t, u)
  PROVE  Arrival(t, u)
<1>1. ASSUME NEW k, task' = [task EXCEPT ![t] = k] PROVE Alone(t) /\ task'[t] = k
  BY <1>1 DEF Alone, IInv, TypeOK
<1>2. ASSUME NEW f \in Features, CheckDynasty(t, u, f) PROVE Arrival(t, u)
  <2> PICK k : k = [Idle EXCEPT !.pc = "insert", !.user = u, !.feature = f]
    OBVIOUS
  <2>1. k.pc = "insert" /\ k.user = u
    BY IdleType DEF Task
  <2> QED BY <1>1, <1>2, <2>1 DEF CheckDynasty, Arrival, tables, penalties
<1>3. ASSUME NEW v \in Users, NEW r \in Relationships, CreateJoinRequest(t, u, v, r)
      PROVE  Arrival(t, u)
  <2>1. \A i \in DOMAIN requests : requests'[i].rel = requests[i].rel
    <3>1. requests \in Seq(Request)
      BY DEF IInv, TypeOK
    <3>2. PICK q : requests' = Append(requests, q)
      BY <1>3 DEF CreateJoinRequest
    <3> QED BY <3>1, <3>2
  <2>2. CASE UNCHANGED task
    BY <1>3, <2>1, <2>2 DEF CreateJoinRequest, Arrival, Alone, penalties
  <2>3. ASSUME NEW g, task' = [task EXCEPT ![t] = [Idle EXCEPT !.pc = "permit", !.perm = g]]
        PROVE  Arrival(t, u)
    <3> PICK k : k = [Idle EXCEPT !.pc = "permit", !.perm = g]
      OBVIOUS
    <3>1. k.pc = "permit"
      BY IdleType DEF Task
    <3> QED BY <1>1, <1>3, <2>1, <2>3, <3>1 DEF CreateJoinRequest, Arrival, penalties
  <2> QED BY <1>3, <2>2, <2>3 DEF CreateJoinRequest
<1>4. ASSUME NEW pc \in {"status", "grant", "psc"}, NEW op, NEW v, NEW i,
             Begin(t, pc, op, v, i), UNCHANGED <<tables, paid, faults>>,
             pc = "psc" => prizes[i].open
      PROVE  Arrival(t, u)
  <2> PICK k : k = [Idle EXCEPT !.pc = pc, !.op = op, !.user = v, !.id = i]
    OBVIOUS
  <2>1. k.pc = pc /\ k.id = i
    BY IdleType DEF Task
  <2>2. Alone(t) /\ task'[t] = k /\ task[t].pc = "idle"
    BY <1>1, <1>4 DEF Begin
  <2> QED BY <1>4, <2>1, <2>2 DEF Arrival, tables, penalties
<1>5. ASSUME NEW d \in DOMAIN dynasties, NEW f \in Features, ReadDynasty(t, u, d, f)
      PROVE  Arrival(t, u)
  <2> PICK k : k = [Idle EXCEPT !.pc = IF dynasties[d].fresh THEN "debt" ELSE "move",
                      !.id = d, !.user = u, !.feature = f, !.left = dynasties[d].feature,
                      !.fresh = dynasties[d].fresh]
    OBVIOUS
  <2>1. /\ k.pc = IF dynasties[d].fresh THEN "debt" ELSE "move"
        /\ k.fresh = dynasties[d].fresh
    BY IdleType DEF Task
  <2>2. Alone(t) /\ task'[t] = k /\ task[t].pc = "idle"
    BY <1>1, <1>5 DEF ReadDynasty
  <2> QED BY <1>5, <2>1, <2>2 DEF ReadDynasty, Arrival, tables, penalties
<1> QED BY <1>2, <1>3, <1>4, <1>5
        DEF Call, ReadRequest, CanControlPermissions, GetReceivedPrize

-----------------------------------------------------------------------------
(* Calls between the check of CreateDynasty and its INSERT. *)
Founding(u) == {t \in Tasks : task[t].pc = "insert" /\ task[t].user = u}
FoundingIsBounded ==
  \A u \in Users : Cardinality(DynastiesOf(u)) + Cardinality(Founding(u)) <= Cardinality(Tasks)

(* Dynasties without a family, and the calls about to create one each. *)
Missing == {d \in DOMAIN dynasties : ~ dynasties[d].family}
Forming == {t \in Tasks : task[t].pc = "family"}
FormingIsCounted ==
  /\ Cardinality(Missing) <= faults + Cardinality(Forming)
  /\ \A t \in Forming : task[t].id \in Missing
  /\ \A s, t \in Forming : task[s].id = task[t].id => s = t

(* Hurried moves whose debt, or whose lock, is already written. *)
Owing(u)   == {t \in Tasks : /\ task[t].pc \in {"lock", "label", "move"} /\ task[t].fresh
                             /\ task[t].user = u /\ task[t].left \in Stable}
Locking(f) == {t \in Tasks : /\ task[t].pc \in {"label", "move"} /\ task[t].fresh
                             /\ task[t].left = f}
PenaltiesAreAhead ==
  /\ \A u \in Users : hurried.by[u] + Cardinality(Owing(u)) <= debts[u]
  /\ \A f \in Features : /\ hurried.from[f] + Cardinality(Locking(f)) <= locks[f]
                         /\ hurried.from[f] > 0 => f \in labels
  /\ \A t \in Tasks :
       /\ task[t].pc \in {"debt", "lock", "label"} => task[t].fresh
       /\ task[t].pc = "move" /\ task[t].fresh => task[t].left \in labels

MovesInv == FoundingIsBounded /\ FormingIsCounted /\ PenaltiesAreAhead

(* What a step does to the rows of dynasties. *)
LEMMA DynastyRows ==
  ASSUME IInv, NEW t \in Tasks, Kind(t)
  PROVE  /\ InsertDynasty(t) \/
              /\ DOMAIN dynasties' = DOMAIN dynasties
              /\ \A i \in DOMAIN dynasties :
                   /\ dynasties'[i].user = dynasties[i].user
                   /\ dynasties'[i].family = IF CreateFamily(t) /\ i = task[t].id
                                               THEN TRUE ELSE dynasties[i].family
         /\ InsertDynasty(t) =>
              /\ Len(dynasties) + 1 \notin DOMAIN dynasties
              /\ DOMAIN dynasties' = DOMAIN dynasties \union {Len(dynasties) + 1}
              /\ dynasties'[Len(dynasties) + 1].user = task[t].user
              /\ ~ dynasties'[Len(dynasties) + 1].family
              /\ \A i \in DOMAIN dynasties : dynasties'[i] = dynasties[i]
         /\ DOMAIN dynasties \subseteq Nat /\ IsFiniteSet(DOMAIN dynasties)
<1>1. /\ dynasties \in Seq(Dynasty) /\ Len(dynasties) \in Nat
      /\ DOMAIN dynasties = 1..Len(dynasties)
      /\ \A i \in DOMAIN dynasties : dynasties[i] \in Dynasty
  BY DEF IInv, TypeOK
<1>2. DOMAIN dynasties \subseteq Nat /\ IsFiniteSet(DOMAIN dynasties)
  BY <1>1, FS_Interval
<1>3. CASE InsertDynasty(t)
  <2>1. PICK r : /\ r = [user |-> task[t].user, feature |-> task[t].feature,
                         family |-> FALSE, fresh |-> TRUE]
                 /\ dynasties' = Append(dynasties, r)
    BY <1>3 DEF InsertDynasty
  <2>2. r.user = task[t].user /\ r.family = FALSE
    BY <2>1
  <2>3. /\ DOMAIN dynasties' = DOMAIN dynasties \union {Len(dynasties) + 1}
        /\ dynasties'[Len(dynasties) + 1] = r
        /\ \A i \in DOMAIN dynasties : dynasties'[i] = dynasties[i]
    BY <1>1, <2>1
  <2> QED BY <1>1, <1>2, <1>3, <2>2, <2>3
<1>4. CASE CreateFamily(t) /\ ~ InsertDynasty(t)
  <2>1. dynasties' = [dynasties EXCEPT ![task[t].id].family = TRUE]
    BY <1>4 DEF CreateFamily
  <2>2. ASSUME NEW i \in DOMAIN dynasties
        PROVE  /\ dynasties'[i].user = dynasties[i].user
               /\ dynasties'[i].family = IF i = task[t].id THEN TRUE ELSE dynasties[i].family
    <3>1. PICK r : r = [dynasties[i] EXCEPT !.family = TRUE]
      OBVIOUS
    <3>2. r.user = dynasties[i].user /\ r.family = TRUE
      BY <1>1, <3>1 DEF Dynasty
    <3>3. dynasties'[i] = IF i = task[t].id THEN r ELSE dynasties[i]
      BY <2>1, <3>1
    <3> QED BY <3>2, <3>3
  <2> QED BY <1>2, <1>4, <2>1, <2>2
<1>5. CASE UpdateFeature(t) /\ ~ CreateFamily(t) /\ ~ InsertDynasty(t)
  <2>1. dynasties' = [dynasties EXCEPT ![task[t].id] =
                        [@ EXCEPT !.feature = task[t].feature, !.fresh = TRUE]]
    BY <1>1, <1>5 DEF UpdateFeature
  <2>2. ASSUME NEW i \in DOMAIN dynasties
        PROVE  /\ dynasties'[i].user = dynasties[i].user
               /\ dynasties'[i].family = dynasties[i].family
    <3>1. PICK r : r = [dynasties[i] EXCEPT !.feature = task[t].feature, !.fresh = TRUE]
      OBVIOUS
    <3>2. r.user = dynasties[i].user /\ r.family = dynasties[i].family
      BY <1>1, <3>1 DEF Dynasty
    <3>3. dynasties'[i] = IF i = task[t].id THEN r ELSE dynasties[i]
      BY <2>1, <3>1
    <3> QED BY <3>2, <3>3
  <2> QED BY <1>2, <1>5, <2>1, <2>2
<1>6. CASE ~ UpdateFeature(t) /\ ~ CreateFamily(t) /\ ~ InsertDynasty(t)
  <2>1. UNCHANGED dynasties
    BY <1>6 DEF Kind, UpdateStatus, CreateFamilyMember, CheckAges, VerifyPermissions,
         IncrementWalletPSC, IncrementSatisfaction, CreateDebt, LockFeature, SetFeatureLabel,
         AddOwner, CreateChildPermission, AwardPrize, Redeem, UpdatePermission, Fails, tables
  <2> QED BY <1>2, <1>6, <2>1
<1> QED BY <1>3, <1>4, <1>5, <1>6

(* The check and the INSERT of CreateDynasty: only calls that were at it   *)
(* when there was none insert one.                                         *)
LEMMA FoundingStep ==
  ASSUME IInv, FoundingIsBounded, NEW t \in Tasks,
         Kind(t) \/ \E u \in Users : Arrival(t, u)
  PROVE  FoundingIsBounded'
<1> SUFFICES ASSUME NEW v \in Users
             PROVE  Cardinality(DynastiesOf(v)') + Cardinality(Founding(v)') <= Cardinality(Tasks)
  BY DEF FoundingIsBounded
<1>1. PICK A, B, C, D : /\ A = Founding(v) /\ B = Founding(v)'
                        /\ C = DynastiesOf(v) /\ D = DynastiesOf(v)'
  OBVIOUS
<1>2. IsFiniteSet(C) /\ Cardinality(C) \in Nat
      /\ Cardinality(C) + Cardinality(A) <= Cardinality(Tasks)
  <2>1. C \subseteq DOMAIN dynasties /\ IsFiniteSet(DOMAIN dynasties)
    <3>1. dynasties \in Seq(Dynasty)
      BY DEF IInv, TypeOK
    <3>2. DOMAIN dynasties = 1..Len(dynasties) /\ Len(dynasties) \in Nat
      BY <3>1
    <3> QED BY <1>1, <3>2, FS_Interval DEF DynastiesOf
  <2>2. IsFiniteSet(C)
    BY <2>1, FS_Subset
  <2> QED BY <1>1, <2>2, FS_CardinalityType DEF FoundingIsBounded
<1>3. Alone(t)
  BY DEF Kind, Arrival, Forward, Ended
<1>4. /\ Cardinality(A) \in Nat /\ Cardinality(B) \in Nat /\ Cardinality(Tasks) \in Nat
      /\ Cardinality(A) <= Cardinality(Tasks) /\ Cardinality(B) <= Cardinality(Tasks)
      /\ t \in A /\ t \notin B => Cardinality(B) = Cardinality(A) - 1
      /\ t \notin A /\ t \in B => Cardinality(B) = Cardinality(A) + 1
      /\ (t \in A <=> t \in B) => Cardinality(B) = Cardinality(A)
  <2>1. A \in SUBSET Tasks /\ B \in SUBSET Tasks
    BY <1>1 DEF Founding
  <2>2. \A s \in Tasks \ {t} : s \in A <=> s \in B
    BY <1>1, <1>3 DEF Founding, Alone
  <2> QED BY <2>1, <2>2, CountOne, DynastyAssumption
<1>5. CASE InsertDynasty(t) /\ Kind(t)
  <2>1. t \notin B
    <3>1. task'[t].pc = "family"
      BY <1>5, InsertKind
    <3> QED BY <1>1, <3>1 DEF Founding
  <2>2. CASE v = task[t].user
    <3>1. t \in A
      BY <1>1, <1>5, <2>2 DEF Founding, InsertDynasty
    <3>2. D = C \union {Len(dynasties) + 1} /\ Len(dynasties) + 1 \notin C
      BY <1>1, <1>5, <2>2, DynastyRows DEF DynastiesOf
    <3>3. Cardinality(D) = Cardinality(C) + 1
      BY <1>2, <3>2, FS_AddElement
    <3> QED BY <1>1, <1>2, <1>4, <2>1, <3>1, <3>3
  <2>3. CASE v # task[t].user
    <3>1. t \notin A
      BY <1>1, <2>3 DEF Founding
    <3>2. D = C
      BY <1>1, <1>5, <2>3, DynastyRows DEF DynastiesOf
    <3> QED BY <1>1, <1>2, <1>4, <2>1, <3>1, <3>2
  <2> QED BY <2>2, <2>3
<1>6. CASE ~ InsertDynasty(t) /\ Kind(t)
  <2>1. t \notin B
    <3>1. task'[t].pc # "insert"
      BY <1>6 DEF Kind, Forward, Ended
    <3> QED BY <1>1, <3>1 DEF Founding
  <2>2. D = C
    BY <1>1, <1>6, DynastyRows DEF DynastiesOf
  <2> QED BY <1>1, <1>2, <1>4, <2>1, <2>2
<1>7. ASSUME NEW u \in Users, Arrival(t, u)
      PROVE  Cardinality(D) + Cardinality(B) <= Cardinality(Tasks)
  <2>1. D = C
    BY <1>1, <1>7 DEF Arrival, DynastiesOf
  <2>2. t \notin A
    BY <1>1, <1>7 DEF Arrival, Founding
  <2>3. CASE t \in B
    <3>1. C = {}
      BY <1>1, <1>7, <2>3 DEF Arrival, Founding
    <3>2. Cardinality(C) = 0
      BY <3>1, FS_EmptySet
    <3> QED BY <1>4, <2>1, <3>2
  <2>4. CASE t \notin B
    BY <1>2, <1>4, <2>1, <2>2, <2>4
  <2> QED BY <2>3, <2>4
<1> QED BY <1>1, <1>5, <1>6, <1>7

(* A dynasty gets its family in the next step of the call that inserted    *)
(* it, or the call fails.                                                  *)
LEMMA FormingStep ==
  ASSUME IInv, IInv', FormingIsCounted, NEW t \in Tasks,
         Kind(t) \/ \E u \in Users : Arrival(t, u)
  PROVE  FormingIsCounted'
<1>1. PICK A, B, C, D : /\ A = Forming /\ B = Forming' /\ C = Missing /\ D = Missing'
  OBVIOUS
<1>2. /\ IsFiniteSet(C) /\ Cardinality(C) \in Nat /\ faults \in Nat
      /\ Cardinality(C) <= faults + Cardinality(A)
      /\ C \subseteq DOMAIN dynasties
  <2>1. C \subseteq DOMAIN dynasties /\ IsFiniteSet(DOMAIN dynasties)
    <3>1. dynasties \in Seq(Dynasty)
      BY DEF IInv, TypeOK
    <3>2. DOMAIN dynasties = 1..Len(dynasties) /\ Len(dynasties) \in Nat
      BY <3>1
    <3> QED BY <1>1, <3>2, FS_Interval DEF Missing
  <2>2. IsFiniteSet(C)
    BY <2>1, FS_Subset
  <2>3. faults \in Nat
    BY DynastyAssumption DEF IInv, TypeOK
  <2> QED BY <1>1, <2>1, <2>2, <2>3, FS_CardinalityType DEF FormingIsCounted
<1>3. Alone(t)
  BY DEF Kind, Arrival, Forward, Ended
<1>4. /\ Cardinality(A) \in Nat /\ Cardinality(B) \in Nat
      /\ t \in A /\ t \notin B => Cardinality(B) = Cardinality(A) - 1
      /\ t \notin A /\ t \in B => Cardinality(B) = Cardinality(A) + 1
      /\ (t \in A <=> t \in B) => Cardinality(B) = Cardinality(A)
  <2>1. A \in SUBSET Tasks /\ B \in SUBSET Tasks
    BY <1>1 DEF Forming
  <2>2. \A s \in Tasks \ {t} : s \in A <=> s \in B
    BY <1>1, <1>3 DEF Forming, Alone
  <2> QED BY <2>1, <2>2, CountOne, DynastyAssumption
<1>5. \A s \in A : task[s].id \in C /\ \A r \in A : task[s].id = task[r].id => s = r
  BY <1>1 DEF FormingIsCounted
<1>6. SUFFICES /\ Cardinality(D) <= faults' + Cardinality(B)
               /\ \A s \in B : task'[s].id \in D
               /\ \A s, r \in B : task'[s].id = task'[r].id => s = r
  BY <1>1 DEF FormingIsCounted, Forming, Missing
<1>7. \A s \in B : s # t => s \in A /\ task'[s] = task[s]
  BY <1>1, <1>3 DEF Forming, Alone
<1>8. CASE InsertDynasty(t) /\ Kind(t)
  <2>1. task'[t].pc = "family" /\ task'[t].id = Len(dynasties) + 1 /\ faults' = faults
    BY <1>8, InsertKind
  <2>2. t \in B /\ t \notin A
    BY <1>1, <1>8, <2>1 DEF Forming, InsertDynasty
  <2>3. D = C \union {Len(dynasties) + 1} /\ Len(dynasties) + 1 \notin C
    BY <1>1, <1>8, DynastyRows DEF Missing
  <2>4. Cardinality(D) = Cardinality(C) + 1
    BY <1>2, <2>3, FS_AddElement
  <2> QED BY <1>2, <1>4, <1>5, <1>7, <2>1, <2>2, <2>3, <2>4
<1>9. CASE CreateFamily(t) /\ Kind(t) /\ ~ InsertDynasty(t)
  <2>1. task[t].pc = "family" /\ t \in A /\ faults' = faults
    BY <1>1, <1>9 DEF CreateFamily, Forming
  <2>2. t \notin B
    <3>1. task'[t].pc # "family"
      BY <1>9 DEF Kind, Forward, Ended
    <3> QED BY <1>1, <3>1 DEF Forming
  <2>3. D = C \ {task[t].id}
    BY <1>1, <1>9, DynastyRows DEF Missing
  <2>4. Cardinality(D) = Cardinality(C) - 1
    BY <1>2, <1>5, <2>1, <2>3, FS_RemoveElement
  <2> QED BY <1>2, <1>4, <1>5, <1>7, <2>1, <2>2, <2>3, <2>4
<1>10. CASE Kind(t) /\ ~ CreateFamily(t) /\ ~ InsertDynasty(t)
  <2>1. D = C
    BY <1>1, <1>10, DynastyRows DEF Missing
  <2>2. t \notin B
    <3>1. task'[t].pc # "family"
      BY <1>10 DEF Kind, Forward, Ended
    <3> QED BY <1>1, <3>1 DEF Forming
  <2>3. \/ t \notin A /\ (faults' = faults \/ faults' = faults + 1)
        \/ faults' = faults + 1
    BY <1>1, <1>10 DEF Forming, Kind, UpdateStatus, CreateFamilyMember, CheckAges,
         VerifyPermissions, IncrementWalletPSC, IncrementSatisfaction, CreateDebt, LockFeature,
         SetFeatureLabel, AddOwner, CreateChildPermission, AwardPrize, Redeem, UpdateFeature,
         UpdatePermission, Fails, Fault
  <2> QED BY <1>2, <1>4, <1>5, <1>7, <2>1, <2>2, <2>3
<1>11. CASE \E u \in Users : Arrival(t, u)
  <2>1. D = C /\ t \notin A /\ t \notin B /\ faults' = faults
    BY <1>1, <1>11 DEF Arrival, Missing, Forming
  <2> QED BY <1>2, <1>4, <1>5, <1>7, <2>1
<1> QED BY <1>8, <1>9, <1>10, <1>11

(* The penalties of hurried moves are numbers. *)
LEMMA PenaltyType ==
  ASSUME IInv
  PROVE  /\ \A u \in Users : hurried.by[u] \in Nat /\ debts[u] \in Nat
         /\ \A f \in Features : hurried.from[f] \in Nat /\ locks[f] \in Nat
         /\ \A t \in Tasks : task[t].user \in Users /\ task[t].left \in Features
         /\ hurried.by \in [Users -> Nat] /\ hurried.from \in [Features -> Nat]
         /\ hurried = [by |-> hurried.by, from |-> hurried.from]
         /\ debts \in [Users -> Nat] /\ locks \in [Features -> Nat]
<1>1. /\ hurried \in [by: [Users -> Nat], from: [Features -> Nat]]
      /\ debts \in [Users -> Nat] /\ locks \in [Features -> Nat]
      /\ \A t \in Tasks : task[t] \in Task
  BY DEF IInv, TypeOK
<1> QED BY <1>1 DEF Task

LEMMA PenaltyTypeNext ==
  ASSUME IInv'
  PROVE  /\ \A u \in Users : hurried'.by[u] \in Nat /\ debts'[u] \in Nat
         /\ \A f \in Features : hurried'.from[f] \in Nat /\ locks'[f] \in Nat
<1>1. /\ hurried' \in [by: [Users -> Nat], from: [Features -> Nat]]
      /\ debts' \in [Users -> Nat] /\ locks' \in [Features -> Nat]
  BY DEF IInv, TypeOK
<1> QED BY <1>1

(* One for a goroutine that is in a set, none for one that is not. *)
Has(b) == IF b THEN 1 ELSE 0

(* A step keeps the penalties ahead when it does for the goroutine that    *)
(* moves: a change that is written takes a debt and a lock that were.      *)
LEMMA PenaltyFrame ==
  ASSUME IInv, IInv', PenaltiesAreAhead, NEW t \in Tasks, Alone(t),
         \A u \in Users :
           hurried'.by[u] + Has(t \in Owing(u)') + debts[u]
             <= debts'[u] + Has(t \in Owing(u)) + hurried.by[u],
         \A f \in Features :
           /\ hurried'.from[f] + Has(t \in Locking(f)') + locks[f]
                <= locks'[f] + Has(t \in Locking(f)) + hurried.from[f]
           /\ hurried'.from[f] > 0 => hurried.from[f] > 0 \/ f \in labels',
         labels \subseteq labels',
         task'[t].pc \in {"debt", "lock", "label"} => task'[t].fresh,
         task'[t].pc = "move" /\ task'[t].fresh => task'[t].left \in labels'
  PROVE  PenaltiesAreAhead'
<1>1. ASSUME NEW u \in Users
      PROVE  hurried'.by[u] + Cardinality(Owing(u)') <= debts'[u]
  <2>1. PICK A, B : A = Owing(u) /\ B = Owing(u)'
    OBVIOUS
  <2>2. A \in SUBSET Tasks /\ B \in SUBSET Tasks
    BY <2>1 DEF Owing
  <2>3. \A s \in Tasks \ {t} : s \in A <=> s \in B
    BY <2>1 DEF Owing, Alone
  <2>4. /\ Cardinality(A) \in Nat /\ Cardinality(B) \in Nat
        /\ Cardinality(B) + Has(t \in A) = Cardinality(A) + Has(t \in B)
    BY <2>2, <2>3, CountOne, DynastyAssumption DEF Has
  <2>5. hurried.by[u] + Cardinality(A) <= debts[u]
    BY <2>1 DEF PenaltiesAreAhead
  <2>6. hurried'.by[u] + Has(t \in B) + debts[u] <= debts'[u] + Has(t \in A) + hurried.by[u]
    BY <2>1
  <2>7. PICK a, b, n, m, x, y : /\ a = Cardinality(A) /\ b = Cardinality(B)
                                /\ n = hurried.by[u] /\ m = hurried'.by[u]
                                /\ x = debts[u] /\ y = debts'[u]
    OBVIOUS
  <2>8. {a, b, n, m, x, y} \subseteq Nat
    BY <2>4, <2>7, PenaltyType, PenaltyTypeNext
  <2>9. m + b <= y
    BY <2>4, <2>5, <2>6, <2>7, <2>8 DEF Has
  <2> QED BY <2>1, <2>7, <2>9
<1>2. ASSUME NEW f \in Features
      PROVE  /\ hurried'.from[f] + Cardinality(Locking(f)') <= locks'[f]
             /\ hurried'.from[f] > 0 => f \in labels'
  <2>1. PICK A, B : A = Locking(f) /\ B = Locking(f)'
    OBVIOUS
  <2>2. A \in SUBSET Tasks /\ B \in SUBSET Tasks
    BY <2>1 DEF Locking
  <2>3. \A s \in Tasks \ {t} : s \in A <=> s \in B
    BY <2>1 DEF Locking, Alone
  <2>4. /\ Cardinality(A) \in Nat /\ Cardinality(B) \in Nat
        /\ Cardinality(B) + Has(t \in A) = Cardinality(A) + Has(t \in B)
    BY <2>2, <2>3, CountOne, DynastyAssumption DEF Has
  <2>5. /\ hurried.from[f] + Cardinality(A) <= locks[f]
        /\ hurried.from[f] > 0 => f \in labels
    BY <2>1 DEF PenaltiesAreAhead
  <2>6. hurried'.from[f] + Has(t \in B) + locks[f]
          <= locks'[f] + Has(t \in A) + hurried.from[f]
    BY <2>1
  <2>7. PICK a, b, n, m, x, y : /\ a = Cardinality(A) /\ b = Cardinality(B)
                                /\ n = hurried.from[f] /\ m = hurried'.from[f]
                                /\ x = locks[f] /\ y = locks'[f]
    OBVIOUS
  <2>8. {a, b, n, m, x, y} \subseteq Nat
    BY <2>4, <2>7, PenaltyType, PenaltyTypeNext
  <2>9. m + b <= y
    BY <2>4, <2>5, <2>6, <2>7, <2>8 DEF Has
  <2> QED BY <2>1, <2>5, <2>7, <2>9
<1>3. ASSUME NEW s \in Tasks
      PROVE  /\ task'[s].pc \in {"debt", "lock", "label"} => task'[s].fresh
             /\ task'[s].pc = "move" /\ task'[s].fresh => task'[s].left \in labels'
  <2>1. CASE s = t
    BY <2>1
  <2>2. CASE s # t
    BY <2>2 DEF Alone, PenaltiesAreAhead
  <2> QED BY <2>1, <2>2
<1> QED BY <1>1, <1>2, <1>3 DEF PenaltiesAreAhead

(* UpdateDynastyFeature writes the debt, the lock and the label, in this   *)
(* order, before the change; nothing takes them back.                      *)
LEMMA PenaltyStep ==
  ASSUME IInv, IInv', PenaltiesAreAhead, NEW t \in Tasks,
         Kind(t) \/ \E u \in Users : Arrival(t, u)
  PROVE  PenaltiesAreAhead'
<1>1. /\ Alone(t)
      /\ task[t].pc \in {"debt", "lock", "label"} => task[t].fresh
      /\ task[t].pc = "move" /\ task[t].fresh => task[t].left \in labels
  BY DEF Kind, Arrival, Forward, Ended, PenaltiesAreAhead
<1>2. CASE CreateDebt(t) /\ Forward(t, "lock")
  <2>1. /\ task[t].pc = "debt" /\ task'[t].pc = "lock" /\ task[t].fresh
        /\ task'[t].user = task[t].user /\ task'[t].left = task[t].left
        /\ task'[t].fresh = task[t].fresh /\ UNCHANGED <<locks, labels, hurried>>
    BY <1>1, <1>2 DEF CreateDebt, Forward
  <2>2. ASSUME NEW u \in Users
        PROVE  debts'[u] = debts[u] + Has(task[t].user = u /\ task[t].left \in Stable)
    BY <1>2, PenaltyType DEF CreateDebt, Has
  <2>3. ASSUME NEW u \in Users
        PROVE  hurried'.by[u] + Has(t \in Owing(u)') + debts[u]
                 <= debts'[u] + Has(t \in Owing(u)) + hurried.by[u]
    <3>1. t \notin Owing(u)
      BY <2>1 DEF Owing
    <3>2. t \in Owing(u)' <=> task[t].user = u /\ task[t].left \in Stable
      BY <2>1 DEF Owing
    <3> QED BY <2>1, <2>2, <3>1, <3>2, PenaltyType DEF Has
  <2>4. ASSUME NEW f \in Features PROVE t \notin Locking(f) /\ t \notin Locking(f)'
    BY <2>1 DEF Locking
  <2>5. \A f \in Features :
           /\ hurried'.from[f] + Has(t \in Locking(f)') + locks[f]
                <= locks'[f] + Has(t \in Locking(f)) + hurried.from[f]
           /\ hurried'.from[f] > 0 => hurried.from[f] > 0 \/ f \in labels'
    BY <2>1, <2>4, PenaltyType DEF Has
  <2> QED BY <1>1, <2>1, <2>3, <2>5, PenaltyFrame
<1>3. CASE LockFeature(t) /\ Forward(t, "label")
  <2>1. /\ task[t].pc = "lock" /\ task'[t].pc = "label" /\ task[t].fresh
        /\ task'[t].user = task[t].user /\ task'[t].left = task[t].left
        /\ task'[t].fresh = task[t].fresh /\ UNCHANGED <<debts, labels, hurried>>
    BY <1>1, <1>3 DEF LockFeature, Forward
  <2>2. ASSUME NEW f \in Features PROVE locks'[f] = locks[f] + Has(task[t].left = f)
    BY <1>3, PenaltyType DEF LockFeature, Has
  <2>3. ASSUME NEW u \in Users PROVE t \in Owing(u)' <=> t \in Owing(u)
    BY <2>1 DEF Owing
  <2>4. \A u \in Users : hurried'.by[u] + Has(t \in Owing(u)') + debts[u]
                           <= debts'[u] + Has(t \in Owing(u)) + hurried.by[u]
    BY <2>1, <2>3, PenaltyType DEF Has
  <2>5. ASSUME NEW f \in Features
        PROVE  /\ hurried'.from[f] + Has(t \in Locking(f)') + locks[f]
                    <= locks'[f] + Has(t \in Locking(f)) + hurried.from[f]
               /\ hurried'.from[f] > 0 => hurried.from[f] > 0 \/ f \in labels'
    <3>1. t \notin Locking(f) /\ (t \in Locking(f)' <=> task[t].left = f)
      BY <2>1 DEF Locking
    <3> QED BY <2>1, <2>2, <3>1, PenaltyType DEF Has
  <2> QED BY <1>1, <2>1, <2>4, <2>5, PenaltyFrame
<1>4. CASE SetFeatureLabel(t) /\ Forward(t, "move")
  <2>1. /\ task[t].pc = "label" /\ task'[t].pc = "move" /\ task[t].fresh
        /\ task'[t].user = task[t].user /\ task'[t].left = task[t].left
        /\ task'[t].fresh = task[t].fresh /\ UNCHANGED <<debts, locks, hurried>>
        /\ labels' = labels \union {task[t].left}
    BY <1>1, <1>4 DEF SetFeatureLabel, Forward
  <2>2. /\ \A u \in Users : t \in Owing(u)' <=> t \in Owing(u)
        /\ \A f \in Features : t \in Locking(f)' <=> t \in Locking(f)
    BY <2>1 DEF Owing, Locking
  <2>3. /\ \A u \in Users : hurried'.by[u] + Has(t \in Owing(u)') + debts[u]
                              <= debts'[u] + Has(t \in Owing(u)) + hurried.by[u]
        /\ \A f \in Features :
             /\ hurried'.from[f] + Has(t \in Locking(f)') + locks[f]
                  <= locks'[f] + Has(t \in Locking(f)) + hurried.from[f]
             /\ hurried'.from[f] > 0 => hurried.from[f] > 0 \/ f \in labels'
    BY <2>1, <2>2, PenaltyType DEF Has
  <2> QED BY <1>1, <2>1, <2>3, PenaltyFrame
<1>5. CASE UpdateFeature(t) /\ Ended(t)
  <2>1. /\ task[t].pc = "move" /\ task'[t].pc = "idle"
        /\ UNCHANGED <<debts, locks, labels>>
        /\ hurried' = IF ~ task[t].fresh THEN hurried
             ELSE [hurried EXCEPT !.from[task[t].left] = @ + 1,
                    !.by[task[t].user] = IF task[t].left \in Stable THEN @ + 1 ELSE @]
    BY <1>5 DEF UpdateFeature, Ended
  <2>2. /\ \A u \in Users : /\ t \notin Owing(u)'
                            /\ t \in Owing(u) <=> /\ task[t].fresh /\ task[t].user = u
                                                  /\ task[t].left \in Stable
        /\ \A f \in Features : /\ t \notin Locking(f)'
                               /\ t \in Locking(f) <=> task[t].fresh /\ task[t].left = f
    BY <2>1 DEF Owing, Locking
  <2>3. CASE task[t].fresh
    <3>1. PICK h, g : /\ h = [hurried.from EXCEPT ![task[t].left] = @ + 1]
                      /\ g = [hurried.by EXCEPT ![task[t].user] =
                                IF task[t].left \in Stable THEN @ + 1 ELSE @]
      OBVIOUS
    <3>2. hurried' = [by |-> g, from |-> h]
      BY <2>1, <2>3, <3>1, PenaltyType
    <3>3. ASSUME NEW u \in Users
          PROVE  hurried'.by[u] = hurried.by[u] + Has(t \in Owing(u))
      BY <2>2, <2>3, <3>1, <3>2, PenaltyType DEF Has
    <3>4. ASSUME NEW f \in Features
          PROVE  hurried'.from[f] = hurried.from[f] + Has(t \in Locking(f))
      BY <2>2, <2>3, <3>1, <3>2, PenaltyType DEF Has
    <3>5. \A u \in Users : hurried'.by[u] + Has(t \in Owing(u)') + debts[u]
                             <= debts'[u] + Has(t \in Owing(u)) + hurried.by[u]
      BY <2>1, <2>2, <3>3, PenaltyType DEF Has
    <3>6. ASSUME NEW f \in Features
          PROVE  /\ hurried'.from[f] + Has(t \in Locking(f)') + locks[f]
                      <= locks'[f] + Has(t \in Locking(f)) + hurried.from[f]
                 /\ hurried'.from[f] > 0 => hurried.from[f] > 0 \/ f \in labels'
      BY <1>1, <2>1, <2>2, <2>3, <3>4, PenaltyType DEF Has
    <3> QED BY <1>1, <2>1, <3>5, <3>6, PenaltyFrame
  <2>4. CASE ~ task[t].fresh
    <3>1. UNCHANGED <<hurried, debts, locks>>
      BY <2>1, <2>4
    <3>2. /\ \A u \in Users : hurried'.by[u] + Has(t \in Owing(u)') + debts[u]
                                <= debts'[u] + Has(t \in Owing(u)) + hurried.by[u]
          /\ \A f \in Features :
               /\ hurried'.from[f] + Has(t \in Locking(f)') + locks[f]
                    <= locks'[f] + Has(t \in Locking(f)) + hurried.from[f]
               /\ hurried'.from[f] > 0 => hurried.from[f] > 0 \/ f \in labels'
      <4>1. ASSUME NEW u \in Users
            PROVE  hurried'.by[u] + Has(t \in Owing(u)') + debts[u]
                     <= debts'[u] + Has(t \in Owing(u)) + hurried.by[u]
        <5>1. t \notin Owing(u)' /\ t \notin Owing(u)
          BY <2>2, <2>4
        <5> QED BY <3>1, <5>1, PenaltyType DEF Has
      <4>2. ASSUME NEW f \in Features
            PROVE  /\ hurried'.from[f] + Has(t \in Locking(f)') + locks[f]
                        <= locks'[f] + Has(t \in Locking(f)) + hurried.from[f]
                   /\ hurried'.from[f] > 0 => hurried.from[f] > 0 \/ f \in labels'
        <5>1. t \notin Locking(f)' /\ t \notin Locking(f)
          BY <2>2, <2>4
        <5> QED BY <3>1, <5>1, PenaltyType DEF Has
      <4> QED BY <4>1, <4>2
    <3> QED BY <1>1, <2>1, <3>2, PenaltyFrame
  <2> QED BY <2>3, <2>4
<1>6. CASE /\ UNCHANGED <<debts, locks, labels, hurried>>
           /\ task'[t].pc \in {"lock", "label"} => FALSE
           /\ task'[t].pc = "debt" => task'[t].fresh
           /\ task'[t].pc = "move" => ~ task'[t].fresh
  <2>1. /\ \A u \in Users : t \notin Owing(u)'
        /\ \A f \in Features : t \notin Locking(f)'
    BY <1>6 DEF Owing, Locking
  <2>2. /\ \A u \in Users : hurried'.by[u] + Has(t \in Owing(u)') + debts[u]
                              <= debts'[u] + Has(t \in Owing(u)) + hurried.by[u]
        /\ \A f \in Features :
             /\ hurried'.from[f] + Has(t \in Locking(f)') + locks[f]
                  <= locks'[f] + Has(t \in Locking(f)) + hurried.from[f]
             /\ hurried'.from[f] > 0 => hurried.from[f] > 0 \/ f \in labels'
    BY <1>6, <2>1, PenaltyType DEF Has
  <2> QED BY <1>1, <1>6, <2>2, PenaltyFrame
<1>7. CASE \E u \in Users : Arrival(t, u)
  BY <1>6, <1>7 DEF Arrival
<1>8. CASE /\ Kind(t) /\ ~ (CreateDebt(t) /\ Forward(t, "lock"))
           /\ ~ (LockFeature(t) /\ Forward(t, "label"))
           /\ ~ (SetFeatureLabel(t) /\ Forward(t, "move"))
           /\ ~ (UpdateFeature(t) /\ Ended(t))
  <2>1. UNCHANGED <<debts, locks, labels, hurried>>
    BY <1>8 DEF Kind, InsertDynasty, CreateFamily, UpdateStatus, CreateFamilyMember, CheckAges,
         VerifyPermissions, IncrementWalletPSC, IncrementSatisfaction, AddOwner,
         CreateChildPermission, AwardPrize, Redeem, UpdatePermission, Fails, tables, penalties
  <2>2. task'[t].pc \notin {"debt", "lock", "label", "move"}
    BY <1>8 DEF Kind, Forward, Ended
  <2> QED BY <1>6, <2>1, <2>2
<1> QED BY <1>2, <1>3, <1>4, <1>5, <1>7, <1>8

(* No row is listed twice. *)
LEMMA ListedOnce ==
  ASSUME NEW S, IsFiniteSet(S)
  PROVE  \A i, j \in 1..Cardinality(S) : Listed(S)[i] = Listed(S)[j] => i = j
<1> DEFINE n == Cardinality(S)
<1>1. /\ n \in Nat /\ Listed(S) \in [1..n -> S]
      /\ \A x \in S : \E i \in 1..n : Listed(S)[i] = x
  BY ListedType
<1>2. IsFiniteSet(1..n) /\ Cardinality(1..n) = n
  BY <1>1, FS_Interval
<1>3. Listed(S) \in Surjection(1..n, S)
  BY <1>1 DEF Surjection
<1>4. Listed(S) \in Injection(1..n, S)
  BY <1>2, <1>3, FS_SurjSameCardinalityImpliesInj
<1>5. \A i, j \in 1..n : Listed(S)[i] = Listed(S)[j] => i = j
  <2> PICK q : q = Listed(S)
    OBVIOUS
  <2>1. q \in Injection(1..n, S)
    BY <1>4
  <2> HIDE DEF n
  <2>2. \A i, j \in 1..n : q[i] = q[j] => i = j
    BY <2>1 DEF Injection, IsInjective
  <2> QED BY <2>2
<1> QED BY <1>5

(* At the start nobody creates or moves a dynasty. *)
LEMMA MovesInit ==
  ASSUME Init
  PROVE  MovesInv
<1>1. IsFiniteSet(Tasks) /\ Cardinality(Tasks) \in Nat /\ Cardinality(Tasks) # 0
  <2>1. IsFiniteSet(Tasks) /\ Cardinality(Tasks) \in Nat
    BY DynastyAssumption, FS_CardinalityType
  <2> QED BY <2>1, DynastyAssumption, FS_EmptySet
<1>2. /\ \A u \in Users : Founding(u) = {} /\ Owing(u) = {}
      /\ \A f \in Features : Locking(f) = {}
      /\ Forming = {} /\ \A t \in Tasks : task[t].pc = "idle"
  BY IdleType DEF Init, Founding, Owing, Locking, Forming
<1>3. Cardinality({}) = 0
  BY FS_EmptySet
<1>4. /\ dynasties = [i \in 1..Cardinality(Founders) |->
           [user |-> Listed(Founders)[i], feature |-> CHOOSE f \in Features : TRUE,
            family |-> TRUE, fresh |-> TRUE]]
      /\ debts = [u \in Users |-> 0] /\ locks = [f \in Features |-> 0]
      /\ hurried = [by |-> debts, from |-> locks] /\ faults = 0
  BY DEF Init
<1>5. FoundingIsBounded
  <2>1. ASSUME NEW u \in Users
        PROVE  Cardinality(DynastiesOf(u)) + Cardinality(Founding(u)) <= Cardinality(Tasks)
    <3>1. \A i, j \in DynastiesOf(u) : i = j
      BY <1>4, ListedOnce, DynastyAssumption DEF DynastiesOf
    <3>2. Cardinality(DynastiesOf(u)) \in {0, 1}
      <4>1. CASE DynastiesOf(u) = {}
        BY <1>3, <4>1
      <4>2. ASSUME NEW i \in DynastiesOf(u) PROVE Cardinality(DynastiesOf(u)) = 1
        <5>1. DynastiesOf(u) = {i}
          BY <3>1
        <5>2. Cardinality({i}) = 1
          BY FS_Singleton
        <5> QED BY <5>1, <5>2
      <4> QED BY <4>1, <4>2
    <3> QED BY <1>1, <1>2, <1>3, <3>2
  <2> QED BY <2>1 DEF FoundingIsBounded
<1>6. FormingIsCounted
  <2>1. Missing = {}
    BY <1>4 DEF Missing
  <2> QED BY <1>2, <1>3, <1>4, <2>1 DEF FormingIsCounted
<1>7. PenaltiesAreAhead
  <2>1. /\ \A u \in Users : hurried.by[u] = 0 /\ debts[u] = 0
        /\ \A f \in Features : hurried.from[f] = 0 /\ locks[f] = 0
    BY <1>4
  <2>2. ASSUME NEW u \in Users PROVE hurried.by[u] + Cardinality(Owing(u)) <= debts[u]
    <3>1. Owing(u) = {}
      BY <1>2
    <3>2. Cardinality(Owing(u)) = 0
      BY <1>3, <3>1
    <3> QED BY <2>1, <3>2
  <2>3. \A f \in Features : /\ hurried.from[f] + Cardinality(Locking(f)) <= locks[f]
                            /\ ~ (hurried.from[f] > 0)
    BY <1>2, <1>3, <2>1
  <2>4. \A t \in Tasks : task[t].pc \notin {"debt", "lock", "label", "move"}
    BY <1>2
  <2> QED BY <2>2, <2>3, <2>4 DEF PenaltiesAreAhead
<1> QED BY <1>5, <1>6, <1>7 DEF MovesInv

(* A month more makes no dynasty and no change of one. *)
LEMMA MovesFrame ==
  ASSUME IInv, MovesInv,
         UNCHANGED vars \/ \E d \in DOMAIN dynasties : MonthPasses(d)
  PROVE  MovesInv'
<1>1. /\ UNCHANGED <<task, debts, locks, labels, hurried, faults>>
      /\ DOMAIN dynasties' = DOMAIN dynasties
      /\ \A i \in DOMAIN dynasties : /\ dynasties'[i].user = dynasties[i].user
                                     /\ dynasties'[i].family = dynasties[i].family
  <2>1. CASE UNCHANGED vars
    BY <2>1 DEF vars
  <2>2. ASSUME NEW d \in DOMAIN dynasties, MonthPasses(d)
        PROVE  /\ UNCHANGED <<task, debts, locks, labels, hurried, faults>>
               /\ DOMAIN dynasties' = DOMAIN dynasties
               /\ \A i \in DOMAIN dynasties : /\ dynasties'[i].user = dynasties[i].user
                                              /\ dynasties'[i].family = dynasties[i].family
    <3>1. PICK r : r = [dynasties[d] EXCEPT !.fresh = FALSE]
      OBVIOUS
    <3>2. dynasties \in Seq(Dynasty) /\ dynasties[d] \in Dynasty
      BY DEF IInv, TypeOK
    <3>3. r.user = dynasties[d].user /\ r.family = dynasties[d].family
      BY <3>1, <3>2 DEF Dynasty
    <3>4. dynasties' = [dynasties EXCEPT ![d] = r]
      BY <2>2, <3>1 DEF MonthPasses
    <3> QED BY <2>2, <3>2, <3>3, <3>4 DEF MonthPasses, penalties
  <2> QED BY <2>1, <2>2
<1>2. ASSUME NEW u \in Users
      PROVE  /\ DynastiesOf(u)' = DynastiesOf(u) /\ Founding(u)' = Founding(u)
             /\ Owing(u)' = Owing(u)
  BY <1>1 DEF DynastiesOf, Founding, Owing
<1>3. Missing' = Missing /\ Forming' = Forming
  BY <1>1 DEF Missing, Forming
<1>4. \A f \in Features : Locking(f)' = Locking(f)
  BY <1>1 DEF Locking
<1>5. FoundingIsBounded'
  BY <1>2 DEF MovesInv, FoundingIsBounded
<1>6. FormingIsCounted'
  BY <1>1, <1>3 DEF MovesInv, FormingIsCounted
<1>7. PenaltiesAreAhead'
  BY <1>1, <1>2, <1>4 DEF MovesInv, PenaltiesAreAhead
<1> QED BY <1>5, <1>6, <1>7 DEF MovesInv

(* The three counts are inductive together with IInv. *)
LEMMA MovesInductive ==
  ASSUME IInv, IInv', MovesInv, [Next]_vars
  PROVE  MovesInv'
<1>1. ASSUME NEW t \in Tasks, Kind(t) \/ \E u \in Users : Arrival(t, u)
      PROVE  MovesInv'
  BY <1>1, FoundingStep, FormingStep, PenaltyStep DEF MovesInv
<1>2. ASSUME NEW t \in Tasks, Step(t) PROVE MovesInv'
  BY <1>1, <1>2, StepKind
<1>3. ASSUME NEW t \in Tasks, NEW u \in Users, Call(t, u) PROVE MovesInv'
  BY <1>1, <1>3, CallKind
<1> QED BY <1>2, <1>3, MovesFrame DEF Next

(* What half-done creations and moves of dynasties leave behind: no user   *)
(* has more dynasties than there are goroutines, a dynasty lacks its       *)
(* family only while it is created or because its creation failed, and     *)
(* every change made in less than 30 days has its debt, lock and label.    *)
THEOREM MovesArePaidFor == Spec => []DynastyInv
<1>1. IInv /\ MovesInv => DynastyInv
  <2> SUFFICES ASSUME IInv, MovesInv PROVE DynastyInv
    OBVIOUS
  <2>1. ASSUME NEW S \in SUBSET Tasks PROVE Cardinality(S) \in Nat
    BY DynastyAssumption, FS_Subset, FS_CardinalityType
  <2>2. ASSUME NEW u \in Users
        PROVE  /\ Cardinality(DynastiesOf(u)) <= Cardinality(Tasks)
               /\ hurried.by[u] <= debts[u]
    <3>1. PICK a, b, c, d, e : /\ a = Cardinality(DynastiesOf(u)) /\ b = Cardinality(Founding(u))
                               /\ c = Cardinality(Owing(u)) /\ d = hurried.by[u] /\ e = debts[u]
      OBVIOUS
    <3>2. b \in Nat /\ c \in Nat
      BY <2>1, <3>1 DEF Founding, Owing
    <3>3. a \in Nat /\ d \in Nat /\ e \in Nat /\ Cardinality(Tasks) \in Nat
      <4>1. dynasties \in Seq(Dynasty)
        BY DEF IInv, TypeOK
      <4>2. DOMAIN dynasties = 1..Len(dynasties) /\ Len(dynasties) \in Nat
        BY <4>1
      <4>3. IsFiniteSet(DOMAIN dynasties) /\ DynastiesOf(u) \subseteq DOMAIN dynasties
        BY <4>2, FS_Interval DEF DynastiesOf
      <4>4. IsFiniteSet(DynastiesOf(u))
        BY <4>3, FS_Subset
      <4>5. a \in Nat
        BY <3>1, <4>4, FS_CardinalityType
      <4> QED BY <2>1, <3>1, <4>5, PenaltyType
    <3>4. a + b <= Cardinality(Tasks) /\ d + c <= e
      BY <3>1 DEF MovesInv, FoundingIsBounded, PenaltiesAreAhead
    <3> QED BY <3>1, <3>2, <3>3, <3>4
  <2>3. ASSUME NEW f \in Features
        PROVE  hurried.from[f] <= locks[f] /\ (hurried.from[f] > 0 => f \in labels)
    <3>1. PICK c, d, e : /\ c = Cardinality(Locking(f)) /\ d = hurried.from[f] /\ e = locks[f]
      OBVIOUS
    <3>2. c \in Nat /\ d \in Nat /\ e \in Nat
      BY <2>1, <3>1, PenaltyType DEF Locking
    <3>3. d + c <= e /\ (d > 0 => f \in labels)
      BY <3>1 DEF MovesInv, PenaltiesAreAhead
    <3> QED BY <3>1, <3>2, <3>3
  <2>4. FamilyMissingMeansFailed
    BY DEF MovesInv, FormingIsCounted, FamilyMissingMeansFailed, Missing, Forming
  <2> QED BY <2>2, <2>3, <2>4 DEF DynastyInv, DynastiesAreBounded, PenaltyForEveryChange
<1>2. Init => IInv /\ MovesInv
  BY InitInv, MovesInit
<1>3. IInv /\ MovesInv /\ [Next]_vars => (IInv /\ MovesInv)'
  BY NextInv, MovesInductive
<1> QED BY <1>1, <1>2, <1>3, PTL DEF Spec

-----------------------------------------------------------------------------
(* Claims of receipt i that have not yet credited, and that have. *)
Claiming(i)  == {t \in Tasks : task[t].pc = "psc" /\ task[t].id = i}
Crediting(i) == {t \in Tasks : task[t].pc \in {"satisfaction", "redeem"} /\ task[t].id = i}
ClaimsAreCounted ==
  \A i \in DOMAIN prizes :
    /\ paid[i].psc + Cardinality(Claiming(i)) <= Cardinality(Tasks) + faults
    /\ prizes[i].open => paid[i].psc <= Cardinality(Crediting(i)) + faults

(* What a step does to the receipts and to the credits made for them. *)
LEMMA PrizeRows ==
  ASSUME IInv, NEW t \in Tasks, Kind(t)
  PROVE  /\ \A i \in DOMAIN prizes :
              /\ i \in DOMAIN prizes'
              /\ prizes'[i].user = prizes[i].user /\ prizes'[i].rel = prizes[i].rel
              /\ prizes'[i].open => prizes[i].open
              /\ paid'[i].psc = paid[i].psc + Has(IncrementWalletPSC(t) /\ i = task[t].id)
         /\ \/ DOMAIN prizes' = DOMAIN prizes
            \/ /\ AwardPrize(t) /\ requests[task[t].id].rel \in Rewarded
               /\ Len(prizes) + 1 \notin DOMAIN prizes
               /\ DOMAIN prizes' = DOMAIN prizes \union {Len(prizes) + 1}
               /\ prizes'[Len(prizes) + 1].user = task[t].user
               /\ prizes'[Len(prizes) + 1].rel = requests[task[t].id].rel
               /\ paid'[Len(prizes) + 1].psc = 0
<1>1. /\ paid \in Seq(Paid) /\ DOMAIN paid = DOMAIN prizes
      /\ \A j \in DOMAIN prizes : paid[j] \in Paid /\ paid[j].psc \in Nat
      /\ prizes \in Seq(Prize) /\ \A j \in DOMAIN prizes : prizes[j] \in Prize
      /\ Len(prizes) \in Nat /\ DOMAIN prizes = 1..Len(prizes) /\ Len(paid) = Len(prizes)
  <2>1. prizes \in Seq(Prize) /\ paid \in Seq(Paid) /\ Len(paid) = Len(prizes)
    BY DEF IInv, TypeOK
  <2> QED BY <2>1, CountedUp
<1> DEFINE i == task[t].id
<1>2. CASE IncrementWalletPSC(t)
  <2>1. prizes' = prizes
    BY <1>2 DEF IncrementWalletPSC, tables
  <2>2. ASSUME NEW j \in DOMAIN prizes PROVE paid'[j].psc = paid[j].psc + Has(j = i)
    <3> PICK p : p = [paid[j] EXCEPT !.psc = @ + 1]
      OBVIOUS
    <3>1. p.psc = paid[j].psc + 1
      BY <1>1 DEF Paid
    <3>2. paid'[j] = IF j = i THEN p ELSE paid[j]
      BY <1>1, <1>2 DEF IncrementWalletPSC
    <3> QED BY <1>1, <3>1, <3>2 DEF Has
  <2> QED BY <1>1, <1>2, <2>1, <2>2
<1>3. CASE IncrementSatisfaction(t) /\ ~ IncrementWalletPSC(t)
  <2>1. prizes' = prizes
    BY <1>3 DEF IncrementSatisfaction, tables
  <2>2. ASSUME NEW j \in DOMAIN prizes PROVE paid'[j].psc = paid[j].psc
    <3> PICK p : p = [paid[j] EXCEPT !.satisfaction = @ + 1]
      OBVIOUS
    <3>1. p.psc = paid[j].psc
      BY <1>1 DEF Paid
    <3>2. paid'[j] = IF j = i THEN p ELSE paid[j]
      BY <1>1, <1>3 DEF IncrementSatisfaction
    <3> QED BY <3>1, <3>2
  <2> QED BY <1>1, <1>3, <2>1, <2>2 DEF Has
<1>4. CASE Redeem(t) /\ ~ IncrementWalletPSC(t)
  <2>1. DOMAIN prizes' = DOMAIN prizes
    BY <1>4 DEF Redeem
  <2>2. ASSUME NEW j \in DOMAIN prizes
        PROVE  /\ paid'[j].psc = paid[j].psc
               /\ prizes'[j].user = prizes[j].user /\ prizes'[j].rel = prizes[j].rel
               /\ prizes'[j].open => prizes[j].open
    <3> PICK p, q : /\ p = [paid[j] EXCEPT !.boosts = @ + 1]
                    /\ q = [prizes[j] EXCEPT !.open = FALSE]
      OBVIOUS
    <3>1. /\ p.psc = paid[j].psc /\ q.user = prizes[j].user /\ q.rel = prizes[j].rel
          /\ ~ q.open
      BY <1>1 DEF Paid, Prize
    <3>2. /\ paid'[j] = IF j = i THEN p ELSE paid[j]
          /\ prizes'[j] = IF j = i THEN q ELSE prizes[j]
      BY <1>1, <1>4 DEF Redeem
    <3> QED BY <3>1, <3>2
  <2> QED BY <1>1, <1>4, <2>1, <2>2 DEF Has
<1>5. CASE AwardPrize(t) /\ ~ IncrementWalletPSC(t)
  <2>1. CASE UNCHANGED <<prizes, paid>>
    BY <1>1, <1>5, <2>1 DEF Has
  <2>2. CASE ~ UNCHANGED <<prizes, paid>>
    <3>1. PICK q : /\ q = [user |-> task[t].user, rel |-> requests[task[t].id].rel, open |-> TRUE]
                   /\ prizes' = Append(prizes, q) /\ paid' = Append(paid, Unpaid)
                   /\ requests[task[t].id].rel \in Rewarded
      BY <1>5, <2>2 DEF AwardPrize
    <3>2. q.user = task[t].user /\ q.rel = requests[task[t].id].rel /\ Unpaid.psc = 0
      BY <3>1 DEF Unpaid
    <3>3. /\ DOMAIN prizes' = DOMAIN prizes \union {Len(prizes) + 1}
          /\ Len(prizes) + 1 \notin DOMAIN prizes
          /\ prizes'[Len(prizes) + 1] = q /\ paid'[Len(prizes) + 1] = Unpaid
          /\ \A j \in DOMAIN prizes : prizes'[j] = prizes[j] /\ paid'[j] = paid[j]
      BY <1>1, <3>1
    <3>4. \A j \in DOMAIN prizes :
            /\ j \in DOMAIN prizes'
            /\ prizes'[j].user = prizes[j].user /\ prizes'[j].rel = prizes[j].rel
            /\ prizes'[j].open => prizes[j].open
            /\ paid'[j].psc = paid[j].psc + Has(IncrementWalletPSC(t) /\ j = i)
      BY <1>1, <1>5, <3>3 DEF Has
    <3>5. /\ AwardPrize(t) /\ requests[i].rel \in Rewarded
          /\ Len(prizes) + 1 \notin DOMAIN prizes
          /\ DOMAIN prizes' = DOMAIN prizes \union {Len(prizes) + 1}
          /\ prizes'[Len(prizes) + 1].user = task[t].user
          /\ prizes'[Len(prizes) + 1].rel = requests[i].rel
          /\ paid'[Len(prizes) + 1].psc = 0
      BY <1>5, <3>1, <3>2, <3>3
    <3> QED BY <3>4, <3>5
  <2> QED BY <2>1, <2>2
<1>6. CASE /\ ~ IncrementWalletPSC(t) /\ ~ IncrementSatisfaction(t) /\ ~ Redeem(t)
           /\ ~ AwardPrize(t)
  <2>1. UNCHANGED <<prizes, paid>>
    BY <1>6 DEF Kind, InsertDynasty, CreateFamily, UpdateStatus, CreateFamilyMember, CheckAges,
         VerifyPermissions, CreateDebt, LockFeature, SetFeatureLabel, UpdateFeature,
         AddOwner, CreateChildPermission, UpdatePermission, Fails, tables
  <2> QED BY <1>1, <1>6, <2>1 DEF Has
<1> QED BY <1>2, <1>3, <1>4, <1>5, <1>6

(* A step keeps the counts when it does for each receipt. *)
LEMMA CountFrame ==
  ASSUME IInv, IInv', ClaimsAreCounted, NEW t \in Tasks, Alone(t),
         \A i \in DOMAIN prizes' :
           \/ paid'[i].psc = 0
           \/ /\ i \in DOMAIN prizes
              /\ paid'[i].psc + Has(t \in Claiming(i)') + faults
                   <= paid[i].psc + Has(t \in Claiming(i)) + faults'
              /\ prizes'[i].open =>
                   /\ prizes[i].open
                   /\ paid'[i].psc + Has(t \in Crediting(i)) + faults
                        <= paid[i].psc + Has(t \in Crediting(i)') + faults'
           \/ /\ i \in DOMAIN prizes /\ prizes[i].open /\ paid'[i].psc = paid[i].psc
              /\ t \notin Claiming(i) /\ t \notin Crediting(i) /\ t \notin Crediting(i)'
              /\ faults' = faults
  PROVE  ClaimsAreCounted'
<1> SUFFICES ASSUME NEW i \in DOMAIN prizes'
             PROVE  /\ paid'[i].psc + Cardinality(Claiming(i)') <= Cardinality(Tasks) + faults'
                    /\ prizes'[i].open =>
                         paid'[i].psc <= Cardinality(Crediting(i)') + faults'
  BY DEF ClaimsAreCounted
<1>1. PICK A, B, C, D : /\ A = Claiming(i) /\ B = Claiming(i)'
                        /\ C = Crediting(i) /\ D = Crediting(i)'
  OBVIOUS
<1>2. /\ A \in SUBSET Tasks /\ B \in SUBSET Tasks /\ C \in SUBSET Tasks /\ D \in SUBSET Tasks
      /\ A \cap C = {}
  BY <1>1 DEF Claiming, Crediting
<1>3. /\ \A s \in Tasks \ {t} : s \in A <=> s \in B
      /\ \A s \in Tasks \ {t} : s \in C <=> s \in D
  BY <1>1 DEF Claiming, Crediting, Alone
<1>4. IsFiniteSet(Tasks)
  BY DynastyAssumption
<1>5. /\ Cardinality(A) \in Nat /\ Cardinality(B) \in Nat /\ Cardinality(Tasks) \in Nat
      /\ Cardinality(B) <= Cardinality(Tasks)
      /\ Cardinality(B) + Has(t \in A) = Cardinality(A) + Has(t \in B)
  BY <1>2, <1>3, <1>4, CountOne DEF Has
<1>6. /\ Cardinality(C) \in Nat /\ Cardinality(D) \in Nat
      /\ Cardinality(D) + Has(t \in C) = Cardinality(C) + Has(t \in D)
  BY <1>2, <1>3, <1>4, CountOne DEF Has
<1>7. faults \in Nat /\ faults' \in Nat
  BY BoundsType DEF IInv, TypeOK
<1>8. paid'[i].psc \in Nat
  <2>1. prizes' \in Seq(Prize) /\ paid' \in Seq(Paid) /\ Len(paid') = Len(prizes')
    BY DEF IInv, TypeOK
  <2>2. paid'[i] \in Paid
    BY <2>1
  <2> QED BY <2>2 DEF Paid
<1>9. CASE paid'[i].psc = 0
  BY <1>1, <1>5, <1>6, <1>7, <1>9
<1>10. CASE /\ i \in DOMAIN prizes
            /\ paid'[i].psc + Has(t \in B) + faults <= paid[i].psc + Has(t \in A) + faults'
            /\ prizes'[i].open =>
                 /\ prizes[i].open
                 /\ paid'[i].psc + Has(t \in C) + faults
                      <= paid[i].psc + Has(t \in D) + faults'
  <2>1. PICK a, b, c, d, n, p, q, x, y :
           /\ a = Cardinality(A) /\ b = Cardinality(B) /\ c = Cardinality(C)
           /\ d = Cardinality(D) /\ n = Cardinality(Tasks)
           /\ p = paid[i].psc /\ q = paid'[i].psc /\ x = faults /\ y = faults'
    OBVIOUS
  <2>2. {a, b, c, d, n, p, q, x, y} \subseteq Nat
    BY <1>5, <1>6, <1>7, <1>8, <1>10, <2>1, CountedUp
  <2>3. p + a <= n + x /\ (prizes[i].open => p <= c + x)
    BY <1>1, <1>10, <2>1 DEF ClaimsAreCounted
  <2>4. b + Has(t \in A) = a + Has(t \in B) /\ d + Has(t \in C) = c + Has(t \in D)
    BY <1>5, <1>6, <2>1
  <2>5. q + b <= n + y
    BY <1>10, <2>1, <2>2, <2>3, <2>4 DEF Has
  <2>6. prizes'[i].open => q <= d + y
    BY <1>10, <2>1, <2>2, <2>3, <2>4 DEF Has
  <2> QED BY <1>1, <2>1, <2>5, <2>6
<1>11. CASE /\ i \in DOMAIN prizes /\ prizes[i].open /\ paid'[i].psc = paid[i].psc
            /\ t \notin A /\ t \notin C /\ t \notin D /\ faults' = faults
  <2>1. paid[i].psc <= Cardinality(C) + faults
    BY <1>1, <1>11 DEF ClaimsAreCounted
  <2>2. B \cap C = {} /\ IsFiniteSet(B) /\ IsFiniteSet(C) /\ B \union C \subseteq Tasks
    BY <1>2, <1>3, <1>4, <1>11, FS_Subset
  <2>3. Cardinality(B \union C) = Cardinality(B) + Cardinality(C)
    <3>1. Cardinality(B \union C) = Cardinality(B) + Cardinality(C) - Cardinality(B \cap C)
      BY <2>2, FS_Union
    <3>2. Cardinality(B \cap C) = 0
      BY <2>2, FS_EmptySet
    <3> QED BY <1>5, <1>6, <3>1, <3>2
  <2>4. Cardinality(B \union C) <= Cardinality(Tasks)
    BY <1>4, <2>2, FS_Subset
  <2>5. Cardinality(D) = Cardinality(C)
    BY <1>6, <1>11 DEF Has
  <2>6. paid[i].psc \in Nat
    BY <1>11, CountedUp
  <2> QED BY <1>1, <1>5, <1>6, <1>7, <1>11, <2>1, <2>3, <2>4, <2>5, <2>6
<1> QED BY <1>1, <1>9, <1>10, <1>11

(* A receipt is paid again only by a claim that read it while it was open: *)
(* one for each goroutine, and one for each failure after a credit.        *)
LEMMA CountStep ==
  ASSUME IInv, IInv', ClaimsAreCounted, NEW t \in Tasks,
         Kind(t) \/ \E u \in Users : Arrival(t, u)
  PROVE  ClaimsAreCounted'
<1>1. Alone(t) /\ faults \in Nat
  BY BoundsType DEF Kind, Arrival, Forward, Ended, IInv, TypeOK
<1>2. \A i \in DOMAIN prizes : paid[i].psc \in Nat
  BY CountedUp
<1> DEFINE Ok(i) ==
      /\ paid'[i].psc + Has(t \in Claiming(i)') + faults
           <= paid[i].psc + Has(t \in Claiming(i)) + faults'
      /\ prizes'[i].open =>
           /\ prizes[i].open
           /\ paid'[i].psc + Has(t \in Crediting(i)) + faults
                <= paid[i].psc + Has(t \in Crediting(i)') + faults'
<1>3. ASSUME Kind(t), NEW i \in DOMAIN prizes PROVE Ok(i)
  <2>1. /\ prizes'[i].open => prizes[i].open
        /\ paid'[i].psc = paid[i].psc + Has(IncrementWalletPSC(t) /\ i = task[t].id)
    BY <1>3, PrizeRows
  <2>2. CASE IncrementWalletPSC(t)
    <3>1. /\ task[t].pc = "psc"
          /\ \/ Forward(t, "satisfaction") /\ faults' = faults
             \/ Ended(t) /\ faults' = faults + 1
      <4>1. task[t].pc = "psc"
        BY <2>2 DEF IncrementWalletPSC
      <4>2. CASE Goto(t, "satisfaction") /\ UNCHANGED faults
        BY <4>1, <4>2, ForwardStep DEF Steps
      <4>3. CASE Fault /\ Return(t)
        BY <4>1, <4>3, ForwardStep DEF Fault
      <4> QED BY <2>2, <4>2, <4>3 DEF IncrementWalletPSC
    <3>2. /\ t \notin Claiming(i)' /\ (t \in Claiming(i) <=> i = task[t].id)
          /\ t \notin Crediting(i)
          /\ t \in Crediting(i)' <=> Forward(t, "satisfaction") /\ i = task[t].id
      BY <3>1 DEF Claiming, Crediting, Forward, Ended
    <3>3. paid'[i].psc = paid[i].psc + Has(i = task[t].id)
      BY <2>1, <2>2
    <3> HIDE DEF Ok
    <3>4. CASE Forward(t, "satisfaction") /\ faults' = faults
      BY <1>1, <1>2, <2>1, <3>2, <3>3, <3>4 DEF Has, Ok
    <3>5. CASE faults' = faults + 1
      BY <1>1, <1>2, <2>1, <3>2, <3>3, <3>5 DEF Has, Ok
    <3> QED BY <3>1, <3>4, <3>5
  <2>3. CASE IncrementSatisfaction(t) /\ ~ IncrementWalletPSC(t)
    <3>1. /\ task[t].pc = "satisfaction"
          /\ \/ Forward(t, "redeem") /\ faults' = faults
             \/ Ended(t) /\ faults' = faults + 1
      <4>1. task[t].pc = "satisfaction"
        BY <2>3 DEF IncrementSatisfaction
      <4>2. CASE Goto(t, "redeem") /\ UNCHANGED faults
        BY <4>1, <4>2, ForwardStep DEF Steps
      <4>3. CASE Fault /\ Return(t)
        BY <4>1, <4>3, ForwardStep DEF Fault
      <4> QED BY <2>3, <4>2, <4>3 DEF IncrementSatisfaction
    <3>2. /\ t \notin Claiming(i)' /\ t \notin Claiming(i)
          /\ t \in Crediting(i) <=> i = task[t].id
          /\ t \in Crediting(i)' <=> Forward(t, "redeem") /\ i = task[t].id
      BY <3>1 DEF Claiming, Crediting, Forward, Ended
    <3>3. paid'[i].psc = paid[i].psc
      BY <1>2, <2>1, <2>3 DEF Has
    <3> HIDE DEF Ok
    <3>4. CASE Forward(t, "redeem") /\ faults' = faults
      BY <1>1, <1>2, <2>1, <3>2, <3>3, <3>4 DEF Has, Ok
    <3>5. CASE faults' = faults + 1
      BY <1>1, <1>2, <2>1, <3>2, <3>3, <3>5 DEF Has, Ok
    <3> QED BY <3>1, <3>4, <3>5
  <2>4. CASE Redeem(t) /\ ~ IncrementWalletPSC(t)
    <3>1. /\ task[t].pc = "redeem" /\ task'[t].pc = "idle" /\ faults' = faults
      BY <2>4, ForwardStep DEF Redeem, Ended
    <3>2. i = task[t].id => ~ prizes'[i].open
      <4>1. prizes \in Seq(Prize) /\ prizes[i] \in Prize
        BY DEF IInv, TypeOK
      <4>2. PICK q : q = [prizes[i] EXCEPT !.open = FALSE]
        OBVIOUS
      <4>3. ~ q.open
        BY <4>1, <4>2 DEF Prize
      <4>4. i = task[t].id => prizes'[i] = q
        BY <2>4, <4>1, <4>2 DEF Redeem
      <4> QED BY <4>3, <4>4
    <3>3. /\ t \notin Claiming(i)' /\ t \notin Claiming(i) /\ t \notin Crediting(i)'
          /\ t \in Crediting(i) => i = task[t].id
      BY <3>1 DEF Claiming, Crediting
    <3>4. paid'[i].psc = paid[i].psc
      BY <1>2, <2>1, <2>4 DEF Has
    <3> HIDE DEF Ok
    <3> QED BY <1>1, <1>2, <2>1, <3>1, <3>2, <3>3, <3>4 DEF Has, Ok
  <2>5. CASE ~ IncrementWalletPSC(t) /\ ~ IncrementSatisfaction(t) /\ ~ Redeem(t)
    <3>1. /\ task'[t].pc \notin {"psc", "satisfaction", "redeem"}
          /\ \/ faults' = faults + 1
             \/ faults' = faults /\ task[t].pc \notin {"psc", "satisfaction", "redeem"}
      BY <1>3, <2>5 DEF Kind, Forward, Ended, InsertDynasty, CreateFamily, UpdateStatus,
           CreateFamilyMember, CheckAges, VerifyPermissions, CreateDebt, LockFeature,
           SetFeatureLabel, UpdateFeature, AddOwner, CreateChildPermission, AwardPrize,
           UpdatePermission, Fails, Fault
    <3>2. /\ t \notin Claiming(i)' /\ t \notin Crediting(i)'
          /\ faults' = faults => t \notin Claiming(i) /\ t \notin Crediting(i)
      BY <1>1, <3>1 DEF Claiming, Crediting
    <3>3. paid'[i].psc = paid[i].psc
      BY <1>2, <2>1, <2>5 DEF Has
    <3> HIDE DEF Ok
    <3> QED BY <1>1, <1>2, <2>1, <3>1, <3>2, <3>3 DEF Has, Ok
  <2> QED BY <2>2, <2>3, <2>4, <2>5
<1>4. CASE Kind(t)
  <2>1. \A i \in DOMAIN prizes' : i \notin DOMAIN prizes => paid'[i].psc = 0
    BY <1>4, PrizeRows
  <2> HIDE DEF Ok
  <2>2. \A i \in DOMAIN prizes' : paid'[i].psc = 0 \/ (i \in DOMAIN prizes /\ Ok(i))
    BY <1>3, <1>4, <2>1
  <2> QED BY <1>1, <2>2, CountFrame DEF Ok
<1>5. ASSUME NEW u \in Users, Arrival(t, u) PROVE ClaimsAreCounted'
  <2>1. UNCHANGED <<prizes, paid, faults>>
    BY <1>5 DEF Arrival
  <2>2. ASSUME NEW i \in DOMAIN prizes'
        PROVE  /\ i \in DOMAIN prizes /\ paid'[i].psc = paid[i].psc
               /\ t \notin Claiming(i) /\ t \notin Crediting(i) /\ t \notin Crediting(i)'
               /\ t \in Claiming(i)' => prizes[i].open
    BY <1>5, <2>1 DEF Arrival, Claiming, Crediting
  <2>3. ASSUME NEW i \in DOMAIN prizes', t \notin Claiming(i)' PROVE Ok(i)
    BY <1>1, <1>2, <2>1, <2>2, <2>3 DEF Has
  <2> HIDE DEF Ok
  <2>4. \A i \in DOMAIN prizes' :
           \/ i \in DOMAIN prizes /\ Ok(i)
           \/ /\ i \in DOMAIN prizes /\ prizes[i].open /\ paid'[i].psc = paid[i].psc
              /\ t \notin Claiming(i) /\ t \notin Crediting(i) /\ t \notin Crediting(i)'
              /\ faults' = faults
    BY <2>1, <2>2, <2>3
  <2> QED BY <1>1, <2>4, CountFrame DEF Ok
<1> QED BY <1>4, <1>5

-----------------------------------------------------------------------------
(* Acceptances of requests that inserted a member, for which a prize may   *)
(* still be awarded.                                                       *)
PrizesOf(u, r) == {i \in DOMAIN prizes : prizes[i].user = u /\ prizes[i].rel = r}
Awarding(u, r) == {t \in Tasks : /\ task[t].pc \in {"age", "verify", "award"}
                                 /\ task[t].user = u /\ requests[task[t].id].rel = r}
PrizesAreBacked ==
  /\ IsFiniteSet(DOMAIN members)
  /\ \A u \in Users, r \in Rewarded :
       Cardinality(PrizesOf(u, r)) + Cardinality(Awarding(u, r))
         <= SumFunctionOnSet(members, RowsOf(u, r))

(* The rows of a user are counted in a number. *)
LEMMA RowsCounted ==
  ASSUME IInv, IsFiniteSet(DOMAIN members), NEW u, NEW r
  PROVE  /\ IsFiniteSet(RowsOf(u, r)) /\ \A m \in RowsOf(u, r) : members[m] \in Nat
         /\ SumFunctionOnSet(members, RowsOf(u, r)) \in Nat
<1> DEFINE R == RowsOf(u, r)
<1>1. R \subseteq DOMAIN members
  BY DEF RowsOf
<1>2. \A m \in DOMAIN members : members[m] \in Nat
  BY DEF IInv, TypeOK, IsABag
<1> HIDE DEF R
<1>3. IsFiniteSet(R) /\ \A m \in R : members[m] \in Nat
  BY <1>1, <1>2, FS_Subset
<1>4. SumFunctionOnSet(members, R) \in Nat
  BY <1>3, SumNat
<1> QED BY <1>3, <1>4 DEF R

(* The same holds after a step. *)
LEMMA RowsCountedNext ==
  ASSUME IInv', IsFiniteSet(DOMAIN members'), NEW u, NEW r
  PROVE  SumFunctionOnSet(members', RowsOf(u, r)') \in Nat
<1>1. PICK R, f : R = RowsOf(u, r)' /\ f = members'
  OBVIOUS
<1>2. R \subseteq DOMAIN f
  BY <1>1 DEF RowsOf
<1>3. \A m \in DOMAIN f : f[m] \in Nat
  BY <1>1 DEF IInv, TypeOK, IsABag
<1>4. IsFiniteSet(R) /\ \A m \in R : f[m] \in Nat
  BY <1>1, <1>2, <1>3, FS_Subset
<1>5. SumFunctionOnSet(f, R) \in Nat
  BY <1>4, SumNat
<1> QED BY <1>1, <1>5

(* The prizes of a user are counted in a number. *)
LEMMA PrizesCounted ==
  ASSUME IInv, NEW u, NEW r
  PROVE  IsFiniteSet(PrizesOf(u, r)) /\ Cardinality(PrizesOf(u, r)) \in Nat
<1>1. prizes \in Seq(Prize)
  BY DEF IInv, TypeOK
<1>2. DOMAIN prizes = 1..Len(prizes) /\ Len(prizes) \in Nat
  BY <1>1
<1>3. IsFiniteSet(DOMAIN prizes) /\ PrizesOf(u, r) \subseteq DOMAIN prizes
  BY <1>2, FS_Interval DEF PrizesOf
<1>4. IsFiniteSet(PrizesOf(u, r))
  BY <1>3, FS_Subset
<1> QED BY <1>4, FS_CardinalityType

(* A row more counts one. *)
LEMMA RowsAdded ==
  ASSUME IInv, IsFiniteSet(DOMAIN members), NEW x, members' = members (+) SetToBag({x})
  PROVE  /\ IsFiniteSet(DOMAIN members')
         /\ \A u, r : SumFunctionOnSet(members', RowsOf(u, r)')
                        = SumFunctionOnSet(members, RowsOf(u, r))
                            + Has(x.user = u /\ x.rel = r)
<1>1. /\ members \in [DOMAIN members -> {n \in Nat : n > 0}]
      /\ SetToBag({x}) = [e \in {x} |-> 1]
  BY DEF IsABag, SetToBag, IInv, TypeOK
<1>2. members' = [e \in DOMAIN members \union {x} |->
             (IF e \in DOMAIN members THEN members[e] ELSE 0) + (IF e \in {x} THEN 1 ELSE 0)]
  BY <1>1 DEF (+)
<1>3. DOMAIN members' = DOMAIN members \union {x}
  BY <1>2
<1>4. IsFiniteSet(DOMAIN members')
  BY <1>3, FS_AddElement
<1>5. PICK f, g : f = members /\ g = members'
  OBVIOUS
<1>6. /\ \A e \in DOMAIN f : f[e] \in Int
      /\ \A e \in DOMAIN f \ {x} : g[e] = f[e]
      /\ x \in DOMAIN f => g[x] = f[x] + 1
      /\ x \notin DOMAIN f => g[x] = 1
  <2>1. \A e \in DOMAIN members : members[e] \in Int
    BY <1>1
  <2>2. \A e \in DOMAIN members \ {x} : members'[e] = members[e]
    BY <1>2, <2>1
  <2>3. /\ x \in DOMAIN members => members'[x] = members[x] + 1
        /\ x \notin DOMAIN members => members'[x] = 1
    <3>1. members'[x] = (IF x \in DOMAIN members THEN members[x] ELSE 0) + 1
      BY <1>2
    <3>2. 0 + 1 = 1
      OBVIOUS
    <3> QED BY <2>1, <3>1, <3>2
  <2> QED BY <1>5, <2>1, <2>2, <2>3
<1>7. ASSUME NEW u, NEW r
      PROVE  SumFunctionOnSet(members', RowsOf(u, r)')
               = SumFunctionOnSet(members, RowsOf(u, r)) + Has(x.user = u /\ x.rel = r)
  <2>1. PICK A, B : A = RowsOf(u, r) /\ B = RowsOf(u, r)'
    OBVIOUS
  <2>2. IsFiniteSet(A) /\ A \subseteq DOMAIN f /\ SumFunctionOnSet(f, A) \in Int
    <3>1. IsFiniteSet(A) /\ A \subseteq DOMAIN f
      <4>1. IsFiniteSet(RowsOf(u, r))
        BY RowsCounted
      <4>2. RowsOf(u, r) \subseteq DOMAIN members
        BY DEF RowsOf
      <4> QED BY <1>5, <2>1, <4>1, <4>2
    <3>2. SumFunctionOnSet(members, RowsOf(u, r)) \in Nat
      BY RowsCounted
    <3>3. SumFunctionOnSet(f, A) = SumFunctionOnSet(members, RowsOf(u, r))
      BY <1>5, <2>1
    <3> QED BY <3>1, <3>2, <3>3
  <2>3. CASE ~ (x.user = u /\ x.rel = r)
    <3>1. B = A /\ x \notin A
      BY <1>3, <2>1, <2>3 DEF RowsOf
    <3>2. \A e \in A : f[e] \in Int /\ g[e] = f[e]
      BY <1>6, <2>2, <3>1
    <3>3. SumFunctionOnSet(g, A) = SumFunctionOnSet(f, A)
      BY <2>2, <3>2, SumEqual
    <3> QED BY <1>5, <2>1, <2>2, <2>3, <3>1, <3>3 DEF Has
  <2>4. CASE x.user = u /\ x.rel = r /\ x \in DOMAIN f
    <3>1. B = A /\ x \in A
      BY <1>3, <1>5, <2>1, <2>4 DEF RowsOf
    <3>2. /\ \A y \in A : f[y] \in Int
          /\ g[x] \in Int /\ g[x] = f[x] + 1 /\ f[x] \in Int
          /\ \A y \in A \ {x} : g[y] = f[y]
      BY <1>6, <2>2, <2>4
    <3>3. SumFunctionOnSet(g, A) = SumFunctionOnSet(f, A) - f[x] + g[x]
      BY <2>2, <3>1, <3>2, SumUpdate
    <3> QED BY <1>5, <2>1, <2>2, <2>4, <3>1, <3>2, <3>3 DEF Has
  <2>5. CASE x.user = u /\ x.rel = r /\ x \notin DOMAIN f
    <3>1. B = A \union {x} /\ x \notin A
      BY <1>3, <1>5, <2>1, <2>5 DEF RowsOf
    <3>2. /\ \A y \in A : f[y] \in Int /\ g[y] = f[y]
          /\ g[x] \in Int /\ g[x] = 1
      BY <1>6, <2>2, <2>5
    <3>3. SumFunctionOnSet(g, B) = SumFunctionOnSet(f, A) + g[x]
      BY <2>2, <3>1, <3>2, SumExtended
    <3> QED BY <1>5, <2>1, <2>2, <2>5, <3>2, <3>3 DEF Has
  <2> QED BY <2>3, <2>4, <2>5
<1> QED BY <1>4, <1>7

(* The columns of requests that a reply does not update. *)
LEMMA RequestRows ==
  ASSUME IInv, NEW t \in Tasks, Kind(t)
  PROVE  \A i \in DOMAIN requests : requests'[i].rel = requests[i].rel
<1>1. requests \in Seq(Request) /\ \A i \in DOMAIN requests : requests[i] \in Request
  BY DEF IInv, TypeOK
<1>2. CASE UpdateStatus(t)
  <2>1. ASSUME NEW i \in DOMAIN requests PROVE requests'[i].rel = requests[i].rel
    <3> PICK q : q = [requests[i] EXCEPT !.status =
                        IF @ = "deleted" THEN @ ELSE task[t].op]
      OBVIOUS
    <3>1. q.rel = requests[i].rel
      BY <1>1 DEF Request
    <3>2. requests'[i] = q \/ requests'[i] = requests[i]
      BY <1>1, <1>2 DEF UpdateStatus
    <3> QED BY <3>1, <3>2
  <2> QED BY <2>1
<1>3. CASE ~ UpdateStatus(t)
  <2>1. UNCHANGED requests
    BY <1>3 DEF Kind, InsertDynasty, CreateFamily, CreateFamilyMember, CheckAges,
         VerifyPermissions, IncrementWalletPSC, IncrementSatisfaction, CreateDebt, LockFeature,
         SetFeatureLabel, UpdateFeature, AddOwner, CreateChildPermission, AwardPrize, Redeem,
         UpdatePermission, Fails, tables
  <2> QED BY <2>1
<1> QED BY <1>2, <1>3

(* A step keeps the prizes backed when its goroutine does not gain, in     *)
(* prizes and in the right to one, more than its user gains in rows.       *)
LEMMA BackedFrame ==
  ASSUME IInv, IInv', PrizesAreBacked, NEW t \in Tasks, Alone(t),
         \A i \in DOMAIN requests : requests'[i].rel = requests[i].rel,
         IsFiniteSet(DOMAIN members'),
         \A u \in Users, r \in Rewarded :
           /\ Cardinality(PrizesOf(u, r)') \in Nat
           /\ Cardinality(PrizesOf(u, r)') + Has(t \in Awarding(u, r)')
                  + SumFunctionOnSet(members, RowsOf(u, r))
                <= Cardinality(PrizesOf(u, r)) + Has(t \in Awarding(u, r))
                     + SumFunctionOnSet(members', RowsOf(u, r)')
  PROVE  PrizesAreBacked'
<1> SUFFICES ASSUME NEW u \in Users, NEW r \in Rewarded
             PROVE  Cardinality(PrizesOf(u, r)') + Cardinality(Awarding(u, r)')
                      <= SumFunctionOnSet(members', RowsOf(u, r)')
  BY DEF PrizesAreBacked
<1>1. PICK A, B : A = Awarding(u, r) /\ B = Awarding(u, r)'
  OBVIOUS
<1>2. A \in SUBSET Tasks /\ B \in SUBSET Tasks
  BY <1>1 DEF Awarding
<1>3. \A s \in Tasks \ {t} : s \in A <=> s \in B
  <2>1. ASSUME NEW s \in Tasks \ {t}, task[s].pc \in {"age", "verify", "award"}
        PROVE  requests'[task[s].id].rel = requests[task[s].id].rel
    <3>1. TaskOK(task[s])
      BY DEF IInv
    <3>2. task[s].id \in DOMAIN requests
      BY <2>1, <3>1 DEF TaskOK, Replying
    <3> QED BY <3>2
  <2>2. \A s \in Tasks \ {t} : task'[s] = task[s]
    BY DEF Alone
  <2> QED BY <1>1, <2>1, <2>2 DEF Awarding
<1>4. /\ Cardinality(A) \in Nat /\ Cardinality(B) \in Nat
      /\ Cardinality(B) + Has(t \in A) = Cardinality(A) + Has(t \in B)
  BY <1>2, <1>3, CountOne, DynastyAssumption DEF Has
<1>5. PICK a, b, p, q, x, y : /\ a = Cardinality(A) /\ b = Cardinality(B)
                              /\ p = Cardinality(PrizesOf(u, r))
                              /\ q = Cardinality(PrizesOf(u, r)')
                              /\ x = SumFunctionOnSet(members, RowsOf(u, r))
                              /\ y = SumFunctionOnSet(members', RowsOf(u, r)')
  OBVIOUS
<1>6. a \in Nat /\ b \in Nat /\ q \in Nat
  BY <1>4, <1>5
<1>7. p \in Nat
  BY <1>5, PrizesCounted
<1>8. x \in Nat /\ y \in Nat
  BY <1>5, RowsCounted, RowsCountedNext DEF PrizesAreBacked
<1>9. p + a <= x
  BY <1>1, <1>5 DEF PrizesAreBacked
<1>10. q + Has(t \in B) + x <= p + Has(t \in A) + y /\ b + Has(t \in A) = a + Has(t \in B)
  BY <1>1, <1>4, <1>5
<1>11. q + b <= y
  BY <1>6, <1>7, <1>8, <1>9, <1>10 DEF Has
<1> QED BY <1>1, <1>5, <1>11

(* A prize is awarded by the call that has inserted the member, once.      *)
LEMMA BackedStep ==
  ASSUME IInv, IInv', PrizesAreBacked, NEW t \in Tasks,
         Kind(t) \/ \E u \in Users : Arrival(t, u)
  PROVE  PrizesAreBacked'
<1>1. /\ Alone(t) /\ IsFiniteSet(DOMAIN members)
      /\ \A i \in DOMAIN requests : requests'[i].rel = requests[i].rel
  <2>1. Alone(t)
    BY DEF Kind, Arrival, Forward, Ended
  <2> QED BY <2>1, RequestRows DEF Arrival, PrizesAreBacked
<1>2. ASSUME NEW u \in Users, NEW r \in Rewarded
      PROVE  /\ Cardinality(PrizesOf(u, r)) \in Nat
             /\ IsFiniteSet(PrizesOf(u, r))
             /\ SumFunctionOnSet(members, RowsOf(u, r)) \in Nat
  BY <1>1, PrizesCounted, RowsCounted
<1> DEFINE Ok(u, r) ==
      /\ Cardinality(PrizesOf(u, r)') \in Nat
      /\ Cardinality(PrizesOf(u, r)') + Has(t \in Awarding(u, r)')
             + SumFunctionOnSet(members, RowsOf(u, r))
           <= Cardinality(PrizesOf(u, r)) + Has(t \in Awarding(u, r))
                + SumFunctionOnSet(members', RowsOf(u, r)')
<1>3. SUFFICES /\ IsFiniteSet(DOMAIN members')
               /\ \A u \in Users, r \in Rewarded : Ok(u, r)
  <2> HIDE DEF Ok
  <2> SUFFICES ASSUME IsFiniteSet(DOMAIN members'),
                      \A u \in Users, r \in Rewarded : Ok(u, r)
               PROVE  PrizesAreBacked'
    OBVIOUS
  <2> QED BY <1>1, BackedFrame DEF Ok
<1>4. CASE /\ CreateFamilyMember(t) /\ Forward(t, "age")
           /\ \E d \in DynastiesOf(requests[task[t].id].from) :
                members' = AddMember(d, task[t].user, requests[task[t].id].rel)
  <2>1. PICK d : members' = AddMember(d, task[t].user, requests[task[t].id].rel)
    BY <1>4
  <2>2. PICK x : x = [dynasty |-> d, user |-> task[t].user, rel |-> requests[task[t].id].rel]
    OBVIOUS
  <2>3. /\ members' = members (+) SetToBag({x})
        /\ x.user = task[t].user /\ x.rel = requests[task[t].id].rel
    BY <2>1, <2>2 DEF AddMember
  <2>4. /\ IsFiniteSet(DOMAIN members')
        /\ \A u, r : SumFunctionOnSet(members', RowsOf(u, r)')
                       = SumFunctionOnSet(members, RowsOf(u, r))
                           + Has(x.user = u /\ x.rel = r)
    BY <1>1, <2>3, RowsAdded
  <2>5. /\ task[t].pc = "member" /\ task[t].id \in DOMAIN requests
        /\ UNCHANGED <<requests, prizes>>
    <3>1. task[t].pc = "member" /\ TaskOK(task[t])
      BY <1>4 DEF CreateFamilyMember, IInv
    <3> QED BY <1>4, <3>1 DEF CreateFamilyMember, TaskOK, Replying
  <2>6. ASSUME NEW u \in Users, NEW r \in Rewarded PROVE Ok(u, r)
    <3>1. PrizesOf(u, r)' = PrizesOf(u, r)
      BY <2>5 DEF PrizesOf
    <3>2. /\ t \notin Awarding(u, r)
          /\ t \in Awarding(u, r)' <=> x.user = u /\ x.rel = r
      BY <1>4, <2>3, <2>5 DEF Awarding, Forward
    <3>3. SumFunctionOnSet(members', RowsOf(u, r)')
            = SumFunctionOnSet(members, RowsOf(u, r)) + Has(x.user = u /\ x.rel = r)
      BY <2>4
    <3> QED BY <1>2, <3>1, <3>2, <3>3 DEF Has
  <2> HIDE DEF Ok
  <2> QED BY <2>4, <2>6
<1>5. CASE AwardPrize(t) /\ Ended(t)
  <2>1. /\ task[t].pc = "award" /\ task'[t].pc = "idle" /\ UNCHANGED <<members, requests>>
    BY <1>5 DEF AwardPrize, Ended
  <2>2. ASSUME NEW u \in Users, NEW r \in Rewarded PROVE Ok(u, r)
    <3>1. RowsOf(u, r)' = RowsOf(u, r) /\ members' = members
      BY <2>1 DEF RowsOf
    <3>2. /\ t \notin Awarding(u, r)'
          /\ t \in Awarding(u, r) <=> task[t].user = u /\ requests[task[t].id].rel = r
      BY <2>1 DEF Awarding
    <3>3. CASE PrizesOf(u, r)' = PrizesOf(u, r)
      BY <1>2, <3>1, <3>2, <3>3 DEF Has
    <3>4. CASE PrizesOf(u, r)' # PrizesOf(u, r)
      <4>1. /\ PrizesOf(u, r)' = PrizesOf(u, r) \union {Len(prizes) + 1}
            /\ Len(prizes) + 1 \notin PrizesOf(u, r)
            /\ task[t].user = u /\ requests[task[t].id].rel = r
        BY <1>5, <3>4, PrizeRows DEF PrizesOf, Kind
      <4>2. Cardinality(PrizesOf(u, r)') = Cardinality(PrizesOf(u, r)) + 1
        <5>1. PICK p, q, n : p = PrizesOf(u, r) /\ q = PrizesOf(u, r)' /\ n = Len(prizes) + 1
          OBVIOUS
        <5>2. IsFiniteSet(p) /\ n \notin p /\ q = p \union {n}
          BY <1>2, <4>1, <5>1
        <5>3. Cardinality(q) = Cardinality(p) + 1
          BY <5>2, FS_AddElement
        <5> QED BY <5>1, <5>3
      <4>3. t \in Awarding(u, r) /\ t \notin Awarding(u, r)'
        BY <3>2, <4>1
      <4> QED BY <1>2, <3>1, <4>2, <4>3 DEF Has
    <3> QED BY <3>3, <3>4
  <2> HIDE DEF Ok
  <2> QED BY <1>1, <2>1, <2>2
<1>6. CASE AddOwner(t) /\ Ended(t)
  <2>1. PICK x : x = [dynasty |-> task[t].id, user |-> task[t].user, rel |-> "owner"]
    OBVIOUS
  <2>2. members' = members (+) SetToBag({x}) /\ x.rel = "owner"
    BY <1>6, <2>1 DEF AddOwner, AddMember
  <2>3. /\ IsFiniteSet(DOMAIN members')
        /\ \A u, r : SumFunctionOnSet(members', RowsOf(u, r)')
                       = SumFunctionOnSet(members, RowsOf(u, r))
                           + Has(x.user = u /\ x.rel = r)
    BY <1>1, <2>2, RowsAdded
  <2>4. ASSUME NEW u \in Users, NEW r \in Rewarded PROVE Ok(u, r)
    <3>1. PrizesOf(u, r)' = PrizesOf(u, r)
      BY <1>6 DEF PrizesOf, AddOwner
    <3>2. t \notin Awarding(u, r) /\ t \notin Awarding(u, r)'
      BY <1>6 DEF Awarding, AddOwner, Ended
    <3>3. x.rel # r
      BY <2>2, DynastyAssumption
    <3>4. SumFunctionOnSet(members', RowsOf(u, r)')
            = SumFunctionOnSet(members, RowsOf(u, r)) + 0
      BY <2>3, <3>3 DEF Has
    <3> QED BY <1>2, <3>1, <3>2, <3>4 DEF Has
  <2> HIDE DEF Ok
  <2> QED BY <2>3, <2>4
<1>7. ASSUME members' = members,
             \A u \in Users, r \in Rewarded :
               /\ PrizesOf(u, r)' = PrizesOf(u, r)
               /\ t \in Awarding(u, r)' => t \in Awarding(u, r)
      PROVE  /\ IsFiniteSet(DOMAIN members')
             /\ \A u \in Users, r \in Rewarded : Ok(u, r)
  <2>1. ASSUME NEW u \in Users, NEW r \in Rewarded PROVE Ok(u, r)
    <3>1. RowsOf(u, r)' = RowsOf(u, r)
      BY <1>7 DEF RowsOf
    <3>2. SumFunctionOnSet(members', RowsOf(u, r)') = SumFunctionOnSet(members, RowsOf(u, r))
      BY <1>7, <3>1
    <3> QED BY <1>2, <1>7, <3>2 DEF Has
  <2> HIDE DEF Ok
  <2> QED BY <1>1, <1>7, <2>1
<1>8. CASE \E u \in Users : Arrival(t, u)
  <2>1. UNCHANGED <<members, prizes>> /\ task'[t].pc \notin {"age", "verify", "award"}
    BY <1>8 DEF Arrival
  <2>2. \A u \in Users, r \in Rewarded : PrizesOf(u, r)' = PrizesOf(u, r)
    BY <2>1 DEF PrizesOf
  <2>3. \A u \in Users, r \in Rewarded : t \notin Awarding(u, r)'
    BY <2>1 DEF Awarding
  <2> HIDE DEF Ok
  <2> QED BY <1>7, <2>1, <2>2, <2>3
<1>9. CASE /\ Kind(t) /\ ~ (AwardPrize(t) /\ Ended(t)) /\ ~ (AddOwner(t) /\ Ended(t))
           /\ ~ (/\ CreateFamilyMember(t) /\ Forward(t, "age")
                 /\ \E d \in DynastiesOf(requests[task[t].id].from) :
                      members' = AddMember(d, task[t].user, requests[task[t].id].rel))
  <2>1. members' = members /\ (AwardPrize(t) => UNCHANGED prizes)
    BY <1>9 DEF Kind, InsertDynasty, CreateFamily, UpdateStatus, CheckAges, VerifyPermissions,
         IncrementWalletPSC, IncrementSatisfaction, CreateDebt, LockFeature, SetFeatureLabel,
         UpdateFeature, CreateChildPermission, Redeem, UpdatePermission, Fails, tables,
         CreateFamilyMember
  <2>2. \A i \in DOMAIN prizes : /\ i \in DOMAIN prizes' /\ prizes'[i].user = prizes[i].user
                                 /\ prizes'[i].rel = prizes[i].rel
    BY <1>9, PrizeRows
  <2>3. DOMAIN prizes' = DOMAIN prizes
    BY <1>9, <2>1, PrizeRows
  <2>4. \A u \in Users, r \in Rewarded : PrizesOf(u, r)' = PrizesOf(u, r)
    BY <2>2, <2>3 DEF PrizesOf
  <2>5. task'[t].pc \in {"age", "verify", "award"} =>
          /\ task[t].pc \in {"age", "verify"}
          /\ task'[t].user = task[t].user /\ task'[t].id = task[t].id
    BY <1>9 DEF Kind, Forward, Ended, CheckAges, VerifyPermissions
  <2>6. task[t].pc \in {"age", "verify"} =>
          requests'[task[t].id].rel = requests[task[t].id].rel
    <3>1. TaskOK(task[t])
      BY DEF IInv
    <3> QED BY <1>1, <3>1 DEF TaskOK, Replying
  <2>7. \A u \in Users, r \in Rewarded : t \in Awarding(u, r)' => t \in Awarding(u, r)
    BY <2>5, <2>6 DEF Awarding
  <2> HIDE DEF Ok
  <2> QED BY <1>7, <2>1, <2>4, <2>7
<1> HIDE DEF Ok
<1> QED BY <1>4, <1>5, <1>6, <1>8, <1>9

(* The members at the start: owners, and those whose request was accepted. *)
LEMMA InitMembers ==
  ASSUME Init
  PROVE  /\ IsFiniteSet(DOMAIN members)
         /\ \A m \in DOMAIN members : members[m] = 1
         /\ \A a \in Accepted, i \in DOMAIN dynasties : dynasties[i].user = a.from =>
              [dynasty |-> i, user |-> a.to, rel |-> a.rel] \in DOMAIN members
<1> DEFINE D == DOMAIN dynasties
           Row(i) == [dynasty |-> i, user |-> dynasties[i].user, rel |-> "owner"]
           X == {Row(i) : i \in D}
           Y == UNION {{[dynasty |-> i, user |-> a.to, rel |-> a.rel] :
                         i \in {j \in D : dynasties[j].user = a.from}} : a \in Accepted}
           o == [i \in D |-> Row(i)]
           g == [p \in Accepted \X D |->
                  [dynasty |-> p[2], user |-> p[1].to, rel |-> p[1].rel]]
<1>1. members = SetToBag(X \union Y)
  BY DEF Init
<1>2. DOMAIN members = X \union Y /\ \A m \in DOMAIN members : members[m] = 1
  <2> HIDE DEF X, Y
  <2> QED BY <1>1 DEF SetToBag
<1>3. IsFiniteSet(D) /\ IsFiniteSet(Accepted)
  <2>1. D = 1..Cardinality(Founders) /\ Cardinality(Founders) \in Nat
    BY DynastyAssumption, FS_CardinalityType DEF Init
  <2> QED BY <2>1, FS_Interval, DynastyAssumption
<1>4. IsFiniteSet(X)
  <2>1. X = {o[i] : i \in D}
    OBVIOUS
  <2> HIDE DEF X, o, D
  <2> QED BY <1>3, <2>1, FiniteImage
<1>5. IsFiniteSet(Y)
  <2>1. Y \subseteq {g[p] : p \in Accepted \X D}
    <3>1. ASSUME NEW a \in Accepted, NEW i \in D
          PROVE  [dynasty |-> i, user |-> a.to, rel |-> a.rel] \in {g[p] : p \in Accepted \X D}
      <4>1. <<a, i>> \in Accepted \X D
        OBVIOUS
      <4>2. g[<<a, i>>] = [dynasty |-> i, user |-> a.to, rel |-> a.rel]
        BY <4>1
      <4> HIDE DEF g
      <4> QED BY <4>1, <4>2
    <3> HIDE DEF g
    <3> QED BY <3>1
  <2>2. IsFiniteSet(Accepted \X D)
    BY <1>3, FS_Product
  <2> HIDE DEF Y, g
  <2>3. IsFiniteSet({g[p] : p \in Accepted \X D})
    BY <2>2, FiniteImage
  <2> QED BY <2>1, <2>3, FS_Subset
<1>6. IsFiniteSet(DOMAIN members)
  <2> HIDE DEF X, Y
  <2> QED BY <1>2, <1>4, <1>5, FS_Union
<1>7. ASSUME NEW a \in Accepted, NEW i \in D, dynasties[i].user = a.from
      PROVE  [dynasty |-> i, user |-> a.to, rel |-> a.rel] \in Y
  BY <1>7
<1> HIDE DEF X, Y
<1> QED BY <1>2, <1>6, <1>7

(* Each prize at the start is that of a request, and each request has      *)
(* inserted a row of its own.                                              *)
LEMMA BackedInit ==
  ASSUME Init
  PROVE  PrizesAreBacked
<1> DEFINE won == {a \in Accepted : a.rel \in Rewarded}
           n == Cardinality(won)
           l == Listed(won)
<1>1. /\ n \in Nat /\ l \in [1..n -> won]
      /\ \A i, j \in 1..n : l[i] = l[j] => i = j
  <2>1. IsFiniteSet(won)
    BY DynastyAssumption, FS_Subset
  <2> HIDE DEF won
  <2> QED BY <2>1, ListedType, ListedOnce
<1>2. /\ prizes = [i \in 1..n |-> [user |-> l[i].to, rel |-> l[i].rel, open |-> TRUE]]
  BY DEF Init
<1>3. ASSUME NEW a \in Accepted PROVE \E i \in DOMAIN dynasties : dynasties[i].user = a.from
  <2>1. a.from \in Founders
    BY DynastyAssumption
  <2>2. /\ Cardinality(Founders) \in Nat
        /\ \A x \in Founders : \E i \in 1..Cardinality(Founders) : Listed(Founders)[i] = x
    BY ListedType, DynastyAssumption
  <2>3. PICK i \in 1..Cardinality(Founders) : Listed(Founders)[i] = a.from
    BY <2>1, <2>2
  <2>4. i \in DOMAIN dynasties /\ dynasties[i].user = a.from
    BY <2>3 DEF Init
  <2> QED BY <2>4
<1>4. ASSUME NEW u \in Users, NEW r \in Rewarded
      PROVE  Cardinality(PrizesOf(u, r)) + Cardinality(Awarding(u, r))
               <= SumFunctionOnSet(members, RowsOf(u, r))
  <2> DEFINE P == PrizesOf(u, r)
             R == RowsOf(u, r)
             Home(i) == CHOOSE j \in DOMAIN dynasties : dynasties[j].user = l[i].from
             f == [i \in P |-> [dynasty |-> Home(i), user |-> u, rel |-> r]]
  <2>1. ASSUME NEW i \in P
        PROVE  /\ i \in 1..n /\ l[i] \in Accepted /\ l[i].to = u /\ l[i].rel = r
               /\ Home(i) \in DOMAIN dynasties /\ dynasties[Home(i)].user = l[i].from
    <3> HIDE DEF l, n
    <3>1. i \in 1..n /\ prizes[i].user = u /\ prizes[i].rel = r
      BY <1>2, <2>1 DEF PrizesOf
    <3>2. prizes[i] = [user |-> l[i].to, rel |-> l[i].rel, open |-> TRUE]
      BY <1>2, <3>1
    <3>3. l[i].to = u /\ l[i].rel = r /\ l[i] \in Accepted
      BY <1>1, <3>1, <3>2
    <3> QED BY <1>3, <3>1, <3>3
  <2>2. ASSUME NEW i \in P PROVE f[i] \in R
    <3>1. [dynasty |-> Home(i), user |-> l[i].to, rel |-> l[i].rel] \in DOMAIN members
      <4> HIDE DEF Home, l, P
      <4> QED BY <2>1, <2>2, InitMembers
    <3>2. f[i] = [dynasty |-> Home(i), user |-> u, rel |-> r]
      OBVIOUS
    <3> HIDE DEF f, Home, l, P
    <3>3. l[i].to = u /\ l[i].rel = r
      BY <2>1, <2>2
    <3>4. f[i] \in DOMAIN members
      BY <3>1, <3>2, <3>3
    <3>5. f[i].user = u /\ f[i].rel = r
      BY <3>2
    <3> QED BY <3>4, <3>5 DEF RowsOf
  <2>3. ASSUME NEW i \in P, NEW j \in P, f[i] = f[j] PROVE i = j
    <3>1. Home(i) = Home(j)
      <4> HIDE DEF Home
      <4>1. f[i].dynasty = Home(i) /\ f[j].dynasty = Home(j)
        OBVIOUS
      <4> QED BY <2>3, <4>1
    <3> HIDE DEF Home, l, n, P
    <3>2. l[i].from = l[j].from /\ l[i].to = l[j].to /\ l[i].rel = l[j].rel
      BY <2>1, <2>3, <3>1
    <3>3. l[i] \in Invitation /\ l[j] \in Invitation
      BY <2>1, <2>3, DynastyAssumption
    <3>4. l[i] = l[j]
      BY <3>2, <3>3 DEF Invitation
    <3> QED BY <1>1, <2>1, <2>3, <3>4
  <2>4. f \in Injection(P, R)
    <3>1. f \in [P -> R]
      <4> HIDE DEF P, R, Home
      <4> QED BY <2>2
    <3> HIDE DEF P, R, f
    <3> QED BY <2>3, <3>1 DEF Injection, IsInjective
  <2>5. IsFiniteSet(R) /\ R \subseteq DOMAIN members
    BY InitMembers, FS_Subset DEF RowsOf
  <2>6. \A m \in R : members[m] = 1
    BY <2>5, InitMembers
  <2> HIDE DEF P, R, f
  <2>7. Cardinality(P) <= Cardinality(R) /\ Cardinality(R) \in Nat
    BY <2>4, <2>5, FS_Injection, FS_CardinalityType
  <2>8. SumFunctionOnSet(members, R) = 1 * Cardinality(R)
    BY <2>5, <2>6, SumConstant
  <2>9. Cardinality(Awarding(u, r)) = 0
    <3>1. Awarding(u, r) = {}
      BY IdleType DEF Awarding, Init
    <3>2. Cardinality({}) = 0
      BY FS_EmptySet
    <3> QED BY <3>1, <3>2
  <2>10. Cardinality(P) \in Nat
    <3>1. IInv
      BY InitInv
    <3> QED BY <3>1, PrizesCounted DEF P
  <2> QED BY <2>7, <2>8, <2>9, <2>10 DEF P, R
<1> QED BY <1>4, InitMembers DEF PrizesAreBacked

(* Nothing is paid for at the start. *)
LEMMA CountInit ==
  ASSUME Init
  PROVE  ClaimsAreCounted
<1>1. IsFiniteSet(Tasks) /\ Cardinality(Tasks) \in Nat /\ faults = 0
  BY DynastyAssumption, FS_CardinalityType DEF Init
<1>2. ASSUME NEW i \in DOMAIN prizes
      PROVE  /\ paid[i].psc = 0
             /\ Cardinality(Claiming(i)) = 0 /\ Cardinality(Crediting(i)) = 0
  <2>1. Claiming(i) = {} /\ Crediting(i) = {}
    BY IdleType DEF Claiming, Crediting, Init
  <2>2. Cardinality({}) = 0
    BY FS_EmptySet
  <2>3. paid[i] = Unpaid
    BY DEF Init
  <2> QED BY <2>1, <2>2, <2>3 DEF Unpaid
<1> QED BY <1>1, <1>2 DEF ClaimsAreCounted

(* What is known of the receipts of prizes, besides IInv and ClaimInv. *)
ReceiptInv == ClaimsAreCounted /\ PrizesAreBacked

(* Both counts are inductive together with IInv. *)
LEMMA ReceiptInductive ==
  ASSUME IInv, IInv', ReceiptInv, [Next]_vars
  PROVE  ReceiptInv'
<1>1. ASSUME NEW t \in Tasks, Kind(t) \/ \E u \in Users : Arrival(t, u)
      PROVE  ReceiptInv'
  BY <1>1, CountStep, BackedStep DEF ReceiptInv
<1>2. ASSUME NEW t \in Tasks, Step(t) PROVE ReceiptInv'
  BY <1>1, <1>2, StepKind
<1>3. ASSUME NEW t \in Tasks, NEW u \in Users, Call(t, u) PROVE ReceiptInv'
  BY <1>1, <1>3, CallKind
<1>4. CASE UNCHANGED vars \/ \E d \in DOMAIN dynasties : MonthPasses(d)
  <2>1. UNCHANGED <<members, requests, prizes, task, paid, faults>>
    BY <1>4 DEF vars, MonthPasses
  <2>2. \A i : Claiming(i)' = Claiming(i) /\ Crediting(i)' = Crediting(i)
    BY <2>1 DEF Claiming, Crediting
  <2>3. ClaimsAreCounted'
    BY <2>1, <2>2 DEF ReceiptInv, ClaimsAreCounted
  <2>4. \A u, r : /\ PrizesOf(u, r)' = PrizesOf(u, r) /\ Awarding(u, r)' = Awarding(u, r)
                  /\ RowsOf(u, r)' = RowsOf(u, r)
    BY <2>1 DEF PrizesOf, Awarding, RowsOf
  <2>5. PrizesAreBacked'
    BY <2>1, <2>4 DEF ReceiptInv, PrizesAreBacked
  <2> QED BY <2>3, <2>5 DEF ReceiptInv
<1> QED BY <1>2, <1>3, <1>4 DEF Next

(* A user has received no more prizes for a relationship than she has      *)
(* rows of it; a receipt that is gone was paid in full and its boosts were *)
(* applied; and no receipt is paid more often than there are goroutines    *)
(* and failures.                                                           *)
THEOREM PrizesAreSound == Spec => []PrizeInv
<1>1. IInv /\ ClaimInv /\ ReceiptInv => PrizeInv
  <2> SUFFICES ASSUME IInv, ClaimInv, ReceiptInv PROVE PrizeInv
    OBVIOUS
  <2>1. ASSUME NEW S \in SUBSET Tasks PROVE Cardinality(S) \in Nat
    BY DynastyAssumption, FS_Subset, FS_CardinalityType
  <2>2. ASSUME NEW u \in Users, NEW r \in Rewarded
        PROVE  Cardinality(PrizesOf(u, r)) <= SumFunctionOnSet(members, RowsOf(u, r))
    <3>1. PICK a, b, c : /\ a = Cardinality(PrizesOf(u, r)) /\ b = Cardinality(Awarding(u, r))
                         /\ c = SumFunctionOnSet(members, RowsOf(u, r))
      OBVIOUS
    <3>2. a \in Nat /\ b \in Nat /\ c \in Nat
      BY <2>1, <3>1, PrizesCounted, RowsCounted DEF Awarding, ReceiptInv, PrizesAreBacked
    <3>3. a + b <= c
      BY <3>1 DEF ReceiptInv, PrizesAreBacked
    <3> QED BY <3>1, <3>2, <3>3
  <2>3. ASSUME NEW i \in DOMAIN prizes PROVE paid[i].psc <= Cardinality(Tasks) + faults
    <3>1. PICK a, b, n, x : /\ a = paid[i].psc /\ b = Cardinality(Claiming(i))
                            /\ n = Cardinality(Tasks) /\ x = faults
      OBVIOUS
    <3>2. a \in Nat /\ b \in Nat /\ n \in Nat
      BY <2>1, <3>1, CountedUp DEF Claiming
    <3>3. x \in Nat
      BY <3>1, BoundsType DEF IInv, TypeOK
    <3>4. a + b <= n + x
      BY <3>1 DEF ReceiptInv, ClaimsAreCounted
    <3> QED BY <3>1, <3>2, <3>3, <3>4
  <2> QED BY <2>2, <2>3 DEF PrizeInv, PrizesAreEarned, ClaimsAreBounded, ClaimInv, PrizesOf
<1>2. Init => IInv /\ ReceiptInv
  BY InitInv, CountInit, BackedInit DEF ReceiptInv
<1>3. IInv /\ ReceiptInv /\ [Next]_vars => (IInv /\ ReceiptInv)'
  BY NextInv, ReceiptInductive
<1> QED BY <1>1, <1>2, <1>3, ClaimInductive, PTL DEF Spec
=============================================================================
