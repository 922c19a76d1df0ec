---------------------------- MODULE CitizenProofs ----------------------------
(***************************************************************************)
(* A citizen's account, for any users, goroutines, phones, levels, prizes, *)
(* thresholds and questions, and any number of calls and failures.  What   *)
(* holds of every interleaving is proved from counts: rows that exist and  *)
(* requests about to add one are together no more than the goroutines.     *)
(* What holds of users whose requests did not overlap or fail is proved    *)
(* from what the one request of such a user knows at each of its steps.    *)
(***************************************************************************)
EXTENDS Citizen, TableLemmas

(* The steps of a request, by service. *)
LevelsSteps   == {"deposit", "count", "trades", "calculate", "score", "level", "attach",
                  "received", "pay", "record"}
CallbackSteps == {"find", "create", "make", "refresh", "login"}
LogoutSteps   == {"latest", "end", "hours", "read", "writeHours", "reread", "writeScore", "user"}
SecureSteps   == {"account", "lock", "phone", "save", "otp", "store", "send"}
VerifySteps   == {"unlocked", "compare", "mark", "unlock", "delete"}
AnswerSteps   == {"answered", "answer", "participants", "prize"}
FollowSteps   == {"exists", "follow"}

Ops == {"deposit", "trade", "activity", "claim", "callback", "logout", "secure", "verify",
        "answer", "follow"}

CallbackTask ==
  [pc: CallbackSteps, op: {"callback"}, user: Users, phone: Phones, part: 1..6]
LogoutTask ==
  [pc: LogoutSteps, op: {"logout"}, user: Users, phone: Phones \union {NoPhone}, row: Nat,
   hours: Nat, log: UserLog]
SecureTask ==
  [pc: SecureSteps, op: {"secure"}, user: Users, given: Phones \union {NoPhone},
   phone: Phones \union {NoPhone}, known: BOOLEAN, row: Nat, otp: Nat]
VerifyTask ==
  [pc: VerifySteps, op: {"verify"}, user: Users, code: Nat, known: BOOLEAN, row: Nat, otp: Nat]
AnswerTask ==
  [pc: AnswerSteps, op: {"answer"}, user: Users, question: Questions, right: BOOLEAN]
FollowTask == [pc: FollowSteps, op: {"follow"}, user: Users, target: Users]

Resting  == [pc |-> "idle"]
Requests == {Resting} \union LevelsTask \union SessionsTask \union SecurityTask \union SocialTask

(* t makes a step of a request for v. *)
Moves(t, v) ==
  /\ task' \in [Tasks -> Requests]
  /\ \A s \in Tasks \ {t} : task'[s] = task[s]
  /\ task[t].pc # "idle" => task[t].user = v /\ overlap' = overlap
  /\ task'[t].pc # "idle" => task'[t].user = v
  /\ task[t].pc # "idle" /\ task'[t].pc # "idle" => task'[t].op = task[t].op
  /\ task[t].pc = "idle" =>
       /\ task'[t].pc # "idle"
       /\ overlap' = IF Busy(v) = {} THEN overlap
                     ELSE [overlap EXCEPT ![v] =
                             @ \union {task'[t].op} \union {task[s].op : s \in Busy(v)}]

(* What every step keeps of the bounds. *)
Counted ==
  /\ group' = group /\ calls' \in 0..MaxCalls[group] /\ faults' \in 0..MaxFaults
  /\ faults \in Nat /\ faults' \in Nat /\ faults <= faults'

(* What a request may rely on at its next step. *)
Sound(k) ==
  /\ k.pc # "idle" /\ k.pc \notin CallbackSteps => k.user \in registered
  /\ k.pc \in {"find", "create"} => k.part = 1
  /\ k.pc = "make" => k.user \in registered
  /\ k.pc = "end" => k.row \in 1..Len(sessions[k.user])
  /\ k.pc \in SecureSteps => (k.known => k.phone # NoPhone)
  /\ k.pc = "save" => k.given # NoPhone
  /\ k.pc \in {"otp", "store", "send"} => k.phone # NoPhone
  /\ k.pc = "store" => k.otp = 0 \/ (k.otp \in DOMAIN otps /\ otps[k.otp].user = k.user)
  /\ k.pc = "send" => k.otp \in DOMAIN codes /\ codes[k.otp].user = k.user
  /\ k.pc \in VerifySteps =>
       /\ k.code \in DOMAIN codes
       /\ codes[k.code].user = k.user /\ codes[k.code].phone # NoPhone
  /\ k.pc \in {"mark", "unlock", "delete"} =>
       k.otp \in DOMAIN otps /\ otps[k.otp].user = k.user

RequestsAreSound == \A t \in Tasks : Sound(task[t])

OverlapsAreNoted ==
  \A s, t \in Tasks :
    s # t /\ ~ At(s, "idle") /\ ~ At(t, "idle") /\ task[s].user = task[t].user =>
      {task[s].op, task[t].op} \subseteq overlap[task[t].user]

-----------------------------------------------------------------------------
(* The step that a request is at tells its type. *)
LEMMA Kinds ==
  ASSUME NEW k \in Requests
  PROVE  /\ k.pc = "idle" => k = Resting
         /\ k.pc \in LevelsSteps   => k \in LevelsTask
         /\ k.pc \in CallbackSteps => k \in CallbackTask
         /\ k.pc \in LogoutSteps   => k \in LogoutTask
         /\ k.pc \in SecureSteps   => k \in SecureTask
         /\ k.pc \in VerifySteps   => k \in VerifyTask
         /\ k.pc \in AnswerSteps   => k \in AnswerTask
         /\ k.pc \in FollowSteps   => k \in FollowTask
         /\ k.pc # "idle" => k.user \in Users /\ k.op \in Ops
<1>1. CASE k = Resting
  BY <1>1 DEF Resting, LevelsSteps, CallbackSteps, LogoutSteps, SecureSteps, VerifySteps,
              AnswerSteps, FollowSteps
<1>2. CASE k \in LevelsTask
  <2>1. k.pc \in LevelsSteps /\ k.user \in Users /\ k.op \in Ops
    BY <1>2 DEF LevelsTask, LevelsSteps, Ops
  <2> QED BY <1>2, <2>1 DEF LevelsSteps, CallbackSteps, LogoutSteps, SecureSteps, VerifySteps,
                            AnswerSteps, FollowSteps
<1>3. CASE k \in SessionsTask
  <2>1. k \in CallbackTask \/ k \in LogoutTask
    BY <1>3 DEF SessionsTask, CallbackTask, LogoutTask, CallbackSteps, LogoutSteps
  <2>2. CASE k \in CallbackTask
    <3>1. k.pc \in CallbackSteps /\ k.user \in Users /\ k.op \in Ops
      BY <2>2 DEF CallbackTask, Ops
    <3> QED BY <2>2, <3>1 DEF LevelsSteps, CallbackSteps, LogoutSteps, SecureSteps, VerifySteps,
                              AnswerSteps, FollowSteps
  <2>3. CASE k \in LogoutTask
    <3>1. k.pc \in LogoutSteps /\ k.user \in Users /\ k.op \in Ops
      BY <2>3 DEF LogoutTask, Ops
    <3> QED BY <2>3, <3>1 DEF LevelsSteps, CallbackSteps, LogoutSteps, SecureSteps, VerifySteps,
                              AnswerSteps, FollowSteps
  <2> QED BY <2>1, <2>2, <2>3
<1>4. CASE k \in SecurityTask
  <2>1. k \in SecureTask \/ k \in VerifyTask
    BY <1>4 DEF SecurityTask, SecureTask, VerifyTask, SecureSteps, VerifySteps
  <2>2. CASE k \in SecureTask
    <3>1. k.pc \in SecureSteps /\ k.user \in Users /\ k.op \in Ops
      BY <2>2 DEF SecureTask, Ops
    <3> QED BY <2>2, <3>1 DEF LevelsSteps, CallbackSteps, LogoutSteps, SecureSteps, VerifySteps,
                              AnswerSteps, FollowSteps
  <2>3. CASE k \in VerifyTask
    <3>1. k.pc \in VerifySteps /\ k.user \in Users /\ k.op \in Ops
      BY <2>3 DEF VerifyTask, Ops
    <3> QED BY <2>3, <3>1 DEF LevelsSteps, CallbackSteps, LogoutSteps, SecureSteps, VerifySteps,
                              AnswerSteps, FollowSteps
  <2> QED BY <2>1, <2>2, <2>3
<1>5. CASE k \in SocialTask
  <2>1. k \in AnswerTask \/ k \in FollowTask
    BY <1>5 DEF SocialTask, AnswerTask, FollowTask, AnswerSteps, FollowSteps
  <2>2. CASE k \in AnswerTask
    <3>1. k.pc \in AnswerSteps /\ k.user \in Users /\ k.op \in Ops
      BY <2>2 DEF AnswerTask, Ops
    <3> QED BY <2>2, <3>1 DEF LevelsSteps, CallbackSteps, LogoutSteps, SecureSteps, VerifySteps,
                              AnswerSteps, FollowSteps
  <2>3. CASE k \in FollowTask
    <3>1. k.pc \in FollowSteps /\ k.user \in Users /\ k.op \in Ops
      BY <2>3 DEF FollowTask, Ops
    <3> QED BY <2>3, <3>1 DEF LevelsSteps, CallbackSteps, LogoutSteps, SecureSteps, VerifySteps,
                              AnswerSteps, FollowSteps
  <2> QED BY <2>1, <2>2, <2>3
<1> QED BY <1>1, <1>2, <1>3, <1>4, <1>5 DEF Requests

(* Requests of each service are requests. *)
LEMMA KindsFit ==
  /\ Resting \in Requests /\ Resting.pc = "idle"
  /\ LevelsTask \subseteq Requests /\ CallbackTask \subseteq Requests
  /\ LogoutTask \subseteq Requests /\ SecureTask \subseteq Requests
  /\ VerifyTask \subseteq Requests /\ AnswerTask \subseteq Requests
  /\ FollowTask \subseteq Requests
<1>1. CallbackTask \subseteq SessionsTask /\ LogoutTask \subseteq SessionsTask
  BY DEF SessionsTask, CallbackTask, LogoutTask, CallbackSteps, LogoutSteps
<1>2. SecureTask \subseteq SecurityTask /\ VerifyTask \subseteq SecurityTask
  BY DEF SecurityTask, SecureTask, VerifyTask, SecureSteps, VerifySteps
<1>3. AnswerTask \subseteq SocialTask /\ FollowTask \subseteq SocialTask
  BY DEF SocialTask, AnswerTask, FollowTask, AnswerSteps, FollowSteps
<1>4. Resting.pc = "idle"
  BY DEF Resting
<1> QED BY <1>1, <1>2, <1>3, <1>4 DEF Requests

LEMMA Bounds ==
  ASSUME CitizensTypeOK, Serve \/ Stumble \/ (Arrives /\ UNCHANGED <<faults, group>>)
  PROVE  Counted
<1>1. group \in Groups /\ MaxFaults \in Nat /\ MaxCalls[group] \in Nat
  BY CitizensAssumption DEF CitizensTypeOK
<1>2. PICK m : m = MaxCalls[group]
  OBVIOUS
<1>3. calls \in 0..m /\ m \in Nat /\ faults \in 0..MaxFaults
  BY <1>1, <1>2 DEF CitizensTypeOK
<1>4. CASE Serve
  BY <1>1, <1>2, <1>3, <1>4 DEF Serve, Counted
<1>5. CASE Stumble
  BY <1>1, <1>2, <1>3, <1>5 DEF Stumble, Fault, Counted
<1>6. CASE Arrives /\ UNCHANGED <<faults, group>>
  <2>1. calls < m /\ calls' = calls + 1
    BY <1>2, <1>6 DEF Arrives
  <2> QED BY <1>1, <1>2, <1>3, <1>6, <2>1 DEF Counted
<1> QED BY <1>4, <1>5, <1>6

(* A request of t goes on or ends. *)
LEMMA StepMoves ==
  ASSUME CitizensTypeOK, task \in [Tasks -> Requests], NEW t \in Tasks, ~ At(t, "idle"),
         NEW k \in Requests, Step(t, k), Serve \/ Stumble,
         k.pc # "idle" => k.user = task[t].user /\ k.op = task[t].op
  PROVE  Moves(t, task[t].user) /\ task'[t] = k /\ task[t].user \in Users /\ Counted
<1>1. /\ task' \in [Tasks -> Requests] /\ task'[t] = k
      /\ \A s \in Tasks \ {t} : task'[s] = task[s]
  BY DEF Step
<1>2. task[t].user \in Users
  BY Kinds DEF At
<1>3. overlap' = overlap /\ Counted
  BY Bounds DEF Serve, Stumble
<1> QED BY <1>1, <1>2, <1>3 DEF Moves, At

LEMMA ReturnMoves ==
  ASSUME CitizensTypeOK, task \in [Tasks -> Requests], NEW t \in Tasks, ~ At(t, "idle"),
         Return(t), Serve \/ Stumble
  PROVE  /\ Moves(t, task[t].user) /\ task[t].user \in Users /\ Counted
         /\ task'[t] = Resting /\ task'[t].pc = "idle"
<1>1. Resting \in Requests /\ Resting.pc = "idle" /\ Step(t, Resting)
  BY KindsFit DEF Return, Resting
<1> QED BY <1>1, StepMoves

(* A request of t starts. *)
LEMMA StartMoves ==
  ASSUME CitizensTypeOK, task \in [Tasks -> Requests], NEW t \in Tasks,
         NEW k \in Requests, k.pc # "idle", Start(t, k)
  PROVE  /\ Moves(t, k.user) /\ task'[t] = k /\ k.user \in Users /\ Counted
         /\ task[t].pc = "idle" /\ task[t] = Resting
<1>1. /\ task' \in [Tasks -> Requests] /\ task'[t] = k
      /\ \A s \in Tasks \ {t} : task'[s] = task[s]
  BY DEF Start, Step
<1>2. k.user \in Users /\ (task[t].pc = "idle" => task[t] = Resting)
  BY Kinds
<1>3. Counted
  BY Bounds DEF Start
<1> QED BY <1>1, <1>2, <1>3 DEF Moves, At, Start

LEMMA MovesOverlap ==
  ASSUME task \in [Tasks -> Requests], overlap \in [Users -> SUBSET Ops],
         NEW t \in Tasks, NEW v \in Users, Moves(t, v)
  PROVE  /\ overlap' \in [Users -> SUBSET Ops]
         /\ \A u \in Users : overlap[u] \subseteq overlap'[u]
         /\ \A u \in Users \ {v} : overlap'[u] = overlap[u]
<1>1. CASE task[t].pc # "idle"
  BY <1>1 DEF Moves
<1>2. CASE task[t].pc = "idle" /\ Busy(v) = {}
  BY <1>2 DEF Moves
<1>3. CASE task[t].pc = "idle" /\ Busy(v) # {}
  <2>1. PICK S : S = {task'[t].op} \union {task[s].op : s \in Busy(v)}
    OBVIOUS
  <2>2. overlap' = [overlap EXCEPT ![v] = @ \union S]
    BY <1>3, <2>1 DEF Moves
  <2>3. \A s \in Busy(v) : task[s].op \in Ops
    BY Kinds DEF Busy, At
  <2>4. task'[t].op \in Ops
    BY <1>3, Kinds DEF Moves
  <2>5. S \subseteq Ops
    BY <2>1, <2>3, <2>4
  <2> QED BY <2>2, <2>5
<1> QED BY <1>1, <1>2, <1>3

LEMMA MovesNoted ==
  ASSUME task \in [Tasks -> Requests], overlap \in [Users -> SUBSET Ops],
         NEW t \in Tasks, NEW v \in Users, Moves(t, v), OverlapsAreNoted
  PROVE  OverlapsAreNoted'
<1>1. SUFFICES ASSUME NEW s \in Tasks, s # t, task'[s].pc # "idle", task'[t].pc # "idle",
                      task'[s].user = task'[t].user
               PROVE  task'[s].op \in overlap'[v] /\ task'[t].op \in overlap'[v]
  <2>1. \A r, s \in Tasks :
          r # t /\ s # t /\ r # s /\ task'[r].pc # "idle" /\ task'[s].pc # "idle"
            /\ task'[r].user = task'[s].user =>
              /\ task'[s].user \in Users
              /\ {task'[r].op, task'[s].op} \subseteq overlap[task'[s].user]
    BY Kinds DEF Moves, OverlapsAreNoted, At
  <2>2. \A r, s \in Tasks :
          r # t /\ s # t /\ r # s /\ task'[r].pc # "idle" /\ task'[s].pc # "idle"
            /\ task'[r].user = task'[s].user =>
              {task'[r].op, task'[s].op} \subseteq overlap'[task'[s].user]
    BY <2>1, MovesOverlap
  <2>3. task'[t].pc # "idle" => task'[t].user = v
    BY DEF Moves
  <2> QED BY <1>1, <2>2, <2>3 DEF OverlapsAreNoted, At
<1>2. task[s] = task'[s] /\ task[s].user = v /\ task[s].pc # "idle"
  BY <1>1 DEF Moves
<1>3. CASE task[t].pc # "idle"
  <2>1. task[t].user = v /\ task'[t].op = task[t].op /\ overlap' = overlap
    BY <1>1, <1>3 DEF Moves
  <2>2. {task[s].op, task[t].op} \subseteq overlap[v]
    BY <1>1, <1>2, <1>3, <2>1 DEF OverlapsAreNoted, At
  <2> QED BY <1>2, <2>1, <2>2
<1>4. CASE task[t].pc = "idle"
  <2>1. s \in Busy(v)
    BY <1>2 DEF Busy, At
  <2>2. overlap'[v] = overlap[v] \union ({task'[t].op} \union {task[r].op : r \in Busy(v)})
    BY <1>4, <2>1 DEF Moves
  <2> QED BY <1>2, <2>1, <2>2
<1> QED BY <1>3, <1>4

-----------------------------------------------------------------------------
(* Types *)

LEMMA TypeFacts ==
  ASSUME TypeOK
  PROVE  /\ task \in [Tasks -> Requests] /\ overlap \in [Users -> SUBSET Ops]
         /\ CitizensTypeOK /\ LevelsTypeOK /\ SessionsTypeOK /\ SecurityTypeOK /\ SocialTypeOK
BY DEF TypeOK, Requests, Ops, Resting

LEMMA IncrementTyped ==
  ASSUME NEW X, NEW f \in [Users -> [X -> Nat]], NEW u \in Users, NEW x \in X, NEW n \in Nat
  PROVE  [f EXCEPT ![u][x] = n] \in [Users -> [X -> Nat]]
<1>1. [f[u] EXCEPT ![x] = n] \in [X -> Nat]
  OBVIOUS
<1> QED BY <1>1

LEMMA Increment2Typed ==
  ASSUME NEW X, NEW Y, NEW f \in [Users -> [X -> [Y -> Nat]]],
         NEW u \in Users, NEW x \in X, NEW y \in Y, NEW n \in Nat
  PROVE  [f EXCEPT ![u][x][y] = n] \in [Users -> [X -> [Y -> Nat]]]
<1>1. [f[u][x] EXCEPT ![y] = n] \in [Y -> Nat]
  OBVIOUS
<1>2. [f[u] EXCEPT ![x] = [f[u][x] EXCEPT ![y] = n]] \in [X -> [Y -> Nat]]
  BY <1>1
<1> QED BY <1>2

(* A step of levels-service in t for v. *)
LevelsMove(t, v) ==
  /\ Moves(t, v) /\ Counted
  /\ task[t] \in LevelsTask \union {Resting} /\ task'[t] \in LevelsTask \union {Resting}
  /\ LevelsTypeOK' /\ log' \in [Users -> UserLog]
  /\ UNCHANGED <<registered, phone, verified, made, sessions>>

LEMMA LevelsTaskAt ==
  ASSUME TypeOK, NEW t \in Tasks, task[t].pc \in LevelsSteps
  PROVE  /\ task[t] \in LevelsTask /\ task[t].user \in Users /\ task[t].level \in LevelIds
         /\ task[t].points \in Nat /\ task[t].asset \in 1..Assets /\ ~ At(t, "idle")
<1>1. task[t] \in Requests
  BY TypeFacts
<1>2. task[t] \in LevelsTask
  BY <1>1, Kinds
<1> QED BY <1>2 DEF LevelsTask, LevelsSteps, At

LEMMA BeginMoves ==
  ASSUME TypeOK, NEW t \in Tasks, NEW pc \in LevelsSteps,
         NEW op \in {"deposit", "trade", "activity", "claim"}, NEW u \in Users,
         NEW l \in LevelIds, NEW n \in Nat, Begin(t, pc, op, u, l, n), UNCHANGED <<accounts, levels>>
  PROVE  LevelsMove(t, u) /\ task[t].pc = "idle"
<1> DEFINE k == [pc |-> pc, op |-> op, user |-> u, level |-> l, points |-> n, asset |-> 1]
<1>1. 1 \in 1..Assets
  BY LevelsAssumption
<1>2. k \in LevelsTask /\ k.pc # "idle" /\ k.user = u
  BY <1>1 DEF LevelsTask, LevelsSteps
<1>3. Start(t, k)
  BY DEF Begin
<1> HIDE DEF k
<1>4. /\ Moves(t, u) /\ Counted /\ task'[t] = k /\ task[t].pc = "idle" /\ task[t] = Resting
  BY <1>2, <1>3, TypeFacts, KindsFit, StartMoves
<1>5. LevelsTypeOK' /\ log' \in [Users -> UserLog]
  BY TypeFacts DEF LevelsTypeOK, CitizensTypeOK, accounts, levels
<1> QED BY <1>2, <1>4, <1>5 DEF LevelsMove, accounts

LEMMA LevelsStepMoves ==
  ASSUME TypeOK, NEW t \in Tasks, LevelsStep(t)
  PROVE  \E v \in Users : LevelsMove(t, v)
<1>0. /\ task \in [Tasks -> Requests] /\ CitizensTypeOK /\ LevelsTypeOK
      /\ log \in [Users -> UserLog]
  BY TypeFacts DEF CitizensTypeOK
<1>1. CASE LevelsRequest(t)
  <2>1. PICK l \in LevelIds : l = CHOOSE x \in LevelIds : TRUE
    BY LevelsAssumption
  <2>2. UNCHANGED <<accounts, levels>>
    BY <1>1 DEF LevelsRequest
  <2>3. PICK u \in registered :
          \/ \E a \in Amounts : Begin(t, "deposit", "deposit", u, l, Points(a))
          \/ Begin(t, "count", "trade", u, l, 0)
          \/ Begin(t, "calculate", "activity", u, l, 0)
          \/ \E c \in LevelIds : Begin(t, "received", "claim", u, c, 0)
    BY <1>1, <2>1 DEF LevelsRequest
  <2>4. u \in Users
    BY TypeFacts DEF CitizensTypeOK
  <2>5. ASSUME NEW a \in Amounts, Begin(t, "deposit", "deposit", u, l, Points(a))
        PROVE  LevelsMove(t, u)
    <3>1. PICK n \in Nat : n = Points(a)
      BY LevelsAssumption DEF Points
    <3>2. Begin(t, "deposit", "deposit", u, l, n)
      BY <2>5, <3>1
    <3>3. "deposit" \in LevelsSteps /\ "deposit" \in {"deposit", "trade", "activity", "claim"}
      BY DEF LevelsSteps
    <3> QED BY <2>2, <2>4, <3>2, <3>3, BeginMoves
  <2>6. ASSUME Begin(t, "count", "trade", u, l, 0)
        PROVE  LevelsMove(t, u)
    <3>3. "count" \in LevelsSteps /\ "trade" \in {"deposit", "trade", "activity", "claim"}
      BY DEF LevelsSteps
    <3> QED BY <2>2, <2>4, <2>6, <3>3, BeginMoves
  <2>7. ASSUME Begin(t, "calculate", "activity", u, l, 0)
        PROVE  LevelsMove(t, u)
    <3>3. "calculate" \in LevelsSteps /\ "activity" \in {"deposit", "trade", "activity", "claim"}
      BY DEF LevelsSteps
    <3> QED BY <2>2, <2>4, <2>7, <3>3, BeginMoves
  <2>8. ASSUME NEW c \in LevelIds, Begin(t, "received", "claim", u, c, 0)
        PROVE  LevelsMove(t, u)
    <3>3. "received" \in LevelsSteps /\ "claim" \in {"deposit", "trade", "activity", "claim"}
      BY DEF LevelsSteps
    <3> QED BY <2>2, <2>4, <2>8, <3>3, BeginMoves
  <2> QED BY <2>3, <2>4, <2>5, <2>6, <2>7, <2>8
<1>2. CASE ~ LevelsRequest(t)
  <2>1. task[t].pc \in LevelsSteps
    BY <1>2 DEF LevelsStep, At, LevelsSteps, IncrementDeposit, GetSignificantTradeCount,
                UpdateTransactionsCount, CalculateScore, UpdateScore, GetNextLevelForScore,
                AttachLevelToUser, HasUserReceivedPrize, AddPrize, RecordReceivedPrize
  <2>2. PICK k : k = task[t]
    OBVIOUS
  <2>3. /\ k \in LevelsTask /\ k.user \in Users /\ k.level \in LevelIds
        /\ k.points \in Nat /\ k.asset \in 1..Assets /\ ~ At(t, "idle")
    BY <2>1, <2>2, LevelsTaskAt
  <2>4. /\ registered' = registered /\ phone' = phone /\ verified' = verified
        /\ made' = made /\ sessions' = sessions
    BY <1>2 DEF LevelsStep, accounts, IncrementDeposit, GetSignificantTradeCount,
                UpdateTransactionsCount, CalculateScore, UpdateScore, GetNextLevelForScore,
                AttachLevelToUser, HasUserReceivedPrize, AddPrize, RecordReceivedPrize
  <2>5. ASSUME NEW m \in LevelsTask, Step(t, m), Serve \/ Stumble,
               m.user = k.user, m.op = k.op
        PROVE  Moves(t, k.user) /\ Counted /\ task'[t] \in LevelsTask \union {Resting}
    BY <1>0, <2>2, <2>3, <2>5, StepMoves, KindsFit
  <2>6. ASSUME Return(t), Serve \/ Stumble
        PROVE  Moves(t, k.user) /\ Counted /\ task'[t] \in LevelsTask \union {Resting}
    BY <1>0, <2>2, <2>3, <2>6, ReturnMoves
  <2>7. ASSUME NEW pc \in LevelsSteps, Goto(t, pc), Serve \/ Stumble
        PROVE  Moves(t, k.user) /\ Counted /\ task'[t] \in LevelsTask \union {Resting}
    <3>1. PICK m : m = [k EXCEPT !.pc = pc]
      OBVIOUS
    <3>2. m \in LevelsTask /\ m.user = k.user /\ m.op = k.op /\ Step(t, m)
      BY <2>2, <2>3, <2>7, <3>1 DEF LevelsTask, LevelsSteps, Goto
    <3> QED BY <2>5, <2>7, <3>2
  <2>8. SUFFICES /\ Moves(t, k.user) /\ Counted /\ task'[t] \in LevelsTask \union {Resting}
                 /\ LevelsTypeOK' /\ log' \in [Users -> UserLog]
    BY <2>2, <2>3, <2>4 DEF LevelsMove
  <2> USE <2>2
  <2>9. "calculate" \in LevelsSteps /\ "level" \in LevelsSteps /\ "received" \in LevelsSteps
        /\ "pay" \in LevelsSteps /\ "record" \in LevelsSteps
    BY DEF LevelsSteps
  <2>11. CASE IncrementDeposit(t)
    <3>1. Goto(t, "calculate") /\ Serve
      BY <2>11 DEF IncrementDeposit
    <3>2. log[k.user].deposit + k.points \in Nat /\ deposited[k.user] + k.points \in Nat
      <4>1. log[k.user] \in UserLog /\ deposited[k.user] \in Nat
        BY <1>0, <2>3 DEF LevelsTypeOK
      <4>2. log[k.user].deposit \in Nat
        BY <4>1 DEF UserLog
      <4> QED BY <2>3, <4>1, <4>2
    <3>3. PICK n, m : n = log[k.user].deposit + k.points /\ m = deposited[k.user] + k.points
      OBVIOUS
    <3>4. [log[k.user] EXCEPT !.deposit = n] \in UserLog
      BY <1>0, <2>3, <3>2, <3>3 DEF UserLog
    <3>5. \/ log' = log /\ deposited' = deposited
          \/ /\ log' = [log EXCEPT ![k.user] = [log[k.user] EXCEPT !.deposit = n]]
             /\ deposited' = [deposited EXCEPT ![k.user] = m]
      BY <2>11, <3>3 DEF IncrementDeposit
    <3>6. log' \in [Users -> UserLog] /\ deposited' \in [Users -> Nat]
      <4>1. deposited \in [Users -> Nat] /\ log \in [Users -> UserLog] /\ m \in Nat
        BY <1>0, <3>2, <3>3 DEF LevelsTypeOK
      <4> QED BY <2>3, <3>4, <3>5, <4>1
    <3> QED BY <1>0, <2>7, <2>9, <2>11, <3>1, <3>6 DEF IncrementDeposit, LevelsTypeOK
  <2>12. CASE GetSignificantTradeCount(t)
    <3>1. PICK m : m = [k EXCEPT !.pc = "trades", !.points = traded[k.user]]
      OBVIOUS
    <3>2. traded[k.user] \in Nat
      BY <1>0, <2>3 DEF LevelsTypeOK
    <3>3. m \in LevelsTask /\ m.user = k.user /\ m.op = k.op
      BY <2>3, <3>1, <3>2 DEF LevelsTask
    <3>4. Step(t, m) /\ Serve
      BY <2>12, <3>1 DEF GetSignificantTradeCount
    <3>5. LevelsTypeOK' /\ log' \in [Users -> UserLog]
      BY <1>0, <2>12 DEF GetSignificantTradeCount, accounts, levels, LevelsTypeOK
    <3> QED BY <2>5, <3>3, <3>4, <3>5
  <2>13. CASE UpdateTransactionsCount(t)
    <3>1. Goto(t, "calculate") /\ Serve
      BY <2>13 DEF UpdateTransactionsCount
    <3>2. 2 * k.points \in Nat
      BY <2>3
    <3>3. log' \in [Users -> UserLog]
      BY <1>0, <2>3, <2>13, <3>2 DEF UpdateTransactionsCount, UserLog
    <3> QED BY <1>0, <2>7, <2>9, <2>13, <3>1, <3>3 DEF UpdateTransactionsCount, LevelsTypeOK, levels
  <2>14. CASE CalculateScore(t)
    <3>1. PICK n : n = Total(log[k.user])
      OBVIOUS
    <3>2. n \in Nat
      BY <1>0, <2>3, <3>1 DEF Total, UserLog
    <3>3. PICK m : m = [k EXCEPT !.pc = "score", !.points = n]
      OBVIOUS
    <3>4. m \in LevelsTask /\ m.user = k.user /\ m.op = k.op
      BY <2>3, <3>2, <3>3 DEF LevelsTask
    <3>5. (Step(t, m) \/ Return(t)) /\ Serve
      BY <2>14, <3>1, <3>3 DEF CalculateScore
    <3>6. LevelsTypeOK' /\ log' \in [Users -> UserLog]
      BY <1>0, <2>14 DEF CalculateScore, accounts, levels, LevelsTypeOK
    <3> QED BY <2>5, <2>6, <3>4, <3>5, <3>6
  <2>15. CASE UpdateScore(t)
    <3>1. Goto(t, "level") /\ Serve
      BY <2>15 DEF UpdateScore
    <3>2. log' \in [Users -> UserLog] /\ score' \in [Users -> Nat]
      BY <1>0, <2>3, <2>15 DEF UpdateScore, UserLog, LevelsTypeOK
    <3> QED BY <1>0, <2>7, <2>9, <2>15, <3>1, <3>2 DEF UpdateScore, LevelsTypeOK
  <2>16. CASE GetNextLevelForScore(t)
    <3>1. ASSUME NEW l \in LevelIds, Step(t, [k EXCEPT !.pc = "attach", !.level = l]), Serve
          PROVE  Moves(t, k.user) /\ Counted /\ task'[t] \in LevelsTask \union {Resting}
      <4>1. PICK m : m = [k EXCEPT !.pc = "attach", !.level = l]
        OBVIOUS
      <4>2. m \in LevelsTask /\ m.user = k.user /\ m.op = k.op
        BY <2>3, <4>1 DEF LevelsTask
      <4> QED BY <2>5, <3>1, <4>1, <4>2
    <3>2. LevelsTypeOK' /\ log' \in [Users -> UserLog]
      BY <1>0, <2>16 DEF GetNextLevelForScore, accounts, levels, LevelsTypeOK
    <3>3. Serve /\ (Return(t) \/ \E l \in LevelIds : Step(t, [k EXCEPT !.pc = "attach", !.level = l]))
      BY <2>16 DEF GetNextLevelForScore
    <3> QED BY <2>6, <3>1, <3>2, <3>3
  <2>17. CASE AttachLevelToUser(t)
    <3>1. Goto(t, "received") /\ Serve
      BY <2>17 DEF AttachLevelToUser
    <3>2. attached[k.user][k.level] + 1 \in Nat
      BY <1>0, <2>3 DEF LevelsTypeOK
    <3>3. attached' \in [Users -> [LevelIds -> Nat]]
      BY <1>0, <2>3, <2>17, <3>2, IncrementTyped DEF AttachLevelToUser, LevelsTypeOK
    <3> QED BY <1>0, <2>7, <2>9, <2>17, <3>1, <3>3 DEF AttachLevelToUser, LevelsTypeOK, accounts
  <2>18. CASE HasUserReceivedPrize(t)
    <3>1. LevelsTypeOK' /\ log' \in [Users -> UserLog]
      BY <1>0, <2>18 DEF HasUserReceivedPrize, accounts, levels, LevelsTypeOK
    <3> QED BY <2>6, <2>7, <2>9, <2>18, <3>1 DEF HasUserReceivedPrize
  <2>19. CASE AddPrize(t)
    <3>1. PICK n : n = paid[k.user][k.level][k.asset] + 1
      OBVIOUS
    <3>2. n \in Nat
      <4>1. paid[k.user] \in [LevelIds -> [1..Assets -> Nat]]
        BY <1>0, <2>3 DEF LevelsTypeOK
      <4>2. paid[k.user][k.level] \in [1..Assets -> Nat]
        BY <2>3, <4>1
      <4>3. paid[k.user][k.level][k.asset] \in Nat
        BY <2>3, <4>2
      <4> QED BY <3>1, <4>3
    <3>3. paid' = [paid EXCEPT ![k.user][k.level][k.asset] = n]
      BY <2>19, <3>1 DEF AddPrize
    <3>4. paid' \in [Users -> [LevelIds -> [1..Assets -> Nat]]]
      BY <1>0, <2>3, <3>2, <3>3, Increment2Typed DEF LevelsTypeOK
    <3>5. LevelsTypeOK' /\ log' \in [Users -> UserLog]
      BY <1>0, <2>19, <3>4 DEF AddPrize, LevelsTypeOK, accounts
    <3>6. ASSUME k.asset < Assets, Step(t, [k EXCEPT !.asset = @ + 1]), Serve
          PROVE  Moves(t, k.user) /\ Counted /\ task'[t] \in LevelsTask \union {Resting}
      <4>1. PICK j : j = k.asset + 1
        OBVIOUS
      <4>2. j \in 1..Assets
        <5>1. Assets \in Nat
          BY LevelsAssumption
        <5>2. PICK i \in 1..Assets : i = k.asset
          BY <2>3
        <5> QED BY <3>6, <4>1, <5>1, <5>2
      <4>3. PICK m : m = [k EXCEPT !.asset = j]
        OBVIOUS
      <4>4. m \in LevelsTask /\ m.user = k.user /\ m.op = k.op
        BY <2>3, <4>2, <4>3 DEF LevelsTask
      <4>5. Step(t, m)
        BY <2>3, <3>6, <4>1, <4>3 DEF LevelsTask
      <4> QED BY <2>5, <3>6, <4>4, <4>5
    <3> QED BY <2>6, <2>7, <2>9, <2>19, <3>5, <3>6 DEF AddPrize
  <2>20. CASE RecordReceivedPrize(t)
    <3>1. Return(t) /\ Serve
      BY <2>20 DEF RecordReceivedPrize
    <3>2. received[k.user][k.level] + 1 \in Nat
      BY <1>0, <2>3 DEF LevelsTypeOK
    <3>3. received' \in [Users -> [LevelIds -> Nat]]
      BY <1>0, <2>3, <2>20, <3>2, IncrementTyped DEF RecordReceivedPrize, LevelsTypeOK
    <3> QED BY <1>0, <2>6, <2>20, <3>1, <3>3 DEF RecordReceivedPrize, LevelsTypeOK, accounts
  <2> QED BY <1>2, <2>11, <2>12, <2>13, <2>14, <2>15, <2>16, <2>17, <2>18, <2>19, <2>20 DEF LevelsStep
<1> QED BY <1>1, <1>2

LEMMA OrderTyped ==
  /\ Len(Order) = 6
  /\ \A i \in 1..6 : Order[i] \in Parts
  /\ Order[1] = "email" /\ Order[2] = "settings" /\ Order[3] = "log"
  /\ Order[4] = "activity" /\ Order[5] = "wallet" /\ Order[6] = "variables"
BY DEF Order, Parts

LEMMA AfterErrorTyped ==
  ASSUME NEW i \in 1..6
  PROVE  AfterError(i) \in 1..7 /\ AfterError(i) > i /\ i + 1 \in 1..7
BY DEF AfterError

(* The sum of the sessions is a number. *)
LEMMA TotalTimeTyped ==
  ASSUME sessions \in [Users -> Seq(Nat)], NEW u \in Users
  PROVE  /\ TotalTime(u) = SumFunctionOnSet(sessions[u], DOMAIN sessions[u])
         /\ IsFiniteSet(DOMAIN sessions[u]) /\ TotalTime(u) \in Nat
         /\ \A i \in DOMAIN sessions[u] : sessions[u][i] \in Nat
<1>1. PICK s \in Seq(Nat) : s = sessions[u]
  OBVIOUS
<1>2. IsFiniteSet(DOMAIN s) /\ \A i \in DOMAIN s : s[i] \in Nat
  <2>1. PICK n \in Nat : n = Len(s)
    OBVIOUS
  <2>2. DOMAIN s = 1..n
    BY <2>1
  <2>3. IsFiniteSet(1..n)
    BY FS_Interval
  <2> QED BY <2>2, <2>3
<1>3. SumFunctionOnSet(s, DOMAIN s) \in Nat
  BY <1>2, SumNat
<1>4. FoldFunction(+, 0, s) = SumFunctionOnSet(s, DOMAIN s)
  BY DEF FoldFunction, SumFunctionOnSet
<1> QED BY <1>1, <1>2, <1>3, <1>4 DEF TotalTime

(* What a step of the sessions keeps. *)
AccountsTyped ==
  /\ registered' \subseteq Users /\ registered \subseteq registered'
  /\ phone' \in [Users -> Phones \union {NoPhone}]
  /\ made' \in [Users -> [Parts -> Nat]]
  /\ log' \in [Users -> UserLog]
  /\ sessions' \in [Users -> Seq(Nat)]
  /\ rephoned' \subseteq Users /\ rephoned \subseteq rephoned'

(* A step of auth-service's callback or logout in t for v. *)
SessionsMove(t, v) ==
  /\ Moves(t, v) /\ Counted /\ AccountsTyped
  /\ \/ task[t] \in CallbackTask \union {Resting} /\ task'[t] \in CallbackTask \union {Resting}
     \/ task[t] \in LogoutTask \union {Resting} /\ task'[t] \in LogoutTask \union {Resting}
  /\ verified' = verified

LEMMA CallbackTaskAt ==
  ASSUME TypeOK, NEW t \in Tasks, task[t].pc \in CallbackSteps
  PROVE  /\ task[t] \in CallbackTask /\ task[t].user \in Users /\ task[t].phone \in Phones
         /\ task[t].part \in 1..6 /\ ~ At(t, "idle")
<1>1. task[t] \in Requests
  BY TypeFacts
<1>2. task[t] \in CallbackTask
  BY <1>1, Kinds
<1>3. ~ At(t, "idle")
  BY DEF CallbackSteps, At
<1> QED BY <1>2, <1>3 DEF CallbackTask

LEMMA LogoutTaskAt ==
  ASSUME TypeOK, NEW t \in Tasks, task[t].pc \in LogoutSteps
  PROVE  /\ task[t] \in LogoutTask /\ task[t].user \in Users
         /\ task[t].phone \in Phones \union {NoPhone}
         /\ task[t].row \in Nat /\ task[t].hours \in Nat /\ task[t].log \in UserLog
         /\ ~ At(t, "idle")
<1>1. task[t] \in Requests
  BY TypeFacts
<1>2. task[t] \in LogoutTask
  BY <1>1, Kinds
<1>3. ~ At(t, "idle")
  BY DEF LogoutSteps, At
<1> QED BY <1>2, <1>3 DEF LogoutTask

LEMMA AccountsUnchanged ==
  ASSUME TypeOK, UNCHANGED <<accounts, rephoned>>
  PROVE  AccountsTyped /\ verified' = verified
BY TypeFacts DEF AccountsTyped, accounts, CitizensTypeOK, SessionsTypeOK

LEMMA SessionsStarts ==
  ASSUME TypeOK, NEW t \in Tasks,
         \/ \E u \in Users, p \in Phones : Callback(t, u, p)
         \/ \E u \in registered : Logout(t, u)
  PROVE  \E v \in Users : SessionsMove(t, v)
<1>1. /\ task \in [Tasks -> Requests] /\ CitizensTypeOK /\ registered \subseteq Users
      /\ phone \in [Users -> Phones \union {NoPhone}]
  BY TypeFacts DEF CitizensTypeOK
<1>2. CASE \E u \in Users, p \in Phones : Callback(t, u, p)
  <2>1. PICK u \in Users, p \in Phones : Callback(t, u, p)
    BY <1>2
  <2>2. PICK k : k = [pc |-> "find", op |-> "callback", user |-> u, phone |-> p, part |-> 1]
    OBVIOUS
  <2>3. k \in CallbackTask /\ k.pc # "idle" /\ k.user = u /\ Start(t, k)
    BY <2>1, <2>2 DEF CallbackTask, CallbackSteps, Callback
  <2>4. AccountsTyped /\ verified' = verified
    BY <2>1, AccountsUnchanged DEF Callback
  <2>5. Moves(t, u) /\ task'[t] = k /\ Counted /\ task[t] = Resting
    BY <1>1, <2>3, KindsFit, StartMoves
  <2> QED BY <2>3, <2>4, <2>5 DEF SessionsMove
<1>3. CASE \E u \in registered : Logout(t, u)
  <2>1. PICK u \in registered : Logout(t, u)
    BY <1>3
  <2>2. PICK k : k = [pc |-> "latest", op |-> "logout", user |-> u, phone |-> phone[u],
                      row |-> 0, hours |-> 0, log |-> NoLog]
    OBVIOUS
  <2>3. NoLog \in UserLog
    BY DEF NoLog, UserLog
  <2>4. k \in LogoutTask /\ k.pc # "idle" /\ k.user = u /\ u \in Users
    BY <1>1, <2>2, <2>3 DEF LogoutTask, LogoutSteps
  <2>5. Start(t, k)
    BY <2>1, <2>2 DEF Logout
  <2>6. AccountsTyped /\ verified' = verified
    BY <2>1, AccountsUnchanged DEF Logout
  <2>7. Moves(t, u) /\ task'[t] = k /\ Counted /\ task[t] = Resting
    BY <1>1, <2>4, <2>5, KindsFit, StartMoves
  <2> QED BY <2>4, <2>6, <2>7 DEF SessionsMove
<1> QED BY <1>2, <1>3

LEMMA AppendTyped ==
  ASSUME NEW f \in [Users -> Seq(Nat)], NEW u \in Users
  PROVE  [f EXCEPT ![u] = Append(@, 0)] \in [Users -> Seq(Nat)]
<1>1. Append(f[u], 0) \in Seq(Nat)
  OBVIOUS
<1> QED BY <1>1

LEMMA CallbackMoves ==
  ASSUME TypeOK, NEW t \in Tasks,
         FindUser(t) \/ CreateUser(t) \/ MakePart(t) \/ UpdateUser(t) \/ OnUserLogin(t)
  PROVE  \E v \in Users : SessionsMove(t, v)
<1>0. /\ task \in [Tasks -> Requests] /\ CitizensTypeOK /\ registered \subseteq Users
      /\ phone \in [Users -> Phones \union {NoPhone}] /\ made \in [Users -> [Parts -> Nat]]
      /\ log \in [Users -> UserLog] /\ sessions \in [Users -> Seq(Nat)] /\ rephoned \subseteq Users
  BY TypeFacts DEF CitizensTypeOK, SessionsTypeOK
<1>1. task[t].pc \in CallbackSteps
  BY DEF CallbackSteps, At, FindUser, CreateUser, MakePart, UpdateUser, OnUserLogin
<1>2. PICK k : k = task[t]
  OBVIOUS
<1>3. /\ k \in CallbackTask /\ k.user \in Users /\ k.phone \in Phones
      /\ k.part \in 1..6 /\ ~ At(t, "idle")
  BY <1>1, <1>2, CallbackTaskAt
<1> DEFINE Ok == Moves(t, k.user) /\ Counted /\ task'[t] \in CallbackTask \union {Resting}
<1>4. SUFFICES Ok /\ AccountsTyped /\ verified' = verified
  BY <1>2, <1>3 DEF SessionsMove
<1>5. ASSUME NEW m \in CallbackTask, Step(t, m), Serve \/ Stumble, m.user = k.user, m.op = k.op
      PROVE  Ok
  BY <1>0, <1>2, <1>3, <1>5, StepMoves, KindsFit
<1>6. ASSUME Return(t), Serve \/ Stumble PROVE Ok
  BY <1>0, <1>2, <1>3, <1>6, ReturnMoves
<1>7. ASSUME NEW pc \in CallbackSteps, Goto(t, pc), Serve \/ Stumble PROVE Ok
  <2>1. PICK m : m = [k EXCEPT !.pc = pc]
    OBVIOUS
  <2>2. m \in CallbackTask /\ m.user = k.user /\ m.op = k.op /\ Step(t, m)
    BY <1>2, <1>3, <1>7, <2>1 DEF CallbackTask, Goto
  <2> HIDE DEF Ok
  <2> QED BY <1>5, <1>7, <2>2
<1> HIDE DEF Ok
<1> USE <1>2
<1>8. "refresh" \in CallbackSteps /\ "create" \in CallbackSteps /\ "make" \in CallbackSteps
      /\ "login" \in CallbackSteps
  BY DEF CallbackSteps
<1>11. CASE FindUser(t)
  <2>1. PICK pc \in CallbackSteps : Goto(t, pc)
    BY <1>8, <1>11 DEF FindUser
  <2> QED BY <1>7, <1>11, <2>1, AccountsUnchanged DEF FindUser
<1>12. CASE CreateUser(t)
  <2>1. Ok
    BY <1>6, <1>7, <1>8, <1>12 DEF CreateUser
  <2>2. registered' \subseteq Users /\ registered \subseteq registered'
        /\ phone' \in [Users -> Phones \union {NoPhone}]
    BY <1>0, <1>3, <1>12 DEF CreateUser
  <2> QED BY <1>0, <1>12, <2>1, <2>2 DEF CreateUser, AccountsTyped
<1>13. CASE MakePart(t)
  <2>1. PICK i \in 1..6 : i = k.part
    BY <1>3
  <2>2. ASSUME NEW j \in 1..7, Continue(t, j), Serve \/ Stumble PROVE Ok
    <3>1. CASE j > 6
      BY <1>6, <2>2, <3>1, OrderTyped DEF Continue
    <3>2. CASE j \in 1..6
      <4>1. PICK m : m = [k EXCEPT !.part = j]
        OBVIOUS
      <4>2. m \in CallbackTask /\ m.user = k.user /\ m.op = k.op
        BY <1>3, <3>2, <4>1 DEF CallbackTask
      <4>3. Step(t, m)
        BY <2>2, <3>2, <4>1, OrderTyped DEF Continue
      <4> QED BY <1>5, <2>2, <4>2, <4>3
    <3> QED BY <3>1, <3>2
  <2>3. AfterError(i) \in 1..7 /\ i + 1 \in 1..7
    BY AfterErrorTyped
  <2>4. Ok
    BY <1>13, <2>1, <2>2, <2>3 DEF MakePart
  <2>5. /\ made' = made \/ made' = [made EXCEPT ![k.user][Order[i]] = @ + 1]
        /\ sessions' = sessions \/ sessions' = [sessions EXCEPT ![k.user] = Append(@, 0)]
    BY <1>13, <2>1 DEF MakePart, Make
  <2>6. Order[i] \in Parts
    BY OrderTyped
  <2>7. made[k.user][Order[i]] + 1 \in Nat
    BY <1>0, <1>3, <2>6
  <2>8. made' \in [Users -> [Parts -> Nat]] /\ sessions' \in [Users -> Seq(Nat)]
    <3>1. PICK p \in Parts, n \in Nat : p = Order[i] /\ n = made[k.user][p] + 1
      BY <2>6, <2>7
    <3>2. [made EXCEPT ![k.user][p] = n] \in [Users -> [Parts -> Nat]]
      BY <1>0, <1>3, IncrementTyped
    <3>3. [sessions EXCEPT ![k.user] = Append(@, 0)] \in [Users -> Seq(Nat)]
      BY <1>0, <1>3, AppendTyped
    <3> QED BY <1>0, <2>5, <3>1, <3>2, <3>3
  <2> QED BY <1>0, <1>13, <2>4, <2>8 DEF MakePart, AccountsTyped
<1>14. CASE UpdateUser(t)
  <2>1. phone' \in [Users -> Phones \union {NoPhone}] /\ rephoned' \subseteq Users
        /\ rephoned \subseteq rephoned'
    BY <1>0, <1>3, <1>14 DEF UpdateUser
  <2> QED BY <1>0, <1>7, <1>8, <1>14, <2>1 DEF UpdateUser, AccountsTyped
<1>15. CASE OnUserLogin(t)
  <2>1. sessions' \in [Users -> Seq(Nat)]
    BY <1>0, <1>3, <1>15, AppendTyped DEF OnUserLogin
  <2> QED BY <1>0, <1>6, <1>15, <2>1 DEF OnUserLogin, AccountsTyped
<1> QED BY <1>11, <1>12, <1>13, <1>14, <1>15

LEMMA LogoutMoves ==
  ASSUME TypeOK, RequestsAreSound, NEW t \in Tasks,
         \/ GetLatestActivity(t) \/ UpdateActivity(t) \/ GetTotalActivityMinutes(t)
         \/ GetUserLog(t) \/ WriteHours(t) \/ WriteScore(t) \/ WriteUser(t)
  PROVE  \E v \in Users : SessionsMove(t, v)
<1>0. /\ task \in [Tasks -> Requests] /\ CitizensTypeOK /\ registered \subseteq Users
      /\ phone \in [Users -> Phones \union {NoPhone}] /\ made \in [Users -> [Parts -> Nat]]
      /\ log \in [Users -> UserLog] /\ sessions \in [Users -> Seq(Nat)] /\ rephoned \subseteq Users
  BY TypeFacts DEF CitizensTypeOK, SessionsTypeOK
<1>1. task[t].pc \in LogoutSteps
  BY DEF LogoutSteps, At, GetLatestActivity, UpdateActivity, GetTotalActivityMinutes,
         GetUserLog, WriteHours, WriteScore, WriteUser
<1>2. PICK k : k = task[t]
  OBVIOUS
<1>3. /\ k \in LogoutTask /\ k.user \in Users /\ k.phone \in Phones \union {NoPhone}
      /\ k.row \in Nat /\ k.hours \in Nat /\ k.log \in UserLog /\ ~ At(t, "idle")
  BY <1>1, <1>2, LogoutTaskAt
<1> DEFINE Ok == Moves(t, k.user) /\ Counted /\ task'[t] \in LogoutTask \union {Resting}
<1>4. SUFFICES Ok /\ AccountsTyped /\ verified' = verified
  BY <1>2, <1>3 DEF SessionsMove
<1>5. ASSUME NEW m \in LogoutTask, Step(t, m), Serve \/ Stumble, m.user = k.user, m.op = k.op
      PROVE  Ok
  BY <1>0, <1>2, <1>3, <1>5, StepMoves, KindsFit
<1>6. ASSUME Return(t), Serve \/ Stumble PROVE Ok
  BY <1>0, <1>2, <1>3, <1>6, ReturnMoves
<1>7. ASSUME NEW pc \in LogoutSteps, Goto(t, pc), Serve \/ Stumble PROVE Ok
  <2>1. PICK m : m = [k EXCEPT !.pc = pc]
    OBVIOUS
  <2>2. m \in LogoutTask /\ m.user = k.user /\ m.op = k.op /\ Step(t, m)
    BY <1>2, <1>3, <1>7, <2>1 DEF LogoutTask, Goto
  <2> HIDE DEF Ok
  <2> QED BY <1>5, <1>7, <2>2
<1> HIDE DEF Ok
<1> USE <1>2
<1>11. CASE GetLatestActivity(t)
  <2>1. PICK n \in Nat : n = Len(sessions[k.user])
    BY <1>0, <1>3
  <2>2. PICK pc \in LogoutSteps : pc = IF n = 0 THEN "hours" ELSE "end"
    BY DEF LogoutSteps
  <2>3. PICK m : m = [k EXCEPT !.row = n, !.pc = pc]
    OBVIOUS
  <2>4. m \in LogoutTask /\ m.user = k.user /\ m.op = k.op
    BY <1>3, <2>3 DEF LogoutTask
  <2>5. Step(t, m) /\ Serve
    BY <1>11, <2>1, <2>2, <2>3 DEF GetLatestActivity
  <2> QED BY <1>5, <1>11, <2>4, <2>5, AccountsUnchanged DEF GetLatestActivity
<1>12. CASE UpdateActivity(t)
  <2>1. "hours" \in LogoutSteps /\ Goto(t, "hours") /\ Serve
    BY <1>12 DEF LogoutSteps, UpdateActivity
  <2>2. k.row \in 1..Len(sessions[k.user])
    BY <1>12 DEF UpdateActivity, At, RequestsAreSound, Sound
  <2>3. PICK s \in Seq(Nat) : s = sessions[k.user]
    BY <1>0, <1>3
  <2>4. PICK n \in s[k.row]..MaxSession : sessions' = [sessions EXCEPT ![k.user][k.row] = n]
    BY <1>12, <2>3 DEF UpdateActivity
  <2>5. n \in Nat
    <3>1. s[k.row] \in Nat /\ MaxSession \in Nat
      BY <2>2, <2>3, SessionsAssumption
    <3> QED BY <3>1
  <2>6. [s EXCEPT ![k.row] = n] \in Seq(Nat)
    BY <2>2, <2>3, <2>5
  <2>7. sessions' \in [Users -> Seq(Nat)]
    BY <1>0, <1>3, <2>3, <2>4, <2>6
  <2> QED BY <1>0, <1>7, <1>12, <2>1, <2>7 DEF UpdateActivity, AccountsTyped
<1>13. CASE GetTotalActivityMinutes(t)
  <2>1. PICK n \in Nat : n = TotalTime(k.user)
    BY <1>0, <1>3, TotalTimeTyped
  <2>3. PICK m : m = [k EXCEPT !.pc = "read", !.hours = n]
    OBVIOUS
  <2>4. m \in LogoutTask /\ m.user = k.user /\ m.op = k.op
    BY <1>3, <2>3 DEF LogoutTask, LogoutSteps
  <2>5. Step(t, m) /\ Serve
    BY <1>13, <2>1, <2>3 DEF GetTotalActivityMinutes
  <2> QED BY <1>5, <1>13, <2>4, <2>5, AccountsUnchanged DEF GetTotalActivityMinutes
<1>14. CASE GetUserLog(t)
  <2>1. PICK r \in UserLog : r = log[k.user]
    BY <1>0, <1>3
  <2>2. PICK pc \in LogoutSteps : pc = IF k.pc = "read" THEN "writeHours" ELSE "writeScore"
    BY DEF LogoutSteps
  <2>3. PICK m : m = [k EXCEPT !.pc = pc, !.log = r]
    OBVIOUS
  <2>4. m \in LogoutTask /\ m.user = k.user /\ m.op = k.op
    BY <1>3, <2>3 DEF LogoutTask
  <2>5. (Step(t, m) \/ Return(t)) /\ Serve
    BY <1>14, <2>1, <2>2, <2>3 DEF GetUserLog
  <2> QED BY <1>5, <1>6, <1>14, <2>4, <2>5, AccountsUnchanged DEF GetUserLog
<1>15. ASSUME NEW r \in UserLog, UpdateUserLog(t, r)
       PROVE  AccountsTyped /\ verified' = verified
  BY <1>0, <1>3, <1>15 DEF UpdateUserLog, AccountsTyped
<1>16. CASE WriteHours(t)
  <2>1. PICK r \in UserLog : r = [k.log EXCEPT !.hours = k.hours]
    BY <1>3 DEF UserLog
  <2>2. UpdateUserLog(t, r) /\ Serve /\ Goto(t, "reread") /\ "reread" \in LogoutSteps
    BY <1>16, <2>1 DEF WriteHours, UpdateUserLog, LogoutSteps
  <2> QED BY <1>7, <1>15, <2>2
<1>17. CASE WriteScore(t)
  <2>1. PICK n \in Nat : n = Total(k.log)
    BY <1>3 DEF UserLog, Total
  <2>2. PICK r \in UserLog : r = [k.log EXCEPT !.score = n]
    BY <1>3 DEF UserLog
  <2>3. UpdateUserLog(t, r) /\ Serve /\ Goto(t, "user") /\ "user" \in LogoutSteps
    BY <1>17, <2>1, <2>2 DEF WriteScore, UpdateUserLog, LogoutSteps
  <2> QED BY <1>7, <1>15, <2>3
<1>18. CASE WriteUser(t)
  <2>1. phone' \in [Users -> Phones \union {NoPhone}]
    BY <1>0, <1>3, <1>18 DEF WriteUser
  <2> QED BY <1>0, <1>6, <1>18, <2>1 DEF WriteUser, AccountsTyped
<1> QED BY <1>11, <1>12, <1>13, <1>14, <1>16, <1>17, <1>18

(* A step of account security in t for v. *)
SecurityMove(t, v) ==
  /\ Moves(t, v) /\ Counted
  /\ \/ task[t] \in SecureTask \union {Resting} /\ task'[t] \in SecureTask \union {Resting}
     \/ task[t] \in VerifyTask \union {Resting} /\ task'[t] \in VerifyTask \union {Resting}
  /\ SecurityTypeOK'
  /\ phone' \in [Users -> Phones \union {NoPhone}] /\ verified' \in [Users -> BOOLEAN]
  /\ UNCHANGED <<registered, made, log, sessions>>

LEMMA SecureTaskAt ==
  ASSUME TypeOK, NEW t \in Tasks, task[t].pc \in SecureSteps
  PROVE  /\ task[t] \in SecureTask /\ task[t].user \in Users
         /\ task[t].phone \in Phones \union {NoPhone} /\ task[t].given \in Phones \union {NoPhone}
         /\ task[t].known \in BOOLEAN /\ task[t].row \in Nat /\ task[t].otp \in Nat
         /\ ~ At(t, "idle")
<1>1. task[t] \in Requests
  BY TypeFacts
<1>2. task[t] \in SecureTask
  BY <1>1, Kinds
<1>3. ~ At(t, "idle")
  BY DEF SecureSteps, At
<1> QED BY <1>2, <1>3 DEF SecureTask

LEMMA VerifyTaskAt ==
  ASSUME TypeOK, NEW t \in Tasks, task[t].pc \in VerifySteps
  PROVE  /\ task[t] \in VerifyTask /\ task[t].user \in Users /\ task[t].code \in Nat
         /\ task[t].known \in BOOLEAN /\ task[t].row \in Nat /\ task[t].otp \in Nat
         /\ ~ At(t, "idle")
<1>1. task[t] \in Requests
  BY TypeFacts
<1>2. task[t] \in VerifyTask
  BY <1>1, Kinds
<1>3. ~ At(t, "idle")
  BY DEF VerifySteps, At
<1> QED BY <1>2, <1>3 DEF VerifyTask

LEMMA SecretsUnchanged ==
  ASSUME TypeOK, UNCHANGED <<accounts, secrets>>
  PROVE  /\ SecurityTypeOK' /\ UNCHANGED <<registered, made, log, sessions>>
         /\ phone' \in [Users -> Phones \union {NoPhone}] /\ verified' \in [Users -> BOOLEAN]
BY TypeFacts DEF accounts, secrets, SecurityTypeOK, CitizensTypeOK

LEMMA SeqUpdateTyped ==
  ASSUME NEW S, NEW s \in Seq(S), NEW i, NEW x \in S
  PROVE  /\ [s EXCEPT ![i] = x] \in Seq(S) /\ Len([s EXCEPT ![i] = x]) = Len(s)
         /\ DOMAIN [s EXCEPT ![i] = x] = DOMAIN s
<1>0. PICK q : q = [s EXCEPT ![i] = x]
  OBVIOUS
<1>1. PICK n \in Nat : n = Len(s)
  OBVIOUS
<1>2. DOMAIN s = 1..n /\ \A j \in 1..n : s[j] \in S
  BY <1>1
<1>3. DOMAIN q = 1..n /\ \A j \in 1..n : q[j] = IF j = i THEN x ELSE s[j]
  BY <1>2, <1>0
<1>4. q = [j \in 1..n |-> q[j]]
  BY <1>2, <1>0
<1>5. [j \in 1..n |-> q[j]] \in [1..n -> S]
  BY <1>2, <1>3
<1>6. q \in [1..n -> S]
  BY <1>4, <1>5
<1> QED BY <1>0, <1>1, <1>2, <1>3, <1>6

LEMMA FlagTyped ==
  ASSUME NEW s \in Seq(BOOLEAN), NEW i, NEW x \in BOOLEAN
  PROVE  /\ [s EXCEPT ![i] = x] \in Seq(BOOLEAN) /\ Len([s EXCEPT ![i] = x]) = Len(s)
         /\ Append(s, x) \in Seq(BOOLEAN)
<1>1. PICK B, y, r : B = BOOLEAN /\ y = x /\ r = s
  OBVIOUS
<1>2. r \in Seq(B) /\ y \in B
  BY <1>1
<1>4. [r EXCEPT ![i] = y] \in Seq(B) /\ Len([r EXCEPT ![i] = y]) = Len(r)
  BY <1>2, SeqUpdateTyped
<1>5. Append(r, y) \in Seq(B)
  BY <1>2
<1> QED BY <1>1, <1>4, <1>5

(* The account's first code is one of its live rows. *)
LEMMA FirstOtpTyped ==
  ASSUME otps \in Seq(Otp), NEW u, NEW row
  PROVE  /\ FirstOtp(u, row) \in Nat
         /\ \/ /\ FirstOtp(u, row) = 0
               /\ \A i \in DOMAIN otps : ~ (otps[i].live /\ otps[i].user = u /\ otps[i].row = row)
            \/ /\ FirstOtp(u, row) \in DOMAIN otps /\ FirstOtp(u, row) # 0
               /\ otps[FirstOtp(u, row)].live
               /\ otps[FirstOtp(u, row)].user = u /\ otps[FirstOtp(u, row)].row = row
<1>1. PICK S : S = {i \in DOMAIN otps : otps[i].live /\ otps[i].user = u /\ otps[i].row = row}
  OBVIOUS
<1>2. FirstOtp(u, row) = IF S = {} THEN 0 ELSE Min(S)
  BY <1>1 DEF FirstOtp
<1>3. IsFiniteSet(S) /\ S \subseteq Int /\ DOMAIN otps \subseteq Nat /\ 0 \notin DOMAIN otps
  <2>1. PICK n \in Nat : n = Len(otps)
    OBVIOUS
  <2>2. DOMAIN otps = 1..n
    BY <2>1
  <2>3. IsFiniteSet(1..n)
    BY FS_Interval
  <2>4. S \subseteq 1..n
    BY <1>1, <2>2
  <2>5. IsFiniteSet(S)
    BY <2>3, <2>4, FS_Subset
  <2>6. 1..n \subseteq Nat /\ 1..n \subseteq Int /\ 0 \notin 1..n
    OBVIOUS
  <2> QED BY <2>2, <2>4, <2>5, <2>6
<1>4. CASE S = {}
  <2>1. \A i \in DOMAIN otps : ~ (otps[i].live /\ otps[i].user = u /\ otps[i].row = row)
    BY <1>1, <1>4
  <2> QED BY <1>2, <1>4, <2>1
<1>5. CASE S # {}
  <2>1. Min(S) \in S
    BY <1>3, <1>5, SmallestOf
  <2>2. FirstOtp(u, row) \in S
    BY <1>2, <1>5, <2>1
  <2> QED BY <1>1, <1>3, <2>2
<1> QED BY <1>4, <1>5

LEMMA SecureMoves ==
  ASSUME TypeOK, RequestsAreSound, NEW t \in Tasks,
         \/ \E u \in registered, p \in Phones \union {NoPhone} : RequestAccountSecurity(t, u, p)
         \/ GetByUserID(t) \/ LockAccount(t) \/ CheckPhone(t) \/ UpdatePhone(t) \/ GetOtp(t)
         \/ StoreOtp(t) \/ SendOTP(t)
  PROVE  \E v \in Users : SecurityMove(t, v)
<1>0. /\ task \in [Tasks -> Requests] /\ CitizensTypeOK /\ registered \subseteq Users
      /\ phone \in [Users -> Phones \union {NoPhone}] /\ verified \in [Users -> BOOLEAN]
      /\ security \in [Users -> Seq(BOOLEAN)] /\ otps \in Seq(Otp) /\ codes \in Seq(Code)
  BY TypeFacts DEF CitizensTypeOK, SecurityTypeOK
<1>1. CASE \E u \in registered, p \in Phones \union {NoPhone} : RequestAccountSecurity(t, u, p)
  <2>1. PICK u \in registered, p \in Phones \union {NoPhone} : RequestAccountSecurity(t, u, p)
    BY <1>1
  <2>2. PICK b \in BOOLEAN : b = (verified[u] /\ phone[u] # NoPhone)
    OBVIOUS
  <2>3. PICK k : k = [pc |-> "account", op |-> "secure", user |-> u, given |-> p,
                      phone |-> phone[u], known |-> b, row |-> 0, otp |-> 0]
    OBVIOUS
  <2>4. k \in SecureTask /\ k.pc # "idle" /\ k.user = u /\ u \in Users
    BY <1>0, <2>3 DEF SecureTask, SecureSteps
  <2>5. Start(t, k)
    BY <2>1, <2>2, <2>3 DEF RequestAccountSecurity
  <2>6. Moves(t, u) /\ task'[t] = k /\ Counted /\ task[t] = Resting
    BY <1>0, <2>4, <2>5, KindsFit, StartMoves
  <2>7. UNCHANGED <<accounts, secrets>>
    BY <2>1 DEF RequestAccountSecurity
  <2> QED BY <2>4, <2>6, <2>7, SecretsUnchanged DEF SecurityMove
<1>2. CASE \/ GetByUserID(t) \/ LockAccount(t) \/ CheckPhone(t) \/ UpdatePhone(t) \/ GetOtp(t)
           \/ StoreOtp(t) \/ SendOTP(t)
  <2>1. task[t].pc \in SecureSteps
    BY <1>2 DEF SecureSteps, At, GetByUserID, LockAccount, CheckPhone, UpdatePhone, GetOtp,
                StoreOtp, SendOTP
  <2>2. PICK k : k = task[t]
    OBVIOUS
  <2>3. /\ k \in SecureTask /\ k.user \in Users
        /\ k.phone \in Phones \union {NoPhone} /\ k.given \in Phones \union {NoPhone}
        /\ k.known \in BOOLEAN /\ k.row \in Nat /\ k.otp \in Nat /\ ~ At(t, "idle")
    BY <2>1, <2>2, SecureTaskAt
  <2> DEFINE Ok == Moves(t, k.user) /\ Counted /\ task'[t] \in SecureTask \union {Resting}
             Kept == /\ SecurityTypeOK' /\ UNCHANGED <<registered, made, log, sessions>>
                     /\ phone' \in [Users -> Phones \union {NoPhone}]
                     /\ verified' \in [Users -> BOOLEAN]
  <2>4. SUFFICES Ok /\ Kept
    BY <2>2, <2>3 DEF SecurityMove
  <2>5. ASSUME NEW m \in SecureTask, Step(t, m), Serve \/ Stumble, m.user = k.user, m.op = k.op
        PROVE  Ok
    BY <1>0, <2>2, <2>3, <2>5, StepMoves, KindsFit
  <2>6. ASSUME Return(t), Serve \/ Stumble PROVE Ok
    BY <1>0, <2>2, <2>3, <2>6, ReturnMoves
  <2>8. ASSUME UNCHANGED <<accounts, secrets>> PROVE Kept
    BY <2>8, SecretsUnchanged
  <2> HIDE DEF Ok, Kept
  <2> USE <2>2
  <2>11. CASE GetByUserID(t)
    <3>1. PICK n \in Nat : n = IF security[k.user] = <<>> THEN 0 ELSE 1
      OBVIOUS
    <3>2. PICK m : m = [k EXCEPT !.pc = "lock", !.row = n]
      OBVIOUS
    <3>3. m \in SecureTask /\ m.user = k.user /\ m.op = k.op
      BY <2>3, <3>2 DEF SecureTask, SecureSteps
    <3> QED BY <2>5, <2>8, <2>11, <3>1, <3>2, <3>3 DEF GetByUserID
  <2>12. CASE LockAccount(t)
    <3>1. PICK s \in Seq(BOOLEAN) : s = security[k.user]
      BY <1>0, <2>3
    <3>2. \E a \in BOOLEAN :
            security' = [security EXCEPT ![k.user] = IF k.row = 0 THEN Append(s, a)
                                                     ELSE [s EXCEPT ![k.row] = a]]
      <4> WITNESS FALSE \in BOOLEAN
      <4> QED BY <2>12, <3>1 DEF LockAccount
    <3>3. PICK a \in BOOLEAN :
            security' = [security EXCEPT ![k.user] = IF k.row = 0 THEN Append(s, a)
                                                     ELSE [s EXCEPT ![k.row] = a]]
      BY <3>2
    <3>4. PICK b \in Seq(BOOLEAN) : security' = [security EXCEPT ![k.user] = b]
      <4>1. Append(s, a) \in Seq(BOOLEAN) /\ [s EXCEPT ![k.row] = a] \in Seq(BOOLEAN)
        BY FlagTyped
      <4> QED BY <3>3, <4>1
    <3>5. security' \in [Users -> Seq(BOOLEAN)] /\ Len(security'[k.user]) \in Nat
      BY <1>0, <2>3, <3>4
    <3>6. PICK n \in Nat : n = IF k.row = 0 THEN Len(security'[k.user]) ELSE k.row
      BY <2>3, <3>5
    <3>7. PICK pc \in {"otp", "phone"} : pc = IF k.known THEN "otp" ELSE "phone"
      OBVIOUS
    <3>8. PICK m : m = [k EXCEPT !.pc = pc, !.row = n]
      OBVIOUS
    <3>9. m \in SecureTask /\ m.user = k.user /\ m.op = k.op
      BY <2>3, <3>8 DEF SecureTask, SecureSteps
    <3>10. Step(t, m) /\ Serve
      <4>1. Step(t, [k EXCEPT !.pc = IF k.known THEN "otp" ELSE "phone",
                              !.row = IF k.row = 0 THEN Len(security'[k.user]) ELSE k.row])
            /\ Serve
        BY <2>12 DEF LockAccount
      <4> QED BY <3>6, <3>7, <3>8, <4>1
    <3>11. Kept
      BY <1>0, <2>12, <3>5 DEF LockAccount, Kept, SecurityTypeOK, accounts
    <3> QED BY <2>5, <3>9, <3>10, <3>11
  <2>13. CASE CheckPhone(t)
    <3>2. PICK m : m = [k EXCEPT !.pc = "save"]
      OBVIOUS
    <3>3. m \in SecureTask /\ m.user = k.user /\ m.op = k.op
      BY <2>3, <3>2 DEF SecureTask, SecureSteps
    <3>4. (Step(t, m) \/ Return(t)) /\ Serve
      BY <2>13, <3>2 DEF CheckPhone, Goto
    <3> QED BY <2>5, <2>6, <2>8, <2>13, <3>3, <3>4 DEF CheckPhone
  <2>14. CASE UpdatePhone(t)
    <3>2. PICK m : m = [k EXCEPT !.pc = "otp", !.phone = k.given]
      OBVIOUS
    <3>3. m \in SecureTask /\ m.user = k.user /\ m.op = k.op
      BY <2>3, <3>2 DEF SecureTask, SecureSteps
    <3>4. Step(t, m) /\ Serve
      BY <2>14, <3>2 DEF UpdatePhone
    <3>5. phone' \in [Users -> Phones \union {NoPhone}]
      BY <1>0, <2>3, <2>14 DEF UpdatePhone
    <3>6. Kept
      BY <1>0, <2>14, <3>5 DEF UpdatePhone, Kept, SecurityTypeOK, secrets
    <3> QED BY <2>5, <3>3, <3>4, <3>6
  <2>15. CASE GetOtp(t)
    <3>1. PICK n \in Nat : n = FirstOtp(k.user, k.row)
      BY <1>0, FirstOtpTyped
    <3>2. PICK m : m = [k EXCEPT !.pc = "store", !.otp = n]
      OBVIOUS
    <3>3. m \in SecureTask /\ m.user = k.user /\ m.op = k.op
      BY <2>3, <3>2 DEF SecureTask, SecureSteps
    <3> QED BY <2>5, <2>8, <2>15, <3>1, <3>2, <3>3 DEF GetOtp
  <2>16. CASE StoreOtp(t)
    <3>1. PICK c \in Nat : c = Len(codes) + 1
      BY <1>0
    <3>2. PICK m : m = [k EXCEPT !.pc = "send", !.otp = c]
      OBVIOUS
    <3>3. m \in SecureTask /\ m.user = k.user /\ m.op = k.op
      BY <2>3, <3>2 DEF SecureTask, SecureSteps
    <3>4. Step(t, m) /\ Serve
      BY <2>16, <3>1, <3>2 DEF StoreOtp
    <3>5. codes' \in Seq(Code)
      <4>1. PICK n : n = [user |-> k.user, phone |-> NoPhone, accepted |-> 0]
        OBVIOUS
      <4>2. n \in Code /\ codes' = Append(codes, n)
        BY <2>3, <2>16, <4>1 DEF StoreOtp, Code
      <4> QED BY <1>0, <4>2
    <3>6. otps' \in Seq(Otp)
      <4>1. CASE k.otp = 0
        <5>1. PICK n : n = [user |-> k.user, row |-> k.row, code |-> c, live |-> TRUE]
          OBVIOUS
        <5>2. n \in Otp /\ otps' = Append(otps, n)
          BY <2>3, <2>16, <3>1, <4>1, <5>1 DEF StoreOtp, Otp
        <5> QED BY <1>0, <5>2
      <4>2. CASE k.otp # 0
        <5>1. k.otp \in DOMAIN otps
          BY <2>16, <4>2 DEF StoreOtp, At, RequestsAreSound, Sound
        <5>2. otps[k.otp] \in Otp
          BY <1>0, <5>1
        <5>3. PICK n : n = [otps[k.otp] EXCEPT !.code = c]
          OBVIOUS
        <5>4. n \in Otp
          BY <5>2, <5>3 DEF Otp
        <5>5. otps' = [otps EXCEPT ![k.otp] = n]
          BY <2>16, <3>1, <4>2, <5>3 DEF StoreOtp
        <5> QED BY <1>0, <5>1, <5>4, <5>5
      <4> QED BY <4>1, <4>2
    <3>7. Kept
      BY <1>0, <2>16, <3>5, <3>6 DEF StoreOtp, Kept, SecurityTypeOK, accounts
    <3> QED BY <2>5, <3>3, <3>4, <3>7
  <2>17. CASE SendOTP(t)
    <3>1. k.otp \in DOMAIN codes
      BY <2>17 DEF SendOTP, At, RequestsAreSound, Sound
    <3>2. PICK n : n = [codes[k.otp] EXCEPT !.phone = k.phone]
      OBVIOUS
    <3>3. n \in Code
      <4>1. codes[k.otp] \in Code
        BY <1>0, <3>1
      <4> QED BY <2>3, <3>2, <4>1 DEF Code
    <3>4. codes' = [codes EXCEPT ![k.otp] = n]
      BY <2>17, <3>2 DEF SendOTP
    <3>5. codes' \in Seq(Code)
      BY <1>0, <3>1, <3>3, <3>4
    <3>6. Kept
      BY <1>0, <2>17, <3>5 DEF SendOTP, Kept, SecurityTypeOK, accounts
    <3> QED BY <2>6, <2>17, <3>6 DEF SendOTP
  <2> QED BY <1>2, <2>11, <2>12, <2>13, <2>14, <2>15, <2>16, <2>17
<1> QED BY <1>1, <1>2

LEMMA VerifyMoves ==
  ASSUME TypeOK, RequestsAreSound, NEW t \in Tasks,
         \/ \E c \in DOMAIN codes : VerifyAccountSecurity(t, c)
         \/ CheckLocked(t) \/ CompareCode(t) \/ MarkPhoneAsVerified(t) \/ Unlock(t) \/ DeleteOtp(t)
  PROVE  \E v \in Users : SecurityMove(t, v)
<1>0. /\ task \in [Tasks -> Requests] /\ CitizensTypeOK /\ registered \subseteq Users
      /\ phone \in [Users -> Phones \union {NoPhone}] /\ verified \in [Users -> BOOLEAN]
      /\ security \in [Users -> Seq(BOOLEAN)] /\ otps \in Seq(Otp) /\ codes \in Seq(Code)
  BY TypeFacts DEF CitizensTypeOK, SecurityTypeOK
<1>1. CASE \E c \in DOMAIN codes : VerifyAccountSecurity(t, c)
  <2>1. PICK c \in DOMAIN codes : VerifyAccountSecurity(t, c)
    BY <1>1
  <2>2. PICK u : u = codes[c].user
    OBVIOUS
  <2>3. c \in Nat /\ u \in Users
    <3>1. codes[c] \in Code /\ c \in Nat
      BY <1>0
    <3> QED BY <2>2, <3>1 DEF Code
  <2>4. PICK b \in BOOLEAN : b = verified[u]
    BY <1>0, <2>3
  <2>5. PICK k : k = [pc |-> "unlocked", op |-> "verify", user |-> u, code |-> c,
                      known |-> b, row |-> 0, otp |-> 0]
    OBVIOUS
  <2>6. k \in VerifyTask /\ k.pc # "idle" /\ k.user = u
    BY <2>3, <2>5 DEF VerifyTask, VerifySteps
  <2>7. Start(t, k)
    BY <2>1, <2>2, <2>4, <2>5 DEF VerifyAccountSecurity
  <2>8. Moves(t, u) /\ task'[t] = k /\ Counted /\ task[t] = Resting
    BY <1>0, <2>6, <2>7, KindsFit, StartMoves
  <2>9. UNCHANGED <<accounts, secrets>>
    BY <2>1 DEF VerifyAccountSecurity
  <2> QED BY <2>3, <2>6, <2>8, <2>9, SecretsUnchanged DEF SecurityMove
<1>2. CASE CheckLocked(t) \/ CompareCode(t) \/ MarkPhoneAsVerified(t) \/ Unlock(t) \/ DeleteOtp(t)
  <2>1. task[t].pc \in VerifySteps
    BY <1>2 DEF VerifySteps, At, CheckLocked, CompareCode, MarkPhoneAsVerified, Unlock, DeleteOtp
  <2>2. PICK k : k = task[t]
    OBVIOUS
  <2>3. /\ k \in VerifyTask /\ k.user \in Users /\ k.code \in Nat
        /\ k.known \in BOOLEAN /\ k.row \in Nat /\ k.otp \in Nat /\ ~ At(t, "idle")
    BY <2>1, <2>2, VerifyTaskAt
  <2> DEFINE Ok == Moves(t, k.user) /\ Counted /\ task'[t] \in VerifyTask \union {Resting}
             Kept == /\ SecurityTypeOK' /\ UNCHANGED <<registered, made, log, sessions>>
                     /\ phone' \in [Users -> Phones \union {NoPhone}]
                     /\ verified' \in [Users -> BOOLEAN]
  <2>4. SUFFICES Ok /\ Kept
    BY <2>2, <2>3 DEF SecurityMove
  <2>5. ASSUME NEW m \in VerifyTask, Step(t, m), Serve \/ Stumble, m.user = k.user, m.op = k.op
        PROVE  Ok
    BY <1>0, <2>2, <2>3, <2>5, StepMoves, KindsFit
  <2>6. ASSUME Return(t), Serve \/ Stumble PROVE Ok
    BY <1>0, <2>2, <2>3, <2>6, ReturnMoves
  <2>7. ASSUME NEW pc \in VerifySteps, Goto(t, pc), Serve \/ Stumble PROVE Ok
    <3>1. PICK m : m = [k EXCEPT !.pc = pc]
      OBVIOUS
    <3>2. m \in VerifyTask /\ m.user = k.user /\ m.op = k.op /\ Step(t, m)
      BY <2>2, <2>3, <2>7, <3>1 DEF VerifyTask, Goto
    <3> HIDE DEF Ok
    <3> QED BY <2>5, <2>7, <3>2
  <2>8. ASSUME UNCHANGED <<accounts, secrets>> PROVE Kept
    BY <2>8, SecretsUnchanged
  <2> HIDE DEF Ok, Kept
  <2> USE <2>2
  <2>9. "unlock" \in VerifySteps /\ "delete" \in VerifySteps
    BY DEF VerifySteps
  <2>11. CASE CheckLocked(t)
    <3>1. PICK m : m = [k EXCEPT !.pc = "compare", !.row = 1]
      OBVIOUS
    <3>2. m \in VerifyTask /\ m.user = k.user /\ m.op = k.op
      BY <2>3, <3>1 DEF VerifyTask, VerifySteps
    <3>3. (Step(t, m) \/ Return(t)) /\ Serve
      BY <2>11, <3>1 DEF CheckLocked
    <3> QED BY <2>5, <2>6, <2>8, <2>11, <3>2, <3>3 DEF CheckLocked
  <2>12. CASE CompareCode(t)
    <3>1. PICK i \in Nat : i = FirstOtp(k.user, k.row)
      BY <1>0, FirstOtpTyped
    <3>2. PICK pc \in VerifySteps : pc = IF k.known THEN "unlock" ELSE "mark"
      BY DEF VerifySteps
    <3>3. PICK m : m = [k EXCEPT !.pc = pc, !.otp = i]
      OBVIOUS
    <3>4. m \in VerifyTask /\ m.user = k.user /\ m.op = k.op
      BY <2>3, <3>3 DEF VerifyTask
    <3>5. /\ Step(t, m) \/ Return(t)
          /\ Serve
      BY <2>12, <3>1, <3>2, <3>3 DEF CompareCode
    <3>6. codes' \in Seq(Code)
      <4>1. k.code \in DOMAIN codes
        BY <2>12 DEF CompareCode, At, RequestsAreSound, Sound, VerifySteps
      <4>2. codes[k.code] \in Code
        BY <1>0, <4>1
      <4>3. PICK n : n = [codes[k.code] EXCEPT !.accepted = codes[k.code].accepted + 1]
        OBVIOUS
      <4>4. n \in Code
        BY <4>2, <4>3 DEF Code
      <4>5. codes' = codes \/ codes' = [codes EXCEPT ![k.code] = n]
        BY <2>12, <4>3 DEF CompareCode
      <4>6. [codes EXCEPT ![k.code] = n] \in Seq(Code)
        BY <1>0, <4>4, SeqUpdateTyped
      <4> QED BY <1>0, <4>5, <4>6
    <3>7. Kept
      BY <1>0, <2>12, <3>6 DEF CompareCode, Kept, SecurityTypeOK, accounts
    <3> QED BY <2>5, <2>6, <3>4, <3>5, <3>7
  <2>13. CASE MarkPhoneAsVerified(t)
    <3>1. Goto(t, "unlock") /\ Serve
      BY <2>13 DEF MarkPhoneAsVerified
    <3>2. verified' \in [Users -> BOOLEAN]
      BY <1>0, <2>3, <2>13 DEF MarkPhoneAsVerified
    <3>3. Kept
      BY <1>0, <2>13, <3>2 DEF MarkPhoneAsVerified, Kept, SecurityTypeOK, secrets
    <3> QED BY <2>7, <2>9, <3>1, <3>3
  <2>14. CASE Unlock(t)
    <3>1. Goto(t, "delete") /\ Serve
      BY <2>14 DEF Unlock
    <3>2. PICK s \in Seq(BOOLEAN) : s = security[k.user]
      BY <1>0, <2>3
    <3>3. \E a \in BOOLEAN :
            security' = [security EXCEPT ![k.user] = [s EXCEPT ![k.row] = a]]
      <4> WITNESS TRUE \in BOOLEAN
      <4> QED BY <2>14, <3>2 DEF Unlock
    <3>4. PICK a \in BOOLEAN : security' = [security EXCEPT ![k.user] = [s EXCEPT ![k.row] = a]]
      BY <3>3
    <3>5. security' \in [Users -> Seq(BOOLEAN)]
      <4>1. [s EXCEPT ![k.row] = a] \in Seq(BOOLEAN)
        BY FlagTyped
      <4> QED BY <1>0, <2>3, <3>4, <4>1
    <3>6. Kept
      BY <1>0, <2>14, <3>5 DEF Unlock, Kept, SecurityTypeOK, accounts
    <3> QED BY <2>7, <2>9, <3>1, <3>6
  <2>15. CASE DeleteOtp(t)
    <3>1. Return(t) /\ Serve
      BY <2>15 DEF DeleteOtp
    <3>2. k.otp \in DOMAIN otps
      BY <2>15 DEF DeleteOtp, At, RequestsAreSound, Sound
    <3>3. PICK n : n = [otps[k.otp] EXCEPT !.live = FALSE]
      OBVIOUS
    <3>4. n \in Otp
      <4>1. otps[k.otp] \in Otp
        BY <1>0, <3>2
      <4> QED BY <3>3, <4>1 DEF Otp
    <3>5. otps' = [otps EXCEPT ![k.otp] = n]
      BY <2>15, <3>3 DEF DeleteOtp
    <3>6. otps' \in Seq(Otp)
      BY <1>0, <3>2, <3>4, <3>5
    <3>7. Kept
      BY <1>0, <2>15, <3>6 DEF DeleteOtp, Kept, SecurityTypeOK, accounts
    <3> QED BY <2>6, <3>1, <3>7
  <2> QED BY <1>2, <2>11, <2>12, <2>13, <2>14, <2>15
<1> QED BY <1>1, <1>2

(* A step of social-service in t for v. *)
SocialMove(t, v) ==
  /\ Moves(t, v) /\ Counted
  /\ \/ task[t] \in AnswerTask \union {Resting} /\ task'[t] \in AnswerTask \union {Resting}
     \/ task[t] \in FollowTask \union {Resting} /\ task'[t] \in FollowTask \union {Resting}
  /\ SocialTypeOK' /\ UNCHANGED accounts

SocialStep(t) ==
  \/ \E u \in registered, q \in Questions, right \in BOOLEAN : SubmitAnswer(t, u, q, right)
  \/ HasUserAnswered(t)
  \/ CreateUserAnswer(t)
  \/ IncrementQuestionParticipants(t)
  \/ AddChallengePrize(t)
  \/ \E u \in registered, v \in registered : Follow(t, u, v)
  \/ ExistsFollow(t)
  \/ CreateFollow(t)

LEMMA AnswerTaskAt ==
  ASSUME TypeOK, NEW t \in Tasks, task[t].pc \in AnswerSteps
  PROVE  /\ task[t] \in AnswerTask /\ task[t].user \in Users /\ task[t].question \in Questions
         /\ task[t].right \in BOOLEAN /\ ~ At(t, "idle")
<1>1. task[t] \in Requests
  BY TypeFacts
<1>2. task[t] \in AnswerTask
  BY <1>1, Kinds
<1>3. ~ At(t, "idle")
  BY DEF AnswerSteps, At
<1> QED BY <1>2, <1>3 DEF AnswerTask

LEMMA FollowTaskAt ==
  ASSUME TypeOK, NEW t \in Tasks, task[t].pc \in FollowSteps
  PROVE  /\ task[t] \in FollowTask /\ task[t].user \in Users /\ task[t].target \in Users
         /\ ~ At(t, "idle")
<1>1. task[t] \in Requests
  BY TypeFacts
<1>2. task[t] \in FollowTask
  BY <1>1, Kinds
<1>3. ~ At(t, "idle")
  BY DEF FollowSteps, At
<1> QED BY <1>2, <1>3 DEF FollowTask

LEMMA SocialUnchanged ==
  ASSUME TypeOK, UNCHANGED social
  PROVE  SocialTypeOK'
BY TypeFacts DEF social, SocialTypeOK

LEMMA AnswerMoves ==
  ASSUME TypeOK, NEW t \in Tasks,
         \/ \E u \in registered, q \in Questions, right \in BOOLEAN : SubmitAnswer(t, u, q, right)
         \/ HasUserAnswered(t) \/ CreateUserAnswer(t)
         \/ IncrementQuestionParticipants(t) \/ AddChallengePrize(t)
  PROVE  \E v \in Users : SocialMove(t, v)
<1>0. /\ task \in [Tasks -> Requests] /\ CitizensTypeOK /\ registered \subseteq Users /\ SocialTypeOK
  BY TypeFacts DEF CitizensTypeOK
<1>1. CASE \E u \in registered, q \in Questions, right \in BOOLEAN : SubmitAnswer(t, u, q, right)
  <2>1. PICK u \in registered, q \in Questions, right \in BOOLEAN : SubmitAnswer(t, u, q, right)
    BY <1>1
  <2>2. PICK k : k = [pc |-> "answered", op |-> "answer", user |-> u, question |-> q, right |-> right]
    OBVIOUS
  <2>3. k \in AnswerTask /\ k.pc # "idle" /\ k.user = u /\ u \in Users
    BY <1>0, <2>2 DEF AnswerTask, AnswerSteps
  <2>4. Start(t, k)
    BY <2>1, <2>2 DEF SubmitAnswer
  <2>5. Moves(t, u) /\ task'[t] = k /\ Counted /\ task[t] = Resting
    BY <1>0, <2>3, <2>4, KindsFit, StartMoves
  <2>6. UNCHANGED accounts /\ UNCHANGED social
    BY <2>1 DEF SubmitAnswer
  <2> QED BY <2>3, <2>5, <2>6, SocialUnchanged DEF SocialMove
<1>2. CASE \/ HasUserAnswered(t) \/ CreateUserAnswer(t)
           \/ IncrementQuestionParticipants(t) \/ AddChallengePrize(t)
  <2>1. task[t].pc \in AnswerSteps
    BY <1>2 DEF AnswerSteps, At, HasUserAnswered, CreateUserAnswer,
                IncrementQuestionParticipants, AddChallengePrize
  <2>2. PICK k : k = task[t]
    OBVIOUS
  <2>3. /\ k \in AnswerTask /\ k.user \in Users /\ k.question \in Questions
        /\ k.right \in BOOLEAN /\ ~ At(t, "idle")
    BY <2>1, <2>2, AnswerTaskAt
  <2>4. UNCHANGED accounts
    BY <1>2 DEF HasUserAnswered, CreateUserAnswer, IncrementQuestionParticipants, AddChallengePrize
  <2> DEFINE Ok == Moves(t, k.user) /\ Counted /\ task'[t] \in AnswerTask \union {Resting}
  <2>5. SUFFICES Ok /\ SocialTypeOK'
    BY <2>2, <2>3, <2>4 DEF SocialMove
  <2>6. ASSUME Return(t), Serve \/ Stumble PROVE Ok
    BY <1>0, <2>2, <2>3, <2>6, ReturnMoves
  <2>7. ASSUME NEW pc \in AnswerSteps, Goto(t, pc), Serve \/ Stumble PROVE Ok
    <3>1. PICK m : m = [k EXCEPT !.pc = pc]
      OBVIOUS
    <3>2. m \in AnswerTask /\ m.user = k.user /\ m.op = k.op /\ Step(t, m)
      BY <2>2, <2>3, <2>7, <3>1 DEF AnswerTask, Goto
    <3> QED BY <1>0, <2>2, <2>3, <2>7, <3>2, StepMoves, KindsFit
  <2> HIDE DEF Ok
  <2> USE <2>2
  <2>8. "answer" \in AnswerSteps /\ "participants" \in AnswerSteps /\ "prize" \in AnswerSteps
    BY DEF AnswerSteps
  <2>9. /\ answers[k.user][k.question] + 1 \in Nat /\ correct[k.user][k.question] + 1 \in Nat
        /\ prizes[k.user][k.question] + 1 \in Nat /\ participants[k.question] + 1 \in Nat
    BY <1>0, <2>3 DEF SocialTypeOK
  <2>11. CASE HasUserAnswered(t)
    BY <2>6, <2>7, <2>8, <2>11, SocialUnchanged DEF HasUserAnswered
  <2>12. CASE CreateUserAnswer(t)
    <3>1. answers' \in [Users -> [Questions -> Nat]]
      BY <1>0, <2>3, <2>9, <2>12, IncrementTyped DEF CreateUserAnswer, SocialTypeOK
    <3>2. correct' = correct \/ correct' = [correct EXCEPT ![k.user][k.question] = @ + 1]
      BY <2>12 DEF CreateUserAnswer
    <3>3. correct' \in [Users -> [Questions -> Nat]]
      <4>1. correct \in [Users -> [Questions -> Nat]]
        BY <1>0 DEF SocialTypeOK
      <4>2. [correct EXCEPT ![k.user][k.question] = @ + 1] \in [Users -> [Questions -> Nat]]
        BY <2>3, <2>9, <4>1, IncrementTyped
      <4> QED BY <3>2, <4>1, <4>2
    <3>4. SocialTypeOK'
      BY <1>0, <2>12, <3>1, <3>3 DEF CreateUserAnswer, SocialTypeOK
    <3> QED BY <2>7, <2>8, <2>12, <3>4 DEF CreateUserAnswer
  <2>13. CASE IncrementQuestionParticipants(t)
    <3>1. participants' \in [Questions -> Nat]
      BY <1>0, <2>3, <2>9, <2>13 DEF IncrementQuestionParticipants, SocialTypeOK
    <3>2. SocialTypeOK'
      BY <1>0, <2>13, <3>1 DEF IncrementQuestionParticipants, SocialTypeOK
    <3>3. Serve \/ Stumble
      BY <2>13 DEF IncrementQuestionParticipants
    <3>4. Goto(t, "prize") \/ Return(t)
      BY <2>13 DEF IncrementQuestionParticipants
    <3> QED BY <2>6, <2>7, <2>8, <3>2, <3>3, <3>4
  <2>14. CASE AddChallengePrize(t)
    <3>1. prizes' = prizes \/ prizes' = [prizes EXCEPT ![k.user][k.question] = @ + 1]
      BY <2>14 DEF AddChallengePrize
    <3>2. prizes' \in [Users -> [Questions -> Nat]]
      <4>1. prizes \in [Users -> [Questions -> Nat]]
        BY <1>0 DEF SocialTypeOK
      <4>2. [prizes EXCEPT ![k.user][k.question] = @ + 1] \in [Users -> [Questions -> Nat]]
        BY <2>3, <2>9, <4>1, IncrementTyped
      <4> QED BY <3>1, <4>1, <4>2
    <3>3. SocialTypeOK'
      BY <1>0, <2>14, <3>2 DEF AddChallengePrize, SocialTypeOK
    <3>4. Serve \/ Stumble
      BY <2>14 DEF AddChallengePrize
    <3> QED BY <2>6, <2>14, <3>3, <3>4 DEF AddChallengePrize
  <2> QED BY <1>2, <2>11, <2>12, <2>13, <2>14
<1> QED BY <1>1, <1>2

LEMMA FollowMoves ==
  ASSUME TypeOK, NEW t \in Tasks,
         \/ \E u \in registered, v \in registered : Follow(t, u, v)
         \/ ExistsFollow(t) \/ CreateFollow(t)
  PROVE  \E v \in Users : SocialMove(t, v)
<1>0. /\ task \in [Tasks -> Requests] /\ CitizensTypeOK /\ registered \subseteq Users /\ SocialTypeOK
  BY TypeFacts DEF CitizensTypeOK
<1>1. CASE \E u \in registered, v \in registered : Follow(t, u, v)
  <2>1. PICK u \in registered, v \in registered : Follow(t, u, v)
    BY <1>1
  <2>2. PICK k : k = [pc |-> "exists", op |-> "follow", user |-> u, target |-> v]
    OBVIOUS
  <2>3. k \in FollowTask /\ k.pc # "idle" /\ k.user = u /\ u \in Users
    BY <1>0, <2>2 DEF FollowTask, FollowSteps
  <2>4. Start(t, k)
    BY <2>1, <2>2 DEF Follow
  <2>5. Moves(t, u) /\ task'[t] = k /\ Counted /\ task[t] = Resting
    BY <1>0, <2>3, <2>4, KindsFit, StartMoves
  <2>6. UNCHANGED accounts /\ UNCHANGED social
    BY <2>1 DEF Follow
  <2> QED BY <2>3, <2>5, <2>6, SocialUnchanged DEF SocialMove
<1>2. CASE ExistsFollow(t) \/ CreateFollow(t)
  <2>1. task[t].pc \in FollowSteps
    BY <1>2 DEF FollowSteps, At, ExistsFollow, CreateFollow
  <2>2. PICK k : k = task[t]
    OBVIOUS
  <2>3. /\ k \in FollowTask /\ k.user \in Users /\ k.target \in Users /\ ~ At(t, "idle")
    BY <2>1, <2>2, FollowTaskAt
  <2>4. UNCHANGED accounts /\ Serve
    BY <1>2 DEF ExistsFollow, CreateFollow
  <2> DEFINE Ok == Moves(t, k.user) /\ Counted /\ task'[t] \in FollowTask \union {Resting}
  <2>5. SUFFICES Ok /\ SocialTypeOK'
    BY <2>2, <2>3, <2>4 DEF SocialMove
  <2>6. ASSUME Return(t), Serve \/ Stumble PROVE Ok
    BY <1>0, <2>2, <2>3, <2>6, ReturnMoves
  <2>7. ASSUME Goto(t, "follow"), Serve \/ Stumble PROVE Ok
    <3>1. PICK m : m = [k EXCEPT !.pc = "follow"]
      OBVIOUS
    <3>2. m \in FollowTask /\ m.user = k.user /\ m.op = k.op /\ Step(t, m)
      BY <2>2, <2>3, <2>7, <3>1 DEF FollowTask, FollowSteps, Goto
    <3> QED BY <1>0, <2>2, <2>3, <2>7, <3>2, StepMoves, KindsFit
  <2> HIDE DEF Ok
  <2> USE <2>2
  <2>11. CASE ExistsFollow(t)
    BY <2>4, <2>6, <2>7, <2>11, SocialUnchanged DEF ExistsFollow
  <2>12. CASE CreateFollow(t)
    <3>1. follows[k.user][k.target] + 1 \in Nat
      BY <1>0, <2>3 DEF SocialTypeOK
    <3>2. follows' \in [Users -> [Users -> Nat]]
      BY <1>0, <2>3, <2>12, <3>1, IncrementTyped DEF CreateFollow, SocialTypeOK
    <3>3. SocialTypeOK'
      BY <1>0, <2>12, <3>2 DEF CreateFollow, SocialTypeOK
    <3> QED BY <2>4, <2>6, <2>12, <3>3 DEF CreateFollow
  <2> QED BY <1>2, <2>11, <2>12
<1> QED BY <1>1, <1>2

LEMMA SocialMoves ==
  ASSUME TypeOK, NEW t \in Tasks, SocialStep(t)
  PROVE  \E v \in Users : SocialMove(t, v)
BY AnswerMoves, FollowMoves DEF SocialStep

(* A failure ends a request. *)
LEMMA FailsMoves ==
  ASSUME TypeOK, NEW t \in Tasks, Fails(t)
  PROVE  /\ \E v \in Users : Moves(t, v)
         /\ Counted /\ faults' > faults /\ task[t].pc # "idle" /\ task'[t] = Resting
         /\ UNCHANGED <<accounts, levels, rephoned, secrets, social>>
<1>1. /\ Moves(t, task[t].user) /\ task[t].user \in Users /\ Counted /\ task'[t] = Resting
  BY TypeFacts, ReturnMoves DEF Fails
<1>2. faults' > faults
  BY <1>1 DEF Fails, Stumble, Fault, Counted
<1> QED BY <1>1, <1>2 DEF Fails, At

SessionsStep(t) ==
  \/ \E u \in Users, p \in Phones : Callback(t, u, p)
  \/ FindUser(t)
  \/ CreateUser(t)
  \/ MakePart(t)
  \/ UpdateUser(t)
  \/ OnUserLogin(t)
  \/ \E u \in registered : Logout(t, u)
  \/ GetLatestActivity(t)
  \/ UpdateActivity(t)
  \/ GetTotalActivityMinutes(t)
  \/ GetUserLog(t)
  \/ WriteHours(t)
  \/ WriteScore(t)
  \/ WriteUser(t)

SecurityStep(t) ==
  \/ \E u \in registered, p \in Phones \union {NoPhone} : RequestAccountSecurity(t, u, p)
  \/ GetByUserID(t)
  \/ LockAccount(t)
  \/ CheckPhone(t)
  \/ UpdatePhone(t)
  \/ GetOtp(t)
  \/ StoreOtp(t)
  \/ SendOTP(t)
  \/ \E c \in DOMAIN codes : VerifyAccountSecurity(t, c)
  \/ CheckLocked(t)
  \/ CompareCode(t)
  \/ MarkPhoneAsVerified(t)
  \/ Unlock(t)
  \/ DeleteOtp(t)

LevelsActs(t, v)   == LevelsStep(t) /\ LevelsMove(t, v) /\ UNCHANGED <<rephoned, secrets, social>>
SessionsActs(t, v) == SessionsStep(t) /\ SessionsMove(t, v) /\ UNCHANGED <<levels, secrets, social>>
SecurityActs(t, v) == SecurityStep(t) /\ SecurityMove(t, v) /\ UNCHANGED <<levels, rephoned, social>>
SocialActs(t, v)   == SocialStep(t) /\ SocialMove(t, v) /\ UNCHANGED <<levels, rephoned, secrets>>
FailsFor(t, v)     == /\ Fails(t) /\ Moves(t, v) /\ Counted /\ faults' > faults
                      /\ task[t].pc # "idle" /\ task'[t] = Resting
                      /\ UNCHANGED <<accounts, levels, rephoned, secrets, social>>

(* A trade, a session that starts and a follow that ends are no steps of a request. *)
TradeActs(u)       == Trade(u) /\ Counted /\ UNCHANGED <<rephoned, secrets, social>>
LogActs(u)         == LogActivity(u) /\ Counted /\ UNCHANGED <<rephoned, secrets, social>>
UnfollowActs(u, v) == Unfollow(u, v) /\ Counted /\ UNCHANGED <<levels, rephoned, secrets>>

LEMMA NextCases ==
  ASSUME TypeOK, RequestsAreSound, Next
  PROVE  \/ \E t \in Tasks, v \in Users : LevelsActs(t, v)
         \/ \E t \in Tasks, v \in Users : SessionsActs(t, v)
         \/ \E t \in Tasks, v \in Users : SecurityActs(t, v)
         \/ \E t \in Tasks, v \in Users : SocialActs(t, v)
         \/ \E t \in Tasks, v \in Users : FailsFor(t, v)
         \/ \E u \in registered : TradeActs(u) \/ LogActs(u)
         \/ \E u \in registered, v \in registered : UnfollowActs(u, v)
<1>0. CitizensTypeOK
  BY TypeFacts
<1>1. CASE LevelsNext /\ UNCHANGED <<rephoned, secrets, social>>
  <2>1. CASE \E t \in Tasks : LevelsStep(t)
    BY <1>1, <2>1, LevelsStepMoves DEF LevelsActs
  <2>2. ASSUME NEW u \in registered, Trade(u) \/ LogActivity(u) PROVE Counted
    BY <1>0, <2>2, Bounds DEF Trade, LogActivity
  <2> QED BY <1>1, <2>1, <2>2 DEF LevelsNext, TradeActs, LogActs
<1>2. CASE SessionsNext /\ UNCHANGED <<levels, secrets, social>>
  <2>1. PICK t \in Tasks : SessionsStep(t)
    BY <1>2 DEF SessionsNext, SessionsStep
  <2>2. \E v \in Users : SessionsMove(t, v)
    BY <2>1, SessionsStarts, CallbackMoves, LogoutMoves DEF SessionsStep
  <2> QED BY <1>2, <2>1, <2>2 DEF SessionsActs
<1>3. CASE SecurityNext /\ UNCHANGED <<levels, rephoned, social>>
  <2>1. PICK t \in Tasks : SecurityStep(t)
    BY <1>3 DEF SecurityNext, SecurityStep
  <2>2. \E v \in Users : SecurityMove(t, v)
    BY <2>1, SecureMoves, VerifyMoves DEF SecurityStep
  <2> QED BY <1>3, <2>1, <2>2 DEF SecurityActs
<1>4. CASE SocialNext /\ UNCHANGED <<levels, rephoned, secrets>>
  <2>1. CASE \E t \in Tasks : SocialStep(t)
    BY <1>4, <2>1, SocialMoves DEF SocialActs
  <2>2. ASSUME NEW u \in registered, NEW v \in registered, Unfollow(u, v) PROVE Counted
    BY <1>0, <2>2, Bounds DEF Unfollow
  <2> QED BY <1>4, <2>1, <2>2 DEF SocialNext, SocialStep, UnfollowActs
<1>5. CASE \E t \in Tasks : Fails(t)
  BY <1>5, FailsMoves DEF FailsFor
<1> QED BY <1>1, <1>2, <1>3, <1>4, <1>5 DEF Next

(* A step that is one of some request's. *)
Acts(t, v) ==
  \/ LevelsActs(t, v) \/ SessionsActs(t, v) \/ SecurityActs(t, v)
  \/ SocialActs(t, v) \/ FailsFor(t, v)

LEMMA ActsMoves ==
  ASSUME NEW t, NEW v, Acts(t, v)
  PROVE  Moves(t, v) /\ Counted
BY DEF Acts, LevelsActs, SessionsActs, SecurityActs, SocialActs, FailsFor,
       LevelsMove, SessionsMove, SecurityMove, SocialMove

AsideActs(u, v) == TradeActs(u) \/ LogActs(u) \/ UnfollowActs(u, v)

LEMMA AsideKeeps ==
  ASSUME NEW u, NEW v, AsideActs(u, v)
  PROVE  /\ task' = task /\ overlap' = overlap /\ faults' = faults /\ Counted
         /\ registered' = registered /\ phone' = phone /\ verified' = verified
         /\ made' = made /\ log' = log /\ score' = score /\ attached' = attached
         /\ received' = received /\ paid' = paid /\ deposited' = deposited
         /\ rephoned' = rephoned /\ security' = security /\ otps' = otps /\ codes' = codes
         /\ answers' = answers /\ correct' = correct /\ participants' = participants
         /\ prizes' = prizes
BY DEF AsideActs, TradeActs, LogActs, UnfollowActs, Trade, LogActivity, Unfollow,
       accounts, levels, secrets, social

LEMMA ActCases ==
  ASSUME TypeOK, RequestsAreSound, Next
  PROVE  \/ \E t \in Tasks, v \in Users : Acts(t, v)
         \/ \E u \in registered, v \in registered : AsideActs(u, v)
BY NextCases DEF Acts, AsideActs

LEMMA TypeNext ==
  ASSUME TypeOK, RequestsAreSound, [Next]_vars
  PROVE  TypeOK'
<1>0. /\ task \in [Tasks -> Requests] /\ overlap \in [Users -> SUBSET Ops]
      /\ CitizensTypeOK /\ LevelsTypeOK /\ SessionsTypeOK /\ SecurityTypeOK /\ SocialTypeOK
  BY TypeFacts
<1>1. CASE UNCHANGED vars
  <2>1. /\ task' \in [Tasks -> Requests] /\ overlap' \in [Users -> SUBSET Ops]
        /\ CitizensTypeOK'
    BY <1>0, <1>1 DEF vars, requests, accounts, CitizensTypeOK
  <2>2. LevelsTypeOK' /\ SessionsTypeOK' /\ SecurityTypeOK' /\ SocialTypeOK'
    BY <1>0, <1>1 DEF vars, levels, secrets, social,
         LevelsTypeOK, SessionsTypeOK, SecurityTypeOK, SocialTypeOK
  <2> QED BY <2>1, <2>2 DEF TypeOK, Requests, Ops, Resting
<1> DEFINE Good == /\ task' \in [Tasks -> Requests] /\ overlap' \in [Users -> SUBSET Ops]
                   /\ Counted
                   /\ registered' \subseteq Users
                   /\ phone' \in [Users -> Phones \union {NoPhone}]
                   /\ verified' \in [Users -> BOOLEAN]
                   /\ made' \in [Users -> [Parts -> Nat]]
                   /\ log' \in [Users -> UserLog]
                   /\ sessions' \in [Users -> Seq(Nat)]
                   /\ LevelsTypeOK' /\ SessionsTypeOK' /\ SecurityTypeOK' /\ SocialTypeOK'
<1>2. SUFFICES ASSUME Next PROVE Good
  <2>1. ASSUME Good PROVE TypeOK'
    <3>1. CitizensTypeOK'
      BY <1>0, <2>1 DEF CitizensTypeOK, Counted
    <3> QED BY <2>1, <3>1 DEF TypeOK, Requests, Ops, Resting
  <2> QED BY <1>1, <2>1
<1>3. ASSUME NEW t \in Tasks, NEW v \in Users, Moves(t, v)
      PROVE  task' \in [Tasks -> Requests] /\ overlap' \in [Users -> SUBSET Ops]
  BY <1>0, <1>3, MovesOverlap DEF Moves
<1> HIDE DEF Good
<1>4. UNCHANGED levels => LevelsTypeOK'
  BY <1>0 DEF levels, LevelsTypeOK
<1>5. UNCHANGED secrets => SecurityTypeOK'
  BY <1>0 DEF secrets, SecurityTypeOK
<1>6. UNCHANGED social => SocialTypeOK'
  BY <1>0 DEF social, SocialTypeOK
<1>7. UNCHANGED rephoned => SessionsTypeOK'
  BY <1>0 DEF SessionsTypeOK
<1>8. UNCHANGED accounts => /\ registered' \subseteq Users
                            /\ phone' \in [Users -> Phones \union {NoPhone}]
                            /\ verified' \in [Users -> BOOLEAN]
                            /\ made' \in [Users -> [Parts -> Nat]]
                            /\ log' \in [Users -> UserLog]
                            /\ sessions' \in [Users -> Seq(Nat)]
  BY <1>0 DEF accounts, CitizensTypeOK
<1>9. /\ registered \subseteq Users /\ phone \in [Users -> Phones \union {NoPhone}]
      /\ verified \in [Users -> BOOLEAN] /\ made \in [Users -> [Parts -> Nat]]
      /\ log \in [Users -> UserLog] /\ sessions \in [Users -> Seq(Nat)]
  BY <1>0 DEF CitizensTypeOK
<1>11. ASSUME NEW t \in Tasks, NEW v \in Users, LevelsActs(t, v) PROVE Good
  BY <1>3, <1>5, <1>6, <1>7, <1>9, <1>11 DEF Good, LevelsActs, LevelsMove
<1>12. ASSUME NEW t \in Tasks, NEW v \in Users, SessionsActs(t, v) PROVE Good
  BY <1>3, <1>4, <1>5, <1>6, <1>9, <1>12 DEF Good, SessionsActs, SessionsMove, AccountsTyped, SessionsTypeOK
<1>13. ASSUME NEW t \in Tasks, NEW v \in Users, SecurityActs(t, v) PROVE Good
  BY <1>3, <1>4, <1>6, <1>7, <1>9, <1>13 DEF Good, SecurityActs, SecurityMove
<1>14. ASSUME NEW t \in Tasks, NEW v \in Users, SocialActs(t, v) PROVE Good
  BY <1>3, <1>4, <1>5, <1>7, <1>8, <1>14 DEF Good, SocialActs, SocialMove
<1>15. ASSUME NEW t \in Tasks, NEW v \in Users, FailsFor(t, v) PROVE Good
  BY <1>3, <1>4, <1>5, <1>6, <1>7, <1>8, <1>15 DEF Good, FailsFor
<1>16. ASSUME NEW u \in registered, TradeActs(u) PROVE Good
  <2>1. traded[u] + 1 \in Nat
    BY <1>0, <1>9 DEF LevelsTypeOK
  <2>2. LevelsTypeOK'
    BY <1>0, <1>9, <1>16, <2>1 DEF TradeActs, Trade, LevelsTypeOK
  <2> QED BY <1>0, <1>5, <1>6, <1>7, <1>8, <1>16, <2>2 DEF Good, TradeActs, Trade
<1>17. ASSUME NEW u \in registered, LogActs(u) PROVE Good
  <2>1. sessions' \in [Users -> Seq(Nat)]
    BY <1>9, <1>17, AppendTyped DEF LogActs, LogActivity
  <2> QED BY <1>0, <1>4, <1>5, <1>6, <1>7, <1>9, <1>17, <2>1 DEF Good, LogActs, LogActivity
<1>18. ASSUME NEW u \in registered, NEW v \in registered, UnfollowActs(u, v) PROVE Good
  <2>1. follows' \in [Users -> [Users -> Nat]]
    <3>1. PICK n \in Nat : n = 0
      OBVIOUS
    <3>2. follows' = [follows EXCEPT ![u][v] = n]
      BY <1>18, <3>1 DEF UnfollowActs, Unfollow
    <3>3. follows \in [Users -> [Users -> Nat]] /\ u \in Users /\ v \in Users
      BY <1>0, <1>9 DEF SocialTypeOK
    <3> QED BY <3>2, <3>3, IncrementTyped
  <2>2. SocialTypeOK'
    BY <1>0, <1>18, <2>1 DEF UnfollowActs, Unfollow, SocialTypeOK
  <2> QED BY <1>0, <1>4, <1>5, <1>7, <1>8, <1>18, <2>2 DEF Good, UnfollowActs, Unfollow
<1> QED BY <1>2, <1>11, <1>12, <1>13, <1>14, <1>15, <1>16, <1>17, <1>18, NextCases

LEMMA NotedNext ==
  ASSUME TypeOK, RequestsAreSound, OverlapsAreNoted, [Next]_vars
  PROVE  OverlapsAreNoted'
<1>1. CASE task' = task /\ overlap' = overlap
  BY <1>1 DEF OverlapsAreNoted, At
<1>2. ASSUME NEW t \in Tasks, NEW v \in Users, Acts(t, v) PROVE OverlapsAreNoted'
  BY <1>2, TypeFacts, ActsMoves, MovesNoted
<1>3. CASE Next
  BY <1>1, <1>2, <1>3, ActCases, AsideKeeps
<1>4. CASE UNCHANGED vars
  BY <1>1, <1>4 DEF vars, requests
<1> QED BY <1>3, <1>4

CodesAreSound ==
  \A c \in DOMAIN codes : /\ codes[c].user \in registered
                          /\ codes[c].accepted > 0 => codes[c].phone # NoPhone

-----------------------------------------------------------------------------
(* What requests rely on *)

(* What no step takes back. *)
Grows ==
  /\ registered \subseteq registered'
  /\ \A u \in Users : Len(sessions'[u]) >= Len(sessions[u])
  /\ \A i \in DOMAIN otps : i \in DOMAIN otps' /\ otps'[i].user = otps[i].user
  /\ \A c \in DOMAIN codes :
       /\ c \in DOMAIN codes' /\ codes'[c].user = codes[c].user
       /\ codes[c].phone # NoPhone => codes'[c].phone # NoPhone

LEMMA SoundGrows ==
  ASSUME TypeOK, TypeOK', Grows, NEW k \in Requests, Sound(k)
  PROVE  Sound(k)'
<1>1. /\ sessions \in [Users -> Seq(Nat)] /\ sessions' \in [Users -> Seq(Nat)]
  BY TypeFacts DEF TypeOK, CitizensTypeOK
<1>2. k.pc = "end" => /\ k.user \in Users
                      /\ Len(sessions[k.user]) \in Nat /\ Len(sessions'[k.user]) \in Nat
                      /\ Len(sessions'[k.user]) >= Len(sessions[k.user])
  BY <1>1, Kinds DEF Grows
<1>3. k.pc = "end" => (k.row \in 1..Len(sessions[k.user]) => k.row \in 1..Len(sessions'[k.user]))
  BY <1>2
<1> QED BY <1>3 DEF Sound, Grows

(* Only the task of the step may lose what it relied on. *)
LEMMA OthersAreSound ==
  ASSUME TypeOK, TypeOK', RequestsAreSound, Grows, NEW t \in Tasks, NEW v \in Users, Moves(t, v),
         NEW m, m = task'[t], Sound(m)'
  PROVE  RequestsAreSound'
<1>1. \A s \in Tasks \ {t} : task'[s] = task[s]
  BY DEF Moves
<1>2. ASSUME NEW s \in Tasks \ {t} PROVE Sound(task[s])'
  <2>1. PICK k \in Requests : k = task[s]
    BY TypeFacts
  <2>2. Sound(k)
    BY <2>1 DEF RequestsAreSound
  <2>3. Sound(k)'
    BY <2>2, SoundGrows
  <2>4. task'[s] = k
    BY <1>1, <2>1
  <2> QED BY <2>3, <2>4 DEF Sound
<1>3. Sound(task[t])'
  BY DEF Sound
<1> QED BY <1>2, <1>3 DEF RequestsAreSound

LEMMA RestingIsSound == Sound(Resting)
BY DEF Sound, Resting, CallbackSteps, SecureSteps, VerifySteps

LEMMA LevelsTaskSound ==
  ASSUME NEW k \in LevelsTask, k.user \in registered
  PROVE  Sound(k)
<1>1. k.pc \in LevelsSteps
  BY DEF LevelsTask, LevelsSteps
<1> QED BY <1>1 DEF Sound, LevelsSteps, CallbackSteps, SecureSteps, VerifySteps

LEMMA SocialTaskSound ==
  ASSUME NEW k \in AnswerTask \union FollowTask, k.user \in registered
  PROVE  Sound(k)
<1>1. k.pc \in AnswerSteps \union FollowSteps
  BY DEF AnswerTask, FollowTask
<1> QED BY <1>1 DEF Sound, AnswerSteps, FollowSteps, CallbackSteps, SecureSteps, VerifySteps

LEMMA UserIsRegistered ==
  ASSUME TypeOK, RequestsAreSound, NEW t \in Tasks, task[t].pc # "idle",
         task[t].pc \notin CallbackSteps
  PROVE  task[t].user \in registered
BY DEF RequestsAreSound, Sound

LEMMA NothingGrows ==
  ASSUME TypeOK, registered' = registered, sessions' = sessions, UNCHANGED secrets
  PROVE  Grows
<1>1. sessions \in [Users -> Seq(Nat)]
  BY TypeFacts DEF CitizensTypeOK
<1>2. \A u \in Users : Len(sessions[u]) \in Nat
  BY <1>1
<1> QED BY <1>2 DEF Grows, secrets

LEMMA LevelsSound ==
  ASSUME TypeOK, TypeOK', RequestsAreSound, NEW t \in Tasks, NEW v \in Users, LevelsActs(t, v)
  PROVE  Grows /\ RequestsAreSound'
<1>1. Grows /\ Moves(t, v) /\ registered' = registered
  BY NothingGrows DEF LevelsActs, LevelsMove
<1>2. PICK m : m = task'[t]
  OBVIOUS
<1>3. m \in LevelsTask \union {Resting}
  BY <1>2 DEF LevelsActs, LevelsMove
<1>4. ASSUME m \in LevelsTask PROVE m.user \in registered
  <2>1. m.pc # "idle"
    BY <1>4 DEF LevelsTask
  <2>2. m.user = v
    BY <1>1, <1>2, <2>1 DEF Moves
  <2>3. CASE task[t].pc = "idle"
    <3>1. LevelsRequest(t)
      BY <2>3 DEF LevelsActs, LevelsStep, At, IncrementDeposit, GetSignificantTradeCount,
                UpdateTransactionsCount, CalculateScore, UpdateScore, GetNextLevelForScore,
                AttachLevelToUser, HasUserReceivedPrize, AddPrize, RecordReceivedPrize
    <3>2. PICK u \in registered :
            \E pc, op, l, n : Begin(t, pc, op, u, l, n)
      BY <3>1 DEF LevelsRequest
    <3>3. m.user = u
      BY <1>2, <3>2, TypeFacts DEF Begin, Start, Step
    <3> QED BY <3>3
  <2>4. CASE task[t].pc # "idle"
    <3>1. task[t] \in LevelsTask
      BY <2>4, KindsFit DEF LevelsActs, LevelsMove
    <3>2. task[t].pc \notin CallbackSteps
      BY <3>1 DEF LevelsTask, CallbackSteps
    <3>3. task[t].user = v
      BY <1>1, <2>4 DEF Moves
    <3> QED BY <2>2, <2>4, <3>2, <3>3, UserIsRegistered
  <2> QED BY <2>3, <2>4
<1>5. Sound(m)'
  <2>1. Sound(m)
    BY <1>3, <1>4, LevelsTaskSound, RestingIsSound
  <2>2. m \in Requests
    BY <1>3, KindsFit
  <2> QED BY <1>1, <2>1, <2>2, SoundGrows
<1> QED BY <1>1, <1>2, <1>5, OthersAreSound

LEMMA SocialSound ==
  ASSUME TypeOK, TypeOK', RequestsAreSound, NEW t \in Tasks, NEW v \in Users, SocialActs(t, v)
  PROVE  Grows /\ RequestsAreSound'
<1>1. Grows /\ Moves(t, v) /\ registered' = registered
  BY NothingGrows DEF SocialActs, SocialMove, accounts
<1>2. PICK m : m = task'[t]
  OBVIOUS
<1>3. m \in AnswerTask \union FollowTask \union {Resting}
      /\ task[t] \in AnswerTask \union FollowTask \union {Resting}
  BY <1>2 DEF SocialActs, SocialMove
<1>4. ASSUME m \in AnswerTask \union FollowTask PROVE m.user \in registered
  <2>1. m.pc # "idle"
    BY <1>4 DEF AnswerTask, FollowTask, AnswerSteps, FollowSteps
  <2>2. m.user = v
    BY <1>1, <1>2, <2>1 DEF Moves
  <2>3. CASE task[t].pc = "idle"
    <3>1. \/ \E u \in registered, q \in Questions, right \in BOOLEAN : SubmitAnswer(t, u, q, right)
          \/ \E u \in registered, w \in registered : Follow(t, u, w)
      BY <2>3 DEF SocialActs, SocialStep, At, HasUserAnswered, CreateUserAnswer,
                IncrementQuestionParticipants, AddChallengePrize, ExistsFollow, CreateFollow
    <3>2. CASE \E u \in registered, q \in Questions, right \in BOOLEAN : SubmitAnswer(t, u, q, right)
      BY <1>2, <3>2, TypeFacts DEF SubmitAnswer, Start, Step
    <3>3. CASE \E u \in registered, w \in registered : Follow(t, u, w)
      BY <1>2, <3>3, TypeFacts DEF Follow, Start, Step
    <3> QED BY <3>1, <3>2, <3>3
  <2>4. CASE task[t].pc # "idle"
    <3>1. task[t] \in AnswerTask \union FollowTask
      BY <1>3, <2>4, KindsFit
    <3>2. task[t].pc \notin CallbackSteps
      BY <3>1 DEF AnswerTask, FollowTask, AnswerSteps, FollowSteps, CallbackSteps
    <3>3. task[t].user = v
      BY <1>1, <2>4 DEF Moves
    <3> QED BY <2>2, <2>4, <3>2, <3>3, UserIsRegistered
  <2> QED BY <2>3, <2>4
<1>5. Sound(m)'
  <2>1. Sound(m)
    BY <1>3, <1>4, SocialTaskSound, RestingIsSound
  <2>2. m \in Requests
    BY <1>3, KindsFit
  <2> QED BY <1>1, <2>1, <2>2, SoundGrows
<1> QED BY <1>1, <1>2, <1>5, OthersAreSound

LEMMA SessionsGrow ==
  ASSUME TypeOK, RequestsAreSound, NEW t \in Tasks, NEW v \in Users, SessionsActs(t, v)
  PROVE  Grows
<1>1. /\ sessions \in [Users -> Seq(Nat)] /\ registered \subseteq registered'
      /\ UNCHANGED secrets
  BY TypeFacts DEF CitizensTypeOK, SessionsActs, SessionsMove, AccountsTyped
<1>2. \A u \in Users : Len(sessions[u]) \in Nat /\ sessions[u] \in Seq(Nat)
  BY <1>1
<1>3. ASSUME NEW w \in Users, sessions' = [sessions EXCEPT ![w] = Append(@, 0)]
      PROVE  \A u \in Users : Len(sessions'[u]) >= Len(sessions[u])
  <2>1. Len(Append(sessions[w], 0)) = Len(sessions[w]) + 1
    BY <1>2
  <2> QED BY <1>1, <1>2, <1>3, <2>1
<1>4. ASSUME NEW w \in Users, NEW i, NEW n \in Nat, sessions' = [sessions EXCEPT ![w][i] = n]
      PROVE  \A u \in Users : Len(sessions'[u]) >= Len(sessions[u])
  <2>1. Len([sessions[w] EXCEPT ![i] = n]) = Len(sessions[w])
    BY <1>2, SeqUpdateTyped
  <2>2. sessions' = [sessions EXCEPT ![w] = [sessions[w] EXCEPT ![i] = n]]
    BY <1>4
  <2> QED BY <1>1, <1>2, <2>1, <2>2
<1>5. SUFFICES \A u \in Users : Len(sessions'[u]) >= Len(sessions[u])
  BY <1>1 DEF Grows, secrets
<1>6. CASE sessions' = sessions
  BY <1>2, <1>6
<1>7. CASE MakePart(t) \/ OnUserLogin(t)
  <2>1. task[t].user \in Users
    BY <1>7, CallbackTaskAt DEF MakePart, OnUserLogin, At, CallbackSteps
  <2>2. sessions' = sessions \/ sessions' = [sessions EXCEPT ![task[t].user] = Append(@, 0)]
    BY <1>7 DEF MakePart, OnUserLogin, Make
  <2> QED BY <1>3, <1>6, <2>1, <2>2
<1>8. CASE UpdateActivity(t)
  <2>1. PICK w \in Users : w = task[t].user
    BY <1>8, LogoutTaskAt DEF UpdateActivity, At, LogoutSteps
  <2>2. PICK i : i = task[t].row
    OBVIOUS
  <2>3. i \in 1..Len(sessions[w])
    BY <1>8, <2>1, <2>2 DEF UpdateActivity, At, RequestsAreSound, Sound
  <2>4. PICK n \in sessions[w][i]..MaxSession : sessions' = [sessions EXCEPT ![w][i] = n]
    BY <1>8, <2>1, <2>2 DEF UpdateActivity
  <2>5. n \in Nat
    <3>1. sessions[w][i] \in Nat /\ MaxSession \in Nat
      BY <1>2, <2>3, SessionsAssumption
    <3> QED BY <3>1
  <2> QED BY <1>4, <2>4, <2>5
<1>9. CASE ~ (MakePart(t) \/ OnUserLogin(t) \/ UpdateActivity(t))
  <2>1. sessions' = sessions
    BY <1>9 DEF SessionsActs, SessionsStep, accounts, Callback, FindUser, CreateUser, UpdateUser,
          Logout, GetLatestActivity, GetTotalActivityMinutes, GetUserLog, WriteHours, WriteScore,
          UpdateUserLog, WriteUser
  <2> QED BY <1>6, <2>1
<1> QED BY <1>7, <1>8, <1>9

LEMMA SessionsSound ==
  ASSUME TypeOK, TypeOK', RequestsAreSound, NEW t \in Tasks, NEW v \in Users, SessionsActs(t, v)
  PROVE  Grows /\ RequestsAreSound'
<1>0. task \in [Tasks -> Requests] /\ registered \subseteq Users
      /\ sessions \in [Users -> Seq(Nat)]
  BY TypeFacts DEF CitizensTypeOK
<1>1. Grows /\ Moves(t, v) /\ registered \subseteq registered'
  BY SessionsGrow DEF SessionsActs, SessionsMove, AccountsTyped
<1>2. PICK m : m = task'[t]
  OBVIOUS
<1>3. \/ task[t] \in CallbackTask \union {Resting} /\ m \in CallbackTask \union {Resting}
      \/ task[t] \in LogoutTask \union {Resting} /\ m \in LogoutTask \union {Resting}
  BY <1>2 DEF SessionsActs, SessionsMove
<1>4. SUFFICES Sound(m)'
  BY <1>1, <1>2, OthersAreSound
<1>5. CASE m = Resting
  BY <1>5 DEF Sound, Resting, CallbackSteps, SecureSteps, VerifySteps
<1>6. CASE m \in CallbackTask
  <2>1. SUFFICES (m.pc \in {"find", "create"} => m.part = 1) /\ (m.pc = "make" => m.user \in registered')
    <3>1. m.pc \in CallbackSteps
      BY <1>6 DEF CallbackTask
    <3> QED BY <2>1, <3>1 DEF Sound, CallbackSteps, SecureSteps, VerifySteps
  <2>2. m.pc # "idle"
    BY <1>6 DEF CallbackTask, CallbackSteps
  <2>3. CASE task[t].pc = "idle"
    <3>1. \/ \E u \in Users, p \in Phones : Callback(t, u, p)
          \/ \E u \in registered : Logout(t, u)
      BY <2>3 DEF SessionsActs, SessionsStep, At, FindUser, CreateUser, MakePart, UpdateUser,
           OnUserLogin, GetLatestActivity, UpdateActivity, GetTotalActivityMinutes, GetUserLog,
           WriteHours, WriteScore, WriteUser
    <3>2. CASE \E u \in Users, p \in Phones : Callback(t, u, p)
      BY <1>0, <1>2, <3>2 DEF Callback, Start, Step
    <3>3. CASE \E u \in registered : Logout(t, u)
      BY <1>0, <1>2, <3>3 DEF Logout, Start, Step
    <3> QED BY <3>1, <3>2, <3>3
  <2>4. CASE task[t].pc # "idle"
    <3>1. PICK k : k = task[t]
      OBVIOUS
    <3>2. k \in CallbackTask
      <4>1. m.pc \in CallbackSteps
        BY <1>6 DEF CallbackTask
      <4>2. m \notin LogoutTask \union {Resting}
        BY <4>1 DEF LogoutTask, LogoutSteps, CallbackSteps, Resting
      <4> QED BY <1>3, <2>4, <3>1, <4>2 DEF Resting
    <3>3. k.pc \in CallbackSteps /\ (k.pc \in {"find", "create"} => k.part = 1)
          /\ (k.pc = "make" => k.user \in registered)
      BY <3>1, <3>2 DEF CallbackTask, RequestsAreSound, Sound
    <3>4. FindUser(t) \/ CreateUser(t) \/ MakePart(t) \/ UpdateUser(t) \/ OnUserLogin(t)
      BY <2>4, <3>1, <3>3 DEF SessionsActs, SessionsStep, At, CallbackSteps, Callback, Logout, Start,
           GetLatestActivity, UpdateActivity, GetTotalActivityMinutes, GetUserLog,
           WriteHours, WriteScore, WriteUser
    <3>5. ASSUME NEW q, Step(t, q) PROVE m = q
      BY <1>0, <1>2, <3>5 DEF Step
    <3>6. ASSUME NEW pc, Goto(t, pc) PROVE m = [k EXCEPT !.pc = pc]
      BY <1>0, <1>2, <3>1, <3>6 DEF Goto, Step
    <3>7. ~ Return(t)
      BY <2>2, <3>5 DEF Return
    <3>8. CASE FindUser(t)
      BY <3>1, <3>2, <3>3, <3>6, <3>8 DEF FindUser, At, CallbackTask
    <3>9. CASE CreateUser(t)
      <4>1. Goto(t, "make") /\ registered' = registered \union {k.user}
        BY <3>1, <3>7, <3>9 DEF CreateUser
      <4> QED BY <3>2, <3>6, <4>1 DEF CallbackTask
    <3>10. CASE MakePart(t)
      <4>1. k.pc = "make"
        BY <3>1, <3>10 DEF MakePart, At
      <4>2. PICK j : Continue(t, j)
        BY <3>10 DEF MakePart
      <4>3. m = [k EXCEPT !.part = j]
        BY <3>1, <3>5, <3>7, <4>2 DEF Continue
      <4>4. m.pc = "make" /\ m.user = k.user
        BY <3>2, <4>1, <4>3 DEF CallbackTask
      <4> QED BY <1>1, <3>3, <4>1, <4>4
    <3>11. CASE UpdateUser(t)
      BY <3>2, <3>6, <3>11 DEF UpdateUser, CallbackTask
    <3>12. CASE OnUserLogin(t)
      BY <3>7, <3>12 DEF OnUserLogin
    <3> QED BY <3>4, <3>8, <3>9, <3>10, <3>11, <3>12
  <2> QED BY <2>3, <2>4
<1>7. CASE m \in LogoutTask
  <2>1. SUFFICES /\ m.user \in registered'
                 /\ m.pc = "end" => m.row \in 1..Len(sessions'[m.user])
    <3>1. m.pc \in LogoutSteps
      BY <1>7 DEF LogoutTask
    <3> QED BY <2>1, <3>1 DEF Sound, LogoutSteps, CallbackSteps, SecureSteps, VerifySteps
  <2>2. m.pc # "idle"
    BY <1>7 DEF LogoutTask, LogoutSteps
  <2>3. CASE task[t].pc = "idle"
    <3>1. \/ \E u \in Users, p \in Phones : Callback(t, u, p)
          \/ \E u \in registered : Logout(t, u)
      BY <2>3 DEF SessionsActs, SessionsStep, At, FindUser, CreateUser, MakePart, UpdateUser,
           OnUserLogin, GetLatestActivity, UpdateActivity, GetTotalActivityMinutes, GetUserLog,
           WriteHours, WriteScore, WriteUser
    <3>2. CASE \E u \in Users, p \in Phones : Callback(t, u, p)
      <4>1. m.op = "callback"
        BY <1>0, <1>2, <3>2 DEF Callback, Start, Step
      <4> QED BY <1>7, <4>1 DEF LogoutTask
    <3>3. CASE \E u \in registered : Logout(t, u)
      BY <1>0, <1>1, <1>2, <3>3 DEF Logout, Start, Step
    <3> QED BY <3>1, <3>2, <3>3
  <2>4. CASE task[t].pc # "idle"
    <3>1. PICK k : k = task[t]
      OBVIOUS
    <3>2. k \in LogoutTask
      <4>1. m.pc \in LogoutSteps
        BY <1>7 DEF LogoutTask
      <4>2. m \notin CallbackTask \union {Resting}
        BY <4>1 DEF CallbackTask, LogoutSteps, CallbackSteps, Resting
      <4> QED BY <1>3, <2>4, <3>1, <4>2 DEF Resting
    <3>3. k.pc \in LogoutSteps /\ k.user \in registered /\ k.user = v /\ m.user = v
      <4>1. k.pc \in LogoutSteps
        BY <3>2 DEF LogoutTask
      <4> QED BY <1>1, <1>2, <2>2, <2>4, <3>1, <4>1, UserIsRegistered
              DEF LogoutSteps, CallbackSteps, Moves
    <3>4. SUFFICES ASSUME m.pc = "end" PROVE m.row \in 1..Len(sessions'[m.user])
      BY <1>1, <3>3
    <3>5. ASSUME NEW q, Step(t, q) PROVE m = q
      BY <1>0, <1>2, <3>5 DEF Step
    <3>6. ASSUME NEW pc, Goto(t, pc) PROVE m.pc = pc
      BY <1>0, <1>2, <3>1, <3>2, <3>6 DEF Goto, Step, LogoutTask
    <3>7. ~ Return(t)
      BY <2>2, <3>5 DEF Return
    <3>8. GetLatestActivity(t)
      <4>1. \/ GetLatestActivity(t) \/ UpdateActivity(t) \/ GetTotalActivityMinutes(t)
            \/ GetUserLog(t) \/ WriteHours(t) \/ WriteScore(t) \/ WriteUser(t)
        BY <3>1, <3>3 DEF SessionsActs, SessionsStep, At, LogoutSteps, Callback, Logout, Start,
           FindUser, CreateUser, MakePart, UpdateUser, OnUserLogin
      <4>2. ~ UpdateActivity(t) /\ ~ WriteHours(t) /\ ~ WriteScore(t) /\ ~ WriteUser(t)
        BY <3>4, <3>6, <3>7 DEF UpdateActivity, WriteHours, WriteScore, WriteUser
      <4>3. ~ GetTotalActivityMinutes(t)
        <5>1. ASSUME GetTotalActivityMinutes(t) PROVE FALSE
          <6>1. m = [k EXCEPT !.pc = "read", !.hours = TotalTime(k.user)]
            BY <3>1, <3>5, <5>1 DEF GetTotalActivityMinutes
          <6> QED BY <3>2, <3>4, <6>1 DEF LogoutTask
        <5> QED BY <5>1
      <4>4. ~ GetUserLog(t)
        <5>1. ASSUME GetUserLog(t) PROVE FALSE
          <6>1. m = [k EXCEPT !.pc = IF k.pc = "read" THEN "writeHours" ELSE "writeScore",
                              !.log = log[k.user]]
            BY <3>1, <3>5, <3>7, <5>1 DEF GetUserLog
          <6> QED BY <3>2, <3>4, <6>1 DEF LogoutTask
        <5> QED BY <5>1
      <4> QED BY <4>1, <4>2, <4>3, <4>4
    <3>9. PICK n \in Nat : n = Len(sessions[k.user])
      BY <1>0, <3>3
    <3>10. m = [k EXCEPT !.row = n, !.pc = IF n = 0 THEN "hours" ELSE "end"]
      BY <3>1, <3>5, <3>8, <3>9 DEF GetLatestActivity
    <3>11. n # 0 /\ m.row = n
      BY <3>2, <3>4, <3>9, <3>10 DEF LogoutTask
    <3>12. sessions' = sessions
      BY <3>8 DEF GetLatestActivity, accounts
    <3> QED BY <3>3, <3>9, <3>11, <3>12
  <2> QED BY <2>3, <2>4
<1> QED BY <1>3, <1>5, <1>6, <1>7

LEMMA SecurityGrow ==
  ASSUME TypeOK, RequestsAreSound, NEW t \in Tasks, NEW v \in Users, SecurityActs(t, v)
  PROVE  Grows
<1>0. /\ otps \in Seq(Otp) /\ codes \in Seq(Code) /\ sessions \in [Users -> Seq(Nat)]
      /\ sessions' = sessions /\ registered' = registered
  BY TypeFacts DEF SecurityTypeOK, CitizensTypeOK, SecurityActs, SecurityMove
<1>1. \A u \in Users : Len(sessions'[u]) >= Len(sessions[u])
  <2>1. \A u \in Users : Len(sessions[u]) \in Nat
    BY <1>0
  <2> QED BY <1>0, <2>1
<1>2. PICK k : k = task[t]
  OBVIOUS
<1>3. SUFFICES /\ \A i \in DOMAIN otps : i \in DOMAIN otps' /\ otps'[i].user = otps[i].user
               /\ \A c \in DOMAIN codes :
                    /\ c \in DOMAIN codes' /\ codes'[c].user = codes[c].user
                    /\ codes[c].phone # NoPhone => codes'[c].phone # NoPhone
  BY <1>0, <1>1 DEF Grows
<1>4. CASE StoreOtp(t)
  <2>1. PICK n, c : /\ n = [user |-> k.user, phone |-> NoPhone, accepted |-> 0]
                    /\ c = Len(codes) + 1
    OBVIOUS
  <2>2. codes' = Append(codes, n)
    BY <1>2, <1>4, <2>1 DEF StoreOtp
  <2>3. \A d \in DOMAIN codes : d \in DOMAIN codes' /\ codes'[d] = codes[d]
    BY <1>0, <2>2
  <2>4. CASE k.otp = 0
    <3>1. PICK r : otps' = Append(otps, r)
      BY <1>2, <1>4, <2>4 DEF StoreOtp
    <3>2. \A i \in DOMAIN otps : i \in DOMAIN otps' /\ otps'[i] = otps[i]
      BY <1>0, <3>1
    <3> QED BY <2>3, <3>2
  <2>5. CASE k.otp # 0
    <3>1. otps' = [otps EXCEPT ![k.otp] = [otps[k.otp] EXCEPT !.code = c]]
      BY <1>2, <1>4, <2>1, <2>5 DEF StoreOtp
    <3>2. \A i \in DOMAIN otps : otps[i] \in Otp
      BY <1>0
    <3>3. \A i \in DOMAIN otps : i \in DOMAIN otps' /\ otps'[i].user = otps[i].user
      BY <3>1, <3>2 DEF Otp
    <3> QED BY <2>3, <3>3
  <2> QED BY <2>4, <2>5
<1>5. \A c \in DOMAIN codes : codes[c] \in Code
  BY <1>0
<1>6. CASE SendOTP(t)
  <2>1. k.phone # NoPhone
    BY <1>2, <1>6 DEF SendOTP, At, RequestsAreSound, Sound
  <2>2. codes' = [codes EXCEPT ![k.otp] = [codes[k.otp] EXCEPT !.phone = k.phone]] /\ otps' = otps
    BY <1>2, <1>6 DEF SendOTP
  <2> QED BY <1>5, <2>1, <2>2 DEF Code
<1>7. CASE CompareCode(t)
  <2>1. /\ codes' = codes \/ codes' = [codes EXCEPT ![k.code] =
                                        [codes[k.code] EXCEPT !.accepted = codes[k.code].accepted + 1]]
        /\ otps' = otps
    BY <1>2, <1>7 DEF CompareCode
  <2> QED BY <1>5, <2>1 DEF Code
<1>8. CASE DeleteOtp(t)
  <2>1. otps' = [otps EXCEPT ![k.otp] = [otps[k.otp] EXCEPT !.live = FALSE]] /\ codes' = codes
    BY <1>2, <1>8 DEF DeleteOtp
  <2>2. \A i \in DOMAIN otps : otps[i] \in Otp
    BY <1>0
  <2>3. \A i \in DOMAIN otps : i \in DOMAIN otps' /\ otps'[i].user = otps[i].user
    BY <2>1, <2>2 DEF Otp
  <2> QED BY <2>1, <2>3
<1>9. CASE ~ (StoreOtp(t) \/ SendOTP(t) \/ CompareCode(t) \/ DeleteOtp(t))
  <2>1. otps' = otps /\ codes' = codes
    BY <1>9 DEF SecurityActs, SecurityStep, secrets, RequestAccountSecurity, GetByUserID, LockAccount,
         CheckPhone, UpdatePhone, GetOtp, VerifyAccountSecurity, CheckLocked, MarkPhoneAsVerified, Unlock
  <2> QED BY <2>1
<1> QED BY <1>4, <1>6, <1>7, <1>8, <1>9

LEMMA VerifyTaskSound ==
  ASSUME NEW k \in VerifyTask, k.user \in registered, k.code \in DOMAIN codes,
         codes[k.code].user = k.user, codes[k.code].phone # NoPhone,
         k.pc \in {"mark", "unlock", "delete"} =>
           k.otp \in DOMAIN otps /\ otps[k.otp].user = k.user
  PROVE  Sound(k)
<1>1. k.pc \in VerifySteps
  BY DEF VerifyTask
<1> QED BY <1>1 DEF Sound, CallbackSteps, SecureSteps, VerifySteps

LEMMA SecureSound ==
  ASSUME TypeOK, TypeOK', RequestsAreSound, NEW t \in Tasks, NEW v \in Users, SecurityActs(t, v),
         NEW m \in SecureTask, m = task'[t]
  PROVE  Sound(m)'
<1>0. /\ task \in [Tasks -> Requests] /\ registered \subseteq Users /\ registered' = registered
      /\ otps \in Seq(Otp) /\ codes \in Seq(Code) /\ Moves(t, v)
  BY TypeFacts DEF CitizensTypeOK, SecurityTypeOK, SecurityActs, SecurityMove
<1>1. SUFFICES
        /\ m.user \in registered /\ (m.known => m.phone # NoPhone)
        /\ m.pc = "save" => m.given # NoPhone
        /\ m.pc \in {"otp", "store", "send"} => m.phone # NoPhone
        /\ m.pc = "store" => m.otp = 0 \/ (m.otp \in DOMAIN otps' /\ otps'[m.otp].user = m.user)
        /\ m.pc = "send" => m.otp \in DOMAIN codes' /\ codes'[m.otp].user = m.user
  <2>1. m.pc \in SecureSteps
    BY DEF SecureTask
  <2> QED BY <1>0, <1>1, <2>1 DEF Sound, CallbackSteps, SecureSteps, VerifySteps
<1>2. m.pc \in SecureSteps /\ m.pc # "idle"
  BY DEF SecureTask, SecureSteps
<1>3. CASE task[t].pc = "idle"
  <2>1. \/ \E u \in registered, p \in Phones \union {NoPhone} : RequestAccountSecurity(t, u, p)
        \/ \E c \in DOMAIN codes : VerifyAccountSecurity(t, c)
    BY <1>3 DEF SecurityActs, SecurityStep, At, GetByUserID, LockAccount, CheckPhone, UpdatePhone,
         GetOtp, StoreOtp, SendOTP, CheckLocked, CompareCode, MarkPhoneAsVerified, Unlock, DeleteOtp
  <2>2. CASE \E u \in registered, p \in Phones \union {NoPhone} : RequestAccountSecurity(t, u, p)
    <3>1. PICK u \in registered, p \in Phones \union {NoPhone} : RequestAccountSecurity(t, u, p)
      BY <2>2
    <3>2. m = [pc |-> "account", op |-> "secure", user |-> u, given |-> p, phone |-> phone[u],
               known |-> verified[u] /\ phone[u] # NoPhone, row |-> 0, otp |-> 0]
      BY <1>0, <3>1 DEF RequestAccountSecurity, Start, Step
    <3>3. verified[u] \in BOOLEAN
      BY <1>0, TypeFacts DEF CitizensTypeOK
    <3>4. PICK b \in BOOLEAN : b = (verified[u] /\ phone[u] # NoPhone)
      BY <3>3
    <3>5. m = [pc |-> "account", op |-> "secure", user |-> u, given |-> p, phone |-> phone[u],
               known |-> b, row |-> 0, otp |-> 0]
      BY <3>2, <3>4
    <3>6. m.user = u /\ m.known = b /\ m.phone = phone[u] /\ m.pc = "account"
      BY <3>5
    <3>7. b => phone[u] # NoPhone
      BY <3>4
    <3> QED BY <3>6, <3>7
  <2>3. CASE \E c \in DOMAIN codes : VerifyAccountSecurity(t, c)
    <3>1. m.op = "verify"
      BY <1>0, <2>3 DEF VerifyAccountSecurity, Start, Step
    <3> QED BY <3>1 DEF SecureTask
  <2> QED BY <2>1, <2>2, <2>3
<1>4. CASE task[t].pc # "idle"
  <2>1. PICK k : k = task[t]
    OBVIOUS
  <2>2. k \in SecureTask
    <3>1. m \notin VerifyTask \union {Resting}
      BY <1>2 DEF VerifyTask, VerifySteps, SecureSteps, Resting
    <3> QED BY <1>4, <2>1, <3>1 DEF SecurityActs, SecurityMove, Resting
  <2>3. /\ k.pc \in SecureSteps /\ k.user \in Users
        /\ k.user \in registered /\ m.user = k.user /\ (k.known => k.phone # NoPhone)
        /\ k.pc = "save" => k.given # NoPhone
        /\ k.pc \in {"otp", "store", "send"} => k.phone # NoPhone
    <3>1. k.pc \in SecureSteps /\ k.user \in Users
      BY <2>2 DEF SecureTask
    <3>2. m.user = k.user
      BY <1>0, <1>2, <1>4, <2>1 DEF Moves
    <3>3. Sound(k)
      BY <2>1 DEF RequestsAreSound
    <3> QED BY <3>1, <3>2, <3>3 DEF Sound, SecureSteps, CallbackSteps
  <2>4. \/ GetByUserID(t) \/ LockAccount(t) \/ CheckPhone(t) \/ UpdatePhone(t) \/ GetOtp(t)
        \/ StoreOtp(t) \/ SendOTP(t)
    BY <1>4, <2>1, <2>3 DEF SecurityActs, SecurityStep, At, SecureSteps, RequestAccountSecurity,
         VerifyAccountSecurity, Start, CheckLocked, CompareCode, MarkPhoneAsVerified, Unlock, DeleteOtp
  <2>5. ASSUME NEW q, Step(t, q) PROVE m = q
    BY <1>0, <2>5 DEF Step
  <2>6. ~ Return(t)
    BY <1>2, <2>5 DEF Return
  <2> USE <2>1
  <2>7. CASE GetByUserID(t)
    <3>1. m = [k EXCEPT !.pc = "lock", !.row = IF security[k.user] = <<>> THEN 0 ELSE 1]
      BY <2>5, <2>7 DEF GetByUserID
    <3> QED BY <2>2, <2>3, <3>1 DEF SecureTask
  <2>8. CASE LockAccount(t)
    <3>1. m = [k EXCEPT !.pc = IF k.known THEN "otp" ELSE "phone",
                        !.row = IF @ = 0 THEN Len(security'[k.user]) ELSE @]
      BY <2>5, <2>8 DEF LockAccount
    <3> QED BY <2>2, <2>3, <3>1 DEF SecureTask
  <2>9. CASE CheckPhone(t)
    <3>1. m = [k EXCEPT !.pc = "save"] /\ k.given # NoPhone
      BY <2>5, <2>6, <2>9 DEF CheckPhone, Goto
    <3> QED BY <2>2, <2>3, <3>1 DEF SecureTask
  <2>10. CASE UpdatePhone(t)
    <3>1. m = [k EXCEPT !.pc = "otp", !.phone = k.given] /\ k.pc = "save"
      BY <2>5, <2>10 DEF UpdatePhone, At
    <3> QED BY <2>2, <2>3, <3>1 DEF SecureTask
  <2>11. CASE GetOtp(t)
    <3>1. PICK i : i = FirstOtp(k.user, k.row)
      OBVIOUS
    <3>2. m = [k EXCEPT !.pc = "store", !.otp = i] /\ k.pc = "otp" /\ otps' = otps
      BY <2>5, <2>11, <3>1 DEF GetOtp, At, secrets
    <3>3. i = 0 \/ (i \in DOMAIN otps /\ otps[i].user = k.user)
      BY <1>0, <3>1, FirstOtpTyped
    <3> QED BY <2>2, <2>3, <3>2, <3>3 DEF SecureTask
  <2>12. CASE StoreOtp(t)
    <3>1. PICK n, c : /\ n = [user |-> k.user, phone |-> NoPhone, accepted |-> 0]
                      /\ c = Len(codes) + 1
      OBVIOUS
    <3>2. codes' = Append(codes, n) /\ m = [k EXCEPT !.pc = "send", !.otp = c] /\ k.pc = "store"
      BY <2>5, <2>12, <3>1 DEF StoreOtp, At
    <3>3. c \in DOMAIN codes' /\ codes'[c] = n
      BY <1>0, <3>1, <3>2
    <3> QED BY <2>2, <2>3, <3>1, <3>2, <3>3 DEF SecureTask
  <2>13. CASE SendOTP(t)
    BY <2>6, <2>13 DEF SendOTP
  <2> QED BY <2>4, <2>7, <2>8, <2>9, <2>10, <2>11, <2>12, <2>13
<1> QED BY <1>3, <1>4

LEMMA VerifySound ==
  ASSUME TypeOK, TypeOK', RequestsAreSound, CodesAreSound,
         NEW t \in Tasks, NEW v \in Users, SecurityActs(t, v),
         NEW m \in VerifyTask, m = task'[t]
  PROVE  Sound(m)'
<1>0. /\ task \in [Tasks -> Requests] /\ registered \subseteq Users /\ registered' = registered
      /\ otps \in Seq(Otp) /\ codes \in Seq(Code) /\ Moves(t, v)
  BY TypeFacts DEF CitizensTypeOK, SecurityTypeOK, SecurityActs, SecurityMove
<1>1. Grows
  BY SecurityGrow
<1>2. m.pc \in VerifySteps /\ m.pc # "idle"
  BY DEF VerifyTask, VerifySteps
<1>3. SUFFICES /\ m.user \in registered
               /\ m.code \in DOMAIN codes /\ codes[m.code].user = m.user
               /\ codes[m.code].phone # NoPhone
               /\ m.pc \in {"mark", "unlock", "delete"} =>
                    m.otp \in DOMAIN otps /\ otps[m.otp].user = m.user
  <2>1. Sound(m)
    BY <1>3, VerifyTaskSound
  <2> QED BY <1>1, <2>1, KindsFit, SoundGrows
<1>4. CASE task[t].pc = "idle"
  <2>1. \/ \E u \in registered, p \in Phones \union {NoPhone} : RequestAccountSecurity(t, u, p)
        \/ \E c \in DOMAIN codes : VerifyAccountSecurity(t, c)
    BY <1>4 DEF SecurityActs, SecurityStep, At, GetByUserID, LockAccount, CheckPhone, UpdatePhone,
         GetOtp, StoreOtp, SendOTP, CheckLocked, CompareCode, MarkPhoneAsVerified, Unlock, DeleteOtp
  <2>2. CASE \E u \in registered, p \in Phones \union {NoPhone} : RequestAccountSecurity(t, u, p)
    <3>1. m.op = "secure"
      BY <1>0, <2>2 DEF RequestAccountSecurity, Start, Step
    <3> QED BY <3>1 DEF VerifyTask
  <2>3. CASE \E c \in DOMAIN codes : VerifyAccountSecurity(t, c)
    <3>1. PICK c \in DOMAIN codes : VerifyAccountSecurity(t, c)
      BY <2>3
    <3>2. m = [pc |-> "unlocked", op |-> "verify", user |-> codes[c].user, code |-> c,
               known |-> verified[codes[c].user], row |-> 0, otp |-> 0]
      BY <1>0, <3>1 DEF VerifyAccountSecurity, Start, Step
    <3>3. codes[c].phone # NoPhone /\ codes[c].user \in registered
      BY <3>1 DEF VerifyAccountSecurity, CodesAreSound
    <3> QED BY <3>2, <3>3
  <2> QED BY <2>1, <2>2, <2>3
<1>5. CASE task[t].pc # "idle"
  <2>1. PICK k : k = task[t]
    OBVIOUS
  <2>2. k \in VerifyTask
    <3>1. m \notin SecureTask \union {Resting}
      BY <1>2 DEF SecureTask, VerifySteps, SecureSteps, Resting
    <3> QED BY <1>5, <2>1, <3>1 DEF SecurityActs, SecurityMove, Resting
  <2>3. /\ k.pc \in VerifySteps /\ k.user \in Users
        /\ k.user \in registered /\ m.user = k.user
        /\ k.code \in DOMAIN codes /\ codes[k.code].user = k.user /\ codes[k.code].phone # NoPhone
        /\ k.pc \in {"mark", "unlock", "delete"} =>
             k.otp \in DOMAIN otps /\ otps[k.otp].user = k.user
    <3>1. k.pc \in VerifySteps /\ k.user \in Users
      BY <2>2 DEF VerifyTask
    <3>2. m.user = k.user
      BY <1>0, <1>2, <1>5, <2>1 DEF Moves
    <3>3. Sound(k)
      BY <2>1 DEF RequestsAreSound
    <3> QED BY <3>1, <3>2, <3>3 DEF Sound, VerifySteps, CallbackSteps
  <2>4. CheckLocked(t) \/ CompareCode(t) \/ MarkPhoneAsVerified(t) \/ Unlock(t) \/ DeleteOtp(t)
    BY <1>5, <2>1, <2>3 DEF SecurityActs, SecurityStep, At, VerifySteps, RequestAccountSecurity,
         VerifyAccountSecurity, Start, GetByUserID, LockAccount, CheckPhone, UpdatePhone, GetOtp,
         StoreOtp, SendOTP
  <2>5. ASSUME NEW q, Step(t, q) PROVE m = q
    BY <1>0, <2>5 DEF Step
  <2>6. ~ Return(t)
    BY <1>2, <2>5 DEF Return
  <2> USE <2>1
  <2>7. CASE CheckLocked(t)
    <3>1. m = [k EXCEPT !.pc = "compare", !.row = 1]
      BY <2>5, <2>6, <2>7 DEF CheckLocked
    <3> QED BY <2>2, <2>3, <3>1 DEF VerifyTask
  <2>8. CASE CompareCode(t)
    <3>1. PICK i : i = FirstOtp(k.user, k.row)
      OBVIOUS
    <3>2. i # 0 /\ m = [k EXCEPT !.pc = IF k.known THEN "unlock" ELSE "mark", !.otp = i]
      BY <2>5, <2>6, <2>8, <3>1 DEF CompareCode
    <3>3. i \in DOMAIN otps /\ otps[i].user = k.user
      BY <1>0, <3>1, <3>2, FirstOtpTyped
    <3> QED BY <2>2, <2>3, <3>2, <3>3 DEF VerifyTask
  <2>9. CASE MarkPhoneAsVerified(t)
    <3>1. m = [k EXCEPT !.pc = "unlock"] /\ k.pc = "mark"
      BY <2>5, <2>9 DEF MarkPhoneAsVerified, Goto, At
    <3> QED BY <2>2, <2>3, <3>1 DEF VerifyTask
  <2>10. CASE Unlock(t)
    <3>1. m = [k EXCEPT !.pc = "delete"] /\ k.pc = "unlock"
      BY <2>5, <2>10 DEF Unlock, Goto, At
    <3> QED BY <2>2, <2>3, <3>1 DEF VerifyTask
  <2>11. CASE DeleteOtp(t)
    BY <2>6, <2>11 DEF DeleteOtp
  <2> QED BY <2>4, <2>7, <2>8, <2>9, <2>10, <2>11
<1> QED BY <1>4, <1>5

LEMMA SecuritySound ==
  ASSUME TypeOK, TypeOK', RequestsAreSound, CodesAreSound,
         NEW t \in Tasks, NEW v \in Users, SecurityActs(t, v)
  PROVE  Grows /\ RequestsAreSound'
<1>1. PICK m : m = task'[t]
  OBVIOUS
<1>2. m \in SecureTask \union VerifyTask \union {Resting} /\ Moves(t, v)
  BY <1>1 DEF SecurityActs, SecurityMove
<1>3. Sound(m)'
  <2>1. CASE m = Resting
    BY <2>1 DEF Sound, Resting, CallbackSteps, SecureSteps, VerifySteps
  <2> QED BY <1>1, <1>2, <2>1, SecureSound, VerifySound
<1> QED BY <1>1, <1>2, <1>3, SecurityGrow, OthersAreSound

LEMMA SoundNext ==
  ASSUME TypeOK, TypeOK', RequestsAreSound, CodesAreSound, [Next]_vars
  PROVE  Grows /\ RequestsAreSound'
<1>1. ASSUME task' = task, Grows PROVE RequestsAreSound'
  <2>1. ASSUME NEW s \in Tasks PROVE Sound(task[s])'
    <3>1. PICK k \in Requests : k = task[s]
      BY TypeFacts
    <3>2. Sound(k)
      BY <3>1 DEF RequestsAreSound
    <3>3. Sound(k)'
      BY <1>1, <3>2, SoundGrows
    <3> QED BY <1>1, <3>1, <3>3 DEF Sound
  <2> QED BY <2>1 DEF RequestsAreSound
<1>2. CASE UNCHANGED vars
  <2>1. task' = task /\ registered' = registered /\ sessions' = sessions /\ UNCHANGED secrets
    BY <1>2 DEF vars, requests, accounts
  <2> QED BY <1>1, <2>1, NothingGrows
<1>3. ASSUME NEW t \in Tasks, NEW v \in Users, FailsFor(t, v) PROVE Grows /\ RequestsAreSound'
  <2>1. registered' = registered /\ sessions' = sessions /\ UNCHANGED secrets /\ Moves(t, v)
    BY <1>3 DEF FailsFor, accounts
  <2>2. PICK m : m = task'[t] /\ m = Resting
    BY <1>3 DEF FailsFor
  <2>3. Sound(m)'
    BY <2>2 DEF Sound, Resting, CallbackSteps, SecureSteps, VerifySteps
  <2> QED BY <2>1, <2>2, <2>3, NothingGrows, OthersAreSound
<1>4. ASSUME NEW u \in registered, NEW w \in registered, AsideActs(u, w)
      PROVE  Grows /\ RequestsAreSound'
  <2>1. task' = task /\ registered' = registered /\ UNCHANGED secrets
    BY <1>4, AsideKeeps DEF secrets
  <2>2. u \in Users /\ sessions \in [Users -> Seq(Nat)]
    BY TypeFacts DEF CitizensTypeOK
  <2>3. sessions' = sessions \/ sessions' = [sessions EXCEPT ![u] = Append(@, 0)]
    BY <1>4 DEF AsideActs, TradeActs, LogActs, UnfollowActs, Trade, LogActivity, Unfollow, accounts
  <2>4. \A x \in Users : /\ Len(sessions[x]) \in Nat
                         /\ Len(Append(sessions[x], 0)) = Len(sessions[x]) + 1
    BY <2>2
  <2>5. ASSUME NEW x \in Users PROVE Len(sessions'[x]) >= Len(sessions[x])
    <3>1. sessions'[x] = sessions[x] \/ sessions'[x] = Append(sessions[x], 0)
      BY <2>2, <2>3
    <3> QED BY <2>4, <3>1
  <2>6. Grows
    BY <2>1, <2>5 DEF Grows, secrets
  <2> QED BY <1>1, <2>1, <2>6
<1> QED BY <1>2, <1>3, <1>4, ActCases, LevelsSound, SessionsSound, SecuritySound, SocialSound DEF Acts

LEMMA CodesSoundNext ==
  ASSUME TypeOK, TypeOK', RequestsAreSound, CodesAreSound, Grows, [Next]_vars
  PROVE  CodesAreSound'
<1>0. codes \in Seq(Code) /\ \A c \in DOMAIN codes : codes[c] \in Code
  BY TypeFacts DEF SecurityTypeOK
<1>1. CASE codes' = codes
  BY <1>1 DEF CodesAreSound, Grows
<1>2. ASSUME NEW t \in Tasks, NEW v \in Users, SecurityActs(t, v), codes' # codes
      PROVE  CodesAreSound'
  <2>1. PICK k : k = task[t]
    OBVIOUS
  <2>2. Sound(k)
    BY <2>1 DEF RequestsAreSound
  <2>3. StoreOtp(t) \/ SendOTP(t) \/ CompareCode(t)
    <3>1. SecurityStep(t)
      BY <1>2 DEF SecurityActs
    <3>2. ASSUME NEW u, NEW p, RequestAccountSecurity(t, u, p) PROVE codes' = codes
      BY <3>2 DEF RequestAccountSecurity, secrets
    <3>3. ASSUME NEW c, VerifyAccountSecurity(t, c) PROVE codes' = codes
      BY <3>3 DEF VerifyAccountSecurity, secrets
    <3>4. ASSUME GetByUserID(t) \/ LockAccount(t) \/ CheckPhone(t) \/ UpdatePhone(t) \/ GetOtp(t)
          PROVE  codes' = codes
      BY <3>4 DEF GetByUserID, LockAccount, CheckPhone, UpdatePhone, GetOtp, secrets
    <3>5. ASSUME CheckLocked(t) \/ MarkPhoneAsVerified(t) \/ Unlock(t) \/ DeleteOtp(t)
          PROVE  codes' = codes
      BY <3>5 DEF CheckLocked, MarkPhoneAsVerified, Unlock, DeleteOtp, secrets
    <3> QED BY <1>2, <3>1, <3>2, <3>3, <3>4, <3>5 DEF SecurityStep
  <2>4. CASE StoreOtp(t)
    <3>1. PICK n, c : /\ n = [user |-> k.user, phone |-> NoPhone, accepted |-> 0]
                      /\ c = Len(codes) + 1
      OBVIOUS
    <3>2. codes' = Append(codes, n) /\ k.pc = "store"
      BY <2>1, <2>4, <3>1 DEF StoreOtp, At
    <3>3. \A d \in DOMAIN codes' : (d \in DOMAIN codes /\ codes'[d] = codes[d]) \/ codes'[d] = n
      BY <1>0, <3>2
    <3>4. k.user \in registered
      BY <2>2, <3>2 DEF Sound, CallbackSteps
    <3> QED BY <3>1, <3>3, <3>4 DEF CodesAreSound, Grows
  <2>5. CASE SendOTP(t)
    <3>1. k.phone # NoPhone
      BY <2>1, <2>2, <2>5 DEF SendOTP, At, Sound
    <3>2. codes' = [codes EXCEPT ![k.otp] = [codes[k.otp] EXCEPT !.phone = k.phone]]
      BY <2>1, <2>5 DEF SendOTP
    <3> QED BY <1>0, <3>1, <3>2 DEF CodesAreSound, Grows, Code
  <2>6. CASE CompareCode(t)
    <3>1. k.code \in DOMAIN codes /\ codes[k.code].phone # NoPhone
      BY <2>1, <2>2, <2>6 DEF CompareCode, At, Sound, VerifySteps
    <3>2. codes' = [codes EXCEPT ![k.code] =
                     [codes[k.code] EXCEPT !.accepted = codes[k.code].accepted + 1]]
      BY <1>2, <2>1, <2>6 DEF CompareCode
    <3> QED BY <1>0, <3>1, <3>2 DEF CodesAreSound, Grows, Code
  <2> QED BY <2>3, <2>4, <2>5, <2>6
<1>3. CASE UNCHANGED vars
  BY <1>1, <1>3 DEF vars, secrets
<1>4. CASE Next
  <2>1. ASSUME NEW t \in Tasks, NEW v \in Users, Acts(t, v), ~ SecurityActs(t, v) PROVE codes' = codes
    BY <2>1 DEF Acts, LevelsActs, SessionsActs, SocialActs, FailsFor, secrets
  <2> QED BY <1>1, <1>2, <1>4, <2>1, ActCases, AsideKeeps
<1> QED BY <1>3, <1>4

Making(u) == {t \in Tasks : At(t, "make") /\ task[t].user = u}

(* The parts of a registration are done in their order, each at most once. *)
SetUpInOrder ==
  \A u \in Users :
    /\ u \notin registered => \A p \in Parts : made[u][p] = 0
    /\ \A s, t \in Making(u) : s = t
    /\ \A p \in Parts : made[u][p] <= 1
    /\ \A t \in Making(u) : \A i \in 1..6 :
         /\ i >= task[t].part => made[u][Order[i]] = 0
         /\ i < task[t].part /\ faults = 0 => made[u][Order[i]] = 1
    /\ u \in registered /\ faults = 0 /\ Making(u) = {} => \A p \in Parts : made[u][p] = 1

-----------------------------------------------------------------------------
(* Registration *)

LEMMA OrderCovers ==
  /\ \A p \in Parts : \E i \in 1..6 : p = Order[i]
  /\ \A i, j \in 1..6 : Order[i] = Order[j] => i = j
BY OrderTyped DEF Parts

(* A step that makes no part, of a request that was not making any or fails. *)
LEMMA SetUpKept ==
  ASSUME TypeOK, SetUpInOrder, made' = made, registered' = registered, Counted,
         \A s \in Tasks : \/ task'[s] = task[s]
                          \/ task'[s].pc # "make" /\ (task[s].pc # "make" \/ faults' > faults)
  PROVE  SetUpInOrder'
<1>0. faults \in Nat /\ faults' \in Nat /\ faults <= faults'
  BY DEF Counted
<1>1. SUFFICES ASSUME NEW u \in Users
      PROVE  /\ u \notin registered => \A p \in Parts : made[u][p] = 0
             /\ \A s, t \in Making(u)' : s = t
             /\ \A p \in Parts : made[u][p] <= 1
             /\ \A t \in Making(u)' : \A i \in 1..6 :
                  /\ i >= task'[t].part => made[u][Order[i]] = 0
                  /\ i < task'[t].part /\ faults' = 0 => made[u][Order[i]] = 1
             /\ u \in registered /\ faults' = 0 /\ Making(u)' = {} => \A p \in Parts : made[u][p] = 1
  BY DEF SetUpInOrder
<1>2. \A s \in Making(u)' : s \in Making(u) /\ task'[s] = task[s]
  BY DEF Making, At
<1>3. faults' = 0 => faults = 0 /\ Making(u)' = Making(u)
  BY <1>0 DEF Making, At
<1> QED BY <1>1, <1>2, <1>3 DEF SetUpInOrder

LEMMA SetUpCreated ==
  ASSUME TypeOK, RequestsAreSound, SetUpInOrder, NEW t \in Tasks, CreateUser(t)
  PROVE  SetUpInOrder'
<1>0. /\ task \in [Tasks -> Requests] /\ registered \subseteq Users /\ made' = made
      /\ made \in [Users -> [Parts -> Nat]] /\ Counted
  BY TypeFacts, Bounds DEF CitizensTypeOK, CreateUser
<1>1. task[t].pc = "create" /\ task[t].part = 1 /\ task[t].user \in Users
  BY CallbackTaskAt DEF CreateUser, At, CallbackSteps, RequestsAreSound, Sound
<1>2. CASE task[t].user \in registered
  BY <1>0, <1>1, <1>2, SetUpKept DEF CreateUser, Return, Step
<1>3. CASE task[t].user \notin registered
  <2>1. PICK k, v : k = task[t] /\ v = task[t].user
    OBVIOUS
  <2>2. /\ registered' = registered \union {v} /\ task' = [task EXCEPT ![t] = [k EXCEPT !.pc = "make"]]
        /\ faults' = faults
    BY <1>3, <2>1 DEF CreateUser, Goto, Step, Serve
  <2>3. /\ task'[t].pc = "make" /\ task'[t].part = 1 /\ task'[t].user = v
        /\ \A s \in Tasks \ {t} : task'[s] = task[s]
    <3>1. k \in CallbackTask
      BY <1>1, <2>1, CallbackTaskAt DEF CallbackSteps
    <3> QED BY <1>0, <1>1, <2>1, <2>2, <3>1 DEF CallbackTask
  <2>4. \A s \in Tasks : ~ (task[s].pc = "make" /\ task[s].user = v)
    BY <1>3, <2>1 DEF RequestsAreSound, Sound
  <2>5. SUFFICES ASSUME NEW u \in Users
        PROVE  /\ u \notin registered' => \A p \in Parts : made[u][p] = 0
               /\ \A s, r \in Making(u)' : s = r
               /\ \A p \in Parts : made[u][p] <= 1
               /\ \A s \in Making(u)' : \A i \in 1..6 :
                    /\ i >= task'[s].part => made[u][Order[i]] = 0
                    /\ i < task'[s].part /\ faults' = 0 => made[u][Order[i]] = 1
               /\ u \in registered' /\ faults' = 0 /\ Making(u)' = {} =>
                    \A p \in Parts : made[u][p] = 1
    BY <1>0 DEF SetUpInOrder
  <2>6. CASE u = v
    <3>1. \A s \in Making(u)' : s = t
      BY <2>3, <2>4, <2>6 DEF Making, At
    <3>2. t \in Making(u)'
      BY <2>3, <2>6 DEF Making, At
    <3>3. \A p \in Parts : made[u][p] = 0
      BY <1>3, <2>1, <2>6 DEF SetUpInOrder
    <3>4. \A i \in 1..6 : made[u][Order[i]] = 0 /\ ~ (i < 1)
      BY <3>3, OrderTyped
    <3> QED BY <2>3, <3>1, <3>2, <3>3, <3>4
  <2>7. CASE u # v
    <3>1. Making(u)' = Making(u) /\ \A s \in Making(u) : task'[s] = task[s]
      BY <1>1, <2>1, <2>3, <2>7 DEF Making, At
    <3>2. (u \in registered' <=> u \in registered) /\ (faults' = 0 <=> faults = 0)
      BY <2>2, <2>7
    <3>3. /\ u \notin registered => \A p \in Parts : made[u][p] = 0
          /\ \A s, r \in Making(u) : s = r
          /\ \A p \in Parts : made[u][p] <= 1
          /\ \A s \in Making(u) : \A i \in 1..6 :
               /\ i >= task[s].part => made[u][Order[i]] = 0
               /\ i < task[s].part /\ faults = 0 => made[u][Order[i]] = 1
          /\ u \in registered /\ faults = 0 /\ Making(u) = {} => \A p \in Parts : made[u][p] = 1
      BY DEF SetUpInOrder
    <3> QED BY <3>1, <3>2, <3>3
  <2> QED BY <2>6, <2>7
<1> QED BY <1>2, <1>3

LEMMA SetUpMade ==
  ASSUME TypeOK, RequestsAreSound, SetUpInOrder, NEW t \in Tasks, MakePart(t)
  PROVE  SetUpInOrder'
<1>0. /\ task \in [Tasks -> Requests] /\ registered \subseteq Users /\ registered' = registered
      /\ made \in [Users -> [Parts -> Nat]] /\ Counted /\ faults \in Nat
  <2>1. Counted
    BY TypeFacts, Bounds DEF MakePart
  <2> QED BY <2>1, TypeFacts DEF CitizensTypeOK, MakePart, Counted
<1>1. PICK k, v, i : k = task[t] /\ v = task[t].user /\ i = task[t].part
  OBVIOUS
<1>2. /\ k \in CallbackTask /\ k.pc = "make" /\ i \in 1..6 /\ v \in Users /\ v \in registered
      /\ v = k.user /\ i = k.part /\ Order[i] \in Parts
  <2>1. k.pc = "make"
    BY <1>1 DEF MakePart, At
  <2>2. k \in CallbackTask /\ v \in Users /\ i \in 1..6
    BY <1>1, <2>1, CallbackTaskAt DEF CallbackSteps
  <2>3. v \in registered
    BY <1>1, <2>1 DEF RequestsAreSound, Sound
  <2> QED BY <1>1, <2>1, <2>2, <2>3, OrderTyped
<1>3. /\ t \in Making(v) /\ \A s \in Making(v) : s = t
      /\ \A j \in 1..6 : /\ j >= i => made[v][Order[j]] = 0
                         /\ j < i /\ faults = 0 => made[v][Order[j]] = 1
      /\ \A p \in Parts : made[v][p] <= 1
  <2>1. t \in Making(v)
    BY <1>1, <1>2 DEF Making, At
  <2> QED BY <1>1, <1>2, <2>1 DEF SetUpInOrder
<1>4. PICK n \in {i + 1, AfterError(i)} :
        /\ Continue(t, n)
        /\ \/ made' = [made EXCEPT ![v][Order[i]] = @ + 1] /\ (faults' > 0 \/ n = i + 1)
           \/ made' = made /\ faults' > 0
  <2>1. Stumble => faults' > 0
    BY <1>0 DEF Stumble, Fault
  <2>2. Make(t) => made' = [made EXCEPT ![v][Order[i]] = @ + 1]
    BY <1>1 DEF Make
  <2> QED BY <1>1, <2>1, <2>2 DEF MakePart
<1>5. n \in 1..7 /\ n > i
  BY <1>2, AfterErrorTyped
<1>6. /\ \A s \in Tasks \ {t} : task'[s] = task[s]
      /\ \/ n = 7 /\ task'[t].pc = "idle"
         \/ n \in 1..6 /\ task'[t].pc = "make" /\ task'[t].user = v /\ task'[t].part = n
  <2>1. CASE n > 6
    BY <1>0, <1>4, <1>5, <2>1, OrderTyped DEF Continue, Return, Step
  <2>2. CASE n <= 6
    <3>1. task' = [task EXCEPT ![t] = [k EXCEPT !.part = n]]
      BY <1>1, <1>4, <1>5, <2>2, OrderTyped DEF Continue, Step
    <3> QED BY <1>0, <1>2, <1>5, <2>2, <3>1 DEF CallbackTask
  <2> QED BY <1>5, <2>1, <2>2
<1>7. /\ \A u \in Users \ {v} : made'[u] = made[u]
      /\ \A p \in Parts : p # Order[i] => made'[v][p] = made[v][p]
      /\ made'[v][Order[i]] \in {0, 1}
      /\ n = i + 1 /\ faults' = 0 => made'[v][Order[i]] = 1
      /\ faults' > 0 \/ n = i + 1
  <2>1. made[v][Order[i]] = 0 /\ i >= i
    BY <1>2, <1>3
  <2>2. CASE made' = [made EXCEPT ![v][Order[i]] = @ + 1] /\ (faults' > 0 \/ n = i + 1)
    <3>1. made'[v][Order[i]] = 1
      BY <1>0, <1>2, <2>1, <2>2
    <3>2. \A u \in Users \ {v} : made'[u] = made[u]
      BY <1>0, <2>2
    <3>3. \A p \in Parts : p # Order[i] => made'[v][p] = made[v][p]
      BY <1>0, <1>2, <2>2
    <3> QED BY <2>2, <3>1, <3>2, <3>3
  <2>3. CASE made' = made /\ faults' > 0
    BY <1>0, <2>1, <2>3
  <2> QED BY <1>4, <2>2, <2>3
<1>8. \A j \in 1..6 : /\ j >= n => made'[v][Order[j]] = 0
                      /\ j < n /\ faults' = 0 => made'[v][Order[j]] = 1
  <2>1. ASSUME NEW j \in 1..6, j >= n PROVE made'[v][Order[j]] = 0
    <3>1. j > i /\ j >= i /\ Order[j] # Order[i] /\ Order[j] \in Parts
      BY <1>2, <1>5, <2>1, OrderCovers, OrderTyped
    <3> QED BY <1>3, <1>7, <3>1
  <2>2. ASSUME NEW j \in 1..6, j < n, faults' = 0 PROVE made'[v][Order[j]] = 1
    <3>1. n = i + 1 /\ faults = 0
      BY <1>0, <1>7, <2>2 DEF Counted
    <3>2. CASE j = i
      BY <1>7, <2>2, <3>1, <3>2
    <3>3. CASE j < i
      <4>1. Order[j] # Order[i] /\ Order[j] \in Parts
        BY <1>2, <3>3, OrderCovers, OrderTyped
      <4> QED BY <1>3, <1>7, <3>1, <3>3, <4>1
    <3> QED BY <1>2, <2>2, <3>1, <3>2, <3>3
  <2> QED BY <2>1, <2>2
<1>9. SUFFICES ASSUME NEW u \in Users
      PROVE  /\ u \notin registered => \A p \in Parts : made'[u][p] = 0
             /\ \A s, r \in Making(u)' : s = r
             /\ \A p \in Parts : made'[u][p] <= 1
             /\ \A s \in Making(u)' : \A j \in 1..6 :
                  /\ j >= task'[s].part => made'[u][Order[j]] = 0
                  /\ j < task'[s].part /\ faults' = 0 => made'[u][Order[j]] = 1
             /\ u \in registered /\ faults' = 0 /\ Making(u)' = {} =>
                  \A p \in Parts : made'[u][p] = 1
  BY <1>0 DEF SetUpInOrder
<1>10. CASE u = v
  <2>1. \A s \in Making(u)' : s = t /\ task'[t].pc = "make"
    <3>1. SUFFICES ASSUME NEW s \in Making(u)', s # t PROVE FALSE
      BY <1>10 DEF Making, At
    <3>2. s \in Making(v)
      BY <1>6, <1>10, <3>1 DEF Making, At
    <3> QED BY <1>3, <3>1, <3>2
  <2>2. n # 7 => t \in Making(u)'
    BY <1>6, <1>10 DEF Making, At
  <2>3. n = 7 /\ faults' = 0 => \A p \in Parts : made'[v][p] = 1
    <3>1. ASSUME n = 7, faults' = 0, NEW p \in Parts PROVE made'[v][p] = 1
      <4>1. PICK j \in 1..6 : p = Order[j]
        BY OrderCovers
      <4> QED BY <1>8, <3>1, <4>1
    <3> QED BY <3>1
  <2>4. \A p \in Parts : made'[v][p] <= 1
    BY <1>3, <1>7
  <2> QED BY <1>2, <1>6, <1>8, <1>10, <2>1, <2>2, <2>3, <2>4
<1>11. CASE u # v
  <2>1. Making(u)' = Making(u) /\ \A s \in Making(u) : task'[s] = task[s]
    BY <1>1, <1>6, <1>11 DEF Making, At
  <2>2. faults' = 0 => faults = 0
    BY <1>0 DEF Counted
  <2> QED BY <1>7, <1>11, <2>1, <2>2 DEF SetUpInOrder
<1> QED BY <1>10, <1>11

(* A request of t that is at another step than "make", before and after. *)
LEMMA SetUpStep ==
  ASSUME TypeOK, SetUpInOrder, NEW t \in Tasks, NEW v \in Users, Moves(t, v), Counted,
         made' = made, registered' = registered,
         task[t].pc # "make" \/ faults' > faults, task'[t].pc # "make"
  PROVE  SetUpInOrder'
<1>1. \A s \in Tasks : \/ task'[s] = task[s]
                       \/ task'[s].pc # "make" /\ (task[s].pc # "make" \/ faults' > faults)
  BY DEF Moves
<1> QED BY <1>1, SetUpKept

LEMMA SetUpSessions ==
  ASSUME TypeOK, RequestsAreSound, SetUpInOrder, NEW t \in Tasks, NEW v \in Users,
         SessionsActs(t, v)
  PROVE  SetUpInOrder'
<1>0. /\ task \in [Tasks -> Requests] /\ Moves(t, v) /\ Counted
  BY TypeFacts DEF SessionsActs, SessionsMove
<1>1. CASE CreateUser(t)
  BY <1>1, SetUpCreated
<1>2. CASE MakePart(t)
  BY <1>2, SetUpMade
<1>3. CASE ~ CreateUser(t) /\ ~ MakePart(t)
  <2>1. /\ task[t].pc # "make" /\ task'[t].pc # "make" /\ made' = made /\ registered' = registered
    <3>0. SessionsStep(t)
      BY DEF SessionsActs
    <3>1. CASE \E u \in Users, p \in Phones : Callback(t, u, p)
      BY <1>0, <3>1 DEF Callback, Start, Step, At, accounts
    <3>2. CASE \E u \in registered : Logout(t, u)
      BY <1>0, <3>2 DEF Logout, Start, Step, At, accounts
    <3>3. CASE FindUser(t)
      <4>1. task[t] \in CallbackTask /\ task[t].pc = "find"
        BY <3>3, CallbackTaskAt DEF FindUser, At, CallbackSteps
      <4>2. PICK x : x = IF task[t].user \in registered THEN "refresh" ELSE "create"
        OBVIOUS
      <4>3. task'[t].pc = x
        BY <1>0, <3>3, <4>1, <4>2 DEF FindUser, Goto, Step, CallbackTask
      <4> QED BY <3>3, <4>1, <4>2, <4>3 DEF FindUser, accounts
    <3>4. CASE UpdateUser(t)
      <4>1. task[t] \in CallbackTask /\ task[t].pc = "refresh"
        BY <3>4, CallbackTaskAt DEF UpdateUser, At, CallbackSteps
      <4> QED BY <1>0, <3>4, <4>1 DEF UpdateUser, Goto, Step, CallbackTask
    <3>5. CASE OnUserLogin(t) \/ WriteUser(t)
      BY <1>0, <3>5 DEF OnUserLogin, WriteUser, Return, Step, At
    <3>6. CASE \/ GetLatestActivity(t) \/ UpdateActivity(t) \/ GetTotalActivityMinutes(t)
               \/ GetUserLog(t) \/ WriteHours(t) \/ WriteScore(t)
      <4>1. /\ task[t].pc \in LogoutSteps /\ made' = made /\ registered' = registered
        BY <3>6 DEF GetLatestActivity, UpdateActivity, GetTotalActivityMinutes, GetUserLog,
             WriteHours, WriteScore, UpdateUserLog, At, LogoutSteps, accounts
      <4>2. task[t] \in LogoutTask
        BY <4>1, LogoutTaskAt
      <4>3. task'[t] \in LogoutTask \union {Resting}
        <5>1. task[t].op = "logout" /\ task[t].pc # "idle"
          BY <4>1, <4>2 DEF LogoutTask, LogoutSteps
        <5>2. task[t] \notin CallbackTask \union {Resting}
          BY <5>1 DEF CallbackTask, Resting
        <5> QED BY <5>2 DEF SessionsActs, SessionsMove
      <4> QED BY <4>1, <4>3 DEF LogoutTask, LogoutSteps, Resting
    <3> QED BY <1>3, <3>0, <3>1, <3>2, <3>3, <3>4, <3>5, <3>6 DEF SessionsStep
  <2> QED BY <1>0, <2>1, SetUpStep
<1> QED BY <1>1, <1>2, <1>3

LEMMA SetUpNext ==
  ASSUME TypeOK, RequestsAreSound, SetUpInOrder, [Next]_vars
  PROVE  SetUpInOrder'
<1>1. CASE UNCHANGED vars
  BY <1>1 DEF vars, requests, accounts, SetUpInOrder, Making, At
<1>2. ASSUME NEW t \in Tasks, NEW v \in Users, Acts(t, v) PROVE SetUpInOrder'
  <2>1. Moves(t, v) /\ Counted
    BY <1>2, ActsMoves
  <2>2. CASE LevelsActs(t, v)
    <3>1. task[t].pc # "make" /\ task'[t].pc # "make" /\ made' = made /\ registered' = registered
      BY <2>2 DEF LevelsActs, LevelsMove, LevelsTask, Resting
    <3> QED BY <2>1, <3>1, SetUpStep
  <2>3. CASE SessionsActs(t, v)
    BY <2>3, SetUpSessions
  <2>4. CASE SecurityActs(t, v)
    <3>1. task[t].pc # "make" /\ task'[t].pc # "make" /\ made' = made /\ registered' = registered
      BY <2>4 DEF SecurityActs, SecurityMove, SecureTask, SecureSteps, VerifyTask, VerifySteps, Resting
    <3> QED BY <2>1, <3>1, SetUpStep
  <2>5. CASE SocialActs(t, v)
    <3>1. task[t].pc # "make" /\ task'[t].pc # "make" /\ made' = made /\ registered' = registered
      BY <2>5 DEF SocialActs, SocialMove, AnswerTask, AnswerSteps, FollowTask, FollowSteps, Resting,
                  accounts
    <3> QED BY <2>1, <3>1, SetUpStep
  <2>6. CASE FailsFor(t, v)
    <3>1. faults' > faults /\ task'[t].pc # "make" /\ made' = made /\ registered' = registered
      BY <2>6 DEF FailsFor, Resting, accounts
    <3> QED BY <2>1, <3>1, SetUpStep
  <2> QED BY <1>2, <2>2, <2>3, <2>4, <2>5, <2>6 DEF Acts
<1>3. ASSUME NEW u \in registered, NEW w \in registered, AsideActs(u, w) PROVE SetUpInOrder'
  <2>1. task' = task /\ made' = made /\ registered' = registered /\ faults' = faults
    BY <1>3, AsideKeeps
  <2> QED BY <2>1 DEF SetUpInOrder, Making, At
<1> QED BY <1>1, <1>2, <1>3, ActCases

-----------------------------------------------------------------------------
(* What every reachable state satisfies, and the other invariants rest on. *)
Basics ==
  TypeOK /\ OverlapsAreNoted /\ RequestsAreSound /\ CodesAreSound /\ SetUpInOrder

LEMMA BasicsInit == Init => Basics
<1>1. SUFFICES ASSUME Init PROVE Basics
  OBVIOUS
<1>2. /\ task = [t \in Tasks |-> Resting] /\ faults = 0 /\ registered \subseteq Users
      /\ calls = 0 /\ group \in Groups /\ overlap = [u \in Users |-> {}]
  BY <1>1 DEF Init, CitizensInit, Resting
<1>3. \A t \in Tasks : task[t] = Resting /\ task[t].pc = "idle"
  BY <1>2 DEF Resting
<1>4. TypeOK
  <2>1. CitizensTypeOK
    <3>1. MaxCalls[group] \in Nat /\ 0 \in 0..MaxCalls[group] /\ 0 \in 0..MaxFaults
      BY <1>2, CitizensAssumption
    <3>2. \A u \in Users : (IF u \in registered THEN <<0>> ELSE <<>>) \in Seq(Nat)
      OBVIOUS
    <3>3. sessions \in [Users -> Seq(Nat)]
      BY <1>1, <3>2 DEF Init, CitizensInit
    <3>4. log \in [Users -> UserLog]
      BY <1>1 DEF Init, CitizensInit, NoLog, UserLog
    <3>5. made \in [Users -> [Parts -> Nat]]
      BY <1>1 DEF Init, CitizensInit
    <3>6. phone \in [Users -> Phones \union {NoPhone}] /\ verified \in [Users -> BOOLEAN]
      BY <1>1 DEF Init, CitizensInit
    <3> QED BY <1>2, <3>1, <3>3, <3>4, <3>5, <3>6 DEF CitizensTypeOK
  <2>2. LevelsTypeOK
    <3>1. attached \in [Users -> [LevelIds -> Nat]] /\ received \in [Users -> [LevelIds -> Nat]]
      BY <1>1 DEF Init, LevelsInit
    <3>2. paid \in [Users -> [LevelIds -> [1..Assets -> Nat]]]
      BY <1>1 DEF Init, LevelsInit
    <3> QED BY <1>1, <3>1, <3>2 DEF Init, LevelsInit, LevelsTypeOK
  <2>3. SessionsTypeOK
    BY <1>1 DEF Init, SessionsInit, SessionsTypeOK
  <2>4. SecurityTypeOK
    BY <1>1 DEF Init, SecurityInit, SecurityTypeOK
  <2>5. SocialTypeOK
    BY <1>1 DEF Init, SocialInit, SocialTypeOK
  <2>6. task \in [Tasks -> Requests] /\ overlap \in [Users -> SUBSET Ops]
    BY <1>2, KindsFit
  <2> QED BY <2>1, <2>2, <2>3, <2>4, <2>5, <2>6 DEF TypeOK, Requests, Ops, Resting
<1>5. OverlapsAreNoted
  BY <1>3 DEF OverlapsAreNoted, At
<1>6. RequestsAreSound
  <2>1. PICK k : k = Resting
    OBVIOUS
  <2>2. Sound(k)
    BY <2>1, RestingIsSound
  <2> QED BY <1>3, <2>1, <2>2 DEF RequestsAreSound
<1>7. CodesAreSound
  <2>1. codes = <<>>
    BY <1>1 DEF Init, SecurityInit
  <2> QED BY <2>1 DEF CodesAreSound
<1>8. SetUpInOrder
  <2>1. \A u \in Users : Making(u) = {}
    BY <1>3 DEF Making, At
  <2>2. \A u \in Users, p \in Parts : made[u][p] = IF u \in registered THEN 1 ELSE 0
    BY <1>1 DEF Init, CitizensInit
  <2> QED BY <1>2, <2>1, <2>2 DEF SetUpInOrder
<1> QED BY <1>4, <1>5, <1>6, <1>7, <1>8 DEF Basics

LEMMA BasicsNext == Basics /\ [Next]_vars => Basics'
<1>1. SUFFICES ASSUME Basics, [Next]_vars PROVE Basics'
  OBVIOUS
<1>2. TypeOK'
  BY <1>1, TypeNext DEF Basics
<1>3. Grows /\ RequestsAreSound'
  BY <1>1, <1>2, SoundNext DEF Basics
<1>4. CodesAreSound'
  BY <1>1, <1>2, <1>3, CodesSoundNext DEF Basics
<1>5. OverlapsAreNoted'
  BY <1>1, NotedNext DEF Basics
<1>6. SetUpInOrder'
  BY <1>1, SetUpNext DEF Basics
<1> QED BY <1>2, <1>3, <1>4, <1>5, <1>6 DEF Basics

(* What a request knows when it makes its next step stays true, whatever   *)
(* other requests did since: its user is registered, the rows and codes it *)
(* goes on with exist and are the user's, overlaps are noted, and a        *)
(* registration makes its parts in order (what the handlers of the three   *)
(* services rely on between two statements).                               *)
THEOREM BasicsHold == Spec => []Basics
<1>1. Init => Basics
  BY BasicsInit
<1>2. Basics /\ [Next]_vars => Basics'
  BY BasicsNext
<1> QED BY <1>1, <1>2, PTL DEF Spec

AtQuestion(pcs, u, q) == {t \in Tasks : task[t].pc \in pcs /\ task[t].user = u /\ task[t].question = q}
Rewarding(u, q) == {t \in AtQuestion({"participants", "prize"}, u, q) : task[t].right}
Counting(q) == {t \in Tasks : At(t, "participants") /\ task[t].question = q}
Following(u, v) == {t \in Tasks : At(t, "follow") /\ task[t].user = u /\ task[t].target = v}
SumOf(s, q) == SumFunctionOnSet([u \in Users |-> s[u][q]], Users)

PrizesAreEarned == \A t \in Tasks : At(t, "prize") => task[t].right

AnswersAreCounted ==
  \A u \in Users, q \in Questions :
    /\ answers[u][q] + Cardinality(AtQuestion({"answer"}, u, q)) <= Cardinality(Tasks)
    /\ LET due == correct[u][q] - prizes[u][q] - Cardinality(Rewarding(u, q)) IN due >= 0 /\ due <= faults

ParticipantsAreCounted ==
  \A q \in Questions :
    LET due == SumOf(answers, q) - participants[q] - Cardinality(Counting(q)) IN due >= 0 /\ due <= faults

FollowsAreCounted ==
  \A u, v \in Users : follows[u][v] + Cardinality(Following(u, v)) <= Cardinality(Tasks)

SocialCounts ==
  PrizesAreEarned /\ AnswersAreCounted /\ ParticipantsAreCounted /\ FollowsAreCounted

-----------------------------------------------------------------------------
(* Social-service *)

(* What a step of t does to the requests that are counted. *)
LEMMA AnswersCount ==
  ASSUME NEW t \in Tasks, NEW v, Moves(t, v), NEW u \in Users, NEW q \in Questions,
         NEW A, NEW B, A = AtQuestion({"answer"}, u, q), B = AtQuestion({"answer"}, u, q)'
  PROVE  /\ Cardinality(A) \in Nat /\ Cardinality(B) \in Nat /\ Cardinality(Tasks) \in Nat
         /\ Cardinality(B) <= Cardinality(Tasks)
         /\ t \in A /\ t \notin B => Cardinality(B) = Cardinality(A) - 1
         /\ t \notin A /\ t \in B => Cardinality(B) = Cardinality(A) + 1
         /\ (t \in A <=> t \in B) => Cardinality(B) = Cardinality(A)
<1>1. A \in SUBSET Tasks /\ B \in SUBSET Tasks
  BY DEF AtQuestion
<1>2. \A s \in Tasks \ {t} : s \in A <=> s \in B
  BY DEF AtQuestion, Moves
<1> QED BY <1>1, <1>2, CountOne, CitizensAssumption

LEMMA RewardsCount ==
  ASSUME NEW t \in Tasks, NEW v, Moves(t, v), NEW u \in Users, NEW q \in Questions,
         NEW A, NEW B, A = Rewarding(u, q), B = Rewarding(u, q)'
  PROVE  /\ Cardinality(A) \in Nat /\ Cardinality(B) \in Nat
         /\ t \in A /\ t \notin B => Cardinality(B) = Cardinality(A) - 1
         /\ t \notin A /\ t \in B => Cardinality(B) = Cardinality(A) + 1
         /\ (t \in A <=> t \in B) => Cardinality(B) = Cardinality(A)
<1>1. A \in SUBSET Tasks /\ B \in SUBSET Tasks
  BY DEF Rewarding, AtQuestion
<1>2. \A s \in Tasks \ {t} : s \in A <=> s \in B
  BY DEF Rewarding, AtQuestion, Moves
<1> QED BY <1>1, <1>2, CountOne, CitizensAssumption

LEMMA CountingCount ==
  ASSUME NEW t \in Tasks, NEW v, Moves(t, v), NEW q \in Questions,
         NEW A, NEW B, A = Counting(q), B = Counting(q)'
  PROVE  /\ Cardinality(A) \in Nat /\ Cardinality(B) \in Nat
         /\ t \in A /\ t \notin B => Cardinality(B) = Cardinality(A) - 1
         /\ t \notin A /\ t \in B => Cardinality(B) = Cardinality(A) + 1
         /\ (t \in A <=> t \in B) => Cardinality(B) = Cardinality(A)
<1>1. A \in SUBSET Tasks /\ B \in SUBSET Tasks
  BY DEF Counting
<1>2. \A s \in Tasks \ {t} : s \in A <=> s \in B
  BY DEF Counting, At, Moves
<1> QED BY <1>1, <1>2, CountOne, CitizensAssumption

LEMMA FollowsCount ==
  ASSUME NEW t \in Tasks, NEW v, Moves(t, v), NEW u \in Users, NEW w \in Users,
         NEW A, NEW B, A = Following(u, w), B = Following(u, w)'
  PROVE  /\ Cardinality(A) \in Nat /\ Cardinality(B) \in Nat /\ Cardinality(Tasks) \in Nat
         /\ Cardinality(B) <= Cardinality(Tasks)
         /\ t \in A /\ t \notin B => Cardinality(B) = Cardinality(A) - 1
         /\ t \notin A /\ t \in B => Cardinality(B) = Cardinality(A) + 1
         /\ (t \in A <=> t \in B) => Cardinality(B) = Cardinality(A)
<1>1. A \in SUBSET Tasks /\ B \in SUBSET Tasks
  BY DEF Following
<1>2. \A s \in Tasks \ {t} : s \in A <=> s \in B
  BY DEF Following, At, Moves
<1> QED BY <1>1, <1>2, CountOne, CitizensAssumption

(* The tables as numbers. *)
LEMMA SocialNumbers ==
  ASSUME TypeOK
  PROVE  /\ faults \in Nat
         /\ \A u \in Users, q \in Questions :
              answers[u][q] \in Nat /\ correct[u][q] \in Nat /\ prizes[u][q] \in Nat
         /\ \A q \in Questions : participants[q] \in Nat /\ SumOf(answers, q) \in Int
         /\ \A u, w \in Users : follows[u][w] \in Nat
<1>0. SocialTypeOK /\ CitizensTypeOK
  BY TypeFacts
<1>1. \A u \in Users, q \in Questions :
        answers[u][q] \in Nat /\ correct[u][q] \in Nat /\ prizes[u][q] \in Nat
  BY <1>0 DEF SocialTypeOK
<1>2. ASSUME NEW q \in Questions PROVE SumOf(answers, q) \in Int
  <2>1. PICK f : f = [u \in Users |-> answers[u][q]]
    OBVIOUS
  <2>2. \A u \in Users : f[u] \in Int
    BY <1>1, <2>1
  <2>3. SumFunctionOnSet(f, Users) \in Int
    BY <2>2, SumRemove, CitizensAssumption
  <2> QED BY <2>1, <2>3 DEF SumOf
<1>3. \A u, w \in Users : follows[u][w] \in Nat
  BY <1>0 DEF SocialTypeOK
<1> QED BY <1>0, <1>1, <1>2, <1>3, CitizensAssumption DEF SocialTypeOK, CitizensTypeOK

(* A step that leaves the tables alone, of a request that is not counted or fails. *)
LEMMA SocialQuiet ==
  ASSUME TypeOK, SocialCounts, NEW t \in Tasks, NEW v, Moves(t, v), Counted, UNCHANGED social,
         \/ task[t].pc \notin {"answer", "participants", "prize", "follow"}
         \/ faults' > faults,
         task'[t].pc \notin {"answer", "participants", "prize", "follow"}
  PROVE  SocialCounts'
<1>0. /\ answers' = answers /\ correct' = correct /\ prizes' = prizes
      /\ participants' = participants /\ follows' = follows
      /\ faults \in Nat /\ faults' \in Nat /\ faults <= faults'
  BY DEF social, Counted
<1>1. PrizesAreEarned'
  BY DEF SocialCounts, PrizesAreEarned, Moves, At
<1>2. AnswersAreCounted'
  <2>1. SUFFICES ASSUME NEW u \in Users, NEW q \in Questions
        PROVE  /\ answers[u][q] + Cardinality(AtQuestion({"answer"}, u, q)') <= Cardinality(Tasks)
               /\ correct[u][q] - prizes[u][q] - Cardinality(Rewarding(u, q)') >= 0
               /\ correct[u][q] - prizes[u][q] - Cardinality(Rewarding(u, q)') <= faults'
    BY <1>0 DEF AnswersAreCounted
  <2>2. PICK A, B, R, S : /\ A = AtQuestion({"answer"}, u, q) /\ B = AtQuestion({"answer"}, u, q)'
                          /\ R = Rewarding(u, q) /\ S = Rewarding(u, q)'
    OBVIOUS
  <2>3. t \notin B /\ t \notin S
    BY <2>2 DEF AtQuestion, Rewarding
  <2>4. t \in R => faults' > faults
    BY <2>2 DEF AtQuestion, Rewarding
  <2>5. /\ Cardinality(A) \in Nat /\ Cardinality(B) \in Nat /\ Cardinality(Tasks) \in Nat
        /\ Cardinality(B) <= Cardinality(A)
    BY <2>2, <2>3, AnswersCount
  <2>6. /\ Cardinality(R) \in Nat /\ Cardinality(S) \in Nat
        /\ t \in R => Cardinality(S) = Cardinality(R) - 1
        /\ t \notin R => Cardinality(S) = Cardinality(R)
    BY <2>2, <2>3, RewardsCount
  <2>7. /\ answers[u][q] + Cardinality(A) <= Cardinality(Tasks)
        /\ correct[u][q] - prizes[u][q] - Cardinality(R) >= 0
        /\ correct[u][q] - prizes[u][q] - Cardinality(R) <= faults
    BY <2>2 DEF SocialCounts, AnswersAreCounted
  <2>8. answers[u][q] \in Nat /\ correct[u][q] \in Nat /\ prizes[u][q] \in Nat
    BY SocialNumbers
  <2>9. answers[u][q] + Cardinality(B) <= Cardinality(Tasks)
    BY <2>5, <2>7, <2>8
  <2>10. /\ correct[u][q] - prizes[u][q] - Cardinality(S) >= 0
         /\ correct[u][q] - prizes[u][q] - Cardinality(S) <= faults'
    BY <1>0, <2>4, <2>6, <2>7, <2>8
  <2> QED BY <2>2, <2>9, <2>10
<1>3. ParticipantsAreCounted'
  <2>1. SUFFICES ASSUME NEW q \in Questions
        PROVE  /\ SumOf(answers, q) - participants[q] - Cardinality(Counting(q)') >= 0
               /\ SumOf(answers, q) - participants[q] - Cardinality(Counting(q)') <= faults'
    BY <1>0 DEF ParticipantsAreCounted, SumOf
  <2>2. PICK A, B : A = Counting(q) /\ B = Counting(q)'
    OBVIOUS
  <2>3. t \notin B /\ (t \in A => faults' > faults)
    BY <2>2 DEF Counting, At
  <2>4. /\ Cardinality(A) \in Nat /\ Cardinality(B) \in Nat
        /\ t \in A => Cardinality(B) = Cardinality(A) - 1
        /\ t \notin A => Cardinality(B) = Cardinality(A)
    BY <2>2, <2>3, CountingCount
  <2>5. /\ SumOf(answers, q) - participants[q] - Cardinality(A) >= 0
        /\ SumOf(answers, q) - participants[q] - Cardinality(A) <= faults
    BY <2>2 DEF SocialCounts, ParticipantsAreCounted
  <2>6. SumOf(answers, q) \in Int /\ participants[q] \in Nat
    BY SocialNumbers
  <2> QED BY <1>0, <2>2, <2>3, <2>4, <2>5, <2>6
<1>4. FollowsAreCounted'
  <2>1. SUFFICES ASSUME NEW u \in Users, NEW w \in Users
        PROVE  follows[u][w] + Cardinality(Following(u, w)') <= Cardinality(Tasks)
    BY <1>0 DEF FollowsAreCounted
  <2>2. PICK A, B : A = Following(u, w) /\ B = Following(u, w)'
    OBVIOUS
  <2>3. t \notin B
    BY <2>2 DEF Following, At
  <2>4. /\ Cardinality(A) \in Nat /\ Cardinality(B) \in Nat /\ Cardinality(Tasks) \in Nat
        /\ Cardinality(B) <= Cardinality(A)
    BY <2>2, <2>3, FollowsCount
  <2>5. follows[u][w] + Cardinality(A) <= Cardinality(Tasks) /\ follows[u][w] \in Nat
    BY <2>2, SocialNumbers DEF SocialCounts, FollowsAreCounted
  <2> QED BY <2>2, <2>4, <2>5
<1> QED BY <1>1, <1>2, <1>3, <1>4 DEF SocialCounts

LEMMA AnswersSame ==
  ASSUME TypeOK, AnswersAreCounted, NEW t \in Tasks, NEW v, Moves(t, v), Counted,
         answers' = answers, correct' = correct, prizes' = prizes,
         \A u \in Users, q \in Questions :
           /\ t \in AtQuestion({"answer"}, u, q)' => answers[u][q] = 0
           /\ t \in Rewarding(u, q) <=> t \in Rewarding(u, q)'
  PROVE  AnswersAreCounted'
<1>0. faults \in Nat /\ faults' \in Nat /\ faults <= faults'
  BY DEF Counted
<1>1. SUFFICES ASSUME NEW u \in Users, NEW q \in Questions
      PROVE  /\ answers[u][q] + Cardinality(AtQuestion({"answer"}, u, q)') <= Cardinality(Tasks)
             /\ correct[u][q] - prizes[u][q] - Cardinality(Rewarding(u, q)') >= 0
             /\ correct[u][q] - prizes[u][q] - Cardinality(Rewarding(u, q)') <= faults'
  BY DEF AnswersAreCounted
<1>2. PICK A, B, R, S : /\ A = AtQuestion({"answer"}, u, q) /\ B = AtQuestion({"answer"}, u, q)'
                        /\ R = Rewarding(u, q) /\ S = Rewarding(u, q)'
  OBVIOUS
<1>3. (t \in B => answers[u][q] = 0) /\ (t \in R <=> t \in S)
  BY <1>2
<1>4. /\ Cardinality(A) \in Nat /\ Cardinality(B) \in Nat /\ Cardinality(Tasks) \in Nat
      /\ Cardinality(B) <= Cardinality(Tasks)
      /\ t \notin B => Cardinality(B) <= Cardinality(A)
  BY <1>2, AnswersCount
<1>5. Cardinality(R) \in Nat /\ Cardinality(S) = Cardinality(R)
  BY <1>2, <1>3, RewardsCount
<1>6. /\ answers[u][q] + Cardinality(A) <= Cardinality(Tasks)
      /\ correct[u][q] - prizes[u][q] - Cardinality(R) >= 0
      /\ correct[u][q] - prizes[u][q] - Cardinality(R) <= faults
  BY <1>2 DEF AnswersAreCounted
<1>7. answers[u][q] \in Nat /\ correct[u][q] \in Nat /\ prizes[u][q] \in Nat
  BY SocialNumbers
<1>8. answers[u][q] + Cardinality(B) <= Cardinality(Tasks)
  BY <1>3, <1>4, <1>6, <1>7
<1> QED BY <1>0, <1>2, <1>5, <1>6, <1>7, <1>8

LEMMA ParticipantsSame ==
  ASSUME TypeOK, ParticipantsAreCounted, NEW t \in Tasks, NEW v, Moves(t, v), Counted,
         answers' = answers, participants' = participants,
         task[t].pc # "participants", task'[t].pc # "participants"
  PROVE  ParticipantsAreCounted'
<1>0. faults \in Nat /\ faults' \in Nat /\ faults <= faults'
  BY DEF Counted
<1>1. SUFFICES ASSUME NEW q \in Questions
      PROVE  /\ SumOf(answers, q) - participants[q] - Cardinality(Counting(q)') >= 0
             /\ SumOf(answers, q) - participants[q] - Cardinality(Counting(q)') <= faults'
  BY DEF ParticipantsAreCounted, SumOf
<1>2. PICK A, B : A = Counting(q) /\ B = Counting(q)'
  OBVIOUS
<1>3. t \notin A /\ t \notin B
  BY <1>2 DEF Counting, At
<1>4. Cardinality(A) \in Nat /\ Cardinality(B) = Cardinality(A)
  BY <1>2, <1>3, CountingCount
<1>5. /\ SumOf(answers, q) - participants[q] - Cardinality(A) >= 0
      /\ SumOf(answers, q) - participants[q] - Cardinality(A) <= faults
  BY <1>2 DEF ParticipantsAreCounted
<1>6. SumOf(answers, q) \in Int /\ participants[q] \in Nat
  BY SocialNumbers
<1> QED BY <1>0, <1>2, <1>4, <1>5, <1>6

LEMMA FollowsSame ==
  ASSUME TypeOK, FollowsAreCounted, NEW t \in Tasks, NEW v, Moves(t, v), follows' = follows,
         task'[t].pc = "follow" => follows[task'[t].user][task'[t].target] = 0
  PROVE  FollowsAreCounted'
<1>1. SUFFICES ASSUME NEW u \in Users, NEW w \in Users
      PROVE  follows[u][w] + Cardinality(Following(u, w)') <= Cardinality(Tasks)
  BY DEF FollowsAreCounted
<1>2. PICK A, B : A = Following(u, w) /\ B = Following(u, w)'
  OBVIOUS
<1>3. t \in B => follows[u][w] = 0
  BY <1>2 DEF Following, At
<1>4. /\ Cardinality(A) \in Nat /\ Cardinality(B) \in Nat /\ Cardinality(Tasks) \in Nat
      /\ Cardinality(B) <= Cardinality(Tasks)
      /\ t \notin B => Cardinality(B) <= Cardinality(A)
  BY <1>2, FollowsCount
<1>5. follows[u][w] + Cardinality(A) <= Cardinality(Tasks) /\ follows[u][w] \in Nat
  BY <1>2, SocialNumbers DEF FollowsAreCounted
<1> QED BY <1>2, <1>3, <1>4, <1>5

LEMMA AnswerCounted ==
  ASSUME TypeOK, SocialCounts, NEW t \in Tasks, NEW v \in Users, Moves(t, v), Counted,
         CreateUserAnswer(t)
  PROVE  SocialCounts'
<1>0. /\ task \in [Tasks -> Requests] /\ faults \in Nat /\ faults' = faults
      /\ answers \in [Users -> [Questions -> Nat]] /\ correct \in [Users -> [Questions -> Nat]]
  BY TypeFacts DEF SocialTypeOK, Counted, CreateUserAnswer, Serve
<1>1. PICK k, a, p : k = task[t] /\ a = task[t].user /\ p = task[t].question
  OBVIOUS
<1>2. k \in AnswerTask /\ k.pc = "answer" /\ a \in Users /\ p \in Questions
  BY <1>1, AnswerTaskAt DEF CreateUserAnswer, At, AnswerSteps
<1>3. /\ task' = [task EXCEPT ![t] = [k EXCEPT !.pc = "participants"]]
      /\ answers' = [answers EXCEPT ![a][p] = @ + 1]
      /\ correct' = IF k.right THEN [correct EXCEPT ![a][p] = @ + 1] ELSE correct
      /\ participants' = participants /\ prizes' = prizes /\ follows' = follows
  BY <1>1 DEF CreateUserAnswer, Goto, Step
<1>4. PICK m : m = task'[t]
  OBVIOUS
<1>5. m.pc = "participants" /\ m.user = a /\ m.question = p /\ m.right = k.right
  BY <1>0, <1>1, <1>2, <1>3, <1>4 DEF AnswerTask
<1>6. /\ \A u \in Users, q \in Questions : (u # a \/ q # p) => answers'[u][q] = answers[u][q]
      /\ answers'[a][p] = answers[a][p] + 1
  BY <1>0, <1>2, <1>3
<1>7. /\ \A u \in Users, q \in Questions : (u # a \/ q # p) => correct'[u][q] = correct[u][q]
      /\ k.right => correct'[a][p] = correct[a][p] + 1
      /\ ~ k.right => correct'[a][p] = correct[a][p]
  <2>1. CASE k.right
    BY <1>0, <1>2, <1>3, <2>1
  <2>2. CASE ~ k.right
    BY <1>3, <2>2
  <2> QED BY <2>1, <2>2
<1>8. PrizesAreEarned'
  BY <1>4, <1>5 DEF SocialCounts, PrizesAreEarned, Moves, At
<1>9. AnswersAreCounted'
  <2>1. SUFFICES ASSUME NEW u \in Users, NEW q \in Questions
        PROVE  /\ answers'[u][q] + Cardinality(AtQuestion({"answer"}, u, q)') <= Cardinality(Tasks)
               /\ correct'[u][q] - prizes[u][q] - Cardinality(Rewarding(u, q)') >= 0
               /\ correct'[u][q] - prizes[u][q] - Cardinality(Rewarding(u, q)') <= faults
    BY <1>0, <1>3 DEF AnswersAreCounted
  <2>2. PICK A, B, R, S : /\ A = AtQuestion({"answer"}, u, q) /\ B = AtQuestion({"answer"}, u, q)'
                          /\ R = Rewarding(u, q) /\ S = Rewarding(u, q)'
    OBVIOUS
  <2>3. /\ t \notin B /\ (t \in A <=> u = a /\ q = p)
        /\ t \notin R /\ (t \in S <=> u = a /\ q = p /\ k.right)
    BY <1>1, <1>2, <1>4, <1>5, <2>2 DEF AtQuestion, Rewarding
  <2>4. /\ Cardinality(A) \in Nat /\ Cardinality(B) \in Nat /\ Cardinality(Tasks) \in Nat
        /\ t \in A => Cardinality(B) = Cardinality(A) - 1
        /\ t \notin A => Cardinality(B) = Cardinality(A)
    BY <2>2, <2>3, AnswersCount
  <2>5. /\ Cardinality(R) \in Nat /\ Cardinality(S) \in Nat
        /\ t \in S => Cardinality(S) = Cardinality(R) + 1
        /\ t \notin S => Cardinality(S) = Cardinality(R)
    BY <2>2, <2>3, RewardsCount
  <2>6. /\ answers[u][q] + Cardinality(A) <= Cardinality(Tasks)
        /\ correct[u][q] - prizes[u][q] - Cardinality(R) >= 0
        /\ correct[u][q] - prizes[u][q] - Cardinality(R) <= faults
    BY <2>2 DEF SocialCounts, AnswersAreCounted
  <2>7. answers[u][q] \in Nat /\ correct[u][q] \in Nat /\ prizes[u][q] \in Nat
    BY SocialNumbers
  <2>8. CASE u = a /\ q = p
    <3>1. answers'[u][q] + Cardinality(B) <= Cardinality(Tasks)
      BY <1>6, <2>3, <2>4, <2>6, <2>7, <2>8
    <3>2. correct'[u][q] - Cardinality(S) = correct[u][q] - Cardinality(R)
      BY <1>7, <2>3, <2>5, <2>7, <2>8
    <3>3. correct'[u][q] \in Nat
      BY <1>7, <2>7, <2>8
    <3> QED BY <1>0, <2>2, <2>5, <2>6, <2>7, <3>1, <3>2, <3>3
  <2>9. CASE u # a \/ q # p
    BY <1>6, <1>7, <2>2, <2>3, <2>4, <2>5, <2>6, <2>7, <2>9
  <2> QED BY <2>8, <2>9
<1>10. ParticipantsAreCounted'
  <2>1. SUFFICES ASSUME NEW q \in Questions
        PROVE  /\ SumOf(answers', q) - participants[q] - Cardinality(Counting(q)') >= 0
               /\ SumOf(answers', q) - participants[q] - Cardinality(Counting(q)') <= faults
    BY <1>0, <1>3 DEF ParticipantsAreCounted, SumOf
  <2>2. PICK A, B, f, g : /\ A = Counting(q) /\ B = Counting(q)'
                          /\ f = [u \in Users |-> answers[u][q]]
                          /\ g = [u \in Users |-> answers'[u][q]]
    OBVIOUS
  <2>3. t \notin A /\ (t \in B <=> q = p)
    BY <1>1, <1>2, <1>4, <1>5, <2>2 DEF Counting, At
  <2>4. /\ Cardinality(A) \in Nat /\ Cardinality(B) \in Nat
        /\ t \in B => Cardinality(B) = Cardinality(A) + 1
        /\ t \notin B => Cardinality(B) = Cardinality(A)
    BY <2>2, <2>3, CountingCount
  <2>5. /\ SumOf(answers, q) - participants[q] - Cardinality(A) >= 0
        /\ SumOf(answers, q) - participants[q] - Cardinality(A) <= faults
    BY <2>2 DEF SocialCounts, ParticipantsAreCounted
  <2>6. SumOf(answers, q) \in Int /\ participants[q] \in Nat
    BY SocialNumbers
  <2>7. SumOf(answers, q) = SumFunctionOnSet(f, Users) /\ SumOf(answers', q) = SumFunctionOnSet(g, Users)
    BY <2>2 DEF SumOf
  <2>8. /\ \A u \in Users : f[u] \in Int /\ g[u] \in Int
        /\ \A u \in Users \ {a} : g[u] = f[u]
        /\ g[a] = IF q = p THEN f[a] + 1 ELSE f[a]
    <3>1. /\ \A u \in Users : answers[u][q] \in Nat
          /\ \A u \in Users \ {a} : answers'[u][q] = answers[u][q]
          /\ answers'[a][q] = IF q = p THEN answers[a][q] + 1 ELSE answers[a][q]
      BY <1>2, <1>6, SocialNumbers
    <3>2. \A u \in Users : f[u] = answers[u][q] /\ g[u] = answers'[u][q]
      BY <2>2
    <3>3. \A u \in Users : answers'[u][q] \in Int
      BY <3>1
    <3> QED BY <1>2, <3>1, <3>2, <3>3
  <2>9. SumFunctionOnSet(g, Users) = SumFunctionOnSet(f, Users) - f[a] + g[a]
    BY <1>2, <2>8, SumUpdate, CitizensAssumption
  <2>10. SumOf(answers', q) = IF q = p THEN SumOf(answers, q) + 1 ELSE SumOf(answers, q)
    BY <1>2, <2>6, <2>7, <2>8, <2>9
  <2> QED BY <1>0, <2>2, <2>3, <2>4, <2>5, <2>6, <2>10
<1>11. FollowsAreCounted'
  BY <1>3, <1>4, <1>5, FollowsSame DEF SocialCounts
<1> QED BY <1>8, <1>9, <1>10, <1>11 DEF SocialCounts

LEMMA ParticipantCounted ==
  ASSUME TypeOK, SocialCounts, NEW t \in Tasks, NEW v \in Users, Moves(t, v), Counted,
         IncrementQuestionParticipants(t)
  PROVE  SocialCounts'
<1>0. /\ task \in [Tasks -> Requests] /\ faults \in Nat /\ faults' \in Nat /\ faults <= faults'
      /\ participants \in [Questions -> Nat]
      /\ answers' = answers /\ correct' = correct /\ prizes' = prizes /\ follows' = follows
  BY TypeFacts DEF SocialTypeOK, Counted, IncrementQuestionParticipants
<1>1. PICK k, a, p, m : k = task[t] /\ a = task[t].user /\ p = task[t].question /\ m = task'[t]
  OBVIOUS
<1>2. k \in AnswerTask /\ k.pc = "participants" /\ a \in Users /\ p \in Questions
  BY <1>1, AnswerTaskAt DEF IncrementQuestionParticipants, At, AnswerSteps
<1>3. IF k.right THEN m = [k EXCEPT !.pc = "prize"] ELSE m = Resting
  BY <1>0, <1>1 DEF IncrementQuestionParticipants, Goto, Return, Step, Resting
<1>4. /\ k.right => m.pc = "prize" /\ m.user = a /\ m.question = p /\ m.right
      /\ ~ k.right => m.pc = "idle"
  BY <1>1, <1>2, <1>3 DEF AnswerTask, Resting
<1>5. \/ participants' = [participants EXCEPT ![p] = @ + 1] /\ faults' = faults
      \/ participants' = participants /\ faults' = faults + 1
  BY <1>1 DEF IncrementQuestionParticipants, Serve, Stumble, Fault
<1>6. PrizesAreEarned'
  BY <1>1, <1>4 DEF SocialCounts, PrizesAreEarned, Moves, At
<1>7. AnswersAreCounted'
  <2>1. ASSUME NEW u \in Users, NEW q \in Questions
        PROVE  /\ t \notin AtQuestion({"answer"}, u, q)'
               /\ t \in Rewarding(u, q) <=> t \in Rewarding(u, q)'
    BY <1>1, <1>2, <1>4 DEF AtQuestion, Rewarding
  <2> QED BY <1>0, <2>1, AnswersSame DEF SocialCounts
<1>8. ParticipantsAreCounted'
  <2>1. SUFFICES ASSUME NEW q \in Questions
        PROVE  /\ SumOf(answers, q) - participants'[q] - Cardinality(Counting(q)') >= 0
               /\ SumOf(answers, q) - participants'[q] - Cardinality(Counting(q)') <= faults'
    BY <1>0 DEF ParticipantsAreCounted, SumOf
  <2>2. PICK A, B : A = Counting(q) /\ B = Counting(q)'
    OBVIOUS
  <2>3. t \notin B /\ (t \in A <=> q = p)
    BY <1>1, <1>2, <1>4, <2>2 DEF Counting, At
  <2>4. /\ Cardinality(A) \in Nat /\ Cardinality(B) \in Nat
        /\ t \in A => Cardinality(B) = Cardinality(A) - 1
        /\ t \notin A => Cardinality(B) = Cardinality(A)
    BY <2>2, <2>3, CountingCount
  <2>5. /\ SumOf(answers, q) - participants[q] - Cardinality(A) >= 0
        /\ SumOf(answers, q) - participants[q] - Cardinality(A) <= faults
    BY <2>2 DEF SocialCounts, ParticipantsAreCounted
  <2>6. SumOf(answers, q) \in Int /\ participants[q] \in Nat
    BY SocialNumbers
  <2>7. CASE participants' = [participants EXCEPT ![p] = @ + 1] /\ faults' = faults
    <3>1. participants'[q] = IF q = p THEN participants[q] + 1 ELSE participants[q]
      BY <1>0, <1>2, <2>7
    <3> QED BY <1>0, <2>2, <2>3, <2>4, <2>5, <2>6, <2>7, <3>1
  <2>8. CASE participants' = participants /\ faults' = faults + 1
    BY <1>0, <2>2, <2>3, <2>4, <2>5, <2>6, <2>8
  <2> QED BY <1>5, <2>7, <2>8
<1>9. FollowsAreCounted'
  BY <1>0, <1>1, <1>4, FollowsSame DEF SocialCounts
<1> QED BY <1>6, <1>7, <1>8, <1>9 DEF SocialCounts

LEMMA PrizeCounted ==
  ASSUME TypeOK, SocialCounts, NEW t \in Tasks, NEW v \in Users, Moves(t, v), Counted,
         AddChallengePrize(t)
  PROVE  SocialCounts'
<1>0. /\ task \in [Tasks -> Requests] /\ faults \in Nat /\ faults' \in Nat /\ faults <= faults'
      /\ prizes \in [Users -> [Questions -> Nat]]
      /\ answers' = answers /\ correct' = correct /\ participants' = participants /\ follows' = follows
  BY TypeFacts DEF SocialTypeOK, Counted, AddChallengePrize
<1>1. PICK k, a, p, m : k = task[t] /\ a = task[t].user /\ p = task[t].question /\ m = task'[t]
  OBVIOUS
<1>2. k \in AnswerTask /\ k.pc = "prize" /\ a \in Users /\ p \in Questions /\ k.right
  BY <1>1, AnswerTaskAt DEF AddChallengePrize, At, AnswerSteps, SocialCounts, PrizesAreEarned
<1>3. m = Resting /\ m.pc = "idle"
  BY <1>0, <1>1 DEF AddChallengePrize, Return, Step, Resting
<1>4. \/ prizes' = [prizes EXCEPT ![a][p] = @ + 1] /\ faults' = faults
      \/ prizes' = prizes /\ faults' = faults + 1
  BY <1>1 DEF AddChallengePrize, Serve, Stumble, Fault
<1>5. PrizesAreEarned'
  BY <1>1, <1>3 DEF SocialCounts, PrizesAreEarned, Moves, At
<1>6. AnswersAreCounted'
  <2>1. SUFFICES ASSUME NEW u \in Users, NEW q \in Questions
        PROVE  /\ answers[u][q] + Cardinality(AtQuestion({"answer"}, u, q)') <= Cardinality(Tasks)
               /\ correct[u][q] - prizes'[u][q] - Cardinality(Rewarding(u, q)') >= 0
               /\ correct[u][q] - prizes'[u][q] - Cardinality(Rewarding(u, q)') <= faults'
    BY <1>0 DEF AnswersAreCounted
  <2>2. PICK A, B, R, S : /\ A = AtQuestion({"answer"}, u, q) /\ B = AtQuestion({"answer"}, u, q)'
                          /\ R = Rewarding(u, q) /\ S = Rewarding(u, q)'
    OBVIOUS
  <2>3. t \notin A /\ t \notin B /\ t \notin S /\ (t \in R <=> u = a /\ q = p)
    BY <1>1, <1>2, <1>3, <2>2 DEF AtQuestion, Rewarding
  <2>4. Cardinality(A) \in Nat /\ Cardinality(B) = Cardinality(A) /\ Cardinality(Tasks) \in Nat
    BY <2>2, <2>3, AnswersCount
  <2>5. /\ Cardinality(R) \in Nat /\ Cardinality(S) \in Nat
        /\ t \in R => Cardinality(S) = Cardinality(R) - 1
        /\ t \notin R => Cardinality(S) = Cardinality(R)
    BY <2>2, <2>3, RewardsCount
  <2>6. /\ answers[u][q] + Cardinality(A) <= Cardinality(Tasks)
        /\ correct[u][q] - prizes[u][q] - Cardinality(R) >= 0
        /\ correct[u][q] - prizes[u][q] - Cardinality(R) <= faults
    BY <2>2 DEF SocialCounts, AnswersAreCounted
  <2>7. answers[u][q] \in Nat /\ correct[u][q] \in Nat /\ prizes[u][q] \in Nat
    BY SocialNumbers
  <2>8. CASE prizes' = [prizes EXCEPT ![a][p] = @ + 1] /\ faults' = faults
    <3>1. prizes'[u][q] = IF u = a /\ q = p THEN prizes[u][q] + 1 ELSE prizes[u][q]
      BY <1>0, <1>2, <2>8
    <3> QED BY <1>0, <2>2, <2>3, <2>4, <2>5, <2>6, <2>7, <2>8, <3>1
  <2>9. CASE prizes' = prizes /\ faults' = faults + 1
    BY <1>0, <2>2, <2>3, <2>4, <2>5, <2>6, <2>7, <2>9
  <2> QED BY <1>4, <2>8, <2>9
<1>7. ParticipantsAreCounted'
  BY <1>0, <1>1, <1>2, <1>3, ParticipantsSame DEF SocialCounts
<1>8. FollowsAreCounted'
  BY <1>0, <1>1, <1>3, FollowsSame DEF SocialCounts
<1> QED BY <1>5, <1>6, <1>7, <1>8 DEF SocialCounts

LEMMA HasAnsweredCounted ==
  ASSUME TypeOK, SocialCounts, NEW t \in Tasks, NEW v \in Users, Moves(t, v), Counted,
         HasUserAnswered(t)
  PROVE  SocialCounts'
<1>0. task \in [Tasks -> Requests] /\ UNCHANGED social
  BY TypeFacts DEF HasUserAnswered
<1>1. PICK k, a, p, m : k = task[t] /\ a = task[t].user /\ p = task[t].question /\ m = task'[t]
  OBVIOUS
<1>2. k \in AnswerTask /\ k.pc = "answered" /\ a \in Users /\ p \in Questions
  BY <1>1, AnswerTaskAt DEF HasUserAnswered, At, AnswerSteps
<1>3. CASE Return(t)
  <2>1. m.pc = "idle"
    BY <1>0, <1>1, <1>3 DEF Return, Step
  <2> QED BY <1>0, <1>1, <1>2, <2>1, SocialQuiet
<1>4. CASE ~ Return(t)
  <2>1. m = [k EXCEPT !.pc = "answer"] /\ ~ (answers[a][p] > 0)
    BY <1>0, <1>1, <1>4 DEF HasUserAnswered, Goto, Step
  <2>2. m.pc = "answer" /\ m.user = a /\ m.question = p
    BY <1>1, <1>2, <2>1 DEF AnswerTask
  <2>3. answers[a][p] = 0
    BY <1>2, <2>1, SocialNumbers
  <2>4. AnswersAreCounted'
    <3>1. ASSUME NEW u \in Users, NEW q \in Questions
          PROVE  /\ t \in AtQuestion({"answer"}, u, q)' => answers[u][q] = 0
                 /\ t \in Rewarding(u, q) <=> t \in Rewarding(u, q)'
      BY <1>1, <1>2, <2>2, <2>3 DEF AtQuestion, Rewarding
    <3>2. answers' = answers /\ correct' = correct /\ prizes' = prizes
      BY <1>0 DEF social
    <3> QED BY <3>1, <3>2, AnswersSame DEF SocialCounts
  <2>5. PrizesAreEarned'
    BY <1>1, <2>2 DEF SocialCounts, PrizesAreEarned, Moves, At
  <2>6. ParticipantsAreCounted'
    BY <1>0, <1>1, <1>2, <2>2, ParticipantsSame DEF SocialCounts, social
  <2>7. FollowsAreCounted'
    BY <1>0, <1>1, <2>2, FollowsSame DEF SocialCounts, social
  <2> QED BY <2>4, <2>5, <2>6, <2>7 DEF SocialCounts
<1> QED BY <1>3, <1>4

LEMMA ExistsCounted ==
  ASSUME TypeOK, SocialCounts, NEW t \in Tasks, NEW v \in Users, Moves(t, v), Counted,
         ExistsFollow(t)
  PROVE  SocialCounts'
<1>0. task \in [Tasks -> Requests] /\ UNCHANGED social
  BY TypeFacts DEF ExistsFollow
<1>1. PICK k, a, b, m : k = task[t] /\ a = task[t].user /\ b = task[t].target /\ m = task'[t]
  OBVIOUS
<1>2. k \in FollowTask /\ k.pc = "exists" /\ a \in Users /\ b \in Users
  BY <1>1, FollowTaskAt DEF ExistsFollow, At, FollowSteps
<1>3. CASE Return(t)
  <2>1. m.pc = "idle"
    BY <1>0, <1>1, <1>3 DEF Return, Step
  <2> QED BY <1>0, <1>1, <1>2, <2>1, SocialQuiet
<1>4. CASE ~ Return(t)
  <2>1. m = [k EXCEPT !.pc = "follow"] /\ follows[a][b] = 0
    BY <1>0, <1>1, <1>4 DEF ExistsFollow, Goto, Step
  <2>2. m.pc = "follow" /\ m.user = a /\ m.target = b
    BY <1>1, <1>2, <2>1 DEF FollowTask
  <2>3. AnswersAreCounted'
    <3>1. ASSUME NEW u \in Users, NEW q \in Questions
          PROVE  /\ t \notin AtQuestion({"answer"}, u, q)'
                 /\ t \in Rewarding(u, q) <=> t \in Rewarding(u, q)'
      BY <1>1, <1>2, <2>2 DEF AtQuestion, Rewarding
    <3>2. answers' = answers /\ correct' = correct /\ prizes' = prizes
      BY <1>0 DEF social
    <3> QED BY <3>1, <3>2, AnswersSame DEF SocialCounts
  <2>4. PrizesAreEarned'
    BY <1>1, <2>2 DEF SocialCounts, PrizesAreEarned, Moves, At
  <2>5. ParticipantsAreCounted'
    BY <1>0, <1>1, <1>2, <2>2, ParticipantsSame DEF SocialCounts, social
  <2>6. FollowsAreCounted'
    BY <1>0, <1>1, <2>1, <2>2, FollowsSame DEF SocialCounts, social
  <2> QED BY <2>3, <2>4, <2>5, <2>6 DEF SocialCounts
<1> QED BY <1>3, <1>4

LEMMA FollowCounted ==
  ASSUME TypeOK, SocialCounts, NEW t \in Tasks, NEW v \in Users, Moves(t, v), Counted,
         CreateFollow(t)
  PROVE  SocialCounts'
<1>0. /\ task \in [Tasks -> Requests] /\ follows \in [Users -> [Users -> Nat]]
      /\ answers' = answers /\ correct' = correct /\ participants' = participants /\ prizes' = prizes
  BY TypeFacts DEF CreateFollow, SocialTypeOK
<1>1. PICK k, a, b, m : k = task[t] /\ a = task[t].user /\ b = task[t].target /\ m = task'[t]
  OBVIOUS
<1>2. k \in FollowTask /\ k.pc = "follow" /\ a \in Users /\ b \in Users
  BY <1>1, FollowTaskAt DEF CreateFollow, At, FollowSteps
<1>3. m.pc = "idle" /\ follows' = [follows EXCEPT ![a][b] = @ + 1]
  BY <1>0, <1>1 DEF CreateFollow, Return, Step
<1>4. AnswersAreCounted'
  <2>1. ASSUME NEW u \in Users, NEW q \in Questions
        PROVE  /\ t \notin AtQuestion({"answer"}, u, q)'
               /\ t \in Rewarding(u, q) <=> t \in Rewarding(u, q)'
    BY <1>1, <1>2, <1>3 DEF AtQuestion, Rewarding
  <2> QED BY <1>0, <2>1, AnswersSame DEF SocialCounts
<1>5. PrizesAreEarned'
  BY <1>1, <1>3 DEF SocialCounts, PrizesAreEarned, Moves, At
<1>6. ParticipantsAreCounted'
  BY <1>0, <1>1, <1>2, <1>3, ParticipantsSame DEF SocialCounts
<1>7. FollowsAreCounted'
  <2>1. SUFFICES ASSUME NEW u \in Users, NEW w \in Users
        PROVE  follows'[u][w] + Cardinality(Following(u, w)') <= Cardinality(Tasks)
    BY DEF FollowsAreCounted
  <2>2. PICK A, B : A = Following(u, w) /\ B = Following(u, w)'
    OBVIOUS
  <2>3. t \notin B /\ (t \in A <=> u = a /\ w = b)
    BY <1>1, <1>2, <1>3, <2>2 DEF Following, At
  <2>4. /\ Cardinality(A) \in Nat /\ Cardinality(B) \in Nat /\ Cardinality(Tasks) \in Nat
        /\ t \in A => Cardinality(B) = Cardinality(A) - 1
        /\ t \notin A => Cardinality(B) = Cardinality(A)
    BY <2>2, <2>3, FollowsCount
  <2>5. follows[u][w] + Cardinality(A) <= Cardinality(Tasks) /\ follows[u][w] \in Nat
    BY <2>2, SocialNumbers DEF SocialCounts, FollowsAreCounted
  <2>6. follows'[u][w] = IF u = a /\ w = b THEN follows[u][w] + 1 ELSE follows[u][w]
    BY <1>0, <1>2, <1>3
  <2> QED BY <2>2, <2>3, <2>4, <2>5, <2>6
<1> QED BY <1>4, <1>5, <1>6, <1>7 DEF SocialCounts

LEMMA UnfollowCounted ==
  ASSUME TypeOK, SocialCounts, NEW a \in registered, NEW b \in registered, UnfollowActs(a, b)
  PROVE  SocialCounts'
<1>0. /\ follows \in [Users -> [Users -> Nat]] /\ task' = task /\ faults' = faults
      /\ follows' = [follows EXCEPT ![a][b] = 0] /\ a \in Users /\ b \in Users
      /\ answers' = answers /\ correct' = correct /\ participants' = participants /\ prizes' = prizes
  BY TypeFacts DEF UnfollowActs, Unfollow, SocialTypeOK, CitizensTypeOK
<1>1. AnswersAreCounted'
  BY <1>0 DEF SocialCounts, AnswersAreCounted, AtQuestion, Rewarding
<1>2. ParticipantsAreCounted'
  BY <1>0 DEF SocialCounts, ParticipantsAreCounted, Counting, SumOf, At
<1>3. FollowsAreCounted'
  <2>1. SUFFICES ASSUME NEW u \in Users, NEW w \in Users
        PROVE  follows'[u][w] + Cardinality(Following(u, w)) <= Cardinality(Tasks)
    BY <1>0 DEF FollowsAreCounted, Following, At
  <2>2. follows[u][w] + Cardinality(Following(u, w)) <= Cardinality(Tasks) /\ follows[u][w] \in Nat
    BY SocialNumbers DEF SocialCounts, FollowsAreCounted
  <2>3. follows'[u][w] \in {0, follows[u][w]}
    BY <1>0
  <2>4. Cardinality(Following(u, w)) \in Nat /\ Cardinality(Tasks) \in Nat
    BY FS_Subset, FS_CardinalityType, CitizensAssumption DEF Following
  <2> QED BY <2>2, <2>3, <2>4
<1> QED BY <1>0, <1>1, <1>2, <1>3 DEF SocialCounts, PrizesAreEarned, At

LEMMA SocialCountsNext ==
  ASSUME Basics, SocialCounts, [Next]_vars
  PROVE  SocialCounts'
<1>0. TypeOK /\ RequestsAreSound
  BY DEF Basics
<1>1. ASSUME task' = task, faults' = faults, UNCHANGED social PROVE SocialCounts'
  BY <1>1 DEF SocialCounts, PrizesAreEarned, AnswersAreCounted, ParticipantsAreCounted,
       FollowsAreCounted, AtQuestion, Rewarding, Counting, Following, SumOf, At, social
<1>2. CASE UNCHANGED vars
  BY <1>1, <1>2 DEF vars, requests
<1>3. ASSUME NEW t \in Tasks, NEW v \in Users, Acts(t, v) PROVE SocialCounts'
  <2>1. Moves(t, v) /\ Counted
    BY <1>3, ActsMoves
  <2>2. CASE LevelsActs(t, v)
    <3>1. /\ task[t].pc \notin {"answer", "participants", "prize", "follow"}
          /\ task'[t].pc \notin {"answer", "participants", "prize", "follow"} /\ UNCHANGED social
      BY <2>2 DEF LevelsActs, LevelsMove, LevelsTask, Resting
    <3> QED BY <1>0, <2>1, <3>1, SocialQuiet
  <2>3. CASE SessionsActs(t, v)
    <3>1. /\ task[t].pc \notin {"answer", "participants", "prize", "follow"}
          /\ task'[t].pc \notin {"answer", "participants", "prize", "follow"} /\ UNCHANGED social
      BY <2>3 DEF SessionsActs, SessionsMove, CallbackTask, CallbackSteps, LogoutTask, LogoutSteps, Resting
    <3> QED BY <1>0, <2>1, <3>1, SocialQuiet
  <2>4. CASE SecurityActs(t, v)
    <3>1. /\ task[t].pc \notin {"answer", "participants", "prize", "follow"}
          /\ task'[t].pc \notin {"answer", "participants", "prize", "follow"} /\ UNCHANGED social
      BY <2>4 DEF SecurityActs, SecurityMove, SecureTask, SecureSteps, VerifyTask, VerifySteps, Resting
    <3> QED BY <1>0, <2>1, <3>1, SocialQuiet
  <2>5. CASE FailsFor(t, v)
    <3>1. /\ faults' > faults /\ UNCHANGED social
          /\ task'[t].pc \notin {"answer", "participants", "prize", "follow"}
      <4>1. UNCHANGED social
        BY <2>5 DEF FailsFor
      <4> QED BY <2>5, <4>1 DEF FailsFor, Resting
    <3> QED BY <1>0, <2>1, <3>1, SocialQuiet
  <2>6. CASE SocialActs(t, v)
    <3>0. SocialStep(t) /\ task \in [Tasks -> Requests]
      BY <1>0, <2>6, TypeFacts DEF SocialActs
    <3>1. CASE \/ \E u \in registered, q \in Questions, right \in BOOLEAN : SubmitAnswer(t, u, q, right)
               \/ \E u \in registered, w \in registered : Follow(t, u, w)
      <4>1. /\ task[t].pc = "idle" /\ UNCHANGED social
            /\ task'[t].pc \in {"answered", "exists"}
        BY <3>0, <3>1 DEF SubmitAnswer, Follow, Start, Step, At
      <4>2. task'[t].pc \notin {"answer", "participants", "prize", "follow"}
        BY <4>1
      <4>3. task[t].pc \notin {"answer", "participants", "prize", "follow"}
        BY <4>1
      <4> QED BY <1>0, <2>1, <4>1, <4>2, <4>3, SocialQuiet
    <3>2. CASE HasUserAnswered(t) \/ CreateUserAnswer(t)
      BY <1>0, <2>1, <3>2, HasAnsweredCounted, AnswerCounted
    <3>3. CASE IncrementQuestionParticipants(t)
      BY <1>0, <2>1, <3>3, ParticipantCounted
    <3>4. CASE AddChallengePrize(t)
      BY <1>0, <2>1, <3>4, PrizeCounted
    <3>5. CASE ExistsFollow(t) \/ CreateFollow(t)
      BY <1>0, <2>1, <3>5, ExistsCounted, FollowCounted
    <3> QED BY <3>0, <3>1, <3>2, <3>3, <3>4, <3>5 DEF SocialStep
  <2> QED BY <1>3, <2>2, <2>3, <2>4, <2>5, <2>6 DEF Acts
<1>4. ASSUME NEW u \in registered, NEW w \in registered, AsideActs(u, w) PROVE SocialCounts'
  <2>1. CASE TradeActs(u) \/ LogActs(u)
    <3>1. UNCHANGED social
      BY <2>1 DEF TradeActs, LogActs
    <3> QED BY <1>1, <1>4, <3>1, AsideKeeps
  <2>2. CASE UnfollowActs(u, w)
    BY <1>0, <2>2, UnfollowCounted
  <2> QED BY <1>4, <2>1, <2>2 DEF AsideActs
<1> QED BY <1>0, <1>2, <1>3, <1>4, ActCases

LEMMA SocialCountsInit == Init => SocialCounts
<1>1. SUFFICES ASSUME Init PROVE SocialCounts
  OBVIOUS
<1>2. /\ \A t \in Tasks : task[t].pc = "idle"
      /\ faults = 0
      /\ answers = [u \in Users |-> [q \in Questions |-> 0]] /\ correct = answers /\ prizes = answers
      /\ participants = [q \in Questions |-> 0]
      /\ follows = [u \in Users |-> [v \in Users |-> 0]]
  BY <1>1 DEF Init, CitizensInit, SocialInit
<1>3. Cardinality({}) = 0 /\ Cardinality(Tasks) \in Nat
  BY FS_EmptySet, FS_CardinalityType, CitizensAssumption
<1>4. PrizesAreEarned
  BY <1>2 DEF PrizesAreEarned, At
<1>5. AnswersAreCounted
  <2>1. ASSUME NEW u \in Users, NEW q \in Questions
        PROVE  AtQuestion({"answer"}, u, q) = {} /\ Rewarding(u, q) = {}
               /\ answers[u][q] = 0 /\ correct[u][q] = 0 /\ prizes[u][q] = 0
    BY <1>2 DEF AtQuestion, Rewarding
  <2>2. ASSUME NEW u \in Users, NEW q \in Questions
        PROVE  /\ answers[u][q] + Cardinality(AtQuestion({"answer"}, u, q)) <= Cardinality(Tasks)
               /\ correct[u][q] - prizes[u][q] - Cardinality(Rewarding(u, q)) = 0
    <3>1. PICK A, R, T : A = AtQuestion({"answer"}, u, q) /\ R = Rewarding(u, q) /\ T = Tasks
      OBVIOUS
    <3>2. A = {} /\ R = {} /\ answers[u][q] = 0 /\ correct[u][q] = 0 /\ prizes[u][q] = 0
      BY <2>1, <3>1
    <3>3. answers[u][q] + Cardinality(A) <= Cardinality(T)
      BY <1>3, <3>1, <3>2
    <3>4. correct[u][q] - prizes[u][q] - Cardinality(R) = 0
      BY <1>3, <3>2
    <3> QED BY <3>1, <3>3, <3>4
  <2>3. 0 >= 0 /\ 0 <= faults
    BY <1>2
  <2> QED BY <2>2, <2>3 DEF AnswersAreCounted
<1>6. ParticipantsAreCounted
  <2>1. ASSUME NEW q \in Questions
        PROVE  Counting(q) = {} /\ participants[q] = 0 /\ SumOf(answers, q) = 0
    <3>1. PICK f : f = [u \in Users |-> answers[u][q]]
      OBVIOUS
    <3>2. \A u \in Users : f[u] = 0
      BY <1>2, <3>1
    <3>3. SumFunctionOnSet(f, Users) = 0 * Cardinality(Users)
      BY <3>2, SumConstant, CitizensAssumption
    <3>4. Cardinality(Users) \in Nat
      BY FS_CardinalityType, CitizensAssumption
    <3> QED BY <1>2, <3>1, <3>3, <3>4 DEF Counting, At, SumOf
  <2>2. ASSUME NEW q \in Questions
        PROVE  SumOf(answers, q) - participants[q] - Cardinality(Counting(q)) = 0
    BY <1>3, <2>1
  <2>3. 0 >= 0 /\ 0 <= faults
    BY <1>2
  <2> QED BY <2>2, <2>3 DEF ParticipantsAreCounted
<1>7. FollowsAreCounted
  <2>1. ASSUME NEW u \in Users, NEW w \in Users
        PROVE  Following(u, w) = {} /\ follows[u][w] = 0
    BY <1>2 DEF Following, At
  <2> QED BY <1>3, <2>1 DEF FollowsAreCounted
<1> QED BY <1>4, <1>5, <1>6, <1>7 DEF SocialCounts

LEMMA SocialCountsImply ==
  ASSUME Basics, SocialCounts
  PROVE  SocialInv
<1>0. TypeOK
  BY DEF Basics
<1>1. AttemptsAreBounded
  <2>1. SUFFICES ASSUME NEW u \in Users, NEW q \in Questions
        PROVE  answers[u][q] <= Cardinality(Tasks)
    BY DEF AttemptsAreBounded
  <2>2. PICK A : A = AtQuestion({"answer"}, u, q)
    OBVIOUS
  <2>3. Cardinality(A) \in Nat /\ Cardinality(Tasks) \in Nat
    BY <2>2, FS_Subset, FS_CardinalityType, CitizensAssumption DEF AtQuestion
  <2>4. answers[u][q] + Cardinality(A) <= Cardinality(Tasks) /\ answers[u][q] \in Nat
    BY <1>0, <2>2, SocialNumbers DEF SocialCounts, AnswersAreCounted
  <2> QED BY <2>3, <2>4
<1>2. PrizesAreForAnswers
  <2>1. SUFFICES ASSUME NEW u \in Users, NEW q \in Questions
        PROVE  /\ correct[u][q] - prizes[u][q] >= 0
               /\ correct[u][q] - prizes[u][q] <= faults + Answering(u, q, {"participants", "prize"})
    BY DEF PrizesAreForAnswers
  <2>2. PICK R, D : /\ R = Rewarding(u, q)
                    /\ D = {t \in Busy(u) : /\ task[t].pc \in {"participants", "prize"}
                                            /\ task[t].question = q}
    OBVIOUS
  <2>3. R \subseteq D /\ D \subseteq Tasks
    BY <2>2 DEF Rewarding, AtQuestion, Busy, At
  <2>4. Cardinality(R) \in Nat /\ Cardinality(D) \in Nat /\ Cardinality(R) <= Cardinality(D)
    BY <2>3, FS_Subset, FS_CardinalityType, CitizensAssumption
  <2>5. /\ correct[u][q] - prizes[u][q] - Cardinality(R) >= 0
        /\ correct[u][q] - prizes[u][q] - Cardinality(R) <= faults
    BY <2>2 DEF SocialCounts, AnswersAreCounted
  <2>6. correct[u][q] \in Nat /\ prizes[u][q] \in Nat /\ faults \in Nat
    BY <1>0, SocialNumbers
  <2>7. Answering(u, q, {"participants", "prize"}) = Cardinality(D)
    BY <2>2 DEF Answering
  <2> QED BY <2>4, <2>5, <2>6, <2>7
<1>3. ParticipantsAreAnswers
  <2>1. ASSUME NEW q \in Questions
        PROVE  /\ FoldFunction(+, 0, [u \in Users |-> answers[u][q]]) - participants[q] >= 0
               /\ FoldFunction(+, 0, [u \in Users |-> answers[u][q]]) - participants[q]
                    <= faults + Cardinality({t \in Tasks : At(t, "participants") /\ task[t].question = q})
    <3>1. PICK n, A : /\ n = FoldFunction(+, 0, [u \in Users |-> answers[u][q]])
                      /\ A = Counting(q)
      OBVIOUS
    <3>2. DOMAIN [u \in Users |-> answers[u][q]] = Users
      OBVIOUS
    <3>3. n = SumOf(answers, q)
      <4>1. FoldFunction(+, 0, [u \in Users |-> answers[u][q]])
              = SumFunctionOnSet([u \in Users |-> answers[u][q]], DOMAIN [u \in Users |-> answers[u][q]])
        BY DEF FoldFunction, SumFunctionOnSet
      <4> QED BY <3>1, <3>2, <4>1 DEF SumOf
    <3>4. Cardinality(A) \in Nat
      BY <3>1, FS_Subset, FS_CardinalityType, CitizensAssumption DEF Counting
    <3>5. /\ SumOf(answers, q) - participants[q] - Cardinality(A) >= 0
          /\ SumOf(answers, q) - participants[q] - Cardinality(A) <= faults
      BY <3>1 DEF SocialCounts, ParticipantsAreCounted
    <3>6. SumOf(answers, q) \in Int /\ participants[q] \in Nat /\ faults \in Nat
      BY <1>0, SocialNumbers
    <3>7. Cardinality({t \in Tasks : At(t, "participants") /\ task[t].question = q}) = Cardinality(A)
      BY <3>1 DEF Counting
    <3>8. n - participants[q] >= 0 /\ n - participants[q] <= faults + Cardinality(A)
      BY <3>3, <3>4, <3>5, <3>6
    <3> QED BY <3>1, <3>7, <3>8
  <2> QED BY <2>1 DEF ParticipantsAreAnswers
<1>4. FollowsAreBounded
  <2>1. SUFFICES ASSUME NEW u \in Users, NEW w \in Users
        PROVE  follows[u][w] <= Cardinality(Tasks)
    BY DEF FollowsAreBounded
  <2>2. PICK A : A = Following(u, w)
    OBVIOUS
  <2>3. Cardinality(A) \in Nat /\ Cardinality(Tasks) \in Nat
    BY <2>2, FS_Subset, FS_CardinalityType, CitizensAssumption DEF Following
  <2>4. follows[u][w] + Cardinality(A) <= Cardinality(Tasks) /\ follows[u][w] \in Nat
    BY <1>0, <2>2, SocialNumbers DEF SocialCounts, FollowsAreCounted
  <2> QED BY <2>3, <2>4
<1> QED BY <1>1, <1>2, <1>3, <1>4 DEF SocialInv

(* However requests of social-service overlap or fail: an answer and a     *)
(* follow are recorded no more often than requests run at a time, a prize  *)
(* is credited only for a recorded correct answer, once each, and answers  *)
(* that have no prize or are not among the participants are those of a     *)
(* request under way or of one that failed (challenge_service.go,          *)
(* follow_service.go).                                                     *)
THEOREM SocialKept == Spec => []SocialInv
<1>1. Init => Basics /\ SocialCounts
  BY BasicsInit, SocialCountsInit
<1>2. Basics /\ SocialCounts /\ [Next]_vars => Basics' /\ SocialCounts'
  BY BasicsNext, SocialCountsNext
<1>3. Basics /\ SocialCounts => SocialInv
  BY SocialCountsImply
<1> QED BY <1>1, <1>2, <1>3, PTL DEF Spec

Locking(u) == {t \in Tasks : At(t, "lock") /\ task[t].user = u /\ task[t].row = 0}

AccountsAreCounted ==
  \A u \in Users : Len(security[u]) + Cardinality(Locking(u)) <= Cardinality(Tasks)

(* A logout that waits to write user_logs read it as it is, if it is alone. *)
Writing == {"writeHours", "writeScore"}
DepositsInStep ==
  /\ DepositsAreKept
  /\ \A t \in Tasks : task[t].pc \in Writing =>
       /\ task[t].log.deposit <= deposited[task[t].user]
       /\ "logout" \notin overlap[task[t].user] => task[t].log = log[task[t].user]

-----------------------------------------------------------------------------
(* The rows of account_securities *)

LEMMA LockingCount ==
  ASSUME NEW t \in Tasks, NEW v, Moves(t, v), NEW u \in Users,
         NEW A, NEW B, A = Locking(u), B = Locking(u)'
  PROVE  /\ Cardinality(A) \in Nat /\ Cardinality(B) \in Nat /\ Cardinality(Tasks) \in Nat
         /\ Cardinality(B) <= Cardinality(Tasks)
         /\ t \in A /\ t \notin B => Cardinality(B) = Cardinality(A) - 1
         /\ t \notin A /\ t \in B => Cardinality(B) = Cardinality(A) + 1
         /\ (t \in A <=> t \in B) => Cardinality(B) = Cardinality(A)
<1>1. A \in SUBSET Tasks /\ B \in SUBSET Tasks
  BY DEF Locking
<1>2. \A s \in Tasks \ {t} : s \in A <=> s \in B
  BY DEF Locking, At, Moves
<1> QED BY <1>1, <1>2, CountOne, CitizensAssumption

(* Rows are added by requests that wait to lock and found none. *)
LEMMA LockingStep ==
  ASSUME TypeOK, AccountsAreCounted, NEW t \in Tasks, NEW v, Moves(t, v),
         \A u \in Users :
           \/ /\ Len(security'[u]) = Len(security[u])
              /\ t \in Locking(u)' => Len(security[u]) = 0
           \/ Len(security'[u]) = Len(security[u]) + 1 /\ t \in Locking(u) /\ t \notin Locking(u)'
  PROVE  AccountsAreCounted'
<1>1. SUFFICES ASSUME NEW u \in Users
      PROVE  Len(security'[u]) + Cardinality(Locking(u)') <= Cardinality(Tasks)
  BY DEF AccountsAreCounted
<1>2. PICK A, B : A = Locking(u) /\ B = Locking(u)'
  OBVIOUS
<1>3. /\ Cardinality(A) \in Nat /\ Cardinality(B) \in Nat /\ Cardinality(Tasks) \in Nat
      /\ Cardinality(B) <= Cardinality(Tasks)
      /\ t \notin B => Cardinality(B) <= Cardinality(A)
      /\ t \in A /\ t \notin B => Cardinality(B) = Cardinality(A) - 1
  BY <1>2, LockingCount
<1>4. Len(security[u]) \in Nat
  BY TypeFacts DEF SecurityTypeOK
<1>5. Len(security[u]) + Cardinality(A) <= Cardinality(Tasks)
  BY <1>2 DEF AccountsAreCounted
<1>6. CASE Len(security'[u]) = Len(security[u]) /\ (t \in B => Len(security[u]) = 0)
  BY <1>2, <1>3, <1>4, <1>5, <1>6
<1>7. CASE Len(security'[u]) = Len(security[u]) + 1 /\ t \in A /\ t \notin B
  BY <1>2, <1>3, <1>4, <1>5, <1>7
<1> QED BY <1>2, <1>6, <1>7

LEMMA AccountsCountedSecurity ==
  ASSUME TypeOK, AccountsAreCounted, NEW t \in Tasks, NEW v \in Users, SecurityActs(t, v)
  PROVE  AccountsAreCounted'
<1>0. /\ task \in [Tasks -> Requests] /\ security \in [Users -> Seq(BOOLEAN)]
      /\ Moves(t, v) /\ SecurityStep(t)
  BY TypeFacts DEF SecurityTypeOK, SecurityActs, SecurityMove
<1>1. PICK k : k = task[t]
  OBVIOUS
<1>2. CASE GetByUserID(t)
  <2>1. k \in SecureTask /\ k.user \in Users
    BY <1>1, <1>2, SecureTaskAt DEF GetByUserID, At, SecureSteps
  <2>2. PICK n : n = IF security[k.user] = <<>> THEN 0 ELSE 1
    OBVIOUS
  <2>3. task'[t] = [k EXCEPT !.pc = "lock", !.row = n] /\ security' = security
    BY <1>0, <1>1, <1>2, <2>2 DEF GetByUserID, Step, secrets
  <2>4. task'[t].user = k.user /\ task'[t].row = n
    BY <2>1, <2>3 DEF SecureTask
  <2>5. n = 0 => Len(security[k.user]) = 0
    BY <1>0, <2>1, <2>2
  <2>6. \A u \in Users : t \in Locking(u)' => Len(security[u]) = 0
    BY <2>4, <2>5 DEF Locking
  <2> QED BY <1>0, <2>3, <2>6, LockingStep
<1>3. CASE LockAccount(t)
  <2>1. k \in SecureTask /\ k.user \in Users /\ k.pc = "lock" /\ k.known \in BOOLEAN
    BY <1>1, <1>3, SecureTaskAt DEF LockAccount, At, SecureSteps
  <2>2. task'[t].pc \in {"otp", "phone"}
    <3>1. PICK pc, n : task'[t] = [k EXCEPT !.pc = pc, !.row = n] /\ pc \in {"otp", "phone"}
      BY <1>0, <1>1, <1>3 DEF LockAccount, Step
    <3> QED BY <2>1, <3>1 DEF SecureTask
  <2>3. \A u \in Users : t \notin Locking(u)'
    BY <2>2 DEF Locking, At
  <2>4. CASE k.row = 0
    <3>1. security' = [security EXCEPT ![k.user] = Append(@, FALSE)]
      BY <1>1, <1>3, <2>4 DEF LockAccount
    <3>2. t \in Locking(k.user)
      BY <1>1, <2>1, <2>4 DEF Locking, At
    <3>3. \A u \in Users : Len(Append(security[u], FALSE)) = Len(security[u]) + 1
      BY <1>0
    <3>4. ASSUME NEW u \in Users
          PROVE  \/ Len(security'[u]) = Len(security[u])
                 \/ Len(security'[u]) = Len(security[u]) + 1 /\ t \in Locking(u)
      BY <1>0, <3>1, <3>2, <3>3
    <3> QED BY <1>0, <2>3, <3>4, LockingStep
  <2>5. CASE k.row # 0
    <3>1. security' = [security EXCEPT ![k.user] = [@ EXCEPT ![k.row] = FALSE]]
      BY <1>1, <1>3, <2>5 DEF LockAccount
    <3>2. Len([security[k.user] EXCEPT ![k.row] = FALSE]) = Len(security[k.user])
      BY <1>0, <2>1, FlagTyped
    <3>3. \A u \in Users : Len(security'[u]) = Len(security[u])
      BY <1>0, <2>1, <3>1, <3>2
    <3> QED BY <1>0, <2>3, <3>3, LockingStep
  <2> QED BY <2>4, <2>5
<1>4. CASE Unlock(t)
  <2>1. k \in VerifyTask /\ k.user \in Users
    BY <1>1, <1>4, VerifyTaskAt DEF Unlock, At, VerifySteps
  <2>2. task'[t] = [k EXCEPT !.pc = "delete"] /\ security' = [security EXCEPT ![k.user][k.row] = TRUE]
    BY <1>0, <1>1, <1>4 DEF Unlock, Goto, Step
  <2>3. task'[t].pc = "delete"
    BY <2>1, <2>2 DEF VerifyTask
  <2>4. Len([security[k.user] EXCEPT ![k.row] = TRUE]) = Len(security[k.user])
    BY <1>0, <2>1, FlagTyped
  <2>5. \A u \in Users : Len(security'[u]) = Len(security[u]) /\ t \notin Locking(u)'
    BY <1>0, <2>1, <2>2, <2>3, <2>4 DEF Locking, At
  <2> QED BY <1>0, <2>5, LockingStep
<1>5. CASE ~ (GetByUserID(t) \/ LockAccount(t) \/ Unlock(t))
  <2>1. security' = security /\ task'[t].pc # "lock"
    <3>1. CASE \E u \in registered, p \in Phones \union {NoPhone} : RequestAccountSecurity(t, u, p)
      BY <1>0, <3>1 DEF RequestAccountSecurity, Start, Step, secrets
    <3>2. CASE \E c \in DOMAIN codes : VerifyAccountSecurity(t, c)
      BY <1>0, <3>2 DEF VerifyAccountSecurity, Start, Step, secrets
    <3>3. CASE CheckPhone(t) \/ UpdatePhone(t) \/ GetOtp(t) \/ StoreOtp(t) \/ SendOTP(t)
      <4>1. k \in SecureTask /\ k.pc \notin {"account", "lock"} /\ security' = security
        BY <1>1, <3>3, SecureTaskAt
           DEF CheckPhone, UpdatePhone, GetOtp, StoreOtp, SendOTP, At, SecureSteps, secrets
      <4>2. CASE CheckPhone(t)
        BY <1>0, <1>1, <4>1, <4>2 DEF CheckPhone, Return, Goto, Step, SecureTask
      <4>3. CASE UpdatePhone(t)
        BY <1>0, <1>1, <4>1, <4>3 DEF UpdatePhone, Step, SecureTask
      <4>4. CASE GetOtp(t)
        <5>1. PICK n : n = FirstOtp(k.user, k.row)
          OBVIOUS
        <5>2. task'[t] = [k EXCEPT !.pc = "store", !.otp = n]
          BY <1>0, <1>1, <4>4, <5>1 DEF GetOtp, Step
        <5> QED BY <4>1, <5>2 DEF SecureTask
      <4>5. CASE StoreOtp(t)
        <5>1. PICK n : task'[t] = [k EXCEPT !.pc = "send", !.otp = n]
          BY <1>0, <1>1, <4>5 DEF StoreOtp, Step
        <5> QED BY <4>1, <5>1 DEF SecureTask
      <4>6. CASE SendOTP(t)
        BY <1>0, <4>6 DEF SendOTP, Return, Step
      <4> QED BY <3>3, <4>1, <4>2, <4>3, <4>4, <4>5, <4>6
    <3>4. CASE CheckLocked(t) \/ CompareCode(t) \/ MarkPhoneAsVerified(t) \/ DeleteOtp(t)
      <4>1. k \in VerifyTask /\ security' = security
        BY <1>1, <3>4, VerifyTaskAt
           DEF CheckLocked, CompareCode, MarkPhoneAsVerified, DeleteOtp, At, VerifySteps, secrets
      <4>2. task'[t] \in VerifyTask \union {Resting}
        <5>1. task[t] \notin SecureTask \union {Resting}
          BY <1>1, <4>1 DEF VerifyTask, SecureTask, VerifySteps, SecureSteps, Resting
        <5> QED BY <5>1 DEF SecurityActs, SecurityMove
      <4> QED BY <4>1, <4>2 DEF VerifyTask, VerifySteps, Resting
    <3> QED BY <1>0, <1>5, <3>1, <3>2, <3>3, <3>4 DEF SecurityStep
  <2> QED BY <1>0, <2>1, LockingStep DEF Locking, At
<1> QED BY <1>2, <1>3, <1>4, <1>5

LEMMA AccountsCountedNext ==
  ASSUME Basics, AccountsAreCounted, [Next]_vars
  PROVE  AccountsAreCounted'
<1>0. TypeOK /\ RequestsAreSound
  BY DEF Basics
<1>1. CASE UNCHANGED vars
  BY <1>1 DEF vars, requests, secrets, AccountsAreCounted, Locking, At
<1>2. ASSUME NEW t \in Tasks, NEW v \in Users, Acts(t, v) PROVE AccountsAreCounted'
  <2>1. CASE SecurityActs(t, v)
    BY <1>0, <2>1, AccountsCountedSecurity
  <2>2. CASE ~ SecurityActs(t, v)
    <3>1. security' = security /\ Moves(t, v)
      BY <1>2, <2>2, ActsMoves DEF Acts, LevelsActs, SessionsActs, SocialActs, FailsFor, secrets
    <3>2. task'[t].pc # "lock"
      BY <1>2, <2>2 DEF Acts, LevelsActs, LevelsMove, SessionsActs, SessionsMove, SocialActs,
         SocialMove, FailsFor, LevelsTask, CallbackTask, CallbackSteps, LogoutTask, LogoutSteps,
         AnswerTask, AnswerSteps, FollowTask, FollowSteps, Resting
    <3> QED BY <1>0, <3>1, <3>2, LockingStep DEF Locking, At
  <2> QED BY <2>1, <2>2
<1>3. ASSUME NEW u \in registered, NEW w \in registered, AsideActs(u, w) PROVE AccountsAreCounted'
  <2>1. task' = task /\ security' = security
    BY <1>3, AsideKeeps
  <2> QED BY <2>1 DEF AccountsAreCounted, Locking, At
<1> QED BY <1>0, <1>1, <1>2, <1>3, ActCases

LEMMA AccountsCountedInit == Init => AccountsAreCounted
<1>1. SUFFICES ASSUME Init, NEW u \in Users
      PROVE  Len(security[u]) + Cardinality(Locking(u)) <= Cardinality(Tasks)
  BY DEF AccountsAreCounted
<1>2. security[u] = <<>> /\ Locking(u) = {}
  BY <1>1 DEF Init, CitizensInit, SecurityInit, Locking, At
<1>3. Cardinality({}) = 0 /\ Cardinality(Tasks) \in Nat
  BY FS_EmptySet, FS_CardinalityType, CitizensAssumption
<1>4. PICK s, A, n : s = security[u] /\ A = Locking(u) /\ n = Cardinality(Tasks)
  OBVIOUS
<1>5. Len(s) + Cardinality(A) <= n
  BY <1>2, <1>3, <1>4
<1> QED BY <1>4, <1>5

LEMMA AccountsCountedImply ==
  ASSUME TypeOK, AccountsAreCounted
  PROVE  AccountsAreBounded
<1>1. SUFFICES ASSUME NEW u \in Users PROVE Len(security[u]) <= Cardinality(Tasks)
  BY DEF AccountsAreBounded
<1>2. Cardinality(Locking(u)) \in Nat /\ Cardinality(Tasks) \in Nat
  BY FS_Subset, FS_CardinalityType, CitizensAssumption DEF Locking
<1>3. Len(security[u]) \in Nat
  BY TypeFacts DEF SecurityTypeOK
<1>4. Len(security[u]) + Cardinality(Locking(u)) <= Cardinality(Tasks)
  BY DEF AccountsAreCounted
<1> QED BY <1>2, <1>3, <1>4

(* Deposits *)

(* What a step of t for v has to keep. *)
LEMMA DepositsStep ==
  ASSUME TypeOK, OverlapsAreNoted, DepositsInStep, NEW t \in Tasks, NEW v \in Users, Moves(t, v),
         log' = log \/ task[t].pc # "idle",
         \A u \in Users \ {v} : log'[u] = log[u] /\ deposited'[u] = deposited[u],
         deposited'[v] \in Nat, deposited'[v] >= deposited[v],
         log'[v].deposit <= deposited'[v],
         log'[v].deposit = deposited'[v] \/ "logout" \in overlap[v],
         task'[t].pc \in Writing =>
           /\ task'[t].log.deposit <= deposited'[v]
           /\ "logout" \notin overlap'[v] => task'[t].log = log'[v]
  PROVE  DepositsInStep'
<1>0. /\ task \in [Tasks -> Requests] /\ overlap \in [Users -> SUBSET Ops]
      /\ deposited \in [Users -> Nat] /\ log \in [Users -> UserLog]
  BY TypeFacts DEF LevelsTypeOK, CitizensTypeOK
<1>1. \A u \in Users : overlap[u] \subseteq overlap'[u]
  BY <1>0, MovesOverlap
<1>2. DepositsAreKept'
  <2>1. ASSUME NEW u \in Users
        PROVE  /\ log'[u].deposit <= deposited'[u]
               /\ log'[u].deposit = deposited'[u] \/ "logout" \in overlap'[u]
    <3>1. CASE u = v
      BY <1>1, <3>1
    <3>2. CASE u # v
      <4>1. /\ log[u].deposit <= deposited[u]
            /\ log[u].deposit = deposited[u] \/ "logout" \in overlap[u]
        BY DEF DepositsInStep, DepositsAreKept
      <4> QED BY <1>1, <3>2, <4>1
    <3> QED BY <3>1, <3>2
  <2> QED BY <2>1 DEF DepositsAreKept
<1>3. ASSUME NEW s \in Tasks, task'[s].pc \in Writing
      PROVE  /\ task'[s].log.deposit <= deposited'[task'[s].user]
             /\ "logout" \notin overlap'[task'[s].user] => task'[s].log = log'[task'[s].user]
  <2>1. CASE s = t
    <3>1. task'[t].user = v
      BY <1>3, <2>1 DEF Moves, Writing
    <3> QED BY <1>3, <2>1, <3>1
  <2>2. CASE s # t
    <3>1. task'[s] = task[s]
      BY <2>2 DEF Moves
    <3>2. PICK k, u : k = task[s] /\ u = task[s].user
      OBVIOUS
    <3>3. k.pc \in Writing /\ k.pc \in LogoutSteps
      BY <1>3, <3>1, <3>2 DEF Writing, LogoutSteps
    <3>4. k \in LogoutTask /\ u \in Users /\ k.log \in UserLog /\ k.op = "logout"
      BY <3>2, <3>3, LogoutTaskAt DEF LogoutTask
    <3>5. k.log.deposit <= deposited[u] /\ ("logout" \notin overlap[u] => k.log = log[u])
      BY <3>2, <3>3 DEF DepositsInStep
    <3>6. k.log.deposit \in Nat /\ deposited[u] \in Nat
      BY <1>0, <3>4 DEF UserLog
    <3>7. CASE u # v
      BY <1>1, <3>1, <3>2, <3>4, <3>5, <3>7
    <3>8. CASE u = v
      <4>1. k.log.deposit <= deposited'[u]
        BY <3>5, <3>6, <3>8
      <4>2. CASE log' = log
        BY <1>1, <3>1, <3>2, <3>4, <3>5, <4>1, <4>2
      <4>3. CASE task[t].pc # "idle"
        <5>1. task[t].user = v
          BY <4>3 DEF Moves
        <5>2. "logout" \in overlap[v]
          BY <2>2, <3>2, <3>3, <3>4, <3>8, <4>3, <5>1 DEF OverlapsAreNoted, At, Writing
        <5> QED BY <1>1, <3>1, <3>2, <3>4, <3>8, <4>1, <5>2
      <4> QED BY <4>2, <4>3
    <3> QED BY <3>7, <3>8
  <2> QED BY <2>1, <2>2
<1> QED BY <1>2, <1>3 DEF DepositsInStep

LEMMA DepositsInStepNext ==
  ASSUME Basics, DepositsInStep, [Next]_vars
  PROVE  DepositsInStep'
<1>0. /\ TypeOK /\ RequestsAreSound /\ OverlapsAreNoted /\ TypeOK'
      /\ task \in [Tasks -> Requests] /\ deposited \in [Users -> Nat] /\ log \in [Users -> UserLog]
  <2>1. TypeOK /\ RequestsAreSound /\ OverlapsAreNoted
    BY DEF Basics
  <2>2. TypeOK'
    BY <2>1, TypeNext
  <2> QED BY <2>1, <2>2, TypeFacts DEF LevelsTypeOK, CitizensTypeOK
<1>1. \A u \in Users : /\ log[u].deposit <= deposited[u]
                       /\ log[u].deposit = deposited[u] \/ "logout" \in overlap[u]
                       /\ deposited[u] \in Nat /\ log[u] \in UserLog /\ log[u].deposit \in Nat
  BY <1>0 DEF DepositsInStep, DepositsAreKept, UserLog
<1>2. ASSUME NEW t \in Tasks, NEW v \in Users, Moves(t, v), log' = log, deposited' = deposited,
             task'[t].pc \notin Writing
      PROVE  DepositsInStep'
  BY <1>0, <1>1, <1>2, DepositsStep
<1>3. ASSUME NEW t \in Tasks, NEW v \in Users, LevelsActs(t, v) PROVE DepositsInStep'
  <2>0. LevelsStep(t) /\ Moves(t, v) /\ task'[t].pc \notin Writing
    BY <1>3 DEF LevelsActs, LevelsMove, LevelsTask, Resting, Writing
  <2>1. PICK k : k = task[t]
    OBVIOUS
  <2>2. CASE IncrementDeposit(t) /\ HasLog(k.user)
    <3>1. k.pc = "deposit" /\ k.points \in Nat /\ k.user = v
      BY <2>0, <2>1, <2>2, LevelsTaskAt, <1>0 DEF IncrementDeposit, At, LevelsSteps, Moves
    <3>2. PICK n : n = log[v].deposit + k.points
      OBVIOUS
    <3>3. log' = [log EXCEPT ![v] = [log[v] EXCEPT !.deposit = n]]
          /\ deposited' = [deposited EXCEPT ![v] = @ + k.points]
      BY <2>1, <2>2, <3>1, <3>2 DEF IncrementDeposit
    <3>4. log'[v].deposit = n /\ deposited'[v] = deposited[v] + k.points
      BY <1>0, <1>1, <3>3 DEF UserLog
    <3>5. \A u \in Users \ {v} : log'[u] = log[u] /\ deposited'[u] = deposited[u]
      BY <1>0, <3>3
    <3>6. /\ deposited'[v] \in Nat /\ deposited'[v] >= deposited[v]
          /\ log'[v].deposit <= deposited'[v]
          /\ log'[v].deposit = deposited'[v] \/ "logout" \in overlap[v]
      BY <1>1, <3>1, <3>2, <3>4
    <3>7. task[t].pc # "idle"
      BY <2>1, <3>1
    <3> QED BY <1>0, <2>0, <3>5, <3>6, <3>7, DepositsStep
  <2>3. ASSUME deposited' = deposited, task[t].pc # "idle", NEW r, r.deposit = log[v].deposit,
               log' = [log EXCEPT ![v] = r]
        PROVE  DepositsInStep'
    <3>1. log'[v].deposit = log[v].deposit /\ \A u \in Users \ {v} : log'[u] = log[u]
      BY <1>0, <2>3
    <3> QED BY <1>0, <1>1, <2>0, <2>3, <3>1, DepositsStep
  <2>4. CASE UpdateTransactionsCount(t) /\ HasLog(k.user)
    <3>1. PICK n : n = 2 * k.points
      OBVIOUS
    <3>2. k.user = v /\ task[t].pc # "idle" /\ deposited' = deposited
          /\ log' = [log EXCEPT ![v] = [log[v] EXCEPT !.trades = n]]
      BY <2>0, <2>1, <2>4, <3>1 DEF UpdateTransactionsCount, At, Moves, levels
    <3>3. [log[v] EXCEPT !.trades = n].deposit = log[v].deposit
      BY <1>1 DEF UserLog
    <3> QED BY <2>3, <3>2, <3>3
  <2>5. CASE UpdateScore(t)
    <3>1. k.user = v /\ task[t].pc # "idle" /\ deposited' = deposited
          /\ log' = [log EXCEPT ![v] = [log[v] EXCEPT !.score = k.points]]
      BY <2>0, <2>1, <2>5 DEF UpdateScore, At, Moves
    <3>2. [log[v] EXCEPT !.score = k.points].deposit = log[v].deposit
      BY <1>1 DEF UserLog
    <3> QED BY <2>3, <3>1, <3>2
  <2>6. CASE /\ ~ (IncrementDeposit(t) /\ HasLog(k.user))
             /\ ~ (UpdateTransactionsCount(t) /\ HasLog(k.user)) /\ ~ UpdateScore(t)
    <3>1. log' = log /\ deposited' = deposited
      BY <2>0, <2>1, <2>6 DEF LevelsStep, LevelsRequest, IncrementDeposit, GetSignificantTradeCount,
           UpdateTransactionsCount, CalculateScore, GetNextLevelForScore, AttachLevelToUser,
           HasUserReceivedPrize, AddPrize, RecordReceivedPrize, accounts, levels
    <3> QED BY <1>2, <2>0, <3>1
  <2> QED BY <2>2, <2>4, <2>5, <2>6
<1>4. ASSUME NEW t \in Tasks, NEW v \in Users, SessionsActs(t, v) PROVE DepositsInStep'
  <2>0. SessionsStep(t) /\ Moves(t, v) /\ deposited' = deposited
    BY <1>4 DEF SessionsActs, SessionsMove, levels
  <2>1. PICK k : k = task[t]
    OBVIOUS
  <2>2. CASE GetUserLog(t)
    <3>1. k \in LogoutTask /\ k.user = v /\ log' = log
      BY <2>0, <2>1, <2>2, LogoutTaskAt, <1>0 DEF GetUserLog, LogoutSteps, Moves, accounts
    <3>2. CASE HasLog(v)
      <4>1. PICK pc, r : pc = (IF k.pc = "read" THEN "writeHours" ELSE "writeScore") /\ r = log[v]
        OBVIOUS
      <4>2. task'[t] = [k EXCEPT !.pc = pc, !.log = r]
        BY <1>0, <2>1, <2>2, <3>1, <3>2, <4>1 DEF GetUserLog, Step
      <4>3. task'[t].log = r
        BY <3>1, <4>2 DEF LogoutTask
      <4> QED BY <1>0, <1>1, <2>0, <3>1, <4>1, <4>3, DepositsStep
    <3>3. CASE ~ HasLog(v)
      <4>1. task'[t].pc \notin Writing
        BY <1>0, <2>1, <2>2, <3>1, <3>3 DEF GetUserLog, Return, Step, Writing
      <4> QED BY <1>2, <2>0, <3>1, <4>1
    <3> QED BY <3>2, <3>3
  <2>3. CASE WriteHours(t) \/ WriteScore(t)
    <3>1. k \in LogoutTask /\ k.user = v /\ k.log \in UserLog /\ task[t].pc # "idle" /\ k.pc \in Writing
      BY <2>0, <2>1, <2>3, LogoutTaskAt, <1>0 DEF WriteHours, WriteScore, At, LogoutSteps, Moves, Writing
    <3>2. PICK r : /\ r.deposit = k.log.deposit /\ log' = [log EXCEPT ![v] = r]
      <4>1. CASE WriteHours(t)
        <5>1. log' = [log EXCEPT ![v] = [k.log EXCEPT !.hours = k.hours]]
          BY <2>1, <3>1, <4>1 DEF WriteHours, UpdateUserLog
        <5>2. [k.log EXCEPT !.hours = k.hours].deposit = k.log.deposit
          BY <3>1 DEF UserLog
        <5> QED BY <5>1, <5>2
      <4>2. CASE WriteScore(t)
        <5>1. PICK n : n = Total(k.log)
          OBVIOUS
        <5>2. log' = [log EXCEPT ![v] = [k.log EXCEPT !.score = n]]
          BY <2>1, <3>1, <4>2, <5>1 DEF WriteScore, UpdateUserLog
        <5>3. [k.log EXCEPT !.score = n].deposit = k.log.deposit
          BY <3>1 DEF UserLog
        <5> QED BY <5>2, <5>3
      <4> QED BY <2>3, <4>1, <4>2
    <3>3. task'[t].pc \in {"reread", "user"}
      BY <1>0, <2>1, <2>3, <3>1 DEF WriteHours, WriteScore, Goto, Step, LogoutTask
    <3>4. /\ k.log.deposit <= deposited[v]
          /\ "logout" \notin overlap[v] => k.log = log[v]
      BY <2>1, <3>1 DEF DepositsInStep
    <3>5. /\ log'[v].deposit <= deposited'[v]
          /\ log'[v].deposit = deposited'[v] \/ "logout" \in overlap[v]
      <4>1. log'[v] = r
        BY <1>0, <3>2
      <4> QED BY <1>1, <2>0, <3>2, <3>4, <4>1
    <3>6. \A u \in Users \ {v} : log'[u] = log[u]
      BY <1>0, <3>2
    <3> QED BY <1>0, <1>1, <2>0, <3>1, <3>3, <3>5, <3>6, DepositsStep DEF Writing
  <2>4. CASE ~ (GetUserLog(t) \/ WriteHours(t) \/ WriteScore(t))
    <3>1. log' = log
      BY <2>0, <2>4 DEF SessionsStep, Callback, FindUser, CreateUser, MakePart, UpdateUser, OnUserLogin,
           Logout, GetLatestActivity, UpdateActivity, GetTotalActivityMinutes, WriteUser, accounts
    <3>2. task'[t].pc \notin Writing
      <4>1. CASE task'[t] \in CallbackTask \union {Resting}
        BY <4>1 DEF CallbackTask, CallbackSteps, Resting, Writing
      <4>2. CASE task[t].pc = "idle"
        BY <1>0, <2>0, <4>2 DEF SessionsStep, Callback, FindUser, CreateUser, MakePart, UpdateUser,
             OnUserLogin, Logout, GetLatestActivity, UpdateActivity, GetTotalActivityMinutes,
             GetUserLog, WriteHours, WriteScore, WriteUser, At, Start, Step, Writing
      <4>3. CASE task[t] \in LogoutTask
        <5>1. GetLatestActivity(t) \/ UpdateActivity(t) \/ GetTotalActivityMinutes(t) \/ WriteUser(t)
          <6>1. task[t].pc \in LogoutSteps
            BY <4>3 DEF LogoutTask
          <6> QED BY <2>0, <2>4, <6>1 DEF SessionsStep, Callback, FindUser, CreateUser, MakePart,
                  UpdateUser, OnUserLogin, Logout, At, Start, LogoutSteps
        <5>2. CASE GetLatestActivity(t)
          <6>1. PICK n, pc : pc = (IF n = 0 THEN "hours" ELSE "end")
                             /\ task'[t] = [task[t] EXCEPT !.row = n, !.pc = pc]
            BY <1>0, <5>2 DEF GetLatestActivity, Step
          <6> QED BY <4>3, <6>1 DEF LogoutTask, Writing
        <5>3. CASE UpdateActivity(t)
          BY <1>0, <4>3, <5>3 DEF UpdateActivity, Goto, Step, LogoutTask, Writing
        <5>4. CASE GetTotalActivityMinutes(t)
          <6>1. PICK n : task'[t] = [task[t] EXCEPT !.pc = "read", !.hours = n]
            BY <1>0, <5>4 DEF GetTotalActivityMinutes, Step
          <6> QED BY <4>3, <6>1 DEF LogoutTask, Writing
        <5>5. CASE WriteUser(t)
          BY <1>0, <5>5 DEF WriteUser, Return, Step, Writing
        <5> QED BY <5>1, <5>2, <5>3, <5>4, <5>5
      <4> QED BY <1>4, <4>1, <4>2, <4>3 DEF SessionsActs, SessionsMove, Resting
    <3> QED BY <1>2, <2>0, <3>1, <3>2
  <2> QED BY <2>2, <2>3, <2>4
<1>5. ASSUME NEW t \in Tasks, NEW v \in Users,
             SecurityActs(t, v) \/ SocialActs(t, v) \/ FailsFor(t, v)
      PROVE  DepositsInStep'
  <2>1. Moves(t, v) /\ log' = log /\ deposited' = deposited
    BY <1>5 DEF SecurityActs, SocialActs, FailsFor, SecurityMove, SocialMove, accounts, levels
  <2>2. task'[t].pc \notin Writing
    BY <1>5 DEF SecurityActs, SocialActs, FailsFor, SecurityMove, SocialMove, SecureTask, SecureSteps,
       VerifyTask, VerifySteps, AnswerTask, AnswerSteps, FollowTask, FollowSteps, Resting, Writing
  <2> QED BY <1>2, <2>1, <2>2
<1>6. ASSUME task' = task, log' = log, deposited' = deposited, overlap' = overlap
      PROVE  DepositsInStep'
  BY <1>6 DEF DepositsInStep, DepositsAreKept
<1>7. CASE UNCHANGED vars
  BY <1>6, <1>7 DEF vars, requests, accounts, levels
<1>8. CASE Next
  BY <1>0, <1>3, <1>4, <1>5, <1>6, <1>8, ActCases, AsideKeeps DEF Acts
<1> QED BY <1>7, <1>8

AtLevel(pcs, u, l) == {t \in Tasks : task[t].pc \in pcs /\ task[t].user = u /\ task[t].level = l}
Attaching(u, l) == AtLevel({"attach"}, u, l)
Awarding(u, l)  == AtLevel({"pay", "record"}, u, l)
Unpaid(u, l, a) == {t \in AtLevel({"pay", "record"}, u, l) : task[t].pc = "pay" => task[t].asset > a}

(* Rows of level_user and of recieved_level_prizes, those that requests are *)
(* about to add, and the prizes that were paid and are to be recorded.      *)
AttachedAreCounted ==
  \A u \in Users, l \in LevelIds :
    attached[u][l] + Cardinality(Attaching(u, l)) <= Cardinality(Tasks)
ReceivedAreCounted ==
  \A u \in Users, l \in LevelIds :
    received[u][l] + Cardinality(Awarding(u, l)) <= Cardinality(Tasks) + faults
PaidAreCounted ==
  \A u \in Users, l \in LevelIds, a \in 1..Assets :
    paid[u][l][a] <= received[u][l] + faults + Cardinality(Unpaid(u, l, a))

LevelsAreCounted == AttachedAreCounted /\ ReceivedAreCounted /\ PaidAreCounted

-----------------------------------------------------------------------------
(* Levels and prizes *)

LEMMA AttachingCount ==
  ASSUME NEW t \in Tasks, NEW v, Moves(t, v), NEW u \in Users, NEW l \in LevelIds,
         NEW A, NEW B, A = Attaching(u, l), B = Attaching(u, l)'
  PROVE  /\ Cardinality(A) \in Nat /\ Cardinality(B) \in Nat /\ Cardinality(Tasks) \in Nat
         /\ Cardinality(B) <= Cardinality(Tasks)
         /\ t \in A /\ t \notin B => Cardinality(B) = Cardinality(A) - 1
         /\ t \notin A /\ t \in B => Cardinality(B) = Cardinality(A) + 1
         /\ (t \in A <=> t \in B) => Cardinality(B) = Cardinality(A)
<1>1. A \in SUBSET Tasks /\ B \in SUBSET Tasks
  BY DEF Attaching, AtLevel
<1>2. \A s \in Tasks \ {t} : s \in A <=> s \in B
  BY DEF Attaching, AtLevel, Moves
<1> QED BY <1>1, <1>2, CountOne, CitizensAssumption

LEMMA AwardingCount ==
  ASSUME NEW t \in Tasks, NEW v, Moves(t, v), NEW u \in Users, NEW l \in LevelIds,
         NEW A, NEW B, A = Awarding(u, l), B = Awarding(u, l)'
  PROVE  /\ Cardinality(A) \in Nat /\ Cardinality(B) \in Nat /\ Cardinality(Tasks) \in Nat
         /\ Cardinality(B) <= Cardinality(Tasks)
         /\ t \in A /\ t \notin B => Cardinality(B) = Cardinality(A) - 1
         /\ t \notin A /\ t \in B => Cardinality(B) = Cardinality(A) + 1
         /\ (t \in A <=> t \in B) => Cardinality(B) = Cardinality(A)
<1>1. A \in SUBSET Tasks /\ B \in SUBSET Tasks
  BY DEF Awarding, AtLevel
<1>2. \A s \in Tasks \ {t} : s \in A <=> s \in B
  BY DEF Awarding, AtLevel, Moves
<1> QED BY <1>1, <1>2, CountOne, CitizensAssumption

LEMMA UnpaidCount ==
  ASSUME NEW t \in Tasks, NEW v, Moves(t, v), NEW u \in Users, NEW l \in LevelIds, NEW a,
         NEW A, NEW B, A = Unpaid(u, l, a), B = Unpaid(u, l, a)'
  PROVE  /\ Cardinality(A) \in Nat /\ Cardinality(B) \in Nat
         /\ t \in A /\ t \notin B => Cardinality(B) = Cardinality(A) - 1
         /\ t \notin A /\ t \in B => Cardinality(B) = Cardinality(A) + 1
         /\ (t \in A <=> t \in B) => Cardinality(B) = Cardinality(A)
<1>1. A \in SUBSET Tasks /\ B \in SUBSET Tasks
  BY DEF Unpaid, AtLevel
<1>2. ASSUME NEW s \in Tasks, s # t PROVE s \in A <=> s \in B
  <2>1. task'[s] = task[s]
    BY <1>2 DEF Moves
  <2> QED BY <2>1 DEF Unpaid, AtLevel
<1> QED BY <1>1, <1>2, CountOne, CitizensAssumption

LEMMA LevelsNumbers ==
  ASSUME TypeOK
  PROVE  /\ faults \in Nat
         /\ \A u \in Users, l \in LevelIds : attached[u][l] \in Nat /\ received[u][l] \in Nat
         /\ \A u \in Users, l \in LevelIds, a \in 1..Assets : paid[u][l][a] \in Nat
<1>0. LevelsTypeOK /\ CitizensTypeOK
  BY TypeFacts
<1>1. \A u \in Users, l \in LevelIds : attached[u][l] \in Nat /\ received[u][l] \in Nat
  BY <1>0 DEF LevelsTypeOK
<1>2. \A u \in Users, l \in LevelIds, a \in 1..Assets : paid[u][l][a] \in Nat
  <2>1. PICK D : D = 1..Assets
    OBVIOUS
  <2>2. paid \in [Users -> [LevelIds -> [D -> Nat]]]
    BY <1>0, <2>1 DEF LevelsTypeOK
  <2>3. \A u \in Users, l \in LevelIds : paid[u][l] \in [D -> Nat]
    <3>1. \A u \in Users : paid[u] \in [LevelIds -> [D -> Nat]]
      BY <2>2
    <3> QED BY <3>1
  <2>4. \A u \in Users, l \in LevelIds, a \in D : paid[u][l][a] \in Nat
    BY <2>3
  <2> QED BY <2>1, <2>4
<1>3. faults \in Nat
  BY <1>0, CitizensAssumption DEF CitizensTypeOK
<1> QED BY <1>1, <1>2, <1>3

LEMMA AttachedStep ==
  ASSUME TypeOK, AttachedAreCounted, NEW t \in Tasks, NEW v, Moves(t, v),
         \A u \in Users, l \in LevelIds :
           \/ /\ attached'[u][l] = attached[u][l]
              /\ t \in Attaching(u, l)' => attached[u][l] = 0
           \/ /\ attached'[u][l] = attached[u][l] + 1
              /\ t \in Attaching(u, l) /\ t \notin Attaching(u, l)'
  PROVE  AttachedAreCounted'
<1>1. SUFFICES ASSUME NEW u \in Users, NEW l \in LevelIds
      PROVE  attached'[u][l] + Cardinality(Attaching(u, l)') <= Cardinality(Tasks)
  BY DEF AttachedAreCounted
<1>2. PICK A, B : A = Attaching(u, l) /\ B = Attaching(u, l)'
  OBVIOUS
<1>3. /\ Cardinality(A) \in Nat /\ Cardinality(B) \in Nat /\ Cardinality(Tasks) \in Nat
      /\ Cardinality(B) <= Cardinality(Tasks)
      /\ t \notin B => Cardinality(B) <= Cardinality(A)
      /\ t \in A /\ t \notin B => Cardinality(B) = Cardinality(A) - 1
  BY <1>2, AttachingCount
<1>4. attached[u][l] \in Nat /\ attached[u][l] + Cardinality(A) <= Cardinality(Tasks)
  BY <1>2, LevelsNumbers DEF AttachedAreCounted
<1>5. \/ attached'[u][l] = attached[u][l] /\ (t \in B => attached[u][l] = 0)
      \/ attached'[u][l] = attached[u][l] + 1 /\ t \in A /\ t \notin B
  BY <1>2
<1> QED BY <1>2, <1>3, <1>4, <1>5

LEMMA ReceivedStep ==
  ASSUME TypeOK, ReceivedAreCounted, NEW t \in Tasks, NEW v, Moves(t, v), Counted,
         \A u \in Users, l \in LevelIds :
           \/ /\ received'[u][l] = received[u][l]
              /\ \/ t \in Awarding(u, l)' => t \in Awarding(u, l)
                 \/ received[u][l] = 0
                 \/ faults' > faults
           \/ /\ received'[u][l] = received[u][l] + 1
              /\ t \in Awarding(u, l) /\ t \notin Awarding(u, l)'
  PROVE  ReceivedAreCounted'
<1>0. faults \in Nat /\ faults' \in Nat /\ faults <= faults'
  BY DEF Counted
<1>1. SUFFICES ASSUME NEW u \in Users, NEW l \in LevelIds
      PROVE  received'[u][l] + Cardinality(Awarding(u, l)') <= Cardinality(Tasks) + faults'
  BY DEF ReceivedAreCounted
<1>2. PICK A, B : A = Awarding(u, l) /\ B = Awarding(u, l)'
  OBVIOUS
<1>3. /\ Cardinality(A) \in Nat /\ Cardinality(B) \in Nat /\ Cardinality(Tasks) \in Nat
      /\ Cardinality(B) <= Cardinality(Tasks)
      /\ (t \in B => t \in A) => Cardinality(B) <= Cardinality(A)
      /\ Cardinality(B) <= Cardinality(A) + 1
      /\ t \in A /\ t \notin B => Cardinality(B) = Cardinality(A) - 1
  BY <1>2, AwardingCount
<1>4. received[u][l] \in Nat /\ received[u][l] + Cardinality(A) <= Cardinality(Tasks) + faults
  BY <1>2, LevelsNumbers DEF ReceivedAreCounted
<1>5. \/ received'[u][l] = received[u][l] /\ (t \in B => t \in A)
      \/ received'[u][l] = received[u][l] /\ received[u][l] = 0
      \/ received'[u][l] = received[u][l] /\ faults' > faults
      \/ received'[u][l] = received[u][l] + 1 /\ t \in A /\ t \notin B
  BY <1>2
<1> QED BY <1>0, <1>2, <1>3, <1>4, <1>5

LEMMA PaidStep ==
  ASSUME TypeOK, PaidAreCounted, NEW t \in Tasks, NEW v, Moves(t, v), Counted,
         \A u \in Users, l \in LevelIds, a \in 1..Assets :
           \/ /\ paid'[u][l][a] = paid[u][l][a] /\ received'[u][l] = received[u][l]
              /\ (t \in Unpaid(u, l, a) => t \in Unpaid(u, l, a)') \/ faults' > faults
           \/ /\ paid'[u][l][a] = paid[u][l][a] /\ received'[u][l] = received[u][l] + 1
           \/ /\ paid'[u][l][a] = paid[u][l][a] + 1 /\ received'[u][l] = received[u][l]
              /\ t \notin Unpaid(u, l, a) /\ (t \in Unpaid(u, l, a)' \/ faults' > faults)
  PROVE  PaidAreCounted'
<1>0. faults \in Nat /\ faults' \in Nat /\ faults <= faults'
  BY DEF Counted
<1>1. SUFFICES ASSUME NEW u \in Users, NEW l \in LevelIds, NEW a \in 1..Assets
      PROVE  paid'[u][l][a] <= received'[u][l] + faults' + Cardinality(Unpaid(u, l, a)')
  BY DEF PaidAreCounted
<1>2. PICK A, B : A = Unpaid(u, l, a) /\ B = Unpaid(u, l, a)'
  OBVIOUS
<1>3. /\ Cardinality(A) \in Nat /\ Cardinality(B) \in Nat
      /\ (t \in A => t \in B) => Cardinality(B) >= Cardinality(A)
      /\ t \notin A /\ t \in B => Cardinality(B) = Cardinality(A) + 1
      /\ Cardinality(B) >= Cardinality(A) - 1
  BY <1>2, UnpaidCount
<1>4. received[u][l] \in Nat /\ paid[u][l][a] \in Nat
  BY LevelsNumbers
<1>5. paid[u][l][a] <= received[u][l] + faults + Cardinality(A)
  BY <1>2 DEF PaidAreCounted
<1>6. \/ /\ paid'[u][l][a] = paid[u][l][a] /\ received'[u][l] = received[u][l]
         /\ (t \in A => t \in B) \/ faults' > faults
      \/ paid'[u][l][a] = paid[u][l][a] /\ received'[u][l] = received[u][l] + 1
      \/ /\ paid'[u][l][a] = paid[u][l][a] + 1 /\ received'[u][l] = received[u][l]
         /\ t \notin A /\ (t \in B \/ faults' > faults)
  BY <1>2
<1>7. CASE /\ paid'[u][l][a] = paid[u][l][a] /\ received'[u][l] = received[u][l]
           /\ (t \in A => t \in B) \/ faults' > faults
  BY <1>0, <1>2, <1>3, <1>4, <1>5, <1>7
<1>8. CASE paid'[u][l][a] = paid[u][l][a] /\ received'[u][l] = received[u][l] + 1
  BY <1>0, <1>2, <1>3, <1>4, <1>5, <1>8
<1>9. CASE /\ paid'[u][l][a] = paid[u][l][a] + 1 /\ received'[u][l] = received[u][l]
           /\ t \notin A /\ (t \in B \/ faults' > faults)
  BY <1>0, <1>2, <1>3, <1>4, <1>5, <1>9
<1> QED BY <1>6, <1>7, <1>8, <1>9

(* A step that leaves the tables alone. *)
LEMMA LevelsQuiet ==
  ASSUME TypeOK, LevelsAreCounted, NEW t \in Tasks, NEW v, Moves(t, v), Counted,
         attached' = attached, received' = received, paid' = paid,
         task[t].pc \notin {"pay", "record"} \/ faults' > faults,
         task'[t].pc \notin {"attach", "pay", "record"}
  PROVE  LevelsAreCounted'
<1>1. \A u \in Users, l \in LevelIds : t \notin Attaching(u, l)' /\ t \notin Awarding(u, l)'
  BY DEF Attaching, Awarding, AtLevel
<1>2. \A u \in Users, l \in LevelIds, a \in 1..Assets : t \in Unpaid(u, l, a) => faults' > faults
  BY DEF Unpaid, AtLevel
<1>3. AttachedAreCounted'
  BY <1>1, AttachedStep DEF LevelsAreCounted
<1>4. ReceivedAreCounted'
  BY <1>1, ReceivedStep DEF LevelsAreCounted
<1>5. PaidAreCounted'
  BY <1>2, PaidStep DEF LevelsAreCounted
<1> QED BY <1>3, <1>4, <1>5 DEF LevelsAreCounted

LEMMA NextLevelCounted ==
  ASSUME TypeOK, LevelsAreCounted, NEW t \in Tasks, NEW v \in Users, Moves(t, v), Counted,
         GetNextLevelForScore(t)
  PROVE  LevelsAreCounted'
<1>0. /\ task \in [Tasks -> Requests]
      /\ attached' = attached /\ received' = received /\ paid' = paid
  BY TypeFacts DEF GetNextLevelForScore, levels
<1>1. PICK k : k = task[t]
  OBVIOUS
<1>2. k \in LevelsTask /\ k.pc = "level" /\ k.user \in Users
  BY <1>1, LevelsTaskAt DEF GetNextLevelForScore, At, LevelsSteps
<1>3. CASE Return(t)
  <2>1. task'[t].pc = "idle"
    BY <1>0, <1>3 DEF Return, Step
  <2> QED BY <1>0, <1>1, <1>2, <2>1, LevelsQuiet
<1>4. CASE ~ Return(t)
  <2>1. PICK l \in LevelIds :
          /\ attached[k.user][l] = 0
          /\ Step(t, [k EXCEPT !.pc = "attach", !.level = l])
    BY <1>1, <1>4 DEF GetNextLevelForScore
  <2>2. task'[t] = [k EXCEPT !.pc = "attach", !.level = l]
    BY <1>0, <2>1 DEF Step
  <2>3. task'[t].pc = "attach" /\ task'[t].user = k.user /\ task'[t].level = l
    BY <1>2, <2>2 DEF LevelsTask
  <2>4. \A u \in Users, m \in LevelIds :
          /\ t \in Attaching(u, m)' => attached[u][m] = 0
          /\ t \notin Awarding(u, m)'
    BY <2>1, <2>3 DEF Attaching, Awarding, AtLevel
  <2>5. \A u \in Users, m \in LevelIds, a \in 1..Assets : t \notin Unpaid(u, m, a)
    BY <1>1, <1>2 DEF Unpaid, AtLevel
  <2>6. AttachedAreCounted'
    BY <1>0, <2>4, AttachedStep DEF LevelsAreCounted
  <2>7. ReceivedAreCounted'
    BY <1>0, <2>4, ReceivedStep DEF LevelsAreCounted
  <2>8. PaidAreCounted'
    BY <1>0, <2>5, PaidStep DEF LevelsAreCounted
  <2> QED BY <2>6, <2>7, <2>8 DEF LevelsAreCounted
<1> QED BY <1>3, <1>4

LEMMA AttachCounted ==
  ASSUME TypeOK, LevelsAreCounted, NEW t \in Tasks, NEW v \in Users, Moves(t, v), Counted,
         AttachLevelToUser(t)
  PROVE  LevelsAreCounted'
<1>0. /\ task \in [Tasks -> Requests] /\ attached \in [Users -> [LevelIds -> Nat]]
      /\ received' = received /\ paid' = paid
  BY TypeFacts DEF AttachLevelToUser, LevelsTypeOK
<1>1. PICK k : k = task[t]
  OBVIOUS
<1>2. k \in LevelsTask /\ k.pc = "attach" /\ k.user \in Users /\ k.level \in LevelIds
  BY <1>1, LevelsTaskAt DEF AttachLevelToUser, At, LevelsSteps
<1>3. /\ task'[t] = [k EXCEPT !.pc = "received"]
      /\ attached' = [attached EXCEPT ![k.user][k.level] = @ + 1]
  BY <1>0, <1>1 DEF AttachLevelToUser, Goto, Step
<1>4. task'[t].pc = "received"
  BY <1>2, <1>3 DEF LevelsTask
<1>5. \A u \in Users, m \in LevelIds :
        /\ t \in Attaching(u, m) <=> u = k.user /\ m = k.level
        /\ t \notin Attaching(u, m)' /\ t \notin Awarding(u, m)'
  BY <1>1, <1>2, <1>4 DEF Attaching, Awarding, AtLevel
<1>6. \A u \in Users, m \in LevelIds, a \in 1..Assets : t \notin Unpaid(u, m, a)
  BY <1>1, <1>2 DEF Unpaid, AtLevel
<1>7. \A u \in Users, m \in LevelIds :
        attached'[u][m] = IF u = k.user /\ m = k.level THEN attached[u][m] + 1 ELSE attached[u][m]
  BY <1>0, <1>2, <1>3
<1>8. AttachedAreCounted'
  BY <1>5, <1>7, AttachedStep DEF LevelsAreCounted
<1>9. ReceivedAreCounted'
  BY <1>0, <1>5, ReceivedStep DEF LevelsAreCounted
<1>10. PaidAreCounted'
  BY <1>0, <1>6, PaidStep DEF LevelsAreCounted
<1> QED BY <1>8, <1>9, <1>10 DEF LevelsAreCounted

LEMMA HasReceivedCounted ==
  ASSUME TypeOK, LevelsAreCounted, NEW t \in Tasks, NEW v \in Users, Moves(t, v), Counted,
         HasUserReceivedPrize(t)
  PROVE  LevelsAreCounted'
<1>0. /\ task \in [Tasks -> Requests] /\ faults \in Nat
      /\ attached' = attached /\ received' = received /\ paid' = paid
  BY TypeFacts, LevelsNumbers DEF HasUserReceivedPrize, levels
<1>1. PICK k : k = task[t]
  OBVIOUS
<1>2. k \in LevelsTask /\ k.pc = "received" /\ k.user \in Users /\ k.level \in LevelIds
  BY <1>1, LevelsTaskAt DEF HasUserReceivedPrize, At, LevelsSteps
<1>3. CASE Return(t)
  <2>1. task'[t].pc = "idle"
    BY <1>0, <1>3 DEF Return, Step
  <2> QED BY <1>0, <1>1, <1>2, <2>1, LevelsQuiet
<1>4. CASE ~ Return(t)
  <2>1. /\ task'[t] = [k EXCEPT !.pc = "pay"]
        /\ received[k.user][k.level] = 0 \/ faults' > faults
    BY <1>0, <1>1, <1>4 DEF HasUserReceivedPrize, Goto, Step, Stumble, Fault
  <2>2. task'[t].pc = "pay" /\ task'[t].user = k.user /\ task'[t].level = k.level
    BY <1>2, <2>1 DEF LevelsTask
  <2>3. \A u \in Users, m \in LevelIds :
          /\ t \notin Attaching(u, m)'
          /\ t \in Awarding(u, m)' => received[u][m] = 0 \/ faults' > faults
    BY <2>1, <2>2 DEF Attaching, Awarding, AtLevel
  <2>4. \A u \in Users, m \in LevelIds, a \in 1..Assets : t \notin Unpaid(u, m, a)
    BY <1>1, <1>2 DEF Unpaid, AtLevel
  <2>5. AttachedAreCounted'
    BY <1>0, <2>3, AttachedStep DEF LevelsAreCounted
  <2>6. ReceivedAreCounted'
    BY <1>0, <2>3, ReceivedStep DEF LevelsAreCounted
  <2>7. PaidAreCounted'
    BY <1>0, <2>4, PaidStep DEF LevelsAreCounted
  <2> QED BY <2>5, <2>6, <2>7 DEF LevelsAreCounted
<1> QED BY <1>3, <1>4

LEMMA PrizePaidCounted ==
  ASSUME TypeOK, LevelsAreCounted, NEW t \in Tasks, NEW v \in Users, Moves(t, v), Counted,
         AddPrize(t)
  PROVE  LevelsAreCounted'
<1>0. /\ task \in [Tasks -> Requests] /\ faults \in Nat
      /\ paid \in [Users -> [LevelIds -> [1..Assets -> Nat]]]
      /\ attached' = attached /\ received' = received
  BY TypeFacts, LevelsNumbers DEF AddPrize, LevelsTypeOK
<1>1. PICK k : k = task[t]
  OBVIOUS
<1>2. /\ k \in LevelsTask /\ k.pc = "pay" /\ k.user \in Users /\ k.level \in LevelIds
      /\ k.asset \in 1..Assets
  BY <1>1, LevelsTaskAt DEF AddPrize, At, LevelsSteps
<1>3. PICK i \in 1..Assets : i = k.asset
  BY <1>2
<1>4. Assets \in Nat /\ i \in Nat /\ i <= Assets
  <2>1. Assets \in Nat
    BY LevelsAssumption
  <2> QED BY <2>1
<1>5. PICK m : m = task'[t]
  OBVIOUS
<1>6. \/ i < Assets /\ m = [k EXCEPT !.asset = i + 1]
      \/ i = Assets /\ m = [k EXCEPT !.pc = "record"]
      \/ m = Resting /\ faults' > faults
  <2>1. \/ i < Assets /\ Step(t, [k EXCEPT !.asset = i + 1])
        \/ i = Assets /\ Step(t, [k EXCEPT !.pc = "record"])
        \/ Step(t, Resting) /\ faults' = faults + 1
    BY <1>1, <1>3 DEF AddPrize, Goto, Return, Stumble, Fault, Resting
  <2> QED BY <1>0, <1>5, <2>1 DEF Step
<1>7. \/ m.pc = "pay" /\ m.user = k.user /\ m.level = k.level /\ m.asset = i + 1
      \/ m.pc = "record" /\ m.user = k.user /\ m.level = k.level /\ i = Assets
      \/ m.pc = "idle" /\ faults' > faults
  BY <1>2, <1>6 DEF LevelsTask, Resting
<1>8. \A u \in Users, l \in LevelIds :
        /\ t \notin Attaching(u, l)'
        /\ t \in Awarding(u, l)' => t \in Awarding(u, l)
  BY <1>1, <1>2, <1>5, <1>7 DEF Attaching, Awarding, AtLevel
<1>9. ASSUME NEW u \in Users, NEW l \in LevelIds, NEW a \in 1..Assets
      PROVE  /\ t \in Unpaid(u, l, a) <=> u = k.user /\ l = k.level /\ i > a
             /\ u = k.user /\ l = k.level /\ i >= a =>
                  t \in Unpaid(u, l, a)' \/ faults' > faults
  <2>1. t \in Unpaid(u, l, a) <=> u = k.user /\ l = k.level /\ i > a
    BY <1>1, <1>2, <1>3 DEF Unpaid, AtLevel
  <2>2. i >= a => i + 1 > a
    BY <1>4
  <2>3. u = k.user /\ l = k.level /\ i >= a => t \in Unpaid(u, l, a)' \/ faults' > faults
    BY <1>5, <1>7, <2>2 DEF Unpaid, AtLevel
  <2> QED BY <2>1, <2>3
<1>10. ASSUME NEW u \in Users, NEW l \in LevelIds, NEW a \in 1..Assets
       PROVE  paid'[u][l][a] = IF u = k.user /\ l = k.level /\ a = i
                               THEN paid[u][l][a] + 1 ELSE paid[u][l][a]
  <2>1. PICK x, y, D : x = k.user /\ y = k.level /\ D = 1..Assets
    OBVIOUS
  <2>2. paid \in [Users -> [LevelIds -> [D -> Nat]]] /\ x \in Users /\ y \in LevelIds /\ i \in D /\ a \in D
    BY <1>0, <1>2, <2>1
  <2>3. paid' = [paid EXCEPT ![x][y][i] = @ + 1]
    BY <1>1, <1>3, <2>1 DEF AddPrize
  <2>4. paid'[u] = IF u = x THEN [paid[x] EXCEPT ![y][i] = @ + 1] ELSE paid[u]
    BY <2>2, <2>3
  <2>5. paid[x] \in [LevelIds -> [D -> Nat]] /\ paid[u] \in [LevelIds -> [D -> Nat]]
    BY <2>2
  <2>6. paid'[u][l] = IF u = x /\ l = y THEN [paid[x][y] EXCEPT ![i] = @ + 1] ELSE paid[u][l]
    BY <2>2, <2>4, <2>5
  <2>7. paid[x][y] \in [D -> Nat]
    BY <2>2, <2>5
  <2> QED BY <2>1, <2>2, <2>6, <2>7
<1>11. AttachedAreCounted'
  BY <1>0, <1>8, AttachedStep DEF LevelsAreCounted
<1>12. ReceivedAreCounted'
  BY <1>0, <1>8, ReceivedStep DEF LevelsAreCounted
<1>13. PaidAreCounted'
  <2>1. ASSUME NEW u \in Users, NEW l \in LevelIds, NEW a \in 1..Assets
        PROVE  \/ /\ paid'[u][l][a] = paid[u][l][a] /\ received'[u][l] = received[u][l]
                  /\ (t \in Unpaid(u, l, a) => t \in Unpaid(u, l, a)') \/ faults' > faults
               \/ /\ paid'[u][l][a] = paid[u][l][a] + 1 /\ received'[u][l] = received[u][l]
                  /\ t \notin Unpaid(u, l, a) /\ (t \in Unpaid(u, l, a)' \/ faults' > faults)
    <3>1. CASE u = k.user /\ l = k.level /\ a = i
      <4>1. ~ (i > a) /\ i >= a
        BY <1>4, <3>1
      <4> QED BY <1>0, <1>9, <1>10, <3>1, <4>1
    <3>2. CASE ~ (u = k.user /\ l = k.level /\ a = i)
      <4>1. i > a => i >= a
        BY <1>4
      <4> QED BY <1>0, <1>9, <1>10, <3>2, <4>1
    <3> QED BY <3>1, <3>2
  <2> QED BY <2>1, PaidStep DEF LevelsAreCounted
<1> QED BY <1>11, <1>12, <1>13 DEF LevelsAreCounted

LEMMA PrizeRecordedCounted ==
  ASSUME TypeOK, LevelsAreCounted, NEW t \in Tasks, NEW v \in Users, Moves(t, v), Counted,
         RecordReceivedPrize(t)
  PROVE  LevelsAreCounted'
<1>0. /\ task \in [Tasks -> Requests] /\ received \in [Users -> [LevelIds -> Nat]]
      /\ attached' = attached /\ paid' = paid
  BY TypeFacts DEF RecordReceivedPrize, LevelsTypeOK
<1>1. PICK k : k = task[t]
  OBVIOUS
<1>2. k \in LevelsTask /\ k.pc = "record" /\ k.user \in Users /\ k.level \in LevelIds
  BY <1>1, LevelsTaskAt DEF RecordReceivedPrize, At, LevelsSteps
<1>3. task'[t].pc = "idle" /\ received' = [received EXCEPT ![k.user][k.level] = @ + 1]
  BY <1>0, <1>1 DEF RecordReceivedPrize, Return, Step
<1>4. \A u \in Users, m \in LevelIds :
        /\ t \in Awarding(u, m) <=> u = k.user /\ m = k.level
        /\ t \notin Attaching(u, m)' /\ t \notin Awarding(u, m)'
  BY <1>1, <1>2, <1>3 DEF Attaching, Awarding, AtLevel
<1>5. \A u \in Users, m \in LevelIds, a \in 1..Assets :
        t \in Unpaid(u, m, a) => u = k.user /\ m = k.level
  BY <1>1, <1>2 DEF Unpaid, AtLevel
<1>6. \A u \in Users, m \in LevelIds :
        received'[u][m] = IF u = k.user /\ m = k.level THEN received[u][m] + 1 ELSE received[u][m]
  BY <1>0, <1>2, <1>3
<1>7. AttachedAreCounted'
  BY <1>0, <1>4, AttachedStep DEF LevelsAreCounted
<1>8. ReceivedAreCounted'
  BY <1>4, <1>6, ReceivedStep DEF LevelsAreCounted
<1>9. PaidAreCounted'
  BY <1>0, <1>5, <1>6, PaidStep DEF LevelsAreCounted
<1> QED BY <1>7, <1>8, <1>9 DEF LevelsAreCounted

LEMMA LevelsCountedNext ==
  ASSUME Basics, LevelsAreCounted, [Next]_vars
  PROVE  LevelsAreCounted'
<1>0. TypeOK /\ RequestsAreSound /\ task \in [Tasks -> Requests]
  BY TypeFacts DEF Basics
<1>1. ASSUME task' = task, faults' = faults, attached' = attached, received' = received, paid' = paid
      PROVE  LevelsAreCounted'
  BY <1>1 DEF LevelsAreCounted, AttachedAreCounted, ReceivedAreCounted, PaidAreCounted,
     Attaching, Awarding, Unpaid, AtLevel
<1>2. CASE UNCHANGED vars
  BY <1>1, <1>2 DEF vars, requests, levels
<1>3. ASSUME NEW t \in Tasks, NEW v \in Users, LevelsActs(t, v) PROVE LevelsAreCounted'
  <2>1. Moves(t, v) /\ Counted /\ LevelsStep(t)
    BY <1>3 DEF LevelsActs, LevelsMove
  <2>2. CASE GetNextLevelForScore(t) \/ AttachLevelToUser(t)
    BY <1>0, <2>1, <2>2, NextLevelCounted, AttachCounted
  <2>3. CASE HasUserReceivedPrize(t)
    BY <1>0, <2>1, <2>3, HasReceivedCounted
  <2>4. CASE AddPrize(t) \/ RecordReceivedPrize(t)
    BY <1>0, <2>1, <2>4, PrizePaidCounted, PrizeRecordedCounted
  <2>5. CASE LevelsRequest(t)
    <3>1. attached' = attached /\ received' = received /\ paid' = paid
      BY <2>5 DEF LevelsRequest, levels
    <3>2. PICK pc \in {"deposit", "count", "calculate", "received"} : \E op, u, l, n : Begin(t, pc, op, u, l, n)
      BY <2>5 DEF LevelsRequest
    <3>3. task[t].pc = "idle" /\ task'[t].pc = pc
      BY <1>0, <3>2 DEF Begin, Start, Step, At
    <3> QED BY <1>0, <2>1, <3>1, <3>3, LevelsQuiet
  <2>6. CASE \/ IncrementDeposit(t) \/ GetSignificantTradeCount(t) \/ UpdateTransactionsCount(t)
             \/ CalculateScore(t) \/ UpdateScore(t)
    <3>1. /\ attached' = attached /\ received' = received /\ paid' = paid
          /\ task[t].pc \in {"deposit", "count", "trades", "calculate", "score"}
      BY <2>6 DEF IncrementDeposit, GetSignificantTradeCount, UpdateTransactionsCount,
         CalculateScore, UpdateScore, At, levels
    <3>2. task[t] \in LevelsTask
      BY <1>0, <3>1, LevelsTaskAt DEF LevelsSteps
    <3>3. task'[t].pc \in {"idle", "trades", "calculate", "score", "level"}
      <4>1. CASE IncrementDeposit(t) \/ UpdateTransactionsCount(t)
        BY <1>0, <3>2, <4>1 DEF IncrementDeposit, UpdateTransactionsCount, Goto, Step, LevelsTask
      <4>2. CASE GetSignificantTradeCount(t)
        <5>1. PICK n : task'[t] = [task[t] EXCEPT !.pc = "trades", !.points = n]
          BY <1>0, <4>2 DEF GetSignificantTradeCount, Step
        <5> QED BY <3>2, <5>1 DEF LevelsTask
      <4>3. CASE CalculateScore(t)
        <5>1. CASE Return(t)
          BY <1>0, <5>1 DEF Return, Step
        <5>2. CASE ~ Return(t)
          <6>1. PICK n : task'[t] = [task[t] EXCEPT !.pc = "score", !.points = n]
            BY <1>0, <4>3, <5>2 DEF CalculateScore, Step
          <6> QED BY <3>2, <6>1 DEF LevelsTask
        <5> QED BY <5>1, <5>2
      <4>4. CASE UpdateScore(t)
        BY <1>0, <3>2, <4>4 DEF UpdateScore, Goto, Step, LevelsTask
      <4> QED BY <2>6, <4>1, <4>2, <4>3, <4>4
    <3> QED BY <1>0, <2>1, <3>1, <3>3, LevelsQuiet
  <2> QED BY <2>1, <2>2, <2>3, <2>4, <2>5, <2>6 DEF LevelsStep
<1>4. ASSUME NEW t \in Tasks, NEW v \in Users,
             SessionsActs(t, v) \/ SecurityActs(t, v) \/ SocialActs(t, v)
      PROVE  LevelsAreCounted'
  <2>1. Moves(t, v) /\ Counted /\ attached' = attached /\ received' = received /\ paid' = paid
    BY <1>4 DEF SessionsActs, SecurityActs, SocialActs, SessionsMove, SecurityMove, SocialMove, levels
  <2>2. /\ task[t].pc \notin {"pay", "record"} /\ task'[t].pc \notin {"attach", "pay", "record"}
    BY <1>4 DEF SessionsActs, SessionsMove, SecurityActs, SocialActs, SecurityMove, SocialMove,
       CallbackTask, CallbackSteps, LogoutTask, LogoutSteps, SecureTask, SecureSteps,
       VerifyTask, VerifySteps, AnswerTask, AnswerSteps, FollowTask, FollowSteps, Resting
  <2> QED BY <1>0, <2>1, <2>2, LevelsQuiet
<1>5. ASSUME NEW t \in Tasks, NEW v \in Users, FailsFor(t, v) PROVE LevelsAreCounted'
  <2>1. /\ Moves(t, v) /\ Counted /\ attached' = attached /\ received' = received /\ paid' = paid
        /\ faults' > faults /\ task'[t].pc = "idle"
    BY <1>5 DEF FailsFor, levels, Resting
  <2>2. task'[t].pc \notin {"attach", "pay", "record"}
    BY <2>1
  <2> QED BY <1>0, <2>1, <2>2, LevelsQuiet
<1> QED BY <1>0, <1>1, <1>2, <1>3, <1>4, <1>5, ActCases, AsideKeeps DEF Acts

LEMMA LevelsCountedInit == Init => LevelsAreCounted
<1>1. SUFFICES ASSUME Init PROVE LevelsAreCounted
  OBVIOUS
<1>2. /\ \A t \in Tasks : task[t].pc = "idle"
      /\ attached = [u \in Users |-> [l \in LevelIds |-> 0]]
      /\ received = [u \in Users |-> [l \in LevelIds |-> 0]]
      /\ paid = [u \in Users |-> [l \in LevelIds |-> [a \in 1..Assets |-> 0]]]
      /\ faults = 0
  BY <1>1 DEF Init, CitizensInit, LevelsInit
<1>3. Cardinality({}) = 0 /\ Cardinality(Tasks) \in Nat
  BY FS_EmptySet, FS_CardinalityType, CitizensAssumption
<1>4. ASSUME NEW u \in Users, NEW l \in LevelIds
      PROVE  Attaching(u, l) = {} /\ Awarding(u, l) = {} /\ attached[u][l] = 0 /\ received[u][l] = 0
  BY <1>2 DEF Attaching, Awarding, AtLevel
<1>5. ASSUME NEW u \in Users, NEW l \in LevelIds, NEW a \in 1..Assets
      PROVE  Unpaid(u, l, a) = {} /\ paid[u][l][a] = 0
  BY <1>2 DEF Unpaid, AtLevel
<1>6. PICK n : n = Cardinality(Tasks)
  OBVIOUS
<1>7. AttachedAreCounted
  <2>1. ASSUME NEW u \in Users, NEW l \in LevelIds
        PROVE  attached[u][l] + Cardinality(Attaching(u, l)) <= n
    <3>1. PICK A, x : A = Attaching(u, l) /\ x = attached[u][l]
      OBVIOUS
    <3>2. A = {} /\ x = 0
      BY <1>4, <3>1
    <3>3. Cardinality(A) = 0 /\ n \in Nat
      BY <1>3, <1>6, <3>2
    <3>4. x + Cardinality(A) <= n
      BY <3>2, <3>3
    <3> QED BY <3>1, <3>4
  <2> QED BY <1>6, <2>1 DEF AttachedAreCounted
<1>8. ReceivedAreCounted
  <2>1. ASSUME NEW u \in Users, NEW l \in LevelIds
        PROVE  received[u][l] + Cardinality(Awarding(u, l)) <= n + faults
    <3>1. PICK A, x : A = Awarding(u, l) /\ x = received[u][l]
      OBVIOUS
    <3>2. A = {} /\ x = 0
      BY <1>4, <3>1
    <3>3. Cardinality(A) = 0 /\ n \in Nat
      BY <1>3, <1>6, <3>2
    <3>4. x + Cardinality(A) <= n + faults
      BY <1>2, <3>2, <3>3
    <3> QED BY <3>1, <3>4
  <2> QED BY <1>6, <2>1 DEF ReceivedAreCounted
<1>9. PaidAreCounted
  <2>1. ASSUME NEW u \in Users, NEW l \in LevelIds, NEW a \in 1..Assets
        PROVE  paid[u][l][a] <= received[u][l] + faults + Cardinality(Unpaid(u, l, a))
    <3>1. PICK A, x, y : A = Unpaid(u, l, a) /\ x = paid[u][l][a] /\ y = received[u][l]
      OBVIOUS
    <3>2. A = {} /\ x = 0
      BY <1>5, <3>1
    <3>3. y = 0
      BY <1>4, <3>1
    <3>4. Cardinality(A) = 0
      BY <1>3, <3>2
    <3>5. x <= y + faults + Cardinality(A)
      BY <1>2, <3>2, <3>3, <3>4
    <3> QED BY <3>1, <3>5
  <2> QED BY <2>1 DEF PaidAreCounted
<1> QED BY <1>7, <1>8, <1>9 DEF LevelsAreCounted

LEMMA LevelsCountedImply ==
  ASSUME TypeOK, LevelsAreCounted
  PROVE  LevelsAreAttachedOnce /\ PrizesAreBounded /\ PrizesAreRecorded
<1>1. \A u \in Users, l \in LevelIds :
        /\ Cardinality(Attaching(u, l)) \in Nat /\ Cardinality(Awarding(u, l)) \in Nat
        /\ Cardinality(Tasks) \in Nat
  BY FS_Subset, FS_CardinalityType, CitizensAssumption DEF Attaching, Awarding, AtLevel
<1>2. ASSUME NEW u \in Users, NEW l \in LevelIds, NEW a \in 1..Assets
      PROVE  Cardinality(Unpaid(u, l, a)) \in Nat /\ Cardinality(Unpaid(u, l, a)) <= Cardinality(Awarding(u, l))
  <2>1. Unpaid(u, l, a) \subseteq Awarding(u, l) /\ Awarding(u, l) \subseteq Tasks
    BY DEF Unpaid, Awarding, AtLevel
  <2> QED BY <2>1, FS_Subset, FS_CardinalityType, CitizensAssumption
<1>3. LevelsAreAttachedOnce
  <2>1. ASSUME NEW u \in Users, NEW l \in LevelIds PROVE attached[u][l] <= Cardinality(Tasks)
    BY <1>1, LevelsNumbers DEF LevelsAreCounted, AttachedAreCounted
  <2> QED BY <2>1 DEF LevelsAreAttachedOnce
<1>4. PrizesAreBounded
  <2>1. ASSUME NEW u \in Users, NEW l \in LevelIds PROVE received[u][l] <= Cardinality(Tasks) + faults
    BY <1>1, LevelsNumbers DEF LevelsAreCounted, ReceivedAreCounted
  <2> QED BY <2>1 DEF PrizesAreBounded
<1>5. PrizesAreRecorded
  <2>1. ASSUME NEW u \in Users, NEW l \in LevelIds, NEW a \in 1..Assets
        PROVE  paid[u][l][a] <= received[u][l] + faults + Cardinality(Awarding(u, l))
    BY <1>1, <1>2, LevelsNumbers DEF LevelsAreCounted, PaidAreCounted
  <2> QED BY <2>1 DEF PrizesAreRecorded, Awarding, AtLevel
<1> QED BY <1>3, <1>4, <1>5

LEMMA DepositsInStepInit == Init => DepositsInStep
<1>1. SUFFICES ASSUME Init PROVE DepositsInStep
  OBVIOUS
<1>2. /\ \A t \in Tasks : task[t].pc = "idle"
      /\ \A u \in Users : log[u].deposit = 0 /\ deposited[u] = 0
  BY <1>1 DEF Init, CitizensInit, LevelsInit, NoLog
<1> QED BY <1>2 DEF DepositsInStep, DepositsAreKept, Writing

-----------------------------------------------------------------------------
(* Users whose requests did not overlap or fail *)

Calm(u) == overlap[u] = {} /\ faults = 0

(* The request that u's goroutine serves, if there is one. *)
Serving(u, k) == IF Busy(u) = {} THEN k = Resting ELSE \E t \in Busy(u) : k = task[t]

(* If v is calm after a step for v, the step is of the only request for v. *)
LEMMA Alone ==
  ASSUME Basics, Basics', NEW t \in Tasks, NEW v \in Users, Moves(t, v), Counted, Calm(v)'
  PROVE  /\ Calm(v) /\ Serving(v, task[t]) /\ Busy(v) \subseteq {t}
         /\ faults' = faults /\ \A k : Serving(v, k)' => k = task'[t]
<1>0. /\ TypeOK /\ task \in [Tasks -> Requests] /\ overlap \in [Users -> SUBSET Ops]
      /\ task' \in [Tasks -> Requests] /\ OverlapsAreNoted /\ OverlapsAreNoted'
  BY TypeFacts DEF Basics, Moves
<1>1. overlap[v] = {} /\ overlap'[v] = {} /\ faults = 0 /\ faults' = 0
  BY <1>0, MovesOverlap DEF Calm, Counted
<1>2. Busy(v) \subseteq {t} /\ (task[t].pc = "idle" => Busy(v) = {})
  <2>1. CASE task[t].pc = "idle"
    <3>1. Busy(v) = {}
      BY <1>0, <1>1, <2>1 DEF Moves
    <3> QED BY <3>1
  <2>2. CASE task[t].pc # "idle"
    BY <1>1, <2>2 DEF Moves, Busy, At, OverlapsAreNoted, Basics
  <2> QED BY <2>1, <2>2
<1>3. Serving(v, task[t])
  <2>1. CASE task[t].pc = "idle"
    <3>1. task[t] = Resting
      BY <1>0, <2>1, Kinds
    <3> QED BY <1>2, <2>1, <3>1 DEF Serving
  <2>2. CASE task[t].pc # "idle"
    <3>1. t \in Busy(v)
      BY <2>2 DEF Moves, Busy, At
    <3> QED BY <3>1 DEF Serving
  <2> QED BY <2>1, <2>2
<1>4. \A s \in Tasks \ {t} : ~ (task'[s].pc # "idle" /\ task'[s].user = v)
  BY <1>2 DEF Moves, Busy, At
<1>5. ASSUME NEW k, Serving(v, k)' PROVE k = task'[t]
  <2>1. CASE task'[t].pc = "idle"
    <3>1. Busy(v)' = {}
      BY <1>4, <2>1 DEF Busy, At
    <3>2. task'[t] = Resting
      BY <1>0, <2>1, Kinds
    <3> QED BY <1>5, <3>1, <3>2 DEF Serving, Resting
  <2>2. CASE task'[t].pc # "idle"
    <3>1. Busy(v)' = {t}
      BY <1>4, <2>2 DEF Busy, At, Moves
    <3> QED BY <1>5, <3>1 DEF Serving
  <2> QED BY <2>1, <2>2
<1> QED BY <1>1, <1>2, <1>3, <1>5 DEF Calm

(* A step for v is none for another user. *)
LEMMA Apart ==
  ASSUME TypeOK, NEW t \in Tasks, NEW v \in Users, Moves(t, v), NEW u \in Users \ {v}
  PROVE  overlap'[u] = overlap[u] /\ Busy(u)' = Busy(u) /\ \A k : Serving(u, k)' => Serving(u, k)
<1>0. task \in [Tasks -> Requests] /\ overlap \in [Users -> SUBSET Ops]
  BY TypeFacts
<1>1. overlap'[u] = overlap[u]
  BY <1>0, MovesOverlap
<1>2. \A s \in Busy(u) : task'[s] = task[s]
  BY DEF Moves, Busy, At
<1>3. Busy(u)' = Busy(u)
  BY DEF Moves, Busy, At
<1> QED BY <1>1, <1>2, <1>3 DEF Serving, Resting

LEMMA Still ==
  ASSUME task' = task, overlap' = overlap, NEW u \in Users
  PROVE  \A k : Serving(u, k)' => Serving(u, k)
BY DEF Serving, Busy, At, Resting

(* A registered user whose registration is done has a row of user_logs. *)
LEMMA LogIsThere ==
  ASSUME Basics, NEW t \in Tasks, NEW v \in Users, faults = 0, Busy(v) \subseteq {t},
         task[t].pc # "make", v \in registered
  PROVE  HasLog(v)
<1>1. Making(v) = {}
  BY DEF Making, Busy, At
<1>2. made[v]["log"] = 1
  BY <1>1 DEF Basics, SetUpInOrder, Parts
<1> QED BY <1>2 DEF HasLog

-----------------------------------------------------------------------------
(* The total time of the sessions *)

TimeOf(s) == SumFunctionOnSet(s, DOMAIN s)

TimesAreSums == \A u \in Users : TotalTime(u) = TimeOf(sessions[u])

LEMMA TimesNow == TimesAreSums
<1>1. ASSUME NEW u \in Users PROVE TotalTime(u) = TimeOf(sessions[u])
  <2>1. PICK s : s = sessions[u]
    OBVIOUS
  <2>2. FoldFunction(+, 0, s) = TimeOf(s)
    BY DEF FoldFunction, SumFunctionOnSet, TimeOf
  <2> QED BY <2>1, <2>2 DEF TotalTime
<1> QED BY <1>1 DEF TimesAreSums

LEMMA TimesThen == TimesAreSums'
BY TimesNow, PTL

LEMMA TimeTyped ==
  ASSUME NEW s \in Seq(Nat)
  PROVE  /\ IsFiniteSet(DOMAIN s) /\ TimeOf(s) \in Nat
<1>1. PICK n \in Nat : n = Len(s)
  OBVIOUS
<1>2. IsFiniteSet(1..n)
  BY FS_Interval
<1>3. IsFiniteSet(DOMAIN s) /\ \A i \in DOMAIN s : s[i] \in Nat
  BY <1>1, <1>2
<1> QED BY <1>3, SumNat DEF TimeOf

(* A session that starts adds nothing. *)
LEMMA TimeAppended ==
  ASSUME NEW s \in Seq(Nat), NEW r, r = Append(s, 0)
  PROVE  TimeOf(r) = TimeOf(s)
<1>1. PICK n \in Nat : n = Len(s)
  OBVIOUS
<1>2. /\ r \in Seq(Nat) /\ DOMAIN s = 1..n /\ DOMAIN r = 1..n + 1 /\ r[n + 1] = 0
      /\ \A i \in 1..n : r[i] = s[i] /\ s[i] \in Int
  BY <1>1
<1>3. PICK X, Y, x : X = 1..n /\ Y = 1..n + 1 /\ x = n + 1
  OBVIOUS
<1>4. IsFiniteSet(X) /\ x \notin X /\ Y = X \union {x}
  <2>1. IsFiniteSet(1..n)
    BY FS_Interval
  <2>2. n + 1 \notin 1..n /\ 1..n + 1 = 1..n \union {n + 1}
    OBVIOUS
  <2> QED BY <1>3, <2>1, <2>2
<1>5. SumFunctionOnSet(r, Y) = SumFunctionOnSet(r, X) + r[x]
  <2>1. \A y \in Y : r[y] \in Int
    BY <1>2, <1>3
  <2> QED BY ONLY <1>4, <2>1, SumWith
<1>6. SumFunctionOnSet(r, X) = SumFunctionOnSet(s, X)
  BY <1>2, <1>3, <1>4, SumEqual
<1>7. SumFunctionOnSet(s, X) \in Nat
  BY <1>2, <1>3, TimeTyped DEF TimeOf
<1> QED BY <1>2, <1>3, <1>5, <1>6, <1>7 DEF TimeOf

(* A session that ends, or ends later, takes nothing away. *)
LEMMA TimeUpdated ==
  ASSUME NEW s \in Seq(Nat), NEW i \in 1..Len(s), NEW n \in Nat, s[i] <= n,
         NEW r, r = [s EXCEPT ![i] = n]
  PROVE  r \in Seq(Nat) /\ TimeOf(r) >= TimeOf(s)
<1>1. /\ r \in Seq(Nat) /\ DOMAIN r = DOMAIN s /\ i \in DOMAIN s
      /\ \A j \in DOMAIN s : s[j] \in Int /\ r[j] \in Int /\ s[j] <= r[j]
  OBVIOUS
<1>2. PICK X : X = DOMAIN s
  OBVIOUS
<1>3. SumFunctionOnSet(s, X) <= SumFunctionOnSet(r, X)
  <2>1. IsFiniteSet(X) /\ \A j \in X : s[j] \in Int /\ r[j] \in Int /\ s[j] <= r[j]
    BY <1>1, <1>2, TimeTyped
  <2> QED BY <2>1, SumMonotone
<1>4. TimeOf(s) \in Nat /\ TimeOf(r) \in Nat
  BY <1>1, TimeTyped
<1>5. PICK x, y : x = TimeOf(s) /\ y = TimeOf(r)
  OBVIOUS
<1>6. x <= y
  BY <1>1, <1>2, <1>3, <1>5 DEF TimeOf
<1> QED BY <1>1, <1>4, <1>5, <1>6

TopLevel(u, l) ==
  Threshold[l] <= score[u] /\ \A m \in LevelIds : Threshold[m] <= score[u] => Threshold[m] <= Threshold[l]

(* Request k gives u level l next, or looks for the level of u's score. *)
Brings(k, u, l) ==
  /\ k.pc \in {"level", "attach"} /\ k.user = u
  /\ k.pc = "level" => k.points = score[u]
  /\ k.pc = "attach" => k.level = l

(* The level that u's score reaches is u's, or a request brings it. *)
LevelsFollow ==
  \A u \in Users, l \in LevelIds :
    faults = 0 /\ score[u] > 0 /\ TopLevel(u, l) =>
      attached[u][l] > 0 \/ \E t \in Tasks : Brings(task[t], u, l)

-----------------------------------------------------------------------------
(* Levels follow the score *)

LEMMA FollowStep ==
  ASSUME TypeOK, LevelsFollow, NEW t \in Tasks, NEW v \in Users, Moves(t, v), Counted,
         NEW m, m = task'[t],
         \A u \in Users, l \in LevelIds :
           faults' = 0 /\ faults = 0 /\ score'[u] > 0 /\ TopLevel(u, l)' =>
             \/ attached'[u][l] > 0
             \/ Brings(m, u, l)'
             \/ score'[u] = score[u] /\ attached'[u][l] = attached[u][l] /\ ~ Brings(task[t], u, l)
  PROVE  LevelsFollow'
<1>1. SUFFICES ASSUME NEW u \in Users, NEW l \in LevelIds,
                      faults' = 0, score'[u] > 0, TopLevel(u, l)'
               PROVE  attached'[u][l] > 0 \/ \E s \in Tasks : Brings(task[s], u, l)'
  BY DEF LevelsFollow
<1>2. faults = 0
  BY <1>1 DEF Counted
<1>3. CASE attached'[u][l] > 0
  BY <1>3
<1>4. CASE Brings(m, u, l)'
  BY <1>4 DEF Brings
<1>5. CASE score'[u] = score[u] /\ attached'[u][l] = attached[u][l] /\ ~ Brings(task[t], u, l)
  <2>1. score[u] > 0 /\ TopLevel(u, l)
    BY <1>1, <1>5 DEF TopLevel
  <2>2. attached[u][l] > 0 \/ \E s \in Tasks : Brings(task[s], u, l)
    BY <1>2, <2>1 DEF LevelsFollow
  <2>3. ASSUME NEW s \in Tasks, Brings(task[s], u, l) PROVE Brings(task[s], u, l)'
    <3>1. task'[s] = task[s]
      BY <1>5, <2>3 DEF Moves
    <3> QED BY <1>5, <2>3, <3>1 DEF Brings
  <2> QED BY <1>5, <2>2, <2>3
<1> QED BY <1>1, <1>2, <1>3, <1>4, <1>5

LEMMA FollowQuiet ==
  ASSUME TypeOK, LevelsFollow, NEW t \in Tasks, NEW v \in Users, Moves(t, v), Counted,
         score' = score, attached' = attached,
         task[t].pc \notin {"level", "attach"} \/ faults' > faults
  PROVE  LevelsFollow'
<1>1. PICK m : m = task'[t]
  OBVIOUS
<1>2. \A u \in Users, l \in LevelIds :
        faults' = 0 /\ faults = 0 => ~ Brings(task[t], u, l)
  BY DEF Brings
<1> QED BY <1>1, <1>2, FollowStep

LEMMA ScoreFollows ==
  ASSUME TypeOK, LevelsFollow, NEW t \in Tasks, NEW v \in Users, LevelsActs(t, v), UpdateScore(t)
  PROVE  LevelsFollow'
<1>1. PICK k, m : k = task[t] /\ m = task'[t]
  OBVIOUS
<1>2. /\ k \in LevelsTask /\ k.user = v /\ k.pc = "score"
      /\ task \in [Tasks -> Requests] /\ score \in [Users -> Nat]
  BY <1>1, LevelsTaskAt, TypeFacts DEF UpdateScore, LevelsActs, LevelsMove, At, LevelsSteps, Moves, LevelsTypeOK
<1>3. m = [k EXCEPT !.pc = "level"] /\ score' = [score EXCEPT ![v] = k.points] /\ attached' = attached
  BY <1>1, <1>2 DEF UpdateScore, Goto, Step
<1>4. m.pc = "level" /\ m.user = v /\ m.points = k.points
  BY <1>2, <1>3 DEF LevelsTask
<1>5. ASSUME NEW l \in LevelIds PROVE Brings(m, v, l)'
  BY <1>2, <1>3, <1>4 DEF Brings
<1>6. ASSUME NEW u \in Users, NEW l \in LevelIds, u # v
      PROVE  score'[u] = score[u] /\ attached'[u][l] = attached[u][l] /\ ~ Brings(task[t], u, l)
  BY <1>1, <1>2, <1>3, <1>6 DEF Brings
<1>7. Moves(t, v) /\ Counted
  BY DEF LevelsActs, LevelsMove
<1> QED BY <1>1, <1>5, <1>6, <1>7, FollowStep

LEMMA LookFollows ==
  ASSUME TypeOK, LevelsFollow, NEW t \in Tasks, NEW v \in Users, LevelsActs(t, v),
         GetNextLevelForScore(t)
  PROVE  LevelsFollow'
<1>1. PICK k, m : k = task[t] /\ m = task'[t]
  OBVIOUS
<1>2. /\ k \in LevelsTask /\ k.user = v /\ k.pc = "level" /\ k.points \in Nat
      /\ task \in [Tasks -> Requests] /\ score \in [Users -> Nat]
      /\ \A u \in Users, l \in LevelIds : attached[u][l] \in Nat
  BY <1>1, LevelsTaskAt, TypeFacts, LevelsNumbers
     DEF GetNextLevelForScore, LevelsActs, LevelsMove, At, LevelsSteps, Moves, LevelsTypeOK
<1>3. PICK open : open = {l \in LevelIds : Threshold[l] <= k.points /\ attached[v][l] = 0}
  OBVIOUS
<1>4. /\ attached' = attached /\ score' = score
      /\ \/ open = {}
         \/ \E l \in open : /\ \A n \in open : Threshold[n] <= Threshold[l]
                            /\ m = [k EXCEPT !.pc = "attach", !.level = l]
  BY <1>1, <1>2, <1>3 DEF GetNextLevelForScore, Step, levels
<1>5. ASSUME NEW u \in Users, NEW l \in LevelIds, TopLevel(u, l)', Brings(k, u, l),
             attached'[u][l] = 0
      PROVE  Brings(m, u, l)'
  <2>1. u = v /\ k.points = score[u] /\ TopLevel(u, l)
    BY <1>2, <1>4, <1>5 DEF Brings, TopLevel
  <2>2. l \in open
    BY <1>3, <1>4, <1>5, <2>1 DEF TopLevel
  <2>3. PICK n \in open : /\ Threshold[l] <= Threshold[n]
                          /\ m = [k EXCEPT !.pc = "attach", !.level = n]
    BY <1>4, <2>2
  <2>4. n \in LevelIds /\ Threshold[n] <= Threshold[l]
    BY <1>3, <2>1, <2>3 DEF TopLevel
  <2>5. Threshold[n] \in Nat /\ Threshold[l] \in Nat /\ Threshold \in [LevelIds -> Nat]
    BY <2>4, LevelsAssumption
  <2>6. Threshold[n] = Threshold[l]
    BY <2>3, <2>4, <2>5
  <2>7. n = l
    BY <2>4, <2>5, <2>6, LevelsAssumption DEF IsInjective
  <2>8. m.pc = "attach" /\ m.user = v /\ m.level = l
    BY <1>2, <2>3, <2>7 DEF LevelsTask
  <2> QED BY <2>1, <2>8 DEF Brings
<1>6. Moves(t, v) /\ Counted
  BY DEF LevelsActs, LevelsMove
<1>7. ASSUME NEW u \in Users, NEW l \in LevelIds, TopLevel(u, l)'
      PROVE  \/ attached'[u][l] > 0
             \/ Brings(m, u, l)'
             \/ score'[u] = score[u] /\ attached'[u][l] = attached[u][l] /\ ~ Brings(task[t], u, l)
  <2>1. attached'[u][l] = 0 \/ attached'[u][l] > 0
    <3>1. PICK n \in Nat : n = attached[u][l]
      BY <1>2
    <3>2. n = 0 \/ n > 0
      OBVIOUS
    <3> QED BY <1>4, <3>1, <3>2
  <2>2. CASE Brings(k, u, l)
    BY <1>5, <1>7, <2>1, <2>2
  <2>3. CASE ~ Brings(k, u, l)
    BY <1>1, <1>4, <2>3
  <2> QED BY <2>2, <2>3
<1> QED BY <1>1, <1>6, <1>7, FollowStep

LEMMA AttachFollows ==
  ASSUME TypeOK, LevelsFollow, NEW t \in Tasks, NEW v \in Users, LevelsActs(t, v),
         AttachLevelToUser(t)
  PROVE  LevelsFollow'
<1>1. PICK k, m : k = task[t] /\ m = task'[t]
  OBVIOUS
<1>2. /\ k \in LevelsTask /\ k.user = v /\ k.pc = "attach" /\ k.level \in LevelIds
      /\ attached \in [Users -> [LevelIds -> Nat]]
      /\ \A u \in Users, l \in LevelIds : attached[u][l] \in Nat
  BY <1>1, LevelsTaskAt, TypeFacts, LevelsNumbers
     DEF AttachLevelToUser, LevelsActs, LevelsMove, At, LevelsSteps, Moves, LevelsTypeOK
<1>3. PICK n : n = k.level
  OBVIOUS
<1>4. attached' = [attached EXCEPT ![v][n] = @ + 1] /\ score' = score
  BY <1>1, <1>2, <1>3 DEF AttachLevelToUser
<1>5. attached'[v][n] > 0
  <2>1. attached'[v][n] = attached[v][n] + 1
    BY <1>2, <1>3, <1>4
  <2> QED BY <1>2, <1>3, <2>1
<1>6. ASSUME NEW u \in Users, NEW l \in LevelIds, ~ (u = v /\ l = n)
      PROVE  attached'[u][l] = attached[u][l] /\ ~ Brings(task[t], u, l)
  <2>1. attached'[u][l] = attached[u][l]
    BY <1>2, <1>3, <1>4, <1>6
  <2>2. ~ Brings(k, u, l)
    BY <1>2, <1>3, <1>6 DEF Brings
  <2> QED BY <1>1, <2>1, <2>2
<1>7. Moves(t, v) /\ Counted
  BY DEF LevelsActs, LevelsMove
<1>8. ASSUME NEW u \in Users, NEW l \in LevelIds
      PROVE  \/ attached'[u][l] > 0
             \/ score'[u] = score[u] /\ attached'[u][l] = attached[u][l] /\ ~ Brings(task[t], u, l)
  BY <1>4, <1>5, <1>6
<1> QED BY <1>1, <1>7, <1>8, FollowStep

LEMMA LevelsFollowNext ==
  ASSUME Basics, LevelsFollow, [Next]_vars
  PROVE  LevelsFollow'
<1>0. TypeOK /\ RequestsAreSound /\ task \in [Tasks -> Requests]
  BY TypeFacts DEF Basics
<1>1. ASSUME NEW t \in Tasks, NEW v \in Users, LevelsActs(t, v) PROVE LevelsFollow'
  <2>1. CASE UpdateScore(t)
    BY <1>0, <1>1, <2>1, ScoreFollows
  <2>2. CASE GetNextLevelForScore(t)
    BY <1>0, <1>1, <2>2, LookFollows
  <2>3. CASE AttachLevelToUser(t)
    BY <1>0, <1>1, <2>3, AttachFollows
  <2>4. CASE ~ UpdateScore(t) /\ ~ GetNextLevelForScore(t) /\ ~ AttachLevelToUser(t)
    <3>1. /\ score' = score /\ attached' = attached /\ task[t].pc \notin {"level", "attach"}
      BY <1>1, <2>4 DEF LevelsActs, LevelsStep, LevelsRequest, Begin, Start, IncrementDeposit,
           GetSignificantTradeCount, UpdateTransactionsCount, CalculateScore, HasUserReceivedPrize,
           AddPrize, RecordReceivedPrize, At, levels
    <3> QED BY <1>0, <1>1, <3>1, FollowQuiet DEF LevelsActs, LevelsMove
  <2> QED BY <2>1, <2>2, <2>3, <2>4
<1>2. ASSUME NEW t \in Tasks, NEW v \in Users,
             SessionsActs(t, v) \/ SecurityActs(t, v) \/ SocialActs(t, v) \/ FailsFor(t, v)
      PROVE  LevelsFollow'
  <2>1. Moves(t, v) /\ Counted /\ score' = score /\ attached' = attached
    BY <1>2 DEF SessionsActs, SecurityActs, SocialActs, FailsFor, SessionsMove, SecurityMove,
         SocialMove, levels
  <2>2. task[t].pc \notin {"level", "attach"} \/ faults' > faults
    BY <1>2 DEF SessionsActs, SecurityActs, SocialActs, FailsFor, SessionsMove, SecurityMove,
         SocialMove, CallbackTask, CallbackSteps, LogoutTask, LogoutSteps, SecureTask, SecureSteps,
         VerifyTask, VerifySteps, AnswerTask, AnswerSteps, FollowTask, FollowSteps, Resting
  <2> QED BY <1>0, <2>1, <2>2, FollowQuiet
<1>3. ASSUME task' = task, score' = score, attached' = attached, faults' = faults
      PROVE  LevelsFollow'
  BY <1>3 DEF LevelsFollow, TopLevel, Brings
<1>4. CASE UNCHANGED vars
  BY <1>3, <1>4 DEF vars, requests, levels
<1>5. CASE Next
  BY <1>0, <1>1, <1>2, <1>3, <1>5, ActCases, AsideKeeps DEF Acts
<1> QED BY <1>4, <1>5

LEMMA LevelsFollowInit == Init => LevelsFollow
BY DEF Init, LevelsInit, LevelsFollow

LEMMA LevelsFollowImply ==
  ASSUME LevelsFollow
  PROVE  LevelIsReached
<1>1. ASSUME NEW u \in Users, NEW l \in LevelIds, faults = 0, Busy(u) = {}, score[u] > 0,
             TopLevel(u, l)
      PROVE  attached[u][l] > 0
  <2>1. ASSUME NEW t \in Tasks PROVE ~ Brings(task[t], u, l)
    BY <1>1 DEF Brings, Busy, At
  <2> QED BY <1>1, <2>1 DEF LevelsFollow
<1> QED BY <1>1 DEF LevelIsReached, TopLevel

(* The hours of user_logs are those of the sessions, but while a logout   *)
(* that ended a session has not written them yet.                          *)
HoursInStep(u, k) ==
  /\ log[u].hours <= TotalTime(u)
  /\ k.pc \in {"read", "writeHours"} => k.hours = TotalTime(u)
  /\ k.pc \notin {"hours", "read", "writeHours"} => log[u].hours = TotalTime(u)

HoursAreInStep == \A u \in Users : Calm(u) => \A k : Serving(u, k) => HoursInStep(u, k)

-----------------------------------------------------------------------------
(* What steps for v leave alone *)

LEMMA LevelsApart ==
  ASSUME TypeOK, NEW t \in Tasks, NEW v \in Users, LevelsActs(t, v), NEW u \in Users \ {v}
  PROVE  log'[u] = log[u] /\ score'[u] = score[u]
<1>1. PICK k : k = task[t]
  OBVIOUS
<1>2. LevelsStep(t) /\ log \in [Users -> UserLog] /\ score \in [Users -> Nat]
      /\ (k.pc # "idle" => k.user = v)
  BY <1>1, TypeFacts DEF LevelsActs, LevelsMove, Moves, CitizensTypeOK, LevelsTypeOK
<1>3. CASE IncrementDeposit(t)
  BY <1>1, <1>2, <1>3 DEF IncrementDeposit, At
<1>4. CASE UpdateTransactionsCount(t)
  BY <1>1, <1>2, <1>4 DEF UpdateTransactionsCount, At, levels
<1>5. CASE UpdateScore(t)
  BY <1>1, <1>2, <1>5 DEF UpdateScore, At
<1>6. CASE ~ IncrementDeposit(t) /\ ~ UpdateTransactionsCount(t) /\ ~ UpdateScore(t)
  BY <1>2, <1>6 DEF LevelsStep, LevelsRequest, GetSignificantTradeCount, CalculateScore,
     GetNextLevelForScore, AttachLevelToUser, HasUserReceivedPrize, AddPrize, RecordReceivedPrize,
     accounts, levels
<1> QED BY <1>3, <1>4, <1>5, <1>6

LEMMA SessionsApart ==
  ASSUME TypeOK, NEW t \in Tasks, NEW v \in Users, SessionsActs(t, v), NEW u \in Users \ {v}
  PROVE  log'[u] = log[u] /\ sessions'[u] = sessions[u] /\ phone'[u] = phone[u]
<1>1. PICK k : k = task[t]
  OBVIOUS
<1>2. /\ SessionsStep(t) /\ (k.pc # "idle" => k.user = v)
      /\ log \in [Users -> UserLog] /\ phone \in [Users -> Phones \union {NoPhone}]
      /\ sessions \in [Users -> Seq(Nat)]
  BY <1>1, TypeFacts DEF SessionsActs, SessionsMove, Moves, CitizensTypeOK
<1>3. CASE CreateUser(t)
  BY <1>1, <1>2, <1>3 DEF CreateUser, At
<1>4. CASE MakePart(t)
  BY <1>1, <1>2, <1>4 DEF MakePart, Make, At
<1>5. CASE UpdateUser(t)
  BY <1>1, <1>2, <1>5 DEF UpdateUser, At
<1>6. CASE OnUserLogin(t)
  BY <1>1, <1>2, <1>6 DEF OnUserLogin, At
<1>7. CASE UpdateActivity(t)
  BY <1>1, <1>2, <1>7 DEF UpdateActivity, At
<1>8. CASE WriteHours(t) \/ WriteScore(t)
  <2>1. PICK r : log' = [log EXCEPT ![v] = r]
    BY <1>1, <1>2, <1>8 DEF WriteHours, WriteScore, UpdateUserLog, At
  <2> QED BY <1>2, <1>8, <2>1 DEF WriteHours, WriteScore, UpdateUserLog
<1>9. CASE WriteUser(t)
  BY <1>1, <1>2, <1>9 DEF WriteUser, At
<1>10. CASE \/ \E w \in Users, p \in Phones : Callback(t, w, p)
            \/ FindUser(t) \/ (\E w \in registered : Logout(t, w)) \/ GetLatestActivity(t)
            \/ GetTotalActivityMinutes(t) \/ GetUserLog(t)
  BY <1>10 DEF Callback, FindUser, Logout, GetLatestActivity, GetTotalActivityMinutes, GetUserLog,
     accounts
<1> QED BY <1>2, <1>3, <1>4, <1>5, <1>6, <1>7, <1>8, <1>9, <1>10 DEF SessionsStep

-----------------------------------------------------------------------------
(* Hours *)

LEMMA TimeKept ==
  ASSUME NEW u \in Users, sessions'[u] = sessions[u]
  PROVE  TotalTime(u)' = TotalTime(u)
BY TimesNow, TimesThen DEF TimesAreSums

LEMMA HoursStep ==
  ASSUME Basics, Basics', HoursAreInStep, NEW t \in Tasks, NEW v \in Users, Moves(t, v), Counted,
         \A u \in Users \ {v} : log'[u] = log[u] /\ sessions'[u] = sessions[u],
         NEW m, m = task'[t],
         Calm(v) /\ Busy(v) \subseteq {t} /\ faults' = 0 /\ HoursInStep(v, task[t]) =>
           HoursInStep(v, m)'
  PROVE  HoursAreInStep'
<1>1. SUFFICES ASSUME NEW u \in Users, Calm(u)', NEW k, Serving(u, k)' PROVE HoursInStep(u, k)'
  BY DEF HoursAreInStep
<1>2. CASE u = v
  <2>1. k = m /\ Calm(v) /\ Busy(v) \subseteq {t} /\ faults' = 0 /\ Serving(v, task[t])
    BY <1>1, <1>2, Alone DEF Calm
  <2>2. HoursInStep(v, task[t])
    BY <2>1 DEF HoursAreInStep
  <2> QED BY <1>2, <2>1, <2>2
<1>3. CASE u # v
  <2>1. /\ overlap'[u] = overlap[u] /\ Serving(u, k) /\ log'[u] = log[u]
        /\ sessions'[u] = sessions[u]
    BY <1>1, <1>3, Apart DEF Basics
  <2>2. Calm(u)
    BY <1>1, <2>1 DEF Calm, Counted
  <2>3. HoursInStep(u, k) /\ TotalTime(u)' = TotalTime(u)
    BY <2>1, <2>2, TimeKept DEF HoursAreInStep
  <2> QED BY <2>1, <2>3 DEF HoursInStep
<1> QED BY <1>2, <1>3

HourSteps == {"hours", "read", "writeHours"}

(* A step that changes neither the hours nor the sessions. *)
LEMMA HoursQuiet ==
  ASSUME NEW v \in Users, NEW k, NEW m, HoursInStep(v, k), k.pc \notin HourSteps, m.pc \notin HourSteps,
         log'[v].hours = log[v].hours, TotalTime(v)' = TotalTime(v)
  PROVE  HoursInStep(v, m)'
BY DEF HoursInStep, HourSteps

LEMMA CallbackAt ==
  ASSUME Basics, NEW t \in Tasks, NEW v \in Users, SessionsActs(t, v), NEW k, NEW m,
         k = task[t], m = task'[t],
         \/ \E u \in Users, p \in Phones : Callback(t, u, p)
         \/ FindUser(t) \/ CreateUser(t) \/ MakePart(t) \/ UpdateUser(t) \/ OnUserLogin(t)
  PROVE  k.pc \in CallbackSteps \union {"idle"} /\ m.pc \in CallbackSteps \union {"idle"}
<1>0. TypeOK /\ task \in [Tasks -> Requests]
  BY TypeFacts DEF Basics
<1>1. CASE k.pc = "idle"
  <2>1. \E u \in Users, p \in Phones : Callback(t, u, p)
    BY <1>1 DEF FindUser, CreateUser, MakePart, UpdateUser, OnUserLogin, At
  <2> QED BY <1>0, <1>1, <2>1 DEF Callback, Start, Step, CallbackSteps
<1>2. CASE k.pc # "idle"
  <2>1. k.pc \in CallbackSteps
    BY <1>2 DEF Callback, Start, FindUser, CreateUser, MakePart, UpdateUser, OnUserLogin, At,
       CallbackSteps
  <2>2. k \in CallbackTask
    BY <1>0, <2>1, CallbackTaskAt
  <2>3. k \notin LogoutTask \union {Resting}
    BY <2>2 DEF CallbackTask, LogoutTask, CallbackSteps, LogoutSteps, Resting
  <2>4. m \in CallbackTask \union {Resting}
    BY <2>3 DEF SessionsActs, SessionsMove
  <2> QED BY <2>2, <2>4 DEF CallbackTask, CallbackSteps, Resting
<1> QED BY <1>1, <1>2

LEMMA HoursCallback ==
  ASSUME Basics, NEW t \in Tasks, NEW v \in Users, SessionsActs(t, v), NEW k, NEW m,
         k = task[t], m = task'[t], faults' = 0, HoursInStep(v, k),
         \/ \E u \in Users, p \in Phones : Callback(t, u, p)
         \/ FindUser(t) \/ CreateUser(t) \/ MakePart(t) \/ UpdateUser(t) \/ OnUserLogin(t)
  PROVE  HoursInStep(v, m)'
<1>0. /\ TypeOK /\ task \in [Tasks -> Requests] /\ sessions \in [Users -> Seq(Nat)]
      /\ sessions' \in [Users -> Seq(Nat)]
      /\ (k.pc # "idle" => k.user = v) /\ Counted
  BY TypeFacts DEF Basics, SessionsActs, SessionsMove, AccountsTyped, Moves, CitizensTypeOK
<1>1. k.pc \notin HourSteps /\ m.pc \notin HourSteps
  BY CallbackAt DEF CallbackSteps, HourSteps
<1>2. log' = log /\ (sessions' = sessions \/ sessions' = [sessions EXCEPT ![v] = Append(@, 0)])
  <2>1. CASE MakePart(t)
    BY <1>0, <2>1 DEF MakePart, Make, Stumble, Fault, Counted, At
  <2>2. CASE ~ MakePart(t)
    BY <1>0, <2>2 DEF Callback, FindUser, CreateUser, UpdateUser, OnUserLogin, At, accounts
  <2> QED BY <2>1, <2>2
<1>3. TotalTime(v)' = TotalTime(v)
  <2>1. CASE sessions' = sessions
    BY <2>1, TimeKept
  <2>2. CASE sessions' = [sessions EXCEPT ![v] = Append(@, 0)]
    <3>1. PICK s, r : s \in Seq(Nat) /\ s = sessions[v] /\ r = Append(s, 0)
      BY <1>0
    <3>2. sessions'[v] = r
      BY <1>0, <2>2, <3>1
    <3>3. TimeOf(r) = TimeOf(s)
      BY <3>1, TimeAppended
    <3> QED BY <3>1, <3>2, <3>3, TimesNow, TimesThen DEF TimesAreSums
  <2> QED BY <1>2, <2>1, <2>2
<1> QED BY <1>1, <1>2, <1>3, HoursQuiet

LEMMA HoursLogout ==
  ASSUME Basics, DepositsInStep, NEW t \in Tasks, NEW v \in Users, SessionsActs(t, v),
         NEW k, NEW m, k = task[t], m = task'[t], Calm(v), Busy(v) \subseteq {t}, HoursInStep(v, k),
         \/ \E u \in registered : Logout(t, u)
         \/ GetLatestActivity(t) \/ UpdateActivity(t) \/ GetTotalActivityMinutes(t)
         \/ GetUserLog(t) \/ WriteHours(t) \/ WriteScore(t) \/ WriteUser(t)
  PROVE  HoursInStep(v, m)'
<1>0. /\ TypeOK /\ task \in [Tasks -> Requests] /\ sessions \in [Users -> Seq(Nat)]
      /\ log \in [Users -> UserLog] /\ TotalTime(v) \in Nat
      /\ (k.pc # "idle" => k.user = v) /\ faults = 0
  BY TypeFacts, TotalTimeTyped DEF Basics, SessionsActs, SessionsMove, Moves, CitizensTypeOK, Calm
<1>1. CASE \E u \in registered : Logout(t, u)
  <2>1. k.pc = "idle" /\ m.pc = "latest" /\ log' = log /\ sessions' = sessions
    BY <1>0, <1>1 DEF Logout, Start, Step, At, accounts
  <2> QED BY <2>1, TimeKept, HoursQuiet DEF HourSteps
<1>2. ASSUME k.pc \in LogoutSteps PROVE k \in LogoutTask /\ k.user = v /\ k.user \in registered
  <2>1. k.pc # "idle" /\ k.pc \notin CallbackSteps
    BY <1>2 DEF LogoutSteps, CallbackSteps
  <2> QED BY <1>0, <1>2, <2>1, LogoutTaskAt, UserIsRegistered DEF Basics
<1>3. CASE GetLatestActivity(t)
  <2>1. k \in LogoutTask /\ k.pc = "latest" /\ log' = log /\ sessions' = sessions
    BY <1>2, <1>3 DEF GetLatestActivity, At, LogoutSteps, accounts
  <2>2. PICK n, pc : pc \in {"hours", "end"} /\ m = [k EXCEPT !.row = n, !.pc = pc]
    <3>1. PICK n : n = Len(sessions[task[t].user])
      OBVIOUS
    <3>2. PICK pc : pc = IF n = 0 THEN "hours" ELSE "end"
      OBVIOUS
    <3>3. m = [k EXCEPT !.row = n, !.pc = pc]
      BY <1>0, <1>3, <3>1, <3>2 DEF GetLatestActivity, Step
    <3> QED BY <3>2, <3>3
  <2>3. m.pc \in {"hours", "end"}
    BY <2>1, <2>2 DEF LogoutTask
  <2>4. TotalTime(v)' = TotalTime(v)
    BY <2>1, TimeKept
  <2> QED BY <2>1, <2>3, <2>4 DEF HoursInStep
<1>4. CASE UpdateActivity(t)
  <2>1. k \in LogoutTask /\ k.pc = "end" /\ k.user = v /\ log' = log
    BY <1>2, <1>4 DEF UpdateActivity, At, LogoutSteps
  <2>2. k.row \in 1..Len(sessions[v])
    BY <2>1 DEF Basics, RequestsAreSound, Sound
  <2>3. PICK s, i : s \in Seq(Nat) /\ s = sessions[v] /\ i = k.row
    BY <1>0
  <2>4. PICK n \in s[i]..MaxSession : sessions' = [sessions EXCEPT ![v] = [s EXCEPT ![i] = n]]
    BY <1>4, <2>1, <2>3 DEF UpdateActivity
  <2>5. i \in 1..Len(s) /\ n \in Nat /\ s[i] <= n
    <3>1. i \in 1..Len(s) /\ s[i] \in Nat
      BY <2>2, <2>3
    <3> QED BY <2>4, <3>1, SessionsAssumption
  <2>6. PICK r : r = [s EXCEPT ![i] = n]
    OBVIOUS
  <2>7. r \in Seq(Nat) /\ TimeOf(r) >= TimeOf(s)
    BY <2>3, <2>5, <2>6, TimeUpdated
  <2>8. TotalTime(v)' >= TotalTime(v)
    <3>1. sessions'[v] = r
      BY <1>0, <2>4, <2>6
    <3> QED BY <2>3, <2>7, <3>1, TimesNow, TimesThen DEF TimesAreSums
  <2>9. m = [k EXCEPT !.pc = "hours"]
    BY <1>0, <1>4 DEF UpdateActivity, Goto, Step
  <2>10. m.pc = "hours"
    BY <2>1, <2>9 DEF LogoutTask
  <2>11. log[v].hours = TotalTime(v)
    BY <2>1 DEF HoursInStep
  <2> QED BY <2>1, <2>8, <2>10, <2>11 DEF HoursInStep
<1>5. CASE GetTotalActivityMinutes(t)
  <2>1. k \in LogoutTask /\ k.pc = "hours" /\ k.user = v /\ log' = log /\ sessions' = sessions
    BY <1>2, <1>5 DEF GetTotalActivityMinutes, At, LogoutSteps, accounts
  <2>2. PICK n : n = TotalTime(v)
    OBVIOUS
  <2>3. m = [k EXCEPT !.pc = "read", !.hours = n]
    BY <1>0, <1>5, <2>1, <2>2 DEF GetTotalActivityMinutes, Step
  <2>4. m.pc = "read" /\ m.hours = n
    BY <2>1, <2>3 DEF LogoutTask
  <2>5. TotalTime(v)' = TotalTime(v)
    BY <2>1, TimeKept
  <2> QED BY <2>1, <2>2, <2>4, <2>5 DEF HoursInStep
<1>6. CASE GetUserLog(t)
  <2>1. k \in LogoutTask /\ k.pc \in {"read", "reread"} /\ k.user = v /\ v \in registered
        /\ log' = log /\ sessions' = sessions
    BY <1>2, <1>6 DEF GetUserLog, LogoutSteps, accounts
  <2>2. HasLog(v)
    BY <1>0, <2>1, LogIsThere
  <2>3. PICK pc, r : pc = (IF k.pc = "read" THEN "writeHours" ELSE "writeScore") /\ r = log[v]
    OBVIOUS
  <2>4. m = [k EXCEPT !.pc = pc, !.log = r]
    BY <1>0, <1>6, <2>1, <2>2, <2>3 DEF GetUserLog, Step
  <2>5. m.pc = pc /\ m.hours = k.hours
    BY <2>1, <2>4 DEF LogoutTask
  <2>6. TotalTime(v)' = TotalTime(v)
    BY <2>1, TimeKept
  <2>7. CASE k.pc = "read"
    BY <2>1, <2>3, <2>5, <2>6, <2>7 DEF HoursInStep
  <2>8. CASE k.pc = "reread"
    BY <2>1, <2>3, <2>5, <2>6, <2>8 DEF HoursInStep
  <2> QED BY <2>1, <2>7, <2>8
<1>7. CASE WriteHours(t)
  <2>1. k \in LogoutTask /\ k.pc = "writeHours" /\ k.user = v /\ k.log \in UserLog /\ sessions' = sessions
    BY <1>2, <1>7 DEF WriteHours, UpdateUserLog, At, LogoutSteps, LogoutTask
  <2>2. PICK r : r = [k.log EXCEPT !.hours = k.hours]
    OBVIOUS
  <2>3. log'[v] = r
    BY <1>0, <1>7, <2>1, <2>2 DEF WriteHours, UpdateUserLog
  <2>4. r.hours = k.hours
    BY <2>1, <2>2 DEF UserLog
  <2>5. m.pc = "reread"
    BY <1>0, <1>7, <2>1 DEF WriteHours, Goto, Step, LogoutTask
  <2>6. k.hours = TotalTime(v) /\ TotalTime(v)' = TotalTime(v)
    BY <2>1, TimeKept DEF HoursInStep
  <2> QED BY <1>0, <2>3, <2>4, <2>5, <2>6 DEF HoursInStep
<1>8. CASE WriteScore(t)
  <2>1. k \in LogoutTask /\ k.pc = "writeScore" /\ k.user = v /\ k.log \in UserLog /\ sessions' = sessions
    BY <1>2, <1>8 DEF WriteScore, UpdateUserLog, At, LogoutSteps, LogoutTask
  <2>2. k.log = log[v]
    BY <2>1 DEF DepositsInStep, Calm, Writing
  <2>3. PICK n, r : n = Total(k.log) /\ r = [k.log EXCEPT !.score = n]
    OBVIOUS
  <2>4. log'[v] = r
    BY <1>0, <1>8, <2>1, <2>3 DEF WriteScore, UpdateUserLog
  <2>5. r.hours = log[v].hours
    BY <2>1, <2>2, <2>3 DEF UserLog
  <2>6. m.pc = "user"
    BY <1>0, <1>8, <2>1 DEF WriteScore, Goto, Step, LogoutTask
  <2> QED BY <2>1, <2>4, <2>5, <2>6, TimeKept, HoursQuiet DEF HourSteps
<1>9. CASE WriteUser(t)
  <2>1. k.pc = "user" /\ m.pc = "idle" /\ log' = log /\ sessions' = sessions
    BY <1>0, <1>9 DEF WriteUser, Return, Step, At
  <2> QED BY <2>1, TimeKept, HoursQuiet DEF HourSteps
<1> QED BY <1>1, <1>3, <1>4, <1>5, <1>6, <1>7, <1>8, <1>9

LEMMA HoursSessions ==
  ASSUME Basics, Basics', DepositsInStep, HoursAreInStep,
         NEW t \in Tasks, NEW v \in Users, SessionsActs(t, v)
  PROVE  HoursAreInStep'
<1>0. TypeOK /\ Moves(t, v) /\ Counted /\ SessionsStep(t)
  BY DEF Basics, SessionsActs, SessionsMove
<1>1. PICK m : m = task'[t]
  OBVIOUS
<1>2. \A u \in Users \ {v} : log'[u] = log[u] /\ sessions'[u] = sessions[u]
  BY <1>0, SessionsApart
<1>3. ASSUME Calm(v), Busy(v) \subseteq {t}, faults' = 0, HoursInStep(v, task[t])
      PROVE  HoursInStep(v, m)'
  <2>1. PICK k : k = task[t]
    OBVIOUS
  <2>2. CASE \/ \E u \in Users, p \in Phones : Callback(t, u, p)
             \/ FindUser(t) \/ CreateUser(t) \/ MakePart(t) \/ UpdateUser(t) \/ OnUserLogin(t)
    BY <1>1, <1>3, <2>1, <2>2, HoursCallback
  <2>3. CASE \/ \E u \in registered : Logout(t, u)
             \/ GetLatestActivity(t) \/ UpdateActivity(t) \/ GetTotalActivityMinutes(t)
             \/ GetUserLog(t) \/ WriteHours(t) \/ WriteScore(t) \/ WriteUser(t)
    BY <1>1, <1>3, <2>1, <2>3, HoursLogout
  <2> QED BY <1>0, <2>2, <2>3 DEF SessionsStep
<1> QED BY <1>0, <1>1, <1>2, <1>3, HoursStep

LEMMA HoursLevels ==
  ASSUME Basics, Basics', HoursAreInStep, NEW t \in Tasks, NEW v \in Users, LevelsActs(t, v)
  PROVE  HoursAreInStep'
<1>0. /\ TypeOK /\ Moves(t, v) /\ Counted /\ LevelsStep(t) /\ sessions' = sessions
      /\ log \in [Users -> UserLog]
  BY TypeFacts DEF Basics, LevelsActs, LevelsMove, CitizensTypeOK
<1>1. PICK k, m : k = task[t] /\ m = task'[t]
  OBVIOUS
<1>2. \A u \in Users \ {v} : log'[u] = log[u] /\ sessions'[u] = sessions[u]
  BY <1>0, LevelsApart
<1>3. k.pc \notin HourSteps /\ m.pc \notin HourSteps /\ (k.pc # "idle" => k.user = v)
  BY <1>1 DEF LevelsActs, LevelsMove, Moves, LevelsTask, Resting, HourSteps
<1>4. log'[v].hours = log[v].hours
  <2>0. log[v] \in UserLog
    BY <1>0
  <2>1. CASE log' = log
    BY <2>1
  <2>2. ASSUME NEW n, log' = [log EXCEPT ![v] = [log[v] EXCEPT !.deposit = n]]
        PROVE  log'[v].hours = log[v].hours
    BY <1>0, <2>0, <2>2 DEF UserLog
  <2>3. ASSUME NEW n, log' = [log EXCEPT ![v] = [log[v] EXCEPT !.trades = n]]
        PROVE  log'[v].hours = log[v].hours
    BY <1>0, <2>0, <2>3 DEF UserLog
  <2>4. ASSUME NEW n, log' = [log EXCEPT ![v] = [log[v] EXCEPT !.score = n]]
        PROVE  log'[v].hours = log[v].hours
    BY <1>0, <2>0, <2>4 DEF UserLog
  <2>5. CASE IncrementDeposit(t)
    <3>1. PICK n : n = log[v].deposit + k.points
      OBVIOUS
    <3>2. log' = log \/ log' = [log EXCEPT ![v] = [log[v] EXCEPT !.deposit = n]]
      BY <1>1, <1>3, <2>5, <3>1 DEF IncrementDeposit, At
    <3> QED BY <2>1, <2>2, <3>2
  <2>6. CASE UpdateTransactionsCount(t)
    <3>1. PICK n : n = 2 * k.points
      OBVIOUS
    <3>2. log' = log \/ log' = [log EXCEPT ![v] = [log[v] EXCEPT !.trades = n]]
      BY <1>1, <1>3, <2>6, <3>1 DEF UpdateTransactionsCount, At
    <3> QED BY <2>1, <2>3, <3>2
  <2>7. CASE UpdateScore(t)
    <3>1. PICK n : n = k.points
      OBVIOUS
    <3>2. log' = [log EXCEPT ![v] = [log[v] EXCEPT !.score = n]]
      BY <1>1, <1>3, <2>7, <3>1 DEF UpdateScore, At
    <3> QED BY <2>4, <3>2
  <2>8. CASE ~ IncrementDeposit(t) /\ ~ UpdateTransactionsCount(t) /\ ~ UpdateScore(t)
    BY <1>0, <2>8 DEF LevelsStep, LevelsRequest, GetSignificantTradeCount, CalculateScore,
       GetNextLevelForScore, AttachLevelToUser, HasUserReceivedPrize, AddPrize, RecordReceivedPrize,
       accounts
  <2> QED BY <2>5, <2>6, <2>7, <2>8
<1>5. TotalTime(v)' = TotalTime(v)
  BY <1>0, TimeKept
<1>6. HoursInStep(v, task[t]) => HoursInStep(v, m)'
  BY <1>1, <1>3, <1>4, <1>5, HoursQuiet
<1> QED BY <1>0, <1>1, <1>2, <1>6, HoursStep

LEMMA HoursNext ==
  ASSUME Basics, Basics', DepositsInStep, HoursAreInStep, [Next]_vars
  PROVE  HoursAreInStep'
<1>0. TypeOK /\ RequestsAreSound /\ sessions \in [Users -> Seq(Nat)]
  BY TypeFacts DEF Basics, CitizensTypeOK
<1>1. ASSUME NEW t \in Tasks, NEW v \in Users, SecurityActs(t, v) \/ SocialActs(t, v)
      PROVE  HoursAreInStep'
  <2>1. /\ Moves(t, v) /\ Counted /\ log' = log /\ sessions' = sessions
        /\ task[t].pc \notin HourSteps /\ task'[t].pc \notin HourSteps
    BY <1>1 DEF SecurityActs, SocialActs, SecurityMove, SocialMove, accounts, SecureTask, SecureSteps,
       VerifyTask, VerifySteps, AnswerTask, AnswerSteps, FollowTask, FollowSteps, Resting, HourSteps
  <2>2. PICK k, m : k = task[t] /\ m = task'[t]
    OBVIOUS
  <2>3. TotalTime(v)' = TotalTime(v)
    BY <2>1, TimeKept
  <2>4. HoursInStep(v, task[t]) => HoursInStep(v, m)'
    BY <2>1, <2>2, <2>3, HoursQuiet
  <2> QED BY <2>1, <2>2, <2>4, HoursStep
<1>2. ASSUME NEW t \in Tasks, NEW v \in Users, FailsFor(t, v) PROVE HoursAreInStep'
  <2>1. /\ Moves(t, v) /\ Counted /\ log' = log /\ sessions' = sessions /\ faults' # 0
    BY <1>2 DEF FailsFor, accounts, Counted
  <2>2. PICK m : m = task'[t]
    OBVIOUS
  <2> QED BY <2>1, <2>2, HoursStep
<1>3. ASSUME task' = task, overlap' = overlap, faults' = faults, log' = log,
             \A u \in Users : TotalTime(u)' = TotalTime(u)
      PROVE  HoursAreInStep'
  <2>1. ASSUME NEW u \in Users, Calm(u)', NEW k, Serving(u, k)' PROVE HoursInStep(u, k)'
    <3>1. Calm(u) /\ Serving(u, k)
      BY <1>3, <2>1, Still DEF Calm
    <3>2. HoursInStep(u, k)
      BY <3>1 DEF HoursAreInStep
    <3> QED BY <1>3, <3>2 DEF HoursInStep
  <2> QED BY <2>1 DEF HoursAreInStep
<1>4. ASSUME NEW u \in registered, NEW w \in registered, AsideActs(u, w) PROVE HoursAreInStep'
  <2>1. ASSUME NEW x \in Users PROVE TotalTime(x)' = TotalTime(x)
    <3>1. CASE sessions'[x] = sessions[x]
      BY <3>1, TimeKept
    <3>2. CASE sessions'[x] # sessions[x]
      <4>1. LogActivity(u)
        BY <1>4, <3>2 DEF AsideActs, TradeActs, LogActs, UnfollowActs, Trade, Unfollow, accounts
      <4>2. x = u
        BY <1>0, <3>2, <4>1 DEF LogActivity
      <4>3. PICK s, r : s \in Seq(Nat) /\ s = sessions[x] /\ r = Append(s, 0)
        BY <1>0
      <4>4. sessions'[x] = r
        BY <1>0, <4>1, <4>2, <4>3 DEF LogActivity
      <4>5. TimeOf(r) = TimeOf(s)
        BY <4>3, TimeAppended
      <4> QED BY <4>3, <4>4, <4>5, TimesNow, TimesThen DEF TimesAreSums
    <3> QED BY <3>1, <3>2
  <2> QED BY <1>3, <1>4, <2>1, AsideKeeps
<1>5. CASE UNCHANGED vars
  <2>1. \A u \in Users : TotalTime(u)' = TotalTime(u)
    BY <1>5, TimeKept DEF vars, accounts
  <2> QED BY <1>3, <1>5, <2>1 DEF vars, requests, accounts
<1>6. CASE Next
  BY <1>0, <1>1, <1>2, <1>4, <1>6, HoursSessions, HoursLevels, ActCases DEF Acts
<1> QED BY <1>5, <1>6

LEMMA HoursInit == Init => HoursAreInStep
<1>1. SUFFICES ASSUME Init PROVE HoursAreInStep
  OBVIOUS
<1>2. ASSUME NEW u \in Users PROVE log[u].hours = 0 /\ TotalTime(u) = 0
  <2>1. log[u].hours = 0
    BY <1>1 DEF Init, CitizensInit, NoLog
  <2>2. PICK s : s = sessions[u]
    OBVIOUS
  <2>3. s = <<>> \/ s = Append(<<>>, 0)
    BY <1>1, <2>2 DEF Init, CitizensInit
  <2>4. <<>> \in Seq(Nat) /\ DOMAIN <<>> = {}
    OBVIOUS
  <2>5. TimeOf(<<>>) = 0
    BY <2>4, SumRecursion, FS_EmptySet DEF TimeOf
  <2>6. TimeOf(s) = 0
    <3>1. CASE s = Append(<<>>, 0)
      BY <2>4, <2>5, <3>1, TimeAppended
    <3> QED BY <2>3, <2>5, <3>1
  <2> QED BY <2>1, <2>2, <2>6, TimesNow DEF TimesAreSums
<1>3. \A u \in Users : Busy(u) = {}
  BY <1>1 DEF Init, CitizensInit, Busy, At
<1>4. \A u \in Users : \A k : Serving(u, k) => k.pc = "idle"
  BY <1>3 DEF Serving, Resting
<1> QED BY <1>2, <1>4 DEF HoursAreInStep, HoursInStep

LEMMA HoursImply ==
  ASSUME HoursAreInStep
  PROVE  HoursAreSummed
<1>1. ASSUME NEW u \in Users, overlap[u] = {}, faults = 0, Busy(u) = {}
      PROVE  log[u].hours = TotalTime(u)
  <2>1. PICK k : k = Resting
    OBVIOUS
  <2>2. HoursInStep(u, k) /\ k.pc = "idle"
    BY <1>1, <2>1 DEF HoursAreInStep, Calm, Serving, Resting
  <2> QED BY <2>2 DEF HoursInStep
<1> QED BY <1>1 DEF HoursAreSummed

LEMMA SetUpImply ==
  ASSUME Basics
  PROVE  RegisteredOnce /\ MissingMeansFailure
<1>1. RegisteredOnce
  BY DEF Basics, SetUpInOrder, RegisteredOnce
<1>2. ASSUME NEW u \in registered, faults = 0, ~ (\E t \in Busy(u) : At(t, "make")), NEW p \in Parts
      PROVE  made[u][p] > 0
  <2>1. u \in Users
    BY DEF Basics, TypeOK, CitizensTypeOK
  <2>2. Making(u) = {}
    BY <1>2 DEF Making, Busy, At
  <2>3. made[u][p] = 1
    BY <1>2, <2>1, <2>2 DEF Basics, SetUpInOrder
  <2> QED BY <2>3
<1> QED BY <1>1, <1>2 DEF MissingMeansFailure

AccountIInv == Basics /\ DepositsInStep /\ HoursAreInStep

LEMMA AccountIInvNext == AccountIInv /\ [Next]_vars => AccountIInv'
<1>1. SUFFICES ASSUME AccountIInv, [Next]_vars PROVE AccountIInv'
  OBVIOUS
<1>2. Basics'
  BY <1>1, BasicsNext DEF AccountIInv
<1>3. DepositsInStep'
  BY <1>1, DepositsInStepNext DEF AccountIInv
<1>4. HoursAreInStep'
  BY <1>1, <1>2, HoursNext DEF AccountIInv
<1> QED BY <1>2, <1>3, <1>4 DEF AccountIInv

(* However callbacks, logouts and the requests of levels-service and       *)
(* account security interleave, a user is set up once, and completely      *)
(* unless a step failed; and unless the user's requests overlapped or one  *)
(* failed, user_logs counts the hours of all sessions once each            *)
(* (auth_service.go, observer_service.go).                                 *)
THEOREM AccountKept == Spec => []AccountInv
<1>1. Init => AccountIInv
  BY BasicsInit, DepositsInStepInit, HoursInit DEF AccountIInv
<1>2. AccountIInv /\ [Next]_vars => AccountIInv'
  BY AccountIInvNext
<1>3. AccountIInv => AccountInv
  BY SetUpImply, HoursImply DEF AccountIInv, AccountInv, Basics
<1> QED BY <1>1, <1>2, <1>3, PTL DEF Spec

-----------------------------------------------------------------------------
(* Scores *)

Counters(u) == log[u].trades + log[u].deposit

(* user_logs.score is the sum of the counters, but while a request that   *)
(* changed one of them has not scored it yet.                              *)
ScoreInStep(u, k) ==
  /\ k.pc = "score" => k.points = Total(log[u])
  /\ k.pc \in {"reread", "writeScore"} => score[u] \in Counters(u) .. Total(log[u])
  /\ k.pc \notin {"calculate", "score", "reread", "writeScore"} =>
       /\ log[u].score = Total(log[u])
       /\ score[u] \in Counters(u) .. Total(log[u])

ScoresAreInStep == \A u \in Users : Calm(u) => \A k : Serving(u, k) => ScoreInStep(u, k)

LEMMA ScoreKept ==
  ASSUME NEW u, log'[u] = log[u], score'[u] = score[u], NEW k, NEW m, ScoreInStep(u, k),
         \/ m.pc = k.pc /\ m.points = k.points
         \/ /\ m.pc # "score" /\ k.pc \notin {"calculate", "score", "reread", "writeScore"}
         \/ m.pc = "writeScore" /\ k.pc = "reread"
         \/ m.pc = "score" /\ m.points = Total(log[u])
         \/ m.pc = "calculate"
  PROVE  ScoreInStep(u, m)'
<1>1. /\ Counters(u)' = Counters(u) /\ (Total(log[u]))' = Total(log[u])
  BY DEF Counters, Total
<1> QED BY <1>1 DEF ScoreInStep

LEMMA ScoreStep ==
  ASSUME Basics, Basics', HoursAreInStep, ScoresAreInStep,
         NEW t \in Tasks, NEW v \in Users, Moves(t, v), Counted,
         \A u \in Users \ {v} : log'[u] = log[u] /\ score'[u] = score[u],
         NEW m, m = task'[t],
         Calm(v) /\ Busy(v) \subseteq {t} /\ faults' = 0 /\ HoursInStep(v, task[t])
           /\ ScoreInStep(v, task[t]) => ScoreInStep(v, m)'
  PROVE  ScoresAreInStep'
<1>1. SUFFICES ASSUME NEW u \in Users, Calm(u)', NEW k, Serving(u, k)' PROVE ScoreInStep(u, k)'
  BY DEF ScoresAreInStep
<1>2. CASE u = v
  <2>1. k = m /\ Calm(v) /\ Busy(v) \subseteq {t} /\ faults' = 0 /\ Serving(v, task[t])
    BY <1>1, <1>2, Alone DEF Calm
  <2>2. HoursInStep(v, task[t]) /\ ScoreInStep(v, task[t])
    BY <2>1 DEF HoursAreInStep, ScoresAreInStep
  <2> QED BY <1>2, <2>1, <2>2
<1>3. CASE u # v
  <2>1. /\ overlap'[u] = overlap[u] /\ Serving(u, k) /\ log'[u] = log[u]
        /\ score'[u] = score[u]
    BY <1>1, <1>3, Apart DEF Basics
  <2>2. Calm(u)
    BY <1>1, <2>1 DEF Calm, Counted
  <2>3. ScoreInStep(u, k)
    BY <2>1, <2>2 DEF ScoresAreInStep
  <2> QED BY <2>1, <2>3, ScoreKept
<1> QED BY <1>2, <1>3

ScoreSteps == {"calculate", "score", "reread", "writeScore"}

LEMMA ScoreQuiet ==
  ASSUME NEW u, log'[u] = log[u], score'[u] = score[u], NEW k, NEW m, ScoreInStep(u, k),
         k.pc \notin ScoreSteps, m.pc # "score"
  PROVE  ScoreInStep(u, m)'
BY ScoreKept DEF ScoreSteps

LEMMA LogNumbers ==
  ASSUME TypeOK, NEW v \in Users
  PROVE  /\ log[v].trades \in Nat /\ log[v].deposit \in Nat /\ log[v].hours \in Nat
         /\ log[v].score \in Nat /\ score[v] \in Nat
  BY TypeFacts DEF CitizensTypeOK, LevelsTypeOK, UserLog

LEMMA ScoreLevels ==
  ASSUME Basics, NEW t \in Tasks, NEW v \in Users, LevelsActs(t, v),
         NEW k, NEW m, k = task[t], m = task'[t], faults = 0, Busy(v) \subseteq {t}, ScoreInStep(v, k)
  PROVE  ScoreInStep(v, m)'
<1>0. /\ TypeOK /\ task \in [Tasks -> Requests] /\ log \in [Users -> UserLog] /\ LevelsStep(t)
      /\ score \in [Users -> Nat] /\ (k.pc # "idle" => k.user = v)
  BY TypeFacts DEF Basics, LevelsActs, LevelsMove, Moves, CitizensTypeOK, LevelsTypeOK
<1>1. ASSUME k.pc \in LevelsSteps PROVE k \in LevelsTask /\ k.user = v /\ v \in registered
  <2>1. k.pc # "idle" /\ k.pc \notin CallbackSteps
    BY <1>1 DEF LevelsSteps, CallbackSteps
  <2> QED BY <1>0, <1>1, <2>1, LevelsTaskAt, UserIsRegistered DEF Basics
<1>2. ASSUME m.pc = "calculate" PROVE ScoreInStep(v, m)'
  BY <1>2 DEF ScoreInStep
<1>3. CASE LevelsRequest(t)
  <2>1. /\ k.pc = "idle" /\ m.pc \in {"deposit", "count", "calculate", "received"}
        /\ log' = log /\ score' = score
    BY <1>0, <1>3 DEF LevelsRequest, Begin, Start, Step, At, accounts, levels
  <2> QED BY <2>1, ScoreQuiet DEF ScoreSteps
<1>4. CASE IncrementDeposit(t) \/ UpdateTransactionsCount(t)
  <2>1. k \in LevelsTask
    BY <1>1, <1>4 DEF IncrementDeposit, UpdateTransactionsCount, At, LevelsSteps
  <2>2. m.pc = "calculate"
    BY <1>0, <1>4, <2>1 DEF IncrementDeposit, UpdateTransactionsCount, Goto, Step, LevelsTask
  <2> QED BY <1>2, <2>2
<1>5. CASE GetSignificantTradeCount(t)
  <2>1. k \in LevelsTask /\ k.pc = "count" /\ log' = log /\ score' = score
    BY <1>1, <1>5 DEF GetSignificantTradeCount, At, LevelsSteps, accounts, levels
  <2>2. PICK n : m = [k EXCEPT !.pc = "trades", !.points = n]
    BY <1>0, <1>5 DEF GetSignificantTradeCount, Step
  <2>3. m.pc = "trades"
    BY <2>1, <2>2 DEF LevelsTask
  <2> QED BY <2>1, <2>3, ScoreQuiet DEF ScoreSteps
<1>6. CASE CalculateScore(t)
  <2>1. k \in LevelsTask /\ k.pc = "calculate" /\ k.user = v /\ v \in registered
        /\ log' = log /\ score' = score
    BY <1>1, <1>6 DEF CalculateScore, At, LevelsSteps, accounts, levels
  <2>2. HasLog(v)
    BY <2>1, LogIsThere
  <2>3. PICK n : n = Total(log[v])
    OBVIOUS
  <2>4. m = [k EXCEPT !.pc = "score", !.points = n]
    BY <1>0, <1>6, <2>1, <2>2, <2>3 DEF CalculateScore, Step
  <2>5. m.pc = "score" /\ m.points = n
    BY <2>1, <2>4 DEF LevelsTask
  <2> QED BY <2>1, <2>3, <2>5, ScoreKept
<1>7. CASE UpdateScore(t)
  <2>1. k \in LevelsTask /\ k.pc = "score" /\ k.user = v
    BY <1>1, <1>7 DEF UpdateScore, At, LevelsSteps
  <2>2. PICK n, r : n = k.points /\ r = [log[v] EXCEPT !.score = n]
    OBVIOUS
  <2>3. log'[v] = r /\ score'[v] = n
    BY <1>0, <1>7, <2>1, <2>2 DEF UpdateScore
  <2>4. /\ r.trades = log[v].trades /\ r.deposit = log[v].deposit /\ r.hours = log[v].hours
        /\ r.score = n
    BY <1>0, <2>2 DEF UserLog
  <2>5. n = Total(log[v])
    BY <2>1, <2>2 DEF ScoreInStep
  <2>6. m.pc = "level"
    BY <1>0, <1>7, <2>1 DEF UpdateScore, Goto, Step, LevelsTask
  <2>7. n = Total(r) /\ n \in (r.trades + r.deposit) .. Total(r)
    BY <1>0, <2>4, <2>5, LogNumbers DEF Total
  <2> QED BY <2>3, <2>4, <2>6, <2>7 DEF ScoreInStep, Counters
<1>8. CASE GetNextLevelForScore(t)
  <2>1. k \in LevelsTask /\ k.pc = "level" /\ log' = log /\ score' = score
    BY <1>1, <1>8 DEF GetNextLevelForScore, At, LevelsSteps, accounts, levels
  <2>2. m = Resting \/ \E l : m = [k EXCEPT !.pc = "attach", !.level = l]
    <3>1. PICK open : open = {l \in LevelIds : Threshold[l] <= k.points /\ attached[k.user][l] = 0}
      OBVIOUS
    <3>2. Return(t) \/ \E l \in open : Step(t, [k EXCEPT !.pc = "attach", !.level = l])
      BY <1>8, <3>1 DEF GetNextLevelForScore
    <3>3. CASE Return(t)
      BY <1>0, <3>3 DEF Return, Step, Resting
    <3>4. ASSUME NEW l \in open, Step(t, [k EXCEPT !.pc = "attach", !.level = l])
          PROVE  m = [k EXCEPT !.pc = "attach", !.level = l]
      BY <1>0, <3>4 DEF Step
    <3> QED BY <3>2, <3>3, <3>4
  <2>3. m.pc # "score"
    <3>1. ASSUME NEW l, m = [k EXCEPT !.pc = "attach", !.level = l] PROVE m.pc # "score"
      BY <2>1, <3>1 DEF LevelsTask
    <3>2. CASE m = Resting
      BY <3>2 DEF Resting
    <3> QED BY <2>2, <3>1, <3>2
  <2> QED BY <2>1, <2>3, ScoreQuiet DEF ScoreSteps
<1>9. CASE AttachLevelToUser(t) \/ HasUserReceivedPrize(t) \/ AddPrize(t) \/ RecordReceivedPrize(t)
  <2>1. k \in LevelsTask /\ k.pc \in {"attach", "received", "pay", "record"} /\ log' = log /\ score' = score
    BY <1>1, <1>9 DEF AttachLevelToUser, HasUserReceivedPrize, AddPrize, RecordReceivedPrize, At,
       LevelsSteps, accounts, levels
  <2>2. \/ m = Resting \/ m = [k EXCEPT !.asset = k.asset + 1]
        \/ \E pc \in {"received", "pay", "record"} : m = [k EXCEPT !.pc = pc]
    BY <1>0, <1>9 DEF AttachLevelToUser, HasUserReceivedPrize, AddPrize, RecordReceivedPrize,
       Goto, Return, Step, Resting
  <2>3. m.pc # "score"
    BY <2>1, <2>2 DEF LevelsTask, Resting
  <2> QED BY <2>1, <2>3, ScoreQuiet DEF ScoreSteps
<1> QED BY <1>0, <1>3, <1>4, <1>5, <1>6, <1>7, <1>8, <1>9 DEF LevelsStep

LEMMA ScoreLogout ==
  ASSUME Basics, DepositsInStep, NEW t \in Tasks, NEW v \in Users, SessionsActs(t, v),
         NEW k, NEW m, k = task[t], m = task'[t], Calm(v), Busy(v) \subseteq {t},
         HoursInStep(v, k), ScoreInStep(v, k),
         \/ \E u \in registered : Logout(t, u)
         \/ GetLatestActivity(t) \/ UpdateActivity(t) \/ GetTotalActivityMinutes(t)
         \/ GetUserLog(t) \/ WriteHours(t) \/ WriteScore(t) \/ WriteUser(t)
  PROVE  ScoreInStep(v, m)'
<1>0. /\ TypeOK /\ task \in [Tasks -> Requests] /\ log \in [Users -> UserLog]
      /\ score' = score /\ (k.pc # "idle" => k.user = v) /\ faults = 0 /\ TotalTime(v) \in Nat
  BY TypeFacts, TotalTimeTyped DEF Basics, SessionsActs, SessionsMove, Moves, CitizensTypeOK, Calm, levels
<1>1. ASSUME k.pc \in LogoutSteps PROVE k \in LogoutTask /\ k.user = v /\ k.user \in registered
  <2>1. k.pc # "idle" /\ k.pc \notin CallbackSteps
    BY <1>1 DEF LogoutSteps, CallbackSteps
  <2> QED BY <1>0, <1>1, <2>1, LogoutTaskAt, UserIsRegistered DEF Basics
<1>2. CASE (\E u \in registered : Logout(t, u)) \/ WriteUser(t)
  <2>1. k.pc \in {"idle", "user"} /\ m.pc \in {"latest", "idle"} /\ log' = log
    BY <1>0, <1>2 DEF Logout, WriteUser, Return, Start, Step, At, accounts
  <2> QED BY <1>0, <2>1, ScoreQuiet DEF ScoreSteps
<1>3. CASE GetLatestActivity(t) \/ UpdateActivity(t) \/ GetTotalActivityMinutes(t)
  <2>1. k \in LogoutTask /\ k.pc \in {"latest", "end", "hours"} /\ log' = log
    BY <1>1, <1>3 DEF GetLatestActivity, UpdateActivity, GetTotalActivityMinutes, At, LogoutSteps, accounts
  <2>2. \/ \E n, pc : pc \in {"hours", "end"} /\ m = [k EXCEPT !.row = n, !.pc = pc]
        \/ m = [k EXCEPT !.pc = "hours"]
        \/ \E n : m = [k EXCEPT !.pc = "read", !.hours = n]
    <3>1. CASE GetLatestActivity(t)
      <4>1. PICK n : n = Len(sessions[task[t].user])
        OBVIOUS
      <4>2. PICK pc : pc = IF n = 0 THEN "hours" ELSE "end"
        OBVIOUS
      <4>3. m = [k EXCEPT !.row = n, !.pc = pc]
        BY <1>0, <3>1, <4>1, <4>2 DEF GetLatestActivity, Step
      <4> QED BY <4>2, <4>3
    <3>2. CASE UpdateActivity(t)
      BY <1>0, <3>2 DEF UpdateActivity, Goto, Step
    <3>3. CASE GetTotalActivityMinutes(t)
      <4>1. PICK n : n = TotalTime(task[t].user)
        OBVIOUS
      <4>2. m = [k EXCEPT !.pc = "read", !.hours = n]
        BY <1>0, <3>3, <4>1 DEF GetTotalActivityMinutes, Step
      <4> QED BY <4>2
    <3> QED BY <1>3, <3>1, <3>2, <3>3
  <2>3. m.pc # "score"
    BY <2>1, <2>2 DEF LogoutTask
  <2> QED BY <1>0, <2>1, <2>3, ScoreQuiet DEF ScoreSteps
<1>4. CASE GetUserLog(t)
  <2>1. k \in LogoutTask /\ k.pc \in {"read", "reread"} /\ k.user = v /\ v \in registered /\ log' = log
    BY <1>1, <1>4 DEF GetUserLog, LogoutSteps, accounts
  <2>2. HasLog(v)
    BY <1>0, <2>1, LogIsThere
  <2>3. PICK pc, r : pc = (IF k.pc = "read" THEN "writeHours" ELSE "writeScore") /\ r = log[v]
    OBVIOUS
  <2>4. m = [k EXCEPT !.pc = pc, !.log = r]
    BY <1>0, <1>4, <2>1, <2>2, <2>3 DEF GetUserLog, Step
  <2>5. m.pc = pc
    BY <2>1, <2>4 DEF LogoutTask
  <2>6. CASE k.pc = "read"
    BY <1>0, <2>1, <2>3, <2>5, <2>6, ScoreQuiet DEF ScoreSteps
  <2>7. CASE k.pc = "reread"
    BY <1>0, <2>1, <2>3, <2>5, <2>7, ScoreKept
  <2> QED BY <2>1, <2>6, <2>7
<1>5. CASE WriteHours(t)
  <2>1. k \in LogoutTask /\ k.pc = "writeHours" /\ k.user = v
    BY <1>1, <1>5 DEF WriteHours, At, LogoutSteps
  <2>2. k.log = log[v]
    BY <2>1 DEF DepositsInStep, Calm, Writing
  <2>3. PICK r : r = [log[v] EXCEPT !.hours = k.hours]
    OBVIOUS
  <2>4. log'[v] = r
    BY <1>0, <1>5, <2>1, <2>2, <2>3 DEF WriteHours, UpdateUserLog
  <2>5. r.trades = log[v].trades /\ r.deposit = log[v].deposit /\ r.hours = k.hours
    BY <1>0, <2>3 DEF UserLog
  <2>6. m.pc = "reread"
    BY <1>0, <1>5, <2>1 DEF WriteHours, Goto, Step, LogoutTask
  <2>7. k.hours = TotalTime(v) /\ log[v].hours <= k.hours
    BY <2>1 DEF HoursInStep
  <2>8. score[v] \in Counters(v) .. Total(log[v])
    BY <2>1 DEF ScoreInStep
  <2>9. score[v] \in (r.trades + r.deposit) .. Total(r)
    BY <1>0, <2>5, <2>7, <2>8, LogNumbers DEF Total, Counters
  <2> QED BY <1>0, <2>4, <2>6, <2>9 DEF ScoreInStep, Counters
<1>6. CASE WriteScore(t)
  <2>1. k \in LogoutTask /\ k.pc = "writeScore" /\ k.user = v
    BY <1>1, <1>6 DEF WriteScore, At, LogoutSteps
  <2>2. k.log = log[v]
    BY <2>1 DEF DepositsInStep, Calm, Writing
  <2>3. PICK n, r : n = Total(log[v]) /\ r = [log[v] EXCEPT !.score = n]
    OBVIOUS
  <2>4. log'[v] = r
    BY <1>0, <1>6, <2>1, <2>2, <2>3 DEF WriteScore, UpdateUserLog
  <2>5. r.trades = log[v].trades /\ r.deposit = log[v].deposit /\ r.hours = log[v].hours /\ r.score = n
    BY <1>0, <2>3 DEF UserLog
  <2>6. m.pc = "user"
    BY <1>0, <1>6, <2>1 DEF WriteScore, Goto, Step, LogoutTask
  <2>7. score[v] \in Counters(v) .. Total(log[v])
    BY <2>1 DEF ScoreInStep
  <2>8. n = Total(r) /\ score[v] \in (r.trades + r.deposit) .. Total(r)
    BY <2>3, <2>5, <2>7 DEF Total, Counters
  <2> QED BY <1>0, <2>4, <2>5, <2>6, <2>8 DEF ScoreInStep, Counters
<1> QED BY <1>2, <1>3, <1>4, <1>5, <1>6

LEMMA ScoreNext ==
  ASSUME Basics, Basics', DepositsInStep, HoursAreInStep, ScoresAreInStep, [Next]_vars
  PROVE  ScoresAreInStep'
<1>0. TypeOK /\ RequestsAreSound
  BY DEF Basics
<1>1. ASSUME NEW t \in Tasks, NEW v \in Users, LevelsActs(t, v) PROVE ScoresAreInStep'
  <2>1. PICK k, m : k = task[t] /\ m = task'[t]
    OBVIOUS
  <2>2. \A u \in Users \ {v} : log'[u] = log[u] /\ score'[u] = score[u]
    BY <1>0, <1>1, LevelsApart
  <2>3. Moves(t, v) /\ Counted
    BY <1>1 DEF LevelsActs, LevelsMove
  <2>4. ASSUME Calm(v), Busy(v) \subseteq {t}, ScoreInStep(v, task[t])
        PROVE  ScoreInStep(v, m)'
    BY <1>1, <2>1, <2>4, ScoreLevels DEF Calm
  <2> QED BY <2>1, <2>2, <2>3, <2>4, ScoreStep
<1>2. ASSUME NEW t \in Tasks, NEW v \in Users, SessionsActs(t, v) PROVE ScoresAreInStep'
  <2>1. PICK k, m : k = task[t] /\ m = task'[t]
    OBVIOUS
  <2>2. score' = score /\ Moves(t, v) /\ Counted /\ SessionsStep(t)
    BY <1>2 DEF SessionsActs, SessionsMove, levels
  <2>3. \A u \in Users \ {v} : log'[u] = log[u] /\ score'[u] = score[u]
    BY <1>0, <1>2, <2>2, SessionsApart
  <2>4. ASSUME Calm(v), Busy(v) \subseteq {t}, HoursInStep(v, task[t]), ScoreInStep(v, task[t])
        PROVE  ScoreInStep(v, m)'
    <3>1. CASE \/ \E u \in Users, p \in Phones : Callback(t, u, p)
               \/ FindUser(t) \/ CreateUser(t) \/ MakePart(t) \/ UpdateUser(t) \/ OnUserLogin(t)
      <4>1. log' = log
        BY <3>1 DEF Callback, FindUser, CreateUser, MakePart, UpdateUser, OnUserLogin, accounts
      <4>2. k.pc \in CallbackSteps \union {"idle"} /\ m.pc \in CallbackSteps \union {"idle"}
        BY <1>2, <2>1, <3>1, CallbackAt
      <4>3. k.pc \notin ScoreSteps /\ m.pc # "score"
        BY <4>2 DEF CallbackSteps, ScoreSteps
      <4> QED BY <2>1, <2>2, <2>4, <4>1, <4>3, ScoreQuiet
    <3>2. CASE \/ \E u \in registered : Logout(t, u)
               \/ GetLatestActivity(t) \/ UpdateActivity(t) \/ GetTotalActivityMinutes(t)
               \/ GetUserLog(t) \/ WriteHours(t) \/ WriteScore(t) \/ WriteUser(t)
      BY <1>2, <2>1, <2>4, <3>2, ScoreLogout
    <3> QED BY <2>2, <3>1, <3>2 DEF SessionsStep
  <2> QED BY <2>1, <2>2, <2>3, <2>4, ScoreStep
<1>3. ASSUME NEW t \in Tasks, NEW v \in Users, SecurityActs(t, v) \/ SocialActs(t, v)
      PROVE  ScoresAreInStep'
  <2>1. /\ Moves(t, v) /\ Counted /\ log' = log /\ score' = score
        /\ task[t].pc \notin ScoreSteps /\ task'[t].pc \notin ScoreSteps
    BY <1>3 DEF SecurityActs, SocialActs, SecurityMove, SocialMove, accounts, levels, SecureTask,
       SecureSteps, VerifyTask, VerifySteps, AnswerTask, AnswerSteps, FollowTask, FollowSteps,
       Resting, ScoreSteps
  <2>2. PICK k, m : k = task[t] /\ m = task'[t]
    OBVIOUS
  <2>3. ScoreInStep(v, task[t]) => ScoreInStep(v, m)'
    BY <2>1, <2>2, ScoreQuiet DEF ScoreSteps
  <2> QED BY <2>1, <2>2, <2>3, ScoreStep
<1>4. ASSUME NEW t \in Tasks, NEW v \in Users, FailsFor(t, v) PROVE ScoresAreInStep'
  <2>1. /\ Moves(t, v) /\ Counted /\ log' = log /\ score' = score /\ faults' # 0
    BY <1>4 DEF FailsFor, accounts, levels, Counted
  <2>2. PICK m : m = task'[t]
    OBVIOUS
  <2> QED BY <2>1, <2>2, ScoreStep
<1>5. ASSUME task' = task, overlap' = overlap, faults' = faults, log' = log, score' = score
      PROVE  ScoresAreInStep'
  <2>1. ASSUME NEW u \in Users, Calm(u)', NEW k, Serving(u, k)' PROVE ScoreInStep(u, k)'
    <3>1. Calm(u) /\ Serving(u, k)
      BY <1>5, <2>1, Still DEF Calm
    <3>2. ScoreInStep(u, k)
      BY <3>1 DEF ScoresAreInStep
    <3> QED BY <1>5, <3>2, ScoreKept
  <2> QED BY <2>1 DEF ScoresAreInStep
<1>6. CASE UNCHANGED vars
  BY <1>5, <1>6 DEF vars, requests, accounts, levels
<1>7. CASE Next
  BY <1>0, <1>1, <1>2, <1>3, <1>4, <1>5, <1>7, ActCases, AsideKeeps DEF Acts
<1> QED BY <1>6, <1>7

LEMMA ScoreInit == Init => ScoresAreInStep
<1>1. SUFFICES ASSUME Init PROVE ScoresAreInStep
  OBVIOUS
<1>2. ASSUME NEW u \in Users
      PROVE  /\ log[u].hours = 0 /\ log[u].trades = 0 /\ log[u].deposit = 0 /\ log[u].score = 0
             /\ score[u] = 0
  BY <1>1 DEF Init, CitizensInit, LevelsInit, NoLog
<1>3. \A u \in Users : Busy(u) = {}
  BY <1>1 DEF Init, CitizensInit, Busy, At
<1>4. \A u \in Users : \A k : Serving(u, k) => k.pc = "idle"
  BY <1>3 DEF Serving, Resting
<1>5. ASSUME NEW u \in Users PROVE log[u].score = Total(log[u]) /\ score[u] \in Counters(u) .. Total(log[u])
  <2>1. Counters(u) = 0 /\ Total(log[u]) = 0
    BY <1>2 DEF Counters, Total
  <2> QED BY <1>2, <2>1
<1> QED BY <1>4, <1>5 DEF ScoresAreInStep, ScoreInStep

LEMMA ScoreImply ==
  ASSUME TypeOK, ScoresAreInStep
  PROVE  ScoreIsCurrent
<1>1. ASSUME NEW u \in Users, overlap[u] = {}, faults = 0, Busy(u) = {}
      PROVE  /\ log[u].score = Total(log[u])
             /\ score[u] \in log[u].score - log[u].hours .. log[u].score
  <2>1. PICK k : k = Resting
    OBVIOUS
  <2>2. ScoreInStep(u, k) /\ k.pc = "idle"
    BY <1>1, <2>1 DEF ScoresAreInStep, Calm, Serving, Resting
  <2>3. log[u].score = Total(log[u]) /\ score[u] \in Counters(u) .. Total(log[u])
    BY <2>2 DEF ScoreInStep
  <2>4. Counters(u) = Total(log[u]) - log[u].hours
    BY LogNumbers DEF Counters, Total
  <2> QED BY <2>3, <2>4
<1> QED BY <1>1 DEF ScoreIsCurrent

LevelIInv == AccountIInv /\ ScoresAreInStep /\ LevelsFollow /\ LevelsAreCounted

(* However deposits, trades, prize claims and logouts interleave: no write *)
(* of user_logs loses a deposit unless a logout overlapped it, its score   *)
(* is the sum of its counters unless requests overlapped or failed, a user *)
(* whose requests are done has the level that the score reaches unless one *)
(* failed, and a level is attached and its prizes are paid no oftener than *)
(* requests overlap or fail.                                               *)
THEOREM LevelKept == Spec => []LevelInv
<1>1. Init => LevelIInv
  BY BasicsInit, DepositsInStepInit, HoursInit, ScoreInit, LevelsFollowInit, LevelsCountedInit
     DEF LevelIInv, AccountIInv
<1>2. LevelIInv /\ [Next]_vars => LevelIInv'
  <2>1. SUFFICES ASSUME LevelIInv, [Next]_vars PROVE LevelIInv'
    OBVIOUS
  <2>2. AccountIInv'
    BY <2>1, AccountIInvNext DEF LevelIInv
  <2>3. ScoresAreInStep'
    BY <2>1, <2>2, ScoreNext DEF LevelIInv, AccountIInv
  <2>4. LevelsFollow'
    BY <2>1, LevelsFollowNext DEF LevelIInv, AccountIInv
  <2>5. LevelsAreCounted'
    BY <2>1, LevelsCountedNext DEF LevelIInv, AccountIInv
  <2> QED BY <2>2, <2>3, <2>4, <2>5 DEF LevelIInv
<1>3. LevelIInv => LevelInv
  <2>1. SUFFICES ASSUME LevelIInv PROVE LevelInv
    OBVIOUS
  <2>2. TypeOK
    BY <2>1 DEF LevelIInv, AccountIInv, Basics
  <2>3. DepositsAreKept
    BY <2>1 DEF LevelIInv, AccountIInv, DepositsInStep
  <2>4. ScoreIsCurrent
    BY <2>1, <2>2, ScoreImply DEF LevelIInv
  <2>5. LevelIsReached
    BY <2>1, LevelsFollowImply DEF LevelIInv
  <2>6. LevelsAreAttachedOnce /\ PrizesAreBounded /\ PrizesAreRecorded
    BY <2>1, <2>2, LevelsCountedImply DEF LevelIInv
  <2> QED BY <2>3, <2>4, <2>5, <2>6 DEF LevelInv
<1> QED BY <1>1, <1>2, <1>3, PTL DEF Spec

-----------------------------------------------------------------------------
(* Codes, accounts and phones *)

Last(u, c) == c \in CodesOf(u) /\ \A d \in CodesOf(u) : d <= c
LiveOf(u)  == {i \in DOMAIN otps : otps[i].live /\ otps[i].user = u}

(* The user's one row of account_securities. *)
AccountInStep(u, k) ==
  /\ Len(security[u]) <= 1
  /\ k.pc = "lock" => k.row = Len(security[u])
  /\ k.pc \in {"phone", "save", "otp", "store", "send"} =>
       k.row = 1 /\ Len(security[u]) = 1 /\ ~ security[u][1]
  /\ k.pc \in VerifySteps \ {"unlocked"} => k.row = 1 /\ Len(security[u]) = 1

(* The last code is the only one that is live, and it is until it unlocks *)
(* the account.                                                            *)
LiveIsLast(u) ==
  /\ \A i \in LiveOf(u) : otps[i].row = 1 /\ Last(u, otps[i].code)
  /\ \A i, j \in LiveOf(u) : i = j
LastCounts(u) ==
  CodesOf(u) # {} =>
    \E c \in CodesOf(u) :
      /\ Last(u, c) /\ Len(security[u]) = 1
      /\ codes[c].accepted > 0 \/ (~ security[u][1] /\ LiveOf(u) # {})
CodeInStep(u, k) ==
  /\ LiveIsLast(u) /\ LastCounts(u)
  /\ k.pc = "store" => (LiveOf(u) = {} /\ k.otp = 0) \/ k.otp \in LiveOf(u)
  /\ k.pc = "send" => Last(u, k.otp)
  /\ \A c \in CodesOf(u) : codes[c].phone = NoPhone => k.pc = "send" /\ k.otp = c
  /\ k.pc \in {"mark", "unlock", "delete"} => Last(u, k.code) /\ codes[k.code].accepted > 0

(* The last code was sent to the user's phone, which is verified if one was. *)
SentToPhone(u) == \A c \in CodesOf(u) : Last(u, c) => codes[c].phone = phone[u]
PhoneHadCode(u) ==
  verified[u] => \E c \in CodesOf(u) : codes[c].accepted > 0 /\ codes[c].phone = phone[u]
PhoneInStep(u, k) ==
  /\ k.pc \in {"account", "lock", "phone", "save"} =>
       k.phone = phone[u] /\ (k.known <=> (verified[u] /\ phone[u] # NoPhone))
  /\ k.pc \in {"phone", "save"} => ~ k.known
  /\ k.pc \in {"otp", "store", "send"} \union LogoutSteps => k.phone = phone[u]
  /\ k.pc \notin {"otp", "store", "send"} => SentToPhone(u)
  /\ PhoneHadCode(u)

SecureInStep(u, k) ==
  AccountInStep(u, k) /\ CodeInStep(u, k) /\ (u \notin rephoned => PhoneInStep(u, k))

SecretsAreInStep == \A u \in Users : Calm(u) => \A k : Serving(u, k) => SecureInStep(u, k)

(* The step leaves u's codes alone. *)
CodesKept(u) ==
  /\ CodesOf(u)' = CodesOf(u) /\ \A c \in CodesOf(u) : codes'[c] = codes[c]
  /\ LiveOf(u)' = LiveOf(u) /\ \A i \in LiveOf(u) : otps'[i] = otps[i]
Untouched(u) ==
  /\ security'[u] = security[u] /\ phone'[u] = phone[u] /\ verified'[u] = verified[u]
  /\ u \in rephoned' <=> u \in rephoned
  /\ CodesKept(u)

LEMMA CodesTyped ==
  ASSUME TypeOK
  PROVE  /\ security \in [Users -> Seq(BOOLEAN)] /\ otps \in Seq(Otp) /\ codes \in Seq(Code)
         /\ DOMAIN codes = 1..Len(codes) /\ Len(codes) \in Nat
         /\ DOMAIN otps = 1..Len(otps) /\ Len(otps) \in Nat
         /\ \A c \in DOMAIN codes : /\ codes[c].user \in Users /\ codes[c].accepted \in Nat
                                    /\ codes[c].phone \in Phones \union {NoPhone}
         /\ \A i \in DOMAIN otps : /\ otps[i].user \in Users /\ otps[i].row \in Nat
                                   /\ otps[i].code \in Nat /\ otps[i].live \in BOOLEAN
<1>1. security \in [Users -> Seq(BOOLEAN)] /\ otps \in Seq(Otp) /\ codes \in Seq(Code)
  BY TypeFacts DEF SecurityTypeOK
<1>2. \A c \in DOMAIN codes : codes[c] \in Code
  BY <1>1
<1>3. \A i \in DOMAIN otps : otps[i] \in Otp
  BY <1>1
<1> QED BY <1>1, <1>2, <1>3 DEF Code, Otp

LEMMA LastIsOne ==
  ASSUME TypeOK, NEW u, NEW c, NEW d, Last(u, c), Last(u, d)
  PROVE  c = d
<1>1. c \in Nat /\ d \in Nat /\ c <= d /\ d <= c
  BY CodesTyped DEF Last, CodesOf
<1> QED BY <1>1

LEMMA LastKept ==
  ASSUME NEW u, CodesOf(u)' = CodesOf(u), NEW c
  PROVE  Last(u, c)' <=> Last(u, c)
BY DEF Last

LEMMA AccountQuiet ==
  ASSUME NEW u, security'[u] = security[u], NEW k, NEW m, AccountInStep(u, k),
         m = k \/ m.pc \notin {"lock", "phone", "save", "otp", "store", "send"} \union VerifySteps
  PROVE  AccountInStep(u, m)'
BY DEF AccountInStep, VerifySteps

LEMMA LiveQuiet ==
  ASSUME NEW u, CodesKept(u), security'[u] = security[u], LiveIsLast(u), LastCounts(u)
  PROVE  LiveIsLast(u)' /\ LastCounts(u)'
<1>1. \A c : Last(u, c)' <=> Last(u, c)
  BY LastKept DEF CodesKept
<1>2. LiveIsLast(u)'
  BY <1>1 DEF CodesKept, LiveIsLast
<1>3. LastCounts(u)'
  BY <1>1 DEF CodesKept, LastCounts
<1> QED BY <1>2, <1>3

LEMMA CodeQuiet ==
  ASSUME NEW u, CodesKept(u), security'[u] = security[u], NEW k, NEW m, CodeInStep(u, k),
         m = k \/ (m.pc \notin {"store", "send", "mark", "unlock", "delete"} /\ k.pc # "send")
  PROVE  CodeInStep(u, m)'
<1>1. \A c : Last(u, c)' <=> Last(u, c)
  BY LastKept DEF CodesKept
<1>2. LiveIsLast(u)' /\ LastCounts(u)'
  BY LiveQuiet DEF CodeInStep
<1>3. \A c \in CodesOf(u)' : codes'[c].phone = NoPhone => m.pc = "send" /\ m.otp = c
  BY DEF CodesKept, CodeInStep
<1>4. CASE m = k
  <2>1. k.pc = "store" => (LiveOf(u)' = {} /\ k.otp = 0) \/ k.otp \in LiveOf(u)'
    BY DEF CodesKept, CodeInStep
  <2>2. k.pc = "send" => Last(u, k.otp)'
    BY <1>1 DEF CodeInStep
  <2>3. k.pc \in {"mark", "unlock", "delete"} => Last(u, k.code)' /\ codes'[k.code].accepted > 0
    BY <1>1 DEF CodesKept, CodeInStep, Last
  <2> QED BY <1>2, <1>3, <1>4, <2>1, <2>2, <2>3 DEF CodeInStep
<1>5. CASE m.pc \notin {"store", "send", "mark", "unlock", "delete"} /\ k.pc # "send"
  BY <1>2, <1>3, <1>5 DEF CodeInStep
<1> QED BY <1>4, <1>5

LEMMA PhoneFactsQuiet ==
  ASSUME NEW u, CodesKept(u), phone'[u] = phone[u], verified'[u] = verified[u]
  PROVE  (SentToPhone(u) => SentToPhone(u)') /\ (PhoneHadCode(u) => PhoneHadCode(u)')
<1>1. \A c : Last(u, c)' <=> Last(u, c)
  BY LastKept DEF CodesKept
<1> QED BY <1>1 DEF CodesKept, SentToPhone, PhoneHadCode

LEMMA PhoneQuiet ==
  ASSUME NEW u, CodesKept(u), phone'[u] = phone[u], verified'[u] = verified[u],
         NEW k, NEW m, PhoneInStep(u, k),
         \/ m = k
         \/ /\ k.pc \notin {"otp", "store", "send"}
            /\ m.pc \notin {"account", "lock", "phone", "save", "otp", "store", "send"} \union LogoutSteps
         \/ m.pc \in LogoutSteps /\ m.phone = phone[u] /\ k.pc \notin {"otp", "store", "send"}
  PROVE  PhoneInStep(u, m)'
<1>1. (SentToPhone(u) => SentToPhone(u)') /\ PhoneHadCode(u)'
  BY PhoneFactsQuiet DEF PhoneInStep
<1>2. CASE m = k
  BY <1>1, <1>2 DEF PhoneInStep
<1>3. CASE /\ k.pc \notin {"otp", "store", "send"}
           /\ m.pc \notin {"account", "lock", "phone", "save", "otp", "store", "send"} \union LogoutSteps
  BY <1>1, <1>3 DEF PhoneInStep
<1>4. CASE m.pc \in LogoutSteps /\ m.phone = phone[u] /\ k.pc \notin {"otp", "store", "send"}
  BY <1>1, <1>4 DEF PhoneInStep, LogoutSteps
<1> QED BY <1>2, <1>3, <1>4

LEMMA SecureStep ==
  ASSUME Basics, Basics', SecretsAreInStep, NEW t \in Tasks, NEW v \in Users, Moves(t, v), Counted,
         \A u \in Users \ {v} : Untouched(u),
         NEW m, m = task'[t],
         Calm(v) /\ Busy(v) \subseteq {t} /\ faults' = 0 /\ SecureInStep(v, task[t]) =>
           SecureInStep(v, m)'
  PROVE  SecretsAreInStep'
<1>1. SUFFICES ASSUME NEW u \in Users, Calm(u)', NEW k, Serving(u, k)' PROVE SecureInStep(u, k)'
  BY DEF SecretsAreInStep
<1>2. CASE u = v
  <2>1. k = m /\ Calm(v) /\ Busy(v) \subseteq {t} /\ faults' = 0 /\ Serving(v, task[t])
    BY <1>1, <1>2, Alone DEF Calm
  <2>2. SecureInStep(v, task[t])
    BY <2>1 DEF SecretsAreInStep
  <2> QED BY <1>2, <2>1, <2>2
<1>3. CASE u # v
  <2>1. overlap'[u] = overlap[u] /\ Serving(u, k) /\ Untouched(u)
    BY <1>1, <1>3, Apart DEF Basics
  <2>2. Calm(u)
    BY <1>1, <2>1 DEF Calm, Counted
  <2>3. SecureInStep(u, k)
    BY <2>1, <2>2 DEF SecretsAreInStep
  <2>4. AccountInStep(u, k)'
    BY <2>1, <2>3, AccountQuiet DEF SecureInStep, Untouched
  <2>5. CodeInStep(u, k)'
    BY <2>1, <2>3, CodeQuiet DEF SecureInStep, Untouched
  <2>6. u \notin rephoned' => PhoneInStep(u, k)'
    BY <2>1, <2>3, PhoneQuiet DEF SecureInStep, Untouched
  <2> QED BY <2>4, <2>5, <2>6 DEF SecureInStep
<1> QED BY <1>2, <1>3

LEMMA SecretsStay ==
  ASSUME UNCHANGED secrets, NEW u
  PROVE  security'[u] = security[u] /\ CodesKept(u)
BY DEF secrets, CodesKept, CodesOf, LiveOf

(* A step changes only the codes of its user. *)
LEMMA CodesApart ==
  ASSUME TypeOK, NEW t \in Tasks, NEW v \in Users, SecurityActs(t, v), NEW u \in Users \ {v},
         RequestsAreSound
  PROVE  CodesKept(u)
<1>1. PICK k : k = task[t]
  OBVIOUS
<1>2. /\ otps \in Seq(Otp) /\ codes \in Seq(Code) /\ SecurityStep(t) /\ Sound(k)
      /\ (k.pc # "idle" => k.user = v)
  BY <1>1, CodesTyped DEF SecurityActs, SecurityMove, Moves, RequestsAreSound
<1>3. /\ \A c \in DOMAIN codes : codes[c] \in Code
      /\ \A i \in DOMAIN otps : otps[i] \in Otp
  BY <1>2
<1>4. SUFFICES
        /\ \A c : c \in DOMAIN codes \/ c \in DOMAIN codes' =>
             (c \in DOMAIN codes /\ c \in DOMAIN codes' /\ codes'[c] = codes[c])
             \/ ((c \in DOMAIN codes => codes[c].user = v) /\ (c \in DOMAIN codes' => codes'[c].user = v))
        /\ \A i : i \in DOMAIN otps \/ i \in DOMAIN otps' =>
             (i \in DOMAIN otps /\ i \in DOMAIN otps' /\ otps'[i] = otps[i])
             \/ ((i \in DOMAIN otps => otps[i].user = v) /\ (i \in DOMAIN otps' => otps'[i].user = v))
  BY <1>4 DEF CodesKept, CodesOf, LiveOf
<1>5. CASE StoreOtp(t)
  <2>1. PICK n, c : /\ n = [user |-> k.user, phone |-> NoPhone, accepted |-> 0]
                    /\ c = Len(codes) + 1
    OBVIOUS
  <2>2. codes' = Append(codes, n) /\ k.user = v /\ n.user = v
    BY <1>1, <1>2, <1>5, <2>1 DEF StoreOtp, At
  <2>3. \A d \in DOMAIN codes : d \in DOMAIN codes' /\ codes'[d] = codes[d]
    BY <1>2, <2>2
  <2>4. \A d \in DOMAIN codes' : d \notin DOMAIN codes => codes'[d] = n
    BY <1>2, <2>2
  <2>5. CASE k.otp = 0
    <3>1. PICK r : r = [user |-> k.user, row |-> k.row, code |-> c, live |-> TRUE]
      OBVIOUS
    <3>2. otps' = Append(otps, r) /\ r.user = v
      BY <1>1, <1>5, <2>1, <2>2, <2>5, <3>1 DEF StoreOtp
    <3>3. \A i \in DOMAIN otps : i \in DOMAIN otps' /\ otps'[i] = otps[i]
      BY <1>2, <3>2
    <3>4. \A i \in DOMAIN otps' : i \notin DOMAIN otps => otps'[i] = r
      BY <1>2, <3>2
    <3> QED BY <2>2, <2>3, <2>4, <3>2, <3>3, <3>4
  <2>6. CASE k.otp # 0
    <3>1. PICK r : r = [otps[k.otp] EXCEPT !.code = c]
      OBVIOUS
    <3>2. otps' = [otps EXCEPT ![k.otp] = r]
      BY <1>1, <1>5, <2>1, <2>6, <3>1 DEF StoreOtp
    <3>3. k.otp \in DOMAIN otps /\ otps[k.otp].user = v
      BY <1>1, <1>2, <1>5, <2>6, <2>2 DEF StoreOtp, At, Sound
    <3>4. r.user = v
      BY <1>3, <3>1, <3>3 DEF Otp
    <3>5. /\ DOMAIN otps' = DOMAIN otps
          /\ \A i \in DOMAIN otps : otps'[i] = IF i = k.otp THEN r ELSE otps[i]
      BY <1>2, <3>2
    <3> QED BY <2>2, <2>3, <2>4, <3>3, <3>4, <3>5
  <2> QED BY <2>5, <2>6
<1>6. CASE SendOTP(t)
  <2>1. PICK n : n = [codes[k.otp] EXCEPT !.phone = k.phone]
    OBVIOUS
  <2>2. codes' = [codes EXCEPT ![k.otp] = n] /\ otps' = otps
    BY <1>1, <1>6, <2>1 DEF SendOTP
  <2>3. k.otp \in DOMAIN codes /\ codes[k.otp].user = v
    BY <1>1, <1>2, <1>6 DEF SendOTP, At, Sound
  <2>4. n.user = v
    BY <1>3, <2>1, <2>3 DEF Code
  <2>5. /\ DOMAIN codes' = DOMAIN codes
        /\ \A c \in DOMAIN codes : codes'[c] = IF c = k.otp THEN n ELSE codes[c]
    BY <1>2, <2>2
  <2> QED BY <2>2, <2>3, <2>4, <2>5
<1>7. CASE CompareCode(t)
  <2>1. PICK n : n = [codes[k.code] EXCEPT !.accepted = codes[k.code].accepted + 1]
    OBVIOUS
  <2>2. (codes' = codes \/ codes' = [codes EXCEPT ![k.code] = n]) /\ otps' = otps
    BY <1>1, <1>7, <2>1 DEF CompareCode
  <2>3. k.code \in DOMAIN codes /\ codes[k.code].user = v
    BY <1>1, <1>2, <1>7 DEF CompareCode, At, Sound, VerifySteps
  <2>4. n.user = v
    BY <1>3, <2>1, <2>3 DEF Code
  <2>5. /\ DOMAIN codes' = DOMAIN codes
        /\ \A c \in DOMAIN codes : codes'[c] = codes[c] \/ (c = k.code /\ codes'[c] = n)
    BY <1>2, <2>2
  <2> QED BY <2>2, <2>3, <2>4, <2>5
<1>8. CASE DeleteOtp(t)
  <2>1. PICK r : r = [otps[k.otp] EXCEPT !.live = FALSE]
    OBVIOUS
  <2>2. otps' = [otps EXCEPT ![k.otp] = r] /\ codes' = codes
    BY <1>1, <1>8, <2>1 DEF DeleteOtp
  <2>3. k.otp \in DOMAIN otps /\ otps[k.otp].user = v
    BY <1>1, <1>2, <1>8 DEF DeleteOtp, At, Sound
  <2>4. r.user = v
    BY <1>3, <2>1, <2>3 DEF Otp
  <2>5. /\ DOMAIN otps' = DOMAIN otps
        /\ \A i \in DOMAIN otps : otps'[i] = IF i = k.otp THEN r ELSE otps[i]
    BY <1>2, <2>2
  <2> QED BY <2>2, <2>3, <2>4, <2>5
<1>9. CASE ~ (StoreOtp(t) \/ SendOTP(t) \/ CompareCode(t) \/ DeleteOtp(t))
  <2>1. otps' = otps /\ codes' = codes
    BY <1>2, <1>9 DEF SecurityStep, secrets, RequestAccountSecurity, GetByUserID, LockAccount,
         CheckPhone, UpdatePhone, GetOtp, VerifyAccountSecurity, CheckLocked, MarkPhoneAsVerified, Unlock
  <2> QED BY <2>1
<1> QED BY <1>5, <1>6, <1>7, <1>8, <1>9

LEMMA SecurityApart ==
  ASSUME TypeOK, RequestsAreSound, NEW t \in Tasks, NEW v \in Users, SecurityActs(t, v),
         NEW u \in Users \ {v}
  PROVE  Untouched(u)
<1>1. PICK k : k = task[t]
  OBVIOUS
<1>2. /\ SecurityStep(t) /\ (k.pc # "idle" => k.user = v) /\ rephoned' = rephoned
      /\ security \in [Users -> Seq(BOOLEAN)]
      /\ phone \in [Users -> Phones \union {NoPhone}] /\ verified \in [Users -> BOOLEAN]
  BY <1>1, CodesTyped, TypeFacts DEF SecurityActs, SecurityMove, Moves, CitizensTypeOK
<1>3. security'[u] = security[u]
  <2>1. CASE LockAccount(t)
    <3>1. PICK s : security' = [security EXCEPT ![k.user] = s]
      BY <1>1, <2>1 DEF LockAccount
    <3> QED BY <1>1, <1>2, <2>1, <3>1 DEF LockAccount, At
  <2>2. CASE Unlock(t)
    <3>1. PICK s : security' = [security EXCEPT ![k.user] = s]
      BY <1>1, <2>2 DEF Unlock
    <3> QED BY <1>1, <1>2, <2>2, <3>1 DEF Unlock, At
  <2>3. CASE ~ (LockAccount(t) \/ Unlock(t))
    <3>1. security' = security
      BY <1>2, <2>3 DEF SecurityStep, secrets, RequestAccountSecurity, GetByUserID, CheckPhone,
         UpdatePhone, GetOtp, StoreOtp, SendOTP, VerifyAccountSecurity, CheckLocked, CompareCode,
         MarkPhoneAsVerified, DeleteOtp
    <3> QED BY <3>1
  <2> QED BY <2>1, <2>2, <2>3
<1>4. phone'[u] = phone[u] /\ verified'[u] = verified[u]
  <2>1. CASE UpdatePhone(t)
    BY <1>1, <1>2, <2>1 DEF UpdatePhone, At
  <2>2. CASE MarkPhoneAsVerified(t)
    BY <1>1, <1>2, <2>2 DEF MarkPhoneAsVerified, At
  <2>3. CASE ~ (UpdatePhone(t) \/ MarkPhoneAsVerified(t))
    <3>1. phone' = phone /\ verified' = verified
      BY <1>2, <2>3 DEF SecurityStep, accounts, RequestAccountSecurity, GetByUserID, LockAccount,
         CheckPhone, GetOtp, StoreOtp, SendOTP, VerifyAccountSecurity, CheckLocked, CompareCode,
         Unlock, DeleteOtp
    <3> QED BY <3>1
  <2> QED BY <2>1, <2>2, <2>3
<1>5. CodesKept(u)
  BY CodesApart
<1> QED BY <1>2, <1>3, <1>4, <1>5 DEF Untouched

LEMMA OthersApart ==
  ASSUME TypeOK, NEW t \in Tasks, NEW v \in Users,
         LevelsActs(t, v) \/ SessionsActs(t, v) \/ SocialActs(t, v), NEW u \in Users \ {v}
  PROVE  Untouched(u)
<1>1. UNCHANGED secrets
  BY DEF LevelsActs, SessionsActs, SocialActs
<1>2. security'[u] = security[u] /\ CodesKept(u)
  BY <1>1, SecretsStay
<1>3. CASE LevelsActs(t, v)
  BY <1>2, <1>3 DEF LevelsActs, LevelsMove, Untouched
<1>4. CASE SocialActs(t, v)
  BY <1>2, <1>4 DEF SocialActs, SocialMove, accounts, Untouched
<1>5. CASE SessionsActs(t, v)
  <2>1. phone'[u] = phone[u] /\ verified'[u] = verified[u]
    BY <1>5, SessionsApart DEF SessionsActs, SessionsMove
  <2>2. rephoned' = rephoned \/ rephoned' = rephoned \union {v}
    <3>1. SessionsStep(t) /\ (task[t].pc # "idle" => task[t].user = v)
      BY <1>5 DEF SessionsActs, SessionsMove, Moves
    <3> QED BY <3>1 DEF SessionsStep, Callback, FindUser, CreateUser, MakePart, UpdateUser, At,
         OnUserLogin, Logout, GetLatestActivity, UpdateActivity, GetTotalActivityMinutes, GetUserLog,
         WriteHours, WriteScore, WriteUser, UpdateUserLog
  <2> QED BY <1>2, <2>1, <2>2 DEF Untouched
<1> QED BY <1>3, <1>4, <1>5

CodePcs == {"account", "lock", "phone", "save", "otp", "store", "send"} \union VerifySteps

(* A step of other requests of the user. *)
LEMMA SecureQuiet ==
  ASSUME NEW v \in Users, UNCHANGED secrets, phone'[v] = phone[v], verified'[v] = verified[v],
         NEW k, NEW m, SecureInStep(v, k), k.pc \notin CodePcs, m.pc \notin CodePcs,
         m.pc \in LogoutSteps /\ v \notin rephoned' => m.phone = phone[v],
         v \in rephoned => v \in rephoned'
  PROVE  SecureInStep(v, m)'
<1>1. security'[v] = security[v] /\ CodesKept(v)
  BY SecretsStay
<1>2. AccountInStep(v, k) /\ CodeInStep(v, k) /\ (v \notin rephoned => PhoneInStep(v, k))
  BY DEF SecureInStep
<1>3. AccountInStep(v, m)'
  <2>1. m.pc \notin {"lock", "phone", "save", "otp", "store", "send"} \union VerifySteps
    BY DEF CodePcs
  <2> QED BY <1>1, <1>2, <2>1, AccountQuiet
<1>4. CodeInStep(v, m)'
  <2>1. m.pc \notin {"store", "send", "mark", "unlock", "delete"} /\ k.pc # "send"
    BY DEF CodePcs, VerifySteps
  <2> QED BY <1>1, <1>2, <2>1, CodeQuiet
<1>5. ASSUME v \notin rephoned' PROVE PhoneInStep(v, m)'
  <2>1. PhoneInStep(v, k)
    BY <1>2, <1>5
  <2>2. /\ k.pc \notin {"otp", "store", "send"}
        /\ m.pc \notin {"account", "lock", "phone", "save", "otp", "store", "send"}
    BY DEF CodePcs
  <2>3. CASE m.pc \in LogoutSteps
    BY <1>1, <1>5, <2>1, <2>2, <2>3, PhoneQuiet
  <2>4. CASE m.pc \notin LogoutSteps
    BY <1>1, <2>1, <2>2, <2>4, PhoneQuiet
  <2> QED BY <2>3, <2>4
<1> QED BY <1>3, <1>4, <1>5 DEF SecureInStep

LEMMA LevelsSecure ==
  ASSUME NEW t \in Tasks, NEW v \in Users, LevelsActs(t, v) \/ SocialActs(t, v),
         NEW m, m = task'[t], SecureInStep(v, task[t])
  PROVE  SecureInStep(v, m)'
<1>1. PICK k : k = task[t]
  OBVIOUS
<1>2. CASE LevelsActs(t, v)
  <2>1. /\ UNCHANGED secrets /\ phone' = phone /\ verified' = verified /\ rephoned' = rephoned
        /\ k \in LevelsTask \union {Resting} /\ m \in LevelsTask \union {Resting}
    BY <1>1, <1>2 DEF LevelsActs, LevelsMove
  <2>2. k.pc \notin CodePcs /\ m.pc \notin CodePcs /\ m.pc \notin LogoutSteps
    BY <2>1 DEF LevelsTask, Resting, CodePcs, VerifySteps, LogoutSteps
  <2> QED BY <1>1, <2>1, <2>2, SecureQuiet
<1>3. CASE SocialActs(t, v)
  <2>1. /\ UNCHANGED secrets /\ phone' = phone /\ verified' = verified /\ rephoned' = rephoned
        /\ k \in AnswerTask \union FollowTask \union {Resting}
        /\ m \in AnswerTask \union FollowTask \union {Resting}
    BY <1>1, <1>3 DEF SocialActs, SocialMove, accounts
  <2>2. k.pc \notin CodePcs /\ m.pc \notin CodePcs /\ m.pc \notin LogoutSteps
    BY <2>1 DEF AnswerTask, AnswerSteps, FollowTask, FollowSteps, Resting, CodePcs, VerifySteps,
       LogoutSteps
  <2> QED BY <1>1, <2>1, <2>2, SecureQuiet
<1> QED BY <1>2, <1>3

LEMMA CallbackSecure ==
  ASSUME Basics, NEW t \in Tasks, NEW v \in Users, SessionsActs(t, v), NEW k, NEW m,
         k = task[t], m = task'[t], SecureInStep(v, k),
         \/ \E u \in Users, p \in Phones : Callback(t, u, p)
         \/ FindUser(t) \/ CreateUser(t) \/ MakePart(t) \/ UpdateUser(t) \/ OnUserLogin(t)
  PROVE  SecureInStep(v, m)'
<1>0. /\ UNCHANGED secrets /\ verified' = verified /\ (k.pc # "idle" => k.user = v)
      /\ rephoned \subseteq rephoned' /\ rephoned' \subseteq Users
      /\ phone \in [Users -> Phones \union {NoPhone}] /\ TypeOK
  BY TypeFacts DEF SessionsActs, SessionsMove, AccountsTyped, Moves, Basics, CitizensTypeOK
<1>1. k.pc \notin CodePcs /\ m.pc \notin CodePcs /\ m.pc \notin LogoutSteps
  BY CallbackAt DEF CallbackSteps, CodePcs, VerifySteps, LogoutSteps
<1>2. CASE phone' = phone
  BY <1>0, <1>1, <1>2, SecureQuiet
<1>3. CASE phone' # phone
  <2>1. CreateUser(t) \/ UpdateUser(t)
    BY <1>3 DEF Callback, FindUser, MakePart, OnUserLogin, accounts
  <2>2. security'[v] = security[v] /\ CodesKept(v)
    BY <1>0, SecretsStay
  <2>3. AccountInStep(v, m)'
    <3>1. m.pc \notin {"lock", "phone", "save", "otp", "store", "send"} \union VerifySteps
      BY <1>1 DEF CodePcs
    <3> QED BY <2>2, <3>1, AccountQuiet DEF SecureInStep
  <2>4. CodeInStep(v, m)'
    <3>1. m.pc \notin {"store", "send", "mark", "unlock", "delete"} /\ k.pc # "send"
      BY <1>1 DEF CodePcs, VerifySteps
    <3> QED BY <2>2, <3>1, CodeQuiet DEF SecureInStep
  <2>5. CASE CreateUser(t)
    <3>1. v \notin registered
      BY <1>0, <1>3, <2>5 DEF CreateUser, At
    <3>2. CodesOf(v) = {}
      BY <3>1 DEF CodesOf, CodesAreSound, Basics
    <3>3. v \notin rephoned => ~ verified[v]
      BY <3>2 DEF SecureInStep, PhoneInStep, PhoneHadCode
    <3>4. CodesOf(v)' = {}
      BY <2>2, <3>2 DEF CodesKept
    <3>5. v \notin rephoned' => PhoneHadCode(v)'
      BY <1>0, <3>3 DEF PhoneHadCode
    <3>6. SentToPhone(v)'
      BY <3>4 DEF SentToPhone
    <3>7. m.pc \notin {"account", "lock", "phone", "save", "otp", "store", "send"} \union LogoutSteps
      BY <1>1 DEF CodePcs
    <3>8. v \notin rephoned' => PhoneInStep(v, m)'
      BY <3>5, <3>6, <3>7 DEF PhoneInStep
    <3> QED BY <2>3, <2>4, <3>8 DEF SecureInStep
  <2>6. CASE UpdateUser(t)
    <3>1. v \in rephoned'
      BY <1>0, <2>6 DEF UpdateUser, At
    <3> QED BY <2>3, <2>4, <3>1 DEF SecureInStep
  <2> QED BY <2>1, <2>5, <2>6
<1> QED BY <1>2, <1>3

LEMMA LogoutSecure ==
  ASSUME Basics, NEW t \in Tasks, NEW v \in Users, SessionsActs(t, v), NEW k, NEW m,
         k = task[t], m = task'[t], SecureInStep(v, k),
         \/ \E u \in registered : Logout(t, u)
         \/ GetLatestActivity(t) \/ UpdateActivity(t) \/ GetTotalActivityMinutes(t)
         \/ GetUserLog(t) \/ WriteHours(t) \/ WriteScore(t) \/ WriteUser(t)
  PROVE  SecureInStep(v, m)'
<1>0. /\ UNCHANGED secrets /\ verified' = verified /\ (k.pc # "idle" => k.user = v)
      /\ (m.pc # "idle" => m.user = v) /\ rephoned \subseteq rephoned'
      /\ phone \in [Users -> Phones \union {NoPhone}] /\ TypeOK
      /\ task \in [Tasks -> Requests] /\ task' \in [Tasks -> Requests]
  BY TypeFacts DEF SessionsActs, SessionsMove, AccountsTyped, Moves, Basics, CitizensTypeOK
<1>1. CASE \E u \in registered : Logout(t, u)
  <2>1. PICK u \in registered : Logout(t, u)
    BY <1>1
  <2>2. m.pc = "latest" /\ m.user = u /\ m.phone = phone[u] /\ k.pc = "idle" /\ phone' = phone
    BY <1>0, <2>1 DEF Logout, Start, Step, At, accounts
  <2>3. m.phone = phone[v]
    BY <1>0, <2>2
  <2>4. k.pc \notin CodePcs /\ m.pc \notin CodePcs
    BY <2>2 DEF CodePcs, VerifySteps
  <2> QED BY <1>0, <2>2, <2>3, <2>4, SecureQuiet
<1>2. CASE \/ GetLatestActivity(t) \/ UpdateActivity(t) \/ GetTotalActivityMinutes(t)
           \/ GetUserLog(t) \/ WriteHours(t) \/ WriteScore(t) \/ WriteUser(t)
  <2>1. k.pc \in LogoutSteps
    BY <1>2 DEF GetLatestActivity, UpdateActivity, GetTotalActivityMinutes, GetUserLog, WriteHours,
       WriteScore, WriteUser, At, LogoutSteps
  <2>2. k \in LogoutTask
    BY <1>0, <2>1, LogoutTaskAt
  <2>3. k.pc \notin CodePcs
    BY <2>1 DEF LogoutSteps, CodePcs, VerifySteps
  <2>4. m = Resting \/ m \in LogoutTask
    <3>1. k \notin CallbackTask \union {Resting}
      BY <2>2 DEF CallbackTask, LogoutTask, CallbackSteps, LogoutSteps, Resting
    <3> QED BY <3>1 DEF SessionsActs, SessionsMove
  <2>5. m.pc \notin CodePcs
    BY <2>4 DEF LogoutTask, LogoutSteps, Resting, CodePcs, VerifySteps
  <2>6. v \notin rephoned => k.phone = phone[v]
    BY <2>1 DEF SecureInStep, PhoneInStep
  <2>7. \/ m = Resting \/ m.phone = k.phone
    <3>0. ASSUME NEW q, Step(t, q) PROVE m = q
      BY <1>0, <3>0 DEF Step
    <3>1. CASE GetLatestActivity(t)
      <4>1. PICK n, pc : m = [k EXCEPT !.row = n, !.pc = pc]
        BY <3>0, <3>1 DEF GetLatestActivity
      <4> QED BY <2>2, <4>1 DEF LogoutTask
    <3>2. CASE UpdateActivity(t) \/ WriteHours(t) \/ WriteScore(t)
      <4>1. PICK pc : m = [k EXCEPT !.pc = pc]
        BY <3>0, <3>2 DEF UpdateActivity, WriteHours, WriteScore, Goto
      <4> QED BY <2>2, <4>1 DEF LogoutTask
    <3>3. CASE GetTotalActivityMinutes(t)
      <4>1. PICK n : m = [k EXCEPT !.pc = "read", !.hours = n]
        BY <3>0, <3>3 DEF GetTotalActivityMinutes
      <4> QED BY <2>2, <4>1 DEF LogoutTask
    <3>4. CASE GetUserLog(t)
      <4>1. CASE Return(t)
        BY <3>0, <4>1 DEF Return, Resting
      <4>2. CASE ~ Return(t)
        <5>1. PICK pc, n : m = [k EXCEPT !.pc = pc, !.log = n]
          BY <3>0, <3>4, <4>2 DEF GetUserLog
        <5> QED BY <2>2, <5>1 DEF LogoutTask
      <4> QED BY <4>1, <4>2
    <3>5. CASE WriteUser(t)
      BY <3>0, <3>5 DEF WriteUser, Return, Resting
    <3> QED BY <1>2, <3>1, <3>2, <3>3, <3>4, <3>5
  <2>8. v \notin rephoned => phone'[v] = phone[v]
    <3>1. CASE WriteUser(t)
      <4>1. phone' = [phone EXCEPT ![v] = k.phone]
        BY <1>0, <3>1 DEF WriteUser, At
      <4> QED BY <1>0, <2>6, <4>1
    <3>2. CASE ~ WriteUser(t)
      BY <1>2, <3>2 DEF GetLatestActivity, UpdateActivity, GetTotalActivityMinutes, GetUserLog,
         WriteHours, WriteScore, UpdateUserLog, accounts
    <3> QED BY <3>1, <3>2
  <2>9. CASE v \notin rephoned
    <3>1. m.pc \in LogoutSteps => m.phone = phone[v]
      BY <2>6, <2>7, <2>9 DEF Resting, LogoutSteps
    <3> QED BY <1>0, <2>3, <2>5, <2>8, <2>9, <3>1, SecureQuiet
  <2>10. CASE v \in rephoned
    <3>1. security'[v] = security[v] /\ CodesKept(v) /\ v \in rephoned'
      BY <1>0, <2>10, SecretsStay
    <3>2. AccountInStep(v, m)'
      <4>1. m.pc \notin {"lock", "phone", "save", "otp", "store", "send"} \union VerifySteps
        BY <2>5 DEF CodePcs
      <4> QED BY <3>1, <4>1, AccountQuiet DEF SecureInStep
    <3>3. CodeInStep(v, m)'
      <4>1. m.pc \notin {"store", "send", "mark", "unlock", "delete"} /\ k.pc # "send"
        BY <2>3, <2>5 DEF CodePcs, VerifySteps
      <4> QED BY <3>1, <4>1, CodeQuiet DEF SecureInStep
    <3> QED BY <3>1, <3>2, <3>3 DEF SecureInStep
  <2> QED BY <2>9, <2>10
<1> QED BY <1>1, <1>2

(* t makes a step of account security for the calm user v. *)
Secures(t, v, k, m) ==
  /\ Basics /\ SecurityActs(t, v) /\ k = task[t] /\ m = task'[t]
  /\ SecureInStep(v, k) /\ faults' = 0

LEMMA SecuresFacts ==
  ASSUME NEW t \in Tasks, NEW v \in Users, NEW k, NEW m, Secures(t, v, k, m)
  PROVE  /\ TypeOK /\ Sound(k) /\ rephoned' = rephoned
         /\ (k.pc # "idle" => k.user = v) /\ (m.pc # "idle" => m.user = v)
         /\ AccountInStep(v, k) /\ CodeInStep(v, k) /\ (v \notin rephoned => PhoneInStep(v, k))
         /\ \A q : Step(t, q) => m = q
         /\ k.pc \in SecureSteps => k \in SecureTask
         /\ k.pc \in VerifySteps => k \in VerifyTask
<1>1. Basics /\ TypeOK /\ SecurityActs(t, v) /\ k = task[t] /\ m = task'[t] /\ SecureInStep(v, k)
  BY DEF Secures, Basics
<1>2. task \in [Tasks -> Requests]
  BY <1>1, TypeFacts
<1>3. Sound(k)
  BY <1>1 DEF Basics, RequestsAreSound
<1>4. \A q : Step(t, q) => m = q
  BY <1>1, <1>2 DEF Step
<1>5. (k.pc \in SecureSteps => k \in SecureTask) /\ (k.pc \in VerifySteps => k \in VerifyTask)
  BY <1>1, <1>2, Kinds
<1> QED BY <1>1, <1>3, <1>4, <1>5 DEF SecurityActs, SecurityMove, Moves, SecureInStep

LEMMA RequestSecure ==
  ASSUME NEW t \in Tasks, NEW v \in Users, NEW k, NEW m, Secures(t, v, k, m),
         \E u \in registered, p \in Phones \union {NoPhone} : RequestAccountSecurity(t, u, p)
  PROVE  SecureInStep(v, m)'
<1>1. PICK u \in registered, p \in Phones \union {NoPhone} : RequestAccountSecurity(t, u, p)
  OBVIOUS
<1>2. PICK q : q = [pc |-> "account", op |-> "secure", user |-> u, given |-> p, phone |-> phone[u],
                    known |-> verified[u] /\ phone[u] # NoPhone, row |-> 0, otp |-> 0]
  OBVIOUS
<1>3. m = q /\ k.pc = "idle" /\ UNCHANGED accounts /\ UNCHANGED secrets
  BY <1>1, <1>2, SecuresFacts DEF RequestAccountSecurity, Start, At, Secures
<1>4. m.pc = "account" /\ m.user = u /\ m.phone = phone[u]
  BY <1>2, <1>3
<1>5. u = v
  BY <1>4, SecuresFacts
<1>6. m.known <=> (verified[v] /\ phone[v] # NoPhone)
  BY <1>2, <1>3, <1>5
<1>7. security'[v] = security[v] /\ CodesKept(v) /\ phone' = phone /\ verified' = verified
  BY <1>3, SecretsStay DEF accounts
<1>8. AccountInStep(v, m)'
  BY <1>4, <1>7, SecuresFacts, AccountQuiet DEF VerifySteps
<1>9. CodeInStep(v, m)'
  BY <1>3, <1>4, <1>7, SecuresFacts, CodeQuiet
<1>10. ASSUME v \notin rephoned' PROVE PhoneInStep(v, m)'
  <2>1. PhoneInStep(v, k)
    BY <1>10, SecuresFacts
  <2>2. SentToPhone(v)' /\ PhoneHadCode(v)'
    BY <1>3, <1>7, <2>1, PhoneFactsQuiet DEF PhoneInStep
  <2> QED BY <1>4, <1>5, <1>6, <1>7, <2>2 DEF PhoneInStep, LogoutSteps
<1> QED BY <1>8, <1>9, <1>10 DEF SecureInStep

LEMMA GetByUserIDSecure ==
  ASSUME NEW t \in Tasks, NEW v \in Users, NEW k, NEW m, Secures(t, v, k, m), GetByUserID(t)
  PROVE  SecureInStep(v, m)'
<1>1. k.pc = "account" /\ k = task[t] /\ UNCHANGED accounts /\ UNCHANGED secrets
  BY DEF GetByUserID, At, Secures
<1>2. k \in SecureTask /\ k.user = v
  BY <1>1, SecuresFacts DEF SecureSteps
<1>3. PICK n : n = IF security[v] = <<>> THEN 0 ELSE 1
  OBVIOUS
<1>4. m = [k EXCEPT !.pc = "lock", !.row = n]
  BY <1>1, <1>2, <1>3, SecuresFacts DEF GetByUserID
<1>5. m.pc = "lock" /\ m.row = n /\ m.phone = k.phone /\ m.known = k.known
  BY <1>2, <1>4 DEF SecureTask
<1>6. security'[v] = security[v] /\ CodesKept(v) /\ phone' = phone /\ verified' = verified
  BY <1>1, SecretsStay DEF accounts
<1>7. AccountInStep(v, m)'
  <2>1. Len(security[v]) <= 1
    BY SecuresFacts DEF AccountInStep
  <2>2. security[v] \in Seq(BOOLEAN)
    BY SecuresFacts, CodesTyped
  <2>3. n = Len(security[v])
    BY <1>3, <2>1, <2>2
  <2> QED BY <1>5, <1>6, <2>1, <2>3 DEF AccountInStep, VerifySteps
<1>8. CodeInStep(v, m)'
  BY <1>1, <1>5, <1>6, SecuresFacts, CodeQuiet
<1>9. ASSUME v \notin rephoned' PROVE PhoneInStep(v, m)'
  <2>1. PhoneInStep(v, k)
    BY <1>9, SecuresFacts
  <2>2. SentToPhone(v)' /\ PhoneHadCode(v)'
    BY <1>1, <1>6, <2>1, PhoneFactsQuiet DEF PhoneInStep
  <2> QED BY <1>1, <1>5, <1>6, <2>1, <2>2 DEF PhoneInStep, LogoutSteps
<1> QED BY <1>7, <1>8, <1>9 DEF SecureInStep

LEMMA LockSecure ==
  ASSUME NEW t \in Tasks, NEW v \in Users, NEW k, NEW m, Secures(t, v, k, m), LockAccount(t)
  PROVE  SecureInStep(v, m)'
<1>1. /\ k.pc = "lock" /\ k = task[t] /\ UNCHANGED accounts /\ otps' = otps /\ codes' = codes
  BY DEF LockAccount, At, Secures
<1>2. k \in SecureTask /\ k.user = v /\ k.known \in BOOLEAN
  <2>1. k \in SecureTask /\ k.user = v
    BY <1>1, SecuresFacts DEF SecureSteps
  <2> QED BY <2>1 DEF SecureTask
<1>3. PICK s \in Seq(BOOLEAN) : s = security[v]
  BY SecuresFacts, CodesTyped
<1>4. k.row = Len(s) /\ Len(s) \in {0, 1}
  <2>1. PICK B : B = BOOLEAN
    OBVIOUS
  <2>2. s \in Seq(B)
    BY <2>1
  <2>3. PICK l \in Nat : l = Len(s)
    BY <2>2
  <2>4. k.row = Len(s) /\ Len(s) <= 1
    BY <1>1, <1>3, SecuresFacts DEF AccountInStep
  <2>5. l <= 1
    BY <2>3, <2>4, Zenon
  <2>6. l \in {0, 1}
    BY <2>5
  <2> QED BY <2>3, <2>4, <2>6, Zenon
<1>5. Len(security'[v]) = 1 /\ ~ security'[v][1]
  <2>0. security \in [Users -> Seq(BOOLEAN)]
    BY SecuresFacts, CodesTyped
  <2>1. \E a \in BOOLEAN :
          ~ a /\ security' = [security EXCEPT ![v] = IF k.row = 0 THEN Append(s, a)
                                                    ELSE [s EXCEPT ![k.row] = a]]
    <3> WITNESS FALSE \in BOOLEAN
    <3> QED BY <1>1, <1>2, <1>3 DEF LockAccount
  <2>2. PICK a \in BOOLEAN :
          ~ a /\ security' = [security EXCEPT ![v] = IF k.row = 0 THEN Append(s, a)
                                                    ELSE [s EXCEPT ![k.row] = a]]
    BY <2>1
  <2>3. PICK r : r = IF k.row = 0 THEN Append(s, a) ELSE [s EXCEPT ![k.row] = a]
    OBVIOUS
  <2>4. security'[v] = r
    <3>1. security' = [security EXCEPT ![v] = r]
      BY <2>2, <2>3
    <3>2. v \in DOMAIN security
      BY <2>0
    <3> QED BY <3>1, <3>2
  <2>5. Len(r) = 1 /\ r[1] = a
    <3>1. CASE k.row = 0
      <4>1. PICK B, b : B = BOOLEAN /\ b = a
        OBVIOUS
      <4>2. s \in Seq(B) /\ b \in B /\ Len(s) = 0
        BY <1>4, <3>1, <4>1, Zenon
      <4>3. Len(Append(s, b)) = 1 /\ Append(s, b)[1] = b
        BY <4>2
      <4>4. r = Append(s, b)
        BY <2>3, <3>1, <4>1, Zenon
      <4> QED BY <4>1, <4>3, <4>4, Zenon
    <3>2. CASE k.row # 0
      <4>1. k.row = 1 /\ Len(s) = 1
        BY <1>4, <3>2, Zenon
      <4>2. r = [s EXCEPT ![1] = a] /\ 1 \in DOMAIN s
        BY <2>3, <3>2, <4>1
      <4>3. Len(r) = Len(s)
        BY <4>2, FlagTyped
      <4> QED BY <4>1, <4>2, <4>3
    <3> QED BY <3>1, <3>2
  <2>6. Len(security'[v]) = 1 /\ security'[v][1] = a
    BY <2>4, <2>5
  <2>7. ~ security'[v][1]
    BY <2>2, <2>6, Zenon
  <2> QED BY <2>6, <2>7, Zenon
<1>6. PICK n : n = IF k.row = 0 THEN Len(security'[v]) ELSE k.row
  OBVIOUS
<1>7. n = 1
  BY <1>4, <1>5, <1>6, Zenon
<1>8. PICK pc : pc = IF k.known THEN "otp" ELSE "phone"
  OBVIOUS
<1>9. m = [k EXCEPT !.pc = pc, !.row = n]
  <2>1. Step(t, [k EXCEPT !.pc = IF k.known THEN "otp" ELSE "phone",
                          !.row = IF k.row = 0 THEN Len(security'[k.user]) ELSE k.row])
    BY <1>1 DEF LockAccount
  <2> QED BY <1>2, <1>6, <1>8, <2>1, SecuresFacts
<1>10. m.pc = pc /\ m.row = 1 /\ m.phone = k.phone /\ m.known = k.known
  BY <1>2, <1>7, <1>9 DEF SecureTask
<1>11. CodesKept(v) /\ phone' = phone /\ verified' = verified
  BY <1>1 DEF accounts, CodesKept, CodesOf, LiveOf
<1>12. AccountInStep(v, m)'
  BY <1>5, <1>8, <1>10 DEF AccountInStep, VerifySteps
<1>13. CodeInStep(v, m)'
  <2>1. LiveIsLast(v) /\ LastCounts(v) /\ \A c \in CodesOf(v) : codes[c].phone # NoPhone
    BY <1>1, SecuresFacts DEF CodeInStep
  <2>2. \A c : Last(v, c)' <=> Last(v, c)
    BY <1>11, LastKept DEF CodesKept
  <2>3. LiveIsLast(v)'
    BY <1>11, <2>1, <2>2 DEF CodesKept, LiveIsLast
  <2>4. LastCounts(v)'
    BY <1>5, <1>11, <2>1, <2>2 DEF CodesKept, LastCounts
  <2>5. m.pc \notin {"store", "send", "mark", "unlock", "delete"}
    BY <1>8, <1>10
  <2> QED BY <1>11, <2>1, <2>3, <2>4, <2>5 DEF CodeInStep, CodesKept
<1>14. ASSUME v \notin rephoned' PROVE PhoneInStep(v, m)'
  <2>1. PhoneInStep(v, k)
    BY <1>14, SecuresFacts
  <2>2. SentToPhone(v)' /\ PhoneHadCode(v)'
    BY <1>1, <1>11, <2>1, PhoneFactsQuiet DEF PhoneInStep
  <2> QED BY <1>1, <1>2, <1>8, <1>10, <1>11, <2>1, <2>2 DEF PhoneInStep, LogoutSteps
<1> QED BY <1>12, <1>13, <1>14 DEF SecureInStep

LEMMA CheckPhoneSecure ==
  ASSUME NEW t \in Tasks, NEW v \in Users, NEW k, NEW m, Secures(t, v, k, m), CheckPhone(t)
  PROVE  SecureInStep(v, m)'
<1>1. k.pc = "phone" /\ k = task[t] /\ UNCHANGED accounts /\ UNCHANGED secrets
  BY DEF CheckPhone, At, Secures
<1>2. k \in SecureTask /\ k.user = v
  BY <1>1, SecuresFacts DEF SecureSteps
<1>3. security'[v] = security[v] /\ CodesKept(v) /\ phone' = phone /\ verified' = verified
  BY <1>1, SecretsStay DEF accounts
<1>4. m = Resting \/ m = [k EXCEPT !.pc = "save"]
  BY <1>1, SecuresFacts DEF CheckPhone, Return, Goto, Resting
<1>5. m.pc \in {"idle", "save"} /\ (m.pc = "save" => m.row = k.row /\ m.phone = k.phone /\ m.known = k.known)
  <2>1. CASE m = Resting
    BY <2>1 DEF Resting
  <2>2. CASE m = [k EXCEPT !.pc = "save"]
    BY <1>2, <2>2 DEF SecureTask
  <2> QED BY <1>4, <2>1, <2>2
<1>6. AccountInStep(v, m)'
  BY <1>1, <1>3, <1>5, SecuresFacts DEF AccountInStep, VerifySteps
<1>7. CodeInStep(v, m)'
  BY <1>1, <1>3, <1>5, SecuresFacts, CodeQuiet
<1>8. ASSUME v \notin rephoned' PROVE PhoneInStep(v, m)'
  <2>1. PhoneInStep(v, k)
    BY <1>8, SecuresFacts
  <2>2. SentToPhone(v)' /\ PhoneHadCode(v)'
    BY <1>1, <1>3, <2>1, PhoneFactsQuiet DEF PhoneInStep
  <2> QED BY <1>1, <1>3, <1>5, <2>1, <2>2 DEF PhoneInStep, LogoutSteps
<1> QED BY <1>6, <1>7, <1>8 DEF SecureInStep

LEMMA UpdatePhoneSecure ==
  ASSUME NEW t \in Tasks, NEW v \in Users, NEW k, NEW m, Secures(t, v, k, m), UpdatePhone(t)
  PROVE  SecureInStep(v, m)'
<1>1. /\ k.pc = "save" /\ k = task[t] /\ UNCHANGED secrets /\ verified' = verified
  BY DEF UpdatePhone, At, Secures
<1>2. k \in SecureTask /\ k.user = v
  BY <1>1, SecuresFacts DEF SecureSteps
<1>3. security'[v] = security[v] /\ CodesKept(v)
  BY <1>1, SecretsStay
<1>4. phone'[v] = k.given
  BY <1>1, <1>2, SecuresFacts, TypeFacts DEF UpdatePhone, CitizensTypeOK
<1>5. m = [k EXCEPT !.pc = "otp", !.phone = k.given]
  BY <1>1, SecuresFacts DEF UpdatePhone
<1>6. m.pc = "otp" /\ m.row = k.row /\ m.phone = k.given
  BY <1>2, <1>5 DEF SecureTask
<1>7. AccountInStep(v, m)'
  BY <1>1, <1>3, <1>6, SecuresFacts DEF AccountInStep, VerifySteps
<1>8. CodeInStep(v, m)'
  BY <1>1, <1>3, <1>6, SecuresFacts, CodeQuiet
<1>9. ASSUME v \notin rephoned' PROVE PhoneInStep(v, m)'
  <2>1. PhoneInStep(v, k)
    BY <1>9, SecuresFacts
  <2>2. ~ (verified[v] /\ phone[v] # NoPhone) /\ PhoneHadCode(v)
    BY <1>1, <2>1 DEF PhoneInStep
  <2>3. ~ verified[v]
    <3>1. SUFFICES ASSUME verified[v] PROVE FALSE
      OBVIOUS
    <3>2. PICK c \in CodesOf(v) : codes[c].accepted > 0 /\ codes[c].phone = NoPhone
      BY <2>2, <3>1 DEF PhoneHadCode
    <3> QED BY <3>2 DEF Secures, Basics, CodesAreSound, CodesOf
  <2>4. PhoneHadCode(v)'
    BY <1>1, <2>3 DEF PhoneHadCode
  <2> QED BY <1>4, <1>6, <2>4 DEF PhoneInStep, LogoutSteps
<1> QED BY <1>7, <1>8, <1>9 DEF SecureInStep

LEMMA GetOtpSecure ==
  ASSUME NEW t \in Tasks, NEW v \in Users, NEW k, NEW m, Secures(t, v, k, m), GetOtp(t)
  PROVE  SecureInStep(v, m)'
<1>1. k.pc = "otp" /\ k = task[t] /\ UNCHANGED accounts /\ UNCHANGED secrets
  BY DEF GetOtp, At, Secures
<1>2. k \in SecureTask /\ k.user = v /\ k.row = 1
  BY <1>1, SecuresFacts DEF SecureSteps, AccountInStep
<1>3. security'[v] = security[v] /\ CodesKept(v) /\ phone' = phone /\ verified' = verified
  BY <1>1, SecretsStay DEF accounts
<1>4. PICK i : i = FirstOtp(v, 1)
  OBVIOUS
<1>5. m = [k EXCEPT !.pc = "store", !.otp = i]
  BY <1>1, <1>2, <1>4, SecuresFacts DEF GetOtp
<1>6. m.pc = "store" /\ m.row = k.row /\ m.phone = k.phone /\ m.otp = i
  BY <1>2, <1>5 DEF SecureTask
<1>7. AccountInStep(v, m)'
  BY <1>1, <1>3, <1>6, SecuresFacts DEF AccountInStep, VerifySteps
<1>8. CodeInStep(v, m)'
  <2>1. LiveIsLast(v) /\ LastCounts(v) /\ \A c \in CodesOf(v) : codes[c].phone # NoPhone
    BY <1>1, SecuresFacts DEF CodeInStep
  <2>2. LiveIsLast(v)' /\ LastCounts(v)'
    BY <1>3, <2>1, LiveQuiet
  <2>3. (LiveOf(v) = {} /\ i = 0) \/ i \in LiveOf(v)
    <3>1. CASE i = 0
      <4>1. \A j \in DOMAIN otps : ~ (otps[j].live /\ otps[j].user = v /\ otps[j].row = 1)
        BY <1>4, <3>1, SecuresFacts, CodesTyped, FirstOtpTyped
      <4> QED BY <2>1, <3>1, <4>1 DEF LiveIsLast, LiveOf
    <3>2. CASE i # 0
      <4>1. i \in DOMAIN otps /\ otps[i].live /\ otps[i].user = v
        BY <1>4, <3>2, SecuresFacts, CodesTyped, FirstOtpTyped
      <4> QED BY <4>1 DEF LiveOf
    <3> QED BY <3>1, <3>2
  <2> QED BY <1>3, <1>6, <2>1, <2>2, <2>3 DEF CodeInStep, CodesKept
<1>9. ASSUME v \notin rephoned' PROVE PhoneInStep(v, m)'
  <2>1. PhoneInStep(v, k)
    BY <1>9, SecuresFacts
  <2>2. PhoneHadCode(v)'
    BY <1>3, <2>1, PhoneFactsQuiet DEF PhoneInStep
  <2> QED BY <1>1, <1>3, <1>6, <2>1, <2>2 DEF PhoneInStep, LogoutSteps
<1> QED BY <1>7, <1>8, <1>9 DEF SecureInStep

LEMMA StoreSecure ==
  ASSUME NEW t \in Tasks, NEW v \in Users, NEW k, NEW m, Secures(t, v, k, m), StoreOtp(t)
  PROVE  SecureInStep(v, m)'
<1>1. k.pc = "store" /\ k = task[t] /\ UNCHANGED accounts /\ security' = security
  BY DEF StoreOtp, At, Secures
<1>2. /\ k \in SecureTask /\ k.user = v /\ k.row = 1
      /\ Len(security[v]) = 1 /\ ~ security[v][1]
  BY <1>1, SecuresFacts DEF SecureSteps, AccountInStep
<1>3. /\ otps \in Seq(Otp) /\ codes \in Seq(Code)
      /\ DOMAIN codes = 1..Len(codes) /\ Len(codes) \in Nat
      /\ DOMAIN otps = 1..Len(otps) /\ Len(otps) \in Nat
      /\ \A i \in DOMAIN otps : otps[i] \in Otp
  <2>1. otps \in Seq(Otp) /\ codes \in Seq(Code)
    BY SecuresFacts, CodesTyped
  <2>2. \A i \in DOMAIN otps : otps[i] \in Otp
    BY <2>1
  <2> QED BY <2>1, <2>2, SecuresFacts, CodesTyped
<1>4. /\ LiveIsLast(v) /\ LastCounts(v) /\ \A c \in CodesOf(v) : codes[c].phone # NoPhone
      /\ (LiveOf(v) = {} /\ k.otp = 0) \/ k.otp \in LiveOf(v)
  BY <1>1, SecuresFacts DEF CodeInStep
<1>5. PICK c \in Nat : c = Len(codes) + 1
  BY <1>3
<1>6. PICK n : n = [user |-> v, phone |-> NoPhone, accepted |-> 0]
  OBVIOUS
<1>7. codes' = Append(codes, n)
  BY <1>1, <1>2, <1>6 DEF StoreOtp
<1>8. m = [k EXCEPT !.pc = "send", !.otp = c]
  BY <1>1, <1>5, SecuresFacts DEF StoreOtp
<1>9. m.pc = "send" /\ m.otp = c /\ m.row = k.row /\ m.phone = k.phone
  BY <1>2, <1>8 DEF SecureTask
<1>10. /\ DOMAIN codes' = 1..c /\ codes'[c] = n /\ c \notin DOMAIN codes
       /\ \A d \in DOMAIN codes : d \in DOMAIN codes' /\ codes'[d] = codes[d] /\ d <= c
       /\ \A d \in DOMAIN codes' : d = c \/ d \in DOMAIN codes
  BY <1>3, <1>5, <1>7
<1>11. CodesOf(v)' = CodesOf(v) \union {c}
  BY <1>5, <1>6, <1>10 DEF CodesOf
<1>12. Last(v, c)'
  <2>1. c \in CodesOf(v)' /\ \A d \in CodesOf(v)' : d <= c
    BY <1>5, <1>10, <1>11 DEF CodesOf
  <2> QED BY <2>1 DEF Last
<1>13. PICK i : LiveOf(v)' = {i} /\ otps'[i].row = 1 /\ otps'[i].code = c
  <2>1. CASE k.otp = 0
    <3>1. PICK r : r = [user |-> v, row |-> 1, code |-> c, live |-> TRUE]
      OBVIOUS
    <3>2. otps' = Append(otps, r)
      BY <1>1, <1>2, <1>5, <2>1, <3>1 DEF StoreOtp
    <3>3. PICK i \in Nat : i = Len(otps) + 1
      BY <1>3
    <3>4. /\ DOMAIN otps' = DOMAIN otps \union {i} /\ otps'[i] = r /\ i \notin DOMAIN otps
          /\ \A j \in DOMAIN otps : otps'[j] = otps[j]
      BY <1>3, <3>2, <3>3
    <3>5. LiveOf(v) = {}
      BY <1>3, <1>4, <2>1 DEF LiveOf
    <3>6. LiveOf(v)' = {i}
      BY <3>1, <3>4, <3>5 DEF LiveOf
    <3>7. otps'[i].row = 1 /\ otps'[i].code = c
      BY <3>1, <3>4
    <3> QED BY <3>6, <3>7
  <2>2. CASE k.otp # 0
    <3>1. k.otp \in LiveOf(v)
      BY <1>4, <2>2
    <3>2. PICK i : i = k.otp
      OBVIOUS
    <3>3. LiveOf(v) = {i} /\ otps[i].row = 1 /\ i \in DOMAIN otps /\ otps[i] \in Otp
      BY <1>3, <1>4, <3>1, <3>2 DEF LiveIsLast, LiveOf
    <3>4. PICK r : r = [otps[i] EXCEPT !.code = c]
      OBVIOUS
    <3>5. r.row = 1 /\ r.code = c /\ r.live = otps[i].live /\ r.user = otps[i].user
      BY <3>3, <3>4 DEF Otp
    <3>6. otps' = [otps EXCEPT ![i] = r]
      BY <1>1, <1>5, <2>2, <3>2, <3>4 DEF StoreOtp
    <3>7. DOMAIN otps' = DOMAIN otps /\ \A j \in DOMAIN otps : otps'[j] = IF j = i THEN r ELSE otps[j]
      BY <1>3, <3>6
    <3>8. LiveOf(v)' = LiveOf(v)
      BY <3>3, <3>5, <3>7 DEF LiveOf
    <3>9. otps'[i] = r
      BY <3>3, <3>7
    <3> QED BY <3>3, <3>5, <3>8, <3>9
  <2> QED BY <2>1, <2>2
<1>14. AccountInStep(v, m)'
  BY <1>1, <1>2, <1>9 DEF AccountInStep, VerifySteps
<1>15. CodeInStep(v, m)'
  <2>1. LiveIsLast(v)'
    BY <1>12, <1>13 DEF LiveIsLast
  <2>2. LastCounts(v)'
    <3>1. ~ security'[v][1] /\ Len(security'[v]) = 1
      BY <1>1, <1>2
    <3>2. LiveOf(v)' # {}
      BY <1>13
    <3> QED BY <1>11, <1>12, <3>1, <3>2 DEF LastCounts
  <2>3. \A d \in CodesOf(v)' : codes'[d].phone = NoPhone => d = c
    BY <1>4, <1>10, <1>11 DEF CodesOf
  <2> QED BY <1>9, <1>12, <2>1, <2>2, <2>3 DEF CodeInStep
<1>16. ASSUME v \notin rephoned' PROVE PhoneInStep(v, m)'
  <2>1. PhoneInStep(v, k) /\ phone' = phone /\ verified' = verified
    BY <1>1, <1>16, SecuresFacts DEF accounts
  <2>2. k.phone = phone[v] /\ PhoneHadCode(v)
    BY <1>1, <2>1 DEF PhoneInStep
  <2>3. PhoneHadCode(v)'
    BY <1>10, <1>11, <2>1, <2>2 DEF PhoneHadCode, CodesOf
  <2> QED BY <1>9, <2>1, <2>2, <2>3 DEF PhoneInStep, LogoutSteps
<1> QED BY <1>14, <1>15, <1>16 DEF SecureInStep

LEMMA SendSecure ==
  ASSUME NEW t \in Tasks, NEW v \in Users, NEW k, NEW m, Secures(t, v, k, m), SendOTP(t)
  PROVE  SecureInStep(v, m)'
<1>1. /\ k.pc = "send" /\ k = task[t] /\ UNCHANGED accounts /\ security' = security /\ otps' = otps
      /\ m = Resting
  BY SecuresFacts DEF SendOTP, At, Secures, Return, Resting
<1>2. /\ k \in SecureTask /\ k.user = v /\ k.phone # NoPhone
      /\ k.otp \in DOMAIN codes /\ codes[k.otp].user = v /\ Last(v, k.otp)
      /\ \A c \in CodesOf(v) : codes[c].phone = NoPhone => c = k.otp
      /\ LiveIsLast(v) /\ LastCounts(v)
  <2>1. Sound(k) /\ CodeInStep(v, k) /\ k \in SecureTask /\ k.user = v
    BY <1>1, SecuresFacts DEF SecureSteps
  <2> QED BY <1>1, <2>1 DEF Sound, CodeInStep
<1>3. codes \in Seq(Code) /\ codes[k.otp] \in Code
  <2>1. codes \in Seq(Code)
    BY SecuresFacts, CodesTyped
  <2> QED BY <1>2, <2>1
<1>4. PICK c, n : c = k.otp /\ n = [codes[k.otp] EXCEPT !.phone = k.phone]
  OBVIOUS
<1>5. codes' = [codes EXCEPT ![c] = n]
  BY <1>1, <1>4 DEF SendOTP
<1>6. n.user = v /\ n.phone = k.phone /\ n.accepted = codes[c].accepted
  BY <1>2, <1>3, <1>4 DEF Code
<1>7. DOMAIN codes' = DOMAIN codes /\ \A d \in DOMAIN codes : codes'[d] = IF d = c THEN n ELSE codes[d]
  BY <1>3, <1>5
<1>8. CodesOf(v)' = CodesOf(v) /\ LiveOf(v)' = LiveOf(v)
  <2>1. \A d \in DOMAIN codes : codes'[d].user = v <=> codes[d].user = v
    BY <1>2, <1>4, <1>6, <1>7
  <2>2. CodesOf(v)' = CodesOf(v)
    BY <1>7, <2>1 DEF CodesOf
  <2>3. LiveOf(v)' = LiveOf(v)
    BY <1>1 DEF LiveOf
  <2> QED BY <2>2, <2>3
<1>9. \A d : Last(v, d)' <=> Last(v, d)
  BY <1>8, LastKept
<1>10. \A d \in CodesOf(v) : codes'[d].accepted = codes[d].accepted
  BY <1>6, <1>7 DEF CodesOf
<1>11. AccountInStep(v, m)'
  <2>1. AccountInStep(v, k)
    BY SecuresFacts
  <2> QED BY <1>1, <2>1, AccountQuiet DEF Resting, VerifySteps
<1>12. CodeInStep(v, m)'
  <2>1. LiveIsLast(v)'
    BY <1>1, <1>2, <1>8, <1>9 DEF LiveIsLast
  <2>2. LastCounts(v)'
    BY <1>1, <1>2, <1>8, <1>9, <1>10 DEF LastCounts
  <2>3. \A d \in CodesOf(v)' : codes'[d].phone # NoPhone
    BY <1>2, <1>4, <1>6, <1>7, <1>8 DEF CodesOf
  <2> QED BY <1>1, <2>1, <2>2, <2>3 DEF CodeInStep, Resting
<1>13. ASSUME v \notin rephoned' PROVE PhoneInStep(v, m)'
  <2>1. PhoneInStep(v, k) /\ phone' = phone /\ verified' = verified
    BY <1>1, <1>13, SecuresFacts DEF accounts
  <2>2. k.phone = phone[v] /\ PhoneHadCode(v)
    BY <1>1, <2>1 DEF PhoneInStep
  <2>3. SentToPhone(v)'
    <3>1. SUFFICES ASSUME NEW d \in CodesOf(v), Last(v, d) PROVE codes'[d].phone = phone[v]
      BY <1>8, <1>9, <2>1 DEF SentToPhone
    <3>2. d = c
      BY <1>2, <1>4, <3>1, SecuresFacts, LastIsOne
    <3> QED BY <1>2, <1>4, <1>6, <1>7, <2>2, <3>2
  <2>4. PhoneHadCode(v)'
    <3>1. \A d \in CodesOf(v) : codes[d].phone = phone[v] => codes'[d].phone = phone[v]
      BY <1>6, <1>7, <2>2 DEF CodesOf
    <3> QED BY <1>8, <1>10, <2>1, <2>2, <3>1 DEF PhoneHadCode
  <2> QED BY <1>1, <2>3, <2>4 DEF PhoneInStep, Resting, LogoutSteps
<1> QED BY <1>11, <1>12, <1>13 DEF SecureInStep

LEMMA EnterSecure ==
  ASSUME NEW t \in Tasks, NEW v \in Users, NEW k, NEW m, Secures(t, v, k, m),
         NEW c \in DOMAIN codes, VerifyAccountSecurity(t, c)
  PROVE  SecureInStep(v, m)'
<1>1. k.pc = "idle" /\ m.pc = "unlocked" /\ UNCHANGED accounts /\ UNCHANGED secrets
  BY SecuresFacts DEF VerifyAccountSecurity, Start, At, Secures
<1>2. security'[v] = security[v] /\ CodesKept(v) /\ phone' = phone /\ verified' = verified
  BY <1>1, SecretsStay DEF accounts
<1>3. AccountInStep(v, m)'
  BY <1>1, <1>2, SecuresFacts DEF AccountInStep
<1>4. CodeInStep(v, m)'
  BY <1>1, <1>2, SecuresFacts, CodeQuiet
<1>5. ASSUME v \notin rephoned' PROVE PhoneInStep(v, m)'
  <2>1. m.pc \notin {"account", "lock", "phone", "save", "otp", "store", "send"} \union LogoutSteps
    BY <1>1 DEF LogoutSteps
  <2> QED BY <1>1, <1>2, <1>5, <2>1, SecuresFacts, PhoneQuiet
<1> QED BY <1>3, <1>4, <1>5 DEF SecureInStep

LEMMA CheckLockedSecure ==
  ASSUME NEW t \in Tasks, NEW v \in Users, NEW k, NEW m, Secures(t, v, k, m), CheckLocked(t)
  PROVE  SecureInStep(v, m)'
<1>1. k.pc = "unlocked" /\ k = task[t] /\ UNCHANGED accounts /\ UNCHANGED secrets
  BY DEF CheckLocked, At, Secures
<1>2. k \in VerifyTask /\ k.user = v
  BY <1>1, SecuresFacts DEF VerifySteps
<1>3. security'[v] = security[v] /\ CodesKept(v) /\ phone' = phone /\ verified' = verified
  BY <1>1, SecretsStay DEF accounts
<1>4. m.pc = "idle" \/ (m.pc = "compare" /\ m.row = 1 /\ Len(security[v]) = 1)
  <2>1. CASE security[v] = <<>> \/ security[v][1]
    BY <1>1, <1>2, <2>1, SecuresFacts DEF CheckLocked, Return
  <2>2. CASE ~ (security[v] = <<>> \/ security[v][1])
    <3>1. m = [k EXCEPT !.pc = "compare", !.row = 1]
      BY <1>1, <1>2, <2>2, SecuresFacts DEF CheckLocked
    <3>2. m.pc = "compare" /\ m.row = 1
      BY <1>2, <3>1 DEF VerifyTask
    <3>3. PICK B, s : B = BOOLEAN /\ s = security[v]
      OBVIOUS
    <3>4. s \in Seq(B) /\ s # <<>>
      BY <2>2, <3>3, SecuresFacts, CodesTyped
    <3>5. PICK l : l = Len(s)
      OBVIOUS
    <3>6. l \in Nat /\ l # 0
      BY <3>4, <3>5
    <3>7. l <= 1
      BY <3>3, <3>5, SecuresFacts, Zenon DEF AccountInStep
    <3>8. l = 1
      BY <3>6, <3>7
    <3> QED BY <3>2, <3>3, <3>5, <3>8, Zenon
  <2> QED BY <2>1, <2>2
<1>5. AccountInStep(v, m)'
  <2>1. Len(security[v]) <= 1
    BY SecuresFacts DEF AccountInStep
  <2> QED BY <1>3, <1>4, <2>1 DEF AccountInStep, VerifySteps
<1>6. CodeInStep(v, m)'
  BY <1>1, <1>3, <1>4, SecuresFacts, CodeQuiet
<1>7. ASSUME v \notin rephoned' PROVE PhoneInStep(v, m)'
  <2>1. m.pc \notin {"account", "lock", "phone", "save", "otp", "store", "send"} \union LogoutSteps
    BY <1>4 DEF LogoutSteps
  <2> QED BY <1>1, <1>3, <1>7, <2>1, SecuresFacts, PhoneQuiet
<1> QED BY <1>5, <1>6, <1>7 DEF SecureInStep

LEMMA CompareSecure ==
  ASSUME NEW t \in Tasks, NEW v \in Users, NEW k, NEW m, Secures(t, v, k, m), CompareCode(t)
  PROVE  SecureInStep(v, m)'
<1>1. k.pc = "compare" /\ k = task[t] /\ UNCHANGED accounts /\ security' = security /\ otps' = otps
  BY DEF CompareCode, At, Secures
<1>2. /\ k \in VerifyTask /\ k.user = v /\ k.row = 1 /\ Len(security[v]) = 1
      /\ k.code \in DOMAIN codes /\ codes[k.code].user = v
  <2>1. k \in VerifyTask /\ k.user = v /\ Sound(k) /\ AccountInStep(v, k)
    BY <1>1, SecuresFacts DEF VerifySteps
  <2> QED BY <1>1, <2>1 DEF AccountInStep, Sound, VerifySteps
<1>3. codes \in Seq(Code) /\ codes[k.code] \in Code
  <2>1. codes \in Seq(Code)
    BY SecuresFacts, CodesTyped
  <2> QED BY <1>2, <2>1
<1>4. PICK i : i = FirstOtp(v, 1)
  OBVIOUS
<1>5. CASE ~ (i # 0 /\ otps[i].code = k.code)
  <2>1. m = Resting /\ codes' = codes
    BY <1>1, <1>2, <1>4, <1>5, SecuresFacts DEF CompareCode, Return, Resting
  <2>2. security'[v] = security[v] /\ CodesKept(v) /\ phone' = phone /\ verified' = verified
    BY <1>1, <2>1, SecretsStay DEF accounts, secrets
  <2>3. AccountInStep(v, m)'
    BY <2>1, <2>2, SecuresFacts DEF AccountInStep, Resting, VerifySteps
  <2>4. CodeInStep(v, m)'
    BY <1>1, <2>1, <2>2, SecuresFacts, CodeQuiet DEF Resting
  <2>5. ASSUME v \notin rephoned' PROVE PhoneInStep(v, m)'
    <3>1. m.pc \notin {"account", "lock", "phone", "save", "otp", "store", "send"} \union LogoutSteps
      BY <2>1 DEF LogoutSteps, Resting
    <3> QED BY <1>1, <2>2, <2>5, <3>1, SecuresFacts, PhoneQuiet
  <2> QED BY <2>3, <2>4, <2>5 DEF SecureInStep
<1>6. CASE i # 0 /\ otps[i].code = k.code
  <2>1. PICK c, n : c = k.code /\ n = [codes[k.code] EXCEPT !.accepted = codes[k.code].accepted + 1]
    OBVIOUS
  <2>2. codes' = [codes EXCEPT ![c] = n]
    BY <1>1, <1>2, <1>4, <1>6, <2>1 DEF CompareCode
  <2>3. PICK pc : pc = IF k.known THEN "unlock" ELSE "mark"
    OBVIOUS
  <2>4. m = [k EXCEPT !.pc = pc, !.otp = i]
    BY <1>1, <1>2, <1>4, <1>6, <2>3, SecuresFacts DEF CompareCode
  <2>5. m.pc = pc /\ m.code = k.code /\ m.row = k.row /\ pc \in {"unlock", "mark"}
    BY <1>2, <2>3, <2>4 DEF VerifyTask
  <2>6. n.user = v /\ n.phone = codes[c].phone /\ n.accepted > 0
    BY <1>2, <1>3, <2>1 DEF Code
  <2>7. DOMAIN codes' = DOMAIN codes /\ \A d \in DOMAIN codes : codes'[d] = IF d = c THEN n ELSE codes[d]
    BY <1>3, <2>2
  <2>8. CodesOf(v)' = CodesOf(v) /\ LiveOf(v)' = LiveOf(v)
    <3>1. \A d \in DOMAIN codes : codes'[d].user = v <=> codes[d].user = v
      BY <1>2, <2>1, <2>6, <2>7
    <3>2. CodesOf(v)' = CodesOf(v)
      BY <2>7, <3>1 DEF CodesOf
    <3>3. LiveOf(v)' = LiveOf(v)
      BY <1>1 DEF LiveOf
    <3> QED BY <3>2, <3>3
  <2>9. \A d : Last(v, d)' <=> Last(v, d)
    BY <2>8, LastKept
  <2>10. \A d \in CodesOf(v) : /\ codes[d].accepted > 0 => codes'[d].accepted > 0
                               /\ codes'[d].phone = codes[d].phone
    BY <2>6, <2>7 DEF CodesOf
  <2>11. CodeInStep(v, k) /\ LiveIsLast(v) /\ LastCounts(v)
    BY SecuresFacts DEF CodeInStep
  <2>12. Last(v, k.code)
    <3>1. i \in DOMAIN otps /\ otps[i].live /\ otps[i].user = v
      BY <1>4, <1>6, SecuresFacts, CodesTyped, FirstOtpTyped
    <3>2. i \in LiveOf(v)
      BY <3>1 DEF LiveOf
    <3> QED BY <1>6, <2>11, <3>2 DEF LiveIsLast
  <2>13. AccountInStep(v, m)'
    BY <1>1, <1>2, <2>5 DEF AccountInStep, VerifySteps
  <2>14. CodeInStep(v, m)'
    <3>1. LiveIsLast(v)'
      BY <1>1, <2>8, <2>9, <2>11 DEF LiveIsLast
    <3>2. LastCounts(v)'
      BY <1>1, <2>8, <2>9, <2>10, <2>11 DEF LastCounts
    <3>3. \A d \in CodesOf(v)' : codes'[d].phone # NoPhone
      BY <1>1, <2>8, <2>10, <2>11 DEF CodeInStep
    <3>4. Last(v, m.code)' /\ codes'[m.code].accepted > 0
      <4>1. Last(v, c)' /\ codes'[c].accepted > 0
        BY <1>2, <2>1, <2>6, <2>7, <2>9, <2>12
      <4> QED BY <2>1, <2>5, <4>1
    <3> QED BY <2>5, <3>1, <3>2, <3>3, <3>4 DEF CodeInStep
  <2>15. ASSUME v \notin rephoned' PROVE PhoneInStep(v, m)'
    <3>1. PhoneInStep(v, k) /\ phone' = phone /\ verified' = verified
      BY <1>1, <2>15, SecuresFacts DEF accounts
    <3>2. SentToPhone(v)' /\ PhoneHadCode(v)'
      BY <1>1, <2>8, <2>9, <2>10, <3>1 DEF PhoneInStep, SentToPhone, PhoneHadCode
    <3> QED BY <2>5, <3>2 DEF PhoneInStep, LogoutSteps
  <2> QED BY <2>13, <2>14, <2>15 DEF SecureInStep
<1> QED BY <1>5, <1>6

LEMMA MarkSecure ==
  ASSUME NEW t \in Tasks, NEW v \in Users, NEW k, NEW m, Secures(t, v, k, m), MarkPhoneAsVerified(t)
  PROVE  SecureInStep(v, m)'
<1>1. k.pc = "mark" /\ k = task[t] /\ UNCHANGED secrets /\ phone' = phone
  BY DEF MarkPhoneAsVerified, At, Secures
<1>2. k \in VerifyTask /\ k.user = v
  BY <1>1, SecuresFacts DEF VerifySteps
<1>3. security'[v] = security[v] /\ CodesKept(v)
  BY <1>1, SecretsStay
<1>4. m = [k EXCEPT !.pc = "unlock"]
  BY <1>1, SecuresFacts DEF MarkPhoneAsVerified, Goto
<1>5. m.pc = "unlock" /\ m.row = k.row /\ m.code = k.code
  BY <1>2, <1>4 DEF VerifyTask
<1>6. Last(v, k.code) /\ codes[k.code].accepted > 0 /\ CodeInStep(v, k)
  BY <1>1, SecuresFacts DEF CodeInStep
<1>7. k.code \in CodesOf(v) /\ k.code \in CodesOf(v)' /\ codes'[k.code] = codes[k.code]
  BY <1>3, <1>6 DEF Last, CodesKept
<1>8. AccountInStep(v, m)'
  BY <1>1, <1>3, <1>5, SecuresFacts DEF AccountInStep, VerifySteps
<1>9. CodeInStep(v, m)'
  <2>1. LiveIsLast(v)' /\ LastCounts(v)'
    BY <1>3, <1>6, LiveQuiet DEF CodeInStep
  <2>2. PICK c : c = k.code
    OBVIOUS
  <2>3. Last(v, c)'
    BY <1>3, <1>6, <2>2, LastKept DEF CodesKept
  <2>4. \A d \in CodesOf(v)' : codes'[d].phone # NoPhone
    BY <1>1, <1>3, <1>6 DEF CodesKept, CodeInStep
  <2> QED BY <1>5, <1>6, <1>7, <2>1, <2>2, <2>3, <2>4 DEF CodeInStep
<1>10. ASSUME v \notin rephoned' PROVE PhoneInStep(v, m)'
  <2>1. SentToPhone(v)
    BY <1>1, <1>10, SecuresFacts DEF PhoneInStep
  <2>2. \A c : Last(v, c)' <=> Last(v, c)
    BY <1>3, LastKept DEF CodesKept
  <2>3. SentToPhone(v)'
    BY <1>1, <1>3, <2>1, <2>2 DEF SentToPhone, CodesKept
  <2>4. PhoneHadCode(v)'
    BY <1>1, <1>6, <1>7, <2>1 DEF PhoneHadCode, SentToPhone
  <2> QED BY <1>5, <2>3, <2>4 DEF PhoneInStep, LogoutSteps
<1> QED BY <1>8, <1>9, <1>10 DEF SecureInStep

LEMMA UnlockSecure ==
  ASSUME NEW t \in Tasks, NEW v \in Users, NEW k, NEW m, Secures(t, v, k, m), Unlock(t)
  PROVE  SecureInStep(v, m)'
<1>1. k.pc = "unlock" /\ k = task[t] /\ UNCHANGED accounts /\ codes' = codes /\ otps' = otps
  BY DEF Unlock, At, Secures
<1>2. k \in VerifyTask /\ k.user = v /\ k.row = 1 /\ Len(security[v]) = 1
  BY <1>1, SecuresFacts DEF VerifySteps, AccountInStep
<1>3. CodesKept(v) /\ phone' = phone /\ verified' = verified
  BY <1>1 DEF accounts, CodesKept, CodesOf, LiveOf
<1>4. Len(security'[v]) = 1
  <2>1. PICK s \in Seq(BOOLEAN) : s = security[v]
    BY SecuresFacts, CodesTyped
  <2>2. security' = [security EXCEPT ![v] = [s EXCEPT ![1] = TRUE]]
    BY <1>1, <1>2, <2>1 DEF Unlock
  <2>3. PICK r : r = [s EXCEPT ![1] = TRUE]
    OBVIOUS
  <2>4. security'[v] = r
    <3>1. security' = [security EXCEPT ![v] = r]
      BY <2>2, <2>3
    <3>2. security \in [Users -> Seq(BOOLEAN)]
      BY SecuresFacts, CodesTyped
    <3>3. v \in DOMAIN security
      BY <3>2
    <3> QED BY <3>1, <3>3
  <2>5. Len(r) = Len(s)
    BY <2>3, FlagTyped
  <2> QED BY <1>2, <2>1, <2>4, <2>5
<1>5. m = [k EXCEPT !.pc = "delete"]
  BY <1>1, SecuresFacts DEF Unlock, Goto
<1>6. m.pc = "delete" /\ m.row = k.row /\ m.code = k.code
  BY <1>2, <1>5 DEF VerifyTask
<1>7. Last(v, k.code) /\ codes[k.code].accepted > 0 /\ CodeInStep(v, k)
  BY <1>1, SecuresFacts DEF CodeInStep
<1>8. PICK c : c = k.code
  OBVIOUS
<1>9. Last(v, c)' /\ codes'[c].accepted > 0 /\ c \in CodesOf(v)'
  <2>1. Last(v, c)'
    BY <1>3, <1>7, <1>8, LastKept DEF CodesKept
  <2> QED BY <1>1, <1>7, <1>8, <2>1 DEF Last
<1>10. AccountInStep(v, m)'
  BY <1>2, <1>4, <1>6 DEF AccountInStep, VerifySteps
<1>11. CodeInStep(v, m)'
  <2>1. LiveIsLast(v)'
    <3>1. \A d : Last(v, d)' <=> Last(v, d)
      BY <1>3, LastKept DEF CodesKept
    <3> QED BY <1>3, <1>7, <3>1 DEF CodeInStep, LiveIsLast, CodesKept
  <2>2. LastCounts(v)'
    BY <1>4, <1>9 DEF LastCounts
  <2>3. \A d \in CodesOf(v)' : codes'[d].phone # NoPhone
    BY <1>1, <1>3, <1>7 DEF CodesKept, CodeInStep
  <2> QED BY <1>6, <1>8, <1>9, <2>1, <2>2, <2>3 DEF CodeInStep
<1>12. ASSUME v \notin rephoned' PROVE PhoneInStep(v, m)'
  <2>1. m.pc \notin {"account", "lock", "phone", "save", "otp", "store", "send"} \union LogoutSteps
    BY <1>6 DEF LogoutSteps
  <2> QED BY <1>1, <1>3, <1>12, <2>1, SecuresFacts, PhoneQuiet
<1> QED BY <1>10, <1>11, <1>12 DEF SecureInStep

LEMMA DeleteSecure ==
  ASSUME NEW t \in Tasks, NEW v \in Users, NEW k, NEW m, Secures(t, v, k, m), DeleteOtp(t)
  PROVE  SecureInStep(v, m)'
<1>1. /\ k.pc = "delete" /\ k = task[t] /\ UNCHANGED accounts /\ codes' = codes /\ security' = security
      /\ m = Resting
  BY SecuresFacts DEF DeleteOtp, At, Secures, Return, Resting
<1>2. /\ k \in VerifyTask /\ k.user = v /\ Len(security[v]) = 1
      /\ k.otp \in DOMAIN otps
  <2>1. k \in VerifyTask /\ k.user = v /\ Sound(k) /\ AccountInStep(v, k)
    BY <1>1, SecuresFacts DEF VerifySteps
  <2> QED BY <1>1, <2>1 DEF AccountInStep, Sound, VerifySteps
<1>3. otps \in Seq(Otp) /\ otps[k.otp] \in Otp
  <2>1. otps \in Seq(Otp)
    BY SecuresFacts, CodesTyped
  <2> QED BY <1>2, <2>1
<1>4. PICK r : r = [otps[k.otp] EXCEPT !.live = FALSE]
  OBVIOUS
<1>5. otps' = [otps EXCEPT ![k.otp] = r]
  BY <1>1, <1>4 DEF DeleteOtp
<1>6. ~ r.live
  BY <1>3, <1>4 DEF Otp
<1>7. DOMAIN otps' = DOMAIN otps /\ \A j \in DOMAIN otps : otps'[j] = IF j = k.otp THEN r ELSE otps[j]
  BY <1>3, <1>5
<1>8. \A i \in LiveOf(v)' : i \in LiveOf(v) /\ otps'[i] = otps[i]
  BY <1>6, <1>7 DEF LiveOf
<1>9. CodesOf(v)' = CodesOf(v)
  BY <1>1 DEF CodesOf
<1>10. \A d : Last(v, d)' <=> Last(v, d)
  BY <1>9, LastKept
<1>11. Last(v, k.code) /\ codes[k.code].accepted > 0 /\ CodeInStep(v, k)
  BY <1>1, SecuresFacts DEF CodeInStep
<1>12. AccountInStep(v, m)'
  BY <1>1, SecuresFacts DEF AccountInStep, Resting, VerifySteps
<1>13. CodeInStep(v, m)'
  <2>1. LiveIsLast(v)'
    BY <1>8, <1>10, <1>11 DEF CodeInStep, LiveIsLast
  <2>2. LastCounts(v)'
    <3>1. PICK c : c = k.code
      OBVIOUS
    <3>2. Last(v, c)' /\ c \in CodesOf(v)' /\ codes'[c].accepted > 0 /\ Len(security'[v]) = 1
      BY <1>1, <1>2, <1>9, <1>10, <1>11, <3>1 DEF Last
    <3> QED BY <3>2 DEF LastCounts
  <2>3. \A d \in CodesOf(v)' : codes'[d].phone # NoPhone
    BY <1>1, <1>9, <1>11 DEF CodeInStep
  <2> QED BY <1>1, <2>1, <2>2, <2>3 DEF CodeInStep, Resting
<1>14. ASSUME v \notin rephoned' PROVE PhoneInStep(v, m)'
  <2>1. PhoneInStep(v, k) /\ phone' = phone /\ verified' = verified
    BY <1>1, <1>14, SecuresFacts DEF accounts
  <2>2. SentToPhone(v)' /\ PhoneHadCode(v)'
    BY <1>1, <1>9, <1>10, <2>1 DEF PhoneInStep, SentToPhone, PhoneHadCode
  <2> QED BY <1>1, <2>2 DEF PhoneInStep, Resting, LogoutSteps
<1> QED BY <1>12, <1>13, <1>14 DEF SecureInStep

LEMMA SecuresAll ==
  ASSUME NEW t \in Tasks, NEW v \in Users, NEW k, NEW m, Secures(t, v, k, m)
  PROVE  SecureInStep(v, m)'
<1>1. SecurityStep(t)
  BY DEF Secures, SecurityActs
<1> QED BY <1>1, RequestSecure, GetByUserIDSecure, LockSecure, CheckPhoneSecure, UpdatePhoneSecure,
           GetOtpSecure, StoreSecure, SendSecure, EnterSecure, CheckLockedSecure, CompareSecure,
           MarkSecure, UnlockSecure, DeleteSecure DEF SecurityStep

LEMMA SecretsNext ==
  ASSUME Basics, Basics', SecretsAreInStep, [Next]_vars
  PROVE  SecretsAreInStep'
<1>0. TypeOK /\ RequestsAreSound
  BY DEF Basics
<1>1. ASSUME NEW t \in Tasks, NEW v \in Users, LevelsActs(t, v) \/ SocialActs(t, v)
      PROVE  SecretsAreInStep'
  <2>1. PICK m : m = task'[t]
    OBVIOUS
  <2>2. Moves(t, v) /\ Counted
    BY <1>1, ActsMoves DEF Acts
  <2>3. \A u \in Users \ {v} : Untouched(u)
    BY <1>0, <1>1, OthersApart
  <2>4. SecureInStep(v, task[t]) => SecureInStep(v, m)'
    BY <1>1, <2>1, LevelsSecure
  <2> QED BY <2>1, <2>2, <2>3, <2>4, SecureStep
<1>2. ASSUME NEW t \in Tasks, NEW v \in Users, SessionsActs(t, v) PROVE SecretsAreInStep'
  <2>1. PICK m : m = task'[t]
    OBVIOUS
  <2>2. Moves(t, v) /\ Counted /\ SessionsStep(t)
    BY <1>2 DEF SessionsActs, SessionsMove
  <2>3. \A u \in Users \ {v} : Untouched(u)
    BY <1>0, <1>2, OthersApart
  <2>4. SecureInStep(v, task[t]) => SecureInStep(v, m)'
    <3>1. PICK k : k = task[t]
      OBVIOUS
    <3>2. CASE \/ \E u \in Users, p \in Phones : Callback(t, u, p)
               \/ FindUser(t) \/ CreateUser(t) \/ MakePart(t) \/ UpdateUser(t) \/ OnUserLogin(t)
      BY <1>2, <2>1, <3>1, <3>2, CallbackSecure
    <3>3. CASE \/ \E u \in registered : Logout(t, u)
               \/ GetLatestActivity(t) \/ UpdateActivity(t) \/ GetTotalActivityMinutes(t)
               \/ GetUserLog(t) \/ WriteHours(t) \/ WriteScore(t) \/ WriteUser(t)
      BY <1>2, <2>1, <3>1, <3>3, LogoutSecure
    <3> QED BY <2>2, <3>2, <3>3 DEF SessionsStep
  <2> QED BY <2>1, <2>2, <2>3, <2>4, SecureStep
<1>3. ASSUME NEW t \in Tasks, NEW v \in Users, SecurityActs(t, v) PROVE SecretsAreInStep'
  <2>1. PICK k, m : k = task[t] /\ m = task'[t]
    OBVIOUS
  <2>2. Moves(t, v) /\ Counted
    BY <1>3 DEF SecurityActs, SecurityMove
  <2>3. \A u \in Users \ {v} : Untouched(u)
    BY <1>0, <1>3, SecurityApart
  <2>4. faults' = 0 /\ SecureInStep(v, task[t]) => SecureInStep(v, m)'
    <3>1. SUFFICES ASSUME faults' = 0, SecureInStep(v, k) PROVE SecureInStep(v, m)'
      BY <2>1
    <3>2. Secures(t, v, k, m)
      BY <1>3, <2>1, <3>1 DEF Secures
    <3> QED BY <3>2, SecuresAll
  <2> QED BY <2>1, <2>2, <2>3, <2>4, SecureStep
<1>4. ASSUME NEW t \in Tasks, NEW v \in Users, FailsFor(t, v) PROVE SecretsAreInStep'
  <2>1. Moves(t, v) /\ Counted /\ faults' # 0 /\ UNCHANGED <<accounts, rephoned, secrets>>
    BY <1>4 DEF FailsFor, Counted
  <2>2. PICK m : m = task'[t]
    OBVIOUS
  <2>3. \A u \in Users \ {v} : Untouched(u)
    BY <2>1, SecretsStay DEF Untouched, accounts
  <2> QED BY <2>1, <2>2, <2>3, SecureStep
<1>5. ASSUME task' = task, overlap' = overlap, faults' = faults, phone' = phone,
             verified' = verified, rephoned' = rephoned, UNCHANGED secrets
      PROVE  SecretsAreInStep'
  <2>1. ASSUME NEW u \in Users, Calm(u)', NEW k, Serving(u, k)' PROVE SecureInStep(u, k)'
    <3>1. Calm(u) /\ Serving(u, k)
      BY <1>5, <2>1, Still DEF Calm
    <3>2. SecureInStep(u, k)
      BY <3>1 DEF SecretsAreInStep
    <3>3. security'[u] = security[u] /\ CodesKept(u)
      BY <1>5, SecretsStay
    <3>4. AccountInStep(u, k)' /\ CodeInStep(u, k)'
      BY <3>2, <3>3, AccountQuiet, CodeQuiet DEF SecureInStep
    <3>5. u \notin rephoned' => PhoneInStep(u, k)'
      BY <1>5, <3>2, <3>3, PhoneQuiet DEF SecureInStep
    <3> QED BY <3>4, <3>5 DEF SecureInStep
  <2> QED BY <2>1 DEF SecretsAreInStep
<1>6. CASE UNCHANGED vars
  BY <1>5, <1>6 DEF vars, requests, accounts
<1>7. ASSUME NEW u, NEW w, AsideActs(u, w) PROVE SecretsAreInStep'
  <2>1. UNCHANGED secrets
    BY <1>7, AsideKeeps DEF secrets
  <2> QED BY <1>5, <1>7, <2>1, AsideKeeps
<1>8. CASE Next
  BY <1>0, <1>1, <1>2, <1>3, <1>4, <1>7, <1>8, ActCases DEF Acts
<1> QED BY <1>6, <1>8

LEMMA SecretsInit == Init => SecretsAreInStep
<1>1. SUFFICES ASSUME Init, NEW u \in Users, NEW k, Serving(u, k) PROVE SecureInStep(u, k)
  BY DEF SecretsAreInStep
<1>2. /\ security[u] = <<>> /\ otps = <<>> /\ codes = <<>> /\ verified[u] = FALSE
      /\ \A t \in Tasks : task[t].pc = "idle"
  BY <1>1 DEF Init, CitizensInit, SecurityInit
<1>3. Busy(u) = {}
  BY <1>2 DEF Busy, At
<1>4. k.pc = "idle"
  BY <1>1, <1>3 DEF Serving, Resting
<1>5. CodesOf(u) = {} /\ LiveOf(u) = {} /\ Len(security[u]) = 0
  BY <1>2 DEF CodesOf, LiveOf
<1>6. AccountInStep(u, k)
  BY <1>4, <1>5 DEF AccountInStep, VerifySteps
<1>7. CodeInStep(u, k)
  BY <1>4, <1>5 DEF CodeInStep, LiveIsLast, LastCounts
<1>8. PhoneInStep(u, k)
  BY <1>2, <1>4, <1>5 DEF PhoneInStep, SentToPhone, PhoneHadCode, LogoutSteps
<1> QED BY <1>6, <1>7, <1>8 DEF SecureInStep

LEMMA SomeServed ==
  ASSUME NEW u
  PROVE  \E k : Serving(u, k)
<1>1. CASE Busy(u) = {}
  BY <1>1 DEF Serving
<1>2. CASE Busy(u) # {}
  BY <1>2 DEF Serving
<1> QED BY <1>1, <1>2

LEMMA LastIsMax ==
  ASSUME TypeOK, NEW u, NEW c, Last(u, c)
  PROVE  Max(CodesOf(u)) = c
<1>1. PICK S, n : S = CodesOf(u) /\ n \in Nat /\ n = Len(codes)
  BY CodesTyped
<1>2. S \subseteq 1..n /\ IsFiniteSet(1..n)
  BY <1>1, CodesTyped, FS_Interval DEF CodesOf
<1>3. IsFiniteSet(S) /\ S \subseteq Int
  <2>1. IsFiniteSet(S)
    BY <1>2, FS_Subset
  <2>2. 1..n \subseteq Int
    BY <1>1
  <2> QED BY <1>2, <2>1, <2>2
<1>4. c \in S /\ \A d \in S : d <= c
  BY <1>1 DEF Last
<1>5. Max(S) \in S /\ \A d \in S : d <= Max(S)
  BY <1>3, <1>4, LargestOf
<1> QED BY <1>1, <1>3, <1>4, <1>5

LEMMA SentIsAccepted ==
  ASSUME TypeOK, SecretsAreInStep
  PROVE  SentCodeIsAccepted
<1>1. SUFFICES
        ASSUME NEW u \in Users, NEW sent, sent = {c \in CodesOf(u) : codes[c].phone # NoPhone},
               overlap[u] = {}, faults = 0, Busy(u) = {}, sent # {},
               NEW i, i = FirstOtp(u, 1)
        PROVE  \/ codes[Max(sent)].accepted > 0
               \/ ~ security[u][1] /\ i # 0 /\ otps[i].code = Max(sent)
  BY DEF SentCodeIsAccepted
<1>2. PICK k : k = Resting
  OBVIOUS
<1>3. Calm(u) /\ Serving(u, k) /\ k.pc = "idle"
  BY <1>1, <1>2 DEF Calm, Serving, Resting
<1>4. CodeInStep(u, k)
  BY <1>3 DEF SecretsAreInStep, SecureInStep
<1>5. sent = CodesOf(u) /\ LiveIsLast(u) /\ LastCounts(u)
  BY <1>1, <1>3, <1>4 DEF CodeInStep
<1>6. PICK c \in CodesOf(u) : /\ Last(u, c)
                              /\ codes[c].accepted > 0 \/ (~ security[u][1] /\ LiveOf(u) # {})
  BY <1>1, <1>5 DEF LastCounts
<1>7. Max(sent) = c
  BY <1>5, <1>6, LastIsMax
<1>8. ASSUME LiveOf(u) # {} PROVE i # 0 /\ otps[i].code = c
  <2>1. PICK j \in LiveOf(u) : otps[j].row = 1
    BY <1>5, <1>8 DEF LiveIsLast
  <2>2. i \in DOMAIN otps /\ i # 0 /\ otps[i].live /\ otps[i].user = u
    BY <1>1, <2>1, CodesTyped, FirstOtpTyped DEF LiveOf
  <2>3. Last(u, otps[i].code)
    BY <1>5, <2>2 DEF LiveIsLast, LiveOf
  <2> QED BY <1>6, <2>2, <2>3, LastIsOne
<1> QED BY <1>6, <1>7, <1>8

LEMMA SecretsImply ==
  ASSUME TypeOK, AccountsAreCounted, SecretsAreInStep
  PROVE  SecurityInv
<1>1. AccountsAreBounded
  BY AccountsCountedImply
<1>2. SentCodeIsAccepted
  BY SentIsAccepted
<1>3. ASSUME NEW u \in Users, verified[u], overlap[u] = {}, faults = 0, u \notin rephoned
      PROVE  \E c \in CodesOf(u) : codes[c].accepted > 0 /\ codes[c].phone = phone[u]
  <2>1. PICK k : Serving(u, k)
    BY SomeServed
  <2>2. PhoneInStep(u, k)
    BY <1>3, <2>1 DEF SecretsAreInStep, Calm, SecureInStep
  <2> QED BY <1>3, <2>2 DEF PhoneInStep, PhoneHadCode
<1> QED BY <1>1, <1>2, <1>3 DEF SecurityInv, VerifiedPhoneHadCode

SecurityIInv == Basics /\ AccountsAreCounted /\ SecretsAreInStep

LEMMA SecurityIInvInit == Init => SecurityIInv
BY BasicsInit, AccountsCountedInit, SecretsInit DEF SecurityIInv

LEMMA SecurityIInvNext == SecurityIInv /\ [Next]_vars => SecurityIInv'
<1>1. SUFFICES ASSUME SecurityIInv, [Next]_vars PROVE SecurityIInv'
  OBVIOUS
<1>2. Basics'
  BY <1>1, BasicsNext DEF SecurityIInv
<1>3. AccountsAreCounted'
  BY <1>1, AccountsCountedNext DEF SecurityIInv
<1>4. SecretsAreInStep'
  BY <1>1, <1>2, SecretsNext DEF SecurityIInv
<1> QED BY <1>2, <1>3, <1>4 DEF SecurityIInv

(* However requests of account security, verifications, callbacks and      *)
(* logouts interleave, a user has no more rows in account_securities than  *)
(* requests run at a time.  Unless the user's requests overlapped or one   *)
(* failed, the last code sent unlocks the account until it does, and a     *)
(* verified phone is one that an accepted code was sent to.                *)
THEOREM SecurityKept == Spec => []SecurityInv
<1>1. SecurityIInv => SecurityInv
  BY SecretsImply DEF SecurityIInv, Basics
<1> QED BY <1>1, SecurityIInvInit, SecurityIInvNext, PTL DEF Spec

(* What CompareCode accepts is the code that was made last. *)
LEMMA AcceptedIsLast ==
  ASSUME SecurityIInv, [Next]_vars, NEW c \in DOMAIN codes, NEW u \in Users, u = codes[c].user,
         codes'[c].accepted > codes[c].accepted, overlap[u] = {}, faults = 0
  PROVE  c = Max(CodesOf(u))
<1>0. /\ TypeOK /\ RequestsAreSound /\ codes[c].accepted \in Nat /\ codes \in Seq(Code)
      /\ \A d \in DOMAIN codes : codes[d] \in Code
  <2>1. TypeOK /\ RequestsAreSound
    BY DEF SecurityIInv, Basics
  <2>2. codes \in Seq(Code) /\ codes[c].accepted \in Nat
    BY <2>1, CodesTyped
  <2>3. \A d \in DOMAIN codes : codes[d] \in Code
    BY <2>2
  <2> QED BY <2>1, <2>2, <2>3
<1>1. codes'[c].accepted # codes[c].accepted
  BY <1>0
<1>2. PICK t \in Tasks, v \in Users : SecurityActs(t, v)
  <2>1. codes' # codes
    BY <1>1
  <2>2. Next
    BY <2>1 DEF vars, secrets
  <2>3. ASSUME NEW t \in Tasks, NEW v \in Users, Acts(t, v), ~ SecurityActs(t, v) PROVE codes' = codes
    BY <2>3 DEF Acts, LevelsActs, SessionsActs, SocialActs, FailsFor, secrets
  <2> QED BY <1>0, <2>1, <2>2, <2>3, ActCases, AsideKeeps
<1>3. u = v
  <2>1. SUFFICES ASSUME u # v PROVE FALSE
    OBVIOUS
  <2>2. CodesKept(u)
    BY <1>0, <1>2, <2>1, CodesApart
  <2> QED BY <1>1, <2>2 DEF CodesKept, CodesOf
<1>4. PICK k : k = task[t]
  OBVIOUS
<1>5. CompareCode(t)
  <2>1. SecurityStep(t)
    BY <1>2 DEF SecurityActs
  <2>2. ASSUME NEW x, NEW p, RequestAccountSecurity(t, x, p) PROVE codes' = codes
    BY <2>2 DEF RequestAccountSecurity, secrets
  <2>3. ASSUME NEW x, VerifyAccountSecurity(t, x) PROVE codes' = codes
    BY <2>3 DEF VerifyAccountSecurity, secrets
  <2>4. ASSUME GetByUserID(t) \/ LockAccount(t) \/ CheckPhone(t) \/ UpdatePhone(t) \/ GetOtp(t)
        PROVE  codes' = codes
    BY <2>4 DEF GetByUserID, LockAccount, CheckPhone, UpdatePhone, GetOtp, secrets
  <2>5. ASSUME CheckLocked(t) \/ MarkPhoneAsVerified(t) \/ Unlock(t) \/ DeleteOtp(t)
        PROVE  codes' = codes
    BY <2>5 DEF CheckLocked, MarkPhoneAsVerified, Unlock, DeleteOtp, secrets
  <2>6. ASSUME StoreOtp(t) PROVE codes'[c] = codes[c]
    <3>1. PICK n : codes' = Append(codes, n)
      BY <2>6 DEF StoreOtp
    <3> QED BY <1>0, <3>1
  <2>7. ASSUME SendOTP(t) PROVE codes'[c].accepted = codes[c].accepted
    <3>1. PICK n : n = [codes[k.otp] EXCEPT !.phone = k.phone]
      OBVIOUS
    <3>2. codes' = [codes EXCEPT ![k.otp] = n]
      BY <1>4, <2>7, <3>1 DEF SendOTP
    <3>3. k.otp \in DOMAIN codes => n.accepted = codes[k.otp].accepted
      BY <1>0, <3>1 DEF Code
    <3>4. codes'[c] = IF c = k.otp THEN n ELSE codes[c]
      BY <1>0, <3>2
    <3> QED BY <3>3, <3>4
  <2> QED BY <1>1, <2>1, <2>2, <2>3, <2>4, <2>5, <2>6, <2>7 DEF SecurityStep
<1>6. k.pc = "compare" /\ k.user = v
  BY <1>2, <1>4, <1>5 DEF CompareCode, At, SecurityActs, SecurityMove, Moves
<1>7. AccountInStep(v, k) /\ CodeInStep(v, k)
  <2>1. t \in Busy(v)
    BY <1>4, <1>6 DEF Busy, At
  <2>2. Serving(v, k)
    BY <1>4, <2>1 DEF Serving
  <2> QED BY <1>3, <2>2 DEF SecurityIInv, SecretsAreInStep, Calm, SecureInStep
<1>8. k.row = 1
  BY <1>6, <1>7 DEF AccountInStep, VerifySteps
<1>9. PICK i : i = FirstOtp(v, 1)
  OBVIOUS
<1>10. i # 0 /\ otps[i].code = k.code
  BY <1>1, <1>4, <1>5, <1>6, <1>8, <1>9 DEF CompareCode
<1>11. k.code = c
  <2>1. PICK n : codes' = [codes EXCEPT ![k.code] = n]
    BY <1>4, <1>5, <1>6, <1>8, <1>9, <1>10 DEF CompareCode
  <2>2. c # k.code => codes'[c] = codes[c]
    BY <1>0, <2>1
  <2> QED BY <1>1, <2>2
<1>12. Last(v, c)
  <2>1. i \in DOMAIN otps /\ otps[i].live /\ otps[i].user = v
    BY <1>0, <1>9, <1>10, CodesTyped, FirstOtpTyped
  <2>2. i \in LiveOf(v)
    BY <2>1 DEF LiveOf
  <2> QED BY <1>7, <1>10, <1>11, <2>2 DEF CodeInStep, LiveIsLast
<1> QED BY <1>0, <1>3, <1>12, LastIsMax

(* Unless requests for a user overlapped or one failed, no code but the    *)
(* one made last is accepted: storing it replaces the one before           *)
(* (UpsertOtp and VerifyAccountSecurity).                                  *)
THEOREM OnlyLastIsAccepted == Spec => LastCodeIsAccepted
<1>1. ASSUME SecurityIInv, [Next]_vars, NEW c \in DOMAIN codes, NEW u, u = codes[c].user,
             codes'[c].accepted > codes[c].accepted
      PROVE  overlap[u] # {} \/ faults > 0 \/ c = Max(CodesOf(u))
  <2>1. u \in Users /\ faults \in Nat
    <3>1. TypeOK
      BY <1>1 DEF SecurityIInv, Basics
    <3>2. u \in Users
      BY <1>1, <3>1, CodesTyped
    <3>3. faults \in Nat
      BY <3>1, TypeFacts, CitizensAssumption DEF CitizensTypeOK
    <3> QED BY <3>2, <3>3
  <2>2. CASE faults = 0
    BY <1>1, <2>1, <2>2, AcceptedIsLast
  <2>3. CASE faults # 0
    BY <2>1, <2>3
  <2> QED BY <2>2, <2>3
<1>2. SecurityIInv /\ [Next]_vars =>
        [\A c \in DOMAIN codes :
           LET u == codes[c].user IN
           codes'[c].accepted > codes[c].accepted =>
             overlap[u] # {} \/ faults > 0 \/ c = Max(CodesOf(u))]_codes
  BY <1>1
<1> QED BY <1>2, SecurityIInvInit, SecurityIInvNext, PTL DEF Spec, LastCodeIsAccepted
=============================================================================
