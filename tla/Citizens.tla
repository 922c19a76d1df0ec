------------------------------ MODULE Citizens ------------------------------
(***************************************************************************)
(* What auth-service and levels-service share: the rows of users,          *)
(* user_logs and user_activities in one MySQL database, and the goroutines *)
(* that serve requests.  No service holds a lock or a transaction across   *)
(* the statements of a request, so each statement is a step.               *)
(*                                                                         *)
(* Modules Levels, Sessions, Security and Social add the operations, and   *)
(* module Citizen composes them.                                           *)
(***************************************************************************)
EXTENDS Integers, Sequences, FiniteSets, FiniteSetsExt, Functions

CONSTANTS Users, Tasks,
          Phones, NoPhone,
          Groups,     \* bound: the requests of a behaviour are of one group's services
          MaxCalls,   \* MaxCalls[g]: bound on the requests of a behaviour of group g
          MaxFaults   \* bound: failures in a behaviour

ASSUME CitizensAssumption ==
  /\ IsFiniteSet(Users) /\ IsFiniteSet(Tasks)
  /\ NoPhone \notin Phones
  /\ MaxCalls \in [Groups -> Nat] /\ MaxFaults \in Nat

VARIABLES task, calls, faults,
          group,       \* the group of this behaviour
          overlap,     \* history: overlap[u]: operations for u that ran while another did
          registered,  \* users with a row in users
          phone,       \* users.phone
          verified,    \* users.phone_verified_at is set
          made,        \* made[u][p]: how often part p of a registration was done
          log,         \* the row of user_logs; all zero while there is none
          sessions     \* sessions[u]: total of u's rows in user_activities

requests == <<task, calls, faults, group, overlap>>
accounts == <<registered, phone, verified, made, log, sessions>>

(* What OnUserCreated and Callback make for a new user.  *)
Parts == {"email", "settings", "log", "activity", "wallet", "variables"}

(* followers_count is left out: RecordFollower counts the rows of a table  *)
(* followers, which the schema does not have, and gives up before it       *)
(* writes.  activity_hours is a bigint, so a tenth of a point per hour is  *)
(* one point per ten hours; sessions are measured in tens of hours.        *)
UserLog == [trades: Nat, deposit: Nat, hours: Nat, score: Nat]
NoLog   == [trades |-> 0, deposit |-> 0, hours |-> 0, score |-> 0]
HasLog(u) == made[u]["log"] > 0

Total(r)      == r.trades + r.deposit + r.hours
TotalTime(u)  == FoldFunction(+, 0, sessions[u])

CitizensTypeOK ==
  /\ group \in Groups
  /\ calls \in 0..MaxCalls[group] /\ faults \in 0..MaxFaults
  /\ registered \subseteq Users
  /\ phone \in [Users -> Phones \union {NoPhone}]
  /\ verified \in [Users -> BOOLEAN]
  /\ made \in [Users -> [Parts -> Nat]]
  /\ log \in [Users -> UserLog]
  /\ sessions \in [Users -> Seq(Nat)]

(* Any of the users may have registered before. *)
CitizensInit ==
  /\ group \in Groups
  /\ task = [t \in Tasks |-> [pc |-> "idle"]]
  /\ calls = 0 /\ faults = 0
  /\ overlap = [u \in Users |-> {}]
  /\ registered \in SUBSET Users
  /\ phone = [u \in Users |-> NoPhone]
  /\ verified = [u \in Users |-> FALSE]
  /\ made = [u \in Users |-> [p \in Parts |-> IF u \in registered THEN 1 ELSE 0]]
  /\ log = [u \in Users |-> NoLog]
  /\ sessions = [u \in Users |-> IF u \in registered THEN <<0>> ELSE <<>>]

-----------------------------------------------------------------------------
At(t, pc)   == task[t].pc = pc
Step(t, k)  == task' = [task EXCEPT ![t] = k]
Goto(t, pc) == Step(t, [task[t] EXCEPT !.pc = pc])
Return(t)   == Step(t, [pc |-> "idle"])
Busy(u)     == {t \in Tasks : ~ At(t, "idle") /\ task[t].user = u}

Fault   == faults < MaxFaults /\ faults' = faults + 1
NoFault == UNCHANGED faults

Arrives == calls < MaxCalls[group] /\ calls' = calls + 1

(* A request for k.user arrives at the idle goroutine t. *)
Start(t, k) ==
  /\ At(t, "idle") /\ Arrives /\ Step(t, k)
  /\ overlap' = IF Busy(k.user) = {} THEN overlap
                ELSE [overlap EXCEPT ![k.user] =
                        @ \union {k.op} \union {task[s].op : s \in Busy(k.user)}]
  /\ UNCHANGED <<faults, group>>

(* A step of t that meets no failure, and one that meets one. *)
Serve   == UNCHANGED <<calls, faults, group, overlap>>
Stumble == Fault /\ UNCHANGED <<calls, group, overlap>>
=============================================================================
