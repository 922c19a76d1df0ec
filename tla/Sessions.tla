------------------------------ MODULE Sessions ------------------------------
(***************************************************************************)
(* auth-service: AuthService.Callback and Logout with the ObserverService  *)
(* they call.  A callback that the OAuth server and the cached state let   *)
(* through registers the user or logs the user in; one that they do not    *)
(* let through changes nothing here.  Tokens, events, last_seen and        *)
(* notifications are left out: no other part of the model depends on them. *)
(***************************************************************************)
EXTENDS Citizens

CONSTANT MaxSession  \* bound: tens of hours a session lasts

ASSUME SessionsAssumption == MaxSession \in Nat

VARIABLE rephoned    \* history: users whose phone the login of a callback wrote

SessionsTask ==
  [pc: {"find", "create", "make", "refresh", "login"}, op: {"callback"}, user: Users,
   phone: Phones, part: 1..6]
  \union
  [pc: {"latest", "end", "hours", "read", "writeHours", "reread", "writeScore", "user"},
   op: {"logout"}, user: Users, phone: Phones \union {NoPhone}, row: Nat, hours: Nat,
   log: UserLog]

SessionsTypeOK == rephoned \subseteq Users
SessionsInit   == rephoned = {}

-----------------------------------------------------------------------------
Callback(t, u, p) ==
  /\ Start(t, [pc |-> "find", op |-> "callback", user |-> u, phone |-> p, part |-> 1])
  /\ UNCHANGED <<accounts, rephoned>>

(* FindByEmail *)
FindUser(t) ==
  /\ At(t, "find")
  /\ Goto(t, IF task[t].user \in registered THEN "refresh" ELSE "create")
  /\ Serve /\ UNCHANGED <<accounts, rephoned>>

(* The email is unique: of two callbacks that found no user, one fails. *)
CreateUser(t) ==
  LET k == task[t] IN
  /\ At(t, "create")
  /\ IF k.user \in registered
       THEN Return(t) /\ UNCHANGED <<registered, phone>>
       ELSE /\ registered' = registered \union {k.user}
            /\ phone' = [phone EXCEPT ![k.user] = k.phone]
            /\ Goto(t, "make")
  /\ Serve /\ UNCHANGED <<verified, made, log, sessions, rephoned>>

Order == <<"email", "settings", "log", "activity", "wallet", "variables">>

(* OnUserCreated stops at the first error; Callback, which calls it and    *)
(* then CreateWallet and CreateUserVariables, goes on after any.           *)
AfterError(i) == IF i < 5 THEN 5 ELSE i + 1

Continue(t, i) ==
  IF i > Len(Order) THEN Return(t) ELSE Step(t, [task[t] EXCEPT !.part = i])

Make(t) ==
  LET u == task[t].user  p == Order[task[t].part] IN
  /\ made' = [made EXCEPT ![u][p] = @ + 1]
  /\ sessions' = IF p = "activity" THEN [sessions EXCEPT ![u] = Append(@, 0)] ELSE sessions

MakePart(t) ==
  LET i == task[t].part IN
  /\ At(t, "make")
  /\ \/ Make(t) /\ Continue(t, i + 1) /\ Serve
     \/ (Make(t) \/ UNCHANGED <<made, sessions>>) /\ Continue(t, AfterError(i)) /\ Stumble
  /\ UNCHANGED <<registered, phone, verified, log, rephoned>>

(* Update of a user that was found: the phone becomes OAuth's, verified or *)
(* not.                                                                    *)
UpdateUser(t) ==
  LET k == task[t] IN
  /\ At(t, "refresh")
  /\ phone' = [phone EXCEPT ![k.user] = k.phone]
  /\ rephoned' = rephoned \union {k.user}
  /\ Goto(t, "login") /\ Serve
  /\ UNCHANGED <<registered, verified, made, log, sessions>>

(* OnUserLogin: a session starts. *)
OnUserLogin(t) ==
  /\ At(t, "login")
  /\ sessions' = [sessions EXCEPT ![task[t].user] = Append(@, 0)]
  /\ Return(t) /\ Serve
  /\ UNCHANGED <<registered, phone, verified, made, log, rephoned>>

-----------------------------------------------------------------------------
(* Logout begins by reading the user. *)
Logout(t, u) ==
  /\ Start(t, [pc |-> "latest", op |-> "logout", user |-> u, phone |-> phone[u],
               row |-> 0, hours |-> 0, log |-> NoLog])
  /\ UNCHANGED <<accounts, rephoned>>

GetLatestActivity(t) ==
  LET n == Len(sessions[task[t].user]) IN
  /\ At(t, "latest")
  /\ Step(t, [task[t] EXCEPT !.row = n, !.pc = IF n = 0 THEN "hours" ELSE "end"])
  /\ Serve /\ UNCHANGED <<accounts, rephoned>>

(* The total is the time since the session's start. *)
UpdateActivity(t) ==
  LET k == task[t] IN
  /\ At(t, "end")
  /\ \E n \in sessions[k.user][k.row] .. MaxSession : sessions' = [sessions EXCEPT ![k.user][k.row] = n]
  /\ Goto(t, "hours") /\ Serve
  /\ UNCHANGED <<registered, phone, verified, made, log, rephoned>>

(* OnHourReached *)
LatestHours(t) ==
  LET k == task[t] IN
  /\ At(t, "hours")
  /\ Step(t, [k EXCEPT !.pc = "read",
                       !.hours = IF k.row = 0 THEN 0 ELSE sessions[k.user][k.row]])
  /\ Serve /\ UNCHANGED <<accounts, rephoned>>

GetTotalActivityMinutes(t) ==
  /\ At(t, "hours")
  /\ Step(t, [task[t] EXCEPT !.pc = "read", !.hours = TotalTime(task[t].user)])
  /\ Serve /\ UNCHANGED <<accounts, rephoned>>

(* GetUserLog, here and in CalculateScore. *)
GetUserLog(t) ==
  LET k == task[t] IN
  /\ k.pc \in {"read", "reread"}
  /\ IF HasLog(k.user)
       THEN Step(t, [k EXCEPT !.pc = IF k.pc = "read" THEN "writeHours" ELSE "writeScore",
                              !.log = log[k.user]])
       ELSE Return(t)
  /\ Serve /\ UNCHANGED <<accounts, rephoned>>

(* UpdateUserLog writes all of the row it was given. *)
UpdateUserLog(t, row) ==
  /\ log' = [log EXCEPT ![task[t].user] = row]
  /\ Serve /\ UNCHANGED <<registered, phone, verified, made, sessions, rephoned>>

WriteHours(t) ==
  /\ At(t, "writeHours")
  /\ UpdateUserLog(t, [task[t].log EXCEPT !.hours = task[t].hours])
  /\ Goto(t, "reread")

WriteScore(t) ==
  /\ At(t, "writeScore")
  /\ UpdateUserLog(t, [task[t].log EXCEPT !.score = Total(task[t].log)])
  /\ Goto(t, "user")

(* Update of the user that was read first.  It has no column for the score *)
(* that CalculateScore put into it.                                        *)
WriteUser(t) ==
  /\ At(t, "user")
  /\ phone' = [phone EXCEPT ![task[t].user] = task[t].phone]
  /\ Return(t) /\ Serve
  /\ UNCHANGED <<registered, verified, made, log, sessions, rephoned>>

SessionsNext ==
  \E t \in Tasks :
    \/ \E u \in Users, p \in Phones : Callback(t, u, p)
    \/ FindUser(t)
    \/ CreateUser(t)
    \/ MakePart(t)
    \/ UpdateUser(t)
    \/ OnUserLogin(t)
    \/ \E u \in registered : Logout(t, u)
    \/ GetLatestActivity(t)
    \/ UpdateActivity(t)
    \/ GetTotalActivityMinutes(t)
    \/ GetUserLog(t)
    \/ WriteHours(t)
    \/ WriteScore(t)
    \/ WriteUser(t)

-----------------------------------------------------------------------------
(* A user is set up once, however many callbacks for the email there are:  *)
(* no part has a key of its own that would stop a second row.              *)
RegisteredOnce == \A u \in Users, p \in Parts : made[u][p] <= 1

(* A part of a registered user is missing only while the user is set up or *)
(* after a failure: later logins do not look for it.                       *)
MissingMeansFailure ==
  \A u \in registered :
    faults = 0 /\ ~ (\E t \in Busy(u) : At(t, "make")) => \A p \in Parts : made[u][p] > 0

(* Between requests that did not overlap or fail, the hours in user_logs   *)
(* are those of all the user's sessions, each counted once.                *)
HoursAreSummed ==
  \A u \in Users :
    overlap[u] = {} /\ faults = 0 /\ Busy(u) = {} => log[u].hours = TotalTime(u)
=============================================================================
