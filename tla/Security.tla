------------------------------ MODULE Security ------------------------------
(***************************************************************************)
(* auth-service: RequestAccountSecurity sends a code to the user's phone,  *)
(* and VerifyAccountSecurity unlocks the account and verifies the phone    *)
(* with it.  The rate limit of requests is optional; a request that it     *)
(* refuses changes nothing and is left out.  Nothing reads the expiry of   *)
(* an unlocked account, so it is left out too.                             *)
(***************************************************************************)
EXTENDS Citizens

VARIABLES security,  \* security[u]: unlocked of u's rows in account_securities
          otps,      \* rows of otps, the deleted ones too
          codes      \* history: the codes made, by the order in which they were stored

(* phone: where the code was sent, if it was.  accepted: how often. *)
Code == [user: Users, phone: Phones \union {NoPhone}, accepted: Nat]
Otp  == [user: Users, row: Nat, code: Nat, live: BOOLEAN]

secrets == <<security, otps, codes>>

SecurityTask ==
  [pc: {"account", "lock", "phone", "save", "otp", "store", "send"}, op: {"secure"}, user: Users,
   given: Phones \union {NoPhone}, phone: Phones \union {NoPhone}, known: BOOLEAN,
   row: Nat, otp: Nat]
  \union
  [pc: {"unlocked", "compare", "mark", "unlock", "delete"}, op: {"verify"}, user: Users,
   code: Nat, known: BOOLEAN, row: Nat, otp: Nat]

SecurityTypeOK ==
  /\ security \in [Users -> Seq(BOOLEAN)]
  /\ otps \in Seq(Otp)
  /\ codes \in Seq(Code)

SecurityInit == security = [u \in Users |-> <<>>] /\ otps = <<>> /\ codes = <<>>

-----------------------------------------------------------------------------
(* The user is read first.  known: the phone is a verified one. *)
RequestAccountSecurity(t, u, p) ==
  /\ Start(t, [pc |-> "account", op |-> "secure", user |-> u, given |-> p, phone |-> phone[u],
               known |-> verified[u] /\ phone[u] # NoPhone, row |-> 0, otp |-> 0])
  /\ UNCHANGED <<accounts, secrets>>

(* GetByUserID: the user's first row, 0 if there is none. *)
GetByUserID(t) ==
  LET k == task[t] IN
  /\ At(t, "account")
  /\ Step(t, [k EXCEPT !.pc = "lock", !.row = IF security[k.user] = <<>> THEN 0 ELSE 1])
  /\ Serve /\ UNCHANGED <<accounts, secrets>>

LockAccount(t) ==
  LET k == task[t] IN
  /\ At(t, "lock")
  /\ security' = [security EXCEPT ![k.user] = IF k.row = 0 THEN Append(@, FALSE)
                                              ELSE [@ EXCEPT ![k.row] = FALSE]]
  /\ Step(t, [k EXCEPT !.pc = IF k.known THEN "otp" ELSE "phone",
                       !.row = IF @ = 0 THEN Len(security'[k.user]) ELSE @])
  /\ Serve /\ UNCHANGED <<accounts, otps, codes>>

(* IsPhoneTaken, unless the phone is the user's own. *)
CheckPhone(t) ==
  LET k == task[t] IN
  /\ At(t, "phone")
  /\ IF \/ k.given = NoPhone
        \/ k.given # k.phone /\ \E v \in Users \ {k.user} : phone[v] = k.given
       THEN Return(t) ELSE Goto(t, "save")
  /\ Serve /\ UNCHANGED <<accounts, secrets>>

SendToOldPhone(t) ==
  LET k == task[t] IN
  /\ At(t, "save")
  /\ phone' = [phone EXCEPT ![k.user] = k.given]
  /\ Step(t, [k EXCEPT !.pc = "otp"])
  /\ Serve /\ UNCHANGED <<registered, verified, made, log, sessions, secrets>>

UpdatePhone(t) ==
  LET k == task[t] IN
  /\ At(t, "save")
  /\ phone' = [phone EXCEPT ![k.user] = k.given]
  /\ Step(t, [k EXCEPT !.pc = "otp", !.phone = k.given])
  /\ Serve /\ UNCHANGED <<registered, verified, made, log, sessions, secrets>>

(* GetOtpByAccountSecurity: the first row of the account, 0 for none. *)
FirstOtp(u, row) ==
  LET live == {i \in DOMAIN otps : otps[i].live /\ otps[i].user = u /\ otps[i].row = row}
  IN  IF live = {} THEN 0 ELSE Min(live)

(* UpsertOtp *)
GetOtp(t) ==
  LET k == task[t] IN
  /\ At(t, "otp")
  /\ Step(t, [k EXCEPT !.pc = "store", !.otp = FirstOtp(k.user, k.row)])
  /\ Serve /\ UNCHANGED <<accounts, secrets>>

AddOtp(t) ==
  LET k == task[t] IN
  /\ At(t, "store")
  /\ codes' = Append(codes, [user |-> k.user, phone |-> NoPhone, accepted |-> 0])
  /\ otps' = Append(otps, [user |-> k.user, row |-> k.row, code |-> Len(codes'), live |-> TRUE])
  /\ Step(t, [k EXCEPT !.pc = "send", !.otp = Len(codes')])
  /\ Serve /\ UNCHANGED <<accounts, security>>

StoreOtp(t) ==
  LET k == task[t]  c == Len(codes) + 1 IN
  /\ At(t, "store")
  /\ codes' = Append(codes, [user |-> k.user, phone |-> NoPhone, accepted |-> 0])
  /\ otps' = IF k.otp = 0
             THEN Append(otps, [user |-> k.user, row |-> k.row, code |-> c, live |-> TRUE])
             ELSE [otps EXCEPT ![k.otp].code = c]
  /\ Step(t, [k EXCEPT !.pc = "send", !.otp = c])
  /\ Serve /\ UNCHANGED <<accounts, security>>

(* SendOTP to the phone this request knows; the code may arrive though the *)
(* call fails.                                                             *)
SendOTP(t) ==
  LET k == task[t] IN
  /\ At(t, "send")
  /\ codes' = [codes EXCEPT ![k.otp].phone = k.phone]
  /\ Return(t) /\ (Serve \/ Stumble)
  /\ UNCHANGED <<accounts, security, otps>>

-----------------------------------------------------------------------------
(* A user enters a code that arrived. *)
VerifyAccountSecurity(t, c) ==
  /\ codes[c].phone # NoPhone
  /\ LET u == codes[c].user IN
     Start(t, [pc |-> "unlocked", op |-> "verify", user |-> u, code |-> c,
               known |-> verified[u], row |-> 0, otp |-> 0])
  /\ UNCHANGED <<accounts, secrets>>

CheckLocked(t) ==
  LET k == task[t] IN
  /\ At(t, "unlocked")
  /\ IF security[k.user] = <<>> \/ security[k.user][1] THEN Return(t)
     ELSE Step(t, [k EXCEPT !.pc = "compare", !.row = 1])
  /\ Serve /\ UNCHANGED <<accounts, secrets>>

(* The account's code is read and compared. *)
CompareCode(t) ==
  LET k == task[t]  i == FirstOtp(k.user, k.row) IN
  /\ At(t, "compare")
  /\ IF i # 0 /\ otps[i].code = k.code
       THEN /\ codes' = [codes EXCEPT ![k.code].accepted = @ + 1]
            /\ Step(t, [k EXCEPT !.pc = IF k.known THEN "unlock" ELSE "mark", !.otp = i])
       ELSE Return(t) /\ UNCHANGED codes
  /\ Serve /\ UNCHANGED <<accounts, security, otps>>

MarkPhoneAsVerified(t) ==
  /\ At(t, "mark")
  /\ verified' = [verified EXCEPT ![task[t].user] = TRUE]
  /\ Goto(t, "unlock") /\ Serve
  /\ UNCHANGED <<registered, phone, made, log, sessions, secrets>>

Unlock(t) ==
  LET k == task[t] IN
  /\ At(t, "unlock")
  /\ security' = [security EXCEPT ![k.user][k.row] = TRUE]
  /\ Goto(t, "delete") /\ Serve
  /\ UNCHANGED <<accounts, otps, codes>>

DeleteOtp(t) ==
  /\ At(t, "delete")
  /\ otps' = [otps EXCEPT ![task[t].otp].live = FALSE]
  /\ Return(t) /\ Serve
  /\ UNCHANGED <<accounts, security, codes>>

SecurityNext ==
  \E t \in Tasks :
    \/ \E u \in registered, p \in Phones \union {NoPhone} : RequestAccountSecurity(t, u, p)
    \/ GetByUserID(t)
    \/ LockAccount(t)
    \/ CheckPhone(t)
    \/ UpdatePhone(t)
    \/ GetOtp(t)
    \/ StoreOtp(t)
    \/ SendOTP(t)
    \/ \E c \in DOMAIN codes : VerifyAccountSecurity(t, c)
    \/ CheckLocked(t)
    \/ CompareCode(t)
    \/ MarkPhoneAsVerified(t)
    \/ Unlock(t)
    \/ DeleteOtp(t)

-----------------------------------------------------------------------------
CodesOf(u) == {c \in DOMAIN codes : codes[c].user = u}

(* Nothing but the order of the requests makes a user's account_securities *)
(* row the only one: two requests that both find none insert two.          *)
AccountsAreBounded == \A u \in Users : Len(security[u]) <= Cardinality(Tasks)

(* Unless requests overlapped or failed, only the last code made for a     *)
(* user is accepted: storing it replaces the ones before.                  *)
LastCodeIsAccepted ==
  [][\A c \in DOMAIN codes :
       LET u == codes[c].user IN
       codes'[c].accepted > codes[c].accepted =>
         overlap[u] # {} \/ faults > 0 \/ c = Max(CodesOf(u))]_codes

(* Unless requests overlapped or failed, the last code sent to a user      *)
(* unlocks the account until it does, whatever refused requests came after *)
(* it.                                                                     *)
SentCodeIsAccepted ==
  \A u \in Users :
    LET sent == {c \in CodesOf(u) : codes[c].phone # NoPhone} IN
    overlap[u] = {} /\ faults = 0 /\ Busy(u) = {} /\ sent # {} =>
      \/ codes[Max(sent)].accepted > 0
      \/ /\ ~ security[u][1]
         /\ LET i == FirstOtp(u, 1) IN i # 0 /\ otps[i].code = Max(sent)
=============================================================================
