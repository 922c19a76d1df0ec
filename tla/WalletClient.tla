---------------------------- MODULE WalletClient ----------------------------
(***************************************************************************)
(* features-service: CommercialClient, through which it charges and        *)
(* credits wallets in commercial-service.  A call is tried up to           *)
(* MaxRetries times, each attempt with its own deadline, and is repeated   *)
(* after a transient error.  A request whose deadline has passed may still *)
(* be executed, and an executed request may be executed again by the next  *)
(* attempt: it carries no idempotency key.                                 *)
(*                                                                         *)
(* Callers share one wallet.  The network holds requests and replies; the  *)
(* server executes a request in one step (module Wallet has its details).  *)
(***************************************************************************)
EXTENDS WalletStore, FiniteSets

CONSTANTS Callers,     \* goroutines that call the client
          Charges,     \* amounts they pass
          Funds,       \* initial balances of the wallet
          MaxRetries,  \* attempts of a call (3)
          MaxFailures    \* bound: transport and database failures

ASSUME ChargesAssumption == Charges # {} /\ Charges \subseteq Nat /\ Funds \subseteq Nat
ASSUME RetriesAssumption == MaxRetries \in Nat \ {0} /\ MaxFailures \in Nat

VARIABLES rows,        \* the wallet's rows (see WalletStore)
          caller,      \* caller[c]: what caller c is doing
          requests,    \* requests on their way to the server
          replies,     \* replies on their way to the callers
          applied,     \* history: applied[c], how often c's request took effect
          failures     \* failures so far

clientVars == <<rows, caller, requests, replies, applied, failures>>

Methods == {"AddBalance", "DeductBalance"}
Column  == CHOOSE a \in Assets : TRUE
Caller  == [op: Methods, amount: Charges, pc: {"idle", "call", "wait", "backoff", "done"},
            attempt: 0..MaxRetries,
            result: {"none", "ok", "rejected", "unavailable", "cancelled"}]
Unset   == CHOOSE n \in Charges : TRUE    \* the amount before a call is made
Request == [caller: Callers, attempt: 1..MaxRetries]
Response == [caller: Callers, attempt: 1..MaxRetries, success: BOOLEAN]

ClientTypeOK ==
  /\ rows \in Seq([Assets -> Int])
  /\ caller \in [Callers -> Caller]
  /\ requests \subseteq Request
  /\ replies \subseteq Response
  /\ applied \in [Callers -> Nat]
  /\ failures \in 0..MaxFailures

ClientInit ==
  /\ \E n \in Funds : rows = <<[a \in Assets |-> n]>>
  /\ caller = [c \in Callers |-> [op |-> "AddBalance", amount |-> Unset, pc |-> "idle",
                                  attempt |-> 0, result |-> "none"]]
  /\ requests = {} /\ replies = {}
  /\ applied = [c \in Callers |-> 0]
  /\ failures = 0

Fault == failures < MaxFailures /\ failures' = failures + 1
CallerAt(c, pc) == caller[c].pc = pc
Finish(c, r) == caller' = [caller EXCEPT ![c].pc = "done", ![c].result = r]

(* AddBalance or DeductBalance is called. *)
Invoke(c) ==
  /\ CallerAt(c, "idle")
  /\ \E op \in Methods, n \in Charges :
       caller' = [caller EXCEPT ![c] = [op |-> op, amount |-> n, pc |-> "call",
                                        attempt |-> 0, result |-> "none"]]
  /\ UNCHANGED <<rows, requests, replies, applied, failures>>

(* An attempt: fn sends the request under a fresh deadline. *)
Send(c) ==
  /\ CallerAt(c, "call")
  /\ caller' = [caller EXCEPT ![c].pc = "wait", ![c].attempt = @ + 1]
  /\ requests' = requests \union {[caller |-> c, attempt |-> caller[c].attempt + 1]}
  /\ UNCHANGED <<rows, replies, applied, failures>>

(* The reply to the current attempt arrives; a reply with Success = false  *)
(* is an error of type validation_error and is not repeated.               *)
Receive(c) ==
  /\ CallerAt(c, "wait")
  /\ \E r \in replies :
       /\ r.caller = c /\ r.attempt = caller[c].attempt
       /\ replies' = replies \ {r}
       /\ Finish(c, IF r.success THEN "ok" ELSE "rejected")
  /\ UNCHANGED <<rows, requests, applied, failures>>

(* Unavailable or DeadlineExceeded, which may come at any time: the        *)
(* attempt is given up, wherever its request or reply is, and repeated     *)
(* unless it was the last one.                                             *)
TransientError(c) ==
  /\ CallerAt(c, "wait")
  /\ IF caller[c].attempt < MaxRetries
       THEN caller' = [caller EXCEPT ![c].pc = "backoff"]
       ELSE Finish(c, "unavailable")
  /\ UNCHANGED <<rows, requests, replies, applied, failures>>

BackoffWithoutTimer(c) ==
  /\ CallerAt(c, "backoff")
  /\ UNCHANGED clientVars

(* retryWithBackoff waits, or returns when the caller's context is done. *)
Backoff(c) ==
  /\ CallerAt(c, "backoff")
  /\ \/ caller' = [caller EXCEPT ![c].pc = "call"]
     \/ Finish(c, "cancelled")
  /\ UNCHANGED <<rows, requests, replies, applied, failures>>

-----------------------------------------------------------------------------
(* The server *)

Answer(m, b) == replies' = replies \union {[caller |-> m.caller, attempt |-> m.attempt,
                                            success |-> b]}

(* The UPDATE takes effect. *)
Apply(m) ==
  LET k == caller[m.caller] IN
  /\ \/ /\ k.op = "DeductBalance" /\ CanPay(rows, Column, k.amount)
        /\ rows' = DeductRows(rows, Column, k.amount)
     \/ /\ k.op = "AddBalance"
        /\ rows' = AddRows(rows, Column, k.amount)
  /\ applied' = [applied EXCEPT ![m.caller] = @ + 1]

ExecuteTwice(m) ==
  /\ m \in requests
  /\ Apply(m)
  /\ Answer(m, TRUE)
  /\ UNCHANGED <<requests, caller, failures>>

(* A request arrives: it is applied, or refused for lack of balance (or,   *)
(* for amount zero, because the UPDATE changes no row), or it fails in the *)
(* database, before the UPDATE or when the wallet is read back after it.   *)
Execute(m) ==
  LET k == caller[m.caller] IN
  /\ m \in requests
  /\ requests' = requests \ {m}
  /\ \/ /\ Apply(m)
        /\ Answer(m, TRUE)
        /\ UNCHANGED failures
     \/ /\ k.op = "DeductBalance"
        /\ ~CanPay(rows, Column, k.amount) \/ k.amount = 0
        /\ Answer(m, FALSE)
        /\ UNCHANGED <<rows, applied, failures>>
     \/ /\ Fault
        /\ Apply(m) \/ UNCHANGED <<rows, applied>>
        /\ Answer(m, FALSE)
  /\ UNCHANGED caller

(* A request or a reply is lost with its connection. *)
LoseRequest ==
  /\ Fault
  /\ \E m \in requests : requests' = requests \ {m}
  /\ UNCHANGED <<rows, caller, replies, applied>>

LoseReply ==
  /\ Fault
  /\ \E r \in replies : replies' = replies \ {r}
  /\ UNCHANGED <<rows, caller, requests, applied>>

CallerStep(c) == Send(c) \/ Receive(c) \/ TransientError(c) \/ Backoff(c)

ClientNext ==
  \/ \E c \in Callers : Invoke(c) \/ CallerStep(c)
  \/ \E m \in Request : Execute(m)
  \/ LoseRequest
  \/ LoseReply

ClientSpec == ClientInit /\ [][ClientNext]_clientVars

(* A caller runs on: an attempt has a deadline and a backoff a timer. *)
FairClientSpec == ClientSpec /\ \A c \in Callers : WF_clientVars(CallerStep(c))

-----------------------------------------------------------------------------
(* A caller that is told of success had its request applied, whichever of  *)
(* the attempts it was and whatever became of the others: a reply is only  *)
(* taken for the attempt it answers.                                       *)
OkMeansApplied == \A c \in Callers : caller[c].result = "ok" => applied[c] >= 1

(* A call takes effect at most once per attempt, also when an attempt that *)
(* was given up is executed late, after the call has returned.             *)
OncePerAttempt == \A c \in Callers : applied[c] <= caller[c].attempt

(* What a caller concludes from a call that needed no retry is exact: a    *)
(* success was applied once; an error reported while the database works    *)
(* means that nothing was applied, so that callers need not undo it.       *)
FirstAttemptIsExact ==
  \A c \in Callers : caller[c].attempt = 1 =>
    /\ caller[c].result = "ok" => applied[c] = 1
    /\ caller[c].result = "rejected" /\ failures = 0 => applied[c] = 0

(* Every call returns, however many attempts fail. *)
CallReturns == \A c \in Callers : CallerAt(c, "call") ~> CallerAt(c, "done")

(* What the caller may conclude from an answer, whatever the network did:  *)
(* success means that the change was made, and no change is made more      *)
(* often than it was attempted.                                            *)
AnswersInv == ClientTypeOK /\ OkMeansApplied /\ OncePerAttempt /\ FirstAttemptIsExact
=============================================================================
