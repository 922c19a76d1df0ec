------------------------------- MODULE Wallet -------------------------------
(***************************************************************************)
(* The wallet service of commercial-service: concurrent gRPC calls         *)
(* CreateWallet, DeductBalance, AddBalance, LockBalance and UnlockBalance  *)
(* on the tables "wallets" and "locked_assets".                            *)
(*                                                                         *)
(* A call is a goroutine; each SQL statement it runs in autocommit mode is *)
(* one atomic step, and other calls run between two of them.  LockBalance  *)
(* and UnlockBalance run their statements in one database transaction, so  *)
(* each of them is one step.                                               *)
(***************************************************************************)
EXTENDS WalletStore

CONSTANTS Users,       \* users of the platform
          Calls,       \* slots for concurrent gRPC calls
          Amounts,     \* amounts callers pass
          MaxCalls,    \* bound: calls started in a behaviour
          MaxFaults    \* bound: database errors in a behaviour

ASSUME AmountsAssumption == Amounts \subseteq Nat
ASSUME BoundsAssumption == MaxCalls \in Nat /\ MaxFaults \in Nat

VARIABLES wallets,     \* wallets[u]: the rows of user u
          lockedAssets,\* lockedAssets[u][a][n]: rows of locked_assets
          call,        \* call[c]: what the call in slot c is doing
          started,     \* calls started so far
          faults,      \* database errors so far
          net          \* history: net[u][a] is the sum of the effects applied to u

vars == <<wallets, lockedAssets, call, started, faults, net>>

(* op: the method; pc: its next step; reply: what the caller was told; *)
(* applied: history, whether the call changed the balance.             *)
Ops == {"CreateWallet", "DeductBalance", "AddBalance", "LockBalance", "UnlockBalance"}
Call == [op: Ops, pc: {"begin", "insert", "read", "done"}, user: Users,
         asset: Assets, amount: Amounts, reply: {"none", "ok", "fail"},
         applied: BOOLEAN]

TypeOK ==
  /\ wallets \in [Users -> Seq([Assets -> Int])]
  /\ lockedAssets \in [Users -> [Assets -> [Amounts -> Nat]]]
  /\ call \in [Calls -> Call]
  /\ started \in 0..MaxCalls
  /\ faults \in 0..MaxFaults
  /\ net \in [Users -> [Assets -> Int]]

Init ==
  /\ wallets = [u \in Users |-> <<>>]
  /\ lockedAssets = [u \in Users |-> [a \in Assets |-> [n \in Amounts |-> 0]]]
  /\ \E k \in {k \in Call : k.pc = "done" /\ k.reply = "none" /\ ~k.applied} :
       call = [c \in Calls |-> k]      \* every slot is free
  /\ started = 0
  /\ faults = 0
  /\ net = [u \in Users |-> [a \in Assets |-> 0]]

-----------------------------------------------------------------------------
At(c, op, pc) == call[c].op = op /\ call[c].pc = pc
Set(c, pc, reply, applied) ==
  call' = [call EXCEPT ![c] =
             [@ EXCEPT !.pc = pc, !.reply = reply, !.applied = applied]]
Goto(c, pc) == Set(c, pc, "none", call[c].applied)
Reply(c, r) == Set(c, "done", r, call[c].applied)

(* A gRPC call arrives: the handler starts with the caller's arguments. *)
Start(c) ==
  /\ call[c].pc = "done"
  /\ started < MaxCalls
  /\ \E op \in Ops, u \in Users, a \in Assets, n \in Amounts :
       call' = [call EXCEPT ![c] =
                  [op |-> op, pc |-> "begin", user |-> u, asset |-> a,
                   amount |-> n, reply |-> "none", applied |-> FALSE]]
  /\ started' = started + 1
  /\ UNCHANGED <<wallets, lockedAssets, faults, net>>

(* Create, first statement: an existing wallet is returned unchanged. *)
FindBeforeCreate(c) ==
  /\ At(c, "CreateWallet", "begin")
  /\ IF HasWallet(wallets[call[c].user]) THEN Reply(c, "ok") ELSE Goto(c, "insert")
  /\ UNCHANGED <<wallets, lockedAssets, started, faults, net>>

(* Create, second statement: INSERT, whatever happened since the SELECT. *)
InsertWallet(c) ==
  /\ At(c, "CreateWallet", "insert")
  /\ wallets' = [wallets EXCEPT ![call[c].user] = Append(@, NewWallet)]
  /\ Reply(c, "ok")
  /\ UNCHANGED <<lockedAssets, started, faults, net>>

(* The effect of a successful balance change on the caller's wallet. *)
Applied(c, delta) ==
  /\ Set(c, "read", "none", TRUE)
  /\ net' = [net EXCEPT ![call[c].user][call[c].asset] = @ + delta]

UncheckedDeduct(c) ==
  LET k == call[c] IN
  /\ At(c, "DeductBalance", "begin")
  /\ HasWallet(wallets[k.user])
  /\ wallets' = [wallets EXCEPT ![k.user] = AddRows(@, k.asset, -k.amount)]
  /\ Applied(c, -k.amount)
  /\ UNCHANGED <<lockedAssets, started, faults>>

(* DeductBalance, the conditional UPDATE: the call goes on to GetWallet. *)
Deduct(c) ==
  LET k == call[c] IN
  /\ At(c, "DeductBalance", "begin")
  /\ CanPay(wallets[k.user], k.asset, k.amount)
  /\ wallets' = [wallets EXCEPT ![k.user] = DeductRows(@, k.asset, k.amount)]
  /\ Applied(c, -k.amount)
  /\ UNCHANGED <<lockedAssets, started, faults>>

RowsAffectedIgnored(c) ==
  LET k == call[c] IN
  /\ At(c, "DeductBalance", "begin")
  /\ ~CanPay(wallets[k.user], k.asset, k.amount) \/ k.amount = 0
  /\ Goto(c, "read")
  /\ UNCHANGED <<wallets, lockedAssets, started, faults, net>>

(* DeductBalance, no row affected: "insufficient balance".  MySQL reports  *)
(* changed rows, so a deduction of zero within the second of the row's     *)
(* last update affects no row either.                                      *)
DeductRefused(c) ==
  LET k == call[c] IN
  /\ At(c, "DeductBalance", "begin")
  /\ ~CanPay(wallets[k.user], k.asset, k.amount) \/ k.amount = 0
  /\ Reply(c, "fail")
  /\ UNCHANGED <<wallets, lockedAssets, started, faults, net>>

StaleAdd(c) ==
  LET k == call[c] IN
  /\ At(c, "AddBalance", "begin")
  /\ HasWallet(wallets[k.user])
  /\ wallets' = [wallets EXCEPT ![k.user] = [i \in DOMAIN @ |-> [@[i] EXCEPT ![k.asset] = k.amount]]]
  /\ Applied(c, k.amount)
  /\ UNCHANGED <<lockedAssets, started, faults>>

(* AddBalance, the UPDATE: no error when the user has no row. *)
Add(c) ==
  LET k == call[c] IN
  /\ At(c, "AddBalance", "begin")
  /\ wallets' = [wallets EXCEPT ![k.user] = AddRows(@, k.asset, k.amount)]
  /\ IF HasWallet(wallets[k.user])
       THEN Applied(c, k.amount)
       ELSE Goto(c, "read") /\ UNCHANGED net
  /\ UNCHANGED <<lockedAssets, started, faults>>

EmptyIsMissing(c) ==
  /\ call[c].pc = "read"
  /\ Reply(c, IF CanPay(wallets[call[c].user], call[c].asset, 1) THEN "ok" ELSE "fail")
  /\ UNCHANGED <<wallets, lockedAssets, started, faults, net>>

(* GetWallet after the UPDATE: the reply is a success iff a row is found. *)
ReadBack(c) ==
  /\ call[c].pc = "read"
  /\ Reply(c, IF HasWallet(wallets[call[c].user]) THEN "ok" ELSE "fail")
  /\ UNCHANGED <<wallets, lockedAssets, started, faults, net>>

(* LockBalance: conditional UPDATE and INSERT, committed together. *)
LockBalance(c) ==
  LET k == call[c] IN
  /\ At(c, "LockBalance", "begin")
  /\ \/ /\ CanPay(wallets[k.user], k.asset, k.amount)
        /\ wallets' = [wallets EXCEPT ![k.user] = DeductRows(@, k.asset, k.amount)]
        /\ lockedAssets' = [lockedAssets EXCEPT ![k.user][k.asset][k.amount] = @ + 1]
        /\ net' = [net EXCEPT ![k.user][k.asset] = @ - k.amount]
        /\ Set(c, "done", "ok", TRUE)
     \/ /\ ~CanPay(wallets[k.user], k.asset, k.amount) \/ k.amount = 0
        /\ Reply(c, "fail")
        /\ UNCHANGED <<wallets, lockedAssets, net>>
  /\ UNCHANGED <<started, faults>>

UnlockBelowZero(c) ==
  LET k == call[c] IN
  /\ At(c, "UnlockBalance", "begin")
  /\ wallets' = [wallets EXCEPT ![k.user] = AddRows(@, k.asset, k.amount)]
  /\ lockedAssets' = [lockedAssets EXCEPT ![k.user][k.asset][k.amount] = @ - 1]
  /\ Set(c, "done", "ok", TRUE)
  /\ net' = [net EXCEPT ![k.user][k.asset] = @ + k.amount]
  /\ UNCHANGED <<started, faults>>

(* UnlockBalance: UPDATE and DELETE ... LIMIT 1, committed together.  The  *)
(* credit does not depend on a lock being there to delete.                 *)
UnlockBalance(c) ==
  LET k == call[c] IN
  /\ At(c, "UnlockBalance", "begin")
  /\ wallets' = [wallets EXCEPT ![k.user] = AddRows(@, k.asset, k.amount)]
  /\ lockedAssets' = [lockedAssets EXCEPT ![k.user][k.asset][k.amount] =
                        IF @ > 0 THEN @ - 1 ELSE 0]
  /\ Set(c, "done", "ok", HasWallet(wallets[k.user]))
  /\ net' = [net EXCEPT ![k.user][k.asset] =
               IF HasWallet(wallets[k.user]) THEN @ + k.amount ELSE @]
  /\ UNCHANGED <<started, faults>>

(* The next statement of the call fails: the caller is told "fail"; a      *)
(* transaction is rolled back, what an earlier statement did stays.        *)
DatabaseError(c) ==
  /\ call[c].pc # "done"
  /\ faults < MaxFaults
  /\ faults' = faults + 1
  /\ Reply(c, "fail")
  /\ UNCHANGED <<wallets, lockedAssets, started, net>>

Step(c) ==
  \/ Start(c)
  \/ FindBeforeCreate(c)
  \/ InsertWallet(c)
  \/ Deduct(c)
  \/ DeductRefused(c)
  \/ Add(c)
  \/ ReadBack(c)
  \/ LockBalance(c)
  \/ UnlockBalance(c)
  \/ DatabaseError(c)

Next == \E c \in Calls : Step(c)

Spec == Init /\ [][Next]_vars

-----------------------------------------------------------------------------
(* No interleaving of calls drives a balance below zero, although nothing  *)
(* locks the row between a caller's look at it and DeductBalance: the      *)
(* condition is part of the UPDATE (wallet_repository.go:144-166).         *)
NonNegative == \A u \in Users : RowsNonNegative(wallets[u])

(* No update is lost: while a user has one wallet row, each balance is its *)
(* initial value and the sum of the changes that were applied, whatever    *)
(* calls overlapped.                                                       *)
NoLostUpdate ==
  \A u \in Users : Len(wallets[u]) = 1 =>
    \A a \in Assets : wallets[u][1][a] = NewWallet[a] + net[u][a]

(* A caller of DeductBalance that is told "Balance deducted successfully"  *)
(* was charged, also when other calls ran between the UPDATE and GetWallet.*)
DeductOkMeansCharged ==
  \A c \in Calls :
    call[c].op = "DeductBalance" /\ call[c].reply = "ok" => call[c].applied

(* A caller that is told of a failure may try again: without a database    *)
(* error nothing was changed.  AddBalance and DeductBalance answer from a  *)
(* read after their UPDATE, which other calls precede; it must not miss a  *)
(* wallet that was changed (the reverse does not hold: a wallet created    *)
(* in between turns a credit that found none into a success).              *)
FailMeansUnchanged ==
  \A c \in Calls :
    call[c].reply = "fail" /\ faults = 0 => ~ call[c].applied
=============================================================================
