--------------------------- MODULE PaymentProofs ----------------------------
(***************************************************************************)
(* The money that users pay with, for any users, amounts, orders, callers  *)
(* and handlers: what the wallet service keeps (module Wallet), what       *)
(* referral commissions are paid and recorded (module Referral), what the  *)
(* answers of the wallet client mean (module WalletClient), and how an     *)
(* order is paid, recorded and credited (module OrderPayment, and its      *)
(* abstraction PaymentLedger).                                             *)
(***************************************************************************)
EXTENDS Wallet, Referral, WalletClient, OrderPayment, TableLemmas

(* A new wallet holds no negative balance. *)
LEMMA NewWalletType ==
  NewWallet \in [Assets -> Int] /\ \A a \in Assets : NewWallet[a] >= 0
BY DEF NewWallet

(* A credit of a natural amount leaves no row negative. *)
LEMMA AddRowsNonNegative ==
  ASSUME NEW table \in RowsType(Assets), NEW a, NEW n \in Nat, RowsNonNegative(table)
  PROVE  RowsNonNegative(AddRows(table, a, n))
<1>1. /\ DOMAIN table = 1..Len(table)
      /\ \A i \in DOMAIN table : table[i] \in [Assets -> Int]
  BY DEF RowsType
<1> QED BY <1>1 DEF RowsNonNegative, AddRows

(* The guard inside the UPDATE of DeductBalance leaves no row negative. *)
LEMMA DeductRowsNonNegative ==
  ASSUME NEW table \in RowsType(Assets), NEW a, NEW n \in Nat, RowsNonNegative(table)
  PROVE  RowsNonNegative(DeductRows(table, a, n))
<1>1. /\ DOMAIN table = 1..Len(table)
      /\ \A i \in DOMAIN table : table[i] \in [Assets -> Int]
  BY DEF RowsType
<1> QED BY <1>1 DEF RowsNonNegative, DeductRows

-----------------------------------------------------------------------------
(* Before a user has a wallet row, nothing was applied to the user. *)
NothingBeforeWallet ==
  \A u \in Users : wallets[u] = <<>> => \A a \in Assets : net[u][a] = 0

(* A DeductBalance call that has passed its UPDATE was charged. *)
PastUpdateIsCharged ==
  \A c \in Calls :
    call[c].op = "DeductBalance" /\ call[c].pc = "read" => call[c].applied

(* A call that has not reached its UPDATE changed nothing, and one that    *)
(* changed a wallet will find it when it reads it back.                    *)
ChangedIsVisible ==
  \A c \in Calls :
    /\ call[c].pc \in {"begin", "insert"} => ~ call[c].applied
    /\ call[c].pc = "read" /\ call[c].applied => HasWallet(wallets[call[c].user])

IInv ==
  /\ TypeOK
  /\ NonNegative
  /\ NoLostUpdate
  /\ NothingBeforeWallet
  /\ DeductOkMeansCharged
  /\ PastUpdateIsCharged
  /\ ChangedIsVisible
  /\ FailMeansUnchanged

-----------------------------------------------------------------------------
(* A step of a call writes its next step, its reply and its history. *)
LEMMA CallType ==
  ASSUME TypeOK, NEW c \in Calls,
         NEW pc \in {"begin", "insert", "read", "done"},
         NEW r \in {"none", "ok", "fail"}, NEW b \in BOOLEAN, Set(c, pc, r, b)
  PROVE  call' \in [Calls -> Call]
<1>1. call[c] \in Call
  BY DEF TypeOK
<1>2. [call[c] EXCEPT !.pc = pc, !.reply = r, !.applied = b] \in Call
  BY <1>1 DEF Call
<1> QED BY <1>2 DEF TypeOK, Set

(* Every step keeps the types. *)
LEMMA TypeStep == TypeOK /\ [Next]_vars => TypeOK'
<1> SUFFICES ASSUME TypeOK, [Next]_vars PROVE TypeOK'
  OBVIOUS
<1> USE AmountsAssumption, BoundsAssumption
<1>1. ASSUME UNCHANGED vars PROVE TypeOK'
  BY <1>1 DEF TypeOK, vars
<1>2. ASSUME NEW c \in Calls, Step(c) PROVE TypeOK'
  <2> DEFINE k == call[c]
  <2>0. /\ k \in Call /\ k.user \in Users /\ k.asset \in Assets
        /\ k.amount \in Amounts /\ k.amount \in Nat /\ k.applied \in BOOLEAN
        /\ wallets[k.user] \in RowsType(Assets)
    BY DEF TypeOK, Call, RowsType
  <2>1. CASE Start(c)
    BY <2>1 DEF Start, TypeOK, Call
  <2>2. CASE FindBeforeCreate(c)
    <3>1. call' \in [Calls -> Call]
      BY <2>2, <2>0, CallType DEF FindBeforeCreate, HasWallet, Reply, Goto
    <3> QED BY <2>2, <3>1 DEF FindBeforeCreate, TypeOK
  <2>3. CASE InsertWallet(c)
    <3>1. call' \in [Calls -> Call]
      BY <2>3, <2>0, CallType DEF InsertWallet, Reply
    <3>2. NewWallet \in [Assets -> Int]
      BY DEF NewWallet
    <3>3. Append(wallets[k.user], NewWallet) \in RowsType(Assets)
      BY <2>0, <3>2 DEF RowsType
    <3> QED BY <2>3, <2>0, <3>1, <3>3 DEF InsertWallet, TypeOK, RowsType
  <2>4. CASE Deduct(c)
    <3>1. call' \in [Calls -> Call]
      BY <2>4, CallType DEF Deduct, Applied
    <3>2. DeductRows(wallets[k.user], k.asset, k.amount) \in RowsType(Assets)
      BY <2>0, DeductRowsType
    <3>3. net' \in [Users -> [Assets -> Int]]
      BY <2>4, <2>0 DEF Deduct, Applied, TypeOK
    <3> QED BY <2>4, <2>0, <3>1, <3>2, <3>3 DEF Deduct, TypeOK, RowsType
  <2>5. CASE DeductRefused(c)
    <3>1. call' \in [Calls -> Call]
      BY <2>5, <2>0, CallType DEF DeductRefused, Reply
    <3> QED BY <2>5, <3>1 DEF DeductRefused, TypeOK
  <2>6. CASE Add(c)
    <3>1. call' \in [Calls -> Call]
      BY <2>6, <2>0, CallType DEF Add, HasWallet, Applied, Goto
    <3>2. AddRows(wallets[k.user], k.asset, k.amount) \in RowsType(Assets)
      BY <2>0, AddRowsType
    <3>3. net' \in [Users -> [Assets -> Int]]
      <4>1. CASE net' = [net EXCEPT ![k.user][k.asset] = @ + k.amount]
        BY <4>1, <2>0 DEF TypeOK
      <4>2. CASE net' = net
        BY <4>2 DEF TypeOK
      <4> QED BY <4>1, <4>2, <2>6 DEF Add, HasWallet, Applied
    <3> QED BY <2>6, <2>0, <3>1, <3>2, <3>3 DEF Add, TypeOK, RowsType
  <2>7. CASE ReadBack(c)
    <3>1. call' \in [Calls -> Call]
      BY <2>7, <2>0, CallType DEF ReadBack, HasWallet, Reply
    <3> QED BY <2>7, <3>1 DEF ReadBack, TypeOK
  <2>8. CASE LockBalance(c)
    <3>1. call' \in [Calls -> Call]
      BY <2>8, <2>0, CallType DEF LockBalance, Reply
    <3>2. DeductRows(wallets[k.user], k.asset, k.amount) \in RowsType(Assets)
      BY <2>0, DeductRowsType
    <3>3. wallets' \in [Users -> Seq([Assets -> Int])]
      <4>1. wallets' = wallets \/ wallets' = [wallets EXCEPT ![k.user] =
                                               DeductRows(@, k.asset, k.amount)]
        BY <2>8 DEF LockBalance
      <4> QED BY <4>1, <2>0, <3>2 DEF TypeOK, RowsType
    <3>4. net' \in [Users -> [Assets -> Int]]
      <4>1. CASE net' = [net EXCEPT ![k.user][k.asset] = @ - k.amount]
        BY <4>1, <2>0 DEF TypeOK
      <4>2. CASE net' = net
        BY <4>2 DEF TypeOK
      <4> QED BY <4>1, <4>2, <2>8 DEF LockBalance
    <3>5. lockedAssets' \in [Users -> [Assets -> [Amounts -> Nat]]]
      <4>1. CASE lockedAssets' = [lockedAssets EXCEPT ![k.user][k.asset][k.amount] = @ + 1]
        BY <4>1, <2>0 DEF TypeOK
      <4>2. CASE lockedAssets' = lockedAssets
        BY <4>2 DEF TypeOK
      <4> QED BY <4>1, <4>2, <2>8 DEF LockBalance
    <3> QED BY <2>8, <3>1, <3>3, <3>4, <3>5 DEF LockBalance, TypeOK
  <2>9. CASE UnlockBalance(c)
    <3>1. call' \in [Calls -> Call]
      BY <2>9, <2>0, CallType DEF UnlockBalance, HasWallet
    <3>2. AddRows(wallets[k.user], k.asset, k.amount) \in RowsType(Assets)
      BY <2>0, AddRowsType
    <3>3. wallets' \in [Users -> Seq([Assets -> Int])]
      BY <2>9, <2>0, <3>2 DEF UnlockBalance, TypeOK, RowsType
    <3>4. net' \in [Users -> [Assets -> Int]]
      BY <2>9, <2>0 DEF UnlockBalance, HasWallet, TypeOK
    <3>5. lockedAssets' \in [Users -> [Assets -> [Amounts -> Nat]]]
      BY <2>9, <2>0 DEF UnlockBalance, TypeOK
    <3> QED BY <2>9, <3>1, <3>3, <3>4, <3>5 DEF UnlockBalance, TypeOK
  <2>10. CASE DatabaseError(c)
    <3>1. call' \in [Calls -> Call]
      BY <2>10, <2>0, CallType DEF DatabaseError, Reply
    <3> QED BY <2>10, <3>1 DEF DatabaseError, TypeOK
  <2> QED BY <1>2, <2>1, <2>2, <2>3, <2>4, <2>5, <2>6, <2>7, <2>8, <2>9, <2>10 DEF Step
<1> QED BY <1>1, <1>2 DEF Next

-----------------------------------------------------------------------------
(* The four things a step can do to the wallet of user u. *)
Inserted(u) ==
  /\ wallets' = [wallets EXCEPT ![u] = Append(@, NewWallet)]
  /\ net' = net
Charged(u, a, n) ==
  /\ CanPay(wallets[u], a, n)
  /\ wallets' = [wallets EXCEPT ![u] = DeductRows(@, a, n)]
  /\ net' = [net EXCEPT ![u][a] = net[u][a] - n]
Credited(u, a, n) ==
  /\ wallets[u] # <<>>
  /\ wallets' = [wallets EXCEPT ![u] = AddRows(@, a, n)]
  /\ net' = [net EXCEPT ![u][a] = net[u][a] + n]
Missed(u, a, n) ==
  /\ wallets[u] = <<>>
  /\ wallets' = [wallets EXCEPT ![u] = AddRows(@, a, n)]
  /\ net' = net

(* The balance properties, which only the tables wallets and net decide. *)
Balances == NonNegative /\ NoLostUpdate /\ NothingBeforeWallet

(* A new row holds zeros, and nothing was applied before the first row. *)
LEMMA InsertedKeepsBalances ==
  ASSUME TypeOK, Balances, NEW u \in Users, Inserted(u)
  PROVE  Balances'
<1>1. /\ wallets[u] \in RowsType(Assets)
      /\ wallets'[u] = Append(wallets[u], NewWallet)
      /\ \A v \in Users \ {u} : wallets'[v] = wallets[v]
  BY DEF TypeOK, Inserted, RowsType
<1>2. NewWallet \in [Assets -> Int] /\ \A a \in Assets : NewWallet[a] >= 0
  BY NewWalletType
<1>3. /\ Len(wallets'[u]) = Len(wallets[u]) + 1
      /\ \A i \in 1..Len(wallets[u]) : wallets'[u][i] = wallets[u][i]
      /\ wallets'[u][Len(wallets[u]) + 1] = NewWallet
      /\ DOMAIN wallets'[u] = 1..(Len(wallets[u]) + 1)
      /\ DOMAIN wallets[u] = 1..Len(wallets[u])
      /\ Len(wallets[u]) \in Nat
  BY <1>1, <1>2 DEF RowsType
<1>4. NonNegative'
  <2>1. RowsNonNegative(wallets'[u])
    BY <1>2, <1>3 DEF Balances, NonNegative, RowsNonNegative
  <2> QED BY <1>1, <2>1 DEF Balances, NonNegative
<1>5. NoLostUpdate'
  <2>1. ASSUME Len(wallets'[u]) = 1, NEW a \in Assets
        PROVE  wallets'[u][1][a] = NewWallet[a] + net'[u][a]
    <3>1. wallets[u] = <<>>
      BY <1>1, <1>3, <2>1 DEF RowsType
    <3> QED BY <1>2, <1>3, <2>1, <3>1 DEF Balances, NothingBeforeWallet, Inserted
  <2> QED BY <1>1, <2>1 DEF Balances, NoLostUpdate, Inserted
<1>6. NothingBeforeWallet'
  <2>1. wallets'[u] # <<>>
    BY <1>3
  <2> QED BY <1>1, <2>1 DEF Balances, NothingBeforeWallet, Inserted
<1> QED BY <1>4, <1>5, <1>6 DEF Balances

(* The condition of the UPDATE: whoever is charged could pay. *)
LEMMA ChargedKeepsBalances ==
  ASSUME TypeOK, Balances, NEW u \in Users, NEW a \in Assets, NEW n \in Nat,
         Charged(u, a, n)
  PROVE  Balances'
<1>1. /\ wallets[u] \in RowsType(Assets)
      /\ wallets'[u] = DeductRows(wallets[u], a, n)
      /\ \A v \in Users \ {u} : wallets'[v] = wallets[v] /\ net'[v] = net[v]
      /\ \A b \in Assets \ {a} : net'[u][b] = net[u][b]
      /\ net'[u][a] = net[u][a] - n
  BY DEF TypeOK, Charged, RowsType
<1>2. Len(wallets'[u]) = Len(wallets[u])
  BY <1>1, DeductRowsType
<1>3. NonNegative'
  <2>1. RowsNonNegative(wallets'[u])
    BY <1>1, DeductRowsNonNegative DEF Balances, NonNegative
  <2> QED BY <1>1, <2>1 DEF Balances, NonNegative
<1>4. NoLostUpdate'
  <2>1. ASSUME Len(wallets'[u]) = 1, NEW b \in Assets
        PROVE  wallets'[u][1][b] = NewWallet[b] + net'[u][b]
    <3>0. Len(wallets[u]) = 1 /\ wallets[u] \in Seq([Assets -> Int])
      BY <1>1, <1>2, <2>1 DEF RowsType
    <3>1. DOMAIN wallets[u] = 1..1 /\ wallets[u][1] \in [Assets -> Int]
      BY <3>0
    <3>2. wallets[u][1][a] >= n
      BY <3>1 DEF Charged, CanPay
    <3>3. wallets'[u][1] = [wallets[u][1] EXCEPT ![a] = @ - n]
      BY <1>1, <3>1, <3>2 DEF DeductRows
    <3>4. wallets[u][1][a] = NewWallet[a] + net[u][a] /\ wallets[u][1][b] = NewWallet[b] + net[u][b]
      BY <1>2, <2>1 DEF Balances, NoLostUpdate
    <3>5. NewWallet[a] \in Int /\ NewWallet[b] \in Int /\ net[u][a] \in Int /\ net[u][b] \in Int
      BY NewWalletType DEF TypeOK
    <3> QED BY <1>1, <3>1, <3>3, <3>4, <3>5
  <2> QED BY <1>1, <2>1 DEF Balances, NoLostUpdate
<1>5. NothingBeforeWallet'
  <2>1. wallets'[u] # <<>>
    <3>1. DOMAIN wallets[u] # {}
      BY DEF Charged, CanPay
    <3> QED BY <1>1, <3>1 DEF DeductRows
  <2> QED BY <1>1, <2>1 DEF Balances, NothingBeforeWallet
<1> QED BY <1>3, <1>4, <1>5 DEF Balances

(* A credit that finds the wallet raises the balance and the history. *)
LEMMA CreditedKeepsBalances ==
  ASSUME TypeOK, Balances, NEW u \in Users, NEW a \in Assets, NEW n \in Nat,
         Credited(u, a, n)
  PROVE  Balances'
<1>1. /\ wallets[u] \in RowsType(Assets)
      /\ wallets'[u] = AddRows(wallets[u], a, n)
      /\ \A v \in Users \ {u} : wallets'[v] = wallets[v] /\ net'[v] = net[v]
      /\ \A b \in Assets \ {a} : net'[u][b] = net[u][b]
      /\ net'[u][a] = net[u][a] + n
  BY DEF TypeOK, Credited, RowsType
<1>2. wallets'[u] \in RowsType(Assets) /\ Len(wallets'[u]) = Len(wallets[u])
  BY <1>1, AddRowsType
<1>3. NonNegative'
  <2>1. RowsNonNegative(wallets'[u])
    BY <1>1, AddRowsNonNegative DEF Balances, NonNegative
  <2> QED BY <1>1, <2>1 DEF Balances, NonNegative
<1>4. NoLostUpdate'
  <2>1. ASSUME Len(wallets'[u]) = 1, NEW b \in Assets
        PROVE  wallets'[u][1][b] = NewWallet[b] + net'[u][b]
    <3>0. Len(wallets[u]) = 1 /\ wallets[u] \in Seq([Assets -> Int])
      BY <1>1, <1>2, <2>1 DEF RowsType
    <3>1. DOMAIN wallets[u] = 1..1 /\ wallets[u][1] \in [Assets -> Int]
      BY <3>0
    <3>2. wallets'[u][1] = [wallets[u][1] EXCEPT ![a] = @ + n]
      BY <1>1, <3>1 DEF AddRows
    <3>3. wallets[u][1][a] = NewWallet[a] + net[u][a] /\ wallets[u][1][b] = NewWallet[b] + net[u][b]
      BY <1>2, <2>1 DEF Balances, NoLostUpdate
    <3>5. NewWallet[a] \in Int /\ NewWallet[b] \in Int /\ net[u][a] \in Int /\ net[u][b] \in Int
      BY NewWalletType DEF TypeOK
    <3> QED BY <1>1, <3>1, <3>2, <3>3, <3>5
  <2> QED BY <1>1, <2>1 DEF Balances, NoLostUpdate
<1>5. NothingBeforeWallet'
  <2>1. wallets'[u] # <<>>
    BY <1>1, <1>2 DEF Credited, RowsType
  <2> QED BY <1>1, <2>1 DEF Balances, NothingBeforeWallet
<1> QED BY <1>3, <1>4, <1>5 DEF Balances

(* A credit that finds no wallet changes nothing. *)
LEMMA MissedKeepsBalances ==
  ASSUME TypeOK, Balances, NEW u \in Users, NEW a, NEW n, Missed(u, a, n)
  PROVE  Balances'
<1>1. wallets' = wallets
  BY DEF Missed, AddRows, TypeOK
<1> QED BY <1>1 DEF Missed, Balances, NonNegative, NoLostUpdate, NothingBeforeWallet

-----------------------------------------------------------------------------
(* Every step has one of the four effects on one wallet, or none. *)
LEMMA StepEffect ==
  ASSUME TypeOK, NEW c \in Calls, Step(c)
  PROVE  \E u \in Users, a \in Assets, n \in Nat :
           \/ Inserted(u) \/ Charged(u, a, n) \/ Credited(u, a, n) \/ Missed(u, a, n)
           \/ UNCHANGED <<wallets, net>>
<1> DEFINE k == call[c]
<1>0. k.user \in Users /\ k.asset \in Assets /\ k.amount \in Nat
  BY AmountsAssumption DEF TypeOK, Call
<1>a. net[k.user][k.asset] \in Int
  BY <1>0 DEF TypeOK
<1>1. CASE InsertWallet(c)
  BY <1>0, <1>1 DEF InsertWallet, Inserted
<1>2. CASE Deduct(c)
  <2>1. net' = [net EXCEPT ![k.user][k.asset] = net[k.user][k.asset] - k.amount]
    BY <1>0, <1>a, <1>2 DEF Deduct, Applied
  <2> QED BY <1>0, <1>2, <2>1 DEF Deduct, Charged
<1>3. CASE Add(c)
  BY <1>0, <1>3 DEF Add, HasWallet, Applied, Credited, Missed
<1>4. CASE LockBalance(c)
  <2>1. CASE UNCHANGED <<wallets, net>>
    BY <1>0, <2>1
  <2>2. CASE /\ CanPay(wallets[k.user], k.asset, k.amount)
             /\ wallets' = [wallets EXCEPT ![k.user] = DeductRows(@, k.asset, k.amount)]
             /\ net' = [net EXCEPT ![k.user][k.asset] = @ - k.amount]
    BY <1>0, <2>2 DEF Charged
  <2> QED BY <1>4, <2>1, <2>2 DEF LockBalance
<1>5. CASE UnlockBalance(c)
  <2>1. CASE HasWallet(wallets[k.user])
    BY <1>0, <1>5, <2>1 DEF UnlockBalance, HasWallet, Credited
  <2>2. CASE ~HasWallet(wallets[k.user])
    <3>1. net' = net
      BY <1>0, <1>5, <2>2 DEF UnlockBalance, HasWallet, TypeOK
    <3> QED BY <1>0, <1>5, <2>2, <3>1 DEF UnlockBalance, HasWallet, Missed
  <2> QED BY <2>1, <2>2
<1>6. CASE ~(InsertWallet(c) \/ Deduct(c) \/ Add(c) \/ LockBalance(c) \/ UnlockBalance(c))
  <2>1. UNCHANGED <<wallets, net>>
    BY <1>6 DEF Step, Start, FindBeforeCreate, DeductRefused, ReadBack, DatabaseError
  <2> QED BY <1>0, <2>1
<1> QED BY <1>1, <1>2, <1>3, <1>4, <1>5, <1>6

(* What Set writes and what it leaves alone. *)
LEMMA SetFields ==
  ASSUME TypeOK, NEW c \in Calls, NEW pc, NEW r, NEW b, Set(c, pc, r, b)
  PROVE  /\ call'[c].op = call[c].op
         /\ call'[c].user = call[c].user
         /\ call'[c].pc = pc
         /\ call'[c].reply = r
         /\ call'[c].applied = b
         /\ \A d \in Calls \ {c} : call'[d] = call[d]
<1>1. call[c] \in Call
  BY DEF TypeOK
<1>2. /\ call'[c] = [call[c] EXCEPT !.pc = pc, !.reply = r, !.applied = b]
      /\ \A d \in Calls \ {c} : call'[d] = call[d]
  BY DEF TypeOK, Set
<1> QED BY <1>1, <1>2 DEF Call

(* What a DeductBalance call is told follows from what its UPDATE did. *)
LEMMA ReplyStep ==
  ASSUME TypeOK, DeductOkMeansCharged, PastUpdateIsCharged, NEW c \in Calls, Step(c)
  PROVE  DeductOkMeansCharged' /\ PastUpdateIsCharged'
<1> DEFINE k == call[c]
<1>0. CASE Start(c)
  <2>1. /\ call'[c].pc = "begin" /\ call'[c].reply = "none"
        /\ \A d \in Calls \ {c} : call'[d] = call[d]
    BY <1>0 DEF Start, TypeOK
  <2> QED BY <2>1 DEF DeductOkMeansCharged, PastUpdateIsCharged
<1>1. CASE FindBeforeCreate(c) \/ InsertWallet(c)
  <2>1. k.op # "DeductBalance"
    BY <1>1 DEF FindBeforeCreate, InsertWallet, At
  <2> QED BY <1>1, <2>1, SetFields
          DEF FindBeforeCreate, InsertWallet, HasWallet, Reply, Goto, DeductOkMeansCharged, PastUpdateIsCharged
<1>2. CASE Deduct(c)
  <2>1. Set(c, "read", "none", TRUE)
    BY <1>2 DEF Deduct, Applied
  <2>2. /\ call'[c].reply = "none" /\ call'[c].applied = TRUE
        /\ \A d \in Calls \ {c} : call'[d] = call[d]
    BY <2>1, SetFields
  <2> QED BY <2>2 DEF DeductOkMeansCharged, PastUpdateIsCharged
<1>3. CASE DeductRefused(c)
  <2>1. Set(c, "done", "fail", k.applied)
    BY <1>3 DEF DeductRefused, Reply
  <2> QED BY <2>1, SetFields DEF DeductOkMeansCharged, PastUpdateIsCharged
<1>4. CASE DatabaseError(c)
  <2>1. Set(c, "done", "fail", k.applied)
    BY <1>4 DEF DatabaseError, Reply
  <2> QED BY <2>1, SetFields DEF DeductOkMeansCharged, PastUpdateIsCharged
<1>5. CASE Add(c)
  <2>1. k.op = "AddBalance" /\ \E b \in BOOLEAN : Set(c, "read", "none", b)
    BY <1>5 DEF Add, At, Applied, Goto, TypeOK, Call
  <2>2. /\ call'[c].op = "AddBalance"
        /\ \A d \in Calls \ {c} : call'[d] = call[d]
    BY <2>1, SetFields
  <2> QED BY <2>2 DEF DeductOkMeansCharged, PastUpdateIsCharged
<1>6. CASE ReadBack(c)
  <2>1. k.op = "DeductBalance" => k.applied
    BY <1>6 DEF ReadBack, PastUpdateIsCharged
  <2>2. \E r \in {"ok", "fail"} : Set(c, "done", r, k.applied)
    BY <1>6 DEF ReadBack, Reply
  <2>3. /\ call'[c].pc = "done" /\ call'[c].op = k.op /\ call'[c].applied = k.applied
        /\ \A d \in Calls \ {c} : call'[d] = call[d]
    BY <2>2, SetFields
  <2> QED BY <2>1, <2>3 DEF DeductOkMeansCharged, PastUpdateIsCharged
<1>7. CASE LockBalance(c) \/ UnlockBalance(c)
  <2>1. k.op # "DeductBalance" /\ \E r, b : Set(c, "done", r, b)
    BY <1>7 DEF LockBalance, UnlockBalance, At, Reply
  <2>2. /\ call'[c].op # "DeductBalance"
        /\ \A d \in Calls \ {c} : call'[d] = call[d]
    BY <2>1, SetFields
  <2> QED BY <2>2 DEF DeductOkMeansCharged, PastUpdateIsCharged
<1> QED BY <1>0, <1>1, <1>2, <1>3, <1>4, <1>5, <1>6, <1>7 DEF Step

-----------------------------------------------------------------------------
(* No statement deletes a wallet. *)
LEMMA WalletsStay ==
  ASSUME TypeOK, NEW c \in Calls, Step(c), NEW u \in Users, HasWallet(wallets[u])
  PROVE  HasWallet(wallets'[u])
<1>1. PICK v \in Users, a \in Assets, n \in Nat :
         \/ Inserted(v) \/ Charged(v, a, n) \/ Credited(v, a, n) \/ Missed(v, a, n)
         \/ UNCHANGED <<wallets, net>>
  BY StepEffect
<1>2. /\ wallets \in [Users -> RowsType(Assets)]
      /\ Len(wallets[u]) > 0 /\ wallets[v] \in RowsType(Assets)
  BY DEF TypeOK, RowsType, HasWallet
<1>3. /\ Len(AddRows(wallets[v], a, n)) = Len(wallets[v])
      /\ Len(DeductRows(wallets[v], a, n)) = Len(wallets[v])
      /\ Len(Append(wallets[v], NewWallet)) = Len(wallets[v]) + 1
      /\ Len(<<>>) = 0
  <2>1. Len(Append(wallets[v], NewWallet)) = Len(wallets[v]) + 1
    BY <1>2, NewWalletType DEF RowsType
  <2>2. Len(<<>>) = 0
    OBVIOUS
  <2> QED BY <1>2, <2>1, <2>2, AddRowsType, DeductRowsType
<1>4. CASE u = v
  <2>1. Len(wallets'[u]) > 0
    BY <1>1, <1>2, <1>3, <1>4 DEF Inserted, Charged, Credited, Missed, RowsType
  <2> QED BY <2>1, <1>3 DEF HasWallet
<1>5. CASE u # v
  BY <1>1, <1>2, <1>5 DEF Inserted, Charged, Credited, Missed
<1> QED BY <1>4, <1>5

(* The statement of c took effect. *)
LEMMA TookEffect ==
  ASSUME TypeOK, NEW c \in Calls, NEW pc, NEW r, Set(c, pc, r, TRUE)
  PROVE  /\ call'[c].user = call[c].user /\ call'[c].pc = pc /\ call'[c].reply = r
         /\ \A d \in Calls \ {c} : call'[d] = call[d]
<1>1. PICK b : b = TRUE
  OBVIOUS
<1>2. Set(c, pc, r, b)
  BY <1>1
<1> QED BY <1>2, SetFields

(* A failure is only reported of a wallet that was not changed. *)
LEMMA FailStep ==
  ASSUME TypeOK, ChangedIsVisible, FailMeansUnchanged, NEW c \in Calls, Step(c)
  PROVE  ChangedIsVisible' /\ FailMeansUnchanged'
<1> DEFINE k == call[c]
<1>1. /\ k \in Call /\ k.user \in Users /\ k.applied \in BOOLEAN /\ faults \in Nat
      /\ \A d \in Calls : call[d].user \in Users
  BY BoundsAssumption DEF TypeOK, Call
<1>2. /\ k.pc \in {"begin", "insert"} => ~ k.applied
      /\ k.pc = "read" /\ k.applied => HasWallet(wallets[k.user])
      /\ k.reply = "fail" /\ faults = 0 => ~ k.applied
  BY DEF ChangedIsVisible, FailMeansUnchanged
<1> DEFINE Own == /\ call'[c].pc \in {"begin", "insert"} => ~ call'[c].applied
                  /\ call'[c].pc = "read" /\ call'[c].applied =>
                       HasWallet(wallets'[call'[c].user])
                  /\ call'[c].reply = "fail" /\ faults' = 0 => ~ call'[c].applied
           Others == \A d \in Calls \ {c} : call'[d] = call[d]
<1>3. SUFFICES Own /\ Others /\ (faults' = faults \/ faults' # 0)
  <2>1. ASSUME Own, Others, faults' = faults \/ faults' # 0,
               NEW d \in Calls, d # c
        PROVE  /\ call'[d].pc \in {"begin", "insert"} => ~ call'[d].applied
               /\ call'[d].pc = "read" /\ call'[d].applied => HasWallet(wallets'[call'[d].user])
               /\ call'[d].reply = "fail" /\ faults' = 0 => ~ call'[d].applied
    <3>1. call'[d] = call[d]
      BY <2>1
    <3>2. HasWallet(wallets[call[d].user]) => HasWallet(wallets'[call[d].user])
      BY <1>1, WalletsStay
    <3> QED BY <2>1, <3>1, <3>2 DEF ChangedIsVisible, FailMeansUnchanged
  <2> QED BY <2>1 DEF ChangedIsVisible, FailMeansUnchanged
<1>4. CASE Start(c)
  <2>1. /\ call'[c].pc = "begin" /\ call'[c].reply = "none" /\ call'[c].applied = FALSE
        /\ Others /\ faults' = faults
    BY <1>4 DEF Start, TypeOK
  <2> QED BY <2>1
<1>5. CASE FindBeforeCreate(c)
  <2>1. /\ Set(c, "done", "ok", k.applied) \/ Set(c, "insert", "none", k.applied)
        /\ k.pc = "begin" /\ faults' = faults
    BY <1>5 DEF FindBeforeCreate, Reply, Goto, At, HasWallet
  <2> QED BY <1>2, <2>1, SetFields
<1>6. CASE InsertWallet(c)
  <2>1. Set(c, "done", "ok", k.applied) /\ faults' = faults
    BY <1>6 DEF InsertWallet, Reply
  <2> QED BY <2>1, SetFields
<1>7. CASE Deduct(c)
  <2>1. Set(c, "read", "none", TRUE) /\ faults' = faults
    BY <1>7 DEF Deduct, Applied
  <2>2. HasWallet(wallets[k.user])
    <3>1. wallets[k.user] \in Seq([Assets -> Int])
      BY <1>1 DEF TypeOK
    <3> QED BY <1>7, <3>1 DEF Deduct, CanPay, HasWallet
  <2>3. HasWallet(wallets'[k.user])
    BY <1>1, <2>2, WalletsStay
  <2>4. /\ call'[c].user = k.user /\ call'[c].reply = "none" /\ call'[c].pc = "read"
        /\ Others
    BY <2>1, TookEffect
  <2> QED BY <2>1, <2>3, <2>4
<1>8. CASE DeductRefused(c)
  <2>1. Set(c, "done", "fail", k.applied) /\ k.pc = "begin" /\ faults' = faults
    BY <1>8 DEF DeductRefused, Reply, At
  <2> QED BY <1>2, <2>1, SetFields
<1>9. CASE Add(c)
  <2>1. faults' = faults /\ k.pc = "begin"
    BY <1>9 DEF Add, At
  <2>2. CASE HasWallet(wallets[k.user])
    <3>1. Set(c, "read", "none", TRUE)
      BY <1>9, <2>2 DEF Add, Applied
    <3>2. HasWallet(wallets'[k.user])
      BY <1>1, <2>2, WalletsStay
    <3>3. /\ call'[c].user = k.user /\ call'[c].reply = "none" /\ call'[c].pc = "read"
          /\ Others
      BY <3>1, TookEffect
    <3> QED BY <2>1, <3>2, <3>3
  <2>3. CASE ~ HasWallet(wallets[k.user])
    <3>1. Set(c, "read", "none", k.applied)
      BY <1>9, <2>3 DEF Add, Goto
    <3> QED BY <1>2, <2>1, <3>1, SetFields
  <2> QED BY <2>2, <2>3
<1>10. CASE ReadBack(c)
  <2>1. faults' = faults /\ k.pc = "read"
    BY <1>10 DEF ReadBack
  <2>2. CASE HasWallet(wallets[k.user])
    <3>1. Set(c, "done", "ok", k.applied)
      BY <1>10, <2>2 DEF ReadBack, Reply
    <3> QED BY <2>1, <3>1, SetFields
  <2>3. CASE ~ HasWallet(wallets[k.user])
    <3>1. Set(c, "done", "fail", k.applied)
      BY <1>10, <2>3 DEF ReadBack, Reply
    <3> QED BY <1>2, <2>1, <2>3, <3>1, SetFields
  <2> QED BY <2>2, <2>3
<1>11. CASE LockBalance(c)
  <2>1. /\ Set(c, "done", "ok", TRUE) \/ Set(c, "done", "fail", k.applied)
        /\ k.pc = "begin" /\ faults' = faults
    BY <1>11 DEF LockBalance, Reply, At
  <2>2. CASE Set(c, "done", "ok", TRUE)
    <3>1. call'[c].reply = "ok" /\ call'[c].pc = "done" /\ Others
      BY <2>2, TookEffect
    <3> QED BY <2>1, <3>1
  <2>3. CASE Set(c, "done", "fail", k.applied)
    BY <1>2, <2>1, <2>3, SetFields
  <2> QED BY <2>1, <2>2, <2>3
<1>12. CASE UnlockBalance(c)
  <2>1. Set(c, "done", "ok", HasWallet(wallets[k.user])) /\ faults' = faults
    BY <1>12 DEF UnlockBalance
  <2> QED BY <2>1, SetFields
<1>13. CASE DatabaseError(c)
  <2>1. Set(c, "done", "fail", k.applied) /\ faults' = faults + 1
    BY <1>13 DEF DatabaseError, Reply
  <2> QED BY <1>1, <2>1, SetFields
<1> QED BY <1>4, <1>5, <1>6, <1>7, <1>8, <1>9, <1>10, <1>11, <1>12, <1>13 DEF Step

-----------------------------------------------------------------------------
(* The initial state satisfies the invariant. *)
LEMMA InitInv == Init => IInv
<1> SUFFICES ASSUME Init PROVE IInv
  OBVIOUS
<1>1. TypeOK
  <2>1. call \in [Calls -> Call]
    BY DEF Init
  <2>2. <<>> \in Seq([Assets -> Int])
    OBVIOUS
  <2> QED BY <2>1, <2>2, BoundsAssumption DEF Init, TypeOK
<1>2. \A c \in Calls : call[c].pc = "done" /\ call[c].reply = "none"
  BY DEF Init
<1>3. \A u \in Users : wallets[u] = <<>> /\ Len(wallets[u]) = 0 /\ DOMAIN wallets[u] = 1..0
  BY DEF Init
<1>4. Balances
  BY <1>3 DEF Init, Balances, NonNegative, RowsNonNegative, NoLostUpdate, NothingBeforeWallet
<1>5. FailMeansUnchanged /\ ChangedIsVisible
  <2>1. \A c \in Calls : ~ call[c].applied
    BY DEF Init
  <2> QED BY <2>1 DEF FailMeansUnchanged, ChangedIsVisible
<1> QED BY <1>1, <1>2, <1>4, <1>5
        DEF IInv, Balances, DeductOkMeansCharged, PastUpdateIsCharged

(* Every step keeps the invariant. *)
LEMMA NextInv == IInv /\ [Next]_vars => IInv'
<1> SUFFICES ASSUME IInv, [Next]_vars PROVE IInv'
  OBVIOUS
<1>0. TypeOK'
  BY TypeStep DEF IInv
<1>1. CASE UNCHANGED vars
  BY <1>0, <1>1 DEF IInv, vars, NonNegative, NoLostUpdate, NothingBeforeWallet,
                    DeductOkMeansCharged, PastUpdateIsCharged, ChangedIsVisible,
                    FailMeansUnchanged
<1>2. ASSUME NEW c \in Calls, Step(c) PROVE IInv'
  <2>1. PICK u \in Users, a \in Assets, n \in Nat :
           \/ Inserted(u) \/ Charged(u, a, n) \/ Credited(u, a, n) \/ Missed(u, a, n)
           \/ UNCHANGED <<wallets, net>>
    BY <1>2, StepEffect DEF IInv
  <2>2. TypeOK /\ Balances
    BY DEF IInv, Balances
  <2>3. ASSUME UNCHANGED <<wallets, net>> PROVE Balances'
    BY <2>2, <2>3 DEF Balances, NonNegative, NoLostUpdate, NothingBeforeWallet
  <2>4. Balances'
    BY <2>1, <2>2, <2>3, InsertedKeepsBalances, ChargedKeepsBalances,
       CreditedKeepsBalances, MissedKeepsBalances, Zenon
  <2> QED BY <1>0, <1>2, <2>4, ReplyStep, FailStep DEF IInv, Balances
<1> QED BY <1>1, <1>2 DEF Next

(* The wallet service keeps its types. *)
THEOREM TypeCorrect == Spec => []TypeOK
<1>1. IInv => TypeOK
  BY DEF IInv
<1> QED BY InitInv, NextInv, <1>1, PTL DEF Spec

(* No concurrency of CreateWallet, DeductBalance, AddBalance, LockBalance  *)
(* and UnlockBalance drives a balance below zero.                          *)
THEOREM NeverNegative == Spec => []NonNegative
<1>1. IInv => NonNegative
  BY DEF IInv
<1> QED BY InitInv, NextInv, <1>1, PTL DEF Spec

(* A user's only wallet row holds the sum of the changes applied to it. *)
THEOREM UpdatesNotLost == Spec => []NoLostUpdate
<1>1. IInv => NoLostUpdate
  BY DEF IInv
<1> QED BY InitInv, NextInv, <1>1, PTL DEF Spec

(* A DeductBalance call that reports success has charged the user. *)
THEOREM DeductHonest == Spec => []DeductOkMeansCharged
<1>1. IInv => DeductOkMeansCharged
  BY DEF IInv
<1> QED BY InitInv, NextInv, <1>1, PTL DEF Spec

(* A call that fails without a database error has changed no balance. *)
THEOREM FailureIsClean == Spec => []FailMeansUnchanged
<1>1. IInv => FailMeansUnchanged
  BY DEF IInv
<1> QED BY InitInv, NextInv, <1>1, PTL DEF Spec

-----------------------------------------------------------------------------
(* Referral commissions                                                    *)

(* A call beyond its first step has a referrer and an order it pays for. *)
InFlight ==
  \A c \in Workers : ~ ReferralAt(c, "idle") =>
    Asset[referral[c].order] # "irr" /\ ReferrerOf(c) \in Members

(* What the calls at step pc will credit to u, or record for u. *)
UnderWay(u, pc) ==
  [c \in Workers |-> IF ReferralAt(c, pc) /\ ReferrerOf(c) = u THEN Commission(referral[c].order) ELSE 0]
ToCredit(u) == SumFunctionOnSet(UnderWay(u, "credit"), Workers)
ToRecord(u) == SumFunctionOnSet(UnderWay(u, "record"), Workers)

(* What was paid is on record, about to be recorded, or lost by a failure. *)
PaidIsTraced ==
  \A u \in Members : paid[u] <= recorded[u] + ToRecord(u) + errors * MaxCommission

(* What is on record, or will be, was paid to a wallet that exists. *)
RecordIsBacked == \A u \in WalletOwners : recorded[u] + ToRecord(u) <= paid[u]

(* Calls that passed the comparison leave u below the overshoot. *)
CreditsAreBounded ==
  \A u \in Members :
    paid[u] > 0 \/ (\E c \in Workers : ReferralAt(c, "credit") /\ ReferrerOf(c) = u) =>
      paid[u] + ToCredit(u) < Limit[u] + (Cardinality(Workers) + errors) * MaxCommission

CommissionsInv ==
  /\ ReferralTypeOK
  /\ InFlight
  /\ PaidIsTraced
  /\ RecordIsBacked
  /\ CreditsAreBounded

-----------------------------------------------------------------------------
(* No commission is larger than the largest. *)
LEMMA LargestCommission ==
  /\ MaxCommission \in Nat
  /\ \A o \in Purchases : Asset[o] # "irr" =>
       Commission(o) \in Nat /\ Commission(o) <= MaxCommission
<1> DEFINE P == {x \in Purchases : Asset[x] # "irr"}
           S == {Commission(o) : o \in P}
<1>1. \A o \in P : Commission(o) \in Nat
  BY PurchasesAssumption DEF Commission
<1>2. IsFiniteSet({0} \union S) /\ {0} \union S # {} /\ {0} \union S \subseteq Int
  <2>1. IsFiniteSet(P)
    BY PurchasesAssumption, FS_Subset
  <2> DEFINE f == [o \in P |-> Commission(o)]
  <2>2. IsFiniteSet({f[o] : o \in P})
    BY <2>1, FiniteImage
  <2>3. IsFiniteSet(S \union {0})
    <3>1. S = {f[o] : o \in P}
      OBVIOUS
    <3> QED BY <2>2, <3>1, FS_AddElement
  <2>4. S \union {0} = {0} \union S
    OBVIOUS
  <2> QED BY <1>1, <2>3, <2>4
<1>3. MaxCommission \in {0} \union S /\ \A n \in {0} \union S : n <= MaxCommission
  BY <1>2, LargestOf DEF MaxCommission
<1> QED BY <1>1, <1>3

(* What the calls owe is a natural number, and one call owes no more than  *)
(* the largest commission.                                                 *)
LEMMA PendingType ==
  ASSUME ReferralTypeOK, InFlight, NEW u, NEW pc \in {"credit", "record"}
  PROVE  /\ \A c \in Workers : UnderWay(u, pc)[c] \in Nat /\ UnderWay(u, pc)[c] <= MaxCommission
         /\ SumFunctionOnSet(UnderWay(u, pc), Workers) \in Nat
<1>1. ASSUME NEW c \in Workers
      PROVE  UnderWay(u, pc)[c] \in Nat /\ UnderWay(u, pc)[c] <= MaxCommission
  <2>1. referral[c].order \in Purchases
    BY DEF ReferralTypeOK, ReferralCall
  <2>2. ReferralAt(c, pc) => Commission(referral[c].order) \in Nat /\ Commission(referral[c].order) <= MaxCommission
    BY <2>1, LargestCommission DEF InFlight, ReferralAt
  <2>3. MaxCommission \in Nat
    BY LargestCommission
  <2> QED BY <2>2, <2>3 DEF UnderWay
<1>2. SumFunctionOnSet(UnderWay(u, pc), Workers) \in Nat
  BY <1>1, ErrorsAssumption, SumNat
<1> QED BY <1>1, <1>2

(* A step of call c changes the debts of the calls by that of c. *)
LEMMA OneCall ==
  ASSUME ReferralTypeOK, InFlight, ReferralTypeOK', InFlight', NEW c \in Workers,
         \A d \in Workers \ {c} : referral'[d] = referral[d], NEW u
  PROVE  /\ ToCredit(u)' = ToCredit(u) - UnderWay(u, "credit")[c] + UnderWay(u, "credit")'[c]
         /\ ToRecord(u)' = ToRecord(u) - UnderWay(u, "record")[c] + UnderWay(u, "record")'[c]
<1>1. ASSUME NEW pc \in {"credit", "record"}
      PROVE  SumFunctionOnSet(UnderWay(u, pc)', Workers) =
               SumFunctionOnSet(UnderWay(u, pc), Workers) - UnderWay(u, pc)[c] + UnderWay(u, pc)'[c]
  <2>1. \A d \in Workers : UnderWay(u, pc)[d] \in Int
    BY PendingType
  <2>2. UnderWay(u, pc)'[c] \in Int
    <3>1. c \in Workers /\ referral'[c].order \in Purchases
      BY DEF ReferralTypeOK, ReferralCall
    <3>2. referral'[c].pc = pc => Commission(referral'[c].order) \in Nat
      BY <3>1, LargestCommission DEF InFlight, ReferralAt
    <3> QED BY <3>2 DEF UnderWay, ReferralAt
  <2>3. \A d \in Workers \ {c} : UnderWay(u, pc)'[d] = UnderWay(u, pc)[d]
    BY DEF UnderWay, ReferralAt, ReferrerOf
  <2>4. PICK f, g : f = UnderWay(u, pc) /\ g = UnderWay(u, pc)'
    OBVIOUS
  <2>5. SumFunctionOnSet(g, Workers) = SumFunctionOnSet(f, Workers) - f[c] + g[c]
    BY <2>1, <2>2, <2>3, <2>4, ErrorsAssumption, SumUpdate
  <2> QED BY <2>4, <2>5
<1> QED BY <1>1 DEF ToCredit, ToRecord

-----------------------------------------------------------------------------
(* A step keeps the types, and moves one call. *)
LEMMA StepType ==
  ASSUME ReferralTypeOK, InFlight, NEW c \in Workers, ReferralStep(c)
  PROVE  /\ ReferralTypeOK' /\ InFlight'
         /\ \A d \in Workers \ {c} : referral'[d] = referral[d]
<1>1. /\ referral[c] \in ReferralCall /\ referral[c].order \in Purchases /\ referral \in [Workers -> ReferralCall]
      /\ ~ ReferralAt(c, "idle") => /\ ReferrerOf(c) \in Members
                            /\ Commission(referral[c].order) \in Nat
  BY LargestCommission DEF ReferralTypeOK, ReferralCall, InFlight
<1>2. Free \in ReferralCall /\ Free.pc = "idle"
  <2>1. (CHOOSE o \in Purchases : TRUE) \in Purchases
    BY PurchasesAssumption
  <2> QED BY <2>1 DEF Free, ReferralCall
<1>3. ASSUME NEW k \in ReferralCall, referral' = [referral EXCEPT ![c] = k],
             k.pc # "idle" => Asset[k.order] # "irr" /\ Referrer[Buyer[k.order]] \in Members
      PROVE  /\ referral' \in [Workers -> ReferralCall] /\ InFlight'
             /\ \A d \in Workers \ {c} : referral'[d] = referral[d]
  BY <1>1, <1>3 DEF InFlight, ReferralAt, ReferrerOf
<1>4. ASSUME EndReferral(c)
      PROVE  /\ referral' \in [Workers -> ReferralCall] /\ InFlight'
             /\ \A d \in Workers \ {c} : referral'[d] = referral[d]
  <2>1. PICK k : k = Free
    OBVIOUS
  <2>2. k \in ReferralCall /\ k.pc = "idle" /\ referral' = [referral EXCEPT ![c] = k]
    BY <1>2, <1>4, <2>1 DEF EndReferral
  <2> QED BY <1>3, <2>2
<1>5. ASSUME NEW pc \in {"credit", "record"}, MoveTo(c, pc), ~ ReferralAt(c, "idle")
      PROVE  /\ referral' \in [Workers -> ReferralCall] /\ InFlight'
             /\ \A d \in Workers \ {c} : referral'[d] = referral[d]
  <2>1. PICK k : k = [referral[c] EXCEPT !.pc = pc]
    OBVIOUS
  <2>2. k \in ReferralCall /\ k.order = referral[c].order
    BY <1>1, <2>1 DEF ReferralCall
  <2>3. Asset[k.order] # "irr" /\ Referrer[Buyer[k.order]] \in Members
    BY <1>5, <2>2 DEF InFlight, ReferrerOf
  <2>4. referral' = [referral EXCEPT ![c] = k]
    BY <1>5, <2>1 DEF MoveTo
  <2> QED BY <1>3, <2>2, <2>3, <2>4
<1>6. CASE ProcessReferral(c)
  <2>1. PICK o \in Purchases : /\ requested' = requested \union {o}
                               /\ IF Asset[o] # "irr" /\ Referrer[Buyer[o]] # None
                                 THEN referral' = [referral EXCEPT ![c] = [pc |-> "total", order |-> o]]
                                 ELSE UNCHANGED referral
    BY <1>6 DEF ProcessReferral
  <2>2. [pc |-> "total", order |-> o] \in ReferralCall
    BY DEF ReferralCall
  <2>3. Referrer[Buyer[o]] # None => Referrer[Buyer[o]] \in Members
    BY PurchasesAssumption, MembersAssumption
  <2>4. /\ referral' \in [Workers -> ReferralCall] /\ InFlight'
        /\ \A d \in Workers \ {c} : referral'[d] = referral[d]
    <3>1. CASE Asset[o] # "irr" /\ Referrer[Buyer[o]] # None
      BY <1>3, <2>1, <2>2, <2>3, <3>1
    <3>2. CASE UNCHANGED referral
      BY <1>1, <3>2 DEF InFlight, ReferralAt, ReferrerOf
    <3> QED BY <2>1, <3>1, <3>2
  <2> QED BY <1>6, <2>1, <2>4 DEF ProcessReferral, ReferralTypeOK
<1>7. CASE CheckLimit(c)
  <2>1. EndReferral(c) \/ (MoveTo(c, "credit") /\ ~ ReferralAt(c, "idle"))
    BY <1>7 DEF CheckLimit, ReferralAt
  <2>2. /\ referral' \in [Workers -> ReferralCall] /\ InFlight'
        /\ \A d \in Workers \ {c} : referral'[d] = referral[d]
    <3>1. CASE EndReferral(c)
      BY <1>4, <3>1
    <3>2. CASE MoveTo(c, "credit") /\ ~ ReferralAt(c, "idle")
      BY <1>5, <3>2
    <3> QED BY <2>1, <3>1, <3>2
  <2> QED BY <1>7, <2>2 DEF CheckLimit, ReferralTypeOK
<1>8. CASE CreditReferrer(c)
  <2>1. MoveTo(c, "record") /\ ~ ReferralAt(c, "idle")
    BY <1>8 DEF CreditReferrer, ReferralAt
  <2>2. /\ referral' \in [Workers -> ReferralCall] /\ InFlight'
        /\ \A d \in Workers \ {c} : referral'[d] = referral[d]
    BY <1>5, <2>1
  <2>3. paid' \in [Members -> Nat]
    <3>1. paid' = paid \/ paid' = [paid EXCEPT ![ReferrerOf(c)] = @ + Commission(referral[c].order)]
      BY <1>8 DEF CreditReferrer
    <3> QED BY <1>1, <2>1, <3>1 DEF ReferralTypeOK
  <2> QED BY <1>8, <2>2, <2>3 DEF CreditReferrer, ReferralTypeOK
<1>9. CASE Record(c)
  <2>1. EndReferral(c) /\ ~ ReferralAt(c, "idle")
    BY <1>9 DEF Record, ReferralAt
  <2>2. recorded' \in [Members -> Nat]
    BY <1>1, <1>9, <2>1 DEF Record, ReferralTypeOK
  <2> QED BY <1>4, <1>9, <2>1, <2>2 DEF Record, ReferralTypeOK
<1>10. CASE StatementFails(c)
  <2>1. errors' \in 0..MaxErrors
    BY <1>10, ErrorsAssumption DEF StatementFails, ReferralTypeOK
  <2> QED BY <1>4, <1>10, <2>1 DEF StatementFails, ReferralTypeOK
<1> QED BY <1>6, <1>7, <1>8, <1>9, <1>10 DEF ReferralStep

-----------------------------------------------------------------------------
(* The numbers of one user that the invariant relates. *)
Traced(u)  == paid[u] <= recorded[u] + ToRecord(u) + errors * MaxCommission
Backed(u)  == u \in WalletOwners => recorded[u] + ToRecord(u) <= paid[u]
Bounded(u) ==
  paid[u] > 0 \/ (\E c \in Workers : ReferralAt(c, "credit") /\ ReferrerOf(c) = u) =>
    paid[u] + ToCredit(u) < Limit[u] + (Cardinality(Workers) + errors) * MaxCommission

(* The bounds of the model are natural numbers. *)
LEMMA Numbers ==
  ASSUME ReferralTypeOK, InFlight, NEW u \in Members
  PROVE  /\ paid[u] \in Nat /\ recorded[u] \in Nat /\ Limit[u] \in Nat
         /\ ToRecord(u) \in Nat /\ ToCredit(u) \in Nat
         /\ MaxCommission \in Nat /\ Cardinality(Workers) \in Nat /\ errors \in Nat
         /\ errors * MaxCommission \in Nat
         /\ (Cardinality(Workers) + errors) * MaxCommission =
              Cardinality(Workers) * MaxCommission + errors * MaxCommission
         /\ Cardinality(Workers) * MaxCommission \in Nat
<1>1. /\ paid[u] \in Nat /\ recorded[u] \in Nat /\ Limit[u] \in Nat /\ errors \in Nat
      /\ Cardinality(Workers) \in Nat
  BY MembersAssumption, ErrorsAssumption, FS_CardinalityType DEF ReferralTypeOK
<1>2. ToRecord(u) \in Nat /\ ToCredit(u) \in Nat
  BY PendingType DEF ToRecord, ToCredit
<1>3. MaxCommission \in Nat
  BY LargestCommission
<1>4. \A x, y, z \in Nat : x * z \in Nat /\ (x + y) * z = x * z + y * z
  OBVIOUS
<1> QED BY <1>1, <1>2, <1>3, <1>4

(* A call that is neither about to credit nor about to record owes nothing.*)
LEMMA StepDebts ==
  ASSUME ReferralTypeOK, InFlight, NEW c \in Workers, ReferralStep(c), NEW u \in Members
  PROVE  /\ ToCredit(u)' = ToCredit(u) - UnderWay(u, "credit")[c] + UnderWay(u, "credit")'[c]
         /\ ToRecord(u)' = ToRecord(u) - UnderWay(u, "record")[c] + UnderWay(u, "record")'[c]
BY StepType, OneCall

(* The commissions that calls owe u, at two different steps, are at most   *)
(* one for each call.                                                      *)
LEMMA DebtsAreBounded ==
  ASSUME ReferralTypeOK, InFlight, NEW u \in Members
  PROVE  ToCredit(u) + ToRecord(u) <= Cardinality(Workers) * MaxCommission
<1> DEFINE h == [c \in Workers |-> UnderWay(u, "credit")[c] + UnderWay(u, "record")[c]]
           m == [c \in Workers |-> MaxCommission]
<1>1. ASSUME NEW c \in Workers
      PROVE  /\ UnderWay(u, "credit")[c] \in Nat /\ UnderWay(u, "record")[c] \in Nat
             /\ h[c] \in Nat /\ h[c] <= MaxCommission /\ MaxCommission \in Nat
  <2>1. /\ UnderWay(u, "credit")[c] \in Nat /\ UnderWay(u, "credit")[c] <= MaxCommission
        /\ UnderWay(u, "record")[c] \in Nat /\ UnderWay(u, "record")[c] <= MaxCommission
    BY PendingType
  <2>2. UnderWay(u, "credit")[c] = 0 \/ UnderWay(u, "record")[c] = 0
    BY DEF UnderWay, ReferralAt
  <2> QED BY <2>1, <2>2, LargestCommission
<1>2. SumFunctionOnSet(h, Workers) = ToCredit(u) + ToRecord(u)
  <2>1. PICK f, g : f = UnderWay(u, "credit") /\ g = UnderWay(u, "record")
    OBVIOUS
  <2>2. \A c \in Workers : f[c] \in Int /\ g[c] \in Int /\ h[c] = f[c] + g[c]
    BY <1>1, <2>1
  <2> HIDE DEF h
  <2>3. SumFunctionOnSet(h, Workers) = SumFunctionOnSet(f, Workers) + SumFunctionOnSet(g, Workers)
    <3>1. IsFiniteSet(Workers)
      BY ErrorsAssumption
    <3>2. PICK k : k = h
      OBVIOUS
    <3>3. \A c \in Workers : f[c] \in Int /\ g[c] \in Int /\ k[c] = f[c] + g[c]
      BY <2>2, <3>2
    <3>4. SumFunctionOnSet(k, Workers) = SumFunctionOnSet(f, Workers) + SumFunctionOnSet(g, Workers)
      BY <3>1, <3>3, SumPlus
    <3> QED BY <3>2, <3>4
  <2> QED BY <2>1, <2>3 DEF ToCredit, ToRecord
<1>3. SumFunctionOnSet(m, Workers) = MaxCommission * Cardinality(Workers)
  <2>1. \A c \in Workers : m[c] = MaxCommission
    OBVIOUS
  <2> HIDE DEF m
  <2> QED BY <2>1, ErrorsAssumption, LargestCommission, SumConstant
<1>4. SumFunctionOnSet(h, Workers) <= SumFunctionOnSet(m, Workers)
  <2>1. \A c \in Workers : h[c] \in Int /\ m[c] \in Int /\ h[c] <= m[c]
    BY <1>1
  <2> HIDE DEF h, m
  <2> QED BY <2>1, ErrorsAssumption, SumMonotone
<1>5. MaxCommission * Cardinality(Workers) = Cardinality(Workers) * MaxCommission
  BY LargestCommission, ErrorsAssumption, FS_CardinalityType
<1> QED BY <1>2, <1>3, <1>4, <1>5

(* The numbers and the bound of one user, before and after a step. *)
Numeric(u) ==
  /\ paid[u] \in Nat /\ recorded[u] \in Nat /\ Limit[u] \in Nat
  /\ ToRecord(u) \in Nat /\ ToCredit(u) \in Nat
  /\ MaxCommission \in Nat /\ errors * MaxCommission \in Nat
  /\ Cardinality(Workers) * MaxCommission \in Nat
  /\ (Cardinality(Workers) + errors) * MaxCommission =
       Cardinality(Workers) * MaxCommission + errors * MaxCommission
  /\ ToCredit(u) + ToRecord(u) <= Cardinality(Workers) * MaxCommission

(* What the types say of the numbers, in a form that can be primed. *)
LEMMA Numerals == ReferralTypeOK /\ InFlight => \A u \in Members : Numeric(u)
BY Numbers, DebtsAreBounded DEF Numeric

(* The same of the state after a step. *)
LEMMA NumeralsNext == (ReferralTypeOK /\ InFlight => \A u \in Members : Numeric(u))'
BY Numerals, PTL

-----------------------------------------------------------------------------
(* Whether some call is about to credit u. *)
Awaited(u) == \E c \in Workers : ReferralAt(c, "credit") /\ ReferrerOf(c) = u

(* What call c owes u, at whichever of the two steps it is. *)
Share(c, u) == IF ReferrerOf(c) = u THEN Commission(referral[c].order) ELSE 0

(* What a call that returns owes afterwards, and whom others still await.  *)
LEMMA AfterReturn ==
  ASSUME ReferralTypeOK, NEW c \in Workers, EndReferral(c), NEW u
  PROVE  /\ UnderWay(u, "credit")'[c] = 0 /\ UnderWay(u, "record")'[c] = 0
         /\ Awaited(u)' => Awaited(u)
<1>1. PICK k : k = Free
  OBVIOUS
<1>2. k.pc = "idle" /\ referral' = [referral EXCEPT ![c] = k] /\ referral \in [Workers -> ReferralCall]
  BY <1>1 DEF Free, EndReferral, ReferralTypeOK
<1>3. referral'[c].pc = "idle" /\ \A d \in Workers \ {c} : referral'[d] = referral[d]
  BY <1>2
<1> QED BY <1>3 DEF UnderWay, ReferralAt, Awaited, ReferrerOf

(* The same for a call that goes on to the step pc.                        *)
LEMMA AfterGoto ==
  ASSUME ReferralTypeOK, NEW c \in Workers, NEW pc, MoveTo(c, pc), NEW u
  PROVE  /\ UnderWay(u, "credit")'[c] = IF pc = "credit" THEN Share(c, u) ELSE 0
         /\ UnderWay(u, "record")'[c] = IF pc = "record" THEN Share(c, u) ELSE 0
         /\ Awaited(u)' => Awaited(u) \/ (pc = "credit" /\ ReferrerOf(c) = u)
<1>1. referral[c] \in ReferralCall /\ referral \in [Workers -> ReferralCall]
  BY DEF ReferralTypeOK
<1>2. PICK k : k = [referral[c] EXCEPT !.pc = pc]
  OBVIOUS
<1>3. k.pc = pc /\ k.order = referral[c].order /\ referral' = [referral EXCEPT ![c] = k]
  BY <1>1, <1>2 DEF MoveTo, ReferralCall
<1>4. /\ referral'[c].pc = pc /\ referral'[c].order = referral[c].order
      /\ \A d \in Workers \ {c} : referral'[d] = referral[d]
  BY <1>1, <1>3
<1> QED BY <1>4 DEF UnderWay, ReferralAt, Awaited, ReferrerOf, Share, Commission

(* One user's numbers stay related when a call takes a step.               *)
LEMMA UserStep ==
  ASSUME ReferralTypeOK, InFlight, NEW c \in Workers, ReferralStep(c), NEW u \in Members,
         Traced(u), Backed(u), Bounded(u)
  PROVE  Traced(u)' /\ Backed(u)' /\ Bounded(u)'
<1> DEFINE F == errors * MaxCommission
           F1 == errors' * MaxCommission
           C == Cardinality(Workers) * MaxCommission
<1>1. ReferralTypeOK' /\ InFlight'
  BY StepType
<1>2. /\ paid[u] \in Nat /\ recorded[u] \in Nat /\ Limit[u] \in Nat
      /\ ToRecord(u) \in Nat /\ ToCredit(u) \in Nat
      /\ MaxCommission \in Nat /\ F \in Nat /\ C \in Nat
      /\ (Cardinality(Workers) + errors) * MaxCommission = C + F
  BY Numbers
<1>3. /\ paid'[u] \in Nat /\ recorded'[u] \in Nat
      /\ ToRecord(u)' \in Nat /\ ToCredit(u)' \in Nat /\ F1 \in Nat
      /\ (Cardinality(Workers) + errors') * MaxCommission = C + F1
  <2>1. (\A v \in Members : Numeric(v))'
    BY <1>1, NumeralsNext
  <2> QED BY <2>1 DEF Numeric, MaxCommission, Commission
<1>4. /\ paid[u] <= recorded[u] + ToRecord(u) + F
      /\ u \in WalletOwners => recorded[u] + ToRecord(u) <= paid[u]
      /\ paid[u] > 0 \/ Awaited(u) => paid[u] + ToCredit(u) < Limit[u] + (C + F)
  BY <1>2 DEF Traced, Backed, Bounded, Awaited
<1>5. SUFFICES
        /\ paid'[u] <= recorded'[u] + ToRecord(u)' + F1
        /\ u \in WalletOwners => recorded'[u] + ToRecord(u)' <= paid'[u]
        /\ paid'[u] > 0 \/ Awaited(u)' => paid'[u] + ToCredit(u)' < Limit[u] + (C + F1)
  <2>1. MaxCommission' = MaxCommission
    BY DEF MaxCommission, Commission
  <2> QED BY <1>3, <2>1 DEF Traced, Backed, Bounded, Awaited
<1>6. /\ ToCredit(u)' = ToCredit(u) - UnderWay(u, "credit")[c] + UnderWay(u, "credit")'[c]
      /\ ToRecord(u)' = ToRecord(u) - UnderWay(u, "record")[c] + UnderWay(u, "record")'[c]
  BY StepDebts
<1>7. /\ UnderWay(u, "credit")[c] = IF ReferralAt(c, "credit") THEN Share(c, u) ELSE 0
      /\ UnderWay(u, "record")[c] = IF ReferralAt(c, "record") THEN Share(c, u) ELSE 0
  BY DEF UnderWay, Share
<1>8. ~ ReferralAt(c, "idle") => Share(c, u) \in Nat /\ Share(c, u) <= MaxCommission
  BY LargestCommission DEF Share, InFlight, ReferralTypeOK, ReferralCall
<1> HIDE DEF F, F1, C
<1>9. CASE ProcessReferral(c)
  <2>1. /\ UNCHANGED <<recorded, paid, errors>> /\ ReferralAt(c, "idle")
        /\ F1 = F
    BY <1>9 DEF ProcessReferral, F, F1
  <2>2. /\ referral'[c].pc # "credit" /\ referral'[c].pc # "record"
        /\ \A d \in Workers \ {c} : referral'[d] = referral[d]
    BY <1>9, StepType DEF ProcessReferral, ReferralAt, ReferralTypeOK
  <2>3. UnderWay(u, "credit")'[c] = 0 /\ UnderWay(u, "record")'[c] = 0
    BY <2>2 DEF UnderWay, ReferralAt
  <2>4. Awaited(u)' => Awaited(u)
    BY <2>2 DEF Awaited, ReferralAt, ReferrerOf
  <2>5. UnderWay(u, "credit")[c] = 0 /\ UnderWay(u, "record")[c] = 0
    BY <1>7, <2>1 DEF ReferralAt
  <2>6. ToCredit(u)' = ToCredit(u) /\ ToRecord(u)' = ToRecord(u)
    BY <1>2, <1>6, <2>3, <2>5
  <2> QED BY <1>2, <1>4, <2>1, <2>4, <2>6
<1>10. CASE CheckLimit(c)
  <2>1. UNCHANGED <<recorded, paid, errors>> /\ ReferralAt(c, "total") /\ F1 = F
    BY <1>10 DEF CheckLimit, F, F1
  <2>2. UnderWay(u, "credit")[c] = 0 /\ UnderWay(u, "record")[c] = 0
    BY <1>7, <2>1 DEF ReferralAt
  <2>3. CASE EndReferral(c)
    <3>1. /\ UnderWay(u, "credit")'[c] = 0 /\ UnderWay(u, "record")'[c] = 0
          /\ Awaited(u)' => Awaited(u)
      BY <2>3, AfterReturn
    <3>2. ToCredit(u)' = ToCredit(u) /\ ToRecord(u)' = ToRecord(u)
      BY <1>2, <1>6, <2>2, <3>1
    <3> QED BY <1>2, <1>4, <2>1, <3>1, <3>2
  <2>4. CASE MoveTo(c, "credit") /\ ~ recorded[ReferrerOf(c)] >= Limit[ReferrerOf(c)]
    <3>1. /\ UnderWay(u, "credit")'[c] = Share(c, u) /\ UnderWay(u, "record")'[c] = 0
          /\ Awaited(u)' => Awaited(u) \/ ReferrerOf(c) = u
      BY <2>4, AfterGoto
    <3>2. ToCredit(u)' = ToCredit(u) + Share(c, u) /\ ToRecord(u)' = ToRecord(u)
      BY <1>2, <1>3, <1>6, <1>8, <2>1, <2>2, <3>1 DEF ReferralAt
    <3>3. ToCredit(u)' + ToRecord(u)' <= C
      <4>1. (\A v \in Members : Numeric(v))'
        BY <1>1, NumeralsNext
      <4> QED BY <4>1 DEF Numeric, C, MaxCommission, Commission
    <3>4. CASE ReferrerOf(c) = u
      <4>1. recorded[u] < Limit[u]
        BY <1>2, <2>4, <3>4
      <4> QED BY <1>2, <1>3, <1>4, <2>1, <3>2, <3>3, <4>1
    <3>5. CASE ReferrerOf(c) # u
      <4>1. ToCredit(u)' = ToCredit(u) /\ (Awaited(u)' => Awaited(u))
        BY <1>2, <3>1, <3>2, <3>5 DEF Share
      <4> QED BY <1>2, <1>4, <2>1, <3>2, <4>1
    <3> QED BY <3>4, <3>5
  <2> QED BY <1>10, <2>3, <2>4 DEF CheckLimit
<1>11. CASE CreditReferrer(c)
  <2>1. /\ UNCHANGED <<recorded, errors>> /\ ReferralAt(c, "credit") /\ MoveTo(c, "record") /\ F1 = F
        /\ Share(c, u) \in Nat
    BY <1>8, <1>11 DEF CreditReferrer, F, F1, ReferralAt
  <2>2. /\ UnderWay(u, "credit")[c] = Share(c, u) /\ UnderWay(u, "record")[c] = 0
        /\ UnderWay(u, "credit")'[c] = 0 /\ UnderWay(u, "record")'[c] = Share(c, u)
        /\ Awaited(u)' => Awaited(u)
    BY <1>7, <2>1, AfterGoto DEF ReferralAt
  <2>3. /\ ToCredit(u)' = ToCredit(u) - Share(c, u)
        /\ ToRecord(u)' = ToRecord(u) + Share(c, u)
    BY <1>2, <1>6, <2>1, <2>2
  <2>4. paid'[u] = IF ReferrerOf(c) = u /\ u \in WalletOwners
                     THEN paid[u] + Share(c, u) ELSE paid[u]
    BY <1>11 DEF CreditReferrer, Share, ReferralTypeOK
  <2>5. ReferrerOf(c) = u => Awaited(u)
    BY <2>1 DEF Awaited
  <2>6. ReferrerOf(c) # u => Share(c, u) = 0
    BY DEF Share
  <2> QED BY <1>2, <1>4, <2>1, <2>2, <2>3, <2>4, <2>5, <2>6
<1>12. CASE Record(c)
  <2>1. /\ UNCHANGED <<paid, errors>> /\ ReferralAt(c, "record") /\ EndReferral(c) /\ F1 = F
        /\ Share(c, u) \in Nat
    BY <1>8, <1>12 DEF Record, F, F1, ReferralAt
  <2>2. /\ UnderWay(u, "credit")[c] = 0 /\ UnderWay(u, "record")[c] = Share(c, u)
        /\ UnderWay(u, "credit")'[c] = 0 /\ UnderWay(u, "record")'[c] = 0
        /\ Awaited(u)' => Awaited(u)
    BY <1>7, <2>1, AfterReturn DEF ReferralAt
  <2>3. ToCredit(u)' = ToCredit(u) /\ ToRecord(u)' = ToRecord(u) - Share(c, u)
    BY <1>2, <1>6, <2>1, <2>2
  <2>4. recorded'[u] = recorded[u] + Share(c, u)
    BY <1>2, <1>12 DEF Record, Share, ReferralTypeOK
  <2> QED BY <1>2, <1>4, <2>1, <2>2, <2>3, <2>4
<1>13. CASE StatementFails(c)
  <2>1. /\ UNCHANGED <<recorded, paid>> /\ EndReferral(c) /\ errors' = errors + 1
        /\ Share(c, u) \in Nat /\ Share(c, u) <= MaxCommission
    BY <1>8, <1>13 DEF StatementFails
  <2>2. F1 = F + MaxCommission
    <3>1. \A x, y \in Nat : (x + 1) * y = x * y + y
      OBVIOUS
    <3> QED BY <1>2, <2>1, <3>1 DEF F, F1, ReferralTypeOK
  <2>3. /\ UnderWay(u, "credit")'[c] = 0 /\ UnderWay(u, "record")'[c] = 0
        /\ Awaited(u)' => Awaited(u)
    BY <2>1, AfterReturn
  <2>4. /\ ToCredit(u)' <= ToCredit(u)
        /\ ToRecord(u)' <= ToRecord(u) /\ ToRecord(u) <= ToRecord(u)' + MaxCommission
    BY <1>2, <1>3, <1>6, <1>7, <2>1, <2>3
  <2> QED BY <1>2, <1>3, <1>4, <2>1, <2>2, <2>3, <2>4
<1> QED BY <1>9, <1>10, <1>11, <1>12, <1>13 DEF ReferralStep

-----------------------------------------------------------------------------
(* A call that is idle owes nothing, and the sums over idle calls are 0.   *)
LEMMA IdleOweNothing ==
  ASSUME ReferralTypeOK, InFlight, \A c \in Workers : ReferralAt(c, "idle"), NEW u
  PROVE  ToCredit(u) = 0 /\ ToRecord(u) = 0
<1>1. ASSUME NEW pc \in {"credit", "record"}
      PROVE  SumFunctionOnSet(UnderWay(u, pc), Workers) = 0
  <2>1. PICK f : f = UnderWay(u, pc)
    OBVIOUS
  <2>2. \A c \in Workers : f[c] = 0
    BY <2>1 DEF UnderWay, ReferralAt
  <2>3. SumFunctionOnSet(f, Workers) = 0 * Cardinality(Workers)
    BY <2>2, ErrorsAssumption, SumConstant
  <2>4. Cardinality(Workers) \in Nat
    BY ErrorsAssumption, FS_CardinalityType
  <2> QED BY <2>1, <2>3, <2>4
<1> QED BY <1>1 DEF ToCredit, ToRecord

(* The invariant holds at the start. *)
LEMMA ReferralInitInv == ReferralInit => CommissionsInv
<1> SUFFICES ASSUME ReferralInit PROVE CommissionsInv
  OBVIOUS
<1>1. Free \in ReferralCall /\ Free.pc = "idle"
  <2>1. (CHOOSE o \in Purchases : TRUE) \in Purchases
    BY PurchasesAssumption
  <2> QED BY <2>1 DEF Free, ReferralCall
<1>2. ReferralTypeOK /\ \A c \in Workers : ReferralAt(c, "idle")
  BY <1>1, ErrorsAssumption DEF ReferralInit, ReferralTypeOK, ReferralAt
<1>3. InFlight
  BY <1>2 DEF InFlight
<1>4. ASSUME NEW u \in Members
      PROVE  /\ paid[u] = 0 /\ recorded[u] = 0 /\ ToRecord(u) = 0
             /\ ~ \E c \in Workers : ReferralAt(c, "credit") /\ ReferrerOf(c) = u
  BY <1>2, <1>3, IdleOweNothing DEF ReferralInit, ReferralAt
<1>5. errors * MaxCommission = 0
  BY LargestCommission DEF ReferralInit
<1> QED BY <1>2, <1>3, <1>4, <1>5, MembersAssumption
        DEF CommissionsInv, PaidIsTraced, RecordIsBacked, CreditsAreBounded

(* Every step keeps the invariant. *)
LEMMA ReferralNextInv == CommissionsInv /\ [ReferralNext]_referralVars => CommissionsInv'
<1> SUFFICES ASSUME CommissionsInv, [ReferralNext]_referralVars PROVE CommissionsInv'
  OBVIOUS
<1>1. CASE UNCHANGED referralVars
  BY <1>1 DEF referralVars, CommissionsInv, ReferralTypeOK, InFlight, PaidIsTraced, RecordIsBacked, CreditsAreBounded,
              ToCredit, ToRecord, UnderWay, ReferralAt, ReferrerOf, MaxCommission, Commission
<1>2. ASSUME NEW c \in Workers, ReferralStep(c) PROVE CommissionsInv'
  <2>1. ReferralTypeOK' /\ InFlight'
    BY <1>2, StepType DEF CommissionsInv
  <2>2. ASSUME NEW u \in Members PROVE Traced(u)' /\ Backed(u)' /\ Bounded(u)'
    <3>1. Traced(u) /\ Backed(u) /\ Bounded(u)
      BY DEF CommissionsInv, PaidIsTraced, RecordIsBacked, CreditsAreBounded, Traced, Backed, Bounded
    <3> QED BY <1>2, <3>1, UserStep DEF CommissionsInv
  <2> QED BY <2>1, <2>2, MembersAssumption
          DEF CommissionsInv, PaidIsTraced, RecordIsBacked, CreditsAreBounded, Traced, Backed, Bounded
<1> QED BY <1>1, <1>2 DEF ReferralNext

(* The invariant of the specification. *)
LEMMA CommissionsKept == ReferralSpec => []CommissionsInv
BY ReferralInitInv, ReferralNextInv, PTL DEF ReferralSpec

(* The referral history and the commissions paid agree in both directions: *)
(* what is on record was paid, and without failures everything that was    *)
(* paid to a wallet is on record once no call is in flight.                *)
THEOREM HistoryAgrees == ReferralSpec => []HistoryInv
<1>1. CommissionsInv => HistoryInv
  <2> SUFFICES ASSUME CommissionsInv PROVE HistoryInv
    OBVIOUS
  <2>1. ASSUME NEW u \in WalletOwners PROVE recorded[u] <= paid[u]
    BY <2>1, MembersAssumption, Numbers DEF CommissionsInv, RecordIsBacked
  <2>2. ASSUME \A c \in Workers : ReferralAt(c, "idle"), errors = 0, NEW u \in WalletOwners
        PROVE  paid[u] = recorded[u]
    <3>1. ToRecord(u) = 0
      BY <2>2, IdleOweNothing DEF CommissionsInv
    <3>2. /\ paid[u] <= recorded[u] + ToRecord(u) + errors * MaxCommission
          /\ recorded[u] <= paid[u] /\ u \in Members
      BY <2>1, MembersAssumption DEF CommissionsInv, PaidIsTraced
    <3>3. errors * MaxCommission = 0
      BY <2>2, LargestCommission
    <3>4. paid[u] \in Nat /\ recorded[u] \in Nat
      BY <3>2, Numbers DEF CommissionsInv
    <3> QED BY <3>1, <3>2, <3>3, <3>4
  <2> QED BY <2>1, <2>2 DEF CommissionsInv, HistoryInv, RecordedWasPaid, PaidIsRecorded
<1> QED BY <1>1, CommissionsKept, PTL

(* The limit of a referrer is overshot by less than one commission for     *)
(* each call that can be in flight and one for each failure, however the   *)
(* calls interleave their reads of the total and their credits.            *)
THEOREM OvershootBounded == ReferralSpec => []OvershootIsBounded
<1>1. CommissionsInv => OvershootIsBounded
  <2> SUFFICES ASSUME CommissionsInv, NEW u \in Members, paid[u] > 0
               PROVE  paid[u] < Limit[u] + (Cardinality(Workers) + errors) * MaxCommission
    BY DEF OvershootIsBounded
  <2>1. paid[u] + ToCredit(u) < Limit[u] + (Cardinality(Workers) + errors) * MaxCommission
    BY DEF CommissionsInv, CreditsAreBounded
  <2>2. /\ paid[u] \in Nat /\ ToCredit(u) \in Nat /\ Limit[u] \in Nat
        /\ (Cardinality(Workers) + errors) * MaxCommission =
             Cardinality(Workers) * MaxCommission + errors * MaxCommission
        /\ Cardinality(Workers) * MaxCommission \in Nat /\ errors * MaxCommission \in Nat
    BY Numbers DEF CommissionsInv
  <2> QED BY <2>1, <2>2
<1> QED BY <1>1, CommissionsKept, PTL

-----------------------------------------------------------------------------
(* The wallet client                                                       *)

(* The attempts of caller c whose requests are still on their way. *)
OnTheWay(c) == {a \in 1..MaxRetries : [caller |-> c, attempt |-> a] \in requests}

(* A request is executed once, so the attempts of a call bound how often   *)
(* it took effect together with how often it still may.                    *)
AttemptsCount ==
  \A c \in Callers :
    /\ OnTheWay(c) \subseteq 1..caller[c].attempt
    /\ applied[c] + Cardinality(OnTheWay(c)) <= caller[c].attempt

(* A reply answers an attempt that was made, and tells success truly. *)
RepliesAreTrue ==
  \A r \in replies :
    /\ r.attempt <= caller[r.caller].attempt
    /\ r.success => applied[r.caller] >= 1

(* A refused first attempt has no effect and nothing on its way. *)
NothingDone(c) == applied[c] = 0 /\ OnTheWay(c) = {}
RefusalIsExact ==
  failures = 0 => \A c \in Callers : caller[c].attempt = 1 =>
    /\ \A r \in replies : r.caller = c /\ ~r.success => NothingDone(c)
    /\ caller[c].result = "rejected" => NothingDone(c)

(* Attempts are counted from a call on and end with its result. *)
CallerInOrder ==
  \A c \in Callers :
    /\ caller[c].pc = "idle" => caller[c].attempt = 0
    /\ caller[c].pc \in {"call", "backoff"} => caller[c].attempt < MaxRetries
    /\ caller[c].result # "none" => caller[c].pc = "done"

ClientInv == /\ ClientTypeOK /\ CallerInOrder /\ AttemptsCount /\ RepliesAreTrue
             /\ OkMeansApplied /\ RefusalIsExact

-----------------------------------------------------------------------------
(* The attempts on their way are finitely many. *)
LEMMA OnTheWayFinite ==
  ASSUME NEW c \in Callers
  PROVE  /\ IsFiniteSet(OnTheWay(c))
         /\ Cardinality(OnTheWay(c)) \in Nat
         /\ Cardinality(OnTheWay(c)) = 0 <=> OnTheWay(c) = {}
<1>1. IsFiniteSet(1..MaxRetries)
  BY RetriesAssumption, FS_Interval
<1>2. OnTheWay(c) \in SUBSET (1..MaxRetries)
  BY DEF OnTheWay
<1>3. IsFiniteSet(OnTheWay(c))
  BY <1>1, <1>2, FS_Subset
<1> QED BY <1>3, FS_CardinalityType, FS_EmptySet

(* A call without requests on their way is counted by what took effect. *)
LEMMA NothingOnTheWay ==
  ASSUME ClientTypeOK, AttemptsCount, NEW c \in Callers, caller[c].attempt = 0
  PROVE  NothingDone(c)
<1>1. OnTheWay(c) = {}
  BY DEF AttemptsCount
<1>2. applied[c] \in Nat /\ applied[c] + Cardinality(OnTheWay(c)) <= 0
  BY DEF AttemptsCount, ClientTypeOK
<1> QED BY <1>1, <1>2, OnTheWayFinite DEF NothingDone

LEMMA ClientInitOK == ClientInit => ClientInv
<1> SUFFICES ASSUME ClientInit PROVE ClientInv
  OBVIOUS
<1> USE ChargesAssumption, RetriesAssumption DEF ClientInit
<1>1. ClientTypeOK
  <2>1. Unset \in Charges
    BY DEF Unset
  <2>2. rows \in Seq([Assets -> Int])
    BY DEF ClientInit
  <2> QED BY <2>1, <2>2 DEF ClientTypeOK, Caller, Methods
<1>2. \A c \in Callers : OnTheWay(c) = {}
  BY DEF OnTheWay
<1>3. CallerInOrder /\ RepliesAreTrue /\ OkMeansApplied /\ RefusalIsExact
  BY DEF CallerInOrder, RepliesAreTrue, OkMeansApplied, RefusalIsExact
<1>4. AttemptsCount
  BY <1>2, OnTheWayFinite DEF AttemptsCount
<1> QED BY <1>1, <1>3, <1>4 DEF ClientInv

-----------------------------------------------------------------------------
(* A step of a caller writes its next step, and its result in the end. *)
Moves(c, pc, r) ==
  \/ caller' = [caller EXCEPT ![c].pc = pc]
  \/ caller' = [caller EXCEPT ![c].pc = pc, ![c].result = r]

LEMMA CallerUpdate ==
  ASSUME ClientTypeOK, NEW c \in Callers,
         NEW pc \in {"idle", "call", "wait", "backoff", "done"},
         NEW r \in {"none", "ok", "rejected", "unavailable", "cancelled"},
         Moves(c, pc, r)
  PROVE  caller' \in [Callers -> Caller]
<1>1. caller[c] \in Caller
  BY DEF ClientTypeOK
<1>2. [caller[c] EXCEPT !.pc = pc] \in Caller
  BY <1>1 DEF Caller
<1>3. [caller[c] EXCEPT !.pc = pc, !.result = r] \in Caller
  BY <1>1 DEF Caller
<1> QED BY <1>2, <1>3 DEF ClientTypeOK, Moves

LEMMA MovesOnly ==
  ASSUME ClientTypeOK, NEW c \in Callers, NEW pc, NEW r, Moves(c, pc, r)
  PROVE  /\ caller'[c].pc = pc
         /\ caller'[c].attempt = caller[c].attempt
         /\ caller'[c].result = caller[c].result \/ caller'[c].result = r
         /\ \A x \in Callers \ {c} : caller'[x] = caller[x]
<1>1. caller[c] \in Caller /\ caller \in [Callers -> Caller]
  BY DEF ClientTypeOK
<1>2. CASE caller' = [caller EXCEPT ![c].pc = pc]
  <2>1. caller'[c] = [caller[c] EXCEPT !.pc = pc]
    BY <1>1, <1>2
  <2> QED BY <1>1, <1>2, <2>1 DEF Caller
<1>3. CASE caller' = [caller EXCEPT ![c].pc = pc, ![c].result = r]
  <2>1. caller'[c] = [caller[c] EXCEPT !.pc = pc, !.result = r]
    BY <1>1, <1>3
  <2> QED BY <1>1, <1>3, <2>1 DEF Caller
<1> QED BY <1>2, <1>3 DEF Moves

(* The steps of a caller keep the types: an attempt is made only while     *)
(* there are some left.                                                    *)
LEMMA CallersType ==
  ASSUME ClientTypeOK, CallerInOrder, NEW c \in Callers, Invoke(c) \/ CallerStep(c)
  PROVE  ClientTypeOK'
<1> USE RetriesAssumption
<1>0. caller[c] \in Caller /\ caller[c].attempt \in 0..MaxRetries
  BY DEF ClientTypeOK, Caller
<1>1. CASE Invoke(c)
  <2>1. caller' \in [Callers -> Caller]
    BY <1>1 DEF Invoke, ClientTypeOK, Caller
  <2> QED BY <1>1, <2>1 DEF Invoke, ClientTypeOK
<1>2. CASE Send(c)
  <2>1. caller[c].attempt + 1 \in 1..MaxRetries
    BY <1>0, <1>2 DEF Send, CallerAt, CallerInOrder
  <2>2. caller' \in [Callers -> Caller]
    <3> DEFINE n == caller[c].attempt + 1
    <3>0. n \in 0..MaxRetries
      BY <2>1
    <3> HIDE DEF n
    <3>1. [caller[c] EXCEPT !.pc = "wait", !.attempt = n] \in Caller
      BY <1>0, <3>0 DEF Caller
    <3> USE DEF n
    <3> QED BY <1>2, <3>1 DEF Send, ClientTypeOK
  <2>3. requests' \subseteq Request
    BY <1>2, <2>1 DEF Send, Request, ClientTypeOK
  <2> QED BY <1>2, <2>2, <2>3 DEF Send, ClientTypeOK
<1>3. CASE Receive(c)
  <2>1. PICK r \in replies :
          replies' = replies \ {r} /\ Finish(c, IF r.success THEN "ok" ELSE "rejected")
    BY <1>3 DEF Receive
  <2>2. caller' \in [Callers -> Caller]
    <3>1. Moves(c, "done", "ok") \/ Moves(c, "done", "rejected")
      BY <2>1 DEF Finish, Moves
    <3> QED BY <3>1, CallerUpdate
  <2> QED BY <1>3, <2>1, <2>2 DEF Receive, ClientTypeOK
<1>4. CASE TransientError(c)
  <2>1. caller' \in [Callers -> Caller]
    <3>1. Moves(c, "backoff", "none") \/ Moves(c, "done", "unavailable")
      BY <1>4 DEF TransientError, Finish, Moves
    <3> QED BY <3>1, CallerUpdate
  <2> QED BY <1>4, <2>1 DEF TransientError, ClientTypeOK
<1>5. CASE Backoff(c)
  <2>1. caller' \in [Callers -> Caller]
    <3>1. Moves(c, "call", "none") \/ Moves(c, "done", "cancelled")
      BY <1>5 DEF Backoff, Finish, Moves
    <3> QED BY <3>1, CallerUpdate
  <2> QED BY <1>5, <2>1 DEF Backoff, ClientTypeOK
<1> QED BY <1>1, <1>2, <1>3, <1>4, <1>5 DEF CallerStep

(* The server and the network keep the types. *)
LEMMA ServerType ==
  ASSUME ClientTypeOK, NEW m \in Request, Execute(m)
  PROVE  ClientTypeOK'
<1> DEFINE k == caller[m.caller]
<1>1. m.caller \in Callers /\ m.attempt \in 1..MaxRetries
  BY DEF Request
<1>2. k.amount \in Int
  <2>1. k \in Caller
    BY <1>1 DEF ClientTypeOK
  <2>2. k.amount \in Charges
    BY <2>1 DEF Caller
  <2>3. \A n \in Charges : n \in Int
    BY ChargesAssumption
  <2> QED BY <2>2, <2>3
<1>3. replies' \subseteq Response
  <2>1. PICK b \in BOOLEAN : Answer(m, b)
    BY DEF Execute
  <2> QED BY <2>1, <1>1 DEF Answer, Response, ClientTypeOK
<1>4. Apply(m) \/ UNCHANGED <<rows, applied>>
  BY DEF Execute
<1>5. rows' \in Seq([Assets -> Int])
  <2>1. rows \in RowsType(Assets)
    BY DEF ClientTypeOK, RowsType
  <2>2. /\ AddRows(rows, Column, k.amount) \in RowsType(Assets)
        /\ DeductRows(rows, Column, k.amount) \in RowsType(Assets)
    BY <2>1, <1>2, AddRowsType, DeductRowsType
  <2> QED BY <1>4, <2>1, <2>2 DEF Apply, RowsType
<1>6. applied' \in [Callers -> Nat]
  BY <1>1, <1>4 DEF Apply, ClientTypeOK
<1>7. failures' \in 0..MaxFailures
  <2>1. failures' = failures \/ Fault
    BY DEF Execute
  <2> QED BY <2>1, RetriesAssumption DEF Fault, ClientTypeOK
<1> QED BY <1>3, <1>5, <1>6, <1>7 DEF Execute, ClientTypeOK

(* Every step keeps the types. *)
LEMMA ClientTypeStep == ClientTypeOK /\ CallerInOrder /\ [ClientNext]_clientVars => ClientTypeOK'
<1> SUFFICES ASSUME ClientTypeOK, CallerInOrder, [ClientNext]_clientVars PROVE ClientTypeOK'
  OBVIOUS
<1>1. CASE UNCHANGED clientVars
  BY <1>1 DEF clientVars, ClientTypeOK
<1>2. CASE \E c \in Callers : Invoke(c) \/ CallerStep(c)
  BY <1>2, CallersType
<1>3. CASE \E m \in Request : Execute(m)
  BY <1>3, ServerType
<1>4. CASE LoseRequest \/ LoseReply
  <2>1. failures' \in 0..MaxFailures
    BY <1>4, RetriesAssumption DEF LoseRequest, LoseReply, Fault, ClientTypeOK
  <2> QED BY <1>4, <2>1 DEF LoseRequest, LoseReply, ClientTypeOK
<1> QED BY <1>1, <1>2, <1>3, <1>4 DEF ClientNext

-----------------------------------------------------------------------------
(* The steps that neither make nor execute an attempt. *)
KeepsCounts ==
  /\ \A c \in Callers : caller'[c].attempt = caller[c].attempt
  /\ requests' = requests /\ applied' = applied /\ replies' \subseteq replies
  /\ failures' = failures \/ Fault

LEMMA QuietSteps ==
  ASSUME ClientTypeOK, CallerInOrder,
         \/ UNCHANGED clientVars \/ LoseReply
         \/ \E c \in Callers : Invoke(c) \/ Receive(c) \/ TransientError(c) \/ Backoff(c)
  PROVE  KeepsCounts
<1>1. CASE UNCHANGED clientVars \/ LoseReply
  BY <1>1 DEF clientVars, LoseReply, KeepsCounts
<1>2. ASSUME NEW c \in Callers, Invoke(c)
      PROVE  KeepsCounts
  <2>1. caller[c].attempt = 0
    BY <1>2 DEF Invoke, CallerAt, CallerInOrder
  <2> QED BY <1>2, <2>1 DEF Invoke, KeepsCounts, ClientTypeOK
<1>3. ASSUME NEW c \in Callers, Receive(c) \/ TransientError(c) \/ Backoff(c)
      PROVE  KeepsCounts
  <2>1. \E pc, r : Moves(c, pc, r)
    BY <1>3 DEF Receive, TransientError, Backoff, Finish, Moves
  <2>2. \A x \in Callers : caller'[x].attempt = caller[x].attempt
    BY <2>1, MovesOnly
  <2> QED BY <1>3, <2>2 DEF Receive, TransientError, Backoff, KeepsCounts
<1> QED BY <1>1, <1>2, <1>3

(* Only the steps of a caller write what it is doing. *)
LEMMA OrderStep ==
  ASSUME ClientTypeOK, CallerInOrder, [ClientNext]_clientVars
  PROVE  CallerInOrder'
<1> USE RetriesAssumption
<1>1. CASE caller' = caller
  BY <1>1 DEF CallerInOrder
<1>2. ASSUME NEW c \in Callers, Invoke(c) \/ CallerStep(c)
      PROVE  CallerInOrder'
  <2>0. /\ caller[c] \in Caller /\ caller \in [Callers -> Caller]
        /\ caller[c].attempt \in 0..MaxRetries
    BY DEF ClientTypeOK, Caller
  <2>1. CASE Invoke(c)
    BY <2>1 DEF Invoke, CallerInOrder, ClientTypeOK
  <2>2. CASE Send(c)
    BY <2>2, <2>0 DEF Send, CallerAt, CallerInOrder, ClientTypeOK, Caller
  <2>3. CASE Receive(c)
    BY <2>3, <2>0 DEF Receive, Finish, CallerInOrder, ClientTypeOK, Caller
  <2>4. CASE TransientError(c)
    <3>1. \/ Moves(c, "backoff", "none") /\ caller[c].attempt < MaxRetries
          \/ caller' = [caller EXCEPT ![c].pc = "done", ![c].result = "unavailable"]
      BY <2>4 DEF TransientError, Finish, Moves
    <3>2. CASE Moves(c, "backoff", "none") /\ caller[c].attempt < MaxRetries
      <4>1. caller'[c].result = "none"
        BY <2>4, <3>2, MovesOnly DEF TransientError, CallerAt, CallerInOrder
      <4> QED BY <3>2, <4>1, MovesOnly DEF CallerInOrder
    <3>3. CASE caller' = [caller EXCEPT ![c].pc = "done", ![c].result = "unavailable"]
      BY <3>3, <2>0 DEF CallerInOrder, ClientTypeOK, Caller
    <3> QED BY <3>1, <3>2, <3>3
  <2>5. CASE Backoff(c)
    <3>1. \/ Moves(c, "call", "none")
          \/ caller' = [caller EXCEPT ![c].pc = "done", ![c].result = "cancelled"]
      BY <2>5 DEF Backoff, Finish, Moves
    <3>2. CASE Moves(c, "call", "none")
      <4>1. caller'[c].result = "none" /\ caller[c].attempt < MaxRetries
        BY <2>5, <3>2, MovesOnly DEF Backoff, CallerAt, CallerInOrder
      <4> QED BY <3>2, <4>1, MovesOnly DEF CallerInOrder
    <3>3. CASE caller' = [caller EXCEPT ![c].pc = "done", ![c].result = "cancelled"]
      BY <3>3, <2>0 DEF CallerInOrder, ClientTypeOK, Caller
    <3> QED BY <3>1, <3>2, <3>3
  <2> QED BY <1>2, <2>1, <2>2, <2>3, <2>4, <2>5 DEF CallerStep
<1>3. CASE (\E m \in Request : Execute(m)) \/ LoseRequest \/ LoseReply \/ UNCHANGED clientVars
  BY <1>1, <1>3 DEF Execute, LoseRequest, LoseReply, clientVars
<1> QED BY <1>2, <1>3 DEF ClientNext

-----------------------------------------------------------------------------
(* A new attempt puts one request on its way. *)
LEMMA OnTheWayAfterSend ==
  ASSUME ClientTypeOK, CallerInOrder, NEW c \in Callers, Send(c)
  PROVE  /\ OnTheWay(c)' = OnTheWay(c) \union {caller[c].attempt + 1}
         /\ \A x \in Callers \ {c} : OnTheWay(x)' = OnTheWay(x)
         /\ caller'[c].attempt = caller[c].attempt + 1
         /\ \A x \in Callers \ {c} : caller'[x] = caller[x]
         /\ caller[c].attempt + 1 \in 1..MaxRetries
         /\ caller[c].attempt \in Nat
<1>1. caller[c] \in Caller /\ caller[c].attempt \in 0..MaxRetries
  BY DEF ClientTypeOK, Caller
<1>2. caller[c].attempt + 1 \in 1..MaxRetries /\ caller[c].attempt \in Nat
  BY <1>1, RetriesAssumption DEF Send, CallerAt, CallerInOrder
<1>3. caller'[c].attempt = caller[c].attempt + 1
  BY <1>1 DEF Send, ClientTypeOK, Caller
<1>4. \A x \in Callers \ {c} : caller'[x] = caller[x]
  BY DEF Send, ClientTypeOK
<1>5. requests' = requests \union {[caller |-> c, attempt |-> caller[c].attempt + 1]}
  BY DEF Send
<1> QED BY <1>2, <1>3, <1>4, <1>5 DEF OnTheWay

(* A request that was executed or lost is no longer on its way. *)
LEMMA OnTheWayAfterArrival ==
  ASSUME ClientTypeOK, NEW m \in requests, requests' = requests \ {m}
  PROVE  /\ m.caller \in Callers /\ m.attempt \in OnTheWay(m.caller)
         /\ OnTheWay(m.caller)' = OnTheWay(m.caller) \ {m.attempt}
         /\ \A x \in Callers \ {m.caller} : OnTheWay(x)' = OnTheWay(x)
<1>1. /\ m.caller \in Callers /\ m.attempt \in 1..MaxRetries
      /\ m = [caller |-> m.caller, attempt |-> m.attempt]
  BY DEF ClientTypeOK, Request
<1> QED BY <1>1 DEF OnTheWay

(* One attempt more, one request executed or lost: the count is kept. *)
LEMMA CountStep ==
  ASSUME ClientTypeOK, CallerInOrder, AttemptsCount, [ClientNext]_clientVars
  PROVE  AttemptsCount'
<1>0. \A c \in Callers : /\ applied[c] \in Nat /\ caller[c].attempt \in Nat
                         /\ IsFiniteSet(OnTheWay(c)) /\ Cardinality(OnTheWay(c)) \in Nat
  BY OnTheWayFinite DEF ClientTypeOK, Caller
<1>1. CASE KeepsCounts
  BY <1>1 DEF KeepsCounts, AttemptsCount, OnTheWay
<1>2. ASSUME NEW c \in Callers, Send(c)
      PROVE  AttemptsCount'
  <2>1. applied' = applied
    BY <1>2 DEF Send
  <2> DEFINE n == caller[c].attempt + 1
  <2>2. Cardinality(OnTheWay(c) \union {n}) <= Cardinality(OnTheWay(c)) + 1
    <3>1. IsFiniteSet(OnTheWay(c)) /\ Cardinality(OnTheWay(c)) \in Nat
      BY <1>0
    <3>2. Cardinality(OnTheWay(c) \union {n})
            = IF n \in OnTheWay(c) THEN Cardinality(OnTheWay(c)) ELSE Cardinality(OnTheWay(c)) + 1
      BY <3>1, FS_AddElement
    <3> HIDE DEF n
    <3> QED BY <3>1, <3>2
  <2>3. /\ OnTheWay(c)' \subseteq 1..caller'[c].attempt
        /\ applied'[c] + Cardinality(OnTheWay(c)') <= caller'[c].attempt
    <3>1. OnTheWay(c)' = OnTheWay(c) \union {n} /\ caller'[c].attempt = n /\ n \in 1..MaxRetries
      BY <1>2, OnTheWayAfterSend
    <3>2. /\ OnTheWay(c) \subseteq 1..caller[c].attempt
          /\ applied[c] + Cardinality(OnTheWay(c)) <= caller[c].attempt
      BY DEF AttemptsCount
    <3>3. Cardinality(OnTheWay(c)') \in Nat
      BY <3>1, <1>0, FS_AddElement, FS_CardinalityType
    <3>4. applied[c] + Cardinality(OnTheWay(c)') <= n
      BY <3>1, <3>2, <3>3, <2>2, <1>0
    <3> QED BY <3>1, <3>2, <3>4, <2>1, <1>0
  <2>4. ASSUME NEW x \in Callers \ {c}
        PROVE  /\ OnTheWay(x)' \subseteq 1..caller'[x].attempt
               /\ applied'[x] + Cardinality(OnTheWay(x)') <= caller'[x].attempt
    BY <1>2, <2>1, OnTheWayAfterSend DEF AttemptsCount
  <2> QED BY <2>3, <2>4 DEF AttemptsCount
<1>3. ASSUME NEW m \in requests, requests' = requests \ {m}, caller' = caller,
             applied' = applied \/ applied' = [applied EXCEPT ![m.caller] = @ + 1]
      PROVE  AttemptsCount'
  <2> DEFINE c == m.caller
  <2>1. /\ c \in Callers /\ m.attempt \in OnTheWay(c)
        /\ OnTheWay(c)' = OnTheWay(c) \ {m.attempt}
        /\ \A x \in Callers \ {c} : OnTheWay(x)' = OnTheWay(x)
    BY <1>3, OnTheWayAfterArrival
  <2>2. Cardinality(OnTheWay(c)') = Cardinality(OnTheWay(c)) - 1
    <3>1. IsFiniteSet(OnTheWay(c))
      BY <1>0, <2>1
    <3> QED BY <2>1, <3>1, FS_RemoveElement
  <2>3. applied'[c] <= applied[c] + 1 /\ \A x \in Callers \ {c} : applied'[x] = applied[x]
    BY <1>3, <1>0, <2>1 DEF ClientTypeOK
  <2>4. applied'[c] \in Nat
    BY <1>3, <1>0, <2>1 DEF ClientTypeOK
  <2>5. /\ OnTheWay(c)' \subseteq 1..caller'[c].attempt
        /\ applied'[c] + Cardinality(OnTheWay(c)') <= caller'[c].attempt
    BY <1>3, <2>1, <2>2, <2>3, <2>4, <1>0 DEF AttemptsCount
  <2>6. ASSUME NEW x \in Callers \ {c}
        PROVE  /\ OnTheWay(x)' \subseteq 1..caller'[x].attempt
               /\ applied'[x] + Cardinality(OnTheWay(x)') <= caller'[x].attempt
    BY <1>3, <2>1, <2>3 DEF AttemptsCount
  <2> QED BY <2>5, <2>6 DEF AttemptsCount
<1>4. CASE \E m \in Request : Execute(m)
  BY <1>3, <1>4 DEF Execute, Apply
<1>5. CASE LoseRequest
  BY <1>3, <1>5 DEF LoseRequest
<1> QED BY <1>1, <1>2, <1>4, <1>5, QuietSteps DEF ClientNext, CallerStep

-----------------------------------------------------------------------------
(* What the server answers, and what that answer cost. *)
LEMMA ExecuteEffect ==
  ASSUME ClientTypeOK, NEW m \in Request, Execute(m)
  PROVE  /\ m \in requests /\ requests' = requests \ {m} /\ caller' = caller
         /\ m.caller \in Callers
         /\ \A c \in Callers : applied'[c] \in Nat /\ applied'[c] >= applied[c]
         /\ \A c \in Callers \ {m.caller} : applied'[c] = applied[c]
         /\ \E b \in BOOLEAN :
              /\ Answer(m, b)
              /\ b => applied'[m.caller] >= 1
              /\ ~b => Fault \/ applied' = applied
         /\ failures' = failures \/ Fault
<1>1. m.caller \in Callers /\ applied \in [Callers -> Nat]
  BY DEF ClientTypeOK, Request
<1>2. applied' = applied \/ applied' = [applied EXCEPT ![m.caller] = @ + 1]
  BY DEF Execute, Apply
<1>3. /\ \A c \in Callers : applied'[c] \in Nat /\ applied'[c] >= applied[c]
      /\ \A c \in Callers \ {m.caller} : applied'[c] = applied[c]
  BY <1>1, <1>2
<1>4. PICK b \in BOOLEAN : /\ Answer(m, b)
                           /\ b => applied' = [applied EXCEPT ![m.caller] = @ + 1]
                           /\ ~b => Fault \/ applied' = applied
  BY DEF Execute, Apply
<1>5. applied' = [applied EXCEPT ![m.caller] = @ + 1] => applied'[m.caller] >= 1
  BY <1>1
<1>6. m \in requests /\ requests' = requests \ {m} /\ caller' = caller
  BY DEF Execute
<1>7. failures' = failures \/ Fault
  BY DEF Execute
<1> QED BY <1>1, <1>3, <1>4, <1>5, <1>6, <1>7

(* A reply stays true: attempts and effects only grow. *)
LEMMA RepliesStep ==
  ASSUME ClientTypeOK, CallerInOrder, AttemptsCount, RepliesAreTrue, [ClientNext]_clientVars
  PROVE  RepliesAreTrue'
<1>0. \A r \in replies : r.caller \in Callers /\ r.attempt \in Nat
  BY DEF ClientTypeOK, Response
<1>1. CASE KeepsCounts
  BY <1>0, <1>1 DEF KeepsCounts, RepliesAreTrue
<1>2. ASSUME NEW c \in Callers, Send(c)
      PROVE  RepliesAreTrue'
  <2>1. replies' = replies /\ applied' = applied
    BY <1>2 DEF Send
  <2>2. \A x \in Callers : caller'[x].attempt >= caller[x].attempt /\ caller'[x].attempt \in Nat
                           /\ caller[x].attempt \in Nat
    BY <1>2, OnTheWayAfterSend DEF ClientTypeOK, Caller
  <2> QED BY <1>0, <2>1, <2>2 DEF RepliesAreTrue
<1>3. ASSUME NEW m \in Request, Execute(m)
      PROVE  RepliesAreTrue'
  <2>1. /\ m \in requests /\ requests' = requests \ {m} /\ caller' = caller
        /\ m.caller \in Callers
        /\ \A c \in Callers : applied'[c] \in Nat /\ applied'[c] >= applied[c]
    BY <1>3, ExecuteEffect
  <2>2. PICK b \in BOOLEAN : Answer(m, b) /\ (b => applied'[m.caller] >= 1)
    BY <1>3, ExecuteEffect
  <2>3. m.attempt <= caller[m.caller].attempt
    <3>1. m.attempt \in OnTheWay(m.caller)
      BY <2>1, OnTheWayAfterArrival
    <3> QED BY <2>1, <3>1 DEF AttemptsCount
  <2>4. ASSUME NEW r \in replies
        PROVE  /\ r.attempt <= caller'[r.caller].attempt
               /\ r.success => applied'[r.caller] >= 1
    <3>1. applied[r.caller] \in Nat
      BY <1>0 DEF ClientTypeOK
    <3> QED BY <1>0, <2>1, <3>1 DEF RepliesAreTrue
  <2> QED BY <2>1, <2>2, <2>3, <2>4 DEF Answer, RepliesAreTrue
<1>4. CASE LoseRequest
  BY <1>4 DEF LoseRequest, RepliesAreTrue
<1> QED BY <1>1, <1>2, <1>3, <1>4, QuietSteps DEF ClientNext, CallerStep

(* Only Receive reports success, and then there was a reply that says so. *)
LEMMA ResultStep ==
  ASSUME ClientTypeOK, CallerInOrder, NEW c \in Callers, [ClientNext]_clientVars,
         caller'[c].result # caller[c].result
  PROVE  \/ caller'[c].result \in {"none", "unavailable", "cancelled"}
         \/ /\ requests' = requests /\ applied' = applied /\ failures' = failures
            /\ caller'[c].attempt = caller[c].attempt
            /\ \E r \in replies : /\ r.caller = c /\ r.attempt = caller[c].attempt
                                  /\ caller'[c].result = (IF r.success THEN "ok" ELSE "rejected")
<1>1. CASE caller' = caller
  BY <1>1
<1>2. ASSUME NEW x \in Callers, Invoke(x)
      PROVE  caller'[c].result \in {"none", "unavailable", "cancelled"}
  BY <1>2 DEF Invoke, ClientTypeOK
<1>3. ASSUME NEW x \in Callers, Send(x)
      PROVE  FALSE
  BY <1>3 DEF Send, ClientTypeOK, Caller
<1>4. ASSUME NEW x \in Callers, TransientError(x) \/ Backoff(x)
      PROVE  caller'[c].result \in {"none", "unavailable", "cancelled"}
  <2>1. \E pc : Moves(x, pc, "unavailable") \/ Moves(x, pc, "cancelled")
    BY <1>4 DEF TransientError, Backoff, Finish, Moves
  <2> QED BY <2>1, MovesOnly
<1>5. ASSUME NEW x \in Callers, Receive(x)
      PROVE  /\ requests' = requests /\ applied' = applied /\ failures' = failures
             /\ caller'[c].attempt = caller[c].attempt
             /\ \E r \in replies : /\ r.caller = c /\ r.attempt = caller[c].attempt
                                   /\ caller'[c].result = (IF r.success THEN "ok" ELSE "rejected")
  <2>1. PICK r \in replies : /\ r.caller = x /\ r.attempt = caller[x].attempt
                             /\ Finish(x, IF r.success THEN "ok" ELSE "rejected")
    BY <1>5 DEF Receive
  <2>2. Moves(x, "done", IF r.success THEN "ok" ELSE "rejected")
    BY <2>1 DEF Finish, Moves
  <2>3. x = c /\ caller'[c].attempt = caller[c].attempt
        /\ caller'[c].result = (IF r.success THEN "ok" ELSE "rejected")
    BY <2>2, MovesOnly
  <2> QED BY <1>5, <2>1, <2>3 DEF Receive
<1>6. CASE UNCHANGED clientVars \/ LoseRequest \/ LoseReply \/ \E m \in Request : Execute(m)
  BY <1>1, <1>6 DEF clientVars, LoseRequest, LoseReply, Execute
<1> QED BY <1>2, <1>3, <1>4, <1>5, <1>6 DEF ClientNext, CallerStep

(* What was applied stays applied. *)
LEMMA AppliedGrows ==
  ASSUME ClientTypeOK, CallerInOrder, NEW c \in Callers, [ClientNext]_clientVars
  PROVE  applied[c] \in Nat /\ applied'[c] \in Nat /\ applied'[c] >= applied[c]
<1>1. CASE applied' = applied
  BY <1>1 DEF ClientTypeOK
<1>2. CASE \E m \in Request : Execute(m)
  BY <1>2, ExecuteEffect DEF ClientTypeOK
<1>3. CASE UNCHANGED clientVars \/ LoseRequest \/ LoseReply \/ \E x \in Callers : Invoke(x) \/ CallerStep(x)
  BY <1>1, <1>3 DEF clientVars, LoseRequest, LoseReply, Invoke, CallerStep, Send, Receive,
                    TransientError, Backoff
<1> QED BY <1>2, <1>3 DEF ClientNext

LEMMA OkStep ==
  ASSUME ClientTypeOK, CallerInOrder, RepliesAreTrue, OkMeansApplied, [ClientNext]_clientVars
  PROVE  OkMeansApplied'
<1> SUFFICES ASSUME NEW c \in Callers, caller'[c].result = "ok" PROVE applied'[c] >= 1
  BY DEF OkMeansApplied
<1>1. CASE caller[c].result = "ok"
  BY <1>1, AppliedGrows DEF OkMeansApplied
<1>2. CASE caller[c].result # "ok"
  BY <1>2, ResultStep DEF RepliesAreTrue
<1> QED BY <1>1, <1>2

(* A refusal without failures is exact: the request that was refused was   *)
(* the only one, and nothing was applied.                                  *)
LEMMA RefusalStep ==
  ASSUME ClientInv, [ClientNext]_clientVars
  PROVE  RefusalIsExact'
<1> USE DEF ClientInv
<1> SUFFICES ASSUME failures' = 0, NEW c \in Callers, caller'[c].attempt = 1
             PROVE  /\ \A r \in replies' : r.caller = c /\ ~r.success => NothingDone(c)'
                    /\ caller'[c].result = "rejected" => NothingDone(c)'
  BY DEF RefusalIsExact
<1>0. ~Fault
  BY DEF Fault, ClientTypeOK
<1>1. CASE KeepsCounts
  <2>1. failures = 0 /\ caller[c].attempt = 1 /\ NothingDone(c)' = NothingDone(c)
    BY <1>0, <1>1 DEF KeepsCounts, NothingDone, OnTheWay
  <2>2. replies' \subseteq replies
    BY <1>1 DEF KeepsCounts
  <2>3. /\ \A r \in replies : r.caller = c /\ ~r.success => NothingDone(c)
        /\ caller[c].result = "rejected" => NothingDone(c)
    BY <2>1 DEF RefusalIsExact
  <2>4. ASSUME caller'[c].result = "rejected", caller[c].result # "rejected"
        PROVE  NothingDone(c)
    <3>1. \E r \in replies : r.caller = c /\ ~r.success
      BY <2>4, ResultStep
    <3> QED BY <2>3, <3>1
  <2> QED BY <2>1, <2>2, <2>3, <2>4
<1>2. ASSUME NEW x \in Callers, Send(x)
      PROVE  /\ \A r \in replies' : r.caller = c /\ ~r.success => NothingDone(c)'
             /\ caller'[c].result = "rejected" => NothingDone(c)'
  <2>1. replies' = replies /\ applied' = applied /\ failures' = failures
    BY <1>2 DEF Send
  <2>2. CASE x = c
    <3>1. caller[c].attempt = 0
      BY <1>2, <2>2, OnTheWayAfterSend
    <3>2. \A r \in replies : r.caller # c
      BY <3>1 DEF RepliesAreTrue, ClientTypeOK, Response
    <3>3. caller'[c].result = caller[c].result /\ caller[c].result = "none"
      BY <1>2, <2>2 DEF Send, CallerAt, CallerInOrder, ClientTypeOK, Caller
    <3> QED BY <2>1, <3>2, <3>3
  <2>3. CASE x # c
    <3>1. caller'[c] = caller[c] /\ NothingDone(c)' = NothingDone(c)
      BY <1>2, <2>1, <2>3, OnTheWayAfterSend DEF NothingDone
    <3> QED BY <2>1, <3>1 DEF RefusalIsExact
  <2> QED BY <2>2, <2>3
<1>3. ASSUME NEW m \in Request, Execute(m)
      PROVE  /\ \A r \in replies' : r.caller = c /\ ~r.success => NothingDone(c)'
             /\ caller'[c].result = "rejected" => NothingDone(c)'
  <2>1. /\ m \in requests /\ requests' = requests \ {m} /\ caller' = caller
        /\ m.caller \in Callers /\ failures = 0
        /\ \A x \in Callers \ {m.caller} : applied'[x] = applied[x]
    BY <1>0, <1>3, ExecuteEffect
  <2>2. PICK b \in BOOLEAN : Answer(m, b) /\ (~b => applied' = applied)
    BY <1>0, <1>3, ExecuteEffect
  <2>3. /\ \A r \in replies : r.caller = c /\ ~r.success => NothingDone(c)
        /\ caller[c].result = "rejected" => NothingDone(c)
    BY <2>1 DEF RefusalIsExact
  <2>4. /\ m.attempt \in OnTheWay(m.caller)
        /\ OnTheWay(m.caller)' = OnTheWay(m.caller) \ {m.attempt}
        /\ \A x \in Callers \ {m.caller} : OnTheWay(x)' = OnTheWay(x)
    BY <2>1, OnTheWayAfterArrival
  <2>5. CASE m.caller # c
    <3>1. NothingDone(c)' = NothingDone(c)
      BY <2>1, <2>4, <2>5 DEF NothingDone
    <3> QED BY <2>1, <2>2, <2>3, <2>5, <3>1 DEF Answer
  <2>6. CASE m.caller = c
    <3>1. ~NothingDone(c)
      BY <2>4, <2>6 DEF NothingDone
    <3>2. /\ OnTheWay(c) \subseteq 1..1
          /\ applied[c] + Cardinality(OnTheWay(c)) <= 1
      BY <2>1 DEF AttemptsCount
    <3>3. Cardinality(OnTheWay(c)) \in Nat /\ Cardinality(OnTheWay(c)) # 0
      BY <2>4, <2>6, OnTheWayFinite
    <3>4. applied[c] = 0
      BY <3>2, <3>3 DEF ClientTypeOK
    <3>5. OnTheWay(c)' = {}
      BY <2>4, <2>6, <3>2
    <3>6. ~b => NothingDone(c)'
      BY <2>2, <3>4, <3>5 DEF NothingDone
    <3> QED BY <2>1, <2>2, <2>3, <3>1, <3>6 DEF Answer
  <2> QED BY <2>5, <2>6
<1>4. CASE LoseRequest
  BY <1>0, <1>4 DEF LoseRequest
<1> QED BY <1>1, <1>2, <1>3, <1>4, QuietSteps DEF ClientNext, CallerStep

-----------------------------------------------------------------------------
LEMMA StepOK == ClientInv /\ [ClientNext]_clientVars => ClientInv'
BY ClientTypeStep, OrderStep, CountStep, RepliesStep, OkStep, RefusalStep DEF ClientInv

(* What the run of WalletClient checks follows from the invariant. *)
LEMMA AnswersOK == ClientInv => AnswersInv
<1> SUFFICES ASSUME ClientInv PROVE AnswersInv
  OBVIOUS
<1>1. \A c \in Callers : /\ applied[c] \in Nat /\ caller[c].attempt \in Nat
                         /\ applied[c] <= caller[c].attempt
  BY OnTheWayFinite DEF ClientInv, AttemptsCount, ClientTypeOK, Caller
<1>2. OncePerAttempt
  BY <1>1 DEF OncePerAttempt
<1>3. FirstAttemptIsExact
  BY <1>1 DEF ClientInv, FirstAttemptIsExact, OkMeansApplied, RefusalIsExact, NothingDone
<1> QED BY <1>2, <1>3 DEF AnswersInv, ClientInv

(* Whatever the network and the database do, a caller that is told of      *)
(* success was served, a call takes effect at most once per attempt, and   *)
(* the answer to a first attempt is exact (commercial_client.go:169-257).  *)
THEOREM AnswersAreTrue == ClientSpec => []AnswersInv
<1>1. ClientSpec => []ClientInv
  BY ClientInitOK, StepOK, PTL DEF ClientSpec
<1> QED BY <1>1, AnswersOK, PTL

-----------------------------------------------------------------------------
(* financial-service: orders and payment callbacks (module OrderPayment).  *)

(* The steps after which a handler owns the rest of its order's payment. *)
Owning == {"bonus", "commit", "credit", "referral"}

(* How far an owner's order has come. *)
OwnerProgress ==
  \A h \in Handlers :
    LET o == OrderOf(h) IN
    /\ handler[h].pc \in {"bonus", "commit"} => gateway[o] = "verified" /\ payments[o] = 0
    /\ handler[h].pc = "credit" => payments[o] = 1 /\ credits[o] = 0
    /\ handler[h].pc = "referral" => credits[o] = 1 /\ referrals[o] = 0

(* An order has at most one owner. *)
OneOwner ==
  \A g, h \in Handlers :
    handler[g].pc \in Owning /\ handler[h].pc \in Owning /\ OrderOf(g) = OrderOf(h)
      => g = h

(* Verified, recorded, credited, rewarded: in this order, at most once. *)
InOrder ==
  \A o \in Orders :
    /\ payments[o] <= 1
    /\ credits[o] <= payments[o]
    /\ referrals[o] <= credits[o]
    /\ payments[o] > 0 => gateway[o] = "verified"

(* A handler that marks an order failed does not write success. *)
FailureCode ==
  \A h \in Handlers : handler[h].pc \in {"failOrder", "failTxn"} => handler[h].code # Success

(* The rows CreateOrder has written and not deleted. *)
RowsWritten ==
  \A o \in Orders :
    /\ creation[o] = "order" => o \in orderRows
    /\ creation[o] \in {"txn", "token", "linked"} => o \in orderRows /\ o \in txnRows

(* Nothing is known at the gateway before CreateOrder asks for a payment. *)
NotYetRequested ==
  \A o \in Orders : creation[o] \in {"new", "order", "txn"} => gateway[o] = "none"

(* What handlers, tables and the gateway say of each other. *)
Payment ==
  /\ OwnerProgress
  /\ OneOwner
  /\ InOrder
  /\ FailureCode
  /\ SuccessIsPaid
  /\ RecordedIsAccountedFor

PaymentInv ==
  /\ PaymentTypeOK
  /\ Payment
  /\ RowsWritten
  /\ NotYetRequested

-----------------------------------------------------------------------------
(* Types *)

(* A handler record that is no work at all. *)
LEMMA IdleType == Idle \in Handler
<1>1. (CHOOSE cb \in Callback : TRUE) \in Callback
  <2>1. PICK o \in Orders : TRUE
    BY OrdersAssumption
  <2>2. [order |-> o, code |-> Success, token |-> TRUE] \in Callback
    BY DEF Callback
  <2> QED BY <2>2
<1> QED BY <1>1 DEF Idle, Handler, Steps, NewTxn, Txn, Codes, Open, Unknown

(* Moving a handler to another step, and ending it, keeps the types. *)
LEMMA GotoType ==
  ASSUME PaymentTypeOK, NEW h \in Handlers, NEW pc \in Steps, HandlerGoto(h, pc)
  PROVE  handler' \in [Handlers -> Handler]
<1>1. handler[h] \in Handler
  BY DEF PaymentTypeOK
<1>2. [handler[h] EXCEPT !.pc = pc] \in Handler
  BY <1>1 DEF Handler
<1> QED BY <1>2 DEF HandlerGoto, PaymentTypeOK

LEMMA ReturnType ==
  ASSUME PaymentTypeOK, NEW h \in Handlers, Return(h)
  PROVE  handler' \in [Handlers -> Handler]
BY IdleType DEF Return, PaymentTypeOK

(* The steps of CreateOrder keep the types. *)
LEMMA CreateType ==
  ASSUME PaymentTypeOK, NEW o \in Orders, CreateStep(o)
  PROVE  PaymentTypeOK'
<1>0. NewTxn \in Txn /\ TokenTxn \in Txn /\ Pending \in Codes
  BY DEF NewTxn, TokenTxn, Txn, Codes, Open, Pending
<1>f. ASSUME Mishap PROVE mishaps' \in 0..MaxMishaps
  BY <1>f, LimitsAssumption DEF Mishap, PaymentTypeOK
<1>1. CASE CreateOrder(o)
  <2>1. creation' \in [Orders -> {"new", "order", "txn", "token", "cleanTxn",
                                  "cleanOrder", "linked", "refused"}]
    <3>1. \E s \in {"order", "refused"} : creation' = [creation EXCEPT ![o] = s]
      BY <1>1 DEF CreateOrder
    <3> QED BY <3>1 DEF PaymentTypeOK
  <2>2. orderRows' \subseteq Orders
    BY <1>1 DEF CreateOrder, PaymentTypeOK
  <2>3. orderStatus' \in [Orders -> Codes]
    BY <1>0, <1>1 DEF CreateOrder, PaymentTypeOK
  <2> QED BY <1>1, <2>1, <2>2, <2>3 DEF CreateOrder, CreationUnchanged, history, PaymentTypeOK
<1>2. CASE CreateTransaction(o)
  <2>1. txn' \in [Orders -> Txn]
    BY <1>0, <1>2 DEF CreateTransaction, PaymentTypeOK
  <2>2. mishaps' \in 0..MaxMishaps
    BY <1>2, <1>f DEF CreateTransaction, PaymentTypeOK
  <2> QED BY <1>2, <2>1, <2>2 DEF CreateTransaction, CreationUnchanged, history, PaymentTypeOK
<1>3. CASE RequestPayment(o)
  BY <1>0, <1>3, <1>f DEF RequestPayment, CreationUnchanged, history, PaymentTypeOK
<1>4. CASE StoreToken(o)
  BY <1>0, <1>4, <1>f DEF StoreToken, CreationUnchanged, history, PaymentTypeOK
<1>5. CASE DeleteTransaction(o)
  BY <1>0, <1>5, <1>f DEF DeleteTransaction, CreationUnchanged, history, PaymentTypeOK
<1>6. CASE DeleteOrder(o)
  BY <1>0, <1>6, <1>f DEF DeleteOrder, CreationUnchanged, history, PaymentTypeOK
<1> QED BY <1>1, <1>2, <1>3, <1>4, <1>5, <1>6 DEF CreateStep

(* Paying and giving up at the gateway keep the types. *)
LEMMA GatewayType ==
  ASSUME PaymentTypeOK, NEW o \in Orders, Pay(o) \/ Cancel(o)
  PROVE  PaymentTypeOK'
<1>0. \A t \in BOOLEAN, c \in {Success, Unknown} :
        [order |-> o, code |-> c, token |-> t] \in Callback
  BY DEF Callback
<1>1. sent' \subseteq Callback
  <2>1. \E cb \in Callback : sent' = sent \union {cb}
    <3>1. CASE Pay(o)
      <4>1. PICK t \in BOOLEAN :
              sent' = sent \union {[order |-> o, code |-> Success, token |-> t]}
        BY <3>1 DEF Pay
      <4> QED BY <1>0, <4>1
    <3>2. CASE Cancel(o)
      BY <1>0, <3>2 DEF Cancel
    <3> QED BY <3>1, <3>2
  <2> QED BY <2>1 DEF PaymentTypeOK
<1>2. gateway' \in [Orders -> {"none", "open", "paid", "verified"}]
  BY DEF PaymentTypeOK, Pay, Cancel
<1> QED BY <1>1, <1>2 DEF Pay, Cancel, GatewayUnchanged, tables, history, PaymentTypeOK

(* The steps of HandleCallback keep the types. *)
LEMMA HandlerType ==
  ASSUME PaymentTypeOK, NEW h \in Handlers, ReceiveCallback(h) \/ HandlerStep(h) \/ HandlerFails(h)
  PROVE  PaymentTypeOK'
<1> DEFINE o == OrderOf(h)
<1>0. /\ handler[h] \in Handler /\ o \in Orders /\ UserOf(h) \in Buyers
      /\ handler[h].txn \in Txn /\ handler[h].code \in Codes
      /\ request[o].amount \in Int
  BY RequestsAssumption DEF PaymentTypeOK, Handler, Callback, OrderOf, UserOf
<1>f. ASSUME Mishap PROVE mishaps' \in 0..MaxMishaps
  BY <1>f, LimitsAssumption DEF Mishap, PaymentTypeOK
<1>1. CASE ReceiveCallback(h)
  <2>1. handler' \in [Handlers -> Handler]
    <3>1. PICK cb \in sent :
            IF cb.order \in orderRows \intersect txnRows
              THEN handler' = [handler EXCEPT ![h] =
                     [pc    |-> IF cb.code = Success THEN "verify" ELSE "failOrder",
                      cb    |-> cb,
                      txn   |-> txn[cb.order],
                      code  |-> cb.code,
                      bonus |-> FALSE]]
              ELSE UNCHANGED handler
      BY <1>1 DEF ReceiveCallback
    <3>2. cb \in Callback /\ txn[cb.order] \in Txn /\ cb.code \in Codes
      BY DEF PaymentTypeOK, Callback, Codes
    <3>3. [pc    |-> IF cb.code = Success THEN "verify" ELSE "failOrder",
           cb    |-> cb,
           txn   |-> txn[cb.order],
           code  |-> cb.code,
           bonus |-> FALSE] \in Handler
      BY <3>2 DEF Handler, Steps
    <3> QED BY <3>1, <3>3 DEF PaymentTypeOK
  <2>2. deliveries' \in 0..MaxDeliveries
    BY <1>1, LimitsAssumption DEF ReceiveCallback, PaymentTypeOK
  <2> QED BY <1>1, <2>1, <2>2 DEF ReceiveCallback, tables, history, PaymentTypeOK
<1>2. CASE Verify(h)
  <2>1. handler' \in [Handlers -> Handler]
    <3>1. \A pc \in Steps, code \in Codes :
            [handler[h] EXCEPT !.pc = pc, !.code = code] \in Handler
      BY <1>0 DEF Handler
    <3>2. PICK pc \in Steps, code \in Codes :
            handler' = [handler EXCEPT ![h].pc = pc, ![h].code = code]
      <4>1. \A b \in BOOLEAN : VerifyCode(o, b) \in Codes
        BY DEF VerifyCode, Codes
      <4>2. (handler[h].cb.token \/ handler[h].txn.token) \in BOOLEAN
        OBVIOUS
      <4>3. Unknown \in Codes /\ "bonus" \in Steps /\ "failOrder" \in Steps
        BY DEF Codes, Steps
      <4> QED BY <1>2, <4>1, <4>2, <4>3 DEF Verify
    <3>3. handler' = [handler EXCEPT ![h] = [handler[h] EXCEPT !.pc = pc, !.code = code]]
      BY <3>2 DEF PaymentTypeOK
    <3> QED BY <3>1, <3>3 DEF PaymentTypeOK
  <2>2. gateway' \in [Orders -> {"none", "open", "paid", "verified"}]
    BY <1>2, <1>0 DEF Verify, PaymentTypeOK
  <2>3. mishaps' \in 0..MaxMishaps
    BY <1>2, <1>f DEF Verify, PaymentTypeOK
  <2> QED BY <1>2, <2>1, <2>2, <2>3 DEF Verify, HandlerUnchanged, tables, history, PaymentTypeOK
<1>3. CASE CheckBonus(h)
  <2>1. handler' \in [Handlers -> Handler]
    <3>1. CanGetBonus(h) \in BOOLEAN
      BY DEF CanGetBonus
    <3>2. [handler[h] EXCEPT !.pc = "commit", !.bonus = CanGetBonus(h)] \in Handler
      BY <1>0, <3>1 DEF Handler, Steps
    <3>3. handler' = [handler EXCEPT ![h] =
                        [handler[h] EXCEPT !.pc = "commit", !.bonus = CanGetBonus(h)]]
      BY <1>3 DEF CheckBonus, PaymentTypeOK
    <3> QED BY <3>2, <3>3 DEF PaymentTypeOK
  <2> QED BY <1>3, <2>1 DEF CheckBonus, HandlerUnchanged, tables, history, PaymentTypeOK
<1>4. CASE FinalizeTx(h)
  <2>1. handler' \in [Handlers -> Handler]
    BY <1>4, GotoType DEF FinalizeTx, Steps
  <2>2. [handler[h].txn EXCEPT !.status = Success, !.ref = TRUE] \in Txn
    BY <1>0 DEF Txn, Codes
  <2>3. txn' \in [Orders -> Txn] /\ orderStatus' \in [Orders -> Codes]
    BY <1>0, <1>4, <2>2 DEF FinalizeTx, PaymentTypeOK, Codes
  <2>4. payments' \in [Orders -> Nat] /\ firstOrders' \in [Buyers -> Nat]
    BY <1>0, <1>4 DEF FinalizeTx, PaymentTypeOK
  <2> QED BY <1>4, <2>1, <2>3, <2>4 DEF FinalizeTx, HandlerUnchanged, history, PaymentTypeOK
<1>5. CASE Credit(h)
  <2>1. handler' \in [Handlers -> Handler]
    BY <1>5, GotoType, ReturnType DEF Credit, Steps
  <2>2. ASSUME CreditWallet(h)
        PROVE  /\ walletOf' \in [Buyers -> Seq([Assets -> Int])]
               /\ credits' \in [Orders -> Nat]
               /\ bonuses' \in [Orders -> Nat]
    <3>1. WalletAmount(h) \in Int
      BY <1>0 DEF WalletAmount
    <3>2. walletOf[UserOf(h)] \in RowsType(Assets)
      BY <1>0 DEF PaymentTypeOK, RowsType
    <3>3. AddRows(walletOf[UserOf(h)], AssetOf(h), WalletAmount(h)) \in RowsType(Assets)
      BY <3>1, <3>2, AddRowsType
    <3>4. walletOf' \in [Buyers -> Seq([Assets -> Int])]
      BY <1>0, <2>2, <3>3 DEF CreditWallet, PaymentTypeOK, RowsType
    <3>5. credits' \in [Orders -> Nat] /\ bonuses' \in [Orders -> Nat]
      BY <1>0, <2>2 DEF CreditWallet, PaymentTypeOK
    <3> QED BY <3>4, <3>5
  <2>3. /\ walletOf' \in [Buyers -> Seq([Assets -> Int])]
        /\ credits' \in [Orders -> Nat]
        /\ bonuses' \in [Orders -> Nat]
    BY <1>5, <2>2 DEF Credit, PaymentTypeOK
  <2>4. mishaps' \in 0..MaxMishaps /\ uncredited' \subseteq Orders
    BY <1>0, <1>5, <1>f DEF Credit, PaymentTypeOK
  <2> QED BY <1>5, <2>1, <2>3, <2>4 DEF Credit, HandlerUnchanged, tables, PaymentTypeOK
<1>6. CASE RequestReferral(h)
  <2>1. handler' \in [Handlers -> Handler]
    BY <1>6, ReturnType DEF RequestReferral
  <2>2. referrals' \in [Orders -> Nat]
    BY <1>0, <1>6 DEF RequestReferral, PaymentTypeOK
  <2> QED BY <1>6, <2>1, <2>2 DEF RequestReferral, HandlerUnchanged, tables, PaymentTypeOK
<1>7. CASE FailOrder(h)
  <2>1. handler' \in [Handlers -> Handler]
    BY <1>7, GotoType DEF FailOrder, Steps
  <2> QED BY <1>0, <1>7, <2>1 DEF FailOrder, HandlerUnchanged, history, PaymentTypeOK
<1>8. CASE FailTxn(h)
  <2>1. handler' \in [Handlers -> Handler]
    BY <1>8, ReturnType DEF FailTxn
  <2>2. [handler[h].txn EXCEPT !.status = handler[h].code] \in Txn
    BY <1>0 DEF Txn
  <2> QED BY <1>0, <1>8, <2>1, <2>2 DEF FailTxn, HandlerUnchanged, history, PaymentTypeOK
<1>9. CASE HandlerFails(h)
  <2>1. handler' \in [Handlers -> Handler]
    BY <1>9, ReturnType DEF HandlerFails
  <2>2. mishaps' \in 0..MaxMishaps /\ uncredited' \subseteq Orders
    BY <1>0, <1>9, <1>f DEF HandlerFails, PaymentTypeOK
  <2> QED BY <1>9, <2>1, <2>2 DEF HandlerFails, HandlerUnchanged, tables, PaymentTypeOK
<1> QED BY <1>1, <1>2, <1>3, <1>4, <1>5, <1>6, <1>7, <1>8, <1>9 DEF HandlerStep

-----------------------------------------------------------------------------
(* CreateOrder and the gateway *)

(* Creating an order and paying for it touch no order that is recorded. *)
LEMMA CreateInv ==
  ASSUME PaymentInv, NEW o \in Orders, CreateStep(o) \/ Pay(o) \/ Cancel(o)
  PROVE  Payment' /\ RowsWritten' /\ NotYetRequested'
<1>0. /\ UNCHANGED <<handler, payments, credits, referrals, uncredited>>
      /\ \A p \in Orders \ {o} : gateway'[p] = gateway[p]
      /\ gateway[o] = "verified" => gateway'[o] = gateway[o]
      /\ gateway'[o] # gateway[o] => creation'[o] \in {"token", "linked"}
  BY DEF PaymentInv, PaymentTypeOK, NotYetRequested, CreateStep, CreateOrder, CreateTransaction,
         RequestPayment, StoreToken, DeleteTransaction, DeleteOrder, CreationUnchanged,
         Pay, Cancel, GatewayUnchanged, tables, history
<1>1. /\ \A p \in Orders \ {o} : creation'[p] = creation[p]
      /\ creation'[o] \in {"new", "order", "txn"} => creation[o] \in {"new", "order", "txn"}
  BY DEF PaymentInv, PaymentTypeOK, CreateStep, CreateOrder, CreateTransaction,
         RequestPayment, StoreToken, DeleteTransaction, DeleteOrder,
         Pay, Cancel, GatewayUnchanged
<1>2. \A p \in Orders : /\ orderStatus'[p] = Success => orderStatus[p] = Success
                        /\ txn'[p].status = Success => txn[p].status = Success
  <2>1. \A p \in Orders : orderStatus'[p] # orderStatus[p] => orderStatus'[p] = Pending
    BY DEF PaymentInv, PaymentTypeOK, CreateStep, CreateOrder, CreateTransaction,
           RequestPayment, StoreToken, DeleteTransaction, DeleteOrder,
           Pay, Cancel, GatewayUnchanged, tables
  <2>2. CASE CreateTransaction(o) \/ StoreToken(o)
    <3>1. NewTxn.status = Open /\ TokenTxn.status = Open
      BY DEF NewTxn, TokenTxn
    <3>2. \A p \in Orders : txn'[p] = txn[p] \/ txn'[p] = NewTxn \/ txn'[p] = TokenTxn
      BY <2>2 DEF PaymentInv, PaymentTypeOK, CreateTransaction, StoreToken
    <3>3. \A p \in Orders : txn'[p] = txn[p] \/ txn'[p].status = Open
      BY <3>1, <3>2
    <3> QED BY <2>1, <3>3 DEF Success, Pending, Open
  <2>3. CASE ~(CreateTransaction(o) \/ StoreToken(o))
    <3>1. txn' = txn
      BY <2>3 DEF CreateStep, CreateOrder, RequestPayment, DeleteTransaction, DeleteOrder,
                  Pay, Cancel, GatewayUnchanged, tables
    <3> QED BY <2>1, <3>1 DEF Success, Pending
  <2> QED BY <2>2, <2>3
<1>3. Payment'
  <2>1. OwnerProgress' /\ OneOwner' /\ FailureCode'
    BY <1>0 DEF PaymentInv, Payment, OwnerProgress, OneOwner, FailureCode, OrderOf, InOrder, PaymentTypeOK, Handler, Callback
  <2>2. InOrder'
    BY <1>0 DEF PaymentInv, Payment, InOrder
  <2>3. SuccessIsPaid'
    BY <1>0, <1>2 DEF PaymentInv, Payment, SuccessIsPaid
  <2>4. RecordedIsAccountedFor'
    BY <1>0 DEF PaymentInv, Payment, RecordedIsAccountedFor, AtStep, OrderOf
  <2> QED BY <2>1, <2>2, <2>3, <2>4 DEF Payment
<1>4. RowsWritten'
  BY DEF PaymentInv, PaymentTypeOK, RowsWritten, CreateStep, CreateOrder, CreateTransaction,
         RequestPayment, StoreToken, DeleteTransaction, DeleteOrder,
         Pay, Cancel, GatewayUnchanged, tables
<1>5. NotYetRequested'
  BY <1>0, <1>1 DEF PaymentInv, NotYetRequested
<1> QED BY <1>3, <1>4, <1>5

-----------------------------------------------------------------------------
(* HandleCallback *)

(* What handler h does leaves the other handlers and CreateOrder alone. *)
LEMMA OthersUnchanged ==
  ASSUME PaymentTypeOK, NEW h \in Handlers, ReceiveCallback(h) \/ HandlerStep(h) \/ HandlerFails(h)
  PROVE  /\ \A g \in Handlers \ {h} : handler'[g] = handler[g]
         /\ UNCHANGED <<creation, orderRows, txnRows>>
<1>1. \A g \in Handlers \ {h} : handler'[g] = handler[g]
  BY DEF PaymentTypeOK, ReceiveCallback, HandlerStep, Verify, CheckBonus, FinalizeTx, Credit, RequestReferral,
         FailOrder, FailTxn, HandlerFails, HandlerGoto, Return
<1>2. UNCHANGED <<creation, orderRows, txnRows>>
  BY DEF ReceiveCallback, HandlerStep, Verify, CheckBonus, FinalizeTx, Credit, RequestReferral,
         FailOrder, FailTxn, HandlerFails, HandlerUnchanged, tables
<1> QED BY <1>1, <1>2

(* The fields of a handler after Goto. *)
LEMMA GotoFields ==
  ASSUME PaymentTypeOK, NEW h \in Handlers, NEW pc, HandlerGoto(h, pc)
  PROVE  /\ handler'[h].pc = pc
         /\ handler'[h].cb = handler[h].cb
         /\ handler'[h].code = handler[h].code
<1>1. handler[h] \in Handler /\ handler'[h] = [handler[h] EXCEPT !.pc = pc]
  BY DEF PaymentTypeOK, HandlerGoto
<1> QED BY <1>1 DEF Handler

(* A handler that returns is idle. *)
LEMMA ReturnFields ==
  ASSUME PaymentTypeOK, NEW h \in Handlers, Return(h)
  PROVE  handler'[h].pc = "idle"
BY DEF PaymentTypeOK, Return, Idle

(* A step that writes no table and does not take over an order. *)
LEMMA QuietInv ==
  ASSUME PaymentInv, PaymentTypeOK', NEW h \in Handlers,
         \A g \in Handlers \ {h} : handler'[g] = handler[g],
         handler'[h].pc \notin Owning,
         handler'[h].pc \in {"failOrder", "failTxn"} => handler'[h].code # Success,
         UNCHANGED <<orderStatus, txn, payments, credits, referrals>>,
         uncredited \subseteq uncredited',
         handler[h].pc = "credit" => OrderOf(h) \in uncredited',
         \A o \in Orders : gateway'[o] = gateway[o] \/ gateway[o] = "paid"
  PROVE  Payment'
<1>1. OwnerProgress'
  <2>1. ASSUME NEW g \in Handlers, handler'[g].pc \in Owning
        PROVE  /\ handler'[g] = handler[g]
               /\ gateway[OrderOf(g)] = "verified" => gateway'[OrderOf(g)] = "verified"
    <3>1. handler[g].cb.order \in Orders
      BY DEF PaymentInv, PaymentTypeOK, Handler, Callback
    <3> QED BY <2>1, <3>1 DEF OrderOf
  <2> QED BY <2>1 DEF PaymentInv, Payment, OwnerProgress, OrderOf, Owning
<1>2. OneOwner'
  BY DEF PaymentInv, Payment, OneOwner, OrderOf
<1>3. InOrder' /\ FailureCode' /\ SuccessIsPaid'
  BY DEF PaymentInv, Payment, InOrder, FailureCode, SuccessIsPaid
<1>4. RecordedIsAccountedFor'
  BY DEF PaymentInv, Payment, RecordedIsAccountedFor, AtStep, OrderOf
<1> QED BY <1>1, <1>2, <1>3, <1>4 DEF Payment

(* Verify makes h the owner only if the gateway says so for the first time. *)
LEMMA VerifyInv ==
  ASSUME PaymentInv, PaymentTypeOK', NEW h \in Handlers, Verify(h)
  PROVE  Payment'
<1> DEFINE o == OrderOf(h)
           code == VerifyCode(o, handler[h].cb.token \/ handler[h].txn.token)
<1>0. /\ o \in Orders /\ handler[h] \in Handler
      /\ handler[h].pc = "verify"
      /\ \A g \in Handlers \ {h} : handler'[g] = handler[g]
      /\ UNCHANGED <<orderStatus, txn, payments, credits, referrals, uncredited>>
  BY OthersUnchanged DEF PaymentInv, PaymentTypeOK, Handler, Callback, OrderOf, Verify, AtStep, tables, history, HandlerStep
<1>1. code = Success => gateway[o] = "paid"
  <2>1. /\ gateway[o] = "verified" => code \in {InvalidToken, AlreadyVerified}
        /\ gateway[o] \notin {"paid", "verified"} => code \in {InvalidToken, Unknown}
    <3>1. CASE gateway[o] = "verified"
      BY <3>1 DEF VerifyCode
    <3>2. CASE gateway[o] \notin {"paid", "verified"}
      BY <3>2 DEF VerifyCode
    <3> QED BY <3>1, <3>2
  <2> QED BY <2>1 DEF Success, InvalidToken, AlreadyVerified, Unknown
<1>2. \A p \in Orders : gateway'[p] = gateway[p] \/ gateway[p] = "paid"
  <2>1. gateway' = gateway \/ gateway' = [gateway EXCEPT ![o] = IF code = Success THEN "verified" ELSE @]
    BY DEF Verify
  <2> QED BY <1>0, <1>1, <2>1 DEF PaymentInv, PaymentTypeOK
<1>3. CASE handler'[h].pc = "failOrder" /\ handler'[h].code # Success
  BY <1>0, <1>2, <1>3, QuietInv DEF Owning
<1>4. CASE /\ handler'[h].pc = "bonus" /\ handler'[h].cb = handler[h].cb
           /\ gateway[o] = "paid"
           /\ gateway' = [gateway EXCEPT ![o] = "verified"]
  <2>1. OrderOf(h)' = o
    BY <1>4 DEF OrderOf
  <2>2. payments[o] = 0
    <3>1. payments[o] \in Nat
      BY <1>0 DEF PaymentInv, PaymentTypeOK
    <3> QED BY <1>0, <1>4, <3>1 DEF PaymentInv, Payment, InOrder
  <2>3. \A g \in Handlers : OrderOf(g) = o => handler[g].pc \notin Owning
    <3>1. credits[o] = 0 /\ referrals[o] = 0
      BY <1>0, <2>2 DEF PaymentInv, Payment, InOrder, PaymentTypeOK
    <3> QED BY <1>4, <2>2, <3>1 DEF PaymentInv, Payment, OwnerProgress, Owning
  <2>4. gateway'[o] = "verified" /\ \A p \in Orders \ {o} : gateway'[p] = gateway[p]
    BY <1>0, <1>4 DEF PaymentInv, PaymentTypeOK
  <2>5. OwnerProgress'
    <3>1. ASSUME NEW g \in Handlers \ {h}
          PROVE  /\ handler'[g] = handler[g] /\ OrderOf(g)' = OrderOf(g)
                 /\ gateway[OrderOf(g)] = "verified" => gateway'[OrderOf(g)] = "verified"
      <4>1. OrderOf(g) \in Orders
        BY DEF PaymentInv, PaymentTypeOK, Handler, Callback, OrderOf
      <4> QED BY <1>0, <2>4, <4>1 DEF OrderOf
    <3> QED BY <1>0, <1>4, <2>1, <2>2, <2>4, <3>1 DEF PaymentInv, Payment, OwnerProgress
  <2>6. OneOwner'
    BY <1>0, <2>1, <2>3 DEF PaymentInv, Payment, OneOwner, OrderOf
  <2>7. InOrder' /\ FailureCode' /\ SuccessIsPaid'
    BY <1>0, <1>4, <2>4 DEF PaymentInv, Payment, InOrder, FailureCode, SuccessIsPaid
  <2>8. RecordedIsAccountedFor'
    BY <1>0 DEF PaymentInv, Payment, RecordedIsAccountedFor, AtStep, OrderOf
  <2> QED BY <2>5, <2>6, <2>7, <2>8 DEF Payment
<1>5. CASE handler' = [handler EXCEPT ![h].pc = "failOrder", ![h].code = Unknown]
  <2>1. handler'[h] = [handler[h] EXCEPT !.pc = "failOrder", !.code = Unknown]
    BY <1>5 DEF PaymentInv, PaymentTypeOK
  <2>2. handler'[h].pc = "failOrder" /\ handler'[h].code = Unknown
    BY <1>0, <2>1 DEF Handler
  <2> QED BY <1>3, <2>2 DEF Unknown, Success
<1>6. CASE /\ gateway' = [gateway EXCEPT ![o] = IF code = Success THEN "verified" ELSE @]
           /\ handler' = [handler EXCEPT
                ![h].pc = IF code = Success THEN "bonus" ELSE "failOrder",
                ![h].code = code]
  <2>1. handler'[h] = [handler[h] EXCEPT !.pc = IF code = Success THEN "bonus" ELSE "failOrder",
                                         !.code = code]
    BY <1>6 DEF PaymentInv, PaymentTypeOK
  <2>2. /\ handler'[h].pc = IF code = Success THEN "bonus" ELSE "failOrder"
        /\ handler'[h].code = code
        /\ handler'[h].cb = handler[h].cb
    BY <1>0, <2>1 DEF Handler
  <2>3. CASE code = Success
    BY <1>1, <1>4, <1>6, <2>2, <2>3
  <2>4. CASE code # Success
    BY <1>3, <2>2, <2>4
  <2> QED BY <2>3, <2>4
<1> QED BY <1>5, <1>6 DEF Verify

(* The bonus check keeps the owner where it was. *)
LEMMA CheckBonusInv ==
  ASSUME PaymentInv, PaymentTypeOK', NEW h \in Handlers, CheckBonus(h)
  PROVE  Payment'
<1>0. /\ \A g \in Handlers \ {h} : handler'[g] = handler[g]
      /\ handler[h].pc = "bonus"
      /\ UNCHANGED <<gateway, orderStatus, txn, payments, credits, referrals, uncredited>>
  BY OthersUnchanged DEF PaymentInv, HandlerStep, CheckBonus, AtStep, tables, history
<1>1. handler'[h].pc = "commit" /\ handler'[h].cb = handler[h].cb
  <2>1. handler[h] \in Handler
    BY DEF PaymentInv, PaymentTypeOK
  <2>2. handler'[h] = [handler[h] EXCEPT !.pc = "commit", !.bonus = CanGetBonus(h)]
    BY DEF PaymentInv, PaymentTypeOK, CheckBonus
  <2> QED BY <2>1, <2>2 DEF Handler
<1>2. OwnerProgress' /\ OneOwner'
  BY <1>0, <1>1 DEF PaymentInv, Payment, OwnerProgress, OneOwner, OrderOf, Owning
<1>3. InOrder' /\ FailureCode' /\ SuccessIsPaid'
  BY <1>0, <1>1 DEF PaymentInv, Payment, InOrder, FailureCode, SuccessIsPaid
<1>4. RecordedIsAccountedFor'
  BY <1>0, <1>1 DEF PaymentInv, Payment, RecordedIsAccountedFor, AtStep, OrderOf
<1> QED BY <1>2, <1>3, <1>4 DEF Payment

(* The owner records the payment, which nobody has recorded before. *)
LEMMA FinalizeInv ==
  ASSUME PaymentInv, PaymentTypeOK', NEW h \in Handlers, FinalizeTx(h)
  PROVE  Payment'
<1> DEFINE o == OrderOf(h)
<1>0. /\ o \in Orders /\ handler[h].pc = "commit"
      /\ \A g \in Handlers \ {h} : handler'[g] = handler[g]
      /\ handler'[h].pc = "credit" /\ handler'[h].cb = handler[h].cb
      /\ UNCHANGED <<gateway, credits, referrals, uncredited>>
  BY OthersUnchanged, GotoFields
     DEF PaymentInv, PaymentTypeOK, Handler, Callback, OrderOf, HandlerStep, FinalizeTx, AtStep, history
<1>1. /\ payments[o] = 0 /\ gateway[o] = "verified"
      /\ \A g \in Handlers \ {h} : handler[g].pc \in Owning => OrderOf(g) # o
  BY <1>0 DEF PaymentInv, Payment, OwnerProgress, OneOwner, Owning
<1>2. /\ payments'[o] = 1 /\ credits[o] = 0 /\ referrals[o] = 0
      /\ \A p \in Orders \ {o} : /\ payments'[p] = payments[p]
                                 /\ orderStatus'[p] = orderStatus[p]
                                 /\ txn'[p] = txn[p]
  <2>1. payments' = [payments EXCEPT ![o] = @ + 1]
    BY DEF FinalizeTx
  <2>2. credits[o] = 0 /\ referrals[o] = 0
    BY <1>0, <1>1 DEF PaymentInv, Payment, InOrder, PaymentTypeOK
  <2> QED BY <1>0, <1>1, <2>1, <2>2 DEF PaymentInv, PaymentTypeOK, FinalizeTx
<1>3. OrderOf(h)' = o /\ \A g \in Handlers \ {h} : OrderOf(g)' = OrderOf(g)
  BY <1>0 DEF OrderOf
<1>4. OwnerProgress'
  <2>1. ASSUME NEW g \in Handlers \ {h}, handler[g].pc \in Owning
        PROVE  payments'[OrderOf(g)] = payments[OrderOf(g)]
    <3>1. OrderOf(g) \in Orders
      BY DEF PaymentInv, PaymentTypeOK, Handler, Callback, OrderOf
    <3> QED BY <1>1, <1>2, <2>1, <3>1
  <2> QED BY <1>0, <1>2, <1>3, <2>1 DEF PaymentInv, Payment, OwnerProgress, Owning
<1>5. OneOwner'
  BY <1>0, <1>3 DEF PaymentInv, Payment, OneOwner, Owning
<1>6. InOrder'
  BY <1>0, <1>1, <1>2 DEF PaymentInv, Payment, InOrder
<1>7. FailureCode'
  BY <1>0 DEF PaymentInv, Payment, FailureCode
<1>8. SuccessIsPaid'
  BY <1>0, <1>1, <1>2 DEF PaymentInv, Payment, SuccessIsPaid
<1>9. RecordedIsAccountedFor'
  BY <1>0, <1>2, <1>3 DEF PaymentInv, Payment, RecordedIsAccountedFor, AtStep
<1> QED BY <1>4, <1>5, <1>6, <1>7, <1>8, <1>9 DEF Payment

(* The owner credits the wallet, which nobody has credited before, or      *)
(* gives up and leaves the order on the list of uncredited ones.           *)
LEMMA CreditInv ==
  ASSUME PaymentInv, PaymentTypeOK', NEW h \in Handlers, Credit(h)
  PROVE  Payment'
<1> DEFINE o == OrderOf(h)
<1>0. /\ o \in Orders /\ handler[h].pc = "credit"
      /\ \A g \in Handlers \ {h} : handler'[g] = handler[g]
      /\ UNCHANGED <<gateway, orderStatus, txn, payments, referrals>>
  BY OthersUnchanged
     DEF PaymentInv, PaymentTypeOK, Handler, Callback, OrderOf, HandlerStep, Credit, AtStep, tables
<1>1. CASE UNCHANGED credits
  <2>1. Return(h) /\ uncredited' = uncredited \union {o}
    <3>1. credits[o] \in Nat
      BY <1>0 DEF PaymentInv, PaymentTypeOK
    <3>2. ~CreditWallet(h)
      BY <1>0, <1>1, <3>1 DEF CreditWallet, PaymentInv, PaymentTypeOK
    <3> QED BY <3>2 DEF Credit
  <2>2. handler'[h].pc = "idle"
    BY <2>1, ReturnFields DEF PaymentInv
  <2> QED BY <1>0, <1>1, <2>1, <2>2, QuietInv DEF Owning
<1>2. CASE CreditWallet(h) /\ uncredited' = uncredited /\ (HandlerGoto(h, "referral") \/ Return(h))
  <2>1. /\ payments[o] = 1 /\ credits[o] = 0
        /\ \A g \in Handlers \ {h} : handler[g].pc \in Owning => OrderOf(g) # o
    BY <1>0 DEF PaymentInv, Payment, OwnerProgress, OneOwner, Owning
  <2>2. /\ credits'[o] = 1 /\ referrals[o] = 0 /\ gateway[o] = "verified"
        /\ \A p \in Orders \ {o} : credits'[p] = credits[p]
    <3>1. credits' = [credits EXCEPT ![o] = @ + 1]
      BY <1>2 DEF CreditWallet
    <3>2. referrals[o] = 0 /\ gateway[o] = "verified"
      BY <1>0, <2>1 DEF PaymentInv, Payment, InOrder, PaymentTypeOK
    <3> QED BY <1>0, <2>1, <3>1, <3>2 DEF PaymentInv, PaymentTypeOK
  <2>3. /\ handler'[h].pc \in {"referral", "idle"}
        /\ handler'[h].pc = "referral" => OrderOf(h)' = o
        /\ \A g \in Handlers \ {h} : OrderOf(g)' = OrderOf(g)
    BY <1>0, <1>2, GotoFields, ReturnFields DEF PaymentInv, OrderOf
  <2>4. OwnerProgress'
    <3>1. ASSUME NEW g \in Handlers \ {h}, handler[g].pc \in Owning
          PROVE  credits'[OrderOf(g)] = credits[OrderOf(g)]
      <4>1. OrderOf(g) \in Orders
        BY DEF PaymentInv, PaymentTypeOK, Handler, Callback, OrderOf
      <4> QED BY <2>1, <2>2, <3>1, <4>1
    <3> QED BY <1>0, <2>2, <2>3, <3>1 DEF PaymentInv, Payment, OwnerProgress, Owning
  <2>5. OneOwner'
    BY <1>0, <2>3 DEF PaymentInv, Payment, OneOwner, Owning
  <2>6. InOrder'
    BY <1>0, <2>1, <2>2 DEF PaymentInv, Payment, InOrder
  <2>7. FailureCode' /\ SuccessIsPaid'
    BY <1>0, <2>3 DEF PaymentInv, Payment, FailureCode, SuccessIsPaid
  <2>8. RecordedIsAccountedFor'
    BY <1>0, <1>2, <2>2, <2>3 DEF PaymentInv, Payment, RecordedIsAccountedFor, AtStep
  <2> QED BY <2>4, <2>5, <2>6, <2>7, <2>8 DEF Payment
<1> QED BY <1>1, <1>2 DEF Credit

(* The owner asks for the referral commission once and is done. *)
LEMMA ReferralInv ==
  ASSUME PaymentInv, PaymentTypeOK', NEW h \in Handlers, RequestReferral(h)
  PROVE  Payment'
<1> DEFINE o == OrderOf(h)
<1>0. /\ o \in Orders /\ handler[h].pc = "referral" /\ handler'[h].pc = "idle"
      /\ \A g \in Handlers \ {h} : handler'[g] = handler[g] /\ OrderOf(g)' = OrderOf(g)
      /\ UNCHANGED <<gateway, orderStatus, txn, payments, credits, uncredited>>
  BY OthersUnchanged, ReturnFields
     DEF PaymentInv, PaymentTypeOK, Handler, Callback, OrderOf, HandlerStep, RequestReferral, AtStep, tables
<1>1. /\ credits[o] = 1 /\ referrals[o] = 0
      /\ \A g \in Handlers \ {h} : handler[g].pc \in Owning => OrderOf(g) # o
  BY <1>0 DEF PaymentInv, Payment, OwnerProgress, OneOwner, Owning
<1>2. referrals'[o] = 1 /\ \A p \in Orders \ {o} : referrals'[p] = referrals[p]
  <2>1. referrals' = [referrals EXCEPT ![o] = @ + 1]
    BY DEF RequestReferral
  <2> QED BY <1>0, <1>1, <2>1 DEF PaymentInv, PaymentTypeOK
<1>3. OwnerProgress'
  <2>1. ASSUME NEW g \in Handlers \ {h}, handler[g].pc \in Owning
        PROVE  referrals'[OrderOf(g)] = referrals[OrderOf(g)]
    <3>1. OrderOf(g) \in Orders
      BY DEF PaymentInv, PaymentTypeOK, Handler, Callback, OrderOf
    <3> QED BY <1>1, <1>2, <2>1, <3>1
  <2> QED BY <1>0, <2>1 DEF PaymentInv, Payment, OwnerProgress, Owning
<1>4. OneOwner'
  BY <1>0 DEF PaymentInv, Payment, OneOwner, Owning
<1>5. InOrder' /\ FailureCode' /\ SuccessIsPaid'
  BY <1>0, <1>1, <1>2 DEF PaymentInv, Payment, InOrder, FailureCode, SuccessIsPaid
<1>6. RecordedIsAccountedFor'
  BY <1>0 DEF PaymentInv, Payment, RecordedIsAccountedFor, AtStep
<1> QED BY <1>3, <1>4, <1>5, <1>6 DEF Payment

(* Marking an order failed writes a code that is not success. *)
LEMMA FailInv ==
  ASSUME PaymentInv, PaymentTypeOK', NEW h \in Handlers, FailOrder(h) \/ FailTxn(h)
  PROVE  Payment'
<1> DEFINE o == OrderOf(h)
<1>0. /\ o \in Orders /\ handler[h].pc \in {"failOrder", "failTxn"}
      /\ handler[h].code # Success
      /\ \A g \in Handlers \ {h} : handler'[g] = handler[g] /\ OrderOf(g)' = OrderOf(g)
      /\ UNCHANGED <<gateway, payments, credits, referrals, uncredited>>
  BY OthersUnchanged
     DEF PaymentInv, PaymentTypeOK, Handler, Callback, OrderOf, HandlerStep, FailOrder, FailTxn, AtStep,
         history, Payment, FailureCode
<1>1. \/ handler'[h].pc = "idle"
      \/ handler'[h].pc = "failTxn" /\ handler'[h].code # Success
  <2>1. CASE FailOrder(h)
    <3>1. HandlerGoto(h, "failTxn") /\ PaymentTypeOK
      BY <2>1 DEF PaymentInv, FailOrder
    <3> QED BY <1>0, <3>1, GotoFields
  <2>2. CASE FailTxn(h)
    <3>1. Return(h) /\ PaymentTypeOK
      BY <2>2 DEF PaymentInv, FailTxn
    <3> QED BY <3>1, ReturnFields
  <2> QED BY <2>1, <2>2
<1>2. \A p \in Orders : /\ orderStatus'[p] = Success => orderStatus[p] = Success
                        /\ txn'[p].status = Success => txn[p].status = Success
  <2>1. CASE FailOrder(h)
    BY <1>0, <2>1 DEF FailOrder, PaymentInv, PaymentTypeOK
  <2>2. CASE FailTxn(h)
    <3>1. handler[h].txn \in Txn
      BY DEF PaymentInv, PaymentTypeOK, Handler
    <3>2. [handler[h].txn EXCEPT !.status = handler[h].code].status = handler[h].code
      BY <3>1 DEF Txn
    <3>3. /\ txn'[o] = [handler[h].txn EXCEPT !.status = handler[h].code]
          /\ \A p \in Orders \ {o} : txn'[p] = txn[p]
          /\ orderStatus' = orderStatus
      BY <1>0, <2>2 DEF FailTxn, PaymentInv, PaymentTypeOK
    <3>4. txn'[o].status # Success
      BY <1>0, <3>2, <3>3
    <3> QED BY <3>3, <3>4
  <2> QED BY <2>1, <2>2
<1>3. OwnerProgress' /\ OneOwner'
  BY <1>0, <1>1 DEF PaymentInv, Payment, OwnerProgress, OneOwner, Owning
<1>4. InOrder' /\ FailureCode' /\ SuccessIsPaid'
  BY <1>0, <1>1, <1>2 DEF PaymentInv, Payment, InOrder, FailureCode, SuccessIsPaid
<1>5. RecordedIsAccountedFor'
  BY <1>0, <1>1 DEF PaymentInv, Payment, RecordedIsAccountedFor, AtStep
<1> QED BY <1>3, <1>4, <1>5 DEF Payment

(* A callback that arrives, or a handler that fails, takes over no order. *)
LEMMA ReceiveInv ==
  ASSUME PaymentInv, PaymentTypeOK', NEW h \in Handlers, ReceiveCallback(h)
  PROVE  Payment'
<1>0. /\ handler[h].pc = "idle"
      /\ \A g \in Handlers \ {h} : handler'[g] = handler[g]
      /\ UNCHANGED <<gateway, orderStatus, txn, payments, credits, referrals, uncredited>>
  BY OthersUnchanged DEF PaymentInv, ReceiveCallback, AtStep, tables, history
<1>1. \/ handler'[h].pc = "verify" \/ handler'[h].pc = "idle"
      \/ handler'[h].pc = "failOrder" /\ handler'[h].code # Success
  BY <1>0 DEF PaymentInv, PaymentTypeOK, ReceiveCallback
<1> QED BY <1>0, <1>1, QuietInv DEF Owning

LEMMA HandlerFailsInv ==
  ASSUME PaymentInv, PaymentTypeOK', NEW h \in Handlers, HandlerFails(h)
  PROVE  Payment'
<1>0. /\ handler'[h].pc = "idle"
      /\ \A g \in Handlers \ {h} : handler'[g] = handler[g]
      /\ UNCHANGED <<gateway, orderStatus, txn, payments, credits, referrals>>
  BY OthersUnchanged, ReturnFields DEF PaymentInv, HandlerFails, tables
<1>1. uncredited \subseteq uncredited' /\ (handler[h].pc = "credit" => OrderOf(h) \in uncredited')
  BY DEF HandlerFails, AtStep
<1> QED BY <1>0, <1>1, QuietInv DEF Owning

(* Every step of a handler keeps the invariant. *)
LEMMA HandlerInv ==
  ASSUME PaymentInv, NEW h \in Handlers, ReceiveCallback(h) \/ HandlerStep(h) \/ HandlerFails(h)
  PROVE  PaymentInv'
<1>1. PaymentTypeOK'
  BY HandlerType DEF PaymentInv
<1>2. Payment'
  BY <1>1, ReceiveInv, VerifyInv, CheckBonusInv, FinalizeInv, CreditInv, ReferralInv, FailInv,
     HandlerFailsInv DEF HandlerStep
<1>3. RowsWritten'
  <2>1. UNCHANGED <<creation, orderRows, txnRows>>
    BY OthersUnchanged DEF PaymentInv
  <2> QED BY <2>1 DEF PaymentInv, RowsWritten
<1>4. NotYetRequested'
  <2>1. UNCHANGED creation
    BY OthersUnchanged DEF PaymentInv
  <2>2. \A o \in Orders : gateway[o] = "none" => gateway'[o] = "none"
    <3>1. CASE Verify(h)
      <4> DEFINE p == OrderOf(h)
                 code == VerifyCode(p, handler[h].cb.token \/ handler[h].txn.token)
      <4>1. p \in Orders
        BY DEF PaymentInv, PaymentTypeOK, Handler, Callback, OrderOf
      <4>2. gateway[p] = "none" => code # Success
        BY DEF VerifyCode, Success, InvalidToken, Unknown
      <4>3. gateway' = gateway \/ gateway' = [gateway EXCEPT ![p] = IF code = Success THEN "verified" ELSE @]
        BY <3>1 DEF Verify
      <4> HIDE DEF code
      <4> QED BY <4>1, <4>2, <4>3 DEF PaymentInv, PaymentTypeOK
    <3>2. CASE ~Verify(h)
      BY <3>2 DEF ReceiveCallback, HandlerStep, CheckBonus, FinalizeTx, Credit, RequestReferral,
                  FailOrder, FailTxn, HandlerFails
    <3> QED BY <3>1, <3>2
  <2> QED BY <2>1, <2>2 DEF PaymentInv, NotYetRequested
<1> QED BY <1>1, <1>2, <1>3, <1>4 DEF PaymentInv

-----------------------------------------------------------------------------
(* The initial state satisfies the invariant. *)
LEMMA PaymentInitInv == PaymentInit => PaymentInv
<1> SUFFICES ASSUME PaymentInit PROVE PaymentInv
  OBVIOUS
<1>1. PaymentTypeOK
  <2>1. handler \in [Handlers -> Handler]
    BY IdleType DEF PaymentInit
  <2>2. NewTxn \in Txn /\ Pending \in Codes
    BY DEF NewTxn, Txn, Codes, Open
  <2>3. walletOf \in [Buyers -> Seq([Assets -> Int])]
    <3>1. NewWallet \in [Assets -> Int]
      BY DEF NewWallet
    <3>2. <<>> \in Seq([Assets -> Int]) /\ <<NewWallet>> \in Seq([Assets -> Int])
      BY <3>1
    <3> QED BY <3>2 DEF PaymentInit
  <2> QED BY <2>1, <2>2, <2>3, LimitsAssumption DEF PaymentInit, PaymentTypeOK
<1>2. \A h \in Handlers : handler[h].pc = "idle"
  BY DEF PaymentInit, Idle
<1>3. \A o \in Orders : orderStatus[o] # Success /\ txn[o].status # Success
  BY DEF PaymentInit, NewTxn, Pending, Open, Success
<1>4. Payment
  BY <1>2, <1>3 DEF PaymentInit, Payment, OwnerProgress, OneOwner, InOrder, FailureCode,
                    SuccessIsPaid, RecordedIsAccountedFor, Owning
<1>5. RowsWritten /\ NotYetRequested
  BY DEF PaymentInit, RowsWritten, NotYetRequested
<1> QED BY <1>1, <1>4, <1>5 DEF PaymentInv

(* Every step keeps the invariant. *)
LEMMA PaymentNextInv == PaymentInv /\ [PaymentNext]_paymentVars => PaymentInv'
<1> SUFFICES ASSUME PaymentInv, [PaymentNext]_paymentVars PROVE PaymentInv'
  OBVIOUS
<1>1. CASE UNCHANGED paymentVars
  BY <1>1 DEF PaymentInv, paymentVars, tables, history, PaymentTypeOK, Payment, OwnerProgress, OneOwner, InOrder,
              FailureCode, SuccessIsPaid, RecordedIsAccountedFor, RowsWritten,
              NotYetRequested, OrderOf, AtStep
<1>2. ASSUME NEW o \in Orders, CreateStep(o) \/ Pay(o) \/ Cancel(o) PROVE PaymentInv'
  <2>1. PaymentTypeOK'
    BY <1>2, CreateType, GatewayType DEF PaymentInv
  <2> QED BY <1>2, <2>1, CreateInv DEF PaymentInv
<1>3. ASSUME NEW h \in Handlers, ReceiveCallback(h) \/ HandlerStep(h) \/ HandlerFails(h) PROVE PaymentInv'
  BY <1>3, HandlerInv
<1> QED BY <1>1, <1>2, <1>3 DEF PaymentNext

(* Orders, transactions, payments and handlers keep their types. *)
THEOREM PaymentTypeCorrect == PaymentSpec => []PaymentTypeOK
<1>1. PaymentInv => PaymentTypeOK
  BY DEF PaymentInv
<1> QED BY PaymentInitInv, PaymentNextInv, <1>1, PTL DEF PaymentSpec

(* However many handlers serve an order's callbacks, its payment is        *)
(* recorded and credited at most once.                                     *)
THEOREM NoDoubleCredit == PaymentSpec => []CreditedOnce
<1>1. PaymentInv => CreditedOnce
  BY DEF PaymentInv, Payment, InOrder, CreditedOnce
<1> QED BY PaymentInitInv, PaymentNextInv, <1>1, PTL DEF PaymentSpec

(* A successful order has a verified payment on record. *)
THEOREM SuccessNeedsPayment == PaymentSpec => []SuccessIsPaid
<1>1. PaymentInv => SuccessIsPaid
  BY DEF PaymentInv, Payment
<1> QED BY PaymentInitInv, PaymentNextInv, <1>1, PTL DEF PaymentSpec

(* A recorded payment is credited, being credited, or reported as failed. *)
THEOREM NoSilentLoss == PaymentSpec => []RecordedIsAccountedFor
<1>1. PaymentInv => RecordedIsAccountedFor
  BY DEF PaymentInv, Payment
<1> QED BY PaymentInitInv, PaymentNextInv, <1>1, PTL DEF PaymentSpec

(* A payment link belongs to an order with both its rows. *)
THEOREM LinksAreBacked == PaymentSpec => []LinkHasRows
<1>1. PaymentInv => LinkHasRows
  BY DEF PaymentInv, RowsWritten, LinkHasRows
<1> QED BY PaymentInitInv, PaymentNextInv, <1>1, PTL DEF PaymentSpec

-----------------------------------------------------------------------------
(* The first-order bonus *)

(* The orders of u whose bonus is credited or about to be. *)
Rewarded(u) ==
  {o \in Orders :
     /\ request[o].user = u
     /\ \/ bonuses[o] > 0
        \/ \E h \in Handlers : AtStep(h, "credit") /\ handler[h].bonus /\ OrderOf(h) = o}

(* Each of them has a row of its own in first_orders. *)
RewardsOnRecord ==
  \A u \in Buyers : IsFiniteSet(Rewarded(u)) /\ Cardinality(Rewarded(u)) <= firstOrders[u]

(* No handler means to give a bonus for an irr order. *)
NoBonusForIrr ==
  /\ \A h \in Handlers : handler[h].bonus => AssetOf(h) # "irr"
  /\ \A o \in Orders : bonuses[o] > 0 => request[o].asset # "irr"

BonusInv == PaymentTypeOK /\ RewardsOnRecord /\ NoBonusForIrr

(* Fewer orders to reward need no more rows. *)
LEMMA FewerRewards ==
  ASSUME RewardsOnRecord, PaymentTypeOK, UNCHANGED firstOrders, \A u \in Buyers : Rewarded(u)' \subseteq Rewarded(u)
  PROVE  RewardsOnRecord'
<1>1. ASSUME NEW u \in Buyers
      PROVE  IsFiniteSet(Rewarded(u)') /\ Cardinality(Rewarded(u)') <= firstOrders[u]
  <2>1. IsFiniteSet(Rewarded(u)) /\ Cardinality(Rewarded(u)) <= firstOrders[u]
    BY DEF RewardsOnRecord
  <2>2. IsFiniteSet(Rewarded(u)') /\ Cardinality(Rewarded(u)') <= Cardinality(Rewarded(u))
    BY <2>1, FS_Subset
  <2>3. /\ Cardinality(Rewarded(u)') \in Nat /\ Cardinality(Rewarded(u)) \in Nat
        /\ firstOrders[u] \in Nat
    BY <2>1, <2>2, FS_CardinalityType DEF PaymentTypeOK
  <2> QED BY <2>1, <2>2, <2>3
<1> QED BY <1>1 DEF RewardsOnRecord

(* A handler that does not come to credit adds no order to reward. *)
LEMMA QuietBonus ==
  ASSUME BonusInv, NEW h \in Handlers, UNCHANGED <<request, firstOrders, bonuses>>,
         \A g \in Handlers \ {h} : handler'[g] = handler[g],
         handler'[h].pc # "credit",
         handler'[h].bonus => AssetOf(h)' # "irr"
  PROVE  RewardsOnRecord' /\ NoBonusForIrr'
<1>1. \A u \in Buyers : Rewarded(u)' \subseteq Rewarded(u)
  BY DEF Rewarded, AtStep, OrderOf
<1>2. RewardsOnRecord'
  BY <1>1, FewerRewards DEF BonusInv
<1>3. NoBonusForIrr'
  BY DEF BonusInv, NoBonusForIrr, AssetOf, OrderOf
<1> QED BY <1>2, <1>3

(* The transaction that makes room for a bonus writes its row. *)
LEMMA FinalizeBonus ==
  ASSUME BonusInv, NEW h \in Handlers, FinalizeTx(h)
  PROVE  RewardsOnRecord' /\ NoBonusForIrr'
<1> DEFINE o == OrderOf(h)
           v == UserOf(h)
<1>1. /\ PaymentTypeOK /\ handler[h] \in Handler /\ o \in Orders
      /\ firstOrders \in [Buyers -> Nat]
      /\ UNCHANGED <<request, bonuses>>
      /\ firstOrders' = [firstOrders EXCEPT ![v] = IF handler[h].bonus THEN @ + 1 ELSE @]
      /\ handler' = [handler EXCEPT ![h].pc = "credit"]
  BY DEF BonusInv, PaymentTypeOK, Handler, Callback, FinalizeTx, HandlerUnchanged, history, HandlerGoto, OrderOf
<1>2. /\ handler'[h] = [handler[h] EXCEPT !.pc = "credit"]
      /\ handler'[h].bonus = handler[h].bonus /\ handler'[h].cb = handler[h].cb
      /\ \A g \in Handlers \ {h} : handler'[g] = handler[g]
  BY <1>1 DEF PaymentTypeOK, Handler
<1>3. NoBonusForIrr'
  BY <1>1, <1>2 DEF BonusInv, NoBonusForIrr, AssetOf, OrderOf
<1>4. CASE ~ handler[h].bonus
  <2>1. \A u \in Buyers : Rewarded(u)' \subseteq Rewarded(u)
    BY <1>1, <1>2, <1>4 DEF Rewarded, AtStep, OrderOf
  <2>2. UNCHANGED firstOrders
    BY <1>1, <1>4
  <2> QED BY <1>1, <1>3, <2>1, <2>2, FewerRewards DEF BonusInv
<1>5. CASE handler[h].bonus
  <2>1. ASSUME NEW u \in Buyers
        PROVE  IsFiniteSet(Rewarded(u)') /\ Cardinality(Rewarded(u)') <= firstOrders'[u]
    <3>1. /\ IsFiniteSet(Rewarded(u)) /\ Cardinality(Rewarded(u)) <= firstOrders[u]
          /\ firstOrders[u] \in Nat
      BY <1>1 DEF BonusInv, RewardsOnRecord
    <3>2. CASE u = v
      <4>1. Rewarded(u)' \subseteq Rewarded(u) \union {o}
        BY <1>1, <1>2 DEF Rewarded, AtStep, OrderOf
      <4>2. /\ IsFiniteSet(Rewarded(u) \union {o})
            /\ Cardinality(Rewarded(u) \union {o}) <= Cardinality(Rewarded(u)) + 1
        <5>1. Cardinality(Rewarded(u)) \in Nat
          BY <3>1, FS_CardinalityType
        <5>2. /\ IsFiniteSet(Rewarded(u) \union {o})
              /\ Cardinality(Rewarded(u) \union {o}) = IF o \in Rewarded(u)
                   THEN Cardinality(Rewarded(u)) ELSE Cardinality(Rewarded(u)) + 1
          BY <3>1, FS_AddElement, Zenon
        <5> QED BY <5>1, <5>2
      <4>3. /\ IsFiniteSet(Rewarded(u)')
            /\ Cardinality(Rewarded(u)') <= Cardinality(Rewarded(u) \union {o})
        BY <4>1, <4>2, FS_Subset
      <4>4. firstOrders'[u] = firstOrders[u] + 1
        BY <1>1, <1>5, <3>2
      <4>5. /\ Cardinality(Rewarded(u)') \in Nat /\ Cardinality(Rewarded(u)) \in Nat
            /\ Cardinality(Rewarded(u) \union {o}) \in Nat
        BY <3>1, <4>2, <4>3, FS_CardinalityType
      <4> QED BY <3>1, <4>2, <4>3, <4>4, <4>5
    <3>3. CASE u # v
      <4>1. Rewarded(u)' \subseteq Rewarded(u)
        BY <1>1, <1>2, <3>3 DEF Rewarded, AtStep, OrderOf, UserOf
      <4>2. /\ IsFiniteSet(Rewarded(u)')
            /\ Cardinality(Rewarded(u)') <= Cardinality(Rewarded(u))
        BY <3>1, <4>1, FS_Subset
      <4>3. Cardinality(Rewarded(u)') \in Nat /\ Cardinality(Rewarded(u)) \in Nat
        BY <3>1, <4>2, FS_CardinalityType
      <4>4. firstOrders'[u] = firstOrders[u]
        BY <1>1, <3>3
      <4> QED BY <3>1, <4>2, <4>3, <4>4
    <3> QED BY <3>2, <3>3
  <2> QED BY <1>3, <2>1 DEF RewardsOnRecord
<1> QED BY <1>4, <1>5

(* The credit moves an order from the handler's hands to the history. *)
LEMMA CreditBonus ==
  ASSUME BonusInv, NEW h \in Handlers, Credit(h)
  PROVE  RewardsOnRecord' /\ NoBonusForIrr'
<1> DEFINE o == OrderOf(h)
<1>1. /\ PaymentTypeOK /\ handler[h] \in Handler /\ o \in Orders /\ bonuses \in [Orders -> Nat]
      /\ UNCHANGED <<request, firstOrders>> /\ handler[h].pc = "credit"
      /\ HandlerGoto(h, "referral") \/ Return(h)
      /\ \/ bonuses' = [bonuses EXCEPT ![o] = IF handler[h].bonus THEN @ + 1 ELSE @]
         \/ bonuses' = bonuses
  BY DEF BonusInv, PaymentTypeOK, Handler, Callback, Credit, CreditWallet, HandlerUnchanged, tables, AtStep, OrderOf
<1>2. /\ \A g \in Handlers \ {h} : handler'[g] = handler[g]
      /\ handler'[h].pc # "credit"
      /\ handler'[h].bonus => handler[h].bonus /\ handler'[h].cb = handler[h].cb
  <2>1. \A g \in Handlers \ {h} : handler'[g] = handler[g]
    BY <1>1 DEF PaymentTypeOK, HandlerGoto, Return
  <2>2. CASE HandlerGoto(h, "referral")
    <3>1. handler'[h] = [handler[h] EXCEPT !.pc = "referral"]
      BY <1>1, <2>2 DEF PaymentTypeOK, HandlerGoto
    <3> QED BY <1>1, <2>1, <3>1 DEF Handler
  <2>3. CASE Return(h)
    BY <1>1, <2>1, <2>3 DEF PaymentTypeOK, Return, Idle
  <2> QED BY <1>1, <2>2, <2>3
<1>3. \A p \in Orders : bonuses'[p] > 0 => bonuses[p] > 0 \/ (p = o /\ handler[h].bonus)
  BY <1>1
<1>4. \A u \in Buyers : Rewarded(u)' \subseteq Rewarded(u)
  BY <1>1, <1>2, <1>3 DEF Rewarded, AtStep, OrderOf
<1>5. RewardsOnRecord'
  BY <1>1, <1>4, FewerRewards DEF BonusInv
<1>6. NoBonusForIrr'
  BY <1>1, <1>2, <1>3 DEF BonusInv, NoBonusForIrr, AssetOf, OrderOf
<1> QED BY <1>5, <1>6

(* Every other step of a handler. *)
LEMMA HandlerBonus ==
  ASSUME BonusInv, NEW h \in Handlers, ReceiveCallback(h) \/ HandlerStep(h) \/ HandlerFails(h)
  PROVE  RewardsOnRecord' /\ NoBonusForIrr'
<1>0. PaymentTypeOK /\ handler[h] \in Handler
  BY DEF BonusInv, PaymentTypeOK
<1>1. \A g \in Handlers \ {h} : handler'[g] = handler[g]
  BY <1>0, OthersUnchanged
<1>2. CASE FinalizeTx(h) \/ Credit(h)
  BY <1>2, FinalizeBonus, CreditBonus
<1>3. CASE ReceiveCallback(h)
  <2>1. UNCHANGED <<request, firstOrders, bonuses>> /\ handler[h].pc = "idle"
    BY <1>3 DEF ReceiveCallback, tables, history, AtStep
  <2>2. \/ handler'[h] = handler[h]
        \/ handler'[h].pc # "credit" /\ handler'[h].bonus = FALSE
    BY <1>0, <1>3 DEF ReceiveCallback, PaymentTypeOK
  <2>3. handler[h].bonus => AssetOf(h) # "irr"
    BY DEF BonusInv, NoBonusForIrr
  <2> QED BY <1>1, <2>1, <2>2, <2>3, QuietBonus DEF AssetOf, OrderOf
<1>4. CASE CheckBonus(h)
  <2>1. UNCHANGED <<request, firstOrders, bonuses>>
    BY <1>4 DEF CheckBonus, HandlerUnchanged, tables, history
  <2>2. handler'[h] = [handler[h] EXCEPT !.pc = "commit", !.bonus = CanGetBonus(h)]
    BY <1>0, <1>4 DEF CheckBonus, PaymentTypeOK
  <2>3. handler'[h].pc = "commit" /\ handler'[h].bonus = CanGetBonus(h) /\ handler'[h].cb = handler[h].cb
    BY <1>0, <2>2 DEF Handler
  <2> QED BY <1>1, <2>1, <2>3, QuietBonus DEF AssetOf, OrderOf, CanGetBonus
<1>5. CASE Verify(h)
  <2>1. UNCHANGED <<request, firstOrders, bonuses>>
    BY <1>5 DEF Verify, HandlerUnchanged, tables, history
  <2>2. \E code : \E pc \in {"bonus", "failOrder"} :
          handler'[h] = [handler[h] EXCEPT !.pc = pc, !.code = code]
    BY <1>0, <1>5 DEF Verify, PaymentTypeOK
  <2>3. handler'[h].pc # "credit" /\ handler'[h].bonus = handler[h].bonus /\ handler'[h].cb = handler[h].cb
    BY <1>0, <2>2 DEF Handler
  <2> QED BY <1>1, <2>1, <2>3, QuietBonus DEF BonusInv, NoBonusForIrr, AssetOf, OrderOf
<1>6. CASE FailOrder(h)
  <2>1. UNCHANGED <<request, firstOrders, bonuses>>
    BY <1>6 DEF FailOrder, HandlerUnchanged, history
  <2>2. handler'[h] = [handler[h] EXCEPT !.pc = "failTxn"]
    BY <1>0, <1>6 DEF FailOrder, HandlerGoto, PaymentTypeOK
  <2>3. handler'[h].pc # "credit" /\ handler'[h].bonus = handler[h].bonus /\ handler'[h].cb = handler[h].cb
    BY <1>0, <2>2 DEF Handler
  <2> QED BY <1>1, <2>1, <2>3, QuietBonus DEF BonusInv, NoBonusForIrr, AssetOf, OrderOf
<1>7. CASE RequestReferral(h) \/ FailTxn(h) \/ HandlerFails(h)
  <2>1. UNCHANGED <<request, firstOrders, bonuses>>
    BY <1>7 DEF RequestReferral, FailTxn, HandlerFails, HandlerUnchanged, tables, history
  <2>2. handler'[h].pc = "idle" /\ handler'[h].bonus = FALSE
    BY <1>0, <1>7 DEF RequestReferral, FailTxn, HandlerFails, Return, Idle, PaymentTypeOK
  <2> QED BY <1>1, <2>1, <2>2, QuietBonus
<1> QED BY <1>2, <1>3, <1>4, <1>5, <1>6, <1>7 DEF HandlerStep

(* Every step keeps it. *)
LEMMA BonusStep == PaymentInv /\ BonusInv /\ [PaymentNext]_paymentVars => BonusInv'
<1> SUFFICES ASSUME PaymentInv, BonusInv, [PaymentNext]_paymentVars PROVE BonusInv'
  OBVIOUS
<1>0. PaymentTypeOK'
  BY PaymentNextInv DEF PaymentInv
<1>1. CASE UNCHANGED <<request, handler, bonuses, firstOrders>>
  <2>1. \A u \in Buyers : Rewarded(u)' \subseteq Rewarded(u)
    BY <1>1 DEF Rewarded, AtStep, OrderOf
  <2>2. RewardsOnRecord'
    BY <1>1, <2>1, FewerRewards DEF BonusInv
  <2> QED BY <1>0, <1>1, <2>2 DEF BonusInv, NoBonusForIrr, AssetOf, OrderOf
<1>2. CASE UNCHANGED paymentVars
  BY <1>1, <1>2 DEF paymentVars, tables, history
<1>3. ASSUME NEW o \in Orders, CreateStep(o) \/ Pay(o) \/ Cancel(o) PROVE BonusInv'
  <2>1. UNCHANGED <<request, handler, bonuses, firstOrders>>
    BY <1>3 DEF CreateStep, CreateOrder, CreateTransaction, RequestPayment, StoreToken,
      DeleteTransaction, DeleteOrder, CreationUnchanged, Pay, Cancel, GatewayUnchanged, tables, history
  <2> QED BY <1>1, <2>1
<1>4. ASSUME NEW h \in Handlers, ReceiveCallback(h) \/ HandlerStep(h) \/ HandlerFails(h) PROVE BonusInv'
  BY <1>0, <1>4, HandlerBonus DEF BonusInv
<1> QED BY <1>2, <1>3, <1>4 DEF PaymentNext

(* At the start nothing is paid. *)
LEMMA BonusInit == PaymentInit => BonusInv
<1> SUFFICES ASSUME PaymentInit PROVE BonusInv
  OBVIOUS
<1>1. PaymentTypeOK
  BY PaymentInitInv DEF PaymentInv
<1>2. /\ \A h \in Handlers : handler[h].pc = "idle" /\ handler[h].bonus = FALSE
      /\ \A o \in Orders : bonuses[o] = 0
  BY DEF PaymentInit, Idle
<1>3. \A u \in Buyers : Rewarded(u) = {}
  BY <1>2 DEF Rewarded, AtStep
<1>4. RewardsOnRecord
  <2>1. IsFiniteSet({}) /\ Cardinality({}) = 0
    BY FS_EmptySet
  <2>2. \A u \in Buyers : firstOrders[u] = 0
    BY DEF PaymentInit
  <2> QED BY <1>3, <2>1, <2>2 DEF RewardsOnRecord
<1> QED BY <1>1, <1>2, <1>4 DEF BonusInv, NoBonusForIrr

(* The bonuses a user got are backed by rows of first_orders, one each,    *)
(* and none was for an irr order, however the user's orders interleave.    *)
THEOREM BonusesOnRecord == PaymentSpec => []BonusIsOnRecord
<1>1. BonusInv => BonusIsOnRecord
  <2> SUFFICES ASSUME BonusInv, NEW u \in Buyers PROVE Cardinality(BonusOrders(u)) <= firstOrders[u]
    BY DEF BonusIsOnRecord, BonusInv, NoBonusForIrr
  <2>1. /\ IsFiniteSet(Rewarded(u)) /\ Cardinality(Rewarded(u)) <= firstOrders[u]
        /\ firstOrders[u] \in Nat
    BY DEF BonusInv, RewardsOnRecord, PaymentTypeOK
  <2>2. BonusOrders(u) \subseteq Rewarded(u)
    BY DEF BonusOrders, Rewarded
  <2>3. IsFiniteSet(BonusOrders(u)) /\ Cardinality(BonusOrders(u)) <= Cardinality(Rewarded(u))
    BY <2>1, <2>2, FS_Subset
  <2>4. Cardinality(BonusOrders(u)) \in Nat /\ Cardinality(Rewarded(u)) \in Nat
    BY <2>1, <2>3, FS_CardinalityType
  <2> QED BY <2>1, <2>3, <2>4
<1> QED BY PaymentInitInv, PaymentNextInv, BonusInit, BonusStep, <1>1, PTL DEF PaymentSpec

-----------------------------------------------------------------------------
(* Refinement *)

(* Every step is a step of the ledger or changes nothing of it. *)
LEMMA StepRefines == PaymentInv /\ [PaymentNext]_paymentVars => [Ledger!Next]_(Ledger!vars)
<1> SUFFICES ASSUME PaymentInv, [PaymentNext]_paymentVars PROVE Ledger!Next \/ UNCHANGED Ledger!vars
  OBVIOUS
<1> DEFINE same == UNCHANGED <<gateway, payments, credits, referrals>>
<1>0. ASSUME same PROVE UNCHANGED Ledger!vars
  BY <1>0 DEF Ledger!vars
<1>1. CASE UNCHANGED paymentVars
  BY <1>0, <1>1 DEF paymentVars, tables, history
<1>2. ASSUME NEW o \in Orders, CreateStep(o) \/ Pay(o) \/ Cancel(o) PROVE UNCHANGED Ledger!vars
  <2>1. UNCHANGED <<payments, credits, referrals>>
    BY <1>2 DEF CreateStep, CreateOrder, CreateTransaction, RequestPayment, StoreToken,
                DeleteTransaction, DeleteOrder, CreationUnchanged, Pay, Cancel,
                GatewayUnchanged, tables, history
  <2>2. \A p \in Orders : gateway'[p] = "verified" <=> gateway[p] = "verified"
    BY <1>2 DEF PaymentInv, PaymentTypeOK, NotYetRequested, CreateStep, CreateOrder, CreateTransaction,
                RequestPayment, StoreToken, DeleteTransaction, DeleteOrder, CreationUnchanged,
                Pay, Cancel, GatewayUnchanged
  <2> QED BY <2>1, <2>2 DEF Ledger!vars
<1>3. ASSUME NEW h \in Handlers, ReceiveCallback(h) \/ HandlerStep(h) \/ HandlerFails(h)
      PROVE  Ledger!Next \/ UNCHANGED Ledger!vars
  <2> DEFINE o == OrderOf(h)
  <2>0. o \in Orders
    BY DEF PaymentInv, PaymentTypeOK, Handler, Callback, OrderOf
  <2>1. CASE Verify(h)
    <3>1. UNCHANGED <<payments, credits, referrals>>
      BY <2>1 DEF Verify, tables, history
    <3>2. gateway' = gateway \/ (gateway[o] # "verified" /\ gateway' = [gateway EXCEPT ![o] = "verified"])
      <4> DEFINE code == VerifyCode(o, handler[h].cb.token \/ handler[h].txn.token)
      <4>1. gateway[o] = "verified" => code # Success
        BY DEF VerifyCode, Success, InvalidToken, AlreadyVerified
      <4>2. gateway' = gateway \/ gateway' = [gateway EXCEPT ![o] = IF code = Success THEN "verified" ELSE @]
        BY <2>1 DEF Verify
      <4> HIDE DEF code
      <4> QED BY <2>0, <4>1, <4>2 DEF PaymentInv, PaymentTypeOK
    <3>3. CASE gateway' = gateway
      BY <1>0, <3>1, <3>3
    <3>4. CASE gateway[o] # "verified" /\ gateway' = [gateway EXCEPT ![o] = "verified"]
      <4>1. {p \in Orders : gateway'[p] = "verified"} = {p \in Orders : gateway[p] = "verified"} \union {o}
        BY <2>0, <3>4 DEF PaymentInv, PaymentTypeOK
      <4>2. PICK p \in Orders : p = o
        BY <2>0
      <4>3. Ledger!Verify(p)
        BY <3>1, <3>4, <4>1, <4>2 DEF Ledger!Verify
      <4> QED BY <4>3 DEF Ledger!Next
    <3> QED BY <3>2, <3>3, <3>4
  <2>2. CASE FinalizeTx(h)
    <3>1. payments[o] = 0 /\ gateway[o] = "verified"
      BY <2>2 DEF PaymentInv, Payment, OwnerProgress, FinalizeTx, AtStep
    <3>2. payments' = [payments EXCEPT ![o] = 1] /\ UNCHANGED <<gateway, credits, referrals>>
      BY <2>2, <3>1 DEF FinalizeTx, history
    <3>3. Ledger!Record(o)
      BY <2>0, <3>1, <3>2 DEF Ledger!Record
    <3> QED BY <2>0, <3>3 DEF Ledger!Next
  <2>3. CASE Credit(h)
    <3>1. payments[o] = 1 /\ credits[o] = 0
      BY <2>3 DEF PaymentInv, Payment, OwnerProgress, Credit, AtStep
    <3>2. /\ UNCHANGED <<gateway, payments, referrals>>
          /\ credits' = credits \/ credits' = [credits EXCEPT ![o] = 1]
      BY <2>3, <3>1 DEF Credit, CreditWallet, tables
    <3>3. CASE credits' = credits
      BY <1>0, <3>2, <3>3
    <3>4. CASE credits' = [credits EXCEPT ![o] = 1]
      <4>1. Ledger!Credit(o)
        BY <3>1, <3>2, <3>4 DEF Ledger!Credit
      <4> QED BY <2>0, <4>1 DEF Ledger!Next
    <3> QED BY <3>2, <3>3, <3>4
  <2>4. CASE RequestReferral(h)
    <3>1. credits[o] = 1 /\ referrals[o] = 0
      BY <2>4 DEF PaymentInv, Payment, OwnerProgress, RequestReferral, AtStep
    <3>2. referrals' = [referrals EXCEPT ![o] = 1] /\ UNCHANGED <<gateway, payments, credits>>
      BY <2>4, <3>1 DEF RequestReferral, tables
    <3>3. Ledger!Reward(o)
      BY <3>1, <3>2 DEF Ledger!Reward
    <3> QED BY <2>0, <3>3 DEF Ledger!Next
  <2>5. CASE ~(Verify(h) \/ FinalizeTx(h) \/ Credit(h) \/ RequestReferral(h))
    <3>1. same
      BY <1>3, <2>5 DEF ReceiveCallback, HandlerStep, CheckBonus, FailOrder, FailTxn, HandlerFails,
                        tables, history
    <3> QED BY <1>0, <3>1
  <2> QED BY <2>1, <2>2, <2>3, <2>4, <2>5
<1> QED BY <1>1, <1>2, <1>3 DEF PaymentNext

(* The handlers together implement the ledger: an order is verified,       *)
(* recorded, credited and rewarded in this order and at most once.         *)
THEOREM Refinement == PaymentSpec => ImplementsLedger
<1>1. PaymentInit => Ledger!Init
  BY DEF PaymentInit, Ledger!Init
<1> QED BY PaymentInitInv, PaymentNextInv, StepRefines, <1>1, PTL DEF PaymentSpec, ImplementsLedger, Ledger!Spec
=============================================================================
