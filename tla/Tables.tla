------------------------------- MODULE Tables -------------------------------
(***************************************************************************)
(* The statements that commercial-service runs on the table "wallets", as  *)
(* operators on the rows one user has.  The table has no unique key on     *)
(* user_id, so a user's rows are a sequence: empty before CreateWallet,    *)
(* normally one row, two when two CreateWallet calls raced.  A row maps    *)
(* each asset to its balance.                                              *)
(***************************************************************************)
EXTENDS Integers, Sequences

(* FindByUserID: a wallet is found when the user has a row. *)
HasWallet(rows) == rows # <<>>

(* WHERE user_id = ? AND asset >= amount: some row can pay n. *)
CanPay(rows, a, n) == \E i \in DOMAIN rows : rows[i][a] >= n

(* The conditional UPDATE of DeductBalance: every row that can pay n pays. *)
DeductRows(rows, a, n) ==
  [i \in DOMAIN rows |->
     IF rows[i][a] >= n THEN [rows[i] EXCEPT ![a] = @ - n] ELSE rows[i]]

(* The unconditional UPDATE of AddBalance: every row of the user is raised. *)
AddRows(rows, a, n) ==
  [i \in DOMAIN rows |-> [rows[i] EXCEPT ![a] = @ + n]]
=============================================================================
