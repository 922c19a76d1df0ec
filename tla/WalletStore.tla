---------------------------- MODULE WalletStore ----------------------------
(* A new row of the table "wallets", and what its columns must satisfy. *)
EXTENDS Tables

CONSTANT Assets        \* the asset columns of a wallet

(* The row CreateWallet inserts: every balance is zero but satisfaction,   *)
(* which is counted in tenths and starts at 0.10.                          *)
NewWallet == [a \in Assets |-> IF a = "satisfaction" THEN 1 ELSE 0]

(* No row of the user holds a negative balance. *)
RowsNonNegative(rows) ==
  \A i \in DOMAIN rows : \A a \in Assets : rows[i][a] >= 0
=============================================================================
