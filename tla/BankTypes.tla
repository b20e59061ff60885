------------------------------- MODULE BankTypes -------------------------------
(***************************************************************************)
(* The constants every component of BankDB shares: the transactions (one   *)
(* worker thread each) and the accounts that parse_accounts_file loaded.   *)
(* Accounts are their integer IDs, because lock_accounts_in_order compares *)
(* them.                                                                   *)
(***************************************************************************)
EXTENDS Integers, Sequences, FiniteSets

CONSTANTS
  Txs,        \* the transactions of the trace, each run by a thread of its own
  Accounts    \* the IDs of the accounts in the bank

\* add_account rejects a negative ID, and main has at most MAX_TRANSACTIONS
\* transactions and MAX_ACCOUNTS accounts.
ASSUME BankTypesAssumption ==
  /\ IsFiniteSet(Txs)
  /\ Accounts \subseteq Nat
  /\ IsFiniteSet(Accounts)

\* The account_id of an unused buffer slot and the target of a non-transfer.
NoAccount == -1

OpTypes == {"DEPOSIT", "WITHDRAW", "TRANSFER", "BALANCE"}

\* Operation; parse_trace_line takes any int for an ID or an amount.
OperationType == [type : OpTypes, account_id : Int, amount_centavos : Int, target_account : Int]

NoOp == [type |-> "BALANCE", account_id |-> NoAccount, amount_centavos |-> 0,
         target_account |-> NoAccount]
================================================================================
