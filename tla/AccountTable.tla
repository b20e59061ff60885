----------------------------- MODULE AccountTable ------------------------------
(***************************************************************************)
(* The table of accounts: init_bank, add_account and get_account of        *)
(* src/core/bank.c, and parse_accounts_file of src/system/parser.c, which  *)
(* fills the table before any thread exists.                               *)
(*                                                                         *)
(* A line of the file is what the parser can tell of it: to be skipped,    *)
(* malformed, or an account ID and a balance.                              *)
(***************************************************************************)
EXTENDS Integers, Sequences, FiniteSets

CONSTANTS
  MAX_ACCOUNTS,     \* capacity of the table; 100 in the code
  AccountLines      \* the lines an accounts file may have

AccountLineType ==
  [kind : {"skip", "malformed"}]
    \cup [kind : {"account"}, account_id : Int, initial_balance : Int]

ASSUME AccountTableAssumption ==
  /\ MAX_ACCOUNTS \in Nat \ {0}
  /\ AccountLines \subseteq AccountLineType

VARIABLES
  accounts,         \* bank->accounts, the num_accounts slots in use
  accounts_pc,      \* "unopened", "reading", "loaded" or "failed"
  accounts_fp,      \* the stream: "none", "open" or "closed"
  accounts_file     \* the lines read so far

tableVars == <<accounts, accounts_pc, accounts_fp, accounts_file>>

\* The matches of the loops of add_account and get_account.
SlotsWith(id) == {i \in 1..Len(accounts) : accounts[i].account_id = id}

\* Duplicate mutated: the table is not searched.
Duplicate_NotChecked(id) == FALSE

Duplicate(id) == SlotsWith(id) # {}

TableFull == Len(accounts) >= MAX_ACCOUNTS

\* GetAccount mutated: the slot is taken by its position alone.
GetAccount_ByPosition(id) == IF id \in 1..Len(accounts) THEN id ELSE 0

\* get_account: the slot of an account, 0 for NULL.  The slot an ID of a
\* sequential file would have is tried first; then the table is scanned.
GetAccount(id) ==
  IF id < 0 THEN 0
  ELSE IF id \in 1..Len(accounts) /\ accounts[id].account_id = id THEN id
  ELSE IF SlotsWith(id) = {} THEN 0
  ELSE CHOOSE i \in SlotsWith(id) : \A j \in SlotsWith(id) : i <= j
--------------------------------------------------------------------------------
\* init_bank empties the table; the mutex it makes is a resource of MainFlow.
TableInit ==
  /\ accounts = <<>>
  /\ accounts_pc = "unopened"
  /\ accounts_fp = "none"
  /\ accounts_file = <<>>

\* fopen
OpenAccounts ==
  /\ accounts_pc = "unopened"
  /\ accounts_pc' = "reading"
  /\ accounts_fp' = "open"
  /\ UNCHANGED <<accounts, accounts_file>>

AccountsUnreadable ==
  /\ accounts_pc = "unopened"
  /\ accounts_pc' = "failed"
  /\ UNCHANGED <<accounts, accounts_fp, accounts_file>>

ReadAccountLine(line) ==
  /\ accounts_pc = "reading"
  /\ accounts_file' = Append(accounts_file, line)

SkipAccountLine(line) ==
  /\ ReadAccountLine(line)
  /\ line.kind = "skip"
  /\ UNCHANGED <<accounts, accounts_pc, accounts_fp>>

\* The parser's own checks and those of add_account.
CannotAdd(line) ==
  \/ line.account_id < 0
  \/ line.initial_balance < 0
  \/ TableFull
  \/ Duplicate(line.account_id)

\* add_account
AddAccount(line) ==
  /\ ReadAccountLine(line)
  /\ line.kind = "account"
  /\ ~CannotAdd(line)
  /\ accounts' = Append(accounts, [account_id |-> line.account_id,
                                   balance_centavos |-> line.initial_balance])
  /\ UNCHANGED <<accounts_pc, accounts_fp>>

\* A line that is rejected ends the program.
RejectAccountLine(line) ==
  /\ ReadAccountLine(line)
  /\ \/ line.kind = "malformed"
     \/ line.kind = "account" /\ CannotAdd(line)
  /\ accounts_pc' = "failed"
  /\ accounts_fp' = "closed"
  /\ UNCHANGED accounts

EndOfAccounts ==
  /\ accounts_pc = "reading"
  /\ accounts_pc' = "loaded"
  /\ accounts_fp' = "closed"
  /\ UNCHANGED <<accounts, accounts_file>>

TableNext ==
  \/ \E line \in AccountLines :
       SkipAccountLine(line) \/ AddAccount(line) \/ RejectAccountLine(line)
  \/ EndOfAccounts
--------------------------------------------------------------------------------
(***************************************************************************)
(* Properties                                                              *)
(***************************************************************************)

\* Type invariant; the table is never overrun.
TableTypeOK ==
  /\ accounts \in Seq([account_id : Nat, balance_centavos : Nat])
  /\ Len(accounts) <= MAX_ACCOUNTS
  /\ accounts_pc \in {"unopened", "reading", "loaded", "failed"}
  /\ accounts_fp \in {"none", "open", "closed"}
  /\ accounts_file \in Seq(AccountLines)

\* get_account agrees with the file, whichever of its two paths answers: an
\* account that was read is found in its own slot with its balance, whatever the
\* order of the IDs, and no other ID of the file is found.
LookupExact ==
  \A line \in AccountLines : line.kind = "account" =>
    LET i == GetAccount(line.account_id)
        Entries == {k \in 1..Len(accounts_file) : accounts_file[k].kind = "account"}
    IN  accounts_pc # "failed" =>
          IF i = 0
          THEN \A k \in Entries : accounts_file[k].account_id # line.account_id
          ELSE \E k \in Entries : /\ accounts_file[k].account_id = line.account_id
                                  /\ accounts_file[k].initial_balance = accounts[i].balance_centavos

\* The accounts files the bank can be loaded from.
AcceptableAccounts(file) ==
  LET Entries == {k \in 1..Len(file) : file[k].kind = "account"} IN
  /\ \A k \in 1..Len(file) : file[k].kind # "malformed"
  /\ \A k \in Entries : file[k].account_id >= 0 /\ file[k].initial_balance >= 0
  /\ \A k, l \in Entries : file[k].account_id = file[l].account_id => k = l
  /\ Cardinality(Entries) <= MAX_ACCOUNTS

\* Loading a file that can be opened fails at the first line that makes the file
\* unacceptable, and at no other, so the bank never starts on half a file.
RejectsBadAccounts ==
  accounts_fp # "none" => ((accounts_pc = "failed") <=> ~AcceptableAccounts(accounts_file))
================================================================================
