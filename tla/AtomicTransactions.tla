-------------------------- MODULE AtomicTransactions ---------------------------
(***************************************************************************)
(* What the program promises the author of a trace: every transaction that *)
(* is started performs its operations in order, each at one moment, until  *)
(* one fails or all are done.  Operations of different transactions        *)
(* interleave freely and are seen by the others at once, and those of a    *)
(* transaction that aborts are not undone.  No clock, no pool, no locks.   *)
(***************************************************************************)
EXTENDS BankTypes

CONSTANTS
  Programs, InitialBalances, INT_MAX

VARIABLES
  ledger,           \* the balance of each account
  program,          \* the operations of each transaction
  done,             \* how many of them took effect
  verdict           \* "WAITING", "RUNNING", "COMMITTED" or "ABORTED"

transactionVars == <<ledger, program, done, verdict>>

Int32(n) == ((n + INT_MAX + 1) % (2 * (INT_MAX + 1))) - (INT_MAX + 1)

NextOp(t) == program[t][done[t] + 1]

Sufficient(op) == op.amount_centavos >= 0 /\ ledger[op.account_id] >= op.amount_centavos

\* A deposit succeeds even when it is ignored.
Succeeds(op) ==
  /\ op.account_id \in Accounts
  /\ op.type = "WITHDRAW" => Sufficient(op)
  /\ op.type = "TRANSFER" => /\ op.target_account \in Accounts \ {op.account_id}
                             /\ Sufficient(op)
  /\ op.type = "BALANCE"  => ledger[op.account_id] >= 0

\* What a successful operation adds to the balance of account a.
Change(op, a) ==
  CASE op.type \in {"WITHDRAW", "TRANSFER"} /\ a = op.account_id -> - op.amount_centavos
    [] op.type = "TRANSFER" /\ a = op.target_account -> op.amount_centavos
    [] op.type = "DEPOSIT" /\ a = op.account_id /\ op.amount_centavos > 0 -> op.amount_centavos
    [] OTHER -> 0

Init ==
  /\ ledger \in [Accounts -> InitialBalances]
  /\ program \in [Txs -> Programs]
  /\ done = [t \in Txs |-> 0]
  /\ verdict = [t \in Txs |-> "WAITING"]

Decide(t, from, to) ==
  /\ verdict[t] = from
  /\ verdict' = [verdict EXCEPT ![t] = to]
  /\ UNCHANGED <<ledger, program, done>>

Start(t)    == Decide(t, "WAITING", "RUNNING")
TurnAway(t) == Decide(t, "WAITING", "ABORTED")

Perform(t) ==
  /\ verdict[t] = "RUNNING"
  /\ done[t] < Len(program[t])
  /\ Succeeds(NextOp(t))
  /\ ledger' = [a \in Accounts |-> Int32(ledger[a] + Change(NextOp(t), a))]
  /\ done' = [done EXCEPT ![t] = @ + 1]
  /\ UNCHANGED <<program, verdict>>

Fail(t) ==
  /\ done[t] < Len(program[t])
  /\ ~Succeeds(NextOp(t))
  /\ Decide(t, "RUNNING", "ABORTED")

Complete(t) ==
  /\ done[t] = Len(program[t])
  /\ Decide(t, "RUNNING", "COMMITTED")

Next == \E t \in Txs : Start(t) \/ TurnAway(t) \/ Perform(t) \/ Fail(t) \/ Complete(t)

Spec == Init /\ [][Next]_transactionVars
================================================================================
