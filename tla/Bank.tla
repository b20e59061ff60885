--------------------------------- MODULE Bank ----------------------------------
(***************************************************************************)
(* The banking operations of src/core/bank.c over the per-account          *)
(* reader-writer locks of src/concurrency/lock_mgr.c.                      *)
(*                                                                         *)
(* A thread's call is a sequence of steps: the argument checks, one lock   *)
(* acquisition, one read or write of a balance or one unlock at a time.    *)
(* `balance += amount' is a read followed by a write, so that an update is *)
(* only safe when the locks make it so.                                    *)
(***************************************************************************)
EXTENDS BankTypes

CONSTANTS
  Operations,       \* the operations threads may ask for
  InitialBalances,  \* the balances an account may start with
  INT_MAX           \* largest int; 2^31 - 1 in the build

ASSUME BankAssumption ==
  /\ INT_MAX \in Nat \ {0}
  /\ InitialBalances \subseteq 0..INT_MAX
  /\ Operations \subseteq OperationType

VARIABLES
  balance,          \* balance_centavos of each account
  writers,          \* the threads that hold each account's lock for writing
  readers,          \* the threads that hold each account's lock for reading
  bank_pc,          \* where each thread is inside a bank operation
  current_op,       \* the operation the thread's call is for
  pending,          \* the locks still to acquire, or to release, in order
  seen,             \* the balance the thread read last
  result            \* what the call returns

bankVars == <<balance, writers, readers, bank_pc, current_op, pending, seen, result>>

\* Signed addition of ints.  The C standard leaves overflow undefined; the build
\* adds with the machine's instruction, which wraps.
Wrap(n) == ((n + INT_MAX + 1) % (2 * (INT_MAX + 1))) - (INT_MAX + 1)

Account(t) == current_op[t].account_id
Target(t)  == current_op[t].target_account
Amount(t)  == current_op[t].amount_centavos
OpType(t)  == current_op[t].type

Proceed(t, from, to) ==
  /\ bank_pc[t] = from
  /\ bank_pc' = [bank_pc EXCEPT ![t] = to]
--------------------------------------------------------------------------------
BankInit ==
  /\ balance \in [Accounts -> InitialBalances]
  /\ writers = [a \in Accounts |-> {}]
  /\ readers = [a \in Accounts |-> {}]
  /\ bank_pc = [t \in Txs |-> "idle"]
  /\ current_op = [t \in Txs |-> NoOp]
  /\ pending = [t \in Txs |-> <<>>]
  /\ seen = [t \in Txs |-> 0]
  /\ result = [t \in Txs |-> FALSE]

(***************************************************************************)
(* The early returns of deposit, withdraw, transfer and get_balance:       *)
(* negative amounts, unknown accounts and, by validate_accounts, transfers *)
(* from an account to itself.                                              *)
(***************************************************************************)
\* Refused mutated: the target of a transfer is not looked at.
Refused_UnknownTarget(op) ==
  \/ op.account_id \notin Accounts
  \/ op.type # "BALANCE" /\ op.amount_centavos < 0

Refused(op) ==
  \/ op.account_id \notin Accounts
  \/ op.type # "BALANCE" /\ op.amount_centavos < 0
  \/ op.type = "TRANSFER" /\ (op.target_account \notin Accounts \/ op.target_account = op.account_id)

\* deposit is void: its caller cannot tell that nothing was done.
RefusedResult(op) == op.type \in {"DEPOSIT", "BALANCE"}

\* LockOrder mutated: the locks are taken in the order of the arguments.
LockOrder_AsGiven(op) ==
  IF op.type = "TRANSFER" THEN <<op.account_id, op.target_account>> ELSE <<op.account_id>>

\* lock_accounts_in_order: ascending IDs.
LockOrder(op) ==
  IF op.type # "TRANSFER" THEN <<op.account_id>>
  ELSE IF op.account_id < op.target_account
       THEN <<op.account_id, op.target_account>>
       ELSE <<op.target_account, op.account_id>>

\* UnlockOrder mutated: the lock of the target is kept.
UnlockOrder_SourceOnly(op) == <<op.account_id>>

\* unlock_accounts(from_acc, to_acc)
UnlockOrder(op) ==
  IF op.type = "TRANSFER" THEN <<op.account_id, op.target_account>> ELSE <<op.account_id>>

\* WriteLockFree mutated: writers do not exclude one another.
WriteLockFree_Always(a) == TRUE

\* pthread_rwlock_wrlock and pthread_rwlock_rdlock return: one writer, or any
\* number of readers (a waiting writer does not hold new readers off).
WriteLockFree(a) == writers[a] = {} /\ readers[a] = {}
\* ReadLockFree mutated: readers do not wait for writers.
ReadLockFree_WritersIgnored(a) == TRUE

ReadLockFree(a)  == writers[a] = {}

\* The test for sufficient funds.
Covers(funds, op) == op.type \in {"WITHDRAW", "TRANSFER"} => funds >= op.amount_centavos
--------------------------------------------------------------------------------
\* execute_transaction calls the function of the operation.
CallBank(t, op) ==
  /\ Proceed(t, "idle", "enter")
  /\ current_op' = [current_op EXCEPT ![t] = op]
  /\ UNCHANGED <<balance, writers, readers, pending, seen, result>>

\* The argument checks fail; get_balance then returns -1.
Refuse(t) ==
  /\ Proceed(t, "enter", "returned")
  /\ Refused(current_op[t])
  /\ result' = [result EXCEPT ![t] = RefusedResult(current_op[t])]
  /\ seen' = [seen EXCEPT ![t] = -1]
  /\ UNCHANGED <<balance, writers, readers, current_op, pending>>

\* The argument checks pass and the locks to take are known.
Accept(t) ==
  /\ ~Refused(current_op[t])
  /\ Proceed(t, "enter", IF OpType(t) = "BALANCE" THEN "rdlock" ELSE "wrlock")
  /\ pending' = [pending EXCEPT ![t] = LockOrder(current_op[t])]
  /\ UNCHANGED <<balance, writers, readers, current_op, seen, result>>

\* lock_account
WriteLock(t) ==
  LET a == Head(pending[t]) IN
  /\ Proceed(t, "wrlock", IF Tail(pending[t]) = <<>> THEN "read" ELSE "wrlock")
  /\ WriteLockFree(a)
  /\ writers' = [writers EXCEPT ![a] = @ \cup {t}]
  /\ pending' = [pending EXCEPT ![t] = Tail(@)]
  /\ UNCHANGED <<balance, readers, current_op, seen, result>>

\* read_lock_account
ReadLock(t) ==
  LET a == Head(pending[t]) IN
  /\ Proceed(t, "rdlock", "read")
  /\ ReadLockFree(a)
  /\ readers' = [readers EXCEPT ![a] = @ \cup {t}]
  /\ pending' = [pending EXCEPT ![t] = Tail(@)]
  /\ UNCHANGED <<balance, writers, current_op, seen, result>>

StartUnlock(t) == pending' = [pending EXCEPT ![t] = UnlockOrder(current_op[t])]

\* get_balance reads the balance, which is all it does.
ReadBalance(t) ==
  /\ OpType(t) = "BALANCE"
  /\ Proceed(t, "read", "unlock")
  /\ seen' = [seen EXCEPT ![t] = balance[Account(t)]]
  /\ result' = [result EXCEPT ![t] = TRUE]
  /\ StartUnlock(t)
  /\ UNCHANGED <<balance, writers, readers, current_op>>

\* withdraw or transfer finds too little money and gives up.
InsufficientFunds(t) ==
  /\ ~Covers(balance[Account(t)], current_op[t])
  /\ Proceed(t, "read", "unlock")
  /\ seen' = [seen EXCEPT ![t] = balance[Account(t)]]
  /\ result' = [result EXCEPT ![t] = FALSE]
  /\ StartUnlock(t)
  /\ UNCHANGED <<balance, writers, readers, current_op>>

\* An update has read the balance of its (source) account.  withdraw and transfer
\* read it for the test and again for the update, but hold the write lock all the
\* while, so that the two readings agree.
ReadForUpdate(t) ==
  /\ OpType(t) # "BALANCE"
  /\ Covers(balance[Account(t)], current_op[t])
  /\ Proceed(t, "read", "write")
  /\ seen' = [seen EXCEPT ![t] = balance[Account(t)]]
  /\ UNCHANGED <<balance, writers, readers, current_op, pending, result>>

\* deposit and withdraw store the new balance.
WriteBalance(t) ==
  /\ OpType(t) # "TRANSFER"
  /\ Proceed(t, "write", "unlock")
  /\ balance' = [balance EXCEPT ![Account(t)] =
                   Wrap(IF OpType(t) = "DEPOSIT" THEN seen[t] + Amount(t) ELSE seen[t] - Amount(t))]
  /\ result' = [result EXCEPT ![t] = TRUE]
  /\ StartUnlock(t)
  /\ UNCHANGED <<writers, readers, current_op, seen>>

\* transfer: from_acc->balance_centavos -= amount_centavos
Debit(t) ==
  /\ OpType(t) = "TRANSFER"
  /\ Proceed(t, "write", "read_target")
  /\ balance' = [balance EXCEPT ![Account(t)] = Wrap(seen[t] - Amount(t))]
  /\ UNCHANGED <<writers, readers, current_op, pending, seen, result>>

\* transfer: to_acc->balance_centavos += amount_centavos, the read and the write.
ReadTarget(t) ==
  /\ Proceed(t, "read_target", "credit")
  /\ seen' = [seen EXCEPT ![t] = balance[Target(t)]]
  /\ UNCHANGED <<balance, writers, readers, current_op, pending, result>>

Credit(t) ==
  /\ Proceed(t, "credit", "unlock")
  /\ balance' = [balance EXCEPT ![Target(t)] = Wrap(seen[t] + Amount(t))]
  /\ result' = [result EXCEPT ![t] = TRUE]
  /\ StartUnlock(t)
  /\ UNCHANGED <<writers, readers, current_op, seen>>

\* unlock_account or read_unlock_account; both are pthread_rwlock_unlock.
Unlock(t) ==
  LET a == Head(pending[t]) IN
  /\ Proceed(t, "unlock", IF Tail(pending[t]) = <<>> THEN "returned" ELSE "unlock")
  /\ writers' = [writers EXCEPT ![a] = @ \ {t}]
  /\ readers' = [readers EXCEPT ![a] = @ \ {t}]
  /\ pending' = [pending EXCEPT ![t] = Tail(@)]
  /\ UNCHANGED <<balance, current_op, seen, result>>

\* The caller takes the result; the locals of the operation are gone.
ReturnBank(t) ==
  /\ Proceed(t, "returned", "idle")
  /\ current_op' = [current_op EXCEPT ![t] = NoOp]
  /\ seen' = [seen EXCEPT ![t] = 0]
  /\ result' = [result EXCEPT ![t] = FALSE]
  /\ UNCHANGED <<balance, writers, readers, pending>>

BankStep(t) ==
  \/ Refuse(t)      \/ Accept(t)       \/ WriteLock(t)         \/ ReadLock(t)
  \/ ReadBalance(t) \/ InsufficientFunds(t) \/ ReadForUpdate(t) \/ WriteBalance(t)
  \/ Debit(t)       \/ ReadTarget(t)   \/ Credit(t)            \/ Unlock(t)

BankNext ==
  \E t \in Txs :
    \/ BankStep(t)
    \/ \E op \in Operations : CallBank(t, op)
    \/ ReturnBank(t)

BankSpec == BankInit /\ [][BankNext]_bankVars
--------------------------------------------------------------------------------
(***************************************************************************)
(* Properties                                                              *)
(***************************************************************************)

\* Type invariant; only locks of existing accounts are ever acquired.
BankTypeOK ==
  /\ balance \in [Accounts -> -(INT_MAX + 1)..INT_MAX]
  /\ writers \in [Accounts -> SUBSET Txs]
  /\ readers \in [Accounts -> SUBSET Txs]
  /\ bank_pc \in [Txs -> {"idle", "enter", "wrlock", "rdlock", "read", "write",
                          "read_target", "credit", "unlock", "returned"}]
  /\ current_op \in [Txs -> Operations \cup {NoOp}]
  /\ pending \in [Txs -> Seq(Accounts)]
  /\ seen \in [Txs -> Int]
  /\ result \in [Txs -> BOOLEAN]

\* A thread that is about to write `balance + amount' or `balance - amount' read
\* the balance the account still has: no update is lost, whichever operations
\* meet on the account.
NoLostUpdate ==
  \A t \in Txs :
    /\ bank_pc[t] = "write"  => seen[t] = balance[Account(t)]
    /\ bank_pc[t] = "credit" => seen[t] = balance[Target(t)]

\* The lock a thread is waiting for.
Blocked(t) ==
  \/ bank_pc[t] = "wrlock" /\ ~WriteLockFree(Head(pending[t]))
  \/ bank_pc[t] = "rdlock" /\ ~ReadLockFree(Head(pending[t]))

WaitsFor(t, u) ==
  Blocked(t) /\ u \in writers[Head(pending[t])] \cup readers[Head(pending[t])]

\* The deadlock prevention lock_accounts_in_order is for: no set of threads waits
\* in a circle for the account locks of one another, nor a thread for its own.
NoLockCycle ==
  \A S \in (SUBSET Txs) \ {{}} : \E t \in S : \A u \in S : ~WaitsFor(t, u)

\* pthread_rwlock_unlock is only ever called by a thread that holds the lock
\* (anything else is undefined), and no lock stays held when an operation returns.
LocksPaired ==
  \A t \in Txs :
    /\ bank_pc[t] = "unlock" =>
         t \in writers[Head(pending[t])] \cup readers[Head(pending[t])]
    /\ bank_pc[t] \in {"idle", "enter", "returned"} =>
         \A a \in Accounts : t \notin writers[a] \cup readers[a]

(***************************************************************************)
(* The bank implements atomic operations.  An operation takes effect with  *)
(* its last access to a balance: until then the debit of a transfer is     *)
(* undone in the ledger the callers are promised.                          *)
(***************************************************************************)
Transferring(a) ==
  {t \in Txs : bank_pc[t] \in {"read_target", "credit"} /\ Account(t) = a}

Finished(t) == bank_pc[t] \in {"unlock", "returned"}

Ledger == [a \in Accounts |->
             IF Transferring(a) = {} THEN balance[a]
             ELSE Wrap(balance[a] + Amount(CHOOSE t \in Transferring(a) : TRUE))]

Phases == [t \in Txs |-> IF bank_pc[t] = "idle" THEN "idle"
                         ELSE IF Finished(t) THEN "done" ELSE "called"]

Answers == [t \in Txs |-> Finished(t) /\ result[t]]

ShownBalances == [t \in Txs |-> IF Finished(t) /\ OpType(t) = "BALANCE" THEN seen[t] ELSE 0]

Atomic == INSTANCE AtomicBank WITH
  ledger <- Ledger, call <- current_op, phase <- Phases, answer <- Answers, shown <- ShownBalances

\* Deposits, withdrawals, transfers and balance inquiries of concurrent threads
\* behave as if each ran alone, at one moment between its call and its return.
ImplementsAtomicBank == Atomic!Spec
================================================================================
