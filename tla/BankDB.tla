-------------------------------- MODULE BankDB ---------------------------------
(***************************************************************************)
(* The whole program: main of src/main.c creates one thread per            *)
(* transaction, the threads run execute_transaction of                     *)
(* src/core/transaction.c over the clock (Timer), the buffer pool          *)
(* (BufferPool) and the bank (Bank), and main reports when all have been   *)
(* joined.                                                                 *)
(***************************************************************************)
EXTENDS BufferPool, Bank, Timer

CONSTANTS
  Programs,             \* the operation lists a transaction may have
  MAX_OPS_PER_TX,       \* capacity of a transaction; 256 in the code
  CreateOutcomes        \* what pthread_create may do: see CreateThread

\* The transactions are numbered in the order of main's array; add_operation
\* keeps a list within MAX_OPS_PER_TX, and every line of a trace adds one operation.
\* A trace without transactions creates no threads.
ASSUME BankDBAssumption ==
  /\ Txs = 1..Cardinality(Txs) /\ Txs # {}
  /\ MAX_OPS_PER_TX \in Nat \ {0}
  /\ Programs \subseteq UNION {[1..n -> Operations] : n \in 1..MAX_OPS_PER_TX}
  /\ CreateOutcomes \subseteq {"started", "null", "stale"}

VARIABLES
  ops,                  \* the operations of each transaction
  op_index,             \* the operation each thread is at
  status,               \* "RUNNING", "COMMITTED" or "ABORTED"
  failed,               \* the bank refused the thread's last operation
  thread,               \* the handle pthread_create left in each transaction
  main_pc,              \* where main is
  main_index,           \* the loop variable of main's two loops
  initial_total,        \* main's sum of the balances before the threads start
  balance_check,        \* what verify_balance_conservation printed
  summary               \* the numbers print_summary printed

txVars   == <<ops, op_index, status, failed>>
reportVars == <<balance_check, summary>>
mainVars == <<thread, main_pc, main_index, initial_total, reportVars>>
vars     == <<poolVars, bankVars, timerVars, txVars, mainVars>>

MAX_LOADED_ACCOUNTS_PER_TX == 2 * MAX_OPS_PER_TX

\* compute_total_balance; a long does not overflow over MAX_ACCOUNTS ints.
TotalBalance == SumFunction(balance)

NoSummary == [committed |-> 0, aborted |-> 0, total_ticks |-> 0, total_wait |-> 0]

Init ==
  /\ PoolInit /\ BankInit /\ TimerInit
  /\ ops \in [Txs -> Programs]
  /\ op_index = [t \in Txs |-> 1]
  /\ status = [t \in Txs |-> "RUNNING"]
  /\ failed = [t \in Txs |-> FALSE]
  /\ thread = [t \in Txs |-> "null"]
  /\ main_pc = "start_timer"
  /\ main_index = 1
  /\ initial_total = TotalBalance
  /\ balance_check = "none"
  /\ summary = NoSummary
--------------------------------------------------------------------------------
(***************************************************************************)
(* execute_transaction                                                     *)
(***************************************************************************)
Op(t) == ops[t][op_index[t]]

\* The thread runs the loop over its operations and is in none of the calls.
InLoop(t) == clock_pc[t] = "running" /\ pool_pc[t] = "idle" /\ bank_pc[t] = "idle" /\ ~failed[t]

\* MoreOps mutated: the last operation is left out.
MoreOps_OffByOne(t) == op_index[t] < Len(ops[t])

MoreOps(t) == op_index[t] <= Len(ops[t])

OpAccounts(op) ==
  IF op.type = "TRANSFER" THEN {op.account_id, op.target_account} ELSE {op.account_id}

\* ToLoad mutated: the target of a transfer is not loaded.
ToLoad_SourceOnly(t) == {Op(t).account_id} \ ToSet(loaded_accounts[t])

\* The accounts of the operation that load_account_for_transaction has yet to load.
ToLoad(t) == OpAccounts(Op(t)) \ ToSet(loaded_accounts[t])

\* The source of a transfer is loaded before its target.
NextToLoad(t) ==
  IF Op(t).account_id \in ToLoad(t) THEN Op(t).account_id ELSE Op(t).target_account

\* load_account_for_transaction can load the next account.
Loadable(t) ==
  /\ Len(loaded_accounts[t]) < MAX_LOADED_ACCOUNTS_PER_TX
  /\ NextToLoad(t) \in Accounts

\* wait_until_tick
Wait(t) ==
  /\ TestTick(t)
  /\ UNCHANGED <<poolVars, bankVars, txVars, mainVars>>

Spurious(t) ==
  /\ SpuriousWakeup(t)
  /\ UNCHANGED <<poolVars, bankVars, txVars, mainVars>>

Begin(t) ==
  /\ RecordStart(t)
  /\ status' = [status EXCEPT ![t] = "RUNNING"]
  /\ UNCHANGED <<poolVars, bankVars, mainVars, ops, op_index, failed>>

\* load_account_for_transaction calls load_account.
LoadNext(t) ==
  /\ InLoop(t) /\ MoreOps(t)
  /\ ToLoad(t) # {} /\ Loadable(t)
  /\ CallLoad(t, NextToLoad(t))
  /\ UNCHANGED <<bankVars, timerVars, txVars, mainVars>>

\* Every account of the operation is loaded: call the bank.
Execute(t) ==
  /\ InLoop(t) /\ MoreOps(t)
  /\ ToLoad(t) = {}
  /\ CallBank(t, Op(t))
  /\ UNCHANGED <<poolVars, timerVars, txVars, mainVars>>

\* withdraw or transfer returned false, or get_balance a negative number.
OpFailed(t) == ~result[t] \/ (OpType(t) = "BALANCE" /\ seen[t] < 0)

\* TakeResult mutated: a failed operation is counted as done.
TakeResult_IndexAdvances(t) ==
  /\ ReturnBank(t)
  /\ failed' = [failed EXCEPT ![t] = OpFailed(t)]
  /\ op_index' = [op_index EXCEPT ![t] = @ + 1]
  /\ UNCHANGED <<poolVars, timerVars, mainVars, ops, status>>

\* The bank returned: go on with the next operation, or abort.
TakeResult(t) ==
  /\ ReturnBank(t)
  /\ failed' = [failed EXCEPT ![t] = OpFailed(t)]
  /\ op_index' = [op_index EXCEPT ![t] = IF OpFailed(t) THEN @ ELSE @ + 1]
  /\ UNCHANGED <<poolVars, timerVars, mainVars, ops, status>>

\* All operations succeeded.
Commit(t) ==
  /\ InLoop(t) /\ ~MoreOps(t)
  /\ RecordEnd(t)
  /\ status' = [status EXCEPT ![t] = "COMMITTED"]
  /\ BeginUnload(t)
  /\ UNCHANGED <<bankVars, mainVars, ops, op_index, failed>>

\* Abort mutated: the accounts are not unloaded.
Abort_KeepsAccounts(t) ==
  /\ failed[t] \/ (InLoop(t) /\ MoreOps(t) /\ ToLoad(t) # {} /\ ~Loadable(t))
  /\ RecordEnd(t)
  /\ status' = [status EXCEPT ![t] = "ABORTED"]
  /\ GoTo(t, "idle", "done")
  /\ UNCHANGED <<slots, empty_slots, full_slots, pool_stats, request, loaded_accounts>>
  /\ UNCHANGED <<bankVars, mainVars, ops, op_index, failed>>

\* abort_transaction: a load or an operation failed.  The operations before it
\* stay in effect.
Abort(t) ==
  /\ failed[t] \/ (InLoop(t) /\ MoreOps(t) /\ ToLoad(t) # {} /\ ~Loadable(t))
  /\ RecordEnd(t)
  /\ status' = [status EXCEPT ![t] = "ABORTED"]
  /\ BeginUnload(t)
  /\ UNCHANGED <<bankVars, mainVars, ops, op_index, failed>>

InPool(t) == PoolStep(t) /\ UNCHANGED <<bankVars, timerVars, txVars, mainVars>>
InBank(t) == BankStep(t) /\ UNCHANGED <<poolVars, timerVars, txVars, mainVars>>

Exited(t) == pool_pc[t] = "done"

Transaction(t) ==
  \/ Wait(t) \/ Begin(t) \/ LoadNext(t) \/ Execute(t) \/ TakeResult(t)
  \/ Commit(t) \/ Abort(t) \/ InPool(t) \/ InBank(t)
--------------------------------------------------------------------------------
(***************************************************************************)
(* timer_thread                                                            *)
(***************************************************************************)
Clock == TimerThread /\ UNCHANGED <<poolVars, bankVars, txVars, mainVars>>

(***************************************************************************)
(* main, from the creation of the timer thread to its end                  *)
(***************************************************************************)
MainGoTo(from, to) == main_pc = from /\ main_pc' = to

\* The loops of main: index i is handled, go on with i + 1 or leave the loop.
LoopTo(from, to) ==
  /\ main_index' = IF main_index = Cardinality(Txs) THEN 1 ELSE main_index + 1
  /\ MainGoTo(from, IF main_index = Cardinality(Txs) THEN to ELSE from)

CreateTimer ==
  /\ MainGoTo("start_timer", "create")
  /\ StartTimer
  /\ UNCHANGED <<poolVars, bankVars, txVars, thread, main_index, initial_total, reportVars>>

\* pthread_create fails for the timer thread: clean up and exit.
CreateTimerFails ==
  /\ CreateOutcomes # {"started"}
  /\ MainGoTo("start_timer", "cleanup")
  /\ StartTimerFails
  /\ UNCHANGED <<poolVars, bankVars, txVars, thread, main_index, initial_total, reportVars>>

\* CreateThread mutated: the status of a transaction not started is not set.
CreateThread_StatusKept(t) ==
  /\ main_index = t
  /\ LoopTo("create", "join")
  /\ \E outcome \in CreateOutcomes :
       /\ thread' = [thread EXCEPT ![t] = outcome]
       /\ IF outcome = "started" THEN EnterWait(t) ELSE UNCHANGED timerVars
  /\ UNCHANGED <<poolVars, bankVars, txVars, initial_total, reportVars>>

\* pthread_create succeeds, or fails and leaves the handle as it was ("null")
\* or, as POSIX allows, with any value ("stale").
CreateThread(t) ==
  /\ main_index = t
  /\ LoopTo("create", "join")
  /\ \E outcome \in CreateOutcomes :
       /\ thread' = [thread EXCEPT ![t] = outcome]
       /\ IF outcome = "started"
          THEN EnterWait(t) /\ UNCHANGED status
          ELSE status' = [status EXCEPT ![t] = "ABORTED"] /\ UNCHANGED timerVars
  /\ UNCHANGED <<poolVars, bankVars, ops, op_index, failed, initial_total, reportVars>>

\* JoinThread mutated: main does not wait.
JoinThread_NotWaiting(t) ==
  /\ main_index = t
  /\ LoopTo("join", "stop")
  /\ UNCHANGED <<poolVars, bankVars, timerVars, txVars, thread, initial_total, reportVars>>

\* `thread != 0': pthread_join, which waits for a thread that was started.  Of a
\* stale handle pthread_join may return an error at once; that it may as well hang
\* or crash cuts a behaviour short, which is why Fairness leaves that call out.
JoinThread(t) ==
  /\ main_index = t
  /\ thread[t] = "started" => Exited(t)
  /\ LoopTo("join", "stop")
  /\ UNCHANGED <<poolVars, bankVars, timerVars, txVars, thread, initial_total, reportVars>>

Stop ==
  /\ MainGoTo("stop", "join_timer")
  /\ StopSimulation
  /\ UNCHANGED <<poolVars, bankVars, txVars, thread, main_index, initial_total, reportVars>>

JoinTimer ==
  /\ timer_pc = "exited"
  /\ MainGoTo("join_timer", "report")
  /\ UNCHANGED <<poolVars, bankVars, timerVars, txVars, thread, main_index,
                 initial_total, reportVars>>

\* The money an operation is meant to bring in.
Flow(op) ==
  IF op.type = "DEPOSIT" THEN op.amount_centavos
  ELSE IF op.type = "WITHDRAW" THEN - op.amount_centavos ELSE 0

FlowOf(operations) == SumFunction([j \in 1..Len(operations) |-> Flow(operations[j])])

\* CommittedFlow mutated: the status is not looked at.
CommittedFlow_AbortedToo == SumFunction([t \in Txs |-> FlowOf(ops[t])])

Committed == {t \in Txs : status[t] = "COMMITTED"}

\* compute_committed_external_flow
CommittedFlow == SumFunction([t \in Committed |-> FlowOf(ops[t])])

\* The numerator of compute_average_wait.
TotalWait == SumFunction([t \in Txs |-> times[t].wait_ticks])

\* The numbers behind print_summary: average wait is total_wait over the number
\* of transactions and throughput that number over total_ticks (0 if that is 0).
Summary ==
  [committed   |-> Cardinality(Committed),
   aborted     |-> Cardinality({t \in Txs : status[t] = "ABORTED"}),
   total_ticks |-> global_tick,
   total_wait  |-> TotalWait]

\* print_summary and verify_balance_conservation.  Nothing runs beside main any
\* more, so everything is read in one step.
Report ==
  /\ MainGoTo("report", "cleanup")
  /\ balance_check' = IF initial_total + CommittedFlow = TotalBalance THEN "PASS" ELSE "FAIL"
  /\ summary' = Summary
  /\ UNCHANGED <<poolVars, bankVars, timerVars, txVars, thread, main_index, initial_total>>

\* destroy_timer, destroy_buffer_pool, destroy_account_locks, return.
Cleanup ==
  /\ MainGoTo("cleanup", "exited")
  /\ UNCHANGED <<poolVars, bankVars, timerVars, txVars, thread, main_index,
                 initial_total, reportVars>>

Main ==
  \/ CreateTimer \/ CreateTimerFails \/ Stop \/ JoinTimer \/ Report \/ Cleanup
  \/ \E t \in Txs : CreateThread(t) \/ JoinThread(t)

Terminated == main_pc = "exited" /\ UNCHANGED vars

Next ==
  \/ Main
  \/ Clock
  \/ \E t \in Txs : Transaction(t) \/ Spurious(t)
  \/ Terminated

SafeSpec == Init /\ [][Next]_vars

\* main is about to join a handle that a failed pthread_create left behind.
JoinsStale == main_pc = "join" /\ thread[main_index] = "stale"

\* Every thread keeps running while it is not blocked.  Nobody answers for main
\* when it joins a stale handle: the call may never return.
Fairness ==
  /\ WF_vars(Main /\ ~JoinsStale)
  /\ WF_vars(Clock)
  /\ \A t \in Txs : WF_vars(Transaction(t))

Spec == SafeSpec /\ Fairness
--------------------------------------------------------------------------------
(***************************************************************************)
(* Properties                                                              *)
(***************************************************************************)

\* Type invariant; a refused operation is never counted as done.
TypeOK ==
  /\ ops \in [Txs -> Programs]
  /\ \A t \in Txs : op_index[t] \in 1..(Len(ops[t]) + (IF failed[t] THEN 0 ELSE 1))
  /\ status \in [Txs -> {"RUNNING", "COMMITTED", "ABORTED"}]
  /\ failed \in [Txs -> BOOLEAN]
  /\ thread \in [Txs -> CreateOutcomes \cup {"null"}]
  /\ main_pc \in {"start_timer", "create", "join", "stop", "join_timer",
                  "report", "cleanup", "exited"}
  /\ main_index \in Txs
  /\ initial_total \in Nat
  /\ balance_check \in {"none", "PASS", "FAIL"}
  /\ DOMAIN summary = DOMAIN NoSummary

\* What an operation does to the total of the balances when it succeeds: deposit
\* ignores a negative amount.
Effect(op) == IF op.type = "DEPOSIT" /\ op.amount_centavos < 0 THEN 0 ELSE Flow(op)

\* How many operations of each transaction took effect.
Dones == [t \in Txs |-> op_index[t] - (IF Finished(t) /\ ~OpFailed(t) THEN 0 ELSE 1)]

\* The effects so far of a transaction, whatever becomes of it.
EffectSoFar(t) == SumFunction([j \in 1..Dones[t] |-> Effect(ops[t][j])])

\* At every moment of every interleaving the bank holds the money it started
\* with plus what the operations done so far brought in or took out; an aborted
\* transaction keeps what it did.  (No sum overflows in this run.)
LedgerExact ==
  SumFunction(Ledger) = initial_total + SumFunction([t \in Txs |-> EffectSoFar(t)])

\* The verdict of the balance check: it passes exactly when what the aborted
\* transactions did before they aborted equals, over all the committed ones,
\* what compute_committed_external_flow counts for deposits that were ignored.
BalanceCheckMeaning ==
  balance_check # "none" =>
    (balance_check = "PASS"
       <=> SumFunction([t \in Txs \ Committed |-> EffectSoFar(t)])
             = SumFunction([t \in Committed |-> FlowOf(ops[t]) - EffectSoFar(t)]))

\* The bank touches an account for a transaction only while the transaction has
\* it pinned in the buffer pool, both accounts of a transfer included.
TouchesOnlyResident ==
  \A t \in Txs : bank_pc[t] # "idle" =>
    \A a \in OpAccounts(current_op[t]) :
      Holds(t, a) /\ \E s \in SlotsOf(a) : slots[s].pin_count > 0

\* Once main has joined the threads, the results it reads without a lock are
\* final: every transaction has exited with a verdict or was never started; and
\* nothing runs when the locks, the semaphores and the clock are destroyed.
ResultsFinal ==
  /\ main_pc \in {"stop", "join_timer", "report"} =>
       \A t \in Txs : /\ status[t] # "RUNNING"
                      /\ Exited(t) \/ clock_pc[t] = "new"
  /\ main_pc \in {"cleanup", "exited"} =>
       /\ timer_pc \in {"failed", "exited"}
       /\ \A t \in Txs : Exited(t) \/ clock_pc[t] = "new"

\* The buffer pool that is reported on and destroyed is empty, with all permits
\* back and every load matched by an unload, whether transactions committed,
\* aborted or were never started.
PoolLeftEmpty ==
  main_pc \in {"report", "cleanup", "exited"} =>
    /\ InUse = {} /\ empty_slots = BUFFER_POOL_SIZE /\ full_slots = 0
    /\ pool_stats.load_count = pool_stats.unload_count

\* The summary is that of the whole run, and main has printed it once it cleans up
\* after a clock that has stopped, and not otherwise.  Every transaction is counted
\* as committed or aborted and only once, those never started included; the total
\* is the clock's last tick, and none ended after it; the waiting time is that of
\* the transactions that were started, each from its start tick to the tick at
\* which it really started.
SummaryConsistent ==
  /\ (balance_check # "none") <=> (main_pc \in {"cleanup", "exited"} /\ timer_pc = "exited")
  /\ balance_check = "none" => summary = NoSummary
  /\ balance_check # "none" =>
       /\ summary.committed + summary.aborted = Cardinality(Txs)
       /\ summary.total_ticks = global_tick
       /\ \A t \in Txs : /\ times[t].actual_end <= summary.total_ticks
                         /\ status[t] = "COMMITTED" => times[t].actual_end >= start_tick[t]
       /\ summary.total_wait = SumFunction([t \in {u \in Txs : clock_pc[u] # "new"} |->
                                              times[t].actual_start - start_tick[t]])

(***************************************************************************)
(* The program implements transactions of atomic operations.  An operation *)
(* that the bank refused decides the transaction at that moment, although  *)
(* the thread has yet to record it.                                        *)
(***************************************************************************)
Verdict(t) ==
  IF failed[t] \/ (Finished(t) /\ OpFailed(t)) THEN "ABORTED"
  ELSE IF clock_pc[t] = "new" /\ status[t] = "RUNNING" THEN "WAITING"
  ELSE status[t]

Verdicts == [t \in Txs |-> Verdict(t)]

Transactions == INSTANCE AtomicTransactions WITH
  ledger <- Ledger, program <- ops, done <- Dones, verdict <- Verdicts

\* Whatever the interleaving of clock, pool, locks and main, the transactions of
\* a trace run as sequences of atomic operations: each in its own order and up to
\* its first failure, committed exactly when all its operations took effect.
\* That is all the isolation there is: an uncommitted effect is seen by others.
ImplementsTransactions == Transactions!Spec

\* The program ends: no thread waits for ever for its tick, a slot or a lock.
Terminates == <>(main_pc = "exited")

\* The pool, the bank and the clock are used in the program as their modules
\* assume, so what is shown of them there holds here.
ComponentsHold == PoolSafeSpec /\ BankSpec /\ TimerSafeSpec

(***************************************************************************)
(* Claims of docs and comments that the code does not keep.                *)
(***************************************************************************)

\* docs/design.md: `No deadlocks (via prevention strategy)'.  Here: the threads
\* that are still running do not all wait in sem_wait for a slot that only one
\* of them could free.
NoPoolDeadlock ==
  LET Active == {t \in Txs : clock_pc[t] # "new" /\ ~Exited(t)}
  IN  ~ /\ Active # {}
        /\ empty_slots = 0
        /\ \A t \in Active : pool_pc[t] = "wait_empty"

\* docs/design.md: `Balance conservation using final_total == initial_total +
\* net_external_flow'.
Conservation == balance_check # "FAIL"

\* src/main.c: `Wait for all transaction threads that were successfully started.'
JoinsOnlyStarted == ~JoinsStale
================================================================================
