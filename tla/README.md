# BankDB in TLA+

TLA+ specifications of BankDB (`src/bankdb`), a C program that runs the
transactions of a trace file, one thread each, over a table of bank accounts,
a bounded buffer pool and a simulation clock. The modules are translated from
the C code; `PROJECT.json` names the lines each definition stands for. TLC
checks them on small instances. TLAPS proves for every instance, of any number of
threads, accounts, slots and lines, every safety property the runs check: all
invariants, action properties and refinements. Liveness is left to TLC.

    tlc -workers 2 -config pool_contention.cfg MCBufferPool
    tlapm BufferPoolProofs.tla

Definitions called `Name_Suffix` right before a definition `Name` are mutated
forms of it, each a plausible slip of the programmer. They are used nowhere:
putting one in the place of `Name` must make TLC refute a property, which shows
that the property depends on that piece of code.

## The system

`main` parses its arguments, the accounts and the trace, starts the timer thread
and one thread per transaction, joins them all, stops the timer and prints a report.

| component | code | state | operations | module |
|---|---|---|---|---|
| buffer pool | `concurrency/buffer_pool.c` | slots with pin counts, semaphores `empty_slots` and `full_slots`, `pool_lock`, statistics | `load_account`, `unload_account` | `BufferPool`, abstract: `PinnedAccounts` |
| bank operations | `core/bank.c` | balances | `get_balance`, `deposit`, `withdraw`, `transfer` | `Bank`, abstract: `AtomicBank` |
| lock manager | `concurrency/lock_mgr.c` | one reader-writer lock per account | lock, unlock, `lock_accounts_in_order` | `Bank` |
| timer | `core/timer.c` | `global_tick`, `simulation_running`, `tick_lock`, `tick_changed` | `timer_thread`, `wait_until_tick` | `Timer` |
| transactions | `core/transaction.c` | operations, loaded accounts, status, ticks | `execute_transaction`, abort | `BankDB`, abstract: `AtomicTransactions` |
| main | `main.c` | the configuration, which resources exist, the exit code | `parse_args`, load, initialise, simulate, clean up | `CommandLine`, `MainFlow` |
| main's simulation | `main.c` | thread handles, totals, flow | create, join, stop, report | `BankDB` |
| metrics | `system/metrics.c` | none | `print_summary` with its averages, `compute_total_balance`, `verify_balance_conservation` | `BankDB` |
| account table | `core/bank.c`, `system/parser.c` | `accounts`, `num_accounts` | `init_bank`, `add_account`, `get_account`, `parse_accounts_file` | `AccountTable` |
| trace parser | `system/parser.c`, `core/transaction.c` | the array of transactions | `parse_trace_file`, `parse_trace_line`, `find_or_create_transaction`, `add_operation_to_transaction` | `TraceParser` |
| utilities | `utils/utils.c` | `verbose_mode` | logging | not modelled |

How they interact: a transaction thread calls the timer (once at the start, then
to record its ticks), the buffer pool (load before use, unload at the end) and
the bank (one call per operation). The bank calls the lock manager. `main` shares
the transaction array with the threads and reads it without a lock after joining
them. The threads share the pool, the balances and the clock.

What is hard here, and what makes each component correct:

- **Buffer pool.** `pool_lock` is released before every semaphore operation, so
  the slots, the two semaphores and the counters disagree for a while, in both
  directions, and two threads can both decide to load the same account. Correct
  when no account gets two slots, pins count the holders, no permit is lost,
  neither semaphore ever makes `unload_account` wait, and the statistics are
  exact. A transaction waits for a slot while it holds others.
- **Bank and locks.** `balance += amount` is not atomic. Correct when the locks
  make every operation look atomic, no update is lost, no lock outlives its
  operation, and no ring of transfers waits in a circle.
- **Timer.** A condition variable with spurious wakeups, and two critical
  sections between which the clock may move. Correct when no wakeup is missed,
  recorded ticks are consistent, and every sleeper is woken before the timer stops.
- **Start and exit.** Five ways out of `main` over two labels, each with other
  resources alive; options in any order and repeated. Correct when every way out
  releases exactly what exists (one does not, see below), success means a whole run, and the command lines
  accepted are those of the usage text.
- **Transactions and main.** Early returns must release what was loaded; failed
  thread creations must not be waited for; results are read without locks.
  Correct when money is accounted for at every moment, an account is resident
  whenever the bank touches it, the results are final when `main` reads them, the
  pool is empty at the end, and the program ends.

The full list of these hazards, each with its line and its properties, is in
`PROJECT.json` under `hazards`.

## The modules

| module | contents |
|---|---|
| `BankTypes` | `Txs`, `Accounts`, the type of operations |
| `BufferPool` | the pool under the most general client: any account not yet loaded, in any order, then release in reverse order |
| `PinnedAccounts` | what the pool promises: atomic pins, bounded residency |
| `Bank` | the bank operations down to the single read or write of a balance |
| `AtomicBank` | what the bank promises: each operation takes effect at one moment |
| `Timer` | the clock, the wait for a start tick, the recording of ticks |
| `BankDB` | the simulation: `main` and `execute_transaction` composed of `BufferPool`, `Bank` and `Timer` |
| `AtomicTransactions` | what the program promises a trace's author: operations in order, each at one moment, until one fails |
| `AccountTable` | the table of accounts and the loading of the accounts file |
| `TraceParser` | the trace file's lines become the array of transactions |
| `CommandLine` | the arguments become the configuration; the length of a tick |
| `MainFlow` | `main` from arguments to exit code, composed of the three modules above, with `BankDB`'s part as one step |
| `MCBufferPool`, `MCBank`, `MCBankDB`, `MCMainFlow` | instances for TLC |
| `BufferPoolProofs` | proofs about `BufferPool`: slots, permits, statistics |
| `PinProofs` | proofs about `BufferPool`: pins, evictions, getting stuck, `PinnedAccounts` |
| `BankProofs` | proofs about `Bank`, and that it implements `AtomicBank` |
| `TimerProofs` | proofs about `Timer` |
| `BankDBProofs` | the composition: the theorems above hold in the program; results, residency |
| `TransactionsProofs` | the program implements `AtomicTransactions` |
| `MoneyProofs` | lemmas about sums; the money, the summary and the balance check |
| `MainFlowProofs` | proofs about `MainFlow` and the parsers and options it is composed of |

**BufferPool.** A critical section of `pool_lock` is one action, since no thread
blocks or posts inside one; every semaphore operation and every return is an
action of its own, so that they interleave with other threads. `pool_pc[t]` says
where thread `t` is:

    load:    idle -> lookup -(hit)-> idle
             lookup -(miss)-> trywait -> insert -> post_full | return_permit -> idle
                              trywait -> count_blocked -> wait_empty -> insert
    unload:  idle -> unload -(other pins)-> unload
             unload -(last pin)-> wait_full -> post_empty -> unload -> done

A slot's `data` pointer is left out, as it is the account of `account_id` or
NULL. The path on which `load_account` finds no free slot is in the model
(`InsertFresh`), and `PermitMeansFreeSlot` shows it is dead. `sem_wait` is
assumed not to fail: the program installs no signal handlers.

**Bank.** `bank_pc[t]` follows one call: argument checks, one lock at a time in
the order of `lock_accounts_in_order`, the read of a balance, the write, one
unlock at a time. The reader-writer locks prefer readers, the default of glibc.
Signed overflow is undefined in C; `Wrap` (and `TickSleep` in `CommandLine`) is what the
build does of it, whose machine instructions wrap. A compiler may do otherwise, so
the theorems about money assume that no sum overflows (`MoneyFits`). `withdraw` and
`transfer` read the balance once for the test and again for the update, under one
write lock: one step (`ReadForUpdate`) stands for both.

**Timer.** Each critical section of `tick_lock` is a step. `SpuriousWakeup` may
happen at any time. The length of a tick is `TickSleep` in `CommandLine`; here only
the order of ticks counts. `TickBound` bounds the clock.

**BankDB** composes the three by conjunction: a transaction's step is a step of one
component (or of two at once where nothing can come between, as when recording
the end and starting to unload) with the others unchanged. Positions are shared
through the components' own control variables (`clock_pc`, `pool_pc`, `bank_pc`).
`CreateOutcomes` says what `pthread_create` may do: succeed, fail leaving the
zero that `init_transaction` put in the handle, or fail leaving anything, as POSIX
allows. In the last case `main` joins a stale handle, of which POSIX says nothing: in
the model the call returns, and `Fairness` does not promise that it does, so that a
call that hangs or crashes is a behaviour cut short there. `ComponentsHold` checks that the program uses each component as its
module assumes, so that what is shown of a component holds in the program.
`summary` and `balance_check` are what `main` prints at the end.

**AtomicTransactions** has no clock, pool or locks: a transaction starts or is
turned away, performs its operations one at a time, and fails at the first that
cannot succeed or completes. `ImplementsTransactions` maps the program to it:
the ledger is `AtomicBank`'s (a balance changes when the bank writes it, a
transfer's two at once), and the verdict on a transaction is its status, except
that it has aborted as soon as the bank refused an operation. It says at once that
waiting for the clock, loading and evicting accounts and locking change nothing
about what transactions do, and what they may not rely on: others see the effects
of a transaction before it commits, and those of one that aborts stay.

**AccountTable** and **TraceParser** run before any thread exists, one action per
line of the file, after `fopen` succeeded or failed. A rejected trace line may leave a
transaction without operations behind (`Creates`), so what the simulation relies on
is stated of a trace that was not refused. A line is what `sscanf` makes of it: skipped, malformed, or its
fields (for a trace, an operation name and the integers after it). The file read
so far is kept as a variable, so that the properties can compare what the loop
built, line by line, with what the file as a whole says: `RejectsBadAccounts` and
`RejectsBadTrace` state which files are acceptable without reference to an order,
`GroupsTrace` which transactions a trace denotes: those of the positions of their
lines, an operation's place being the rank of its line among them. They also justify what the other
modules assume: `Accounts` is a set of natural numbers, start ticks are natural
numbers, and every transaction has between 1 and `MAX_OPS_PER_TX` operations.

**CommandLine** takes an argument as its option and its value, and the value of
`--tick-ms` as what `strtol` makes of it. `TakeArgument` is one round of the loop of
`parse_args`, `Complete` what it checks after the loop. Next to them stands a
definition without any order, in terms of which options occur and what their last
values are, and `ArgumentsExact` says they agree. The
product `tick_interval_ms * 1000` wraps and is passed as an unsigned number
(`TickSleep`): sleeps are right up to 4294967 ms and too short for all longer
intervals, which `parse_tick_ms` accepts as well (run `tick_cut_short`).

**MainFlow** composes `CommandLine`, `AccountTable` and `TraceParser`. `ReadArgument`
is one round of the loop of `parse_args`, with `arg_index` as its `i`, and
`AcceptArguments` and `RefuseArguments` are the ways out of it. `flow_pc` is the next stage of `main` or one of its two labels, `life` says of the bank's own mutex,
the account locks, the pool and the clock whether they exist. `Simulate` is the part that `BankDB`
specifies, `NoTimerThread` the way out in its middle. The files are chosen line
by line while they are read.

## What the runs check

| run | instance | shows |
|---|---|---|
| `pool_contention` | 3 threads, 3 accounts, 2 slots | the pool's invariants under every interleaving, that it implements `PinnedAccounts`, and that hold and wait on a pool smaller than the bank is the one way to get stuck |
| `pool_fits` | 3 threads, 2 accounts, 2 slots, fair | no deadlock and everyone ends when every account has a slot |
| `bank_mixed` | 2 threads, 2 accounts, 3-bit ints, 9 operations | no lost update, locks paired, no cycle of lock waits, implements `AtomicBank` |
| `timer_wait` | 3 threads, start ticks 0..2, clock to 3, fair | no missed wakeup, consistent ticks, everything ends |
| `bankdb_core` | 2 transactions from 4 programs, 2 accounts, 2 slots, fair; creations may fail | money accounted for, results final, pool left empty, summary consistent, components used as specified, termination, implements `AtomicTransactions` |
| `bankdb_contended` | 3 transactions of one account each from 3 programs, 1 slot, fair | blocked loads are served, the program ends and implements `AtomicTransactions` under evictions |
| `main_flow` | command lines of 3 and 4 arguments from 13; two files of up to 4 lines together, from 8 and 12 lines; 2 slots in the table, 3 transactions of 2 operations | exactly the documented command lines are accepted, lookups agree with the file, lines are grouped into the right transactions, bad files are turned down at the first bad line, every way out of `main` releases what exists, but for `bank_lock` on one of them |

The bounds and why they are enough:

- Three threads and two slots are the least at which one thread blocks for a
  permit while two others race for an account; three accounts are the least at
  which the pool is full and a third account wanted. The theorems remove these
  bounds for all safety properties.
- A lost update, a dirty read and a lock cycle need two threads. Longer rings of
  transfers are left to the theorem `NoCircularWait`. `INT_MAX = 3` makes overflow happen
  within two operations. The operations of `bank_mixed` cover each early return.
- Start ticks 0, 1 and 2 give threads that never, once and repeatedly sleep, and
  a clock that goes one tick beyond the last of them.
- `INT_MAX = 15` in `bankdb_core` is never reached, so that `LedgerExact` may
  speak of sums; overflow has its own run.
- In `main_flow`, three lines overfill the table or one transaction and four
  the array of transactions, in every order. The command lines are the usual
  three arguments with any one inserted anywhere, and any two after `--accounts`:
  every option is missing, given, doubled and wrong. In `tick_cut_short` ints of 8 bits
  and 10 µs a ms make the product of a tick's length fit an `int`, an unsigned `int`
  only, and neither.

`MAX_OPS_PER_TX` is 2 in the instances, since no program of theirs is longer.
Threads are symmetric in the safety runs of the components, and not in the
program, where `main` handles them in order. No liveness property is checked
under symmetry. `CHECK_DEADLOCK FALSE` appears only where the program really may
stop: transactions that hold slots can block one another.

### Where the code and the documents disagree

Five runs each refute one statement of a document or comment:

| run | statement | what the code does |
|---|---|---|
| `pool_deadlock` | design.md:198 "No deadlocks (via prevention strategy)" | a transaction waits for a slot while it holds others; lock ordering does not cover slots |
| `conservation_abort` | design.md:199 balance conservation | an aborted transaction keeps the effects it had, which the flow leaves out |
| `conservation_overflow` | the same | balances are `int` and wrap, the flow is a `long` |
| `join_stale` | main.c:222 "threads that were successfully started" | the handle of a thread that was not started is undefined, and main tests it |
| `tick_cut_short` | README.md:75 "Duration of one simulation tick", timer.h:40 "Sleeps for tick_interval_ms" | `tick_interval_ms * 1000` overflows for long intervals, and the sleep is too short |

`BalanceCheckMeaning` in `bankdb_core` says what the balance check does mean: one of
its programs has a negative deposit, which the bank ignores but the flow counts once
the transaction commits, so that the check can fail without an abort as well.

Two more differences need no run of their own; the model follows the code. The README
(src/bankdb/README.md:74) offers `--deadlock=prevention|detection`, while `parse_args`
(main.c:113) refuses everything but `prevention`, as the usage text says. And bank.h:126
says of `destroy_account_locks` that it "Should be called before program termination",
while the return after a refused accounts file (main.c:189) leaves the mutex that
`init_bank` made (`bank_lock`) as it is: `CleansUp` in `main_flow` says that this is the
only way out and the only resource of which that is so.

`SummaryConsistent` says what `print_summary` prints and when: once, exactly when `main`
comes to its cleanup with a clock that has stopped, and not when the timer thread
could not be created.

## Fairness

`WF` for each thread: the operating system keeps running a thread that is not
blocked. No strong fairness is assumed. A thread blocked in `sem_wait` or for a
lock is served anyway in the runs that check termination, because the
transactions are finite: the other threads run out of things to do, and then the
blocked one is enabled for good. Nothing is assumed of spurious wakeups, nor of
`SpuriousWakeup` not happening for ever; in `Timer` a sleeper woken spuriously
again and again still leaves when its tick has come. The timer thread is fair
because `usleep` returns. In `BankDB`, `main` is not promised to get past the join of a
stale handle (`JoinsStale`), which may never return.

## Proofs

The theorems hold for every value of the constants that satisfies the named
assumptions of the modules: finite sets of threads and of accounts, accounts with
natural numbers as IDs (`BankTypesAssumption`), at least one slot (`PoolAssumption`), a
positive `INT_MAX` and initial balances that fit (`BankAssumption`), start ticks
within the bound of the clock (`TimerAssumption`), transactions numbered from 1, each
with 1 to `MAX_OPS_PER_TX` operations (`BankDBAssumption`), positive capacities, and
lines and arguments of the shapes that the scanners yield
(`AccountTableAssumption`, `TraceParserAssumption`, `CommandLineAssumption`). What these
say of a running program is itself a property of `MainFlow`: `FlowTypeCorrect`
proves it of what the parsers hand to the simulation. The theorems are about the
specifications without fairness: `PoolSafeSpec`, `BankSpec`, `TimerSafeSpec`, `SafeSpec`
(of `BankDB`) and `FlowSpec`. Each inductive invariant also holds in every state of
the instance of the corresponding run, as TLC finds; `MoneyFits` is true of `bankdb_core`.

### Buffer pool (`BufferPoolProofs`, `PinProofs`)

| theorem | property |
|---|---|
| `PoolTypeCorrect` | `PoolTypeOK` |
| `PermitsNeverLost` | `PermitsConserved` |
| `FullSlotsAccounted` | `FullConserved` |
| `StatisticsExact` | `ReportExact` |
| `OneSlotPerAccount` | `NoDuplicateSlots` |
| `FreeSlotFound` | `PermitMeansFreeSlot` |
| `PinsAlwaysExact` | `PinsMatchHolders` |
| `UnloadsNeverBlock` | `UnloadNeverBlocks` |
| `DeadlocksOnlyByHolding` | `OnlyHoldAndWait` |
| `NeverStuckWhenAccountsFit` | never `Stuck`, if there are at most `BUFFER_POOL_SIZE` accounts |
| `PoolIsPinnedAccounts` | `ImplementsPins` |

The inductive invariant of slots and permits is

    PoolIInv == PoolShape /\ PoolBooks /\ NoDuplicateSlots

with `PoolBooks` for `PermitsConserved`, `FullConserved` and `ReportExact` together.
`PoolShape` is `PoolTypeOK` with integers in the place of the ranges of
`current_usage` and `peak_usage`, which no code enforces: they follow only from
`PermitsConserved` (permits left, in slots and in hands add up to the capacity,
so an insertion finds room) together with `ReportExact` (the counter is the
number of occupied slots). The argument counts: every step moves one thread between
labels (`Moves`) and changes the occupancy of at most one slot (`FillInUse`,
`ClearInUse`, `SameInUse`), both from the lemma `Toggle` on two finite sets that
differ in one element. `FreeSlotFound` then needs no induction: a thread at `insert`
is one of the permits, so fewer than `BUFFER_POOL_SIZE` slots are occupied.

The invariant of who holds what is

    PinIInv == PinsMatchHolders /\ OwnList (of each thread) /\ PostersDistinct /\ OvertakenInOrder

`PinsMatchHolders` alone is not inductive: an account may be in a list only once,
and a slot may be filled by one thread only, or the count of holders goes wrong.
By `PostersDistinct` every `sem_post` of `full_slots` still to come stands for a slot of
its own, from which `UnloadsNeverBlock` follows by counting. `OvertakenInOrder` is for
`DeadlocksOnlyByHolding`: a thread that missed an account can find it loaded by another
since, and that relation has no circle. So when all threads wait, one of them wants an
account that nobody has, and only the slots of the waiting threads are in its way.

### Bank (`BankProofs`)

| theorem | property |
|---|---|
| `BankTypeCorrect` | `BankTypeOK` |
| `UpdatesNeverLost` | `NoLostUpdate` |
| `LocksAlwaysPaired` | `LocksPaired` |
| `NoCircularWait` | `NoLockCycle` |
| `BankIsAtomic` | `ImplementsAtomicBank` |

    BankIInv == BankTypeOK /\ ThreadShape (of each thread) /\ LockTable /\ Exclusive
                /\ NoLostUpdate /\ DebitUndoable

`ThreadShape` ties a thread's label to its operation and its list of pending locks, so
that `Held` can be read off; `LockTable` says that the locks agree with it, `Exclusive`
that a writer is alone. From these a balance that was read stays as it was until it is
written. `NoCircularWait` needs no induction over the circle: a thread waits for an
account greater than all it holds, so the one of the waiting threads that wants
the greatest account waits for nobody in the circle. `BankIsAtomic` takes the last
write (or the check that fails) as the moment of the operation. The ledger it maps
to counts the money between the debit and the credit of a transfer as still with the
payer; `DebitUndoable` makes that sum exact.

### Timer (`TimerProofs`)

| theorem | property |
|---|---|
| `TimerTypeCorrect` | `TimerTypeOK` |
| `WakeupsNeverMissed` | `NoMissedWakeup` |
| `RecordedTimesConsistent` | `TimesConsistent` |

    TimerIInv == TimerTypeOK /\ NoMissedWakeup /\ TimesConsistent /\ LetGo /\ Started

`LetGo` and `Started` carry the comparison made in one critical section of `tick_lock`
to the next: the clock does not go back, so a delay is never negative.

### The program (`BankDBProofs`, `TransactionsProofs`, `MoneyProofs`)

| theorem | property |
|---|---|
| `PoolUsedAsAssumed`, `BankUsedAsAssumed`, `ClockUsedAsAssumed` | the program implements `PoolSafeSpec`, `BankSpec`, `TimerSafeSpec` |
| `ComponentsAlwaysHold` | `ComponentsHold` |
| `BankTouchesOnlyPinned` | `TouchesOnlyResident` |
| `ReportsAfterTheEnd` | `ResultsFinal` |
| `PoolGivenBack` | `PoolLeftEmpty` |
| `ProgramRunsTransactions` | `ImplementsTransactions` |
| `ProgramTypeCorrect` | `TypeOK` |
| `SummaryOfTheRun` | `SummaryConsistent` |
| `MoneyAccountedFor` | `LedgerExact`, if `MoneyFits` |
| `NeverOverdrawn` | every balance is in `0..INT_MAX`, if `MoneyFits` |
| `BalanceCheckMeans` | `BalanceCheckMeaning`, if `MoneyFits` |

The composition comes first: a step of the program is a step of each component or
leaves it alone, so every theorem above is one about the program. For the pool and
the bank this follows from the steps alone. For the clock it does not: `Timer`
assumes that it is stopped only when nobody waits for a tick, and that is so because
main has joined every thread, which takes the invariant

    ProgramIInv == ThreadStage, StatusStage, RoomToLoad (of each transaction) /\ MainStage
    EveryIInv   == ProgramShape /\ PoolIInv /\ PinIInv /\ BankIInv /\ ProgramIInv

`ThreadStage` says that a thread is in the pool or in the bank and never in both, and
in the bank only with the accounts of its operation loaded; with `PinsMatchHolders`
that is `TouchesOnlyResident`. `RoomToLoad` shows that `loaded_accounts` has room, so that
the branch of `execute_transaction` which finds the list full is never taken.
`MainStage` says which threads main has created and joined by when, whatever
`pthread_create` did.

`ProgramRunsTransactions` maps each action of the program to a step of
`AtomicTransactions` or a stutter; most actions stutter, and `SameView` says once what
of a thread has to stay the same for that. The summary is compared with the whole
run in `SummaryOfTheRun`, for which the clock's part (`TimesPast`) joins the invariant:
a transaction that was not started has waited for nothing, so the sum over all of
them is the sum of the delays of those that were (`WaitsAreDelays`).

The sums of `BankDB` come from `Functions`, which defines them by a choice among
recursive functions. `MoneyProofs` first shows that such a function exists and is
unique on the subsets of a finite set (`SumsExist`, `SumsAgree`) and from it what
sums obey: a term more, a term changed, sums of sums. The induction is over the
size of a subset, as a least counterexample (`SubsetInduction`, from `LeastNat`).

    MoneyIInv == MoneyFits /\ DoneRight /\ LedgerExact /\ \A a \in Accounts : Ledger[a] \in Nat

`MoneyFits` restricts the initial state only: the initial total and all positive
deposits of the trace add up to at most `INT_MAX`. It is needed, because an `int` that
overflows loses money, as the run `conservation_overflow` shows. That it suffices is
part of what is proved: no account is overdrawn, hence none holds more than all
of them, hence no addition of the bank overflows (`NeverOverdrawn`), not even between
the debit and the credit of a transfer.

### main, the options and the files (`MainFlowProofs`)

| theorem | property |
|---|---|
| `FlowTypeCorrect` | `FlowTypeOK` |
| `CommandLineUnderstood` | `ArgumentsExact` |
| `LookupAgrees` | `LookupExact` |
| `BadAccountsRejected` | `RejectsBadAccounts` |
| `TraceGrouped` | `GroupsTrace` |
| `BadTraceRejected` | `RejectsBadTrace` |
| `WaysOutCleanUp` | `CleansUp` |

    FlowIInv == TableIInv /\ TraceIInv /\ ArgsIInv /\ FrameIInv

Each of the first three is a loop invariant that says of the lines or arguments read
so far what the property says of all of them, and that a failure is deserved:
`TableHoldsFile` (the table has the entries of the file, each once), `LinesPlaced`
with `OperationsOwn` (every operation is in its transaction, at its rank, and the
transactions stand in the order of their first lines), `ConfigFollows` (of each
option the last value). `Stages` says at each place of `main` which resources exist and
which files are read, `SuccessEarned` that the exit code is set to success only by
the simulation.

### Only model-checked

- The liveness properties `AllFinish`, `ClockRunsDown` and `Terminates`: the prover
  reasons neither about fairness nor about `ENABLED`. That nothing is ever stuck in
  the pool when every account has a slot is proved (`NeverStuckWhenAccountsFit`), and
  the absence of lock cycles; that everyone therefore ends is checked.
- The five statements of documents that the code does not keep: a counterexample is
  TLC's to find.


## Not modelled

- Splitting the text of a file into tokens; lines longer than the 256-byte buffer
  of `fgets`, which it reads in pieces; numbers beyond `int` in a file, for which
  `sscanf` is undefined.
- The table of accounts while the threads run: it does not change any more, so the
  operations see a constant set of accounts. IDs not in it are in the instances.
- The usage text, logging (`utils.c`), number formatting and the printed tables.
- The time operations take.
- Failures of the semaphore, mutex and lock calls, whose results the code ignores.

## Plan

Every component with state is modelled, and every safety property that the runs
check is proved. What is left is to make the longest proofs easier to read
(`BankProofs` and `MainFlowProofs`), and theorems beyond the properties of the runs, such as
`NeverOverdrawn`, where they say something about the program that a run cannot.
