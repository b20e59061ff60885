------------------------------- MODULE MainFlow --------------------------------
(***************************************************************************)
(* main of src/main.c from its arguments to its exit code, with the        *)
(* simulation that BankDB specifies as one step: the command line, the two *)
(* files, the creation of the account locks, the buffer pool and the       *)
(* clock, and the labels cleanup_timer and cleanup_bank that every way out *)
(* must enter at the right place.                                          *)
(***************************************************************************)
EXTENDS AccountTable, TraceParser, CommandLine

CONSTANTS
  ReadableFiles,    \* the names fopen succeeds for
  FileBound         \* named bound: lines of the two files of the model together

ASSUME MainFlowAssumption == ReadableFiles \subseteq STRING /\ FileBound \in Nat

VARIABLES
  argv,             \* the arguments, until they are parsed
  arg_index,        \* i of the loop of parse_args
  config,           \* what parse_args made of them
  flow_pc,          \* where main is
  life,             \* of each resource: "absent", "live" or "destroyed"
  exit_code         \* what main is going to return

frameVars == <<argv, arg_index, config, flow_pc, life, exit_code>>
flowVars  == <<tableVars, traceVars, frameVars>>

\* bank_lock, which init_bank makes; the account locks; the pool's and the clock's
\* mutexes, semaphores and condition.
Resources == {"bank_lock", "locks", "pool", "timer"}

FlowInit ==
  /\ TableInit /\ TraceInit
  /\ argv \in CommandLines
  /\ arg_index = 1
  /\ config = DefaultConfig
  /\ flow_pc = "arguments"
  /\ life = [r \in Resources |-> "absent"]
  /\ exit_code = "failure"

\* The next statement of main, and what becomes of resources.
Step(from, to) == flow_pc = from /\ flow_pc' = to
Become(resources, state) ==
  life' = [r \in Resources |-> IF r \in resources THEN state ELSE life[r]]

\* One round of the loop of parse_args.
ReadArgument ==
  /\ flow_pc = "arguments" /\ arg_index <= Len(argv)
  /\ ~Unusable(argv[arg_index])
  /\ config' = TakeArgument(config, argv[arg_index])
  /\ arg_index' = arg_index + 1
  /\ UNCHANGED <<tableVars, traceVars, argv, flow_pc, life, exit_code>>

\* parse_args returns true; then init_bank, on a table that is still empty.
AcceptArguments ==
  /\ arg_index > Len(argv) /\ Complete(config)
  /\ Step("arguments", "accounts")
  /\ argv' = <<>> /\ arg_index' = 1
  /\ Become({"bank_lock"}, "live")
  /\ UNCHANGED <<tableVars, traceVars, config, exit_code>>

\* parse_args returns false, in its loop or after it.
RefuseArguments ==
  /\ IF arg_index <= Len(argv) THEN Unusable(argv[arg_index]) ELSE ~Complete(config)
  /\ Step("arguments", "exited")
  /\ UNCHANGED <<tableVars, traceVars, argv, arg_index, config, life, exit_code>>

\* parse_accounts_file on an initialised, empty bank.
LoadAccounts ==
  /\ flow_pc = "accounts"
  /\ \/ config.accounts_file \in ReadableFiles /\ OpenAccounts
     \/ config.accounts_file \notin ReadableFiles /\ AccountsUnreadable
     \/ TableNext
  /\ UNCHANGED <<traceVars, frameVars>>

\* return: there are no account locks yet, and bank_lock is left as it is.
AccountsFailed ==
  /\ accounts_pc = "failed"
  /\ Step("accounts", "exited")
  /\ UNCHANGED <<tableVars, traceVars, argv, arg_index, config, life, exit_code>>

\* init_account_locks; then compute_total_balance, which takes them.
InitAccountLocks ==
  /\ accounts_pc = "loaded"
  /\ Step("accounts", "trace")
  /\ Become({"locks"}, "live")
  /\ UNCHANGED <<tableVars, traceVars, argv, arg_index, config, exit_code>>

LoadTrace ==
  /\ flow_pc = "trace"
  /\ \/ config.trace_file \in ReadableFiles /\ OpenTrace
     \/ config.trace_file \notin ReadableFiles /\ TraceUnreadable
     \/ TraceNext
  /\ UNCHANGED <<tableVars, frameVars>>

\* TraceFailed mutated: the wrong label.
TraceFailed_CleanupTimer ==
  /\ trace_pc = "failed"
  /\ Step("trace", "cleanup_timer")
  /\ UNCHANGED <<tableVars, traceVars, argv, arg_index, config, life, exit_code>>

\* goto cleanup_bank
TraceFailed ==
  /\ trace_pc = "failed"
  /\ Step("trace", "cleanup_bank")
  /\ UNCHANGED <<tableVars, traceVars, argv, arg_index, config, life, exit_code>>

\* init_buffer_pool and init_timer
InitPoolAndTimer ==
  /\ trace_pc = "parsed"
  /\ Step("trace", "simulate")
  /\ Become({"pool", "timer"}, "live")
  /\ UNCHANGED <<tableVars, traceVars, argv, arg_index, config, exit_code>>

\* The threads run and are joined, and the report is printed: see BankDB.
Simulate ==
  /\ Step("simulate", "cleanup_timer")
  /\ exit_code' = "success"
  /\ UNCHANGED <<tableVars, traceVars, argv, arg_index, config, life>>

\* The timer thread cannot be created: goto cleanup_timer.
NoTimerThread ==
  /\ Step("simulate", "cleanup_timer")
  /\ UNCHANGED <<tableVars, traceVars, argv, arg_index, config, life, exit_code>>

CleanupTimer ==
  /\ Step("cleanup_timer", "cleanup_bank")
  /\ Become({"pool", "timer"}, "destroyed")
  /\ UNCHANGED <<tableVars, traceVars, argv, arg_index, config, exit_code>>

\* destroy_account_locks, which destroys bank_lock too.
CleanupBank ==
  /\ Step("cleanup_bank", "exited")
  /\ Become({"bank_lock", "locks"}, "destroyed")
  /\ UNCHANGED <<tableVars, traceVars, argv, arg_index, config, exit_code>>

FlowTerminated == flow_pc = "exited" /\ UNCHANGED flowVars

FlowNext ==
  \/ ReadArgument \/ AcceptArguments \/ RefuseArguments
  \/ (LoadAccounts \/ LoadTrace) /\ Len(accounts_file') + Len(trace') <= FileBound
  \/ AccountsFailed \/ InitAccountLocks \/ TraceFailed \/ InitPoolAndTimer
  \/ Simulate \/ NoTimerThread \/ CleanupTimer \/ CleanupBank
  \/ FlowTerminated

FlowSpec == FlowInit /\ [][FlowNext]_flowVars
--------------------------------------------------------------------------------
(***************************************************************************)
(* Properties                                                              *)
(***************************************************************************)

\* Type invariant.  In particular the simulation gets what it counts on: a bank
\* within its table, transactions of 1 to MAX_OPS_PER_TX operations, an interval
\* that is positive.
FlowTypeOK ==
  /\ TableTypeOK
  /\ trace_pc # "failed" => TransactionsWellFormed
  /\ argv \in CommandLines \cup {<<>>} /\ arg_index \in 1..Len(argv) + 1
  /\ config.tick_ms \in 1..TICK_MS_MAX
  /\ flow_pc \in {"arguments", "accounts", "trace", "simulate",
                  "cleanup_timer", "cleanup_bank", "exited"}
  /\ life \in [Resources -> {"absent", "live", "destroyed"}]
  /\ exit_code \in {"failure", "success"}

\* parse_args goes through the arguments once, in order, and stops at the first
\* that is wrong; the result is nevertheless a matter of which arguments there
\* are: the usage text's command lines are accepted, and no others, and of an
\* option given more than once the last value counts.
ArgumentsExact ==
  [][flow_pc = "arguments" /\ flow_pc' # "arguments" =>
       IF AcceptableArguments(argv)
       THEN flow_pc' = "accounts" /\ config' = AskedFor(argv)
       ELSE flow_pc' = "exited"]_flowVars

\* The usage says of --tick-ms=N that N is the duration of a tick.  timer_thread
\* sleeps that long for every interval that parse_tick_ms accepts.
TickLastsAsAsked ==
  flow_pc = "simulate" => TickSleep(config.tick_ms) = config.tick_ms * US_PER_MS

\* Whichever return or goto main takes, only what exists is destroyed and both
\* streams are closed, and everything that exists is destroyed: except bank_lock
\* when the accounts file is refused, and then only.  Success is returned only
\* after both files were read to their ends and all resources existed.
CleansUp ==
  [][/\ \A r \in Resources : life'[r] = "destroyed" => life[r] # "absent"
     /\ flow_pc' = "exited" =>
          /\ \A r \in Resources \ {"bank_lock"} : life'[r] # "live"
          /\ life'["bank_lock"] = "live" <=> accounts_pc = "failed"
          /\ "open" \notin {accounts_fp, trace_fp}
          /\ exit_code = "success" => /\ accounts_pc = "loaded" /\ trace_pc = "parsed"
                                      /\ \A r \in Resources : life'[r] = "destroyed"]_flowVars
================================================================================
