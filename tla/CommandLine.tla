------------------------------ MODULE CommandLine ------------------------------
(***************************************************************************)
(* parse_args and parse_tick_ms of src/main.c: the command line becomes    *)
(* the configuration of the program; and what timer_thread makes of the    *)
(* length of a tick it is configured with.                                 *)
(*                                                                         *)
(* An argument is its option and its value; the value of --tick-ms is what *)
(* strtol makes of it.  The program's name is left out.                    *)
(***************************************************************************)
EXTENDS Integers, Sequences, FiniteSetsExt

CONSTANTS
  TICK_MS_MAX,      \* largest int; 2^31 - 1 in the build
  DEFAULT_TICK_MS,  \* 100 in the code
  US_PER_MS,        \* 1000 in the code
  CommandLines      \* the argument lists main may be called with

Options == {"--accounts", "--trace", "--deadlock"}

\* No pointer; the value of no argument.
NULL == "NULL"

ArgumentType ==
  [opt : Options, value : STRING \ {NULL}]
    \cup [opt : {"--tick-ms"}, number : BOOLEAN, ms : Int]
    \cup [opt : {"--verbose", "unknown"}]

ASSUME CommandLineAssumption ==
  /\ TICK_MS_MAX \in Nat \ {0} /\ US_PER_MS \in Nat \ {0}
  /\ DEFAULT_TICK_MS \in 1..TICK_MS_MAX
  /\ CommandLines \subseteq Seq(ArgumentType)

\* The config before the first argument.
DefaultConfig ==
  [accounts_file |-> NULL, trace_file |-> NULL, deadlock_mode |-> NULL,
   tick_ms |-> DEFAULT_TICK_MS, verbose |-> FALSE]

\* parse_tick_ms
TickAccepted(arg) == arg.number /\ arg.ms > 0 /\ arg.ms <= TICK_MS_MAX

\* parse_args returns false at once.
Unusable(arg) == arg.opt = "unknown" \/ (arg.opt = "--tick-ms" /\ ~TickAccepted(arg))

\* One round of the loop: a later argument overrides an earlier one.
TakeArgument(config, arg) ==
  CASE arg.opt = "--accounts" -> [config EXCEPT !.accounts_file = arg.value]
    [] arg.opt = "--trace"    -> [config EXCEPT !.trace_file = arg.value]
    [] arg.opt = "--deadlock" -> [config EXCEPT !.deadlock_mode = arg.value]
    [] arg.opt = "--tick-ms"  -> [config EXCEPT !.tick_ms = arg.ms]
    [] arg.opt = "--verbose"  -> [config EXCEPT !.verbose = TRUE]

\* Complete mutated: any deadlock mode will do.
Complete_AnyMode(config) ==
  /\ NULL \notin {config.accounts_file, config.trace_file, config.deadlock_mode}
  /\ config.tick_ms > 0

\* What parse_args checks after the loop.
Complete(config) ==
  /\ NULL \notin {config.accounts_file, config.trace_file, config.deadlock_mode}
  /\ config.deadlock_mode = "prevention"
  /\ config.tick_ms > 0
--------------------------------------------------------------------------------
\* usleep(tick_interval_ms * 1000).  The C standard leaves a product of ints that
\* overflows undefined; the build multiplies modulo 2^32, and the conversion to
\* the unsigned useconds_t keeps the same bits.
TickSleep(ms) == (ms * US_PER_MS) % (2 * (TICK_MS_MAX + 1))
--------------------------------------------------------------------------------
(***************************************************************************)
(* The same without an order of evaluation                                 *)
(***************************************************************************)

\* The positions of the arguments that set an option, and the one that counts.
Settings(args, option) == {i \in 1..Len(args) : args[i].opt = option}

Given(args, option) == Settings(args, option) # {}

Effective(args, option) == args[Max(Settings(args, option))]

\* The command lines the usage text describes.
AcceptableArguments(args) ==
  /\ \A option \in Options : Given(args, option)
  /\ Effective(args, "--deadlock").value = "prevention"
  /\ ~Given(args, "unknown")
  /\ \A i \in Settings(args, "--tick-ms") : args[i].number /\ args[i].ms \in 1..TICK_MS_MAX

\* What they ask for: of an option given twice the last value.
AskedFor(args) ==
  [accounts_file |-> Effective(args, "--accounts").value,
   trace_file    |-> Effective(args, "--trace").value,
   deadlock_mode |-> Effective(args, "--deadlock").value,
   tick_ms       |-> IF Given(args, "--tick-ms")
                     THEN Effective(args, "--tick-ms").ms ELSE DEFAULT_TICK_MS,
   verbose       |-> Given(args, "--verbose")]
================================================================================
