------------------------------ MODULE MCMainFlow -------------------------------
(* An instance of MainFlow for TLC.                                           *)
EXTENDS MainFlow

MCAccounts == {1, 2}

Arg(option, value) == [opt |-> option, value |-> value]
Tick(number, ms)   == [opt |-> "--tick-ms", number |-> number, ms |-> ms]
Flag(option)       == [opt |-> option]

\* With 8-bit ints and 10 microseconds a millisecond: intervals whose product
\* fits an int, fits an unsigned int only, and fits neither.
SomeArguments ==
  { Arg("--accounts", "good"), Arg("--accounts", "missing"),
    Arg("--trace", "good"),    Arg("--trace", "missing"),
    Arg("--deadlock", "prevention"), Arg("--deadlock", "detection"),
    Tick(TRUE, 0), Tick(TRUE, 20), Tick(TRUE, 100), Tick(TRUE, 200), Tick(FALSE, 0),
    Flag("--verbose"), Flag("unknown") }

\* The arguments main is usually given, once one more anywhere, and any two.
Usual == <<Arg("--accounts", "good"), Arg("--trace", "good"), Arg("--deadlock", "prevention")>>

SomeCommandLines ==
  {Usual}
    \cup {InsertAt(Usual, i, arg) : i \in 1..4, arg \in SomeArguments}
    \cup {<<Arg("--accounts", "good"), a, b>> : a, b \in SomeArguments}

OtherLines == [kind : {"skip", "malformed"}]

AccountLine(id, balance) ==
  [kind |-> "account", account_id |-> id, initial_balance |-> balance]

\* IDs in and out of sequence, twice, negative, with a negative balance.
SomeAccountLines ==
  OtherLines \cup
  { AccountLine(1, 0), AccountLine(2, 5), AccountLine(2, 6), AccountLine(3, 7),
    AccountLine(-1, 3), AccountLine(4, -1) }

TraceLine(id, tick, op, args) ==
  [kind |-> "operation", tx_id |-> id, start_tick |-> tick, op_str |-> op, args |-> args]

\* Each operation, two lines of a transaction with one start tick and with two,
\* a missing operand, an operand too many, a name that is none, a negative tick.
SomeTraceLines ==
  OtherLines \cup
  { TraceLine(1, 0, "DEPOSIT", <<1, 5>>),  TraceLine(1, 0, "TRANSFER", <<1, 2, 3>>),
    TraceLine(1, 1, "BALANCE", <<1>>),     TraceLine(2, 1, "BALANCE", <<2, 9>>),
    TraceLine(2, 1, "TRANSFER", <<1, 2>>), TraceLine(2, 1, "WITHDRAW", <<2, -4>>),
    TraceLine(3, 0, "BALANCE", <<7>>),     TraceLine(3, 0, "DEPOSITS", <<1, 5>>),
    TraceLine(3, -1, "BALANCE", <<1>>),    TraceLine(4, 0, "BALANCE", <<1>>) }
================================================================================
