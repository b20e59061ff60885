------------------------------ MODULE TraceParser ------------------------------
(***************************************************************************)
(* parse_trace_file, find_or_create_transaction and parse_trace_line of    *)
(* src/system/parser.c, with init_transaction and                          *)
(* add_operation_to_transaction of src/core/transaction.c: the lines of a  *)
(* trace become the array of transactions that main runs.                  *)
(*                                                                         *)
(* A line is what sscanf makes of it: to be skipped, malformed, or a       *)
(* transaction number, a start tick, an operation name and the integers    *)
(* that follow.                                                            *)
(***************************************************************************)
EXTENDS BankTypes, SequencesExt

CONSTANTS
  MAX_TRANSACTIONS,     \* capacity of main's array; 256 in the code
  MAX_OPS_PER_TX,       \* capacity of a transaction; 256 in the code
  TraceLines            \* the lines a trace may have

TraceLineType ==
  [kind : {"skip", "malformed"}]
    \cup [kind : {"operation"}, tx_id : Int, start_tick : Int, op_str : STRING, args : Seq(Int)]

ASSUME TraceParserAssumption ==
  /\ MAX_TRANSACTIONS \in Nat \ {0}
  /\ MAX_OPS_PER_TX \in Nat \ {0}
  /\ TraceLines \subseteq TraceLineType

VARIABLES
  transactions,         \* the num_transactions transactions found so far
  trace_pc,             \* "unopened", "reading", "parsed" or "failed"
  trace_fp,             \* the stream: "none", "open" or "closed"
  trace                 \* the lines read so far

traceVars == <<transactions, trace_pc, trace_fp, trace>>

\* How many integers sscanf must match after the operation's name.
Operands(type) == IF type = "BALANCE" THEN 1 ELSE IF type = "TRANSFER" THEN 3 ELSE 2

\* The operation parse_trace_line appends; fields the format lacks get defaults,
\* and what is on the line beyond the operands is ignored.
Operation(line) ==
  LET type == line.op_str IN
  [type            |-> type,
   account_id      |-> line.args[1],
   amount_centavos |-> IF type = "BALANCE" THEN 0 ELSE line.args[Operands(type)],
   target_account  |-> IF type = "TRANSFER" THEN line.args[2] ELSE NoAccount]

\* Position mutated: a transaction is only looked for at the end of the array.
Position_LastOnly(id) ==
  IF transactions # <<>> /\ Last(transactions).tx_id = id THEN Len(transactions)
  ELSE Len(transactions) + 1

\* find_or_create_transaction: the first transaction of that ID, or a new one.
Position(id) ==
  LET Same == {i \in 1..Len(transactions) : transactions[i].tx_id = id}
  IN  IF Same = {} THEN Len(transactions) + 1 ELSE Min(Same)

\* init_transaction
NewTransaction(id, tick) == [tx_id |-> id, start_tick |-> tick, ops |-> <<>>]

\* The transaction a line belongs to, as parse_trace_line gets it.
Found(line) ==
  IF Position(line.tx_id) > Len(transactions)
  THEN NewTransaction(line.tx_id, line.start_tick)
  ELSE transactions[Position(line.tx_id)]

\* SameTick mutated: a later line may name another start tick.
SameTick_NotChecked(line) == TRUE

\* tx->start_tick == start_tick
SameTick(line) == Found(line).start_tick = line.start_tick

\* OpsFull mutated: one operation too many.
OpsFull_OffByOne(tx) == Len(tx.ops) > MAX_OPS_PER_TX

\* add_operation_to_transaction has no room.
OpsFull(tx) == Len(tx.ops) >= MAX_OPS_PER_TX

\* The checks of parse_trace_file, then those of parse_trace_line.
Rejected(line) ==
  \/ line.kind = "malformed"
  \/ /\ line.kind = "operation"
     /\ \/ line.start_tick < 0
        \/ Position(line.tx_id) > MAX_TRANSACTIONS
        \/ ~SameTick(line)
        \/ line.op_str \notin OpTypes
        \/ Len(line.args) < Operands(line.op_str)
        \/ OpsFull(Found(line))
--------------------------------------------------------------------------------
TraceInit ==
  /\ transactions = <<>>
  /\ trace_pc = "unopened"
  /\ trace_fp = "none"
  /\ trace = <<>>

\* fopen
OpenTrace ==
  /\ trace_pc = "unopened"
  /\ trace_pc' = "reading"
  /\ trace_fp' = "open"
  /\ UNCHANGED <<transactions, trace>>

TraceUnreadable ==
  /\ trace_pc = "unopened"
  /\ trace_pc' = "failed"
  /\ UNCHANGED <<transactions, trace_fp, trace>>

ReadLine(line) ==
  /\ trace_pc = "reading"
  /\ trace' = Append(trace, line)

SkipLine(line) ==
  /\ ReadLine(line)
  /\ line.kind = "skip"
  /\ UNCHANGED <<transactions, trace_pc, trace_fp>>

\* The operation goes to the end of its transaction, which may be new.
AppendOperation(line) ==
  LET tx == Found(line) IN
  /\ ReadLine(line)
  /\ line.kind = "operation"
  /\ ~Rejected(line)
  /\ transactions' = [i \in 1..Max({Len(transactions), Position(line.tx_id)}) |->
                        IF i = Position(line.tx_id)
                        THEN [tx EXCEPT !.ops = Append(@, Operation(line))]
                        ELSE transactions[i]]
  /\ UNCHANGED <<trace_pc, trace_fp>>

\* The line gets as far as find_or_create_transaction, which has no transaction
\* of that ID but has room for one.
Creates(line) ==
  /\ line.kind = "operation"
  /\ line.start_tick >= 0
  /\ Len(transactions) < Position(line.tx_id)
  /\ Position(line.tx_id) <= MAX_TRANSACTIONS

\* The first line that is rejected ends the parse and the program.  Where it is
\* parse_trace_line that rejects it, a transaction created for the line stays
\* behind, without operations.
RejectLine(line) ==
  /\ ReadLine(line)
  /\ Rejected(line)
  /\ trace_pc' = "failed"
  /\ trace_fp' = "closed"
  /\ transactions' = IF Creates(line)
                     THEN Append(transactions, NewTransaction(line.tx_id, line.start_tick))
                     ELSE transactions

EndOfTrace ==
  /\ trace_pc = "reading"
  /\ trace_pc' = "parsed"
  /\ trace_fp' = "closed"
  /\ UNCHANGED <<transactions, trace>>

TraceNext ==
  \/ \E line \in TraceLines : SkipLine(line) \/ AppendOperation(line) \/ RejectLine(line)
  \/ EndOfTrace
--------------------------------------------------------------------------------
(***************************************************************************)
(* Properties                                                              *)
(***************************************************************************)

\* What main relies on once the trace is parsed: IDs are distinct, every transaction has at least one
\* operation and none is overfull, and no start tick lies before the clock's.
TransactionsWellFormed ==
  /\ Len(transactions) <= MAX_TRANSACTIONS
  /\ \A i \in 1..Len(transactions) :
       /\ transactions[i].start_tick >= 0
       /\ transactions[i].ops \in Seq(OperationType)
       /\ Len(transactions[i].ops) \in 1..MAX_OPS_PER_TX
  /\ \A i, j \in 1..Len(transactions) : transactions[i].tx_id = transactions[j].tx_id => i = j

\* The lines of transaction id, by their positions in the file.
LinesOf(file, id) ==
  {k \in 1..Len(file) : file[k].kind = "operation" /\ file[k].tx_id = id}

\* However the lines of several transactions alternate, each transaction gets
\* exactly its own operations, in the order of the file, and the transactions
\* stand in the order of their first lines.
GroupsTrace ==
  trace_pc # "failed" =>
    LET Ids == {trace[k].tx_id : k \in {j \in 1..Len(trace) : trace[j].kind = "operation"}}
        Lines(i) == LinesOf(trace, transactions[i].tx_id)
    IN  /\ {transactions[i].tx_id : i \in 1..Len(transactions)} = Ids
        /\ \A i \in 1..Len(transactions) :
             /\ Len(transactions[i].ops) = Cardinality(Lines(i))
             /\ \A k \in Lines(i) :
                  transactions[i].ops[Cardinality(Lines(i) \cap 1..k)] = Operation(trace[k])
        /\ \A i, j \in 1..Len(transactions) : i < j => Min(Lines(i)) < Min(Lines(j))

\* The traces the program can run.
AcceptableTrace(file) ==
  LET Ops == {k \in 1..Len(file) : file[k].kind = "operation"} IN
  /\ \A k \in 1..Len(file) : file[k].kind # "malformed"
  /\ \A k \in Ops : /\ file[k].start_tick >= 0
                    /\ \/ file[k].op_str = "BALANCE" /\ Len(file[k].args) >= 1
                       \/ file[k].op_str \in {"DEPOSIT", "WITHDRAW"} /\ Len(file[k].args) >= 2
                       \/ file[k].op_str = "TRANSFER" /\ Len(file[k].args) >= 3
                    /\ Cardinality(LinesOf(file, file[k].tx_id)) <= MAX_OPS_PER_TX
  /\ \A k, l \in Ops : file[k].tx_id = file[l].tx_id => file[k].start_tick = file[l].start_tick
  /\ Cardinality({file[k].tx_id : k \in Ops}) <= MAX_TRANSACTIONS

\* The parse of a file that can be opened fails at the first line that makes the
\* trace unacceptable, and at no other: no thread ever runs part of a trace.
RejectsBadTrace ==
  trace_fp # "none" => ((trace_pc = "failed") <=> ~AcceptableTrace(trace))
================================================================================
