------------------------------ MODULE AtomicBank -------------------------------
(***************************************************************************)
(* What the bank promises its callers: between a call and its return each  *)
(* operation takes effect at one moment, on all the accounts it names.     *)
(* No locks and no partial transfers.                                      *)
(***************************************************************************)
EXTENDS BankTypes

CONSTANTS
  Operations, InitialBalances, INT_MAX

VARIABLES
  ledger,           \* the balance of each account
  call,             \* the operation each thread has asked for
  phase,            \* "idle", "called", or "done" once the operation took effect
  answer,           \* whether it succeeded, while it is done
  shown             \* what a balance inquiry is about to return

atomicVars == <<ledger, call, phase, answer, shown>>

IntWrap(n) == ((n + INT_MAX + 1) % (2 * (INT_MAX + 1))) - (INT_MAX + 1)

Valid(op) ==
  /\ op.account_id \in Accounts
  /\ op.type = "BALANCE" \/ op.amount_centavos >= 0
  /\ op.type = "TRANSFER" => op.target_account \in Accounts \ {op.account_id}

Affordable(op) ==
  op.type \in {"WITHDRAW", "TRANSFER"} => ledger[op.account_id] >= op.amount_centavos

\* The ledger after a valid and affordable operation.
Posted(op) ==
  CASE op.type = "DEPOSIT" ->
         [ledger EXCEPT ![op.account_id] = IntWrap(@ + op.amount_centavos)]
    [] op.type = "WITHDRAW" ->
         [ledger EXCEPT ![op.account_id] = IntWrap(@ - op.amount_centavos)]
    [] op.type = "TRANSFER" ->
         [ledger EXCEPT ![op.account_id] = IntWrap(@ - op.amount_centavos),
                        ![op.target_account] = IntWrap(@ + op.amount_centavos)]
    [] op.type = "BALANCE" -> ledger

Init ==
  /\ ledger \in [Accounts -> InitialBalances]
  /\ phase = [t \in Txs |-> "idle"]
  /\ call = [t \in Txs |-> NoOp]
  /\ answer = [t \in Txs |-> FALSE]
  /\ shown = [t \in Txs |-> 0]

Call(t, op) ==
  /\ phase[t] = "idle"
  /\ phase' = [phase EXCEPT ![t] = "called"]
  /\ call' = [call EXCEPT ![t] = op]
  /\ UNCHANGED <<ledger, answer, shown>>

\* The moment the operation takes effect, or is turned down.
TakeEffect(t) ==
  LET op == call[t] IN
  /\ phase[t] = "called"
  /\ phase' = [phase EXCEPT ![t] = "done"]
  /\ \/ /\ ~Valid(op)
        /\ answer' = [answer EXCEPT ![t] = op.type \in {"DEPOSIT", "BALANCE"}]
        /\ UNCHANGED ledger
     \/ /\ Valid(op)
        /\ answer' = [answer EXCEPT ![t] = Affordable(op)]
        /\ ledger' = IF Affordable(op) THEN Posted(op) ELSE ledger
  /\ shown' = [shown EXCEPT ![t] =
                 IF op.type # "BALANCE" THEN 0 ELSE IF Valid(op) THEN ledger[op.account_id] ELSE -1]
  /\ UNCHANGED call

Return(t) ==
  /\ phase[t] = "done"
  /\ phase' = [phase EXCEPT ![t] = "idle"]
  /\ call' = [call EXCEPT ![t] = NoOp]
  /\ answer' = [answer EXCEPT ![t] = FALSE]
  /\ shown' = [shown EXCEPT ![t] = 0]
  /\ UNCHANGED ledger

Next == \E t \in Txs : TakeEffect(t) \/ Return(t) \/ \E op \in Operations : Call(t, op)

Spec == Init /\ [][Next]_atomicVars
================================================================================
