---------------------------- MODULE TransactionsProofs ---------------------------
(***************************************************************************)
(* The program implements transactions of atomic operations, for any trace *)
(* and any number of transactions, accounts and slots.  The last access of *)
(* an operation to a balance is the moment it is performed or fails; what  *)
(* clock, pool, locks and main do besides is a stutter.                    *)
(***************************************************************************)
EXTENDS BankDBProofs

LEMMA SameInt32 == \A n : Transactions!Int32(n) = Wrap(n)
BY DEF Transactions!Int32, Wrap

LEMMA LedgerRange ==
  ASSUME BankIInv
  PROVE  Ledger \in [Accounts -> Int32Range]
<1>1. BankTypeOK /\ balance \in [Accounts -> Int32Range]
  BY DEF BankIInv, BankTypeOK, Int32Range
<1>2. ASSUME NEW a \in Accounts, Transferring(a) # {} PROVE Ledger[a] \in Int32Range
  <2> DEFINE u == CHOOSE t \in Transferring(a) : TRUE
  <2>1. u \in Txs
    BY <1>2 DEF Transferring
  <2> HIDE DEF u
  <2>2. Amount(u) \in Int /\ balance[a] \in Int
    BY <1>1, <2>1, OpFields, BankAssumption DEF Int32Range
  <2>3. Ledger[a] = Wrap(balance[a] + Amount(u))
    BY <1>2 DEF Ledger, u
  <2> QED
    BY <2>2, <2>3, WrapRange
<1>3. ASSUME NEW a \in Accounts, Transferring(a) = {} PROVE Ledger[a] \in Int32Range
  BY <1>1, <1>3 DEF Ledger
<1> QED
  BY <1>2, <1>3 DEF Ledger

(***************************************************************************)
(* What of a thread the mapping looks at, and the steps that leave it.     *)
(***************************************************************************)
SameView(u) ==
  /\ SameThread(u)
  /\ ops'[u] = ops[u] /\ op_index'[u] = op_index[u]
  /\ status'[u] = status[u] /\ failed'[u] = failed[u]
  /\ clock_pc'[u] = "new" <=> clock_pc[u] = "new"

LEMMA ViewKept ==
  ASSUME NEW u \in Txs, SameView(u)
  PROVE  Dones'[u] = Dones[u] /\ Verdicts'[u] = Verdicts[u]
<1>1. /\ Finished(u)' <=> Finished(u)
      /\ OpFailed(u)' <=> OpFailed(u)
  BY DEF SameView, SameThread, Finished, OpFailed, OpType
<1>2. Dones'[u] = Dones[u]
  BY <1>1 DEF SameView, Dones
<1>3. Verdict(u)' = Verdict(u)
  BY <1>1 DEF SameView, Verdict
<1> QED
  BY <1>2, <1>3 DEF Verdicts

LEMMA AllViewsKept ==
  ASSUME \A u \in Txs : SameView(u)
  PROVE  Dones' = Dones /\ Verdicts' = Verdicts
<1>1. \A u \in Txs : Dones'[u] = Dones[u] /\ Verdicts'[u] = Verdicts[u]
  BY ViewKept
<1>2. /\ Dones = [u \in Txs |-> Dones[u]] /\ Dones' = [u \in Txs |-> Dones'[u]]
      /\ Verdicts = [u \in Txs |-> Verdicts[u]] /\ Verdicts' = [u \in Txs |-> Verdicts'[u]]
  BY DEF Dones, Verdicts
<1> QED
  BY <1>1, <1>2

LEMMA OneViewChanged ==
  ASSUME NEW t \in Txs, \A u \in Txs : u # t => SameView(u)
  PROVE  /\ Dones' = [Dones EXCEPT ![t] = Dones'[t]]
         /\ Verdicts' = [Verdicts EXCEPT ![t] = Verdicts'[t]]
         /\ Dones'[t] = Dones[t] => Dones' = Dones
         /\ Verdicts'[t] = Verdicts[t] => Verdicts' = Verdicts
<1>1. \A u \in Txs : u # t => Dones'[u] = Dones[u] /\ Verdicts'[u] = Verdicts[u]
  BY ViewKept
<1>2. /\ Dones = [u \in Txs |-> Dones[u]] /\ Dones' = [u \in Txs |-> Dones'[u]]
      /\ Verdicts = [u \in Txs |-> Verdicts[u]] /\ Verdicts' = [u \in Txs |-> Verdicts'[u]]
  BY DEF Dones, Verdicts
<1> QED
  BY <1>1, <1>2

\* A bank step, or none.
LEMMA BankAlone ==
  ASSUME ProgramShape, NEW t \in Txs, TxStep(t)
  PROVE  ThreadStep(t) \/ UNCHANGED bankVars
<1>1. CASE Execute(t)
  BY <1>1, OpsOfProgram DEF Execute, ThreadStep
<1>2. CASE TakeResult(t) \/ InBank(t)
  BY <1>2 DEF TakeResult, InBank, ThreadStep
<1>3. CASE Wait(t) \/ Spurious(t) \/ Begin(t) \/ LoadNext(t) \/ Commit(t) \/ Abort(t) \/ InPool(t)
  BY <1>3 DEF Wait, Spurious, Begin, LoadNext, Commit, Abort, InPool
<1> QED
  BY <1>1, <1>2, <1>3 DEF TxStep, Transaction

LEMMA ViewFrame ==
  ASSUME EveryIInv, NEW t \in Txs, TxStep(t)
  PROVE  ops' = ops /\ \A u \in Txs : u # t => SameView(u)
<1>1. /\ ProgramShape /\ PoolShape /\ BankTypeOK /\ ThreadShape(t)
  BY DEF EveryIInv, PoolIInv, BankIInv
<1>2. \A u \in Txs : u # t => SameTx(u)
  BY <1>1, TxFrame
<1>3. \A u \in Txs : u # t => SameThread(u)
  BY <1>1, BankAlone, StepTypes DEF SameThread, bankVars
<1>4. ops' = ops
  BY DEF TxStep, Transaction, Wait, Spurious, Begin, LoadNext, Execute, TakeResult, Commit, Abort, InPool,
         InBank, txVars
<1> QED
  BY <1>2, <1>3, <1>4 DEF SameView, SameTx

LEMMA QuietLedger ==
  ASSUME UNCHANGED bankVars
  PROVE  Ledger' = Ledger
BY DEF bankVars, Ledger, Transferring, Account, Amount

\* The operation a running thread is at is the next one to be performed.
LEMMA NextOpIsOp ==
  ASSUME EveryIInv, NEW t \in Txs, MoreOps(t), ~Finished(t)
  PROVE  /\ Dones[t] = op_index[t] - 1 /\ Dones[t] < Len(ops[t])
         /\ Transactions!NextOp(t) = Op(t)
<1>1. op_index[t] \in Nat \ {0} /\ Len(ops[t]) \in Nat /\ op_index[t] <= Len(ops[t])
  <2>1. ProgramShape /\ Len(ops[t]) \in 1..MAX_OPS_PER_TX
    BY OpsOfProgram DEF EveryIInv
  <2> QED
    BY <2>1, BankDBAssumption DEF ProgramShape, MoreOps
<1>2. Dones[t] = op_index[t] - 1
  BY <1>1 DEF Dones
<1>3. Dones[t] + 1 = op_index[t] /\ Dones[t] < Len(ops[t])
  BY <1>1, <1>2
<1> QED
  BY <1>2, <1>3 DEF Transactions!NextOp, Op
--------------------------------------------------------------------------------
(***************************************************************************)
(* The moment an operation takes effect or fails.                          *)
(***************************************************************************)
EffectStep(t) == Refuse(t) \/ ReadBalance(t) \/ InsufficientFunds(t) \/ WriteBalance(t) \/ Credit(t)

\* The atomic bank tells what the operation does and what its caller will see.
LEMMA WhatCallersSee ==
  ASSUME BankIInv, BankIInv', NEW t \in Txs, EffectStep(t), NEW op, op = current_op[t]
  PROVE  /\ ~Finished(t) /\ Finished(t)' /\ OpType(t)' = op.type
         /\ \/ /\ ~Atomic!Valid(op)
               /\ result'[t] <=> op.type \in {"DEPOSIT", "BALANCE"}
               /\ Ledger' = Ledger
            \/ /\ Atomic!Valid(op)
               /\ result'[t] <=> Atomic!Affordable(op)
               /\ Ledger' = IF Atomic!Affordable(op) THEN Atomic!Posted(op) ELSE Ledger
               /\ op.type = "BALANCE" => seen'[t] = Ledger[op.account_id]
<1>1. Atomic!TakeEffect(t)
  BY VisibleStep DEF EffectStep
<1>2. bank_pc \in [Txs -> BankLabels] /\ result \in [Txs -> BOOLEAN]
  BY StepFacts DEF EffectStep, ThreadStep, BankStep
<1>3. /\ bank_pc[t] \notin {"unlock", "returned"} /\ bank_pc'[t] \in {"unlock", "returned"}
      /\ current_op' = current_op
  BY <1>2 DEF EffectStep, Refuse, ReadBalance, InsufficientFunds, WriteBalance, Credit, Proceed
<1>4. ~Finished(t) /\ Finished(t)' /\ OpType(t)' = op.type
  BY <1>3 DEF Finished, OpType
<1>5. Answers'[t] <=> result'[t]
  BY <1>4 DEF Answers
<1>6. op.type = "BALANCE" => ShownBalances'[t] = seen'[t]
  BY <1>4 DEF ShownBalances
<1>7. t \in DOMAIN Answers /\ t \in DOMAIN ShownBalances
  BY DEF Answers, ShownBalances
<1>8. CASE ~Atomic!Valid(op)
  <2>1. /\ Answers' = [Answers EXCEPT ![t] = op.type \in {"DEPOSIT", "BALANCE"}]
        /\ Ledger' = Ledger
    BY <1>1, <1>8 DEF Atomic!TakeEffect
  <2>2. Answers'[t] <=> op.type \in {"DEPOSIT", "BALANCE"}
    BY <1>7, <2>1, Zenon
  <2> QED
    BY <1>4, <1>5, <1>8, <2>1, <2>2
<1>9. CASE Atomic!Valid(op)
  <2>1. /\ Answers' = [Answers EXCEPT ![t] = Atomic!Affordable(op)]
        /\ Ledger' = IF Atomic!Affordable(op) THEN Atomic!Posted(op) ELSE Ledger
        /\ op.type = "BALANCE" => ShownBalances' = [ShownBalances EXCEPT ![t] = Ledger[op.account_id]]
    BY <1>1, <1>9 DEF Atomic!TakeEffect
  <2>2. Answers'[t] <=> Atomic!Affordable(op)
    BY <1>7, <2>1, Zenon
  <2>3. op.type = "BALANCE" => seen'[t] = Ledger[op.account_id]
    BY <1>6, <1>7, <2>1
  <2> QED
    BY <1>4, <1>5, <1>9, <2>1, <2>2, <2>3
<1> QED
  BY <1>8, <1>9

\* The ledger after an operation, in the words of Transactions.
LEMMA PostedIsChange ==
  ASSUME BankIInv, NEW op \in OperationType, Atomic!Valid(op)
  PROVE  Atomic!Posted(op) = [a \in Accounts |-> Transactions!Int32(Ledger[a] + Transactions!Change(op, a))]
<1> DEFINE after(a) == Wrap(Ledger[a] + Transactions!Change(op, a))
           source == op.account_id
           target == op.target_account
           amount == op.amount_centavos
<1>1. /\ op.type \in OpTypes /\ source \in Accounts /\ amount \in Int
      /\ op.type # "BALANCE" => amount >= 0
      /\ op.type = "TRANSFER" => target \in Accounts /\ target # source
  BY DEF OperationType, Atomic!Valid
<1>2. /\ Ledger \in [Accounts -> Int32Range]
      /\ \A a \in Accounts : Ledger[a] \in Int
      /\ \A a \in Accounts : Wrap(Ledger[a]) = Ledger[a]
  BY LedgerRange, WrapRange, BankAssumption DEF Int32Range
<1>3. ASSUME NEW a \in Accounts, Transactions!Change(op, a) = 0 PROVE after(a) = Ledger[a]
  <2>1. Ledger[a] + Transactions!Change(op, a) = Ledger[a]
    BY <1>2, <1>3
  <2> QED
    BY <1>2, <2>1
<1>4. \A x, y \in Int : x - y = x + (- y)
  OBVIOUS
<1>5. Atomic!Posted(op) = [a \in Accounts |-> after(a)]
  <2>1. CASE op.type = "DEPOSIT"
    <3>1. Transactions!Change(op, source) = amount
      BY <1>1, <2>1 DEF Transactions!Change
    <3>2. \A a \in Accounts : a # source => Transactions!Change(op, a) = 0
      BY <2>1 DEF Transactions!Change
    <3>3. Atomic!Posted(op) = [Ledger EXCEPT ![source] = Wrap(Ledger[source] + amount)]
      BY <2>1, SameConstants DEF Atomic!Posted
    <3>4. after(source) = Wrap(Ledger[source] + amount)
      BY <3>1
    <3>5. \A a \in Accounts : a # source => after(a) = Ledger[a]
      BY <1>3, <3>2
    <3> HIDE DEF after, source
    <3> QED
      BY <1>1, <1>2, <3>3, <3>4, <3>5
  <2>2. CASE op.type = "WITHDRAW"
    <3>1. Transactions!Change(op, source) = - amount
      BY <1>1, <2>2 DEF Transactions!Change
    <3>2. \A a \in Accounts : a # source => Transactions!Change(op, a) = 0
      BY <2>2 DEF Transactions!Change
    <3>3. Atomic!Posted(op) = [Ledger EXCEPT ![source] = Wrap(Ledger[source] - amount)]
      BY <2>2, SameConstants DEF Atomic!Posted
    <3>4. after(source) = Wrap(Ledger[source] - amount)
      BY <1>1, <1>2, <1>4, <3>1
    <3>5. \A a \in Accounts : a # source => after(a) = Ledger[a]
      BY <1>3, <3>2
    <3> HIDE DEF after, source
    <3> QED
      BY <1>1, <1>2, <3>3, <3>4, <3>5
  <2>3. CASE op.type = "TRANSFER"
    <3>1. /\ Transactions!Change(op, source) = - amount
          /\ Transactions!Change(op, target) = amount
      BY <1>1, <2>3 DEF Transactions!Change
    <3>2. \A a \in Accounts : a # source /\ a # target => Transactions!Change(op, a) = 0
      BY <2>3 DEF Transactions!Change
    <3>3. Atomic!Posted(op) = [Ledger EXCEPT ![source] = Wrap(Ledger[source] - amount),
                                             ![target] = Wrap(Ledger[target] + amount)]
      BY <1>1, <2>3, SameConstants DEF Atomic!Posted, Ledger
    <3>4. /\ after(source) = Wrap(Ledger[source] - amount)
          /\ after(target) = Wrap(Ledger[target] + amount)
      BY <1>1, <1>2, <1>4, <3>1
    <3>5. \A a \in Accounts : a # source /\ a # target => after(a) = Ledger[a]
      BY <1>3, <3>2
    <3> HIDE DEF after, source, target
    <3> QED
      BY <1>1, <1>2, <2>3, <3>3, <3>4, <3>5
  <2>4. CASE op.type = "BALANCE"
    <3>1. \A a \in Accounts : Transactions!Change(op, a) = 0
      BY <2>4 DEF Transactions!Change
    <3>2. Atomic!Posted(op) = Ledger
      BY <2>4 DEF Atomic!Posted
    <3>3. \A a \in Accounts : after(a) = Ledger[a]
      BY <1>3, <3>1
    <3> HIDE DEF after
    <3> QED
      BY <1>2, <3>2, <3>3
  <2> QED
    BY <1>1, <2>1, <2>2, <2>3, <2>4 DEF OpTypes
<1> QED
  BY <1>5, SameInt32

\* The step that ends with a result that is no failure performs the operation,
\* and one that ends with a failure finds it impossible.
LEMMA EffectMeans ==
  ASSUME BankIInv, BankIInv', NEW t \in Txs, EffectStep(t), NEW op, op = current_op[t],
         OpAccounts(op) \subseteq Accounts
  PROVE  /\ OpFailed(t)' <=> ~Transactions!Succeeds(op)
         /\ OpFailed(t)' => Ledger' = Ledger
         /\ ~OpFailed(t)' =>
              Ledger' = [a \in Accounts |-> Transactions!Int32(Ledger[a] + Transactions!Change(op, a))]
<1>1. /\ op \in OperationType /\ op.type \in OpTypes /\ op.amount_centavos \in Int
      /\ op.account_id \in Accounts
      /\ op.type = "TRANSFER" => op.target_account \in Accounts
  <2>1. op \in OperationType
    BY OpFields DEF BankIInv
  <2> QED
    BY <2>1 DEF OperationType, OpAccounts
<1>2. Ledger \in [Accounts -> Int32Range] /\ Ledger[op.account_id] \in Int
  BY <1>1, LedgerRange, BankAssumption DEF Int32Range
<1>3. OpFailed(t)' <=> ~result'[t] \/ (op.type = "BALANCE" /\ seen'[t] < 0)
  BY WhatCallersSee DEF OpFailed
<1>4. CASE ~Atomic!Valid(op)
  <2>1. /\ op.type # "BALANCE"
        /\ op.amount_centavos < 0 \/ (op.type = "TRANSFER" /\ op.target_account = op.account_id)
    BY <1>1, <1>4 DEF Atomic!Valid
  <2>2. Ledger' = Ledger /\ (result'[t] <=> op.type = "DEPOSIT")
    BY <1>4, <2>1, WhatCallersSee
  <2>3. OpFailed(t)' <=> op.type # "DEPOSIT"
    BY <1>3, <2>1, <2>2
  <2>4. Transactions!Succeeds(op) <=> op.type = "DEPOSIT"
    BY <1>1, <2>1 DEF Transactions!Succeeds, Transactions!Sufficient, OpTypes
  <2>5. ASSUME op.type = "DEPOSIT"
        PROVE  Ledger = [a \in Accounts |-> Transactions!Int32(Ledger[a] + Transactions!Change(op, a))]
    <3>1. \A a \in Accounts : Transactions!Change(op, a) = 0
      BY <1>1, <2>1, <2>5 DEF Transactions!Change
    <3>2. \A a \in Accounts : Transactions!Int32(Ledger[a] + 0) = Ledger[a]
      <4> SUFFICES ASSUME NEW a \in Accounts PROVE Transactions!Int32(Ledger[a] + 0) = Ledger[a]
        OBVIOUS
      <4>1. Ledger[a] \in Int32Range /\ Ledger[a] + 0 = Ledger[a]
        BY <1>2, BankAssumption DEF Int32Range
      <4> QED
        BY <4>1, WrapRange, SameInt32
    <3> QED
      BY <1>2, <3>1, <3>2
  <2> QED
    BY <2>2, <2>3, <2>4, <2>5
<1>5. CASE Atomic!Valid(op)
  <2>1. /\ result'[t] <=> Atomic!Affordable(op)
        /\ Ledger' = IF Atomic!Affordable(op) THEN Atomic!Posted(op) ELSE Ledger
        /\ op.type = "BALANCE" => seen'[t] = Ledger[op.account_id]
    BY <1>5, WhatCallersSee
  <2>2. /\ op.type # "BALANCE" => op.amount_centavos >= 0
        /\ op.type = "TRANSFER" => op.target_account # op.account_id
    BY <1>5 DEF Atomic!Valid
  <2>3. OpFailed(t)' <=> ~Atomic!Affordable(op) \/ (op.type = "BALANCE" /\ Ledger[op.account_id] < 0)
    BY <1>3, <2>1
  <2>4. op.type = "BALANCE" => Atomic!Affordable(op) /\ Atomic!Posted(op) = Ledger
    BY DEF Atomic!Affordable, Atomic!Posted
  <2>5. Transactions!Succeeds(op) <=>
          Atomic!Affordable(op) /\ (op.type = "BALANCE" => Ledger[op.account_id] >= 0)
    BY <1>1, <1>2, <2>2 DEF Transactions!Succeeds, Transactions!Sufficient, Atomic!Affordable
  <2>6. OpFailed(t)' <=> ~Transactions!Succeeds(op)
    BY <1>2, <2>3, <2>5
  <2>7. OpFailed(t)' => Ledger' = Ledger
    BY <2>1, <2>3, <2>4
  <2>8. ~OpFailed(t)' => Ledger' = Atomic!Posted(op)
    BY <2>1, <2>3
  <2> QED
    BY <1>1, <1>5, <2>6, <2>7, <2>8, PostedIsChange
<1> QED
  BY <1>4, <1>5
--------------------------------------------------------------------------------
(***************************************************************************)
(* The steps of a thread.                                                  *)
(***************************************************************************)
LEMMA StageFacts ==
  ASSUME EveryIInv, NEW t \in Txs
  PROVE  /\ ThreadStage(t) /\ StatusStage(t) /\ RoomToLoad(t)
         /\ op_index[t] \in Nat \ {0} /\ Len(ops[t]) \in Nat /\ Len(ops[t]) <= MAX_OPS_PER_TX
         /\ MAX_OPS_PER_TX \in Nat
         /\ failed \in [Txs -> BOOLEAN]
         /\ op_index \in [Txs -> Nat \ {0}]
         /\ status \in [Txs -> {"RUNNING", "COMMITTED", "ABORTED"}]
         /\ clock_pc \in [Txs -> ClockLabels]
         /\ bank_pc \in [Txs -> BankLabels]
         /\ BankTypeOK /\ PoolShape /\ ProgramShape
<1>1. ProgramShape /\ PoolShape /\ BankTypeOK
  BY DEF EveryIInv, PoolIInv, BankIInv
<1>2. Len(ops[t]) \in 1..MAX_OPS_PER_TX /\ MAX_OPS_PER_TX \in Nat
  BY <1>1, OpsOfProgram, BankDBAssumption
<1> QED
  BY <1>1, <1>2 DEF EveryIInv, ProgramIInv, ProgramShape, BankTypeOK, BankLabels

\* The thread performs an operation, or it fails, with its last access to a balance.
LEMMA DecisiveStep ==
  ASSUME EveryIInv, EveryIInv', NEW t \in Txs, InBank(t), EffectStep(t)
  PROVE  Transactions!Perform(t) \/ Transactions!Fail(t)
<1>a. PICK op : op = current_op[t]
  OBVIOUS
<1>1. /\ BankIInv /\ BankIInv'
      /\ ops' = ops /\ \A u \in Txs : u # t => SameView(u)
  BY ViewFrame DEF EveryIInv, TxStep, Transaction
<1>2. /\ ~Finished(t) /\ Finished(t)'
      /\ UNCHANGED <<op_index, status, failed, clock_pc>>
  BY <1>1, <1>a, WhatCallersSee DEF InBank, txVars, timerVars
<1>3. /\ clock_pc[t] = "running" /\ failed[t] = FALSE /\ status[t] = "RUNNING" /\ MoreOps(t)
      /\ op = Op(t) /\ ToLoad(t) = {}
  <2>1. bank_pc[t] # "idle"
    BY <1>1, BankMoves DEF InBank, BankIInv
  <2> QED
    BY <1>a, <2>1, StageFacts DEF ThreadStage, StatusStage
<1>4. OpAccounts(op) \subseteq Accounts
  BY <1>3, HeldAccounts DEF EveryIInv, PoolIInv, ToLoad, Holds
<1>5. /\ Dones[t] = op_index[t] - 1 /\ Dones[t] < Len(ops[t])
      /\ Transactions!NextOp(t) = op
  BY <1>2, <1>3, NextOpIsOp
<1>6. /\ OpFailed(t)' <=> ~Transactions!Succeeds(op)
      /\ OpFailed(t)' => Ledger' = Ledger
      /\ ~OpFailed(t)' =>
           Ledger' = [a \in Accounts |-> Transactions!Int32(Ledger[a] + Transactions!Change(op, a))]
  BY <1>a, <1>1, <1>4, EffectMeans
<1>7. Verdicts[t] = "RUNNING"
  BY <1>2, <1>3 DEF Verdicts, Verdict
<1>8. CASE OpFailed(t)'
  <2>1. Verdicts'[t] = "ABORTED"
    BY <1>2, <1>8 DEF Verdicts, Verdict
  <2>2. Dones'[t] = Dones[t]
    BY <1>2, <1>8 DEF Dones
  <2>3. Dones' = Dones /\ Verdicts' = [Verdicts EXCEPT ![t] = "ABORTED"]
    BY <1>1, <2>1, <2>2, OneViewChanged
  <2>4. ~Transactions!Succeeds(Transactions!NextOp(t)) /\ Ledger' = Ledger
    BY <1>5, <1>6, <1>8
  <2> QED
    BY <1>1, <1>5, <1>7, <2>3, <2>4 DEF Transactions!Fail, Transactions!Decide
<1>9. CASE ~OpFailed(t)'
  <2>1. Verdicts'[t] = Verdicts[t]
    BY <1>2, <1>3, <1>9 DEF Verdicts, Verdict
  <2>2. Dones'[t] = op_index[t] - 0
    BY <1>2, <1>9 DEF Dones
  <2>3. Dones'[t] = Dones[t] + 1
    BY <1>5, <2>2, StageFacts
  <2>4. Verdicts' = Verdicts /\ Dones' = [Dones EXCEPT ![t] = Dones[t] + 1]
    BY <1>1, <2>1, <2>3, OneViewChanged
  <2>5. /\ Transactions!Succeeds(Transactions!NextOp(t))
        /\ Ledger' = [a \in Accounts |->
                        Transactions!Int32(Ledger[a] + Transactions!Change(Transactions!NextOp(t), a))]
    BY <1>5, <1>6, <1>9
  <2> QED
    BY <1>1, <1>5, <1>7, <2>4, <2>5 DEF Transactions!Perform
<1> QED
  BY <1>8, <1>9

\* The rest of a call of the bank is not noticed.
LEMMA QuietBank ==
  ASSUME EveryIInv, EveryIInv', NEW t \in Txs,
         \/ Execute(t)
         \/ TakeResult(t)
         \/ InBank(t) /\ ~EffectStep(t)
  PROVE  UNCHANGED Transactions!transactionVars
<1>1. /\ BankIInv /\ BankIInv'
      /\ ops' = ops /\ \A u \in Txs : u # t => SameView(u)
  BY ViewFrame DEF EveryIInv, TxStep, Transaction
<1>2. SUFFICES Ledger' = Ledger /\ Dones'[t] = Dones[t] /\ Verdicts'[t] = Verdicts[t]
  BY <1>1, OneViewChanged DEF Transactions!transactionVars
<1>3. CASE InBank(t) /\ ~EffectStep(t)
  <2>1. \/ Accept(t) \/ WriteLock(t) \/ ReadLock(t) \/ ReadForUpdate(t) \/ Debit(t)
        \/ ReadTarget(t) \/ Unlock(t)
    BY <1>3 DEF InBank, BankStep, EffectStep
  <2>2. Ledger' = Ledger
    BY <1>1, <2>1, HiddenStep DEF Atomic!atomicVars
  <2>3. UNCHANGED <<op_index, status, failed, clock_pc>>
    BY <1>3 DEF InBank, txVars, timerVars
  <2>4. /\ Finished(t)' <=> Finished(t)
        /\ Finished(t) => (OpFailed(t)' <=> OpFailed(t))
    <3>1. CASE Unlock(t)
      BY <3>1, StageFacts DEF Unlock, Proceed, Finished, OpFailed, OpType
    <3>2. CASE ~Unlock(t)
      BY <2>1, <3>2, StageFacts
         DEF Accept, WriteLock, ReadLock, ReadForUpdate, Debit, ReadTarget, Proceed, Finished
    <3> QED
      BY <3>1, <3>2
  <2>5. Dones'[t] = Dones[t]
    BY <2>3, <2>4 DEF Dones
  <2>6. Verdict(t)' = Verdict(t)
    BY <2>3, <2>4 DEF Verdict
  <2> QED
    BY <2>2, <2>5, <2>6 DEF Verdicts
<1>4. CASE Execute(t)
  <2>1. Ledger' = Ledger
    BY <1>1, <1>4, CallStep, OpsOfProgram, StageFacts DEF Execute, Atomic!Call
  <2>2. ~Finished(t) /\ ~Finished(t)' /\ UNCHANGED <<op_index, status, failed, clock_pc>>
    BY <1>4, StageFacts DEF Execute, CallBank, Proceed, Finished, txVars, timerVars
  <2>3. Dones'[t] = Dones[t]
    BY <2>2 DEF Dones
  <2>4. Verdict(t)' = Verdict(t)
    BY <2>2 DEF Verdict
  <2> QED
    BY <2>1, <2>3, <2>4 DEF Verdicts
<1>5. CASE TakeResult(t)
  <2>1. Ledger' = Ledger
    BY <1>1, <1>5, ReturnStep DEF TakeResult, Atomic!Return
  <2>2. /\ Finished(t) /\ ~Finished(t)' /\ UNCHANGED <<status, clock_pc>>
        /\ failed'[t] = OpFailed(t)
        /\ op_index'[t] = IF OpFailed(t) THEN op_index[t] ELSE op_index[t] + 1
    BY <1>5, StageFacts DEF TakeResult, ReturnBank, Proceed, Finished, timerVars
  <2>3. failed[t] = FALSE /\ clock_pc[t] = "running"
    BY <2>2, StageFacts DEF ThreadStage, Finished
  <2>4. Dones'[t] = op_index'[t] - 1
    BY <2>2 DEF Dones
  <2>5. Dones[t] = IF OpFailed(t) THEN op_index[t] - 1 ELSE op_index[t] - 0
    BY <2>2 DEF Dones
  <2>6. op_index[t] \in Nat
    BY StageFacts
  <2>7. Dones'[t] = Dones[t]
    BY <2>2, <2>4, <2>5, <2>6
  <2>8. Verdict(t)' = Verdict(t)
    BY <2>2, <2>3 DEF Verdict
  <2> QED
    BY <2>1, <2>7, <2>8 DEF Verdicts
<1> QED
  BY <1>3, <1>4, <1>5

\* What a thread does with the clock and the pool is not noticed.
LEMMA QuietThread ==
  ASSUME EveryIInv, NEW t \in Txs, Wait(t) \/ Spurious(t) \/ Begin(t) \/ LoadNext(t) \/ InPool(t)
  PROVE  UNCHANGED Transactions!transactionVars
<1>1. ops' = ops /\ \A u \in Txs : u # t => SameView(u)
  BY ViewFrame DEF TxStep, Transaction
<1>2. UNCHANGED bankVars /\ UNCHANGED <<op_index, failed>>
  BY DEF Wait, Spurious, Begin, LoadNext, InPool, txVars
<1>3. /\ status'[t] = status[t]
      /\ clock_pc'[t] = "new" <=> clock_pc[t] = "new"
  <2>1. CASE Wait(t) \/ Spurious(t)
    BY <2>1, StageFacts DEF Wait, Spurious, TestTick, SpuriousWakeup, MoveClock, txVars
  <2>2. CASE Begin(t)
    BY <2>2, StageFacts DEF Begin, RecordStart, MoveClock, StatusStage
  <2>3. CASE LoadNext(t) \/ InPool(t)
    BY <2>3 DEF LoadNext, InPool, txVars, timerVars
  <2> QED
    BY <2>1, <2>2, <2>3
<1>4. SameView(t)
  BY <1>1, <1>2, <1>3 DEF SameView, SameThread, bankVars
<1> QED
  BY <1>1, <1>2, <1>4, AllViewsKept, QuietLedger DEF Transactions!transactionVars

\* A thread ends with the verdict that its operations led to.
LEMMA EndStep ==
  ASSUME EveryIInv, NEW t \in Txs, Commit(t) \/ Abort(t)
  PROVE  Transactions!Complete(t) \/ Transactions!Fail(t) \/ UNCHANGED Transactions!transactionVars
<1>1. ops' = ops /\ \A u \in Txs : u # t => SameView(u)
  BY ViewFrame DEF TxStep, Transaction
<1>2. /\ UNCHANGED bankVars /\ UNCHANGED <<op_index, failed>>
      /\ clock_pc[t] = "running" /\ clock_pc'[t] = "ended"
      /\ bank_pc[t] = "idle" /\ bank_pc'[t] = "idle"
  <2>1. /\ UNCHANGED bankVars /\ UNCHANGED <<op_index, failed>>
        /\ clock_pc[t] = "running" /\ clock_pc'[t] = "ended"
    BY StageFacts DEF Commit, Abort, RecordEnd, MoveClock
  <2>2. bank_pc[t] = "idle"
    BY StageFacts DEF Commit, Abort, InLoop, ThreadStage
  <2> QED
    BY <2>1, <2>2 DEF bankVars
<1>3. ~Finished(t) /\ ~Finished(t)'
  BY <1>2 DEF Finished
<1>4. Ledger' = Ledger
  BY <1>2, QuietLedger
<1>5. Dones'[t] = Dones[t] /\ Dones[t] = op_index[t] - 1
  BY <1>2, <1>3, StageFacts DEF Dones
<1>6. Dones' = Dones /\ Verdicts' = [Verdicts EXCEPT ![t] = Verdicts'[t]]
  BY <1>1, <1>5, OneViewChanged
<1>7. status[t] = "RUNNING"
  BY <1>2, StageFacts DEF StatusStage
<1>8. CASE Commit(t)
  <2>1. failed[t] = FALSE /\ ~MoreOps(t) /\ status'[t] = "COMMITTED"
    BY <1>8, StageFacts DEF Commit, InLoop
  <2>2. Verdicts[t] = "RUNNING" /\ Verdicts'[t] = "COMMITTED"
    BY <1>2, <1>3, <1>7, <2>1 DEF Verdicts, Verdict
  <2>3. Dones[t] = Len(ops[t])
    BY <1>2, <1>5, <2>1, StageFacts DEF RoomToLoad, MoreOps
  <2> QED
    BY <1>1, <1>4, <1>6, <2>2, <2>3 DEF Transactions!Complete, Transactions!Decide
<1>9. CASE Abort(t) /\ failed[t]
  <2>1. Verdicts'[t] = Verdicts[t]
    BY <1>2, <1>9 DEF Verdicts, Verdict
  <2> QED
    BY <1>1, <1>4, <1>6, <2>1, OneViewChanged DEF Transactions!transactionVars
<1>10. CASE Abort(t) /\ ~failed[t]
  <2>1. MoreOps(t) /\ ToLoad(t) # {} /\ ~Loadable(t) /\ status'[t] = "ABORTED"
    BY <1>10, StageFacts DEF Abort
  <2>2. Verdicts[t] = "RUNNING" /\ Verdicts'[t] = "ABORTED"
    BY <1>2, <1>3, <1>7, <1>10, <2>1 DEF Verdicts, Verdict
  <2>3. Len(loaded_accounts[t]) < MAX_LOADED_ACCOUNTS_PER_TX
    <3>1. Len(loaded_accounts[t]) <= 2 * (op_index[t] - 1) + 1
      BY <1>2, <2>1, StageFacts DEF RoomToLoad
    <3>2. op_index[t] <= MAX_OPS_PER_TX
      BY <2>1, StageFacts DEF MoreOps
    <3>3. Len(loaded_accounts[t]) \in Nat
      BY StageFacts, Counters
    <3> QED
      BY <3>1, <3>2, <3>3, StageFacts DEF MAX_LOADED_ACCOUNTS_PER_TX
  <2>4. NextToLoad(t) \in OpAccounts(Op(t)) /\ NextToLoad(t) \notin Accounts
    BY <2>1, <2>3 DEF Loadable, NextToLoad, ToLoad, OpAccounts
  <2>5. ~Transactions!Succeeds(Op(t))
    BY <2>4 DEF OpAccounts, Transactions!Succeeds
  <2>6. Dones[t] < Len(ops[t]) /\ Transactions!NextOp(t) = Op(t)
    BY <1>3, <2>1, NextOpIsOp
  <2> QED
    BY <1>1, <1>4, <1>6, <2>2, <2>5, <2>6 DEF Transactions!Fail, Transactions!Decide
<1> QED
  BY <1>8, <1>9, <1>10
--------------------------------------------------------------------------------
(***************************************************************************)
(* main, the timer thread, and the theorem.                                *)
(***************************************************************************)

\* The creation of its thread starts a transaction or turns it away.
LEMMA CreationStep ==
  ASSUME EveryIInv, NEW t \in Txs, CreateThread(t)
  PROVE  Transactions!Start(t) \/ Transactions!TurnAway(t)
<1>1. UNCHANGED <<ops, op_index, failed>> /\ UNCHANGED bankVars
  BY DEF CreateThread
<1>2. /\ \A u \in Txs : u # t => clock_pc'[u] = clock_pc[u] /\ status'[u] = status[u]
      /\ \/ clock_pc'[t] = "awake" /\ status'[t] = status[t]
         \/ clock_pc'[t] = clock_pc[t] /\ status'[t] = "ABORTED"
  BY StageFacts DEF CreateThread, EnterWait, MoveClock, timerVars
<1>3. clock_pc[t] = "new" /\ status[t] = "RUNNING"
  <2>1. main_index = t /\ main_pc = "create" /\ MainStage
    BY DEF CreateThread, LoopTo, MainGoTo, EveryIInv, ProgramIInv
  <2>2. t \in Int
    BY BankTypesAssumption, FS_CardinalityType, BankDBAssumption
  <2> QED
    BY <2>1, <2>2 DEF MainStage
<1>4. ~failed[t] /\ ~Finished(t) /\ ~Finished(t)'
  BY <1>1, <1>3, StageFacts DEF ThreadStage, Finished, bankVars
<1>5. \A u \in Txs : u # t => SameView(u)
  BY <1>1, <1>2 DEF SameView, SameThread, bankVars
<1>6. Dones'[t] = Dones[t]
  BY <1>1, <1>4 DEF Dones
<1>7. Dones' = Dones /\ Verdicts' = [Verdicts EXCEPT ![t] = Verdicts'[t]]
  BY <1>5, <1>6, OneViewChanged
<1>8. Verdicts[t] = "WAITING"
  BY <1>3, <1>4 DEF Verdicts, Verdict
<1>9. Verdicts'[t] \in {"RUNNING", "ABORTED"}
  BY <1>1, <1>2, <1>3, <1>4 DEF Verdicts, Verdict
<1> QED
  BY <1>1, <1>7, <1>8, <1>9, QuietLedger
     DEF Transactions!Start, Transactions!TurnAway, Transactions!Decide

LEMMA BystanderStep ==
  ASSUME EveryIInv, Bystander
  PROVE  UNCHANGED Transactions!transactionVars
<1>1. /\ ops' = ops /\ UNCHANGED bankVars
  BY DEF Bystander, Clock, CreateTimer, CreateTimerFails, Stop, JoinTimer, Report, Cleanup, JoinThread,
         vars, txVars
<1>2. \A u \in Txs : Wakes(u)
  BY BystanderWakes DEF EveryIInv
<1>3. \A u \in Txs : SameView(u)
  BY <1>1, <1>2 DEF SameView, SameThread, Wakes, bankVars
<1> QED
  BY <1>1, <1>3, AllViewsKept, QuietLedger DEF Transactions!transactionVars

LEMMA TransactionsInitially == Init => Transactions!Init
<1> SUFFICES ASSUME Init PROVE Transactions!Init
  OBVIOUS
<1>1. Ledger \in [Accounts -> InitialBalances]
  BY AtomicInitially DEF Init, Atomic!Init
<1>2. \A t \in Txs : /\ bank_pc[t] = "idle" /\ op_index[t] = 1 /\ failed[t] = FALSE
                     /\ clock_pc[t] = "new" /\ status[t] = "RUNNING"
  BY DEF Init, BankInit, TimerInit
<1>3. Dones = [t \in Txs |-> 0]
  BY <1>2 DEF Dones, Finished
<1>4. Verdicts = [t \in Txs |-> "WAITING"]
  BY <1>2 DEF Verdicts, Verdict, Finished
<1> QED
  BY <1>1, <1>3, <1>4 DEF Init, Transactions!Init

LEMMA TransactionsStep ==
  ASSUME EveryIInv, EveryIInv', [Next]_vars
  PROVE  [Transactions!Next]_(Transactions!transactionVars)
<1>1. ASSUME NEW t \in Txs, TxStep(t)
      PROVE  Transactions!Next \/ UNCHANGED Transactions!transactionVars
  <2>1. CASE InBank(t) /\ EffectStep(t)
    BY <2>1, DecisiveStep DEF Transactions!Next
  <2>2. CASE Execute(t) \/ TakeResult(t) \/ (InBank(t) /\ ~EffectStep(t))
    BY <2>2, QuietBank
  <2>3. CASE Wait(t) \/ Spurious(t) \/ Begin(t) \/ LoadNext(t) \/ InPool(t)
    BY <2>3, QuietThread
  <2>4. CASE Commit(t) \/ Abort(t)
    BY <2>4, EndStep DEF Transactions!Next
  <2> QED
    BY <1>1, <2>1, <2>2, <2>3, <2>4 DEF TxStep, Transaction
<1>2. ASSUME NEW t \in Txs, CreateThread(t) PROVE Transactions!Next
  BY <1>2, CreationStep DEF Transactions!Next
<1>3. CASE Bystander
  BY <1>3, BystanderStep
<1> QED
  BY <1>1, <1>2, <1>3 DEF Next, Main, Terminated, TxStep, Bystander

\* Whatever the interleaving of clock, pool, locks and main, the transactions of
\* a trace run as sequences of atomic operations: each in its own order and up to
\* its first failure, committed exactly when all its operations took effect.
THEOREM ProgramRunsTransactions == SafeSpec => ImplementsTransactions
<1>1. EveryIInv /\ EveryIInv' /\ [Next]_vars => [Transactions!Next]_(Transactions!transactionVars)
  BY TransactionsStep
<1> QED
  BY <1>1, TransactionsInitially, EveryInvariance, PTL DEF SafeSpec, ImplementsTransactions, Transactions!Spec
================================================================================
