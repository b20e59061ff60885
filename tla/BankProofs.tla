------------------------------ MODULE BankProofs -------------------------------
(***************************************************************************)
(* Proofs about Bank, for any number of threads, accounts and operations   *)
(* and any width of int.                                                   *)
(***************************************************************************)
EXTENDS Bank, FiniteSetTheorems, WellFoundedInduction, TLAPS

BankLabels == {"idle", "enter", "wrlock", "rdlock", "read", "write", "read_target", "credit",
               "unlock", "returned"}

\* Where a thread has all the locks of its operation.
AccessLabels == {"read", "write", "read_target", "credit"}

Int32Range == -(INT_MAX + 1)..INT_MAX

\* Wrapping yields an int and leaves an int alone.
LEMMA WrapRange ==
  /\ \A n \in Int : Wrap(n) \in Int32Range
  /\ \A n \in Int32Range : Wrap(n) = n
BY BankAssumption DEF Wrap, Int32Range

\* What is in lists of up to two locks.
Listed(s) == {s[i] : i \in 1..Len(s)}

LEMMA ShortLists ==
  ASSUME NEW x, NEW y
  PROVE  /\ Head(<<x>>) = x /\ Tail(<<x>>) = <<>>
         /\ Head(<<x, y>>) = x /\ Tail(<<x, y>>) = <<y>>
         /\ <<x>> # <<>> /\ <<x, y>> # <<>> /\ <<x, y>> # <<y>>
         /\ Listed(<<>>) = {} /\ Listed(<<x>>) = {x} /\ Listed(<<x, y>>) = {x, y}
<1>1. /\ Head(<<x>>) = x /\ Tail(<<x>>) = <<>>
      /\ Head(<<x, y>>) = x /\ Tail(<<x, y>>) = <<y>>
      /\ <<x>> # <<>> /\ <<x, y>> # <<>> /\ <<x, y>> # <<y>>
  OBVIOUS
<1>2. Listed(<<>>) = {}
  BY DEF Listed
<1>3. Listed(<<x>>) = {x}
  BY DEF Listed
<1>4. Listed(<<x, y>>) = {x, y}
  BY DEF Listed
<1> QED
  BY <1>1, <1>2, <1>3, <1>4

\* The fields of an operation a thread is working on.
LEMMA OpFields ==
  ASSUME BankTypeOK, NEW t \in Txs
  PROVE  /\ current_op[t] \in OperationType
         /\ OpType(t) \in OpTypes
         /\ Account(t) \in Int /\ Amount(t) \in Int /\ Target(t) \in Int
<1>1. NoOp \in OperationType
  BY DEF NoOp, OperationType, OpTypes, NoAccount
<1>2. current_op[t] \in OperationType
  BY <1>1, BankAssumption DEF BankTypeOK
<1> QED
  BY <1>2 DEF OperationType, OpType, Account, Amount, Target

\* An operation that passed the argument checks.
LEMMA AcceptedOp ==
  ASSUME NEW op \in OperationType, ~Refused(op)
  PROVE  /\ op.account_id \in Accounts
         /\ op.type # "BALANCE" => op.amount_centavos \in Nat
         /\ op.type = "TRANSFER" => /\ op.target_account \in Accounts
                                    /\ op.target_account # op.account_id
BY DEF Refused, OperationType
--------------------------------------------------------------------------------
(***************************************************************************)
(* The inductive invariant.  A thread's place in its operation and its     *)
(* list of locks say which locks it holds; the lock table agrees with      *)
(* them; a lock held for writing is held by one thread only.               *)
(***************************************************************************)
Named(op) == IF op.type = "TRANSFER" THEN {op.account_id, op.target_account} ELSE {op.account_id}

Lower(op)  == IF op.account_id < op.target_account THEN op.account_id ELSE op.target_account
Higher(op) == IF op.account_id < op.target_account THEN op.target_account ELSE op.account_id

Held(t) ==
  IF bank_pc[t] \in AccessLabels THEN Named(current_op[t])
  ELSE IF bank_pc[t] = "wrlock" THEN Named(current_op[t]) \ Listed(pending[t])
  ELSE IF bank_pc[t] = "unlock" THEN Listed(pending[t])
  ELSE {}

\* Where a thread can be, with which operation and which list of locks.
ThreadShape(t) ==
  /\ bank_pc[t] \notin {"idle", "enter", "returned"} => ~Refused(current_op[t])
  /\ bank_pc[t] = "rdlock" => OpType(t) = "BALANCE"
  /\ bank_pc[t] \in {"wrlock", "write"} => OpType(t) # "BALANCE"
  /\ bank_pc[t] \in {"read_target", "credit"} => OpType(t) = "TRANSFER"
  /\ bank_pc[t] = "write" => Covers(seen[t], current_op[t])
  /\ bank_pc[t] = "wrlock" =>
       \/ pending[t] = LockOrder(current_op[t])
       \/ OpType(t) = "TRANSFER" /\ pending[t] = <<Higher(current_op[t])>>
  /\ bank_pc[t] = "rdlock" => pending[t] = <<Account(t)>>
  /\ bank_pc[t] = "unlock" =>
       \/ pending[t] = UnlockOrder(current_op[t])
       \/ OpType(t) = "TRANSFER" /\ pending[t] = <<Target(t)>>
  /\ bank_pc[t] \notin {"wrlock", "rdlock", "unlock"} => pending[t] = <<>>

LockTable ==
  \A t \in Txs, a \in Accounts :
    /\ t \in writers[a] <=> a \in Held(t) /\ OpType(t) # "BALANCE"
    /\ t \in readers[a] <=> a \in Held(t) /\ OpType(t) = "BALANCE"

Exclusive ==
  \A a \in Accounts : \A t \in writers[a] : \A u \in writers[a] \cup readers[a] : u = t

\* Between the debit and the credit of a transfer the money can be put back.
DebitUndoable ==
  \A t \in Txs : bank_pc[t] \in {"read_target", "credit"} =>
    /\ balance[Account(t)] >= 0
    /\ balance[Account(t)] + Amount(t) <= INT_MAX

BankIInv ==
  /\ BankTypeOK
  /\ \A t \in Txs : ThreadShape(t)
  /\ LockTable
  /\ Exclusive
  /\ NoLostUpdate
  /\ DebitUndoable

LEMMA BankInitially == BankInit => BankIInv
<1> SUFFICES ASSUME BankInit PROVE BankIInv
  OBVIOUS
<1>1. /\ InitialBalances \subseteq Int32Range
      /\ <<>> \in Seq(Accounts)
  BY BankAssumption DEF Int32Range
<1>2. BankTypeOK
  <2>1. balance \in [Accounts -> -(INT_MAX + 1)..INT_MAX]
    BY <1>1 DEF BankInit, Int32Range
  <2>2. pending \in [Txs -> Seq(Accounts)]
    BY <1>1 DEF BankInit
  <2>3. /\ writers \in [Accounts -> SUBSET Txs]
        /\ readers \in [Accounts -> SUBSET Txs]
    BY DEF BankInit
  <2>4. bank_pc \in [Txs -> BankLabels]
    BY DEF BankInit, BankLabels
  <2>5. /\ current_op \in [Txs -> Operations \cup {NoOp}]
        /\ seen \in [Txs -> Int]
        /\ result \in [Txs -> BOOLEAN]
    BY DEF BankInit
  <2> QED
    BY <2>1, <2>2, <2>3, <2>4, <2>5 DEF BankTypeOK, BankLabels
<1>3. \A t \in Txs : bank_pc[t] = "idle" /\ pending[t] = <<>>
  BY DEF BankInit
<1>4. \A t \in Txs : ThreadShape(t) /\ Held(t) = {}
  BY <1>3 DEF ThreadShape, Held, AccessLabels
<1>5. LockTable /\ Exclusive
  BY <1>4 DEF BankInit, LockTable, Exclusive
<1> QED
  BY <1>2, <1>3, <1>4, <1>5 DEF BankIInv, NoLostUpdate, DebitUndoable
--------------------------------------------------------------------------------
(***************************************************************************)
(* Types and thread shapes, step by step.                                  *)
(***************************************************************************)

\* The lists of locks of an accepted operation.
LEMMA OrderShapes ==
  ASSUME NEW op \in OperationType, ~Refused(op)
  PROVE  /\ LockOrder(op) \in Seq(Accounts) /\ UnlockOrder(op) \in Seq(Accounts)
         /\ op.type # "TRANSFER" => /\ LockOrder(op) = <<op.account_id>>
                                    /\ UnlockOrder(op) = <<op.account_id>>
         /\ op.type = "TRANSFER" => /\ LockOrder(op) = <<Lower(op), Higher(op)>>
                                    /\ UnlockOrder(op) = <<op.account_id, op.target_account>>
                                    /\ Lower(op) \in Accounts /\ Higher(op) \in Accounts
                                    /\ Lower(op) < Higher(op)
                                    /\ Lower(op) # Higher(op)
                                    /\ Named(op) = {Lower(op), Higher(op)}
<1>1. /\ op.account_id \in Accounts /\ op.account_id \in Int
      /\ op.type = "TRANSFER" => /\ op.target_account \in Accounts
                                 /\ op.target_account \in Int
                                 /\ op.target_account # op.account_id
  BY AcceptedOp, BankTypesAssumption DEF OperationType
<1>2. CASE op.type # "TRANSFER"
  BY <1>1, <1>2 DEF LockOrder, UnlockOrder
<1>3. CASE op.type = "TRANSFER"
  <2>1. CASE op.account_id < op.target_account
    BY <1>1, <1>3, <2>1 DEF LockOrder, UnlockOrder, Lower, Higher, Named
  <2>2. CASE ~ (op.account_id < op.target_account)
    BY <1>1, <1>3, <2>2 DEF LockOrder, UnlockOrder, Lower, Higher, Named
  <2> QED
    BY <2>1, <2>2
<1> QED
  BY <1>2, <1>3

\* The lists of locks a thread works through.
OneLock(t) == \E x \in Accounts : pending[t] = <<x>>

TwoLocks(t) ==
  /\ OpType(t) = "TRANSFER"
  /\ bank_pc[t] # "rdlock"
  /\ \E x, y \in Accounts : /\ pending[t] = <<x, y>>
                            /\ x # y
                            /\ bank_pc[t] = "wrlock" => y = Higher(current_op[t])
                            /\ bank_pc[t] = "unlock" => y = Target(t)

LEMMA ListShape ==
  ASSUME BankTypeOK, NEW t \in Txs, ThreadShape(t), bank_pc[t] \in {"wrlock", "rdlock", "unlock"}
  PROVE  OneLock(t) \/ TwoLocks(t)
<1> DEFINE op == current_op[t]
<1>1. op \in OperationType /\ ~Refused(op)
  BY OpFields DEF ThreadShape
<1>2. /\ op.account_id \in Accounts
      /\ op.type = "TRANSFER" => /\ op.target_account \in Accounts
                                 /\ op.target_account # op.account_id
  BY <1>1, AcceptedOp
<1>3. OpType(t) = op.type /\ Account(t) = op.account_id /\ Target(t) = op.target_account
  BY DEF OpType, Account, Target
<1>4. /\ op.type # "TRANSFER" => /\ LockOrder(op) = <<op.account_id>>
                                 /\ UnlockOrder(op) = <<op.account_id>>
      /\ op.type = "TRANSFER" => /\ LockOrder(op) = <<Lower(op), Higher(op)>>
                                 /\ UnlockOrder(op) = <<op.account_id, op.target_account>>
                                 /\ Lower(op) \in Accounts /\ Higher(op) \in Accounts
                                 /\ Lower(op) # Higher(op)
  <2> HIDE DEF op
  <2> QED
    BY <1>1, OrderShapes
<1> HIDE DEF op
<1>5. CASE bank_pc[t] = "rdlock"
  BY <1>2, <1>3, <1>5 DEF ThreadShape, OneLock
<1>6. CASE bank_pc[t] = "wrlock"
  <2>1. \/ pending[t] = LockOrder(op)
        \/ op.type = "TRANSFER" /\ pending[t] = <<Higher(op)>>
    BY <1>3, <1>6 DEF ThreadShape, op
  <2>2. CASE op.type = "TRANSFER" /\ pending[t] = <<Higher(op)>>
    BY <1>4, <2>2 DEF OneLock
  <2>3. CASE op.type = "TRANSFER" /\ pending[t] = LockOrder(op)
    BY <1>3, <1>4, <1>6, <2>3 DEF TwoLocks, op
  <2>4. CASE op.type # "TRANSFER"
    BY <1>2, <1>4, <2>1, <2>4 DEF OneLock
  <2> QED
    BY <2>1, <2>2, <2>3, <2>4
<1>7. CASE bank_pc[t] = "unlock"
  <2>1. \/ pending[t] = UnlockOrder(op)
        \/ op.type = "TRANSFER" /\ pending[t] = <<op.target_account>>
    BY <1>3, <1>7 DEF ThreadShape, op
  <2>2. CASE op.type = "TRANSFER" /\ pending[t] = <<op.target_account>>
    BY <1>2, <2>2 DEF OneLock
  <2>3. CASE op.type = "TRANSFER" /\ pending[t] = UnlockOrder(op)
    BY <1>2, <1>3, <1>4, <1>7, <2>3 DEF TwoLocks
  <2>4. CASE op.type # "TRANSFER"
    BY <1>2, <1>4, <2>1, <2>4 DEF OneLock
  <2> QED
    BY <2>1, <2>2, <2>3, <2>4
<1> QED
  BY <1>5, <1>6, <1>7

\* The first lock of a list, and what is left of the list after it.
LEMMA ListHead ==
  ASSUME BankTypeOK, NEW t \in Txs, ThreadShape(t), bank_pc[t] \in {"wrlock", "rdlock", "unlock"}
  PROVE  /\ Head(pending[t]) \in Accounts
         /\ Tail(pending[t]) \in Seq(Accounts)
         /\ Head(pending[t]) \in Listed(pending[t])
         /\ Listed(Tail(pending[t])) = Listed(pending[t]) \ {Head(pending[t])}
         /\ bank_pc[t] = "rdlock" => Tail(pending[t]) = <<>>
<1>1. CASE OneLock(t)
  <2>1. PICK x \in Accounts : pending[t] = <<x>>
    BY <1>1 DEF OneLock
  <2>2. /\ Head(pending[t]) = x /\ Tail(pending[t]) = <<>>
        /\ Listed(Tail(pending[t])) = {} /\ Listed(pending[t]) = {x}
    BY <2>1, ShortLists
  <2>3. {} = {x} \ {x} /\ <<>> \in Seq(Accounts)
    OBVIOUS
  <2> QED
    BY <2>2, <2>3
<1>2. CASE TwoLocks(t)
  <2>1. PICK x \in Accounts, y \in Accounts : pending[t] = <<x, y>> /\ x # y
    BY <1>2 DEF TwoLocks
  <2>2. /\ Head(<<x, y>>) = x /\ Tail(<<x, y>>) = <<y>>
        /\ Listed(<<y>>) = {y} /\ Listed(<<x, y>>) = {x, y}
    BY ShortLists
  <2>3. <<y>> \in Seq(Accounts)
    OBVIOUS
  <2>4. /\ Head(pending[t]) = x /\ Tail(pending[t]) = <<y>>
        /\ Listed(Tail(pending[t])) = {y} /\ Listed(pending[t]) = {x, y}
    BY <2>1, <2>2
  <2>5. {y} = {x, y} \ {x}
    BY <2>1
  <2>6. bank_pc[t] # "rdlock"
    BY <1>2 DEF TwoLocks
  <2> QED
    BY <2>3, <2>4, <2>5, <2>6
<1> QED
  BY <1>1, <1>2, ListShape

\* A step that is another thread's.
SameThread(t) ==
  /\ bank_pc'[t] = bank_pc[t] /\ current_op'[t] = current_op[t]
  /\ pending'[t] = pending[t] /\ seen'[t] = seen[t] /\ result'[t] = result[t]

LEMMA SameShape ==
  ASSUME NEW t \in Txs, SameThread(t), ThreadShape(t)
  PROVE  ThreadShape(t)' /\ Held(t)' = Held(t) /\ OpType(t)' = OpType(t)
<1>1. Held(t)' = Held(t) /\ OpType(t)' = OpType(t)
  BY DEF SameThread, Held, OpType
<1>2. ThreadShape(t)'
  BY DEF SameThread, ThreadShape, OpType, Account, Target
<1> QED
  BY <1>1, <1>2

\* Every step of a thread keeps the types and leaves the other threads alone.
ThreadStep(t) == BankStep(t) \/ (\E op \in Operations : CallBank(t, op)) \/ ReturnBank(t)

LEMMA StepTypes ==
  ASSUME BankTypeOK, NEW t \in Txs, ThreadShape(t), ThreadStep(t)
  PROVE  BankTypeOK' /\ \A u \in Txs : u # t => SameThread(u)
<1> DEFINE Balances == [Accounts -> Int32Range]
           PcType   == [Txs -> BankLabels]
           ListType == [Txs -> Seq(Accounts)]
<1>1. /\ balance \in Balances
      /\ writers \in [Accounts -> SUBSET Txs] /\ readers \in [Accounts -> SUBSET Txs]
      /\ bank_pc \in PcType
      /\ current_op \in [Txs -> Operations \cup {NoOp}]
      /\ pending \in ListType
      /\ seen \in [Txs -> Int] /\ result \in [Txs -> BOOLEAN]
  BY DEF BankTypeOK, Int32Range, BankLabels
<1>2. Account(t) \in Int /\ Amount(t) \in Int /\ Target(t) \in Int /\ current_op[t] \in OperationType
  BY OpFields
<1>3. \A a \in Accounts : balance[a] \in Int
  BY <1>1, BankAssumption DEF Int32Range
<1>4. ~Refused(current_op[t]) => /\ LockOrder(current_op[t]) \in Seq(Accounts)
                                 /\ UnlockOrder(current_op[t]) \in Seq(Accounts)
                                 /\ Account(t) \in Accounts
                                 /\ OpType(t) = "TRANSFER" => Target(t) \in Accounts
  BY <1>2, OrderShapes, AcceptedOp DEF Account, OpType, Target
<1>5. bank_pc[t] \in {"wrlock", "rdlock", "unlock"} => Tail(pending[t]) \in Seq(Accounts)
  BY ListHead
<1>6. bank_pc[t] \notin {"idle", "enter", "returned"} => ~Refused(current_op[t])
  BY DEF ThreadShape
<1>7. bank_pc[t] \in {"read_target", "credit"} => OpType(t) = "TRANSFER"
  BY DEF ThreadShape
<1>8. SUFFICES /\ balance' \in Balances
               /\ writers' \in [Accounts -> SUBSET Txs] /\ readers' \in [Accounts -> SUBSET Txs]
               /\ bank_pc' \in PcType
               /\ current_op' \in [Txs -> Operations \cup {NoOp}]
               /\ pending' \in ListType
               /\ seen' \in [Txs -> Int] /\ result' \in [Txs -> BOOLEAN]
               /\ \A u \in Txs : u # t => SameThread(u)
  BY DEF BankTypeOK, Int32Range, BankLabels
<1>9. ASSUME NEW op \in Operations, CallBank(t, op) PROVE <1>8!1
  BY <1>1, <1>9 DEF CallBank, Proceed, BankLabels, SameThread
<1>10. CASE Refuse(t)
  BY <1>1, <1>10 DEF Refuse, Proceed, RefusedResult, BankLabels, SameThread
<1>11. CASE Accept(t)
  BY <1>1, <1>4, <1>11 DEF Accept, Proceed, BankLabels, SameThread
<1>12. CASE WriteLock(t)
  BY <1>1, <1>5, <1>12 DEF WriteLock, Proceed, BankLabels, SameThread
<1>13. CASE ReadLock(t)
  BY <1>1, <1>5, <1>13 DEF ReadLock, Proceed, BankLabels, SameThread
<1>14. CASE ReadBalance(t)
  BY <1>1, <1>3, <1>4, <1>6, <1>14 DEF ReadBalance, StartUnlock, Proceed, BankLabels, SameThread
<1>15. CASE InsufficientFunds(t)
  BY <1>1, <1>3, <1>4, <1>6, <1>15
     DEF InsufficientFunds, StartUnlock, Proceed, BankLabels, SameThread
<1>16. CASE ReadForUpdate(t)
  BY <1>1, <1>3, <1>4, <1>6, <1>16 DEF ReadForUpdate, Proceed, BankLabels, SameThread
<1>17. CASE WriteBalance(t)
  <2> DEFINE new == IF OpType(t) = "DEPOSIT" THEN seen[t] + Amount(t) ELSE seen[t] - Amount(t)
  <2>1. Wrap(new) \in Int32Range
    BY <1>1, <1>2, WrapRange
  <2>2. balance' = [balance EXCEPT ![Account(t)] = Wrap(new)]
    BY <1>17 DEF WriteBalance
  <2> HIDE DEF new
  <2> QED
    BY <1>1, <1>4, <1>6, <1>17, <2>1, <2>2
       DEF WriteBalance, StartUnlock, Proceed, BankLabels, SameThread
<1>18. CASE Debit(t)
  <2>1. Wrap(seen[t] - Amount(t)) \in Int32Range
    BY <1>1, <1>2, WrapRange
  <2> QED
    BY <1>1, <1>18, <2>1 DEF Debit, Proceed, BankLabels, SameThread
<1>19. CASE ReadTarget(t)
  BY <1>1, <1>3, <1>4, <1>6, <1>7, <1>19 DEF ReadTarget, Proceed, BankLabels, SameThread
<1>20. CASE Credit(t)
  <2>1. Wrap(seen[t] + Amount(t)) \in Int32Range
    BY <1>1, <1>2, WrapRange
  <2> QED
    BY <1>1, <1>4, <1>6, <1>20, <2>1 DEF Credit, StartUnlock, Proceed, BankLabels, SameThread
<1>21. CASE Unlock(t)
  BY <1>1, <1>5, <1>21 DEF Unlock, Proceed, BankLabels, SameThread
<1>22. CASE ReturnBank(t)
  BY <1>1, <1>22 DEF ReturnBank, Proceed, BankLabels, SameThread
<1> QED
  BY <1>9, <1>10, <1>11, <1>12, <1>13, <1>14, <1>15, <1>16, <1>17, <1>18, <1>19, <1>20, <1>21,
     <1>22 DEF ThreadStep, BankStep

\* Where a step leaves its own thread.
LEMMA StepShape ==
  ASSUME BankTypeOK, NEW t \in Txs, ThreadShape(t), ThreadStep(t)
  PROVE  ThreadShape(t)'
<1> DEFINE op == current_op[t]
<1>1. /\ bank_pc \in [Txs -> BankLabels]
      /\ current_op \in [Txs -> Operations \cup {NoOp}]
      /\ pending \in [Txs -> Seq(Accounts)]
      /\ seen \in [Txs -> Int]
  BY DEF BankTypeOK, BankLabels
<1>2. ~Refused(op) => /\ OpType(t) # "TRANSFER" => LockOrder(op) = <<Account(t)>>
  BY OpFields, OrderShapes DEF Account, OpType
<1>3. CASE \E new \in Operations : CallBank(t, new)
  <2>1. bank_pc'[t] = "enter" /\ pending'[t] = <<>>
    BY <1>1, <1>3 DEF CallBank, Proceed, ThreadShape
  <2> QED
    BY <2>1 DEF ThreadShape
<1>4. CASE Refuse(t) \/ ReturnBank(t)
  <2>1. bank_pc'[t] \in {"idle", "returned"} /\ pending'[t] = <<>>
    BY <1>1, <1>4 DEF Refuse, ReturnBank, Proceed, ThreadShape
  <2> QED
    BY <2>1 DEF ThreadShape
<1>5. CASE Accept(t)
  <2>1. /\ bank_pc'[t] = IF OpType(t) = "BALANCE" THEN "rdlock" ELSE "wrlock"
        /\ pending'[t] = LockOrder(op) /\ current_op'[t] = op
        /\ ~Refused(op)
    BY <1>1, <1>5 DEF Accept, Proceed
  <2> QED
    BY <1>2, <2>1 DEF ThreadShape, OpType, Account
<1>6. CASE WriteLock(t)
  <2>1. /\ bank_pc[t] = "wrlock" /\ ~Refused(op) /\ OpType(t) # "BALANCE"
        /\ bank_pc'[t] = IF Tail(pending[t]) = <<>> THEN "read" ELSE "wrlock"
        /\ pending'[t] = Tail(pending[t]) /\ current_op'[t] = op
    BY <1>1, <1>6 DEF WriteLock, Proceed, ThreadShape
  <2>2. CASE OneLock(t)
    <3>1. Tail(pending[t]) = <<>>
      BY <2>2, ShortLists DEF OneLock
    <3> QED
      BY <2>1, <3>1 DEF ThreadShape
  <2>3. CASE TwoLocks(t)
    <3>1. Tail(pending[t]) = <<Higher(op)>> /\ OpType(t) = "TRANSFER" /\ Tail(pending[t]) # <<>>
      BY <2>1, <2>3, ShortLists DEF TwoLocks
    <3> QED
      BY <2>1, <3>1 DEF ThreadShape, OpType
  <2> QED
    BY <2>1, <2>2, <2>3, ListShape
<1>7. CASE ReadLock(t)
  <2>1. /\ bank_pc[t] = "rdlock" /\ ~Refused(op)
        /\ bank_pc'[t] = "read"
        /\ pending'[t] = Tail(pending[t]) /\ current_op'[t] = op
    BY <1>1, <1>7 DEF ReadLock, Proceed, ThreadShape
  <2>2. Tail(pending[t]) = <<>>
    BY <2>1, ListHead
  <2> QED
    BY <2>1, <2>2 DEF ThreadShape
<1>8. CASE ReadBalance(t) \/ InsufficientFunds(t) \/ WriteBalance(t) \/ Credit(t)
  <2>1. /\ bank_pc'[t] = "unlock" /\ ~Refused(op)
        /\ pending'[t] = UnlockOrder(op) /\ current_op'[t] = op
    BY <1>1, <1>8
       DEF ReadBalance, InsufficientFunds, WriteBalance, Credit, StartUnlock, Proceed, ThreadShape
  <2> QED
    BY <2>1 DEF ThreadShape
<1>9. CASE ReadForUpdate(t)
  <2>1. /\ bank_pc'[t] = "write" /\ ~Refused(op) /\ OpType(t) # "BALANCE"
        /\ pending'[t] = <<>> /\ current_op'[t] = op
        /\ Covers(seen'[t], op)
    BY <1>1, <1>9 DEF ReadForUpdate, Proceed, ThreadShape
  <2> QED
    BY <2>1 DEF ThreadShape, OpType
<1>10. CASE Debit(t) \/ ReadTarget(t)
  <2>1. /\ bank_pc'[t] \in {"read_target", "credit"} /\ ~Refused(op) /\ OpType(t) = "TRANSFER"
        /\ pending'[t] = <<>> /\ current_op'[t] = op
    BY <1>1, <1>10 DEF Debit, ReadTarget, Proceed, ThreadShape
  <2> QED
    BY <2>1 DEF ThreadShape, OpType
<1>11. CASE Unlock(t)
  <2>1. /\ bank_pc[t] = "unlock" /\ ~Refused(op)
        /\ bank_pc'[t] = IF Tail(pending[t]) = <<>> THEN "returned" ELSE "unlock"
        /\ pending'[t] = Tail(pending[t]) /\ current_op'[t] = op
    BY <1>1, <1>11 DEF Unlock, Proceed, ThreadShape
  <2>2. CASE OneLock(t)
    <3>1. Tail(pending[t]) = <<>>
      BY <2>2, ShortLists DEF OneLock
    <3> QED
      BY <2>1, <3>1 DEF ThreadShape
  <2>3. CASE TwoLocks(t)
    <3>1. Tail(pending[t]) = <<Target(t)>> /\ OpType(t) = "TRANSFER" /\ Tail(pending[t]) # <<>>
      BY <2>1, <2>3, ShortLists DEF TwoLocks
    <3> QED
      BY <2>1, <3>1 DEF ThreadShape, OpType, Target
  <2> QED
    BY <2>1, <2>2, <2>3, ListShape
<1> QED
  BY <1>3, <1>4, <1>5, <1>6, <1>7, <1>8, <1>9, <1>10, <1>11 DEF ThreadStep, BankStep
--------------------------------------------------------------------------------
(***************************************************************************)
(* The lock table.                                                         *)
(***************************************************************************)
Acquires(t) == WriteLock(t) \/ ReadLock(t)

\* What the lists of an accepted operation cover: all the accounts it names.
LEMMA OrderCovers ==
  ASSUME NEW op \in OperationType, ~Refused(op)
  PROVE  /\ Listed(LockOrder(op)) = Named(op)
         /\ Listed(UnlockOrder(op)) = Named(op)
         /\ Named(op) \subseteq Accounts
<1>1. CASE op.type = "TRANSFER"
  <2>1. /\ LockOrder(op) = <<Lower(op), Higher(op)>>
        /\ UnlockOrder(op) = <<op.account_id, op.target_account>>
        /\ Named(op) = {Lower(op), Higher(op)}
        /\ Lower(op) \in Accounts /\ Higher(op) \in Accounts
    BY <1>1, OrderShapes
  <2>2. Named(op) = {op.account_id, op.target_account}
    BY <1>1 DEF Named
  <2>3. /\ Listed(<<Lower(op), Higher(op)>>) = {Lower(op), Higher(op)}
        /\ Listed(<<op.account_id, op.target_account>>) = {op.account_id, op.target_account}
    BY ShortLists
  <2> QED
    BY <2>1, <2>2, <2>3
<1>2. CASE op.type # "TRANSFER"
  BY <1>2, OrderShapes, AcceptedOp, ShortLists DEF Named
<1> QED
  BY <1>1, <1>2

\* The locks a thread holds before and after a step of its own.
LEMMA StepHeld ==
  ASSUME BankTypeOK, NEW t \in Txs, ThreadShape(t), ThreadStep(t)
  PROVE  /\ Acquires(t) => Held(t)' = Held(t) \cup {Head(pending[t])}
         /\ Unlock(t) => Held(t)' = Held(t) \ {Head(pending[t])}
         /\ ~Acquires(t) /\ ~Unlock(t) => Held(t)' = Held(t)
         /\ Held(t) # {} \/ Held(t)' # {} => OpType(t)' = OpType(t)
<1> DEFINE op == current_op[t]
<1>1. /\ bank_pc \in [Txs -> BankLabels]
      /\ current_op \in [Txs -> Operations \cup {NoOp}]
      /\ pending \in [Txs -> Seq(Accounts)]
  BY DEF BankTypeOK, BankLabels
<1>2. ~Refused(op) => /\ Listed(LockOrder(op)) = Named(op)
                      /\ Listed(UnlockOrder(op)) = Named(op)
  BY OpFields, OrderCovers
<1>3. CASE \/ \E new \in Operations : CallBank(t, new)
           \/ Refuse(t) \/ ReturnBank(t)
  <2>1. bank_pc[t] \in {"idle", "enter", "returned"} /\ bank_pc'[t] \in {"idle", "enter", "returned"}
    BY <1>1, <1>3 DEF CallBank, Refuse, ReturnBank, Proceed
  <2>2. ~Acquires(t) /\ ~Unlock(t)
    BY <2>1 DEF Acquires, WriteLock, ReadLock, Unlock, Proceed
  <2> QED
    BY <2>1, <2>2 DEF Held, AccessLabels
<1>4. CASE Accept(t)
  <2>1. /\ bank_pc[t] = "enter" /\ bank_pc'[t] \in {"rdlock", "wrlock"}
        /\ pending'[t] = LockOrder(op) /\ current_op'[t] = op
        /\ ~Refused(op)
    BY <1>1, <1>4 DEF Accept, Proceed
  <2>2. ~Acquires(t) /\ ~Unlock(t)
    BY <2>1 DEF Acquires, WriteLock, ReadLock, Unlock, Proceed
  <2> QED
    BY <1>2, <2>1, <2>2 DEF Held, AccessLabels
<1>5. CASE WriteLock(t)
  <2> DEFINE a == Head(pending[t])
  <2>1. /\ bank_pc[t] = "wrlock" /\ ~Refused(op)
        /\ bank_pc'[t] = IF Tail(pending[t]) = <<>> THEN "read" ELSE "wrlock"
        /\ pending'[t] = Tail(pending[t]) /\ current_op'[t] = op
    BY <1>1, <1>5 DEF WriteLock, Proceed, ThreadShape
  <2>2. /\ Listed(Tail(pending[t])) = Listed(pending[t]) \ {a}
        /\ a \in Listed(pending[t])
    BY <2>1, ListHead
  <2>3. Listed(pending[t]) \subseteq Named(op)
    <3>1. CASE pending[t] = LockOrder(op)
      BY <1>2, <2>1, <3>1
    <3>2. CASE OpType(t) = "TRANSFER" /\ pending[t] = <<Higher(op)>>
      <4>1. Named(op) = {Lower(op), Higher(op)}
        BY <2>1, <3>2, OpFields, OrderShapes DEF OpType
      <4>2. Listed(<<Higher(op)>>) = {Higher(op)}
        BY ShortLists
      <4> QED
        BY <3>2, <4>1, <4>2
    <3>3. \/ pending[t] = LockOrder(op)
          \/ OpType(t) = "TRANSFER" /\ pending[t] = <<Higher(op)>>
      BY <2>1 DEF ThreadShape
    <3> QED
      BY <3>1, <3>2, <3>3
  <2>4. Listed(<<>>) = {}
    BY ShortLists
  <2>5. Held(t) = Named(op) \ Listed(pending[t])
    BY <2>1 DEF Held, AccessLabels
  <2>6. Held(t)' = Named(op) \ Listed(Tail(pending[t]))
    BY <2>1, <2>4 DEF Held, AccessLabels
  <2>7. ~Unlock(t) /\ Acquires(t) /\ OpType(t)' = OpType(t)
    BY <1>5, <2>1 DEF Acquires, Unlock, Proceed, OpType
  <2> QED
    BY <2>2, <2>3, <2>5, <2>6, <2>7
<1>6. CASE ReadLock(t)
  <2> DEFINE a == Head(pending[t])
  <2>1. /\ bank_pc[t] = "rdlock" /\ bank_pc'[t] = "read" /\ current_op'[t] = op
        /\ pending[t] = <<Account(t)>> /\ OpType(t) = "BALANCE"
    BY <1>1, <1>6 DEF ReadLock, Proceed, ThreadShape
  <2>2. a = Account(t)
    BY <2>1, ShortLists
  <2>3. Held(t) = {} /\ Held(t)' = {Account(t)}
    BY <2>1 DEF Held, AccessLabels, Named, OpType, Account
  <2>4. ~Unlock(t) /\ Acquires(t) /\ OpType(t)' = OpType(t)
    BY <1>6, <2>1 DEF Acquires, Unlock, Proceed, OpType
  <2> QED
    BY <2>2, <2>3, <2>4
<1>7. CASE ReadBalance(t) \/ InsufficientFunds(t) \/ WriteBalance(t) \/ Credit(t)
  <2>1. /\ bank_pc[t] \in AccessLabels
        /\ bank_pc'[t] = "unlock" /\ ~Refused(op)
        /\ pending'[t] = UnlockOrder(op) /\ current_op'[t] = op
    BY <1>1, <1>7 DEF ReadBalance, InsufficientFunds, WriteBalance, Credit, StartUnlock, Proceed,
                      ThreadShape, AccessLabels
  <2>2. ~Acquires(t) /\ ~Unlock(t) /\ OpType(t)' = OpType(t)
    BY <2>1 DEF Acquires, WriteLock, ReadLock, Unlock, Proceed, AccessLabels, OpType
  <2> QED
    BY <1>2, <2>1, <2>2 DEF Held, AccessLabels
<1>8. CASE ReadForUpdate(t) \/ Debit(t) \/ ReadTarget(t)
  <2>1. bank_pc[t] \in AccessLabels /\ bank_pc'[t] \in AccessLabels /\ current_op'[t] = op
    BY <1>1, <1>8 DEF ReadForUpdate, Debit, ReadTarget, Proceed, AccessLabels
  <2>2. ~Acquires(t) /\ ~Unlock(t) /\ OpType(t)' = OpType(t)
    BY <2>1 DEF Acquires, WriteLock, ReadLock, Unlock, Proceed, AccessLabels, OpType
  <2> QED
    BY <2>1, <2>2 DEF Held
<1>9. CASE Unlock(t)
  <2> DEFINE a == Head(pending[t])
  <2>1. /\ bank_pc[t] = "unlock"
        /\ bank_pc'[t] = IF Tail(pending[t]) = <<>> THEN "returned" ELSE "unlock"
        /\ pending'[t] = Tail(pending[t]) /\ current_op'[t] = op
    BY <1>1, <1>9 DEF Unlock, Proceed
  <2>2. Listed(Tail(pending[t])) = Listed(pending[t]) \ {a}
    BY <2>1, ListHead
  <2>3. Listed(<<>>) = {}
    BY ShortLists
  <2>4. Held(t) = Listed(pending[t]) /\ Held(t)' = Listed(Tail(pending[t]))
    BY <2>1, <2>3 DEF Held, AccessLabels
  <2>5. ~Acquires(t) /\ OpType(t)' = OpType(t)
    BY <2>1 DEF Acquires, WriteLock, ReadLock, Proceed, OpType
  <2> QED
    BY <1>9, <2>2, <2>4, <2>5
<1> QED
  BY <1>3, <1>4, <1>5, <1>6, <1>7, <1>8, <1>9 DEF ThreadStep, BankStep

\* The lock table goes on agreeing with the threads' places, and a lock that is
\* acquired is acquired when it is free.
LEMMA LockStep ==
  ASSUME BankTypeOK, BankTypeOK', \A u \in Txs : ThreadShape(u), LockTable, Exclusive,
         NEW t \in Txs, ThreadStep(t)
  PROVE  LockTable' /\ Exclusive'
<1> DEFINE a == Head(pending[t])
<1>1. /\ writers \in [Accounts -> SUBSET Txs] /\ readers \in [Accounts -> SUBSET Txs]
      /\ writers' \in [Accounts -> SUBSET Txs] /\ readers' \in [Accounts -> SUBSET Txs]
  BY DEF BankTypeOK
<1>2. \A u \in Txs : u # t => Held(u)' = Held(u) /\ OpType(u)' = OpType(u)
  BY StepTypes, SameShape
<1>3. /\ Acquires(t) => Held(t)' = Held(t) \cup {a}
      /\ Unlock(t) => Held(t)' = Held(t) \ {a}
      /\ ~Acquires(t) /\ ~Unlock(t) => Held(t)' = Held(t)
      /\ Held(t) # {} \/ Held(t)' # {} => OpType(t)' = OpType(t)
  BY StepHeld
<1>4. bank_pc[t] \in {"wrlock", "rdlock", "unlock"} => a \in Accounts
  BY ListHead
<1>5. /\ bank_pc[t] = "wrlock" => OpType(t) # "BALANCE"
      /\ bank_pc[t] = "rdlock" => OpType(t) = "BALANCE"
  BY DEF ThreadShape
<1> HIDE DEF a
<1>6. CASE WriteLock(t)
  <2>1. /\ a \in Accounts /\ OpType(t) # "BALANCE"
        /\ writers[a] = {} /\ readers[a] = {}
        /\ writers' = [writers EXCEPT ![a] = writers[a] \cup {t}]
        /\ readers' = readers
    BY <1>4, <1>5, <1>6 DEF WriteLock, WriteLockFree, Proceed, a
  <2>2. /\ writers'[a] = {t}
        /\ \A b \in Accounts : b # a => writers'[b] = writers[b]
    BY <1>1, <2>1
  <2>3. Held(t)' = Held(t) \cup {a} /\ OpType(t)' = OpType(t)
    BY <1>3, <1>6 DEF Acquires
  <2>4. Exclusive'
    BY <2>1, <2>2 DEF Exclusive
  <2>5. LockTable'
    <3> SUFFICES ASSUME NEW u \in Txs, NEW b \in Accounts
                 PROVE  /\ u \in writers'[b] <=> b \in Held(u)' /\ OpType(u)' # "BALANCE"
                        /\ u \in readers'[b] <=> b \in Held(u)' /\ OpType(u)' = "BALANCE"
      BY DEF LockTable
    <3>1. /\ u \in writers[b] <=> b \in Held(u) /\ OpType(u) # "BALANCE"
          /\ u \in readers[b] <=> b \in Held(u) /\ OpType(u) = "BALANCE"
      BY DEF LockTable
    <3> QED
      BY <1>2, <2>1, <2>2, <2>3, <3>1
  <2> QED
    BY <2>4, <2>5
<1>7. CASE ReadLock(t)
  <2>1. /\ a \in Accounts /\ OpType(t) = "BALANCE"
        /\ writers[a] = {}
        /\ readers' = [readers EXCEPT ![a] = readers[a] \cup {t}]
        /\ writers' = writers
    BY <1>4, <1>5, <1>7 DEF ReadLock, ReadLockFree, Proceed, a
  <2>2. /\ readers'[a] = readers[a] \cup {t}
        /\ \A b \in Accounts : b # a => readers'[b] = readers[b]
    BY <1>1, <2>1
  <2>3. Held(t)' = Held(t) \cup {a} /\ OpType(t)' = OpType(t)
    BY <1>3, <1>7 DEF Acquires
  <2>4. Exclusive'
    BY <2>1, <2>2 DEF Exclusive
  <2>5. LockTable'
    <3> SUFFICES ASSUME NEW u \in Txs, NEW b \in Accounts
                 PROVE  /\ u \in writers'[b] <=> b \in Held(u)' /\ OpType(u)' # "BALANCE"
                        /\ u \in readers'[b] <=> b \in Held(u)' /\ OpType(u)' = "BALANCE"
      BY DEF LockTable
    <3>1. /\ u \in writers[b] <=> b \in Held(u) /\ OpType(u) # "BALANCE"
          /\ u \in readers[b] <=> b \in Held(u) /\ OpType(u) = "BALANCE"
      BY DEF LockTable
    <3> QED
      BY <1>2, <2>1, <2>2, <2>3, <3>1
  <2> QED
    BY <2>4, <2>5
<1>8. CASE Unlock(t)
  <2>1. /\ a \in Accounts
        /\ writers' = [writers EXCEPT ![a] = writers[a] \ {t}]
        /\ readers' = [readers EXCEPT ![a] = readers[a] \ {t}]
    BY <1>4, <1>8 DEF Unlock, Proceed, a
  <2>2. /\ writers'[a] = writers[a] \ {t} /\ readers'[a] = readers[a] \ {t}
        /\ \A b \in Accounts : b # a => writers'[b] = writers[b] /\ readers'[b] = readers[b]
    BY <1>1, <2>1
  <2>3. Held(t)' = Held(t) \ {a} /\ (Held(t) # {} => OpType(t)' = OpType(t))
    BY <1>3, <1>8
  <2>4. Exclusive'
    BY <2>1, <2>2 DEF Exclusive
  <2>5. LockTable'
    <3> SUFFICES ASSUME NEW u \in Txs, NEW b \in Accounts
                 PROVE  /\ u \in writers'[b] <=> b \in Held(u)' /\ OpType(u)' # "BALANCE"
                        /\ u \in readers'[b] <=> b \in Held(u)' /\ OpType(u)' = "BALANCE"
      BY DEF LockTable
    <3>1. /\ u \in writers[b] <=> b \in Held(u) /\ OpType(u) # "BALANCE"
          /\ u \in readers[b] <=> b \in Held(u) /\ OpType(u) = "BALANCE"
      BY DEF LockTable
    <3> QED
      BY <1>2, <2>1, <2>2, <2>3, <3>1
  <2> QED
    BY <2>4, <2>5
<1>9. CASE ~Acquires(t) /\ ~Unlock(t)
  <2>1. writers' = writers /\ readers' = readers
    BY <1>9 DEF ThreadStep, BankStep, Acquires, CallBank, Refuse, Accept, ReadBalance,
                InsufficientFunds, ReadForUpdate, WriteBalance, Debit, ReadTarget, Credit, ReturnBank
  <2>2. \A u \in Txs : Held(u)' = Held(u) /\ (Held(u) # {} => OpType(u)' = OpType(u))
    BY <1>2, <1>3, <1>9
  <2>3. Exclusive'
    BY <2>1 DEF Exclusive
  <2>4. LockTable'
    BY <2>1, <2>2 DEF LockTable
  <2> QED
    BY <2>3, <2>4
<1> QED
  BY <1>6, <1>7, <1>8, <1>9 DEF Acquires
--------------------------------------------------------------------------------
(***************************************************************************)
(* The balances.                                                           *)
(***************************************************************************)

\* A thread that may write has all its locks, so nobody else touches them.
LEMMA OwnAccounts ==
  ASSUME BankTypeOK, LockTable, Exclusive, NEW t \in Txs, NEW u \in Txs, t # u,
         ThreadShape(t), ThreadShape(u),
         bank_pc[t] \in AccessLabels, bank_pc[u] \in AccessLabels, OpType(t) # "BALANCE"
  PROVE  Named(current_op[t]) \cap Named(current_op[u]) = {}
<1>1. /\ Held(t) = Named(current_op[t]) /\ Held(u) = Named(current_op[u])
      /\ Held(t) \subseteq Accounts
  <2>1. current_op[t] \in OperationType /\ ~Refused(current_op[t])
    BY OpFields DEF ThreadShape, AccessLabels
  <2> QED
    BY <2>1, OrderCovers DEF Held
<1>2. SUFFICES ASSUME NEW a \in Accounts, a \in Held(t), a \in Held(u) PROVE FALSE
  BY <1>1
<1>3. t \in writers[a] /\ u \in writers[a] \cup readers[a]
  BY <1>2 DEF LockTable
<1> QED
  BY <1>3 DEF Exclusive

\* The balance a step stores, in an account of the operation.
Writes(t) == WriteBalance(t) \/ Debit(t) \/ Credit(t)

LEMMA BalanceWritten ==
  ASSUME BankTypeOK, NEW t \in Txs, ThreadShape(t), ThreadStep(t)
  PROVE  \/ balance' = balance
         \/ /\ bank_pc[t] \in AccessLabels /\ OpType(t) # "BALANCE"
            /\ \E n : \E a \in Named(current_op[t]) : balance' = [balance EXCEPT ![a] = n]
<1>1. CASE Writes(t)
  <2>1. bank_pc[t] \in AccessLabels /\ OpType(t) # "BALANCE"
    BY <1>1 DEF Writes, WriteBalance, Debit, Credit, Proceed, AccessLabels, ThreadShape
  <2>2. Account(t) \in Named(current_op[t])
    BY DEF Named, Account
  <2>3. Credit(t) => Target(t) \in Named(current_op[t])
    BY DEF Credit, Proceed, ThreadShape, Named, Target, OpType
  <2>4. CASE WriteBalance(t) \/ Debit(t)
    <3>1. \E n : balance' = [balance EXCEPT ![Account(t)] = n]
      BY <2>4 DEF WriteBalance, Debit
    <3> QED
      BY <2>1, <2>2, <3>1
  <2>5. CASE Credit(t)
    <3>1. \E n : balance' = [balance EXCEPT ![Target(t)] = n]
      BY <2>5 DEF Credit
    <3> QED
      BY <2>1, <2>3, <2>5, <3>1
  <2> QED
    BY <1>1, <2>4, <2>5 DEF Writes
<1>2. CASE ~Writes(t)
  BY <1>2 DEF ThreadStep, BankStep, Writes, CallBank, Refuse, Accept, WriteLock, ReadLock,
              ReadBalance, InsufficientFunds, ReadForUpdate, ReadTarget, Unlock, ReturnBank
<1> QED
  BY <1>1, <1>2

LEMMA BalanceKept ==
  ASSUME BankTypeOK, \A v \in Txs : ThreadShape(v), LockTable, Exclusive,
         NEW t \in Txs, ThreadStep(t),
         NEW u \in Txs, u # t, bank_pc[u] \in AccessLabels
  PROVE  \A a \in Named(current_op[u]) : balance'[a] = balance[a]
<1>1. CASE balance' = balance
  BY <1>1
<1>2. CASE /\ bank_pc[t] \in AccessLabels /\ OpType(t) # "BALANCE"
           /\ \E n : \E a \in Named(current_op[t]) : balance' = [balance EXCEPT ![a] = n]
  <2>1. Named(current_op[t]) \cap Named(current_op[u]) = {}
    BY <1>2, OwnAccounts
  <2>2. Named(current_op[u]) \subseteq Accounts
    BY OpFields, OrderCovers DEF ThreadShape, AccessLabels
  <2>3. balance \in [Accounts -> Int32Range]
    BY DEF BankTypeOK, Int32Range
  <2>4. PICK n : \E a \in Named(current_op[t]) : balance' = [balance EXCEPT ![a] = n]
    BY <1>2
  <2>5. PICK a \in Named(current_op[t]) : balance' = [balance EXCEPT ![a] = n]
    BY <2>4
  <2> QED
    BY <2>1, <2>2, <2>3, <2>5
<1> QED
  BY <1>1, <1>2, BalanceWritten

\* Taking an amount that is covered stays an int, and can be put back.
LEMMA DebitExact ==
  ASSUME NEW n \in Int32Range, NEW amount \in Nat, n >= amount
  PROVE  /\ Wrap(n - amount) = n - amount
         /\ n - amount >= 0
         /\ (n - amount) + amount = n
         /\ n =< INT_MAX
<1>1. n - amount \in Int32Range /\ n =< INT_MAX
  BY BankAssumption DEF Int32Range
<1>2. n - amount >= 0 /\ (n - amount) + amount = n
  BY BankAssumption DEF Int32Range
<1> QED
  BY <1>1, <1>2, WrapRange

LEMMA DataStep ==
  ASSUME BankIInv, BankTypeOK', NEW t \in Txs, ThreadStep(t)
  PROVE  NoLostUpdate' /\ DebitUndoable'
<1>1. /\ BankTypeOK
      /\ \A u \in Txs : ThreadShape(u)
      /\ LockTable
      /\ Exclusive
      /\ NoLostUpdate
      /\ DebitUndoable
  BY DEF BankIInv
<1>2. /\ balance \in [Accounts -> Int32Range] /\ bank_pc \in [Txs -> BankLabels]
      /\ current_op \in [Txs -> Operations \cup {NoOp}] /\ seen \in [Txs -> Int]
  BY <1>1 DEF BankTypeOK, Int32Range, BankLabels
<1>3. ASSUME NEW u \in Txs, u # t
      PROVE  /\ bank_pc'[u] = "write"  => seen'[u] = balance'[Account(u)']
             /\ bank_pc'[u] = "credit" => seen'[u] = balance'[Target(u)']
             /\ bank_pc'[u] \in {"read_target", "credit"} =>
                  balance'[Account(u)'] >= 0 /\ balance'[Account(u)'] + Amount(u)' =< INT_MAX
  <2>1. /\ bank_pc'[u] = bank_pc[u] /\ seen'[u] = seen[u]
        /\ Account(u)' = Account(u) /\ Target(u)' = Target(u) /\ Amount(u)' = Amount(u)
    BY <1>1, <1>3, StepTypes DEF SameThread, Account, Target, Amount
  <2>2. Account(u) \in Named(current_op[u])
    BY DEF Named, Account
  <2>3. bank_pc[u] \in {"read_target", "credit"} => Target(u) \in Named(current_op[u])
    BY <1>1 DEF ThreadShape, Named, Target, OpType
  <2>4. bank_pc[u] \in AccessLabels =>
          /\ balance'[Account(u)] = balance[Account(u)]
          /\ bank_pc[u] = "credit" => balance'[Target(u)] = balance[Target(u)]
    BY <1>1, <1>3, <2>2, <2>3, BalanceKept
  <2>5. /\ bank_pc[u] = "write"  => seen[u] = balance[Account(u)]
        /\ bank_pc[u] = "credit" => seen[u] = balance[Target(u)]
        /\ bank_pc[u] \in {"read_target", "credit"} =>
             balance[Account(u)] >= 0 /\ balance[Account(u)] + Amount(u) =< INT_MAX
    BY <1>1 DEF NoLostUpdate, DebitUndoable
  <2> QED
    BY <2>1, <2>4, <2>5 DEF AccessLabels
<1>4. /\ bank_pc'[t] = "write"  => seen'[t] = balance'[Account(t)']
      /\ bank_pc'[t] = "credit" => seen'[t] = balance'[Target(t)']
      /\ bank_pc'[t] \in {"read_target", "credit"} =>
           balance'[Account(t)'] >= 0 /\ balance'[Account(t)'] + Amount(t)' =< INT_MAX
  <2>1. CASE ReadForUpdate(t)
    <3>1. /\ bank_pc'[t] = "write" /\ seen'[t] = balance[Account(t)]
          /\ balance' = balance /\ Account(t)' = Account(t)
      BY <1>2, <2>1 DEF ReadForUpdate, Proceed, Account
    <3> QED
      BY <3>1
  <2>2. CASE Debit(t)
    <3>1. /\ bank_pc[t] = "write" /\ bank_pc'[t] = "read_target" /\ OpType(t) = "TRANSFER"
          /\ balance' = [balance EXCEPT ![Account(t)] = Wrap(seen[t] - Amount(t))]
          /\ Account(t)' = Account(t) /\ Amount(t)' = Amount(t)
      BY <1>2, <2>2 DEF Debit, Proceed, Account, Amount
    <3>2. Account(t) \in Accounts /\ Amount(t) \in Nat
      BY <1>1, <3>1, OpFields, AcceptedOp DEF ThreadShape, Account, Amount, OpType
    <3>3. seen[t] = balance[Account(t)] /\ seen[t] >= Amount(t)
      BY <1>1, <3>1 DEF NoLostUpdate, ThreadShape, Covers, OpType, Amount
    <3>4. seen[t] \in Int32Range
      BY <1>2, <3>2, <3>3
    <3>5. balance'[Account(t)] = Wrap(seen[t] - Amount(t))
      BY <1>2, <3>1, <3>2
    <3> QED
      BY <3>1, <3>2, <3>3, <3>4, <3>5, DebitExact
  <2>3. CASE ReadTarget(t)
    <3>1. /\ bank_pc[t] = "read_target" /\ bank_pc'[t] = "credit" /\ seen'[t] = balance[Target(t)]
          /\ balance' = balance
          /\ Account(t)' = Account(t) /\ Target(t)' = Target(t) /\ Amount(t)' = Amount(t)
      BY <1>2, <2>3 DEF ReadTarget, Proceed, Account, Target, Amount
    <3> QED
      BY <1>1, <3>1 DEF DebitUndoable
  <2>4. CASE ~(ReadForUpdate(t) \/ Debit(t) \/ ReadTarget(t))
    <3>1. bank_pc'[t] \notin {"write", "read_target", "credit"}
      BY <1>2, <2>4
         DEF ThreadStep, BankStep, CallBank, Refuse, Accept, WriteLock, ReadLock, ReadBalance,
             InsufficientFunds, WriteBalance, Credit, Unlock, ReturnBank, Proceed
    <3> QED
      BY <3>1
  <2> QED
    BY <2>1, <2>2, <2>3, <2>4
<1> QED
  BY <1>3, <1>4 DEF NoLostUpdate, DebitUndoable
--------------------------------------------------------------------------------
LEMMA BankStepInvariant ==
  ASSUME BankIInv, [BankNext]_bankVars
  PROVE  BankIInv'
<1>1. /\ BankTypeOK
      /\ \A u \in Txs : ThreadShape(u)
      /\ LockTable
      /\ Exclusive
  BY DEF BankIInv
<1>2. ASSUME NEW t \in Txs, ThreadStep(t) PROVE BankIInv'
  <2>1. BankTypeOK' /\ \A u \in Txs : u # t => SameThread(u)
    BY <1>1, <1>2, StepTypes
  <2>2. \A u \in Txs : ThreadShape(u)'
    BY <1>1, <1>2, <2>1, SameShape, StepShape
  <2>3. LockTable' /\ Exclusive'
    BY <1>1, <1>2, <2>1, LockStep
  <2>4. NoLostUpdate' /\ DebitUndoable'
    BY <1>2, <2>1, DataStep
  <2> QED
    BY <2>1, <2>2, <2>3, <2>4 DEF BankIInv
<1>3. CASE UNCHANGED bankVars
  <2>1. BankTypeOK'
    BY <1>1, <1>3 DEF bankVars, BankTypeOK
  <2>2. \A u \in Txs : SameThread(u)
    BY <1>3 DEF bankVars, SameThread
  <2>3. \A u \in Txs : ThreadShape(u)' /\ Held(u)' = Held(u) /\ OpType(u)' = OpType(u)
    BY <1>1, <2>2, SameShape
  <2>4. LockTable' /\ Exclusive'
    BY <1>1, <1>3, <2>3 DEF bankVars, LockTable, Exclusive
  <2>5. NoLostUpdate' /\ DebitUndoable'
    BY <1>3 DEF bankVars, BankIInv, NoLostUpdate, DebitUndoable, Account, Target, Amount
  <2> QED
    BY <2>1, <2>3, <2>4, <2>5 DEF BankIInv
<1> QED
  BY <1>2, <1>3 DEF BankNext, ThreadStep

LEMMA BankInvariance == BankSpec => []BankIInv
BY BankInitially, BankStepInvariant, PTL DEF BankSpec

\* Whatever operations threads call, only accounts of the bank are ever locked
\* or written, and every balance stays an int.
THEOREM BankTypeCorrect == BankSpec => []BankTypeOK
<1>1. BankIInv => BankTypeOK
  BY DEF BankIInv
<1> QED
  BY <1>1, BankInvariance, PTL

\* No update of a balance is lost, however deposits, withdrawals and transfers of
\* any number of threads meet on an account.
THEOREM UpdatesNeverLost == BankSpec => []NoLostUpdate
<1>1. BankIInv => NoLostUpdate
  BY DEF BankIInv
<1> QED
  BY <1>1, BankInvariance, PTL

\* Every unlock is by a holder of the lock, and no lock outlives its operation.
THEOREM LocksAlwaysPaired == BankSpec => []LocksPaired
<1>1. BankIInv => LocksPaired
  <2> SUFFICES ASSUME BankIInv, NEW t \in Txs
               PROVE  /\ bank_pc[t] = "unlock" =>
                           t \in writers[Head(pending[t])] \cup readers[Head(pending[t])]
                      /\ bank_pc[t] \in {"idle", "enter", "returned"} =>
                           \A a \in Accounts : t \notin writers[a] \cup readers[a]
    BY DEF LocksPaired
  <2>1. BankTypeOK /\ ThreadShape(t) /\ LockTable
    BY DEF BankIInv
  <2>2. CASE bank_pc[t] = "unlock"
    <3>1. Held(t) = Listed(pending[t])
      BY <2>2 DEF Held, AccessLabels
    <3>2. Head(pending[t]) \in Accounts /\ Head(pending[t]) \in Held(t)
      BY <2>1, <2>2, <3>1, ListHead
    <3> QED
      BY <2>1, <2>2, <3>2 DEF LockTable
  <2>3. CASE bank_pc[t] \in {"idle", "enter", "returned"}
    <3>1. Held(t) = {}
      BY <2>3 DEF Held, AccessLabels
    <3> QED
      BY <2>1, <2>3, <3>1 DEF LockTable
  <2> QED
    BY <2>2, <2>3
<1> QED
  BY <1>1, BankInvariance, PTL
--------------------------------------------------------------------------------
(***************************************************************************)
(* Deadlock prevention.                                                    *)
(***************************************************************************)
LEMMA LeastNat ==
  ASSUME NEW S, S \subseteq Nat, S # {}
  PROVE  \E m \in S : \A n \in S : m =< n
<1> DEFINE Less == {p \in Nat \X Nat : p[1] < p[2]}
<1>1. IsWellFoundedOn(Less, Nat)
  BY NatLessThanWellFounded DEF OpToRel
<1>2. PICK m \in S : \A n \in S : ~ (<<n, m>> \in Less)
  <2> HIDE DEF Less
  <2> QED BY <1>1, WFMin
<1>3. ASSUME NEW n \in S PROVE m =< n
  <2>1. <<n, m>> \notin Less
    BY <1>2
  <2> QED
    BY <2>1
<1> QED
  BY <1>3

\* Among finitely many accounts there is a greatest.
Above(a) == {b \in Accounts : a < b}

LEMMA GreatestAccount ==
  ASSUME NEW S, S \subseteq Accounts, S # {}
  PROVE  \E m \in S : \A a \in S : a =< m
<1>1. ASSUME NEW a \in Accounts
      PROVE  IsFiniteSet(Above(a)) /\ Cardinality(Above(a)) \in Nat
  BY BankTypesAssumption, FS_Subset, FS_CardinalityType DEF Above
<1>2. ASSUME NEW a \in Accounts, NEW b \in Accounts, a < b
      PROVE  Cardinality(Above(b)) < Cardinality(Above(a))
  <2>1. a \in Int /\ b \in Int
    BY BankTypesAssumption
  <2>2. Above(b) \subseteq Above(a) /\ b \in Above(a) /\ b \notin Above(b)
    <3>1. ASSUME NEW c \in Above(b) PROVE c \in Above(a)
      <4>1. c \in Accounts /\ b < c
        BY <3>1 DEF Above
      <4>2. c \in Int
        BY <4>1, BankTypesAssumption
      <4> QED
        BY <1>2, <2>1, <4>1, <4>2 DEF Above
    <3>2. b \in Above(a)
      BY <1>2 DEF Above
    <3>3. ~ (b < b)
      BY <2>1
    <3> QED
      BY <3>1, <3>2, <3>3 DEF Above
  <2>3. /\ Cardinality(Above(b)) =< Cardinality(Above(a))
        /\ Cardinality(Above(b)) # Cardinality(Above(a))
    BY <1>1, <2>2, FS_Subset
  <2> QED
    BY <1>1, <2>3
<1> DEFINE Counts == {Cardinality(Above(a)) : a \in S}
<1>3. PICK least \in Counts : \A n \in Counts : least =< n
  <2>1. Counts \subseteq Nat /\ Counts # {}
    BY <1>1
  <2> HIDE DEF Counts
  <2> QED
    BY <2>1, LeastNat
<1>4. PICK m \in S : least = Cardinality(Above(m))
  BY DEF Counts
<1>5. ASSUME NEW a \in S PROVE a =< m
  <2>1. Cardinality(Above(m)) =< Cardinality(Above(a))
    BY <1>3, <1>4
  <2>2. ~ (m < a)
    BY <1>1, <1>2, <2>1
  <2> QED
    BY <2>2, BankTypesAssumption
<1> QED
  BY <1>5

\* A thread waits only for an account greater than those it holds.
LEMMA WaitsUpwards ==
  ASSUME BankIInv, NEW t \in Txs, NEW u \in Txs, WaitsFor(t, u), Blocked(u)
  PROVE  /\ Head(pending[t]) \in Accounts
         /\ Head(pending[u]) \in Accounts
         /\ Head(pending[t]) < Head(pending[u])
<1> DEFINE a == Head(pending[t])
           op == current_op[u]
<1>1. BankTypeOK /\ ThreadShape(t) /\ ThreadShape(u) /\ LockTable
  BY DEF BankIInv
<1>2. a \in Accounts /\ Head(pending[u]) \in Accounts
  BY <1>1, ListHead DEF WaitsFor, Blocked
<1>3. a \in Held(u)
  BY <1>1, <1>2 DEF WaitsFor, LockTable
<1>4. bank_pc[u] = "wrlock"
  BY <1>3 DEF Blocked, Held, AccessLabels
<1>5. op \in OperationType /\ ~Refused(op)
  BY <1>1, <1>4, OpFields DEF ThreadShape
<1>6. a \in Named(op) \ Listed(pending[u])
  BY <1>3, <1>4 DEF Held, AccessLabels
<1>7. OpType(u) = "TRANSFER" /\ pending[u] = <<Higher(op)>>
  <2>1. pending[u] # LockOrder(op)
    BY <1>5, <1>6, OrderCovers
  <2> QED
    BY <1>1, <1>4, <2>1 DEF ThreadShape
<1>8. Listed(pending[u]) = {Higher(op)} /\ Head(pending[u]) = Higher(op)
  BY <1>7, ShortLists
<1>9. Named(op) = {Lower(op), Higher(op)} /\ Lower(op) < Higher(op)
  BY <1>5, <1>7, OrderShapes DEF OpType
<1> QED
  BY <1>2, <1>6, <1>8, <1>9

\* Locking in ascending order of account IDs prevents deadlock: however many
\* threads there are, no set of them waits in a circle.
THEOREM NoCircularWait == BankSpec => []NoLockCycle
<1>1. BankIInv => NoLockCycle
  <2> SUFFICES ASSUME BankIInv, NEW S \in (SUBSET Txs) \ {{}},
                      \A t \in S : \E u \in S : WaitsFor(t, u)
               PROVE  FALSE
    BY DEF NoLockCycle
  <2>1. \A t \in S : \E u \in S : WaitsFor(t, u) /\ Blocked(u)
    BY DEF WaitsFor
  <2> DEFINE Wanted == {Head(pending[t]) : t \in S}
  <2>2. Wanted \subseteq Accounts /\ Wanted # {}
    <3>1. ASSUME NEW t \in S PROVE Head(pending[t]) \in Accounts
      <4>1. PICK u \in S : WaitsFor(t, u) /\ Blocked(u)
        BY <2>1
      <4> QED
        BY <4>1, WaitsUpwards
    <3> QED
      BY <3>1
  <2>3. PICK m \in Wanted : \A a \in Wanted : a =< m
    <3> HIDE DEF Wanted
    <3> QED
      BY <2>2, GreatestAccount
  <2>4. PICK t \in S : m = Head(pending[t])
    BY DEF Wanted
  <2>5. PICK u \in S : WaitsFor(t, u) /\ Blocked(u)
    BY <2>1
  <2>6. m < Head(pending[u]) /\ Head(pending[u]) \in Wanted
    BY <2>4, <2>5, WaitsUpwards
  <2> HIDE DEF Wanted
  <2>7. m \in Accounts /\ Head(pending[u]) \in Accounts
    BY <2>2, <2>6
  <2>8. m \in Int /\ Head(pending[u]) \in Int
    <3>1. \A a \in Accounts : a \in Int
      BY BankTypesAssumption
    <3> QED
      BY <2>7, <3>1
  <2> QED
    BY <2>3, <2>6, <2>8
<1> QED
  BY <1>1, BankInvariance, PTL
--------------------------------------------------------------------------------
(***************************************************************************)
(* The bank implements atomic operations: the step with an operation's     *)
(* last access to a balance is the moment it takes effect, the other steps *)
(* of BankStep stutter.                                                    *)
(***************************************************************************)
InTransfer(t) == bank_pc[t] \in {"read_target", "credit"}

\* What the ledger shows of each account.
LedgerMeans ==
  \A a \in Accounts :
    /\ Transferring(a) = {} => Ledger[a] = balance[a]
    /\ \A t \in Transferring(a) : Transferring(a) = {t} /\ Ledger[a] = balance[a] + Amount(t)

\* An account that a thread with all its locks works on, one of the two writing,
\* is in the middle of nobody else's transfer.
LEMMA NoOtherTransfer ==
  ASSUME BankIInv, NEW t \in Txs, bank_pc[t] \in AccessLabels,
         NEW a \in Named(current_op[t]), NEW u \in Transferring(a), u # t
  PROVE  FALSE
<1>1. /\ BankTypeOK /\ LockTable /\ Exclusive
      /\ u \in Txs /\ ThreadShape(t) /\ ThreadShape(u)
  BY DEF BankIInv, Transferring
<1>2. bank_pc[u] \in AccessLabels /\ OpType(u) = "TRANSFER" /\ Account(u) = a
  BY <1>1 DEF Transferring, AccessLabels, ThreadShape
<1>3. a \in Named(current_op[u])
  BY <1>2 DEF Named, Account
<1> QED
  BY <1>1, <1>2, <1>3, OwnAccounts

LEMMA LedgerValue == BankIInv => LedgerMeans
<1> SUFFICES ASSUME BankIInv, NEW a \in Accounts
             PROVE  /\ Transferring(a) = {} => Ledger[a] = balance[a]
                    /\ \A t \in Transferring(a) :
                         Transferring(a) = {t} /\ Ledger[a] = balance[a] + Amount(t)
  BY DEF LedgerMeans
<1>1. Transferring(a) = {} => Ledger[a] = balance[a]
  BY DEF Ledger
<1>2. ASSUME NEW t \in Transferring(a)
      PROVE  Transferring(a) = {t} /\ Ledger[a] = balance[a] + Amount(t)
  <2>1. t \in Txs /\ InTransfer(t) /\ Account(t) = a /\ BankTypeOK
    BY DEF Transferring, InTransfer, BankIInv
  <2>2. bank_pc[t] \in AccessLabels /\ a \in Named(current_op[t])
    BY <2>1 DEF InTransfer, AccessLabels, Named, Account
  <2>3. \A u \in Transferring(a) : u = t
    BY <2>1, <2>2, NoOtherTransfer
  <2>4. Transferring(a) = {t}
    BY <2>3
  <2>5. (CHOOSE u \in Transferring(a) : TRUE) = t
    BY <2>4
  <2>6. balance[a] \in Int32Range /\ Amount(t) \in Int
    BY <2>1, OpFields DEF BankTypeOK, Int32Range
  <2>7. balance[a] >= 0 /\ balance[a] + Amount(t) =< INT_MAX /\ Amount(t) >= 0
    <3>1. ~Refused(current_op[t]) /\ OpType(t) = "TRANSFER"
      BY <2>1 DEF BankIInv, ThreadShape, InTransfer
    <3>2. Amount(t) >= 0
      BY <2>1, <3>1, OpFields, AcceptedOp DEF Amount, OpType
    <3> QED
      BY <2>1, <3>2 DEF BankIInv, DebitUndoable, InTransfer
  <2>8. balance[a] + Amount(t) \in Int32Range
    BY <2>6, <2>7, BankAssumption DEF Int32Range
  <2>9. Ledger[a] = Wrap(balance[a] + Amount(t))
    BY <2>4, <2>5 DEF Ledger
  <2> QED
    BY <2>4, <2>8, <2>9, WrapRange
<1> QED
  BY <1>1, <1>2

\* The ledger of an account a thread works on outside of its own transfer.
LEMMA LedgerOwn ==
  ASSUME BankIInv, NEW t \in Txs, bank_pc[t] \in AccessLabels,
         NEW a \in Named(current_op[t]), t \notin Transferring(a)
  PROVE  a \in Accounts /\ Transferring(a) = {} /\ Ledger[a] = balance[a]
<1>1. Transferring(a) = {}
  BY NoOtherTransfer
<1>2. a \in Accounts
  <2>1. BankTypeOK /\ ThreadShape(t)
    BY DEF BankIInv
  <2> QED
    BY <2>1, OpFields, OrderCovers DEF ThreadShape, AccessLabels
<1> QED
  BY <1>1, <1>2, LedgerValue DEF LedgerMeans

\* The mapped variables of the other threads stay.
LEMMA MappedStep ==
  ASSUME NEW t \in Txs, \A u \in Txs : u # t => SameThread(u)
  PROVE  /\ Phases' = [Phases EXCEPT ![t] = Phases'[t]]
         /\ Answers' = [Answers EXCEPT ![t] = Answers'[t]]
         /\ ShownBalances' = [ShownBalances EXCEPT ![t] = ShownBalances'[t]]
<1>1. Phases' = [Phases EXCEPT ![t] = Phases'[t]]
  BY DEF SameThread, Phases, Finished
<1>2. Answers' = [Answers EXCEPT ![t] = Answers'[t]]
  BY DEF SameThread, Answers, Finished
<1>3. ShownBalances' = [ShownBalances EXCEPT ![t] = ShownBalances'[t]]
  BY DEF SameThread, ShownBalances, Finished, OpType
<1> QED
  BY <1>1, <1>2, <1>3

\* Who is in the middle of a transfer from an account.
LEMMA TransferStep ==
  ASSUME NEW t \in Txs, \A u \in Txs : u # t => SameThread(u), NEW a
  PROVE  /\ Transferring(a)' \ {t} = Transferring(a) \ {t}
         /\ \A u \in Txs : u # t => Amount(u)' = Amount(u)
BY DEF SameThread, Transferring, Account, Amount

\* Away from the accounts that a step writes the ledger stays.
LEMMA LedgerElsewhere ==
  ASSUME LedgerMeans, LedgerMeans', NEW t \in Txs, \A u \in Txs : u # t => SameThread(u),
         NEW b \in Accounts, balance'[b] = balance[b],
         t \notin Transferring(b), t \notin Transferring(b)'
  PROVE  Ledger'[b] = Ledger[b]
<1>1. Transferring(b)' = Transferring(b)
  BY TransferStep
<1>2. CASE Transferring(b) = {}
  BY <1>1, <1>2 DEF LedgerMeans
<1>3. ASSUME NEW u \in Transferring(b) PROVE Ledger'[b] = Ledger[b]
  <2>1. u \in Txs /\ u # t
    BY DEF Transferring
  <2>2. Amount(u)' = Amount(u)
    BY <2>1, TransferStep
  <2>3. Ledger[b] = balance[b] + Amount(u)
    BY DEF LedgerMeans
  <2>4. Ledger'[b] = balance'[b] + Amount(u)'
    BY <1>1 DEF LedgerMeans
  <2> QED
    BY <2>2, <2>3, <2>4
<1> QED
  BY <1>2, <1>3

\* A step that neither writes a balance nor begins or ends a transfer leaves the
\* ledger as it is.
LEMMA LedgerKept ==
  ASSUME LedgerMeans, LedgerMeans', NEW t \in Txs, \A u \in Txs : u # t => SameThread(u),
         balance' = balance,
         \A a \in Accounts : t \in Transferring(a)' <=> t \in Transferring(a),
         InTransfer(t) => Amount(t)' = Amount(t)
  PROVE  Ledger' = Ledger
<1>1. ASSUME NEW a \in Accounts PROVE Ledger'[a] = Ledger[a]
  <2>1. Transferring(a)' = Transferring(a)
    BY TransferStep
  <2>2. CASE Transferring(a) = {}
    BY <2>1, <2>2 DEF LedgerMeans
  <2>3. ASSUME NEW u \in Transferring(a) PROVE Ledger'[a] = Ledger[a]
    <3>1. u \in Txs /\ Amount(u)' = Amount(u)
      BY <2>3, TransferStep DEF Transferring, InTransfer
    <3>2. Ledger[a] = balance[a] + Amount(u)
      BY <2>3 DEF LedgerMeans
    <3>3. Ledger'[a] = balance'[a] + Amount(u)'
      BY <2>1, <2>3 DEF LedgerMeans
    <3> QED
      BY <3>1, <3>2, <3>3
  <2> QED
    BY <2>2, <2>3
<1>2. /\ Ledger = [a \in Accounts |-> Ledger[a]]
      /\ Ledger' = [a \in Accounts |-> Ledger'[a]]
  BY DEF Ledger
<1> QED
  BY <1>1, <1>2

LEMMA LedgerValueNext == BankIInv' => LedgerMeans'
BY LedgerValue, PTL

\* What every step of a thread starts from.
LEMMA StepFacts ==
  ASSUME BankIInv, BankIInv', NEW t \in Txs, ThreadStep(t)
  PROVE  /\ BankTypeOK /\ ThreadShape(t) /\ LedgerMeans /\ LedgerMeans'
         /\ \A u \in Txs : u # t => SameThread(u)
         /\ bank_pc \in [Txs -> BankLabels]
         /\ current_op \in [Txs -> Operations \cup {NoOp}]
         /\ seen \in [Txs -> Int] /\ result \in [Txs -> BOOLEAN]
         /\ balance \in [Accounts -> Int32Range]
<1>1. BankTypeOK /\ ThreadShape(t)
  BY DEF BankIInv
<1>2. \A u \in Txs : u # t => SameThread(u)
  BY <1>1, StepTypes
<1>3. /\ bank_pc \in [Txs -> BankLabels]
      /\ current_op \in [Txs -> Operations \cup {NoOp}]
      /\ seen \in [Txs -> Int] /\ result \in [Txs -> BOOLEAN]
      /\ balance \in [Accounts -> Int32Range]
  BY <1>1 DEF BankTypeOK, BankLabels, Int32Range
<1> QED
  BY <1>1, <1>2, <1>3, LedgerValue, LedgerValueNext

\* The steps that neither write a balance nor begin or end a transfer.
LEMMA LedgerQuiet ==
  ASSUME BankIInv, BankIInv', NEW t \in Txs, ThreadStep(t), ~Writes(t)
  PROVE  Ledger' = Ledger /\ balance' = balance
<1>1. /\ LedgerMeans /\ LedgerMeans'
      /\ \A u \in Txs : u # t => SameThread(u)
      /\ bank_pc \in [Txs -> BankLabels]
      /\ current_op \in [Txs -> Operations \cup {NoOp}]
  BY StepFacts
<1>2. balance' = balance
  BY DEF ThreadStep, BankStep, Writes, CallBank, Refuse, Accept, WriteLock, ReadLock,
         ReadBalance, InsufficientFunds, ReadForUpdate, ReadTarget, Unlock, ReturnBank
<1>3. CASE ReadTarget(t)
  <2>1. /\ bank_pc[t] = "read_target" /\ bank_pc'[t] = "credit"
        /\ Account(t)' = Account(t) /\ Amount(t)' = Amount(t)
    BY <1>1, <1>3 DEF ReadTarget, Proceed, Account, Amount
  <2>2. \A a \in Accounts : t \in Transferring(a)' <=> t \in Transferring(a)
    BY <2>1 DEF Transferring
  <2> QED
    BY <1>1, <1>2, <2>1, <2>2, LedgerKept
<1>4. CASE ~ReadTarget(t)
  <2>1. ~InTransfer(t) /\ ~InTransfer(t)'
    BY <1>1, <1>4
       DEF ThreadStep, BankStep, Writes, CallBank, Refuse, Accept, WriteLock, ReadLock, ReadBalance,
           InsufficientFunds, ReadForUpdate, Unlock, ReturnBank, Proceed, InTransfer
  <2>2. \A a \in Accounts : t \notin Transferring(a)' /\ t \notin Transferring(a)
    BY <2>1 DEF Transferring, InTransfer
  <2> QED
    BY <1>1, <1>2, <2>1, <2>2, LedgerKept
<1> QED
  BY <1>3, <1>4

\* The debit of a transfer does not show yet.
LEMMA LedgerDebit ==
  ASSUME BankIInv, BankIInv', NEW t \in Txs, Debit(t)
  PROVE  Ledger' = Ledger
<1>1. /\ BankTypeOK /\ ThreadShape(t) /\ LedgerMeans /\ LedgerMeans'
      /\ \A u \in Txs : u # t => SameThread(u)
      /\ bank_pc \in [Txs -> BankLabels]
      /\ current_op \in [Txs -> Operations \cup {NoOp}]
      /\ seen \in [Txs -> Int]
      /\ balance \in [Accounts -> Int32Range]
  BY StepFacts DEF ThreadStep, BankStep
<1>a. PICK a : a = Account(t)
  OBVIOUS
<1>2. /\ bank_pc[t] = "write" /\ bank_pc'[t] = "read_target" /\ OpType(t) = "TRANSFER"
      /\ balance' = [balance EXCEPT ![a] = Wrap(seen[t] - Amount(t))]
      /\ Account(t)' = a /\ Amount(t)' = Amount(t)
  BY <1>a, <1>1 DEF Debit, Proceed, Account, Amount
<1>3. a \in Named(current_op[t]) /\ bank_pc[t] \in AccessLabels /\ t \notin Transferring(a)
  BY <1>a, <1>2 DEF Named, Account, AccessLabels, Transferring
<1>4. a \in Accounts /\ Transferring(a) = {} /\ Ledger[a] = balance[a]
  BY <1>3, LedgerOwn
<1>5. seen[t] = balance[a] /\ seen[t] >= Amount(t) /\ Amount(t) \in Nat
  BY <1>a, <1>1, <1>2, OpFields, AcceptedOp
     DEF BankIInv, NoLostUpdate, ThreadShape, Covers, OpType, Amount
<1>6. Wrap(seen[t] - Amount(t)) = seen[t] - Amount(t) /\ seen[t] \in Int
  BY <1>1, <1>4, <1>5, DebitExact
<1>7. t \in Transferring(a)'
  BY <1>2 DEF Transferring
<1>8. Ledger'[a] = Ledger[a]
  <2>1. Ledger'[a] = balance'[a] + Amount(t)
    <3>1. Ledger'[a] = balance'[a] + Amount(t)'
      BY <1>1, <1>4, <1>7 DEF LedgerMeans
    <3> QED
      BY <1>2, <3>1
  <2>2. balance'[a] = seen[t] - Amount(t)
    BY <1>1, <1>2, <1>4, <1>6
  <2> QED
    BY <1>4, <1>5, <1>6, <2>1, <2>2
<1>9. ASSUME NEW b \in Accounts, b # a PROVE Ledger'[b] = Ledger[b]
  <2>1. t \notin Transferring(b) /\ t \notin Transferring(b)'
    BY <1>a, <1>2, <1>9 DEF Transferring
  <2>2. balance'[b] = balance[b]
    BY <1>1, <1>2, <1>9
  <2> QED
    BY <1>1, <2>1, <2>2, LedgerElsewhere
<1>10. /\ Ledger = [b \in Accounts |-> Ledger[b]]
       /\ Ledger' = [b \in Accounts |-> Ledger'[b]]
  BY DEF Ledger
<1>11. \A b \in Accounts : Ledger'[b] = Ledger[b]
  BY <1>8, <1>9
<1> QED
  BY <1>10, <1>11

\* deposit and withdraw change the ledger by what they store.
LEMMA LedgerWrite ==
  ASSUME BankIInv, BankIInv', NEW t \in Txs, WriteBalance(t)
  PROVE  LET new == IF OpType(t) = "DEPOSIT" THEN Ledger[Account(t)] + Amount(t)
                    ELSE Ledger[Account(t)] - Amount(t)
         IN /\ Ledger' = [Ledger EXCEPT ![Account(t)] = Wrap(new)]
            /\ OpType(t) = "WITHDRAW" => Ledger[Account(t)] >= Amount(t)
<1>1. /\ BankTypeOK /\ ThreadShape(t) /\ LedgerMeans /\ LedgerMeans'
      /\ \A u \in Txs : u # t => SameThread(u)
      /\ bank_pc \in [Txs -> BankLabels]
      /\ balance \in [Accounts -> Int32Range]
  BY StepFacts DEF ThreadStep, BankStep
<1>a. PICK a : a = Account(t)
  OBVIOUS
<1> DEFINE stored == IF OpType(t) = "DEPOSIT" THEN seen[t] + Amount(t) ELSE seen[t] - Amount(t)
<1>2. /\ bank_pc[t] = "write" /\ bank_pc'[t] = "unlock"
      /\ balance' = [balance EXCEPT ![a] = Wrap(stored)]
  BY <1>a, <1>1 DEF WriteBalance, Proceed
<1>3. a \in Named(current_op[t]) /\ bank_pc[t] \in AccessLabels
  BY <1>a, <1>2 DEF Named, Account, AccessLabels
<1>4. \A b \in Accounts : t \notin Transferring(b) /\ t \notin Transferring(b)'
  BY <1>2 DEF Transferring
<1>5. a \in Accounts /\ Transferring(a) = {} /\ Ledger[a] = balance[a]
  <2>1. t \notin Transferring(a)
    BY <1>2 DEF Transferring
  <2> QED
    BY <1>3, <2>1, LedgerOwn
<1>6. seen[t] = balance[a] /\ (OpType(t) = "WITHDRAW" => seen[t] >= Amount(t))
  BY <1>a, <1>1, <1>2 DEF BankIInv, NoLostUpdate, ThreadShape, Covers, OpType, Amount
<1>7. Transferring(a)' = {}
  BY <1>1, <1>4, <1>5, TransferStep
<1>8. Ledger'[a] = Wrap(stored)
  <2>1. Ledger'[a] = balance'[a]
    BY <1>1, <1>5, <1>7 DEF LedgerMeans
  <2> HIDE DEF stored
  <2> QED
    BY <1>1, <1>2, <1>5, <2>1
<1>9. ASSUME NEW b \in Accounts, b # a PROVE Ledger'[b] = Ledger[b]
  <2>1. balance'[b] = balance[b]
    <3> HIDE DEF stored
    <3> QED
      BY <1>1, <1>2, <1>9
  <2> QED
    BY <1>1, <1>4, <2>1, LedgerElsewhere
<1>10. /\ Ledger = [b \in Accounts |-> Ledger[b]]
       /\ Ledger' = [b \in Accounts |-> Ledger'[b]]
  BY DEF Ledger
<1>11. Ledger' = [Ledger EXCEPT ![a] = Wrap(stored)]
  <2> HIDE DEF stored
  <2> QED
    BY <1>8, <1>9, <1>10
<1> QED
  BY <1>a, <1>5, <1>6, <1>11

\* The credit of a transfer shows together with the debit.
LEMMA LedgerCredit ==
  ASSUME BankIInv, BankIInv', NEW t \in Txs, Credit(t)
  PROVE  /\ Ledger' = [Ledger EXCEPT ![Account(t)] = Wrap(Ledger[Account(t)] - Amount(t)),
                                     ![Target(t)] = Wrap(Ledger[Target(t)] + Amount(t))]
         /\ Ledger[Account(t)] >= Amount(t)
<1>1. /\ BankTypeOK /\ ThreadShape(t) /\ LedgerMeans /\ LedgerMeans'
      /\ \A u \in Txs : u # t => SameThread(u)
      /\ bank_pc \in [Txs -> BankLabels]
      /\ balance \in [Accounts -> Int32Range]
  BY StepFacts DEF ThreadStep, BankStep
<1>a. PICK a : a = Account(t)
  OBVIOUS
<1>b. PICK b : b = Target(t)
  OBVIOUS
<1> DEFINE stored == Wrap(seen[t] + Amount(t))
<1>2. /\ bank_pc[t] = "credit" /\ bank_pc'[t] = "unlock" /\ OpType(t) = "TRANSFER"
      /\ balance' = [balance EXCEPT ![b] = stored]
  BY <1>a, <1>b, <1>1 DEF Credit, Proceed, ThreadShape
<1>3. /\ bank_pc[t] \in AccessLabels /\ b \in Named(current_op[t])
      /\ t \in Transferring(a)
  BY <1>a, <1>b, <1>2 DEF Named, Target, OpType, AccessLabels, Transferring
<1>4. a \in Accounts /\ b \in Accounts /\ a # b /\ Amount(t) \in Nat
  BY <1>a, <1>b, <1>1, <1>2, OpFields, AcceptedOp DEF ThreadShape, Account, Target, Amount, OpType
<1>5. \A c \in Accounts : t \notin Transferring(c)' /\ (c # a => t \notin Transferring(c))
  BY <1>a, <1>2 DEF Transferring
<1>6. Transferring(b) = {} /\ Ledger[b] = balance[b] /\ seen[t] = balance[b]
  <2>1. t \notin Transferring(b)
    BY <1>4, <1>5
  <2>2. seen[t] = balance[b]
    BY <1>b, <1>2 DEF BankIInv, NoLostUpdate
  <2> QED
    BY <1>3, <2>1, <2>2, LedgerOwn
<1>7. balance[a] >= 0 /\ balance[a] \in Int32Range
  BY <1>a, <1>1, <1>2, <1>4 DEF BankIInv, DebitUndoable
<1>8. Transferring(a) = {t} /\ Ledger[a] = balance[a] + Amount(t)
  BY <1>1, <1>3, <1>4 DEF LedgerMeans
<1>9. Transferring(a)' = {} /\ Transferring(b)' = {}
  BY <1>1, <1>4, <1>5, <1>6, <1>8, TransferStep
<1>10. Ledger'[a] = balance'[a] /\ Ledger'[b] = balance'[b]
  BY <1>1, <1>4, <1>9 DEF LedgerMeans
<1>11. /\ balance'[b] = stored
       /\ \A c \in Accounts : c # b => balance'[c] = balance[c]
  <2> HIDE DEF stored
  <2> QED
    BY <1>1, <1>2, <1>4
<1>12. Ledger[a] >= Amount(t) /\ Wrap(Ledger[a] - Amount(t)) = balance[a]
  <2>1. balance[a] \in Int
    BY <1>7, BankAssumption DEF Int32Range
  <2>2. Ledger[a] >= Amount(t) /\ Ledger[a] - Amount(t) = balance[a]
    BY <1>4, <1>7, <1>8, <2>1
  <2> QED
    BY <1>7, <2>2, WrapRange
<1>13. ASSUME NEW c \in Accounts, c # a, c # b PROVE Ledger'[c] = Ledger[c]
  BY <1>1, <1>5, <1>11, <1>13, LedgerElsewhere
<1>14. /\ Ledger = [c \in Accounts |-> Ledger[c]]
       /\ Ledger' = [c \in Accounts |-> Ledger'[c]]
  BY DEF Ledger
<1>15. Ledger' = [Ledger EXCEPT ![a] = Wrap(Ledger[a] - Amount(t)),
                                ![b] = Wrap(Ledger[b] + Amount(t))]
  <2> DEFINE x == Wrap(Ledger[a] - Amount(t))
             y == Wrap(Ledger[b] + Amount(t))
  <2>1. Ledger'[a] = x /\ Ledger'[b] = y
    BY <1>4, <1>6, <1>10, <1>11, <1>12
  <2> HIDE DEF x, y
  <2>2. Ledger' = [Ledger EXCEPT ![a] = x, ![b] = y]
    BY <1>4, <1>13, <1>14, <2>1
  <2> QED
    BY <2>2 DEF x, y
<1> QED
  BY <1>a, <1>b, <1>12, <1>15

\* The steps that callers do not notice.
LEMMA HiddenStep ==
  ASSUME BankIInv, BankIInv', NEW t \in Txs,
         \/ Accept(t) \/ WriteLock(t) \/ ReadLock(t) \/ ReadForUpdate(t) \/ Debit(t)
         \/ ReadTarget(t) \/ Unlock(t)
  PROVE  UNCHANGED Atomic!atomicVars
<1>1. ThreadStep(t) /\ ~WriteBalance(t) /\ ~Credit(t)
  BY DEF ThreadStep, BankStep, Accept, WriteLock, ReadLock, ReadForUpdate, Debit, ReadTarget, Unlock,
         WriteBalance, Credit, Proceed
<1>2. /\ \A u \in Txs : u # t => SameThread(u)
      /\ bank_pc \in [Txs -> BankLabels]
  BY <1>1, StepFacts
<1>3. Ledger' = Ledger
  BY <1>1, LedgerQuiet, LedgerDebit DEF Writes
<1>4. current_op' = current_op
  BY DEF Accept, WriteLock, ReadLock, ReadForUpdate, Debit, ReadTarget, Unlock
<1>5. ASSUME Unlock(t)
      PROVE  /\ Phases'[t] = Phases[t] /\ Answers'[t] = Answers[t]
             /\ ShownBalances'[t] = ShownBalances[t]
  <2>1. /\ bank_pc[t] \in {"unlock", "returned"} /\ bank_pc'[t] \in {"unlock", "returned"}
        /\ seen' = seen /\ result' = result
    BY <1>2, <1>5 DEF Unlock, Proceed
  <2> QED
    BY <1>4, <2>1 DEF Phases, Answers, ShownBalances, Finished, OpType
<1>6. ASSUME ~Unlock(t)
      PROVE  /\ Phases'[t] = Phases[t] /\ Answers'[t] = Answers[t]
             /\ ShownBalances'[t] = ShownBalances[t]
  <2>1. /\ bank_pc[t] \notin {"idle", "unlock", "returned"}
        /\ bank_pc'[t] \notin {"idle", "unlock", "returned"}
    BY <1>2, <1>6 DEF Accept, WriteLock, ReadLock, ReadForUpdate, Debit, ReadTarget, Proceed
  <2> QED
    BY <2>1 DEF Phases, Answers, ShownBalances, Finished
<1>7. Phases' = Phases /\ Answers' = Answers /\ ShownBalances' = ShownBalances
  <2>1. /\ Phases'[t] = Phases[t] /\ Answers'[t] = Answers[t]
        /\ ShownBalances'[t] = ShownBalances[t]
    BY <1>5, <1>6
  <2>2. /\ Phases = [u \in Txs |-> Phases[u]]
        /\ Answers = [u \in Txs |-> Answers[u]]
        /\ ShownBalances = [u \in Txs |-> ShownBalances[u]]
    BY DEF Phases, Answers, ShownBalances
  <2> QED
    BY <1>2, <2>1, <2>2, MappedStep
<1> QED
  BY <1>3, <1>4, <1>7 DEF Atomic!atomicVars

LEMMA SameConstants == Atomic!NoOp = NoOp /\ \A n : Atomic!IntWrap(n) = Wrap(n)
BY DEF Atomic!NoOp, Atomic!NoAccount, NoOp, NoAccount, Atomic!IntWrap, Wrap

LEMMA ValidIsAccepted ==
  ASSUME NEW op \in OperationType
  PROVE  Atomic!Valid(op) <=> ~Refused(op)
<1>1. op.amount_centavos \in Int
  BY DEF OperationType
<1> QED
  BY <1>1 DEF Atomic!Valid, Refused

\* What the last access to a balance does, in terms of the ledger.
OpEffect(t) ==
  LET op == current_op[t] IN
  /\ Ledger' = IF Atomic!Affordable(op) THEN Atomic!Posted(op) ELSE Ledger
  /\ result'[t] = Atomic!Affordable(op)
  /\ op.type = "BALANCE" => seen'[t] = Ledger[op.account_id]

LEMMA LastAccess ==
  ASSUME BankIInv, BankIInv', NEW t \in Txs,
         ReadBalance(t) \/ InsufficientFunds(t) \/ WriteBalance(t) \/ Credit(t)
  PROVE  OpEffect(t)
<1>a. PICK op : op = current_op[t]
  OBVIOUS
<1>1. /\ BankTypeOK /\ ThreadShape(t) /\ ThreadStep(t)
      /\ bank_pc \in [Txs -> BankLabels]
      /\ seen \in [Txs -> Int] /\ result \in [Txs -> BOOLEAN]
      /\ balance \in [Accounts -> Int32Range]
  BY StepFacts DEF ThreadStep, BankStep
<1>2. /\ op.type = OpType(t) /\ op.account_id = Account(t)
      /\ op.amount_centavos = Amount(t) /\ op.target_account = Target(t)
  BY <1>a DEF OpType, Account, Target, Amount
<1>3. op \in OperationType /\ op.type \in OpTypes /\ Amount(t) \in Int
  BY <1>a, <1>1, <1>2, OpFields
<1>4. CASE ReadBalance(t) \/ InsufficientFunds(t)
  <2>1. /\ bank_pc[t] = "read"
        /\ seen'[t] = balance[Account(t)]
    BY <1>1, <1>4 DEF ReadBalance, InsufficientFunds, Proceed
  <2>2. bank_pc[t] \in AccessLabels /\ Account(t) \in Named(current_op[t]) /\ t \notin Transferring(Account(t))
    BY <2>1 DEF AccessLabels, Named, Account, Transferring
  <2>3. Ledger[Account(t)] = balance[Account(t)]
    BY <2>2, LedgerOwn
  <2>4. Ledger' = Ledger
    BY <1>1, <1>4, <2>1, LedgerQuiet
       DEF Writes, ReadBalance, InsufficientFunds, WriteBalance, Debit, Credit, Proceed
  <2>5. CASE ReadBalance(t)
    <3>1. op.type = "BALANCE" /\ result'[t] = TRUE
      BY <1>1, <1>2, <2>5 DEF ReadBalance
    <3>2. Atomic!Affordable(op) /\ Atomic!Posted(op) = Ledger
      BY <3>1 DEF Atomic!Affordable, Atomic!Posted
    <3> QED
      BY <1>a, <1>2, <2>1, <2>3, <2>4, <3>1, <3>2 DEF OpEffect
  <2>6. CASE InsufficientFunds(t)
    <3>1. /\ op.type \in {"WITHDRAW", "TRANSFER"} /\ ~(Ledger[op.account_id] >= op.amount_centavos)
          /\ result'[t] = FALSE
      BY <1>a, <1>1, <1>2, <2>3, <2>6 DEF InsufficientFunds, Covers
    <3>2. Atomic!Affordable(op) = FALSE
      BY <3>1 DEF Atomic!Affordable
    <3>3. Ledger' = IF Atomic!Affordable(op) THEN Atomic!Posted(op) ELSE Ledger
      BY <2>4, <3>2
    <3>4. result'[t] = Atomic!Affordable(op) /\ op.type # "BALANCE"
      BY <3>1, <3>2
    <3> QED
      BY <1>a, <3>3, <3>4 DEF OpEffect
  <2> QED
    BY <1>4, <2>5, <2>6
<1>5. CASE WriteBalance(t)
  <2>1. op.type \in {"DEPOSIT", "WITHDRAW"} /\ result'[t] = TRUE
    BY <1>1, <1>2, <1>3, <1>5 DEF WriteBalance, Proceed, ThreadShape, OpTypes
  <2>2. /\ op.type = "DEPOSIT" =>
             Ledger' = [Ledger EXCEPT ![Account(t)] = Wrap(Ledger[Account(t)] + Amount(t))]
        /\ op.type = "WITHDRAW" =>
             /\ Ledger' = [Ledger EXCEPT ![Account(t)] = Wrap(Ledger[Account(t)] - Amount(t))]
             /\ Ledger[Account(t)] >= Amount(t)
    BY <1>2, <1>5, LedgerWrite
  <2>3. Atomic!Affordable(op)
    BY <1>2, <2>1, <2>2 DEF Atomic!Affordable
  <2>4. Ledger' = Atomic!Posted(op)
    BY <1>2, <2>1, <2>2, SameConstants DEF Atomic!Posted
  <2> QED
    BY <1>a, <2>1, <2>3, <2>4 DEF OpEffect
<1>6. CASE Credit(t)
  <2>1. op.type = "TRANSFER" /\ result'[t] = TRUE
    BY <1>1, <1>2, <1>6 DEF Credit, Proceed, ThreadShape
  <2>2. /\ Ledger' = [Ledger EXCEPT ![Account(t)] = Wrap(Ledger[Account(t)] - Amount(t)),
                                    ![Target(t)] = Wrap(Ledger[Target(t)] + Amount(t))]
        /\ Ledger[Account(t)] >= Amount(t)
    BY <1>6, LedgerCredit
  <2>3. Atomic!Affordable(op)
    BY <1>2, <2>2 DEF Atomic!Affordable
  <2>4. Account(t) # Target(t)
    BY <1>a, <1>2, <1>3, <2>1, <1>6, <1>1, AcceptedOp DEF Credit, Proceed, ThreadShape
  <2>5. Ledger' = Atomic!Posted(op)
    BY <1>2, <2>1, <2>2, <2>4, SameConstants DEF Atomic!Posted, Ledger
  <2> QED
    BY <1>a, <2>1, <2>3, <2>5 DEF OpEffect
<1> QED
  BY <1>4, <1>5, <1>6

LEMMA VisibleStep ==
  ASSUME BankIInv, BankIInv', NEW t \in Txs,
         Refuse(t) \/ ReadBalance(t) \/ InsufficientFunds(t) \/ WriteBalance(t) \/ Credit(t)
  PROVE  Atomic!TakeEffect(t)
<1>a. PICK op : op = current_op[t]
  OBVIOUS
<1>1. /\ ThreadStep(t) /\ BankTypeOK /\ ThreadShape(t)
      /\ \A u \in Txs : u # t => SameThread(u)
      /\ bank_pc \in [Txs -> BankLabels]
      /\ seen \in [Txs -> Int] /\ result \in [Txs -> BOOLEAN]
  BY StepFacts DEF ThreadStep, BankStep
<1>2. op \in OperationType
  BY <1>a, <1>1, OpFields
<1>3. /\ bank_pc[t] \notin {"idle", "unlock", "returned"}
      /\ bank_pc'[t] \in {"unlock", "returned"}
      /\ current_op' = current_op
  BY <1>1 DEF Refuse, ReadBalance, InsufficientFunds, WriteBalance, Credit, Proceed
<1>4. /\ Phases[t] = "called" /\ Phases'[t] = "done"
      /\ Answers'[t] = (TRUE /\ result'[t])
      /\ ShownBalances'[t] = IF op.type = "BALANCE" THEN seen'[t] ELSE 0
  BY <1>a, <1>3 DEF Phases, Answers, ShownBalances, Finished, OpType
<1>5. /\ Phases' = [Phases EXCEPT ![t] = "done"]
      /\ Answers' = [Answers EXCEPT ![t] = Answers'[t]]
      /\ ShownBalances' = [ShownBalances EXCEPT ![t] = ShownBalances'[t]]
  BY <1>1, <1>4, MappedStep
<1>6. CASE Refuse(t)
  <2>1. /\ Refused(op) /\ seen'[t] = -1
        /\ result'[t] = (op.type \in {"DEPOSIT", "BALANCE"})
    BY <1>a, <1>1, <1>6 DEF Refuse, RefusedResult
  <2>2. ~Atomic!Valid(op)
    BY <1>2, <2>1, ValidIsAccepted
  <2>3. Ledger' = Ledger
    BY <1>1, <1>6, LedgerQuiet DEF Writes, Refuse, WriteBalance, Debit, Credit, Proceed
  <2>4. Answers' = [Answers EXCEPT ![t] = op.type \in {"DEPOSIT", "BALANCE"}]
    <3>1. Answers'[t] = (op.type \in {"DEPOSIT", "BALANCE"})
      <4>1. CASE op.type \in {"DEPOSIT", "BALANCE"}
        <5>1. (op.type \in {"DEPOSIT", "BALANCE"}) = TRUE
          BY <4>1
        <5> QED
          BY <1>4, <2>1, <5>1, Zenon
      <4>2. CASE op.type \notin {"DEPOSIT", "BALANCE"}
        <5>1. (op.type \in {"DEPOSIT", "BALANCE"}) = FALSE
          BY <4>2
        <5> QED
          BY <1>4, <2>1, <5>1, Zenon
      <4> QED
        BY <4>1, <4>2
    <3> QED
      BY <1>5, <3>1, Zenon
  <2>5. ShownBalances' = [ShownBalances EXCEPT ![t] =
                            IF op.type # "BALANCE" THEN 0
                            ELSE IF Atomic!Valid(op) THEN Ledger[op.account_id] ELSE -1]
    <3>1. ShownBalances'[t] = IF op.type # "BALANCE" THEN 0
                              ELSE IF Atomic!Valid(op) THEN Ledger[op.account_id] ELSE -1
      BY <1>4, <2>1, <2>2
    <3> QED
      BY <1>5, <3>1, Zenon
  <2> QED
    BY <1>a, <1>3, <1>4, <1>5, <2>2, <2>3, <2>4, <2>5, Zenon DEF Atomic!TakeEffect
<1>7. CASE ~Refuse(t)
  <2>1. OpEffect(t)
    BY <1>7, LastAccess
  <2>2. ~Refused(op)
    BY <1>a, <1>1, <1>7 DEF ReadBalance, InsufficientFunds, WriteBalance, Credit, Proceed, ThreadShape
  <2>3. Atomic!Valid(op)
    BY <1>2, <2>2, ValidIsAccepted
  <2>4. /\ Ledger' = IF Atomic!Affordable(op) THEN Atomic!Posted(op) ELSE Ledger
        /\ result'[t] = Atomic!Affordable(op)
        /\ op.type = "BALANCE" => seen'[t] = Ledger[op.account_id]
    BY <1>a, <2>1 DEF OpEffect
  <2>5. Answers' = [Answers EXCEPT ![t] = Atomic!Affordable(op)]
    <3>1. Answers'[t] = Atomic!Affordable(op)
      <4>1. (TRUE /\ result'[t]) = Atomic!Affordable(op)
        BY <2>4 DEF Atomic!Affordable
      <4> QED
        BY <1>4, <4>1, Zenon
    <3> QED
      BY <1>5, <3>1, Zenon
  <2>6. ShownBalances' = [ShownBalances EXCEPT ![t] =
                            IF op.type # "BALANCE" THEN 0
                            ELSE IF Atomic!Valid(op) THEN Ledger[op.account_id] ELSE -1]
    <3>1. ShownBalances'[t] = IF op.type # "BALANCE" THEN 0
                              ELSE IF Atomic!Valid(op) THEN Ledger[op.account_id] ELSE -1
      BY <1>4, <2>3, <2>4
    <3> QED
      BY <1>5, <3>1, Zenon
  <2> QED
    BY <1>a, <1>3, <1>4, <1>5, <2>3, <2>4, <2>5, <2>6, Zenon DEF Atomic!TakeEffect
<1> QED
  BY <1>6, <1>7

\* A call and a return are what their callers see of them.
LEMMA CallStep ==
  ASSUME BankIInv, BankIInv', NEW t \in Txs, NEW op \in Operations, CallBank(t, op)
  PROVE  Atomic!Call(t, op)
<1>1. /\ ThreadStep(t)
      /\ \A u \in Txs : u # t => SameThread(u)
      /\ bank_pc \in [Txs -> BankLabels]
      /\ current_op \in [Txs -> Operations \cup {NoOp}]
  BY StepFacts DEF ThreadStep
<1>2. /\ bank_pc[t] = "idle" /\ bank_pc'[t] = "enter"
      /\ current_op' = [current_op EXCEPT ![t] = op]
  BY <1>1 DEF CallBank, Proceed
<1>3. Ledger' = Ledger
  BY <1>1, <1>2, LedgerQuiet DEF Writes, WriteBalance, Debit, Credit, Proceed
<1>4. /\ Phases[t] = "idle" /\ Phases'[t] = "called"
      /\ Answers'[t] = Answers[t]
      /\ ShownBalances'[t] = ShownBalances[t]
  BY <1>2 DEF Phases, Answers, ShownBalances, Finished
<1>5. /\ Phases' = [Phases EXCEPT ![t] = "called"]
      /\ Answers' = [Answers EXCEPT ![t] = Answers[t]]
      /\ ShownBalances' = [ShownBalances EXCEPT ![t] = ShownBalances[t]]
  BY <1>1, <1>4, MappedStep
<1>6. Answers' = Answers /\ ShownBalances' = ShownBalances
  <2>1. /\ Answers = [u \in Txs |-> Answers[u]]
        /\ ShownBalances = [u \in Txs |-> ShownBalances[u]]
    BY DEF Answers, ShownBalances
  <2> QED
    BY <1>5, <2>1
<1> QED
  BY <1>2, <1>3, <1>4, <1>5, <1>6 DEF Atomic!Call

LEMMA ReturnStep ==
  ASSUME BankIInv, BankIInv', NEW t \in Txs, ReturnBank(t)
  PROVE  Atomic!Return(t)
<1>1. /\ ThreadStep(t)
      /\ \A u \in Txs : u # t => SameThread(u)
      /\ bank_pc \in [Txs -> BankLabels]
  BY StepFacts DEF ThreadStep
<1>2. /\ bank_pc[t] = "returned" /\ bank_pc'[t] = "idle"
      /\ current_op' = [current_op EXCEPT ![t] = NoOp]
  BY <1>1 DEF ReturnBank, Proceed
<1>3. Ledger' = Ledger
  BY <1>1, <1>2, LedgerQuiet DEF Writes, WriteBalance, Debit, Credit, Proceed
<1>4. /\ Phases[t] = "done" /\ Phases'[t] = "idle"
      /\ Answers'[t] = FALSE
      /\ ShownBalances'[t] = 0
  BY <1>2 DEF Phases, Answers, ShownBalances, Finished
<1>5. /\ Phases' = [Phases EXCEPT ![t] = "idle"]
      /\ Answers' = [Answers EXCEPT ![t] = FALSE]
      /\ ShownBalances' = [ShownBalances EXCEPT ![t] = 0]
  BY <1>1, <1>4, MappedStep
<1> QED
  BY <1>2, <1>3, <1>4, <1>5, SameConstants DEF Atomic!Return

LEMMA AtomicInitially == BankInit => Atomic!Init
<1> SUFFICES ASSUME BankInit PROVE Atomic!Init
  OBVIOUS
<1>1. \A t \in Txs : bank_pc[t] = "idle"
  BY DEF BankInit
<1>2. Ledger \in [Accounts -> InitialBalances]
  <2>1. \A a \in Accounts : Transferring(a) = {}
    BY <1>1 DEF Transferring
  <2> QED
    BY <2>1 DEF Ledger, BankInit
<1>3. /\ Phases = [t \in Txs |-> "idle"]
      /\ Answers = [t \in Txs |-> FALSE]
      /\ ShownBalances = [t \in Txs |-> 0]
  BY <1>1 DEF Phases, Answers, ShownBalances, Finished
<1>4. current_op = [t \in Txs |-> NoOp]
  BY DEF BankInit
<1> QED
  BY <1>2, <1>3, <1>4, SameConstants DEF Atomic!Init

\* Every step of the bank is a step of the atomic one, or one that its callers do
\* not notice.
LEMMA AtomicStep ==
  ASSUME BankIInv, BankIInv', [BankNext]_bankVars
  PROVE  [Atomic!Next]_(Atomic!atomicVars)
<1>1. ASSUME NEW t \in Txs, BankStep(t) PROVE Atomic!Next \/ UNCHANGED Atomic!atomicVars
  BY <1>1, VisibleStep, HiddenStep DEF BankStep, Atomic!Next
<1>2. ASSUME NEW t \in Txs, NEW op \in Operations, CallBank(t, op) PROVE Atomic!Next
  BY <1>2, CallStep DEF Atomic!Next
<1>3. ASSUME NEW t \in Txs, ReturnBank(t) PROVE Atomic!Next
  BY <1>3, ReturnStep DEF Atomic!Next
<1>4. CASE UNCHANGED bankVars
  BY <1>4 DEF bankVars, Atomic!atomicVars, Ledger, Transferring, Phases, Answers, ShownBalances,
              Finished, OpType, Account, Amount
<1> QED
  BY <1>1, <1>2, <1>3, <1>4 DEF BankNext

\* Deposits, withdrawals, transfers and inquiries behave as if each ran alone, at
\* one moment between its call and its return, for any number of threads.
THEOREM BankIsAtomic == BankSpec => ImplementsAtomicBank
<1>1. BankInit => Atomic!Init
  BY AtomicInitially
<1>2. BankIInv /\ BankIInv' /\ [BankNext]_bankVars => [Atomic!Next]_(Atomic!atomicVars)
  BY AtomicStep
<1> QED
  BY <1>1, <1>2, BankInvariance, PTL DEF BankSpec, ImplementsAtomicBank, Atomic!Spec
================================================================================
