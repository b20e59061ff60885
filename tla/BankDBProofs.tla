------------------------------ MODULE BankDBProofs -----------------------------
(***************************************************************************)
(* Proofs about the whole program, for any trace and any number of         *)
(* transactions, accounts and slots: its threads use the pool, the bank    *)
(* and the clock as their modules assume, so the theorems about these hold *)
(* in the program; and the invariants that tie them together.              *)
(***************************************************************************)
EXTENDS BankDB, PinProofs, BankProofs, TimerProofs

ClockLabels == {"new", "awake", "asleep", "released", "running", "ended"}

MainLabels == {"start_timer", "create", "join", "stop", "join_timer", "report", "cleanup", "exited"}

\* The shape of the program's own variables, and of clock_pc.
ProgramShape ==
  /\ ops \in [Txs -> Programs]
  /\ op_index \in [Txs -> Nat \ {0}]
  /\ status \in [Txs -> {"RUNNING", "COMMITTED", "ABORTED"}]
  /\ failed \in [Txs -> BOOLEAN]
  /\ thread \in [Txs -> CreateOutcomes \cup {"null"}]
  /\ main_pc \in MainLabels
  /\ main_index \in Txs
  /\ clock_pc \in [Txs -> ClockLabels]

\* Thread t's own steps.
TxStep(t) == Transaction(t) \/ Spurious(t)

\* A step leaves the thread u where it is.
SameTx(u) ==
  /\ SameHolder(u)
  /\ bank_pc'[u] = bank_pc[u] /\ current_op'[u] = current_op[u]
  /\ clock_pc'[u] = clock_pc[u]
  /\ ops'[u] = ops[u] /\ op_index'[u] = op_index[u]
  /\ status'[u] = status[u] /\ failed'[u] = failed[u]
  /\ thread'[u] = thread[u]
--------------------------------------------------------------------------------
(***************************************************************************)
(* The pool and the bank in the program.                                   *)
(***************************************************************************)
LEMMA PoolInProgram == [Next]_vars => [PoolNext]_poolVars
<1> SUFFICES ASSUME [Next]_vars PROVE PoolNext \/ UNCHANGED poolVars
  OBVIOUS
<1>1. ASSUME NEW t \in Txs, TxStep(t) PROVE PoolNext \/ UNCHANGED poolVars
  <2>1. CASE LoadNext(t)
    BY <2>1 DEF LoadNext, Loadable, PoolNext, ClientStep
  <2>2. CASE Commit(t) \/ Abort(t)
    BY <2>2 DEF Commit, Abort, PoolNext, ClientStep
  <2>3. CASE InPool(t)
    BY <2>3 DEF InPool, PoolNext
  <2>4. CASE Wait(t) \/ Spurious(t) \/ Begin(t) \/ Execute(t) \/ TakeResult(t) \/ InBank(t)
    BY <2>4 DEF Wait, Spurious, Begin, Execute, TakeResult, InBank
  <2> QED
    BY <1>1, <2>1, <2>2, <2>3, <2>4 DEF TxStep, Transaction
<1>2. CASE Main \/ Clock \/ Terminated \/ UNCHANGED vars
  BY <1>2 DEF Main, Clock, Terminated, vars, CreateTimer, CreateTimerFails, Stop, JoinTimer, Report,
              Cleanup, CreateThread, JoinThread
<1> QED
  BY <1>1, <1>2 DEF Next, TxStep

\* The program drives the buffer pool as BufferPool assumes.
THEOREM PoolUsedAsAssumed == SafeSpec => PoolSafeSpec
<1>1. Init => PoolInit
  BY DEF Init
<1> QED
  BY <1>1, PoolInProgram, PTL DEF SafeSpec, PoolSafeSpec

LEMMA ShapeOfProgramInit == Init => ProgramShape
<1>1. 1 \in Txs
  <2>1. Cardinality(Txs) \in Nat
    BY BankTypesAssumption, FS_CardinalityType
  <2> QED
    BY <2>1, BankDBAssumption
<1> QED
  BY <1>1 DEF Init, ProgramShape, TimerInit, ClockLabels, MainLabels

LEMMA NextIndex ==
  ASSUME main_index \in Txs, NEW from, NEW to, LoopTo(from, to)
  PROVE  main_index' \in Txs
<1>1. Cardinality(Txs) \in Nat
  BY BankTypesAssumption, FS_CardinalityType
<1> QED
  BY <1>1, BankDBAssumption DEF LoopTo

LEMMA ShapeOfProgram ==
  ASSUME ProgramShape, [Next]_vars
  PROVE  ProgramShape'
<1> USE DEF ProgramShape, ClockLabels, MainLabels
<1>1. ASSUME NEW t \in Txs, TxStep(t) PROVE ProgramShape'
  <2>1. CASE Wait(t) \/ Spurious(t)
    BY <2>1 DEF Wait, Spurious, TestTick, SpuriousWakeup, MoveClock, txVars, mainVars
  <2>2. CASE Begin(t)
    BY <2>2 DEF Begin, RecordStart, MoveClock, mainVars
  <2>3. CASE LoadNext(t) \/ Execute(t) \/ InPool(t) \/ InBank(t)
    BY <2>3 DEF LoadNext, Execute, InPool, InBank, txVars, mainVars, timerVars
  <2>4. CASE TakeResult(t)
    BY <2>4 DEF TakeResult, OpFailed, mainVars, timerVars
  <2>5. CASE Commit(t) \/ Abort(t)
    BY <2>5 DEF Commit, Abort, RecordEnd, MoveClock, mainVars
  <2> QED
    BY <1>1, <2>1, <2>2, <2>3, <2>4, <2>5 DEF TxStep, Transaction
<1>2. CASE Clock
  BY <1>2 DEF Clock, TimerThread, TimerTick, TimerExit, Woken, txVars, mainVars
<1>3. CASE CreateTimer \/ CreateTimerFails
  BY <1>3 DEF CreateTimer, CreateTimerFails, StartTimer, StartTimerFails, MainGoTo, txVars
<1>4. CASE Stop
  BY <1>4 DEF Stop, StopSimulation, Woken, MainGoTo, txVars
<1>5. CASE JoinTimer \/ Report \/ Cleanup
  BY <1>5 DEF JoinTimer, Report, Cleanup, MainGoTo, txVars, timerVars
<1>6. ASSUME NEW t \in Txs, CreateThread(t) PROVE ProgramShape'
  <2>1. main_index' \in Txs /\ main_pc' \in MainLabels
    BY <1>6, NextIndex DEF CreateThread, LoopTo, MainGoTo
  <2>2. PICK outcome \in CreateOutcomes :
          /\ thread' = [thread EXCEPT ![t] = outcome]
          /\ IF outcome = "started"
             THEN EnterWait(t) /\ UNCHANGED status
             ELSE status' = [status EXCEPT ![t] = "ABORTED"] /\ UNCHANGED timerVars
    BY <1>6 DEF CreateThread
  <2>3. thread' \in [Txs -> CreateOutcomes \cup {"null"}]
    BY <2>2
  <2>4. /\ status' \in [Txs -> {"RUNNING", "COMMITTED", "ABORTED"}]
        /\ clock_pc' \in [Txs -> ClockLabels]
    BY <2>2 DEF EnterWait, MoveClock, timerVars
  <2> QED
    BY <1>6, <2>1, <2>3, <2>4 DEF CreateThread
<1>7. ASSUME NEW t \in Txs, JoinThread(t) PROVE ProgramShape'
  <2>1. main_index' \in Txs /\ main_pc' \in MainLabels
    BY <1>7, NextIndex DEF JoinThread, LoopTo, MainGoTo
  <2> QED
    BY <1>7, <2>1 DEF JoinThread, txVars, timerVars
<1>8. CASE UNCHANGED vars
  BY <1>8 DEF vars, txVars, mainVars, timerVars
<1> QED
  BY <1>1, <1>2, <1>3, <1>4, <1>5, <1>6, <1>7, <1>8 DEF Next, Main, TxStep, Terminated

\* Programs are short lists of operations.
LEMMA OpsOfProgram ==
  ASSUME ProgramShape, NEW t \in Txs
  PROVE  /\ Len(ops[t]) \in 1..MAX_OPS_PER_TX
         /\ ops[t] \in Seq(Operations)
         /\ MoreOps(t) => Op(t) \in Operations
<1>1. PICK n \in 1..MAX_OPS_PER_TX : ops[t] \in [1..n -> Operations]
  BY BankDBAssumption DEF ProgramShape
<1>2. n \in Nat /\ Len(ops[t]) = n /\ ops[t] \in Seq(Operations)
  BY <1>1, BankDBAssumption
<1> QED
  BY <1>1, <1>2 DEF ProgramShape, MoreOps, Op

LEMMA BankInProgram == ProgramShape /\ [Next]_vars => [BankNext]_bankVars
<1> SUFFICES ASSUME ProgramShape, [Next]_vars PROVE BankNext \/ UNCHANGED bankVars
  OBVIOUS
<1>1. ASSUME NEW t \in Txs, TxStep(t) PROVE BankNext \/ UNCHANGED bankVars
  <2>1. CASE Execute(t)
    BY <2>1, OpsOfProgram DEF Execute, BankNext
  <2>2. CASE TakeResult(t)
    BY <2>2 DEF TakeResult, BankNext
  <2>3. CASE InBank(t)
    BY <2>3 DEF InBank, BankNext
  <2>4. CASE Wait(t) \/ Spurious(t) \/ Begin(t) \/ LoadNext(t) \/ Commit(t) \/ Abort(t) \/ InPool(t)
    BY <2>4 DEF Wait, Spurious, Begin, LoadNext, Commit, Abort, InPool
  <2> QED
    BY <1>1, <2>1, <2>2, <2>3, <2>4 DEF TxStep, Transaction
<1>2. CASE Main \/ Clock \/ Terminated \/ UNCHANGED vars
  BY <1>2 DEF Main, Clock, Terminated, vars, CreateTimer, CreateTimerFails, Stop, JoinTimer, Report,
              Cleanup, CreateThread, JoinThread
<1> QED
  BY <1>1, <1>2 DEF Next, TxStep

LEMMA ProgramShapeAlways == SafeSpec => []ProgramShape
BY ShapeOfProgramInit, ShapeOfProgram, PTL DEF SafeSpec

\* The program calls the bank as Bank assumes: one call at a time per thread,
\* with the operations of the trace.
THEOREM BankUsedAsAssumed == SafeSpec => BankSpec
<1>1. Init => BankInit
  BY DEF Init
<1> QED
  BY <1>1, ProgramShapeAlways, BankInProgram, PTL DEF SafeSpec, BankSpec
--------------------------------------------------------------------------------
(***************************************************************************)
(* The invariant that ties the components together.                        *)
(***************************************************************************)
UnloadLabels == {"unload", "wait_full", "post_empty", "done"}

\* A thread that has not begun its transaction.
Early(t) == clock_pc[t] \in {"new", "awake", "asleep", "released"}

\* A thread is in at most one of the pool and the bank; it calls the bank with
\* the accounts of its operation loaded, and unloads them after its end.
ThreadStage(t) ==
  /\ pool_pc[t] \in LoadLabels =>
       /\ clock_pc[t] = "running" /\ bank_pc[t] = "idle" /\ ~failed[t] /\ MoreOps(t)
       /\ request[t] \in ToLoad(t) /\ request[t] = NextToLoad(t)
  /\ bank_pc[t] # "idle" =>
       /\ clock_pc[t] = "running" /\ pool_pc[t] = "idle" /\ ~failed[t] /\ MoreOps(t)
       /\ current_op[t] = Op(t) /\ ToLoad(t) = {}
  /\ failed[t] => clock_pc[t] \in {"running", "ended"} /\ MoreOps(t)
  /\ Early(t) => op_index[t] = 1 /\ loaded_accounts[t] = <<>>
  /\ clock_pc[t] = "ended" <=> pool_pc[t] \in UnloadLabels

\* What the status says; main sets that of a thread it could not create.
StatusStage(t) ==
  /\ clock_pc[t] \in {"awake", "asleep", "released", "running"} => status[t] = "RUNNING"
  /\ clock_pc[t] = "ended" => status[t] # "RUNNING"
  /\ status[t] = "COMMITTED" => clock_pc[t] = "ended" /\ ~failed[t] /\ ~MoreOps(t)

\* The accounts of each operation were loaded before the next began, so that
\* loaded_accounts always has room for those of one more.
RoomToLoad(t) ==
  LET n == Len(loaded_accounts[t])
      k == 2 * (op_index[t] - 1)
  IN  clock_pc[t] # "ended" =>
        /\ op_index[t] <= Len(ops[t]) + 1
        /\ n <= k + 2
        /\ ~MoreOps(t) => n <= k
        /\ MoreOps(t) /\ ToLoad(t) # {} => n <= k + 1
        /\ MoreOps(t) /\ Op(t).account_id \in ToLoad(t) => n <= k

\* The thread of t has ended or was never created.
Over(t) == Exited(t) \/ clock_pc[t] = "new"

\* Where main is: the threads it has created and joined, and the clock.
MainStage ==
  /\ \A t \in Txs : thread[t] = "started" <=> clock_pc[t] # "new"
  /\ main_pc = "start_timer" =>
       /\ main_index = 1 /\ timer_pc = "unborn" /\ ~simulation_running
       /\ \A t \in Txs : clock_pc[t] = "new" /\ status[t] = "RUNNING"
  /\ main_pc \in {"create", "join", "stop"} => timer_pc = "sleeping" /\ simulation_running
  /\ main_pc = "create" =>
       \A t \in Txs : /\ t < main_index => clock_pc[t] # "new" \/ status[t] = "ABORTED"
                      /\ t >= main_index => clock_pc[t] = "new" /\ status[t] = "RUNNING"
  /\ main_pc \in {"join", "stop", "join_timer", "report"} =>
       \A t \in Txs : clock_pc[t] # "new" \/ status[t] = "ABORTED"
  /\ main_pc = "join" => \A t \in Txs : t < main_index => Over(t)
  /\ main_pc \in {"stop", "join_timer", "report", "cleanup", "exited"} => \A t \in Txs : Over(t)
  /\ main_pc = "join_timer" => timer_pc \in {"sleeping", "exited"} /\ ~simulation_running
  /\ main_pc = "report" => timer_pc = "exited"
  /\ main_pc \in {"cleanup", "exited"} => timer_pc \in {"failed", "exited"}

ProgramIInv ==
  /\ \A t \in Txs : ThreadStage(t) /\ StatusStage(t) /\ RoomToLoad(t)
  /\ MainStage
LEMMA ProgramInitially == Init => ProgramIInv
<1> SUFFICES ASSUME Init PROVE ProgramIInv
  OBVIOUS
<1>1. ProgramShape
  BY ShapeOfProgramInit
<1>2. ASSUME NEW t \in Txs PROVE ThreadStage(t) /\ StatusStage(t) /\ RoomToLoad(t)
  <2>1. /\ pool_pc[t] = "idle" /\ bank_pc[t] = "idle" /\ failed[t] = FALSE /\ clock_pc[t] = "new"
        /\ loaded_accounts[t] = <<>> /\ op_index[t] = 1 /\ status[t] = "RUNNING"
    BY DEF Init, PoolInit, BankInit, TimerInit
  <2>2. Len(loaded_accounts[t]) = 0 /\ Len(ops[t]) \in Nat \ {0} /\ MoreOps(t)
    BY <1>1, <2>1, OpsOfProgram, BankDBAssumption DEF MoreOps
  <2> QED
    BY <2>1, <2>2 DEF ThreadStage, StatusStage, RoomToLoad, LoadLabels, UnloadLabels
<1>3. MainStage
  BY DEF Init, TimerInit, MainStage
<1> QED
  BY <1>2, <1>3 DEF ProgramIInv

LEMMA PoolMoves ==
  ASSUME PoolShape, NEW t \in Txs, PoolStep(t)
  PROVE  /\ pool_pc[t] \in LoadLabels \cup {"unload", "wait_full", "post_empty"}
         /\ pool_pc[t] \in LoadLabels =>
              \/ /\ pool_pc'[t] \in LoadLabels /\ request'[t] = request[t]
                 /\ loaded_accounts'[t] = loaded_accounts[t]
              \/ /\ pool_pc'[t] = "idle"
                 /\ loaded_accounts'[t] = Append(loaded_accounts[t], request[t])
         /\ pool_pc[t] \in UnloadLabels => pool_pc'[t] \in UnloadLabels
<1> USE DEF PoolShape, GoTo, LoadLabels, UnloadLabels
<1>1. CASE LookupHit(t) \/ PostFull(t) \/ ReturnPermit(t)
  BY <1>1 DEF LookupHit, PostFull, ReturnPermit, ReturnLoad
<1>2. CASE \/ LookupMiss(t) \/ TryWaitTaken(t) \/ TryWaitFull(t) \/ CountBlocked(t) \/ WaitEmpty(t)
           \/ InsertShared(t) \/ InsertFresh(t)
  BY <1>2 DEF LookupMiss, TryWaitTaken, TryWaitFull, CountBlocked, WaitEmpty, InsertShared, InsertFresh
<1>3. CASE UnloadShared(t) \/ UnloadLast(t) \/ WaitFull(t) \/ PostEmpty(t) \/ FinishUnload(t)
  BY <1>3 DEF UnloadShared, UnloadLast, WaitFull, PostEmpty, FinishUnload
<1> QED
  BY <1>1, <1>2, <1>3 DEF PoolStep

LEMMA BankMoves ==
  ASSUME BankTypeOK, NEW t \in Txs, BankStep(t)
  PROVE  /\ bank_pc[t] # "idle" /\ bank_pc'[t] # "idle"
         /\ current_op' = current_op
         /\ \A u \in Txs : u # t => bank_pc'[u] = bank_pc[u]
<1> USE DEF BankTypeOK, Proceed
<1>1. CASE Refuse(t) \/ Accept(t) \/ WriteLock(t) \/ ReadLock(t) \/ Unlock(t)
  BY <1>1 DEF Refuse, Accept, WriteLock, ReadLock, Unlock
<1>2. CASE \/ ReadBalance(t) \/ InsufficientFunds(t) \/ ReadForUpdate(t) \/ WriteBalance(t)
           \/ Debit(t) \/ ReadTarget(t) \/ Credit(t)
  BY <1>2 DEF ReadBalance, InsufficientFunds, ReadForUpdate, WriteBalance, Debit, ReadTarget, Credit
<1> QED
  BY <1>1, <1>2 DEF BankStep

\* A step of a thread leaves the other threads where they are.
LEMMA TxFrame ==
  ASSUME ProgramShape, PoolShape, BankTypeOK,
         NEW t \in Txs, TxStep(t), NEW u \in Txs, u # t
  PROVE  SameTx(u)
<1> USE DEF ProgramShape, BankTypeOK
<1>1. CASE Wait(t) \/ Spurious(t) \/ Begin(t)
  BY <1>1 DEF Wait, Spurious, Begin, TestTick, SpuriousWakeup, RecordStart, MoveClock, txVars, mainVars,
              poolVars, bankVars, SameTx, SameHolder
<1>2. CASE LoadNext(t) \/ InPool(t)
  <2>1. SameHolder(u)
    BY <1>2, OthersStay DEF LoadNext, InPool, Loadable, ThreadMoves, ClientStep
  <2> QED
    BY <1>2, <2>1 DEF LoadNext, InPool, SameTx, bankVars, timerVars, txVars, mainVars
<1>3. CASE Execute(t) \/ TakeResult(t)
  BY <1>3 DEF Execute, TakeResult, CallBank, ReturnBank, Proceed, SameTx, SameHolder, poolVars, timerVars,
              txVars, mainVars
<1>4. CASE InBank(t)
  BY <1>4, BankMoves DEF InBank, SameTx, SameHolder, poolVars, timerVars, txVars, mainVars
<1>5. CASE Commit(t) \/ Abort(t)
  <2>1. SameHolder(u)
    BY <1>5, OthersStay DEF Commit, Abort, ThreadMoves, ClientStep
  <2> QED
    BY <1>5, <2>1 DEF Commit, Abort, RecordEnd, MoveClock, SameTx, bankVars, mainVars
<1> QED
  BY <1>1, <1>2, <1>3, <1>4, <1>5 DEF TxStep, Transaction

LEMMA SameOps ==
  ASSUME NEW t \in Txs, ops'[t] = ops[t], op_index'[t] = op_index[t]
  PROVE  /\ MoreOps(t)' <=> MoreOps(t)
         /\ Op(t)' = Op(t)
         /\ loaded_accounts'[t] = loaded_accounts[t] =>
              ToLoad(t)' = ToLoad(t) /\ NextToLoad(t)' = NextToLoad(t)
BY DEF MoreOps, Op, ToLoad, NextToLoad

LEMMA SameStage ==
  ASSUME NEW u \in Txs, SameTx(u)
  PROVE  /\ ThreadStage(u)' <=> ThreadStage(u)
         /\ StatusStage(u)' <=> StatusStage(u)
         /\ RoomToLoad(u)' <=> RoomToLoad(u)
<1>1. /\ MoreOps(u)' <=> MoreOps(u)
      /\ Op(u)' = Op(u) /\ ToLoad(u)' = ToLoad(u) /\ NextToLoad(u)' = NextToLoad(u)
  BY SameOps DEF SameTx, SameHolder
<1>2. ThreadStage(u)' <=> ThreadStage(u)
  BY <1>1 DEF SameTx, SameHolder, ThreadStage, Early
<1>3. StatusStage(u)' <=> StatusStage(u)
  BY <1>1 DEF SameTx, StatusStage
<1>4. RoomToLoad(u)' <=> RoomToLoad(u)
  BY <1>1 DEF SameTx, SameHolder, RoomToLoad
<1> QED
  BY <1>2, <1>3, <1>4
\* The loaded accounts of t and the position of t in its program, with their types.
LEMMA Counters ==
  ASSUME ProgramShape, PoolShape, NEW t \in Txs
  PROVE  /\ loaded_accounts[t] \in Seq(Accounts) /\ Len(loaded_accounts[t]) \in Nat
         /\ op_index[t] \in Nat \ {0} /\ Len(ops[t]) \in 1..MAX_OPS_PER_TX
         /\ MAX_OPS_PER_TX \in Nat \ {0}
         /\ failed[t] \in BOOLEAN
BY OpsOfProgram, LenProperties, BankDBAssumption DEF ProgramShape, PoolShape

\* The own steps of a thread, one by one.
OwnParts(t) == ThreadStage(t) /\ StatusStage(t) /\ RoomToLoad(t)

LEMMA WaitingStage ==
  ASSUME ProgramShape, PoolShape, NEW t \in Txs, OwnParts(t), Wait(t) \/ Spurious(t) \/ Begin(t)
  PROVE  OwnParts(t)'
<1>1. /\ clock_pc[t] \in {"awake", "asleep", "released"}
      /\ clock_pc'[t] \in {"awake", "asleep", "released", "running"}
      /\ UNCHANGED <<pool_pc, bank_pc, current_op, failed, op_index, ops, loaded_accounts, request>>
      /\ status'[t] = "RUNNING"
  BY DEF Wait, Spurious, Begin, TestTick, SpuriousWakeup, RecordStart, MoveClock, txVars, poolVars,
         bankVars, ProgramShape, OwnParts, StatusStage
<1>2. /\ MoreOps(t)' <=> MoreOps(t)
      /\ Op(t)' = Op(t) /\ ToLoad(t)' = ToLoad(t) /\ NextToLoad(t)' = NextToLoad(t)
  BY <1>1, SameOps
<1>3. /\ pool_pc[t] \notin LoadLabels /\ bank_pc[t] = "idle" /\ ~failed[t]
      /\ op_index[t] = 1 /\ loaded_accounts[t] = <<>> /\ pool_pc[t] \notin UnloadLabels
  BY <1>1 DEF OwnParts, ThreadStage, Early
<1>4. ThreadStage(t)'
  BY <1>1, <1>3 DEF ThreadStage, Early
<1>5. StatusStage(t)'
  BY <1>1 DEF StatusStage
<1>6. RoomToLoad(t)'
  BY <1>1, <1>2 DEF OwnParts, RoomToLoad
<1> QED
  BY <1>4, <1>5, <1>6 DEF OwnParts

LEMMA LoadingStage ==
  ASSUME ProgramShape, PoolShape, NEW t \in Txs, OwnParts(t), OwnList(t), LoadNext(t) \/ InPool(t)
  PROVE  OwnParts(t)'
<1>1. /\ UNCHANGED <<bank_pc, current_op, failed, op_index, ops, clock_pc, status>>
      /\ MoreOps(t)' <=> MoreOps(t)
      /\ Op(t)' = Op(t)
      /\ loaded_accounts'[t] = loaded_accounts[t] =>
           ToLoad(t)' = ToLoad(t) /\ NextToLoad(t)' = NextToLoad(t)
  BY SameOps DEF LoadNext, InPool, bankVars, timerVars, txVars
<1>2. StatusStage(t)'
  BY <1>1 DEF OwnParts, StatusStage
<1>3. CASE LoadNext(t)
  <2>1. /\ clock_pc[t] = "running" /\ bank_pc[t] = "idle" /\ ~failed[t] /\ MoreOps(t)
        /\ pool_pc[t] = "idle" /\ pool_pc'[t] = "lookup"
        /\ request'[t] = NextToLoad(t) /\ ToLoad(t) # {}
        /\ loaded_accounts' = loaded_accounts
    BY <1>3 DEF LoadNext, InLoop, Loadable, CallLoad, GoTo, PoolShape
  <2>2. NextToLoad(t) \in ToLoad(t)
    BY <2>1 DEF NextToLoad, ToLoad, OpAccounts
  <2>3. ThreadStage(t)'
    BY <1>1, <2>1, <2>2 DEF ThreadStage, Early, LoadLabels, UnloadLabels
  <2>4. RoomToLoad(t)'
    BY <1>1, <2>1 DEF OwnParts, RoomToLoad
  <2> QED
    BY <1>2, <2>3, <2>4 DEF OwnParts
<1>4. CASE InPool(t) /\ pool_pc[t] \in LoadLabels /\ loaded_accounts'[t] = loaded_accounts[t]
  <2>1. pool_pc'[t] \in LoadLabels /\ request'[t] = request[t]
    <3>1. loaded_accounts[t] # Append(loaded_accounts[t], request[t])
      <4>1. loaded_accounts[t] \in Seq(Accounts) /\ request[t] \in Accounts
        BY <1>4 DEF PoolShape
      <4>2. Len(Append(loaded_accounts[t], request[t])) # Len(loaded_accounts[t])
        BY <4>1, AppendProperties, LenProperties
      <4> QED
        BY <4>2
    <3> QED
      BY <1>4, <3>1, PoolMoves DEF InPool
  <2>2. ThreadStage(t)'
    BY <1>1, <1>4, <2>1 DEF OwnParts, ThreadStage, Early, LoadLabels, UnloadLabels
  <2>3. RoomToLoad(t)'
    BY <1>1, <1>4 DEF OwnParts, RoomToLoad
  <2> QED
    BY <1>2, <2>2, <2>3 DEF OwnParts
<1>5. CASE InPool(t) /\ pool_pc[t] \in LoadLabels /\ loaded_accounts'[t] # loaded_accounts[t]
  <2>1. pool_pc'[t] = "idle" /\ loaded_accounts'[t] = Append(loaded_accounts[t], request[t])
    BY <1>5, PoolMoves DEF InPool
  <2>2. /\ clock_pc[t] = "running" /\ bank_pc[t] = "idle" /\ ~failed[t] /\ MoreOps(t)
        /\ request[t] \in ToLoad(t) /\ request[t] = NextToLoad(t)
    BY <1>5 DEF OwnParts, ThreadStage
  <2>3. /\ request[t] \in Accounts
        /\ loaded_accounts[t] \in Seq(Accounts) /\ Len(loaded_accounts[t]) \in Nat
        /\ op_index[t] \in Nat \ {0} /\ Len(ops[t]) \in Nat
    BY <1>5, Counters DEF PoolShape
  <2>4. /\ ToSet(loaded_accounts'[t]) = ToSet(loaded_accounts[t]) \cup {request[t]}
        /\ Len(loaded_accounts'[t]) = Len(loaded_accounts[t]) + 1
    BY <2>1, <2>3, ListAppend, AppendProperties
  <2>5. ToLoad(t)' = ToLoad(t) \ {request[t]}
    BY <1>1, <2>4 DEF ToLoad
  <2>6. ThreadStage(t)'
    BY <1>1, <2>1, <2>2 DEF ThreadStage, Early, LoadLabels, UnloadLabels
  <2>7. RoomToLoad(t)'
    <3>1. /\ op_index[t] <= Len(ops[t]) + 1
          /\ Len(loaded_accounts[t]) <= 2 * (op_index[t] - 1) + 1
          /\ Op(t).account_id \in ToLoad(t) => Len(loaded_accounts[t]) <= 2 * (op_index[t] - 1)
      BY <2>2 DEF OwnParts, RoomToLoad
    <3>2. Op(t).account_id \notin ToLoad(t)'
      BY <2>2, <2>5 DEF NextToLoad
    <3>3. Op(t).account_id \notin ToLoad(t) => ToLoad(t)' = {}
      BY <2>2, <2>5 DEF NextToLoad, ToLoad, OpAccounts
    <3>4. MoreOps(t)' /\ Op(t)' = Op(t)
      BY <1>1, <2>2
    <3> HIDE DEF ToLoad, Op, MoreOps
    <3>5. ToLoad(t)' # {} => Len(loaded_accounts'[t]) <= 2 * (op_index[t] - 1) + 1
      BY <2>3, <2>4, <3>1, <3>3
    <3>6. Len(loaded_accounts'[t]) <= 2 * (op_index[t] - 1) + 2
      BY <2>3, <2>4, <3>1
    <3> QED
      BY <1>1, <2>2, <3>1, <3>2, <3>4, <3>5, <3>6 DEF RoomToLoad
  <2> QED
    BY <1>2, <2>6, <2>7 DEF OwnParts
<1>6. CASE InPool(t) /\ pool_pc[t] \notin LoadLabels
  <2>1. pool_pc[t] \in UnloadLabels /\ pool_pc'[t] \in UnloadLabels
    BY <1>6, PoolMoves DEF InPool, UnloadLabels
  <2>2. clock_pc[t] = "ended" /\ bank_pc[t] = "idle"
    BY <2>1 DEF OwnParts, ThreadStage, UnloadLabels
  <2>3. ThreadStage(t)'
    BY <1>1, <2>1, <2>2 DEF OwnParts, ThreadStage, Early, LoadLabels, UnloadLabels
  <2>4. RoomToLoad(t)'
    BY <1>1, <2>2 DEF RoomToLoad
  <2> QED
    BY <1>2, <2>3, <2>4 DEF OwnParts
<1> QED
  BY <1>3, <1>4, <1>5, <1>6

LEMMA BankingStage ==
  ASSUME ProgramShape, PoolShape, BankTypeOK, NEW t \in Txs, OwnParts(t),
         Execute(t) \/ InBank(t) \/ TakeResult(t)
  PROVE  OwnParts(t)'
<1>1. UNCHANGED <<pool_pc, request, loaded_accounts, ops, clock_pc, status>>
  BY DEF Execute, InBank, TakeResult, poolVars, timerVars, txVars
<1>2. CASE Execute(t) \/ InBank(t)
  <2>1. /\ UNCHANGED <<failed, op_index>>
        /\ clock_pc[t] = "running" /\ pool_pc[t] = "idle" /\ ~failed[t] /\ MoreOps(t)
        /\ current_op'[t] = Op(t) /\ ToLoad(t) = {}
    <3>1. CASE Execute(t)
      BY <3>1 DEF Execute, InLoop, CallBank, txVars, BankTypeOK
    <3>2. CASE InBank(t)
      BY <3>2, BankMoves DEF InBank, txVars, OwnParts, ThreadStage
    <3> QED
      BY <1>2, <3>1, <3>2
  <2>2. /\ MoreOps(t)' <=> MoreOps(t)
        /\ Op(t)' = Op(t) /\ ToLoad(t)' = ToLoad(t) /\ NextToLoad(t)' = NextToLoad(t)
    BY <1>1, <2>1, SameOps
  <2>3. ThreadStage(t)'
    BY <1>1, <2>1, <2>2 DEF ThreadStage, Early, LoadLabels, UnloadLabels
  <2>4. StatusStage(t)'
    BY <1>1, <2>1, <2>2 DEF OwnParts, StatusStage
  <2>5. RoomToLoad(t)'
    BY <1>1, <2>1, <2>2 DEF OwnParts, RoomToLoad
  <2> QED
    BY <2>3, <2>4, <2>5 DEF OwnParts
<1>3. CASE TakeResult(t)
  <2>1. /\ bank_pc[t] = "returned" /\ bank_pc'[t] = "idle"
        /\ failed'[t] = OpFailed(t)
        /\ op_index'[t] = IF OpFailed(t) THEN op_index[t] ELSE op_index[t] + 1
    BY <1>3 DEF TakeResult, ReturnBank, Proceed, ProgramShape, BankTypeOK
  <2>2. /\ clock_pc[t] = "running" /\ pool_pc[t] = "idle" /\ MoreOps(t)
    BY <2>1 DEF OwnParts, ThreadStage
  <2>3. /\ Len(loaded_accounts[t]) \in Nat /\ op_index[t] \in Nat \ {0} /\ Len(ops[t]) \in Nat
        /\ op_index[t] <= Len(ops[t]) /\ Len(loaded_accounts[t]) <= 2 * (op_index[t] - 1) + 2
    BY <2>2, Counters DEF OwnParts, RoomToLoad, MoreOps
  <2>4. StatusStage(t)'
    BY <1>1, <2>2 DEF OwnParts, StatusStage
  <2>5. CASE OpFailed(t)
    <3>1. /\ MoreOps(t)' <=> MoreOps(t)
          /\ Op(t)' = Op(t) /\ ToLoad(t)' = ToLoad(t)
      BY <1>1, <2>1, <2>5, SameOps
    <3>2. ThreadStage(t)'
      BY <1>1, <2>1, <2>2, <3>1 DEF ThreadStage, Early, LoadLabels, UnloadLabels
    <3>3. RoomToLoad(t)'
      BY <1>1, <2>1, <2>5, <3>1 DEF OwnParts, RoomToLoad
    <3> QED
      BY <2>4, <3>2, <3>3 DEF OwnParts
  <2>6. CASE ~OpFailed(t)
    <3>1. op_index'[t] = op_index[t] + 1 /\ ~failed'[t]
      BY <2>1, <2>6
    <3>2. ThreadStage(t)'
      BY <1>1, <2>1, <2>2, <3>1 DEF ThreadStage, Early, LoadLabels, UnloadLabels
    <3>3. /\ op_index'[t] <= Len(ops[t]) + 1
          /\ Len(loaded_accounts[t]) <= 2 * (op_index'[t] - 1)
          /\ 2 * (op_index'[t] - 1) \in Nat
      BY <2>3, <3>1
    <3>4. RoomToLoad(t)'
      BY <1>1, <2>3, <3>3 DEF RoomToLoad
    <3> QED
      BY <2>4, <3>2, <3>4 DEF OwnParts
  <2> QED
    BY <2>5, <2>6
<1> QED
  BY <1>2, <1>3

LEMMA EndingStage ==
  ASSUME ProgramShape, PoolShape, NEW t \in Txs, OwnParts(t), Commit(t) \/ Abort(t)
  PROVE  OwnParts(t)'
<1>1. /\ clock_pc[t] = "running" /\ clock_pc'[t] = "ended"
      /\ pool_pc[t] = "idle" /\ pool_pc'[t] = "unload"
      /\ UNCHANGED <<bank_pc, current_op, request, loaded_accounts, ops, op_index, failed>>
      /\ MoreOps(t)' <=> MoreOps(t)
  BY SameOps DEF Commit, Abort, RecordEnd, MoveClock, BeginUnload, GoTo, bankVars, ProgramShape, PoolShape
<1>2. bank_pc[t] = "idle"
  BY DEF Commit, Abort, InLoop, OwnParts, ThreadStage
<1>3. ThreadStage(t)'
  BY <1>1, <1>2 DEF OwnParts, ThreadStage, Early, LoadLabels, UnloadLabels
<1>4. StatusStage(t)'
  <2>1. CASE Commit(t)
    BY <1>1, <2>1 DEF Commit, InLoop, StatusStage, ProgramShape
  <2>2. CASE Abort(t)
    BY <1>1, <2>2 DEF Abort, StatusStage, ProgramShape
  <2> QED
    BY <2>1, <2>2
<1>5. RoomToLoad(t)'
  BY <1>1 DEF RoomToLoad
<1> QED
  BY <1>3, <1>4, <1>5 DEF OwnParts

LEMMA OwnStep ==
  ASSUME ProgramShape, PoolShape, BankTypeOK, NEW t \in Txs, OwnParts(t), OwnList(t), TxStep(t)
  PROVE  OwnParts(t)'
BY WaitingStage, LoadingStage, BankingStage, EndingStage DEF TxStep, Transaction
\* Only threads that were created and have not ended take steps.
LEMMA StepsOfLiving ==
  ASSUME ProgramShape, PoolShape, BankTypeOK, NEW t \in Txs, OwnParts(t), TxStep(t)
  PROVE  /\ clock_pc[t] # "new" /\ clock_pc'[t] # "new" /\ pool_pc[t] # "done"
         /\ UNCHANGED <<thread, main_pc, main_index, timer_pc, simulation_running>>
<1> USE DEF ProgramShape
<1>1. CASE Wait(t) \/ Spurious(t) \/ Begin(t)
  BY <1>1 DEF Wait, Spurious, Begin, TestTick, SpuriousWakeup, RecordStart, MoveClock, mainVars, OwnParts,
              ThreadStage, UnloadLabels
<1>2. CASE LoadNext(t) \/ Execute(t)
  BY <1>2 DEF LoadNext, Execute, InLoop, timerVars, mainVars
<1>3. CASE InPool(t)
  BY <1>3, PoolMoves DEF InPool, timerVars, mainVars, OwnParts, ThreadStage, LoadLabels, UnloadLabels
<1>4. CASE InBank(t)
  BY <1>4, BankMoves DEF InBank, timerVars, mainVars, OwnParts, ThreadStage
<1>5. CASE TakeResult(t)
  BY <1>5 DEF TakeResult, ReturnBank, Proceed, timerVars, mainVars, OwnParts, ThreadStage
<1>6. CASE Commit(t) \/ Abort(t)
  BY <1>6 DEF Commit, Abort, RecordEnd, MoveClock, BeginUnload, GoTo, mainVars
<1> QED
  BY <1>1, <1>2, <1>3, <1>4, <1>5, <1>6 DEF TxStep, Transaction

\* The clock and main only wake threads, apart from CreateThread.
Wakes(u) ==
  /\ SameHolder(u) /\ bank_pc'[u] = bank_pc[u] /\ current_op'[u] = current_op[u]
  /\ ops'[u] = ops[u] /\ op_index'[u] = op_index[u]
  /\ status'[u] = status[u] /\ failed'[u] = failed[u]
  /\ clock_pc'[u] = IF clock_pc[u] = "asleep" /\ clock_pc' = Woken THEN "awake" ELSE clock_pc[u]

LEMMA WokenStage ==
  ASSUME NEW u \in Txs, Wakes(u), OwnParts(u)
  PROVE  OwnParts(u)'
<1>1. /\ MoreOps(u)' <=> MoreOps(u)
      /\ Op(u)' = Op(u) /\ ToLoad(u)' = ToLoad(u) /\ NextToLoad(u)' = NextToLoad(u)
  BY SameOps DEF Wakes, SameHolder
<1>2. clock_pc'[u] = clock_pc[u] \/ (clock_pc[u] = "asleep" /\ clock_pc'[u] = "awake")
  BY DEF Wakes
<1>3. ThreadStage(u)'
  BY <1>1, <1>2 DEF Wakes, SameHolder, OwnParts, ThreadStage, Early
<1>4. StatusStage(u)'
  BY <1>1, <1>2 DEF Wakes, OwnParts, StatusStage
<1>5. RoomToLoad(u)'
  BY <1>1, <1>2 DEF Wakes, SameHolder, OwnParts, RoomToLoad
<1> QED
  BY <1>3, <1>4, <1>5 DEF OwnParts

\* The steps of main and of the timer thread, but for the creation of threads.
Bystander ==
  \/ Clock \/ CreateTimer \/ CreateTimerFails \/ Stop \/ JoinTimer \/ Report \/ Cleanup
  \/ (\E t \in Txs : JoinThread(t)) \/ UNCHANGED vars

LEMMA BystanderWakes ==
  ASSUME ProgramShape, Bystander, NEW u \in Txs
  PROVE  Wakes(u)
<1>1. UNCHANGED <<pool_pc, request, loaded_accounts, bank_pc, current_op, ops, op_index, status, failed>>
  BY DEF Bystander, Clock, CreateTimer, CreateTimerFails, Stop, JoinTimer, Report, Cleanup, JoinThread,
         vars, poolVars, bankVars, txVars
<1>2. clock_pc' = clock_pc \/ clock_pc' = Woken
  BY DEF Bystander, Clock, CreateTimer, CreateTimerFails, Stop, JoinTimer, Report, Cleanup, JoinThread,
         vars, timerVars, TimerThread, TimerTick, TimerExit, StartTimer, StartTimerFails, StopSimulation
<1> QED
  BY <1>1, <1>2 DEF Wakes, SameHolder, Woken

LEMMA CreateStage ==
  ASSUME ProgramShape, PoolShape, MainStage, NEW t \in Txs, CreateThread(t),
         NEW u \in Txs, OwnParts(u)
  PROVE  OwnParts(u)'
<1>1. UNCHANGED <<pool_pc, request, loaded_accounts, bank_pc, current_op, ops, op_index, failed>>
  BY DEF CreateThread, poolVars, bankVars
<1>2. /\ u # t => clock_pc'[u] = clock_pc[u] /\ status'[u] = status[u]
      /\ u = t => \/ clock_pc'[u] = "awake" /\ status'[u] = status[u]
                  \/ clock_pc'[u] = clock_pc[u] /\ status'[u] = "ABORTED"
  BY DEF CreateThread, EnterWait, MoveClock, timerVars, ProgramShape
<1>3. u = t => clock_pc[u] = "new" /\ status[u] = "RUNNING"
  <2>1. main_index = t /\ main_pc = "create"
    BY DEF CreateThread, LoopTo, MainGoTo
  <2>2. t \in Int
    BY BankTypesAssumption, FS_CardinalityType, BankDBAssumption
  <2> QED
    BY <2>1, <2>2 DEF MainStage
<1>4. /\ MoreOps(u)' <=> MoreOps(u)
      /\ Op(u)' = Op(u) /\ ToLoad(u)' = ToLoad(u) /\ NextToLoad(u)' = NextToLoad(u)
  BY <1>1, SameOps
<1>5. ThreadStage(u)'
  BY <1>1, <1>2, <1>3, <1>4 DEF OwnParts, ThreadStage, Early
<1>6. StatusStage(u)'
  BY <1>1, <1>2, <1>3, <1>4 DEF OwnParts, StatusStage
<1>7. RoomToLoad(u)'
  BY <1>1, <1>2, <1>3, <1>4 DEF OwnParts, RoomToLoad
<1> QED
  BY <1>5, <1>6, <1>7 DEF OwnParts
--------------------------------------------------------------------------------
(***************************************************************************)
(* main                                                                    *)
(***************************************************************************)

\* A step of a thread is none of a thread that is over, so once main has joined
\* them all there are none.
LEMMA MainStageTx ==
  ASSUME ProgramShape, PoolShape, BankTypeOK, MainStage, NEW t \in Txs, OwnParts(t), TxStep(t)
  PROVE  MainStage'
<1>1. /\ clock_pc[t] # "new" /\ clock_pc'[t] # "new" /\ pool_pc[t] # "done"
      /\ UNCHANGED <<thread, main_pc, main_index, timer_pc, simulation_running>>
  BY StepsOfLiving
<1>2. \A u \in Txs : u # t => SameTx(u)
  BY TxFrame
<1>3. ~Over(t)
  BY <1>1 DEF Over, Exited
<1>4. \A u \in Txs : /\ clock_pc'[u] = "new" <=> clock_pc[u] = "new"
                     /\ clock_pc[u] = "new" => status'[u] = status[u]
                     /\ Over(u) => Over(u)'
  BY <1>1, <1>2, <1>3 DEF SameTx, SameHolder, Over, Exited
<1>5. main_pc \in {"create", "join"}
  BY <1>1, <1>3 DEF MainStage, ProgramShape, MainLabels
<1> QED
  BY <1>1, <1>4, <1>5 DEF MainStage

LEMMA MainStageCreate ==
  ASSUME ProgramShape, MainStage, NEW t \in Txs, CreateThread(t)
  PROVE  MainStage'
<1>1. /\ main_pc = "create" /\ main_index = t
      /\ UNCHANGED <<timer_pc, simulation_running, pool_pc>>
      /\ \/ t = Cardinality(Txs) /\ main_pc' = "join" /\ main_index' = 1
         \/ t # Cardinality(Txs) /\ main_pc' = "create" /\ main_index' = t + 1
  BY DEF CreateThread, LoopTo, MainGoTo, EnterWait, poolVars, timerVars
<1>2. PICK outcome \in CreateOutcomes :
        /\ thread' = [thread EXCEPT ![t] = outcome]
        /\ IF outcome = "started"
           THEN EnterWait(t) /\ UNCHANGED status
           ELSE status' = [status EXCEPT ![t] = "ABORTED"] /\ UNCHANGED timerVars
  BY DEF CreateThread
<1>3. /\ \A u \in Txs : u # t => /\ thread'[u] = thread[u] /\ clock_pc'[u] = clock_pc[u]
                                /\ status'[u] = status[u]
      /\ thread'[t] = outcome
      /\ outcome = "started" => clock_pc'[t] = "awake"
      /\ outcome # "started" => clock_pc'[t] = clock_pc[t] /\ status'[t] = "ABORTED"
  BY <1>2 DEF EnterWait, MoveClock, timerVars, ProgramShape
<1>4. /\ \A u \in Txs : u \in Int /\ 1 <= u /\ u <= Cardinality(Txs)
      /\ Cardinality(Txs) \in Int
  BY BankTypesAssumption, FS_CardinalityType, BankDBAssumption
<1>5. clock_pc[t] = "new" /\ status[t] = "RUNNING"
  BY <1>1, <1>4 DEF MainStage
<1>6. \A u \in Txs : thread'[u] = "started" <=> clock_pc'[u] # "new"
  BY <1>3, <1>5 DEF MainStage
<1>7. \A u \in Txs : u <= t => clock_pc'[u] # "new" \/ status'[u] = "ABORTED"
  <2> SUFFICES ASSUME NEW u \in Txs, u <= t PROVE clock_pc'[u] # "new" \/ status'[u] = "ABORTED"
    OBVIOUS
  <2>1. CASE u = t
    BY <1>3, <2>1
  <2>2. CASE u # t
    <3>1. u < t
      BY <1>4, <2>2
    <3> QED
      BY <1>1, <1>3, <2>2, <3>1 DEF MainStage
  <2> QED
    BY <2>1, <2>2
<1>8. \A u \in Txs : u >= t + 1 => clock_pc'[u] = "new" /\ status'[u] = "RUNNING"
  <2> SUFFICES ASSUME NEW u \in Txs, u >= t + 1 PROVE clock_pc'[u] = "new" /\ status'[u] = "RUNNING"
    OBVIOUS
  <2>1. u # t /\ u >= t
    BY <1>4
  <2> QED
    BY <1>1, <1>3, <2>1 DEF MainStage
<1>9. CASE main_pc' = "join"
  <2>1. \A u \in Txs : clock_pc'[u] # "new" \/ status'[u] = "ABORTED"
    BY <1>1, <1>4, <1>7, <1>9
  <2>2. \A u \in Txs : ~(u < main_index')
    BY <1>1, <1>4, <1>9
  <2> QED
    BY <1>1, <1>6, <1>9, <2>1, <2>2 DEF MainStage
<1>10. CASE main_pc' = "create"
  <2>1. \A u \in Txs : u < t + 1 => u <= t
    BY <1>4
  <2>2. main_index' = t + 1
    BY <1>1, <1>10
  <2> QED
    BY <1>1, <1>6, <1>7, <1>8, <1>10, <2>1, <2>2 DEF MainStage
<1> QED
  BY <1>1, <1>9, <1>10

LEMMA MainStageJoin ==
  ASSUME ProgramShape, MainStage, NEW t \in Txs, JoinThread(t)
  PROVE  MainStage'
<1>1. /\ main_pc = "join" /\ main_index = t
      /\ UNCHANGED <<timer_pc, simulation_running, pool_pc, clock_pc, thread, status>>
      /\ \/ t = Cardinality(Txs) /\ main_pc' = "stop" /\ main_index' = 1
         \/ t # Cardinality(Txs) /\ main_pc' = "join" /\ main_index' = t + 1
      /\ Over(t)
  BY DEF JoinThread, LoopTo, MainGoTo, poolVars, timerVars, txVars, MainStage, Over
<1>2. /\ \A u \in Txs : u \in Int /\ u <= Cardinality(Txs)
      /\ Cardinality(Txs) \in Int
  BY BankTypesAssumption, FS_CardinalityType, BankDBAssumption
<1>3. \A u \in Txs : u <= t => Over(u)
  <2> SUFFICES ASSUME NEW u \in Txs, u <= t, u # t PROVE Over(u)
    BY <1>1
  <2>1. u < t
    BY <1>2
  <2> QED
    BY <1>1, <2>1 DEF MainStage
<1>4. \A u \in Txs : Over(u)' <=> Over(u)
  BY <1>1 DEF Over, Exited
<1>5. CASE main_pc' = "stop"
  <2>1. \A u \in Txs : Over(u)'
    BY <1>1, <1>2, <1>3, <1>4, <1>5
  <2> QED
    BY <1>1, <1>5, <2>1 DEF MainStage
<1>6. CASE main_pc' = "join"
  <2>1. \A u \in Txs : u < main_index' => Over(u)'
    BY <1>1, <1>2, <1>3, <1>4, <1>6
  <2> QED
    BY <1>1, <1>6, <2>1 DEF MainStage
<1> QED
  BY <1>1, <1>5, <1>6

LEMMA MainStageOther ==
  ASSUME ProgramShape, MainStage, Bystander, ~\E t \in Txs : JoinThread(t)
  PROVE  MainStage'
<1>1. UNCHANGED <<thread, main_index, status, pool_pc>>
  BY DEF Bystander, Clock, CreateTimer, CreateTimerFails, Stop, JoinTimer, Report, Cleanup, vars, poolVars,
         txVars, mainVars
<1>2. \A u \in Txs : clock_pc'[u] = "new" <=> clock_pc[u] = "new"
  BY BystanderWakes DEF Wakes
<1>3. \A u \in Txs : Over(u)' <=> Over(u)
  BY <1>1, <1>2 DEF Over, Exited
<1>4. CASE Clock
  <2>1. /\ main_pc' = main_pc /\ simulation_running' = simulation_running /\ timer_pc = "sleeping"
        /\ timer_pc' = timer_pc \/ (~simulation_running /\ timer_pc' = "exited")
    BY <1>4 DEF Clock, mainVars, TimerThread, TimerTick, TimerExit
  <2> QED
    BY <1>1, <1>2, <1>3, <2>1 DEF MainStage
<1>5. CASE CreateTimer
  <2>1. /\ main_pc = "start_timer" /\ main_pc' = "create"
        /\ simulation_running' = TRUE /\ timer_pc' = "sleeping"
    BY <1>5 DEF CreateTimer, StartTimer, MainGoTo
  <2>2. \A u \in Txs : ~(u < 1)
    BY BankTypesAssumption, FS_CardinalityType, BankDBAssumption
  <2> QED
    BY <1>1, <1>2, <2>1, <2>2 DEF MainStage
<1>6. CASE CreateTimerFails
  <2>1. main_pc = "start_timer" /\ main_pc' = "cleanup" /\ timer_pc' = "failed"
    BY <1>6 DEF CreateTimerFails, StartTimerFails, MainGoTo
  <2>2. \A u \in Txs : Over(u)'
    BY <1>2, <2>1 DEF MainStage, Over
  <2> QED
    BY <1>1, <1>2, <2>1, <2>2 DEF MainStage
<1>7. CASE Stop
  <2>1. /\ main_pc = "stop" /\ main_pc' = "join_timer"
        /\ timer_pc' = "sleeping" /\ simulation_running' = FALSE
    BY <1>7 DEF Stop, StopSimulation, MainGoTo
  <2> QED
    BY <1>1, <1>2, <1>3, <2>1 DEF MainStage
<1>8. CASE JoinTimer \/ Report \/ Cleanup
  <2>1. /\ UNCHANGED <<timer_pc, simulation_running>>
        /\ \/ main_pc = "join_timer" /\ main_pc' = "report" /\ timer_pc = "exited"
           \/ main_pc = "report" /\ main_pc' = "cleanup"
           \/ main_pc = "cleanup" /\ main_pc' = "exited"
    BY <1>8 DEF JoinTimer, Report, Cleanup, MainGoTo, timerVars
  <2> QED
    BY <1>1, <1>2, <1>3, <2>1 DEF MainStage
<1>9. CASE UNCHANGED vars
  BY <1>1, <1>2, <1>3, <1>9 DEF vars, timerVars, mainVars, MainStage
<1> QED
  BY <1>4, <1>5, <1>6, <1>7, <1>8, <1>9 DEF Bystander

LEMMA ProgramStep ==
  ASSUME ProgramShape, PoolIInv, PinIInv, BankIInv, ProgramIInv, [Next]_vars
  PROVE  ProgramIInv'
<1>1. /\ PoolShape /\ BankTypeOK /\ MainStage
      /\ \A u \in Txs : OwnParts(u) /\ OwnList(u)
  BY DEF PoolIInv, PinIInv, BankIInv, ProgramIInv, OwnParts
<1>2. (\A u \in Txs : OwnParts(u)') /\ MainStage' => ProgramIInv'
  BY DEF ProgramIInv, OwnParts
<1>3. ASSUME NEW t \in Txs, TxStep(t) PROVE ProgramIInv'
  <2>1. ASSUME NEW u \in Txs PROVE OwnParts(u)'
    <3>1. CASE u = t
      BY <1>1, <1>3, <3>1, OwnStep
    <3>2. CASE u # t
      BY <1>1, <1>3, <3>2, TxFrame, SameStage DEF OwnParts
    <3> QED
      BY <3>1, <3>2
  <2> QED
    BY <1>1, <1>2, <1>3, <2>1, MainStageTx
<1>4. ASSUME NEW t \in Txs, CreateThread(t) PROVE ProgramIInv'
  BY <1>1, <1>2, <1>4, CreateStage, MainStageCreate
<1>5. CASE Bystander
  <2>1. \A u \in Txs : OwnParts(u)'
    BY <1>1, <1>5, BystanderWakes, WokenStage
  <2> QED
    BY <1>1, <1>2, <1>5, <2>1, MainStageJoin, MainStageOther
<1> QED
  BY <1>3, <1>4, <1>5 DEF Next, Main, Terminated, TxStep, Bystander
--------------------------------------------------------------------------------
(***************************************************************************)
(* The clock in the program, and the invariant of the whole.               *)
(***************************************************************************)
EveryIInv == ProgramShape /\ PoolIInv /\ PinIInv /\ BankIInv /\ ProgramIInv

LEMMA EveryInvariance == SafeSpec => []EveryIInv
<1>1. SafeSpec => [](ProgramShape /\ PoolIInv /\ PinIInv /\ BankIInv)
  BY ProgramShapeAlways, PoolUsedAsAssumed, BankUsedAsAssumed, PoolInvariance, PinInvariance,
     BankInvariance, PTL
<1>2. ProgramShape /\ PoolIInv /\ PinIInv /\ BankIInv /\ ProgramIInv /\ [Next]_vars => ProgramIInv'
  BY ProgramStep
<1> QED
  BY <1>1, <1>2, ProgramInitially, PTL DEF SafeSpec, EveryIInv

\* main clears simulation_running when every thread it created has ended.
LEMMA TimerInProgram == EveryIInv /\ [Next]_vars => [TimerNext]_timerVars
<1> SUFFICES ASSUME EveryIInv, [Next]_vars PROVE TimerNext \/ UNCHANGED timerVars
  OBVIOUS
<1>1. ASSUME NEW t \in Txs, TxStep(t) PROVE TimerNext \/ UNCHANGED timerVars
  <2>1. CASE Wait(t) \/ Spurious(t) \/ Begin(t) \/ Commit(t) \/ Abort(t)
    BY <2>1 DEF Wait, Spurious, Begin, Commit, Abort, TimerNext, ClockStep
  <2>2. CASE LoadNext(t) \/ Execute(t) \/ TakeResult(t) \/ InPool(t) \/ InBank(t)
    BY <2>2 DEF LoadNext, Execute, TakeResult, InPool, InBank
  <2> QED
    BY <1>1, <2>1, <2>2 DEF TxStep, Transaction
<1>2. CASE Clock \/ CreateTimer \/ CreateTimerFails
  BY <1>2 DEF Clock, CreateTimer, CreateTimerFails, TimerNext
<1>3. CASE Stop
  <2>1. \A t \in Txs : Over(t) /\ ThreadStage(t)
    BY <1>3 DEF Stop, MainGoTo, EveryIInv, ProgramIInv, MainStage
  <2>2. NoneRunning
    BY <2>1 DEF NoneRunning, Over, Exited, ThreadStage, UnloadLabels
  <2> QED
    BY <1>3, <2>2 DEF Stop, TimerNext
<1>4. ASSUME NEW t \in Txs, CreateThread(t) \/ JoinThread(t) PROVE TimerNext \/ UNCHANGED timerVars
  BY <1>4 DEF CreateThread, JoinThread, TimerNext, ClockStep
<1>5. CASE JoinTimer \/ Report \/ Cleanup \/ UNCHANGED vars
  BY <1>5 DEF JoinTimer, Report, Cleanup, vars
<1> QED
  BY <1>1, <1>2, <1>3, <1>4, <1>5 DEF Next, Main, Terminated, TxStep

\* The program uses the clock as Timer assumes.
THEOREM ClockUsedAsAssumed == SafeSpec => TimerSafeSpec
<1>1. Init => TimerInit
  BY DEF Init
<1> QED
  BY <1>1, EveryInvariance, TimerInProgram, PTL DEF SafeSpec, TimerSafeSpec

\* Whatever is shown of the pool, the bank and the clock on their own holds in
\* the program.
THEOREM ComponentsAlwaysHold == SafeSpec => ComponentsHold
BY PoolUsedAsAssumed, BankUsedAsAssumed, ClockUsedAsAssumed, PTL DEF ComponentsHold

\* No balance is read or written, and no lock waited for, by a transaction that
\* does not have the account pinned in the pool.
THEOREM BankTouchesOnlyPinned == SafeSpec => []TouchesOnlyResident
<1>1. EveryIInv => TouchesOnlyResident
  <2> SUFFICES ASSUME EveryIInv, NEW t \in Txs, bank_pc[t] # "idle",
                      NEW a \in OpAccounts(current_op[t])
               PROVE  Holds(t, a) /\ \E s \in SlotsOf(a) : slots[s].pin_count > 0
    BY DEF TouchesOnlyResident
  <2>1. current_op[t] = Op(t) /\ ToLoad(t) = {}
    BY DEF EveryIInv, ProgramIInv, ThreadStage
  <2>2. Holds(t, a)
    BY <2>1 DEF ToLoad, Holds
  <2>3. a \in Accounts
    BY <2>2, HeldAccounts DEF EveryIInv, PoolIInv
  <2>4. PICK s : s \in SlotsOf(a)
    BY <2>2, <2>3 DEF EveryIInv, PinIInv, PinsMatchHolders
  <2>5. slots[s].pin_count > 0
    BY <2>4 DEF EveryIInv, PinIInv, PinsMatchHolders, SlotsOf, InUse
  <2> QED
    BY <2>2, <2>4, <2>5
<1> QED
  BY <1>1, EveryInvariance, PTL

\* After the joins nothing runs any more: what main reads is final and what it
\* destroys is not in use, whether pthread_create failed or not.
THEOREM ReportsAfterTheEnd == SafeSpec => []ResultsFinal
<1>1. EveryIInv => ResultsFinal
  <2> SUFFICES ASSUME EveryIInv PROVE ResultsFinal
    OBVIOUS
  <2>1. MainStage /\ \A t \in Txs : ThreadStage(t) /\ StatusStage(t)
    BY DEF EveryIInv, ProgramIInv
  <2>2. ASSUME NEW t \in Txs, Over(t), clock_pc[t] # "new" \/ status[t] = "ABORTED"
        PROVE  status[t] # "RUNNING"
    BY <2>1, <2>2 DEF ThreadStage, StatusStage, Over, Exited, UnloadLabels
  <2> QED
    BY <2>1, <2>2 DEF MainStage, ResultsFinal, Over
<1> QED
  BY <1>1, EveryInvariance, PTL

\* Every run leaves the pool empty with its permits back: commits, aborts and
\* threads that were never created alike.
THEOREM PoolGivenBack == SafeSpec => []PoolLeftEmpty
<1>1. EveryIInv => PoolLeftEmpty
  <2> SUFFICES ASSUME EveryIInv, main_pc \in {"report", "cleanup", "exited"}
               PROVE  /\ InUse = {} /\ empty_slots = BUFFER_POOL_SIZE /\ full_slots = 0
                      /\ pool_stats.load_count = pool_stats.unload_count
    BY DEF PoolLeftEmpty
  <2>1. /\ PoolShape /\ PermitsConserved /\ FullConserved /\ ReportExact /\ PinsMatchHolders
        /\ \A t \in Txs : Over(t) /\ ThreadStage(t) /\ OwnList(t)
    BY DEF EveryIInv, PoolIInv, PoolBooks, PinIInv, ProgramIInv, MainStage
  <2>2. \A t \in Txs : pool_pc[t] \in {"idle", "done"} /\ loaded_accounts[t] = <<>>
    <3> SUFFICES ASSUME NEW t \in Txs
                 PROVE  pool_pc[t] \in {"idle", "done"} /\ loaded_accounts[t] = <<>>
      OBVIOUS
    <3>1. CASE pool_pc[t] = "done"
      BY <2>1, <3>1 DEF OwnList
    <3>2. CASE clock_pc[t] = "new"
      <4>1. pool_pc[t] \in Labels
        BY <2>1 DEF PoolShape
      <4>2. pool_pc[t] \notin LoadLabels /\ pool_pc[t] \notin UnloadLabels /\ loaded_accounts[t] = <<>>
        BY <2>1, <3>2 DEF ThreadStage, Early
      <4> QED
        BY <4>1, <4>2 DEF Labels, LoadLabels, UnloadLabels
    <3> QED
      BY <2>1, <3>1, <3>2 DEF Over, Exited
  <2>3. /\ At("post_full") = {} /\ At("wait_full") = {} /\ EmptyPermits = {}
        /\ \A a : Holders(a) = {}
    BY <2>2 DEF At, EmptyPermits, Holders, Holds, ToSet
  <2>4. InUse = {}
    <3>1. \A i \in InUse : /\ slots[i].pin_count > 0
                           /\ slots[i].pin_count = Cardinality(Holders(slots[i].account_id))
      BY <2>1 DEF PinsMatchHolders
    <3>2. Cardinality({}) = 0
      BY FS_EmptySet
    <3> QED
      BY <2>3, <3>1, <3>2
  <2>5. Cardinality({}) = 0
    BY FS_EmptySet
  <2>6. empty_slots = BUFFER_POOL_SIZE /\ full_slots = 0
    <3>1. /\ Cardinality(InUse) = 0 /\ Cardinality(EmptyPermits) = 0
          /\ Cardinality(At("post_full")) = 0 /\ Cardinality(At("wait_full")) = 0
      BY <2>3, <2>4, <2>5
    <3>2. empty_slots \in Nat /\ full_slots \in Nat
      BY <2>1 DEF PoolShape
    <3>3. empty_slots + 0 + 0 = BUFFER_POOL_SIZE
      BY <2>1, <3>1 DEF PermitsConserved
    <3>4. full_slots + 0 = 0 + 0
      BY <2>1, <3>1 DEF FullConserved
    <3> QED
      BY <3>2, <3>3, <3>4
  <2>7. pool_stats.load_count = pool_stats.unload_count
    BY <2>1, <2>4, <2>5 DEF PoolShape, StatsType, ReportExact
  <2> QED
    BY <2>4, <2>6, <2>7
<1> QED
  BY <1>1, EveryInvariance, PTL
================================================================================
