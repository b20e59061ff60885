--------------------------------- MODULE Timer ---------------------------------
(***************************************************************************)
(* The simulation clock of src/core/timer.c, the wait of each transaction  *)
(* for its start tick and the ticks execute_transaction records.           *)
(*                                                                         *)
(* Every access to the clock is a critical section of tick_lock, one step  *)
(* each; pthread_cond_wait releases the lock and sleeps in one step.       *)
(***************************************************************************)
EXTENDS BankTypes

CONSTANTS
  StartTicks,       \* the start ticks a transaction may have
  TickBound         \* named bound: the clock of the model stops here

ASSUME TimerAssumption ==
  /\ TickBound \in Nat
  /\ StartTicks \subseteq 0..TickBound

VARIABLES
  global_tick,
  simulation_running,
  timer_pc,         \* "unborn", "failed", "sleeping" between two ticks, or "exited"
  clock_pc,         \* where each thread is with respect to the clock
  start_tick,       \* scheduled start of each transaction
  times             \* the ticks recorded in each transaction

timerVars == <<global_tick, simulation_running, timer_pc, clock_pc, start_tick, times>>

\* init_transaction
NoTimes == [actual_start |-> -1, actual_end |-> -1, wait_ticks |-> 0]

TimerInit ==
  /\ global_tick = 0
  /\ simulation_running = FALSE
  /\ timer_pc = "unborn"
  /\ clock_pc = [t \in Txs |-> "new"]
  /\ start_tick \in [Txs -> StartTicks]
  /\ times = [t \in Txs |-> NoTimes]

\* Woken mutated: the broadcast is forgotten.
Woken_Nobody == clock_pc

\* pthread_cond_broadcast(&tick_changed): the sleepers have to test again.
Woken == [t \in Txs |-> IF clock_pc[t] = "asleep" THEN "awake" ELSE clock_pc[t]]

\* The condition of the loop in wait_until_tick.
TooEarly(t) == global_tick < start_tick[t]

MoveClock(t, from, to) ==
  /\ clock_pc[t] = from
  /\ clock_pc' = [clock_pc EXCEPT ![t] = to]
--------------------------------------------------------------------------------
\* main sets simulation_running and creates the timer thread.
StartTimer ==
  /\ timer_pc = "unborn"
  /\ ~simulation_running
  /\ simulation_running' = TRUE
  /\ timer_pc' = "sleeping"
  /\ UNCHANGED <<global_tick, clock_pc, start_tick, times>>

\* pthread_create fails: there is no clock, and main creates no transactions.
StartTimerFails ==
  /\ timer_pc = "unborn"
  /\ ~simulation_running
  /\ simulation_running' = TRUE
  /\ timer_pc' = "failed"
  /\ UNCHANGED <<global_tick, clock_pc, start_tick, times>>

\* timer_thread after its usleep, while the simulation runs.
TimerTick ==
  /\ timer_pc = "sleeping"
  /\ simulation_running
  /\ global_tick < TickBound
  /\ global_tick' = global_tick + 1
  /\ clock_pc' = Woken
  /\ UNCHANGED <<simulation_running, timer_pc, start_tick, times>>

TimerExit ==
  /\ timer_pc = "sleeping"
  /\ ~simulation_running
  /\ timer_pc' = "exited"
  /\ clock_pc' = Woken
  /\ UNCHANGED <<global_tick, simulation_running, start_tick, times>>

\* main creates the thread of transaction t, which enters wait_until_tick.
EnterWait(t) ==
  /\ simulation_running
  /\ timer_pc = "sleeping"
  /\ MoveClock(t, "new", "awake")
  /\ UNCHANGED <<global_tick, simulation_running, timer_pc, start_tick, times>>

\* TestTick mutated: the clock is not tested.
TestTick_IfOnce(t) ==
  /\ MoveClock(t, "awake", "released")
  /\ UNCHANGED <<global_tick, simulation_running, timer_pc, start_tick, times>>

\* One round of the loop of wait_until_tick: leave it, or pthread_cond_wait.
TestTick(t) ==
  /\ MoveClock(t, "awake", IF TooEarly(t) THEN "asleep" ELSE "released")
  /\ UNCHANGED <<global_tick, simulation_running, timer_pc, start_tick, times>>

\* pthread_cond_wait may return without a broadcast.
SpuriousWakeup(t) ==
  /\ MoveClock(t, "asleep", "awake")
  /\ UNCHANGED <<global_tick, simulation_running, timer_pc, start_tick, times>>

\* tick_lock is taken anew, so the clock may have moved on since the wait ended.
RecordStart(t) ==
  /\ MoveClock(t, "released", "running")
  /\ times' = [times EXCEPT ![t].actual_start = global_tick,
                            ![t].wait_ticks = global_tick - start_tick[t]]
  /\ UNCHANGED <<global_tick, simulation_running, timer_pc, start_tick>>

\* RecordEnd mutated: the end tick is not recorded.
RecordEnd_NotTaken(t) ==
  /\ MoveClock(t, "running", "ended")
  /\ UNCHANGED <<global_tick, simulation_running, timer_pc, start_tick, times>>

\* record_transaction_end, once per transaction.
RecordEnd(t) ==
  /\ MoveClock(t, "running", "ended")
  /\ times' = [times EXCEPT ![t].actual_end = global_tick]
  /\ UNCHANGED <<global_tick, simulation_running, timer_pc, start_tick>>

\* main clears the flag and wakes whoever waits for a tick.
StopSimulation ==
  /\ timer_pc = "sleeping"
  /\ simulation_running
  /\ simulation_running' = FALSE
  /\ clock_pc' = Woken
  /\ UNCHANGED <<global_tick, timer_pc, start_tick, times>>

\* main only does so when it has joined the transaction threads it created.
NoneRunning == \A t \in Txs : clock_pc[t] \in {"new", "ended"}
--------------------------------------------------------------------------------
TimerThread == TimerTick \/ TimerExit
ClockStep(t) == EnterWait(t) \/ TestTick(t) \/ RecordStart(t) \/ RecordEnd(t)

TimerDone == timer_pc \in {"failed", "exited"} /\ NoneRunning

\* The timer thread and the transactions have ended.
TimerTerminated == TimerDone /\ UNCHANGED timerVars

TimerNext ==
  \/ StartTimer \/ StartTimerFails
  \/ TimerThread
  \/ NoneRunning /\ StopSimulation
  \/ \E t \in Txs : ClockStep(t) \/ SpuriousWakeup(t)
  \/ TimerTerminated

TimerSafeSpec == TimerInit /\ [][TimerNext]_timerVars

\* Threads keep running, and usleep always returns; spurious wakeups need not
\* happen, nor need main stop before every thread it wants has been created.
TimerSpec ==
  /\ TimerSafeSpec
  /\ WF_timerVars(StartTimer \/ StartTimerFails)
  /\ WF_timerVars(TimerThread)
  /\ \A t \in Txs : WF_timerVars(ClockStep(t))
  /\ WF_timerVars(NoneRunning /\ StopSimulation)
--------------------------------------------------------------------------------
(***************************************************************************)
(* Properties                                                              *)
(***************************************************************************)

\* What a transaction records: ticks the clock has shown, once they are known.
TimesType == [actual_start : -1..TickBound, actual_end : -1..TickBound, wait_ticks : 0..TickBound]

\* Type invariant.
TimerTypeOK ==
  /\ global_tick \in 0..TickBound
  /\ simulation_running \in BOOLEAN
  /\ timer_pc \in {"unborn", "failed", "sleeping", "exited"}
  /\ clock_pc \in [Txs -> {"new", "awake", "asleep", "released", "running", "ended"}]
  /\ start_tick \in [Txs -> StartTicks]
  /\ times \in [Txs -> TimesType]

\* A thread only sleeps while its tick has not come: no broadcast is missed
\* between the test of the loop and pthread_cond_wait, whatever wakeups occur.
NoMissedWakeup ==
  \A t \in Txs : clock_pc[t] = "asleep" => global_tick < start_tick[t]

\* The times a transaction reports are consistent: it does not start before its
\* start tick, wait_ticks is the delay, and it ends no earlier than it started
\* and no later than the tick main prints as the total.
TimesConsistent ==
  \A t \in Txs :
    /\ clock_pc[t] \in {"running", "ended"} =>
         /\ start_tick[t] <= times[t].actual_start
         /\ times[t].wait_ticks = times[t].actual_start - start_tick[t]
    /\ clock_pc[t] = "ended" =>
         /\ times[t].actual_start <= times[t].actual_end
         /\ times[t].actual_end <= global_tick

\* Every transaction whose thread was created is woken when its tick has come,
\* starts and ends, and then the timer thread stops too.
ClockRunsDown == <>[]TimerDone
================================================================================
