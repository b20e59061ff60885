------------------------------ MODULE TimerProofs ------------------------------
(***************************************************************************)
(* Proofs about Timer, for any number of transactions, any start ticks and *)
(* any bound on the clock.                                                 *)
(***************************************************************************)
EXTENDS Timer, TLAPS

\* The inductive invariant.  wait_ticks is the delay before a natural number
\* only because a thread that was let go had reached its start tick: the second
\* acquisition of tick_lock must not see an earlier clock.
LetGo ==
  \A t \in Txs : clock_pc[t] = "released" => start_tick[t] <= global_tick

Started ==
  \A t \in Txs : clock_pc[t] \in {"running", "ended"} => times[t].actual_start <= global_tick

TimerIInv == TimerTypeOK /\ NoMissedWakeup /\ TimesConsistent /\ LetGo /\ Started

\* Recording a tick changes the named fields of the record and no others.
LEMMA SetStart ==
  ASSUME NEW r \in TimesType, NEW s \in -1..TickBound, NEW w \in 0..TickBound
  PROVE  /\ [r EXCEPT !.actual_start = s, !.wait_ticks = w] \in TimesType
         /\ [r EXCEPT !.actual_start = s, !.wait_ticks = w].actual_start = s
         /\ [r EXCEPT !.actual_start = s, !.wait_ticks = w].wait_ticks = w
BY DEF TimesType

LEMMA SetEnd ==
  ASSUME NEW r \in TimesType, NEW s \in -1..TickBound
  PROVE  /\ [r EXCEPT !.actual_end = s] \in TimesType
         /\ [r EXCEPT !.actual_end = s].actual_end = s
         /\ [r EXCEPT !.actual_end = s].actual_start = r.actual_start
         /\ [r EXCEPT !.actual_end = s].wait_ticks = r.wait_ticks
BY DEF TimesType

LEMMA TimerInitially == TimerInit => TimerIInv
<1> SUFFICES ASSUME TimerInit PROVE TimerIInv
  OBVIOUS
<1>1. NoTimes \in TimesType
  BY TimerAssumption DEF NoTimes, TimesType
<1>2. global_tick \in 0..TickBound
  BY TimerAssumption DEF TimerInit
<1>3. TimerTypeOK
  BY <1>1, <1>2 DEF TimerInit, TimerTypeOK
<1>4. \A t \in Txs : clock_pc[t] = "new"
  BY DEF TimerInit
<1> QED
  BY <1>3, <1>4 DEF TimerIInv, NoMissedWakeup, TimesConsistent, LetGo, Started

\* Start ticks are numbers.
LEMMA StartTickType ==
  ASSUME TimerTypeOK
  PROVE  /\ TickBound \in Nat
         /\ global_tick \in 0..TickBound
         /\ \A t \in Txs : start_tick[t] \in 0..TickBound
BY TimerAssumption DEF TimerTypeOK

\* A broadcast only sends sleepers back to test the clock.
LEMMA WokenEffect ==
  ASSUME TimerTypeOK, clock_pc' = Woken
  PROVE  /\ clock_pc' \in [Txs -> {"new", "awake", "asleep", "released", "running", "ended"}]
         /\ \A t \in Txs : /\ clock_pc'[t] # "asleep"
                           /\ clock_pc'[t] # "awake" => clock_pc'[t] = clock_pc[t]
BY DEF TimerTypeOK, Woken

\* The steps that change neither the clock nor what was recorded, and move at
\* most threads that have not been let go.
LEMMA QuietClock ==
  ASSUME TimerIInv, TimerTypeOK', UNCHANGED <<global_tick, start_tick, times>>,
         \A t \in Txs : clock_pc'[t] \in {"new", "awake"} \/ clock_pc'[t] = clock_pc[t]
  PROVE  TimerIInv'
BY DEF TimerIInv, NoMissedWakeup, TimesConsistent, LetGo, Started

LEMMA TimerStep ==
  ASSUME TimerIInv, [TimerNext]_timerVars
  PROVE  TimerIInv'
<1>1. /\ TimerTypeOK /\ NoMissedWakeup /\ TimesConsistent /\ LetGo /\ Started
      /\ TickBound \in Nat
      /\ global_tick \in 0..TickBound
      /\ \A t \in Txs : start_tick[t] \in 0..TickBound
  BY StartTickType DEF TimerIInv
<1>2. CASE StartTimer \/ StartTimerFails
  <2>1. TimerTypeOK'
    BY <1>1, <1>2 DEF StartTimer, StartTimerFails, TimerTypeOK
  <2> QED
    BY <1>2, <2>1, QuietClock DEF StartTimer, StartTimerFails
<1>3. CASE TimerTick
  <2>1. global_tick' = global_tick + 1 /\ global_tick' \in 0..TickBound
    BY <1>1, <1>3 DEF TimerTick
  <2>2. TimerTypeOK'
    BY <1>1, <1>3, <2>1, WokenEffect DEF TimerTick, TimerTypeOK
  <2>3. /\ UNCHANGED <<start_tick, times>>
        /\ \A t \in Txs : /\ clock_pc'[t] # "asleep"
                          /\ clock_pc'[t] # "awake" => clock_pc'[t] = clock_pc[t]
    BY <1>1, <1>3, WokenEffect DEF TimerTick
  <2>4. NoMissedWakeup' /\ LetGo'
    BY <1>1, <2>1, <2>3 DEF NoMissedWakeup, LetGo
  <2>5. \A t \in Txs : times[t].actual_start \in Int /\ times[t].actual_end \in Int
    BY <1>1 DEF TimerTypeOK, TimesType
  <2>6. TimesConsistent' /\ Started'
    BY <1>1, <2>1, <2>3, <2>5 DEF TimesConsistent, Started
  <2> QED
    BY <2>2, <2>4, <2>6 DEF TimerIInv
<1>4. CASE TimerExit \/ StopSimulation
  <2>1. TimerTypeOK'
    BY <1>1, <1>4, WokenEffect DEF TimerExit, StopSimulation, TimerTypeOK
  <2>2. \A t \in Txs : clock_pc'[t] = "awake" \/ clock_pc'[t] = clock_pc[t]
    BY <1>1, <1>4, WokenEffect DEF TimerExit, StopSimulation
  <2> QED
    BY <1>4, <2>1, <2>2, QuietClock DEF TimerExit, StopSimulation
<1>5. ASSUME NEW t \in Txs, EnterWait(t) \/ SpuriousWakeup(t) PROVE TimerIInv'
  <2>1. TimerTypeOK'
    BY <1>1, <1>5 DEF EnterWait, SpuriousWakeup, MoveClock, TimerTypeOK
  <2>2. \A u \in Txs : clock_pc'[u] = "awake" \/ clock_pc'[u] = clock_pc[u]
    BY <1>1, <1>5 DEF EnterWait, SpuriousWakeup, MoveClock, TimerTypeOK
  <2> QED
    BY <1>5, <2>1, <2>2, QuietClock DEF EnterWait, SpuriousWakeup
<1>6. ASSUME NEW t \in Txs, TestTick(t) PROVE TimerIInv'
  <2> DEFINE to == IF TooEarly(t) THEN "asleep" ELSE "released"
  <2>1. TimerTypeOK'
    BY <1>1, <1>6 DEF TestTick, MoveClock, TimerTypeOK
  <2>2. /\ UNCHANGED <<global_tick, start_tick, times>>
        /\ clock_pc'[t] = to
        /\ \A u \in Txs : u # t => clock_pc'[u] = clock_pc[u]
    BY <1>1, <1>6 DEF TestTick, MoveClock, TimerTypeOK
  <2>3. /\ to = "asleep" => global_tick < start_tick[t]
        /\ to = "released" => start_tick[t] <= global_tick
        /\ to \in {"asleep", "released"}
    BY <1>1 DEF TooEarly
  <2> HIDE DEF to
  <2>4. NoMissedWakeup' /\ LetGo'
    BY <1>1, <2>2, <2>3 DEF NoMissedWakeup, LetGo
  <2>5. TimesConsistent' /\ Started'
    BY <1>1, <2>2, <2>3 DEF TimesConsistent, Started
  <2> QED
    BY <2>1, <2>4, <2>5 DEF TimerIInv
<1>7. ASSUME NEW t \in Txs, RecordStart(t) PROVE TimerIInv'
  <2> DEFINE delay == global_tick - start_tick[t]
             old == times[t]
             new == [old EXCEPT !.actual_start = global_tick, !.wait_ticks = delay]
  <2>1. /\ clock_pc[t] = "released"
        /\ clock_pc' = [clock_pc EXCEPT ![t] = "running"]
        /\ times' = [times EXCEPT ![t] = new]
        /\ UNCHANGED <<global_tick, simulation_running, timer_pc, start_tick>>
    BY <1>7 DEF RecordStart, MoveClock
  <2>2. start_tick[t] <= global_tick
    BY <1>1, <2>1 DEF LetGo
  <2>3. delay \in 0..TickBound /\ global_tick \in -1..TickBound /\ old \in TimesType
    BY <1>1, <2>2 DEF TimerTypeOK
  <2>4. /\ new \in TimesType
        /\ new.actual_start = global_tick
        /\ new.wait_ticks = delay
    <3>1. global_tick \in -1..TickBound /\ delay \in 0..TickBound /\ old \in TimesType
      BY <2>3
    <3> HIDE DEF delay, old
    <3>2. /\ new.actual_start = global_tick
          /\ new.wait_ticks = delay
      BY <3>1 DEF TimesType
    <3>3. new \in TimesType
      BY <3>1, SetStart
    <3> QED
      BY <3>2, <3>3
  <2> HIDE DEF new
  <2>5. TimerTypeOK'
    BY <1>1, <2>1, <2>4 DEF TimerTypeOK
  <2>6. /\ times'[t] = new /\ clock_pc'[t] = "running"
        /\ \A u \in Txs : u # t => times'[u] = times[u] /\ clock_pc'[u] = clock_pc[u]
    BY <1>1, <2>1 DEF TimerTypeOK
  <2>7. NoMissedWakeup' /\ LetGo'
    BY <1>1, <2>1, <2>6 DEF NoMissedWakeup, LetGo
  <2>8. TimesConsistent' /\ Started'
    BY <1>1, <2>1, <2>2, <2>4, <2>6 DEF TimesConsistent, Started
  <2> QED
    BY <2>5, <2>7, <2>8 DEF TimerIInv
<1>8. ASSUME NEW t \in Txs, RecordEnd(t) PROVE TimerIInv'
  <2> DEFINE old == times[t]
             new == [old EXCEPT !.actual_end = global_tick]
  <2>1. /\ clock_pc[t] = "running"
        /\ clock_pc' = [clock_pc EXCEPT ![t] = "ended"]
        /\ times' = [times EXCEPT ![t] = new]
        /\ UNCHANGED <<global_tick, simulation_running, timer_pc, start_tick>>
    BY <1>8 DEF RecordEnd, MoveClock
  <2>2. global_tick \in -1..TickBound /\ old \in TimesType
    BY <1>1 DEF TimerTypeOK
  <2>3. /\ new \in TimesType
        /\ new.actual_end = global_tick
        /\ new.actual_start = old.actual_start
        /\ new.wait_ticks = old.wait_ticks
    <3> HIDE DEF old
    <3> QED
      BY <1>1, <2>2, SetEnd
  <2> HIDE DEF new
  <2>4. TimerTypeOK'
    BY <1>1, <2>1, <2>3 DEF TimerTypeOK
  <2>5. /\ times'[t] = new /\ clock_pc'[t] = "ended"
        /\ \A u \in Txs : u # t => times'[u] = times[u] /\ clock_pc'[u] = clock_pc[u]
    BY <1>1, <2>1 DEF TimerTypeOK
  <2>6. NoMissedWakeup' /\ LetGo'
    BY <1>1, <2>1, <2>5 DEF NoMissedWakeup, LetGo
  <2>7. TimesConsistent' /\ Started'
    BY <1>1, <2>1, <2>3, <2>5 DEF TimesConsistent, Started
  <2> QED
    BY <2>4, <2>6, <2>7 DEF TimerIInv
<1>9. CASE UNCHANGED timerVars
  BY <1>9 DEF timerVars, TimerIInv, TimerTypeOK, NoMissedWakeup, TimesConsistent, LetGo, Started
<1> QED
  BY <1>2, <1>3, <1>4, <1>5, <1>6, <1>7, <1>8, <1>9
     DEF TimerNext, TimerThread, ClockStep, TimerTerminated

LEMMA TimerInvariance == TimerSafeSpec => []TimerIInv
BY TimerInitially, TimerStep, PTL DEF TimerSafeSpec

\* The recorded ticks are ticks the clock has shown, and no delay is negative.
THEOREM TimerTypeCorrect == TimerSafeSpec => []TimerTypeOK
<1>1. TimerIInv => TimerTypeOK
  BY DEF TimerIInv
<1> QED
  BY <1>1, TimerInvariance, PTL

\* Whatever spurious wakeups occur, no thread sleeps through its start tick.
THEOREM WakeupsNeverMissed == TimerSafeSpec => []NoMissedWakeup
<1>1. TimerIInv => NoMissedWakeup
  BY DEF TimerIInv
<1> QED
  BY <1>1, TimerInvariance, PTL

\* Although each tick is read under an acquisition of tick_lock of its own, the
\* times a transaction reports agree with one another and with the clock.
THEOREM RecordedTimesConsistent == TimerSafeSpec => []TimesConsistent
<1>1. TimerIInv => TimesConsistent
  BY DEF TimerIInv
<1> QED
  BY <1>1, TimerInvariance, PTL
================================================================================
