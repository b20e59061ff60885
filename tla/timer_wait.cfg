\* Three transactions with start ticks between 0 and 2, spurious wakeups, and a
\* clock that runs on for a tick after the last of them.
SPECIFICATION TimerSpec
CONSTANTS
  Txs = {t1, t2, t3}
  Accounts = {1}
  StartTicks = {0, 1, 2}
  TickBound = 3
INVARIANTS
  TimerTypeOK
  NoMissedWakeup
  TimesConsistent
PROPERTIES
  ClockRunsDown
