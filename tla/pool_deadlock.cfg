\* Two transfers between four accounts and two slots: each transfer holds one
\* slot and waits for another.
SPECIFICATION SafeSpec
CONSTANTS
  Txs = {1, 2}
  Accounts = {1, 2, 3, 4}
  BUFFER_POOL_SIZE = 2
  INT_MAX = 15
  MAX_OPS_PER_TX = 2
  StartTicks = {0}
  TickBound = 0
  InitialBalances <- OneEach
  Programs <- TransferPrograms
  Operations <- TransferOperations
  CreateOutcomes = {"started"}
INVARIANTS
  NoPoolDeadlock
CHECK_DEADLOCK FALSE
