\* A transaction deposits and then aborts.
SPECIFICATION SafeSpec
CONSTANTS
  Txs = {1, 2}
  Accounts = {1, 2}
  BUFFER_POOL_SIZE = 2
  INT_MAX = 15
  MAX_OPS_PER_TX = 2
  StartTicks = {0}
  TickBound = 0
  InitialBalances <- OneEach
  Programs <- HalfDonePrograms
  Operations <- HalfDoneOperations
  CreateOutcomes = {"started"}
INVARIANTS
  Conservation
