\* pthread_create fails and leaves a value in the handle.
SPECIFICATION SafeSpec
CONSTANTS
  Txs = {1, 2}
  Accounts = {1, 2}
  BUFFER_POOL_SIZE = 2
  INT_MAX = 15
  MAX_OPS_PER_TX = 2
  StartTicks = {0}
  TickBound = 0
  InitialBalances <- OneEach
  Programs <- SinglePrograms
  Operations <- SingleOperations
  CreateOutcomes = {"started", "null", "stale"}
INVARIANTS
  JoinsOnlyStarted
