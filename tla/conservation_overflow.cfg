\* Committed deposits exceed INT_MAX.
SPECIFICATION SafeSpec
CONSTANTS
  Txs = {1, 2}
  Accounts = {1, 2}
  BUFFER_POOL_SIZE = 2
  INT_MAX = 3
  MAX_OPS_PER_TX = 2
  StartTicks = {0}
  TickBound = 0
  InitialBalances <- OneEach
  Programs <- OverflowPrograms
  Operations <- OverflowOperations
  CreateOutcomes = {"started"}
INVARIANTS
  Conservation
