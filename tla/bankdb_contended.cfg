\* Three transactions of one account each contend for a single slot: those that
\* block are served, so everything ends.
SPECIFICATION Spec
CONSTANTS
  Txs = {1, 2, 3}
  Accounts = {1, 2}
  BUFFER_POOL_SIZE = 1
  INT_MAX = 15
  MAX_OPS_PER_TX = 2
  StartTicks = {0}
  TickBound = 0
  InitialBalances <- OneEach
  Programs <- SinglePrograms
  Operations <- SingleOperations
  CreateOutcomes = {"started"}
PROPERTIES
  Terminates
  ImplementsTransactions
