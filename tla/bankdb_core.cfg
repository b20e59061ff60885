\* Two transactions on two accounts; everything fits the pool.
SPECIFICATION Spec
CONSTANTS
  Txs = {1, 2}
  Accounts = {1, 2}
  BUFFER_POOL_SIZE = 2
  INT_MAX = 15
  MAX_OPS_PER_TX = 2
  StartTicks = {0, 1}
  TickBound = 1
  InitialBalances <- OneEach
  Programs <- CorePrograms
  Operations <- CoreOperations
  CreateOutcomes = {"started", "null"}
INVARIANTS
  TypeOK
  LedgerExact
  BalanceCheckMeaning
  TouchesOnlyResident
  ResultsFinal
  PoolLeftEmpty
  SummaryConsistent
PROPERTIES
  Terminates
  ComponentsHold
  ImplementsTransactions
