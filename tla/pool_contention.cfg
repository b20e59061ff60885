\* Three transactions, three accounts and two slots: the pool fills up, loads
\* block and races for one account happen.  Transactions that hold slots may
\* block one another for ever, so the system may stop.
SPECIFICATION PoolSafeSpec
CONSTANTS
  Txs = {t1, t2, t3}
  Accounts = {1, 2, 3}
  BUFFER_POOL_SIZE = 2
SYMMETRY TxSymmetry
INVARIANTS
  PoolTypeOK
  NoDuplicateSlots
  PinsMatchHolders
  PermitsConserved
  FullConserved
  PermitMeansFreeSlot
  UnloadNeverBlocks
  ReportExact
  OnlyHoldAndWait
PROPERTIES
  ImplementsPins
CHECK_DEADLOCK FALSE
