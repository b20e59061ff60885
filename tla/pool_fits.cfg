\* As many slots as accounts: whatever the order of the loads, no transaction
\* blocks for ever, so deadlock is checked and everyone ends.
SPECIFICATION PoolSpec
CONSTANTS
  Txs = {t1, t2, t3}
  Accounts = {1, 2}
  BUFFER_POOL_SIZE = 2
PROPERTIES
  AllFinish
