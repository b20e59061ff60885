\* Two threads, all kinds of operations on two accounts, ints of three bits.
SPECIFICATION BankSpec
CONSTANTS
  Txs = {t1, t2}
  Accounts = {1, 2}
  INT_MAX = 3
  Operations <- MixedOperations
  InitialBalances <- MixedBalances
SYMMETRY TxSymmetry
INVARIANTS
  BankTypeOK
  NoLostUpdate
  LocksPaired
  NoLockCycle
PROPERTIES
  ImplementsAtomicBank
