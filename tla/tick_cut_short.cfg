\* A tick of 100 ms is 1000 us, which the unsigned ints of this instance, up to
\* 255, cannot hold.
SPECIFICATION FlowSpec
CONSTANTS
  Txs = {t1}
  Accounts <- MCAccounts
  TICK_MS_MAX = 127
  DEFAULT_TICK_MS = 10
  US_PER_MS = 10
  CommandLines <- SomeCommandLines
  ReadableFiles = {"good"}
  MAX_ACCOUNTS = 2
  AccountLines <- SomeAccountLines
  MAX_TRANSACTIONS = 3
  MAX_OPS_PER_TX = 2
  TraceLines <- SomeTraceLines
  FileBound = 2
INVARIANT TickLastsAsAsked
