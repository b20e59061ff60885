\* Command lines of three and four arguments, then files of up to four lines.
SPECIFICATION FlowSpec
CONSTANTS
  Txs = {t1}
  Accounts <- MCAccounts
  TICK_MS_MAX = 127
  DEFAULT_TICK_MS = 10
  US_PER_MS = 10
  CommandLines <- SomeCommandLines
  ReadableFiles = {"good"}
  MAX_ACCOUNTS = 2
  AccountLines <- SomeAccountLines
  MAX_TRANSACTIONS = 3
  MAX_OPS_PER_TX = 2
  TraceLines <- SomeTraceLines
  FileBound = 4
INVARIANTS
  FlowTypeOK
  LookupExact
  RejectsBadAccounts
  GroupsTrace
  RejectsBadTrace
PROPERTIES
  ArgumentsExact
  CleansUp
