SPECIFICATION Spec
CONSTANTS
  Orders = {o1}
  Txs = {t1, t2}
  AgentTxs = {t2}
  Workers = {w1}
  LogIdx = {0}
  Price = 3
  OffsetSpan = 1
  CONFIRMATIONS = 1
  ORDER_TTL = 0
  QUARANTINE = 2
  SWEEP_MAX_WINDOWS = 1
  MaxBlock = 4
  MaxTime = 1
  MaxReorgs = 1
  MaxFaults = 0
  NoOrder = NoOrder
  NoTx = NoTx
PROPERTIES
  TerminalStays
  MaturedIsFinal
  ImplementsPayments
INVARIANTS
  PaidBacked
  CreditBacked
  NoSkippedPayment
