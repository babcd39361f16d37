SPECIFICATION FairSpec
CONSTANTS
  Orders = {o1}
  Txs = {t1, t2}
  AgentTxs = {t2}
  Workers = {}
  LogIdx = {0}
  Price = 3
  OffsetSpan = 1
  CONFIRMATIONS = 1
  ORDER_TTL = 0
  QUARANTINE = 2
  SWEEP_MAX_WINDOWS = 1
  MaxBlock = 4
  MaxTime = 2
  MaxReorgs = 0
  MaxFaults = 1
  NoOrder = NoOrder
  NoTx = NoTx
PROPERTIES
  PaidIsSwept
