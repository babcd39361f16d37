SPECIFICATION Spec
CONSTANTS
  Orders = {o1}
  Txs = {t1}
  AgentTxs = {t1}
  Workers = {w1}
  LogIdx = {0}
  Price = 3
  OffsetSpan = 1
  CONFIRMATIONS = 1
  ORDER_TTL = 0
  QUARANTINE = 2
  SWEEP_MAX_WINDOWS = 2
  MaxBlock = 4
  MaxTime = 2
  MaxReorgs = 0
  MaxFaults = 0
  NoOrder = NoOrder
  NoTx = NoTx
SYMMETRY Symmetry
INVARIANTS
  OneTransferOneOrder
