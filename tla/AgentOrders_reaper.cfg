SPECIFICATION Spec
CONSTANTS
  NumOrders = 1
  Txs = {t1}
  Workers = {w1}
  Loops = {"loop", "reaper"}
  Prices = {1}
  Answers = {"none", "pending", "lost"}
  AGGR_DEFERRED_ENABLED = TRUE
  RECONCILE_MAX_PER_TICK = 1
  LOOKBACK = 1
  WALK = 2
  SAFETY_BLOCKS = 0
  REAP_AFTER = 3
  SETTLE_DELAY = 1
  SCAN_TIME = 1
  MAX_GAP = 1
  MaxBlock = 6
  MaxBuys = 2
  MaxFaults = 1
  MaxMisses = 0
  NoTx = NoTx
  Pending = Pending
PROPERTIES
  ReapedIsUnpaid
SYMMETRY Symmetry
