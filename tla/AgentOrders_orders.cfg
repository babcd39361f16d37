SPECIFICATION Spec
CONSTANTS
  NumOrders = 2
  Txs = {t1, t2}
  Workers = {w1}
  Loops = {"loop"}
  Prices = {1, 2}
  Answers = {"none", "lost"}
  AGGR_DEFERRED_ENABLED = TRUE
  RECONCILE_MAX_PER_TICK = 2
  LOOKBACK = 2
  WALK = 3
  SAFETY_BLOCKS = 0
  REAP_AFTER = 1
  SETTLE_DELAY = 2
  SCAN_TIME = 0
  MAX_GAP = 2
  MaxBlock = 5
  MaxBuys = 2
  MaxFaults = 1
  MaxMisses = 1
  NoTx = NoTx
  Pending = Pending
INVARIANTS
  TypeOK
  DeliveredHasTransfer
  
SYMMETRY Symmetry
