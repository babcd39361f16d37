SPECIFICATION RequestsSpec
SYMMETRY Symmetry
CHECK_DEADLOCK FALSE
CONSTANTS
  None = None
  Threads = {w1, w2}
  Orders = {1, 2}
  PayoutTxs = {p1}
  Prices = {2}
  Percent = 50
  MaxPayout = 2
  RefundTxs = {a, b}
  MaxSurplus = 1
  Jobs = {c, d}
  EscrowTxs = {a, b}
  Budgets = {1}
  Channels = {ch1}
  MaxDeposit = 3
  TermsSigs = {a, b}
  Nonces = {n1}
  Devices = {a, b}
  MaxDownloads = 1
  MaxActivations = 2
  Slugs = {a, b}
  Keys = {k1}
  Pays = {c, d}
  Creations = {a, b}
  Fees = {c, d}
  MaxBuilds = 1
  Sessions = {a, b}
  AcpKeys = {c, d}
  MaxItems = 2
  EditOps = {"add", "pause", "copy", "photo", "upgrade"}
  GoodsOrders = {o1}
  MaxReleases = 3
  Sites = {s1, s2}
  Hosts = {h1}
  Controls <- HostControls
  MaxTokens = 3
  Signers = {g1, g2}
  Buys = {c, d}
  Shops = {s1, s2}
  Drafts = {f1}
  GROWTH_DAILY_MAX = 2
  GROWTH_SCHED_STORE_DAILY_MAX = 1
  MaxDays = 2
  MaxGrowthFaults = 1
INVARIANTS
  RequestsTypeOK
  
  RefundBacked
  JobsAreBacked
  
  SubscriptionBacked
  LimitsHold
  NoSlotLeaked
  KeyChargedOnce
  PaidKept
  StoresArePaid
  SessionsWrapOrders
  
  OneOnOffer
  OneStorePerHost
  CertifiedOwned
  SpendCapped
