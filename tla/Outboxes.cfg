SPECIFICATION OutboxesSpec
CHECK_DEADLOCK FALSE
CONSTANTS
  None = None
  Threads = {w1}
  HookRows = {1, 2}
  WEBHOOK_MAX_ATTEMPTS = 3
  Batch = 1
  RetryBase = 1
  MaxHookCrashes = 1
  MaxUnhooks = 1
  AttOrders = {o1, o2}
  GasPrices = {1, 2}
  GasCap = 1
  ATTEST_MAX_PER_TICK = 2
  RECONCILE_MAX_TICKS = 2
  IDLE_ALERT_TICKS = 2
  MaxAttFaults = 2
  MaxLostReceipts = 0
  MaxAttCrashes = 1
INVARIANTS
  OutboxesTypeOK
  OutboxHonest
  
PROPERTIES
  OutboxDrains
  AttestResolves
