SPECIFICATION SelfServeSpec
CHECK_DEADLOCK FALSE
CONSTANTS
  None = None
  Threads = {w1, w2}
  Creations = {a}
  Fees = {c}
  MaxBuilds = 2
INVARIANT
  OneFeeOneStore
