SPECIFICATION MSpec
CONSTANTS
  Items = {a, b}
  NoItem = NoItem
  Getters = {g}
  FreshGetters = {f}
  Adders = {u}
  Closers = {c}
  FreshThreshold = 1
  FastDelay = 1
  SlowDelay = 1
  AddAfterDelays = {0, 1}
  ChanCap = 1
  MaxHeld = 1
  MaxRetries = 0
SYMMETRY Symmetry
INVARIANTS TypeOK QueuesExact ExclusiveHolding FreshKeysHaveTakers MetricsAgree
PROPERTIES NeverPostponed NeverEarly
CHECK_DEADLOCK FALSE
