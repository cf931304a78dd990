SPECIFICATION MFairSpec
CONSTANTS
  Items = {a, b}
  NoItem = NoItem
  Getters = {g, h}
  FreshGetters = {}
  Adders = {u}
  Closers = {c}
  FreshThreshold = 1
  FastDelay = 1
  SlowDelay = 1
  AddAfterDelays = {}
  ChanCap = 1
  MaxHeld = 1
  MaxRetries = 0
INVARIANTS KeysHaveTakers ExitLeavesNothing
PROPERTIES FreshIsServed StaledIsServed
