SPECIFICATION MSpec
CONSTANTS
  Items = {a}
  NoItem = NoItem
  Getters = {g}
  FreshGetters = {}
  Adders = {u}
  Closers = {}
  FreshThreshold = 1
  FastDelay = 1
  SlowDelay = 1
  AddAfterDelays = {1}
  ChanCap = 1
  MaxHeld = 1
  MaxRetries = 1
INVARIANT RetriesAreCounted
CHECK_DEADLOCK FALSE
