SPECIFICATION Spec
CONSTANTS
  Items = {a}
  NoItem = NoItem
  Getters = {g}
  FreshGetters = {}
  Adders = {u, g}
  Closers = {}
  FreshThreshold = 1
  FastDelay = 1
  SlowDelay = 1
  AddAfterDelays = {0}
  ChanCap = 1
  MaxHeld = 1
  MaxRetries = 2
PROPERTY DoneStalesRetried
