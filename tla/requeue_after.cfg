SPECIFICATION CSpec
CONSTANTS
  Items = {a}
  NoItem = NoItem
  Getters = {s}
  FreshGetters = {}
  Adders = {s, h}
  Closers = {}
  FreshThreshold = 1
  FastDelay = 1
  SlowDelay = 1
  AddAfterDelays = {1}
  ChanCap = 1
  MaxHeld = 1
  MaxRetries = 1
  Results = {"RequeueAfter"}
PROPERTIES RequeueAfterWaits
