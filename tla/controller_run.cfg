SPECIFICATION CFairSpec
CONSTANTS
  Items = {a}
  NoItem = NoItem
  Getters = {s}
  FreshGetters = {f}
  Adders = {s, f, h}
  Closers = {r}
  FreshThreshold = 1
  FastDelay = 1
  SlowDelay = 1
  AddAfterDelays = {1}
  ChanCap = 1
  MaxHeld = 1
  MaxRetries = 3
  Results = {"nothing","Requeue","RequeueAfter"}
INVARIANTS CTypeOK RetryCountsAgree
PROPERTIES ImplementsQueue Implements RunReturns DelayedIsAdded ShutdownEnds FailedIsRetried
