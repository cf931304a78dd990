SPECIFICATION LFairSpec
CONSTANTS
  Processes = {p1, p2}
  Nobody = Nobody
  Controllers = {"redis"}
  Objects = {o1}
  LeaseDuration = 2
  GiveUpAfter = 1
  AnswerDelay = 2
  Concurrency = 2
  MaxFaults = 1
  MaxChanges = 1
INVARIANTS LTypeOK OneValidLease OneLeaderWorks RunLeavesNothing NothingIsMissed
PROPERTIES EveryChangeIsReconciled CancelledExits
