CONSTANTS
  MaxAttempts = 3
  RetryIntervalMs = 3600000
  BackoffMs <- DefaultBackoffMs
  Orders = {o1, o2}
  NoOrder = NoOrder
  Jobs = {j1}
  Ticks = {t1, t2}
  Admins = {}
  Outcomes = {"ok", "network", "validation"}
  TargetStates = {"live", "off", "gone"}
  MaxRuns = 1
  MaxResets = 0
  MaxCrashes = 2
SPECIFICATION FairSpec
INVARIANTS AckedAtMostOnce OneTaskPerOrder ScheduledOnlyIfRetryable
PROPERTIES ImplementsFairLifecycle
CHECK_DEADLOCK FALSE
