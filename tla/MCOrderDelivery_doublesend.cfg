CONSTANTS
  MaxAttempts = 3
  RetryIntervalMs = 3600000
  BackoffMs <- DefaultBackoffMs
  Orders = {o1}
  NoOrder = NoOrder
  Jobs = {j1}
  Ticks = {t1}
  Admins = {a1}
  Outcomes = {"ok", "network"}
  TargetStates = {"live"}
  MaxRuns = 1
  MaxResets = 1
  MaxCrashes = 0
SPECIFICATION Spec
INVARIANTS AckedAtMostOnce
CHECK_DEADLOCK FALSE
