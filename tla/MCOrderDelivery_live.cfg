CONSTANTS
  MaxAttempts = 3
  RetryIntervalMs = 3600000
  BackoffMs <- DefaultBackoffMs
  Orders = {o1}
  NoOrder = NoOrder
  Jobs = {j1, j2}
  Ticks = {t1}
  Admins = {a1}
  Outcomes = {"ok", "network"}
  TargetStates = {"live", "off", "gone"}
  MaxRuns = 2
  MaxResets = 1
  MaxCrashes = 0
SPECIFICATION FairSpec
PROPERTIES EventuallySettled
CHECK_DEADLOCK FALSE
