CONSTANTS
  MaxAttempts = 3
  RetryIntervalMs = 3600000
  BackoffMs <- DefaultBackoffMs
  Orders = {o1}
  NoOrder = NoOrder
  Jobs = {j1}
  Ticks = {t1, t2}
  Admins = {a1}
  Outcomes = {"ok", "network", "auth", "validation"}
  TargetStates = {"live", "off", "gone"}
  MaxRuns = 2
  MaxResets = 1
  MaxCrashes = 1
SPECIFICATION Spec
INVARIANTS TypeOK RetryNotLost SentWasAcked AttemptsBounded SendsPaidFor
PROPERTIES SentIsFinal
SYMMETRY Symmetry
CHECK_DEADLOCK FALSE
