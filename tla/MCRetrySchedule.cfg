CONSTANTS
  MaxAttempts = 5
  RetryIntervalMs = 3600000
  BackoffMs <- DefaultBackoffMs
  RetryAfters <- SomeRetryAfters
SPECIFICATION Spec
INVARIANTS PartnerDecides DecidedInTime AuthTriedTwice
CHECK_DEADLOCK FALSE
