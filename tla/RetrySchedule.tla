--------------------------- MODULE RetrySchedule ---------------------------
(***************************************************************************)
(* The attempts of one order in time, when the scheduler alone retries it:  *)
(* computeNextRetryAt applied to one failure after another, on a clock of   *)
(* milliseconds.                                                            *)
(***************************************************************************)
EXTENDS RetryPolicy

CONSTANT RetryAfters  \* Retry-After values of the partner in ms, 0 for none

ASSUME RetryAftersAssumption == RetryAfters \subseteq Nat

VARIABLES
  attempts,  \* orders.attempts
  last,      \* outcome of the last attempt
  asked,     \* Retry-After that came with it
  delay,     \* from the last attempt to nextRetryAt, NoRetry for NULL
  waited,    \* from the first attempt to the last one
  auths      \* history: attempts that ended in an auth error

vars == <<attempts, last, asked, delay, waited, auths>>

Init ==
  /\ attempts = 0
  /\ last = "undefined"
  /\ asked = 0
  /\ delay = NoRetry
  /\ waited = 0
  /\ auths = 0

\* The first attempt comes from processLead, the others when they are due.
Attempt(r, ra) ==
  /\ attempts = 0 \/ delay # NoRetry
  /\ attempts' = attempts + 1
  /\ last' = r
  /\ asked' = ra
  /\ delay' = NextRetryDelay(attempts + 1, r, ra)
  /\ waited' = waited + delay
  /\ auths' = IF r = "auth" THEN auths + 1 ELSE auths

Next == \E r \in Outcome, ra \in RetryAfters : Attempt(r, ra)

Spec == Init /\ [][Next]_vars

-----------------------------------------------------------------------------

Retrying == delay # NoRetry

\* The partner decides when to come back, within a second and six hours;
\* without instruction a rate-limited partner is left alone for 15 minutes.
PartnerDecides ==
  Retrying =>
    /\ asked \in Second..RetryAfterMaxMs => delay = asked
    /\ asked > RetryAfterMaxMs => delay = RetryAfterMaxMs
    /\ asked \in 1..Second => delay = Second
    /\ last = "rate_limit" /\ asked = 0 => delay >= RateLimitFloorMs

\* The longest wait when the ladder goes up to this step.
WaitUpTo(step) == Larger(Larger(RetryAfterMaxMs, RetryIntervalMs), step)

\* Whatever partners ask for, an order is decided within MaxAttempts - 1
\* waits of the longest kind: it cannot be parked for ever.  The longest step
\* of the ladder need not be the last: ORDER_RETRY_BACKOFF_MS is not sorted.
DecidedInTime ==
  \E i \in DOMAIN BackoffMs :
    waited + delay <= (MaxAttempts - 1) * WaitUpTo(BackoffMs[i])

\* A credential is tried at most twice, in whatever order errors arrive.
AuthTriedTwice == auths <= 2

=============================================================================
