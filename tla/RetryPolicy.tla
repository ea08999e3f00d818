---------------------------- MODULE RetryPolicy ----------------------------
(***************************************************************************)
(* The order retry policy of server/lib/orderRetryPolicy.ts as operators:   *)
(* which failures are ever retried, and after how long.  Delays are in      *)
(* milliseconds; NoRetry stands for the null that computeNextRetryAt        *)
(* returns when the order is given up.                                      *)
(***************************************************************************)
EXTENDS Integers, Sequences

CONSTANTS
  MaxAttempts,      \* ORDER_MAX_DELIVERY_ATTEMPTS (env, 3 by default)
  RetryIntervalMs,  \* ORDER_RETRY_INTERVAL_MS (env, 1 h by default)
  BackoffMs         \* RETRY_BACKOFF_AFTER_FAILURE_MS (env, <<5m, 15m, 60m>>)

\* envInt and the parser of ORDER_RETRY_BACKOFF_MS reject zero, negative and
\* empty values, whatever the deployment sets.
ASSUME PolicyAssumption ==
  /\ MaxAttempts \in Nat \ {0}
  /\ RetryIntervalMs \in Nat \ {0}
  /\ BackoffMs \in Seq(Nat \ {0})
  /\ BackoffMs # << >>

\* DeliveryErrorType; "undefined" is a failure the adapter did not classify.
ErrorType == {"network", "auth", "validation", "rate_limit", "undefined"}

\* What one delivery attempt reports back.
Outcome == {"ok"} \cup ErrorType

NoRetry == 0

Second == 1000
RateLimitFloorMs == 15 * 60 * Second
RetryAfterMaxMs == 6 * 60 * 60 * Second

Larger(a, b) == IF a >= b THEN a ELSE b
Smaller(a, b) == IF a <= b THEN a ELSE b

-----------------------------------------------------------------------------

\* Mutants: the limit forgotten, the limit one late, a third auth attempt.
GivesUpUnlimited(n, r) == r \in {"ok", "validation"} \/ (r = "auth" /\ n >= 2)
GivesUpOneLate(n, r) == GivesUpUnlimited(n, r) \/ n > MaxAttempts
GivesUpAuthLate(n, r) ==
  r \in {"ok", "validation"} \/ n >= MaxAttempts \/ (r = "auth" /\ n >= 3)

\* No retry is ever scheduled after attempt n that ended in outcome r.
GivesUp(n, r) ==
  \/ r = "ok"
  \/ n >= MaxAttempts
  \/ r = "validation"
  \/ r = "auth" /\ n >= 2

\* Mutant: no upper end.
ClampAtFloor(ms) == Larger(ms, Second)

\* A Retry-After of the partner, kept between one second and six hours.
ClampRetryAfter(ms) == Smaller(Larger(ms, Second), RetryAfterMaxMs)

\* The step of the ladder that follows attempt n; the last step repeats.
BackoffAfter(n) == BackoffMs[Smaller(Larger(n - 1, 0) + 1, Len(BackoffMs))]

\* Milliseconds until the next automatic attempt.  retryAfter is 0 when the
\* partner sent no usable header.
NextRetryDelay(n, r, retryAfter) ==
  IF GivesUp(n, r) THEN NoRetry
  ELSE IF retryAfter > 0 THEN ClampRetryAfter(retryAfter)
  ELSE IF r = "undefined" THEN RetryIntervalMs
  ELSE IF r = "rate_limit" THEN Larger(BackoffAfter(n), RateLimitFloorMs)
  ELSE BackoffAfter(n)

=============================================================================
