------------------------ MODULE RetryScheduleProofs ------------------------
(***************************************************************************)
(* What the retry policy guarantees for every configuration of the limits   *)
(* and of the ladder that its parsers accept.                               *)
(***************************************************************************)
EXTENDS RetrySchedule, TLAPS

\* The ladder lookup never leaves the ladder, whatever attempts is.
LEMMA BackoffInLadder ==
  ASSUME NEW n \in Nat PROVE BackoffAfter(n) \in Nat \ {0}
<1> DEFINE i == Smaller(Larger(n - 1, 0) + 1, Len(BackoffMs))
<1>1. BackoffMs \in Seq(Nat \ {0}) /\ Len(BackoffMs) \in Nat /\ Len(BackoffMs) > 0
  BY PolicyAssumption
<1>2. i \in 1..Len(BackoffMs)
  BY <1>1 DEF Smaller, Larger
<1>3. QED
  BY <1>1, <1>2 DEF BackoffAfter

LEMMA Limits ==
  /\ Second \in Nat \ {0}
  /\ RetryAfterMaxMs \in Nat /\ Second < RetryAfterMaxMs
  /\ RateLimitFloorMs \in Nat \ {0}
BY SMT DEF Second, RetryAfterMaxMs, RateLimitFloorMs

LEMMA ClampBounds ==
  ASSUME NEW ms \in Nat
  PROVE  /\ ClampRetryAfter(ms) \in Second..RetryAfterMaxMs
         /\ ms \in Second..RetryAfterMaxMs => ClampRetryAfter(ms) = ms
         /\ ms > RetryAfterMaxMs => ClampRetryAfter(ms) = RetryAfterMaxMs
         /\ ms <= Second => ClampRetryAfter(ms) = Second
BY Limits DEF ClampRetryAfter, Smaller, Larger

\* A retry is scheduled exactly when the policy does not give up: null never
\* means "now" and a delay is never zero.
LEMMA DelayOrNothing ==
  ASSUME NEW n \in Nat, NEW r \in Outcome, NEW ra \in Nat
  PROVE  /\ NextRetryDelay(n, r, ra) \in Nat
         /\ NextRetryDelay(n, r, ra) = NoRetry <=> GivesUp(n, r)
<1>1. RetryIntervalMs \in Nat \ {0}
  BY PolicyAssumption
<1>2. Larger(BackoffAfter(n), RateLimitFloorMs) \in Nat \ {0}
  BY BackoffInLadder, Limits DEF Larger
<1>3. ClampRetryAfter(ra) \in Nat \ {0}
  BY ClampBounds, Limits
<1>4. QED
  BY <1>1, <1>2, <1>3, BackoffInLadder DEF NextRetryDelay, NoRetry

TypeInv ==
  /\ attempts \in Nat
  /\ last \in Outcome
  /\ asked \in Nat
  /\ delay \in Nat
  /\ waited \in Nat
  /\ auths \in Nat

LEMMA TypeInvHolds == Spec => []TypeInv
<1>1. Init => TypeInv
  BY DEF Init, TypeInv, Outcome, ErrorType, NoRetry
<1>2. TypeInv /\ [Next]_vars => TypeInv'
  <2>1. ASSUME TypeInv, NEW r \in Outcome, NEW ra \in RetryAfters, Attempt(r, ra)
        PROVE  TypeInv'
    <3>1. waited + delay \in Nat /\ attempts + 1 \in Nat /\ auths + 1 \in Nat /\ ra \in Nat
      BY <2>1, RetryAftersAssumption DEF TypeInv
    <3>2. NextRetryDelay(attempts + 1, r, ra) \in Nat
      BY <3>1, DelayOrNothing
    <3>3. QED
      BY <2>1, <3>1, <3>2 DEF Attempt, TypeInv
  <2>2. QED
    BY <2>1 DEF Next, vars, TypeInv
<1>3. QED
  BY <1>1, <1>2, PTL DEF Spec

\* The partner's Retry-After is honoured between one second and six hours,
\* and a rate limit without one costs at least fifteen minutes.
THEOREM PartnerAlwaysDecides == Spec => []PartnerDecides
<1>1. Init => PartnerDecides
  BY DEF Init, PartnerDecides, Retrying
<1>2. TypeInv /\ PartnerDecides /\ [Next]_vars => PartnerDecides'
  <2>1. ASSUME TypeInv, NEW r \in Outcome, NEW ra \in RetryAfters, Attempt(r, ra)
        PROVE  PartnerDecides'
    <3> DEFINE d == NextRetryDelay(attempts + 1, r, ra)
    <3>1. ra \in Nat /\ attempts + 1 \in Nat
      BY <2>1, RetryAftersAssumption DEF TypeInv
    <3>2. last' = r /\ asked' = ra /\ delay' = d
      BY <2>1 DEF Attempt
    <3>3. SUFFICES ASSUME ~GivesUp(attempts + 1, r) PROVE PartnerDecides'
      BY <3>1, <3>2, DelayOrNothing DEF PartnerDecides, Retrying
    <3>4. CASE ra > 0
      BY <3>1, <3>2, <3>3, <3>4, ClampBounds, Limits DEF PartnerDecides, NextRetryDelay
    <3>5. CASE ra = 0
      <4>1. r = "rate_limit" => d >= RateLimitFloorMs
        BY <3>1, <3>3, <3>5, BackoffInLadder, Limits
        DEF NextRetryDelay, Larger
      <4>2. QED
        BY <4>1, <3>2, <3>5, Limits DEF PartnerDecides
    <3>6. QED
      BY <3>1, <3>4, <3>5
  <2>2. QED
    BY <2>1 DEF Next, vars, PartnerDecides, Retrying
<1>3. QED
  BY <1>1, <1>2, TypeInvHolds, PTL DEF Spec

\* Inductive form: an auth error from the second attempt on ends the retries.
AuthInv ==
  /\ auths <= 2
  /\ attempts = 0 => auths = 0
  /\ Retrying => auths <= 1

\* Bad credentials are tried at most twice, whatever the other errors are.
THEOREM AuthAlwaysTriedTwice == Spec => []AuthTriedTwice
<1>1. Init => AuthInv
  BY DEF Init, AuthInv, Retrying
<1>2. TypeInv /\ AuthInv /\ [Next]_vars => AuthInv'
  <2>1. ASSUME TypeInv, AuthInv, NEW r \in Outcome, NEW ra \in RetryAfters, Attempt(r, ra)
        PROVE  AuthInv'
    <3>1. ra \in Nat /\ attempts + 1 \in Nat
      BY <2>1, RetryAftersAssumption DEF TypeInv
    <3>2. delay' = NoRetry <=> GivesUp(attempts + 1, r)
      BY <2>1, <3>1, DelayOrNothing DEF Attempt
    <3>3. r = "auth" /\ attempts > 0 => delay' = NoRetry
      BY <2>1, <3>2 DEF GivesUp, TypeInv
    <3>4. QED
      BY <2>1, <3>3 DEF Attempt, AuthInv, Retrying, TypeInv
  <2>2. QED
    BY <2>1 DEF Next, vars, AuthInv, Retrying
<1>3. AuthInv => AuthTriedTwice
  BY DEF AuthInv, AuthTriedTwice
<1>4. QED
  BY <1>1, <1>2, <1>3, TypeInvHolds, PTL DEF Spec

-----------------------------------------------------------------------------
(* Time *)

LEMMA WaitTyped ==
  ASSUME NEW i \in DOMAIN BackoffMs
  PROVE  /\ BackoffMs[i] \in Nat
         /\ WaitUpTo(BackoffMs[i]) \in Nat
         /\ RetryAfterMaxMs <= WaitUpTo(BackoffMs[i])
         /\ RetryIntervalMs <= WaitUpTo(BackoffMs[i])
         /\ BackoffMs[i] <= WaitUpTo(BackoffMs[i])
<1>1. BackoffMs[i] \in Nat /\ RetryIntervalMs \in Nat
  BY PolicyAssumption
<1> QED BY <1>1, Limits DEF WaitUpTo, Larger

\* Products grow with their factors.
LEMMA Products ==
  ASSUME NEW a \in Nat, NEW b \in Nat, NEW v \in Nat, NEW w \in Nat,
         a <= b, v <= w
  PROVE  a * v \in Nat /\ a * v <= b * w /\ a * v + w <= (a + 1) * w
<1>1. a * v \in Nat /\ a * w \in Nat /\ (a + 1) * w = a * w + w
  BY SMT
<1>2. a * v <= a * w
  BY SMT
<1>3. a * w <= b * w
  BY SMT
<1> QED BY <1>1, <1>2, <1>3, SMT

\* No single wait is longer than the longest for some step of the ladder.
LEMMA DelayWithin ==
  ASSUME NEW n \in Nat, NEW r \in Outcome, NEW ra \in Nat
  PROVE  \E i \in DOMAIN BackoffMs : NextRetryDelay(n, r, ra) <= WaitUpTo(BackoffMs[i])
<1> DEFINE i == Smaller(Larger(n - 1, 0) + 1, Len(BackoffMs))
<1>1. i \in DOMAIN BackoffMs
  <2>1. BackoffMs \in Seq(Nat \ {0}) /\ Len(BackoffMs) \in Nat /\ Len(BackoffMs) > 0
    BY PolicyAssumption
  <2> QED BY <2>1 DEF Smaller, Larger
<1>2. BackoffAfter(n) = BackoffMs[i]
  BY DEF BackoffAfter
<1> HIDE DEF i
<1>3. ClampRetryAfter(ra) <= RetryAfterMaxMs /\ ClampRetryAfter(ra) \in Nat
  BY ClampBounds, Limits
<1>4. RateLimitFloorMs <= RetryAfterMaxMs
  BY SMT DEF RateLimitFloorMs, RetryAfterMaxMs, Second
<1>5. NextRetryDelay(n, r, ra) <= WaitUpTo(BackoffMs[i])
  BY <1>1, <1>2, <1>3, <1>4, WaitTyped, Limits, PolicyAssumption
  DEF NextRetryDelay, NoRetry, Larger
<1> QED BY <1>1, <1>5

\* The waits behind an order and before it.
Waits == IF Retrying \/ attempts = 0 THEN attempts ELSE attempts - 1

\* Inductive form: each wait so far was within that of some step, and there
\* is no wait after the last attempt.  The longest step is found as they come.
TimeInv ==
  /\ attempts <= MaxAttempts
  /\ Retrying => attempts < MaxAttempts
  /\ \E i \in DOMAIN BackoffMs : waited + delay <= Waits * WaitUpTo(BackoffMs[i])

LEMMA TimeInit == Init => TimeInv
<1> SUFFICES ASSUME Init PROVE TimeInv
  OBVIOUS
<1>1. attempts = 0 /\ waited = 0 /\ delay = 0 /\ Waits = 0
  BY DEF Init, NoRetry, Waits
<1>2. 1 \in DOMAIN BackoffMs
  BY PolicyAssumption
<1>3. WaitUpTo(BackoffMs[1]) \in Nat
  BY <1>2, WaitTyped
<1>4. waited + delay <= Waits * WaitUpTo(BackoffMs[1])
  BY <1>1, <1>3
<1> QED BY <1>1, <1>2, <1>4, PolicyAssumption DEF TimeInv, Retrying, NoRetry

LEMMA TimeStep ==
  ASSUME TypeInv, TimeInv, NEW r \in Outcome, NEW ra \in RetryAfters, Attempt(r, ra)
  PROVE  TimeInv'
<1>1. /\ ra \in Nat
      /\ attempts \in Nat /\ delay \in Nat /\ waited \in Nat /\ MaxAttempts \in Nat \ {0}
      /\ attempts' = attempts + 1
      /\ delay' = NextRetryDelay(attempts + 1, r, ra)
      /\ waited' = waited + delay
  BY RetryAftersAssumption, PolicyAssumption DEF Attempt, TypeInv
<1>2. delay' \in Nat /\ (delay' = NoRetry <=> GivesUp(attempts + 1, r))
  <2>1. attempts + 1 \in Nat
    BY <1>1
  <2> QED BY <1>1, <2>1, DelayOrNothing
<1>3. attempts < MaxAttempts /\ Waits = attempts
  BY <1>1 DEF TimeInv, Attempt, Retrying, Waits
<1>4. attempts' <= MaxAttempts /\ (Retrying' => attempts' < MaxAttempts)
  BY <1>1, <1>2, <1>3 DEF Retrying, GivesUp
<1>5. PICK i \in DOMAIN BackoffMs : waited + delay <= attempts * WaitUpTo(BackoffMs[i])
  BY <1>3 DEF TimeInv
<1>6. PICK j \in DOMAIN BackoffMs : delay' <= WaitUpTo(BackoffMs[j])
  BY <1>1, DelayWithin
<1> DEFINE v == WaitUpTo(BackoffMs[i])
           w == WaitUpTo(BackoffMs[j])
<1>7. v \in Nat /\ w \in Nat
  BY WaitTyped
<1>8. waited' <= attempts * v /\ delay' <= w
  BY <1>1, <1>5, <1>6
<1> HIDE DEF v, w
<1>9. CASE ~Retrying'
  <2>1. Waits' = attempts /\ delay' = 0
    BY <1>1, <1>9 DEF Waits, Retrying, NoRetry
  <2>2. waited' + delay' <= Waits' * v
    BY <1>1, <1>8, <2>1
  <2> QED BY <1>4, <2>2 DEF TimeInv, v
<1>10. CASE Retrying'
  <2>1. Waits' = attempts + 1
    BY <1>1, <1>10 DEF Waits
  <2>2. CASE v <= w
    <3>1. attempts * v \in Nat /\ attempts * v + w <= (attempts + 1) * w
      BY <1>1, <1>7, <2>2, Products
    <3>2. (attempts + 1) * w \in Nat
      BY <1>1, <1>7, Products
    <3>3. waited' + delay' <= Waits' * w
      BY <1>1, <1>2, <1>7, <1>8, <2>1, <3>1, <3>2
    <3> QED BY <1>4, <3>3 DEF TimeInv, w
  <2>3. CASE w <= v
    <3>1. attempts * v \in Nat /\ attempts * v + v <= (attempts + 1) * v
      BY <1>1, <1>7, Products
    <3>2. (attempts + 1) * v \in Nat
      BY <1>1, <1>7, Products
    <3>3. waited' + delay' <= Waits' * v
      BY <1>1, <1>2, <1>7, <1>8, <2>1, <2>3, <3>1, <3>2
    <3> QED BY <1>4, <3>3 DEF TimeInv, v
  <2> QED BY <1>7, <2>2, <2>3
<1> QED BY <1>9, <1>10

\* For every limit and every ladder, sorted or not, and whatever partners ask
\* for: MaxAttempts - 1 waits of the longest kind are all an order ever waits.
THEOREM AlwaysDecidedInTime == Spec => []DecidedInTime
<1>1. TypeInv /\ TimeInv /\ [Next]_vars => TimeInv'
  <2>1. CASE Next
    BY <2>1, TimeStep DEF Next
  <2>2. CASE UNCHANGED vars
    BY <2>2 DEF vars, TimeInv, Waits, Retrying
  <2> QED BY <2>1, <2>2
<1>2. TypeInv /\ TimeInv => DecidedInTime
  <2> SUFFICES ASSUME TypeInv, TimeInv PROVE DecidedInTime
    OBVIOUS
  <2>1. PICK i \in DOMAIN BackoffMs : waited + delay <= Waits * WaitUpTo(BackoffMs[i])
    BY DEF TimeInv
  <2>2. Waits \in Nat /\ MaxAttempts - 1 \in Nat /\ Waits <= MaxAttempts - 1
    BY PolicyAssumption DEF TimeInv, TypeInv, Waits
  <2> DEFINE w == WaitUpTo(BackoffMs[i])
  <2>3. w \in Nat
    BY WaitTyped
  <2> HIDE DEF w
  <2>4. Waits * w \in Nat /\ Waits * w <= (MaxAttempts - 1) * w
    BY <2>2, <2>3, Products
  <2>5. (MaxAttempts - 1) * w \in Nat
    BY <2>2, <2>3, Products
  <2>6. waited + delay <= (MaxAttempts - 1) * w
    BY <2>1, <2>4, <2>5 DEF TypeInv, w
  <2> QED BY <2>6 DEF DecidedInTime, w
<1> QED BY <1>1, <1>2, TimeInit, TypeInvHolds, PTL DEF Spec

=============================================================================
