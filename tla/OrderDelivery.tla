--------------------------- MODULE OrderDelivery ---------------------------
(***************************************************************************)
(* Delivery of orders: one row of the `orders` table per (lead,             *)
(* integration, destination), and the three kinds of tasks that work on it  *)
(* concurrently, each a sequence of separate database statements around one *)
(* HTTP call:                                                               *)
(*                                                                          *)
(*   Jobs    processLead -> deliverOneDestination, run by the BullMQ worker *)
(*   Ticks   one claimed row of retryDueFailedOrders, run by the scheduler  *)
(*   Admins  the admin mutation adminDlq.retryOrder                         *)
(*                                                                          *)
(* Ticks and Admins share retryFailedOrderDelivery; all three share         *)
(* runOrderIntegrationSend and persistOrderDeliveryAttemptResult.           *)
(* No row lock is held between two steps of a task.                         *)
(***************************************************************************)
EXTENDS RetryPolicy

CONSTANTS
  Orders,        \* the (lead, integration, destination) triples
  NoOrder,       \* the order of an idle task
  Jobs,          \* concurrent runs of deliverOneDestination
  Ticks,         \* concurrent row tasks of the order scheduler, all workers
  Admins,        \* concurrent calls of retryOrder
  Outcomes,      \* the outcomes the destinations report
  TargetStates,  \* the states users move a destination through
  MaxRuns,       \* bound: processLead runs per order
  MaxResets,     \* bound: admin resets, all orders together
  MaxCrashes     \* bound: tasks lost to a crash or a thrown error, and
                 \* answers lost on the way

Task == Jobs \cup Ticks \cup Admins

ASSUME DeliveryAssumption ==
  /\ NoOrder \notin Orders
  /\ Jobs \cap Ticks = {}
  /\ Jobs \cap Admins = {}
  /\ Ticks \cap Admins = {}
  /\ Outcomes \subseteq Outcome
  /\ TargetStates \subseteq {"live", "off", "gone"}
  /\ MaxRuns \in Nat
  /\ MaxResets \in Nat
  /\ MaxCrashes \in Nat

VARIABLES
  order,      \* the rows of `orders`; status "none" when there is no row
  target,     \* what the route of an order looks like to a retry
  task,       \* where each task stands, and what it holds in memory
  runs,       \* deliverOneDestination calls so far, per order
  resets,     \* admin resets so far
  crashes,    \* tasks and answers lost so far
  acked,      \* history: accepted deliveries per order
  unheard,    \* history: those of them whose answer was lost
  forfeited   \* history: orders whose claim was dropped without a result

vars == <<order, target, task, runs, resets, crashes, acked, unheard, forfeited>>

-----------------------------------------------------------------------------
(* State *)

Status == {"none", "PENDING", "SENT", "FAILED"}

\* nextRetryAt: NULL, in the future, or at most now.
RetryAt == {"null", "later", "due"}

Row == [status : Status, attempts : Nat, retryAt : RetryAt, errorType : ErrorType]

NoRow == [status |-> "none", attempts |-> 0, retryAt |-> "null",
          errorType |-> "undefined"]

\* The row deliverOneDestination inserts.
NewRow == [NoRow EXCEPT !.status = "PENDING"]

\* "off": integration inactive, mapping deleted, disabled or foreign: the
\*        retry is cancelled.  "gone": lead not ENRICHED, integration deleted
\*        or bound to another form: the retry is skipped.
Target == {"live", "off", "gone"}

Pc == {"idle", "insert", "reread", "gate", "reset", "read", "cancel", "send",
       "persist"}

Activity == [pc : Pc, order : Orders \cup {NoOrder}, prev : Nat, result : Outcome]

Idle == [pc |-> "idle", order |-> NoOrder, prev |-> 0, result |-> "undefined"]

Active(t) == task[t].pc # "idle"

\* A task that has taken its decision to send, or has sent.
Sending(t) == task[t].pc \in {"send", "persist"}

TypeOK ==
  /\ order \in [Orders -> Row]
  /\ target \in [Orders -> Target]
  /\ task \in [Task -> Activity]
  /\ \A t \in Task : Active(t) => task[t].order \in Orders
  /\ runs \in [Orders -> Nat]
  /\ resets \in Nat
  /\ crashes \in Nat
  /\ acked \in [Orders -> Nat]
  /\ unheard \in [Orders -> Nat]
  /\ forfeited \subseteq Orders

Init ==
  /\ order = [o \in Orders |-> NoRow]
  /\ target = [o \in Orders |-> "live"]
  /\ task = [t \in Task |-> Idle]
  /\ runs = [o \in Orders |-> 0]
  /\ resets = 0
  /\ crashes = 0
  /\ acked = [o \in Orders |-> 0]
  /\ unheard = [o \in Orders |-> 0]
  /\ forfeited = {}

-----------------------------------------------------------------------------
(* Steps of a task *)

Begin(t, o, pc, prev) ==
  task' = [task EXCEPT ![t] = [pc |-> pc, order |-> o, prev |-> prev,
                               result |-> "undefined"]]

Goto(t, pc) == task' = [task EXCEPT ![t].pc = pc]

Finish(t) == task' = [task EXCEPT ![t] = Idle]

-----------------------------------------------------------------------------
(* deliverOneDestination *)

\* Mutant: exhausted rows run again.
OpenToRunExhausted(row) ==
  row.status = "PENDING" \/ (row.status = "FAILED" /\ row.retryAt # "later")

\* The existing row lets a run through: PENDING, or FAILED with attempts left
\* and nextRetryAt not in the future.  NULL is not in the future.
OpenToRun(row) ==
  \/ row.status = "PENDING"
  \/ /\ row.status = "FAILED"
     /\ row.attempts < MaxAttempts
     /\ row.retryAt # "later"

\* The lookup of the existing order.  A run that finds the row SENT,
\* exhausted or not due returns and changes nothing.
JobLookup(t, o) ==
  /\ task[t].pc = "idle"
  /\ runs[o] < MaxRuns
  /\ target[o] = "live"
  /\ \/ order[o].status = "none" /\ Begin(t, o, "insert", 0)
     \/ OpenToRun(order[o]) /\ Begin(t, o, "send", order[o].attempts)
  /\ runs' = [runs EXCEPT ![o] = @ + 1]
  /\ UNCHANGED <<order, target, resets, crashes, acked, unheard, forfeited>>

\* INSERT; the unique key makes the second of two inserts throw.
JobInsert(t) ==
  LET o == task[t].order IN
  /\ task[t].pc = "insert"
  /\ \/ /\ order[o].status = "none"
        /\ order' = [order EXCEPT ![o] = NewRow]
        /\ Goto(t, "reread")
     \/ /\ order[o].status # "none"
        /\ Finish(t)
        /\ UNCHANGED order
  /\ UNCHANGED <<target, runs, resets, crashes, acked, unheard, forfeited>>

\* The SELECT after the INSERT takes whatever attempts the row has by now.
JobReread(t) ==
  LET o == task[t].order IN
  /\ task[t].pc = "reread"
  /\ Begin(t, o, "send", order[o].attempts)
  /\ UNCHANGED <<order, target, runs, resets, crashes, acked, unheard, forfeited>>

-----------------------------------------------------------------------------
(* retryDueFailedOrders *)

\* Mutant: NULL counts as due.
ClaimableWhenNull(row) ==
  row.status = "FAILED" /\ row.attempts < MaxAttempts /\ row.retryAt # "later"

Claimable(row) ==
  /\ row.status = "FAILED"
  /\ row.attempts < MaxAttempts
  /\ row.retryAt = "due"

\* Mutant: the claim leaves nextRetryAt as it is.
TickClaimKeepingDue(t, o) ==
  /\ task[t].pc = "idle"
  /\ Claimable(order[o])
  /\ Begin(t, o, "gate", 0)
  /\ UNCHANGED <<order, target, runs, resets, crashes, acked, unheard, forfeited>>

\* FOR UPDATE SKIP LOCKED and the UPDATE that clears nextRetryAt commit
\* together; the row then waits for its turn in the rate-limited runner.
TickClaim(t, o) ==
  /\ task[t].pc = "idle"
  /\ Claimable(order[o])
  /\ order' = [order EXCEPT ![o].retryAt = "null"]
  /\ Begin(t, o, "gate", 0)
  /\ UNCHANGED <<target, runs, resets, crashes, acked, unheard, forfeited>>

\* Mutant: a blocked row is not parked.
TickBlockedUnparked(t) ==
  /\ task[t].pc = "gate"
  /\ Finish(t)
  /\ UNCHANGED <<order, target, runs, resets, crashes, acked, unheard, forfeited>>

\* The breaker blocks: nextRetryAt = now + 5 min, whatever the row is now.
TickBlocked(t) ==
  /\ task[t].pc = "gate"
  /\ order' = [order EXCEPT ![task[t].order].retryAt = "later"]
  /\ Finish(t)
  /\ UNCHANGED <<target, runs, resets, crashes, acked, unheard, forfeited>>

TickAllowed(t) ==
  /\ task[t].pc = "gate"
  /\ Goto(t, "read")
  /\ UNCHANGED <<order, target, runs, resets, crashes, acked, unheard, forfeited>>

-----------------------------------------------------------------------------
(* adminDlq.retryOrder and retryAll *)

\* The lookup, and a breaker that lets the call through.
AdminLookup(t, o) ==
  /\ task[t].pc = "idle"
  /\ resets < MaxResets
  /\ order[o].status = "FAILED"
  /\ Begin(t, o, "reset", 0)
  /\ resets' = resets + 1
  /\ UNCHANGED <<order, target, runs, crashes, acked, unheard, forfeited>>

Due(row) == [row EXCEPT !.attempts = 0, !.retryAt = "due"]

\* attempts = 0, nextRetryAt = now WHERE id: the status is not checked again.
AdminReset(t) ==
  LET o == task[t].order IN
  /\ task[t].pc = "reset"
  /\ order' = [order EXCEPT ![o] = Due(@)]
  /\ forfeited' = forfeited \ {o}
  /\ Goto(t, "read")
  /\ UNCHANGED <<target, runs, resets, crashes, acked, unheard>>

\* retryAll: one conditional UPDATE over the exhausted rows of a destination.
AdminRetryAll(o) ==
  /\ resets < MaxResets
  /\ order[o].status = "FAILED"
  /\ order[o].attempts >= MaxAttempts
  /\ order' = [order EXCEPT ![o] = Due(@)]
  /\ forfeited' = forfeited \ {o}
  /\ resets' = resets + 1
  /\ UNCHANGED <<target, task, runs, crashes, acked, unheard>>

-----------------------------------------------------------------------------
(* retryFailedOrderDelivery *)

\* Mutant: due-ness checked again, although the claim has cleared nextRetryAt.
RetryReadIfDue(t) ==
  LET o == task[t].order IN
  /\ task[t].pc = "read"
  /\ IF Claimable(order[o]) /\ target[o] = "live"
     THEN Begin(t, o, "send", order[o].attempts)
     ELSE Finish(t)
  /\ UNCHANGED <<order, target, runs, resets, crashes, acked, unheard, forfeited>>

\* The row must still be FAILED with attempts left; then the lead, the
\* integration and the route decide.
RetryRead(t) ==
  LET o == task[t].order IN
  /\ task[t].pc = "read"
  /\ IF order[o].status = "FAILED" /\ order[o].attempts < MaxAttempts
     THEN \/ /\ target[o] = "live"
             /\ Begin(t, o, "send", order[o].attempts)
             /\ UNCHANGED forfeited
          \/ /\ target[o] = "off"
             /\ Goto(t, "cancel")
             /\ UNCHANGED forfeited
          \/ /\ target[o] = "gone"
             /\ Finish(t)
             /\ forfeited' = forfeited \cup {o}
     ELSE Finish(t) /\ UNCHANGED forfeited
  /\ UNCHANGED <<order, target, runs, resets, crashes, acked, unheard>>

\* nextRetryAt = NULL for a route that is off, in a statement of its own.
CancelRetry(t) ==
  LET o == task[t].order IN
  /\ task[t].pc = "cancel"
  /\ order' = [order EXCEPT ![o].retryAt = "null"]
  /\ forfeited' = forfeited \cup {o}
  /\ Finish(t)
  /\ UNCHANGED <<target, runs, resets, crashes, acked, unheard>>

-----------------------------------------------------------------------------
(* runOrderIntegrationSend and persistOrderDeliveryAttemptResult *)

Send(t, result) ==
  /\ task[t].pc = "send"
  /\ task' = [task EXCEPT ![t].pc = "persist", ![t].result = result]
  /\ acked' = IF result = "ok" THEN [acked EXCEPT ![task[t].order] = @ + 1]
                               ELSE acked
  /\ UNCHANGED <<order, target, runs, resets, crashes, unheard, forfeited>>

\* The destination accepts, but its answer does not arrive: the timeout of the
\* HTTP call reads as a network error.
LoseReply(t) ==
  LET o == task[t].order IN
  /\ task[t].pc = "send"
  /\ crashes < MaxCrashes
  /\ crashes' = crashes + 1
  /\ task' = [task EXCEPT ![t].pc = "persist", ![t].result = "network"]
  /\ acked' = [acked EXCEPT ![o] = @ + 1]
  /\ unheard' = [unheard EXCEPT ![o] = @ + 1]
  /\ UNCHANGED <<order, target, runs, resets, forfeited>>

\* Mutants of Settle: a retry whatever the error, as long as attempts are
\* left; the outcome stored as the error type; a refusal taken for success.
SettleRetrying(n, result) ==
  [status |-> IF result = "ok" THEN "SENT" ELSE "FAILED", attempts |-> n,
   retryAt |-> IF result = "ok" \/ n >= MaxAttempts THEN "null" ELSE "later",
   errorType |-> IF result = "ok" THEN "undefined" ELSE result]

SettleRawOutcome(n, result) ==
  [status |-> IF result = "ok" THEN "SENT" ELSE "FAILED", attempts |-> n,
   retryAt |-> IF GivesUp(n, result) THEN "null" ELSE "later",
   errorType |-> result]

SettleRefusalAsSent(n, result) ==
  [SettleRetrying(n, result) EXCEPT
     !.status = IF result \in {"ok", "validation"} THEN "SENT" ELSE "FAILED"]

\* The row after attempt n ended in result.
Settle(n, result) ==
  IF result = "ok"
  THEN [status |-> "SENT", attempts |-> n, retryAt |-> "null",
        errorType |-> "undefined"]
  ELSE [status |-> "FAILED", attempts |-> n,
        retryAt |-> IF GivesUp(n, result) THEN "null" ELSE "later",
        errorType |-> result]

\* Mutant: UPDATE ... WHERE id.
WinsRaceAlways(t) == task[t].pc = "persist"

\* The optimistic lock: UPDATE ... WHERE id AND attempts = prevAttempts.
WinsRace(t) == order[task[t].order].attempts = task[t].prev

Persist(t) ==
  LET o == task[t].order IN
  /\ task[t].pc = "persist"
  /\ IF WinsRace(t)
     THEN /\ order' = [order EXCEPT ![o] = Settle(task[t].prev + 1, task[t].result)]
          /\ forfeited' = forfeited \ {o}
     ELSE UNCHANGED <<order, forfeited>>
  /\ Finish(t)
  /\ UNCHANGED <<target, runs, resets, crashes, acked, unheard>>

-----------------------------------------------------------------------------
(* The environment *)

TimePasses(o) ==
  /\ order[o].retryAt = "later"
  /\ order' = [order EXCEPT ![o].retryAt = "due"]
  /\ UNCHANGED <<target, task, runs, resets, crashes, acked, unheard, forfeited>>

\* Users switch integrations and routes; enrichment of the lead moves too.
TargetChanges(o, s) ==
  /\ target[o] # s
  /\ target' = [target EXCEPT ![o] = s]
  /\ UNCHANGED <<order, task, runs, resets, crashes, acked, unheard, forfeited>>

\* The worker dies or the task throws (the caller only logs): what the task
\* held in memory is gone, the row stays as it is.
Crash(t) ==
  /\ Active(t)
  /\ crashes < MaxCrashes
  /\ crashes' = crashes + 1
  /\ forfeited' = forfeited \cup {task[t].order}
  /\ Finish(t)
  /\ UNCHANGED <<order, target, runs, resets, acked, unheard>>

-----------------------------------------------------------------------------
JobStep(t) == (\E o \in Orders : JobLookup(t, o)) \/ JobInsert(t) \/ JobReread(t)

TickStep(t) == (\E o \in Orders : TickClaim(t, o)) \/ TickBlocked(t) \/ TickAllowed(t)

AdminStep(t) == (\E o \in Orders : AdminLookup(t, o)) \/ AdminReset(t)

RetryStep(t) == RetryRead(t) \/ CancelRetry(t)

SendStep(t) == (\E r \in Outcomes : Send(t, r)) \/ LoseReply(t) \/ Persist(t)

EnvironmentStep(o) ==
  \/ AdminRetryAll(o)
  \/ TimePasses(o)
  \/ \E s \in TargetStates : TargetChanges(o, s)

Next ==
  \/ \E t \in Jobs : JobStep(t)
  \/ \E t \in Ticks : TickStep(t)
  \/ \E t \in Admins : AdminStep(t)
  \/ \E t \in Ticks \cup Admins : RetryStep(t)
  \/ \E t \in Task : SendStep(t) \/ Crash(t)
  \/ \E o \in Orders : EnvironmentStep(o)

Spec == Init /\ [][Next]_vars

\* A started task runs on, time passes, and the per-minute tick claims the
\* oldest due rows first, so a row that keeps coming due is claimed.  The
\* breaker does not refuse a destination for ever: cooldowns expire.
\* Nothing is assumed of users, admins, partners, crashes or processLead.
Fairness ==
  /\ \A t \in Task :
       /\ WF_vars(JobInsert(t) \/ JobReread(t) \/ AdminReset(t))
       /\ WF_vars(TickBlocked(t) \/ TickAllowed(t))
       /\ WF_vars(RetryStep(t))
       /\ WF_vars((\E r \in Outcomes : Send(t, r)) \/ Persist(t))
  /\ \A o \in Orders :
       /\ WF_vars(TimePasses(o))
       /\ SF_vars(\E t \in Ticks : TickClaim(t, o))
       /\ SF_vars(\E t \in Ticks : task[t].order = o /\ TickAllowed(t))

FairSpec == Spec /\ Fairness

-----------------------------------------------------------------------------
(* Properties *)

\* A row whose last attempt calls for another one.
Unresolved(row) ==
  \/ row.status = "PENDING"
  \/ row.status = "FAILED" /\ ~GivesUp(row.attempts, row.errorType)

\* A task that will still write a decision to the row of o: it has not read
\* the row yet, or what it read is still current.
Carries(t, o) ==
  /\ task[t].order = o
  /\ \/ task[t].pc \in {"reread", "gate", "read", "cancel"}
     \/ Sending(t) /\ WinsRace(t)

\* An order that needs another attempt is never silently forgotten: it is
\* scheduled, or a task carries it, or its claim was dropped by a crash or a
\* route that is off or gone.  The scheduler clears nextRetryAt when it
\* claims, so every early return of the retry path could strand the row.
RetryNotLost ==
  \A o \in Orders :
    Unresolved(order[o]) /\ order[o].retryAt = "null" =>
      o \in forfeited \/ \E t \in Task : Carries(t, o)

\* SENT is never written for an order unless a destination accepted it and
\* some task heard so, whichever task wins the race on attempts.
SentWasAcked ==
  \A o \in Orders : order[o].status = "SENT" => acked[o] > unheard[o]

\* Without a second run of processLead and without retryOrder, an order is
\* accepted again only for an answer that was lost, however many workers and
\* crashes there are: nothing but the network makes the system send twice.
\* (The claim of orderRetryScheduler.ts:11.)
AckedAtMostOnce == \A o \in Orders : acked[o] <= 1 + unheard[o]

\* However jobs, scheduler tasks, admins, races and crashes interleave, every
\* acceptance of an order that was heard is paid for by a run of processLead
\* or an admin's retry; one admin retry may pay for two, as it makes the row
\* due and goes on to send itself.  The schedulers alone multiply nothing.
SendsPaidFor ==
  \A o \in Orders : acked[o] <= unheard[o] + runs[o] + 2 * resets

\* At most one task at a time works on an order: the claim is exclusive.
OneTaskPerOrder ==
  \A t, u \in Task : Active(t) /\ task[u].order = task[t].order => t = u

\* The attempts column never exceeds ORDER_MAX_DELIVERY_ATTEMPTS, although
\* the write that increments it does not check the limit.
AttemptsBounded == \A o \in Orders : order[o].attempts <= MaxAttempts

\* As long as no admin has reset attempts, a delivered order stays delivered,
\* so it is never sent again: no write of a slower attempt gets past the lock.
SentIsFinal ==
  [][\A o \in Orders :
       order[o].status = "SENT" /\ resets = 0 => order'[o].status = "SENT"]_vars

\* A FAILED row is scheduled only if the policy retries its last error: an
\* error given up on, like validation, is not sent again on its own.  The
\* scheduler writes nextRetryAt of a blocked row without looking at it again,
\* so this rests on no other task having moved the row since the claim.
ScheduledOnlyIfRetryable ==
  \A o \in Orders :
    order[o].status = "FAILED" /\ order[o].retryAt # "null" =>
      ~GivesUp(order[o].attempts, order[o].errorType)

Settled(row) == row.status # "none" /\ ~Unresolved(row)

\* Every order that was ever created is delivered, given up by the policy, or
\* dropped because its route is off or gone.  (Runs without crashes.)
EventuallySettled ==
  \A o \in Orders :
    order[o].status # "none" ~> Settled(order[o]) \/ o \in forfeited

=============================================================================
