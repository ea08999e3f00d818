# Targenix in TLA+

Targenix receives leads from Facebook Lead Ads, enriches them through the Graph
API and delivers each of them to the destinations a user has connected: HTTP
APIs, affiliate networks, Telegram chats, spreadsheets. Leads come in by
webhook, by a replay of stored events and by polling; a job per lead enriches
them; delivery is retried by a scheduler, by repeated runs of the lead pipeline
and by hand, it is gated by a circuit breaker per destination, and it may be
paused. All of this runs in several workers against one MySQL database and one
Redis, with no lock held from the moment a row is read to the moment the outcome
of an HTTP call is written back.

The modules in this directory model that core, from the event Facebook posts to
the answer of the partner: intake, the pipeline of a lead, the life of an order,
the retry policies, the circuit breaker, the queue of a paused destination, and
the renewal of the tokens without which no lead can be enriched. Paths below are
relative to the repository's `server/` unless they say otherwise.

Conventions: definitions keep the source's names where they can; each action is
one database statement or one HTTP call together with what the code does to its
local state before the next one; a definition whose comment says *Mutant* is a
plausible bug of the definition below it and is used by no specification. It is
there to show that the properties notice it. *History* variables carry no code
and are read by no guard; they only let a property speak of the past.

## 1. Inventory

| Component | State it keeps | Operations | Hard behaviour | What makes it correct |
|---|---|---|---|---|
| Facebook webhook and replay: `webhooks/facebookWebhook.ts`, `lib/webhookRateLimit.ts`, `tooling/replay-webhook-events.ts` (of the repository's root) | `webhook_events`; leads per page and minute in memory | store, acknowledge, save leads, mark processed; select unprocessed events and save their leads | acknowledged before the leads are saved; marked inside the loop over the leads; replay beside live requests | an event is handled once, no acknowledged lead is lost |
| Lead polling: `services/leadPollingService.ts` | none of its own: the window is derived from the newest enriched lead of a form | fetch up to ten pages, compare, insert, rescue a parked lead | second source of the same leads; a window that must not close too early; a cap on leads per fetch and on forms per tick | what the webhook missed is taken in |
| Lead pipeline: `services/leadService.ts`, `queues/leadQueue.ts`, `workers/` | `leads`: dataStatus, deliveryStatus, dataAttempts, dataNextRetryAt, dataErrorType; one BullMQ job per lead | `saveIncomingLead`, `enqueueLeadJob`, `processLead`, `persistGraphFailure`, `recalculateLeadDeliveryStatus` | the job is in any state when it is asked for and moves on while it is looked at; row, job and caller are in three places | no lead that needs work is forgotten, none that is given up is tried again, each is resolved |
| Enrichment retry and sweep: `lib/leadEnrichmentRetryPolicy.ts`, `services/leadGraphRetryScheduler.ts`, `services/retryScheduler.ts` | dataAttempts, dataNextRetryAt | claim and enqueue every minute, hourly sweep of PENDING leads | claim committed before the enqueue | same as the pipeline |
| Manual retry and backfill: `routers/leadsRouter.ts`, `routers/adminBackfillRouter.ts`, `routers/adminLeadsRouter.ts` | none | reset a lead and re-run the pipeline | runs beside the schedulers, writes by id what it read earlier | same as the pipeline |
| Order delivery: `services/leadService.ts`, `services/orderRetryScheduler.ts`, `routers/adminDlqRouter.ts` | `orders`: status, attempts, nextRetryAt, lastErrorType | `deliverOneDestination`, `retryDueFailedOrders`, `retryFailedOrderDelivery`, `persistOrderDeliveryAttemptResult`, `adminDlq.retryOrder`, `retryAll` | three kinds of tasks on one row, a claim committed before the send, an optimistic lock after it, crashes and lost answers between | no double delivery but for a lost answer, nothing forgotten, SENT is true and final, attempts bounded, everything settles |
| Order retry policy: `lib/orderRetryPolicy.ts` | none | `computeNextRetryAt`, `inferDeliveryErrorType` | Retry-After, ladders and limits at their ends | partner's wishes within bounds, bounded time to a decision |
| Circuit breaker: `services/circuitBreaker.ts`, `lib/circuitPolicy.ts` | `circuit_breakers`, one row per destination | `recordOutcome`, `evaluateClaim`, previews, `autoPromoteExpiredCooldowns` | read-decide-write without a lock; first attempts are never gated, so outcomes come in every state | follows its diagram, never shut for ever, consistent columns |
| Retry runner: `createRateLimitedRunner` in `services/orderRetryScheduler.ts` | token bucket, running count per destination, in memory | `enqueue`, `runAll` | fairness between destinations in one tick | caps hold, every task of a tick ends |
| Pending queue: `services/destinationPendingQueue.ts`, `services/destinationFlushScheduler.ts`, `routers/destinationSchedulesRouter.ts` | `destination_schedules`, `destination_pending_leads`, the last hour seen per schedule in memory | pause and start at an hour, enqueue, flush (claim, send, roll back), stale flush, orphan clean-up, six mutations | pause read before the enqueue, crash between claim and send, restart forgets the hour | a parked lead is delivered once and is never stranded |
| Token refresh: `services/fbTokenRefreshScheduler.ts`, `routers/facebookAccountsRouter.ts` | `facebook_accounts`: token and its end; throttle keys in Redis | daily tick (select, exchange, store or mark dead, alert), connect, disconnect | minutes between reading a row and writing it by id; several processes; Facebook and workers failing for days | no token lapses while its consent stands, one alert a day |
| Routing and filters, delivery adapters, templates | none | pure functions and HTTP calls | none | right request for a lead |
| Workflows and triggers, CRM sync and its in-memory breaker, request rate limits | their own tables and maps | periodic jobs, steps in sequence | overlap of ticks, caps in memory | counters return to zero |
| Health checks, notifications, insights, metrics, OAuth, Telegram bot, server-sent events, HTTP server, client, tooling | none the others depend on | I/O and reporting | none | none |

Interaction. The webhook stores an event, acknowledges it, saves its leads and
asks for a job for each of them. The replay tool does the same for events still
unprocessed, polling for leads the Graph API knows and the database does not.
`enqueueLeadJob` gives a job an id derived from the lead, so that one run of
`processLead` works on a lead at a time; the timers, users and admins go through
the same function. `processLead` enriches the lead and calls
`deliverOneDestination` for each route. That inserts an `orders` row, sends, and
persists the outcome; if the destination is paused the lead goes to the pending
queue instead. Every minute the order scheduler claims due FAILED rows with
`FOR UPDATE SKIP LOCKED`, clearing nextRetryAt, asks the circuit breaker for each
of them and, if it allows, lets `retryFailedOrderDelivery` send again. Every
persisted outcome is reported to the breaker. Admins reset orders
(`retryOrder`, `retryAll`). Enrichment needs the token of the account; the token
scheduler renews it once a day.

`PROJECT.json` lists all components with their status, and the hazards, each at
its line, with the properties that guard against it.

## 2. Modules

    LeadIntake ------ MCLeadIntake
             '------- LeadIntakeProofs
    LeadPolicy ------ LeadPipeline ---- MCLeadPipeline
                          '------------ LeadPipelineProofs
    RetryPolicy ---- RetrySchedule ---- MCRetrySchedule
        |                 '------------ RetryScheduleProofs
        '--------- OrderDelivery ------ OrderRefinement ---- MCOrderDelivery
                          |                  |'-- instance of OrderLifecycle
                          |                  '--------- OrderAttemptsProofs
                          '------------ OrderDeliveryProofs ------'
    CircuitPolicy -- CircuitBreaker --- MCCircuitBreaker
                          |'----------- CircuitBreakerProofs
                          '------------ instance of BreakerDiagram
    PendingQueue ---- MCPendingQueue
             |'------ PendingQueueProofs
             '------- instance of ParkedRow
    TokenRefresh ---- MCTokenRefresh
             '------- TokenRefreshProofs

The components are composed by abstraction: what one of them leaves to another
is a nondeterministic choice over what the other can do. `LeadIntake` lets the
status of a saved lead change at will, which is `LeadPipeline`'s matter;
`LeadPipeline` has the fan-out as one step, which is `OrderDelivery`'s;
`OrderDelivery` and `PendingQueue` let the breaker and the partner answer as
they like.

### LeadIntake

One form, its leads and the events that carry them. Time is counted in hours, as
polling windows are.

| Action | Code |
|---|---|
| `Submit`, `Post` | Facebook: a form is filled in, each lead at an hour of its own; an event is posted, for the first time or again |
| `Store`, `AckDuplicate`, `StoreFails`, `Ack` | the durable insert with its unique signature, 200 for a duplicate, 500 for an error |
| `CheckRate`, `FindNobody`, `Save`, `SaveFails`, `Mark`, `MarkFails` | the loop over the changes of the event: the cap per page and minute, the owners of the page, `saveIncomingLead` (which swallows its error), and `processed = true`, which is written inside the loop |
| `CrashWebhook`, `MinuteEnds` | the process dies with all its requests and counts; the counter is reset |
| `ReplayStart`, `ReplaySave`, `ReplaySaveFails`, `ReplayFindsNobody`, `ReplayMark`, `ReplayThrows`, `CrashReplay` | `replay-webhook-events.ts --apply`: select the unprocessed events, save each one's leads, then mark it |
| `PollFetch`, `PollBreaksOff`, `PollInsert`, `PollInsertFails`, `CrashPoll` | `deriveHoursBack`, `fetchLeadsFromForm` and `findExistingLeads`; `insertAndDispatchPolledLead` |
| `Process`, `TimePasses` | what the pipeline does to a row; time |

`fetchLeadsFromForm` reads the newest leads first, `PageLimit` to a page (100 in
the code), and stops at the window, after `MaxPages` pages (10), or at an error,
which `PollBreaksOff` has: what was read so far is used as if it were all. Leads
that have a row fill these pages like any others. `Polled` is the premise that
polling reaches the form at all (section 3, fairness).

Histories: `skipped` (left out on purpose: over the cap, or nobody owns the
page), `unsaved` (the save failed), `cut` (the request broke off after its event
had been marked).

### LeadPolicy, LeadPipeline

`LeadGivesUp` says when `computeLeadNextRetryAt` returns null. The row of a lead,
its BullMQ job and what a caller has read of that job are three variables, and no
action writes more than one of the three places, as in the code.

| Action | Code |
|---|---|
| `NewLead`, `Again`, `PollRescue` | a saved or polled lead, a second event, replay or `sendLeads`, `reEnrichParkedLead` |
| `Sweep`, `ClaimGraphRetry` | `retryStuckPendingLeads`; the claiming transaction of `retryDueGraphErrorLeads` |
| `ManualRead`, `ManualReset` | `retryLead` and `retryAllFailed`: the select, then the update by id |
| `Look`, `RetryJob`, `RemoveJob`, `AddJob`, `LoseCall` | `enqueueLeadJob`: look at the job, then retry, remove or add it; the caller dies or Redis fails |
| `Take`, `FetchFails`, `PersistFailure`, `Enrich`, `FanOut`, `Settle`, `SettleOpen` | `processLead`; `persistGraphFailure` in its two statements; the aggregate of settled orders, or of orders one of which was left PENDING by a throwing task |
| `Complete`, `Throw`, `Stall`, `BackoffEnds`, `Evict` | BullMQ: completion, retries after a throw, stalled jobs, removal of old ones |
| `RetryFailedJob`, `TimePasses` | the admin's `retryFailedQueueJobs`; dataNextRetryAt comes |

History: `dropped` holds the leads whose last dispatch came to nothing, through
a fault or through the window between the result of a run and the moment BullMQ
learns of it (section 6).

### RetryPolicy, RetrySchedule

`RetryPolicy` is `computeNextRetryAt` as operators: `GivesUp` (when it returns
null), `ClampRetryAfter`, `BackoffAfter`, `NextRetryDelay`. `MaxAttempts`,
`RetryIntervalMs` and `BackoffMs` are the environment settings; the assumption on
them is what the parsers guarantee. `RetrySchedule` applies it to one failure
after another on a millisecond clock.

### OrderDelivery

One `orders` row per element of `Orders`, with the four columns that control
delivery; status `"none"` stands for no row. nextRetryAt is NULL, in the future
or due. `task` maps each concurrent activity to its program counter and to what
it holds in memory (the attempts it read and the outcome it got):

| Action | Code |
|---|---|
| `JobLookup`, `JobInsert`, `JobReread` | `deliverOneDestination`: look the order up, insert it or fail on the unique key, select it again |
| `TickClaim` | the claiming transaction of `retryDueFailedOrders`: select FOR UPDATE SKIP LOCKED and clear nextRetryAt |
| `TickBlocked`, `TickAllowed` | the answer of the breaker; a blocked row is parked for five minutes |
| `AdminLookup`, `AdminReset`, `AdminRetryAll` | `adminDlq.retryOrder` in two statements, `retryAll` in one |
| `RetryRead`, `CancelRetry` | the checks of `retryFailedOrderDelivery`, and the branch that cancels the retry |
| `Send`, `LoseReply`, `Persist` | `runOrderIntegrationSend` with an answer that arrives, or that is lost after the partner has accepted (a time-out); `persistOrderDeliveryAttemptResult` with its optimistic lock on attempts |
| `TimePasses`, `TargetChanges`, `Crash` | time, users switching routes and integrations, a worker that dies or a task that throws |

`target` abstracts lead, integration and route to what a retry distinguishes:
`live`, `off` (the retry is cancelled) and `gone` (the retry is skipped).
Histories: `acked` counts what the partner accepted, `unheard` how often the
answer was lost, `forfeited` holds the orders whose claim was dropped without a
result (by a crash, or because the route was off or gone).

`OrderLifecycle` is the abstract order, without tasks, attempts or claims: tried
until delivered or stopped, accepted once, delivered only if accepted.
`OrderRefinement` maps the rows and tasks to it; an acceptance nobody heard of is
none of the abstract order.

### CircuitBreaker

`CircuitPolicy` is the table of `circuitPolicy.ts` and the trip rule. A row has
the columns of `circuit_breakers`; the window's age is counted in steps of five
minutes, cooldownUntil is absent, active or expired. `recordOutcome` and
`evaluateClaim` are two steps each: the read (`RecordRead`, `EvaluateRead`) and
the write of what was decided from it (`RecordWrite`, `EvaluateDecide`), with any
other step in between. `RecordWrite` writes the columns the branch writes and
leaves the others as they are *now*. The three previews call `evaluateClaim`, so
they are evaluations too; `AutoPromote` is the statement every tick begins with.
`BreakerDiagram` is the state diagram of the file's header, per destination.

### PendingQueue

One destination, its row of `destination_schedules` and its rows of
`destination_pending_leads`. Destinations share nothing here but the order in
which a tick visits them. `task` holds what each flusher is doing: a *flusher*
is the tick of a worker, or a call of a mutation by the user.

| Action | Code |
|---|---|
| `JobCheck`, `JobQueue`, `JobDeliver` | `deliverOneDestination`: `shouldQueueForPause` reads the pause, then the lead is enqueued or goes on to its order; the outcome of the latter, which OrderDelivery has in detail, is a choice |
| `OrderRetry` | the order scheduler delivers a FAILED order, whatever the pause says |
| `FlushLoad`, `FlushDest`, `FlushClaim`, `DispatchSucceeds`, `DispatchFails`, `Rollback`, `FlushDone` | `flushPendingForDestination`, called from seven places; `Return` goes back to the caller |
| `TickBegin`, `TickPause`, `TickStart`, `TickSend`, `TickMark` | `runFlushTick` for the schedule it has read at the start |
| `TickStale`, `TickOrphans`, `TickSweep` | `flushStalePendingLeads`, `cleanupOrphanedPending` |
| `SetSchedule`, `ClearSchedule`, `FlushPendingAll`, `ReadFirst`, `StartAll`, `ResetSchedules` | the mutations; `pauseAll` does to each destination what `setSchedule` does, and the last two read before they write |
| `HourPasses`, `RowAges`, `DestinationDeleted`, `Crash` | time, `deleteAccount`, a database error or restart in the middle of a flush |

A schedule that is deleted and made again has a new id, so a tick that still
holds the old one updates nothing. `lastEvaluatedHour` is keyed by that id; of a
worker's entries only the last can be asked for again, and `last` holds it, id
and hour. `scheduledFor` is left out: it is written and
never read. The histories are `acked` (acceptances per lead), `taken`
(per row) and `dropped` (rows whose claim was lost in a crash).

`ParkedRow` is the abstract row, without schedules, hours, batches or columns:
parked, claimed by one flush, given back or accepted, lost with its claimant or
its destination. `Parked(r)` maps a row to it: `Holders` are the flushers that
hold it, `PhaseOf` reads the rest from its columns and the histories.

### TokenRefresh

The rows of `facebook_accounts` on a calendar of days. `grant` is what Facebook
knows: the number of the consent in force; a token belongs to a consent and has a
last day.

| Action | Code |
|---|---|
| `Connect`, `ConnectBusiness`, `ConnectUnexchanged`, `Disconnect` | `connect` and `connectAndSubscribeAll` with a long-lived token, one without an end, or the short one of the dialog when the exchange fails; `disconnect` |
| `Revoke` | the user withdraws consent at Facebook, or changes the password |
| `TickStart` | the due query of a tick, which holds the rows it read until it has come to each |
| `Exchanged`, `Refused`, `RefusedAlive`, `Transient` | `exchangeForLongLivedToken` and the class `classifyGraphError` gives its error: a refusal of a void token, a passing error taken for a refusal, an error that is tried again tomorrow |
| `Store`, `MarkDead`, `WriteFails` | the update by id of the new token, or of the mark that the old one is dead |
| `Notify`, `NotifyBlindly` | the alert behind `SET NX` in Redis; without Redis it is sent all the same |
| `Crash`, `DayPasses` | a restart; a day, with a tick or, as an outage, without one |

Histories: `alerts` (messages of the day under a key), `overtaken` (rows a user
wrote while a tick was at them), `misjudged` (rows marked dead after
`RefusedAlive`; the code does not tell them from the others).

## 3. Runs

| Run | Instance | Shows |
|---|---|---|
| `schedulers` | 2 orders, 1 job, 2 scheduler tasks, 2 crashes or lost answers, all target states, no admins, one `processLead` run per order, fair | `AckedAtMostOnce`, `OneTaskPerOrder`, `ScheduledOnlyIfRetryable`; delivery implements the fair `OrderLifecycle` |
| `all` | 1 order, 1 job running twice, 2 scheduler tasks, 1 admin, 1 reset, 1 crash or lost answer | `TypeOK`, `RetryNotLost`, `SentWasAcked`, `AttemptsBounded`, `SendsPaidFor`, `SentIsFinal` |
| `live` | 1 order, 2 jobs, 1 scheduler task, 1 admin, no crash, fair | `EventuallySettled`; the race of two inserts |
| `schedule` | up to 5 attempts, all errors, 7 values of Retry-After around both bounds | `PartnerDecides`, `DecidedInTime`, `AuthTriedTwice` |
| `breaker_serial` | 2 destinations of one app, one call at a time, 3 outcomes, fair | `TripsInTime`, `FollowsDiagram`, `NeverShutForEver` (but for the rung left to an admin, which three outcomes reach) |
| `breaker_races` | 1 destination, 2 calls at a time, 5 outcomes | `TypeOK`, `OpenHasCooldown`, `CleanWhenClosed` |
| `pending` | 1 row, 1 worker and 1 user, a day of two hours with every plan of it, 3 mutations, 1 crash, fair | `TypeOK`, `RowTakenOnce`, `DeliveredIsTrue`, `QueueDrains`; a row implements `ParkedRow` |
| `pipeline` | 1 lead, 2 callers at a time, 2 requests of users or polling, 1 fault, jobs of 2 attempts, fair | `TypeOK`, `NoLeadStranded`, `GivenUpNotScheduled`, `EventuallyResolved` |
| `intake` | 1 event with 2 leads, posted twice, 2 requests at a time, replay, polling, 1 lead a minute, 1 lead per fetch, 1 fault, fair | `TypeOK`, `HandledOnce`, `AckedIsKept`, `EventuallyTakenIn` |
| `tokens` | 1 account, 2 processes, 12 days, 3 logins, 2 revocations, 2 outages | `TypeOK`, `NeverLapses`, `AlertedOnce` |
| `doublesend`, `requeued` | the smallest instance that does it | where the code does something else than it says (section 6) |

Bounds.

- Orders. Rows of different orders do not interact, so one order shows every
  race, and two are taken only where the limit of one task per order could be met
  by accident. `MaxAttempts` is the default 3, which has a first, a middle and a
  last attempt; the `schedule` run takes 5 to go past the end of the ladder. Two
  scheduler tasks stand for any two workers. Two runs of a job are enough for a
  stale outcome to meet a newer row. `schedulers` leaves out the outcome `auth`,
  which gives up one attempt sooner than `network` and is in `all` and
  `schedule`.
- Breaker. Auth trips at three failures, rate_limit at one; with five outcomes
  and two calls each column can be written by a call that read an older state.
- Pending queue. Rows meet only in the batch of a flush, which handles them one
  after the other, so one row is enough for the properties of a row; a tick and a
  mutation are the two flushers that race for it. Two hours make every
  coincidence of the three hours of a plan, and three mutations set a schedule,
  change it and end it.
- Pipeline. Leads share no state, so one is enough. Of two callers one may act on
  a state of the job the other has just changed. `network` and `auth` are a
  retried error and one that is given up at its second failure; three Graph
  attempts are the default. Two requests bring a lead back twice after it has
  been resolved or given up. Two attempts of a job are a retry and a failure.
- Intake. An event with two leads has a first change, after which it is marked,
  and a last one that may be lost. A cap of one lead a minute is reached by the
  second. The hours 1 and 3 are further apart than the first window of two hours
  and its overlap, so a window can close on a lead. A poll that can fetch one lead
  is at its cap with two: the newer one buries the older, saved or
  not. A fetch of one page that breaks off has nothing. One fault is enough to meet each of them;
  what is claimed of safety under any number is the theorem `AcknowledgedIsKept`.
- Tokens. The theorem `TokensNeverLapse` needs two days more of look-ahead than
  there are outages, and the run is as tight as this allows: 4 days ahead and 2
  outages. Twelve days let a token of five days be renewed several times, run
  through both outages, and be revoked and connected again.

The counters (`runs`, `resets`, `crashes`, `outcomes`, `edits`, `requests`,
`posts`, `faults`, `outages`, `logins`, `revokes`) bound the environment only,
never the schedulers. Symmetry is used only in runs without temporal properties
other than action properties.

Deadlock is not checked: the system is at rest when everything is settled and
the bounds of the environment are used up.

Fairness.

- Steps of a started task are weakly fair: the process runs, and HTTP calls have
  timeouts. Nothing is assumed of users, admins, partners, Facebook, crashes, lost
  answers or new runs of `processLead`.
- Orders. `TimePasses` is weakly fair because nextRetryAt is a point in time.
  `TickClaim` of an order is strongly fair: the tick runs every minute and takes
  the rows with the oldest nextRetryAt first, so a row that comes due again and
  again is claimed. That a task is allowed is strongly fair per order: a breaker
  blocks until a cooldown ends, no cooldown is infinite, and the tick begins by
  promoting every row whose cooldown is past (`WF(AutoPromote)`).
  `NeverShutForEver` shows this of the breaker with one exception, the last rung
  of auth, which `evaluateClaim` blocks until an admin comes. The assumption on
  tasks needs that rung too, and there it rests on the promotion alone, against
  what the policy says of it (section 6): were the promotion to leave that rung
  alone, `EventuallySettled` would need an admin.
- Pending queue. The ticks of a worker, and what ticks and mutations have
  started, are weakly fair, and waiting rows grow old. A destination that is
  tried again and again accepts in the end (strong fairness of
  `DispatchSucceeds`): without that nothing can drain the queue. Hours and
  mutations are not fair: the pass over stale rows has to be enough by itself.
- Pipeline. Calls, workers, the back-off of BullMQ and time are weakly fair. The
  sweep and the claim of a due lead are strongly fair: both are timers that come
  round to every lead which keeps meeting their condition, though others may
  change its state in between.
- Intake. Only polling is fair, both in fetching and in inserting what it found,
  and `EventuallyTakenIn` speaks of a form that is `Polled`: a premise, not what
  the code does for every form. Polling is off unless `ENABLE_LEAD_POLLING` is
  `true` (`services/leadPollingService.ts:25`, 630-641), and a tick takes the
  first `MAX_FORMS_PER_TICK` targets of a list without an order or a rotation
  (566), so that with more forms than that the last ones may never be polled.
  For a form that is, the timer is set again whatever came of the last tick. That
  the Graph API in the end answers a fetch without an error is assumed. The
  webhook and the replay, which somebody has to start, are not fair.
- Tokens. Safety only, with the days lost as a bounded number of outages.

Each property of a passing run has a mutant in `PROJECT.json`: one definition
replaced by a wrong variant under which the run reports that property violated.

## 4. Proofs

TLAPS proves these for all values of the constants: any number of orders, leads,
events, accounts, tasks, callers, processes and destinations, any policy table
and any bounds.

| Theorem | Module | Argument |
|---|---|---|
| `TypeCorrect`: `Spec => []TypeOK` | OrderDeliveryProofs | inductive as it stands; the part on `task` is `TaskOK`, with a lemma for starting, moving and ending a task |
| `SentOnlyIfAcked`: `Spec => []SentWasAcked` | OrderDeliveryProofs | strengthened by `AckInv`: a task about to persist `"ok"` has its acceptance counted over and above those whose answer was lost |
| `NoRetryLost`: `Spec => []RetryNotLost` | OrderDeliveryProofs | strengthened by `RetryInv`: what a sender holds when its lock still matches, and when the row of an order may be unscheduled |
| `EverySendPaidFor`: `Spec => []SendsPaidFor` | OrderDeliveryProofs | `BudgetInv`: the tasks that may still send, the admin calls that have yet to reset, and a date in the row are paid for as well. A run pays for one task; an admin call for its task and for the date it writes; a claim trades the date for a task, a task itself for an acceptance or a new date. Counted with the cardinalities of `FiniteSetTheorems`, though nothing says that tasks are finitely many |
| `AttemptsStayBounded`, assuming `OneJob` | OrderAttemptsProofs | `JobInv`: retry tasks hold rows that are FAILED or SENT, only a job works on a PENDING row, and whoever sends read an attempt below the limit |
| `SentStaysSent`, assuming `OneJob` | OrderAttemptsProofs | `LockInv`: what a sender remembers is never ahead of the row, and behind it once the row is SENT; kept until `resets` leaves 0 |
| `ClaimIsExclusive`, `NothingSentTwice`, `NothingGivenUpIsScheduled`, assuming `SchedulersAlone` | OrderAttemptsProofs | `ClaimInv`: a task at work has its row to itself, that is, the row is unscheduled and no other delivery of it has been heard of; a heard delivery that is not written yet keeps the row out of the schedule |
| `SchedulersImplementLifecycle`: `Spec => Lifecycle!Spec`, assuming `SchedulersAlone` | OrderAttemptsProofs | by `ClaimInv` a step touches one order, and is that order's step in `OrderLifecycle` or a stutter; one lemma per kind of step |
| `PartnerAlwaysDecides`, `AuthAlwaysTriedTwice` | RetryScheduleProofs | bounds of the ladder and of the clamp; attempts count at least the auth errors |
| `AlwaysDecidedInTime`: `Spec => []DecidedInTime` | RetryScheduleProofs | `TimeInv`: what has been waited is within the attempts times the longest wait met so far; the products are bounded by the lemma `Products` |
| `BreakerTypeCorrect`, `OpenAlwaysCools`, `ClosedIsClean` | CircuitBreakerProofs | `IInv`: each row is `Sound` whatever stale row it is combined with; one lemma per branch of `recordOutcome` |
| `SerialFollowsDiagram`, assuming `LaddersWait`; `SerialTripsInTime`, assuming `ErrorsTrip`; `RealTableSerial` | CircuitBreakerProofs | `SerialInv`: what a call has read still agrees with the row, but for a cooldown that has ended since and the promotion that may have followed; then each branch is an edge of the diagram. `RealTableFits` shows both premises of `CIRCUIT_POLICY` |
| `TypeCorrect`: `Spec => []TypeOK` | PendingQueueProofs | `TaskOK` for the flushers and `RestOK` for the tables, one lemma per way in which an action moves a task |
| `RowDeliveredOnce`, `DeliveredTellsTruth` | PendingQueueProofs | `Owned`: a held row is marked delivered, one flusher holds it, an accepted row is marked and not held, and who marks orphans does so after the destination is gone, which is the third excuse of `DeliveredIsTrue` |
| `FlushesImplementParked`: `Spec => ImplementsParked` | PendingQueueProofs | by `Owned` each action moves each row by one action of `ParkedRow` or not at all; every action lemma concludes `Kept`, which says both |
| `PipelineTypeCorrect`, `GivenUpStaysUnscheduled`, `NoLeadIsStranded` | LeadPipelineProofs | `AllOK`: for each lead `LeadOK` (how row, job and run fit together: as one job per lead is active at a time, nobody moves dataAttempts between the SELECT and the UPDATE of `persistGraphFailure`, which `GivenUpStaysUnscheduled` states as `DecidesOnCurrent`, and what it schedules the policy retries) and `StrandOK` (`NoLeadStranded` for one lead) |
| `IntakeTypeCorrect`, `EventsHandledOnce`, `AcknowledgedIsKept` | LeadIntakeProofs | `IntakeOK`: a request past `store` owns its event, an acknowledged event is stored, what lies behind a request is saved or excepted, so is what lies behind the replay, and the leads of a marked event are saved, excepted, or ahead of the request at work on it |
| `TokenTypeCorrect`, `OneAlertADay`, `TokensNeverLapse` | TokenRefreshProofs | `AlertOK` (an alert of the day has its key); `RowsOK`: a row that is neither overtaken nor misjudged tells the end of its token, a task holds the row it read, and the days left cover the outages still possible |

Premises. `OneJob` says that no two runs of `deliverOneDestination` are at work at
once: the job id of the lead queue has it so. Without it, `AttemptsBounded` and
`SentIsFinal` fail in one more way: of two runs the one that inserts rereads
attempts after its insert (`leadService.ts:885-916`) and then holds a number the
other one has just written. `SchedulersAlone` says that `processLead` runs once
per order and no admin resets: it is the situation the header of
`orderRetryScheduler.ts` speaks of, and `doublesend` and `requeued` show what
happens outside of it. Otherwise the theorems need no more than the assumptions
the modules state, each of which says where the code has it from; that of
`TokenRefresh`, `MaxOutages + 2 <= Ahead`, is the premise under which the
look-ahead can work at all.

`SerialFollowsDiagram` and `SerialTripsInTime` are theorems about the behaviours
in which no two calls for a destination overlap, `Spec /\ []Alone => ...`, for any
number of destinations; with calls that overlap both properties fail, and
`breaker_races` checks what is left of them. `LaddersWait` (no rung of a ladder is
0) and `ErrorsTrip` (some class trips on a streak) are what a policy table has to
satisfy, and the one in the code does.

`EverySendPaidFor` has no premise at all. Of two tasks for one order it says what
`AckedAtMostOnce` says under `SchedulersAlone`: with one run and no reset the
order is accepted once, and again only for an answer that was lost. That one
`retryOrder` pays for two acceptances is no slack: it is the finding `doublesend`,
and the run `all` reaches the bound.

`DecidedInTime` once took the last rung of the ladder for the longest one, which
no parser guarantees: `ORDER_RETRY_BACKOFF_MS` is read as it is written. It now
speaks of whichever rung is longest.

Only model-checked: the fairness part of the refinement of `OrderLifecycle`, and
the other properties under fairness (`EventuallySettled`, `NeverShutForEver`,
`QueueDrains`, `EventuallyResolved`, `EventuallyTakenIn`), which are out of the
prover's reach. Every invariant and action property of a passing run is stated
by a theorem.

## 5. Not modelled, and assumed

- Order delivery: an answer is lost only after the partner has accepted; a
  request that never arrives is the outcome `network`. The claim of a batch is
  modelled as one claim per row: rows are locked and updated row by row, and no
  step depends on two of them. The pause check and its enqueue are in
  PendingQueue.
- Overlap guards of the timers: a tick that finds the last one still running
  returns. The models have the ticks as fair instead, so they assume that a tick
  ends. The calls of a tick have timeouts; a database call that never returned
  would stop the timer of that process.
- Circuit breaker: `CB_ENFORCEMENT` is `disabled` by default and then blocks
  nothing; the model is the enforced one. `manualLock` is never written by the
  repository. Windows age only while no call is in flight on their row, as they
  last minutes and calls milliseconds. Events and alerts are logs.
- Pending queue: the feature flag is on. The outcome of an order is a choice, so
  limits and times of retries are not seen there. Whether a flushed lead was
  accepted is known at once.
- Pipeline: one run per lead at a time, which the job id gives as long as a worker
  keeps the lock of its job. A worker that loses the lock and goes on beside the
  next one is left out (`Stall` ends the first run): the two would read
  dataAttempts in turn, and the second date would be computed from an old number
  (`services/leadService.ts:1119-1145`). The fan-out is one step and so is the aggregation after it. The
  aggregate is read from the orders and written to the lead without a lock, so
  two recalculations may cross and the older reading may win; nothing repairs
  that, and the model leaves it out rather than claim anything of it. The ladder
  of the Graph retries is abstracted to later and due. PARTIAL counts as FAILED,
  since both are what the manual retry asks for. `fireLeadWorkflows` is left out.
- Intake: the rejection of payloads without a valid signature, the sample payload
  of Facebook's test tool, and a webhook without any database connection, which
  acknowledges without storing and says so (`webhooks/facebookWebhook.ts:147-151`).
  Of polling, the forced look-back; the flag and the cap on forms per tick are the
  premise `Polled`.
- Tokens: `RefusedAlive` is possible for any token at any tick and is not fair;
  `NeverLapses` is silent about the rows it hits. Left out: rows that cannot be decrypted, pages and subscriptions of an account.
  A tick ends within its day. The key that silences alerts is deleted at once or
  not at all, though the code does not wait for the deletion.
- The retry runner (`createRateLimitedRunner`) runs tasks of one tick in some
  order, later or sooner; to the modelled components it is invisible.
- Workflows, CRM sync and request rate limits: state of one process whose loss
  or drift costs a call and is repaired by the next tick; planned (section 7).
- Most of the repository by volume is client pages, tRPC routers that validate a
  form and run one statement, table definitions, reports and calls of external
  APIs. They have no protocol of their own: a model of them would repeat their
  assignments. They are listed as `not_modelled` in `PROJECT.json`, with the
  reason.

## 6. Where the code and its comments disagree

Two runs have a violation as their result. Each is a short trace that replays
in the code; details with quotations are in `PROJECT.json`.

- `doublesend`: `retryOrder` resets by id a row a scheduler task is sending, and
  sends it too. The lock on attempts guards the write after the send, not the
  send.
- `requeued`: the pause is asked before the order. A lead that was delivered and
  runs again during a pause is parked and delivered a second time.

Seen while modelling and not given a run of their own.

Orders and breaker:

- The blocked branch of the scheduler writes nextRetryAt by id. If a pipeline run
  has given the order up meanwhile, it is scheduled again
  (`ScheduledOnlyIfRetryable` holds with one `processLead` run per order only).
- After a reset a slow attempt that remembers the same attempts passes the lock
  and may turn SENT into FAILED (hence the premise of `SentIsFinal`).
- `retryOrder` checks FAILED only, though its comment says "permanently failed".
- Validation failures count in the window of the breaker, and a success is judged
  by the `unknown` policy; fourteen failures and one success trip.
- After a validation error in OPEN the probe budget is zero and retries stay
  blocked in HALF_OPEN until the first attempt of a new lead. `NeverShutForEver`
  is checked for the other errors.
- The probe budget of the breaker is compared but never used up, so it bounds no
  probes.
- The top rung of the auth ladder should wait for an admin: "after the final
  cooldownLadder step we stay OPEN until admin clears `manualLock`"
  (`lib/circuitPolicy.ts:47`), "ramp fast, then lock for human" (82-83), "Auth at
  max level: require human before resuming" (`services/circuitBreaker.ts:763`).
  `evaluateClaim` does block there (764-776), but every tick begins with
  `autoPromoteExpiredCooldowns` (`services/retryScheduler.ts:221`), whose UPDATE
  looks at state, cooldownUntil and manualLock (`circuitBreaker.ts:1014-1017`) and
  neither at lastErrorType nor at cooldownLevel; manualLock is never written. So
  the lock lasts two hours, and the branch that announces it is reached only
  between the end of the cooldown and the next tick. In the run `breaker_serial`
  three outcomes lead there (rate_limit, a probe that fails with rate_limit, one
  that fails with auth), and `AutoPromote` goes on. `NeverShutForEver` excepts the
  rung, so as not to count the promotion in its favour.
- The previews, called read-only, promote an expired breaker.
- No caller of `evaluateClaim` passes the appKey, so the sibling check is not
  made for a destination without a row.

Pending queue:

- The flush scheduler says failed flushes are retried by the next tick, but it
  remembers the hour and does not flush again within it; the pass over stale
  rows does, which is why `QueueDrains` holds all the same.
- A restart within the hour of the pause pauses again a destination the user has
  resumed since. The header calls the repetition harmless because it writes the
  same value.
- A lead delivered by way of the queue leaves no `orders` row. A later run of
  `processLead` finds no order and sends the lead again.

Intake:

- The header of the webhook says that after a crash the event "remains with
  processed=false and the replay tooling re-runs it"
  (`webhooks/facebookWebhook.ts:76-78`). `processed = true` is written inside the
  loop over the changes (299-301), also when `saveIncomingLead` returned null: of
  an event with several leads the ones behind the first are lost to the replay by
  a crash, by a failing mark or by a failing save. `AckedIsKept` excepts exactly
  these; polling may still find them.
- Polling anchors its window on the newest ENRICHED lead so that it "stays wide
  enough" for older ones (`services/leadPollingService.ts:183-186`). It is wide
  enough while the newer ones fail; as soon as a newer one is enriched the window
  closes on any older lead that never got a row.
- A polled lead is stored enriched "so the worker can skip the re-fetch step"
  (264-266). The worker fetches it again.

Pipeline:

- A dispatch that finds the job active does nothing (`queues/leadQueue.ts:49-51`).
  If the run has written its result and BullMQ has not completed the job yet, the
  dispatch is lost; for a lead the Graph retry has claimed, nothing follows.
- A success is said to reset the retry state, so that a later failure "starts
  fresh from attempt 1" (`services/leadService.ts:1299-1301`). dataAttempts is not
  among the columns it writes.
- A lead that is ENRICHED and whose job fails for good is picked up by no timer:
  the sweep looks for PENDING, the Graph retry for ERROR.
- A sweep or a second request that fails to fetch a lead already delivered turns
  it into ERROR with delivery PENDING.
- Of two recalculations of a lead's delivery status the older reading may be
  written last (952-963).

Tokens:

- `handleRefreshFailure` marks a token dead when the class of the error is auth,
  validation or permanently_missing (`services/fbTokenRefreshScheduler.ts:610-618`),
  and `classifyGraphError` is generous with the first two: HTTP 401 and 403 are
  auth whatever the code in the body, since they are looked at before the
  rate-limit codes (`lib/leadEnrichmentRetryPolicy.ts:86-94`, 97-106), and every
  other 400 or 422 is validation (108-117). A live token that meets a rate limit
  answered with 403 is never tried again, and ends. This is `RefusedAlive`;
  `NeverLapses` and its theorem hold for the other rows. Only a new login helps.
- The mark that a token is dead is written by id
  (`services/fbTokenRefreshScheduler.ts:615-618`). If the user has reconnected
  since the row was read, it hides the fresh token from every later tick.
- A token that could not be exchanged at login is stored without an end
  (`routers/facebookAccountsRouter.ts:166`, 395), which the due query never
  selects: it ends within hours and nobody renews it or tells.

## 7. Plan

Done: order delivery with lost answers, its refinement and the proofs of both;
breaker, retry policy, pending queue, lead pipeline, intake, token refresh.

Left, in this order:

1. `RetryRunner`: the token bucket and the caps of one tick, where a wake-up that
   is missed would keep a claimed order unscheduled.
2. `PendingQueue` composed with `OrderDelivery`, in place of the choice in
   `JobDeliver`, so that parked and retried attempts of one lead meet.
3. The aggregate deliveryStatus with several orders per lead.
4. Workflows (the cap in memory, steps in sequence) and CRM sync with its own
   breaker, if they turn out to hold more than timers.
5. Proof: an abstract lead that `LeadPipeline` implements, as `ParkedRow` is for
   the queue.
