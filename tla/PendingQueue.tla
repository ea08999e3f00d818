---------------------------- MODULE PendingQueue ----------------------------
(***************************************************************************)
(* The daily pause of one destination and the queue of leads that arrive    *)
(* while it lasts: services/destinationPendingQueue.ts, the per-minute tick *)
(* of services/destinationFlushScheduler.ts in every worker, the mutations  *)
(* of routers/destinationSchedulesRouter.ts, and the pause check at the     *)
(* start of deliverOneDestination.                                          *)
(*                                                                          *)
(* A flush selects the waiting rows, then claims each by setting            *)
(* deliveredAt, sends it, and takes the claim back if that fails.  Workers  *)
(* remember in memory the hour whose transitions they have made.            *)
(***************************************************************************)
EXTENDS Integers

CONSTANTS
  Leads,
  Rows,        \* ids of destination_pending_leads
  NoOne,       \* no row, no lead
  Workers,     \* processes that run the flush scheduler
  Users,       \* concurrent calls of the user's mutations
  Hours,       \* hours in a day
  Plans,       \* the hours users choose
  MaxRuns,     \* bound: processLead runs per lead
  MaxEdits,    \* bound: user mutations
  MaxCrashes   \* bound: restarts and database errors

Hour == 0..Hours - 1
NoHour == -1

Plan == [pause : Hour \cup {NoHour}, start : Hour \cup {NoHour}, send : Hour \cup {NoHour}]

Flusher == Workers \cup Users

ASSUME QueueAssumption ==
  /\ NoOne \notin Rows \cup Leads
  /\ Workers \cap Users = {}
  /\ Hours \in Nat \ {0}
  /\ Plans \subseteq Plan
  /\ MaxRuns \in Nat
  /\ MaxEdits \in Nat
  /\ MaxCrashes \in Nat

VARIABLES
  schedule,   \* the row of destination_schedules; id 0 when there is none
  alive,      \* the destination exists
  hour,       \* in the timezone of the schedule
  pending,    \* the rows of destination_pending_leads
  order,      \* status of the order of each lead
  job,        \* deliverOneDestination, per lead
  last,       \* lastEvaluatedHour of each worker: the last entry it made
  task,       \* the ticks and mutations in progress
  runs, edits, crashes,
  acked,      \* history: accepted deliveries per lead
  taken,      \* history: accepted deliveries per row
  dropped     \* history: rows whose claim was lost in a crash

counters == <<runs, edits, crashes>>
history == <<acked, taken, dropped>>
vars == <<schedule, alive, hour, pending, order, job, last, task, counters, history>>

-----------------------------------------------------------------------------
(* State *)

Schedule == [id : Nat, paused : BOOLEAN, plan : Plan]

NoPlan == [pause |-> NoHour, start |-> NoHour, send |-> NoHour]

NoSchedule == [id |-> 0, paused |-> FALSE, plan |-> NoPlan]

\* delivered: deliveredAt is set.  failed: deliveryError is set.
\* stale: createdAt is more than STALE_LEAD_TTL_MS ago.
Entry == [lead : Leads, delivered : BOOLEAN, failed : BOOLEAN, stale : BOOLEAN]

\* Ids not used yet.
Unused == [lead |-> NoOne, delivered |-> TRUE, failed |-> FALSE, stale |-> FALSE]

\* Rows that have been inserted.
Used == {r \in Rows : pending[r] # Unused}

TickPc == {"pause", "start", "send", "mark", "stale", "orphans", "sweep"}
FlushPc == {"load", "dest", "claim", "dispatch", "rollback"}
Back == {"idle", "send", "mark", "orphans"}
Pc == {"idle", "resume", "reset"} \cup TickPc \cup FlushPc

\* seen: the schedule as it was read.  at: the hour of the tick.
\* batch: rows still to do.  row: the one that is claimed.  back: where the
\* caller of the flush goes on.
Activity == [pc : Pc, back : Back, seen : Schedule, at : Hour,
             batch : SUBSET Rows, row : Rows \cup {NoOne}]

Idle == [pc |-> "idle", back |-> "idle", seen |-> NoSchedule, at |-> 0,
         batch |-> {}, row |-> NoOne]

\* The map is keyed by the id of the schedule.  Ids are not used again and the
\* ticks of a worker follow each other, so only its last entry can be asked for.
Memory == [id : Nat, hour : Hour \cup {NoHour}]

NoMemory == [id |-> 0, hour |-> NoHour]

TypeOK ==
  /\ schedule \in Schedule
  /\ alive \in BOOLEAN
  /\ hour \in Hour
  /\ pending \in [Rows -> Entry \cup {Unused}]
  /\ order \in [Leads -> {"none", "FAILED", "SENT"}]
  /\ job \in [Leads -> {"idle", "queue", "deliver"}]
  /\ last \in [Workers -> Memory]
  /\ task \in [Flusher -> Activity]
  /\ \A f \in Flusher : task[f].pc \in {"dispatch", "rollback"} => task[f].row \in Used
  /\ \A f \in Flusher : task[f].batch \subseteq Used
  /\ runs \in [Leads -> Nat]
  /\ edits \in Nat
  /\ crashes \in Nat
  /\ acked \in [Leads -> Nat]
  /\ taken \in [Rows -> Nat]
  /\ dropped \subseteq Rows

Init ==
  /\ schedule = NoSchedule
  /\ alive = TRUE
  /\ hour = 0
  /\ pending = [r \in Rows |-> Unused]
  /\ order = [l \in Leads |-> "none"]
  /\ job = [l \in Leads |-> "idle"]
  /\ last = [w \in Workers |-> NoMemory]
  /\ task = [f \in Flusher |-> Idle]
  /\ runs = [l \in Leads |-> 0]
  /\ edits = 0
  /\ crashes = 0
  /\ acked = [l \in Leads |-> 0]
  /\ taken = [r \in Rows |-> 0]
  /\ dropped = {}

Waiting == {r \in Rows : ~pending[r].delivered}

\* Rows a flusher has claimed and not finished with.
Holds(f, r) == task[f].pc \in {"dispatch", "rollback"} /\ task[f].row = r

\* A flusher begins.
Begins(f, pc, seen, at) ==
  task' = [task EXCEPT ![f] = [pc |-> pc, back |-> "idle", seen |-> seen, at |-> at,
                               batch |-> {}, row |-> NoOne]]

Finish(f) == Begins(f, "idle", NoSchedule, 0)

\* It goes on in the flush it is in.
GoesOn(f, pc, batch, row) ==
  task' = [task EXCEPT ![f] = [pc |-> pc, back |-> task[f].back, seen |-> task[f].seen,
                               at |-> task[f].at, batch |-> batch, row |-> row]]

Goto(f, pc) == GoesOn(f, pc, task[f].batch, task[f].row)

\* It calls flushPendingForDestination, and then goes on at back.
Flush(f, back) ==
  task' = [task EXCEPT ![f] = [pc |-> "load", back |-> back, seen |-> task[f].seen,
                               at |-> task[f].at, batch |-> {}, row |-> NoOne]]

\* The flush is over.
Return(f) == IF task[f].back = "idle" THEN Finish(f) ELSE GoesOn(f, task[f].back, {}, NoOne)

-----------------------------------------------------------------------------
(* deliverOneDestination *)

\* shouldQueueForPause, before anything is known of the order.
JobCheck(l) ==
  /\ job[l] = "idle"
  /\ alive
  /\ runs[l] < MaxRuns
  /\ job' = [job EXCEPT ![l] = IF schedule.paused THEN "queue" ELSE "deliver"]
  /\ runs' = [runs EXCEPT ![l] = @ + 1]
  /\ UNCHANGED <<schedule, alive, hour, pending, order, last, task, edits, crashes, history>>

\* enqueuePendingLead: no key stops a second row of the same lead.
JobQueue(l) ==
  /\ job[l] = "queue"
  /\ \E r \in Rows :
       /\ pending[r] = Unused
       /\ pending' = [pending EXCEPT ![r] =
            [lead |-> l, delivered |-> FALSE, failed |-> FALSE, stale |-> FALSE]]
  /\ job' = [job EXCEPT ![l] = "idle"]
  /\ UNCHANGED <<schedule, alive, hour, order, last, task, counters, history>>

Accept(l) ==
  /\ order' = [order EXCEPT ![l] = "SENT"]
  /\ acked' = [acked EXCEPT ![l] = @ + 1]

\* The rest of deliverOneDestination, in detail in OrderDelivery: a SENT
\* order is left alone, a FAILED one too unless a retry is due.
JobDeliver(l) ==
  /\ job[l] = "deliver"
  /\ \/ order[l] # "SENT" /\ Accept(l)
     \/ order[l] # "SENT" /\ order' = [order EXCEPT ![l] = "FAILED"] /\ UNCHANGED acked
     \/ order[l] # "none" /\ UNCHANGED <<order, acked>>
  /\ job' = [job EXCEPT ![l] = "idle"]
  /\ UNCHANGED <<schedule, alive, hour, pending, last, task, counters, taken, dropped>>

\* The order scheduler, which does not look at the pause.
OrderRetry(l) ==
  /\ order[l] = "FAILED"
  /\ Accept(l)
  /\ UNCHANGED <<schedule, alive, hour, pending, job, last, task, counters, taken, dropped>>

-----------------------------------------------------------------------------
(* flushPendingForDestination *)

FlushLoad(f) ==
  /\ task[f].pc = "load"
  /\ IF Waiting = {} THEN Return(f)
     ELSE GoesOn(f, "dest", Waiting, NoOne)
  /\ UNCHANGED <<schedule, alive, hour, pending, order, job, last, counters, history>>

FlushDest(f) ==
  /\ task[f].pc = "dest"
  /\ IF alive THEN Goto(f, "claim") ELSE Return(f)
  /\ UNCHANGED <<schedule, alive, hour, pending, order, job, last, counters, history>>

\* Mutant: UPDATE ... WHERE id.
FlushClaimAny(f, r) ==
  /\ task[f].pc = "claim"
  /\ r \in task[f].batch
  /\ pending' = [pending EXCEPT ![r].delivered = TRUE]
  /\ GoesOn(f, "dispatch", task[f].batch \ {r}, r)
  /\ UNCHANGED <<schedule, alive, hour, order, job, last, counters, history>>

\* UPDATE ... WHERE id AND deliveredAt IS NULL; a row taken by another flush
\* is skipped.  (The code goes through the batch in the order of creation.)
FlushClaim(f, r) ==
  /\ task[f].pc = "claim"
  /\ r \in task[f].batch
  /\ IF pending[r].delivered
     THEN /\ GoesOn(f, "claim", task[f].batch \ {r}, task[f].row)
          /\ UNCHANGED pending
     ELSE /\ pending' = [pending EXCEPT ![r].delivered = TRUE]
          /\ GoesOn(f, "dispatch", task[f].batch \ {r}, r)
  /\ UNCHANGED <<schedule, alive, hour, order, job, last, counters, history>>

FlushDone(f) ==
  /\ task[f].pc = "claim"
  /\ task[f].batch = {}
  /\ Return(f)
  /\ UNCHANGED <<schedule, alive, hour, pending, order, job, last, counters, history>>

\* Mutant: the claim of a refused lead is kept.
DispatchFailsKeeping(f) ==
  /\ task[f].pc = "dispatch"
  /\ Goto(f, "claim")
  /\ UNCHANGED <<schedule, alive, hour, pending, order, job, last, counters, history>>

\* The partner refuses, or the call throws.
DispatchFails(f) ==
  /\ task[f].pc = "dispatch"
  /\ Goto(f, "rollback")
  /\ UNCHANGED <<schedule, alive, hour, pending, order, job, last, counters, history>>

DispatchSucceeds(f) ==
  LET r == task[f].row IN
  /\ task[f].pc = "dispatch"
  /\ taken' = [taken EXCEPT ![r] = @ + 1]
  /\ acked' = [acked EXCEPT ![pending[r].lead] = @ + 1]
  /\ Goto(f, "claim")
  /\ UNCHANGED <<schedule, alive, hour, pending, order, job, last, counters, dropped>>

\* deliveredAt = NULL WHERE id.
Rollback(f) ==
  /\ task[f].pc = "rollback"
  /\ pending' = [pending EXCEPT ![task[f].row].delivered = FALSE,
                                ![task[f].row].failed = TRUE]
  /\ Goto(f, "claim")
  /\ UNCHANGED <<schedule, alive, hour, order, job, last, counters, history>>

-----------------------------------------------------------------------------
(* runFlushTick *)

\* The schedule is read once per tick.  In an hour the worker has dealt with
\* for this schedule, or without one, the tick goes straight to the stale rows.
TickBegin(w) ==
  /\ task[w].pc = "idle"
  /\ IF schedule.id = 0 \/ last[w] = [id |-> schedule.id, hour |-> hour]
     THEN Begins(w, "stale", NoSchedule, 0)
     ELSE Begins(w, "pause", schedule, hour)
  /\ UNCHANGED <<schedule, alive, hour, pending, order, job, last, counters, history>>

\* UPDATE isPausedNow WHERE id of the schedule that was read.
SetPaused(seen, paused) ==
  schedule' = IF schedule.id = seen.id THEN [schedule EXCEPT !.paused = paused] ELSE schedule

TickPause(w) ==
  LET seen == task[w].seen IN
  /\ task[w].pc = "pause"
  /\ IF seen.plan.pause = task[w].at /\ ~seen.paused
     THEN SetPaused(seen, TRUE)
     ELSE UNCHANGED schedule
  /\ Goto(w, "start")
  /\ UNCHANGED <<alive, hour, pending, order, job, last, counters, history>>

TickStart(w) ==
  LET seen == task[w].seen IN
  /\ task[w].pc = "start"
  /\ IF seen.plan.start = task[w].at /\ seen.paused
     THEN SetPaused(seen, FALSE) /\ Flush(w, "send")
     ELSE Goto(w, "send") /\ UNCHANGED schedule
  /\ UNCHANGED <<alive, hour, pending, order, job, last, counters, history>>

TickSend(w) ==
  /\ task[w].pc = "send"
  /\ IF task[w].seen.plan.send = task[w].at THEN Flush(w, "mark") ELSE Goto(w, "mark")
  /\ UNCHANGED <<schedule, alive, hour, pending, order, job, last, counters, history>>

TickMark(w) ==
  /\ task[w].pc = "mark"
  /\ last' = [last EXCEPT ![w] = [id |-> task[w].seen.id, hour |-> task[w].at]]
  /\ Begins(w, "stale", NoSchedule, 0)
  /\ UNCHANGED <<schedule, alive, hour, pending, order, job, counters, history>>

\* Mutant: no forced flush.
TickStaleNever(w) ==
  /\ task[w].pc = "stale"
  /\ Goto(w, "orphans")
  /\ UNCHANGED <<schedule, alive, hour, pending, order, job, last, counters, history>>

\* flushStalePendingLeads: one old row, and all rows of the destination go.
TickStale(w) ==
  /\ task[w].pc = "stale"
  /\ IF \E r \in Waiting : pending[r].stale THEN Flush(w, "orphans") ELSE Goto(w, "orphans")
  /\ UNCHANGED <<schedule, alive, hour, pending, order, job, last, counters, history>>

\* Mutant: the rows of any destination, not only of a deleted one.
TickOrphansOfAny(w) ==
  /\ task[w].pc = "orphans"
  /\ IF Waiting = {} THEN Finish(w) ELSE GoesOn(w, "sweep", Waiting, NoOne)
  /\ UNCHANGED <<schedule, alive, hour, pending, order, job, last, counters, history>>

\* cleanupOrphanedPending, in two statements.
TickOrphans(w) ==
  /\ task[w].pc = "orphans"
  /\ IF alive \/ Waiting = {} THEN Finish(w)
     ELSE GoesOn(w, "sweep", Waiting, NoOne)
  /\ UNCHANGED <<schedule, alive, hour, pending, order, job, last, counters, history>>

TickSweep(w) ==
  /\ task[w].pc = "sweep"
  /\ pending' = [r \in Rows |-> IF r \in task[w].batch
                                THEN [pending[r] EXCEPT !.delivered = TRUE, !.failed = TRUE]
                                ELSE pending[r]]
  /\ Finish(w)
  /\ UNCHANGED <<schedule, alive, hour, order, job, last, counters, history>>

-----------------------------------------------------------------------------
(* destinationSchedulesRouter *)

Edit(u) ==
  /\ alive
  /\ task[u].pc = "idle"
  /\ edits < MaxEdits
  /\ edits' = edits + 1
  /\ UNCHANGED <<alive, hour, pending, order, job, last, runs, crashes, history>>

\* setSchedule and pauseAll: an upsert that leaves isPausedNow alone.
SetSchedule(u, plan) ==
  /\ Edit(u)
  /\ schedule' = IF schedule.id = 0
                 THEN [id |-> edits + 1, paused |-> FALSE, plan |-> plan]
                 ELSE [schedule EXCEPT !.plan = plan]
  /\ UNCHANGED task

ClearSchedule(u) ==
  /\ Edit(u)
  /\ schedule' = NoSchedule
  /\ Flush(u, "idle")

FlushPendingAll(u) ==
  /\ Edit(u)
  /\ Waiting # {}
  /\ Flush(u, "idle")
  /\ UNCHANGED schedule

\* startAll and resetSchedules read first what they will have to flush.
ReadFirst(u, pc) ==
  /\ Edit(u)
  /\ Begins(u, pc, schedule, 0)
  /\ UNCHANGED schedule

StartAll(u) ==
  /\ task[u].pc = "resume"
  /\ schedule' = [schedule EXCEPT !.paused = FALSE]
  /\ IF task[u].seen.paused THEN Flush(u, "idle") ELSE Finish(u)
  /\ UNCHANGED <<alive, hour, pending, order, job, last, counters, history>>

ResetSchedules(u) ==
  /\ task[u].pc = "reset"
  /\ schedule' = NoSchedule
  /\ IF task[u].seen.id # 0 THEN Flush(u, "idle") ELSE Finish(u)
  /\ UNCHANGED <<alive, hour, pending, order, job, last, counters, history>>

-----------------------------------------------------------------------------
(* The environment *)

\* Mutant: the "24" that Intl gives for midnight is kept.
HourPassesTo24 ==
  /\ hour' = IF hour = Hours THEN 1 ELSE hour + 1
  /\ UNCHANGED <<schedule, alive, pending, order, job, last, task, counters, history>>

HourPasses ==
  /\ hour' = (hour + 1) % Hours
  /\ UNCHANGED <<schedule, alive, pending, order, job, last, task, counters, history>>

RowAges(r) ==
  /\ r \in Waiting
  /\ ~pending[r].stale
  /\ pending' = [pending EXCEPT ![r].stale = TRUE]
  /\ UNCHANGED <<schedule, alive, hour, order, job, last, task, counters, history>>

\* deleteAccount deletes the orders too; the queue and the schedule stay.
DestinationDeleted ==
  /\ alive
  /\ edits < MaxEdits
  /\ alive' = FALSE
  /\ order' = [l \in Leads |-> "none"]
  /\ edits' = edits + 1
  /\ UNCHANGED <<schedule, hour, pending, job, last, task, runs, crashes, history>>

\* A tick or mutation ends early: a database error is thrown, or the process
\* restarts, which also forgets the hours.
Crash(f, remembered) ==
  /\ task[f].pc # "idle"
  /\ crashes < MaxCrashes
  /\ crashes' = crashes + 1
  /\ dropped' = dropped \cup {r \in Rows : Holds(f, r)}
  /\ last' = remembered
  /\ Finish(f)
  /\ UNCHANGED <<schedule, alive, hour, pending, order, job, runs, edits, acked, taken>>

CrashOf(f) ==
  \/ Crash(f, last)
  \/ f \in Workers /\ Crash(f, [last EXCEPT ![f] = NoMemory])

-----------------------------------------------------------------------------
JobStep(l) == JobCheck(l) \/ JobQueue(l) \/ JobDeliver(l) \/ OrderRetry(l)

FlushStep(f) ==
  \/ FlushLoad(f) \/ FlushDest(f) \/ FlushDone(f)
  \/ \E r \in Rows : FlushClaim(f, r)
  \/ DispatchFails(f) \/ DispatchSucceeds(f) \/ Rollback(f)

TickStep(w) ==
  \/ TickBegin(w) \/ TickPause(w) \/ TickStart(w) \/ TickSend(w) \/ TickMark(w)
  \/ TickStale(w) \/ TickOrphans(w) \/ TickSweep(w)

UserStep(u) ==
  \/ \E p \in Plans : SetSchedule(u, p)
  \/ ClearSchedule(u)
  \/ FlushPendingAll(u)
  \/ \E pc \in {"resume", "reset"} : ReadFirst(u, pc)
  \/ StartAll(u)
  \/ ResetSchedules(u)

Next ==
  \/ \E l \in Leads : JobStep(l)
  \/ \E f \in Flusher : FlushStep(f) \/ CrashOf(f)
  \/ \E w \in Workers : TickStep(w)
  \/ \E u \in Users : UserStep(u)
  \/ HourPasses
  \/ \E r \in Rows : RowAges(r)
  \/ DestinationDeleted

Spec == Init /\ [][Next]_vars

\* The ticks of a worker and what they start run on, rows age, and a partner
\* does not refuse a lead for ever.
FairSpec ==
  /\ Spec
  /\ \A w \in Workers : WF_vars(TickStep(w)) /\ WF_vars(FlushStep(w))
  /\ \A u \in Users : WF_vars(FlushStep(u) \/ StartAll(u) \/ ResetSchedules(u))
  /\ \A r \in Rows :
       /\ WF_vars(RowAges(r))
       /\ \A w \in Workers : SF_vars(task[w].row = r /\ DispatchSucceeds(w))

-----------------------------------------------------------------------------
(* Properties *)

\* No queued lead is accepted twice by way of its row, however many workers
\* and mutations flush at once: of all that have selected the row one claims
\* it, and a claim is taken back only by the one that holds it.
RowTakenOnce == \A r \in Rows : taken[r] <= 1

\* deliveredAt is set before the lead is sent.  Still it tells the truth: the
\* lead was accepted, or is being sent, or the destination is gone, or the
\* claim was lost in a crash.
DeliveredIsTrue ==
  \A r \in Rows :
    r \in Used /\ pending[r].delivered =>
      \/ taken[r] > 0
      \/ \E f \in Flusher : Holds(f, r)
      \/ ~alive
      \/ r \in dropped

Holders(r) == {f \in Flusher : Holds(f, r)}

\* What has become of a row.
PhaseOf(r) ==
  IF pending[r] = Unused THEN "free"
  ELSE IF taken[r] > 0 THEN "accepted"
  ELSE IF Holders(r) # {} THEN "sending"
  ELSE IF pending[r].delivered THEN "lost"
  ELSE "waiting"

\* Each row goes the way ParkedRow describes.
Parked(r) == INSTANCE ParkedRow WITH
  Flushes <- Flusher,
  phase <- PhaseOf(r),
  holders <- Holders(r),
  gone <- ~alive

\* Whatever ticks, mutations, restarts and deletions cross, each step does to
\* a parked lead what the headers of the queue and of the scheduler say: one
\* flush at a time has it, a refusal gives it back, an accepted one is left
\* alone for good, and a lead nobody accepted is let go of only when its flush
\* dies or its destination is deleted.
ImplementsParked ==
  /\ \A r \in Rows : Parked(r)!Init
  /\ [][\A r \in Rows : [Parked(r)!Next]_(Parked(r)!vars)]_vars

\* A lead reaches the destination once, directly or by way of the queue.
\* deliverOneDestination: "Skip if already SENT, exhausted, or not yet due for
\* retry", for however many runs of processLead.
LeadDeliveredOnce == alive => \A l \in Leads : acked[l] <= 1

\* A lead that was queued does not stay in the queue: whatever users do to
\* the schedule, and however often the partner refuses, it is accepted, unless
\* the destination is deleted or the claim lost in a crash.
QueueDrains ==
  \A r \in Rows : r \in Used ~> taken[r] > 0 \/ ~alive \/ r \in dropped

=============================================================================
