---------------------------- MODULE LeadPipeline ----------------------------
(***************************************************************************)
(* The way of a lead from the database row to its deliveries.  Many callers *)
(* ask for a lead to be processed: the webhook and its replay, polling, the *)
(* per-minute retry of Graph errors, the hourly sweep of PENDING leads,     *)
(* users and admins.  All of them go through enqueueLeadJob, which looks at *)
(* the lead's one BullMQ job and then retries it, replaces it, adds it or   *)
(* leaves it alone.  A worker runs processLead: enrichment from the Graph   *)
(* API, fan-out to the destinations, aggregation of their outcomes.         *)
(*                                                                          *)
(* The row, the job and a caller's reading of the job live in three places  *)
(* (MySQL, Redis, memory), and no step writes more than one of them.        *)
(***************************************************************************)
EXTENDS LeadPolicy

CONSTANTS
  Leads,        \* (leadgenId, user) pairs: the unique key of `leads`
  NoLead,       \* the lead of an idle caller
  Callers,      \* concurrent requests to process a lead
  GraphErrors,  \* the errors the Graph API answers with
  JobAttempts,  \* attempts of a job before BullMQ moves it to failed
  MaxRequests,  \* bound: requests of users, admins, polling and Facebook
  MaxFaults     \* bound: thrown errors, dead workers, lost calls of Redis

ASSUME PipelineAssumption ==
  /\ NoLead \notin Leads
  /\ GraphErrors \subseteq GraphError \ {"none"}
  /\ JobAttempts \in Nat \ {0}
  /\ MaxRequests \in Nat
  /\ MaxFaults \in Nat

VARIABLES
  lead,      \* the rows of `leads`; data "none" when there is no row
  job,       \* the BullMQ job with id lead-<id>
  run,       \* what the worker that runs the job of a lead is doing
  caller,    \* what each caller is doing
  requests,  \* requests so far
  faults,    \* faults so far
  dropped    \* history: leads whose last dispatch came to nothing

vars == <<lead, job, run, caller, requests, faults, dropped>>

-----------------------------------------------------------------------------
(* State *)

\* dataStatus, deliveryStatus (PARTIAL counts as FAILED here), dataAttempts,
\* dataNextRetryAt, dataErrorType.
Row == [data : {"none", "PENDING", "ERROR", "ENRICHED"},
        delivery : {"PENDING", "PROCESSING", "SUCCESS", "FAILED"},
        attempts : Nat,
        retryAt : {"null", "later", "due"},
        error : GraphError]

NoRow == [data |-> "none", delivery |-> "PENDING", attempts |-> 0,
          retryAt |-> "null", error |-> "none"]

JobState == {"none", "waiting", "active", "delayed", "failed", "completed"}

Job == [state : JobState, made : Nat]

NoJob == [state |-> "none", made |-> 0]

NewJob == [state |-> "waiting", made |-> 0]

RunPc == {"none", "fetch", "fail", "deliver", "settle", "tail"}

\* error and seen: what persistGraphFailure holds between SELECT and UPDATE.
Run == [pc : RunPc, error : GraphError, seen : Nat]

NoRun == [pc |-> "none", error |-> "none", seen |-> 0]

CallerPc == {"idle", "reset", "look", "act", "add"}

Call == [pc : CallerPc, lead : Leads \cup {NoLead}, seen : JobState]

Idle == [pc |-> "idle", lead |-> NoLead, seen |-> "none"]

TypeOK ==
  /\ lead \in [Leads -> Row]
  /\ job \in [Leads -> Job]
  /\ run \in [Leads -> Run]
  /\ caller \in [Callers -> Call]
  /\ \A c \in Callers : caller[c].pc # "idle" => caller[c].lead \in Leads
  /\ requests \in Nat
  /\ faults \in Nat
  /\ dropped \subseteq Leads

Init ==
  /\ lead = [l \in Leads |-> NoRow]
  /\ job = [l \in Leads |-> NoJob]
  /\ run = [l \in Leads |-> NoRun]
  /\ caller = [c \in Callers |-> Idle]
  /\ requests = 0
  /\ faults = 0
  /\ dropped = {}

-----------------------------------------------------------------------------
(* Callers *)

Begin(c, l, pc) ==
  /\ caller[c].pc = "idle"
  /\ caller' = [caller EXCEPT ![c] = [pc |-> pc, lead |-> l, seen |-> "none"]]

Request ==
  /\ requests < MaxRequests
  /\ requests' = requests + 1

Insert(l, data) ==
  /\ lead[l].data = "none"
  /\ lead' = [lead EXCEPT ![l].data = data]

\* saveIncomingLead for the webhook, and the INSERT of the poller: the first
\* one makes the row.  pollFromForm stores it ENRICHED at once.
NewLead(c, l, data) ==
  /\ Insert(l, data)
  /\ Begin(c, l, "look")
  /\ UNCHANGED <<job, run, requests, faults, dropped>>

\* A lead that is there already: the upsert of a second event or a replay
\* leaves the statuses alone, sendLeads reads only.  Both dispatch.
Again(c, l) ==
  /\ lead[l].data # "none"
  /\ Request
  /\ Begin(c, l, "look")
  /\ UNCHANGED <<lead, job, run, faults, dropped>>

\* reEnrichParkedLead: UPDATE ... WHERE dataStatus = 'ERROR'.
PollRescue(c, l) ==
  /\ lead[l].data = "ERROR"
  /\ Request
  /\ lead' = [lead EXCEPT ![l].data = "ENRICHED", ![l].retryAt = "null"]
  /\ Begin(c, l, "look")
  /\ UNCHANGED <<job, run, faults, dropped>>

\* Mutant: the sweep looks for ERROR and not for PENDING.
SweepErrors(c, l) ==
  /\ lead[l].data = "ERROR"
  /\ Begin(c, l, "look")
  /\ UNCHANGED <<lead, job, run, requests, faults, dropped>>

\* retryStuckPendingLeads.  Any PENDING lead may be old enough, since a
\* manual retry makes old leads PENDING again.  The dispatch is delayed.
Sweep(c, l) ==
  /\ lead[l].data = "PENDING"
  /\ Begin(c, l, "look")
  /\ UNCHANGED <<lead, job, run, requests, faults, dropped>>

Claimable(r) ==
  /\ r.data = "ERROR"
  /\ r.attempts < MaxGraphAttempts
  /\ r.retryAt = "due"

\* The claiming transaction of retryDueGraphErrorLeads; the dispatch follows
\* after the commit.
ClaimGraphRetry(c, l) ==
  /\ Claimable(lead[l])
  /\ lead' = [lead EXCEPT ![l].retryAt = "null"]
  /\ Begin(c, l, "look")
  /\ UNCHANGED <<job, run, requests, faults, dropped>>

\* retryLead and retryAllFailed: the SELECT, then the previews of the breaker.
ManualRead(c, l) ==
  /\ lead[l].data = "ERROR" \/ lead[l].delivery = "FAILED"
  /\ Request
  /\ Begin(c, l, "reset")
  /\ UNCHANGED <<lead, job, run, faults, dropped>>

\* The UPDATE by id checks nothing again and leaves dataAttempts and
\* dataNextRetryAt as they are.
ManualReset(c) ==
  LET l == caller[c].lead IN
  /\ caller[c].pc = "reset"
  /\ lead' = [lead EXCEPT ![l].data = "PENDING", ![l].delivery = "PENDING"]
  /\ caller' = [caller EXCEPT ![c].pc = "look"]
  /\ UNCHANGED <<job, run, requests, faults, dropped>>

-----------------------------------------------------------------------------
(* enqueueLeadJob *)

Return(c) == caller' = [caller EXCEPT ![c] = Idle]

InHand(l) == job[l].state \in {"waiting", "active", "delayed"}

\* getJob and getState.  A job that waits or runs is left alone; when it has
\* written its result and only BullMQ does not know yet, nothing will come of
\* this dispatch.
Look(c) ==
  LET l == caller[c].lead IN
  /\ caller[c].pc = "look"
  /\ IF InHand(l)
     THEN /\ Return(c)
          /\ dropped' = IF run[l].pc = "tail" THEN dropped \cup {l} ELSE dropped
     ELSE /\ caller' = [caller EXCEPT ![c].pc = "act", ![c].seen = job[l].state]
          /\ UNCHANGED dropped
  /\ UNCHANGED <<lead, job, run, requests, faults>>

\* failed: retry(), which throws (and is caught) if the job is no longer
\* failed.  The attempts made are kept.
RetryJob(c) ==
  LET l == caller[c].lead IN
  /\ caller[c].pc = "act"
  /\ caller[c].seen = "failed"
  /\ job' = IF job[l].state = "failed" THEN [job EXCEPT ![l].state = "waiting"]
                                       ELSE job
  /\ Return(c)
  /\ UNCHANGED <<lead, run, requests, faults, dropped>>

\* completed: remove().  A job that has been added and started meanwhile is
\* locked and stays; any other is removed, started or not.
RemoveJob(c) ==
  LET l == caller[c].lead IN
  /\ caller[c].pc = "act"
  /\ caller[c].seen = "completed"
  /\ IF job[l].state = "active"
     THEN Return(c) /\ UNCHANGED job
     ELSE /\ job' = [job EXCEPT ![l] = NoJob]
          /\ caller' = [caller EXCEPT ![c].pc = "add"]
  /\ UNCHANGED <<lead, run, requests, faults, dropped>>

\* Mutant: add() is called without looking at the old job first.
AddOnly(c) ==
  LET l == caller[c].lead IN
  /\ caller[c].pc \in {"add", "act"}
  /\ job' = IF job[l].state = "none" THEN [job EXCEPT ![l] = NewJob] ELSE job
  /\ Return(c)
  /\ UNCHANGED <<lead, run, requests, faults, dropped>>

\* add(), ignored by BullMQ when the id exists in any state.
AddJob(c) ==
  LET l == caller[c].lead IN
  /\ caller[c].pc = "add" \/ (caller[c].pc = "act" /\ caller[c].seen = "none")
  /\ job' = IF job[l].state = "none" THEN [job EXCEPT ![l] = NewJob] ELSE job
  /\ Return(c)
  /\ UNCHANGED <<lead, run, requests, faults, dropped>>

\* The process of the caller dies, or Redis fails and the error is swallowed.
LoseCall(c) ==
  /\ caller[c].pc # "idle"
  /\ faults < MaxFaults
  /\ faults' = faults + 1
  /\ dropped' = dropped \cup {caller[c].lead}
  /\ Return(c)
  /\ UNCHANGED <<lead, job, run, requests>>

-----------------------------------------------------------------------------
(* processLead *)

Goto(l, pc) == run' = [run EXCEPT ![l].pc = pc]

\* The worker takes the job.
Take(l) ==
  /\ job[l].state = "waiting"
  /\ job' = [job EXCEPT ![l].state = "active"]
  /\ Goto(l, "fetch")
  /\ dropped' = dropped \ {l}
  /\ UNCHANGED <<lead, caller, requests, faults>>

\* No token, or an error of the Graph API: persistGraphFailure reads
\* dataAttempts.
FetchFails(l, error) ==
  /\ run[l].pc = "fetch"
  /\ run' = [run EXCEPT ![l] = [pc |-> "fail", error |-> error,
                                seen |-> lead[l].attempts]]
  /\ UNCHANGED <<lead, job, caller, requests, faults, dropped>>

\* Mutants: a status the column does not have; a retry whatever the error.
PersistFailureAsFailed(l) ==
  /\ run[l].pc = "fail"
  /\ lead' = [lead EXCEPT ![l].data = "FAILED", ![l].attempts = @ + 1]
  /\ run' = [run EXCEPT ![l] = [NoRun EXCEPT !.pc = "tail"]]
  /\ UNCHANGED <<job, caller, requests, faults, dropped>>

PersistFailureRetrying(l) ==
  /\ run[l].pc = "fail"
  /\ lead' = [lead EXCEPT ![l].data = "ERROR", ![l].delivery = "PENDING",
                          ![l].attempts = @ + 1, ![l].error = run[l].error,
                          ![l].retryAt = "later"]
  /\ run' = [run EXCEPT ![l] = [NoRun EXCEPT !.pc = "tail"]]
  /\ UNCHANGED <<job, caller, requests, faults, dropped>>

\* The UPDATE of persistGraphFailure.
PersistFailure(l) ==
  /\ run[l].pc = "fail"
  /\ lead' = [lead EXCEPT
       ![l].data = "ERROR", ![l].delivery = "PENDING",
       ![l].attempts = @ + 1, ![l].error = run[l].error,
       ![l].retryAt = IF LeadGivesUp(run[l].seen + 1, run[l].error)
                      THEN "null" ELSE "later"]
  /\ run' = [run EXCEPT ![l] = [NoRun EXCEPT !.pc = "tail"]]
  /\ UNCHANGED <<job, caller, requests, faults, dropped>>

\* The data is there, whatever the row was before.  dataAttempts stays.
Enrich(l) ==
  /\ run[l].pc = "fetch"
  /\ lead' = [lead EXCEPT ![l].data = "ENRICHED", ![l].delivery = "PROCESSING",
                          ![l].retryAt = "null", ![l].error = "none"]
  /\ Goto(l, "deliver")
  /\ UNCHANGED <<job, caller, requests, faults, dropped>>

\* The fan-out; OrderDelivery has it in detail.
FanOut(l) ==
  /\ run[l].pc = "deliver"
  /\ Goto(l, "settle")
  /\ UNCHANGED <<lead, job, caller, requests, faults, dropped>>

\* recalculateLeadDeliveryStatus when every order has an outcome.
Settle(l, status) ==
  /\ run[l].pc = "settle"
  /\ lead' = [lead EXCEPT ![l].delivery = status]
  /\ Goto(l, "tail")
  /\ UNCHANGED <<job, caller, requests, faults, dropped>>

\* The same when the task of an order threw and left the order PENDING.
SettleOpen(l) ==
  /\ run[l].pc = "settle"
  /\ faults < MaxFaults
  /\ faults' = faults + 1
  /\ lead' = [lead EXCEPT ![l].delivery = "PROCESSING"]
  /\ dropped' = dropped \cup {l}
  /\ Goto(l, "tail")
  /\ UNCHANGED <<job, caller, requests>>

-----------------------------------------------------------------------------
(* BullMQ and time *)

Complete(l) ==
  /\ run[l].pc = "tail"
  /\ job' = [job EXCEPT ![l].state = "completed"]
  /\ run' = [run EXCEPT ![l] = NoRun]
  /\ UNCHANGED <<lead, caller, requests, faults, dropped>>

\* The job of l ends without a result and becomes j.
Abort(l, j) ==
  /\ faults < MaxFaults
  /\ faults' = faults + 1
  /\ job' = [job EXCEPT ![l] = j]
  /\ run' = [run EXCEPT ![l] = NoRun]
  /\ dropped' = IF j.state = "failed" THEN dropped \cup {l} ELSE dropped
  /\ UNCHANGED <<lead, caller, requests>>

\* processLead throws: a database error at any of its statements.
Throw(l) ==
  /\ run[l].pc \in {"fetch", "fail", "deliver", "settle"}
  /\ Abort(l, [state |-> IF job[l].made + 1 < JobAttempts THEN "delayed" ELSE "failed",
               made |-> job[l].made + 1])

\* The worker dies: the job stalls and is run again, or failed if it has
\* stalled before.
Stall(l) ==
  /\ run[l].pc # "none"
  /\ \E state \in {"waiting", "failed"} : Abort(l, [job[l] EXCEPT !.state = state])

BackoffEnds(l) ==
  /\ job[l].state = "delayed"
  /\ job' = [job EXCEPT ![l].state = "waiting"]
  /\ UNCHANGED <<lead, run, caller, requests, faults, dropped>>

\* removeOnComplete and removeOnFail keep the newest jobs only.
Evict(l) ==
  /\ job[l].state \in {"completed", "failed"}
  /\ job' = [job EXCEPT ![l] = NoJob]
  /\ UNCHANGED <<lead, run, caller, requests, faults, dropped>>

\* retryFailedQueueJobs.
RetryFailedJob(l) ==
  /\ job[l].state = "failed"
  /\ Request
  /\ job' = [job EXCEPT ![l].state = "waiting"]
  /\ UNCHANGED <<lead, run, caller, faults, dropped>>

TimePasses(l) ==
  /\ lead[l].retryAt = "later"
  /\ lead' = [lead EXCEPT ![l].retryAt = "due"]
  /\ UNCHANGED <<job, run, caller, requests, faults, dropped>>

-----------------------------------------------------------------------------
Ask(c, l) ==
  \/ \E data \in {"PENDING", "ENRICHED"} : NewLead(c, l, data)
  \/ Again(c, l)
  \/ PollRescue(c, l)
  \/ ManualRead(c, l)

Schedule(c, l) == Sweep(c, l) \/ ClaimGraphRetry(c, l)

Enqueue(c) == ManualReset(c) \/ Look(c) \/ RetryJob(c) \/ RemoveJob(c) \/ AddJob(c)

Process(l) ==
  \/ Take(l)
  \/ \E e \in GraphErrors : FetchFails(l, e)
  \/ PersistFailure(l)
  \/ Enrich(l)
  \/ FanOut(l)
  \/ \E s \in {"SUCCESS", "FAILED"} : Settle(l, s)
  \/ Complete(l)

Fault(l) == SettleOpen(l) \/ Throw(l) \/ Stall(l)

Next ==
  \/ \E c \in Callers :
       \/ \E l \in Leads : Ask(c, l) \/ Schedule(c, l)
       \/ Enqueue(c)
       \/ LoseCall(c)
  \/ \E l \in Leads :
       \/ Process(l)
       \/ Fault(l)
       \/ BackoffEnds(l)
       \/ Evict(l)
       \/ RetryFailedJob(l)
       \/ TimePasses(l)

Spec == Init /\ [][Next]_vars

\* Calls and workers run on, time passes, and the two timers come round to
\* every lead that keeps meeting their condition.  Nothing is assumed of
\* users, Facebook, polling, eviction or faults.
Fairness ==
  /\ \A c \in Callers : WF_vars(Enqueue(c))
  /\ \A l \in Leads :
       /\ WF_vars(Process(l))
       /\ WF_vars(BackoffEnds(l))
       /\ WF_vars(TimePasses(l))
       /\ SF_vars(\E c \in Callers : Sweep(c, l))
       /\ SF_vars(\E c \in Callers : ClaimGraphRetry(c, l))

FairSpec == Spec /\ Fairness

-----------------------------------------------------------------------------
(* Properties *)

\* The row calls for more work: an error the policy retries, or data without
\* an outcome of the deliveries.  A PENDING row is left to the sweep.
Unresolved(r) ==
  \/ r.data = "ERROR" /\ ~LeadGivesUp(r.attempts, r.error)
  \/ r.data = "ENRICHED" /\ r.delivery \in {"PENDING", "PROCESSING"}

\* The tick will claim the row.
Scheduled(r) ==
  r.data = "ERROR" /\ r.attempts < MaxGraphAttempts /\ r.retryAt # "null"

\* The job will still write a result.
WillWrite(l) ==
  \/ job[l].state \in {"waiting", "delayed"}
  \/ run[l].pc \in {"fetch", "fail", "deliver", "settle"}

\* The call, if nothing else moves, brings the job about.
Effective(c, l) ==
  /\ caller[c].lead = l
  /\ \/ caller[c].pc = "look"
     \/ caller[c].pc = "add" /\ job[l].state = "none"
     \/ /\ caller[c].pc = "act"
        /\ \/ caller[c].seen \in {"none", "failed"} /\ job[l].state = caller[c].seen
           \/ caller[c].seen = "completed" /\ job[l].state # "active"

\* A lead that needs more work is never silently forgotten, whichever callers
\* race for its job: it is scheduled, its job will write, a call will bring
\* the job about, or the last dispatch was lost to a fault or to the window at
\* the end of a run.  retryDueGraphErrorLeads clears dataNextRetryAt before it
\* enqueues, and enqueueLeadJob acts on a state of the job that may be stale.
NoLeadStranded ==
  \A l \in Leads :
    Unresolved(lead[l]) /\ ~Scheduled(lead[l]) =>
      l \in dropped \/ WillWrite(l) \/ \E c \in Callers : Effective(c, l)

\* A lead is scheduled only while the policy retries its last error at its
\* count of attempts, however often users, polling and late dispatches run it:
\* the date goes with the error and the count it was computed from.
GivenUpNotScheduled ==
  \A l \in Leads :
    Scheduled(lead[l]) => ~LeadGivesUp(lead[l].attempts, lead[l].error)

\* Every lead is resolved in the end: delivered or refused, or given up by the
\* policy.  A lead that is still PENDING is picked up by the sweep even if its
\* dispatch was lost.
EventuallyResolved ==
  \A l \in Leads :
    lead[l].data # "none" ~>
      lead[l].data # "PENDING" /\ (Unresolved(lead[l]) => l \in dropped)

=============================================================================
