------------------------- MODULE LeadPipelineProofs -------------------------
(***************************************************************************)
(* TLAPS proofs about LeadPipeline, for any number of leads and callers and *)
(* any bounds.                                                              *)
(*                                                                          *)
(* A lead that needs work and is not scheduled became so by a claim or a    *)
(* rescue.  From then on a call is on its way to the job, and it stays      *)
(* effective until the job is brought about or somebody else has done so:   *)
(* whatever makes its reading of the job stale is a newer run, which writes *)
(* its result after the claim.                                              *)
(***************************************************************************)
EXTENDS LeadPipeline, TLAPS

\* What row, job and run of a lead have to do with each other.
LeadOK(l) ==
  /\ job[l].state = "active" <=> run[l].pc # "none"
  /\ job[l].state = "failed" => l \in dropped
  /\ run[l].pc = "fail" => run[l].seen = lead[l].attempts
  /\ run[l].pc \in {"deliver", "settle"} => lead[l].data \in {"PENDING", "ENRICHED"}
  /\ lead[l].retryAt # "null" => ~LeadGivesUp(lead[l].attempts, lead[l].error)

StrandOK(l) ==
  Unresolved(lead[l]) /\ ~Scheduled(lead[l]) =>
    l \in dropped \/ WillWrite(l) \/ \E c \in Callers : Effective(c, l)

AllOK == \A l \in Leads : LeadOK(l) /\ StrandOK(l)

-----------------------------------------------------------------------------
(* Types *)

CallersOK ==
  /\ caller \in [Callers -> Call]
  /\ \A c \in Callers : caller[c].pc # "idle" => caller[c].lead \in Leads

LEMMA BeginTyped ==
  ASSUME CallersOK, NEW c \in Callers, NEW l \in Leads, NEW pc \in CallerPc,
         Begin(c, l, pc)
  PROVE  CallersOK'
<1>1. [pc |-> pc, lead |-> l, seen |-> "none"] \in Call
  BY DEF Call, JobState
<1> QED BY <1>1 DEF CallersOK, Begin

LEMMA ReturnTyped ==
  ASSUME CallersOK, NEW c \in Callers, Return(c)
  PROVE  CallersOK'
<1>1. Idle \in Call
  BY DEF Idle, Call, CallerPc, JobState
<1> QED BY <1>1 DEF CallersOK, Return, Idle

LEMMA CallMoves ==
  ASSUME CallersOK, NEW c \in Callers, caller[c].pc # "idle",
         NEW pc \in CallerPc, NEW state \in JobState,
         caller' = [caller EXCEPT ![c] = [caller[c] EXCEPT !.pc = pc, !.seen = state]]
  PROVE  CallersOK'
<1>1. /\ [caller[c] EXCEPT !.pc = pc, !.seen = state] \in Call
      /\ [caller[c] EXCEPT !.pc = pc, !.seen = state].lead = caller[c].lead
  BY DEF CallersOK, Call
<1> QED BY <1>1 DEF CallersOK

LEMMA NullsTyped == NoRow \in Row /\ NoJob \in Job /\ NewJob \in Job /\ NoRun \in Run /\ Idle \in Call
BY DEF NoRow, Row, GraphError, NoJob, NewJob, Job, JobState, NoRun, Run, RunPc, Idle, Call, CallerPc

LEMMA TypeInit == Init => TypeOK
BY NullsTyped DEF Init, TypeOK, Idle

LEMMA AskTyped ==
  ASSUME TypeOK, NEW c \in Callers, NEW l \in Leads, Ask(c, l) \/ Schedule(c, l)
  PROVE  TypeOK'
<1>1. CallersOK
  BY DEF TypeOK, CallersOK
<1>2. CallersOK'
  BY <1>1, BeginTyped
  DEF Ask, Schedule, NewLead, Again, PollRescue, ManualRead, Sweep, ClaimGraphRetry, CallerPc
<1>3. lead' \in [Leads -> Row]
  BY DEF TypeOK, Ask, Schedule, NewLead, Insert, Again, PollRescue, ManualRead, Sweep,
         ClaimGraphRetry, Row
<1>4. requests' \in Nat /\ UNCHANGED <<job, run, faults, dropped>>
  BY DEF TypeOK, Ask, Schedule, NewLead, Again, PollRescue, ManualRead, Sweep,
         ClaimGraphRetry, Request
<1> QED BY <1>2, <1>3, <1>4 DEF TypeOK, CallersOK

LEMMA EnqueueTyped ==
  ASSUME TypeOK, NEW c \in Callers, Enqueue(c) \/ LoseCall(c)
  PROVE  TypeOK'
<1> DEFINE l == caller[c].lead
<1>1. CallersOK /\ caller[c].pc # "idle" /\ l \in Leads
  BY DEF TypeOK, CallersOK, Enqueue, ManualReset, Look, RetryJob, RemoveJob, AddJob, LoseCall
<1>2. caller[c] \in Call /\ job[l] \in Job /\ lead[l] \in Row
  BY <1>1 DEF TypeOK
<1>3. CASE ManualReset(c)
  <2>1. caller' = [caller EXCEPT ![c] = [caller[c] EXCEPT !.pc = "look", !.seen = caller[c].seen]]
    BY <1>2, <1>3 DEF ManualReset, Call
  <2>2. CallersOK'
    BY <1>1, <1>2, <2>1, CallMoves DEF CallerPc, Call
  <2>3. lead' \in [Leads -> Row]
    BY <1>3 DEF ManualReset, TypeOK, Row
  <2> QED BY <1>3, <2>2, <2>3 DEF ManualReset, TypeOK, CallersOK
<1>4. CASE Look(c)
  <2>1. CASE InHand(l)
    <3>1. CallersOK'
      BY <1>1, <1>4, <2>1, ReturnTyped DEF Look
    <3> QED BY <1>1, <1>4, <2>1, <3>1 DEF Look, TypeOK, CallersOK
  <2>2. CASE ~InHand(l)
    <3>1. caller' = [caller EXCEPT ![c] = [caller[c] EXCEPT !.pc = "act", !.seen = job[l].state]]
      BY <1>4, <2>2 DEF Look
    <3>2. CallersOK'
      BY <1>1, <1>2, <3>1, CallMoves DEF CallerPc, Job
    <3> QED BY <1>4, <2>2, <3>2 DEF Look, TypeOK, CallersOK
  <2> QED BY <2>1, <2>2
<1>5. CASE RetryJob(c)
  <2>1. CallersOK'
    BY <1>1, <1>5, ReturnTyped DEF RetryJob
  <2>2. job' \in [Leads -> Job]
    BY <1>5 DEF RetryJob, TypeOK, Job, JobState
  <2> QED BY <1>5, <2>1, <2>2 DEF RetryJob, TypeOK, CallersOK
<1>6. CASE RemoveJob(c)
  <2>1. CallersOK'
    <3>1. CASE job[l].state = "active"
      BY <1>1, <1>6, <3>1, ReturnTyped DEF RemoveJob
    <3>2. CASE job[l].state # "active"
      <4>1. caller' = [caller EXCEPT ![c] = [caller[c] EXCEPT !.pc = "add", !.seen = caller[c].seen]]
        BY <1>2, <1>6, <3>2 DEF RemoveJob, Call
      <4> QED BY <1>1, <1>2, <4>1, CallMoves DEF CallerPc, Call
    <3> QED BY <3>1, <3>2
  <2>2. job' \in [Leads -> Job]
    BY <1>6, NullsTyped DEF RemoveJob, TypeOK
  <2> QED BY <1>6, <2>1, <2>2 DEF RemoveJob, TypeOK, CallersOK
<1>7. CASE AddJob(c)
  <2>1. CallersOK'
    BY <1>1, <1>7, ReturnTyped DEF AddJob
  <2>2. job' \in [Leads -> Job]
    BY <1>7, NullsTyped DEF AddJob, TypeOK
  <2> QED BY <1>7, <2>1, <2>2 DEF AddJob, TypeOK, CallersOK
<1>8. CASE LoseCall(c)
  <2>1. CallersOK'
    BY <1>1, <1>8, ReturnTyped DEF LoseCall
  <2> QED BY <1>1, <1>8, <2>1 DEF LoseCall, TypeOK, CallersOK
<1> QED BY <1>3, <1>4, <1>5, <1>6, <1>7, <1>8 DEF Enqueue

LEMMA GotoTyped ==
  ASSUME TypeOK, NEW l \in Leads, NEW pc \in RunPc, Goto(l, pc)
  PROVE  run' \in [Leads -> Run]
<1>1. [run[l] EXCEPT !.pc = pc] \in Run
  BY DEF TypeOK, Run
<1> QED BY <1>1 DEF TypeOK, Goto

LEMMA ProcessTyped ==
  ASSUME TypeOK, NEW l \in Leads, Process(l) \/ Fault(l)
  PROVE  TypeOK'
<1>1. lead[l] \in Row /\ job[l] \in Job /\ run[l] \in Run
  BY DEF TypeOK
<1>2. CASE Take(l)
  <2>1. run' \in [Leads -> Run]
    BY <1>2, GotoTyped DEF Take, RunPc
  <2>2. [job[l] EXCEPT !.state = "active"] \in Job
    BY <1>1 DEF Job, JobState
  <2> QED BY <1>2, <2>1, <2>2 DEF Take, TypeOK
<1>3. ASSUME NEW e \in GraphErrors, FetchFails(l, e) PROVE TypeOK'
  <2>1. [pc |-> "fail", error |-> e, seen |-> lead[l].attempts] \in Run
    BY <1>1, PipelineAssumption DEF Run, RunPc, Row
  <2> QED BY <1>3, <2>1 DEF FetchFails, TypeOK
<1>4. CASE PersistFailure(l)
  <2>1. [NoRun EXCEPT !.pc = "tail"] \in Run
    BY DEF NoRun, Run, RunPc, GraphError
  <2>2. lead' \in [Leads -> Row]
    BY <1>1, <1>4 DEF PersistFailure, TypeOK, Row, Run
  <2> QED BY <1>4, <2>1, <2>2 DEF PersistFailure, TypeOK
<1>5. CASE Enrich(l)
  <2>1. run' \in [Leads -> Run]
    BY <1>5, GotoTyped DEF Enrich, RunPc
  <2>2. lead' \in [Leads -> Row]
    <3>1. [lead[l] EXCEPT !.data = "ENRICHED", !.delivery = "PROCESSING",
                          !.retryAt = "null", !.error = "none"] \in Row
      BY <1>1 DEF Row, GraphError
    <3> QED BY <1>5, <3>1 DEF Enrich, TypeOK
  <2> QED BY <1>5, <2>1, <2>2 DEF Enrich, TypeOK
<1>6. CASE FanOut(l)
  BY <1>6, GotoTyped DEF FanOut, TypeOK, RunPc
<1>7. ASSUME NEW s \in {"SUCCESS", "FAILED"}, Settle(l, s) PROVE TypeOK'
  <2>1. run' \in [Leads -> Run]
    BY <1>7, GotoTyped DEF Settle, RunPc
  <2>2. lead' \in [Leads -> Row]
    BY <1>7 DEF Settle, TypeOK, Row
  <2> QED BY <1>7, <2>1, <2>2 DEF Settle, TypeOK
<1>8. CASE Complete(l)
  <2>1. [job[l] EXCEPT !.state = "completed"] \in Job
    BY <1>1 DEF Job, JobState
  <2> QED BY <1>8, <2>1, NullsTyped DEF Complete, TypeOK
<1>9. CASE SettleOpen(l)
  <2>1. run' \in [Leads -> Run]
    BY <1>9, GotoTyped DEF SettleOpen, RunPc
  <2>2. lead' \in [Leads -> Row]
    BY <1>9 DEF SettleOpen, TypeOK, Row
  <2> QED BY <1>9, <2>1, <2>2 DEF SettleOpen, TypeOK
<1>10. ASSUME NEW j \in Job, Abort(l, j) PROVE TypeOK'
  BY <1>10, NullsTyped DEF Abort, TypeOK
<1>11. CASE Throw(l)
  <2>1. [state |-> IF job[l].made + 1 < JobAttempts THEN "delayed" ELSE "failed",
         made |-> job[l].made + 1] \in Job
    BY <1>1 DEF Job, JobState
  <2> QED BY <1>10, <1>11, <2>1 DEF Throw
<1>12. CASE Stall(l)
  <2>1. \A state \in {"waiting", "failed"} : [job[l] EXCEPT !.state = state] \in Job
    BY <1>1 DEF Job, JobState
  <2> QED BY <1>10, <1>12, <2>1 DEF Stall
<1> QED BY <1>2, <1>3, <1>4, <1>5, <1>6, <1>7, <1>8, <1>9, <1>11, <1>12 DEF Process, Fault

LEMMA TypeStep == TypeOK /\ [Next]_vars => TypeOK'
<1> SUFFICES ASSUME TypeOK, [Next]_vars PROVE TypeOK'
  OBVIOUS
<1>1. ASSUME NEW l \in Leads,
             BackoffEnds(l) \/ Evict(l) \/ RetryFailedJob(l) \/ TimePasses(l)
      PROVE  TypeOK'
  <2>1. lead[l] \in Row /\ job[l] \in Job
    BY DEF TypeOK
  <2>2. [job[l] EXCEPT !.state = "waiting"] \in Job /\ [lead[l] EXCEPT !.retryAt = "due"] \in Row
    BY <2>1 DEF Job, JobState, Row
  <2> QED BY <1>1, <2>2, NullsTyped
          DEF BackoffEnds, Evict, RetryFailedJob, TimePasses, Request, TypeOK
<1>2. CASE UNCHANGED vars
  BY <1>2 DEF vars, TypeOK
<1> QED BY <1>1, <1>2, AskTyped, EnqueueTyped, ProcessTyped DEF Next

\* The columns of a lead, the states of its job and of its run, and what
\* callers hold, are always of their kind.
THEOREM PipelineTypeCorrect == Spec => []TypeOK
<1> QED BY TypeInit, TypeStep, PTL DEF Spec

-----------------------------------------------------------------------------
(* No lead is stranded *)

LEMMA AllInit == Init => AllOK
BY DEF Init, AllOK, LeadOK, StrandOK, NoRow, NoJob, NoRun, Unresolved

\* A lead that a step does not touch keeps its invariant, as long as no call
\* for it becomes less effective.
LEMMA Untouched ==
  ASSUME NEW k \in Leads, LeadOK(k), StrandOK(k),
         lead'[k] = lead[k], job'[k] = job[k], run'[k] = run[k],
         k \in dropped' <=> k \in dropped,
         \A c \in Callers : Effective(c, k) => Effective(c, k)'
  PROVE  LeadOK(k)' /\ StrandOK(k)'
BY DEF LeadOK, StrandOK, WillWrite

\* Calls for k are the same as before as long as the job of k is.
LEMMA SameCalls ==
  ASSUME NEW k \in Leads, job'[k] = job[k], UNCHANGED caller
  PROVE  \A c \in Callers : Effective(c, k) => Effective(c, k)'
BY DEF Effective

\* A call that begins or ends matters to its own lead only.
LEMMA OtherCalls ==
  ASSUME TypeOK, NEW c \in Callers, NEW k \in Leads, job'[k] = job[k],
         caller[c].pc = "idle" \/ caller[c].lead # k,
         NEW x, caller' = [caller EXCEPT ![c] = x]
  PROVE  \A d \in Callers : Effective(d, k) => Effective(d, k)'
BY DEF Effective, TypeOK

LEMMA BeginEffective ==
  ASSUME TypeOK, NEW c \in Callers, NEW l \in Leads, Begin(c, l, "look")
  PROVE  Effective(c, l)'
BY DEF Begin, Effective, TypeOK

LEMMA AskOK ==
  ASSUME TypeOK, AllOK, NEW c \in Callers, NEW l \in Leads, Ask(c, l) \/ Schedule(c, l)
  PROVE  AllOK'
<1> SUFFICES ASSUME NEW k \in Leads PROVE LeadOK(k)' /\ StrandOK(k)'
  BY DEF AllOK
<1>1. LeadOK(k) /\ StrandOK(k)
  BY DEF AllOK
<1>2. UNCHANGED <<job, run, dropped>>
  BY DEF Ask, Schedule, NewLead, Again, PollRescue, ManualRead, Sweep, ClaimGraphRetry
<1>3. Begin(c, l, "look") \/ (Begin(c, l, "reset") /\ UNCHANGED lead)
  BY DEF Ask, Schedule, NewLead, Again, PollRescue, ManualRead, Sweep, ClaimGraphRetry
<1>4. caller[c].pc = "idle"
  BY <1>3 DEF Begin
<1>5. \A d \in Callers : Effective(d, k) => Effective(d, k)'
  BY <1>2, <1>3, <1>4, OtherCalls DEF Begin
<1>6. CASE lead'[k] = lead[k]
  BY <1>1, <1>2, <1>5, <1>6, Untouched
<1>7. CASE lead'[k] # lead[k]
  <2>1. k = l
    BY <1>7 DEF TypeOK, Ask, Schedule, NewLead, Insert, Again, PollRescue, ManualRead, Sweep,
                ClaimGraphRetry
  <2>2. Effective(c, k)'
    BY <1>3, <1>7, <2>1, BeginEffective
  <2>3. /\ lead'[k].attempts = lead[k].attempts
        /\ lead'[k].error = lead[k].error
        /\ lead'[k].retryAt \in {"null", lead[k].retryAt}
        /\ lead'[k].data \in {"PENDING", "ENRICHED", lead[k].data}
    BY <2>1 DEF TypeOK, Row, Ask, Schedule, NewLead, Insert, Again, PollRescue, ManualRead,
                Sweep, ClaimGraphRetry
  <2>4. LeadOK(k)'
    BY <1>1, <1>2, <2>3 DEF LeadOK
  <2> QED BY <2>2, <2>4 DEF StrandOK
<1> QED BY <1>6, <1>7

LEMMA EnqueueOK ==
  ASSUME TypeOK, AllOK, NEW c \in Callers, Enqueue(c) \/ LoseCall(c)
  PROVE  AllOK'
<1> SUFFICES ASSUME NEW k \in Leads PROVE LeadOK(k)' /\ StrandOK(k)'
  BY DEF AllOK
<1> DEFINE l == caller[c].lead
<1>1. LeadOK(k) /\ StrandOK(k) /\ UNCHANGED run
  BY DEF AllOK, Enqueue, ManualReset, Look, RetryJob, RemoveJob, AddJob, LoseCall
<1>2. l \in Leads /\ caller \in [Callers -> Call]
  BY DEF TypeOK, Enqueue, ManualReset, Look, RetryJob, RemoveJob, AddJob, LoseCall
<1>3. CASE k # l
  <2>1. \E x : caller' = [caller EXCEPT ![c] = x]
    BY DEF Enqueue, ManualReset, Look, RetryJob, RemoveJob, AddJob, LoseCall, Return
  <2>2. lead'[k] = lead[k] /\ job'[k] = job[k] /\ (k \in dropped' <=> k \in dropped)
    BY <1>2, <1>3
    DEF TypeOK, Enqueue, ManualReset, Look, RetryJob, RemoveJob, AddJob, LoseCall
  <2> QED BY <1>1, <1>3, <2>1, <2>2, OtherCalls, Untouched
<1>4. CASE k = l
  <2> USE <1>4
  <2>1. CASE ManualReset(c)
    <3>1. /\ lead'[k].data = "PENDING" /\ lead'[k].retryAt = lead[k].retryAt
          /\ lead'[k].attempts = lead[k].attempts /\ lead'[k].error = lead[k].error
      BY <1>2, <2>1 DEF ManualReset, TypeOK, Row
    <3> QED BY <1>1, <2>1, <3>1 DEF ManualReset, LeadOK, StrandOK, Unresolved
  <2>2. CASE Look(c)
    <3>1. LeadOK(k)'
      BY <1>1, <2>2 DEF Look, LeadOK
    <3>2. CASE InHand(l)
      BY <1>1, <2>2, <3>2 DEF Look, LeadOK, StrandOK, InHand, WillWrite, TypeOK, Run, RunPc
    <3>3. CASE ~InHand(l)
      <4>1. job[k].state \in {"none", "failed", "completed"}
        BY <1>2, <3>3 DEF InHand, TypeOK, Job, JobState
      <4>2. caller'[c].pc = "act" /\ caller'[c].seen = job[k].state /\ caller'[c].lead = k
        BY <1>2, <2>2, <3>3 DEF Look, Call
      <4>3. Effective(c, k)'
        BY <2>2, <4>1, <4>2 DEF Effective, Look
      <4> QED BY <3>1, <4>3 DEF StrandOK
    <3> QED BY <3>1, <3>2, <3>3
  <2>3. CASE RetryJob(c)
    <3>1. CASE job[k].state = "failed"
      <4>1. job'[k].state = "waiting"
        BY <1>2, <2>3, <3>1 DEF RetryJob, TypeOK, Job
      <4> QED BY <1>1, <2>3, <3>1, <4>1 DEF RetryJob, LeadOK, StrandOK, WillWrite
    <3>2. CASE job[k].state # "failed"
      <4>1. ~Effective(c, k)
        BY <2>3, <3>2 DEF RetryJob, Effective
      <4>2. \A d \in Callers : Effective(d, k) => Effective(d, k)'
        BY <1>2, <2>3, <3>2, <4>1 DEF RetryJob, Return, Effective
      <4> QED BY <1>1, <2>3, <3>2, <4>2, Untouched DEF RetryJob
    <3> QED BY <3>1, <3>2
  <2>4. CASE RemoveJob(c)
    <3>1. CASE job[k].state = "active"
      <4>1. ~Effective(c, k)
        BY <2>4, <3>1 DEF RemoveJob, Effective
      <4>2. \A d \in Callers : Effective(d, k) => Effective(d, k)'
        BY <1>2, <2>4, <3>1, <4>1 DEF RemoveJob, Return, Effective
      <4> QED BY <1>1, <2>4, <3>1, <4>2, Untouched DEF RemoveJob
    <3>2. CASE job[k].state # "active"
      <4>1. job'[k].state = "none" /\ caller'[c].pc = "add" /\ caller'[c].lead = k
        BY <1>2, <2>4, <3>2 DEF RemoveJob, TypeOK, NoJob, Call
      <4>2. Effective(c, k)'
        BY <4>1 DEF Effective
      <4> QED BY <1>1, <2>4, <3>2, <4>1, <4>2 DEF RemoveJob, LeadOK, StrandOK
    <3> QED BY <3>1, <3>2
  <2>5. CASE AddJob(c)
    <3>1. CASE job[k].state = "none"
      <4>1. job'[k].state = "waiting"
        BY <1>2, <2>5, <3>1 DEF AddJob, TypeOK, NewJob
      <4> QED BY <1>1, <2>5, <3>1, <4>1 DEF AddJob, LeadOK, StrandOK, WillWrite
    <3>2. CASE job[k].state # "none"
      <4>1. ~Effective(c, k)
        BY <2>5, <3>2 DEF AddJob, Effective
      <4>2. \A d \in Callers : Effective(d, k) => Effective(d, k)'
        BY <1>2, <2>5, <3>2, <4>1 DEF AddJob, Return, Effective
      <4> QED BY <1>1, <2>5, <3>2, <4>2, Untouched DEF AddJob
    <3> QED BY <3>1, <3>2
  <2>6. CASE LoseCall(c)
    BY <1>1, <2>6 DEF LoseCall, LeadOK, StrandOK
  <2> QED BY <2>1, <2>2, <2>3, <2>4, <2>5, <2>6 DEF Enqueue
<1> QED BY <1>3, <1>4

LEMMA ProcessOK ==
  ASSUME TypeOK, AllOK, NEW l \in Leads, Process(l) \/ Fault(l)
  PROVE  AllOK'
<1> SUFFICES ASSUME NEW k \in Leads PROVE LeadOK(k)' /\ StrandOK(k)'
  BY DEF AllOK
<1>1. LeadOK(k) /\ StrandOK(k) /\ UNCHANGED caller
  BY DEF AllOK, Process, Fault, Take, FetchFails, PersistFailure, Enrich, FanOut, Settle,
         Complete, SettleOpen, Throw, Stall, Abort
<1>2. lead[l] \in Row /\ job[l] \in Job /\ run[l] \in Run
  BY DEF TypeOK
<1>3. CASE k # l
  <2>1. /\ lead'[k] = lead[k] /\ job'[k] = job[k] /\ run'[k] = run[k]
        /\ k \in dropped' <=> k \in dropped
    BY <1>3
    DEF TypeOK, Process, Fault, Take, FetchFails, PersistFailure, Enrich, FanOut, Settle,
        Complete, SettleOpen, Throw, Stall, Abort, Goto
  <2> QED BY <1>1, <2>1, SameCalls, Untouched
<1>4. CASE k = l
  <2> USE <1>4
  <2>1. CASE Take(l)
    <3>1. run'[k].pc = "fetch" /\ job'[k].state = "active" /\ lead'[k] = lead[k]
      BY <1>2, <2>1 DEF Take, Goto, TypeOK, Job, Run
    <3> QED BY <1>1, <3>1 DEF LeadOK, StrandOK, WillWrite
  <2>2. ASSUME NEW e \in GraphErrors, FetchFails(l, e) PROVE LeadOK(k)' /\ StrandOK(k)'
    <3>1. run'[k].pc = "fail" /\ run'[k].seen = lead[k].attempts
      BY <2>2 DEF FetchFails, TypeOK
    <3> QED BY <1>1, <2>2, <3>1 DEF FetchFails, LeadOK, StrandOK, WillWrite
  <2>3. CASE PersistFailure(l)
    <3>1. /\ run'[k].pc = "tail"
          /\ lead'[k].data = "ERROR"
          /\ lead'[k].attempts = lead[k].attempts + 1
          /\ lead'[k].error = run[k].error
          /\ lead'[k].retryAt = IF LeadGivesUp(run[k].seen + 1, run[k].error)
                                THEN "null" ELSE "later"
      BY <1>2, <2>3 DEF PersistFailure, TypeOK, Row, NoRun
    <3>2. run[k].seen = lead[k].attempts
      BY <1>1, <2>3 DEF PersistFailure, LeadOK
    <3>3. LeadOK(k)'
      BY <1>1, <2>3, <3>1, <3>2 DEF PersistFailure, LeadOK
    <3>4. Unresolved(lead[k])' => Scheduled(lead[k])'
      BY <1>2, <3>1, <3>2, GraphAttemptsAssumption DEF Unresolved, Scheduled, LeadGivesUp, Row
    <3> QED BY <3>3, <3>4 DEF StrandOK
  <2>4. CASE Enrich(l)
    <3>1. run'[k].pc = "deliver" /\ lead'[k].data = "ENRICHED" /\ lead'[k].retryAt = "null"
      BY <1>2, <2>4 DEF Enrich, Goto, TypeOK, Row, Run
    <3> QED BY <1>1, <2>4, <3>1 DEF Enrich, LeadOK, StrandOK, WillWrite
  <2>5. CASE FanOut(l)
    <3>1. run'[k].pc = "settle"
      BY <1>2, <2>5 DEF FanOut, Goto, TypeOK, Run
    <3> QED BY <1>1, <2>5, <3>1 DEF FanOut, LeadOK, StrandOK, WillWrite
  <2>6. ASSUME NEW s \in {"SUCCESS", "FAILED"}, Settle(l, s)
        PROVE  LeadOK(k)' /\ StrandOK(k)'
    <3>1. /\ run'[k].pc = "tail" /\ lead'[k].delivery = s
          /\ lead'[k].data = lead[k].data /\ lead'[k].retryAt = lead[k].retryAt
          /\ lead'[k].attempts = lead[k].attempts /\ lead'[k].error = lead[k].error
      BY <1>2, <2>6 DEF Settle, Goto, TypeOK, Row, Run
    <3>2. lead[k].data \in {"PENDING", "ENRICHED"}
      BY <1>1, <2>6 DEF Settle, LeadOK
    <3> QED BY <1>1, <2>6, <3>1, <3>2 DEF Settle, LeadOK, StrandOK, Unresolved
  <2>7. CASE SettleOpen(l)
    <3>1. /\ run'[k].pc = "tail" /\ k \in dropped'
          /\ lead'[k].data = lead[k].data /\ lead'[k].retryAt = lead[k].retryAt
          /\ lead'[k].attempts = lead[k].attempts /\ lead'[k].error = lead[k].error
      BY <1>2, <2>7 DEF SettleOpen, Goto, TypeOK, Row, Run
    <3> QED BY <1>1, <2>7, <3>1 DEF SettleOpen, LeadOK, StrandOK
  <2>8. CASE Complete(l)
    <3>1. job'[k].state = "completed" /\ run'[k].pc = "none" /\ job[k].state = "active"
      BY <1>1, <1>2, <2>8 DEF Complete, LeadOK, TypeOK, Job, NoRun
    <3>2. ~WillWrite(k)
      BY <2>8, <3>1 DEF Complete, WillWrite
    <3>3. \A c \in Callers : Effective(c, k) => Effective(c, k)'
      BY <1>1, <3>1 DEF Effective
    <3> QED BY <1>1, <2>8, <3>1, <3>2, <3>3 DEF Complete, LeadOK, StrandOK
  <2>9. ASSUME NEW j \in Job, j.state \in {"waiting", "delayed", "failed"}, Abort(l, j)
        PROVE  LeadOK(k)' /\ StrandOK(k)'
    <3>1. /\ job'[k] = j /\ run'[k].pc = "none"
          /\ j.state = "failed" => k \in dropped'
      BY <2>9 DEF Abort, TypeOK, NoRun
    <3>2. lead' = lead
      BY <2>9 DEF Abort
    <3> QED BY <1>1, <2>9, <3>1, <3>2 DEF LeadOK, StrandOK, WillWrite
  <2>10. CASE Throw(l)
    <3> DEFINE j == [state |-> IF job[l].made + 1 < JobAttempts THEN "delayed" ELSE "failed",
                     made |-> job[l].made + 1]
    <3>1. j \in Job /\ j.state \in {"waiting", "delayed", "failed"}
      BY <1>2 DEF Job, JobState
    <3> QED BY <2>9, <2>10, <3>1 DEF Throw
  <2>11. CASE Stall(l)
    <3>1. PICK state \in {"waiting", "failed"} : Abort(l, [job[l] EXCEPT !.state = state])
      BY <2>11 DEF Stall
    <3>2. /\ [job[l] EXCEPT !.state = state] \in Job
          /\ [job[l] EXCEPT !.state = state].state = state
      BY <1>2 DEF Job, JobState
    <3> QED BY <2>9, <3>1, <3>2
  <2> QED BY <2>1, <2>2, <2>3, <2>4, <2>5, <2>6, <2>7, <2>8, <2>10, <2>11 DEF Process, Fault
<1> QED BY <1>3, <1>4

LEMMA JobAndTimeOK ==
  ASSUME TypeOK, AllOK, NEW l \in Leads,
         BackoffEnds(l) \/ Evict(l) \/ RetryFailedJob(l) \/ TimePasses(l)
  PROVE  AllOK'
<1> SUFFICES ASSUME NEW k \in Leads PROVE LeadOK(k)' /\ StrandOK(k)'
  BY DEF AllOK
<1>1. LeadOK(k) /\ StrandOK(k) /\ UNCHANGED <<caller, run, dropped>>
  BY DEF AllOK, BackoffEnds, Evict, RetryFailedJob, TimePasses
<1>2. lead[l] \in Row /\ job[l] \in Job /\ run[l] \in Run
  BY DEF TypeOK
<1>3. CASE k # l
  <2>1. lead'[k] = lead[k] /\ job'[k] = job[k]
    BY <1>3 DEF TypeOK, BackoffEnds, Evict, RetryFailedJob, TimePasses
  <2> QED BY <1>1, <2>1, SameCalls, Untouched
<1>4. CASE k = l
  <2> USE <1>4
  <2>1. CASE BackoffEnds(l) \/ RetryFailedJob(l)
    <3>1. job'[k].state = "waiting" /\ job[k].state \in {"delayed", "failed"} /\ lead' = lead
      BY <1>2, <2>1 DEF BackoffEnds, RetryFailedJob, TypeOK, Job
    <3> QED BY <1>1, <3>1 DEF LeadOK, StrandOK, WillWrite
  <2>2. CASE Evict(l)
    <3>1. job'[k].state = "none" /\ job[k].state \in {"completed", "failed"} /\ lead' = lead
      BY <1>2, <2>2 DEF Evict, TypeOK, NoJob
    <3>2. CASE k \in dropped
      BY <1>1, <3>1, <3>2 DEF LeadOK, StrandOK
    <3>3. CASE k \notin dropped
      <4>1. job[k].state = "completed"
        BY <1>1, <3>1, <3>3 DEF LeadOK
      <4>2. \A c \in Callers : Effective(c, k) => Effective(c, k)'
        BY <1>1, <3>1, <4>1 DEF Effective
      <4> QED BY <1>1, <3>1, <4>1, <4>2 DEF LeadOK, StrandOK, WillWrite
    <3> QED BY <3>2, <3>3
  <2>3. CASE TimePasses(l)
    <3>1. /\ lead'[k].data = lead[k].data /\ lead'[k].attempts = lead[k].attempts
          /\ lead'[k].error = lead[k].error /\ lead'[k].delivery = lead[k].delivery
          /\ lead'[k].retryAt = "due" /\ lead[k].retryAt = "later"
      BY <1>2, <2>3 DEF TimePasses, TypeOK, Row
    <3>2. job' = job
      BY <2>3 DEF TimePasses
    <3>3. \A c \in Callers : Effective(c, k) => Effective(c, k)'
      BY <1>1, <3>2, SameCalls
    <3> QED BY <1>1, <3>1, <3>2, <3>3 DEF LeadOK, StrandOK, Unresolved, Scheduled, WillWrite
  <2> QED BY <2>1, <2>2, <2>3
<1> QED BY <1>3, <1>4

LEMMA AllStep == TypeOK /\ AllOK /\ [Next]_vars => AllOK'
<1> SUFFICES ASSUME TypeOK, AllOK, [Next]_vars PROVE AllOK'
  OBVIOUS
<1>1. CASE UNCHANGED vars
  BY <1>1 DEF vars, AllOK, LeadOK, StrandOK, WillWrite, Effective
<1> QED BY <1>1, AskOK, EnqueueOK, ProcessOK, JobAndTimeOK DEF Next

LEMMA AllAlways == Spec => [](TypeOK /\ AllOK)
<1>1. Init => TypeOK /\ AllOK
  BY TypeInit, AllInit
<1>2. TypeOK /\ AllOK /\ [Next]_vars => (TypeOK /\ AllOK)'
  BY TypeStep, AllStep
<1> QED BY <1>1, <1>2, PTL DEF Spec

\* No lead that needs work is forgotten, however the callers of
\* enqueueLeadJob race for its job, except by a fault or in the window at the
\* end of a run.
THEOREM NoLeadIsStranded == Spec => []NoLeadStranded
<1>1. AllOK => NoLeadStranded
  BY DEF AllOK, StrandOK, NoLeadStranded
<1> QED BY <1>1, AllAlways, PTL

\* persistGraphFailure computes the date from a number it read before it writes.
\* That number is still the row's: a second run of the lead, which alone could
\* move it, would need a second job, and no other writer touches dataAttempts.
DecidesOnCurrent ==
  \A l \in Leads : run[l].pc = "fail" => run[l].seen = lead[l].attempts

\* With one job per lead at a time, persistGraphFailure decides on the current
\* number of attempts, whatever users, sweep and polling write to the row
\* meanwhile, and so what is scheduled is what the policy retries.
THEOREM GivenUpStaysUnscheduled == Spec => [](DecidesOnCurrent /\ GivenUpNotScheduled)
<1>1. AllOK => DecidesOnCurrent
  BY DEF AllOK, LeadOK, DecidesOnCurrent
<1>2. AllOK => GivenUpNotScheduled
  BY DEF AllOK, LeadOK, GivenUpNotScheduled, Scheduled
<1> QED BY <1>1, <1>2, AllAlways, PTL

=============================================================================
