--------------------------- MODULE CircuitBreaker ---------------------------
(***************************************************************************)
(* The circuit breaker of a destination, server/services/circuitBreaker.ts: *)
(* one row of circuit_breakers per (integration, destination).              *)
(*                                                                          *)
(*   recordOutcome   after every persisted delivery attempt                 *)
(*   evaluateClaim   before a retry, and for every preview an admin opens   *)
(*   autoPromoteExpiredCooldowns   once per tick of the retry scheduler     *)
(*                                                                          *)
(* recordOutcome and evaluateClaim read the row, decide, and write columns  *)
(* of it WHERE id: between the two steps the row may have changed.          *)
(* First attempts are never gated, so outcomes arrive in every state.       *)
(* manualLock is left out: nothing in the repository writes it.             *)
(***************************************************************************)
EXTENDS CircuitPolicy

CONSTANTS
  Destinations,
  Apps,         \* the connected apps
  App,          \* appKey of each destination
  NoApp,        \* appKey NULL
  Policy,       \* the policy of each error class
  Tasks,        \* concurrent calls of recordOutcome and evaluateClaim
  Errors,       \* the error classes that occur
  MaxOutcomes   \* bound: recorded outcomes

ASSUME BreakerAssumption ==
  /\ Policy \in [Class -> Policies]
  /\ \A c \in Class : Policy[c].cooldownLadder # << >>
  /\ App \in [Destinations -> Apps]
  /\ NoApp \notin Apps
  /\ Errors \subseteq Class
  /\ MaxOutcomes \in Nat

VARIABLES
  row,       \* circuit_breakers
  task,      \* the calls in progress and what they have read
  outcomes   \* outcomes so far

vars == <<row, task, outcomes>>

-----------------------------------------------------------------------------
(* State *)

State == {"none", "CLOSED", "OPEN", "HALF_OPEN"}

\* cooldownUntil: NULL, in the future, or at most now.
Cooldown == {"none", "active", "expired"}

\* age: steps of five minutes since windowStartedAt, two and more the same.
Row == [state : State, age : 0..2, failures : Nat, successes : Nat,
        streak : Nat, cooldown : Cooldown, level : Nat,
        last : Class \cup {"none"}, attempts : Nat, passed : Nat,
        app : Apps \cup {NoApp}]

NoRow == [state |-> "none", age |-> 0, failures |-> 0, successes |-> 0,
          streak |-> 0, cooldown |-> "none", level |-> 0, last |-> "none",
          attempts |-> 0, passed |-> 0, app |-> NoApp]

Result == {"ok"} \cup Class

Pc == {"idle", "record", "evaluate"}

Call == [pc : Pc \ {"idle"}, dest : Destinations, seen : Row, result : Result,
         app : Apps \cup {NoApp}]

Idle == [pc |-> "idle"]

TypeOK ==
  /\ row \in [Destinations -> Row]
  /\ DOMAIN task = Tasks
  /\ \A t \in Tasks : task[t] = Idle \/ task[t] \in Call
  /\ outcomes \in 0..MaxOutcomes

Init ==
  /\ row = [d \in Destinations |-> NoRow]
  /\ task = [t \in Tasks |-> Idle]
  /\ outcomes = 0

\* getPolicy: success and unclassified errors fall back to "unknown".
PolicyOf(c) == IF c \in Class THEN Policy[c] ELSE Policy["unknown"]

-----------------------------------------------------------------------------
(* recordOutcome *)

CooldownFrom(policy, level) ==
  IF CooldownAt(policy, level) = 0 THEN "expired" ELSE "active"

\* The tumbling window with this outcome counted.
Window(seen, policy, ok) ==
  LET expired == seen.state = "none" \/ seen.age >= policy.windowMs
      base == IF expired THEN [f |-> 0, s |-> 0] ELSE [f |-> seen.failures, s |-> seen.successes]
  IN  [age |-> IF expired THEN 0 ELSE seen.age,
       failures |-> base.f + (IF ok THEN 0 ELSE 1),
       successes |-> base.s + (IF ok THEN 1 ELSE 0)]

\* The counters every branch writes.
Counted(old, seen, policy, ok) ==
  LET w == Window(seen, policy, ok) IN
  [old EXCEPT !.age = w.age, !.failures = w.failures, !.successes = w.successes,
              !.streak = IF ok THEN 0 ELSE seen.streak + 1]

\* OPEN at a rung of the ladder.
Opened(new, policy, level, result) ==
  [new EXCEPT !.state = "OPEN", !.cooldown = CooldownFrom(policy, level),
              !.level = level, !.attempts = 0, !.passed = 0, !.last = result]

\* lastErrorType of a trip: a success that trips the window is "unknown".
ClassOf(result) == IF result = "ok" THEN "unknown" ELSE result

\* The row INSERTed at first contact.
FirstRow(policy, result, app) ==
  LET new == [Counted(NoRow, NoRow, policy, result = "ok") EXCEPT
                !.state = "CLOSED", !.app = app]
  IN  IF result # "ok" /\ ShouldTrip(policy, 1, 1, 0)
      THEN Opened(new, policy, 0, result)
      ELSE new

\* Mutant: closing keeps the level.
AfterProbeKeepingLevel(old, seen, policy, result) ==
  LET new == Counted(old, seen, policy, result = "ok") IN
  IF result = "ok"
  THEN [new EXCEPT !.state = "CLOSED", !.cooldown = "none", !.passed = 0, !.last = "none"]
  ELSE Opened(new, policy, seen.level + 1, result)

\* A probe came back: old is the row as it is now, seen what was read.
AfterProbe(old, seen, policy, result) ==
  LET ok == result = "ok"
      new == Counted(old, seen, policy, ok)
      passed == seen.passed + (IF ok THEN 1 ELSE 0)
  IN  IF ~ok THEN Opened(new, policy,
                         IF IsMaxLevel(policy, seen.level) THEN seen.level ELSE seen.level + 1,
                         result)
      ELSE IF passed >= policy.probesToClose
      THEN [new EXCEPT !.state = "CLOSED", !.cooldown = "none", !.level = 0,
                       !.attempts = 0, !.passed = 0, !.last = "none"]
      ELSE [new EXCEPT !.attempts = seen.attempts + 1, !.passed = passed]

\* Mutants: the last result stored raw, a trip of a row that is OPEN already,
\* the state written back as it was read.
AfterOutcomeRaw(old, seen, policy, result) ==
  [Counted(old, seen, policy, result = "ok") EXCEPT !.last = result]

AfterOutcomeReopening(old, seen, policy, result) ==
  LET new == Counted(old, seen, policy, result = "ok") IN
  IF ShouldTrip(policy, new.streak, new.failures, new.successes)
  THEN Opened(new, policy, 0, ClassOf(result))
  ELSE new

AfterOutcomeWritingBack(old, seen, policy, result) ==
  [Counted(old, seen, policy, result = "ok") EXCEPT !.state = seen.state]

\* OPEN: counters only.  CLOSED: counters, and maybe a trip.
AfterOutcome(old, seen, policy, result) ==
  LET new == Counted(old, seen, policy, result = "ok") IN
  IF seen.state = "CLOSED" /\ ShouldTrip(policy, new.streak, new.failures, new.successes)
  THEN Opened(new, policy, 0, ClassOf(result))
  ELSE [new EXCEPT !.last = IF result = "ok" THEN seen.last ELSE result]

RecordRead(t, d, result, app) ==
  /\ task[t] = Idle
  /\ outcomes < MaxOutcomes
  /\ task' = [task EXCEPT ![t] = [pc |-> "record", dest |-> d, seen |-> row[d],
                                  result |-> result, app |-> app]]
  /\ outcomes' = outcomes + 1
  /\ UNCHANGED row

\* ON DUPLICATE KEY UPDATE leaves a row that has appeared meanwhile alone.
RecordWrite(t) ==
  LET d == task[t].dest
      seen == task[t].seen
      result == task[t].result
      policy == PolicyOf(result)
  IN
  /\ task[t].pc = "record"
  /\ row' = [row EXCEPT ![d] =
       IF seen.state = "none"
       THEN IF @.state = "none" THEN FirstRow(policy, result, task[t].app) ELSE @
       ELSE IF seen.state = "HALF_OPEN" THEN AfterProbe(@, seen, policy, result)
       ELSE AfterOutcome(@, seen, policy, result)]
  /\ task' = [task EXCEPT ![t] = Idle]
  /\ UNCHANGED outcomes

-----------------------------------------------------------------------------
(* evaluateClaim *)

SiblingOpen(d, app) ==
  /\ app # NoApp
  /\ \E e \in Destinations \ {d} :
       row[e].app = app /\ row[e].state = "OPEN" /\ row[e].cooldown # "expired"

NeedsManualClose(seen) ==
  /\ seen.last = "auth"
  /\ IsMaxLevel(Policy["auth"], seen.level)
  /\ Policy["auth"].requireManualCloseAtMax

\* The row read is OPEN and evaluateClaim is about to make it HALF_OPEN.
Promotes(seen) ==
  seen.state = "OPEN" /\ seen.cooldown = "expired" /\ ~NeedsManualClose(seen)

Decision(d, seen) ==
  CASE seen.state = "none" -> "allow"
    [] seen.state = "CLOSED" -> IF SiblingOpen(d, seen.app) THEN "block" ELSE "allow"
    [] seen.state = "HALF_OPEN" ->
         IF seen.attempts >= PolicyOf(seen.last).probeBudget THEN "block" ELSE "probe"
    [] seen.state = "OPEN" -> IF Promotes(seen) THEN "probe" ELSE "block"

\* Mutant: the promotion uses up a probe.
PromotedAndCounted(old) == [old EXCEPT !.state = "HALF_OPEN", !.attempts = 1, !.passed = 0]

Promoted(old) == [old EXCEPT !.state = "HALF_OPEN", !.attempts = 0, !.passed = 0]

\* retryOrderPreview, previewLeadCBState and previewBulkRetryCBState call
\* evaluateClaim as well.
EvaluateRead(t, d) ==
  /\ task[t] = Idle
  /\ task' = [task EXCEPT ![t] = [pc |-> "evaluate", dest |-> d, seen |-> row[d],
                                  result |-> "ok", app |-> NoApp]]
  /\ UNCHANGED <<row, outcomes>>

EvaluateDecide(t) ==
  /\ task[t].pc = "evaluate"
  /\ row' = IF Promotes(task[t].seen) THEN [row EXCEPT ![task[t].dest] = Promoted(@)] ELSE row
  /\ task' = [task EXCEPT ![t] = Idle]
  /\ UNCHANGED outcomes

-----------------------------------------------------------------------------
(* autoPromoteExpiredCooldowns, and time *)

Expired(d) == row[d].state = "OPEN" /\ row[d].cooldown = "expired"

AutoPromote ==
  /\ \E d \in Destinations : Expired(d)
  /\ row' = [d \in Destinations |-> IF Expired(d) THEN Promoted(row[d]) ELSE row[d]]
  /\ UNCHANGED <<task, outcomes>>

CooldownEnds(d) ==
  /\ row[d].cooldown = "active"
  /\ row' = [row EXCEPT ![d].cooldown = "expired"]
  /\ UNCHANGED <<task, outcomes>>

\* Windows last minutes and a call milliseconds: no window ages under a call.
WindowAges(d) ==
  /\ \A t \in Tasks : task[t].pc # "idle" => task[t].dest # d
  /\ row[d].state # "none"
  /\ row[d].age < 2
  /\ row' = [row EXCEPT ![d].age = @ + 1]
  /\ UNCHANGED <<task, outcomes>>

-----------------------------------------------------------------------------
Read(t, d) ==
  \/ \E r \in {"ok"} \cup Errors, a \in {App[d], NoApp} : RecordRead(t, d, r, a)
  \/ EvaluateRead(t, d)

Next ==
  \/ \E t \in Tasks, d \in Destinations : Read(t, d)
  \/ \E t \in Tasks : RecordWrite(t) \/ EvaluateDecide(t)
  \/ AutoPromote
  \/ \E d \in Destinations : CooldownEnds(d) \/ WindowAges(d)

Spec == Init /\ [][Next]_vars

\* A started call finishes, time passes, and the scheduler ticks.
FairSpec ==
  /\ Spec
  /\ \A t \in Tasks : WF_vars(RecordWrite(t) \/ EvaluateDecide(t))
  /\ WF_vars(AutoPromote)
  /\ \A d \in Destinations : WF_vars(CooldownEnds(d))

-----------------------------------------------------------------------------
(* Properties *)

\* An OPEN breaker always carries a cooldown, whichever stale writes crossed:
\* without one neither evaluateClaim nor the scheduler would ever promote it,
\* and its destination would be blocked for ever.
OpenHasCooldown ==
  \A d \in Destinations : row[d].state = "OPEN" => row[d].cooldown # "none"

\* A CLOSED breaker carries nothing over from the last outage, so that the
\* next trip starts at the bottom of the ladder, although calls that saw
\* the row in another state may still write to it.
CleanWhenClosed ==
  \A d \in Destinations : row[d].state = "CLOSED" =>
    row[d].level = 0 /\ row[d].cooldown = "none"

\* Outcomes recorded one after the other: a closed breaker never sits on a
\* streak of failures that is long enough for every class of error.  Holds
\* without validation errors, which are counted and never trip.
TripsInTime ==
  \A d \in Destinations : row[d].state = "CLOSED" =>
    \E c \in Errors : row[d].streak < Policy[c].consecutiveTrip

\* Each row moves as the diagram of circuitBreaker.ts says.
Diagram(d) == INSTANCE BreakerDiagram WITH
  state <- IF row[d].state = "none" THEN "CLOSED" ELSE row[d].state,
  cooling <- row[d].cooldown = "active",
  level <- row[d].level

FollowsDiagram ==
  /\ \A d \in Destinations : Diagram(d)!Init
  /\ [][\A d \in Destinations : [Diagram(d)!Next]_(Diagram(d)!vars)]_vars

\* The last rung of auth: evaluateClaim leaves it to an admin.
LockedForHuman(d) == row[d].state = "OPEN" /\ NeedsManualClose(row[d])

\* No breaker blocks retries for ever: it closes or comes to a probe, again
\* and again, or it stands at the rung that waits for an admin.  (Errors
\* without validation.)
NeverShutForEver ==
  \A d \in Destinations : []<>(Decision(d, row[d]) # "block" \/ LockedForHuman(d))

=============================================================================
