------------------------ MODULE CircuitBreakerProofs ------------------------
(***************************************************************************)
(* TLAPS proofs about CircuitBreaker, for every policy table, any number of *)
(* destinations and of calls in flight.                                     *)
(*                                                                          *)
(* The argument is about one write at a time.  A stale call never writes    *)
(* back the state it has read: each helper that builds the new row either   *)
(* keeps state, cooldown and level of the row as it is now, or sets all     *)
(* three together.  So a sound row stays sound under any interleaving.      *)
(***************************************************************************)
EXTENDS CircuitBreaker, TLAPS

\* What the two invariants say of one row, and the same of a row not yet INSERTed.
Sound(r) ==
  /\ r.state = "OPEN" => r.cooldown # "none"
  /\ r.state \in {"none", "CLOSED"} => r.level = 0 /\ r.cooldown = "none"

\* The three columns that a write keeps or replaces as one.
SamePhase(r, s) == r.state = s.state /\ r.cooldown = s.cooldown /\ r.level = s.level

IInv == TypeOK /\ \A d \in Destinations : Sound(row[d])

-----------------------------------------------------------------------------
(* The helpers *)

LEMMA PolicyTyped ==
  ASSUME NEW c PROVE PolicyOf(c) \in Policies
BY BreakerAssumption DEF PolicyOf, Class

\* A window never counts below zero and its age stays in range.
LEMMA WindowTyped ==
  ASSUME NEW seen \in Row, NEW policy \in Policies, NEW ok \in BOOLEAN
  PROVE  /\ Window(seen, policy, ok).age \in 0..2
         /\ Window(seen, policy, ok).failures \in Nat
         /\ Window(seen, policy, ok).successes \in Nat
<1>1. /\ seen.age \in 0..2
      /\ seen.failures \in Nat
      /\ seen.successes \in Nat
  BY DEF Row
<1>2. (IF ok THEN 0 ELSE 1) \in {0, 1} /\ (IF ok THEN 1 ELSE 0) \in {0, 1}
  OBVIOUS
<1>3. CASE seen.state = "none" \/ seen.age >= policy.windowMs
  BY <1>2, <1>3 DEF Window
<1>4. CASE ~(seen.state = "none" \/ seen.age >= policy.windowMs)
  BY <1>1, <1>2, <1>4 DEF Window
<1> QED BY <1>3, <1>4

\* Counting an outcome touches neither state nor cooldown nor level.
LEMMA CountedKeepsPhase ==
  ASSUME NEW old \in Row, NEW seen \in Row, NEW policy \in Policies,
         NEW ok \in BOOLEAN
  PROVE  /\ Counted(old, seen, policy, ok) \in Row
         /\ SamePhase(Counted(old, seen, policy, ok), old)
<1>1. Window(seen, policy, ok).age \in 0..2
  /\ Window(seen, policy, ok).failures \in Nat
  /\ Window(seen, policy, ok).successes \in Nat
  BY WindowTyped
<1>2. (IF ok THEN 0 ELSE seen.streak + 1) \in Nat
  BY DEF Row
<1> QED BY <1>1, <1>2 DEF Counted, Row, SamePhase

\* Opening sets a cooldown, whatever the row was.
LEMMA OpenedIsSound ==
  ASSUME NEW new \in Row, NEW policy \in Policies, NEW level \in Nat,
         NEW result \in Class
  PROVE  Opened(new, policy, level, result) \in Row /\ Sound(Opened(new, policy, level, result))
<1>1. CooldownFrom(policy, level) \in {"active", "expired"}
  BY DEF CooldownFrom
<1> QED BY <1>1 DEF Opened, Row, Sound, State, Cooldown

LEMMA NoRowTyped == NoRow \in Row /\ Sound(NoRow)
BY DEF NoRow, Row, Sound, State, Cooldown

LEMMA FirstRowIsSound ==
  ASSUME NEW policy \in Policies, NEW result \in Result, NEW app \in Apps \cup {NoApp}
  PROVE  FirstRow(policy, result, app) \in Row /\ Sound(FirstRow(policy, result, app))
<1> DEFINE base == Counted(NoRow, NoRow, policy, result = "ok")
           new == [base EXCEPT !.state = "CLOSED", !.app = app]
<1>1. base \in Row /\ SamePhase(base, NoRow)
  BY CountedKeepsPhase, NoRowTyped
<1>2. new \in Row
  BY <1>1 DEF Row, State
<1>3. Sound(new)
  BY <1>1 DEF SamePhase, NoRow, Sound, Row
<1>4. ASSUME result # "ok"
      PROVE  Opened(new, policy, 0, result) \in Row /\ Sound(Opened(new, policy, 0, result))
  <2>1. result \in Class
    BY <1>4 DEF Result
  <2> QED BY <1>2, <2>1, OpenedIsSound
<1> QED BY <1>2, <1>3, <1>4 DEF FirstRow

LEMMA AfterProbeIsSound ==
  ASSUME NEW old \in Row, NEW seen \in Row, NEW policy \in Policies,
         NEW result \in Result, Sound(old)
  PROVE  /\ AfterProbe(old, seen, policy, result) \in Row
         /\ Sound(AfterProbe(old, seen, policy, result))
<1> DEFINE new == Counted(old, seen, policy, result = "ok")
           passed == seen.passed + (IF result = "ok" THEN 1 ELSE 0)
           level == IF IsMaxLevel(policy, seen.level) THEN seen.level ELSE seen.level + 1
<1>1. new \in Row /\ SamePhase(new, old)
  BY CountedKeepsPhase
<1>2. passed \in Nat /\ level \in Nat /\ seen.attempts + 1 \in Nat
  BY DEF Row
<1>3. CASE result # "ok"
  <2>1. result \in Class
    BY <1>3 DEF Result
  <2>2. AfterProbe(old, seen, policy, result) = Opened(new, policy, level, result)
    BY <1>3 DEF AfterProbe
  <2> QED BY <1>1, <1>2, <2>1, <2>2, OpenedIsSound
<1>4. CASE result = "ok" /\ passed >= policy.probesToClose
  <2> DEFINE closed == [new EXCEPT !.state = "CLOSED", !.cooldown = "none", !.level = 0,
                                   !.attempts = 0, !.passed = 0, !.last = "none"]
  <2>1. AfterProbe(old, seen, policy, result) = closed
    BY <1>4 DEF AfterProbe
  <2>2. closed \in Row /\ Sound(closed)
    <3>1. new \in Row
      BY <1>1
    <3> HIDE DEF new
    <3> QED BY <3>1 DEF Row, Sound, State, Cooldown
  <2> QED BY <2>1, <2>2
<1>5. CASE result = "ok" /\ ~(passed >= policy.probesToClose)
  <2> DEFINE more == [new EXCEPT !.attempts = seen.attempts + 1, !.passed = passed]
  <2>1. AfterProbe(old, seen, policy, result) = more
    BY <1>5 DEF AfterProbe
  <2>2. more \in Row /\ SamePhase(more, old)
    BY <1>1, <1>2 DEF Row, SamePhase
  <2> QED BY <2>1, <2>2 DEF Sound, SamePhase
<1> QED BY <1>3, <1>4, <1>5

LEMMA AfterOutcomeIsSound ==
  ASSUME NEW old \in Row, NEW seen \in Row, NEW policy \in Policies,
         NEW result \in Result, Sound(old)
  PROVE  /\ AfterOutcome(old, seen, policy, result) \in Row
         /\ Sound(AfterOutcome(old, seen, policy, result))
<1> DEFINE new == Counted(old, seen, policy, result = "ok")
           kept == [new EXCEPT !.last = IF result = "ok" THEN seen.last ELSE result]
<1>1. new \in Row /\ SamePhase(new, old)
  BY CountedKeepsPhase
<1>2. ClassOf(result) \in Class
  BY DEF ClassOf, Result, Class
<1>3. Opened(new, policy, 0, ClassOf(result)) \in Row
      /\ Sound(Opened(new, policy, 0, ClassOf(result)))
  BY <1>1, <1>2, OpenedIsSound
<1>4. kept \in Row /\ SamePhase(kept, old)
  BY <1>1 DEF Row, SamePhase, Result
<1>5. Sound(kept)
  BY <1>4 DEF Sound, SamePhase
<1>6. \/ AfterOutcome(old, seen, policy, result) = Opened(new, policy, 0, ClassOf(result))
      \/ AfterOutcome(old, seen, policy, result) = kept
  BY DEF AfterOutcome
<1> QED BY <1>3, <1>4, <1>5, <1>6

LEMMA PromotedIsSound ==
  ASSUME NEW old \in Row
  PROVE  Promoted(old) \in Row /\ Sound(Promoted(old))
BY DEF Promoted, Row, Sound, State

-----------------------------------------------------------------------------
(* The actions *)

LEMMA InitSound == Init => IInv
<1> SUFFICES ASSUME Init PROVE IInv
  OBVIOUS
<1>1. row \in [Destinations -> Row] /\ \A d \in Destinations : Sound(row[d])
  BY NoRowTyped DEF Init
<1>2. /\ DOMAIN task = Tasks
      /\ \A t \in Tasks : task[t] = Idle
      /\ outcomes \in 0..MaxOutcomes
  BY BreakerAssumption DEF Init
<1> QED BY <1>1, <1>2 DEF IInv, TypeOK

\* A call in flight has read a row.
LEMMA SeenTyped ==
  ASSUME TypeOK, NEW t \in Tasks, task[t].pc # "idle"
  PROVE  /\ task[t] \in Call
         /\ task[t].dest \in Destinations
         /\ task[t].seen \in Row
         /\ task[t].result \in Result
         /\ task[t].app \in Apps \cup {NoApp}
BY DEF TypeOK, Idle, Call

LEMMA RecordReadStep ==
  ASSUME IInv, NEW t \in Tasks, NEW d \in Destinations,
         NEW r \in {"ok"} \cup Errors, NEW a \in {App[d], NoApp},
         RecordRead(t, d, r, a)
  PROVE  IInv'
<1> DEFINE call == [pc |-> "record", dest |-> d, seen |-> row[d], result |-> r, app |-> a]
<1>1. call \in Call
  BY BreakerAssumption DEF Call, Pc, Result, IInv, TypeOK
<1>2. task' = [task EXCEPT ![t] = call] /\ UNCHANGED row
  BY DEF RecordRead
<1>3. outcomes' \in 0..MaxOutcomes
  BY BreakerAssumption DEF RecordRead, IInv, TypeOK
<1> QED BY <1>1, <1>2, <1>3 DEF IInv, TypeOK, Sound

LEMMA RecordWriteStep ==
  ASSUME IInv, NEW t \in Tasks, RecordWrite(t)
  PROVE  IInv'
<1> DEFINE d == task[t].dest
           seen == task[t].seen
           result == task[t].result
           policy == PolicyOf(result)
           new == IF seen.state = "none"
                  THEN IF row[d].state = "none"
                       THEN FirstRow(policy, result, task[t].app) ELSE row[d]
                  ELSE IF seen.state = "HALF_OPEN" THEN AfterProbe(row[d], seen, policy, result)
                  ELSE AfterOutcome(row[d], seen, policy, result)
<1>1. d \in Destinations /\ seen \in Row /\ result \in Result
      /\ task[t].app \in Apps \cup {NoApp}
  BY SeenTyped DEF RecordWrite, IInv
<1>2. policy \in Policies
  BY PolicyTyped
<1>3. row[d] \in Row /\ Sound(row[d])
  BY <1>1 DEF IInv, TypeOK
<1> HIDE DEF d, seen, result, policy
<1>4. new \in Row /\ Sound(new)
  BY <1>1, <1>2, <1>3, FirstRowIsSound, AfterProbeIsSound, AfterOutcomeIsSound
<1>5. row' = [row EXCEPT ![d] = new]
  BY DEF RecordWrite, d, seen, result, policy
<1>6. row' \in [Destinations -> Row] /\ \A e \in Destinations : Sound(row'[e])
  <2> HIDE DEF new
  <2> QED BY <1>1, <1>4, <1>5 DEF IInv, TypeOK
<1>7. task' = [task EXCEPT ![t] = Idle] /\ UNCHANGED outcomes
  BY DEF RecordWrite
<1> QED BY <1>6, <1>7 DEF IInv, TypeOK

LEMMA EvaluateReadStep ==
  ASSUME IInv, NEW t \in Tasks, NEW d \in Destinations, EvaluateRead(t, d)
  PROVE  IInv'
<1> DEFINE call == [pc |-> "evaluate", dest |-> d, seen |-> row[d], result |-> "ok", app |-> NoApp]
<1>1. call \in Call
  BY DEF Call, Pc, Result, IInv, TypeOK
<1>2. task' = [task EXCEPT ![t] = call] /\ UNCHANGED <<row, outcomes>>
  BY DEF EvaluateRead
<1> QED BY <1>1, <1>2 DEF IInv, TypeOK, Sound

LEMMA EvaluateDecideStep ==
  ASSUME IInv, NEW t \in Tasks, EvaluateDecide(t)
  PROVE  IInv'
<1> DEFINE d == task[t].dest
<1>1. d \in Destinations
  BY SeenTyped DEF EvaluateDecide, IInv
<1>2. Promoted(row[d]) \in Row /\ Sound(Promoted(row[d]))
  BY <1>1, PromotedIsSound DEF IInv, TypeOK
<1>3. row' = row \/ row' = [row EXCEPT ![d] = Promoted(row[d])]
  BY DEF EvaluateDecide
<1>4. row' \in [Destinations -> Row] /\ \A e \in Destinations : Sound(row'[e])
  BY <1>1, <1>2, <1>3 DEF IInv, TypeOK
<1>5. task' = [task EXCEPT ![t] = Idle] /\ UNCHANGED outcomes
  BY DEF EvaluateDecide
<1> QED BY <1>4, <1>5 DEF IInv, TypeOK

LEMMA AutoPromoteStep ==
  ASSUME IInv, AutoPromote
  PROVE  IInv'
<1>1. row' = [d \in Destinations |-> IF Expired(d) THEN Promoted(row[d]) ELSE row[d]]
      /\ UNCHANGED <<task, outcomes>>
  BY DEF AutoPromote
<1>2. \A d \in Destinations : Promoted(row[d]) \in Row /\ Sound(Promoted(row[d]))
  BY PromotedIsSound DEF IInv, TypeOK
<1>3. \A d \in Destinations : row[d] \in Row /\ Sound(row[d])
  BY DEF IInv, TypeOK
<1>4. \A d \in Destinations : row'[d] \in Row /\ Sound(row'[d])
  BY <1>1, <1>2, <1>3
<1>5. row' \in [Destinations -> Row]
  BY <1>1, <1>4
<1> QED BY <1>1, <1>4, <1>5 DEF IInv, TypeOK

LEMMA TimeStep ==
  ASSUME IInv, NEW d \in Destinations, CooldownEnds(d) \/ WindowAges(d)
  PROVE  IInv'
<1> DEFINE new == row'[d]
<1>1. row[d] \in Row /\ Sound(row[d]) /\ row \in [Destinations -> Row]
  BY DEF IInv, TypeOK
<1>2. CASE CooldownEnds(d)
  <2> DEFINE cool == [row[d] EXCEPT !.cooldown = "expired"]
  <2>1. cool \in Row /\ Sound(cool)
    BY <1>1, <1>2 DEF CooldownEnds, Row, Sound, Cooldown
  <2>2. row' = [row EXCEPT ![d] = cool] /\ UNCHANGED <<task, outcomes>>
    BY <1>1, <1>2 DEF CooldownEnds
  <2> HIDE DEF cool
  <2> QED BY <1>1, <2>1, <2>2 DEF IInv, TypeOK
<1>3. CASE WindowAges(d)
  <2> DEFINE aged == [row[d] EXCEPT !.age = @ + 1]
  <2>1. aged \in Row /\ Sound(aged)
    BY <1>1, <1>3 DEF WindowAges, Row, Sound
  <2>2. row' = [row EXCEPT ![d] = aged] /\ UNCHANGED <<task, outcomes>>
    BY <1>1, <1>3 DEF WindowAges
  <2> HIDE DEF aged
  <2> QED BY <1>1, <2>1, <2>2 DEF IInv, TypeOK
<1> QED BY <1>2, <1>3

LEMMA StepSound == IInv /\ [Next]_vars => IInv'
<1> SUFFICES ASSUME IInv, [Next]_vars PROVE IInv'
  OBVIOUS
<1>1. ASSUME NEW t \in Tasks, NEW d \in Destinations, Read(t, d) PROVE IInv'
  BY <1>1, RecordReadStep, EvaluateReadStep DEF Read
<1>2. ASSUME NEW t \in Tasks, RecordWrite(t) \/ EvaluateDecide(t) PROVE IInv'
  BY <1>2, RecordWriteStep, EvaluateDecideStep
<1>3. CASE AutoPromote
  BY <1>3, AutoPromoteStep
<1>4. ASSUME NEW d \in Destinations, CooldownEnds(d) \/ WindowAges(d) PROVE IInv'
  BY <1>4, TimeStep
<1>5. CASE UNCHANGED vars
  BY <1>5 DEF vars, IInv, TypeOK, Sound
<1> QED BY <1>1, <1>2, <1>3, <1>4, <1>5 DEF Next

LEMMA AlwaysSound == Spec => []IInv
BY InitSound, StepSound, PTL DEF Spec

-----------------------------------------------------------------------------
\* Every variable keeps its type: in particular a trip never stores a result
\* that is not an error class in lastErrorType, whose policy is looked up later.
THEOREM BreakerTypeCorrect == Spec => []TypeOK
<1>1. IInv => TypeOK
  BY DEF IInv
<1> QED BY <1>1, AlwaysSound, PTL

\* Whatever outcomes, previews and ticks cross, an OPEN breaker has a cooldown
\* to wait for, so it can be promoted.
THEOREM OpenAlwaysCools == Spec => []OpenHasCooldown
<1>1. IInv => OpenHasCooldown
  BY DEF IInv, Sound, OpenHasCooldown
<1> QED BY <1>1, AlwaysSound, PTL

\* Whatever crosses, a CLOSED breaker has level 0 and no cooldown, so the next
\* outage starts at the bottom of the ladder.
THEOREM ClosedIsClean == Spec => []CleanWhenClosed
<1>1. IInv => CleanWhenClosed
  BY DEF IInv, Sound, CleanWhenClosed
<1> QED BY <1>1, AlwaysSound, PTL

-----------------------------------------------------------------------------
(* One call at a time for a destination *)

\* No two calls for the same destination overlap.
Alone ==
  \A t, u \in Tasks :
    task[t].pc # "idle" /\ task[u].pc # "idle" /\ task[t].dest = task[u].dest => t = u

\* Each rung of a ladder that can be reached is a wait.
LaddersWait ==
  \A c \in Errors \cup {"unknown"} :
    \A i \in DOMAIN Policy[c].cooldownLadder : Policy[c].cooldownLadder[i] > 0

\* Some error trips on a streak, and not on an empty one.
ErrorsTrip == \E c \in Errors : Policy[c].consecutiveTrip > 0

\* Both hold for the table of circuitPolicy.ts, validation aside: its errors
\* are counted and meant never to trip.
LEMMA RealTableFits ==
  ASSUME Policy = CIRCUIT_POLICY, "validation" \notin Errors
  PROVE  LaddersWait /\ (Errors # {} => ErrorsTrip)
<1>1. Errors \subseteq {"network", "auth", "rate_limit", "unknown"}
  BY BreakerAssumption DEF Class
<1>2. ASSUME NEW c \in {"network", "auth", "rate_limit", "unknown"}
      PROVE  /\ \A i \in DOMAIN Policy[c].cooldownLadder : Policy[c].cooldownLadder[i] > 0
             /\ Policy[c].consecutiveTrip > 0
  <2>1. CASE c = "network"
    BY <2>1 DEF CIRCUIT_POLICY, PolicyRow, Class
  <2>2. CASE c = "auth"
    BY <2>2 DEF CIRCUIT_POLICY, PolicyRow, Class
  <2>3. CASE c = "rate_limit"
    BY <2>3 DEF CIRCUIT_POLICY, PolicyRow, Class
  <2>4. CASE c = "unknown"
    BY <2>4 DEF CIRCUIT_POLICY, PolicyRow, Class
  <2> QED BY <1>2, <2>1, <2>2, <2>3, <2>4
<1> QED BY <1>1, <1>2 DEF LaddersWait, ErrorsTrip

\* What a call has read still says how the row stands, but for a cooldown that
\* has ended since and the promotion that may have followed.
Agrees(s, r) ==
  /\ s.level = r.level
  /\ s.streak = r.streak
  /\ s.state = r.state \/ (s.state = "OPEN" /\ r.state = "HALF_OPEN")
  /\ s.cooldown = "expired" => r.cooldown = "expired"

Fits(t) ==
  task[t].pc # "idle" =>
    /\ Agrees(task[t].seen, row[task[t].dest])
    /\ task[t].result \in {"ok"} \cup Errors

SerialInv == \A t \in Tasks : Fits(t)

\* One row of TripsInTime.
Untripped(r) ==
  r.state = "CLOSED" => \E c \in Errors : r.streak < Policy[c].consecutiveTrip

Shown(r) == IF r.state = "none" THEN "CLOSED" ELSE r.state

\* The diagram on two values of a row.
Move(r, s) ==
  \/ Shown(s) = Shown(r) /\ s.level = r.level
     /\ (s.cooldown = "active" => r.cooldown = "active")
  \/ Shown(r) = "CLOSED" /\ s.state = "OPEN" /\ s.cooldown = "active" /\ s.level = 0
  \/ r.state = "OPEN" /\ s.state = "HALF_OPEN" /\ s.level = r.level
     /\ r.cooldown # "active" /\ s.cooldown # "active"
  \/ r.state = "HALF_OPEN" /\ s.state = "CLOSED" /\ s.cooldown = "none" /\ s.level = 0
  \/ r.state = "HALF_OPEN" /\ s.state = "OPEN" /\ s.cooldown = "active"
     /\ s.level \in {r.level, r.level + 1}

LEMMA MoveIsDiagram ==
  ASSUME NEW d \in Destinations, Move(row[d], row'[d])
  PROVE  [Diagram(d)!Next]_(Diagram(d)!vars)
BY DEF Move, Shown, Diagram!vars, Diagram!Next, Diagram!Trip, Diagram!Cool, Diagram!Probe,
       Diagram!Close, Diagram!Reopen

LEMMA Waiting ==
  ASSUME LaddersWait, NEW result \in {"ok"} \cup Errors, NEW level \in Nat
  PROVE  CooldownFrom(PolicyOf(result), level) = "active"
<1>1. PICK c \in Errors \cup {"unknown"} : PolicyOf(result) = Policy[c] /\ c \in Class
  BY BreakerAssumption DEF PolicyOf, Class
<1> DEFINE ladder == Policy[c].cooldownLadder
           top == Len(ladder) - 1
           i == 1 + (IF level > top THEN top ELSE level)
<1>2. ladder \in Seq(Nat) /\ ladder # << >>
  BY <1>1, BreakerAssumption DEF Policies
<1>3. i \in DOMAIN ladder
  <2> HIDE DEF ladder
  <2> QED BY <1>2
<1>4. ladder[i] > 0
  BY <1>1, <1>3 DEF LaddersWait
<1> QED BY <1>1, <1>4 DEF CooldownFrom, CooldownAt

LEMMA OpenedMoves ==
  ASSUME NEW new \in Row, LaddersWait, NEW level \in Nat,
         NEW result \in {"ok"} \cup Errors, NEW class
  PROVE  LET s == Opened(new, PolicyOf(result), level, class)
         IN  s.state = "OPEN" /\ s.cooldown = "active" /\ s.level = level
BY Waiting DEF Opened, Row

\* The first outcome makes a closed row, or trips it at once.
LEMMA FirstRowMoves ==
  ASSUME LaddersWait, NEW old \in Row, Sound(old), old.state = "none",
         NEW result \in {"ok"} \cup Errors, NEW app \in Apps \cup {NoApp}
  PROVE  Move(old, FirstRow(PolicyOf(result), result, app))
<1> DEFINE policy == PolicyOf(result)
           base == Counted(NoRow, NoRow, policy, result = "ok")
           new == [base EXCEPT !.state = "CLOSED", !.app = app]
<1>1. base \in Row /\ SamePhase(base, NoRow)
  BY CountedKeepsPhase, NoRowTyped, PolicyTyped
<1> HIDE DEF base
<1>2. new \in Row /\ new.state = "CLOSED" /\ new.level = 0 /\ new.cooldown = "none"
  BY <1>1 DEF Row, State, SamePhase, NoRow
<1>3. Move(old, new)
  BY <1>2 DEF Move, Shown, Sound
<1>4. Move(old, Opened(new, policy, 0, result))
  BY <1>2, OpenedMoves DEF Move, Shown
<1> QED BY <1>3, <1>4 DEF FirstRow, base

LEMMA FirstRowUntripped ==
  ASSUME ErrorsTrip, NEW result \in {"ok"} \cup Errors, NEW app \in Apps \cup {NoApp}
  PROVE  Untripped(FirstRow(PolicyOf(result), result, app))
<1> DEFINE policy == PolicyOf(result)
           base == Counted(NoRow, NoRow, policy, result = "ok")
           new == [base EXCEPT !.state = "CLOSED", !.app = app]
<1>1. base \in Row /\ base.streak = IF result = "ok" THEN 0 ELSE 1
  <2> DEFINE ok == result = "ok"
  <2>1. ok \in BOOLEAN /\ NoRow \in Row /\ NoRow.streak = 0 /\ policy \in Policies
    BY NoRowTyped, PolicyTyped DEF NoRow
  <2>2. base \in Row
    BY <2>1, CountedKeepsPhase
  <2>3. base.streak = IF ok THEN 0 ELSE NoRow.streak + 1
    BY <2>1 DEF Counted, Row
  <2> QED BY <2>1, <2>2, <2>3
<1> HIDE DEF base
<1>2. new \in Row /\ new.streak = base.streak
  BY <1>1 DEF Row, State
<1>3. CASE result = "ok"
  BY <1>1, <1>2, <1>3 DEF FirstRow, base, Untripped, ErrorsTrip
<1>4. CASE result # "ok" /\ ShouldTrip(policy, 1, 1, 0)
  <2>1. FirstRow(policy, result, app) = Opened(new, policy, 0, result)
    BY <1>4 DEF FirstRow, base
  <2> QED BY <1>2, <2>1 DEF Opened, Row, Untripped
<1>5. CASE result # "ok" /\ ~ShouldTrip(policy, 1, 1, 0)
  <2>1. result \in Errors /\ policy = Policy[result] /\ policy.consecutiveTrip \in Nat
    BY <1>5, BreakerAssumption DEF PolicyOf, Policies
  <2>2. 1 < Policy[result].consecutiveTrip
    BY <1>5, <2>1 DEF ShouldTrip
  <2> QED BY <1>1, <1>2, <1>5, <2>1, <2>2 DEF FirstRow, base, Untripped
<1> QED BY <1>3, <1>4, <1>5

\* A probe moves a half-open row on, back to closed, or open again.
LEMMA AfterProbeMoves ==
  ASSUME LaddersWait, NEW old \in Row, NEW seen \in Row, Agrees(seen, old),
         seen.state = "HALF_OPEN", NEW result \in {"ok"} \cup Errors
  PROVE  Move(old, AfterProbe(old, seen, PolicyOf(result), result))
<1> DEFINE policy == PolicyOf(result)
           ok == result = "ok"
           new == Counted(old, seen, policy, ok)
           passed == seen.passed + (IF ok THEN 1 ELSE 0)
           level == IF IsMaxLevel(policy, seen.level) THEN seen.level ELSE seen.level + 1
<1>1. old.state = "HALF_OPEN" /\ old.level = seen.level
  BY DEF Agrees
<1>2. new \in Row /\ SamePhase(new, old)
  BY CountedKeepsPhase, PolicyTyped
<1>3. level \in Nat /\ level \in {old.level, old.level + 1}
  BY <1>1 DEF Row
<1> HIDE DEF new
<1>4. CASE ~ok
  <2>1. AfterProbe(old, seen, policy, result) = Opened(new, policy, level, result)
    BY <1>4 DEF AfterProbe, new
  <2> HIDE DEF level
  <2>2. LET s == Opened(new, policy, level, result)
        IN  s.state = "OPEN" /\ s.cooldown = "active" /\ s.level = level
    BY <1>2, <1>3, OpenedMoves
  <2> QED BY <1>1, <1>3, <2>1, <2>2 DEF Move
<1>5. CASE ok /\ passed >= policy.probesToClose
  <2> DEFINE closed == [new EXCEPT !.state = "CLOSED", !.cooldown = "none", !.level = 0,
                                   !.attempts = 0, !.passed = 0, !.last = "none"]
  <2>1. AfterProbe(old, seen, policy, result) = closed
    BY <1>5 DEF AfterProbe, new
  <2>2. closed.state = "CLOSED" /\ closed.cooldown = "none" /\ closed.level = 0
    BY <1>2 DEF Row
  <2> HIDE DEF closed
  <2> QED BY <1>1, <2>1, <2>2 DEF Move
<1>6. CASE ok /\ ~(passed >= policy.probesToClose)
  <2> DEFINE more == [new EXCEPT !.attempts = seen.attempts + 1, !.passed = passed]
  <2>1. AfterProbe(old, seen, policy, result) = more
    BY <1>6 DEF AfterProbe, new
  <2>2. SamePhase(more, old)
    BY <1>2 DEF Row, SamePhase
  <2> HIDE DEF more
  <2> QED BY <2>1, <2>2 DEF Move, Shown, SamePhase
<1> QED BY <1>4, <1>5, <1>6

\* A probe that closes the breaker leaves no streak.
LEMMA AfterProbeUntripped ==
  ASSUME ErrorsTrip, NEW old \in Row, NEW seen \in Row, Agrees(seen, old),
         seen.state = "HALF_OPEN", NEW result \in {"ok"} \cup Errors
  PROVE  Untripped(AfterProbe(old, seen, PolicyOf(result), result))
<1> DEFINE policy == PolicyOf(result)
           ok == result = "ok"
           new == Counted(old, seen, policy, ok)
           passed == seen.passed + (IF ok THEN 1 ELSE 0)
           probed == AfterProbe(old, seen, policy, result)
<1>1. new \in Row /\ SamePhase(new, old) /\ old.state = "HALF_OPEN"
  BY CountedKeepsPhase, PolicyTyped DEF Agrees
<1>2. new.streak = IF ok THEN 0 ELSE seen.streak + 1
  BY DEF Counted, Row
<1> HIDE DEF new
<1>3. CASE ~ok
  <2>1. probed.state = "OPEN"
    BY <1>1, <1>3 DEF AfterProbe, new, Opened, Row
  <2> HIDE DEF probed
  <2>2. Untripped(probed)
    BY <2>1 DEF Untripped
  <2> QED BY <2>2 DEF probed
<1>4. CASE ok /\ passed >= policy.probesToClose
  <2>1. probed.streak = 0
    BY <1>1, <1>2, <1>4 DEF AfterProbe, new, Row
  <2> HIDE DEF probed
  <2>2. Untripped(probed)
    BY <2>1 DEF Untripped, ErrorsTrip
  <2> QED BY <2>2 DEF probed
<1>5. CASE ok /\ ~(passed >= policy.probesToClose)
  <2>1. probed.state = "HALF_OPEN"
    BY <1>1, <1>5 DEF AfterProbe, new, Row, SamePhase
  <2> HIDE DEF probed
  <2>2. Untripped(probed)
    BY <2>1 DEF Untripped
  <2> QED BY <2>2 DEF probed
<1> QED BY <1>3, <1>4, <1>5

\* Any other outcome leaves the phase of the row alone, or trips a closed one.
LEMMA AfterOutcomeMoves ==
  ASSUME LaddersWait, NEW old \in Row, NEW seen \in Row, Agrees(seen, old),
         NEW result \in {"ok"} \cup Errors
  PROVE  Move(old, AfterOutcome(old, seen, PolicyOf(result), result))
<1> DEFINE policy == PolicyOf(result)
           ok == result = "ok"
           new == Counted(old, seen, policy, ok)
           trips == /\ seen.state = "CLOSED"
                    /\ ShouldTrip(policy, new.streak, new.failures, new.successes)
           kept == [new EXCEPT !.last = IF ok THEN seen.last ELSE result]
<1>1. new \in Row /\ SamePhase(new, old)
  BY CountedKeepsPhase, PolicyTyped
<1>2. CASE trips
  <2>1. AfterOutcome(old, seen, policy, result) = Opened(new, policy, 0, ClassOf(result))
    BY <1>2 DEF AfterOutcome
  <2> HIDE DEF new
  <2>2. LET s == Opened(new, policy, 0, ClassOf(result))
        IN  s.state = "OPEN" /\ s.cooldown = "active" /\ s.level = 0
    BY <1>1, OpenedMoves
  <2>3. Shown(old) = "CLOSED"
    BY <1>2 DEF Agrees, Shown
  <2> QED BY <2>1, <2>2, <2>3 DEF Move
<1>3. CASE ~trips
  <2>1. AfterOutcome(old, seen, policy, result) = kept
    BY <1>3 DEF AfterOutcome
  <2> HIDE DEF new
  <2>2. SamePhase(kept, old)
    BY <1>1 DEF Row, SamePhase
  <2> HIDE DEF kept
  <2> QED BY <2>1, <2>2 DEF Move, Shown, SamePhase
<1> QED BY <1>2, <1>3

\* A row that stays closed has not reached the streak of the error's class.
LEMMA AfterOutcomeUntripped ==
  ASSUME ErrorsTrip, NEW old \in Row, NEW seen \in Row, Agrees(seen, old),
         NEW result \in {"ok"} \cup Errors
  PROVE  Untripped(AfterOutcome(old, seen, PolicyOf(result), result))
<1> DEFINE policy == PolicyOf(result)
           ok == result = "ok"
           new == Counted(old, seen, policy, ok)
           trips == /\ seen.state = "CLOSED"
                    /\ ShouldTrip(policy, new.streak, new.failures, new.successes)
           kept == [new EXCEPT !.last = IF ok THEN seen.last ELSE result]
<1>1. new \in Row /\ SamePhase(new, old)
  BY CountedKeepsPhase, PolicyTyped
<1>2. new.streak = IF ok THEN 0 ELSE seen.streak + 1
  BY DEF Counted, Row
<1>3. CASE trips
  <2>1. AfterOutcome(old, seen, policy, result) = Opened(new, policy, 0, ClassOf(result))
    BY <1>3 DEF AfterOutcome
  <2> HIDE DEF new
  <2>2. Opened(new, policy, 0, ClassOf(result)).state = "OPEN"
    BY <1>1 DEF Opened, Row
  <2> QED BY <2>1, <2>2 DEF Untripped
<1>4. CASE ~trips
  <2>1. AfterOutcome(old, seen, policy, result) = kept
    BY <1>4 DEF AfterOutcome
  <2>2. kept.state = old.state /\ kept.streak = new.streak
    <3> HIDE DEF new
    <3> QED BY <1>1 DEF Row, SamePhase
  <2>3. CASE ok
    <3> HIDE DEF kept, new
    <3> QED BY <1>2, <2>1, <2>2, <2>3 DEF Untripped, ErrorsTrip
  <2>4. CASE ~ok /\ old.state = "CLOSED"
    <3>1. result \in Errors /\ policy = Policy[result] /\ policy.consecutiveTrip \in Nat
      BY <2>4, BreakerAssumption DEF PolicyOf, Policies
    <3>2. seen.state = "CLOSED"
      BY <2>4 DEF Agrees
    <3>3. new.streak < Policy[result].consecutiveTrip
      <4>1. new.streak \in Nat
        BY <1>1 DEF Row
      <4>2. ~(new.streak >= policy.consecutiveTrip)
        <5> HIDE DEF new, policy
        <5> QED BY <1>4, <3>2 DEF ShouldTrip
      <4> HIDE DEF new, policy
      <4> QED BY <4>1, <4>2, <3>1
    <3> HIDE DEF kept, new
    <3> QED BY <2>1, <2>2, <3>1, <3>3 DEF Untripped
  <2>5. CASE old.state # "CLOSED"
    <3> HIDE DEF kept, new
    <3> QED BY <2>1, <2>2, <2>5 DEF Untripped
  <2> QED BY <2>3, <2>4, <2>5
<1> QED BY <1>3, <1>4

\* A write ends the only call for its destination, so every other call still
\* knows its own row.
LEMMA WriteKeepsFits ==
  ASSUME IInv, SerialInv, Alone, NEW t \in Tasks, task[t].pc # "idle", NEW new,
         row' = [row EXCEPT ![task[t].dest] = new], task' = [task EXCEPT ![t] = Idle]
  PROVE  SerialInv'
<1> SUFFICES ASSUME NEW u \in Tasks, task'[u].pc # "idle"
             PROVE  /\ Agrees(task'[u].seen, row'[task'[u].dest])
                    /\ task'[u].result \in {"ok"} \cup Errors
  BY DEF SerialInv, Fits
<1>1. u # t /\ task'[u] = task[u]
  BY DEF IInv, TypeOK, Idle
<1>2. task[u].dest # task[t].dest
  BY <1>1 DEF Alone
<1>3. task[u].dest \in Destinations
  BY <1>1, SeenTyped DEF IInv
<1>4. row'[task[u].dest] = row[task[u].dest]
  BY <1>2, <1>3 DEF IInv, TypeOK
<1> QED BY <1>1, <1>4 DEF SerialInv, Fits

\* What a step gives of the three statements of this part.
Serial ==
  /\ SerialInv'
  /\ LaddersWait => \A d \in Destinations : Move(row[d], row'[d])
  /\ ErrorsTrip /\ TripsInTime => TripsInTime'

LEMMA ReadSerial ==
  ASSUME IInv, SerialInv, NEW t \in Tasks, NEW d \in Destinations, Read(t, d)
  PROVE  Serial
<1>1. PICK call :
        /\ call.dest = d /\ call.seen = row[d] /\ call.result \in {"ok"} \cup Errors
        /\ task' = [task EXCEPT ![t] = call]
        /\ UNCHANGED row
  BY DEF Read, RecordRead, EvaluateRead
<1>2. SerialInv'
  <2> SUFFICES ASSUME NEW u \in Tasks, task'[u].pc # "idle"
               PROVE  /\ Agrees(task'[u].seen, row'[task'[u].dest])
                      /\ task'[u].result \in {"ok"} \cup Errors
    BY DEF SerialInv, Fits
  <2>1. CASE u = t
    BY <1>1, <2>1 DEF Agrees, IInv, TypeOK
  <2>2. CASE u # t
    BY <1>1, <2>2 DEF IInv, TypeOK, SerialInv, Fits
  <2> QED BY <2>1, <2>2
<1>3. \A e \in Destinations : Move(row[e], row'[e])
  BY <1>1 DEF Move
<1>4. TripsInTime => TripsInTime'
  BY <1>1 DEF TripsInTime
<1> QED BY <1>2, <1>3, <1>4 DEF Serial

\* From one row to all of them.
LEMMA OneRow ==
  ASSUME IInv, NEW d \in Destinations, NEW new, row' = [row EXCEPT ![d] = new],
         LaddersWait => Move(row[d], new),
         ErrorsTrip /\ Untripped(row[d]) => Untripped(new)
  PROVE  /\ LaddersWait => \A e \in Destinations : Move(row[e], row'[e])
         /\ ErrorsTrip /\ TripsInTime => TripsInTime'
<1>1. \A e \in Destinations : row'[e] = IF e = d THEN new ELSE row[e]
  BY DEF IInv, TypeOK
<1>2. LaddersWait => \A e \in Destinations : Move(row[e], row'[e])
  <2> SUFFICES ASSUME LaddersWait, NEW e \in Destinations PROVE Move(row[e], row'[e])
    OBVIOUS
  <2>1. Move(row[e], row[e])
    BY DEF Move
  <2> QED BY <1>1, <2>1
<1>3. ErrorsTrip /\ TripsInTime => TripsInTime'
  <2> SUFFICES ASSUME ErrorsTrip, \A e \in Destinations : Untripped(row[e])
               PROVE  \A e \in Destinations : Untripped(row'[e])
    BY DEF TripsInTime, Untripped
  <2> QED BY <1>1
<1> QED BY <1>2, <1>3

LEMMA RecordWriteSerial ==
  ASSUME IInv, SerialInv, Alone, NEW t \in Tasks, RecordWrite(t)
  PROVE  Serial
<1> DEFINE d == task[t].dest
           seen == task[t].seen
           result == task[t].result
           policy == PolicyOf(result)
           app == task[t].app
           new == IF seen.state = "none"
                  THEN IF row[d].state = "none" THEN FirstRow(policy, result, app) ELSE row[d]
                  ELSE IF seen.state = "HALF_OPEN" THEN AfterProbe(row[d], seen, policy, result)
                  ELSE AfterOutcome(row[d], seen, policy, result)
<1>1. task[t].pc # "idle"
  BY DEF RecordWrite
<1>2. d \in Destinations /\ seen \in Row /\ app \in Apps \cup {NoApp}
  BY <1>1, SeenTyped DEF IInv
<1>3. row[d] \in Row /\ Sound(row[d])
  BY <1>2 DEF IInv, TypeOK
<1>4. Agrees(seen, row[d]) /\ result \in {"ok"} \cup Errors
  BY <1>1 DEF SerialInv, Fits
<1>5. row' = [row EXCEPT ![d] = new] /\ task' = [task EXCEPT ![t] = Idle]
  BY DEF RecordWrite
<1> HIDE DEF d, seen, result, app
<1>6. LaddersWait => Move(row[d], new)
  <2>1. Move(row[d], row[d])
    BY DEF Move
  <2> QED BY <1>2, <1>3, <1>4, <2>1, FirstRowMoves, AfterProbeMoves, AfterOutcomeMoves
<1>7. ErrorsTrip /\ Untripped(row[d]) => Untripped(new)
  BY <1>2, <1>3, <1>4, FirstRowUntripped, AfterProbeUntripped, AfterOutcomeUntripped
<1> HIDE DEF new
<1>8. SerialInv'
  BY <1>1, <1>5, WriteKeepsFits DEF d
<1> QED BY <1>2, <1>5, <1>6, <1>7, <1>8, OneRow DEF Serial

LEMMA PromotedMoves ==
  ASSUME NEW old \in Row, old.cooldown = "expired", old.state \in {"OPEN", "HALF_OPEN"}
  PROVE  Move(old, Promoted(old)) /\ Untripped(Promoted(old))
BY DEF Promoted, Move, Shown, Untripped, Row

LEMMA EvaluateDecideSerial ==
  ASSUME IInv, SerialInv, Alone, NEW t \in Tasks, EvaluateDecide(t)
  PROVE  Serial
<1> DEFINE d == task[t].dest
           seen == task[t].seen
           new == IF Promotes(seen) THEN Promoted(row[d]) ELSE row[d]
<1>1. task[t].pc # "idle"
  BY DEF EvaluateDecide
<1>2. d \in Destinations
  BY <1>1, SeenTyped DEF IInv
<1>3. row[d] \in Row
  BY <1>2 DEF IInv, TypeOK
<1>4. Agrees(seen, row[d])
  BY <1>1 DEF SerialInv, Fits
<1>5. row' = [row EXCEPT ![d] = new] /\ task' = [task EXCEPT ![t] = Idle]
  BY <1>2 DEF EvaluateDecide, IInv, TypeOK
<1>6. Promotes(seen) => row[d].cooldown = "expired" /\ row[d].state \in {"OPEN", "HALF_OPEN"}
  BY <1>4 DEF Promotes, Agrees
<1> HIDE DEF d, seen
<1>7. Move(row[d], new)
  <2>1. Move(row[d], row[d])
    BY DEF Move
  <2> QED BY <1>3, <1>6, <2>1, PromotedMoves
<1>8. Untripped(row[d]) => Untripped(new)
  BY <1>3, <1>6, PromotedMoves
<1> HIDE DEF new
<1>9. SerialInv'
  BY <1>1, <1>5, WriteKeepsFits DEF d
<1> QED BY <1>2, <1>5, <1>7, <1>8, <1>9, OneRow DEF Serial

\* A row that moves under a call still agrees with what the call has read.
LEMMA AgreesKeepsFits ==
  ASSUME IInv, SerialInv, UNCHANGED task,
         \A d \in Destinations, s \in Row : Agrees(s, row[d]) => Agrees(s, row'[d])
  PROVE  SerialInv'
<1> SUFFICES ASSUME NEW t \in Tasks, task[t].pc # "idle"
             PROVE  /\ Agrees(task[t].seen, row'[task[t].dest])
                    /\ task[t].result \in {"ok"} \cup Errors
  BY DEF SerialInv, Fits
<1> QED BY SeenTyped DEF SerialInv, Fits, IInv

LEMMA AutoPromoteSerial ==
  ASSUME IInv, SerialInv, AutoPromote
  PROVE  Serial
<1>1. UNCHANGED task
      /\ row' = [d \in Destinations |-> IF Expired(d) THEN Promoted(row[d]) ELSE row[d]]
  BY DEF AutoPromote
<1>2. ASSUME NEW d \in Destinations
      PROVE  /\ Move(row[d], row'[d])
             /\ Untripped(row[d]) => Untripped(row'[d])
             /\ \A s \in Row : Agrees(s, row[d]) => Agrees(s, row'[d])
  <2>1. row[d] \in Row
    BY DEF IInv, TypeOK
  <2>2. CASE Expired(d)
    <3>1. row'[d] = Promoted(row[d])
      BY <1>1, <2>2
    <3>2. row[d].state = "OPEN" /\ row[d].cooldown = "expired"
      BY <2>2 DEF Expired
    <3>3. \A s \in Row : Agrees(s, row[d]) => Agrees(s, Promoted(row[d]))
      BY <2>1, <3>2 DEF Agrees, Promoted, Row
    <3> QED BY <2>1, <3>1, <3>2, <3>3, PromotedMoves
  <2>3. CASE ~Expired(d)
    <3>1. row'[d] = row[d]
      BY <1>1, <2>3
    <3> QED BY <3>1 DEF Move
  <2> QED BY <2>2, <2>3
<1>3. SerialInv'
  BY <1>1, <1>2, AgreesKeepsFits
<1>4. TripsInTime => TripsInTime'
  <2> SUFFICES ASSUME \A d \in Destinations : Untripped(row[d])
               PROVE  \A d \in Destinations : Untripped(row'[d])
    BY DEF TripsInTime, Untripped
  <2> QED BY <1>2
<1> QED BY <1>2, <1>3, <1>4 DEF Serial

LEMMA TimeSerial ==
  ASSUME IInv, SerialInv, NEW d \in Destinations, CooldownEnds(d) \/ WindowAges(d)
  PROVE  Serial
<1>1. row[d] \in Row
  BY DEF IInv, TypeOK
<1>2. PICK new :
        /\ row' = [row EXCEPT ![d] = new]
        /\ UNCHANGED task
        /\ new.state = row[d].state /\ new.level = row[d].level /\ new.streak = row[d].streak
        /\ new.cooldown # row[d].cooldown =>
             row[d].cooldown = "active" /\ new.cooldown = "expired"
  <2>1. CASE CooldownEnds(d)
    <3> WITNESS [row[d] EXCEPT !.cooldown = "expired"]
    <3> QED BY <1>1, <2>1 DEF CooldownEnds, Row
  <2>2. CASE WindowAges(d)
    <3> WITNESS [row[d] EXCEPT !.age = @ + 1]
    <3> QED BY <1>1, <2>2 DEF WindowAges, Row
  <2> QED BY <2>1, <2>2
<1>3. Move(row[d], new) /\ (Untripped(row[d]) => Untripped(new))
  BY <1>2 DEF Move, Shown, Untripped
<1>4. \A s \in Row : Agrees(s, row[d]) => Agrees(s, new)
  BY <1>2 DEF Agrees
<1>5. \A e \in Destinations, s \in Row : Agrees(s, row[e]) => Agrees(s, row'[e])
  BY <1>2, <1>4 DEF IInv, TypeOK
<1>6. SerialInv'
  BY <1>2, <1>5, AgreesKeepsFits
<1> QED BY <1>2, <1>3, <1>6, OneRow DEF Serial

LEMMA StepSerial ==
  ASSUME IInv, SerialInv, Alone, [Next]_vars
  PROVE  Serial
<1>1. ASSUME NEW t \in Tasks, RecordWrite(t) \/ EvaluateDecide(t) PROVE Serial
  BY <1>1, RecordWriteSerial, EvaluateDecideSerial
<1>2. ASSUME NEW t \in Tasks, NEW d \in Destinations, Read(t, d) PROVE Serial
  BY <1>2, ReadSerial
<1>3. ASSUME NEW d \in Destinations, CooldownEnds(d) \/ WindowAges(d) PROVE Serial
  BY <1>3, TimeSerial
<1>4. CASE UNCHANGED vars
  BY <1>4 DEF vars, Serial, SerialInv, Fits, Move, TripsInTime
<1> QED BY <1>1, <1>2, <1>3, <1>4, AutoPromoteSerial DEF Next

LEMMA InitSerial == Init => SerialInv /\ \A d \in Destinations : Diagram(d)!Init
BY DEF Init, SerialInv, Fits, Idle, NoRow, Diagram!Init

\* While no two calls for a destination overlap, what they have read stays good.
LEMMA AlwaysSerial == Spec /\ []Alone => []SerialInv
<1>1. Init => SerialInv
  BY InitSerial
<1>2. IInv /\ SerialInv /\ Alone /\ [Next]_vars => SerialInv'
  BY StepSerial DEF Serial
<1> QED BY <1>1, <1>2, AlwaysSound, PTL DEF Spec

-----------------------------------------------------------------------------
\* Where no two calls for the same destination overlap, every step of every
\* breaker is one the header of circuitBreaker.ts draws: a trip from CLOSED, the
\* end of a cooldown, a probe let through after it, and the probe's verdict, which
\* closes the breaker or reopens it at most one rung up.
THEOREM SerialFollowsDiagram ==
  ASSUME LaddersWait
  PROVE  Spec /\ []Alone => FollowsDiagram
<1>1. Init => \A d \in Destinations : Diagram(d)!Init
  BY InitSerial
<1>2. IInv /\ SerialInv /\ Alone /\ [Next]_vars
      => \A d \in Destinations : [Diagram(d)!Next]_(Diagram(d)!vars)
  BY StepSerial, MoveIsDiagram DEF Serial
<1> QED BY <1>1, <1>2, AlwaysSound, AlwaysSerial, PTL DEF Spec, FollowsDiagram

\* Where no two calls for the same destination overlap, a closed breaker never
\* sits on a streak that every class of error would have tripped at: no failure
\* is counted late, and no closing leaves a streak behind.
THEOREM SerialTripsInTime ==
  ASSUME ErrorsTrip
  PROVE  Spec /\ []Alone => []TripsInTime
<1>1. Init => TripsInTime
  BY DEF Init, NoRow, TripsInTime
<1>2. IInv /\ SerialInv /\ Alone /\ TripsInTime /\ [Next]_vars => TripsInTime'
  BY StepSerial DEF Serial
<1> QED BY <1>1, <1>2, AlwaysSound, AlwaysSerial, PTL DEF Spec

\* The two of them for the table of circuitPolicy.ts and one call at a time:
\* nothing but errors of class validation is left out.
COROLLARY RealTableSerial ==
  ASSUME Policy = CIRCUIT_POLICY, Errors # {}, "validation" \notin Errors,
         \A t, u \in Tasks : t = u
  PROVE  Spec => FollowsDiagram /\ []TripsInTime
<1>1. LaddersWait /\ ErrorsTrip
  BY RealTableFits
<1>2. Alone
  BY DEF Alone
<1>3. Spec /\ []Alone => FollowsDiagram
  BY <1>1, SerialFollowsDiagram
<1>4. Spec /\ []Alone => []TripsInTime
  BY <1>1, SerialTripsInTime
<1> QED BY <1>2, <1>3, <1>4, PTL

=============================================================================
