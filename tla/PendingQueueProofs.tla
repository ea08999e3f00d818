------------------------- MODULE PendingQueueProofs -------------------------
(***************************************************************************)
(* TLAPS proofs about PendingQueue, for any number of leads, rows, workers   *)
(* and concurrent mutations, with restarts and deletions.                   *)
(*                                                                          *)
(* The argument is ownership.  A row a flusher holds is marked delivered     *)
(* and not yet accepted; since a claim needs a row that is not marked, no    *)
(* two flushers hold one row, and nobody but the holder unmarks it.  So a    *)
(* row that was accepted stays marked, and is never claimed again.          *)
(***************************************************************************)
EXTENDS PendingQueue, TLAPS

\* A held row is marked, and not accepted so far.
HeldIsMarked ==
  \A f \in Flusher, r \in Rows :
    Holds(f, r) => pending[r] # Unused /\ pending[r].delivered /\ taken[r] = 0

HeldByOne ==
  \A f \in Flusher, g \in Flusher, r \in Rows : Holds(f, r) /\ Holds(g, r) => f = g

\* An accepted row stays marked.
TakenIsMarked ==
  \A r \in Rows : taken[r] > 0 => pending[r] # Unused /\ pending[r].delivered

\* Orphans are swept only where the destination is gone.
SweepsOrphans == \A f \in Flusher : task[f].pc = "sweep" => ~alive

-----------------------------------------------------------------------------
(* Types *)

LEMMA HourTyped == \A h \in Hour : (h + 1) % Hours \in Hour
BY QueueAssumption DEF Hour

LEMMA ZeroHour == 0 \in Hour
BY QueueAssumption DEF Hour

LEMMA UnusedIsNoEntry == Unused \notin Entry
BY QueueAssumption DEF Unused, Entry

LEMMA IdleTyped == Idle \in Activity /\ NoSchedule \in Schedule
BY QueueAssumption DEF Idle, Activity, NoSchedule, Schedule, NoPlan, Plan, Hour, Pc, Back, TickPc, FlushPc

TaskOK ==
  /\ task \in [Flusher -> Activity]
  /\ \A f \in Flusher : task[f].pc \in {"dispatch", "rollback"} => task[f].row \in Used
  /\ \A f \in Flusher : task[f].batch \subseteq Used

LEMMA UsedKept == ASSUME UNCHANGED pending PROVE Used' = Used
BY DEF Used

\* One flusher does something else, and no row is taken out of the table.
LEMMA TaskStep ==
  ASSUME TaskOK, NEW f \in Flusher, NEW a \in Activity,
         a.pc \in {"dispatch", "rollback"} => a.row \in Used',
         a.batch \subseteq Used',
         Used \subseteq Used',
         task' = [task EXCEPT ![f] = a]
  PROVE  TaskOK'
BY DEF TaskOK, Activity

LEMMA BeginsTyped ==
  ASSUME TaskOK, Used' = Used, NEW f \in Flusher,
         NEW pc \in Pc \ {"dispatch", "rollback"}, NEW seen \in Schedule, NEW at \in Hour,
         Begins(f, pc, seen, at)
  PROVE  TaskOK'
<1> DEFINE a == [pc |-> pc, back |-> "idle", seen |-> seen, at |-> at,
                 batch |-> {}, row |-> NoOne]
<1>1. a \in Activity
  BY DEF Activity, Back
<1> QED BY <1>1, TaskStep DEF Begins

LEMMA GoesOnTyped ==
  ASSUME TaskOK, NEW f \in Flusher, NEW pc \in Pc, NEW batch \in SUBSET Rows,
         NEW row \in Rows \cup {NoOne},
         pc \in {"dispatch", "rollback"} => row \in Used',
         batch \subseteq Used',
         Used \subseteq Used',
         GoesOn(f, pc, batch, row)
  PROVE  TaskOK'
<1> DEFINE a == [pc |-> pc, back |-> task[f].back, seen |-> task[f].seen,
                 at |-> task[f].at, batch |-> batch, row |-> row]
<1>1. a \in Activity
  BY DEF Activity, TaskOK
<1> QED BY <1>1, TaskStep DEF GoesOn

LEMMA FlushTyped ==
  ASSUME TaskOK, UNCHANGED pending, NEW f \in Flusher, NEW back \in Back, Flush(f, back)
  PROVE  TaskOK'
<1> DEFINE a == [pc |-> "load", back |-> back, seen |-> task[f].seen,
                 at |-> task[f].at, batch |-> {}, row |-> NoOne]
<1>1. a \in Activity
  BY DEF Activity, TaskOK, Pc, FlushPc
<1> QED BY <1>1, TaskStep, UsedKept DEF Flush

LEMMA FinishTyped ==
  ASSUME TaskOK, Used' = Used, NEW f \in Flusher, Finish(f)
  PROVE  TaskOK'
BY BeginsTyped, IdleTyped, ZeroHour DEF Finish, Pc

LEMMA GotoTyped ==
  ASSUME TaskOK, UNCHANGED pending, NEW f \in Flusher, NEW pc \in Pc, Goto(f, pc),
         pc \in {"dispatch", "rollback"} => task[f].row \in Used
  PROVE  TaskOK'
<1>1. task[f].batch \in SUBSET Rows /\ task[f].row \in Rows \cup {NoOne}
  BY DEF TaskOK, Activity
<1>2. Used' = Used
  BY UsedKept
<1> QED BY <1>1, <1>2, GoesOnTyped DEF Goto, TaskOK

LEMMA ReturnTyped ==
  ASSUME TaskOK, UNCHANGED pending, NEW f \in Flusher, Return(f)
  PROVE  TaskOK'
<1>1. CASE task[f].back = "idle"
  BY <1>1, FinishTyped, UsedKept DEF Return
<1>2. CASE task[f].back # "idle"
  <2>1. task[f].back \in Pc \ {"dispatch", "rollback"}
    BY DEF TaskOK, Activity, Back, Pc, TickPc
  <2>2. Used' = Used
    BY UsedKept
  <2> QED BY <1>2, <2>1, <2>2, GoesOnTyped DEF Return
<1> QED BY <1>1, <1>2

\* What TypeOK says besides TaskOK.
RestOK ==
  /\ schedule \in Schedule
  /\ alive \in BOOLEAN
  /\ hour \in Hour
  /\ pending \in [Rows -> Entry \cup {Unused}]
  /\ order \in [Leads -> {"none", "FAILED", "SENT"}]
  /\ job \in [Leads -> {"idle", "queue", "deliver"}]
  /\ last \in [Workers -> Memory]
  /\ runs \in [Leads -> Nat]
  /\ edits \in Nat
  /\ crashes \in Nat
  /\ acked \in [Leads -> Nat]
  /\ taken \in [Rows -> Nat]
  /\ dropped \subseteq Rows

LEMMA TypeParts == (TypeOK <=> TaskOK /\ RestOK) /\ (TypeOK' <=> TaskOK' /\ RestOK')
BY DEF TypeOK, TaskOK, RestOK

\* Setting columns of a row that is in use.
LEMMA RowTyped ==
  ASSUME RestOK, NEW r \in Used, NEW e \in Entry,
         pending' = [pending EXCEPT ![r] = e]
  PROVE  /\ pending' \in [Rows -> Entry \cup {Unused}]
         /\ Used \subseteq Used'
BY UnusedIsNoEntry DEF RestOK, Used

LEMMA MarkedTyped ==
  ASSUME NEW e \in Entry, NEW x \in BOOLEAN
  PROVE  /\ [e EXCEPT !.delivered = x] \in Entry
         /\ [e EXCEPT !.delivered = x, !.failed = TRUE] \in Entry
         /\ [e EXCEPT !.stale = TRUE] \in Entry
BY DEF Entry

LEMMA JobTyped ==
  ASSUME TypeOK, NEW l \in Leads, JobStep(l)
  PROVE  TypeOK'
<1> USE TypeParts
<1>1. CASE JobCheck(l)
  BY <1>1 DEF JobCheck, history, TaskOK, RestOK, Used
<1>2. CASE JobQueue(l)
  BY <1>2, UnusedIsNoEntry DEF JobQueue, Entry, history, counters, TaskOK, RestOK, Used
<1>3. CASE JobDeliver(l)
  BY <1>3 DEF JobDeliver, Accept, counters, TaskOK, RestOK, Used
<1>4. CASE OrderRetry(l)
  BY <1>4 DEF OrderRetry, Accept, counters, TaskOK, RestOK, Used
<1> QED BY <1>1, <1>2, <1>3, <1>4 DEF JobStep

LEMMA FlushStepTyped ==
  ASSUME TypeOK, NEW f \in Flusher, FlushStep(f)
  PROVE  TypeOK'
<1> USE TypeParts DEF history, counters
<1>1. Waiting \subseteq Rows /\ Waiting \subseteq Used
  BY DEF Waiting, Used, Unused
<1>2. {"load", "dest", "claim", "dispatch", "rollback"} \subseteq Pc
  BY DEF Pc, FlushPc
<1>3. CASE FlushLoad(f)
  <2>1. TaskOK'
    BY <1>1, <1>2, <1>3, ReturnTyped, GoesOnTyped, UsedKept DEF FlushLoad
  <2> QED BY <1>3, <2>1 DEF FlushLoad, RestOK
<1>4. CASE FlushDest(f)
  <2>1. TaskOK'
    BY <1>2, <1>4, ReturnTyped, GotoTyped DEF FlushDest
  <2> QED BY <1>4, <2>1 DEF FlushDest, RestOK
<1>5. CASE FlushDone(f)
  <2>1. TaskOK'
    BY <1>5, ReturnTyped DEF FlushDone
  <2> QED BY <1>5, <2>1 DEF FlushDone, RestOK
<1>6. ASSUME NEW r \in Rows, FlushClaim(f, r) PROVE TypeOK'
  <2>1. /\ r \in Used
        /\ task[f].batch \in SUBSET Rows
        /\ task[f].row \in Rows \cup {NoOne}
        /\ task[f].batch \subseteq Used
    BY <1>6 DEF FlushClaim, TaskOK, Activity
  <2>2. pending[r] \in Entry
    BY <2>1 DEF RestOK, Used
  <2>3. CASE pending[r].delivered
    <3>1. Used' = Used
      BY <1>6, <2>3, UsedKept DEF FlushClaim
    <3>2. TaskOK'
      BY <1>2, <1>6, <2>1, <2>3, <3>1, GoesOnTyped DEF FlushClaim
    <3> QED BY <1>6, <2>3, <3>2 DEF FlushClaim, RestOK
  <2>4. CASE ~pending[r].delivered
    <3>1. pending' = [pending EXCEPT ![r] = [pending[r] EXCEPT !.delivered = TRUE]]
      BY <1>6, <2>4 DEF FlushClaim
    <3>2. /\ pending' \in [Rows -> Entry \cup {Unused}]
          /\ Used \subseteq Used'
      BY <2>1, <2>2, <3>1, MarkedTyped, RowTyped
    <3>3. TaskOK'
      BY <1>2, <1>6, <2>1, <2>4, <3>2, GoesOnTyped DEF FlushClaim
    <3> QED BY <1>6, <3>2, <3>3 DEF FlushClaim, RestOK
  <2> QED BY <2>3, <2>4
<1>7. CASE DispatchFails(f)
  <2>1. TaskOK'
    BY <1>2, <1>7, GotoTyped DEF DispatchFails, TaskOK
  <2> QED BY <1>7, <2>1 DEF DispatchFails, RestOK
<1>8. CASE DispatchSucceeds(f)
  <2>1. TaskOK'
    BY <1>2, <1>8, GotoTyped DEF DispatchSucceeds
  <2>2. task[f].row \in Rows /\ pending[task[f].row].lead \in Leads
    BY <1>8 DEF DispatchSucceeds, TaskOK, RestOK, Used, Entry
  <2>3. acked' \in [Leads -> Nat] /\ taken' \in [Rows -> Nat]
    BY <1>8, <2>2 DEF DispatchSucceeds, RestOK
  <2> QED BY <1>8, <2>1, <2>3 DEF DispatchSucceeds, RestOK
<1>9. CASE Rollback(f)
  <2> DEFINE r == task[f].row
             e == [pending[r] EXCEPT !.delivered = FALSE, !.failed = TRUE]
  <2>1. r \in Used /\ pending[r] \in Entry
    BY <1>9 DEF Rollback, TaskOK, RestOK, Used
  <2>2. e \in Entry
    BY <2>1, MarkedTyped
  <2>3. pending' = [pending EXCEPT ![r] = e]
    BY <1>9, <2>1 DEF Rollback, RestOK, Used
  <2>4. pending' \in [Rows -> Entry \cup {Unused}] /\ Used \subseteq Used'
    BY <2>1, <2>2, <2>3, RowTyped
  <2>5. TaskOK'
    <3>1. task[f].batch \in SUBSET Rows /\ task[f].row \in Rows \cup {NoOne}
          /\ task[f].batch \subseteq Used
      BY DEF TaskOK, Activity
    <3> QED BY <1>2, <1>9, <2>4, <3>1, GoesOnTyped DEF Rollback, Goto
  <2> QED BY <1>9, <2>4, <2>5 DEF Rollback, RestOK
<1> QED BY <1>3, <1>4, <1>5, <1>6, <1>7, <1>8, <1>9 DEF FlushStep

LEMMA SetPausedTyped ==
  ASSUME RestOK, NEW seen \in Schedule, NEW paused \in BOOLEAN, SetPaused(seen, paused)
  PROVE  schedule' \in Schedule
BY DEF RestOK, SetPaused, Schedule

LEMMA TickStepTyped ==
  ASSUME TypeOK, NEW w \in Workers, TickStep(w)
  PROVE  TypeOK'
<1> USE TypeParts DEF history, counters
<1>1. w \in Flusher /\ task[w].seen \in Schedule /\ task[w].at \in Hour
  BY DEF Flusher, TaskOK, Activity
<1>2. /\ TickPc \subseteq Pc \ {"dispatch", "rollback"}
      /\ "idle" \in Pc
      /\ {"send", "mark", "orphans"} \subseteq Back
  BY DEF Pc, TickPc, FlushPc, Back
<1>3. Waiting \subseteq Rows /\ Waiting \subseteq Used
  BY DEF Waiting, Used, Unused
<1>4. CASE TickBegin(w)
  <2>1. TaskOK'
    BY <1>1, <1>2, <1>4, BeginsTyped, IdleTyped, ZeroHour, UsedKept DEF TickBegin, RestOK, TickPc
  <2> QED BY <1>4, <2>1 DEF TickBegin, RestOK
<1>5. CASE TickPause(w)
  <2>1. TaskOK'
    BY <1>1, <1>2, <1>5, GotoTyped DEF TickPause, TickPc
  <2>2. schedule' \in Schedule
    BY <1>1, <1>5, SetPausedTyped DEF TickPause, RestOK
  <2> QED BY <1>5, <2>1, <2>2 DEF TickPause, RestOK
<1>6. CASE TickStart(w)
  <2>1. TaskOK'
    BY <1>1, <1>2, <1>6, GotoTyped, FlushTyped DEF TickStart, TickPc
  <2>2. schedule' \in Schedule
    BY <1>1, <1>6, SetPausedTyped DEF TickStart, RestOK
  <2> QED BY <1>6, <2>1, <2>2 DEF TickStart, RestOK
<1>7. CASE TickSend(w)
  <2>1. TaskOK'
    BY <1>1, <1>2, <1>7, GotoTyped, FlushTyped DEF TickSend, TickPc
  <2> QED BY <1>7, <2>1 DEF TickSend, RestOK
<1>8. CASE TickMark(w)
  <2>1. TaskOK'
    BY <1>1, <1>2, <1>8, BeginsTyped, IdleTyped, ZeroHour, UsedKept DEF TickMark, TickPc
  <2>2. [id |-> task[w].seen.id, hour |-> task[w].at] \in Memory
    BY <1>1 DEF TaskOK, Activity, Schedule, Memory
  <2> QED BY <1>1, <1>8, <2>1, <2>2 DEF TickMark, RestOK
<1>9. CASE TickStale(w)
  <2>1. TaskOK'
    BY <1>1, <1>2, <1>9, GotoTyped, FlushTyped DEF TickStale, TickPc
  <2> QED BY <1>9, <2>1 DEF TickStale, RestOK
<1>10. CASE TickOrphans(w)
  <2>1. Used' = Used
    BY <1>10, UsedKept DEF TickOrphans
  <2>2. TaskOK'
    BY <1>1, <1>2, <1>3, <1>10, <2>1, FinishTyped, GoesOnTyped DEF TickOrphans, TickPc
  <2> QED BY <1>10, <2>2 DEF TickOrphans, RestOK
<1>11. CASE TickSweep(w)
  <2>1. \A r \in task[w].batch : r \in Used /\ pending[r] \in Entry
    BY <1>1 DEF TaskOK, RestOK, Used
  <2>2. \A r \in task[w].batch : [pending[r] EXCEPT !.delivered = TRUE, !.failed = TRUE] \in Entry
    BY <2>1, MarkedTyped
  <2>3. pending' \in [Rows -> Entry \cup {Unused}] /\ Used' = Used
    <3>1. /\ pending' = [r \in Rows |-> pending'[r]]
          /\ \A r \in task[w].batch \cap Rows :
               pending'[r] = [pending[r] EXCEPT !.delivered = TRUE, !.failed = TRUE]
          /\ \A r \in Rows \ task[w].batch : pending'[r] = pending[r]
      BY <1>11 DEF TickSweep
    <3>2. \A r \in task[w].batch : r \in Rows /\ pending'[r] \in Entry /\ pending[r] \in Entry
      BY <2>1, <2>2, <3>1 DEF Used
    <3>3. pending \in [Rows -> Entry \cup {Unused}]
      BY DEF RestOK
    <3>4. \A r \in Rows : pending'[r] \in Entry \cup {Unused}
      BY <3>1, <3>2, <3>3
    <3>5. \A r \in Rows : pending'[r] = Unused <=> pending[r] = Unused
      BY <3>1, <3>2, UnusedIsNoEntry
    <3> QED BY <3>1, <3>4, <3>5 DEF Used
  <2>4. TaskOK'
    BY <1>1, <1>2, <1>11, <2>3, FinishTyped DEF TickSweep
  <2> QED BY <1>11, <2>3, <2>4 DEF TickSweep, RestOK
<1> QED BY <1>4, <1>5, <1>6, <1>7, <1>8, <1>9, <1>10, <1>11 DEF TickStep

LEMMA UserStepTyped ==
  ASSUME TypeOK, NEW u \in Users, UserStep(u)
  PROVE  TypeOK'
<1> USE TypeParts DEF history, counters
<1>1. u \in Flusher /\ NoSchedule \in Schedule /\ 0 \in Hour
  BY IdleTyped, ZeroHour DEF Flusher
<1>2. {"resume", "reset"} \subseteq Pc \ {"dispatch", "rollback"} /\ "idle" \in Back
  BY DEF Pc, TickPc, FlushPc, Back
<1>3. ASSUME Edit(u), TaskOK', schedule' \in Schedule PROVE TypeOK'
  BY <1>3 DEF Edit, RestOK
<1>4. ASSUME NEW p \in Plans, SetSchedule(u, p) PROVE TypeOK'
  <2>1. schedule' \in Schedule
    BY <1>4, QueueAssumption DEF SetSchedule, RestOK, Schedule
  <2>2. TaskOK'
    BY <1>4 DEF SetSchedule, Edit, TaskOK, Used
  <2> QED BY <1>3, <1>4, <2>1, <2>2 DEF SetSchedule
<1>5. CASE ClearSchedule(u)
  <2>1. TaskOK'
    BY <1>1, <1>2, <1>5, FlushTyped DEF ClearSchedule, Edit
  <2> QED BY <1>1, <1>3, <1>5, <2>1 DEF ClearSchedule
<1>6. CASE FlushPendingAll(u)
  <2>1. TaskOK'
    BY <1>1, <1>2, <1>6, FlushTyped DEF FlushPendingAll, Edit
  <2> QED BY <1>3, <1>6, <2>1 DEF FlushPendingAll, RestOK
<1>7. ASSUME NEW pc \in {"resume", "reset"}, ReadFirst(u, pc) PROVE TypeOK'
  <2>1. TaskOK'
    BY <1>1, <1>2, <1>7, BeginsTyped, UsedKept DEF ReadFirst, Edit, RestOK
  <2> QED BY <1>3, <1>7, <2>1 DEF ReadFirst, RestOK
<1>8. CASE StartAll(u)
  <2>1. TaskOK'
    BY <1>1, <1>2, <1>8, FlushTyped, FinishTyped, UsedKept DEF StartAll
  <2>2. schedule' \in Schedule
    BY <1>8 DEF StartAll, RestOK, Schedule
  <2> QED BY <1>8, <2>1, <2>2 DEF StartAll, RestOK
<1>9. CASE ResetSchedules(u)
  <2>1. TaskOK'
    BY <1>1, <1>2, <1>9, FlushTyped, FinishTyped, UsedKept DEF ResetSchedules
  <2> QED BY <1>1, <1>9, <2>1 DEF ResetSchedules, RestOK
<1> QED BY <1>4, <1>5, <1>6, <1>7, <1>8, <1>9 DEF UserStep

\* Every step leaves every variable in its type.
LEMMA TypeStep ==
  ASSUME TypeOK, [Next]_vars
  PROVE  TypeOK'
<1> USE TypeParts DEF history, counters
<1>1. ASSUME NEW f \in Flusher, CrashOf(f) PROVE TypeOK'
  <2>1. ASSUME NEW remembered \in [Workers -> Memory], Crash(f, remembered)
        PROVE  TypeOK'
    <3>1. TaskOK'
      BY <2>1, FinishTyped, UsedKept DEF Crash
    <3>2. dropped' \subseteq Rows
      BY <2>1 DEF Crash, RestOK
    <3> QED BY <2>1, <3>1, <3>2 DEF Crash, RestOK
  <2>2. last \in [Workers -> Memory]
        /\ [last EXCEPT ![f] = NoMemory] \in [Workers -> Memory]
    BY DEF RestOK, Memory, NoMemory
  <2> QED BY <1>1, <2>1, <2>2 DEF CrashOf
<1>2. CASE HourPasses
  BY <1>2, HourTyped DEF HourPasses, TaskOK, RestOK, Used
<1>3. ASSUME NEW r \in Rows, RowAges(r) PROVE TypeOK'
  <2>1. r \in Used /\ pending[r] \in Entry
    BY <1>3 DEF RowAges, Waiting, Used, Unused, RestOK
  <2>2. pending' = [pending EXCEPT ![r] = [pending[r] EXCEPT !.stale = TRUE]]
    BY <1>3 DEF RowAges
  <2>3. [pending[r] EXCEPT !.stale = TRUE] \in Entry
    BY <2>1, MarkedTyped
  <2>4. pending' \in [Rows -> Entry \cup {Unused}] /\ Used \subseteq Used'
    BY <2>1, <2>2, <2>3, RowTyped
  <2>5. TaskOK'
    BY <1>3, <2>4 DEF RowAges, TaskOK
  <2> QED BY <1>3, <2>4, <2>5 DEF RowAges, RestOK
<1>4. CASE DestinationDeleted
  <2>1. TaskOK'
    BY <1>4 DEF DestinationDeleted, TaskOK, Used
  <2>2. order' \in [Leads -> {"none", "FAILED", "SENT"}]
    BY <1>4, Zenon DEF DestinationDeleted
  <2>3. edits' \in Nat
    BY <1>4 DEF DestinationDeleted, RestOK
  <2> QED BY <1>4, <2>1, <2>2, <2>3 DEF DestinationDeleted, RestOK
<1>5. CASE UNCHANGED vars
  BY <1>5 DEF vars, TaskOK, RestOK, Used
<1> QED BY <1>1, <1>2, <1>3, <1>4, <1>5, JobTyped, FlushStepTyped, TickStepTyped, UserStepTyped DEF Next

LEMMA TypeInit == Init => TypeOK
<1>1. NoMemory \in Memory
  BY DEF Memory, NoMemory
<1> QED BY <1>1, QueueAssumption, IdleTyped, ZeroHour DEF Init, TypeOK, Used, Idle, Flusher

\* Whatever flushes, mutations, restarts and deletions do, every variable
\* keeps its type; a row that is claimed or selected exists.
THEOREM TypeCorrect == Spec => []TypeOK
<1>1. TypeOK /\ [Next]_vars => TypeOK'
  BY TypeStep
<1> QED BY <1>1, TypeInit, PTL DEF Spec

-----------------------------------------------------------------------------
(* Ownership *)

Owned ==
  /\ HeldIsMarked
  /\ HeldByOne
  /\ TakenIsMarked
  /\ SweepsOrphans
  /\ RowTakenOnce
  /\ DeliveredIsTrue

\* A step does to one row what ParkedRow allows.
RowMoves(r) == [Parked(r)!Next]_(Parked(r)!vars)

SameRow(r) == PhaseOf(r)' = PhaseOf(r) /\ Holders(r)' = Holders(r)

\* What every step keeps, and what it does to the rows.
Kept == Owned' /\ \A r \in Rows : RowMoves(r)

LEMMA QuietRow ==
  ASSUME NEW r \in Rows, pending'[r] = Unused <=> pending[r] = Unused,
         pending[r] # Unused => pending'[r].delivered = pending[r].delivered,
         taken'[r] = taken[r], \A f \in Flusher : Holds(f, r)' <=> Holds(f, r)
  PROVE  SameRow(r)
<1>1. Holders(r)' = Holders(r)
  BY DEF Holders
<1> QED BY <1>1 DEF SameRow, PhaseOf

LEMMA SameRowMoves ==
  ASSUME NEW r \in Rows, SameRow(r), ~alive => ~alive'
  PROVE  RowMoves(r)
<1>1. CASE ~alive \/ alive'
  BY <1>1 DEF SameRow, RowMoves, Parked!vars
<1>2. CASE alive /\ ~alive'
  BY <1>2 DEF SameRow, RowMoves, Parked!Next, Parked!Delete
<1> QED BY <1>1, <1>2

LEMMA WaitingRow ==
  ASSUME TypeOK, Owned, NEW r \in Rows, pending[r] # Unused, ~pending[r].delivered
  PROVE  PhaseOf(r) = "waiting" /\ Holders(r) = {}
<1>1. taken[r] = 0
  BY DEF TypeOK, Owned, TakenIsMarked
<1>2. Holders(r) = {}
  BY DEF Holders, Owned, HeldIsMarked
<1> QED BY <1>1, <1>2 DEF PhaseOf

LEMMA HeldRow ==
  ASSUME TypeOK, Owned, NEW r \in Rows, NEW f \in Flusher, Holds(f, r)
  PROVE  PhaseOf(r) = "sending" /\ Holders(r) = {f}
<1>1. pending[r] # Unused /\ taken[r] = 0
  BY DEF Owned, HeldIsMarked
<1>2. Holders(r) = {f}
  BY DEF Holders, Owned, HeldByOne
<1> QED BY <1>1, <1>2 DEF PhaseOf

LEMMA PhaseNext ==
  ASSUME NEW r \in Rows, pending'[r] # Unused, taken'[r] = 0
  PROVE  PhaseOf(r)' = IF Holders(r)' # {} THEN "sending"
                       ELSE IF pending'[r].delivered THEN "lost" ELSE "waiting"
BY DEF PhaseOf

\* Steps that hold, mark and accept nothing and bring nobody back to life.
Harmless ==
  /\ \A f \in Flusher, r \in Rows : Holds(f, r)' <=> Holds(f, r)
  /\ \A f \in Flusher : task'[f].pc = "sweep" => ~alive'
  /\ \A r \in Used : r \in Used' /\ pending'[r].delivered = pending[r].delivered
  /\ \A r \in Rows \ Used : r \in Used' => ~pending'[r].delivered
  /\ taken' = taken
  /\ dropped' = dropped
  /\ ~alive => ~alive'
  /\ alive' = alive \/ Used' = Used

LEMMA HarmlessStep ==
  ASSUME TypeOK, Owned, Harmless
  PROVE  Kept
<1>1. taken \in [Rows -> Nat]
  BY DEF TypeOK
<1>2. HeldIsMarked' /\ HeldByOne' /\ SweepsOrphans'
  BY DEF Owned, Harmless, HeldIsMarked, HeldByOne, SweepsOrphans, Used
<1>3. TakenIsMarked' /\ RowTakenOnce'
  BY DEF Owned, Harmless, TakenIsMarked, RowTakenOnce, Used
<1>4. DeliveredIsTrue'
  BY DEF Owned, Harmless, DeliveredIsTrue, Used
<1>5. ASSUME NEW r \in Rows PROVE RowMoves(r)
  <2>1. \A f \in Flusher : Holds(f, r)' <=> Holds(f, r)
    BY DEF Harmless
  <2>2. CASE r \in Used \/ r \notin Used'
    <3>1. SameRow(r)
      <4>1. (pending'[r] = Unused <=> pending[r] = Unused) /\ taken'[r] = taken[r]
        BY <2>2 DEF Harmless, Used
      <4>2. pending[r] # Unused => pending'[r].delivered = pending[r].delivered
        BY DEF Harmless, Used
      <4> QED BY <2>1, <4>1, <4>2, QuietRow
    <3> QED BY <3>1, SameRowMoves DEF Harmless
  <2>3. CASE r \notin Used /\ r \in Used'
    <3>1. PhaseOf(r) = "free" /\ taken[r] = 0 /\ Holders(r) = {}
      BY <1>1, <2>3 DEF Used, PhaseOf, Holders, Owned, TakenIsMarked, HeldIsMarked
    <3>2. Holders(r)' = {}
      BY <2>1, <3>1 DEF Holders
    <3>3. PhaseOf(r)' = "waiting"
      <4>1. pending'[r] # Unused /\ taken'[r] = 0 /\ ~pending'[r].delivered
        BY <2>3, <3>1 DEF Harmless, Used
      <4> QED BY <3>2, <4>1, PhaseNext
    <3>4. alive' = alive
      BY <2>3 DEF Harmless
    <3> QED BY <3>1, <3>2, <3>3, <3>4
            DEF RowMoves, Parked!Next, Parked!Park, Parked!Becomes
  <2> QED BY <2>2, <2>3
<1> QED BY <1>2, <1>3, <1>4, <1>5 DEF Owned, Kept

\* Beginning, going on and ending without a row.
LEMMA BeginsHolds ==
  ASSUME TypeOK, NEW f \in Flusher, NEW pc \in Pc \ {"dispatch", "rollback", "sweep"},
         NEW seen, NEW at, Begins(f, pc, seen, at), task[f].pc \notin {"dispatch", "rollback"}
  PROVE  /\ \A g \in Flusher, r \in Rows : Holds(g, r)' <=> Holds(g, r)
         /\ \A g \in Flusher : task'[g].pc = "sweep" => task[g].pc = "sweep"
BY DEF TypeOK, Begins, Holds

LEMMA GoesOnHolds ==
  ASSUME TypeOK, NEW f \in Flusher, NEW pc \in Pc \ {"dispatch", "rollback", "sweep"},
         NEW batch, NEW row, GoesOn(f, pc, batch, row), task[f].pc \notin {"dispatch", "rollback"}
  PROVE  /\ \A g \in Flusher, r \in Rows : Holds(g, r)' <=> Holds(g, r)
         /\ \A g \in Flusher : task'[g].pc = "sweep" => task[g].pc = "sweep"
BY DEF TypeOK, GoesOn, Holds

LEMMA FlushHolds ==
  ASSUME TypeOK, NEW f \in Flusher, NEW back, Flush(f, back),
         task[f].pc \notin {"dispatch", "rollback"}
  PROVE  /\ \A g \in Flusher, r \in Rows : Holds(g, r)' <=> Holds(g, r)
         /\ \A g \in Flusher : task'[g].pc = "sweep" => task[g].pc = "sweep"
BY DEF TypeOK, Flush, Holds

\* Such a step that leaves the rows alone is harmless.
LEMMA QuietStep ==
  ASSUME TypeOK, Owned, UNCHANGED <<pending, alive, history>>,
         \A g \in Flusher, r \in Rows : Holds(g, r)' <=> Holds(g, r),
         \A g \in Flusher : task'[g].pc = "sweep" => task[g].pc = "sweep"
  PROVE  Kept
<1>1. Harmless
  BY DEF Harmless, Owned, SweepsOrphans, history, Used
<1> QED BY <1>1, HarmlessStep

LEMMA PcNames ==
  /\ {"load", "dest", "claim", "idle", "pause", "start", "send", "mark", "stale", "orphans",
      "resume", "reset"} \subseteq Pc \ {"dispatch", "rollback", "sweep"}
  /\ Back \subseteq Pc \ {"dispatch", "rollback", "sweep"}
BY DEF Pc, TickPc, FlushPc, Back

LEMMA JobOwned ==
  ASSUME TypeOK, Owned, NEW l \in Leads, JobStep(l)
  PROVE  Kept
<1> USE DEF history, Holds
<1>1. CASE JobCheck(l)
  BY <1>1, QuietStep DEF JobCheck
<1>2. CASE JobQueue(l)
  <2>1. PICK r \in Rows :
          /\ pending[r] = Unused
          /\ pending' = [pending EXCEPT ![r] =
               [lead |-> l, delivered |-> FALSE, failed |-> FALSE, stale |-> FALSE]]
    BY <1>2 DEF JobQueue
  <2>2. pending \in [Rows -> Entry \cup {Unused}]
    BY DEF TypeOK
  <2>3. /\ \A q \in Used : q \in Used' /\ pending'[q].delivered = pending[q].delivered
        /\ \A q \in Rows \ Used : q \in Used' => ~pending'[q].delivered
    BY <2>1, <2>2 DEF Used
  <2>4. Harmless
    BY <1>2, <2>3 DEF JobQueue, Harmless, Owned, SweepsOrphans
  <2> QED BY <2>4, HarmlessStep
<1>3. CASE JobDeliver(l)
  <2>1. Harmless
    BY <1>3 DEF JobDeliver, Harmless, Owned, SweepsOrphans, Used
  <2> QED BY <2>1, HarmlessStep
<1>4. CASE OrderRetry(l)
  <2>1. Harmless
    BY <1>4 DEF OrderRetry, Harmless, Owned, SweepsOrphans, Used
  <2> QED BY <2>1, HarmlessStep
<1> QED BY <1>1, <1>2, <1>3, <1>4 DEF JobStep

LEMMA TickOwned ==
  ASSUME TypeOK, Owned, NEW w \in Workers, TickStep(w)
  PROVE  Kept
<1> USE PcNames
<1>1. w \in Flusher
  BY DEF Flusher
<1>2. CASE TickBegin(w)
  BY <1>1, <1>2, BeginsHolds, QuietStep DEF TickBegin
<1>3. CASE TickPause(w)
  BY <1>1, <1>3, GoesOnHolds, QuietStep DEF TickPause, Goto
<1>4. CASE TickStart(w)
  BY <1>1, <1>4, GoesOnHolds, FlushHolds, QuietStep DEF TickStart, Goto
<1>5. CASE TickSend(w)
  BY <1>1, <1>5, GoesOnHolds, FlushHolds, QuietStep DEF TickSend, Goto
<1>6. CASE TickMark(w)
  BY <1>1, <1>6, BeginsHolds, QuietStep DEF TickMark
<1>7. CASE TickStale(w)
  BY <1>1, <1>7, GoesOnHolds, FlushHolds, QuietStep DEF TickStale, Goto
<1>8. CASE TickOrphans(w)
  <2>1. CASE alive \/ Waiting = {}
    BY <1>1, <1>8, <2>1, BeginsHolds, QuietStep DEF TickOrphans, Finish
  <2>2. CASE ~(alive \/ Waiting = {})
    <3>1. GoesOn(w, "sweep", Waiting, NoOne) /\ task[w].pc = "orphans" /\ ~alive
      BY <1>8, <2>2 DEF TickOrphans
    <3>2. /\ \A g \in Flusher, r \in Rows : Holds(g, r)' <=> Holds(g, r)
          /\ \A g \in Flusher : task'[g].pc = "sweep" => ~alive
      BY <1>1, <3>1 DEF GoesOn, Holds, TypeOK
    <3>3. Harmless
      BY <1>8, <3>2 DEF TickOrphans, Harmless, Used, history
    <3> QED BY <3>3, HarmlessStep
  <2> QED BY <2>1, <2>2
<1>9. CASE TickSweep(w)
  <2>1. ~alive /\ ~alive'
    BY <1>1, <1>9 DEF TickSweep, Owned, SweepsOrphans
  <2>2. \A g \in Flusher, r \in Rows : Holds(g, r)' <=> Holds(g, r)
    BY <1>1, <1>9, BeginsHolds DEF TickSweep, Finish
  <2>3. ASSUME NEW r \in Used
        PROVE  r \in Used' /\ (pending[r].delivered => pending'[r].delivered)
    <3>1. pending[r] \in Entry /\ r \in Rows
      BY DEF TypeOK, Used
    <3>2. CASE r \in task[w].batch
      <4>1. pending'[r] = [pending[r] EXCEPT !.delivered = TRUE, !.failed = TRUE]
        BY <1>9, <3>1, <3>2 DEF TickSweep
      <4>2. pending'[r] \in Entry
        BY <3>1, <4>1, MarkedTyped
      <4>3. pending'[r].delivered
        BY <3>1, <4>1 DEF Entry
      <4> QED BY <3>1, <4>2, <4>3, UnusedIsNoEntry DEF Used
    <3>3. CASE r \notin task[w].batch
      BY <1>9, <3>1, <3>3 DEF TickSweep, Used
    <3> QED BY <3>2, <3>3
  <2>4. taken' = taken /\ taken \in [Rows -> Nat]
    BY <1>9 DEF TickSweep, history, TypeOK
  <2>5. HeldIsMarked' /\ HeldByOne' /\ TakenIsMarked'
    BY <2>2, <2>3, <2>4 DEF Owned, HeldIsMarked, HeldByOne, TakenIsMarked, Used
  <2>6. ASSUME NEW r \in Rows PROVE RowMoves(r)
    <3>1. CASE r \in Used /\ ~pending[r].delivered /\ pending'[r].delivered
      <4>1. PhaseOf(r) = "waiting" /\ Holders(r) = {}
        BY <3>1, WaitingRow DEF Used
      <4>2. Holders(r)' = {}
        BY <2>2, <4>1 DEF Holders
      <4>3. PhaseOf(r)' = "lost"
        <5>1. taken'[r] = 0
          BY <2>4, <3>1 DEF Owned, TakenIsMarked
        <5>2. pending'[r] # Unused
          BY <2>3, <3>1 DEF Used
        <5> QED BY <3>1, <4>2, <5>1, <5>2, PhaseNext
      <4> QED BY <2>1, <4>1, <4>2, <4>3
              DEF RowMoves, Parked!Next, Parked!Sweep, Parked!Becomes
    <3>2. CASE ~(r \in Used /\ ~pending[r].delivered /\ pending'[r].delivered)
      <4>1. pending'[r] = Unused <=> pending[r] = Unused
        <5>1. task[w].batch \subseteq Used
          BY <1>1 DEF TypeOK
        <5>2. r \notin task[w].batch => pending'[r] = pending[r]
          BY <1>9 DEF TickSweep
        <5> QED BY <2>3, <5>1, <5>2 DEF Used
      <4>2. pending[r] # Unused => pending'[r].delivered = pending[r].delivered
        <5> SUFFICES ASSUME r \in Used PROVE pending'[r].delivered = pending[r].delivered
          BY DEF Used
        <5>1. pending[r] \in Entry
          BY DEF TypeOK, Used
        <5>2. CASE r \in task[w].batch
          <6>1. pending'[r] = [pending[r] EXCEPT !.delivered = TRUE, !.failed = TRUE]
            BY <1>9, <5>2 DEF TickSweep
          <6>2. pending'[r].delivered = TRUE
            BY <5>1, <6>1 DEF Entry
          <6>3. pending[r].delivered \in BOOLEAN
            BY <5>1 DEF Entry
          <6> QED BY <3>2, <6>2, <6>3
        <5>3. CASE r \notin task[w].batch
          BY <1>9, <5>3 DEF TickSweep
        <5> QED BY <5>2, <5>3
      <4>3. SameRow(r)
        BY <2>2, <2>4, <4>1, <4>2, QuietRow
      <4> QED BY <2>1, <4>3, SameRowMoves
    <3> QED BY <3>1, <3>2
  <2> QED BY <2>1, <2>4, <2>5, <2>6
          DEF Kept, Owned, SweepsOrphans, RowTakenOnce, DeliveredIsTrue
<1> QED BY <1>2, <1>3, <1>4, <1>5, <1>6, <1>7, <1>8, <1>9 DEF TickStep

LEMMA UserOwned ==
  ASSUME TypeOK, Owned, NEW u \in Users, UserStep(u)
  PROVE  Kept
<1> USE PcNames
<1>1. u \in Flusher
  BY DEF Flusher
<1>2. ASSUME NEW p \in Plans, SetSchedule(u, p) PROVE Kept
  BY <1>2, QuietStep DEF SetSchedule, Edit, Holds
<1>3. CASE ClearSchedule(u)
  BY <1>1, <1>3, FlushHolds, QuietStep DEF ClearSchedule, Edit
<1>4. CASE FlushPendingAll(u)
  BY <1>1, <1>4, FlushHolds, QuietStep DEF FlushPendingAll, Edit
<1>5. ASSUME NEW pc \in {"resume", "reset"}, ReadFirst(u, pc) PROVE Kept
  BY <1>1, <1>5, BeginsHolds, QuietStep DEF ReadFirst, Edit
<1>6. CASE StartAll(u)
  BY <1>1, <1>6, FlushHolds, BeginsHolds, QuietStep DEF StartAll, Finish
<1>7. CASE ResetSchedules(u)
  BY <1>1, <1>7, FlushHolds, BeginsHolds, QuietStep DEF ResetSchedules, Finish
<1> QED BY <1>2, <1>3, <1>4, <1>5, <1>6, <1>7 DEF UserStep

\* The flusher of a row f is done with it, or has just claimed it.
LEMMA HolderStep ==
  ASSUME TypeOK, Owned, NEW f \in Flusher, NEW pc \in Pc, NEW batch, NEW row,
         GoesOn(f, pc, batch, row), pc # "sweep"
  PROVE  /\ \A g \in Flusher \ {f}, r \in Rows : Holds(g, r)' <=> Holds(g, r)
         /\ \A r \in Rows : Holds(f, r)' <=> pc \in {"dispatch", "rollback"} /\ row = r
         /\ \A g \in Flusher : task'[g].pc = "sweep" => task[g].pc = "sweep"
BY DEF TypeOK, GoesOn, Holds

LEMMA ClaimOwned ==
  ASSUME TypeOK, Owned, NEW f \in Flusher, NEW r \in Rows, FlushClaim(f, r)
  PROVE  Kept
<1>1. r \in Used /\ pending[r] \in Entry /\ taken \in [Rows -> Nat]
  BY DEF FlushClaim, TypeOK, Used
<1>2. CASE pending[r].delivered
  BY <1>2, PcNames, GoesOnHolds, QuietStep DEF FlushClaim
<1>3. CASE ~pending[r].delivered
  <2>1. /\ pending' = [pending EXCEPT ![r] = [pending[r] EXCEPT !.delivered = TRUE]]
        /\ GoesOn(f, "dispatch", task[f].batch \ {r}, r)
        /\ task[f].pc = "claim"
        /\ UNCHANGED <<alive, history>>
    BY <1>3 DEF FlushClaim
  <2>2. pending'[r] \in Entry /\ pending'[r].delivered
    <3>1. pending'[r] = [pending[r] EXCEPT !.delivered = TRUE]
      BY <1>1, <2>1 DEF TypeOK
    <3>2. pending'[r] \in Entry
      BY <1>1, <3>1, MarkedTyped
    <3>3. pending'[r].delivered
      BY <1>1, <3>1 DEF Entry
    <3> QED BY <3>2, <3>3
  <2>3. \A q \in Rows \ {r} : pending'[q] = pending[q]
    BY <2>1 DEF TypeOK
  <2>4. /\ \A g \in Flusher \ {f}, q \in Rows : Holds(g, q)' <=> Holds(g, q)
        /\ \A q \in Rows : Holds(f, q)' <=> q = r
        /\ \A g \in Flusher : task'[g].pc = "sweep" => task[g].pc = "sweep"
    BY <2>1, HolderStep DEF Pc, FlushPc
  \* Nobody held the row, and it was not accepted: it was not marked.
  <2>5. taken[r] = 0 /\ \A g \in Flusher : ~Holds(g, r)
    BY <1>1, <1>3 DEF Owned, TakenIsMarked, HeldIsMarked
  <2>6. taken' = taken /\ dropped' = dropped /\ alive' = alive
    BY <2>1 DEF history
  <2>7. HeldIsMarked'
    BY <2>2, <2>3, <2>4, <2>5, <2>6, UnusedIsNoEntry DEF Owned, HeldIsMarked
  <2>8. HeldByOne' /\ SweepsOrphans' /\ RowTakenOnce'
    BY <2>4, <2>5, <2>6 DEF Owned, HeldByOne, SweepsOrphans, RowTakenOnce
  <2>9. TakenIsMarked'
    BY <2>3, <2>5, <2>6 DEF Owned, TakenIsMarked
  <2>10. DeliveredIsTrue'
    <3>1. \A g \in Flusher, q \in Rows : Holds(g, q) => Holds(g, q)'
      BY <2>1, <2>4 DEF Holds
    <3>2. ASSUME NEW q \in Rows \ {r}, q \in Used', pending'[q].delivered
          PROVE  taken'[q] > 0 \/ (\E g \in Flusher : Holds(g, q)') \/ ~alive' \/ q \in dropped'
      <4>1. q \in Used /\ pending[q].delivered
        BY <2>3, <3>2 DEF Used
      <4> QED BY <2>6, <3>1, <4>1 DEF Owned, DeliveredIsTrue
    <3>3. Holds(f, r)'
      BY <2>4
    <3> QED BY <3>2, <3>3 DEF DeliveredIsTrue
  <2>11. ASSUME NEW q \in Rows PROVE RowMoves(q)
    <3>1. CASE q = r
      <4>1. PhaseOf(r) = "waiting" /\ Holders(r) = {}
        BY <1>1, <1>3, WaitingRow DEF Used
      <4>2. Holders(r)' = {f}
        BY <2>4, <2>5 DEF Holders
      <4>3. PhaseOf(r)' = "sending"
        BY <2>2, <2>5, <2>6, <4>2, PhaseNext, UnusedIsNoEntry
      <4> QED BY <2>6, <3>1, <4>1, <4>2, <4>3
              DEF RowMoves, Parked!Next, Parked!Claim, Parked!Becomes
    <3>2. CASE q # r
      <4>1. \A g \in Flusher : Holds(g, q)' <=> Holds(g, q)
        BY <2>1, <2>4, <3>2 DEF Holds
      <4>2. SameRow(q)
        BY <2>3, <2>6, <3>2, <4>1, QuietRow
      <4> QED BY <2>6, <4>2, SameRowMoves
    <3> QED BY <3>1, <3>2
  <2> QED BY <2>7, <2>8, <2>9, <2>10, <2>11 DEF Owned, Kept
<1> QED BY <1>2, <1>3

LEMMA DispatchFailsOwned ==
  ASSUME TypeOK, Owned, NEW f \in Flusher, DispatchFails(f)
  PROVE  Kept
<1>1. "rollback" \in Pc
  BY DEF Pc, FlushPc
<1>2. \A g \in Flusher, q \in Rows : Holds(g, q)' <=> Holds(g, q)
  BY <1>1, HolderStep DEF DispatchFails, Goto, Holds
<1>3. \A g \in Flusher : task'[g].pc = "sweep" => task[g].pc = "sweep"
  BY <1>1, HolderStep DEF DispatchFails, Goto
<1> QED BY <1>2, <1>3, QuietStep DEF DispatchFails

LEMMA AcceptedOwned ==
  ASSUME TypeOK, Owned, NEW f \in Flusher, DispatchSucceeds(f)
  PROVE  Kept
<1> DEFINE r == task[f].row
<1>1. Holds(f, r) /\ r \in Rows /\ taken \in [Rows -> Nat]
  BY DEF DispatchSucceeds, Holds, TypeOK, Used
<1>2. pending[r] # Unused /\ pending[r].delivered /\ taken[r] = 0
  BY <1>1 DEF Owned, HeldIsMarked
<1>3. /\ \A g \in Flusher, q \in Rows : Holds(g, q)' => Holds(g, q) /\ g # f
      /\ \A g \in Flusher, q \in Rows \ {r} : Holds(g, q) => Holds(g, q)'
      /\ \A g \in Flusher : task'[g].pc = "sweep" => task[g].pc = "sweep"
  BY HolderStep, PcNames DEF DispatchSucceeds, Goto, Holds
<1>4. /\ taken'[r] = 1
      /\ \A q \in Rows \ {r} : taken'[q] = taken[q]
      /\ pending' = pending /\ alive' = alive /\ dropped' = dropped
  BY <1>1, <1>2 DEF DispatchSucceeds
<1>5. HeldIsMarked'
  BY <1>1, <1>3, <1>4 DEF Owned, HeldIsMarked, HeldByOne
<1>6. HeldByOne' /\ SweepsOrphans'
  BY <1>3, <1>4 DEF Owned, HeldByOne, SweepsOrphans
<1>7. TakenIsMarked' /\ RowTakenOnce'
  BY <1>2, <1>4 DEF Owned, TakenIsMarked, RowTakenOnce
<1>8. DeliveredIsTrue'
  BY <1>3, <1>4 DEF Owned, DeliveredIsTrue, Used
<1>9. ASSUME NEW q \in Rows PROVE RowMoves(q)
  <2>1. CASE q = r
    <3>1. PhaseOf(q) = "sending" /\ Holders(q) = {f}
      BY <1>1, <2>1, HeldRow
    <3>2. Holders(q)' = {}
      BY <1>3, <3>1 DEF Holders
    <3>3. PhaseOf(q)' = "accepted"
      BY <1>2, <1>4, <2>1 DEF PhaseOf
    <3> QED BY <1>4, <3>1, <3>2, <3>3
            DEF RowMoves, Parked!Next, Parked!Accept, Parked!Becomes
  <2>2. CASE q # r
    <3>1. \A g \in Flusher : Holds(g, q)' <=> Holds(g, q)
      BY <1>3, <2>2
    <3>2. SameRow(q)
      BY <1>4, <2>2, <3>1, QuietRow
    <3> QED BY <1>4, <3>2, SameRowMoves
  <2> QED BY <2>1, <2>2
<1> QED BY <1>5, <1>6, <1>7, <1>8, <1>9 DEF Owned, Kept

LEMMA RollbackOwned ==
  ASSUME TypeOK, Owned, NEW f \in Flusher, Rollback(f)
  PROVE  Kept
<1> DEFINE r == task[f].row
<1>1. Holds(f, r) /\ r \in Used /\ r \in Rows /\ pending[r] \in Entry /\ taken \in [Rows -> Nat]
  BY DEF Rollback, Holds, TypeOK, Used
<1>2. taken[r] = 0
  BY <1>1 DEF Owned, HeldIsMarked
<1>3. /\ \A g \in Flusher, q \in Rows : Holds(g, q)' => Holds(g, q) /\ g # f
      /\ \A g \in Flusher, q \in Rows \ {r} : Holds(g, q) => Holds(g, q)'
      /\ \A g \in Flusher : task'[g].pc = "sweep" => task[g].pc = "sweep"
  BY HolderStep, PcNames DEF Rollback, Goto, Holds
<1>4. /\ \A q \in Rows \ {r} : pending'[q] = pending[q]
      /\ taken' = taken /\ alive' = alive /\ dropped' = dropped
  BY DEF Rollback, TypeOK, history
<1>5. ~pending'[r].delivered
  <2>1. pending'[r] = [pending[r] EXCEPT !.delivered = FALSE, !.failed = TRUE]
    BY <1>1 DEF Rollback, TypeOK
  <2> QED BY <1>1, <2>1 DEF Entry
<1>6. HeldIsMarked'
  BY <1>1, <1>3, <1>4 DEF Owned, HeldIsMarked, HeldByOne
<1>7. HeldByOne' /\ SweepsOrphans' /\ RowTakenOnce'
  BY <1>3, <1>4 DEF Owned, HeldByOne, SweepsOrphans, RowTakenOnce
<1>8. TakenIsMarked'
  BY <1>2, <1>4 DEF Owned, TakenIsMarked
<1>9. DeliveredIsTrue'
  BY <1>3, <1>4, <1>5 DEF Owned, DeliveredIsTrue, Used
<1>10. ASSUME NEW q \in Rows PROVE RowMoves(q)
  <2>1. CASE q = r
    <3>1. PhaseOf(q) = "sending" /\ Holders(q) = {f}
      BY <1>1, <2>1, HeldRow
    <3>2. Holders(q)' = {}
      BY <1>3, <3>1 DEF Holders
    <3>3. pending'[q] # Unused
      <4>1. pending'[q] = [pending[q] EXCEPT !.delivered = FALSE, !.failed = TRUE]
        BY <1>1, <2>1 DEF Rollback, TypeOK
      <4>2. pending'[q] \in Entry
        BY <1>1, <2>1, <4>1, MarkedTyped
      <4> QED BY <4>2, UnusedIsNoEntry
    <3>4. PhaseOf(q)' = "waiting"
      BY <1>1, <1>2, <1>4, <1>5, <2>1, <3>2, <3>3, PhaseNext
    <3> QED BY <1>4, <3>1, <3>2, <3>4
            DEF RowMoves, Parked!Next, Parked!Refuse, Parked!Becomes
  <2>2. CASE q # r
    <3>1. \A g \in Flusher : Holds(g, q)' <=> Holds(g, q)
      BY <1>3, <2>2
    <3>2. SameRow(q)
      BY <1>4, <2>2, <3>1, QuietRow
    <3> QED BY <1>4, <3>2, SameRowMoves
  <2> QED BY <2>1, <2>2
<1> QED BY <1>6, <1>7, <1>8, <1>9, <1>10 DEF Owned, Kept

LEMMA FlushOwned ==
  ASSUME TypeOK, Owned, NEW f \in Flusher, FlushStep(f)
  PROVE  Kept
<1> USE PcNames
<1>1. ASSUME Return(f), task[f].pc \notin {"dispatch", "rollback"},
             UNCHANGED <<pending, alive, history>>
      PROVE  Kept
  <2>1. task[f].back \in Back
    BY DEF TypeOK, Activity
  <2> QED BY <1>1, <2>1, BeginsHolds, GoesOnHolds, QuietStep DEF Return, Finish
<1>2. CASE FlushLoad(f)
  BY <1>1, <1>2, GoesOnHolds, QuietStep DEF FlushLoad
<1>3. CASE FlushDest(f)
  BY <1>1, <1>3, GoesOnHolds, QuietStep DEF FlushDest, Goto
<1>4. CASE FlushDone(f)
  BY <1>1, <1>4 DEF FlushDone
<1> QED BY <1>2, <1>3, <1>4, ClaimOwned, DispatchFailsOwned, AcceptedOwned, RollbackOwned
        DEF FlushStep

LEMMA CrashOwned ==
  ASSUME TypeOK, Owned, NEW f \in Flusher, CrashOf(f)
  PROVE  Kept
<1>1. /\ dropped' = dropped \cup {r \in Rows : Holds(f, r)}
      /\ Finish(f)
      /\ UNCHANGED <<pending, alive, taken>>
  BY DEF CrashOf, Crash
<1>2. /\ \A g \in Flusher \ {f}, r \in Rows : Holds(g, r)' <=> Holds(g, r)
      /\ \A r \in Rows : ~Holds(f, r)'
      /\ \A g \in Flusher : task'[g].pc = "sweep" => task[g].pc = "sweep"
  BY <1>1 DEF Finish, Begins, Holds, TypeOK
<1>3. HeldIsMarked' /\ HeldByOne' /\ SweepsOrphans' /\ TakenIsMarked' /\ RowTakenOnce'
  BY <1>1, <1>2
  DEF Owned, HeldIsMarked, HeldByOne, SweepsOrphans, TakenIsMarked, RowTakenOnce
<1>4. DeliveredIsTrue'
  BY <1>1, <1>2 DEF Owned, DeliveredIsTrue, Used
<1>5. ASSUME NEW r \in Rows PROVE RowMoves(r)
  <2>1. CASE Holds(f, r)
    <3>1. PhaseOf(r) = "sending" /\ Holders(r) = {f}
      BY <2>1, HeldRow
    <3>2. Holders(r)' = {}
      BY <1>2, <3>1 DEF Holders
    <3>3. PhaseOf(r)' = "lost"
      BY <1>1, <2>1, <3>2, PhaseNext DEF Owned, HeldIsMarked
    <3> QED BY <1>1, <3>1, <3>2, <3>3
            DEF RowMoves, Parked!Next, Parked!Die, Parked!Becomes
  <2>2. CASE ~Holds(f, r)
    <3>1. \A g \in Flusher : Holds(g, r)' <=> Holds(g, r)
      BY <1>2, <2>2
    <3>2. SameRow(r)
      BY <1>1, <3>1, QuietRow
    <3> QED BY <1>1, <3>2, SameRowMoves
  <2> QED BY <2>1, <2>2
<1> QED BY <1>3, <1>4, <1>5 DEF Owned, Kept

LEMMA OwnedStep ==
  ASSUME TypeOK, Owned, [Next]_vars
  PROVE  Kept
<1> USE DEF history, Holds
<1>1. CASE HourPasses
  BY <1>1, QuietStep DEF HourPasses
<1>2. ASSUME NEW r \in Rows, RowAges(r) PROVE Kept
  <2>1. pending \in [Rows -> Entry \cup {Unused}] /\ r \in Used /\ pending[r] \in Entry
    BY <1>2 DEF RowAges, Waiting, Used, Unused, TypeOK
  <2>2. pending' = [pending EXCEPT ![r] = [pending[r] EXCEPT !.stale = TRUE]]
    BY <1>2 DEF RowAges
  <2>3. pending'[r] \in Entry /\ pending'[r].delivered = pending[r].delivered
    <3>1. pending'[r] = [pending[r] EXCEPT !.stale = TRUE]
      BY <2>1, <2>2
    <3>2. pending'[r] \in Entry
      BY <2>1, <3>1, MarkedTyped
    <3>3. pending'[r].delivered = pending[r].delivered
      BY <2>1, <3>1 DEF Entry
    <3> QED BY <3>2, <3>3
  <2>4. \A q \in Rows \ {r} : pending'[q] = pending[q]
    BY <2>1, <2>2
  <2>5. Harmless
    BY <1>2, <2>1, <2>3, <2>4, UnusedIsNoEntry DEF RowAges, Harmless, Owned, SweepsOrphans, Used
  <2> QED BY <2>5, HarmlessStep
<1>3. CASE DestinationDeleted
  <2>1. Harmless
    BY <1>3 DEF DestinationDeleted, Harmless, Used
  <2> QED BY <2>1, HarmlessStep
<1>4. CASE UNCHANGED vars
  BY <1>4, QuietStep DEF vars
<1> QED BY <1>1, <1>2, <1>3, <1>4, JobOwned, FlushOwned, CrashOwned, TickOwned, UserOwned DEF Next

LEMMA OwnedInit == Init => Owned
BY DEF Init, Owned, HeldIsMarked, HeldByOne, TakenIsMarked, SweepsOrphans, RowTakenOnce,
       DeliveredIsTrue, Holds, Idle, Used

LEMMA OwnedAlways == Spec => []Owned
<1>1. Init => TypeOK /\ Owned
  BY TypeInit, OwnedInit
<1>2. TypeOK /\ Owned /\ [Next]_vars => (TypeOK /\ Owned)'
  BY TypeStep, OwnedStep DEF Kept
<1> QED BY <1>1, <1>2, PTL DEF Spec

\* A queued lead is accepted once by way of its row:
\* flushPendingForDestination claims before it sends, with any number of
\* flushes at once.
THEOREM RowDeliveredOnce == Spec => []RowTakenOnce
<1>1. Owned => RowTakenOnce
  BY DEF Owned
<1> QED BY <1>1, OwnedAlways, PTL

\* deliveredAt tells the truth: the claim is taken back when the partner
\* refuses, and by nobody but the flush that holds it.
THEOREM DeliveredTellsTruth == Spec => []DeliveredIsTrue
<1>1. Owned => DeliveredIsTrue
  BY DEF Owned
<1> QED BY <1>1, OwnedAlways, PTL

\* Every step of the queue is, for each parked lead, a step of ParkedRow or
\* none: one flush at a time has the lead, a refusal gives it back, an accepted
\* one is left alone for good, and a lead nobody accepted is let go of only when
\* its flush dies or its destination is deleted.
THEOREM FlushesImplementParked == Spec => ImplementsParked
<1>1. Init => \A r \in Rows : Parked(r)!Init
  <2>1. Init => \A r \in Rows : PhaseOf(r) = "free" /\ Holders(r) = {}
    BY DEF Init, PhaseOf, Holders, Holds, Idle
  <2> QED BY <2>1 DEF Init, Parked!Init
<1>2. TypeOK /\ Owned /\ [Next]_vars
      => \A r \in Rows : [Parked(r)!Next]_(Parked(r)!vars)
  BY OwnedStep DEF Kept, RowMoves
<1> QED BY <1>1, <1>2, TypeCorrect, OwnedAlways, PTL DEF Spec, ImplementsParked

=============================================================================
