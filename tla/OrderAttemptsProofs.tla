------------------------ MODULE OrderAttemptsProofs ------------------------
(***************************************************************************)
(* What two mechanisms guarantee where their premises hold: the optimistic  *)
(* lock on `attempts` when no two runs of deliverOneDestination work on an  *)
(* order at the same time, as the job id of the lead queue has it; and the  *)
(* claim of the scheduler when neither admins nor repeated runs get in its  *)
(* way.                                                                     *)
(***************************************************************************)
EXTENDS OrderDeliveryProofs, OrderRefinement

OneJob == \A i, j \in Jobs : i = j

\* The status of the row a task works on.
StatusOf(t) == order[task[t].order].status

\* Retry tasks found their row FAILED, and only a job ever works on a PENDING
\* row; so the row a job has just inserted is still PENDING when it is read
\* again.  What is sent has at least one attempt left.
JobInv ==
  /\ \A t \in Ticks \cup Admins :
       Active(t) => /\ task[t].pc \notin {"insert", "reread"}
                    /\ StatusOf(t) \in {"FAILED", "SENT"}
  /\ \A t \in Jobs : task[t].pc \notin {"gate", "reset", "read", "cancel"}
  /\ \A t \in Jobs : task[t].pc = "reread" => StatusOf(t) = "PENDING"
  /\ \A o \in Orders : order[o].status \in {"none", "PENDING"} => order[o].attempts = 0
  /\ \A t \in Task : Sending(t) => task[t].prev < MaxAttempts
  /\ AttemptsBounded

LEMMA JobInit == Init => JobInv
BY PolicyAssumption
DEF Init, JobInv, Active, Idle, Sending, NoRow, AttemptsBounded, Task

\* A step that starts, moves or ends one task and leaves the rows alone.
LEMMA JobQuietStep ==
  ASSUME JobInv, NEW t \in Task, order' = order,
         \A u \in Task : u # t => task'[u] = task[u],
         t \in Ticks \cup Admins =>
           task'[t].pc = "idle" \/
             /\ task'[t].pc \notin {"insert", "reread"}
             /\ order[task'[t].order].status \in {"FAILED", "SENT"},
         t \in Jobs =>
           /\ task'[t].pc \notin {"gate", "reset", "read", "cancel"}
           /\ task'[t].pc = "reread" => order[task'[t].order].status = "PENDING",
         task'[t].pc \in {"send", "persist"} => task'[t].prev < MaxAttempts
  PROVE  JobInv'
BY DEF JobInv, StatusOf, Active, Sending, AttemptsBounded, Task

\* A step that rewrites the row of o, without moving its status.
LEMMA JobRowStep ==
  ASSUME TypeOK, JobInv, NEW o \in Orders, NEW row,
         order' = [order EXCEPT ![o] = row],
         row.status = order[o].status, row.attempts \in {0, order[o].attempts},
         \A u \in Task : task'[u].pc = "idle" \/ task'[u] = task[u] \/
           /\ u \in Ticks \cup Admins
           /\ Active(u)
           /\ task'[u].order = task[u].order
           /\ task'[u].pc \in {"gate", "read"}
  PROVE  JobInv'
<1> USE DEF TypeOK
<1>1. \A q \in Orders : order'[q].status = order[q].status
  OBVIOUS
<1>2. \A q \in Orders : order'[q].attempts \in {0, order[q].attempts}
  OBVIOUS
<1>3. \A u \in Task : Active(u)' => StatusOf(u)' = StatusOf(u) /\ Active(u)
  BY <1>1 DEF Active, StatusOf
<1>4. AttemptsBounded'
  BY <1>2, PolicyAssumption DEF JobInv, AttemptsBounded
<1>5. QED
  BY <1>1, <1>2, <1>3, <1>4, DeliveryAssumption DEF JobInv, Active, Sending, Task

LEMMA JobStepPreserves ==
  ASSUME OneJob PROVE TypeOK /\ JobInv /\ [Next]_vars => JobInv'
<1> SUFFICES ASSUME TypeOK, JobInv, [Next]_vars PROVE JobInv'
  OBVIOUS
<1> USE DEF TypeOK
<1>a. Task = Jobs \cup Ticks \cup Admins /\ Jobs \cap (Ticks \cup Admins) = {}
  BY DeliveryAssumption DEF Task
<1>b. \A o \in Orders : order[o].attempts \in Nat
  BY DEF Row
<1>1. ASSUME NEW t \in Jobs, NEW o \in Orders, JobLookup(t, o) PROVE JobInv'
  <2>1. order' = order /\ \A u \in Task : u # t => task'[u] = task[u]
    BY <1>1 DEF JobLookup, Begin
  <2>2. task'[t].pc \in {"insert", "send"} /\ task'[t].order = o
    BY <1>1, <1>a DEF JobLookup, Begin
  <2>3. task'[t].pc = "send" => task'[t].prev < MaxAttempts
    BY <1>1, <1>a, PolicyAssumption DEF JobLookup, Begin, OpenToRun, JobInv
  <2>4. QED
    BY <2>1, <2>2, <2>3, <1>a, JobQuietStep
<1>2. ASSUME NEW t \in Jobs, JobInsert(t) PROVE JobInv'
  <2> PICK o \in Orders : o = task[t].order
    BY <1>2, <1>a DEF JobInsert, Active
  <2>1. \A u \in Task : u # t => task'[u] = task[u]
    BY <1>2 DEF JobInsert, Goto, Finish
  <2>2. CASE order[o].status = "none"
    <3>1. /\ order'[o].status = "PENDING" /\ order'[o].attempts = 0
          /\ \A q \in Orders : q # o => order'[q] = order[q]
      BY <1>2, <2>2 DEF JobInsert, NewRow, NoRow
    <3>2. task'[t].pc = "reread" /\ task'[t].order = o
      BY <1>2, <1>a, <2>2 DEF JobInsert, Goto, Activity
    <3>3. \A u \in Ticks \cup Admins : Active(u) => task[u].order # o
      BY <2>2 DEF JobInv, StatusOf
    <3>4. \A u \in Jobs : u = t
      BY DEF OneJob
    <3>5. AttemptsBounded'
      <4>1. 0 <= MaxAttempts
        BY PolicyAssumption
      <4>2. \A q \in Orders : order[q].attempts <= MaxAttempts
        BY DEF JobInv, AttemptsBounded
      <4>3. \A q \in Orders : order'[q].attempts <= MaxAttempts
        BY <3>1, <4>1, <4>2
      <4>4. QED
        BY <4>3 DEF AttemptsBounded
    <3>6. \A q \in Orders : (order[q].status \in {"none", "PENDING"} => order[q].attempts = 0)'
      BY <3>1 DEF JobInv
    <3>7. \A u \in Ticks \cup Admins : Active(u) => task[u].order \in Orders
      BY <1>a
    <3>8. QED
      BY <2>1, <3>1, <3>2, <3>3, <3>4, <3>5, <3>6, <3>7, <1>a
      DEF JobInv, Active, StatusOf, Sending
  <2>3. CASE order[o].status # "none"
    <3>1. order' = order /\ task'[t].pc = "idle"
      BY <1>2, <2>3, <1>a DEF JobInsert, Finish, Idle
    <3>2. QED
      BY <3>1, <2>1, <1>a, JobQuietStep
  <2>4. QED
    BY <2>2, <2>3
<1>3. ASSUME NEW t \in Jobs, JobReread(t) PROVE JobInv'
  <2>1. order' = order /\ \A u \in Task : u # t => task'[u] = task[u]
    BY <1>3 DEF JobReread, Begin
  <2>2. order[task[t].order].attempts = 0
    BY <1>3, <1>a DEF JobReread, JobInv, StatusOf, Active
  <2>3. task'[t].pc = "send" /\ task'[t].prev < MaxAttempts
    BY <1>3, <1>a, <2>2, PolicyAssumption DEF JobReread, Begin
  <2>4. QED
    BY <2>1, <2>3, <1>a, JobQuietStep
<1>4. ASSUME NEW t \in Ticks, NEW o \in Orders, TickClaim(t, o) PROVE JobInv'
  <2>1. \A q \in Orders : order'[q].status = order[q].status /\ order'[q].attempts = order[q].attempts
    BY <1>4 DEF TickClaim, Row
  <2>2. \A u \in Task : u # t => task'[u] = task[u]
    BY <1>4 DEF TickClaim, Begin
  <2>3. task'[t].pc = "gate" /\ task'[t].order = o /\ order[o].status = "FAILED"
    BY <1>4, <1>a DEF TickClaim, Begin, Claimable
  <2>4. \A u \in Task : Active(u) => order'[task[u].order].status = order[task[u].order].status
    BY <2>1
  <2>5. QED
    BY <2>1, <2>2, <2>3, <2>4, <1>a DEF JobInv, Active, StatusOf, Sending, AttemptsBounded
<1>5. ASSUME NEW t \in Ticks, TickBlocked(t) PROVE JobInv'
  <2>1. task[t].order \in Orders
    BY <1>5, <1>a DEF TickBlocked, Active
  <2>2. QED
    BY <1>5, <2>1, <1>a, JobRowStep DEF TickBlocked, Finish, Idle, Row
<1>6. ASSUME NEW t \in Ticks, TickAllowed(t) PROVE JobInv'
  <2>1. task'[t].pc = "read" /\ task'[t].order = task[t].order
    BY <1>6, <1>a DEF TickAllowed, Goto, Activity
  <2>2. order' = order /\ \A u \in Task : u # t => task'[u] = task[u]
    BY <1>6 DEF TickAllowed, Goto
  <2>3. order[task[t].order].status \in {"FAILED", "SENT"}
    BY <1>6 DEF TickAllowed, JobInv, Active, StatusOf
  <2>4. QED
    BY <2>1, <2>2, <2>3, <1>a, JobQuietStep
<1>7. ASSUME NEW t \in Admins, NEW o \in Orders, AdminLookup(t, o) PROVE JobInv'
  <2>1. task'[t].pc = "reset" /\ task'[t].order = o /\ order[o].status = "FAILED"
    BY <1>7, <1>a DEF AdminLookup, Begin
  <2>2. order' = order /\ \A u \in Task : u # t => task'[u] = task[u]
    BY <1>7 DEF AdminLookup, Begin
  <2>3. QED
    BY <2>1, <2>2, <1>a, JobQuietStep
<1>8. ASSUME NEW t \in Admins, AdminReset(t) PROVE JobInv'
  <2>1. task[t].order \in Orders
    BY <1>8, <1>a DEF AdminReset, Active
  <2>2. order' = [order EXCEPT ![task[t].order] = Due(order[task[t].order])]
    BY <1>8 DEF AdminReset
  <2>3. /\ Due(order[task[t].order]).status = order[task[t].order].status
        /\ Due(order[task[t].order]).attempts = 0
    BY <2>1 DEF Due, Row
  <2>4. \A u \in Task : u # t => task'[u] = task[u]
    BY <1>8 DEF AdminReset, Goto
  <2>5. task'[t].pc = "read" /\ task'[t].order = task[t].order /\ Active(t)
    BY <1>8, <1>a DEF AdminReset, Goto, Activity, Active
  <2>6. QED
    BY <2>1, <2>2, <2>3, <2>4, <2>5, <1>a, JobRowStep
<1>9. ASSUME NEW t \in Ticks \cup Admins, RetryRead(t) PROVE JobInv'
  <2>1. order' = order /\ \A u \in Task : u # t => task'[u] = task[u]
    BY <1>9 DEF RetryRead, Begin, Goto, Finish
  <2>2. order[task[t].order].status \in {"FAILED", "SENT"}
    BY <1>9 DEF RetryRead, JobInv, Active, StatusOf
  <2>3. \/ task'[t].pc = "idle"
        \/ /\ task'[t].pc \in {"send", "cancel"}
           /\ task'[t].order = task[t].order
           /\ task'[t].pc = "send" => task'[t].prev < MaxAttempts
    BY <1>9, <1>a DEF RetryRead, Begin, Goto, Finish, Idle, Activity
  <2>4. QED
    BY <2>1, <2>2, <2>3, <1>a, JobQuietStep
<1>10. ASSUME NEW t \in Ticks \cup Admins, CancelRetry(t) PROVE JobInv'
  <2>1. task[t].order \in Orders
    BY <1>10, <1>a DEF CancelRetry, Active
  <2>2. QED
    BY <1>10, <2>1, <1>a, JobRowStep DEF CancelRetry, Finish, Idle, Row
<1>11. ASSUME NEW t \in Task, NEW r \in Outcomes, Send(t, r) PROVE JobInv'
  <2>1. order' = order /\ \A u \in Task : u # t => task'[u] = task[u]
    BY <1>11 DEF Send
  <2>2. /\ task'[t].pc = "persist"
        /\ task'[t].order = task[t].order
        /\ task'[t].prev = task[t].prev
    BY <1>11 DEF Send, Activity
  <2>3. task[t].prev < MaxAttempts
    BY <1>11 DEF Send, JobInv, Sending
  <2>4. t \in Ticks \cup Admins => order[task[t].order].status \in {"FAILED", "SENT"}
    BY <1>11 DEF Send, JobInv, Active, StatusOf
  <2>5. QED
    BY <2>1, <2>2, <2>3, <2>4, JobQuietStep
<1>12. ASSUME NEW t \in Task, Persist(t) PROVE JobInv'
  <2> PICK o \in Orders, n \in Nat : o = task[t].order /\ n = task[t].prev + 1
    BY <1>12, <1>a DEF Persist, Active, Activity
  <2>1. (\A u \in Task : u # t => task'[u] = task[u]) /\ task'[t].pc = "idle"
    BY <1>12 DEF Persist, Finish, Idle
  <2>2. CASE WinsRace(t)
    <3>1. order' = [order EXCEPT ![o] = Settle(n, task[t].result)]
      BY <1>12, <2>2 DEF Persist
    <3>2. order'[o].status \in {"FAILED", "SENT"} /\ order'[o].attempts = n
      BY <3>1 DEF Settle
    <3>3. \A q \in Orders : q # o => order'[q] = order[q]
      BY <3>1
    <3>4. n <= MaxAttempts
      BY <1>12, PolicyAssumption, <1>a DEF Persist, JobInv, Sending, Activity
    <3>5. AttemptsBounded'
      BY <3>2, <3>3, <3>4 DEF JobInv, AttemptsBounded
    <3>6. \A u \in Task : Active(u) => task[u].order \in Orders
      OBVIOUS
    <3>7. ASSUME NEW u \in Jobs, task'[u].pc = "reread" PROVE StatusOf(u)' = "PENDING"
      <4>1. u # t /\ task[u].pc = "reread" /\ task'[u] = task[u]
        BY <3>7, <2>1, <1>a
      <4>2. StatusOf(u) = "PENDING" /\ task[u].order \in Orders
        BY <4>1, <1>a DEF JobInv, Active
      <4>3. t \in Ticks \cup Admins
        BY <4>1, <1>a DEF OneJob
      <4>4. order[o].status \in {"FAILED", "SENT"}
        BY <4>3, <1>12 DEF Persist, JobInv, Active, StatusOf
      <4>5. QED
        BY <4>1, <4>2, <4>4, <3>3 DEF StatusOf
    <3>8. \A u \in Ticks \cup Admins :
            Active(u)' => task'[u].pc \notin {"insert", "reread"} /\ StatusOf(u)' \in {"FAILED", "SENT"}
      BY <2>1, <3>2, <3>3, <3>6, <1>a DEF JobInv, Active, StatusOf
    <3>9. QED
      BY <2>1, <3>2, <3>3, <3>5, <3>7, <3>8, <1>a DEF JobInv, Sending
  <2>3. CASE ~WinsRace(t)
    <3>1. order' = order
      BY <1>12, <2>3 DEF Persist
    <3>2. QED
      BY <3>1, <2>1, JobQuietStep
  <2>4. QED
    BY <2>2, <2>3
<1>13. ASSUME NEW t \in Task, Crash(t) PROVE JobInv'
  <2>1. order' = order /\ task'[t].pc = "idle" /\ \A u \in Task : u # t => task'[u] = task[u]
    BY <1>13 DEF Crash, Finish, Idle
  <2>2. QED
    BY <2>1, JobQuietStep
<1>14. ASSUME NEW o \in Orders, AdminRetryAll(o) PROVE JobInv'
  <2>1. /\ order' = [order EXCEPT ![o] = Due(order[o])]
        /\ task' = task
    BY <1>14 DEF AdminRetryAll
  <2>2. Due(order[o]).status = order[o].status /\ Due(order[o]).attempts = 0
    BY DEF Due, Row
  <2>3. QED
    BY <2>1, <2>2, JobRowStep
<1>15. ASSUME NEW o \in Orders, TimePasses(o) PROVE JobInv'
  <2>1. /\ order' = [order EXCEPT ![o] = [order[o] EXCEPT !.retryAt = "due"]]
        /\ task' = task
    BY <1>15 DEF TimePasses
  <2>2. /\ [order[o] EXCEPT !.retryAt = "due"].status = order[o].status
        /\ [order[o] EXCEPT !.retryAt = "due"].attempts = order[o].attempts
    BY DEF Row
  <2>3. QED
    BY <2>1, <2>2, JobRowStep
<1>16. CASE UNCHANGED <<order, task>>
  BY <1>16 DEF JobInv, Active, StatusOf, Sending, AttemptsBounded
<1>17. ASSUME NEW t \in Task, LoseReply(t) PROVE JobInv'
  <2>1. order' = order /\ \A u \in Task : u # t => task'[u] = task[u]
    BY <1>17 DEF LoseReply
  <2>2. /\ task'[t].pc = "persist"
        /\ task'[t].order = task[t].order
        /\ task'[t].prev = task[t].prev
    BY <1>17 DEF LoseReply, Activity
  <2>3. task[t].prev < MaxAttempts
    BY <1>17 DEF LoseReply, JobInv, Sending
  <2>4. t \in Ticks \cup Admins => order[task[t].order].status \in {"FAILED", "SENT"}
    BY <1>17 DEF LoseReply, JobInv, Active, StatusOf
  <2>5. QED
    BY <2>1, <2>2, <2>3, <2>4, JobQuietStep
<1>18. QED
  BY <1>1, <1>2, <1>3, <1>4, <1>5, <1>6, <1>7, <1>8, <1>9, <1>10, <1>11, <1>12,
     <1>13, <1>14, <1>15, <1>16, <1>17, <1>a
  DEF Next, JobStep, TickStep, AdminStep, RetryStep, SendStep, EnvironmentStep,
      TargetChanges, vars

\* ORDER_MAX_DELIVERY_ATTEMPTS bounds the attempts column for any number of
\* schedulers, admins and crashes, although the UPDATE that increments it
\* never checks the limit: every decision to send was taken below it.
THEOREM AttemptsStayBounded == ASSUME OneJob PROVE Spec => []AttemptsBounded
<1>1. JobInv => AttemptsBounded
  BY DEF JobInv
<1>2. TypeOK /\ JobInv /\ [Next]_vars => JobInv'
  BY JobStepPreserves
<1>3. QED
  BY <1>1, <1>2, JobInit, TypeCorrect, PTL DEF Spec

-----------------------------------------------------------------------------
(* SENT is final *)

\* No call of retryOrder is under way.
AdminsIdle == \A t \in Admins : task[t].pc = "idle"

\* What a sender remembers is never ahead of its row, and is out of date once
\* the row is SENT; then the optimistic lock turns the sender away.
LockInv ==
  \A t \in Task :
    Sending(t) =>
      LET row == order[task[t].order] IN
      /\ task[t].prev <= row.attempts
      /\ row.status = "SENT" => task[t].prev < row.attempts

LEMMA LockInit == Init => LockInv
BY DEF Init, LockInv, Idle, Sending

\* A step that leaves status and attempts of every row alone, and lets a task
\* send only with the current attempts of a row that is not SENT.
LEMMA LockQuietStep ==
  ASSUME TypeOK, LockInv,
         \A q \in Orders : /\ order'[q].status = order[q].status
                           /\ order'[q].attempts = order[q].attempts,
         \A u \in Task :
           \/ task'[u].pc \notin {"send", "persist"}
           \/ Sending(u) /\ task'[u].order = task[u].order /\ task'[u].prev = task[u].prev
           \/ /\ task'[u].order \in Orders
              /\ task'[u].prev = order[task'[u].order].attempts
              /\ order[task'[u].order].status # "SENT"
  PROVE  LockInv'
<1>1. \A u \in Task : Sending(u) => task[u].order \in Orders
  BY DEF TypeOK, Sending, Active
<1>2. \A q \in Orders : order[q].attempts \in Nat
  BY DEF TypeOK, Row
<1>3. SUFFICES ASSUME NEW u \in Task, Sending(u)'
               PROVE  /\ task'[u].prev <= order'[task'[u].order].attempts
                      /\ order'[task'[u].order].status = "SENT" =>
                           task'[u].prev < order'[task'[u].order].attempts
  BY DEF LockInv
<1>4. CASE Sending(u) /\ task'[u].order = task[u].order /\ task'[u].prev = task[u].prev
  BY <1>1, <1>4 DEF LockInv
<1>5. CASE /\ task'[u].order \in Orders
           /\ task'[u].prev = order[task'[u].order].attempts
           /\ order[task'[u].order].status # "SENT"
  BY <1>2, <1>5
<1>6. QED
  BY <1>3, <1>4, <1>5 DEF Sending

\* Resets are counted when they begin and never uncounted.
LEMMA NotReset == TypeOK /\ [Next]_vars /\ resets' = 0 => resets = 0
<1> SUFFICES ASSUME TypeOK, [Next]_vars, resets # 0 PROVE resets' # 0
  OBVIOUS
<1>a. resets \in Nat
  BY DEF TypeOK
<1>1. ASSUME resets' = resets \/ resets' = resets + 1 PROVE resets' # 0
  BY <1>a, <1>1
<1>2. ASSUME NEW t \in Task, JobStep(t) \/ TickStep(t) \/ RetryStep(t) PROVE resets' = resets
  BY <1>2 DEF JobStep, JobLookup, JobInsert, JobReread, TickStep, TickClaim,
    TickBlocked, TickAllowed, RetryStep, RetryRead, CancelRetry
<1>3. ASSUME NEW t \in Task, SendStep(t) \/ Crash(t) PROVE resets' = resets
  BY <1>3 DEF SendStep, Send, LoseReply, Persist, Crash
<1>4. ASSUME NEW t \in Admins, AdminStep(t) PROVE resets' = resets \/ resets' = resets + 1
  BY <1>4 DEF AdminStep, AdminLookup, AdminReset
<1>5. ASSUME NEW o \in Orders, EnvironmentStep(o) PROVE resets' = resets \/ resets' = resets + 1
  BY <1>5 DEF EnvironmentStep, AdminRetryAll, TimePasses, TargetChanges
<1>6. QED
  BY <1>1, <1>2, <1>3, <1>4, <1>5 DEF Next, Task, vars

LEMMA AdminsIdleStep ==
  TypeOK /\ AdminsIdle /\ [Next]_vars /\ resets' = 0 => AdminsIdle'
<1> SUFFICES ASSUME TypeOK, AdminsIdle, [Next]_vars, resets' = 0, NEW a \in Admins
             PROVE  task'[a].pc = "idle"
  BY DEF AdminsIdle
<1>a. a \in Task /\ a \notin Jobs /\ a \notin Ticks /\ task[a].pc = "idle" /\ resets = 0
  BY DeliveryAssumption, NotReset DEF Task, AdminsIdle
<1>b. SUFFICES task'[a] = task[a]
  BY <1>a
<1>1. ASSUME NEW t \in Jobs, JobStep(t) PROVE task'[a] = task[a]
  BY <1>1, <1>a DEF JobStep, JobLookup, JobInsert, JobReread, Begin, Goto, Finish, TypeOK
<1>2. ASSUME NEW t \in Ticks, TickStep(t) PROVE task'[a] = task[a]
  BY <1>2, <1>a DEF TickStep, TickClaim, TickBlocked, TickAllowed, Begin, Goto, Finish, TypeOK
<1>3. ASSUME NEW t \in Admins, AdminStep(t) PROVE FALSE
  BY <1>3, <1>a DEF AdminStep, AdminLookup, AdminReset, AdminsIdle
<1>4. ASSUME NEW t \in Ticks \cup Admins, RetryStep(t) PROVE task'[a] = task[a]
  BY <1>4, <1>a DEF RetryStep, RetryRead, CancelRetry, Begin, Goto, Finish, TypeOK, AdminsIdle
<1>5. ASSUME NEW t \in Task, SendStep(t) \/ Crash(t) PROVE task'[a] = task[a]
  BY <1>5, <1>a DEF SendStep, Send, LoseReply, Persist, Crash, Active, Finish, TypeOK
<1>6. CASE UNCHANGED task
  BY <1>6
<1>7. ASSUME NEW o \in Orders, EnvironmentStep(o) PROVE task' = task
  BY <1>7 DEF EnvironmentStep, AdminRetryAll, TimePasses, TargetChanges
<1>8. QED
  BY <1>1, <1>2, <1>3, <1>4, <1>5, <1>6, <1>7 DEF Next, vars

LEMMA LockStep ==
  ASSUME OneJob
  PROVE  TypeOK /\ JobInv /\ LockInv /\ AdminsIdle /\ [Next]_vars /\ resets' = 0 => LockInv'
<1> SUFFICES ASSUME TypeOK, JobInv, LockInv, AdminsIdle, [Next]_vars, resets' = 0
             PROVE  LockInv'
  OBVIOUS
<1> USE DEF TypeOK
<1>a. /\ Jobs \subseteq Task /\ Ticks \subseteq Task /\ Jobs \cap Ticks = {}
      /\ \A t \in Task : Active(t) => t \in Jobs \cup Ticks
  BY DeliveryAssumption DEF Task, AdminsIdle, Active
<1>1. ASSUME NEW t \in Jobs, NEW o \in Orders, JobLookup(t, o) PROVE LockInv'
  BY <1>1, <1>a, LockQuietStep DEF JobLookup, Begin, OpenToRun, Sending
<1>2. ASSUME NEW t \in Jobs, JobInsert(t) PROVE LockInv'
  <2> PICK o \in Orders : o = task[t].order
    BY <1>2, <1>a DEF JobInsert, Active
  <2>1. \A u \in Task : u # t => task'[u] = task[u]
    BY <1>2 DEF JobInsert, Goto, Finish
  <2>2. task'[t].pc \in {"reread", "idle"}
    BY <1>2, <1>a DEF JobInsert, Goto, Finish, Idle, Activity
  <2>3. \A q \in Orders : order[q].status # "none" => order'[q] = order[q]
    BY <1>2 DEF JobInsert
  <2>4. ASSUME NEW u \in Task, u # t, Sending(u)
        PROVE  task[u].order \in Orders /\ (order[task[u].order].status # "none" \/ task[u].order # o)
    <3>1. u \in Ticks /\ Active(u) /\ task[u].order \in Orders
      BY <2>4, <1>a DEF OneJob, Sending, Active
    <3>2. QED
      BY <3>1 DEF JobInv, StatusOf
  <2>5. \A q \in Orders : q # o => order'[q] = order[q]
    BY <1>2 DEF JobInsert
  <2>6. ASSUME NEW u \in Task, Sending(u)'
        PROVE  /\ u # t /\ Sending(u) /\ task'[u] = task[u]
               /\ order'[task[u].order] = order[task[u].order]
    <3>1. u # t /\ Sending(u) /\ task'[u] = task[u]
      BY <2>1, <2>2, <2>6 DEF Sending
    <3>2. QED
      BY <3>1, <2>3, <2>4, <2>5
  <2>7. QED
    BY <2>6 DEF LockInv
<1>3. ASSUME NEW t \in Jobs, JobReread(t) PROVE LockInv'
  <2>1. task[t].order \in Orders /\ order[task[t].order].status = "PENDING"
    BY <1>3, <1>a DEF JobReread, JobInv, StatusOf, Active
  <2>2. QED
    BY <1>3, <2>1, <1>a, LockQuietStep DEF JobReread, Begin, Sending
<1>4. ASSUME NEW t \in Ticks, NEW o \in Orders, TickClaim(t, o) PROVE LockInv'
  <2>1. \A q \in Orders : order'[q].status = order[q].status /\ order'[q].attempts = order[q].attempts
    BY <1>4 DEF TickClaim, Row
  <2>2. QED
    BY <1>4, <2>1, <1>a, LockQuietStep DEF TickClaim, Begin, Sending
<1>5. ASSUME NEW t \in Ticks, TickBlocked(t) PROVE LockInv'
  <2>1. \A q \in Orders : order'[q].status = order[q].status /\ order'[q].attempts = order[q].attempts
    BY <1>5 DEF TickBlocked, Row
  <2>2. QED
    BY <1>5, <2>1, <1>a, LockQuietStep DEF TickBlocked, Finish, Idle, Sending
<1>6. ASSUME NEW t \in Ticks, TickAllowed(t) PROVE LockInv'
  BY <1>6, <1>a, LockQuietStep DEF TickAllowed, Goto, Activity, Sending
<1>7. ASSUME NEW t \in Ticks, RetryRead(t) PROVE LockInv'
  <2>1. order' = order /\ \A u \in Task : u # t => task'[u] = task[u]
    BY <1>7 DEF RetryRead, Begin, Goto, Finish
  <2>2. task[t].order \in Orders
    BY <1>7, <1>a DEF RetryRead, Active
  <2>3. \/ task'[t].pc \notin {"send", "persist"}
        \/ /\ task'[t].order = task[t].order
           /\ task'[t].prev = order[task[t].order].attempts
           /\ order[task[t].order].status = "FAILED"
    BY <1>7, <1>a DEF RetryRead, Begin, Goto, Finish, Idle, Activity
  <2>4. QED
    BY <2>1, <2>2, <2>3, LockQuietStep DEF Sending
<1>8. ASSUME NEW t \in Ticks, CancelRetry(t) PROVE LockInv'
  <2>1. \A q \in Orders : order'[q].status = order[q].status /\ order'[q].attempts = order[q].attempts
    BY <1>8 DEF CancelRetry, Row
  <2>2. QED
    BY <1>8, <2>1, <1>a, LockQuietStep DEF CancelRetry, Finish, Idle, Sending
<1>9. ASSUME NEW t \in Task, NEW r \in Outcomes, Send(t, r) PROVE LockInv'
  BY <1>9, LockQuietStep DEF Send, Activity, Sending
<1>10. ASSUME NEW t \in Task, Persist(t) PROVE LockInv'
  <2> PICK o \in Orders, n \in Nat : o = task[t].order /\ n = task[t].prev
    BY <1>10 DEF Persist, Active, Activity
  <2>1. (\A u \in Task : u # t => task'[u] = task[u]) /\ task'[t].pc = "idle"
    BY <1>10 DEF Persist, Finish, Idle
  <2>2. CASE WinsRace(t)
    <3>1. order' = [order EXCEPT ![o] = Settle(n + 1, task[t].result)] /\ order[o].attempts = n
      BY <1>10, <2>2 DEF Persist, WinsRace
    <3>2. order'[o].attempts = n + 1 /\ \A q \in Orders : q # o => order'[q] = order[q]
      BY <3>1 DEF Settle
    <3>3. ASSUME NEW u \in Task, Sending(u)'
          PROVE  /\ task'[u].prev <= order'[task'[u].order].attempts
                 /\ order'[task'[u].order].status = "SENT" =>
                      task'[u].prev < order'[task'[u].order].attempts
      <4>1. Sending(u) /\ task'[u] = task[u] /\ task[u].order \in Orders /\ task[u].prev \in Nat
        BY <3>3, <2>1 DEF Sending, Active, Activity
      <4>2. CASE task[u].order = o
        <5>1. task[u].prev <= n
          BY <4>1, <4>2, <3>1 DEF LockInv
        <5>2. QED
          BY <4>1, <4>2, <3>2, <5>1
      <4>3. CASE task[u].order # o
        BY <4>1, <4>3, <3>2 DEF LockInv
      <4>4. QED
        BY <4>2, <4>3
    <3>4. QED
      BY <3>3 DEF LockInv
  <2>3. CASE ~WinsRace(t)
    <3>1. order' = order
      BY <1>10, <2>3 DEF Persist
    <3>2. QED
      BY <3>1, <2>1, LockQuietStep DEF Sending
  <2>4. QED
    BY <2>2, <2>3
<1>11. ASSUME NEW t \in Task, Crash(t) PROVE LockInv'
  BY <1>11, LockQuietStep DEF Crash, Finish, Idle, Sending
<1>12. ASSUME NEW o \in Orders, TimePasses(o) PROVE LockInv'
  <2>1. \A q \in Orders : order'[q].status = order[q].status /\ order'[q].attempts = order[q].attempts
    BY <1>12 DEF TimePasses, Row
  <2>2. QED
    BY <1>12, <2>1, LockQuietStep DEF TimePasses, Sending
<1>13. CASE UNCHANGED <<order, task>>
  BY <1>13 DEF LockInv, Sending
<1>14. ASSUME NEW o \in Orders PROVE ~AdminRetryAll(o)
  BY NotReset DEF AdminRetryAll
<1>15. ASSUME NEW t \in Admins PROVE ~AdminStep(t)
  BY NotReset DEF AdminStep, AdminLookup, AdminReset, AdminsIdle
<1>16. ASSUME NEW t \in Admins PROVE ~RetryStep(t)
  BY DEF RetryStep, RetryRead, CancelRetry, AdminsIdle
<1>17. ASSUME NEW t \in Task, LoseReply(t) PROVE LockInv'
  BY <1>17, LockQuietStep DEF LoseReply, Activity, Sending
<1>18. QED
  BY <1>1, <1>2, <1>3, <1>4, <1>5, <1>6, <1>7, <1>8, <1>9, <1>10, <1>11, <1>12,
     <1>13, <1>14, <1>15, <1>16, <1>17
  DEF Next, JobStep, TickStep, AdminStep, RetryStep, SendStep, EnvironmentStep,
      TargetChanges, vars

\* No step of any task rewrites the status of a SENT row.
LEMMA SentStays ==
  TypeOK /\ LockInv /\ [Next]_vars =>
    [\A o \in Orders : order[o].status = "SENT" => order'[o].status = "SENT"]_vars
<1> SUFFICES ASSUME TypeOK, LockInv, Next, NEW o \in Orders, order[o].status = "SENT"
             PROVE  order'[o].status = "SENT"
  BY DEF vars
<1> USE DEF TypeOK
<1>1. ASSUME NEW t \in Task, Persist(t) PROVE order'[o].status = "SENT"
  <2>1. task[t].order \in Orders /\ task[t].prev \in Nat /\ order[o].attempts \in Nat
    BY <1>1 DEF Persist, Active, Activity, Row
  <2>2. task[t].order = o => task[t].prev < order[o].attempts
    BY <1>1 DEF Persist, LockInv, Sending
  <2>3. task[t].order = o => ~WinsRace(t)
    BY <2>1, <2>2 DEF WinsRace
  <2>4. QED
    BY <1>1, <2>1, <2>3 DEF Persist
<1>2. ASSUME NEW t \in Task, JobInsert(t) PROVE order'[o].status = "SENT"
  BY <1>2 DEF JobInsert, Active
<1>3. ASSUME NEW t \in Task, NEW q \in Orders, TickClaim(t, q) PROVE order'[o].status = "SENT"
  BY <1>3 DEF TickClaim, Row
<1>4. ASSUME NEW t \in Task, TickBlocked(t) PROVE order'[o].status = "SENT"
  BY <1>4 DEF TickBlocked, Row
<1>5. ASSUME NEW t \in Task, AdminReset(t) PROVE order'[o].status = "SENT"
  BY <1>5 DEF AdminReset, Due, Row
<1>6. ASSUME NEW t \in Task, CancelRetry(t) PROVE order'[o].status = "SENT"
  BY <1>6 DEF CancelRetry, Row
<1>7. ASSUME NEW q \in Orders, AdminRetryAll(q) \/ TimePasses(q) PROVE order'[o].status = "SENT"
  BY <1>7 DEF AdminRetryAll, TimePasses, Due, Row
<1>8. ASSUME order' = order PROVE order'[o].status = "SENT"
  BY <1>8
<1>9. QED
  BY <1>1, <1>2, <1>3, <1>4, <1>5, <1>6, <1>7, <1>8
  DEF Next, JobStep, TickStep, AdminStep, RetryStep, SendStep, EnvironmentStep, Task,
      JobLookup, JobReread, TickAllowed, AdminLookup, RetryRead, Send, LoseReply, TargetChanges, Crash

\* A delivered order stays delivered, however many runs of processLead and
\* schedulers touch it, until an admin sets attempts back to 0: up to then the
\* value the optimistic lock compares is never used twice.
THEOREM SentStaysSent == ASSUME OneJob PROVE Spec => SentIsFinal
<1> DEFINE Unreset == resets = 0 => LockInv /\ AdminsIdle
<1>1. Init => Unreset
  BY LockInit DEF Init, AdminsIdle, Idle, Task
<1>2. TypeOK /\ JobInv /\ [Next]_vars => JobInv'
  BY JobStepPreserves
<1>3. TypeOK /\ JobInv /\ Unreset /\ [Next]_vars => Unreset'
  BY LockStep, AdminsIdleStep, NotReset
<1>4. TypeOK /\ Unreset /\ [Next]_vars =>
        [\A o \in Orders :
           order[o].status = "SENT" /\ resets = 0 => order'[o].status = "SENT"]_vars
  BY SentStays
<1>5. QED
  BY <1>1, <1>2, <1>3, <1>4, JobInit, TypeCorrect, PTL DEF Spec, SentIsFinal

-----------------------------------------------------------------------------
(* The schedulers alone *)

\* One run of processLead per order, and no admin.
SchedulersAlone == MaxRuns <= 1 /\ MaxResets = 0

\* A row in nobody's hands or somebody's.  A delivery that was heard of, and
\* not written yet, keeps the row out of the schedule.
RowOK(o) ==
  /\ runs[o] = 0 => order[o].status = "none"
  /\ order[o].status = "none" => order[o].retryAt = "null"
  /\ acked[o] # unheard[o] =>
       acked[o] = unheard[o] + 1 /\ order[o].retryAt = "null" /\ runs[o] # 0
  /\ order[o].status = "FAILED" /\ order[o].retryAt # "null" =>
       ~GivesUp(order[o].attempts, order[o].errorType)

\* A task at work has its row for itself: the row is not scheduled, and no
\* delivery of it has been heard of but the one the task will write.
TaskFits(t) ==
  Active(t) =>
    LET o == task[t].order IN
    /\ t \notin Admins
    /\ runs[o] # 0
    /\ order[o].retryAt = "null"
    /\ IF task[t].pc = "insert" THEN order[o].status = "none"
                                ELSE order[o].status \in {"PENDING", "FAILED"}
    /\ acked[o] # unheard[o] => task[t].pc = "persist" /\ task[t].result = "ok"
    /\ task[t].pc = "gate" =>
         order[o].status = "FAILED" /\ ~GivesUp(order[o].attempts, order[o].errorType)

\* The claim is exclusive, and what follows from it.
ClaimInv ==
  /\ \A t \in Task : Active(t) \/ task[t].order = NoOrder
  /\ OneTaskPerOrder
  /\ \A o \in Orders : RowOK(o)
  /\ \A t \in Task : TaskFits(t)

LEMMA ClaimInit == Init => ClaimInv
<1> SUFFICES ASSUME Init PROVE ClaimInv
  OBVIOUS
<1>1. \A t \in Task : ~Active(t) /\ task[t].order = NoOrder
  BY DEF Init, Active, Idle
<1>2. \A o \in Orders : RowOK(o)
  BY DEF Init, RowOK, NoRow
<1>3. QED
  BY <1>1, <1>2 DEF ClaimInv, OneTaskPerOrder, TaskFits

\* A step of task t on the row of o, which t works on or takes up, leaves the
\* other rows and the other tasks as they are.
OnlyOn(t, o) ==
  /\ task[t].order = o \/ \A u \in Task : task[u].order # o
  /\ task[t].order \in {o, NoOrder}
  /\ \A u \in Task : u # t => task'[u] = task[u]
  /\ task'[t].order \in {o, NoOrder}
  /\ task'[t].pc # "idle" \/ task'[t].order = NoOrder
  /\ task'[t].pc = "idle" \/ task'[t].order = o
  /\ \A q \in Orders : q # o =>
       /\ order'[q] = order[q]
       /\ runs'[q] = runs[q]
       /\ acked'[q] = acked[q]
       /\ unheard'[q] = unheard[q]

\* A step of a task at work, whichever it is, is such a step.
Work(t) ==
  \/ JobInsert(t) \/ JobReread(t)
  \/ TickBlocked(t) \/ TickAllowed(t)
  \/ RetryRead(t) \/ CancelRetry(t)
  \/ (\E r \in Outcomes : Send(t, r)) \/ LoseReply(t) \/ Persist(t)
  \/ Crash(t)

LEMMA WorkIsLocal ==
  ASSUME TypeOK, NEW t \in Task, Work(t)
  PROVE  \E o \in Orders : o = task[t].order /\ OnlyOn(t, o)
<1>1. Active(t)
  BY DEF Work, JobInsert, JobReread, TickBlocked, TickAllowed, RetryRead, CancelRetry,
    Send, LoseReply, Persist, Crash, Active
<1>2. PICK o \in Orders : o = task[t].order
  BY <1>1 DEF TypeOK
<1>3. \A u \in Task : u # t => task'[u] = task[u]
  BY DEF Work, JobInsert, JobReread, TickBlocked, TickAllowed, RetryRead, CancelRetry,
    Send, LoseReply, Persist, Crash, Begin, Goto, Finish, TypeOK
<1>4. \/ task'[t].pc = "idle" /\ task'[t].order = NoOrder
      \/ task'[t].pc # "idle" /\ task'[t].order = o
  <2>1. CASE Begin(t, o, "send", order[o].attempts)
    BY <2>1 DEF Begin, TypeOK
  <2>2. CASE \E pc \in {"reread", "read", "cancel"} : Goto(t, pc)
    BY <2>2, <1>2 DEF Goto, TypeOK, Activity
  <2>3. CASE Finish(t)
    BY <2>3 DEF Finish, Idle, TypeOK
  <2>4. CASE (\E r \in Outcomes : Send(t, r)) \/ LoseReply(t)
    BY <2>4, <1>2 DEF Send, LoseReply, TypeOK, Activity
  <2>5. QED
    BY <2>1, <2>2, <2>3, <2>4, <1>2
    DEF Work, JobInsert, JobReread, TickBlocked, TickAllowed, RetryRead, CancelRetry,
      Persist, Crash
<1>5. ASSUME NEW q \in Orders, q # o
      PROVE  /\ order'[q] = order[q] /\ runs'[q] = runs[q]
             /\ acked'[q] = acked[q] /\ unheard'[q] = unheard[q]
  BY <1>2, <1>5 DEF Work, JobInsert, JobReread, TickBlocked, TickAllowed, RetryRead,
    CancelRetry, Send, LoseReply, Persist, Crash, TypeOK
<1>6. OnlyOn(t, o)
  BY <1>2, <1>3, <1>4, <1>5 DEF OnlyOn
<1>7. QED
  BY <1>2, <1>6

\* A row that is scheduled, or was never run, is in nobody's hands.
LEMMA FreeRow ==
  ASSUME TypeOK, ClaimInv, NEW o \in Orders, NEW u \in Task,
         order[o].retryAt # "null" \/ runs[o] = 0
  PROVE  task[u].order # o
<1>1. CASE Active(u)
  BY <1>1 DEF ClaimInv, TaskFits
<1>2. CASE ~Active(u)
  BY <1>2, DeliveryAssumption DEF ClaimInv
<1>3. QED
  BY <1>1, <1>2

\* Nor is one that a task takes up.
LEMMA TakeIsLocal ==
  ASSUME SchedulersAlone, TypeOK, ClaimInv, NEW t \in Task, NEW o \in Orders,
         JobLookup(t, o) \/ TickClaim(t, o)
  PROVE  OnlyOn(t, o)
<1>1. task[t].order = NoOrder
  BY DEF JobLookup, TickClaim, ClaimInv, Active
<1>2. order[o].retryAt # "null" \/ runs[o] = 0
  BY DeliveryAssumption DEF JobLookup, TickClaim, Claimable, SchedulersAlone, TypeOK
<1>3. \A u \in Task : task[u].order # o
  BY <1>2, FreeRow
<1>4. task'[t].pc # "idle" /\ task'[t].order = o /\ \A u \in Task : u # t => task'[u] = task[u]
  BY DEF JobLookup, TickClaim, Begin, TypeOK
<1>5. \A q \in Orders : q # o =>
        /\ order'[q] = order[q] /\ runs'[q] = runs[q]
        /\ acked'[q] = acked[q] /\ unheard'[q] = unheard[q]
  BY DEF JobLookup, TickClaim, TypeOK
<1>6. QED
  BY <1>1, <1>3, <1>4, <1>5 DEF OnlyOn

LEMMA ClaimFrame ==
  ASSUME TypeOK, ClaimInv, NEW t \in Task, NEW o \in Orders, OnlyOn(t, o),
         RowOK(o)', TaskFits(t)'
  PROVE  ClaimInv'
<1>a. NoOrder \notin Orders /\ \A u \in Task : Active(u) => task[u].order \in Orders
  BY DeliveryAssumption DEF TypeOK
<1>b. \A u \in Task : u # t => task'[u] = task[u] /\ task[u].order # o
  <2>1. CASE Active(t) /\ task[t].order = o
    BY <2>1 DEF OnlyOn, ClaimInv, OneTaskPerOrder
  <2>2. CASE \A u \in Task : task[u].order # o
    BY <2>2 DEF OnlyOn
  <2>3. QED
    BY <2>1, <2>2, <1>a DEF OnlyOn, ClaimInv
<1>1. \A u \in Task : Active(u)' \/ task'[u].order = NoOrder
  BY <1>b DEF OnlyOn, ClaimInv, Active
<1>2. OneTaskPerOrder'
  <2> SUFFICES ASSUME NEW u \in Task, NEW v \in Task, Active(u)', task'[v].order = task'[u].order
               PROVE  u = v
    BY DEF OneTaskPerOrder
  <2>1. CASE u = t
    BY <2>1, <1>a, <1>b DEF OnlyOn, Active
  <2>2. CASE u # t /\ v = t
    BY <2>2, <1>a, <1>b DEF OnlyOn, Active
  <2>3. CASE u # t /\ v # t
    BY <2>3, <1>b DEF ClaimInv, OneTaskPerOrder, Active
  <2>4. QED
    BY <2>1, <2>2, <2>3
<1>3. \A q \in Orders : RowOK(q)'
  BY DEF OnlyOn, ClaimInv, RowOK
<1>4. ASSUME NEW u \in Task, u # t PROVE TaskFits(u)'
  <2> SUFFICES ASSUME Active(u)' PROVE TaskFits(u)'
    BY DEF TaskFits
  <2>1. Active(u) /\ TaskFits(u) /\ task'[u] = task[u]
    BY <1>b, <1>4 DEF Active, ClaimInv
  <2> DEFINE q == task[u].order
  <2>2. q \in Orders /\ q # o
    BY <2>1, <1>a, <1>b, <1>4
  <2>3. order'[q] = order[q] /\ runs'[q] = runs[q] /\ acked'[q] = acked[q] /\ unheard'[q] = unheard[q]
    BY <2>2 DEF OnlyOn
  <2> HIDE DEF q
  <2>4. QED
    BY <2>1, <2>3 DEF TaskFits, q
<1>5. QED
  BY <1>1, <1>2, <1>3, <1>4 DEF ClaimInv

LEMMA ClaimStep ==
  ASSUME SchedulersAlone PROVE TypeOK /\ ClaimInv /\ [Next]_vars => ClaimInv'
<1> SUFFICES ASSUME TypeOK, ClaimInv, [Next]_vars PROVE ClaimInv'
  OBVIOUS
<1>a. /\ NoOrder \notin Orders
      /\ Jobs \cap Admins = {} /\ Ticks \cap Admins = {}
      /\ Jobs \subseteq Task /\ Ticks \subseteq Task /\ Admins \subseteq Task
  BY DeliveryAssumption DEF Task
<1>b. \A t \in Task : Active(t) => task[t].order \in Orders /\ TaskFits(t) /\ RowOK(task[t].order)
  BY DEF TypeOK, ClaimInv
<1>c. \A o \in Orders : order[o] \in Row /\ runs[o] \in Nat /\ acked[o] \in Nat /\ unheard[o] \in Nat
  BY DEF TypeOK
<1>1. ASSUME NEW t \in Jobs, NEW o \in Orders, JobLookup(t, o) PROVE ClaimInv'
  <2>1. runs[o] = 0 /\ order[o].status = "none" /\ RowOK(o)
    BY <1>1, <1>c, DeliveryAssumption DEF JobLookup, SchedulersAlone, ClaimInv, RowOK
  <2>2. /\ task' = [task EXCEPT ![t] = [pc |-> "insert", order |-> o, prev |-> 0,
                                        result |-> "undefined"]]
        /\ runs' = [runs EXCEPT ![o] = runs[o] + 1]
        /\ order' = order /\ acked' = acked /\ unheard' = unheard
    BY <1>1, <2>1 DEF JobLookup, Begin, OpenToRun
  <2>3. task'[t].pc = "insert" /\ task'[t].order = o
    BY <2>2, <1>a DEF TypeOK
  <2>4. OnlyOn(t, o)
    BY <1>1, <1>a, TakeIsLocal
  <2>5. runs'[o] # 0
    BY <2>2, <1>c DEF TypeOK
  <2>6. RowOK(o)' /\ TaskFits(t)'
    BY <2>1, <2>2, <2>3, <2>5, <1>a DEF RowOK, TaskFits
  <2>7. QED
    BY <2>4, <2>6, <1>a, ClaimFrame
<1>2. ASSUME NEW t \in Jobs, JobInsert(t) PROVE ClaimInv'
  <2>0. PICK o \in Orders : o = task[t].order /\ OnlyOn(t, o)
    BY <1>2, <1>a, WorkIsLocal DEF Work
  <2>1. order[o].status = "none" /\ TaskFits(t) /\ RowOK(o)
    BY <2>0, <1>2, <1>a, <1>b DEF JobInsert, Active, TaskFits
  <2>2. order' = [order EXCEPT ![o] = NewRow] /\ task' = [task EXCEPT ![t].pc = "reread"]
    BY <2>0, <1>2, <2>1 DEF JobInsert, Goto
  <2>3. task'[t].pc = "reread" /\ task'[t].order = o
    BY <2>0, <2>2, <1>a DEF TypeOK, Activity
  <2>5. order'[o].status = "PENDING" /\ order'[o].retryAt = "null"
    BY <2>0, <2>1, <2>2 DEF TypeOK, NewRow, NoRow
  <2>6. RowOK(o)' /\ TaskFits(t)'
    BY <2>0, <1>2, <2>1, <2>3, <2>5 DEF RowOK, TaskFits, JobInsert, Active
  <2>7. QED
    BY <2>1, <2>0, <2>6, <1>a, ClaimFrame
<1>3. ASSUME NEW t \in Jobs, JobReread(t) PROVE ClaimInv'
  <2>0. PICK o \in Orders : o = task[t].order /\ OnlyOn(t, o)
    BY <1>3, <1>a, WorkIsLocal DEF Work
  <2>1. TaskFits(t) /\ RowOK(o)
    BY <2>0, <1>3, <1>a, <1>b DEF JobReread, Active
  <2>2. task'[t].pc = "send" /\ task'[t].order = o
    BY <2>0, <1>3, <1>a DEF JobReread, Begin, TypeOK
  <2>4. RowOK(o)' /\ TaskFits(t)'
    BY <2>0, <1>3, <2>1, <2>2 DEF RowOK, TaskFits, JobReread, Active
  <2>5. QED
    BY <2>1, <2>0, <2>4, <1>a, ClaimFrame
<1>4. ASSUME NEW t \in Ticks, NEW o \in Orders, TickClaim(t, o) PROVE ClaimInv'
  <2>1. /\ order[o].status = "FAILED" /\ order[o].retryAt = "due"
        /\ RowOK(o) /\ runs[o] # 0 /\ acked[o] = unheard[o]
        /\ ~GivesUp(order[o].attempts, order[o].errorType)
    BY <1>4 DEF TickClaim, Claimable, ClaimInv, RowOK
  <2>2. task'[t].pc = "gate" /\ task'[t].order = o
    BY <1>4, <1>a DEF TickClaim, Begin, TypeOK
  <2>3. OnlyOn(t, o)
    BY <1>4, <1>a, TakeIsLocal
  <2>4. /\ order'[o].status = order[o].status /\ order'[o].retryAt = "null"
        /\ order'[o].attempts = order[o].attempts /\ order'[o].errorType = order[o].errorType
    BY <1>4, <1>c DEF TickClaim, TypeOK, Row
  <2>5. RowOK(o)' /\ TaskFits(t)'
    BY <1>4, <2>1, <2>2, <2>4, <1>a DEF RowOK, TaskFits, TickClaim
  <2>6. QED
    BY <2>3, <2>5, <1>a, ClaimFrame
<1>5. ASSUME NEW t \in Ticks, TickBlocked(t) PROVE ClaimInv'
  <2>0. PICK o \in Orders : o = task[t].order /\ OnlyOn(t, o)
    BY <1>5, <1>a, WorkIsLocal DEF Work
  <2>1. TaskFits(t) /\ RowOK(o)
    BY <2>0, <1>5, <1>a, <1>b DEF TickBlocked, Active
  <2>2. task'[t].pc = "idle" /\ task'[t].order = NoOrder
    BY <2>0, <1>5, <1>a DEF TickBlocked, Finish, Idle, TypeOK
  <2>4. /\ order'[o].status = order[o].status
        /\ order'[o].attempts = order[o].attempts /\ order'[o].errorType = order[o].errorType
    BY <2>0, <1>5, <2>1, <1>c DEF TickBlocked, TypeOK, Row
  <2>5. RowOK(o)' /\ TaskFits(t)'
    BY <2>0, <1>5, <2>1, <2>2, <2>4 DEF RowOK, TaskFits, TickBlocked, Active
  <2>6. QED
    BY <2>1, <2>0, <2>5, <1>a, ClaimFrame
<1>6. ASSUME NEW t \in Ticks, TickAllowed(t) PROVE ClaimInv'
  <2>0. PICK o \in Orders : o = task[t].order /\ OnlyOn(t, o)
    BY <1>6, <1>a, WorkIsLocal DEF Work
  <2>1. TaskFits(t) /\ RowOK(o)
    BY <2>0, <1>6, <1>a, <1>b DEF TickAllowed, Active
  <2>2. task'[t].pc = "read" /\ task'[t].order = o
    BY <2>0, <1>6, <1>a DEF TickAllowed, Goto, TypeOK, Activity
  <2>4. RowOK(o)' /\ TaskFits(t)'
    BY <2>0, <1>6, <2>1, <2>2 DEF RowOK, TaskFits, TickAllowed, Active
  <2>5. QED
    BY <2>1, <2>0, <2>4, <1>a, ClaimFrame
<1>7. ASSUME NEW t \in Admins PROVE ~AdminStep(t)
  BY <1>a, <1>b DEF AdminStep, AdminLookup, AdminReset, SchedulersAlone, TypeOK, Active, TaskFits
<1>8. ASSUME NEW t \in Task, RetryRead(t) PROVE ClaimInv'
  <2>0. PICK o \in Orders : o = task[t].order /\ OnlyOn(t, o)
    BY <1>8, WorkIsLocal DEF Work
  <2>1. TaskFits(t) /\ RowOK(o)
    BY <2>0, <1>8, <1>b DEF RetryRead, Active
  <2>2. \/ task'[t].pc \in {"send", "cancel"} /\ task'[t].order = o
        \/ task'[t].pc = "idle" /\ task'[t].order = NoOrder
    BY <2>0, <1>8 DEF RetryRead, Begin, Goto, Finish, Idle, TypeOK, Activity
  <2>4. RowOK(o)' /\ TaskFits(t)'
    BY <2>0, <1>8, <2>1, <2>2 DEF RowOK, TaskFits, RetryRead, Active
  <2>5. QED
    BY <2>1, <2>0, <2>4, ClaimFrame
<1>9. ASSUME NEW t \in Task, CancelRetry(t) PROVE ClaimInv'
  <2>0. PICK o \in Orders : o = task[t].order /\ OnlyOn(t, o)
    BY <1>9, WorkIsLocal DEF Work
  <2>1. TaskFits(t) /\ RowOK(o)
    BY <2>0, <1>9, <1>b DEF CancelRetry, Active
  <2>2. task'[t].pc = "idle" /\ task'[t].order = NoOrder
    BY <2>0, <1>9 DEF CancelRetry, Finish, Idle, TypeOK
  <2>4. order'[o].status = order[o].status /\ order'[o].retryAt = "null"
    BY <2>0, <1>9, <2>1, <1>c DEF CancelRetry, TypeOK, Row
  <2>5. RowOK(o)' /\ TaskFits(t)'
    BY <2>0, <1>9, <2>1, <2>2, <2>4 DEF RowOK, TaskFits, CancelRetry, Active
  <2>6. QED
    BY <2>1, <2>0, <2>5, ClaimFrame
<1>10. ASSUME NEW t \in Task, NEW r \in Outcomes, Send(t, r) PROVE ClaimInv'
  <2>0. PICK o \in Orders : o = task[t].order /\ OnlyOn(t, o)
    BY <1>10, WorkIsLocal DEF Work
  <2>1. TaskFits(t) /\ RowOK(o) /\ Active(t)
    BY <2>0, <1>10, <1>b DEF Send, Active
  <2>2. task'[t].pc = "persist" /\ task'[t].order = o /\ task'[t].result = r
    BY <2>0, <1>10 DEF Send, TypeOK, Activity
  <2>4. acked[o] = unheard[o]
    BY <2>0, <1>10, <2>1 DEF Send, TaskFits
  <2>5. IF r = "ok" THEN acked'[o] = unheard[o] + 1 ELSE acked'[o] = unheard[o]
    BY <2>0, <1>10, <2>1, <2>4 DEF Send, TypeOK
  <2>6. RowOK(o)' /\ TaskFits(t)'
    BY <2>0, <1>10, <2>1, <2>2, <2>4, <2>5 DEF RowOK, TaskFits, Send
  <2>7. QED
    BY <2>1, <2>0, <2>6, ClaimFrame
<1>11. ASSUME NEW t \in Task, LoseReply(t) PROVE ClaimInv'
  <2>0. PICK o \in Orders : o = task[t].order /\ OnlyOn(t, o)
    BY <1>11, WorkIsLocal DEF Work
  <2>1. TaskFits(t) /\ RowOK(o) /\ Active(t)
    BY <2>0, <1>11, <1>b DEF LoseReply, Active
  <2>2. task'[t].pc = "persist" /\ task'[t].order = o
    BY <2>0, <1>11 DEF LoseReply, TypeOK, Activity
  <2>4. acked'[o] = unheard'[o]
    BY <2>0, <1>11, <2>1 DEF LoseReply, TaskFits, TypeOK
  <2>5. RowOK(o)' /\ TaskFits(t)'
    BY <2>0, <1>11, <2>1, <2>2, <2>4 DEF RowOK, TaskFits, LoseReply
  <2>6. QED
    BY <2>1, <2>0, <2>5, ClaimFrame
<1>12. ASSUME NEW t \in Task, Persist(t) PROVE ClaimInv'
  <2> PICK o \in Orders, n \in Nat, r \in Outcome :
           o = task[t].order /\ n = task[t].prev + 1 /\ r = task[t].result
    BY <1>12, <1>b DEF Persist, Active, Activity, TypeOK
  <2>1. TaskFits(t) /\ RowOK(o) /\ Active(t)
    BY <1>12, <1>b DEF Persist, Active
  <2>2. task'[t].pc = "idle" /\ task'[t].order = NoOrder
    BY <1>12 DEF Persist, Finish, Idle, TypeOK
  <2>3. OnlyOn(t, o)
    BY <1>12, WorkIsLocal DEF Work
  <2>4. /\ runs' = runs /\ acked' = acked /\ unheard' = unheard
        /\ order'[o] = order[o] \/ order'[o] = Settle(n, r)
    BY <1>12 DEF Persist, TypeOK
  <2>5. RowOK(o)'
    <3>1. CASE order'[o] = order[o]
      BY <2>1, <2>4, <3>1 DEF RowOK
    <3>2. CASE order'[o] = Settle(n, r)
      <4>1. /\ Settle(n, r).status \in {"SENT", "FAILED"}
            /\ Settle(n, r).retryAt # "null" => ~GivesUp(n, r) /\ r # "ok"
            /\ Settle(n, r).status = "FAILED" =>
                 Settle(n, r).attempts = n /\ Settle(n, r).errorType = r
        BY DEF Settle
      <4>2. /\ runs[o] # 0
            /\ acked[o] # unheard[o] => r = "ok" /\ acked[o] = unheard[o] + 1
        BY <2>1 DEF TaskFits, RowOK
      <4>3. QED
        BY <2>4, <3>2, <4>1, <4>2 DEF RowOK
    <3>3. QED
      BY <2>4, <3>1, <3>2
  <2>6. TaskFits(t)'
    BY <2>2 DEF TaskFits, Active
  <2>7. QED
    BY <2>3, <2>5, <2>6, ClaimFrame
<1>13. ASSUME NEW t \in Task, Crash(t) PROVE ClaimInv'
  <2>0. PICK o \in Orders : o = task[t].order /\ OnlyOn(t, o)
    BY <1>13, WorkIsLocal DEF Work
  <2>1. TaskFits(t) /\ RowOK(o)
    BY <2>0, <1>13, <1>b DEF Crash
  <2>2. task'[t].pc = "idle" /\ task'[t].order = NoOrder
    BY <2>0, <1>13 DEF Crash, Finish, Idle, TypeOK
  <2>4. RowOK(o)' /\ TaskFits(t)'
    BY <2>0, <1>13, <2>1, <2>2 DEF RowOK, TaskFits, Crash, Active
  <2>5. QED
    BY <2>1, <2>0, <2>4, ClaimFrame
<1>14. ASSUME NEW o \in Orders PROVE ~AdminRetryAll(o)
  BY DEF AdminRetryAll, SchedulersAlone, TypeOK
<1>15. ASSUME NEW o \in Orders, TimePasses(o) PROVE ClaimInv'
  <2>1. \A u \in Task : task[u].order # o
    BY <1>15, FreeRow DEF TimePasses
  <2>2. /\ order'[o].status = order[o].status
        /\ order'[o].attempts = order[o].attempts /\ order'[o].errorType = order[o].errorType
        /\ order[o].retryAt = "later"
        /\ \A q \in Orders : q # o => order'[q] = order[q]
    BY <1>15, <1>c DEF TimePasses, TypeOK, Row
  <2>3. \A q \in Orders : RowOK(q)'
    BY <1>15, <2>2 DEF TimePasses, ClaimInv, RowOK
  <2>4. ASSUME NEW u \in Task, Active(u)' PROVE TaskFits(u)'
    <3>1. TaskFits(u) /\ order'[task[u].order] = order[task[u].order]
      BY <1>15, <2>1, <2>2, <2>4, <1>b DEF TimePasses, Active
    <3>2. QED
      BY <1>15, <3>1 DEF TimePasses, TaskFits, Active
  <2>5. QED
    BY <1>15, <2>3, <2>4 DEF TimePasses, ClaimInv, OneTaskPerOrder, Active, TaskFits
<1>16. CASE UNCHANGED <<order, task, runs, acked, unheard>>
  BY <1>16 DEF ClaimInv, OneTaskPerOrder, RowOK, TaskFits, Active
<1>17. QED
  BY <1>1, <1>2, <1>3, <1>4, <1>5, <1>6, <1>7, <1>8, <1>9, <1>10, <1>11, <1>12,
     <1>13, <1>14, <1>15, <1>16, <1>a
  DEF Next, JobStep, TickStep, RetryStep, SendStep, EnvironmentStep, Task,
      TargetChanges, vars

LEMMA ClaimHolds == ASSUME SchedulersAlone PROVE Spec => []ClaimInv
<1>1. TypeOK /\ ClaimInv /\ [Next]_vars => ClaimInv'
  BY ClaimStep
<1>2. QED
  BY <1>1, ClaimInit, TypeCorrect, PTL DEF Spec

\* The claim is exclusive: without admins and repeated runs no two tasks ever
\* work on an order, for any number of workers, although no lock is held from
\* the claim to the write of the outcome.
THEOREM ClaimIsExclusive == ASSUME SchedulersAlone PROVE Spec => []OneTaskPerOrder
<1>1. ClaimInv => OneTaskPerOrder
  BY DEF ClaimInv
<1>2. QED
  BY <1>1, ClaimHolds, PTL

\* Nothing but a lost answer makes the schedulers send a delivered order
\* again, wherever workers crash.
THEOREM NothingSentTwice == ASSUME SchedulersAlone PROVE Spec => []AckedAtMostOnce
<1>1. TypeOK /\ ClaimInv => AckedAtMostOnce
  BY DEF TypeOK, ClaimInv, RowOK, AckedAtMostOnce
<1>2. QED
  BY <1>1, ClaimHolds, TypeCorrect, PTL

\* The schedulers never schedule what the policy has given up on, although
\* a blocked row is parked by id alone.
THEOREM NothingGivenUpIsScheduled ==
  ASSUME SchedulersAlone PROVE Spec => []ScheduledOnlyIfRetryable
<1>1. ClaimInv => ScheduledOnlyIfRetryable
  BY DEF ClaimInv, RowOK, ScheduledOnlyIfRetryable
<1>2. QED
  BY <1>1, ClaimHolds, PTL

-----------------------------------------------------------------------------
(* The schedulers implement the abstract order *)

Heard(o) == acked[o] - unheard[o]

\* What the step of the abstract order looks like from below.
LEMMA LifecycleFrame ==
  ASSUME NEW t \in Task, NEW o \in Orders, OnlyOn(t, o),
         \A q \in Orders : acked[q] \in Nat /\ unheard[q] \in Nat,
         NoOrder \notin Orders,
         \/ Phase(o)' = Phase(o) /\ Heard(o)' = Heard(o)
         \/ Phase(o) = "new" /\ Phase(o)' = "trying" /\ Heard(o)' = Heard(o)
         \/ /\ Phase(o) = "trying" /\ Phase(o)' = "trying"
            /\ Heard(o) = 0 /\ Heard(o)' = 1
         \/ /\ Phase(o) = "trying" /\ Phase(o)' = "delivered"
            /\ Heard(o) = 1 /\ Heard(o)' = 1
         \/ Phase(o) = "trying" /\ Phase(o)' = "stopped" /\ Heard(o)' = Heard(o)
  PROVE  [Lifecycle!Next]_(Lifecycle!vars)
<1> DEFINE phase == [q \in Orders |-> Phase(q)]
           accepted == [q \in Orders |-> acked[q] - unheard[q]]
<1>1. ASSUME NEW q \in Orders, q # o PROVE Phase(q)' = Phase(q) /\ Heard(q)' = Heard(q)
  <2>1. order'[q] = order[q] /\ acked'[q] = acked[q] /\ unheard'[q] = unheard[q]
    BY <1>1 DEF OnlyOn
  <2>2. task[t].order # q /\ task'[t].order # q
    BY <1>1 DEF OnlyOn
  <2>3. InHand(q)' <=> InHand(q)
    BY <2>1, <2>2 DEF OnlyOn, InHand
  <2>4. QED
    BY <2>1, <2>3 DEF Phase, Heard
<1>2. phase' = [phase EXCEPT ![o] = Phase(o)']
  BY <1>1
<1>3. accepted' = [accepted EXCEPT ![o] = Heard(o)']
  BY <1>1 DEF Heard
<1>4. phase[o] = Phase(o) /\ accepted[o] = Heard(o)
  BY DEF Heard
<1> HIDE DEF phase, accepted
<1>5. CASE Phase(o)' = Phase(o) /\ Heard(o)' = Heard(o)
  <2>1. phase' = phase /\ accepted' = accepted
    BY <1>2, <1>3, <1>4, <1>5 DEF phase, accepted
  <2>2. QED
    BY <2>1 DEF Lifecycle!vars, phase, accepted
<1>6. CASE Phase(o) = "new" /\ Phase(o)' = "trying" /\ Heard(o)' = Heard(o)
  <2>1. accepted' = accepted
    BY <1>3, <1>4, <1>6 DEF accepted
  <2>2. Lifecycle!Create(o)
    BY <2>1, <1>2, <1>4, <1>6 DEF Lifecycle!Create, Lifecycle!Move, phase, accepted
  <2>3. QED
    BY <2>2 DEF Lifecycle!Next
<1>7. CASE /\ Phase(o) = "trying" /\ Phase(o)' = "trying"
           /\ Heard(o) = 0 /\ Heard(o)' = 1
  <2>1. phase' = phase
    BY <1>2, <1>4, <1>7 DEF phase
  <2>2. Lifecycle!Accept(o)
    BY <2>1, <1>3, <1>4, <1>7 DEF Lifecycle!Accept, phase, accepted
  <2>3. QED
    BY <2>2 DEF Lifecycle!Next
<1>8. CASE /\ Phase(o) = "trying" /\ Phase(o)' = "delivered"
           /\ Heard(o) = 1 /\ Heard(o)' = 1
  <2>1. accepted' = accepted
    BY <1>3, <1>4, <1>8 DEF accepted
  <2>2. Lifecycle!Deliver(o)
    BY <2>1, <1>2, <1>4, <1>8 DEF Lifecycle!Deliver, Lifecycle!Move, phase, accepted
  <2>3. QED
    BY <2>2 DEF Lifecycle!Next
<1>9. CASE Phase(o) = "trying" /\ Phase(o)' = "stopped" /\ Heard(o)' = Heard(o)
  <2>1. accepted' = accepted
    BY <1>3, <1>4, <1>9 DEF accepted
  <2>2. Lifecycle!Stop(o)
    BY <2>1, <1>2, <1>4, <1>9 DEF Lifecycle!Stop, Lifecycle!Move, phase, accepted
  <2>3. QED
    BY <2>2 DEF Lifecycle!Next
<1>10. QED
  BY <1>5, <1>6, <1>7, <1>8, <1>9

LEMMA LifecycleInit == Init => Lifecycle!Init
BY DEF Init, Lifecycle!Init, Phase, NoRow

\* What a task at work means for its order.
LEMMA HeldPhase ==
  ASSUME ClaimInv, NEW t \in Task, NEW o \in Orders, Active(t), task[t].order = o
  PROVE  Phase(o) = IF task[t].pc = "insert" THEN "new" ELSE "trying"
BY DEF ClaimInv, TaskFits, Phase, InHand

LEMMA LifecycleStep ==
  ASSUME SchedulersAlone
  PROVE  TypeOK /\ AckInv /\ ClaimInv /\ [Next]_vars =>
           [Lifecycle!Next]_(Lifecycle!vars)
<1> SUFFICES ASSUME TypeOK, AckInv, ClaimInv, [Next]_vars
             PROVE  [Lifecycle!Next]_(Lifecycle!vars)
  OBVIOUS
<1>a. NoOrder \notin Orders /\ \A q \in Orders : acked[q] \in Nat /\ unheard[q] \in Nat
  BY DeliveryAssumption DEF TypeOK
<1>b. TypeOK' /\ AckInv' /\ ClaimInv'
  BY TypeStep, AckStep, ClaimStep
<1>1. ASSUME NEW t \in Task, NEW o \in Orders, JobLookup(t, o) \/ TickClaim(t, o)
      PROVE  [Lifecycle!Next]_(Lifecycle!vars)
  <2>1. OnlyOn(t, o)
    BY <1>1, TakeIsLocal
  <2>2. Heard(o)' = Heard(o)
    BY <1>1 DEF JobLookup, TickClaim, Heard
  <2>3. CASE JobLookup(t, o)
    <3>1. runs[o] = 0
      BY <2>3, DeliveryAssumption DEF JobLookup, SchedulersAlone, TypeOK
    <3>2. order[o].status = "none"
      BY <3>1 DEF ClaimInv, RowOK
    <3>3. Phase(o)' = Phase(o)
      BY <2>3, <3>2 DEF JobLookup, Phase
    <3>4. QED
      BY <2>1, <2>2, <3>3, <1>a, LifecycleFrame
  <2>4. CASE TickClaim(t, o)
    <3>1. /\ order[o].status = "FAILED" /\ order[o].retryAt = "due"
          /\ order'[o].status = "FAILED"
          /\ task'[t].order = o /\ task'[t].pc = "gate"
      BY <2>4 DEF TickClaim, Claimable, Begin, TypeOK, Row
    <3>2. Phase(o) = "trying" /\ Phase(o)' = "trying"
      BY <3>1 DEF Phase, InHand
    <3>3. QED
      BY <2>1, <2>2, <3>2, <1>a, LifecycleFrame
  <2>5. QED
    BY <1>1, <2>3, <2>4
<1>2. ASSUME NEW t \in Task, Work(t) PROVE [Lifecycle!Next]_(Lifecycle!vars)
  <2>1. PICK o \in Orders : o = task[t].order /\ OnlyOn(t, o)
    BY <1>2, WorkIsLocal
  <2>2. Active(t) /\ TaskFits(t) /\ RowOK(o) /\ TaskFits(t)' /\ RowOK(o)'
    BY <1>2, <2>1, <1>a, <1>b DEF ClaimInv, Work, JobInsert, JobReread, TickBlocked,
      TickAllowed, RetryRead, CancelRetry, Send, LoseReply, Persist, Crash, Active
  <2>3. Phase(o) = IF task[t].pc = "insert" THEN "new" ELSE "trying"
    BY <2>1, <2>2, HeldPhase
  <2>4. CASE Active(t)'
    <3>1. task'[t].order = o /\ task'[t].pc # "insert"
      BY <1>2, <2>1, <2>4 DEF OnlyOn, Work, JobInsert, JobReread, TickBlocked, TickAllowed,
        RetryRead, CancelRetry, Send, LoseReply, Persist, Crash, Begin, Goto, Finish, Idle,
        Active, TypeOK, Activity
    <3>2. Phase(o)' = "trying"
      BY <2>2, <2>4, <3>1 DEF TaskFits, Active, Phase, InHand
    <3>3. CASE \E r \in Outcomes : Send(t, r)
      <4>1. acked[o] = unheard[o] /\ Phase(o) = "trying"
        BY <2>1, <2>2, <2>3, <3>3 DEF Send, TaskFits
      <4>2. Heard(o) = 0 /\ Heard(o)' \in {0, 1}
        BY <2>1, <3>3, <4>1, <1>a DEF Send, Heard, TypeOK
      <4>3. QED
        BY <2>1, <3>2, <4>1, <4>2, <1>a, LifecycleFrame
    <3>4. CASE ~\E r \in Outcomes : Send(t, r)
      <4>1. Heard(o)' = Heard(o)
        BY <1>2, <2>1, <3>4, <1>a DEF Work, JobInsert, JobReread, TickBlocked, TickAllowed,
          RetryRead, CancelRetry, LoseReply, Persist, Crash, Heard, TypeOK
      <4>2. Phase(o) \in {"new", "trying"}
        BY <2>3
      <4>3. QED
        BY <2>1, <3>2, <4>1, <4>2, <1>a, LifecycleFrame
    <3>5. QED
      BY <3>3, <3>4
  <2>5. CASE ~Active(t)'
    <3>1. acked' = acked /\ unheard' = unheard
      BY <1>2, <2>5 DEF Work, JobInsert, JobReread, TickBlocked, TickAllowed, RetryRead,
        CancelRetry, Send, LoseReply, Persist, Crash, Active, TypeOK, Activity
    <3>2. Heard(o)' = Heard(o)
      BY <3>1 DEF Heard
    <3>3. CASE task[t].pc = "insert"
      <4>1. order' = order /\ order[o].status = "none"
        BY <1>2, <2>1, <2>2, <2>5, <3>3 DEF TaskFits, Work, JobInsert, JobReread, TickBlocked,
          TickAllowed, RetryRead, CancelRetry, Send, LoseReply, Persist, Crash, Goto, Active,
          TypeOK, Activity
      <4>2. Phase(o)' = Phase(o)
        BY <4>1 DEF Phase
      <4>3. QED
        BY <2>1, <3>2, <4>2, <1>a, LifecycleFrame
    <3>4. CASE task[t].pc # "insert"
      <4>1. Phase(o) = "trying"
        BY <2>3, <3>4
      <4>2. order'[o].status # "none"
        <5>1. order[o].status # "none"
          BY <2>1, <2>2, <3>4 DEF TaskFits
        <5>2. QED
          BY <1>2, <2>1, <5>1 DEF Work, JobInsert, JobReread, TickBlocked, TickAllowed, RetryRead,
            CancelRetry, Send, LoseReply, Persist, Crash, TypeOK, Row, Settle, NewRow, NoRow
      <4>3. CASE order'[o].status = "SENT"
        <5>1. Phase(o)' = "delivered"
          BY <4>3 DEF Phase
        <5>2. acked'[o] > unheard'[o]
          BY <4>3, <1>b DEF AckInv, SentWasAcked
        <5>3. Heard(o)' = 1
          BY <2>2, <3>1, <5>2, <1>a DEF RowOK, Heard
        <5>4. QED
          BY <2>1, <3>2, <4>1, <5>1, <5>3, <1>a, LifecycleFrame
      <4>4. CASE order'[o].status # "SENT"
        <5>1. Phase(o)' \in {"trying", "stopped"}
          BY <4>2, <4>4 DEF Phase
        <5>2. QED
          BY <2>1, <3>2, <4>1, <5>1, <1>a, LifecycleFrame
      <4>5. QED
        BY <4>3, <4>4
    <3>5. QED
      BY <3>3, <3>4
  <2>6. QED
    BY <2>4, <2>5
<1>3. ASSUME NEW o \in Orders, TimePasses(o) PROVE UNCHANGED Lifecycle!vars
  <2>1. \A q \in Orders : /\ order'[q].status = order[q].status
                          /\ order'[q].retryAt = "null" <=> order[q].retryAt = "null"
    BY <1>3 DEF TimePasses, TypeOK, Row
  <2>2. \A q \in Orders : Phase(q)' = Phase(q)
    BY <1>3, <2>1 DEF TimePasses, Phase, InHand
  <2>3. QED
    BY <1>3, <2>2 DEF TimePasses, Lifecycle!vars
<1>4. CASE UNCHANGED <<order, task, acked, unheard>>
  BY <1>4 DEF Lifecycle!vars, Phase, InHand
<1>5. ASSUME NEW t \in Admins PROVE ~AdminStep(t)
  <2>1. t \in Task /\ \A o \in Orders : ~AdminLookup(t, o)
    BY DEF Task, AdminLookup, SchedulersAlone, TypeOK
  <2>2. ~AdminReset(t)
    BY <2>1 DEF AdminReset, ClaimInv, TaskFits, Active
  <2>3. QED
    BY <2>1, <2>2 DEF AdminStep
<1>6. ASSUME NEW o \in Orders PROVE ~AdminRetryAll(o)
  BY DEF AdminRetryAll, SchedulersAlone, TypeOK
<1>7. QED
  BY <1>1, <1>2, <1>3, <1>4, <1>5, <1>6
  DEF Next, JobStep, TickStep, RetryStep, SendStep, EnvironmentStep, Task, Work,
      TargetChanges, vars

\* The schedulers implement the abstract order, without its fairness: every
\* step of any number of tasks on any number of orders is one step of one
\* abstract order, or none.
THEOREM SchedulersImplementLifecycle == ASSUME SchedulersAlone PROVE Spec => Lifecycle!Spec
<1>1. TypeOK /\ AckInv /\ ClaimInv /\ [Next]_vars => [Lifecycle!Next]_(Lifecycle!vars)
  BY LifecycleStep
<1>2. QED
  BY <1>1, LifecycleInit, AckInit, AckStep, ClaimHolds, TypeCorrect, PTL DEF Spec, Lifecycle!Spec

=============================================================================
