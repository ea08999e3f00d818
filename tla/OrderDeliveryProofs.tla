------------------------ MODULE OrderDeliveryProofs ------------------------
(***************************************************************************)
(* Invariants of OrderDelivery for any number of orders, jobs, scheduler    *)
(* tasks and admins, any policy and any bounds.                             *)
(***************************************************************************)
EXTENDS OrderDelivery, FiniteSetTheorems, TLAPS

-----------------------------------------------------------------------------
(* Types *)

\* The row an attempt leaves behind is a well-formed row.
LEMMA SettleType ==
  ASSUME NEW n \in Nat, NEW r \in Outcome
  PROVE  Settle(n, r) \in Row
BY DEF Settle, Row, Status, RetryAt, Outcome, ErrorType

\* The part of the type invariant that concerns the tasks.
TaskOK ==
  /\ task \in [Task -> Activity]
  /\ \A t \in Task : Active(t) => task[t].order \in Orders

LEMMA BeginType ==
  ASSUME TaskOK, NEW t \in Task, NEW o \in Orders, NEW pc \in Pc, NEW n \in Nat,
         Begin(t, o, pc, n)
  PROVE  TaskOK'
<1>1. [pc |-> pc, order |-> o, prev |-> n, result |-> "undefined"] \in Activity
  BY DEF Activity, Outcome, ErrorType
<1>2. QED
  BY <1>1 DEF TaskOK, Begin, Active

LEMMA GotoType ==
  ASSUME TaskOK, NEW t \in Task, Active(t), NEW pc \in Pc, Goto(t, pc)
  PROVE  TaskOK'
<1>1. [task[t] EXCEPT !.pc = pc] \in Activity
  BY DEF TaskOK, Activity
<1>2. QED
  BY <1>1 DEF TaskOK, Goto, Active, Activity

LEMMA FinishType ==
  ASSUME TaskOK, NEW t \in Task, Finish(t)
  PROVE  TaskOK'
<1>1. Idle \in Activity
  BY DEF Idle, Activity, Pc, Outcome, ErrorType
<1>2. QED
  BY <1>1 DEF TaskOK, Finish, Active, Idle

LEMMA TypeInit == Init => TypeOK
<1> SUFFICES ASSUME Init PROVE TypeOK
  OBVIOUS
<1>1. NoRow \in Row /\ Idle \in Activity
  BY DEF NoRow, Row, Status, RetryAt, ErrorType, Idle, Activity, Pc, Outcome
<1>2. QED
  BY <1>1 DEF Init, TypeOK, Target, Active, Idle

LEMMA TypeStep == TypeOK /\ [Next]_vars => TypeOK'
<1> SUFFICES ASSUME TypeOK, [Next]_vars PROVE TypeOK'
  OBVIOUS
<1> USE DEF TypeOK
<1>a. TaskOK /\ (\A o \in Orders : order[o].attempts \in Nat) /\ Task = Jobs \cup Ticks \cup Admins
  BY DEF TaskOK, Row, Task
<1>b. TaskOK' <=> /\ task' \in [Task -> Activity]
                  /\ \A t \in Task : Active(t)' => task'[t].order \in Orders
  BY DEF TaskOK
<1>1. ASSUME NEW t \in Jobs, NEW o \in Orders, JobLookup(t, o) PROVE TypeOK'
  <2>1. TaskOK'
    BY <1>1, <1>a, BeginType DEF JobLookup, Pc
  <2>2. QED
    BY <1>1, <2>1, <1>b DEF JobLookup
<1>2. ASSUME NEW t \in Jobs, JobInsert(t) PROVE TypeOK'
  <2>1. NewRow \in Row
    BY DEF NewRow, NoRow, Row, Status, RetryAt, ErrorType
  <2>2. TaskOK'
    BY <1>2, <1>a, GotoType, FinishType DEF JobInsert, Pc, Active
  <2>3. QED
    BY <1>2, <2>1, <2>2, <1>b DEF JobInsert
<1>3. ASSUME NEW t \in Jobs, JobReread(t) PROVE TypeOK'
  <2>1. TaskOK'
    BY <1>3, <1>a, BeginType DEF JobReread, Pc, Active
  <2>2. QED
    BY <1>3, <2>1, <1>b DEF JobReread
<1>4. ASSUME NEW t \in Ticks, NEW o \in Orders, TickClaim(t, o) PROVE TypeOK'
  <2>1. TaskOK'
    BY <1>4, <1>a, BeginType DEF TickClaim, Pc
  <2>2. order' \in [Orders -> Row]
    BY <1>4 DEF TickClaim, Row, RetryAt
  <2>3. QED
    BY <1>4, <2>1, <2>2, <1>b DEF TickClaim
<1>5. ASSUME NEW t \in Ticks, TickBlocked(t) PROVE TypeOK'
  <2>1. TaskOK'
    BY <1>5, <1>a, FinishType DEF TickBlocked
  <2>2. order' \in [Orders -> Row]
    BY <1>5 DEF TickBlocked, Row, RetryAt
  <2>3. QED
    BY <1>5, <2>1, <2>2, <1>b DEF TickBlocked
<1>6. ASSUME NEW t \in Ticks, TickAllowed(t) PROVE TypeOK'
  <2>1. TaskOK'
    BY <1>6, <1>a, GotoType DEF TickAllowed, Pc, Active
  <2>2. QED
    BY <1>6, <2>1, <1>b DEF TickAllowed
<1>7. ASSUME NEW t \in Admins, NEW o \in Orders, AdminLookup(t, o) PROVE TypeOK'
  <2>1. TaskOK'
    BY <1>7, <1>a, BeginType DEF AdminLookup, Pc
  <2>2. QED
    BY <1>7, <2>1, <1>b DEF AdminLookup
<1>8. ASSUME NEW t \in Admins, AdminReset(t) PROVE TypeOK'
  <2>1. TaskOK'
    BY <1>8, <1>a, GotoType DEF AdminReset, Pc, Active
  <2>2. order' \in [Orders -> Row]
    BY <1>8 DEF AdminReset, Due, Row, RetryAt
  <2>3. QED
    BY <1>8, <2>1, <2>2, <1>b DEF AdminReset
<1>9. ASSUME NEW t \in Task, RetryRead(t) PROVE TypeOK'
  <2>1. task[t].order \in Orders /\ Active(t)
    BY <1>9 DEF RetryRead, Active
  <2>2. TaskOK'
    BY <1>9, <2>1, <1>a, BeginType, GotoType, FinishType DEF RetryRead, Pc
  <2>3. QED
    BY <1>9, <2>1, <2>2, <1>b DEF RetryRead
<1>10. ASSUME NEW t \in Task, CancelRetry(t) PROVE TypeOK'
  <2>1. TaskOK' /\ task[t].order \in Orders
    BY <1>10, <1>a, FinishType DEF CancelRetry, Active
  <2>2. order' \in [Orders -> Row]
    BY <1>10 DEF CancelRetry, Row, RetryAt
  <2>3. QED
    BY <1>10, <2>1, <2>2, <1>b DEF CancelRetry
<1>11. ASSUME NEW t \in Task, NEW r \in Outcomes, Send(t, r) PROVE TypeOK'
  <2>1. task[t].order \in Orders /\ r \in Outcome
    BY <1>11, DeliveryAssumption DEF Send, Active
  <2>2. [task[t] EXCEPT !.pc = "persist", !.result = r] \in Activity
    BY <2>1 DEF Activity, Pc
  <2>3. task' = [task EXCEPT ![t] = [task[t] EXCEPT !.pc = "persist", !.result = r]]
    BY <1>11 DEF Send
  <2>4. TaskOK'
    BY <2>1, <2>2, <2>3, <1>a DEF TaskOK, Active, Activity
  <2>5. acked' \in [Orders -> Nat]
    BY <1>11, <2>1 DEF Send
  <2>6. QED
    BY <1>11, <2>4, <2>5, <1>b DEF Send
<1>12. ASSUME NEW t \in Task, Persist(t) PROVE TypeOK'
  <2>1. task[t].order \in Orders /\ task[t].prev + 1 \in Nat /\ task[t].result \in Outcome
    BY <1>12 DEF Persist, Active, Activity
  <2>2. Settle(task[t].prev + 1, task[t].result) \in Row
    BY <2>1, SettleType
  <2>3. TaskOK'
    BY <1>12, <1>a, FinishType DEF Persist
  <2>4. order' \in [Orders -> Row] /\ forfeited' \subseteq Orders
    BY <1>12, <2>1, <2>2 DEF Persist
  <2>5. QED
    BY <1>12, <2>3, <2>4, <1>b DEF Persist
<1>13. ASSUME NEW t \in Task, Crash(t) PROVE TypeOK'
  <2>1. TaskOK' /\ task[t].order \in Orders
    BY <1>13, <1>a, FinishType DEF Crash
  <2>2. QED
    BY <1>13, <2>1, <1>b DEF Crash
<1>14. ASSUME NEW o \in Orders, AdminRetryAll(o) PROVE TypeOK'
  <2>1. order' \in [Orders -> Row]
    BY <1>14 DEF AdminRetryAll, Due, Row, RetryAt
  <2>2. QED
    BY <1>14, <2>1 DEF AdminRetryAll, Active
<1>15. ASSUME NEW o \in Orders, TimePasses(o) PROVE TypeOK'
  <2>1. order' \in [Orders -> Row]
    BY <1>15 DEF TimePasses, Row, RetryAt
  <2>2. QED
    BY <1>15, <2>1 DEF TimePasses, Active
<1>16. ASSUME NEW o \in Orders, NEW s \in TargetStates, TargetChanges(o, s) PROVE TypeOK'
  BY <1>16, DeliveryAssumption DEF TargetChanges, Target, Active
<1>17. CASE UNCHANGED vars
  BY <1>17 DEF vars, Active
<1>18. ASSUME NEW t \in Task, LoseReply(t) PROVE TypeOK'
  <2>1. task[t].order \in Orders /\ "network" \in Outcome
    BY <1>18 DEF LoseReply, Active, Outcome, ErrorType
  <2>2. [task[t] EXCEPT !.pc = "persist", !.result = "network"] \in Activity
    BY <2>1 DEF Activity, Pc
  <2>3. task' = [task EXCEPT ![t] = [task[t] EXCEPT !.pc = "persist", !.result = "network"]]
    BY <1>18 DEF LoseReply
  <2>4. TaskOK'
    BY <2>1, <2>2, <2>3, <1>a DEF TaskOK, Active, Activity
  <2>5. acked' \in [Orders -> Nat] /\ unheard' \in [Orders -> Nat] /\ crashes' \in Nat
    BY <1>18, <2>1 DEF LoseReply
  <2>6. QED
    BY <1>18, <2>4, <2>5, <1>b DEF LoseReply
<1>19. QED
  BY <1>1, <1>2, <1>3, <1>4, <1>5, <1>6, <1>7, <1>8, <1>9, <1>10, <1>11, <1>12,
     <1>13, <1>14, <1>15, <1>16, <1>17, <1>18
  DEF Next, JobStep, TickStep, AdminStep, RetryStep, SendStep, EnvironmentStep, Task

\* Every variable keeps its type: rows stay well formed whichever tasks
\* interleave on them, and a task at work always names an order.
THEOREM TypeCorrect == Spec => []TypeOK
<1>1. QED
  BY TypeInit, TypeStep, PTL DEF Spec

-----------------------------------------------------------------------------
(* SENT means accepted *)

\* Inductive form: a task that carries an accepted result counts as well, and
\* no more answers are lost than deliveries accepted.
AckInv ==
  /\ SentWasAcked
  /\ \A o \in Orders : unheard[o] <= acked[o]
  /\ \A t \in Task :
       task[t].pc = "persist" /\ task[t].result = "ok" =>
         unheard[task[t].order] < acked[task[t].order]

LEMMA AckInit == Init => AckInv
BY DEF Init, AckInv, SentWasAcked, NoRow, Idle

LEMMA AckStep == TypeOK /\ AckInv /\ [Next]_vars => AckInv'
<1> SUFFICES ASSUME TypeOK, AckInv, [Next]_vars PROVE AckInv'
  OBVIOUS
<1> USE DEF TypeOK, AckInv, SentWasAcked, Active
<1>1. ASSUME NEW t \in Task, NEW o \in Orders, JobLookup(t, o) PROVE AckInv'
  BY <1>1 DEF JobLookup, Begin
<1>2. ASSUME NEW t \in Task, JobInsert(t) PROVE AckInv'
  <2>1. task[t].order \in Orders /\ NewRow.status = "PENDING"
    BY <1>2 DEF JobInsert, NewRow, NoRow
  <2>2. SentWasAcked'
    BY <1>2, <2>1 DEF JobInsert
  <2>3. QED
    BY <1>2, <2>2 DEF JobInsert, Goto, Finish, Idle, Activity
<1>3. ASSUME NEW t \in Task, JobReread(t) PROVE AckInv'
  BY <1>3 DEF JobReread, Begin
<1>4. ASSUME NEW t \in Task, NEW o \in Orders, TickClaim(t, o) PROVE AckInv'
  BY <1>4 DEF TickClaim, Begin, Row
<1>5. ASSUME NEW t \in Task, TickBlocked(t) PROVE AckInv'
  BY <1>5 DEF TickBlocked, Finish, Idle, Row
<1>6. ASSUME NEW t \in Task, TickAllowed(t) PROVE AckInv'
  BY <1>6 DEF TickAllowed, Goto
<1>7. ASSUME NEW t \in Task, NEW o \in Orders, AdminLookup(t, o) PROVE AckInv'
  BY <1>7 DEF AdminLookup, Begin
<1>8. ASSUME NEW t \in Task, AdminReset(t) PROVE AckInv'
  BY <1>8 DEF AdminReset, Due, Goto, Row
<1>9. ASSUME NEW t \in Task, RetryRead(t) PROVE AckInv'
  <2>1. \A u \in Task : task'[u].pc = "persist" => task'[u] = task[u]
    BY <1>9 DEF RetryRead, Begin, Goto, Finish, Idle, Activity
  <2>2. QED
    BY <1>9, <2>1 DEF RetryRead
<1>10. ASSUME NEW t \in Task, CancelRetry(t) PROVE AckInv'
  BY <1>10 DEF CancelRetry, Finish, Idle, Row
<1>11. ASSUME NEW t \in Task, NEW r \in Outcomes, Send(t, r) PROVE AckInv'
  <2>1. task[t].order \in Orders
    BY <1>11 DEF Send
  <2>2. \A o \in Orders : acked'[o] >= acked[o] /\ unheard'[o] = unheard[o]
    BY <1>11, <2>1 DEF Send
  <2>3. \A u \in Task : task'[u].order = task[u].order
    BY <1>11 DEF Send, Activity
  <2>4. r = "ok" => unheard'[task[t].order] < acked'[task[t].order]
    BY <1>11, <2>1 DEF Send
  <2>5. task'[t].result = r /\ \A u \in Task : u # t => task'[u] = task[u]
    BY <1>11 DEF Send, Activity
  <2>6. ASSUME NEW u \in Task, task'[u].pc = "persist", task'[u].result = "ok"
        PROVE  unheard'[task'[u].order] < acked'[task'[u].order]
    <3>1. CASE u = t
      BY <3>1, <2>3, <2>4, <2>5, <2>6
    <3>2. CASE u # t
      <4>1. task[u].pc = "persist" /\ task[u].result = "ok"
        BY <3>2, <2>5, <2>6
      <4>2. task[u].order \in Orders /\ unheard[task[u].order] < acked[task[u].order]
        BY <4>1
      <4>3. QED
        BY <4>2, <2>2, <2>3, <1>11 DEF Send
    <3>3. QED
      BY <3>1, <3>2
  <2>7. SentWasAcked'
    BY <1>11, <2>2 DEF Send
  <2>8. \A o \in Orders : unheard'[o] <= acked'[o]
    <3>1. \A o \in Orders : unheard[o] \in Nat /\ acked[o] \in Nat /\ acked'[o] \in Nat
      BY <1>11, <2>1 DEF Send
    <3>2. QED
      BY <2>2, <3>1
  <2>9. QED
    BY <2>6, <2>7, <2>8
<1>12. ASSUME NEW t \in Task, Persist(t) PROVE AckInv'
  <2>1. task[t].order \in Orders
    BY <1>12 DEF Persist
  <2>2. SentWasAcked'
    BY <1>12, <2>1 DEF Persist, Settle
  <2>3. QED
    BY <1>12, <2>2 DEF Persist, Finish, Idle
<1>13. ASSUME NEW t \in Task, Crash(t) PROVE AckInv'
  BY <1>13 DEF Crash, Finish, Idle
<1>14. ASSUME NEW o \in Orders, AdminRetryAll(o) PROVE AckInv'
  BY <1>14 DEF AdminRetryAll, Due, Row
<1>15. ASSUME NEW o \in Orders, TimePasses(o) PROVE AckInv'
  BY <1>15 DEF TimePasses, Row
<1>16. ASSUME NEW o \in Orders, NEW s \in TargetStates, TargetChanges(o, s) PROVE AckInv'
  BY <1>16 DEF TargetChanges
<1>17. CASE UNCHANGED vars
  BY <1>17 DEF vars
<1>18. ASSUME NEW t \in Task, LoseReply(t) PROVE AckInv'
  <2>1. task[t].order \in Orders
    BY <1>18 DEF LoseReply
  <2>2. \A o \in Orders :
          /\ unheard[o] < acked[o] => unheard'[o] < acked'[o]
          /\ unheard[o] <= acked[o] => unheard'[o] <= acked'[o]
    BY <1>18, <2>1 DEF LoseReply
  <2>3. /\ task'[t].result = "network"
        /\ \A u \in Task : u # t => task'[u] = task[u]
    BY <1>18 DEF LoseReply, Activity
  <2>4. order' = order
    BY <1>18 DEF LoseReply
  <2>5. QED
    BY <2>2, <2>3, <2>4
<1>19. QED
  BY <1>1, <1>2, <1>3, <1>4, <1>5, <1>6, <1>7, <1>8, <1>9, <1>10, <1>11, <1>12,
     <1>13, <1>14, <1>15, <1>16, <1>17, <1>18
  DEF Next, JobStep, TickStep, AdminStep, RetryStep, SendStep, EnvironmentStep, Task

\* A row says SENT only if its destination accepted the order in an answer
\* that arrived, however many workers and admins race for it, wherever they
\* crash and whichever other answers are lost.
THEOREM SentOnlyIfAcked == Spec => []SentWasAcked
<1>1. AckInv => SentWasAcked
  BY DEF AckInv
<1>2. QED
  BY <1>1, AckInit, AckStep, TypeCorrect, PTL DEF Spec

-----------------------------------------------------------------------------
(* No retry is lost *)

\* Inductive form.  A task that came to the row through the scheduler or an
\* admin found it FAILED, and FAILED rows never become PENDING again: such a
\* task, when it returns early, cannot leave a PENDING row behind.
RetryInv ==
  /\ RetryNotLost
  /\ \A t \in Task :
       task[t].pc \in {"gate", "reset", "read", "cancel"} =>
         order[task[t].order].status \in {"FAILED", "SENT"}

LEMMA RetryInit == Init => RetryInv
BY DEF Init, RetryInv, RetryNotLost, Unresolved, NoRow, Idle

\* What a write to one row means for a task elsewhere: as long as attempts
\* stay, the task carries the orders it carried before.
LEMMA CarriesStays ==
  ASSUME NEW u \in Task, NEW q,
         Carries(u, q), task'[u] = task[u],
         order'[q].attempts = order[q].attempts
  PROVE  Carries(u, q)'
BY DEF Carries, Sending, WinsRace

LEMMA RetryStepPreserves == TypeOK /\ RetryInv /\ [Next]_vars => RetryInv'
<1> SUFFICES ASSUME TypeOK, RetryInv, [Next]_vars PROVE RetryInv'
  OBVIOUS
<1> DEFINE Stranded(q) == Unresolved(order[q]) /\ order[q].retryAt = "null"
           Held(q) == q \in forfeited \/ \E u \in Task : Carries(u, q)
           Kind(t) == task[t].pc \in {"gate", "reset", "read", "cancel"} =>
                        order[task[t].order].status \in {"FAILED", "SENT"}
<1>a. RetryInv <=> /\ \A q \in Orders : Stranded(q) => Held(q)
                   /\ \A t \in Task : Kind(t)
  BY DEF RetryInv, RetryNotLost
<1>b. RetryInv' <=> /\ \A q \in Orders : Stranded(q)' => Held(q)'
                    /\ \A t \in Task : Kind(t)'
  BY DEF RetryInv, RetryNotLost
<1>c. \A t \in Task : Active(t) => task[t].order \in Orders
  BY DEF TypeOK
<1> USE DEF TypeOK, Active
<1>1. ASSUME NEW t \in Task, NEW o \in Orders, JobLookup(t, o) PROVE RetryInv'
  <2>1. \A u \in Task : u # t => task'[u] = task[u]
    BY <1>1 DEF JobLookup, Begin
  <2>2. \A q : ~Carries(t, q)
    BY <1>1 DEF JobLookup, Carries, Sending
  <2>3. ASSUME NEW q \in Orders, Stranded(q)' PROVE Held(q)'
    <3>1. Stranded(q) /\ order' = order /\ forfeited' = forfeited
      BY <1>1, <2>3 DEF JobLookup
    <3>2. QED
      BY <3>1, <2>1, <2>2, <1>a, CarriesStays
  <2>4. \A u \in Task : Kind(u)'
    BY <1>1, <2>1, <1>a DEF JobLookup, Begin
  <2>5. QED
    BY <2>3, <2>4, <1>b
<1>2. ASSUME NEW t \in Task, JobInsert(t) PROVE RetryInv'
  <2> PICK o \in Orders : o = task[t].order
    BY <1>2, <1>c DEF JobInsert
  <2>1. \A u \in Task : u # t => task'[u] = task[u]
    BY <1>2 DEF JobInsert, Goto, Finish
  <2>2. \A q : ~Carries(t, q)
    BY <1>2 DEF JobInsert, Carries, Sending
  <2>3. \A q \in Orders : q # o \/ order[o].status # "none" => order'[q] = order[q]
    BY <1>2 DEF JobInsert
  <2>4. order[o].status = "none" => Carries(t, o)' /\ order'[o].status = "PENDING"
    BY <1>2 DEF JobInsert, Goto, Carries, NewRow, NoRow, Activity
  <2>5. ASSUME NEW q \in Orders, Stranded(q)' PROVE Held(q)'
    <3>1. CASE q # o \/ order[o].status # "none"
      <4>1. Stranded(q) /\ forfeited' = forfeited /\ order'[q] = order[q]
        BY <3>1, <2>3, <2>5, <1>2 DEF JobInsert
      <4>2. QED
        BY <4>1, <2>1, <2>2, <1>a, CarriesStays
    <3>2. CASE q = o /\ order[o].status = "none"
      BY <3>2, <2>4
    <3>3. QED
      BY <3>1, <3>2
  <2>6. ASSUME NEW u \in Task PROVE Kind(u)'
    <3>1. CASE u = t
      BY <3>1, <1>2 DEF JobInsert, Goto, Finish, Idle, Activity
    <3>2. CASE u # t
      BY <3>2, <2>1, <2>3, <1>a, <1>c
    <3>3. QED
      BY <3>1, <3>2
  <2>7. QED
    BY <2>5, <2>6, <1>b
<1>3. ASSUME NEW t \in Task, JobReread(t) PROVE RetryInv'
  <2> DEFINE o == task[t].order
  <2>1. \A u \in Task : u # t => task'[u] = task[u]
    BY <1>3 DEF JobReread, Begin
  <2>2. task'[t] = [pc |-> "send", order |-> o, prev |-> order[o].attempts,
                    result |-> "undefined"] /\ order' = order
    BY <1>3 DEF JobReread, Begin
  <2>3. Carries(t, o)' /\ \A q : Carries(t, q) => q = o
    BY <2>2 DEF Carries, Sending, WinsRace
  <2>4. ASSUME NEW q \in Orders, Stranded(q)' PROVE Held(q)'
    <3>1. Stranded(q) /\ forfeited' = forfeited
      BY <1>3, <2>4 DEF JobReread
    <3>2. QED
      BY <3>1, <2>1, <2>2, <2>3, <1>a, CarriesStays
  <2>5. \A u \in Task : Kind(u)'
    BY <2>1, <2>2, <1>a
  <2>6. QED
    BY <2>4, <2>5, <1>b
<1>4. ASSUME NEW t \in Task, NEW o \in Orders, TickClaim(t, o) PROVE RetryInv'
  <2>1. \A u \in Task : u # t => task'[u] = task[u]
    BY <1>4 DEF TickClaim, Begin
  <2>2. Carries(t, o)' /\ \A q : ~Carries(t, q)
    BY <1>4 DEF TickClaim, Begin, Carries, Sending
  <2>3. \A q \in Orders : /\ q # o => order'[q] = order[q]
                          /\ order'[q].status = order[q].status
                          /\ order'[q].attempts = order[q].attempts
    BY <1>4 DEF TickClaim, Row
  <2>4. ASSUME NEW q \in Orders, Stranded(q)' PROVE Held(q)'
    <3>1. CASE q = o
      BY <3>1, <2>2
    <3>2. CASE q # o
      <4>1. Stranded(q) /\ forfeited' = forfeited
        BY <3>2, <2>3, <2>4, <1>4 DEF TickClaim
      <4>2. QED
        BY <4>1, <2>1, <2>2, <2>3, <1>a, CarriesStays
    <3>3. QED
      BY <3>1, <3>2
  <2>5. ASSUME NEW u \in Task PROVE Kind(u)'
    <3>1. CASE u = t
      BY <3>1, <1>4, <2>3 DEF TickClaim, Claimable, Begin
    <3>2. CASE u # t
      BY <3>2, <2>1, <2>3, <1>a, <1>c
    <3>3. QED
      BY <3>1, <3>2
  <2>6. QED
    BY <2>4, <2>5, <1>b
<1>5. ASSUME NEW t \in Task, TickBlocked(t) PROVE RetryInv'
  <2> DEFINE o == task[t].order
  <2>0. o \in Orders /\ order'[o].retryAt = "later"
    BY <1>5 DEF TickBlocked, Row
  <2>1. (\A u \in Task : u # t => task'[u] = task[u]) /\ task'[t].pc = "idle"
    BY <1>5 DEF TickBlocked, Finish, Idle
  <2>2. \A q : Carries(t, q) => q = o
    BY DEF Carries
  <2>3. \A q \in Orders : /\ q # o => order'[q] = order[q]
                          /\ order'[q].status = order[q].status
                          /\ order'[q].attempts = order[q].attempts
    BY <1>5 DEF TickBlocked, Row
  <2>4. ASSUME NEW q \in Orders, Stranded(q)' PROVE Held(q)'
    <3>1. q # o
      BY <2>0, <2>4
    <3>2. Stranded(q) /\ forfeited' = forfeited
      BY <3>1, <2>3, <2>4, <1>5 DEF TickBlocked
    <3>3. QED
      BY <3>1, <3>2, <2>1, <2>2, <2>3, <1>a, CarriesStays
  <2>5. \A u \in Task : Kind(u)'
    BY <2>1, <2>3, <1>a, <1>c
  <2>6. QED
    BY <2>4, <2>5, <1>b
<1>6. ASSUME NEW t \in Task, TickAllowed(t) PROVE RetryInv'
  <2> DEFINE o == task[t].order
  <2>1. \A u \in Task : u # t => task'[u] = task[u]
    BY <1>6 DEF TickAllowed, Goto
  <2>2. task'[t].pc = "read" /\ task'[t].order = o /\ order' = order
    BY <1>6 DEF TickAllowed, Goto, Activity
  <2>3. Carries(t, o)' /\ \A q : Carries(t, q) => q = o
    BY <2>2 DEF Carries
  <2>4. ASSUME NEW q \in Orders, Stranded(q)' PROVE Held(q)'
    <3>1. Stranded(q) /\ forfeited' = forfeited
      BY <1>6, <2>4 DEF TickAllowed
    <3>2. QED
      BY <3>1, <2>1, <2>2, <2>3, <1>a, CarriesStays
  <2>5. \A u \in Task : Kind(u)'
    BY <1>6, <2>1, <2>2, <1>a DEF TickAllowed
  <2>6. QED
    BY <2>4, <2>5, <1>b
<1>7. ASSUME NEW t \in Task, NEW o \in Orders, AdminLookup(t, o) PROVE RetryInv'
  <2>1. \A u \in Task : u # t => task'[u] = task[u]
    BY <1>7 DEF AdminLookup, Begin
  <2>2. \A q : ~Carries(t, q)
    BY <1>7 DEF AdminLookup, Carries, Sending
  <2>3. ASSUME NEW q \in Orders, Stranded(q)' PROVE Held(q)'
    <3>1. Stranded(q) /\ order' = order /\ forfeited' = forfeited
      BY <1>7, <2>3 DEF AdminLookup
    <3>2. QED
      BY <3>1, <2>1, <2>2, <1>a, CarriesStays
  <2>4. \A u \in Task : Kind(u)'
    BY <1>7, <2>1, <1>a DEF AdminLookup, Begin
  <2>5. QED
    BY <2>3, <2>4, <1>b
<1>8. ASSUME NEW t \in Task, AdminReset(t) PROVE RetryInv'
  <2> DEFINE o == task[t].order
  <2>0. o \in Orders /\ order'[o].retryAt = "due" /\ forfeited' = forfeited \ {o}
    BY <1>8 DEF AdminReset, Due, Row
  <2>1. \A u \in Task : u # t => task'[u] = task[u]
    BY <1>8 DEF AdminReset, Goto
  <2>2. \A q : Carries(t, q) => q = o
    BY DEF Carries
  <2>3. \A q \in Orders : /\ q # o => order'[q] = order[q]
                          /\ order'[q].status = order[q].status
    BY <1>8 DEF AdminReset, Due, Row
  <2>4. ASSUME NEW q \in Orders, Stranded(q)' PROVE Held(q)'
    <3>1. q # o
      BY <2>0, <2>4
    <3>2. Stranded(q)
      BY <3>1, <2>3, <2>4
    <3>3. QED
      BY <3>1, <3>2, <2>0, <2>1, <2>2, <2>3, <1>a, CarriesStays
  <2>5. ASSUME NEW u \in Task PROVE Kind(u)'
    <3>1. CASE u = t
      BY <3>1, <1>8, <2>0, <2>3, <1>a DEF AdminReset, Goto, Activity
    <3>2. CASE u # t
      BY <3>2, <2>1, <2>3, <1>a, <1>c
    <3>3. QED
      BY <3>1, <3>2
  <2>6. QED
    BY <2>4, <2>5, <1>b
<1>9. ASSUME NEW t \in Task, RetryRead(t) PROVE RetryInv'
  <2> PICK o \in Orders : o = task[t].order
    BY <1>9, <1>c DEF RetryRead
  <2>0. order' = order /\ order[o].status \in {"FAILED", "SENT"}
    BY <1>9, <1>a DEF RetryRead
  <2>1. \A u \in Task : u # t => task'[u] = task[u]
    BY <1>9 DEF RetryRead, Begin, Goto, Finish
  <2>2. \A q : Carries(t, q) => q = o
    BY DEF Carries
  <2>3. Unresolved(order[o]) => o \in forfeited' \/ Carries(t, o)'
    <3>1. SUFFICES ASSUME order[o].status = "FAILED", order[o].attempts < MaxAttempts
                   PROVE  o \in forfeited' \/ Carries(t, o)'
      BY <2>0, PolicyAssumption DEF Unresolved, GivesUp, Row
    <3>2. CASE target[o] = "live"
      BY <1>9, <3>1, <3>2, <2>0 DEF RetryRead, Begin, Carries, Sending, WinsRace
    <3>3. CASE target[o] = "off"
      BY <1>9, <3>1, <3>3, <2>0 DEF RetryRead, Goto, Carries, Activity
    <3>4. CASE target[o] = "gone"
      BY <1>9, <3>1, <3>4, <2>0 DEF RetryRead
    <3>5. QED
      BY <3>2, <3>3, <3>4, <2>0 DEF Target
  <2>4. ASSUME NEW q \in Orders, Stranded(q)' PROVE Held(q)'
    <3>1. Stranded(q) /\ forfeited \subseteq forfeited'
      BY <1>9, <2>0, <2>4 DEF RetryRead
    <3>2. CASE q = o
      BY <3>1, <3>2, <2>3
    <3>3. CASE q # o
      BY <3>1, <3>3, <2>0, <2>1, <2>2, <1>a, CarriesStays
    <3>4. QED
      BY <3>2, <3>3
  <2>5. ASSUME NEW u \in Task PROVE Kind(u)'
    <3>1. CASE u = t
      BY <3>1, <1>9, <2>0 DEF RetryRead, Begin, Goto, Finish, Idle, Activity
    <3>2. CASE u # t
      BY <3>2, <2>0, <2>1, <1>a
    <3>3. QED
      BY <3>1, <3>2
  <2>6. QED
    BY <2>4, <2>5, <1>b
<1>10. ASSUME NEW t \in Task, CancelRetry(t) PROVE RetryInv'
  <2> DEFINE o == task[t].order
  <2>0. o \in Orders /\ forfeited' = forfeited \cup {o}
    BY <1>10 DEF CancelRetry
  <2>1. (\A u \in Task : u # t => task'[u] = task[u]) /\ task'[t].pc = "idle"
    BY <1>10 DEF CancelRetry, Finish, Idle
  <2>2. \A q : Carries(t, q) => q = o
    BY DEF Carries
  <2>3. \A q \in Orders : /\ q # o => order'[q] = order[q]
                          /\ order'[q].status = order[q].status
    BY <1>10 DEF CancelRetry, Row
  <2>4. ASSUME NEW q \in Orders, Stranded(q)' PROVE Held(q)'
    <3>1. CASE q = o
      BY <3>1, <2>0
    <3>2. CASE q # o
      BY <3>2, <2>0, <2>1, <2>2, <2>3, <2>4, <1>a, CarriesStays
    <3>3. QED
      BY <3>1, <3>2
  <2>5. \A u \in Task : Kind(u)'
    BY <2>1, <2>3, <1>a, <1>c
  <2>6. QED
    BY <2>4, <2>5, <1>b
<1>11. ASSUME NEW t \in Task, NEW r \in Outcomes, Send(t, r) PROVE RetryInv'
  <2> DEFINE o == task[t].order
  <2>0. order' = order /\ forfeited' = forfeited
    BY <1>11 DEF Send
  <2>1. \A u \in Task : u # t => task'[u] = task[u]
    BY <1>11 DEF Send
  <2>2. task'[t].pc = "persist" /\ task'[t].order = o /\ task'[t].prev = task[t].prev
    BY <1>11 DEF Send, Activity
  <2>3. \A q : Carries(t, q) => Carries(t, q)'
    BY <1>11, <2>0, <2>2 DEF Send, Carries, Sending, WinsRace
  <2>4. ASSUME NEW q \in Orders, Stranded(q)' PROVE Held(q)'
    BY <2>0, <2>1, <2>3, <2>4, <1>a, CarriesStays
  <2>5. \A u \in Task : Kind(u)'
    BY <2>0, <2>1, <2>2, <1>a
  <2>6. QED
    BY <2>4, <2>5, <1>b
<1>12. ASSUME NEW t \in Task, Persist(t) PROVE RetryInv'
  <2> PICK o \in Orders, n \in Nat, r \in Outcome :
           o = task[t].order /\ n = task[t].prev + 1 /\ r = task[t].result
    BY <1>12 DEF Persist, Activity
  <2>1. (\A u \in Task : u # t => task'[u] = task[u]) /\ task'[t].pc = "idle"
    BY <1>12 DEF Persist, Finish, Idle
  <2>2. \A q : Carries(t, q) => q = o
    BY DEF Carries
  <2>3. \A q \in Orders : q # o => order'[q] = order[q] /\ (q \in forfeited' <=> q \in forfeited)
    BY <1>12 DEF Persist
  <2>4. CASE WinsRace(t)
    <3>1. order'[o] = Settle(n, r)
      BY <1>12, <2>4 DEF Persist
    <3>2. ~(Stranded(o)') /\ order'[o].status \in {"FAILED", "SENT"}
      BY <3>1 DEF Settle, Unresolved
    <3>3. ASSUME NEW q \in Orders, Stranded(q)' PROVE Held(q)'
      BY <3>2, <3>3, <2>1, <2>2, <2>3, <1>a, CarriesStays
    <3>4. ASSUME NEW u \in Task PROVE Kind(u)'
      BY <3>2, <2>1, <2>3, <1>a, <1>c
    <3>5. QED
      BY <3>3, <3>4, <1>b
  <2>5. CASE ~WinsRace(t)
    <3>1. order' = order /\ forfeited' = forfeited
      BY <1>12, <2>5 DEF Persist
    <3>2. \A q : ~Carries(t, q)
      BY <1>12, <2>5 DEF Persist, Carries
    <3>3. ASSUME NEW q \in Orders, Stranded(q)' PROVE Held(q)'
      BY <3>1, <3>2, <3>3, <2>1, <1>a, CarriesStays
    <3>4. \A u \in Task : Kind(u)'
      BY <3>1, <2>1, <1>a
    <3>5. QED
      BY <3>3, <3>4, <1>b
  <2>6. QED
    BY <2>4, <2>5
<1>13. ASSUME NEW t \in Task, Crash(t) PROVE RetryInv'
  <2> DEFINE o == task[t].order
  <2>0. order' = order /\ forfeited' = forfeited \cup {o}
    BY <1>13 DEF Crash
  <2>1. (\A u \in Task : u # t => task'[u] = task[u]) /\ task'[t].pc = "idle"
    BY <1>13 DEF Crash, Finish, Idle
  <2>2. \A q : Carries(t, q) => q = o
    BY DEF Carries
  <2>3. ASSUME NEW q \in Orders, Stranded(q)' PROVE Held(q)'
    BY <2>0, <2>1, <2>2, <2>3, <1>a, CarriesStays
  <2>4. \A u \in Task : Kind(u)'
    BY <2>0, <2>1, <1>a
  <2>5. QED
    BY <2>3, <2>4, <1>b
<1>14. ASSUME NEW o \in Orders, AdminRetryAll(o) PROVE RetryInv'
  <2>0. order'[o].retryAt = "due" /\ forfeited' = forfeited \ {o} /\ task' = task
    BY <1>14 DEF AdminRetryAll, Due, Row
  <2>1. \A q \in Orders : /\ q # o => order'[q] = order[q]
                          /\ order'[q].status = order[q].status
    BY <1>14 DEF AdminRetryAll, Due, Row
  <2>2. ASSUME NEW q \in Orders, Stranded(q)' PROVE Held(q)'
    BY <2>0, <2>1, <2>2, <1>a, CarriesStays
  <2>3. \A u \in Task : Kind(u)'
    BY <2>0, <2>1, <1>a, <1>c
  <2>4. QED
    BY <2>2, <2>3, <1>b
<1>15. ASSUME NEW o \in Orders, TimePasses(o) PROVE RetryInv'
  <2>0. order'[o].retryAt = "due" /\ forfeited' = forfeited /\ task' = task
    BY <1>15 DEF TimePasses, Row
  <2>1. \A q \in Orders : /\ q # o => order'[q] = order[q]
                          /\ order'[q].status = order[q].status
    BY <1>15 DEF TimePasses, Row
  <2>2. ASSUME NEW q \in Orders, Stranded(q)' PROVE Held(q)'
    BY <2>0, <2>1, <2>2, <1>a, CarriesStays
  <2>3. \A u \in Task : Kind(u)'
    BY <2>0, <2>1, <1>a, <1>c
  <2>4. QED
    BY <2>2, <2>3, <1>b
<1>16. CASE UNCHANGED <<order, task, forfeited>>
  <2>1. ASSUME NEW q \in Orders, Stranded(q)' PROVE Held(q)'
    BY <1>16, <2>1, <1>a, CarriesStays
  <2>2. \A u \in Task : Kind(u)'
    BY <1>16, <1>a
  <2>3. QED
    BY <2>1, <2>2, <1>b
<1>17. ASSUME NEW t \in Task, LoseReply(t) PROVE RetryInv'
  <2> DEFINE o == task[t].order
  <2>0. order' = order /\ forfeited' = forfeited
    BY <1>17 DEF LoseReply
  <2>1. \A u \in Task : u # t => task'[u] = task[u]
    BY <1>17 DEF LoseReply
  <2>2. task'[t].pc = "persist" /\ task'[t].order = o /\ task'[t].prev = task[t].prev
    BY <1>17 DEF LoseReply, Activity
  <2>3. \A q : Carries(t, q) => Carries(t, q)'
    BY <1>17, <2>0, <2>2 DEF LoseReply, Carries, Sending, WinsRace
  <2>4. ASSUME NEW q \in Orders, Stranded(q)' PROVE Held(q)'
    BY <2>0, <2>1, <2>3, <2>4, <1>a, CarriesStays
  <2>5. \A u \in Task : Kind(u)'
    BY <2>0, <2>1, <2>2, <1>a
  <2>6. QED
    BY <2>4, <2>5, <1>b
<1>18. QED
  BY <1>1, <1>2, <1>3, <1>4, <1>5, <1>6, <1>7, <1>8, <1>9, <1>10, <1>11, <1>12,
     <1>13, <1>14, <1>15, <1>16, <1>17
  DEF Next, JobStep, TickStep, AdminStep, RetryStep, SendStep, EnvironmentStep, Task,
      TargetChanges, vars

\* An order that needs another attempt is scheduled, or some task still has
\* to decide about it, or its claim was dropped by a crash or by a route that
\* is off: no interleaving of claims, races, parks and resets loses it.
THEOREM NoRetryLost == Spec => []RetryNotLost
<1>1. RetryInv => RetryNotLost
  BY DEF RetryInv
<1>2. QED
  BY <1>1, RetryInit, RetryStepPreserves, TypeCorrect, PTL DEF Spec

-----------------------------------------------------------------------------
(* Every send is paid for *)

\* The tasks on o that may still add an accepted answer, or a date to its row.
Able(o) == {t \in Task : /\ task[t].order = o
                         /\ ~(task[t].pc = "persist" /\ task[t].result = "ok")}

\* The admin calls on o that have yet to make the row due.
Resetting(o) == {t \in Task : task[t].order = o /\ task[t].pc = "reset"}

\* A row with a date has one claim to give away.
Open(o) == IF order[o].retryAt = "null" THEN 0 ELSE 1

\* Inductive form: what may still be sent is paid for as well.  A run or an
\* admin call pays for the task it starts; a claim trades the row's date for a
\* task; a task trades itself for an acceptance or for a new date.
Paid(o) ==
  /\ IsFiniteSet(Able(o)) /\ IsFiniteSet(Resetting(o))
  /\ acked[o] + Cardinality(Able(o)) + Cardinality(Resetting(o)) + Open(o)
       <= unheard[o] + runs[o] + 2 * resets

BudgetInv == \A o \in Orders : Paid(o)

\* A set that gains at most one element.
LEMMA AtMostOneMore ==
  ASSUME NEW S, IsFiniteSet(S), NEW x, NEW T, T \subseteq S \cup {x}
  PROVE  IsFiniteSet(T) /\ Cardinality(T) <= Cardinality(S) + 1
<1>1. /\ IsFiniteSet(S \cup {x})
      /\ Cardinality(S \cup {x}) = IF x \in S THEN Cardinality(S) ELSE Cardinality(S) + 1
  BY FS_AddElement
<1>2. IsFiniteSet(T) /\ Cardinality(T) <= Cardinality(S \cup {x})
  BY <1>1, FS_Subset
<1>3. Cardinality(S) \in Nat /\ Cardinality(T) \in Nat
  BY <1>2, FS_CardinalityType
<1>4. QED
  BY <1>1, <1>2, <1>3

\* A set that loses at least one element.
LEMMA AtLeastOneLess ==
  ASSUME NEW S, IsFiniteSet(S), NEW x \in S, NEW T, T \subseteq S \ {x}
  PROVE  IsFiniteSet(T) /\ Cardinality(T) <= Cardinality(S) - 1
<1>1. IsFiniteSet(S \ {x}) /\ Cardinality(S \ {x}) = Cardinality(S) - 1
  BY FS_RemoveElement
<1>2. QED
  BY <1>1, FS_Subset

\* The counts of o after a step that adds at most i able tasks and j resets:
\* what the order has left must cover them.
LEMMA Balance ==
  ASSUME TypeOK, TypeOK', BudgetInv, NEW o \in Orders, NEW i \in Int, NEW j \in Int,
         IsFiniteSet(Able(o)'), Cardinality(Able(o)') <= Cardinality(Able(o)) + i,
         IsFiniteSet(Resetting(o)'),
         Cardinality(Resetting(o)') <= Cardinality(Resetting(o)) + j,
         acked'[o] - acked[o] + i + j + Open(o)' - Open(o)
           <= unheard'[o] - unheard[o] + runs'[o] - runs[o] + 2 * (resets' - resets)
  PROVE  Paid(o)'
<1>1. /\ acked[o] \in Nat /\ unheard[o] \in Nat /\ runs[o] \in Nat /\ resets \in Nat
      /\ acked'[o] \in Nat /\ unheard'[o] \in Nat /\ runs'[o] \in Nat /\ resets' \in Nat
  BY DEF TypeOK
<1>2. Open(o) \in Int /\ Open(o)' \in Int
  BY DEF Open
<1>3. /\ Cardinality(Able(o)) \in Nat /\ Cardinality(Able(o)') \in Nat
      /\ Cardinality(Resetting(o)) \in Nat /\ Cardinality(Resetting(o)') \in Nat
  BY FS_CardinalityType DEF BudgetInv, Paid
<1>4. acked[o] + Cardinality(Able(o)) + Cardinality(Resetting(o)) + Open(o)
        <= unheard[o] + runs[o] + 2 * resets
  BY DEF BudgetInv, Paid
<1>5. acked'[o] + Cardinality(Able(o)') + Cardinality(Resetting(o)') + Open(o)'
        <= unheard'[o] + runs'[o] + 2 * resets'
  BY <1>1, <1>2, <1>3, <1>4
<1>6. QED
  BY <1>5 DEF Paid

\* The counts of the tasks on o, when t is the only task that moves: it came
\* to o, left it, or stayed; it started or finished its reset.
LEMMA TasksMove ==
  ASSUME BudgetInv, NEW o \in Orders, NEW t \in Task,
         \A u \in Task : u # t => task'[u] = task[u]
  PROVE  /\ IsFiniteSet(Able(o)') /\ IsFiniteSet(Resetting(o)')
         /\ Cardinality(Able(o)') <= Cardinality(Able(o)) + 1
         /\ t \in Able(o) \/ t \notin Able(o)' => Cardinality(Able(o)') <= Cardinality(Able(o)) + 0
         /\ t \in Able(o) /\ t \notin Able(o)' => Cardinality(Able(o)') <= Cardinality(Able(o)) - 1
         /\ Cardinality(Resetting(o)') <= Cardinality(Resetting(o)) + 1
         /\ t \in Resetting(o) \/ t \notin Resetting(o)' =>
              Cardinality(Resetting(o)') <= Cardinality(Resetting(o)) + 0
         /\ t \in Resetting(o) /\ t \notin Resetting(o)' =>
              Cardinality(Resetting(o)') <= Cardinality(Resetting(o)) - 1
<1>1. Able(o)' \subseteq Able(o) \cup {t} /\ Resetting(o)' \subseteq Resetting(o) \cup {t}
  BY DEF Able, Resetting
<1>2. IsFiniteSet(Able(o)) /\ IsFiniteSet(Resetting(o))
  BY DEF BudgetInv, Paid
<1>3. ASSUME NEW S, IsFiniteSet(S), NEW T, T \subseteq S \cup {t}
      PROVE  /\ IsFiniteSet(T) /\ Cardinality(T) <= Cardinality(S) + 1
             /\ t \in S \/ t \notin T => Cardinality(T) <= Cardinality(S) + 0
             /\ t \in S /\ t \notin T => Cardinality(T) <= Cardinality(S) - 1
  <2>1. IsFiniteSet(T) /\ Cardinality(T) <= Cardinality(S) + 1
    BY <1>3, AtMostOneMore
  <2>2. ASSUME t \in S \/ t \notin T PROVE Cardinality(T) <= Cardinality(S) + 0
    <3>1. T \subseteq S
      BY <1>3, <2>2
    <3>2. Cardinality(T) <= Cardinality(S) /\ Cardinality(S) \in Nat /\ Cardinality(T) \in Nat
      BY <1>3, <3>1, FS_Subset, FS_CardinalityType
    <3>3. QED
      BY <3>2
  <2>3. ASSUME t \in S, t \notin T PROVE Cardinality(T) <= Cardinality(S) - 1
    <3>1. T \subseteq S \ {t}
      BY <1>3, <2>3
    <3>2. QED
      BY <1>3, <2>3, <3>1, AtLeastOneLess
  <2>4. QED
    BY <2>1, <2>2, <2>3
<1>4. QED
  BY <1>1, <1>2, <1>3

\* Orders a step does not touch keep their balance.
LEMMA BalanceElsewhere ==
  ASSUME TypeOK, TypeOK', BudgetInv, NEW o \in Orders, NEW t \in Task,
         \A u \in Task : u # t => task'[u] = task[u],
         t \in Able(o) \/ t \notin Able(o)', t \in Resetting(o) \/ t \notin Resetting(o)',
         acked'[o] = acked[o], unheard'[o] = unheard[o], runs'[o] = runs[o],
         resets' >= resets, Open(o)' <= Open(o)
  PROVE  Paid(o)'
<1>1. /\ acked[o] \in Nat /\ unheard[o] \in Nat /\ runs[o] \in Nat /\ resets \in Nat
      /\ resets' \in Nat
  BY DEF TypeOK
<1>2. Open(o) \in Int /\ Open(o)' \in Int
  BY DEF Open
<1>3. acked'[o] - acked[o] + 0 + 0 + Open(o)' - Open(o)
        <= unheard'[o] - unheard[o] + runs'[o] - runs[o] + 2 * (resets' - resets)
  BY <1>1, <1>2
<1>4. QED
  BY <1>3, TasksMove, Balance

LEMMA BudgetInit == Init => BudgetInv
<1> SUFFICES ASSUME Init, NEW o \in Orders PROVE Paid(o)
  BY DEF BudgetInv
<1>1. Able(o) = {} /\ Resetting(o) = {}
  BY DeliveryAssumption DEF Init, Able, Resetting, Idle
<1>2. Open(o) = 0
  BY DEF Init, Open, NoRow
<1>3. QED
  BY <1>1, <1>2, FS_EmptySet DEF Init, Paid

LEMMA BudgetStep == TypeOK /\ TypeOK' /\ BudgetInv /\ [Next]_vars => BudgetInv'
<1> SUFFICES ASSUME TypeOK, TypeOK', BudgetInv, [Next]_vars, NEW q \in Orders
             PROVE  Paid(q)'
  BY DEF BudgetInv
<1>a. \A t \in Task : task'[t].order # q => t \notin Able(q)' /\ t \notin Resetting(q)'
  BY DEF Able, Resetting
<1>b. Open(q) \in {0, 1} /\ Open(q)' \in {0, 1}
  BY DEF Open
<1>c. /\ acked[q] \in Nat /\ unheard[q] \in Nat /\ runs[q] \in Nat /\ resets \in Nat
      /\ acked'[q] \in Nat /\ unheard'[q] \in Nat /\ runs'[q] \in Nat /\ resets' \in Nat
  BY DEF TypeOK
<1>d. NoOrder # q /\ Idle.order = NoOrder
  BY DeliveryAssumption DEF Idle
<1>1. ASSUME NEW t \in Task, NEW o \in Orders, JobLookup(t, o) PROVE Paid(q)'
  <2>1. /\ \A u \in Task : u # t => task'[u] = task[u]
        /\ task'[t].order = o /\ task'[t].pc \in {"insert", "send"}
    BY <1>1 DEF JobLookup, Begin, TypeOK
  <2>2. /\ Open(q)' = Open(q) /\ acked' = acked /\ unheard' = unheard
        /\ resets' = resets /\ runs'[q] = runs[q] + IF q = o THEN 1 ELSE 0
    BY <1>1 DEF JobLookup, Open, TypeOK
  <2>3. t \notin Resetting(q)'
    BY <2>1 DEF Resetting
  <2>4. CASE q = o
    <3>1. acked'[q] - acked[q] + 1 + 0 + Open(q)' - Open(q)
            <= unheard'[q] - unheard[q] + runs'[q] - runs[q] + 2 * (resets' - resets)
      BY <2>2, <2>4, <1>b, <1>c
    <3>2. QED
      BY <2>1, <2>3, <3>1, TasksMove, Balance
  <2>5. CASE q # o
    BY <2>1, <2>2, <2>5, <1>a, <1>b, <1>c, BalanceElsewhere
  <2>6. QED
    BY <2>4, <2>5
<1>2. ASSUME NEW t \in Task, JobInsert(t) PROVE Paid(q)'
  <2>1. /\ \A u \in Task : u # t => task'[u] = task[u]
        /\ task'[t].order \in {task[t].order, NoOrder} /\ task'[t].pc \in {"reread", "idle"}
    BY <1>2 DEF JobInsert, Goto, Finish, Idle, TypeOK, Activity
  <2>2. t \in Able(q) \/ t \notin Able(q)'
    BY <2>1, <1>2, <1>a, <1>d DEF Able, JobInsert
  <2>3. t \notin Resetting(q)'
    BY <2>1 DEF Resetting
  <2>4. Open(q)' <= Open(q)
    <3>1. order' = order \/ order' = [order EXCEPT ![task[t].order] = NewRow]
      BY <1>2 DEF JobInsert
    <3>2. order'[q] = order[q] \/ order'[q].retryAt = "null"
      BY <3>1 DEF NewRow, NoRow, TypeOK
    <3>3. QED
      BY <3>2 DEF Open
  <2>5. QED
    BY <2>1, <2>2, <2>3, <2>4, <1>2, <1>c, BalanceElsewhere DEF JobInsert
<1>3. ASSUME NEW t \in Task, JobReread(t) PROVE Paid(q)'
  <2>1. /\ \A u \in Task : u # t => task'[u] = task[u]
        /\ task'[t].order = task[t].order /\ task'[t].pc = "send"
    BY <1>3 DEF JobReread, Begin, TypeOK
  <2>2. t \in Able(q) \/ t \notin Able(q)'
    BY <2>1, <1>3, <1>a DEF Able, JobReread
  <2>3. t \notin Resetting(q)'
    BY <2>1 DEF Resetting
  <2>4. QED
    BY <2>1, <2>2, <2>3, <1>3, <1>b, <1>c, BalanceElsewhere DEF JobReread, Open
<1>4. ASSUME NEW t \in Task, NEW o \in Orders, TickClaim(t, o) PROVE Paid(q)'
  <2>1. /\ \A u \in Task : u # t => task'[u] = task[u]
        /\ task'[t].order = o /\ task'[t].pc = "gate"
    BY <1>4 DEF TickClaim, Begin, TypeOK
  <2>2. /\ acked' = acked /\ unheard' = unheard /\ resets' = resets /\ runs' = runs
        /\ q # o => Open(q)' = Open(q)
        /\ q = o => Open(q) = 1 /\ Open(q)' = 0
    BY <1>4 DEF TickClaim, Claimable, Open, TypeOK, Row
  <2>3. t \notin Resetting(q)'
    BY <2>1 DEF Resetting
  <2>4. CASE q = o
    <3>1. acked'[q] - acked[q] + 1 + 0 + Open(q)' - Open(q)
            <= unheard'[q] - unheard[q] + runs'[q] - runs[q] + 2 * (resets' - resets)
      BY <2>2, <2>4, <1>c
    <3>2. QED
      BY <2>1, <2>3, <3>1, TasksMove, Balance
  <2>5. CASE q # o
    BY <2>1, <2>2, <2>5, <1>a, <1>b, <1>c, BalanceElsewhere
  <2>6. QED
    BY <2>4, <2>5
<1>5. ASSUME NEW t \in Task, TickBlocked(t) PROVE Paid(q)'
  <2>1. /\ \A u \in Task : u # t => task'[u] = task[u]
        /\ task'[t].order = NoOrder
    BY <1>5, <1>d DEF TickBlocked, Finish, TypeOK
  <2>2. t \notin Able(q)' /\ t \notin Resetting(q)'
    BY <2>1, <1>a, <1>d
  <2>3. /\ acked' = acked /\ unheard' = unheard /\ resets' = resets /\ runs' = runs
        /\ q # task[t].order => Open(q)' = Open(q)
    BY <1>5 DEF TickBlocked, Open, TypeOK, Row
  <2>4. CASE q = task[t].order
    <3>1. t \in Able(q)
      BY <2>4, <1>5 DEF Able, TickBlocked
    <3>2. acked'[q] - acked[q] + (-1) + 0 + Open(q)' - Open(q)
            <= unheard'[q] - unheard[q] + runs'[q] - runs[q] + 2 * (resets' - resets)
      BY <2>3, <1>b, <1>c
    <3>3. /\ IsFiniteSet(Able(q)') /\ IsFiniteSet(Resetting(q)')
          /\ Cardinality(Able(q)') <= Cardinality(Able(q)) - 1
          /\ Cardinality(Resetting(q)') <= Cardinality(Resetting(q)) + 0
      BY <2>1, <2>2, <3>1, TasksMove
    <3>4. Cardinality(Able(q)') <= Cardinality(Able(q)) + (-1)
      BY <3>3
    <3>5. QED
      BY <3>2, <3>3, <3>4, Balance
  <2>5. CASE q # task[t].order
    BY <2>1, <2>2, <2>3, <2>5, <1>b, <1>c, BalanceElsewhere
  <2>6. QED
    BY <2>4, <2>5
<1>6. ASSUME NEW t \in Task, TickAllowed(t) PROVE Paid(q)'
  <2>1. /\ \A u \in Task : u # t => task'[u] = task[u]
        /\ task'[t].order = task[t].order /\ task'[t].pc = "read"
    BY <1>6 DEF TickAllowed, Goto, TypeOK, Activity
  <2>2. t \in Able(q) \/ t \notin Able(q)'
    BY <2>1, <1>6, <1>a DEF Able, TickAllowed
  <2>3. t \notin Resetting(q)'
    BY <2>1 DEF Resetting
  <2>4. QED
    BY <2>1, <2>2, <2>3, <1>6, <1>b, <1>c, BalanceElsewhere DEF TickAllowed, Open
<1>7. ASSUME NEW t \in Task, NEW o \in Orders, AdminLookup(t, o) PROVE Paid(q)'
  <2>1. /\ \A u \in Task : u # t => task'[u] = task[u]
        /\ task'[t].order = o
    BY <1>7 DEF AdminLookup, Begin, TypeOK
  <2>2. /\ acked' = acked /\ unheard' = unheard /\ resets' = resets + 1 /\ runs' = runs
        /\ Open(q)' = Open(q)
    BY <1>7 DEF AdminLookup, Open
  <2>3. acked'[q] - acked[q] + 1 + 1 + Open(q)' - Open(q)
          <= unheard'[q] - unheard[q] + runs'[q] - runs[q] + 2 * (resets' - resets)
    BY <2>2, <1>b, <1>c
  <2>4. QED
    BY <2>1, <2>3, TasksMove, Balance
<1>8. ASSUME NEW t \in Task, AdminReset(t) PROVE Paid(q)'
  <2>1. /\ \A u \in Task : u # t => task'[u] = task[u]
        /\ task'[t].order = task[t].order /\ task'[t].pc = "read"
    BY <1>8 DEF AdminReset, Goto, TypeOK, Activity
  <2>2. t \in Able(q) \/ t \notin Able(q)'
    BY <2>1, <1>8, <1>a DEF Able, AdminReset
  <2>3. t \notin Resetting(q)'
    BY <2>1 DEF Resetting
  <2>4. /\ acked' = acked /\ unheard' = unheard /\ resets' = resets /\ runs' = runs
        /\ q # task[t].order => Open(q)' = Open(q)
    BY <1>8 DEF AdminReset, Open, TypeOK
  <2>5. CASE q = task[t].order
    <3>1. t \in Resetting(q)
      BY <2>5, <1>8 DEF Resetting, AdminReset
    <3>2. acked'[q] - acked[q] + 0 + (-1) + Open(q)' - Open(q)
            <= unheard'[q] - unheard[q] + runs'[q] - runs[q] + 2 * (resets' - resets)
      BY <2>4, <1>b, <1>c
    <3>3. /\ IsFiniteSet(Able(q)') /\ IsFiniteSet(Resetting(q)')
          /\ Cardinality(Able(q)') <= Cardinality(Able(q)) + 0
          /\ Cardinality(Resetting(q)') <= Cardinality(Resetting(q)) - 1
      BY <2>1, <2>2, <2>3, <3>1, TasksMove
    <3>4. Cardinality(Resetting(q)') <= Cardinality(Resetting(q)) + (-1)
      BY <3>3
    <3>5. QED
      BY <3>2, <3>3, <3>4, Balance
  <2>6. CASE q # task[t].order
    BY <2>1, <2>2, <2>3, <2>4, <2>6, <1>b, <1>c, BalanceElsewhere
  <2>7. QED
    BY <2>5, <2>6
<1>9. ASSUME NEW t \in Task, RetryRead(t) PROVE Paid(q)'
  <2>1. /\ \A u \in Task : u # t => task'[u] = task[u]
        /\ task'[t].order \in {task[t].order, NoOrder}
        /\ task'[t].pc \in {"send", "cancel", "idle"}
    BY <1>9 DEF RetryRead, Begin, Goto, Finish, Idle, TypeOK, Activity
  <2>2. t \in Able(q) \/ t \notin Able(q)'
    BY <2>1, <1>9, <1>a, <1>d DEF Able, RetryRead
  <2>3. t \notin Resetting(q)'
    BY <2>1 DEF Resetting
  <2>4. QED
    BY <2>1, <2>2, <2>3, <1>9, <1>b, <1>c, BalanceElsewhere DEF RetryRead, Open
<1>10. ASSUME NEW t \in Task, CancelRetry(t) PROVE Paid(q)'
  <2>1. /\ \A u \in Task : u # t => task'[u] = task[u]
        /\ task'[t].order = NoOrder
    BY <1>10, <1>d DEF CancelRetry, Finish, TypeOK
  <2>2. t \notin Able(q)' /\ t \notin Resetting(q)'
    BY <2>1, <1>a, <1>d
  <2>3. order'[q] = order[q] \/ order'[q].retryAt = "null"
    BY <1>10 DEF CancelRetry, TypeOK, Row
  <2>4. QED
    BY <2>1, <2>2, <2>3, <1>10, <1>c, BalanceElsewhere DEF CancelRetry, Open
<1>11. ASSUME NEW t \in Task, NEW r \in Outcomes, Send(t, r) PROVE Paid(q)'
  <2>1. /\ \A u \in Task : u # t => task'[u] = task[u]
        /\ task'[t].order = task[t].order /\ task'[t].pc = "persist" /\ task'[t].result = r
    BY <1>11 DEF Send, TypeOK, Activity
  <2>2. t \in Able(q) \/ t \notin Able(q)'
    BY <2>1, <1>11, <1>a DEF Able, Send
  <2>3. t \notin Resetting(q)'
    BY <2>1 DEF Resetting
  <2>4. /\ unheard' = unheard /\ resets' = resets /\ runs' = runs /\ Open(q)' = Open(q)
        /\ acked'[q] = acked[q] + IF r = "ok" /\ q = task[t].order THEN 1 ELSE 0
    BY <1>11 DEF Send, Open, TypeOK
  <2>5. CASE r = "ok" /\ q = task[t].order
    <3>1. t \in Able(q) /\ t \notin Able(q)'
      BY <2>1, <2>5, <1>11 DEF Able, Send
    <3>2. acked'[q] - acked[q] + (-1) + 0 + Open(q)' - Open(q)
            <= unheard'[q] - unheard[q] + runs'[q] - runs[q] + 2 * (resets' - resets)
      BY <2>4, <2>5, <1>b, <1>c
    <3>3. /\ IsFiniteSet(Able(q)') /\ IsFiniteSet(Resetting(q)')
          /\ Cardinality(Able(q)') <= Cardinality(Able(q)) - 1
          /\ Cardinality(Resetting(q)') <= Cardinality(Resetting(q)) + 0
      BY <2>1, <2>3, <3>1, TasksMove
    <3>4. Cardinality(Able(q)') <= Cardinality(Able(q)) + (-1)
      BY <3>3
    <3>5. QED
      BY <3>2, <3>3, <3>4, Balance
  <2>6. CASE ~(r = "ok" /\ q = task[t].order)
    BY <2>1, <2>2, <2>3, <2>4, <2>6, <1>b, <1>c, BalanceElsewhere
  <2>7. QED
    BY <2>5, <2>6
<1>12. ASSUME NEW t \in Task, LoseReply(t) PROVE Paid(q)'
  <2>1. /\ \A u \in Task : u # t => task'[u] = task[u]
        /\ task'[t].order = task[t].order /\ task'[t].pc = "persist"
    BY <1>12 DEF LoseReply, TypeOK, Activity
  <2>2. t \in Able(q) \/ t \notin Able(q)'
    BY <2>1, <1>12, <1>a DEF Able, LoseReply
  <2>3. t \notin Resetting(q)'
    BY <2>1 DEF Resetting
  <2>4. /\ resets' = resets /\ runs' = runs /\ Open(q)' = Open(q)
        /\ acked'[q] - acked[q] = unheard'[q] - unheard[q]
    BY <1>12 DEF LoseReply, Open, TypeOK
  <2>5. acked'[q] - acked[q] + 0 + 0 + Open(q)' - Open(q)
          <= unheard'[q] - unheard[q] + runs'[q] - runs[q] + 2 * (resets' - resets)
    BY <2>4, <1>b, <1>c
  <2>6. QED
    BY <2>1, <2>2, <2>3, <2>5, TasksMove, Balance
<1>13. ASSUME NEW t \in Task, Persist(t) PROVE Paid(q)'
  <2>1. /\ \A u \in Task : u # t => task'[u] = task[u]
        /\ task'[t].order = NoOrder
    BY <1>13, <1>d DEF Persist, Finish, TypeOK
  <2>2. t \notin Able(q)' /\ t \notin Resetting(q)'
    BY <2>1, <1>a, <1>d
  <2>3. acked' = acked /\ unheard' = unheard /\ resets' = resets /\ runs' = runs
    BY <1>13 DEF Persist
  <2>4. CASE q = task[t].order /\ task[t].result # "ok"
    <3>1. t \in Able(q)
      BY <2>4, <1>13 DEF Able, Persist
    <3>2. acked'[q] - acked[q] + (-1) + 0 + Open(q)' - Open(q)
            <= unheard'[q] - unheard[q] + runs'[q] - runs[q] + 2 * (resets' - resets)
      BY <2>3, <1>b, <1>c
    <3>3. /\ IsFiniteSet(Able(q)') /\ IsFiniteSet(Resetting(q)')
          /\ Cardinality(Able(q)') <= Cardinality(Able(q)) - 1
          /\ Cardinality(Resetting(q)') <= Cardinality(Resetting(q)) + 0
      BY <2>1, <2>2, <3>1, TasksMove
    <3>4. Cardinality(Able(q)') <= Cardinality(Able(q)) + (-1)
      BY <3>3
    <3>5. QED
      BY <3>2, <3>3, <3>4, Balance
  <2>5. CASE ~(q = task[t].order /\ task[t].result # "ok")
    <3>1. order'[q] = order[q] \/ order'[q].retryAt = "null"
      BY <1>13, <2>5 DEF Persist, Settle, TypeOK
    <3>2. Open(q)' <= Open(q)
      BY <3>1 DEF Open
    <3>3. QED
      BY <2>1, <2>2, <2>3, <3>2, <1>c, BalanceElsewhere
  <2>6. QED
    BY <2>4, <2>5
<1>14. ASSUME NEW t \in Task, Crash(t) PROVE Paid(q)'
  <2>1. /\ \A u \in Task : u # t => task'[u] = task[u]
        /\ task'[t].order = NoOrder
    BY <1>14, <1>d DEF Crash, Finish, TypeOK
  <2>2. t \notin Able(q)' /\ t \notin Resetting(q)'
    BY <2>1, <1>a, <1>d
  <2>3. QED
    BY <2>1, <2>2, <1>14, <1>b, <1>c, BalanceElsewhere DEF Crash, Open
<1>15. ASSUME task' = task, acked' = acked, unheard' = unheard, runs' = runs,
              Open(q)' <= Open(q) \/ resets' = resets + 1,
              resets' >= resets
       PROVE  Paid(q)'
  <2>1. Able(q)' = Able(q) /\ Resetting(q)' = Resetting(q)
    BY <1>15 DEF Able, Resetting
  <2>2. /\ IsFiniteSet(Able(q)) /\ IsFiniteSet(Resetting(q))
        /\ Cardinality(Able(q)) \in Nat /\ Cardinality(Resetting(q)) \in Nat
    BY FS_CardinalityType DEF BudgetInv, Paid
  <2>3. /\ Cardinality(Able(q)') <= Cardinality(Able(q)) + 0
        /\ Cardinality(Resetting(q)') <= Cardinality(Resetting(q)) + 0
    BY <2>1, <2>2
  <2>4. acked'[q] - acked[q] + 0 + 0 + Open(q)' - Open(q)
          <= unheard'[q] - unheard[q] + runs'[q] - runs[q] + 2 * (resets' - resets)
    BY <1>15, <1>b, <1>c
  <2>5. QED
    BY <2>1, <2>2, <2>3, <2>4, Balance
<1>16. ASSUME NEW o \in Orders, EnvironmentStep(o) PROVE Paid(q)'
  <2>1. CASE AdminRetryAll(o)
    BY <2>1, <1>15, <1>c DEF AdminRetryAll
  <2>2. CASE TimePasses(o)
    <3>1. Open(q)' <= Open(q)
      BY <2>2, <1>b DEF TimePasses, Open, TypeOK
    <3>2. QED
      BY <2>2, <3>1, <1>15, <1>c DEF TimePasses
  <2>3. ASSUME NEW s \in TargetStates, TargetChanges(o, s) PROVE Paid(q)'
    BY <2>3, <1>15, <1>b, <1>c DEF TargetChanges, Open
  <2>4. QED
    BY <1>16, <2>1, <2>2, <2>3 DEF EnvironmentStep
<1>17. CASE UNCHANGED vars
  BY <1>17, <1>15, <1>b, <1>c DEF vars, Open
<1>18. QED
  BY <1>1, <1>2, <1>3, <1>4, <1>5, <1>6, <1>7, <1>8, <1>9, <1>10, <1>11, <1>12,
     <1>13, <1>14, <1>16, <1>17
  DEF Next, JobStep, TickStep, AdminStep, RetryStep, SendStep, Task

\* Whatever interleaves and crashes, no order is accepted more often than the
\* lost answers, the runs of processLead and the admins' retries pay for.
THEOREM EverySendPaidFor == Spec => []SendsPaidFor
<1>1. TypeOK /\ BudgetInv => SendsPaidFor
  <2> SUFFICES ASSUME TypeOK, BudgetInv, NEW o \in Orders
               PROVE  acked[o] <= unheard[o] + runs[o] + 2 * resets
    BY DEF SendsPaidFor
  <2>1. Cardinality(Able(o)) \in Nat /\ Cardinality(Resetting(o)) \in Nat /\ Open(o) \in Nat
    BY FS_CardinalityType DEF BudgetInv, Paid, Open
  <2>2. QED
    BY <2>1 DEF TypeOK, BudgetInv, Paid
<1>2. QED
  BY <1>1, BudgetInit, BudgetStep, TypeCorrect, PTL DEF Spec

=============================================================================
