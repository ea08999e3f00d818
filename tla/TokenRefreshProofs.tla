------------------------- MODULE TokenRefreshProofs -------------------------
(***************************************************************************)
(* TLAPS proofs about TokenRefresh, for any number of accounts and workers  *)
(* and any bounds that leave some days of slack.                            *)
(*                                                                          *)
(* A token that is maintained ends at least Ahead - 1 days from now, less   *)
(* the days lost; after today's tick at least Ahead, unless the tick has    *)
(* still to come to it.  So no tick finds it ended: an error about it is no *)
(* refusal, and if it is taken for one the row is among the misjudged.      *)
(***************************************************************************)
EXTENDS TokenRefresh, TLAPS

-----------------------------------------------------------------------------
(* Types *)

LEMMA NullsTyped == NoToken \in Token /\ NoRow \in Row /\ NoTask \in Task
<1>1. NoToken \in Token
  BY DEF NoToken, Token
<1>2. NoRow \in Row
  BY <1>1 DEF NoRow, Row
<1>3. NoTask \in Task
  BY <1>1 DEF NoTask, Task, TaskPc
<1> QED BY <1>1, <1>2, <1>3

LEMMA TypeInit == Init => TypeOK
<1> SUFFICES ASSUME Init PROVE TypeOK
  OBVIOUS
<1>1. row \in [Accounts -> Row]
  BY NullsTyped DEF Init
<1>2. task \in [Workers -> [Accounts -> Task]]
  BY NullsTyped DEF Init
<1>3. grant \in [Accounts -> Nat] /\ alerts \in [Accounts -> Nat]
  BY DEF Init
<1>4. now \in Nat \ {0} /\ {outages, logins, revokes} \subseteq Nat
  BY DEF Init
<1>5. /\ ticked \in BOOLEAN /\ throttle \subseteq Accounts
      /\ overtaken \subseteq Accounts /\ misjudged \subseteq Accounts
  BY DEF Init
<1> QED BY <1>1, <1>2, <1>3, <1>4, <1>5 DEF TypeOK

LEMMA LoginTyped ==
  ASSUME TypeOK, NEW a \in Accounts,
         NEW until \in Nat \cup {Null}, NEW expires \in Nat \cup {Null},
         Login(a, until, expires)
  PROVE  TypeOK'
<1>1. row' \in [Accounts -> Row]
  BY DEF TypeOK, Login, Row, Token
<1>2. overtaken' \subseteq Accounts /\ misjudged' \subseteq Accounts /\ logins' \in Nat
  BY DEF TypeOK, Login
<1> QED BY <1>1, <1>2 DEF TypeOK, Login

LEMMA UserTyped ==
  ASSUME TypeOK, NEW a \in Accounts, User(a)
  PROVE  TypeOK'
<1>1. now \in Nat /\ now + Life \in Nat
  BY TokenAssumption DEF TypeOK
<1>2. CASE Connect(a) \/ ConnectBusiness(a) \/ ConnectUnexchanged(a)
  BY <1>1, <1>2, LoginTyped DEF Connect, ConnectBusiness, ConnectUnexchanged
<1>3. CASE Disconnect(a)
  BY <1>3, NullsTyped DEF TypeOK, Disconnect
<1>4. CASE Revoke(a)
  BY <1>4 DEF TypeOK, Revoke
<1> QED BY <1>2, <1>3, <1>4 DEF User

\* What a process does to one account leaves a task for it.
LEMMA TaskTyped ==
  ASSUME TypeOK, NEW w \in Workers, NEW a \in Accounts, NEW t \in Task,
         task' = [task EXCEPT ![w][a] = t]
  PROVE  task' \in [Workers -> [Accounts -> Task]]
BY DEF TypeOK

LEMMA DoneTyped ==
  ASSUME TypeOK, NEW w \in Workers, NEW a \in Accounts, Done(w, a)
  PROVE  task' \in [Workers -> [Accounts -> Task]]
BY TaskTyped, NullsTyped DEF Done

LEMMA GotoTyped ==
  ASSUME TypeOK, NEW w \in Workers, NEW a \in Accounts, NEW pc \in TaskPc, Goto(w, a, pc)
  PROVE  task' \in [Workers -> [Accounts -> Task]]
<1>1. [task[w][a] EXCEPT !.pc = pc] \in Task
  BY DEF TypeOK, Task
<1>2. task' = [task EXCEPT ![w][a] = [task[w][a] EXCEPT !.pc = pc]]
  BY DEF TypeOK, Goto
<1> QED BY <1>1, <1>2, TaskTyped

LEMMA RefreshTyped ==
  ASSUME TypeOK, NEW w \in Workers, NEW a \in Accounts, Refresh(w, a)
  PROVE  TypeOK'
<1>1. CASE Exchanged(w, a)
  <2>1. PICK until \in {now + Life, Null} :
          task' = [task EXCEPT
            ![w][a] = [pc |-> "store", id |-> task[w][a].id,
                       token |-> [grant |-> grant[a], until |-> until]]]
    BY <1>1 DEF Exchanged
  <2>2. until \in Nat \cup {Null}
    BY TokenAssumption DEF TypeOK
  <2>3. task[w][a].id \in Nat /\ grant[a] \in Nat
    BY DEF TypeOK, Task
  <2>4. [pc |-> "store", id |-> task[w][a].id,
         token |-> [grant |-> grant[a], until |-> until]] \in Task
    BY <2>2, <2>3 DEF Task, TaskPc, Token
  <2>5. task' \in [Workers -> [Accounts -> Task]]
    BY <2>1, <2>4, TaskTyped
  <2> QED BY <1>1, <2>5 DEF TypeOK, Exchanged
<1>2. CASE Refused(w, a) \/ RefusedAlive(w, a)
  BY <1>2, GotoTyped DEF TypeOK, Refused, RefusedAlive, TaskPc
<1>3. CASE Transient(w, a) \/ WriteFails(w, a) \/ NotifyBlindly(w, a)
  BY <1>3, DoneTyped DEF TypeOK, Transient, WriteFails, NotifyBlindly, Leave, Outage
<1>4. CASE Store(w, a)
  <2>1. task[w][a].token \in Token /\ task[w][a].token.until \in Nat \cup {Null}
    BY DEF TypeOK, Task, Token
  <2>2. row' \in [Accounts -> Row]
    BY <1>4, <2>1 DEF TypeOK, Store, Row
  <2>3. misjudged' \subseteq Accounts
    BY <1>4 DEF TypeOK, Store
  <2> QED BY <1>4, <2>2, <2>3, DoneTyped DEF TypeOK, Store
<1>5. CASE MarkDead(w, a)
  <2>1. task' \in [Workers -> [Accounts -> Task]]
    BY <1>5, GotoTyped DEF MarkDead, TaskPc
  <2>2. now - 1 \in Nat
    BY DEF TypeOK
  <2>3. row' \in [Accounts -> Row]
    BY <1>5, <2>2 DEF TypeOK, MarkDead, Row
  <2>4. misjudged' \subseteq Accounts
    BY <1>5 DEF TypeOK, MarkDead
  <2> QED BY <1>5, <2>1, <2>3, <2>4 DEF TypeOK, MarkDead
<1>6. CASE Notify(w, a)
  BY <1>6, DoneTyped DEF TypeOK, Notify
<1> QED BY <1>1, <1>2, <1>3, <1>4, <1>5, <1>6 DEF Refresh

LEMMA TypeStep == TypeOK /\ [Next]_vars => TypeOK'
<1> SUFFICES ASSUME TypeOK, [Next]_vars PROVE TypeOK'
  OBVIOUS
<1>1. ASSUME NEW a \in Accounts, User(a) PROVE TypeOK'
  BY <1>1, UserTyped
<1>2. ASSUME NEW w \in Workers, NEW a \in Accounts, Refresh(w, a) PROVE TypeOK'
  BY <1>2, RefreshTyped
<1>3. ASSUME NEW w \in Workers, TickStart(w) PROVE TypeOK'
  <2>1. ASSUME NEW a \in Accounts
        PROVE  /\ [pc |-> "queued", id |-> row[a].id, token |-> row[a].token] \in Task
               /\ NoTask \in Task
    BY NullsTyped DEF TypeOK, Row, Task, TaskPc
  <2>2. task' \in [Workers -> [Accounts -> Task]]
    BY <1>3, <2>1 DEF TypeOK, TickStart
  <2> QED BY <1>3, <2>2 DEF TypeOK, TickStart
<1>4. ASSUME NEW w \in Workers, Crash(w) PROVE TypeOK'
  BY <1>4, NullsTyped DEF TypeOK, Crash, Outage
<1>5. CASE DayPasses
  <2>1. now' \in Nat \ {0} /\ outages' \in Nat
    BY <1>5 DEF TypeOK, DayPasses, Outage
  <2>2. alerts' \in [Accounts -> Nat] /\ throttle' \subseteq Accounts /\ ticked' \in BOOLEAN
    BY <1>5 DEF DayPasses
  <2> QED BY <1>5, <2>1, <2>2 DEF TypeOK, DayPasses
<1>6. CASE UNCHANGED vars
  BY <1>6 DEF TypeOK, vars
<1> QED BY <1>1, <1>2, <1>3, <1>4, <1>5, <1>6 DEF Next

\* Rows, tasks and counts keep their types: every write of the scheduler and
\* of the login fits facebook_accounts.
THEOREM TokenTypeCorrect == Spec => []TypeOK
<1> QED BY TypeInit, TypeStep, PTL DEF Spec

-----------------------------------------------------------------------------
(* One alert a day *)

\* The key is there as soon as the alert is.
AlertOK == \A a \in Accounts : alerts[a] = 0 \/ (alerts[a] = 1 /\ a \in throttle)

LEMMA AlertStep ==
  ASSUME TypeOK, AlertOK, [Next]_vars
  PROVE  AlertOK'
<1>1. ASSUME NEW a \in Accounts, User(a) PROVE AlertOK'
  BY <1>1 DEF AlertOK, User, Connect, ConnectBusiness, ConnectUnexchanged, Login,
              Disconnect, Revoke
<1>2. ASSUME NEW w \in Workers, NEW a \in Accounts, Refresh(w, a) PROVE AlertOK'
  <2>1. CASE \/ Exchanged(w, a) \/ Refused(w, a) \/ RefusedAlive(w, a) \/ MarkDead(w, a)
             \/ Transient(w, a) \/ WriteFails(w, a) \/ NotifyBlindly(w, a)
    BY <2>1 DEF AlertOK, Exchanged, Refused, RefusedAlive, MarkDead, Transient,
                WriteFails, NotifyBlindly, Leave
  <2>2. CASE Store(w, a)
    BY <2>2 DEF TypeOK, AlertOK, Store
  <2>3. CASE Notify(w, a)
    BY <2>3 DEF TypeOK, AlertOK, Notify
  <2> QED BY <1>2, <2>1, <2>2, <2>3 DEF Refresh
<1>3. ASSUME NEW w \in Workers, TickStart(w) \/ Crash(w) PROVE AlertOK'
  BY <1>3 DEF AlertOK, TickStart, Crash
<1>4. CASE DayPasses
  BY <1>4 DEF AlertOK, DayPasses
<1>5. CASE UNCHANGED vars
  BY <1>5 DEF AlertOK, vars
<1> QED BY <1>1, <1>2, <1>3, <1>4, <1>5 DEF Next

\* notifyTokenDead sends one message a day for each account, however many
\* processes and ticks find its token dead.
THEOREM OneAlertADay == Spec => []AlertedOnce
<1>1. Init => AlertOK
  BY DEF Init, AlertOK
<1>2. TypeOK /\ AlertOK /\ [Next]_vars => AlertOK'
  BY AlertStep
<1>3. TypeOK /\ AlertOK => AlertedOnce
  <2> SUFFICES ASSUME TypeOK, AlertOK, NEW a \in Accounts PROVE alerts[a] <= 1
    BY DEF AlertedOnce
  <2>1. alerts[a] = 0 \/ alerts[a] = 1
    BY DEF AlertOK
  <2> QED BY <2>1
<1> QED BY <1>1, <1>2, <1>3, TokenTypeCorrect, PTL DEF Spec

-----------------------------------------------------------------------------
(* Tokens end only where nobody can help it *)

\* The row has not been written by a user while a tick was at it.
Settled(a) == a \notin overtaken /\ row[a].id # 0

Pending(a) ==
  \E w \in Workers : At(w, a, "queued") \/ At(w, a, "store") \/ At(w, a, "misjudge")

\* A tick is to keep the token of the row alive.
Watched(a) == Maintained(a) /\ a \notin misjudged

\* A task at a settled row was made for it, with a token of the same consent.
TaskOK(w, a) ==
  ~At(w, a, "none") =>
    /\ Found(w, a)
    /\ task[w][a].token.grant = row[a].token.grant
    /\ At(w, a, "queued") =>
         \/ task[w][a].token.grant < grant[a]
         \/ task[w][a].token.until \in Nat /\ task[w][a].token.until > now
    /\ At(w, a, "store") => task[w][a].token.until \in {now + Life, Null}
    /\ At(w, a, "mark") => task[w][a].token.grant < grant[a]

\* How far away the end of a watched token is.
SlackOK(a) ==
  Watched(a) =>
    /\ row[a].token.until = row[a].expires
    /\ row[a].expires + outages >= now + Ahead - 1
    /\ ticked => Pending(a) \/ row[a].expires + outages >= now + Ahead

\* No tick selects a misjudged row again.
MisjudgedOK(a) ==
  a \in misjudged => row[a].expires \in Nat /\ row[a].expires < now

RowOK(a) ==
  Settled(a) =>
    /\ row[a].token.grant <= grant[a]
    /\ SlackOK(a)
    /\ MisjudgedOK(a)
    /\ \A w \in Workers : TaskOK(w, a)

RowsOK ==
  /\ outages <= MaxOutages
  /\ \A a \in Accounts : RowOK(a)

\* What RowOK reads of an account.
Same(a) ==
  /\ row'[a] = row[a]
  /\ grant'[a] = grant[a]
  /\ a \in overtaken' <=> a \in overtaken
  /\ a \in misjudged' <=> a \in misjudged
  /\ \A w \in Workers : task'[w][a] = task[w][a]
  /\ now' = now
  /\ ticked' = ticked
  /\ outages' >= outages

LEMMA SameOK ==
  ASSUME TypeOK, TypeOK', NEW a \in Accounts, RowOK(a), Same(a)
  PROVE  RowOK(a)'
<1> SUFFICES ASSUME Settled(a)'
             PROVE  /\ row'[a].token.grant <= grant'[a]
                    /\ SlackOK(a)' /\ MisjudgedOK(a)'
                    /\ \A w \in Workers : TaskOK(w, a)'
  BY DEF RowOK
<1>1. Settled(a)
  BY DEF Settled, Same
<1>2. row'[a].token.grant <= grant'[a]
  BY <1>1 DEF RowOK, Same
<1>3. SlackOK(a)'
  <2>1. ASSUME Watched(a)' PROVE Watched(a) /\ row[a].expires \in Nat
    BY <2>1 DEF Watched, Maintained, Same, TypeOK, Row
  <2>2. Pending(a) => Pending(a)'
    BY DEF Pending, At, Same
  <2>3. now \in Nat /\ outages \in Nat /\ outages' \in Nat /\ outages' >= outages
    BY DEF TypeOK, Same
  <2> QED BY <1>1, <2>1, <2>2, <2>3, TokenAssumption DEF RowOK, SlackOK, Same
<1>4. \A w \in Workers : TaskOK(w, a)'
  BY <1>1 DEF RowOK, TaskOK, At, Found, Same
<1>5. MisjudgedOK(a)'
  BY <1>1 DEF RowOK, MisjudgedOK, Same
<1> QED BY <1>2, <1>3, <1>4, <1>5

\* A user's write settles the row, or is noted in overtaken.
LEMMA UserKeepsRows ==
  ASSUME TypeOK, TypeOK', RowsOK, NEW a \in Accounts, User(a)
  PROVE  RowsOK'
<1>1. outages' = outages /\ task' = task /\ now' = now /\ ticked' = ticked
  BY DEF User, Connect, ConnectBusiness, ConnectUnexchanged, Login, Disconnect, Revoke
<1>2. ASSUME NEW b \in Accounts, b # a PROVE RowOK(b)'
  <2>1. /\ row'[b] = row[b] /\ grant'[b] = grant[b]
        /\ b \in overtaken' <=> b \in overtaken
        /\ b \in misjudged' <=> b \in misjudged
    BY <1>2 DEF TypeOK, User, Connect, ConnectBusiness, ConnectUnexchanged, Login,
                Disconnect, Revoke
  <2>2. Same(b)
    BY <1>1, <2>1 DEF Same, TypeOK
  <2> QED BY <2>2, SameOK DEF RowsOK
<1>3. CASE Connect(a) \/ ConnectBusiness(a) \/ ConnectUnexchanged(a)
  <2> SUFFICES ASSUME Settled(a)' PROVE RowOK(a)'
    BY <1>1, <1>2 DEF RowsOK, RowOK
  <2>1. /\ row'[a].token.grant = grant[a]
        /\ \/ row'[a].token.until = now + Life /\ row'[a].expires = now + Life
           \/ row'[a].expires = Null
        /\ grant' = grant
    BY <1>3 DEF TypeOK, Connect, ConnectBusiness, ConnectUnexchanged, Login
  <2>2. \A w \in Workers : At(w, a, "none")
    BY <1>3 DEF Settled, Connect, ConnectBusiness, ConnectUnexchanged, Login
  <2>3. \A w \in Workers : At(w, a, "none")'
    BY <1>1, <2>2 DEF At
  <2>4. \A w \in Workers : TaskOK(w, a)'
    BY <2>3 DEF TaskOK
  <2>5. SlackOK(a)'
    BY <1>1, <2>1, TokenAssumption DEF SlackOK, Watched, Maintained, TypeOK
  <2>6. row'[a].token.grant <= grant'[a]
    BY <2>1 DEF TypeOK
  <2>7. MisjudgedOK(a)'
    BY <1>3 DEF MisjudgedOK, Connect, ConnectBusiness, ConnectUnexchanged, Login
  <2> QED BY <2>4, <2>5, <2>6, <2>7 DEF RowOK
<1>4. CASE Disconnect(a)
  <2>1. row'[a].id = 0
    BY <1>4 DEF TypeOK, Disconnect, NoRow
  <2> QED BY <1>1, <1>2, <2>1 DEF RowsOK, RowOK, Settled
<1>5. CASE Revoke(a)
  <2> SUFFICES ASSUME Settled(a)' PROVE RowOK(a)'
    BY <1>1, <1>2 DEF RowsOK, RowOK
  <2>1. row' = row /\ grant'[a] = grant[a] + 1 /\ Settled(a) /\ misjudged' = misjudged
    BY <1>5 DEF TypeOK, Revoke, Settled
  <2>2. /\ row[a].token.grant \in Nat /\ grant[a] \in Nat
        /\ row[a].token.grant <= grant[a]
    BY <2>1 DEF RowsOK, RowOK, TypeOK, Row, Token
  <2>3. ~Watched(a)'
    BY <2>1, <2>2 DEF Watched, Maintained
  <2>4. ASSUME NEW w \in Workers PROVE TaskOK(w, a)'
    <3>1. TaskOK(w, a)
      BY <2>1 DEF RowsOK, RowOK
    <3>2. task[w][a].token.grant \in Nat
      BY DEF TypeOK, Task, Token
    <3> QED BY <1>1, <2>1, <2>2, <3>1, <3>2 DEF TaskOK, At, Found
  <2>5. MisjudgedOK(a)'
    BY <1>1, <2>1 DEF RowsOK, RowOK, MisjudgedOK
  <2> QED BY <2>1, <2>2, <2>3, <2>4, <2>5 DEF RowOK, SlackOK
<1> QED BY <1>3, <1>4, <1>5 DEF User

\* What a step of a process at one account leaves alone.
LEMMA RefreshElsewhere ==
  ASSUME TypeOK, TypeOK', RowsOK, NEW w \in Workers, NEW a \in Accounts,
         NEW b \in Accounts, b # a, Refresh(w, a)
  PROVE  RowOK(b)'
<1>1. now' = now /\ ticked' = ticked /\ grant' = grant /\ overtaken' = overtaken
  BY DEF Refresh, Exchanged, Refused, RefusedAlive, Transient, WriteFails, NotifyBlindly,
         Leave, Store, MarkDead, Notify
<1>2. outages' >= outages
  BY DEF TypeOK, Refresh, Exchanged, Refused, RefusedAlive, Transient, WriteFails,
         NotifyBlindly, Leave, Outage, Store, MarkDead, Notify
<1>3. row'[b] = row[b]
  BY DEF TypeOK, Refresh, Exchanged, Refused, RefusedAlive, Transient, WriteFails,
         NotifyBlindly, Leave, Store, MarkDead, Notify
<1>4. \A v \in Workers : task'[v][b] = task[v][b]
  BY DEF TypeOK, Refresh, Exchanged, Refused, RefusedAlive, Goto, Transient, WriteFails,
         NotifyBlindly, Leave, Done, Store, MarkDead, Notify
<1>5. b \in misjudged' <=> b \in misjudged
  BY DEF Refresh, Exchanged, Refused, RefusedAlive, Transient, WriteFails, NotifyBlindly,
         Leave, Store, MarkDead, Notify
<1>6. Same(b)
  BY <1>1, <1>2, <1>3, <1>4, <1>5 DEF Same
<1> QED BY <1>6, SameOK DEF RowsOK

\* The other processes' tasks at the account stay as they are.
LEMMA OneTaskMoves ==
  ASSUME TypeOK, NEW w \in Workers, NEW a \in Accounts, Refresh(w, a)
  PROVE  \A v \in Workers : v # w => task'[v][a] = task[v][a]
BY DEF TypeOK, Refresh, Exchanged, Refused, RefusedAlive, Goto, Transient, WriteFails,
       NotifyBlindly, Leave, Done, Store, MarkDead, Notify

\* As long as the row and Facebook stay as they are, it is enough to look at
\* the task that moves.
LEMMA RowStays ==
  ASSUME TypeOK, TypeOK', NEW w \in Workers, NEW a \in Accounts, Refresh(w, a),
         RowOK(a), row' = row, misjudged' = misjudged, Settled(a)' => TaskOK(w, a)' /\ SlackOK(a)'
  PROVE  RowOK(a)'
<1> SUFFICES ASSUME Settled(a)' PROVE RowOK(a)'
  BY DEF RowOK
<1>1. now' = now /\ grant' = grant /\ overtaken' = overtaken
  BY DEF Refresh, Exchanged, Refused, RefusedAlive, Transient, WriteFails, NotifyBlindly,
         Leave, Store, MarkDead, Notify
<1>2. Settled(a)
  BY <1>1 DEF Settled
<1>3. ASSUME NEW v \in Workers, v # w PROVE TaskOK(v, a)'
  <2>1. TaskOK(v, a)
    BY <1>2 DEF RowOK
  <2>2. task'[v][a] = task[v][a]
    BY <1>3, OneTaskMoves
  <2> QED BY <1>1, <2>1, <2>2 DEF TaskOK, At, Found
<1>4. MisjudgedOK(a)'
  BY <1>1, <1>2 DEF RowOK, MisjudgedOK
<1> QED BY <1>1, <1>2, <1>3, <1>4 DEF RowOK

LEMMA ExchangeKeepsRow ==
  ASSUME TypeOK, TypeOK', NEW w \in Workers, NEW a \in Accounts, RowOK(a),
         Exchanged(w, a)
  PROVE  RowOK(a)'
<1> SUFFICES ASSUME Settled(a)' PROVE TaskOK(w, a)' /\ SlackOK(a)'
  BY RowStays DEF Refresh, Exchanged
<1>1. Settled(a)
  BY DEF Settled, Exchanged
<1>2. PICK until \in {now + Life, Null} :
        task'[w][a] = [pc |-> "store", id |-> task[w][a].id,
                       token |-> [grant |-> grant[a], until |-> until]]
  BY DEF TypeOK, Exchanged
<1>3. Found(w, a) /\ task[w][a].token.grant = row[a].token.grant
  BY <1>1 DEF RowOK, TaskOK, Exchanged, At
<1>4. task[w][a].token.grant = grant[a]
  BY DEF Exchanged, Accepted
<1>5. TaskOK(w, a)'
  BY <1>2, <1>3, <1>4 DEF TaskOK, At, Found, Exchanged
<1>6. Pending(a)'
  BY <1>2 DEF Pending, At
<1>7. SlackOK(a)'
  BY <1>1, <1>6 DEF RowOK, SlackOK, Watched, Maintained, Exchanged
<1> QED BY <1>5, <1>7

LEMMA RefusalKeepsRow ==
  ASSUME TypeOK, TypeOK', NEW w \in Workers, NEW a \in Accounts, RowOK(a),
         Refused(w, a)
  PROVE  RowOK(a)'
<1> SUFFICES ASSUME Settled(a)' PROVE TaskOK(w, a)' /\ SlackOK(a)'
  BY RowStays DEF Refresh, Refused
<1>1. Settled(a) /\ TaskOK(w, a)
  BY DEF Settled, Refused, RowOK
<1>2. /\ task'[w][a].pc = "mark"
      /\ task'[w][a].id = task[w][a].id
      /\ task'[w][a].token = task[w][a].token
  BY DEF TypeOK, Refused, Goto, Task
<1>3. task[w][a].token.grant < grant[a]
  <2>1. \/ task[w][a].token.grant < grant[a]
        \/ task[w][a].token.until \in Nat /\ task[w][a].token.until > now
    BY <1>1 DEF TaskOK, Refused, At
  <2>2. CASE task[w][a].token.until \in Nat /\ task[w][a].token.until > now
    <3>1. task[w][a].token.grant # grant[a]
      BY <2>2 DEF Refused, Accepted
    <3>2. task[w][a].token.grant = row[a].token.grant /\ row[a].token.grant <= grant[a]
      BY <1>1 DEF TaskOK, Refused, At, RowOK
    <3>3. row[a].token.grant \in Nat /\ grant[a] \in Nat
      BY DEF TypeOK, Row, Token
    <3> QED BY <3>1, <3>2, <3>3
  <2> QED BY <2>1, <2>2
<1>4. Found(w, a) /\ task[w][a].token.grant = row[a].token.grant
  BY <1>1 DEF TaskOK, Refused, At
<1>5. TaskOK(w, a)'
  BY <1>2, <1>3, <1>4 DEF TaskOK, At, Found, Refused
<1>6. ~Watched(a)'
  <2>1. row[a].token.grant # grant[a]
    BY <1>3, <1>4 DEF TypeOK, Row, Token
  <2> QED BY <2>1 DEF Watched, Maintained, Refused
<1> QED BY <1>5, <1>6 DEF SlackOK

\* A misjudged token is still watched: the row is not written yet.
LEMMA MisjudgmentKeepsRow ==
  ASSUME TypeOK, TypeOK', NEW w \in Workers, NEW a \in Accounts, RowOK(a),
         RefusedAlive(w, a)
  PROVE  RowOK(a)'
<1> SUFFICES ASSUME Settled(a)' PROVE TaskOK(w, a)' /\ SlackOK(a)'
  BY RowStays DEF Refresh, RefusedAlive
<1>1. Settled(a) /\ TaskOK(w, a)
  BY DEF Settled, RefusedAlive, RowOK
<1>2. /\ task'[w][a].pc = "misjudge"
      /\ task'[w][a].id = task[w][a].id
      /\ task'[w][a].token = task[w][a].token
  BY DEF TypeOK, RefusedAlive, Goto, Task
<1>3. Found(w, a) /\ task[w][a].token.grant = row[a].token.grant
  BY <1>1 DEF TaskOK, RefusedAlive, At
<1>4. TaskOK(w, a)'
  BY <1>2, <1>3 DEF TaskOK, At, Found, RefusedAlive
<1>5. Pending(a)'
  BY <1>2 DEF Pending, At
<1>6. SlackOK(a)'
  BY <1>1, <1>5 DEF RowOK, SlackOK, Watched, Maintained, RefusedAlive
<1> QED BY <1>4, <1>6

LEMMA LeaveKeepsRow ==
  ASSUME TypeOK, TypeOK', NEW w \in Workers, NEW a \in Accounts, RowOK(a),
         Refresh(w, a), Leave(w, a)
  PROVE  RowOK(a)'
<1> SUFFICES ASSUME Settled(a)' PROVE TaskOK(w, a)' /\ SlackOK(a)'
  BY RowStays DEF Leave
<1>1. Settled(a)
  BY DEF Settled, Leave
<1>2. At(w, a, "none")'
  BY DEF TypeOK, Leave, Done, NoTask, At
<1>3. outages' = outages + 1 /\ outages \in Nat /\ now \in Nat
  BY DEF Leave, Outage, TypeOK
<1>4. SlackOK(a)'
  <2>1. ASSUME Watched(a)'
        PROVE  /\ row[a].token.until = row[a].expires
               /\ row[a].expires + outages' >= now + Ahead
               /\ row[a].expires + outages' >= now + Ahead - 1
    <3>1. Watched(a) /\ row[a].expires \in Nat
      BY <2>1 DEF Watched, Maintained, Leave, TypeOK, Row
    <3> QED BY <1>1, <1>3, <3>1, TokenAssumption DEF RowOK, SlackOK
  <2>2. row' = row /\ now' = now
    BY DEF Leave
  <2> QED BY <2>1, <2>2 DEF SlackOK
<1> QED BY <1>2, <1>4 DEF TaskOK

LEMMA AlertKeepsRow ==
  ASSUME TypeOK, TypeOK', NEW w \in Workers, NEW a \in Accounts, RowOK(a),
         Notify(w, a)
  PROVE  RowOK(a)'
<1> SUFFICES ASSUME Settled(a)' PROVE TaskOK(w, a)' /\ SlackOK(a)'
  BY RowStays DEF Refresh, Notify
<1>1. Settled(a)
  BY DEF Settled, Notify
<1>2. At(w, a, "none")'
  BY DEF TypeOK, Notify, Done, NoTask, At
<1>3. Pending(a) => Pending(a)'
  <2>1. ASSUME NEW v \in Workers, At(v, a, "queued") \/ At(v, a, "store") \/ At(v, a, "misjudge")
        PROVE  v # w
    BY <2>1 DEF At, Notify
  <2>2. \A v \in Workers : v # w => task'[v][a] = task[v][a]
    BY OneTaskMoves DEF Refresh
  <2> QED BY <2>1, <2>2 DEF Pending, At
<1>4. SlackOK(a)'
  BY <1>1, <1>3 DEF RowOK, SlackOK, Watched, Maintained, Notify
<1> QED BY <1>2, <1>4 DEF TaskOK

LEMMA StoreKeepsRow ==
  ASSUME TypeOK, TypeOK', NEW w \in Workers, NEW a \in Accounts, RowOK(a),
         Store(w, a)
  PROVE  RowOK(a)'
<1> SUFFICES ASSUME Settled(a)' PROVE RowOK(a)'
  BY DEF RowOK
<1>1. Settled(a)
  BY DEF TypeOK, Store, Settled, Row
<1>2. /\ Found(w, a) /\ task[w][a].token.grant = row[a].token.grant
      /\ task[w][a].token.until \in {now + Life, Null}
  BY <1>1 DEF RowOK, TaskOK, Store, At
<1>3. /\ row'[a].id = row[a].id
      /\ row'[a].token = task[w][a].token
      /\ row'[a].expires = task[w][a].token.until
  BY <1>2 DEF TypeOK, Store, Row
<1>4. grant' = grant /\ now' = now /\ ticked' = ticked /\ outages' = outages
  BY DEF Store
<1>5. row'[a].token.grant <= grant'[a]
  BY <1>1, <1>2, <1>3, <1>4 DEF RowOK
<1>6. SlackOK(a)'
  BY <1>2, <1>3, <1>4, TokenAssumption DEF SlackOK, Watched, Maintained, TypeOK
<1>7. ASSUME NEW v \in Workers PROVE TaskOK(v, a)'
  <2>1. CASE v = w
    <3>1. At(v, a, "none")'
      BY <2>1 DEF TypeOK, Store, Done, NoTask, At
    <3> QED BY <3>1 DEF TaskOK
  <2>2. CASE v # w
    <3>1. task'[v][a] = task[v][a]
      BY <2>2, OneTaskMoves DEF Refresh
    <3>2. TaskOK(v, a)
      BY <1>1 DEF RowOK
    <3> QED BY <1>2, <1>3, <1>4, <3>1, <3>2 DEF TaskOK, At, Found
  <2> QED BY <2>1, <2>2
<1>8. MisjudgedOK(a)'
  BY <1>2 DEF MisjudgedOK, Store
<1> QED BY <1>5, <1>6, <1>7, <1>8 DEF RowOK

\* The row that is marked has a token of a consent that is gone, or is among
\* the misjudged from now on.
LEMMA MarkKeepsRow ==
  ASSUME TypeOK, TypeOK', NEW w \in Workers, NEW a \in Accounts, RowOK(a),
         MarkDead(w, a)
  PROVE  RowOK(a)'
<1> SUFFICES ASSUME Settled(a)' PROVE RowOK(a)'
  BY DEF RowOK
<1>1. Settled(a)
  BY DEF TypeOK, MarkDead, Settled, Row
<1>2. /\ Found(w, a) /\ task[w][a].token.grant = row[a].token.grant
      /\ At(w, a, "mark") => task[w][a].token.grant < grant[a]
  BY <1>1 DEF RowOK, TaskOK, MarkDead, At
<1>3. /\ row'[a].id = row[a].id /\ row'[a].token = row[a].token
      /\ row'[a].expires = now - 1
  BY <1>2 DEF TypeOK, MarkDead, Row
<1>4. grant' = grant /\ now' = now
  BY DEF MarkDead
<1>5. row'[a].token.grant <= grant'[a]
  BY <1>1, <1>3, <1>4 DEF RowOK
<1>6. ~Watched(a)'
  <2>1. CASE At(w, a, "mark")
    <3>1. row[a].token.grant # grant[a]
      BY <1>2, <2>1 DEF TypeOK, Row, Token
    <3> QED BY <1>3, <1>4, <3>1 DEF Watched, Maintained
  <2>2. CASE At(w, a, "misjudge")
    BY <1>2, <2>2 DEF Watched, MarkDead
  <2> QED BY <2>1, <2>2 DEF MarkDead
<1>7. ASSUME NEW v \in Workers PROVE TaskOK(v, a)'
  <2>1. CASE v = w
    <3>1. /\ task'[v][a].pc = "notify"
          /\ task'[v][a].id = task[v][a].id
          /\ task'[v][a].token = task[v][a].token
      BY <2>1 DEF TypeOK, MarkDead, Goto, Task
    <3> QED BY <1>2, <1>3, <2>1, <3>1 DEF TaskOK, At, Found
  <2>2. CASE v # w
    <3>1. task'[v][a] = task[v][a]
      BY <2>2, OneTaskMoves DEF Refresh
    <3>2. TaskOK(v, a)
      BY <1>1 DEF RowOK
    <3> QED BY <1>3, <1>4, <3>1, <3>2 DEF TaskOK, At, Found
  <2> QED BY <2>1, <2>2
<1>8. MisjudgedOK(a)'
  BY <1>3, <1>4 DEF MisjudgedOK, TypeOK
<1> QED BY <1>5, <1>6, <1>7, <1>8 DEF RowOK, SlackOK

LEMMA RefreshKeepsRows ==
  ASSUME TypeOK, TypeOK', RowsOK, NEW w \in Workers, NEW a \in Accounts, Refresh(w, a)
  PROVE  RowsOK'
<1>1. RowOK(a)
  BY DEF RowsOK
<1>2. RowOK(a)'
  BY <1>1, ExchangeKeepsRow, RefusalKeepsRow, MisjudgmentKeepsRow, LeaveKeepsRow, StoreKeepsRow, MarkKeepsRow,
     AlertKeepsRow DEF Refresh, Transient, WriteFails, NotifyBlindly
<1>3. outages' <= MaxOutages
  BY TokenAssumption
  DEF RowsOK, TypeOK, Refresh, Exchanged, Refused, RefusedAlive, Transient, WriteFails,
      NotifyBlindly, Leave, Outage, Store, MarkDead, Notify
<1> QED BY <1>2, <1>3, RefreshElsewhere DEF RowsOK

\* A token the tick passes over lasts for Ahead more days: it cannot be that
\* it has ended already.
LEMMA TickKeepsRows ==
  ASSUME TypeOK, TypeOK', RowsOK, NEW w \in Workers, TickStart(w)
  PROVE  RowsOK'
<1> SUFFICES ASSUME NEW a \in Accounts, Settled(a)' PROVE RowOK(a)'
  BY DEF RowsOK, RowOK, TickStart
<1>1. /\ row' = row /\ grant' = grant /\ now' = now /\ outages' = outages
      /\ Settled(a) /\ misjudged' = misjudged
  BY DEF TickStart, Settled
<1>2. /\ row[a].token.grant <= grant[a]
      /\ SlackOK(a) /\ MisjudgedOK(a)
      /\ outages <= MaxOutages
  BY <1>1 DEF RowsOK, RowOK
<1>3. \A v \in Workers : v # w => task'[v] = task[v]
  BY DEF TypeOK, TickStart
<1>4. task'[w][a] = IF Due(a)
                    THEN [pc |-> "queued", id |-> row[a].id, token |-> row[a].token]
                    ELSE NoTask
  BY DEF TypeOK, TickStart
<1>5. now \in Nat /\ outages \in Nat
  BY DEF TypeOK
<1>6. ASSUME Watched(a)
      PROVE  /\ row[a].expires \in Nat /\ row[a].expires > now
             /\ row[a].token.until = row[a].expires
  <2>1. row[a].expires \in Nat
    BY <1>6 DEF Watched, Maintained, TypeOK, Row
  <2>2. row[a].expires + outages >= now + Ahead - 1 /\ row[a].token.until = row[a].expires
    BY <1>2, <1>6 DEF SlackOK
  <2> QED BY <1>2, <1>5, <2>1, <2>2, TokenAssumption
<1>7. ASSUME NEW v \in Workers PROVE TaskOK(v, a)'
  <2>1. CASE v # w
    <3>1. TaskOK(v, a)
      BY <1>1 DEF RowsOK, RowOK
    <3> QED BY <1>1, <1>3, <2>1, <3>1 DEF TaskOK, At, Found
  <2>2. CASE v = w /\ ~Due(a)
    BY <1>4, <2>2 DEF TaskOK, At, NoTask
  <2>3. CASE v = w /\ Due(a)
    <3>1. /\ task'[v][a].pc = "queued" /\ task'[v][a].id = row[a].id
          /\ task'[v][a].token = row[a].token
      BY <1>4, <2>3
    <3>2. \/ row[a].token.grant < grant[a]
          \/ row[a].token.until \in Nat /\ row[a].token.until > now
      <4>1. CASE row[a].token.grant = grant[a]
        <5>1. Watched(a)
          BY <1>2, <2>3, <4>1 DEF Watched, Maintained, Due, MisjudgedOK, TypeOK
        <5> QED BY <1>6, <5>1
      <4>2. CASE row[a].token.grant # grant[a]
        <5>1. row[a].token.grant \in Nat /\ grant[a] \in Nat
          BY DEF TypeOK, Row, Token
        <5> QED BY <1>2, <4>2, <5>1
      <4> QED BY <4>1, <4>2
    <3> QED BY <1>1, <3>1, <3>2 DEF TaskOK, At, Found
  <2> QED BY <2>1, <2>2, <2>3
<1>8. SlackOK(a)'
  <2> SUFFICES ASSUME Watched(a)
               PROVE  Pending(a)' \/ row[a].expires + outages >= now + Ahead
    BY <1>1, <1>2 DEF SlackOK, Watched, Maintained
  <2>1. CASE Due(a)
    <3>1. At(w, a, "queued")'
      BY <1>4, <2>1 DEF At
    <3> QED BY <3>1 DEF Pending
  <2>2. CASE ~Due(a)
    <3>1. ~(row[a].expires < now + Ahead) \/ ~(row[a].expires >= now)
      BY <2>2 DEF Due, Watched, Maintained
    <3> QED BY <1>5, <1>6, <3>1, TokenAssumption
  <2> QED BY <2>1, <2>2
<1> QED BY <1>1, <1>2, <1>7, <1>8 DEF RowOK, MisjudgedOK

LEMMA CrashKeepsRows ==
  ASSUME TypeOK, TypeOK', RowsOK, NEW w \in Workers, Crash(w)
  PROVE  RowsOK'
<1>1. outages' = outages + 1 /\ outages' <= MaxOutages /\ outages \in Nat /\ now \in Nat
  BY TokenAssumption DEF TypeOK, Crash, Outage
<1> SUFFICES ASSUME NEW a \in Accounts, Settled(a)' PROVE RowOK(a)'
  BY <1>1 DEF RowsOK, RowOK
<1>2. row' = row /\ grant' = grant /\ now' = now /\ misjudged' = misjudged /\ Settled(a)
  BY DEF Crash, Settled
<1>3. row[a].token.grant <= grant[a] /\ SlackOK(a) /\ MisjudgedOK(a)
  BY <1>2 DEF RowsOK, RowOK
<1>4. ASSUME NEW v \in Workers PROVE TaskOK(v, a)'
  <2>1. CASE v # w
    <3>1. TaskOK(v, a)
      BY <1>2 DEF RowsOK, RowOK
    <3>2. task'[v] = task[v]
      BY <2>1 DEF TypeOK, Crash
    <3> QED BY <1>2, <3>1, <3>2 DEF TaskOK, At, Found
  <2>2. CASE v = w
    <3>1. task'[v][a] = NoTask
      BY <2>2 DEF TypeOK, Crash
    <3> QED BY <3>1 DEF TaskOK, At, NoTask
  <2> QED BY <2>1, <2>2
<1>5. ASSUME Watched(a)
      PROVE  /\ row[a].token.until = row[a].expires
             /\ row[a].expires + outages' >= now + Ahead
             /\ row[a].expires + outages' >= now + Ahead - 1
  <2>1. row[a].expires \in Nat
    BY <1>5 DEF Watched, Maintained, TypeOK, Row
  <2> QED BY <1>1, <1>3, <1>5, <2>1, TokenAssumption DEF SlackOK
<1>6. SlackOK(a)'
  BY <1>2, <1>5 DEF SlackOK, Watched, Maintained
<1> QED BY <1>2, <1>3, <1>4, <1>6 DEF RowOK, MisjudgedOK

LEMMA DayKeepsRows ==
  ASSUME TypeOK, TypeOK', RowsOK, DayPasses
  PROVE  RowsOK'
<1>1. /\ outages \in Nat /\ now \in Nat /\ now' = now + 1 /\ ~ticked'
      /\ outages' = IF ticked THEN outages ELSE outages + 1
  BY DEF TypeOK, DayPasses, Outage
<1>2. outages' <= MaxOutages
  BY TokenAssumption DEF TypeOK, DayPasses, Outage, RowsOK
<1> SUFFICES ASSUME NEW a \in Accounts, Settled(a)' PROVE RowOK(a)'
  BY <1>2 DEF RowsOK, RowOK
<1>3. row' = row /\ grant' = grant /\ task' = task /\ misjudged' = misjudged /\ Settled(a)
  BY DEF DayPasses, Settled
<1>4. row[a].token.grant <= grant[a] /\ SlackOK(a) /\ MisjudgedOK(a)
  BY <1>3 DEF RowsOK, RowOK
<1>5. \A w \in Workers : At(w, a, "none")
  BY DEF DayPasses, Busy
<1>6. \A w \in Workers : TaskOK(w, a)'
  BY <1>3, <1>5 DEF TaskOK, At
<1>7. ASSUME Watched(a)
      PROVE  /\ row[a].token.until = row[a].expires
             /\ row[a].expires + outages' >= now' + Ahead - 1
  <2>1. row[a].expires \in Nat
    BY <1>7 DEF Watched, Maintained, TypeOK, Row
  <2>2. ~Pending(a)
    BY <1>5 DEF Pending, At
  <2> QED BY <1>1, <1>4, <1>7, <2>1, <2>2, TokenAssumption DEF SlackOK
<1>8. SlackOK(a)'
  BY <1>1, <1>3, <1>7 DEF SlackOK, Watched, Maintained
<1> QED BY <1>1, <1>3, <1>4, <1>6, <1>8 DEF RowOK, MisjudgedOK

\* As long as no more than Ahead - 2 days are lost, no token ends whose
\* consent is in force, and none is marked as dead, unless an error about it
\* was classified as final: the daily tick comes to it in time, whatever the
\* user and the other processes do.
THEOREM TokensNeverLapse == Spec => []NeverLapses
<1>1. Init => RowsOK
  BY TokenAssumption DEF Init, RowsOK, RowOK, Settled, NoRow
<1>2. TypeOK /\ TypeOK' /\ RowsOK /\ [Next]_vars => RowsOK'
  <2> SUFFICES ASSUME TypeOK, TypeOK', RowsOK, [Next]_vars PROVE RowsOK'
    OBVIOUS
  <2>1. CASE UNCHANGED vars
    <3>1. outages' <= MaxOutages
      BY <2>1 DEF RowsOK, vars
    <3>2. \A a \in Accounts : Same(a)
      BY <2>1 DEF Same, TypeOK, vars
    <3> QED BY <3>1, <3>2, SameOK DEF RowsOK
  <2> QED BY <2>1, UserKeepsRows, RefreshKeepsRows, TickKeepsRows, CrashKeepsRows,
             DayKeepsRows DEF Next
<1>3. TypeOK /\ RowsOK => NeverLapses
  <2> SUFFICES ASSUME TypeOK, RowsOK, NEW a \in Accounts, Maintained(a),
                      a \notin overtaken, a \notin misjudged
               PROVE  row[a].expires >= now /\ row[a].token.until >= now
    BY DEF NeverLapses
  <2>1. row[a].expires \in Nat /\ now \in Nat /\ outages \in Nat
    BY DEF Maintained, TypeOK, Row
  <2>2. /\ row[a].token.until = row[a].expires
        /\ row[a].expires + outages >= now + Ahead - 1
        /\ outages <= MaxOutages
    BY DEF RowsOK, RowOK, Settled, SlackOK, Watched, Maintained
  <2> QED BY <2>1, <2>2, TokenAssumption
<1> QED BY <1>1, <1>2, <1>3, TokenTypeCorrect, PTL DEF Spec

=============================================================================
