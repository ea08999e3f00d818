---------------------------- MODULE TokenRefresh ----------------------------
(***************************************************************************)
(* The long-lived tokens of Facebook accounts and the scheduler that        *)
(* renews them once a day (fbTokenRefreshScheduler.ts).  A tick selects the *)
(* tokens that end soon, exchanges each for a new one, which takes a while, *)
(* and writes the answer by the id of the row; meanwhile the user may have  *)
(* reconnected, and another process may be at the same row.                 *)
(*                                                                          *)
(* Time is counted in days.                                                 *)
(***************************************************************************)
EXTENDS Naturals

CONSTANTS
  Accounts,     \* (user, Facebook user) pairs: the unique key of the table
  Workers,      \* processes that run the scheduler
  Null,         \* NULL in tokenExpiresAt; a token that never ends
  Ahead,        \* REFRESH_AHEAD_DAYS
  Life,         \* the days Facebook gives a long-lived token
  MaxDay,       \* bound: days
  MaxOutages,   \* bound: days without a tick, exchanges and writes that fail
  MaxLogins,    \* bound: (re)connections
  MaxRevokes    \* bound: times the users withdraw their consent

\* Some days of slack, and tokens that last longer than the slack.
ASSUME TokenAssumption ==
  /\ {Ahead, Life, MaxDay, MaxOutages, MaxLogins, MaxRevokes} \subseteq Nat
  /\ MaxOutages + 2 <= Ahead
  /\ Ahead <= Life
  /\ Null \notin Nat

VARIABLES
  now,        \* the day
  ticked,     \* a tick has been started today
  grant,      \* Facebook: the number of the consent in force
  row,        \* the rows of facebook_accounts
  task,       \* what each process does to each account in its tick
  throttle,   \* the keys of Redis that silence the alert of today
  alerts,     \* history: alerts of today under a key, since the last refresh
  overtaken,  \* history: rows written by a user while a tick was at them
  misjudged,  \* history: rows marked for an error Facebook gave about a
              \* token it accepts
  outages,    \* days, exchanges and writes lost so far
  logins,     \* connections so far
  revokes     \* revocations so far

vars == <<now, ticked, grant, row, task, throttle, alerts, overtaken, misjudged,
          outages, logins, revokes>>

-----------------------------------------------------------------------------
(* State *)

\* What Facebook knows of a token: the consent it belongs to and its last day.
Token == [grant : Nat, until : Nat \cup {Null}]

NoToken == [grant |-> 0, until |-> 0]

\* id 0: no row.
Row == [id : Nat, token : Token, expires : Nat \cup {Null}]

NoRow == [id |-> 0, token |-> NoToken, expires |-> 0]

\* "misjudge" is "mark" for a token that is not void: the code makes no
\* difference, the history does.
TaskPc == {"none", "queued", "store", "mark", "misjudge", "notify"}

\* The id and the token of the row selected; then the new token.
Task == [pc : TaskPc, id : Nat, token : Token]

NoTask == [pc |-> "none", id |-> 0, token |-> NoToken]

TypeOK ==
  /\ now \in Nat \ {0}
  /\ ticked \in BOOLEAN
  /\ grant \in [Accounts -> Nat]
  /\ row \in [Accounts -> Row]
  /\ task \in [Workers -> [Accounts -> Task]]
  /\ throttle \subseteq Accounts
  /\ alerts \in [Accounts -> Nat]
  /\ overtaken \subseteq Accounts
  /\ misjudged \subseteq Accounts
  /\ {outages, logins, revokes} \subseteq Nat

Init ==
  /\ now = 1
  /\ ticked = FALSE
  /\ grant = [a \in Accounts |-> 1]
  /\ row = [a \in Accounts |-> NoRow]
  /\ task = [w \in Workers |-> [a \in Accounts |-> NoTask]]
  /\ throttle = {}
  /\ alerts = [a \in Accounts |-> 0]
  /\ overtaken = {}
  /\ misjudged = {}
  /\ outages = 0
  /\ logins = 0
  /\ revokes = 0

Outage ==
  /\ outages < MaxOutages
  /\ outages' = outages + 1

\* Facebook takes a token of the consent in force, until its last day.
Accepted(a, token) ==
  /\ token.grant = grant[a]
  /\ token.until = Null \/ token.until > now

At(w, a, pc) == task[w][a].pc = pc

Busy(w) == \E a \in Accounts : ~At(w, a, "none")

Goto(w, a, pc) == task' = [task EXCEPT ![w][a].pc = pc]

Done(w, a) == task' = [task EXCEPT ![w][a] = NoTask]

-----------------------------------------------------------------------------
(* Users *)

\* connect and connectAndSubscribeAll: the row of the account is written, or
\* inserted with a new id.
Login(a, until, expires) ==
  /\ logins < MaxLogins
  /\ logins' = logins + 1
  /\ row' = [row EXCEPT
       ![a] = [id |-> IF @.id = 0 THEN logins + 1 ELSE @.id,
               token |-> [grant |-> grant[a], until |-> until],
               expires |-> expires]]
  /\ overtaken' = IF \E w \in Workers : ~At(w, a, "none")
                  THEN overtaken \cup {a} ELSE overtaken \ {a}
  /\ misjudged' = misjudged \ {a}
  /\ UNCHANGED <<now, ticked, grant, task, throttle, alerts, outages, revokes>>

Connect(a) == Login(a, now + Life, now + Life)

\* A business account: expires_in is 0.
ConnectBusiness(a) == Login(a, Null, Null)

\* The exchange fails and the token of the dialog, good for hours, is stored
\* as it is, without an end.
ConnectUnexchanged(a) == Login(a, now, Null)

\* disconnect deletes the row.
Disconnect(a) ==
  /\ row[a].id # 0
  /\ row' = [row EXCEPT ![a] = NoRow]
  /\ UNCHANGED <<now, ticked, grant, task, throttle, alerts, overtaken,
                 misjudged, outages, logins, revokes>>

\* The user withdraws the consent, or changes the password: every token so
\* far is void.
Revoke(a) ==
  /\ revokes < MaxRevokes
  /\ revokes' = revokes + 1
  /\ grant' = [grant EXCEPT ![a] = @ + 1]
  /\ UNCHANGED <<now, ticked, row, task, throttle, alerts, overtaken,
                 misjudged, outages, logins>>

-----------------------------------------------------------------------------
(* The tick *)

Due(a) ==
  /\ row[a].id # 0
  /\ row[a].expires # Null
  /\ row[a].expires < now + Ahead
  /\ row[a].expires >= now

\* runTickGuarded: not while the last tick of this process is running.
TickStart(w) ==
  /\ ~Busy(w)
  /\ ticked' = TRUE
  /\ task' = [task EXCEPT ![w] =
       [a \in Accounts |->
          IF Due(a) THEN [pc |-> "queued", id |-> row[a].id, token |-> row[a].token]
                    ELSE NoTask]]
  /\ UNCHANGED <<now, grant, row, throttle, alerts, overtaken, misjudged,
                 outages, logins, revokes>>

\* exchangeForLongLivedToken with the token selected; the answer may be a
\* token without an end.
Exchanged(w, a) ==
  /\ At(w, a, "queued")
  /\ Accepted(a, task[w][a].token)
  /\ \E until \in {now + Life, Null} :
       task' = [task EXCEPT
         ![w][a] = [pc |-> "store", id |-> task[w][a].id,
                    token |-> [grant |-> grant[a], until |-> until]]]
  /\ UNCHANGED <<now, ticked, grant, row, throttle, alerts, overtaken,
                 misjudged, outages, logins, revokes>>

\* Mutant: the class of the error is kept in place of what to do about it.
RefusedRaw(w, a) ==
  /\ At(w, a, "queued")
  /\ ~Accepted(a, task[w][a].token)
  /\ Goto(w, a, "auth")
  /\ UNCHANGED <<now, ticked, grant, row, throttle, alerts, overtaken,
                 misjudged, outages, logins, revokes>>

\* auth, validation or permanently_missing.
Refused(w, a) ==
  /\ At(w, a, "queued")
  /\ ~Accepted(a, task[w][a].token)
  /\ Goto(w, a, "mark")
  /\ UNCHANGED <<now, ticked, grant, row, throttle, alerts, overtaken,
                 misjudged, outages, logins, revokes>>

\* classifyGraphError goes by the HTTP status: a 401 or 403 is auth before the
\* codes of a rate limit are looked at, and any other 400 or 422, or a text
\* with "does not exist" or "invalid parameter", is taken for a token that is
\* void as well.
RefusedAlive(w, a) ==
  /\ At(w, a, "queued")
  /\ Accepted(a, task[w][a].token)
  /\ Goto(w, a, "misjudge")
  /\ UNCHANGED <<now, ticked, grant, row, throttle, alerts, overtaken,
                 misjudged, outages, logins, revokes>>

\* Mutant: a time-out is taken for a refusal.
TransientAsDead(w, a) ==
  /\ At(w, a, "queued")
  /\ Outage
  /\ Goto(w, a, "mark")
  /\ UNCHANGED <<now, ticked, grant, row, throttle, alerts, overtaken,
                 misjudged, logins, revokes>>

\* The tick is done with the account, and nothing is written.
Leave(w, a) ==
  /\ Outage
  /\ Done(w, a)
  /\ UNCHANGED <<now, ticked, grant, row, throttle, alerts, overtaken,
                 misjudged, logins, revokes>>

\* rate_limit or network: the next tick will do.
Transient(w, a) == At(w, a, "queued") /\ Leave(w, a)

\* The UPDATE fails; the error is caught and the next account follows.
WriteFails(w, a) ==
  /\ At(w, a, "store") \/ At(w, a, "mark") \/ At(w, a, "misjudge")
  /\ Leave(w, a)

\* Redis fails: the message is sent all the same, and alerts does not count it.
NotifyBlindly(w, a) == At(w, a, "notify") /\ Leave(w, a)

\* The UPDATE by id finds the row unless it was deleted meanwhile.
Found(w, a) == row[a].id = task[w][a].id

\* The new token and its end; clearTokenRefreshThrottle, whose errors are
\* swallowed.
Store(w, a) ==
  /\ At(w, a, "store")
  /\ row' = IF Found(w, a)
            THEN [row EXCEPT ![a].token = task[w][a].token,
                             ![a].expires = task[w][a].token.until]
            ELSE row
  /\ misjudged' = IF Found(w, a) THEN misjudged \ {a} ELSE misjudged
  /\ throttle' \in {throttle \ {a}, throttle}
  /\ alerts' = [alerts EXCEPT ![a] = 0]
  /\ Done(w, a)
  /\ UNCHANGED <<now, ticked, grant, overtaken, outages, logins, revokes>>

\* tokenExpiresAt = NOW(), which is in the past for every later query.
MarkDead(w, a) ==
  /\ At(w, a, "mark") \/ At(w, a, "misjudge")
  /\ row' = IF Found(w, a) THEN [row EXCEPT ![a].expires = now - 1] ELSE row
  /\ misjudged' = IF At(w, a, "misjudge") /\ Found(w, a)
                  THEN misjudged \cup {a} ELSE misjudged
  /\ Goto(w, a, "notify")
  /\ UNCHANGED <<now, ticked, grant, throttle, alerts, overtaken, outages,
                 logins, revokes>>

\* Mutant: the key is set without NX.
NotifyAlways(w, a) ==
  /\ At(w, a, "notify")
  /\ throttle' = throttle \cup {a}
  /\ alerts' = [alerts EXCEPT ![a] = @ + 1]
  /\ Done(w, a)
  /\ UNCHANGED <<now, ticked, grant, row, overtaken, misjudged, outages,
                 logins, revokes>>

\* notifyTokenDead: SET ... NX decides who sends the message.
Notify(w, a) ==
  /\ At(w, a, "notify")
  /\ throttle' = throttle \cup {a}
  /\ alerts' = IF a \in throttle THEN alerts ELSE [alerts EXCEPT ![a] = @ + 1]
  /\ Done(w, a)
  /\ UNCHANGED <<now, ticked, grant, row, overtaken, misjudged, outages,
                 logins, revokes>>

\* A restart ends the tick.  The day counts as lost.
Crash(w) ==
  /\ Busy(w)
  /\ Outage
  /\ task' = [task EXCEPT ![w] = [a \in Accounts |-> NoTask]]
  /\ UNCHANGED <<now, ticked, grant, row, throttle, alerts, overtaken,
                 misjudged, logins, revokes>>

\* A tick takes minutes, so none is running at the end of the day.  A day
\* without a tick is an outage.  Keys of Redis live for a day.
DayPasses ==
  /\ now < MaxDay
  /\ \A w \in Workers : ~Busy(w)
  /\ IF ticked THEN UNCHANGED outages ELSE Outage
  /\ now' = now + 1
  /\ ticked' = FALSE
  /\ throttle' = {}
  /\ alerts' = [a \in Accounts |-> 0]
  /\ UNCHANGED <<grant, row, task, overtaken, misjudged, logins, revokes>>

-----------------------------------------------------------------------------
User(a) ==
  \/ Connect(a) \/ ConnectBusiness(a) \/ ConnectUnexchanged(a)
  \/ Disconnect(a) \/ Revoke(a)

Refresh(w, a) ==
  \/ Exchanged(w, a) \/ Refused(w, a) \/ RefusedAlive(w, a) \/ Transient(w, a)
  \/ Store(w, a) \/ MarkDead(w, a) \/ WriteFails(w, a)
  \/ Notify(w, a) \/ NotifyBlindly(w, a)

Next ==
  \/ \E a \in Accounts : User(a)
  \/ \E w \in Workers, a \in Accounts : Refresh(w, a)
  \/ \E w \in Workers : TickStart(w) \/ Crash(w)
  \/ DayPasses

Spec == Init /\ [][Next]_vars

-----------------------------------------------------------------------------
(* Properties *)

\* The user's consent is in force, and the row tells when the token ends.
Maintained(a) ==
  /\ row[a].id # 0
  /\ row[a].expires # Null
  /\ row[a].token.grant = grant[a]

\* With at most Ahead - 2 days lost, to a worker that is down or to Facebook
\* not answering, no token ends while its consent is in force, and no live
\* token is marked as dead.  Two kinds of rows are excepted: those the user
\* has written while a tick was at them, and those marked for an error about a
\* live token that was classified as final; such a row is not renewed again.
NeverLapses ==
  \A a \in Accounts : Maintained(a) =>
    \/ row[a].expires >= now /\ row[a].token.until >= now
    \/ a \in overtaken \cup misjudged

\* However many processes find a token dead, the user gets one message a day
\* about it, until a refresh succeeds.  While Redis is down every process
\* sends its own; those are not counted.
AlertedOnce == \A a \in Accounts : alerts[a] <= 1

=============================================================================
