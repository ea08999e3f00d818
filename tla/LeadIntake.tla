----------------------------- MODULE LeadIntake -----------------------------
(***************************************************************************)
(* How the leads of one Facebook form come into the database.  Facebook     *)
(* posts events, each with the leads of one or several submissions, until   *)
(* one is acknowledged.  The webhook stores the event, acknowledges it and  *)
(* only then saves its leads.  What a crash leaves behind is taken up by    *)
(* the replay tool, which goes through the events still unprocessed, and by *)
(* polling, which asks the Graph API for the newest leads of the form.      *)
(*                                                                          *)
(* What becomes of a saved lead is LeadPipeline's matter; here its status   *)
(* changes at will.  Time is counted in hours.                              *)
(***************************************************************************)
EXTENDS Integers, Sequences, FiniteSets

CONSTANTS
  Leads,
  Events,
  Content,        \* the leads of an event, in the order of its changes
  NoEvent,
  Handlers,       \* requests the webhook serves at a time
  PageCap,        \* PAGE_LEADS_PER_MIN_MAX
  InitialWindow,  \* DEFAULT_INITIAL_WINDOW_HOURS
  MaxWindow,      \* the widest window a poll derives, a week
  Polled,         \* ENABLE_LEAD_POLLING is set, and a tick comes to the form:
                  \* it is among the first MAX_FORMS_PER_TICK targets
  PageLimit,      \* limit, the leads on a page of the Graph API
  MaxPages,       \* maxPages
  Times,          \* bound: the hours at which something happens
  MaxPosts,       \* bound: posts by Facebook
  MaxFaults       \* bound: failing statements, processes that die

ASSUME IntakeAssumption ==
  /\ Content \in [Events -> Seq(Leads)]
  /\ \A e \in Events : Content[e] # <<>>
  /\ NoEvent \notin Events
  /\ PageCap \in Nat
  /\ {InitialWindow, MaxWindow} \subseteq Nat
  /\ Polled \in BOOLEAN
  /\ {PageLimit, MaxPages} \subseteq Nat \ {0}
  /\ Times \subseteq Nat
  /\ {MaxPosts, MaxFaults} \subseteq Nat

VARIABLES
  now,      \* the hour
  made,     \* when the form was filled in; 0 before
  row,      \* the rows of `leads`
  event,    \* the rows of `webhook_events`, and what Facebook knows of them
  handler,  \* the requests the webhook is serving
  count,    \* leads of the page in the current minute
  replay,   \* the replay tool
  poll,     \* the leads a poll of the form has found missing
  posts,    \* posts so far
  faults,   \* faults so far
  skipped,  \* history: leads the webhook or the replay left out on purpose
  unsaved,  \* history: leads whose save failed
  cut       \* history: leads of processed events a request broke off with

vars == <<now, made, row, event, handler, count, replay, poll, posts, faults,
          skipped, unsaved, cut>>

-----------------------------------------------------------------------------
(* State *)

\* "open" is PENDING or ERROR.
Status == {"none", "open", "ENRICHED"}

\* dataStatus and createdAt.
Row == [status : Status, at : Nat]

NoRow == [status |-> "none", at |-> 0]

Event == [stored : BOOLEAN, processed : BOOLEAN, acked : BOOLEAN]

NewEvent == [stored |-> FALSE, processed |-> FALSE, acked |-> FALSE]

HandlerPc == {"idle", "store", "ack", "rate", "save", "mark"}

\* i: the change of the event the loop has come to.
Handler == [pc : HandlerPc, event : Events \cup {NoEvent}, i : Nat]

Idle == [pc |-> "idle", event |-> NoEvent, i |-> 0]

\* The event the replay tool is at, and those it has selected besides.
Replay == [event : Events \cup {NoEvent}, i : Nat, todo : SUBSET Events]

NoReplay == [event |-> NoEvent, i |-> 0, todo |-> {}]

TypeOK ==
  /\ now \in Nat
  /\ made \in [Leads -> Nat]
  /\ row \in [Leads -> Row]
  /\ event \in [Events -> Event]
  /\ handler \in [Handlers -> Handler]
  /\ \A h \in Handlers : handler[h].pc # "idle" =>
       handler[h].event \in Events /\ handler[h].i \in DOMAIN Content[handler[h].event]
  /\ count \in Nat
  /\ replay \in Replay
  /\ replay # NoReplay =>
       replay.event \in Events /\ replay.i \in 1 .. Len(Content[replay.event]) + 1
  /\ poll \subseteq Leads
  /\ posts \in Nat
  /\ faults \in Nat
  /\ skipped \subseteq Leads
  /\ unsaved \subseteq Leads
  /\ cut \subseteq Leads

Init ==
  /\ now = 1
  /\ made = [l \in Leads |-> 0]
  /\ row = [l \in Leads |-> NoRow]
  /\ event = [e \in Events |-> NewEvent]
  /\ handler = [h \in Handlers |-> Idle]
  /\ count = 0
  /\ replay = NoReplay
  /\ poll = {}
  /\ posts = 0
  /\ faults = 0
  /\ skipped = {}
  /\ unsaved = {}
  /\ cut = {}

Fault ==
  /\ faults < MaxFaults
  /\ faults' = faults + 1

\* saveIncomingLead: INSERT ... ON DUPLICATE KEY UPDATE leaves the status of
\* an old row alone.  The dispatch that follows is LeadPipeline's.
SaveLead(l) ==
  row' = IF row[l].status = "none"
         THEN [row EXCEPT ![l] = [status |-> "open", at |-> now]]
         ELSE row

-----------------------------------------------------------------------------
(* Facebook *)

LeadsOf(e) == {Content[e][i] : i \in DOMAIN Content[e]}

\* Somebody fills in the form.
Submit(l) ==
  /\ made[l] = 0
  /\ made' = [made EXCEPT ![l] = now]
  /\ UNCHANGED <<now, row, event, handler, count, replay, poll, posts, faults,
                 skipped, unsaved, cut>>

\* A post, the first or a repetition.  An answer may be lost, so an event may
\* be posted again after it was acknowledged.
Post(h, e) ==
  /\ \A l \in LeadsOf(e) : made[l] # 0
  /\ handler[h] = Idle
  /\ posts < MaxPosts
  /\ posts' = posts + 1
  /\ handler' = [handler EXCEPT ![h] = [pc |-> "store", event |-> e, i |-> 1]]
  /\ UNCHANGED <<now, made, row, event, count, replay, poll, faults, skipped,
                 unsaved, cut>>

-----------------------------------------------------------------------------
(* The webhook *)

At(h, pc) == handler[h].pc = pc

EventOf(h) == handler[h].event

LeadOf(h) == Content[EventOf(h)][handler[h].i]

Goto(h, pc) == handler' = [handler EXCEPT ![h].pc = pc]

\* Mutant: the loop runs one change too far.
NextChangePastEnd(h) ==
  handler' = [handler EXCEPT
    ![h] = IF @.i > Len(Content[@.event])
           THEN Idle ELSE [pc |-> "rate", event |-> @.event, i |-> @.i + 1]]

\* On to the next change, or the end.
NextChange(h) ==
  handler' = [handler EXCEPT
    ![h] = IF @.i = Len(Content[@.event])
           THEN Idle ELSE [pc |-> "rate", event |-> @.event, i |-> @.i + 1]]

\* The INSERT of an event whose signature is new.
Store(h) ==
  LET e == EventOf(h) IN
  /\ At(h, "store")
  /\ ~event[e].stored
  /\ event' = [event EXCEPT ![e].stored = TRUE]
  /\ Goto(h, "ack")
  /\ UNCHANGED <<now, made, row, count, replay, poll, posts, faults, skipped,
                 unsaved, cut>>

\* Mutant: a duplicate is processed like a new event.
AckDuplicateAndGoOn(h) ==
  LET e == EventOf(h) IN
  /\ At(h, "store")
  /\ event[e].stored
  /\ event' = [event EXCEPT ![e].acked = TRUE]
  /\ Goto(h, "rate")
  /\ UNCHANGED <<now, made, row, count, replay, poll, posts, faults, skipped,
                 unsaved, cut>>

\* ER_DUP_ENTRY: 200, and nothing else.
AckDuplicate(h) ==
  LET e == EventOf(h) IN
  /\ At(h, "store")
  /\ event[e].stored
  /\ event' = [event EXCEPT ![e].acked = TRUE]
  /\ handler' = [handler EXCEPT ![h] = Idle]
  /\ UNCHANGED <<now, made, row, count, replay, poll, posts, faults, skipped,
                 unsaved, cut>>

\* Any other error of the INSERT: 500, so that Facebook posts again.
StoreFails(h) ==
  /\ At(h, "store")
  /\ Fault
  /\ handler' = [handler EXCEPT ![h] = Idle]
  /\ UNCHANGED <<now, made, row, event, count, replay, poll, posts, skipped,
                 unsaved, cut>>

Ack(h) ==
  /\ At(h, "ack")
  /\ event' = [event EXCEPT ![EventOf(h)].acked = TRUE]
  /\ Goto(h, "rate")
  /\ UNCHANGED <<now, made, row, count, replay, poll, posts, faults, skipped,
                 unsaved, cut>>

\* checkPageLeadRate counts, and over the cap the loop continues with the
\* next change.  Beyond PageCap the count makes no difference.
CheckRate(h) ==
  /\ At(h, "rate")
  /\ IF count < PageCap
     THEN /\ count' = count + 1
          /\ Goto(h, "save")
          /\ UNCHANGED skipped
     ELSE /\ skipped' = skipped \cup {LeadOf(h)}
          /\ NextChange(h)
          /\ UNCHANGED count
  /\ UNCHANGED <<now, made, row, event, replay, poll, posts, faults, unsaved,
                 cut>>

\* resolveUserIdsForPage returns nobody, also when the query fails.
FindNobody(h) ==
  /\ At(h, "save")
  /\ Fault
  /\ skipped' = skipped \cup {LeadOf(h)}
  /\ NextChange(h)
  /\ UNCHANGED <<now, made, row, event, count, replay, poll, posts, unsaved,
                 cut>>

Save(h) ==
  /\ At(h, "save")
  /\ SaveLead(LeadOf(h))
  /\ Goto(h, "mark")
  /\ UNCHANGED <<now, made, event, count, replay, poll, posts, faults, skipped,
                 unsaved, cut>>

\* saveIncomingLead catches its error and returns null; the event is marked
\* all the same.
SaveFails(h) ==
  /\ At(h, "save")
  /\ Fault
  /\ unsaved' = unsaved \cup {LeadOf(h)}
  /\ Goto(h, "mark")
  /\ UNCHANGED <<now, made, row, event, count, replay, poll, posts, skipped,
                 cut>>

\* processed = true, inside the loop over the changes.
Mark(h) ==
  /\ At(h, "mark")
  /\ event' = [event EXCEPT ![EventOf(h)].processed = TRUE]
  /\ NextChange(h)
  /\ UNCHANGED <<now, made, row, count, replay, poll, posts, faults, skipped,
                 unsaved, cut>>

\* The leads that no replay will find when these requests break off: their
\* event is marked already.
CutOff(requests) ==
  {l \in Leads :
     /\ row[l].status = "none"
     /\ \E h \in requests : /\ ~At(h, "idle")
                           /\ event[EventOf(h)].processed
                           /\ l \in LeadsOf(EventOf(h))}

\* The UPDATE throws, and the request ends there: the rejection is logged.
MarkFails(h) ==
  /\ At(h, "mark")
  /\ Fault
  /\ cut' = cut \cup CutOff({h})
  /\ handler' = [handler EXCEPT ![h] = Idle]
  /\ UNCHANGED <<now, made, row, event, count, replay, poll, posts, skipped,
                 unsaved>>

\* The process dies with all its requests, and the counts of the pages.
CrashWebhook ==
  /\ Fault
  /\ cut' = cut \cup CutOff(Handlers)
  /\ handler' = [h \in Handlers |-> Idle]
  /\ count' = 0
  /\ UNCHANGED <<now, made, row, event, replay, poll, posts, skipped,
                 unsaved>>

MinuteEnds ==
  /\ count # 0
  /\ count' = 0
  /\ UNCHANGED <<now, made, row, event, handler, replay, poll, posts, faults,
                 skipped, unsaved, cut>>

-----------------------------------------------------------------------------
(* The replay tool *)

Unprocessed == {e \in Events : event[e].stored /\ ~event[e].processed}

\* On to one of the events selected, whatever it is by now.
ReplayNext(todo) ==
  replay' \in IF todo = {} THEN {NoReplay}
             ELSE {[event |-> e, i |-> 1, todo |-> todo \ {e}] : e \in todo}

\* Somebody starts it with --apply.
ReplayStart ==
  /\ replay = NoReplay
  /\ Unprocessed # {}
  /\ ReplayNext(Unprocessed)
  /\ UNCHANGED <<now, made, row, event, handler, count, poll, posts, faults,
                 skipped, unsaved, cut>>

ReplayLead == Content[replay.event][replay.i]

ReplayAtLead ==
  /\ replay # NoReplay
  /\ replay.i <= Len(Content[replay.event])

ReplaySave ==
  /\ ReplayAtLead
  /\ SaveLead(ReplayLead)
  /\ replay' = [replay EXCEPT !.i = @ + 1]
  /\ UNCHANGED <<now, made, event, handler, count, poll, posts, faults, skipped,
                 unsaved, cut>>

\* saveIncomingLead returns null.
ReplaySaveFails ==
  /\ ReplayAtLead
  /\ Fault
  /\ unsaved' = unsaved \cup {ReplayLead}
  /\ replay' = [replay EXCEPT !.i = @ + 1]
  /\ UNCHANGED <<now, made, row, event, handler, count, poll, posts, skipped,
                 cut>>

\* The page has been disconnected.
ReplayFindsNobody ==
  /\ ReplayAtLead
  /\ Fault
  /\ skipped' = skipped \cup {ReplayLead}
  /\ replay' = [replay EXCEPT !.i = @ + 1]
  /\ UNCHANGED <<now, made, row, event, handler, count, poll, posts, unsaved,
                 cut>>

\* Mutant: the event is marked when its replay begins.
ReplayMarkEarly ==
  /\ replay # NoReplay
  /\ event' = [event EXCEPT ![replay.event].processed = TRUE]
  /\ IF ReplayAtLead THEN UNCHANGED replay ELSE ReplayNext(replay.todo)
  /\ UNCHANGED <<now, made, row, handler, count, poll, posts, faults, skipped,
                 unsaved, cut>>

ReplayMark ==
  /\ replay # NoReplay
  /\ ~ReplayAtLead
  /\ event' = [event EXCEPT ![replay.event].processed = TRUE]
  /\ ReplayNext(replay.todo)
  /\ UNCHANGED <<now, made, row, handler, count, poll, posts, faults, skipped,
                 unsaved, cut>>

\* A query throws: the event stays unprocessed, the next one follows.
ReplayThrows ==
  /\ replay # NoReplay
  /\ Fault
  /\ ReplayNext(replay.todo)
  /\ UNCHANGED <<now, made, row, event, handler, count, poll, posts, skipped,
                 unsaved, cut>>

CrashReplay ==
  /\ replay # NoReplay
  /\ Fault
  /\ replay' = NoReplay
  /\ UNCHANGED <<now, made, row, event, handler, count, poll, posts, skipped,
                 unsaved, cut>>

-----------------------------------------------------------------------------
(* Polling *)

Enriched == {row[l].at : l \in {k \in Leads : row[k].status = "ENRICHED"}}

\* deriveHoursBack: from now back to the createdAt of the newest enriched lead
\* of the form and half an hour more, in full hours; a week at most.
Cutoff ==
  IF Enriched = {}
  THEN now - InitialWindow
  ELSE LET newest == CHOOSE t \in Enriched : \A u \in Enriched : u <= t
       IN  IF newest - 1 < now - MaxWindow THEN now - MaxWindow ELSE newest - 1

Missing == {l \in Leads : row[l].status = "none"}

InWindow == {l \in Leads : made[l] # 0 /\ made[l] >= Cutoff}

\* The first pages of the answer, which has the newest leads first and those
\* that have a row among them.
Fetched(pages) ==
  {s \in SUBSET InWindow :
     /\ \A l \in s, k \in InWindow \ s : made[k] <= made[l]
     /\ \/ s = InWindow /\ Cardinality(s) <= pages * PageLimit
        \/ Cardinality(s) = pages * PageLimit}

\* Mutant: leads without a row are passed over.
FetchKnown(pages) ==
  /\ Polled
  /\ poll = {}
  /\ poll' \in {s \ Missing : s \in Fetched(pages)}

\* deriveHoursBack, fetchLeadsFromForm and findExistingLeads.  Of the leads
\* that have a row the poll rescues those at ERROR, see LeadPipeline.
Fetch(pages) ==
  /\ Polled
  /\ poll = {}
  /\ poll' \in {s \cap Missing : s \in Fetched(pages)}

\* As many pages as there are, at most MaxPages.
PollFetch ==
  /\ Fetch(MaxPages)
  /\ UNCHANGED <<now, made, row, event, handler, count, replay, posts, faults,
                 skipped, unsaved, cut>>

\* A page fails, maybe the first one: what has been read so far is taken.
PollBreaksOff ==
  /\ \E pages \in 0 .. MaxPages - 1 : Fetch(pages)
  /\ Fault
  /\ UNCHANGED <<now, made, row, event, handler, count, replay, posts, skipped,
                 unsaved, cut>>

\* insertAndDispatchPolledLead: a plain INSERT, which fails on the unique key
\* if the webhook was faster.  The error is logged.
PollInsert(l) ==
  /\ l \in poll
  /\ SaveLead(l)
  /\ poll' = poll \ {l}
  /\ UNCHANGED <<now, made, event, handler, count, replay, posts, faults,
                 skipped, unsaved, cut>>

\* Another error is logged too, and the next lead follows.
PollInsertFails(l) ==
  /\ l \in poll
  /\ Fault
  /\ poll' = poll \ {l}
  /\ UNCHANGED <<now, made, row, event, handler, count, replay, posts, skipped,
                 unsaved, cut>>

\* The worker restarts.
CrashPoll ==
  /\ poll # {}
  /\ Fault
  /\ poll' = {}
  /\ UNCHANGED <<now, made, row, event, handler, count, replay, posts, skipped,
                 unsaved, cut>>

-----------------------------------------------------------------------------
(* The pipeline and time *)

\* Whatever LeadPipeline makes of a row.
Process(l, status) ==
  /\ row[l].status \notin {"none", status}
  /\ row' = [row EXCEPT ![l].status = status]
  /\ UNCHANGED <<now, made, event, handler, count, replay, poll, posts, faults,
                 skipped, unsaved, cut>>

TimePasses ==
  /\ now' \in {t \in Times : t > now}
  /\ UNCHANGED <<made, row, event, handler, count, replay, poll, posts, faults,
                 skipped, unsaved, cut>>

-----------------------------------------------------------------------------
Facebook(h) == \E e \in Events : Post(h, e)

Handle(h) ==
  \/ Store(h) \/ AckDuplicate(h) \/ StoreFails(h) \/ Ack(h)
  \/ CheckRate(h) \/ FindNobody(h)
  \/ Save(h) \/ SaveFails(h) \/ Mark(h) \/ MarkFails(h)

ReplayStep ==
  \/ ReplayStart \/ ReplaySave \/ ReplaySaveFails
  \/ ReplayFindsNobody \/ ReplayMark \/ ReplayThrows \/ CrashReplay

PollStep ==
  \/ PollFetch \/ PollBreaksOff \/ CrashPoll
  \/ \E l \in Leads : PollInsert(l) \/ PollInsertFails(l)

Next ==
  \/ \E l \in Leads : Submit(l)
  \/ \E h \in Handlers : Facebook(h) \/ Handle(h)
  \/ CrashWebhook
  \/ MinuteEnds
  \/ ReplayStep
  \/ PollStep
  \/ \E l \in Leads, status \in Status \ {"none"} : Process(l, status)
  \/ TimePasses

Spec == Init /\ [][Next]_vars

\* Only polling is assumed to go on, and only where it is Polled: the timer is
\* set again whatever came of the last tick, a tick comes to each of its
\* targets, and in the end the Graph API answers with all the pages asked for.
Fairness ==
  /\ WF_vars(PollFetch)
  /\ \A l \in Leads : WF_vars(PollInsert(l))

FairSpec == Spec /\ Fairness

-----------------------------------------------------------------------------
(* Properties *)

\* The event of this request is stored.
Working(h) == ~At(h, "idle") /\ ~At(h, "store")

\* A duplicate is left to whoever stored the event: no two requests process
\* the same event, however often and however fast Facebook posts it.
HandledOnce ==
  \A h, k \in Handlers :
    h # k /\ Working(h) /\ Working(k) => EventOf(h) # EventOf(k)

\* Lead number i of event e is still to come in some request.
AheadInWebhook(e, i) ==
  \E h \in Handlers :
    /\ EventOf(h) = e
    /\ Working(h)
    /\ i > handler[h].i \/ (i = handler[h].i /\ ~At(h, "mark"))

\* Once an event is acknowledged Facebook forgets it.  Each of its leads then
\* has a row, or the event is stored and still unprocessed, so that a replay
\* finds it, or the webhook has yet to come to the lead.  The leads left out
\* on purpose are excepted, and those lost by a failing save, or by a request
\* that broke off after its event was marked.
AckedIsKept ==
  \A e \in Events : event[e].acked =>
    \A i \in DOMAIN Content[e] :
      LET l == Content[e][i] IN
      \/ row[l].status # "none"
      \/ event[e].stored /\ ~event[e].processed
      \/ AheadInWebhook(e, i)
      \/ l \in skipped \cup unsaved \cup cut

\* As many leads as a fetch can hold are as new as l, or newer: it need not
\* get as far as l.
Buried(l) ==
  Cardinality({k \in Leads \ {l} : made[k] >= made[l]}) >= MaxPages * PageLimit

\* Where the form is polled, every lead is found in the end, also when the
\* webhook never saw it or left it out, with two exceptions: the window has
\* moved on, as soon as a newer lead of the form is enriched older ones are
\* not asked for any more; or newer leads fill all the pages of a fetch.
EventuallyTakenIn ==
  Polled => \A l \in Leads :
    made[l] # 0 ~> row[l].status # "none" \/ made[l] < Cutoff \/ Buried(l)

=============================================================================
