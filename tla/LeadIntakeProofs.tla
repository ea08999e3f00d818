-------------------------- MODULE LeadIntakeProofs --------------------------
(***************************************************************************)
(* TLAPS proofs about LeadIntake, for any events, leads, requests and       *)
(* bounds.                                                                  *)
(*                                                                          *)
(* What a request or a replay has passed is kept: saved, or left out for a  *)
(* reason that the model notes.  An event is marked by somebody who has     *)
(* passed some of its leads; the rest of them are ahead of a request, until *)
(* the process dies.                                                        *)
(***************************************************************************)
EXTENDS LeadIntake, TLAPS

LEMMA ContentFacts ==
  ASSUME NEW e \in Events
  PROVE  /\ Len(Content[e]) \in Nat \ {0}
         /\ DOMAIN Content[e] = 1 .. Len(Content[e])
         /\ \A i \in 1 .. Len(Content[e]) : Content[e][i] \in Leads
<1>1. Content[e] \in Seq(Leads) /\ Content[e] # <<>>
  BY IntakeAssumption
<1> QED BY <1>1

-----------------------------------------------------------------------------
(* Types *)

\* A request, and the replay, are at a change of their event.
HandlerTyped(t) ==
  /\ t \in Handler
  /\ t.pc # "idle" => t.event \in Events /\ t.i \in 1 .. Len(Content[t.event])

ReplayTyped ==
  /\ replay \in Replay
  /\ replay # NoReplay =>
       replay.event \in Events /\ replay.i \in 1 .. Len(Content[replay.event]) + 1

RowsTyped ==
  /\ now \in Nat
  /\ made \in [Leads -> Nat]
  /\ row \in [Leads -> Row]
  /\ event \in [Events -> Event]
  /\ count \in Nat
  /\ poll \subseteq Leads
  /\ posts \in Nat
  /\ faults \in Nat
  /\ skipped \subseteq Leads
  /\ unsaved \subseteq Leads
  /\ cut \subseteq Leads

HandlersTyped ==
  /\ handler \in [Handlers -> Handler]
  /\ \A h \in Handlers : HandlerTyped(handler[h])

LEMMA TypeParts == TypeOK <=> RowsTyped /\ HandlersTyped /\ ReplayTyped
<1>1. ASSUME NEW h \in Handlers, handler[h].pc # "idle", handler[h].event \in Events
      PROVE  DOMAIN Content[handler[h].event] = 1 .. Len(Content[handler[h].event])
  BY <1>1, ContentFacts
<1>2. TypeOK => RowsTyped /\ ReplayTyped
  BY DEF TypeOK, RowsTyped, ReplayTyped
<1>3. TypeOK => HandlersTyped
  BY <1>1 DEF TypeOK, HandlersTyped, HandlerTyped
<1>4. RowsTyped /\ HandlersTyped /\ ReplayTyped => TypeOK
  BY <1>1 DEF TypeOK, RowsTyped, HandlersTyped, HandlerTyped, ReplayTyped
<1> QED BY <1>2, <1>3, <1>4

LEMMA TypePartsNext == RowsTyped' /\ HandlersTyped' /\ ReplayTyped' => TypeOK'
BY TypeParts, PTL

LEMMA IdleTyped == HandlerTyped(Idle)
BY DEF HandlerTyped, Handler, HandlerPc, Idle

LEMMA NoReplayTyped == NoReplay \in Replay
BY DEF NoReplay, Replay

LEMMA HandlerMoves ==
  ASSUME HandlersTyped, NEW h \in Handlers, NEW t, HandlerTyped(t),
         handler' = [handler EXCEPT ![h] = t]
  PROVE  HandlersTyped'
BY DEF HandlersTyped, HandlerTyped

LEMMA GotoTyped ==
  ASSUME HandlersTyped, NEW h \in Handlers, ~At(h, "idle"), NEW pc \in HandlerPc,
         Goto(h, pc)
  PROVE  HandlersTyped'
<1>1. HandlerTyped([handler[h] EXCEPT !.pc = pc])
  BY DEF HandlersTyped, HandlerTyped, Handler, At
<1>2. handler' = [handler EXCEPT ![h] = [handler[h] EXCEPT !.pc = pc]]
  BY DEF HandlersTyped, Goto
<1> QED BY <1>1, <1>2, HandlerMoves

LEMMA NextChangeTyped ==
  ASSUME HandlersTyped, NEW h \in Handlers, ~At(h, "idle"), NextChange(h)
  PROVE  HandlersTyped'
<1>1. /\ handler[h] \in Handler /\ handler[h].event \in Events
      /\ handler[h].i \in 1 .. Len(Content[handler[h].event])
  BY DEF HandlersTyped, HandlerTyped, At
<1>2. CASE handler[h].i = Len(Content[handler[h].event])
  <2>1. handler' = [handler EXCEPT ![h] = Idle]
    BY <1>2 DEF HandlersTyped, NextChange
  <2> QED BY <2>1, IdleTyped, HandlerMoves
<1>3. CASE handler[h].i # Len(Content[handler[h].event])
  <2> DEFINE t == [pc |-> "rate", event |-> handler[h].event, i |-> handler[h].i + 1]
  <2>1. handler' = [handler EXCEPT ![h] = t]
    BY <1>3 DEF HandlersTyped, NextChange
  <2>2. handler[h].i + 1 \in 1 .. Len(Content[handler[h].event])
    BY <1>1, <1>3, ContentFacts
  <2>3. HandlerTyped(t)
    BY <1>1, <2>2, ContentFacts DEF HandlerTyped, Handler, HandlerPc
  <2> QED BY <2>1, <2>3, HandlerMoves
<1> QED BY <1>2, <1>3

LEMMA SaveLeadTyped ==
  ASSUME row \in [Leads -> Row], now \in Nat, NEW l \in Leads, SaveLead(l)
  PROVE  row' \in [Leads -> Row]
BY DEF SaveLead, Row, Status

LEMMA ReplayNextTyped ==
  ASSUME NEW todo \in SUBSET Events, ReplayNext(todo)
  PROVE  ReplayTyped'
<1>1. CASE todo = {}
  BY <1>1, NoReplayTyped DEF ReplayNext, ReplayTyped
<1>2. CASE todo # {}
  <2>1. PICK e \in todo : replay' = [event |-> e, i |-> 1, todo |-> todo \ {e}]
    BY <1>2 DEF ReplayNext
  <2>2. 1 \in 1 .. Len(Content[e]) + 1
    BY <2>1, ContentFacts
  <2> QED BY <2>1, <2>2 DEF ReplayTyped, Replay
<1> QED BY <1>1, <1>2

LEMMA TypeInit == Init => TypeOK
<1> SUFFICES ASSUME Init PROVE TypeOK
  OBVIOUS
<1>1. made \in [Leads -> Nat] /\ row \in [Leads -> Row]
  BY DEF Init, Row, NoRow, Status
<1>2. event \in [Events -> Event]
  BY DEF Init, Event, NewEvent
<1>3. HandlersTyped
  BY IdleTyped DEF Init, HandlersTyped, HandlerTyped
<1>4. ReplayTyped
  BY NoReplayTyped DEF Init, ReplayTyped
<1>5. RowsTyped
  BY <1>1, <1>2 DEF Init, RowsTyped
<1> QED BY <1>3, <1>4, <1>5, TypeParts

LEMMA HandleTyped ==
  ASSUME RowsTyped, HandlersTyped, NEW h \in Handlers, Handle(h)
  PROVE  RowsTyped' /\ HandlersTyped'
<1>1. ~At(h, "idle")
  BY DEF Handle, At, Store, AckDuplicate, StoreFails, Ack, CheckRate, FindNobody, Save,
         SaveFails, Mark, MarkFails
<1>2. EventOf(h) \in Events /\ LeadOf(h) \in Leads
  BY <1>1, ContentFacts DEF HandlersTyped, HandlerTyped, At, EventOf, LeadOf
<1>3. CASE Store(h)
  <2>1. HandlersTyped'
    BY <1>1, <1>3, GotoTyped DEF Store, HandlerPc
  <2>2. event' \in [Events -> Event]
    BY <1>2, <1>3 DEF RowsTyped, Store, Event
  <2> QED BY <1>3, <2>1, <2>2 DEF Store, RowsTyped
<1>4. CASE AckDuplicate(h)
  <2>1. HandlersTyped'
    BY <1>4, IdleTyped, HandlerMoves DEF AckDuplicate
  <2>2. event' \in [Events -> Event]
    BY <1>2, <1>4 DEF RowsTyped, AckDuplicate, Event
  <2> QED BY <1>4, <2>1, <2>2 DEF AckDuplicate, RowsTyped
<1>5. CASE StoreFails(h)
  <2>1. HandlersTyped'
    BY <1>5, IdleTyped, HandlerMoves DEF StoreFails
  <2> QED BY <1>5, <2>1 DEF StoreFails, Fault, RowsTyped
<1>6. CASE Ack(h)
  <2>1. HandlersTyped'
    BY <1>1, <1>6, GotoTyped DEF Ack, HandlerPc
  <2>2. event' \in [Events -> Event]
    BY <1>2, <1>6 DEF RowsTyped, Ack, Event
  <2> QED BY <1>6, <2>1, <2>2 DEF Ack, RowsTyped
<1>7. CASE CheckRate(h)
  <2>1. HandlersTyped'
    BY <1>1, <1>7, GotoTyped, NextChangeTyped DEF CheckRate, HandlerPc
  <2> QED BY <1>2, <1>7, <2>1 DEF CheckRate, RowsTyped
<1>8. CASE FindNobody(h)
  <2>1. HandlersTyped'
    BY <1>1, <1>8, NextChangeTyped DEF FindNobody
  <2> QED BY <1>2, <1>8, <2>1 DEF FindNobody, Fault, RowsTyped
<1>9. CASE Save(h)
  <2>1. HandlersTyped'
    BY <1>1, <1>9, GotoTyped DEF Save, HandlerPc
  <2>2. row' \in [Leads -> Row]
    BY <1>2, <1>9, SaveLeadTyped DEF Save, RowsTyped
  <2> QED BY <1>9, <2>1, <2>2 DEF Save, RowsTyped
<1>10. CASE SaveFails(h)
  <2>1. HandlersTyped'
    BY <1>1, <1>10, GotoTyped DEF SaveFails, HandlerPc
  <2> QED BY <1>2, <1>10, <2>1 DEF SaveFails, Fault, RowsTyped
<1>11. CASE Mark(h)
  <2>1. HandlersTyped'
    BY <1>1, <1>11, NextChangeTyped DEF Mark
  <2>2. event' \in [Events -> Event]
    BY <1>2, <1>11 DEF RowsTyped, Mark, Event
  <2> QED BY <1>11, <2>1, <2>2 DEF Mark, RowsTyped
<1>12. CASE MarkFails(h)
  <2>1. HandlersTyped'
    BY <1>12, IdleTyped, HandlerMoves DEF MarkFails
  <2> QED BY <1>12, <2>1 DEF MarkFails, CutOff, Fault, RowsTyped
<1> QED BY <1>3, <1>4, <1>5, <1>6, <1>7, <1>8, <1>9, <1>10, <1>11, <1>12 DEF Handle

LEMMA ReplayStepTyped ==
  ASSUME RowsTyped, ReplayTyped, ReplayStep
  PROVE  RowsTyped' /\ ReplayTyped'
<1>1. Unprocessed \in SUBSET Events /\ replay.todo \in SUBSET Events
  BY DEF Unprocessed, ReplayTyped, Replay
<1>2. CASE ReplayStart
  BY <1>1, <1>2, ReplayNextTyped DEF ReplayStart, RowsTyped
<1>3. CASE ReplayMark
  <2>1. ReplayTyped'
    BY <1>1, <1>3, ReplayNextTyped DEF ReplayMark
  <2>2. event' \in [Events -> Event]
    BY <1>3 DEF RowsTyped, ReplayTyped, ReplayMark, Event
  <2> QED BY <1>3, <2>1, <2>2 DEF ReplayMark, RowsTyped
<1>4. CASE ReplayThrows
  BY <1>1, <1>4, ReplayNextTyped DEF ReplayThrows, Fault, RowsTyped
<1>5. CASE CrashReplay
  BY <1>5, NoReplayTyped DEF CrashReplay, Fault, RowsTyped, ReplayTyped
<1>6. CASE ReplaySave \/ ReplaySaveFails \/ ReplayFindsNobody
  <2>1. /\ replay # NoReplay /\ replay.event \in Events
        /\ replay.i \in 1 .. Len(Content[replay.event])
        /\ ReplayLead \in Leads
    <3>1. replay # NoReplay /\ replay.i <= Len(Content[replay.event])
      BY <1>6 DEF ReplaySave, ReplaySaveFails, ReplayFindsNobody, ReplayAtLead
    <3> QED BY <3>1, ContentFacts DEF ReplayTyped, ReplayLead
  <2>2. replay' = [replay EXCEPT !.i = replay.i + 1]
    BY <1>6 DEF ReplaySave, ReplaySaveFails, ReplayFindsNobody
  <2>3. replay.i + 1 \in 1 .. Len(Content[replay.event]) + 1 /\ replay.i + 1 \in Nat
    BY <2>1, ContentFacts
  <2>4. ReplayTyped'
    BY <2>1, <2>2, <2>3 DEF ReplayTyped, Replay
  <2>5. row' \in [Leads -> Row]
    BY <1>6, <2>1, SaveLeadTyped DEF ReplaySave, ReplaySaveFails, ReplayFindsNobody, RowsTyped
  <2> QED BY <1>6, <2>1, <2>4, <2>5
          DEF ReplaySave, ReplaySaveFails, ReplayFindsNobody, Fault, RowsTyped
<1> QED BY <1>2, <1>3, <1>4, <1>5, <1>6 DEF ReplayStep

LEMMA TypeStep == TypeOK /\ [Next]_vars => TypeOK'
<1> SUFFICES ASSUME TypeOK, [Next]_vars PROVE TypeOK'
  OBVIOUS
<1> USE TypePartsNext
<1>1. RowsTyped /\ HandlersTyped /\ ReplayTyped
  BY TypeParts
<1>2. ASSUME NEW l \in Leads, Submit(l) PROVE TypeOK'
  BY <1>1, <1>2 DEF TypeOK, Submit
<1>3. ASSUME NEW h \in Handlers, NEW e \in Events, Post(h, e) PROVE TypeOK'
  <2>1. HandlerTyped([pc |-> "store", event |-> e, i |-> 1])
    BY ContentFacts DEF HandlerTyped, Handler, HandlerPc
  <2>2. HandlersTyped'
    BY <1>1, <1>3, <2>1, HandlerMoves DEF Post
  <2>3. RowsTyped' /\ ReplayTyped'
    BY <1>1, <1>3 DEF Post, RowsTyped, ReplayTyped
  <2> QED BY <2>2, <2>3
<1>4. ASSUME NEW h \in Handlers, Handle(h) PROVE TypeOK'
  <2>1. replay' = replay
    BY <1>4 DEF Handle, Store, AckDuplicate, StoreFails, Ack, CheckRate, FindNobody, Save,
                SaveFails, Mark, MarkFails
  <2>2. ReplayTyped'
    BY <1>1, <2>1 DEF ReplayTyped
  <2> QED BY <1>1, <1>4, <2>2, HandleTyped
<1>5. CASE CrashWebhook
  <2>1. HandlersTyped'
    BY <1>5, IdleTyped DEF CrashWebhook, HandlersTyped, HandlerTyped
  <2>2. RowsTyped' /\ ReplayTyped'
    BY <1>1, <1>5 DEF CrashWebhook, CutOff, Fault, RowsTyped, ReplayTyped
  <2> QED BY <2>1, <2>2
<1>6. CASE MinuteEnds
  BY <1>6 DEF TypeOK, MinuteEnds
<1>7. CASE ReplayStep
  <2>1. handler' = handler
    BY <1>7 DEF ReplayStep, ReplayStart, ReplaySave, ReplaySaveFails, ReplayFindsNobody,
                ReplayMark, ReplayThrows, CrashReplay
  <2>2. HandlersTyped'
    BY <1>1, <2>1 DEF HandlersTyped
  <2> QED BY <1>1, <1>7, <2>2, ReplayStepTyped
<1>8. CASE PollStep
  <2>1. row' \in [Leads -> Row] /\ faults' \in Nat /\ poll' \subseteq Leads
    BY <1>1, <1>8, SaveLeadTyped
    DEF PollStep, PollFetch, PollBreaksOff, Fetch, Missing, PollInsert, PollInsertFails,
        CrashPoll, Fault, RowsTyped
  <2> QED BY <1>8, <2>1
          DEF TypeOK, PollStep, PollFetch, PollBreaksOff, PollInsert, PollInsertFails,
              CrashPoll
<1>9. ASSUME NEW l \in Leads, NEW status \in Status \ {"none"}, Process(l, status)
      PROVE  TypeOK'
  <2>1. row' \in [Leads -> Row]
    BY <1>1, <1>9 DEF Process, RowsTyped, Row
  <2> QED BY <1>9, <2>1 DEF TypeOK, Process
<1>10. CASE TimePasses
  BY <1>10, IntakeAssumption DEF TypeOK, TimePasses
<1>11. CASE UNCHANGED vars
  BY <1>11 DEF TypeOK, vars
<1> QED BY <1>2, <1>3, <1>4, <1>5, <1>6, <1>7, <1>8, <1>9, <1>10, <1>11 DEF Next, Facebook

\* Every request and every replay is at a change of its event, and the rows
\* keep their types.
THEOREM IntakeTypeCorrect == Spec => []TypeOK
<1> QED BY TypeInit, TypeStep, PTL DEF Spec

-----------------------------------------------------------------------------
(* What becomes of the leads of an event *)

Kept(l) == row[l].status # "none" \/ l \in skipped \cup unsaved \cup cut

\* A request past "store" has stored its event, and has passed the leads
\* before its place.
HandlerOK(h) ==
  ~At(h, "idle") =>
    /\ ~At(h, "store") => event[EventOf(h)].stored
    /\ \A j \in 1 .. Len(Content[EventOf(h)]) :
         j < handler[h].i \/ (j = handler[h].i /\ At(h, "mark"))
           => Kept(Content[EventOf(h)][j])

ReplayOK ==
  replay # NoReplay =>
    \A j \in 1 .. Len(Content[replay.event]) :
      j < replay.i => Kept(Content[replay.event][j])

EventOK(e) ==
  /\ event[e].acked => event[e].stored
  /\ event[e].processed =>
       \A j \in 1 .. Len(Content[e]) : Kept(Content[e][j]) \/ AheadInWebhook(e, j)

IntakeOK ==
  /\ \A h \in Handlers : HandlerOK(h)
  /\ ReplayOK
  /\ \A e \in Events : EventOK(e)
  /\ HandledOnce

\* A lead that is kept stays so: no step deletes a row or forgets a reason.
LEMMA KeptStays ==
  ASSUME TypeOK, Next, NEW l \in Leads, Kept(l)
  PROVE  Kept(l)'
<1>1. skipped \subseteq skipped' /\ unsaved \subseteq unsaved' /\ cut \subseteq cut'
  BY DEF Next, Submit, Facebook, Post, Handle, Store, AckDuplicate, StoreFails, Ack,
         CheckRate, FindNobody, Save, SaveFails, Mark, MarkFails, CrashWebhook, MinuteEnds,
         ReplayStep, ReplayStart, ReplaySave, ReplaySaveFails, ReplayFindsNobody,
         ReplayMark, ReplayThrows, CrashReplay, PollStep, PollFetch, PollBreaksOff,
         CrashPoll, PollInsert, PollInsertFails, Process, TimePasses
<1>2. ASSUME NEW k \in Leads, SaveLead(k), row[l].status # "none"
      PROVE  row'[l].status # "none"
  BY <1>2 DEF SaveLead, TypeOK, Row, Status
<1>3. ASSUME NEW k \in Leads, NEW status \in Status \ {"none"}, Process(k, status),
             row[l].status # "none"
      PROVE  row'[l].status # "none"
  BY <1>3 DEF Process, TypeOK, Row, Status
<1>4. ASSUME NEW h \in Handlers, Save(h) PROVE LeadOf(h) \in Leads
  BY <1>4, TypeParts, ContentFacts DEF Save, At, LeadOf, EventOf, HandlersTyped, HandlerTyped
<1>5. ASSUME ReplaySave PROVE ReplayLead \in Leads
  BY <1>5, ContentFacts DEF ReplaySave, ReplayAtLead, ReplayLead, TypeOK
<1>6. row[l].status # "none" => row'[l].status # "none"
  <2>1. CASE row' = row
    BY <2>1
  <2>2. CASE \/ \E h \in Handlers : Save(h)
             \/ ReplaySave
             \/ \E k \in Leads : PollInsert(k)
             \/ \E k \in Leads, status \in Status \ {"none"} : Process(k, status)
    BY <1>2, <1>3, <1>4, <1>5, <2>2 DEF Save, ReplaySave, PollInsert
  <2> QED BY <2>1, <2>2
          DEF Next, Submit, Facebook, Post, Handle, Store, AckDuplicate, StoreFails, Ack,
              CheckRate, FindNobody, SaveFails, Mark, MarkFails, CrashWebhook, MinuteEnds,
              ReplayStep, ReplayStart, ReplaySaveFails, ReplayFindsNobody,
              ReplayMark, ReplayThrows, CrashReplay, PollStep, PollFetch, PollBreaksOff,
              CrashPoll, PollInsertFails, TimePasses
<1> QED BY <1>1, <1>6 DEF Kept

LEMMA EventKept ==
  ASSUME TypeOK, Next, NEW e \in Events, NEW j \in 1 .. Len(Content[e]), Kept(Content[e][j])
  PROVE  Kept(Content[e][j])'
BY KeptStays, ContentFacts

\* What stands still keeps its part of the invariant.
LEMMA HandlerStays ==
  ASSUME TypeOK, Next, NEW h \in Handlers, HandlerOK(h), handler'[h] = handler[h],
         \A e \in Events : event[e].stored => event'[e].stored
  PROVE  HandlerOK(h)'
<1> SUFFICES ASSUME ~At(h, "idle") PROVE HandlerOK(h)'
  BY DEF HandlerOK, At
<1>1. PICK e \in Events : handler[h].event = e
  BY DEF TypeOK, At
<1>2. ~At(h, "store") => event'[e].stored
  BY <1>1 DEF HandlerOK, EventOf
<1>3. ASSUME NEW j \in 1 .. Len(Content[e]),
             j < handler[h].i \/ (j = handler[h].i /\ At(h, "mark"))
      PROVE  Kept(Content[e][j])'
  BY <1>1, <1>3, EventKept DEF HandlerOK, EventOf
<1> QED BY <1>1, <1>2, <1>3 DEF HandlerOK, At, EventOf

LEMMA ReplayStays ==
  ASSUME TypeOK, Next, ReplayOK, replay' = replay
  PROVE  ReplayOK'
<1> SUFFICES ASSUME replay # NoReplay, NEW j \in 1 .. Len(Content[replay.event]), j < replay.i
             PROVE  Kept(Content[replay.event][j])'
  BY DEF ReplayOK
<1>1. replay.event \in Events
  BY DEF TypeOK
<1> QED BY <1>1, EventKept DEF ReplayOK

LEMMA EventStays ==
  ASSUME TypeOK, Next, NEW e \in Events, EventOK(e), event'[e] = event[e],
         \A j \in 1 .. Len(Content[e]) :
           AheadInWebhook(e, j) => AheadInWebhook(e, j)' \/ Kept(Content[e][j])'
  PROVE  EventOK(e)'
<1>1. event'[e].acked => event'[e].stored
  BY DEF EventOK
<1>2. ASSUME event'[e].processed, NEW j \in 1 .. Len(Content[e])
      PROVE  Kept(Content[e][j])' \/ AheadInWebhook(e, j)'
  BY <1>2, EventKept DEF EventOK
<1> QED BY <1>1, <1>2 DEF EventOK

-----------------------------------------------------------------------------
(* Steps of the webhook *)

\* Where a request goes from a change it has dealt with.
LEMMA NextChangeMoves ==
  ASSUME TypeOK, NEW h \in Handlers, ~At(h, "idle"), NextChange(h)
  PROVE  /\ \A k \in Handlers : k # h => handler'[k] = handler[k]
         /\ \/ /\ handler[h].i = Len(Content[EventOf(h)])
               /\ handler'[h] = Idle
            \/ /\ handler[h].i # Len(Content[EventOf(h)])
               /\ handler'[h] = [pc |-> "rate", event |-> EventOf(h), i |-> handler[h].i + 1]
BY DEF TypeOK, NextChange, EventOf

\* The request it leads to has passed what the old one has, and the lead it
\* was at.
LEMMA NextChangeOK ==
  ASSUME TypeOK, Next, NEW h \in Handlers, ~At(h, "idle"), ~At(h, "store"), HandlerOK(h),
         NextChange(h), NEW e \in Events, EventOf(h) = e, NEW i \in Nat, handler[h].i = i,
         event'[e].stored = event[e].stored,
         Kept(Content[e][i])'
  PROVE  /\ HandlerOK(h)'
         /\ \A f \in Events : \A j \in 1 .. Len(Content[f]) :
              AheadInWebhook(f, j) => AheadInWebhook(f, j)' \/ Kept(Content[f][j])'
<1> DEFINE n == Len(Content[e])
<1>1. i \in 1 .. n /\ n \in Nat
  BY TypeParts, ContentFacts DEF HandlersTyped, HandlerTyped, At, EventOf
<1>2. CASE i = n
  <2>1. handler'[h] = Idle
    BY <1>1, <1>2, NextChangeMoves
  <2>2. HandlerOK(h)'
    BY <2>1 DEF HandlerOK, At, Idle
  <2>3. ASSUME NEW f \in Events, NEW j \in 1 .. Len(Content[f]), AheadInWebhook(f, j)
        PROVE  AheadInWebhook(f, j)' \/ Kept(Content[f][j])'
    <3>1. PICK k \in Handlers : /\ EventOf(k) = f
                                /\ Working(k)
                                /\ j > handler[k].i \/ (j = handler[k].i /\ ~At(k, "mark"))
      BY <2>3 DEF AheadInWebhook
    <3>2. CASE k = h
      <4>1. f = e /\ j = i
        BY <1>1, <1>2, <3>1, <3>2
      <4> QED BY <4>1
    <3>3. CASE k # h
      <4>1. handler'[k] = handler[k]
        BY <3>3, NextChangeMoves
      <4> QED BY <3>1, <4>1 DEF AheadInWebhook, Working, EventOf, At
    <3> QED BY <3>2, <3>3
  <2> QED BY <2>2, <2>3
<1>3. CASE i # n
  <2>1. handler'[h] = [pc |-> "rate", event |-> e, i |-> i + 1]
    BY <1>1, <1>3, NextChangeMoves
  <2>2. HandlerOK(h)'
    <3>1. event'[e].stored
      BY DEF HandlerOK
    <3>2. ASSUME NEW j \in 1 .. Len(Content[e]), j < i + 1 PROVE Kept(Content[e][j])'
      <4>1. CASE j = i
        BY <4>1
      <4>2. CASE j < i
        BY <4>2, EventKept DEF HandlerOK
      <4> QED BY <1>1, <3>2, <4>1, <4>2
    <3> QED BY <2>1, <3>1, <3>2 DEF HandlerOK, At, EventOf
  <2>3. ASSUME NEW f \in Events, NEW j \in 1 .. Len(Content[f]), AheadInWebhook(f, j)
        PROVE  AheadInWebhook(f, j)' \/ Kept(Content[f][j])'
    <3>1. PICK k \in Handlers : /\ EventOf(k) = f
                                /\ Working(k)
                                /\ j > handler[k].i \/ (j = handler[k].i /\ ~At(k, "mark"))
      BY <2>3 DEF AheadInWebhook
    <3>2. CASE k = h
      <4>1. f = e /\ (j = i \/ j > i)
        BY <1>1, <3>1, <3>2
      <4>2. CASE j > i
        <5>1. j > i + 1 \/ j = i + 1
          BY <1>1, <4>2
        <5> QED BY <2>1, <4>1, <5>1 DEF AheadInWebhook, Working, EventOf, At
      <4> QED BY <4>1, <4>2
    <3>3. CASE k # h
      <4>1. handler'[k] = handler[k]
        BY <3>3, NextChangeMoves
      <4> QED BY <3>1, <4>1 DEF AheadInWebhook, Working, EventOf, At
    <3> QED BY <3>2, <3>3
  <2> QED BY <2>2, <2>3
<1> QED BY <1>2, <1>3

\* A request that stays with its event, or ends, is no second one.
LEMMA StaysAlone ==
  ASSUME HandledOnce, NEW h \in Handlers,
         \A k \in Handlers : k # h => handler'[k] = handler[k],
         \/ handler'[h].pc \in {"idle", "store"}
         \/ handler'[h].event = handler[h].event /\ ~At(h, "idle") /\ ~At(h, "store")
  PROVE  HandledOnce'
<1> SUFFICES ASSUME NEW k \in Handlers, NEW m \in Handlers, k # m,
                    handler'[k].event = handler'[m].event
             PROVE  \/ handler'[k].pc \in {"idle", "store"}
                    \/ handler'[m].pc \in {"idle", "store"}
  BY DEF HandledOnce, Working, At, EventOf
<1>1. CASE k # h /\ m # h
  BY <1>1 DEF HandledOnce, Working, At, EventOf
<1>2. CASE k = h
  <2>1. m # h /\ handler'[m] = handler[m]
    BY <1>2
  <2> QED BY <1>2, <2>1 DEF HandledOnce, Working, At, EventOf
<1>3. CASE m = h
  <2>1. k # h /\ handler'[k] = handler[k]
    BY <1>3
  <2> QED BY <1>3, <2>1 DEF HandledOnce, Working, At, EventOf
<1> QED BY <1>1, <1>2, <1>3

LEMMA HandleRest ==
  ASSUME TypeOK, Next, IntakeOK, NEW h \in Handlers, Handle(h)
  PROVE  /\ \A k \in Handlers : k # h => HandlerOK(k)'
         /\ ReplayOK'
         /\ \A k \in Handlers : k # h => handler'[k] = handler[k]
<1>1. ASSUME NEW e \in Events, event[e].stored PROVE event'[e].stored
  <2>1. event[e] \in Event /\ e \in DOMAIN event
    BY DEF TypeOK
  <2>2. CASE event' = event
    BY <1>1, <2>2
  <2>3. CASE Store(h)
    BY <1>1, <2>1, <2>3 DEF Store, Event
  <2>4. CASE AckDuplicate(h) \/ Ack(h)
    BY <1>1, <2>1, <2>4 DEF AckDuplicate, Ack, Event
  <2>5. CASE Mark(h)
    BY <1>1, <2>1, <2>5 DEF Mark, Event
  <2> QED BY <2>2, <2>3, <2>4, <2>5
          DEF Handle, StoreFails, CheckRate, FindNobody, Save, SaveFails, MarkFails
<1>2. ASSUME NEW k \in Handlers, k # h PROVE handler'[k] = handler[k]
  <2>1. CASE \/ Store(h) \/ AckDuplicate(h) \/ StoreFails(h) \/ Ack(h) \/ Save(h)
             \/ SaveFails(h) \/ MarkFails(h)
    BY <1>2, <2>1 DEF Store, AckDuplicate, StoreFails, Ack, Save, SaveFails, MarkFails, Goto,
                      TypeOK
  <2>2. CASE CheckRate(h) \/ FindNobody(h) \/ Mark(h)
    BY <1>2, <2>2 DEF CheckRate, FindNobody, Mark, Goto, NextChange, TypeOK
  <2> QED BY <2>1, <2>2 DEF Handle
<1>3. replay' = replay
  BY DEF Handle, Store, AckDuplicate, StoreFails, Ack, CheckRate, FindNobody, Save,
         SaveFails, Mark, MarkFails
<1> QED BY <1>1, <1>2, <1>3, HandlerStays, ReplayStays DEF IntakeOK

\* The request goes on with the same lead.
LEMMA GotoOK ==
  ASSUME TypeOK, Next, NEW h \in Handlers, ~At(h, "idle"), HandlerOK(h),
         NEW e \in Events, EventOf(h) = e, NEW i \in Nat, handler[h].i = i,
         NEW pc \in {"ack", "rate", "save", "mark"}, Goto(h, pc), ~At(h, "mark"),
         event'[e].stored,
         pc = "mark" => Kept(Content[e][i])'
  PROVE  /\ HandlerOK(h)'
         /\ handler'[h].event = e
         /\ \A f \in Events : \A j \in 1 .. Len(Content[f]) :
              AheadInWebhook(f, j) => AheadInWebhook(f, j)' \/ Kept(Content[f][j])'
<1>1. handler'[h].pc = pc /\ handler'[h].event = e /\ handler'[h].i = i
  BY DEF Goto, TypeOK, EventOf, Handler
<1>2. \A k \in Handlers : k # h => handler'[k] = handler[k]
  BY DEF Goto, TypeOK
<1>3. HandlerOK(h)'
  <2>1. ASSUME NEW j \in 1 .. Len(Content[e]), j < i PROVE Kept(Content[e][j])'
    BY <2>1, EventKept DEF HandlerOK
  <2> QED BY <1>1, <2>1 DEF HandlerOK, At, EventOf
<1>4. ASSUME NEW f \in Events, NEW j \in 1 .. Len(Content[f]), AheadInWebhook(f, j)
      PROVE  AheadInWebhook(f, j)' \/ Kept(Content[f][j])'
  <2>1. PICK k \in Handlers : /\ EventOf(k) = f
                              /\ Working(k)
                              /\ j > handler[k].i \/ (j = handler[k].i /\ ~At(k, "mark"))
    BY <1>4 DEF AheadInWebhook
  <2>2. CASE k = h /\ pc = "mark" /\ j = i
    BY <2>1, <2>2
  <2>3. CASE k = h /\ ~(pc = "mark" /\ j = i)
    BY <1>1, <2>1, <2>3 DEF AheadInWebhook, Working, EventOf, At
  <2>4. CASE k # h
    BY <1>2, <2>1, <2>4 DEF AheadInWebhook, Working, EventOf, At
  <2> QED BY <2>2, <2>3, <2>4
<1> QED BY <1>1, <1>3, <1>4

LEMMA SavedIsKept ==
  ASSUME row \in [Leads -> Row], NEW l \in Leads, SaveLead(l)
  PROVE  row'[l].status # "none"
BY DEF SaveLead, Row

\* A request at a change of an event.
LEMMA AtChange ==
  ASSUME TypeOK, NEW h \in Handlers, ~At(h, "idle")
  PROVE  \E e \in Events, i \in Nat :
           /\ EventOf(h) = e /\ handler[h].i = i
           /\ i \in 1 .. Len(Content[e]) /\ Content[e][i] \in Leads
           /\ LeadOf(h) = Content[e][i]
BY TypeParts, ContentFacts DEF HandlersTyped, HandlerTyped, At, EventOf, LeadOf, Handler

LEMMA StoreOK ==
  ASSUME TypeOK, Next, IntakeOK, NEW h \in Handlers, Store(h)
  PROVE  IntakeOK'
<1>1. ~At(h, "idle") /\ At(h, "store") /\ HandlerOK(h)
  BY DEF Store, At, IntakeOK
<1>2. PICK e \in Events, i \in Nat : EventOf(h) = e /\ handler[h].i = i
  BY <1>1, AtChange
<1>3. /\ event'[e].stored /\ Goto(h, "ack") /\ ~event[e].stored
      /\ event'[e].processed = event[e].processed
      /\ \A f \in Events : f # e => event'[f] = event[f]
  BY <1>2 DEF Store, TypeOK, Event
<1>4. /\ HandlerOK(h)' /\ handler'[h].event = e
      /\ \A f \in Events : \A j \in 1 .. Len(Content[f]) :
           AheadInWebhook(f, j) => AheadInWebhook(f, j)' \/ Kept(Content[f][j])'
  BY <1>1, <1>2, <1>3, GotoOK DEF At
<1>5. ASSUME NEW f \in Events PROVE EventOK(f)'
  <2>1. CASE f # e
    BY <1>3, <1>4, <2>1, EventStays DEF IntakeOK
  <2>2. CASE f = e
    <3>1. ASSUME event'[e].processed, NEW j \in 1 .. Len(Content[e])
          PROVE  Kept(Content[e][j])' \/ AheadInWebhook(e, j)'
      BY <1>3, <1>4, <3>1, EventKept DEF IntakeOK, EventOK
    <3> QED BY <1>3, <2>2, <3>1 DEF EventOK
  <2> QED BY <2>1, <2>2
<1>6. HandledOnce'
  <2>1. ASSUME NEW k \in Handlers, k # h, EventOf(k) = e PROVE At(k, "idle") \/ At(k, "store")
    BY <1>3, <2>1 DEF IntakeOK, HandlerOK
  <2>2. \A k \in Handlers : k # h => handler'[k] = handler[k]
    BY HandleRest DEF Handle
  <2> SUFFICES ASSUME NEW k \in Handlers, NEW m \in Handlers, k # m,
                      handler'[k].event = handler'[m].event
               PROVE  \/ handler'[k].pc \in {"idle", "store"}
                      \/ handler'[m].pc \in {"idle", "store"}
    BY DEF HandledOnce, Working, At, EventOf
  <2>3. CASE k # h /\ m # h
    BY <2>2, <2>3 DEF IntakeOK, HandledOnce, Working, At, EventOf
  <2>4. CASE k = h
    BY <1>4, <2>1, <2>2, <2>4 DEF At, EventOf
  <2>5. CASE m = h
    BY <1>4, <2>1, <2>2, <2>5 DEF At, EventOf
  <2> QED BY <2>3, <2>4, <2>5
<1> QED BY <1>4, <1>5, <1>6, HandleRest DEF IntakeOK, Handle

LEMMA EndsOK ==
  ASSUME TypeOK, Next, IntakeOK, NEW h \in Handlers, AckDuplicate(h) \/ StoreFails(h)
  PROVE  IntakeOK'
<1>1. At(h, "store") /\ handler'[h] = Idle
  BY DEF AckDuplicate, StoreFails, TypeOK
<1>2. \A k \in Handlers : k # h => handler'[k] = handler[k]
  BY HandleRest DEF Handle
<1>3. HandlerOK(h)'
  BY <1>1 DEF HandlerOK, At, Idle
<1>4. HandledOnce'
  BY <1>1, <1>2, StaysAlone DEF Idle, IntakeOK
<1>5. ASSUME NEW f \in Events, NEW j \in 1 .. Len(Content[f]), AheadInWebhook(f, j)
      PROVE  AheadInWebhook(f, j)'
  BY <1>1, <1>2, <1>5 DEF AheadInWebhook, Working, EventOf, At
<1>6. ASSUME NEW f \in Events
      PROVE  /\ event'[f].acked => event'[f].stored
             /\ event'[f].processed = event[f].processed
  <2>1. event[f] \in Event /\ (event[f].acked => event[f].stored)
    BY DEF TypeOK, IntakeOK, EventOK
  <2>2. CASE StoreFails(h)
    BY <2>1, <2>2 DEF StoreFails
  <2>3. CASE AckDuplicate(h)
    BY <2>1, <2>3 DEF AckDuplicate, TypeOK, Event
  <2> QED BY <2>2, <2>3
<1>7. ASSUME NEW f \in Events PROVE EventOK(f)'
  BY <1>5, <1>6, EventKept DEF IntakeOK, EventOK
<1> QED BY <1>3, <1>4, <1>7, HandleRest DEF IntakeOK, Handle

\* What is left to show of a step that keeps the flags of the events.
LEMMA EventsStay ==
  ASSUME TypeOK, Next, IntakeOK, event' = event,
         \A f \in Events : \A j \in 1 .. Len(Content[f]) :
           AheadInWebhook(f, j) => AheadInWebhook(f, j)' \/ Kept(Content[f][j])'
  PROVE  \A f \in Events : EventOK(f)'
BY EventStays DEF IntakeOK

LEMMA AckOK ==
  ASSUME TypeOK, Next, IntakeOK, NEW h \in Handlers, Ack(h)
  PROVE  IntakeOK'
<1>1. /\ ~At(h, "idle") /\ ~At(h, "store") /\ ~At(h, "mark") /\ HandlerOK(h)
      /\ Goto(h, "rate")
  BY DEF Ack, At, IntakeOK
<1>2. PICK e \in Events, i \in Nat : EventOf(h) = e /\ handler[h].i = i
  BY <1>1, AtChange
<1>3. event' = [event EXCEPT ![e].acked = TRUE]
  BY <1>2 DEF Ack
<1>4. event[e].stored
  BY <1>1, <1>2 DEF HandlerOK
<1>5. ASSUME NEW f \in Events
      PROVE  /\ event'[f].stored = event[f].stored
             /\ event'[f].processed = event[f].processed
             /\ event'[f].acked => event'[f].stored
  <2>1. event[f] \in Event /\ (event[f].acked => event[f].stored)
    BY DEF TypeOK, IntakeOK, EventOK
  <2> QED BY <1>3, <1>4, <2>1 DEF TypeOK, Event
<1>6. /\ HandlerOK(h)' /\ handler'[h].event = e
      /\ \A f \in Events : \A j \in 1 .. Len(Content[f]) :
           AheadInWebhook(f, j) => AheadInWebhook(f, j)' \/ Kept(Content[f][j])'
  BY <1>1, <1>2, <1>4, <1>5, GotoOK
<1>7. ASSUME NEW f \in Events PROVE EventOK(f)'
  BY <1>5, <1>6, EventKept DEF IntakeOK, EventOK
<1>8. HandledOnce'
  BY <1>1, <1>2, <1>6, HandleRest, StaysAlone DEF IntakeOK, EventOf, Handle
<1> QED BY <1>6, <1>7, <1>8, HandleRest DEF IntakeOK, Handle

LEMMA SaveOK ==
  ASSUME TypeOK, Next, IntakeOK, NEW h \in Handlers, Save(h) \/ SaveFails(h)
  PROVE  IntakeOK'
<1>1. /\ ~At(h, "idle") /\ ~At(h, "store") /\ ~At(h, "mark") /\ HandlerOK(h)
      /\ Goto(h, "mark") /\ event' = event
  BY DEF Save, SaveFails, At, IntakeOK
<1>2. PICK e \in Events, i \in Nat :
        /\ EventOf(h) = e /\ handler[h].i = i
        /\ Content[e][i] \in Leads /\ LeadOf(h) = Content[e][i]
  BY <1>1, AtChange
<1>3. Kept(Content[e][i])'
  <2>1. CASE Save(h)
    BY <1>2, <2>1, SavedIsKept DEF Save, Kept, TypeOK
  <2>2. CASE SaveFails(h)
    BY <1>2, <2>2 DEF SaveFails, Kept
  <2> QED BY <2>1, <2>2
<1>4. /\ HandlerOK(h)' /\ handler'[h].event = e
      /\ \A f \in Events : \A j \in 1 .. Len(Content[f]) :
           AheadInWebhook(f, j) => AheadInWebhook(f, j)' \/ Kept(Content[f][j])'
  <2>1. event'[e].stored
    BY <1>1, <1>2 DEF HandlerOK
  <2> QED BY <1>1, <1>2, <1>3, <2>1, GotoOK
<1>5. HandledOnce'
  BY <1>1, <1>2, <1>4, HandleRest, StaysAlone DEF IntakeOK, EventOf, Handle
<1> QED BY <1>1, <1>4, <1>5, EventsStay, HandleRest DEF IntakeOK, Handle

LEMMA NextChangeAlone ==
  ASSUME TypeOK, HandledOnce, NEW h \in Handlers, ~At(h, "idle"), ~At(h, "store"),
         NextChange(h)
  PROVE  HandledOnce'
<1>1. \/ handler'[h].pc = "idle"
      \/ handler'[h].event = handler[h].event
  <2>1. \/ handler'[h] = Idle
        \/ handler'[h] = [pc |-> "rate", event |-> EventOf(h), i |-> handler[h].i + 1]
    BY NextChangeMoves
  <2>2. CASE handler'[h] = Idle
    BY <2>2 DEF Idle
  <2>3. CASE handler'[h] = [pc |-> "rate", event |-> EventOf(h), i |-> handler[h].i + 1]
    BY <2>3 DEF EventOf
  <2> QED BY <2>1, <2>2, <2>3
<1> QED BY <1>1, NextChangeMoves, StaysAlone

\* The request leaves a lead out.
LEMMA LeaveOut ==
  ASSUME TypeOK, Next, IntakeOK, NEW h \in Handlers, ~At(h, "idle"), ~At(h, "store"), Handle(h),
         NextChange(h), skipped' = skipped \cup {LeadOf(h)}, event' = event
  PROVE  IntakeOK'
<1>1. PICK e \in Events, i \in Nat :
        EventOf(h) = e /\ handler[h].i = i /\ LeadOf(h) = Content[e][i]
  BY AtChange
<1>2. Kept(Content[e][i])'
  BY <1>1 DEF Kept
<1>3. /\ HandlerOK(h)'
      /\ \A f \in Events : \A j \in 1 .. Len(Content[f]) :
           AheadInWebhook(f, j) => AheadInWebhook(f, j)' \/ Kept(Content[f][j])'
  BY <1>1, <1>2, NextChangeOK DEF IntakeOK
<1>4. HandledOnce'
  BY NextChangeAlone DEF IntakeOK
<1> QED BY <1>3, <1>4, EventsStay, HandleRest DEF IntakeOK

LEMMA CheckRateOK ==
  ASSUME TypeOK, Next, IntakeOK, NEW h \in Handlers, CheckRate(h)
  PROVE  IntakeOK'
<1>1. /\ ~At(h, "idle") /\ ~At(h, "store") /\ ~At(h, "mark") /\ HandlerOK(h)
      /\ event' = event /\ Handle(h)
  BY DEF CheckRate, At, IntakeOK, Handle
<1>2. CASE Goto(h, "save")
  <2>1. PICK e \in Events, i \in Nat : EventOf(h) = e /\ handler[h].i = i
    BY <1>1, AtChange
  <2>2. event'[e].stored
    BY <1>1, <2>1 DEF HandlerOK
  <2>3. /\ HandlerOK(h)' /\ handler'[h].event = e
        /\ \A f \in Events : \A j \in 1 .. Len(Content[f]) :
             AheadInWebhook(f, j) => AheadInWebhook(f, j)' \/ Kept(Content[f][j])'
    BY <1>1, <1>2, <2>1, <2>2, GotoOK
  <2>4. HandledOnce'
    BY <1>1, <2>1, <2>3, HandleRest, StaysAlone DEF IntakeOK, EventOf
  <2> QED BY <1>1, <2>3, <2>4, EventsStay, HandleRest DEF IntakeOK
<1>3. CASE skipped' = skipped \cup {LeadOf(h)} /\ NextChange(h)
  BY <1>1, <1>3, LeaveOut
<1> QED BY <1>2, <1>3 DEF CheckRate

LEMMA FindNobodyOK ==
  ASSUME TypeOK, Next, IntakeOK, NEW h \in Handlers, FindNobody(h)
  PROVE  IntakeOK'
BY LeaveOut DEF FindNobody, At, Handle

\* The mark: the leads before the place of the request are kept, the rest are
\* ahead of it.
LEMMA MarkOK ==
  ASSUME TypeOK, Next, IntakeOK, NEW h \in Handlers, Mark(h)
  PROVE  IntakeOK'
<1>1. /\ ~At(h, "idle") /\ ~At(h, "store") /\ At(h, "mark") /\ HandlerOK(h)
      /\ NextChange(h) /\ Handle(h)
  BY DEF Mark, At, IntakeOK, Handle
<1>2. PICK e \in Events, i \in Nat :
        EventOf(h) = e /\ handler[h].i = i /\ i \in 1 .. Len(Content[e])
  BY <1>1, AtChange
<1>3. event' = [event EXCEPT ![e].processed = TRUE]
  BY <1>2 DEF Mark
<1>4. /\ event'[e].stored = event[e].stored /\ event'[e].acked = event[e].acked
      /\ \A f \in Events : f # e => event'[f] = event[f]
  BY <1>3 DEF TypeOK, Event
<1>5. ASSUME NEW j \in 1 .. Len(Content[e]), j <= i PROVE Kept(Content[e][j])'
  <2>1. j < i \/ j = i
    BY <1>2, <1>5
  <2> QED BY <1>1, <1>2, <2>1, EventKept DEF HandlerOK
<1>6. /\ HandlerOK(h)'
      /\ \A f \in Events : \A j \in 1 .. Len(Content[f]) :
           AheadInWebhook(f, j) => AheadInWebhook(f, j)' \/ Kept(Content[f][j])'
  BY <1>1, <1>2, <1>4, <1>5, NextChangeOK
<1>7. ASSUME NEW f \in Events PROVE EventOK(f)'
  <2>1. CASE f # e
    BY <1>4, <1>6, <2>1, EventStays DEF IntakeOK
  <2>2. CASE f = e
    <3>1. ASSUME NEW j \in 1 .. Len(Content[e]) PROVE Kept(Content[e][j])' \/ AheadInWebhook(e, j)'
      <4>1. CASE j <= i
        BY <1>5, <4>1
      <4>2. CASE j > i
        <5>1. AheadInWebhook(e, j)
          BY <1>1, <1>2, <4>2 DEF AheadInWebhook, Working
        <5> QED BY <1>6, <5>1
      <4> QED BY <1>2, <4>1, <4>2
    <3>2. event'[e].acked => event'[e].stored
      BY <1>4 DEF IntakeOK, EventOK
    <3> QED BY <2>2, <3>1, <3>2 DEF EventOK
  <2> QED BY <2>1, <2>2
<1>8. HandledOnce'
  BY <1>1, NextChangeAlone DEF IntakeOK
<1> QED BY <1>1, <1>6, <1>7, <1>8, HandleRest DEF IntakeOK

\* The request breaks off; the leads that a marked event had ahead are noted
\* in cut.
LEMMA MarkFailsOK ==
  ASSUME TypeOK, Next, IntakeOK, NEW h \in Handlers, MarkFails(h)
  PROVE  IntakeOK'
<1>1. /\ handler'[h] = Idle
      /\ \A k \in Handlers : k # h => handler'[k] = handler[k]
      /\ event' = event /\ Handle(h)
  BY DEF MarkFails, TypeOK, Handle
<1>2. HandlerOK(h)'
  BY <1>1 DEF HandlerOK, At, Idle
<1>3. HandledOnce'
  BY <1>1, StaysAlone DEF Idle, IntakeOK
<1>4. ASSUME NEW f \in Events, event[f].processed, NEW j \in 1 .. Len(Content[f]),
             AheadInWebhook(f, j)
      PROVE  Kept(Content[f][j])' \/ AheadInWebhook(f, j)'
  <2>1. PICK k \in Handlers : /\ EventOf(k) = f
                              /\ Working(k)
                              /\ j > handler[k].i \/ (j = handler[k].i /\ ~At(k, "mark"))
    BY <1>4 DEF AheadInWebhook
  <2>2. CASE k = h
    <3>1. Content[f][j] \in LeadsOf(f) /\ Content[f][j] \in Leads
      BY ContentFacts DEF LeadsOf
    <3>2. row[Content[f][j]].status # "none" \/ Content[f][j] \in cut'
      BY <1>4, <2>1, <2>2, <3>1 DEF MarkFails, CutOff, Working
    <3> QED BY <3>2 DEF MarkFails, Kept
  <2>3. CASE k # h
    BY <1>1, <2>1, <2>3 DEF AheadInWebhook, Working, EventOf, At
  <2> QED BY <2>2, <2>3
<1>5. ASSUME NEW f \in Events PROVE EventOK(f)'
  BY <1>1, <1>4, EventKept DEF IntakeOK, EventOK
<1> QED BY <1>1, <1>2, <1>3, <1>5, HandleRest DEF IntakeOK

LEMMA PostOK ==
  ASSUME TypeOK, Next, IntakeOK, NEW h \in Handlers, NEW e \in Events, Post(h, e)
  PROVE  IntakeOK'
<1>1. /\ handler[h] = Idle
      /\ handler'[h] = [pc |-> "store", event |-> e, i |-> 1]
      /\ \A k \in Handlers : k # h => handler'[k] = handler[k]
      /\ event' = event /\ replay' = replay
  BY DEF Post, TypeOK
<1>2. HandlerOK(h)'
  BY <1>1, ContentFacts DEF HandlerOK, At, EventOf
<1>3. \A k \in Handlers : HandlerOK(k)'
  BY <1>1, <1>2, HandlerStays DEF IntakeOK
<1>4. ASSUME NEW f \in Events, NEW j \in 1 .. Len(Content[f]), AheadInWebhook(f, j)
      PROVE  AheadInWebhook(f, j)'
  <2>1. PICK k \in Handlers : /\ EventOf(k) = f
                              /\ Working(k)
                              /\ j > handler[k].i \/ (j = handler[k].i /\ ~At(k, "mark"))
    BY <1>4 DEF AheadInWebhook
  <2>2. k # h
    BY <1>1, <2>1 DEF Working, At, Idle
  <2> QED BY <1>1, <2>1, <2>2 DEF AheadInWebhook, Working, EventOf, At
<1>5. HandledOnce'
  BY <1>1, StaysAlone DEF IntakeOK
<1> QED BY <1>1, <1>3, <1>4, <1>5, EventsStay, ReplayStays DEF IntakeOK

\* Every request ends at once; the leads that a marked event had ahead are
\* noted in cut.
LEMMA CrashOK ==
  ASSUME TypeOK, Next, IntakeOK, CrashWebhook
  PROVE  IntakeOK'
<1>1. /\ \A h \in Handlers : handler'[h] = Idle
      /\ event' = event /\ replay' = replay
  BY DEF CrashWebhook
<1>2. \A h \in Handlers : HandlerOK(h)'
  BY <1>1 DEF HandlerOK, At, Idle
<1>3. HandledOnce'
  BY <1>1 DEF HandledOnce, Working, At, Idle
<1>4. ASSUME NEW f \in Events, event[f].processed, NEW j \in 1 .. Len(Content[f]),
             AheadInWebhook(f, j)
      PROVE  Kept(Content[f][j])'
  <2>1. PICK h \in Handlers : EventOf(h) = f /\ ~At(h, "idle")
    BY <1>4 DEF AheadInWebhook, Working
  <2>2. Content[f][j] \in LeadsOf(f) /\ Content[f][j] \in Leads
    BY ContentFacts DEF LeadsOf
  <2>3. row[Content[f][j]].status # "none" \/ Content[f][j] \in cut'
    BY <1>4, <2>1, <2>2 DEF CrashWebhook, CutOff
  <2> QED BY <2>3 DEF CrashWebhook, Kept
<1>5. ASSUME NEW f \in Events PROVE EventOK(f)'
  BY <1>1, <1>4, EventKept DEF IntakeOK, EventOK
<1> QED BY <1>1, <1>2, <1>3, <1>5, ReplayStays DEF IntakeOK

-----------------------------------------------------------------------------
(* Steps of the others *)

\* The requests do not move.
LEMMA WebhookStays ==
  ASSUME TypeOK, Next, IntakeOK, handler' = handler,
         \A e \in Events : event[e].stored => event'[e].stored
  PROVE  /\ \A h \in Handlers : HandlerOK(h)'
         /\ HandledOnce'
         /\ \A f \in Events : \A j \in 1 .. Len(Content[f]) :
              AheadInWebhook(f, j) => AheadInWebhook(f, j)'
<1>1. \A h \in Handlers : HandlerOK(h)'
  BY HandlerStays DEF IntakeOK
<1>2. HandledOnce'
  BY DEF IntakeOK, HandledOnce, Working, At, EventOf
<1>3. \A f \in Events : \A j \in 1 .. Len(Content[f]) :
        AheadInWebhook(f, j) => AheadInWebhook(f, j)'
  BY DEF AheadInWebhook, Working, At, EventOf
<1> QED BY <1>1, <1>2, <1>3

LEMMA OthersOK ==
  ASSUME TypeOK, Next, IntakeOK, UNCHANGED <<event, handler, replay>>
  PROVE  IntakeOK'
BY WebhookStays, EventsStay, ReplayStays DEF IntakeOK

LEMMA ReplayNextOK ==
  ASSUME NEW todo \in SUBSET Events, ReplayNext(todo)
  PROVE  ReplayOK'
<1>1. CASE todo = {}
  BY <1>1 DEF ReplayNext, ReplayOK
<1>2. CASE todo # {}
  <2>1. PICK e \in todo : replay' = [event |-> e, i |-> 1, todo |-> todo \ {e}]
    BY <1>2 DEF ReplayNext
  <2> QED BY <2>1, ContentFacts DEF ReplayOK
<1> QED BY <1>1, <1>2

LEMMA ReplayStepOK ==
  ASSUME TypeOK, Next, IntakeOK, ReplayStep
  PROVE  IntakeOK'
<1>1. handler' = handler
  BY DEF ReplayStep, ReplayStart, ReplaySave, ReplaySaveFails, ReplayFindsNobody,
         ReplayMark, ReplayThrows, CrashReplay
<1>2. Unprocessed \in SUBSET Events /\ replay.todo \in SUBSET Events
  BY DEF Unprocessed, TypeOK, Replay
<1>3. CASE ReplayStart \/ ReplayThrows \/ CrashReplay
  <2>1. event' = event
    BY <1>3 DEF ReplayStart, ReplayThrows, CrashReplay
  <2>2. ReplayOK'
    BY <1>2, <1>3, ReplayNextOK DEF ReplayStart, ReplayThrows, CrashReplay, ReplayOK
  <2> QED BY <1>1, <2>1, <2>2, WebhookStays, EventsStay DEF IntakeOK
<1>4. CASE ReplaySave \/ ReplaySaveFails \/ ReplayFindsNobody
  <2>1. event' = event /\ replay # NoReplay /\ replay' = [replay EXCEPT !.i = @ + 1]
    BY <1>4 DEF ReplaySave, ReplaySaveFails, ReplayFindsNobody, ReplayAtLead
  <2>2. PICK e \in Events, i \in Nat :
          /\ replay.event = e /\ replay.i = i
          /\ i \in 1 .. Len(Content[e]) /\ Content[e][i] \in Leads
          /\ ReplayLead = Content[e][i]
    <3>1. replay.i <= Len(Content[replay.event])
      BY <1>4 DEF ReplaySave, ReplaySaveFails, ReplayFindsNobody, ReplayAtLead
    <3> QED BY <2>1, <3>1, ContentFacts DEF TypeOK, ReplayLead
  <2>3. Kept(Content[e][i])'
    <3>1. CASE ReplaySave
      BY <2>2, <3>1, SavedIsKept DEF ReplaySave, Kept, TypeOK
    <3>2. CASE ReplaySaveFails \/ ReplayFindsNobody
      BY <2>2, <3>2 DEF ReplaySaveFails, ReplayFindsNobody, Kept
    <3> QED BY <1>4, <3>1, <3>2
  <2>4. ASSUME NEW j \in 1 .. Len(Content[e]), j < i + 1 PROVE Kept(Content[e][j])'
    <3>1. j < i \/ j = i
      BY <2>2, <2>4
    <3> QED BY <2>1, <2>2, <2>3, <3>1, EventKept DEF IntakeOK, ReplayOK
  <2>5. replay'.event = e /\ replay'.i = i + 1
    BY <2>1, <2>2 DEF TypeOK, Replay
  <2>6. ReplayOK'
    BY <2>4, <2>5 DEF ReplayOK
  <2> QED BY <1>1, <2>1, <2>6, WebhookStays, EventsStay DEF IntakeOK
<1>5. CASE ReplayMark
  <2>1. PICK e \in Events : replay.event = e
    BY <1>5 DEF ReplayMark, TypeOK
  <2>2. event' = [event EXCEPT ![e].processed = TRUE]
    BY <1>5, <2>1 DEF ReplayMark
  <2>3. /\ event'[e].stored = event[e].stored /\ event'[e].acked = event[e].acked
        /\ \A f \in Events : f # e => event'[f] = event[f]
    BY <2>2 DEF TypeOK, Event
  <2>4. ASSUME NEW j \in 1 .. Len(Content[e]) PROVE Kept(Content[e][j])'
    <3>1. replay # NoReplay /\ replay.i > Len(Content[e])
      BY <1>5, <2>1, ContentFacts DEF ReplayMark, ReplayAtLead, TypeOK
    <3>2. j < replay.i
      BY <2>1, <3>1, ContentFacts DEF TypeOK
    <3> QED BY <2>1, <3>1, <3>2, EventKept DEF IntakeOK, ReplayOK
  <2>5. /\ \A h \in Handlers : HandlerOK(h)'
        /\ HandledOnce'
        /\ \A f \in Events : \A j \in 1 .. Len(Content[f]) :
             AheadInWebhook(f, j) => AheadInWebhook(f, j)'
    <3>1. \A f \in Events : event[f].stored => event'[f].stored
      BY <2>3
    <3> QED BY <1>1, <3>1, WebhookStays
  <2>6. ASSUME NEW f \in Events PROVE EventOK(f)'
    <3>1. CASE f # e
      BY <2>3, <2>5, <3>1, EventStays DEF IntakeOK
    <3>2. CASE f = e
      BY <2>3, <2>4, <3>2 DEF IntakeOK, EventOK
    <3> QED BY <3>1, <3>2
  <2>7. ReplayOK'
    BY <1>2, <1>5, ReplayNextOK DEF ReplayMark
  <2> QED BY <2>5, <2>6, <2>7 DEF IntakeOK
<1> QED BY <1>3, <1>4, <1>5 DEF ReplayStep

LEMMA IntakeStep == TypeOK /\ IntakeOK /\ [Next]_vars => IntakeOK'
<1> SUFFICES ASSUME TypeOK, IntakeOK, [Next]_vars PROVE IntakeOK'
  OBVIOUS
<1>1. CASE UNCHANGED vars
  BY <1>1 DEF vars, IntakeOK, HandlerOK, ReplayOK, EventOK, HandledOnce, AheadInWebhook,
              Working, At, EventOf, Kept
<1>2. CASE Next
  <2>1. ASSUME NEW h \in Handlers, Handle(h) PROVE IntakeOK'
    BY <1>2, <2>1, StoreOK, EndsOK, AckOK, CheckRateOK, FindNobodyOK, SaveOK, MarkOK,
       MarkFailsOK
    DEF Handle
  <2>2. ASSUME NEW h \in Handlers, Facebook(h) PROVE IntakeOK'
    BY <1>2, <2>2, PostOK DEF Facebook
  <2>3. CASE UNCHANGED <<event, handler, replay>>
    BY <1>2, <2>3, OthersOK
  <2> QED BY <1>2, <2>1, <2>2, <2>3, CrashOK, ReplayStepOK
          DEF Next, Submit, MinuteEnds, PollStep, PollFetch, PollBreaksOff, CrashPoll, PollInsert,
              PollInsertFails, Process, TimePasses
<1> QED BY <1>1, <1>2

LEMMA IntakeAlways == Spec => []IntakeOK
<1>1. Init => IntakeOK
  <2> SUFFICES ASSUME Init PROVE IntakeOK
    OBVIOUS
  <2>1. \A h \in Handlers : At(h, "idle")
    BY DEF Init, At, Idle
  <2>2. \A e \in Events : ~event[e].acked /\ ~event[e].processed
    BY DEF Init, NewEvent
  <2> QED BY <2>1, <2>2 DEF Init, IntakeOK, HandlerOK, ReplayOK, EventOK, HandledOnce, Working
<1> QED BY <1>1, IntakeStep, IntakeTypeCorrect, PTL DEF Spec

\* The unique key of webhook_events makes one request the owner of an event:
\* no two process it, whatever the order of the posts.
THEOREM EventsHandledOnce == Spec => []HandledOnce
<1>1. IntakeOK => HandledOnce
  BY DEF IntakeOK
<1> QED BY <1>1, IntakeAlways, PTL

\* An acknowledged event is not forgotten before its leads are: each has a
\* row, or a replay will find the event, or a request has yet to come to the
\* lead, but for those left out on purpose, failing saves and crashes after
\* the mark.
THEOREM AcknowledgedIsKept == Spec => []AckedIsKept
<1>1. TypeOK /\ IntakeOK => AckedIsKept
  <2> SUFFICES ASSUME TypeOK, IntakeOK, NEW e \in Events, event[e].acked,
                      NEW j \in DOMAIN Content[e]
               PROVE  \/ Kept(Content[e][j])
                      \/ event[e].stored /\ ~event[e].processed
                      \/ AheadInWebhook(e, j)
    BY DEF AckedIsKept, Kept
  <2>1. j \in 1 .. Len(Content[e])
    BY ContentFacts
  <2> QED BY <2>1 DEF IntakeOK, EventOK
<1> QED BY <1>1, IntakeAlways, IntakeTypeCorrect, PTL

=============================================================================
