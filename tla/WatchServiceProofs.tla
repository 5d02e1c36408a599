------------------------ MODULE WatchServiceProofs ------------------------
(***************************************************************************)
(* For every set of users, events, requests and pollers: the cap is passed *)
(* by requests that met only, an event is fetched twice by requests that   *)
(* met only, an erased account leaves no watch, and a new watch is not     *)
(* passed over.                                                            *)
(***************************************************************************)
EXTENDS WatchService, FiniteSetTheorems, TLAPS

RequestRow == [stage: Stage, snap: Holding]
PollRow    == [pc: PC, event: Events, snap: Holding]

(* Type correctness, with what a type rests on: whatever is stored is an   *)
(* answer, and whatever refers to an event finds it stored.                *)
Base == TypeOK /\ HoldsAnswer /\ StoredFirst

LEMMA Names ==
  /\ {"resolve", "fetch", "upsert", "insert", "count", "markDue", "done", "unmarked",
      "refused", "failed"} \subseteq Stage
  /\ {"idle", "fetch", "update", "list", "close"} \subseteq PC
  /\ NoAnswer \in Holding /\ Answers \subseteq Holding
BY DEF Stage, Window, PC, Holding

LEMMA BaseInit == Init => Base
<1> SUFFICES ASSUME Init PROVE Base
  OBVIOUS
<1>1. event \in [Events -> EventRow]
  BY DEF Init, EventRow
<1>2. request \in [Requests -> RequestRow]
  BY Names DEF Init, RequestRow
<1>3. poll \in [Pollers -> PollRow]
  BY RequestsAssumption, Names DEF Init, Idle, PollRow
<1>4. TypeOK
  BY <1>1, <1>2, <1>3 DEF Init, TypeOK, RequestRow, PollRow
<1>5. HoldsAnswer /\ StoredFirst
  BY DEF Init, HoldsAnswer, StoredFirst, Idle
<1>6. QED
  BY <1>4, <1>5 DEF Base

\* A request that goes on to its next statement, the others staying where they are.
LEMMA GotoFacts ==
  ASSUME TypeOK, NEW q \in Requests, NEW from, NEW to \in Stage, NEW snap \in Holding,
         Goto(q, from, to, snap)
  PROVE  /\ request[q].stage = from
         /\ request' \in [Requests -> RequestRow]
         /\ request'[q] = [stage |-> to, snap |-> snap]
         /\ \A r \in Requests : r # q => request'[r] = request[r]
BY DEF Goto, TypeOK, RequestRow

LEMMA MoveFacts ==
  ASSUME TypeOK, NEW p \in Pollers, NEW from, NEW to \in PollRow, Move(p, from, to)
  PROVE  /\ poll[p].pc = from
         /\ poll' \in [Pollers -> PollRow]
         /\ poll'[p] = to
         /\ \A r \in Pollers : r # p => poll'[r] = poll[r]
BY DEF Move, TypeOK, PollRow

\* A row written by a statement of the code is a row, and stays stored.
LEMMA RowFacts ==
  ASSUME TypeOK, NEW e \in Events, NEW a \in Answers
  PROVE  /\ Upserted(event[e], a) \in EventRow /\ Upserted(event[e], a).stored
         /\ [stored |-> TRUE, avail |-> a, due |-> FALSE] \in EventRow
         /\ event[e].stored => Marked(event[e]) \in EventRow /\ Marked(event[e]).stored
<1>1. event[e] \in EventRow
  BY DEF TypeOK
<1>2. event[e].due \in BOOLEAN /\ event[e].stored \in BOOLEAN
  <2>1. CASE event[e] = NoEvent
    BY <2>1 DEF NoEvent
  <2>2. CASE event[e] \in [stored: {TRUE}, avail: Answers, due: BOOLEAN]
    BY <2>2
  <2>3. QED
    BY <1>1, <2>1, <2>2 DEF EventRow
<1>3. Upserted(event[e], a) \in EventRow /\ Upserted(event[e], a).stored
  BY <1>2 DEF Upserted, EventRow
<1>4. ASSUME event[e].stored
      PROVE  Marked(event[e]) \in EventRow /\ Marked(event[e]).stored
  <2>1. event[e] \in [stored: {TRUE}, avail: Answers, due: BOOLEAN]
    <3>1. event[e] # NoEvent
      BY <1>4 DEF NoEvent
    <3>2. QED
      BY <1>1, <3>1 DEF EventRow
  <2>2. \A row \in [stored: {TRUE}, avail: Answers, due: BOOLEAN] :
          Marked(row) \in EventRow /\ Marked(row).stored
    BY DEF Marked, EventRow
  <2>3. QED
    BY <2>1, <2>2
<1>5. [stored |-> TRUE, avail |-> a, due |-> FALSE] \in EventRow
  BY DEF EventRow
<1>6. QED
  BY <1>3, <1>4, <1>5

\* The two other parts of Base, when a request goes on and no poll moves.
LEMMA KeptByRequest ==
  ASSUME Base, NEW q \in Requests, NEW from, NEW to \in Stage, NEW snap \in Holding,
         Goto(q, from, to, snap), poll' = poll,
         \A e \in Events : event[e].stored => event'[e].stored,
         to = "upsert" => snap \in Answers,
         to \in {"insert", "markDue"} => event'[For[q]].stored,
         \A r \in storers' : r \in storers \/ (r = q /\ event'[For[q]].stored)
  PROVE  HoldsAnswer' /\ StoredFirst'
<1>1. /\ request'[q] = [stage |-> to, snap |-> snap]
      /\ \A r \in Requests : r # q => request'[r] = request[r]
  BY GotoFacts DEF Base
<1>2. \A r \in Requests : For[r] \in Events
  BY RequestsAssumption
<1>3. storers \subseteq Requests
  BY DEF Base, TypeOK
<1>4. HoldsAnswer'
  BY <1>1 DEF Base, HoldsAnswer
<1>5. ASSUME NEW r \in Requests, request'[r].stage \in {"insert", "markDue"}
      PROVE  event'[For[r]].stored
  <2>1. CASE r = q
    BY <1>1, <1>5, <2>1
  <2>2. CASE r # q
    BY <1>1, <1>2, <1>5, <2>2 DEF Base, StoredFirst
  <2>3. QED
    BY <2>1, <2>2
<1>6. ASSUME NEW r \in storers'
      PROVE  event'[For[r]].stored
  <2>1. CASE r \in storers
    BY <1>2, <1>3, <2>1 DEF Base, StoredFirst
  <2>2. QED
    BY <1>6, <2>1
<1>7. StoredFirst'
  BY <1>5, <1>6 DEF StoredFirst
<1>8. QED
  BY <1>4, <1>7

LEMMA BaseCreate ==
  ASSUME Base, NEW q \in Requests, Create(q)
  PROVE  Base'
<1>0. TypeOK /\ For[q] \in Events
  BY RequestsAssumption DEF Base
<1>1. CASE CountPasses(q)
  <2>1. met' \subseteq Requests \X Requests
    BY <1>0, <1>1 DEF CountPasses, TypeOK
  <2>2. Goto(q, "count", "resolve", NoAnswer)
    BY <1>1 DEF CountPasses
  <2>3. request' \in [Requests -> RequestRow]
    BY <1>0, <2>2, Names, GotoFacts
  <2>4. TypeOK'
    BY <1>0, <1>1, <2>1, <2>3 DEF CountPasses, rows, TypeOK, RequestRow
  <2>5. HoldsAnswer' /\ StoredFirst'
    BY <1>1, <2>2, Names, KeptByRequest DEF CountPasses, rows
  <2>6. QED
    BY <2>4, <2>5 DEF Base
<1>2. ASSUME NEW to \in {"refused", "insert", "fetch", "unmarked", "failed"}, NEW from,
             Goto(q, from, to, NoAnswer),
             to = "insert" => event[For[q]].stored,
             UNCHANGED <<upstream, rows, poll, ghosts>>
      PROVE  Base'
  <2>1. request' \in [Requests -> RequestRow]
    BY <1>0, <1>2, Names, GotoFacts
  <2>2. TypeOK'
    BY <1>0, <1>2, <2>1 DEF rows, ghosts, TypeOK, RequestRow
  <2>3. HoldsAnswer' /\ StoredFirst'
    <3>1. event' = event /\ storers' = storers /\ poll' = poll
      BY <1>2 DEF rows, ghosts
    <3>2. to \in Stage /\ to # "upsert" /\ to # "markDue" /\ NoAnswer \in Holding
      BY <1>2, Names
    <3>3. QED
      BY <1>2, <3>1, <3>2, KeptByRequest
  <2>4. QED
    BY <2>2, <2>3 DEF Base
<1>3. CASE CountRefuses(q)
  BY <1>2, <1>3 DEF CountRefuses
<1>4. CASE Resolve(q)
  BY <1>2, <1>4 DEF Resolve, Stored
<1>5. CASE MarkDueFails(q) \/ Fail(q)
  BY <1>2, <1>5 DEF MarkDueFails, Fail
<1>6. CASE FetchUnknown(q)
  <2>1. upstream[For[q]] \in Answers
    BY <1>0 DEF TypeOK
  <2>2. Goto(q, "fetch", "upsert", upstream[For[q]])
    BY <1>6 DEF FetchUnknown
  <2>3. upstream[For[q]] \in Holding /\ "upsert" \in Stage
    BY <2>1, Names
  <2>4. request' \in [Requests -> RequestRow]
    BY <1>0, <2>2, <2>3, GotoFacts
  <2>5. TypeOK'
    BY <1>0, <1>6, <2>4 DEF FetchUnknown, rows, ghosts, TypeOK, RequestRow
  <2>6. event' = event /\ storers' = storers /\ poll' = poll
    BY <1>6 DEF FetchUnknown, rows, ghosts
  <2>7. HoldsAnswer' /\ StoredFirst'
    BY <2>1, <2>2, <2>3, <2>6, KeptByRequest
  <2>8. QED
    BY <2>5, <2>7 DEF Base
<1>7. CASE UpsertEventByTMID(q)
  <2>1. Goto(q, "upsert", "insert", NoAnswer)
    BY <1>7 DEF UpsertEventByTMID
  <2>2. request[q].snap \in Answers
    BY <2>1 DEF Base, HoldsAnswer, Goto
  <2>3. event' \in [Events -> EventRow]
        /\ (\A e \in Events : event[e].stored => event'[e].stored)
        /\ event'[For[q]].stored
    BY <1>0, <1>7, <2>2, RowFacts DEF UpsertEventByTMID, TypeOK
  <2>4. request' \in [Requests -> RequestRow]
    BY <1>0, <2>1, Names, GotoFacts
  <2>5. TypeOK'
    BY <1>0, <1>7, <2>3, <2>4 DEF UpsertEventByTMID, TypeOK, RequestRow
  <2>6. poll' = poll /\ storers' = storers \cup {q}
    BY <1>7 DEF UpsertEventByTMID
  <2>7. HoldsAnswer' /\ StoredFirst'
    BY <2>1, <2>3, <2>6, Names, KeptByRequest
  <2>8. QED
    BY <2>5, <2>7 DEF Base
<1>8. CASE CreateWatch(q)
  <2>1. Goto(q, "insert", "markDue", NoAnswer)
    BY <1>8 DEF CreateWatch
  <2>2. event[For[q]].stored
    BY <2>1 DEF Base, StoredFirst, Goto
  <2>3. request' \in [Requests -> RequestRow]
    BY <1>0, <2>1, Names, GotoFacts
  <2>4. TypeOK'
    BY <1>0, <1>8, <2>3 DEF CreateWatch, TypeOK, RequestRow
  <2>5. poll' = poll /\ storers' = storers /\ event' = event
    BY <1>8 DEF CreateWatch
  <2>6. HoldsAnswer' /\ StoredFirst'
    BY <2>1, <2>2, <2>5, Names, KeptByRequest
  <2>7. QED
    BY <2>4, <2>6 DEF Base
<1>9. CASE MarkEventDue(q)
  <2>1. Goto(q, "markDue", "done", NoAnswer)
    BY <1>9 DEF MarkEventDue
  <2>2. event[For[q]].stored
    BY <2>1 DEF Base, StoredFirst, Goto
  <2>3. PICK a \in Answers : TRUE
    BY <1>0, <2>2 DEF TypeOK, EventRow, NoEvent
  <2>4. event' \in [Events -> EventRow]
        /\ \A e \in Events : event[e].stored => event'[e].stored
    BY <1>0, <1>9, <2>2, <2>3, RowFacts DEF MarkEventDue, TypeOK
  <2>5. request' \in [Requests -> RequestRow]
    BY <1>0, <2>1, Names, GotoFacts
  <2>6. TypeOK'
    BY <1>0, <1>9, <2>4, <2>5 DEF MarkEventDue, ghosts, TypeOK, RequestRow
  <2>7. poll' = poll /\ storers' = storers
    BY <1>9 DEF MarkEventDue, ghosts
  <2>8. HoldsAnswer' /\ StoredFirst'
    BY <2>1, <2>4, <2>7, Names, KeptByRequest
  <2>9. QED
    BY <2>6, <2>8 DEF Base
<1>10. QED
  BY <1>1, <1>3, <1>4, <1>5, <1>6, <1>7, <1>8, <1>9 DEF Create

LEMMA BaseUser ==
  ASSUME Base, \/ \E q \in Requests : Pause(q) \/ Resume(q) \/ Delete(q)
               \/ \E u \in Users : Erase(u)
  PROVE  Base'
<1>1. ASSUME NEW q \in Requests, NEW from \in {"active", "paused"},
             NEW to \in {"active", "paused", "deleted"}, SetStatus(q, from, to)
      PROVE  Base'
  <2>1. TypeOK'
    BY <1>1 DEF SetStatus, Base, TypeOK
  <2>2. QED
    BY <1>1, <2>1 DEF SetStatus, Base, HoldsAnswer, StoredFirst
<1>2. ASSUME NEW u \in Users, Erase(u)
      PROVE  Base'
  <2>1. TypeOK'
    BY <1>2 DEF Erase, Base, TypeOK
  <2>2. QED
    BY <1>2, <2>1 DEF Erase, Base, HoldsAnswer, StoredFirst
<1>3. QED
  BY <1>1, <1>2 DEF Pause, Resume, Delete

\* The two other parts of Base, when a poller moves and no request does.
LEMMA KeptByPoll ==
  ASSUME Base, NEW p \in Pollers, NEW from, NEW to \in PollRow, Move(p, from, to),
         request' = request, storers' = storers,
         \A e \in Events : event[e].stored => event'[e].stored,
         to.pc = "update" => to.snap \in Answers
  PROVE  HoldsAnswer' /\ StoredFirst'
<1>1. poll'[p] = to /\ \A r \in Pollers : r # p => poll'[r] = poll[r]
  BY MoveFacts DEF Base
<1>2. \A r \in Requests : For[r] \in Events
  BY RequestsAssumption
<1>3. HoldsAnswer'
  BY <1>1 DEF Base, HoldsAnswer
<1>4. StoredFirst'
  BY <1>2 DEF Base, StoredFirst, TypeOK
<1>5. QED
  BY <1>3, <1>4

LEMMA IdleTyped == Idle \in PollRow /\ Idle.pc = "idle"
BY RequestsAssumption, Names DEF Idle, PollRow

LEMMA BasePoll ==
  ASSUME Base, NEW p \in Pollers,
         Poll(p) \/ PollFails(p) \/ \E e \in Events : Dispatch(p, e)
  PROVE  Base'
<1>0. TypeOK /\ poll[p] \in PollRow /\ poll[p].event \in Events
  BY DEF Base, TypeOK, PollRow
<1>1. ASSUME NEW e \in Events, Dispatch(p, e)
      PROVE  Base'
  <2>1. [Idle EXCEPT !.pc = "fetch", !.event = e] \in PollRow
        /\ [Idle EXCEPT !.pc = "fetch", !.event = e].pc = "fetch"
    BY IdleTyped, Names DEF Idle, PollRow
  <2>2. Move(p, "idle", [Idle EXCEPT !.pc = "fetch", !.event = e])
    BY <1>1 DEF Dispatch
  <2>3. poll' \in [Pollers -> PollRow]
    BY <1>0, <2>1, <2>2, MoveFacts
  <2>4. TypeOK'
    BY <1>0, <1>1, <2>3 DEF Dispatch, rows, ghosts, TypeOK, PollRow
  <2>5. HoldsAnswer' /\ StoredFirst'
    BY <1>1, <2>1, <2>2, KeptByPoll DEF Dispatch, rows, ghosts
  <2>6. QED
    BY <2>4, <2>5 DEF Base
<1>2. CASE PollFetch(p)
  <2> DEFINE to == [poll[p] EXCEPT !.pc = "update", !.snap = upstream[poll[p].event]]
  <2>1. upstream[poll[p].event] \in Answers
    BY <1>0 DEF TypeOK
  <2>2. to \in PollRow /\ to.snap \in Answers
    BY <1>0, <2>1, Names DEF PollRow
  <2>3. Move(p, "fetch", to)
    BY <1>2 DEF PollFetch
  <2>4. poll' \in [Pollers -> PollRow]
    BY <1>0, <2>2, <2>3, MoveFacts
  <2>5. TypeOK'
    BY <1>0, <1>2, <2>4 DEF PollFetch, rows, ghosts, TypeOK, PollRow
  <2>6. event' = event /\ request' = request /\ storers' = storers
    BY <1>2 DEF PollFetch, rows, ghosts
  <2>7. HoldsAnswer' /\ StoredFirst'
    <3> HIDE DEF to
    <3>1. QED
      BY <2>2, <2>3, <2>6, KeptByPoll
  <2>8. QED
    BY <2>5, <2>7 DEF Base
<1>3. CASE UpdateEventLatest(p)
  <2> DEFINE to == [poll[p] EXCEPT !.pc = "list"]
  <2>1. poll[p].snap \in Answers
    BY <1>3 DEF UpdateEventLatest, Move, Base, HoldsAnswer
  <2>2. to \in PollRow /\ to.pc = "list"
    BY <1>0, Names DEF PollRow
  <2>3. Move(p, "update", to)
    BY <1>3 DEF UpdateEventLatest
  <2>4. poll' \in [Pollers -> PollRow]
    BY <1>0, <2>2, <2>3, MoveFacts
  <2>5. [stored |-> TRUE, avail |-> poll[p].snap, due |-> FALSE] \in EventRow
    BY <2>1 DEF EventRow
  <2>6. event' \in [Events -> EventRow]
        /\ \A e \in Events : event[e].stored => event'[e].stored
    BY <1>0, <1>3, <2>5 DEF UpdateEventLatest, TypeOK
  <2>7. TypeOK'
    BY <1>0, <1>3, <2>4, <2>6 DEF UpdateEventLatest, ghosts, TypeOK, PollRow
  <2>8. request' = request /\ storers' = storers
    BY <1>3 DEF UpdateEventLatest, ghosts
  <2>9. HoldsAnswer' /\ StoredFirst'
    <3> HIDE DEF to
    <3>1. QED
      BY <2>2, <2>3, <2>6, <2>8, KeptByPoll
  <2>10. QED
    BY <2>7, <2>9 DEF Base
<1>4. CASE ListAndEvaluate(p)
  <2> DEFINE to == IF poll[p].snap = "cancelled" /\ ActiveOn(poll[p].event) # {}
                     THEN [poll[p] EXCEPT !.pc = "close"] ELSE Idle
  <2>1. to \in PollRow /\ to.pc # "update"
    BY <1>0, IdleTyped, Names DEF PollRow
  <2>2. Move(p, "list", to)
    BY <1>4 DEF ListAndEvaluate
  <2>3. poll' \in [Pollers -> PollRow]
    BY <1>0, <2>1, <2>2, MoveFacts
  <2>4. TypeOK'
    BY <1>0, <1>4, <2>3 DEF ListAndEvaluate, rows, TypeOK, PollRow
  <2>5. event' = event /\ request' = request /\ storers' = storers
    BY <1>4 DEF ListAndEvaluate, rows
  <2>6. HoldsAnswer' /\ StoredFirst'
    <3> HIDE DEF to
    <3>1. QED
      BY <2>1, <2>2, <2>5, KeptByPoll
  <2>7. QED
    BY <2>4, <2>6 DEF Base
<1>5. CASE CloseWatches(p)
  <2>1. Move(p, "close", Idle)
    BY <1>5 DEF CloseWatches
  <2>2. poll' \in [Pollers -> PollRow]
    BY <1>0, <2>1, IdleTyped, MoveFacts
  <2>3. TypeOK'
    BY <1>0, <1>5, <2>2 DEF CloseWatches, ghosts, TypeOK, PollRow
  <2>4. event' = event /\ request' = request /\ storers' = storers
    BY <1>5 DEF CloseWatches, ghosts
  <2>5. HoldsAnswer' /\ StoredFirst'
    BY <2>1, <2>4, IdleTyped, KeptByPoll
  <2>6. QED
    BY <2>3, <2>5 DEF Base
<1>6. CASE PollFails(p)
  <2>1. Move(p, poll[p].pc, Idle)
    BY <1>6 DEF PollFails, Move
  <2>2. poll' \in [Pollers -> PollRow]
    BY <1>0, <2>1, IdleTyped, MoveFacts
  <2>3. TypeOK'
    BY <1>0, <1>6, <2>2 DEF PollFails, rows, TypeOK, PollRow
  <2>4. event' = event /\ request' = request /\ storers' = storers
    BY <1>6 DEF PollFails, rows
  <2>5. HoldsAnswer' /\ StoredFirst'
    BY <2>1, <2>4, IdleTyped, KeptByPoll
  <2>6. QED
    BY <2>3, <2>5 DEF Base
<1>7. QED
  BY <1>1, <1>2, <1>3, <1>4, <1>5, <1>6 DEF Poll

LEMMA BaseOutside ==
  ASSUME Base, NEW e \in Events, Upstream(e) \/ IntervalElapses(e)
  PROVE  Base'
<1>1. CASE Upstream(e)
  <2>1. TypeOK'
    BY <1>1 DEF Upstream, rows, ghosts, Base, TypeOK
  <2>2. QED
    BY <1>1, <2>1 DEF Upstream, rows, ghosts, Base, HoldsAnswer, StoredFirst
<1>2. CASE IntervalElapses(e)
  <2>1. PICK a \in Answers : TRUE
    BY <1>2 DEF IntervalElapses, Base, TypeOK, EventRow, NoEvent
  <2>2. event' = [event EXCEPT ![e] = Marked(@)]
    BY <1>2 DEF IntervalElapses, Marked
  <2>3. event' \in [Events -> EventRow]
        /\ \A f \in Events : event[f].stored => event'[f].stored
    BY <1>2, <2>1, <2>2, RowFacts DEF IntervalElapses, Base, TypeOK
  <2>4. TypeOK'
    BY <1>2, <2>3 DEF IntervalElapses, ghosts, Base, TypeOK
  <2>5. storers \subseteq Requests /\ \A r \in Requests : For[r] \in Events
    BY RequestsAssumption DEF Base, TypeOK
  <2>6. StoredFirst'
    BY <1>2, <2>3, <2>5 DEF IntervalElapses, ghosts, Base, StoredFirst
  <2>7. QED
    BY <1>2, <2>4, <2>6 DEF IntervalElapses, Base, HoldsAnswer
<1>3. QED
  BY <1>1, <1>2

LEMMA BaseStep == Base /\ [Next]_vars => Base'
<1> SUFFICES ASSUME Base, [Next]_vars PROVE Base'
  OBVIOUS
<1>1. CASE Next
  BY <1>1, BaseCreate, BaseUser, BasePoll, BaseOutside DEF Next
<1>2. CASE UNCHANGED vars
  BY <1>2 DEF vars, rows, ghosts, Base, TypeOK, HoldsAnswer, StoredFirst
<1>3. QED
  BY <1>1, <1>2

LEMMA BaseHolds == Spec => []Base
<1>1. QED
  BY BaseInit, BaseStep, PTL DEF Spec

(* Every reachable state of the watch service is well typed: in            *)
(* particular a stored event always carries an answer of Ticketmaster.     *)
THEOREM TypeCorrect == Spec => []TypeOK
<1>1. Base => TypeOK
  BY DEF Base
<1>2. QED
  BY <1>1, BaseHolds, PTL

-----------------------------------------------------------------------------
(* How the steps touch what the properties speak of. *)
UserOp == \/ \E q \in Requests : Pause(q) \/ Resume(q) \/ Delete(q)
          \/ \E u \in Users : Erase(u)
PollOp == \/ \E p \in Pollers : Poll(p) \/ PollFails(p) \/ \E e \in Events : Dispatch(p, e)
          \/ \E e \in Events : Upstream(e) \/ IntervalElapses(e)

LEMMA NextCases == Next => (\E q \in Requests : Create(q)) \/ UserOp \/ PollOp
BY DEF Next, UserOp, PollOp

\* Only Create brings a watch into being, and only Create moves a request.
LEMMA NoNewWatch ==
  ASSUME UserOp \/ PollOp, TypeOK
  PROVE  /\ \A q \in Requests : Exists(q)' => Exists(q)
         /\ fresh' \subseteq fresh
         /\ UNCHANGED <<request, met, storers>>
<1>1. ASSUME NEW q \in Requests, NEW from \in {"active", "paused"},
             NEW to \in {"active", "paused", "deleted"}, SetStatus(q, from, to)
      PROVE  /\ \A r \in Requests : Exists(r)' => Exists(r)
             /\ fresh' \subseteq fresh
             /\ UNCHANGED <<request, met, storers>>
  BY <1>1 DEF SetStatus, Exists, TypeOK
<1>2. CASE \E q \in Requests : Pause(q) \/ Resume(q) \/ Delete(q)
  BY <1>1, <1>2 DEF Pause, Resume, Delete
<1>3. ASSUME NEW u \in Users, Erase(u)
      PROVE  /\ \A r \in Requests : Exists(r)' => Exists(r)
             /\ fresh' \subseteq fresh
             /\ UNCHANGED <<request, met, storers>>
  BY <1>3 DEF Erase, Exists
<1>4. ASSUME NEW p \in Pollers, Poll(p) \/ PollFails(p) \/ \E e \in Events : Dispatch(p, e)
      PROVE  /\ \A r \in Requests : Exists(r)' => Exists(r)
             /\ fresh' \subseteq fresh
             /\ UNCHANGED <<request, met, storers>>
  <2>1. CASE CloseWatches(p)
    BY <2>1 DEF CloseWatches, ActiveOn, ghosts, Exists
  <2>2. CASE PollFetch(p) \/ UpdateEventLatest(p) \/ ListAndEvaluate(p)
    BY <2>2 DEF PollFetch, UpdateEventLatest, ListAndEvaluate, rows, ghosts, Exists
  <2>3. CASE PollFails(p) \/ \E e \in Events : Dispatch(p, e)
    BY <2>3 DEF PollFails, Dispatch, rows, ghosts, Exists
  <2>4. QED
    BY <1>4, <2>1, <2>2, <2>3 DEF Poll
<1>5. ASSUME NEW e \in Events, Upstream(e) \/ IntervalElapses(e)
      PROVE  /\ \A r \in Requests : Exists(r)' => Exists(r)
             /\ fresh' \subseteq fresh
             /\ UNCHANGED <<request, met, storers>>
  BY <1>5 DEF Upstream, IntervalElapses, rows, ghosts, Exists
<1>6. QED
  BY <1>2, <1>3, <1>4, <1>5 DEF UserOp, PollOp

\* The effect of a step of Create on the windows: one request may enter, having
\* been counted and met with those inside; one may leave; a watch is inserted
\* by a request that was inside.
LEMMA CreateEffect ==
  ASSUME TypeOK, NEW q \in Requests, Create(q)
  PROVE  /\ \A r \in Requests : r # q => InWindow(r)' = InWindow(r) /\ Exists(r)' = Exists(r)
         /\ met \subseteq met'
         /\ InWindow(q)' /\ ~InWindow(q) =>
              /\ ~AtCap(Cardinality(WatchesOf(By[q])))
              /\ \A r \in Requests : InWindow(r) => Met(q, r)' /\ Met(r, q)'
         /\ Exists(q)' /\ ~Exists(q) => InWindow(q)
<1>1. \A r \in Requests : r # q => request'[r] = request[r]
  BY DEF Create, CountPasses, CountRefuses, Resolve, FetchUnknown, UpsertEventByTMID,
         CreateWatch, MarkEventDue, MarkDueFails, Fail, Goto, TypeOK
<1>2. \A r \in Requests : r # q => InWindow(r)' = InWindow(r)
  BY <1>1 DEF InWindow
<1>3. CASE CreateWatch(q)
  <2>1. \A r \in Requests : r # q => Exists(r)' = Exists(r)
    BY <1>3 DEF CreateWatch, Exists, TypeOK
  <2>2. InWindow(q)
    BY <1>3 DEF CreateWatch, Goto, InWindow, Window
  <2>3. met' = met
    BY <1>3 DEF CreateWatch
  <2>4. QED
    BY <1>2, <2>1, <2>2, <2>3
<1>4. CASE CountPasses(q)
  <2>1. \A r \in Requests : Exists(r)' = Exists(r)
    BY <1>4 DEF CountPasses, rows, Exists
  <2>2. \A r \in Requests : InWindow(r) => <<q, r>> \in met' /\ <<r, q>> \in met'
    BY <1>4 DEF CountPasses
  <2>3. met \subseteq met' /\ ~AtCap(Cardinality(WatchesOf(By[q])))
    BY <1>4 DEF CountPasses
  <2>4. QED
    BY <1>2, <2>1, <2>2, <2>3 DEF Met
<1>5. CASE ~CreateWatch(q) /\ ~CountPasses(q)
  <2>1. watch' = watch /\ met' = met
    BY <1>5 DEF Create, CountRefuses, Resolve, FetchUnknown, UpsertEventByTMID,
                MarkEventDue, MarkDueFails, Fail, rows, ghosts
  <2>2. InWindow(q)' => InWindow(q)
    BY <1>5 DEF Create, CountRefuses, Resolve, FetchUnknown, UpsertEventByTMID,
                MarkEventDue, MarkDueFails, Fail, Goto, InWindow, Window, TypeOK
  <2>3. QED
    BY <1>2, <2>1, <2>2 DEF Exists
<1>6. QED
  BY <1>3, <1>4, <1>5

-----------------------------------------------------------------------------
(* The cap. *)
LEMMA WindowsMeetInit == Init => WindowsMeet
BY DEF Init, WindowsMeet, InWindow, Window

LEMMA WindowsMeetStep == TypeOK /\ WindowsMeet /\ [Next]_vars => WindowsMeet'
<1> SUFFICES ASSUME TypeOK, WindowsMeet, [Next]_vars,
                    NEW q \in Requests, NEW r \in Requests, q # r,
                    InWindow(q)', InWindow(r)'
             PROVE  Met(q, r)'
  BY DEF WindowsMeet
<1>1. ASSUME NEW c \in Requests, Create(c)
      PROVE  Met(q, r)'
  <2>1. InWindow(q) /\ InWindow(r) => Met(q, r)'
    BY <1>1, CreateEffect DEF WindowsMeet, Met
  <2>2. InWindow(q) \/ q = c
    BY <1>1, CreateEffect
  <2>3. InWindow(r) \/ r = c
    BY <1>1, CreateEffect
  <2>4. QED
    BY <1>1, <2>1, <2>2, <2>3, CreateEffect
<1>2. CASE UserOp \/ PollOp \/ UNCHANGED vars
  <2>1. request' = request /\ met' = met
    BY <1>2, NoNewWatch DEF vars, ghosts
  <2>2. QED
    BY <2>1 DEF WindowsMeet, InWindow, Met
<1>3. QED
  BY <1>1, <1>2, NextCases

LEMMA CapInit == Init => CapInv
<1> SUFFICES ASSUME Init, MaxPerUser > 0, NEW u \in Users, NEW S \in SUBSET Places(u)
             PROVE  Cardinality(S) <= MaxPerUser
  BY DEF CapInv
<1>1. S = {}
  BY DEF Init, Places, Exists, InWindow, Window
<1>2. QED
  BY <1>1, FS_EmptySet, BoundsAssumption

LEMMA CapStep == TypeOK /\ WindowsMeet /\ CapInv /\ [Next]_vars => CapInv'
<1> SUFFICES ASSUME TypeOK, WindowsMeet, CapInv, [Next]_vars, MaxPerUser > 0,
                    NEW u \in Users, NEW S \in SUBSET Places(u)', Unmet(S)'
             PROVE  Cardinality(S) <= MaxPerUser
  BY DEF CapInv
<1>0. S \subseteq Requests
  BY DEF Places
\* Nobody takes a new place.
<1>1. ASSUME S \subseteq Places(u), met \subseteq met'
      PROVE  Cardinality(S) <= MaxPerUser
  <2>1. Unmet(S)
    BY <1>1 DEF Unmet, Met
  <2>2. QED
    BY <1>1, <2>1 DEF CapInv
<1>2. ASSUME NEW q \in Requests, Create(q)
      PROVE  Cardinality(S) <= MaxPerUser
  <2>1. S \ {q} \subseteq Places(u)
    BY <1>2, <1>0, CreateEffect DEF Places
  <2>2. CASE q \notin S \/ q \in Places(u)
    BY <1>1, <1>2, <2>1, <2>2, CreateEffect
  <2>3. CASE q \in S /\ q \notin Places(u)
    <3>1. By[q] = u /\ InWindow(q)' /\ ~InWindow(q)
      BY <1>2, <2>3, CreateEffect DEF Places
    <3>2. ~AtCap(Cardinality(WatchesOf(u)))
      BY <1>2, <3>1, CreateEffect
    \* Whoever is in the window met q; so the rest of S has its watches already.
    <3>3. \A r \in S \ {q} : ~InWindow(r)
      BY <1>0, <1>2, <2>3, <3>1, CreateEffect DEF Unmet
    <3>4. S \ {q} \subseteq WatchesOf(u)
      BY <2>1, <3>3 DEF Places, WatchesOf
    <3>5. IsFiniteSet(WatchesOf(u))
      BY RequestsAssumption, FS_Subset DEF WatchesOf
    <3>6. IsFiniteSet(S \ {q}) /\ Cardinality(S \ {q}) <= Cardinality(WatchesOf(u))
      BY <3>4, <3>5, FS_Subset
    <3>7. Cardinality(WatchesOf(u)) \in Nat /\ Cardinality(S \ {q}) \in Nat
      BY <3>5, <3>6, FS_CardinalityType
    <3>8. Cardinality(WatchesOf(u)) < MaxPerUser
      BY <3>2, <3>7, BoundsAssumption DEF AtCap
    <3>9. Cardinality((S \ {q}) \cup {q}) = Cardinality(S \ {q}) + 1
      BY <3>6, FS_AddElement
    <3>10. (S \ {q}) \cup {q} = S
      BY <2>3
    <3>11. QED
      BY <3>6, <3>7, <3>8, <3>9, <3>10, BoundsAssumption
  <2>4. QED
    BY <2>2, <2>3
<1>3. CASE UserOp \/ PollOp
  BY <1>0, <1>1, <1>3, NoNewWatch DEF Places, InWindow
<1>4. CASE UNCHANGED vars
  BY <1>1, <1>4 DEF vars, rows, ghosts, Places, Exists, InWindow
<1>5. QED
  BY <1>2, <1>3, <1>4, NextCases

(* Requests that overlap may together pass the cap on watches; watches no  *)
(* two of which were being created at the same time never exceed it, for   *)
(* any cap, users, requests and interleaving (watch.go:173-182).           *)
THEOREM CapHolds == Spec => []CapUnlessMet
<1>1. CapInv => CapUnlessMet
  BY DEF CapInv, CapUnlessMet, Places, WatchesOf
<1>2. Init => WindowsMeet /\ CapInv
  BY WindowsMeetInit, CapInit
<1>3. TypeOK /\ (WindowsMeet /\ CapInv) /\ [Next]_vars => (WindowsMeet /\ CapInv)'
  BY WindowsMeetStep, CapStep
<1>4. QED
  BY <1>1, <1>2, <1>3, TypeCorrect, PTL DEF Spec

-----------------------------------------------------------------------------
(* Erasure. *)
LEMMA OnlyEraseCloses ==
  ASSUME [Next]_vars, NEW u \in Users, account[u], ~account'[u]
  PROVE  Erase(u)
<1>1. ASSUME NEW q \in Requests, Create(q) PROVE account' = account
  BY <1>1 DEF Create, CountPasses, CountRefuses, Resolve, FetchUnknown, UpsertEventByTMID,
              CreateWatch, MarkEventDue, MarkDueFails, Fail, rows
<1>2. ASSUME NEW p \in Pollers, Poll(p) \/ PollFails(p) \/ \E e \in Events : Dispatch(p, e)
      PROVE  account' = account
  BY <1>2 DEF Poll, PollFetch, UpdateEventLatest, ListAndEvaluate, CloseWatches, PollFails,
              Dispatch, rows
<1>3. ASSUME NEW e \in Events, Upstream(e) \/ IntervalElapses(e)
      PROVE  account' = account
  BY <1>3 DEF Upstream, IntervalElapses, rows
<1>4. ASSUME NEW q \in Requests, Pause(q) \/ Resume(q) \/ Delete(q)
      PROVE  account' = account
  BY <1>4 DEF Pause, Resume, Delete, SetStatus
<1>5. ASSUME NEW v \in Users, Erase(v) PROVE v = u
  BY <1>5 DEF Erase
<1>6. account' # account
  OBVIOUS
<1>7. Next
  BY <1>6 DEF vars, rows
<1>8. QED
  BY <1>1, <1>2, <1>3, <1>4, <1>5, <1>6, <1>7 DEF Next

LEMMA StaysStored ==
  ASSUME Base, [Next]_vars, NEW e \in Events, event[e].stored
  PROVE  event'[e].stored
<1>1. ASSUME NEW q \in Requests, Create(q)
      PROVE  event'[e].stored
  <2>1. CASE UpsertEventByTMID(q)
    BY <2>1 DEF UpsertEventByTMID, Upserted, Base, TypeOK
  <2>2. CASE MarkEventDue(q)
    BY <2>2 DEF MarkEventDue, Marked, Base, TypeOK
  <2>3. CASE ~UpsertEventByTMID(q) /\ ~MarkEventDue(q)
    BY <1>1, <2>3 DEF Create, CountPasses, CountRefuses, Resolve, FetchUnknown,
                      CreateWatch, MarkDueFails, Fail, rows
  <2>4. QED
    BY <2>1, <2>2, <2>3
<1>2. CASE UserOp
  BY <1>2 DEF UserOp, Pause, Resume, Delete, SetStatus, Erase
<1>3. ASSUME NEW p \in Pollers, Poll(p) \/ PollFails(p) \/ \E f \in Events : Dispatch(p, f)
      PROVE  event'[e].stored
  <2>1. CASE UpdateEventLatest(p)
    BY <2>1 DEF UpdateEventLatest, Base, TypeOK
  <2>2. CASE ~UpdateEventLatest(p)
    BY <1>3, <2>2 DEF Poll, PollFetch, ListAndEvaluate, CloseWatches, PollFails, Dispatch, rows
  <2>3. QED
    BY <2>1, <2>2
<1>4. ASSUME NEW f \in Events, Upstream(f) \/ IntervalElapses(f)
      PROVE  event'[e].stored
  <2>1. CASE Upstream(f)
    BY <2>1 DEF Upstream, rows
  <2>2. CASE IntervalElapses(f)
    BY <2>2 DEF IntervalElapses, Base, TypeOK
  <2>3. QED
    BY <1>4, <2>1, <2>2
<1>5. CASE UNCHANGED vars
  BY <1>5 DEF vars, rows
<1>6. QED
  BY <1>1, <1>2, <1>3, <1>4, <1>5, NextCases DEF PollOp

LEMMA ErasedStep == Base /\ ErasedLeavesNothing /\ [Next]_vars => ErasedLeavesNothing'
<1> SUFFICES ASSUME Base, ErasedLeavesNothing, [Next]_vars, NEW q \in Requests, Exists(q)'
             PROVE  account'[By[q]] /\ event'[For[q]].stored
  BY DEF ErasedLeavesNothing
<1>0. TypeOK /\ By[q] \in Users /\ For[q] \in Events
  BY RequestsAssumption DEF Base
<1>1. (Exists(q) /\ account[By[q]] /\ event[For[q]].stored) \/ CreateWatch(q)
  <2>1. ASSUME NEW c \in Requests, Create(c), ~Exists(q)
        PROVE  CreateWatch(q)
    <3>1. c = q
      BY <1>0, <2>1, CreateEffect
    <3>2. watch' # watch
      BY <2>1 DEF Exists
    <3>3. QED
      BY <2>1, <3>1, <3>2 DEF Create, CountPasses, CountRefuses, Resolve, FetchUnknown,
               UpsertEventByTMID, MarkEventDue, MarkDueFails, Fail, rows
  <2>2. CASE UserOp \/ PollOp
    BY <1>0, <2>2, NoNewWatch DEF ErasedLeavesNothing
  <2>3. CASE UNCHANGED vars
    BY <2>3 DEF vars, rows, Exists, ErasedLeavesNothing
  <2>4. QED
    BY <2>1, <2>2, <2>3, NextCases DEF ErasedLeavesNothing
<1>2. CASE CreateWatch(q)
  BY <1>2 DEF CreateWatch, OwnerExists, Goto, Base, StoredFirst
<1>3. CASE Exists(q) /\ account[By[q]] /\ event[For[q]].stored
  <2>1. ASSUME Erase(By[q]) PROVE FALSE
    BY <1>0, <1>3, <2>1 DEF Erase, WatchesOf, Exists
  <2>2. QED
    BY <1>0, <1>3, <2>1, OnlyEraseCloses, StaysStored
<1>4. QED
  BY <1>1, <1>2, <1>3

(* No watch outlives its account or is inserted after it, and every watch  *)
(* finds its event: the requests that were under way when the account was  *)
(* erased, and those a surviving session starts, end without one.          *)
THEOREM ErasedIsGone == Spec => []ErasedLeavesNothing
<1>1. Init => ErasedLeavesNothing
  BY DEF Init, ErasedLeavesNothing, Exists
<1>2. QED
  BY <1>1, ErasedStep, BaseHolds, PTL DEF Spec

-----------------------------------------------------------------------------
(* Fetching an unknown event. *)
LEMMA FetchersStep ==
  Base /\ WindowsMeet /\ FetchersMet /\ [Next]_vars => FetchersMet'
<1> SUFFICES ASSUME Base, WindowsMeet, FetchersMet, [Next]_vars,
                    NEW q \in storers', NEW r \in Requests, q # r, For[q] = For[r],
                    request'[r].stage \in {"fetch", "upsert"}
             PROVE  Met(q, r)'
  BY DEF FetchersMet
<1>0. TypeOK /\ storers \subseteq Requests
  BY DEF Base, TypeOK
<1>1. ASSUME NEW c \in Requests, Create(c)
      PROVE  Met(q, r)'
  <2>1. met \subseteq met'
    BY <1>0, <1>1, CreateEffect
  <2>2. CASE q \notin storers
    <3>1. UpsertEventByTMID(c) /\ q = c
      BY <1>1, <2>2 DEF Create, CountPasses, CountRefuses, Resolve, FetchUnknown,
               UpsertEventByTMID, CreateWatch, MarkEventDue, MarkDueFails, Fail, rows, ghosts
    <3>2. InWindow(q) /\ InWindow(r)
      BY <1>0, <3>1 DEF UpsertEventByTMID, Goto, InWindow, Window, TypeOK
    <3>3. Met(q, r)
      BY <1>1, <3>1, <3>2 DEF WindowsMeet
    <3>4. QED
      BY <2>1, <3>3 DEF Met
  <2>3. CASE q \in storers /\ request[r].stage \in {"fetch", "upsert"}
    BY <2>1, <2>3 DEF FetchersMet, Met
  <2>4. CASE q \in storers /\ request[r].stage \notin {"fetch", "upsert"}
    \* r turns to Ticketmaster, so its event was not stored: q did not store it.
    <3>1. Resolve(r) /\ ~event[For[r]].stored
      BY <1>0, <1>1, <2>4 DEF Create, CountPasses, CountRefuses, Resolve, FetchUnknown, Stored,
               UpsertEventByTMID, CreateWatch, MarkEventDue, MarkDueFails, Fail, Goto,
               InWindow,
               Window, TypeOK
    <3>2. event[For[q]].stored
      BY <2>4 DEF Base, StoredFirst
    <3>3. QED
      BY <3>1, <3>2
  <2>5. QED
    BY <2>2, <2>3, <2>4
<1>2. CASE UserOp \/ PollOp \/ UNCHANGED vars
  <2>1. UNCHANGED <<request, met, storers>>
    BY <1>0, <1>2, NoNewWatch DEF vars, ghosts
  <2>2. QED
    BY <2>1 DEF FetchersMet, Met
<1>3. QED
  BY <1>1, <1>2, NextCases

(* An event one request has stored is asked for by another request only if *)
(* the two were served at the same time: one call to Ticketmaster per new  *)
(* event, but for requests that race.                                      *)
THEOREM OneFetchUnlessMet == Spec => []FetchersMet
<1>1. Init => WindowsMeet /\ FetchersMet
  <2>1. Init => FetchersMet
    BY DEF Init, FetchersMet
  <2>2. QED
    BY <2>1, WindowsMeetInit
<1>2. TypeOK /\ Base /\ (WindowsMeet /\ FetchersMet) /\ [Next]_vars
        => (WindowsMeet /\ FetchersMet)'
  BY WindowsMeetStep, FetchersStep
<1>3. QED
  BY <1>1, <1>2, BaseHolds, TypeCorrect, PTL DEF Spec

-----------------------------------------------------------------------------
(* A new watch is listed. *)
\* A watch no poll has listed is there, and is paused until its user resumes it.
FreshStays(q) ==
  /\ Exists(q)'
  /\ q \in fresh /\ watch[q] = "paused" =>
       watch'[q] = "paused" \/ request'[q].stage = "markDue"

LEMMA FreshStep ==
  ASSUME TypeOK, FreshExists, [Next]_vars, NEW q \in fresh'
  PROVE  FreshStays(q)
<1>0. fresh \subseteq Requests /\ \A r \in fresh : Exists(r)
  BY DEF TypeOK, FreshExists
<1> USE DEF FreshStays, Exists
<1>1. ASSUME NEW c \in Requests, Create(c) PROVE FreshStays(q)
  <2>1. CASE CreateWatch(c)
    <3>1. q # c => q \in fresh /\ watch'[q] = watch[q]
      BY <1>0, <2>1 DEF CreateWatch, TypeOK
    <3>2. watch'[c] = "active" /\ request'[c].stage = "markDue"
      BY <2>1 DEF CreateWatch, Goto, TypeOK
    <3>3. QED
      BY <1>0, <3>1, <3>2
  <2>2. CASE ~CreateWatch(c)
    <3>1. watch' = watch /\ fresh' = fresh
      BY <1>1, <2>2 DEF Create, CountPasses, CountRefuses, Resolve, FetchUnknown,
               UpsertEventByTMID, MarkEventDue, MarkDueFails, Fail, rows, ghosts
    <3>2. QED
      BY <1>0, <3>1
  <2>3. QED
    BY <2>1, <2>2
<1>2. ASSUME NEW r \in Requests, Pause(r) \/ Resume(r) \/ Delete(r)
      PROVE  FreshStays(q)
  BY <1>0, <1>2 DEF Pause, Resume, Delete, SetStatus, TypeOK
<1>3. ASSUME NEW u \in Users, Erase(u) PROVE FreshStays(q)
  BY <1>0, <1>3 DEF Erase
<1>4. ASSUME NEW p \in Pollers, Poll(p) \/ PollFails(p) \/ \E e \in Events : Dispatch(p, e)
      PROVE  FreshStays(q)
  <2>1. CASE CloseWatches(p)
    BY <1>0, <2>1 DEF CloseWatches, ghosts
  <2>2. CASE ~CloseWatches(p)
    <3>1. watch' = watch /\ fresh' \subseteq fresh
      BY <1>4, <2>2 DEF Poll, PollFetch, UpdateEventLatest, ListAndEvaluate, PollFails,
               Dispatch, rows, ghosts
    <3>2. QED
      BY <1>0, <3>1
  <2>3. QED
    BY <2>1, <2>2
<1>5. ASSUME NEW e \in Events, Upstream(e) \/ IntervalElapses(e)
      PROVE  FreshStays(q)
  BY <1>0, <1>5 DEF Upstream, IntervalElapses, rows, ghosts
<1>6. CASE UNCHANGED vars
  BY <1>0, <1>6 DEF vars, rows, ghosts
<1>7. QED
  BY <1>1, <1>2, <1>3, <1>4, <1>5, <1>6 DEF Next

\* A statement of a request leaves a due event due.
LEMMA StaysDue ==
  ASSUME TypeOK, NEW c \in Requests, Create(c), NEW e \in Events, event[e].due
  PROVE  event'[e].due
<1>1. CASE UpsertEventByTMID(c)
  BY <1>1 DEF UpsertEventByTMID, Upserted, TypeOK
<1>2. CASE MarkEventDue(c)
  BY <1>2 DEF MarkEventDue, Marked, TypeOK
<1>3. CASE ~UpsertEventByTMID(c) /\ ~MarkEventDue(c)
  BY <1>3 DEF Create, CountPasses, CountRefuses, Resolve, FetchUnknown,
              CreateWatch, MarkDueFails, Fail, rows
<1>4. QED
  BY <1>1, <1>2, <1>3

Lists(p, e)   == poll[p].pc = "list" /\ poll[p].event = e
IsCovered(e)  == event[e].due \/ \E p \in Pollers : Lists(p, e)

\* A poll uses up the mark only by coming to the list, and leaves the list only
\* by taking the watches off fresh or failing.
LEMMA PollCovers ==
  ASSUME Base, NEW p \in Pollers,
         Poll(p) \/ \E f \in Events : Dispatch(p, f),
         NEW q \in fresh', q \in fresh, watch[q] = "active", IsCovered(For[q])
  PROVE  IsCovered(For[q])'
<1>0. TypeOK /\ q \in Requests /\ For[q] \in Events
  BY RequestsAssumption DEF Base, TypeOK
<1>1. \A r \in Pollers : r # p => poll'[r] = poll[r]
  BY <1>0 DEF Poll, PollFetch, UpdateEventLatest, ListAndEvaluate, CloseWatches,
              Dispatch, Move, TypeOK
<1>2. CASE UpdateEventLatest(p)
  <2>1. poll[p].pc = "update" /\ poll'[p] = [poll[p] EXCEPT !.pc = "list"]
    BY <1>0, <1>2 DEF UpdateEventLatest, Move, TypeOK
  <2>2. poll'[p].pc = "list" /\ poll'[p].event = poll[p].event
    BY <1>0, <2>1 DEF TypeOK
  <2>3. CASE poll[p].event = For[q]
    BY <2>2, <2>3 DEF IsCovered, Lists
  <2>4. CASE poll[p].event # For[q]
    <3>1. event'[For[q]] = event[For[q]]
      BY <1>0, <1>2, <2>4 DEF UpdateEventLatest, TypeOK
    <3>2. QED
      BY <1>1, <2>1, <3>1 DEF IsCovered, Lists
  <2>5. QED
    BY <2>3, <2>4
<1>3. CASE ListAndEvaluate(p)
  <2>1. event' = event /\ fresh' = fresh \ ActiveOn(poll[p].event)
    BY <1>3 DEF ListAndEvaluate, rows
  <2>2. poll[p].event # For[q]
    BY <1>0, <2>1 DEF ActiveOn
  <2>3. QED
    BY <1>1, <2>1, <2>2 DEF IsCovered, Lists
<1>4. CASE PollFetch(p) \/ CloseWatches(p) \/ \E f \in Events : Dispatch(p, f)
  <2>1. event' = event /\ poll[p].pc # "list"
    BY <1>4 DEF PollFetch, CloseWatches, Dispatch, Move, rows
  <2>2. QED
    BY <1>1, <2>1 DEF IsCovered, Lists
<1>5. QED
  BY <1>2, <1>3, <1>4 DEF Poll

LEMMA CoveredStep ==
  Base /\ FreshExists /\ NewWatchIsCovered /\ [Next]_vars => NewWatchIsCovered'
<1> SUFFICES ASSUME Base, FreshExists, NewWatchIsCovered, [Next]_vars, NEW q \in fresh',
                    request'[q].stage = "done", pollFails' = 0, watch'[q] # "paused"
             PROVE  IsCovered(For[q])'
  BY DEF NewWatchIsCovered, IsCovered, Lists
<1>0. TypeOK /\ fresh \subseteq Requests
  BY DEF Base, TypeOK
<1>a. ASSUME q \in fresh, request[q].stage = "done", pollFails = 0
      PROVE  IsCovered(For[q]) /\ watch[q] = "active"
  <2>1. FreshStays(q)
    BY <1>0, FreshStep
  <2>2. Exists(q) /\ watch[q] # "paused"
    BY <1>a, <2>1 DEF FreshStays, FreshExists
  <2>3. QED
    BY <1>a, <2>2 DEF NewWatchIsCovered, IsCovered, Lists, Exists
<1>b. \A r \in Requests : For[r] \in Events
  BY RequestsAssumption
<1>1. ASSUME NEW c \in Requests, Create(c)
      PROVE  IsCovered(For[q])'
  <2>1. poll' = poll /\ pollFails = 0
    BY <1>1 DEF Create, CountPasses, CountRefuses, Resolve, FetchUnknown, UpsertEventByTMID,
                CreateWatch, MarkEventDue, MarkDueFails, Fail, rows, ghosts
  <2>2. CASE q = c /\ MarkEventDue(c)
    BY <1>0, <1>b, <2>2 DEF MarkEventDue, Marked, IsCovered, TypeOK
  <2>3. CASE ~(q = c /\ MarkEventDue(c))
    <3>1. ~(q = c /\ CreateWatch(c))
      BY <1>0 DEF CreateWatch, Goto, TypeOK
    <3>2. q \in fresh
      BY <1>1, <3>1 DEF Create, CountPasses, CountRefuses, Resolve, FetchUnknown,
               UpsertEventByTMID, CreateWatch, MarkEventDue, MarkDueFails, Fail, ghosts
    <3>3. request[q].stage = "done"
      BY <1>0, <1>1, <2>3, <3>2 DEF Create, CountPasses, CountRefuses, Resolve, FetchUnknown,
               UpsertEventByTMID, CreateWatch, MarkEventDue, MarkDueFails, Fail, Goto,
               InWindow, Window, TypeOK
    <3>4. IsCovered(For[q]) /\ For[q] \in Events
      BY <1>0, <1>a, <1>b, <2>1, <3>2, <3>3
    <3>5. QED
      BY <1>0, <1>1, <2>1, <3>4, StaysDue DEF IsCovered, Lists
  <2>4. QED
    BY <2>2, <2>3
<1>2. CASE UserOp
  <2>1. event' = event /\ poll' = poll /\ pollFails' = pollFails
    BY <1>2 DEF UserOp, Pause, Resume, Delete, SetStatus, Erase
  <2>2. q \in fresh /\ request' = request
    BY <1>0, <1>2, NoNewWatch
  <2>3. QED
    BY <1>a, <2>1, <2>2 DEF IsCovered, Lists
<1>3. CASE PollOp
  <2>0. q \in fresh /\ request' = request
    BY <1>0, <1>3, NoNewWatch
  <2>1. ASSUME NEW p \in Pollers, PollFails(p) PROVE FALSE
    BY <1>0, <2>1 DEF PollFails, TypeOK
  <2>2. ASSUME NEW p \in Pollers, Poll(p) \/ \E f \in Events : Dispatch(p, f)
        PROVE  IsCovered(For[q])'
    <3>1. pollFails' = pollFails
      BY <2>2 DEF Poll, PollFetch, UpdateEventLatest, ListAndEvaluate, CloseWatches,
                  Dispatch, ghosts
    <3>2. QED
      BY <1>a, <2>0, <2>2, <3>1, PollCovers
  <2>3. ASSUME NEW e \in Events, Upstream(e) \/ IntervalElapses(e)
        PROVE  IsCovered(For[q])'
    <3>1. poll' = poll /\ pollFails' = pollFails
      BY <2>3 DEF Upstream, IntervalElapses, ghosts
    <3>2. event[For[q]].due => event'[For[q]].due
      BY <1>0, <1>b, <2>0, <2>3 DEF Upstream, IntervalElapses, rows, TypeOK
    <3>3. QED
      BY <1>a, <2>0, <3>1, <3>2 DEF IsCovered, Lists
  <2>4. QED
    BY <1>3, <2>1, <2>2, <2>3 DEF PollOp
<1>4. CASE UNCHANGED vars
  BY <1>a, <1>4 DEF vars, rows, ghosts, IsCovered, Lists
<1>5. QED
  BY <1>1, <1>2, <1>3, <1>4, NextCases

(* Once its request has marked the event due, the event stays due until a  *)
(* poll that will list the new watch has begun to, polls dispatched before *)
(* it was inserted included; only a poll that found the event over pauses  *)
(* the watch instead.                                                      *)
THEOREM NewWatchIsListed == Spec => []NewWatchIsCovered
<1>1. Init => FreshExists /\ NewWatchIsCovered
  BY DEF Init, FreshExists, NewWatchIsCovered
<1>2. TypeOK /\ FreshExists /\ [Next]_vars => FreshExists'
  <2>1. SUFFICES ASSUME TypeOK, FreshExists, [Next]_vars, NEW q \in fresh'
                 PROVE  Exists(q)'
    BY DEF FreshExists
  <2>2. QED
    BY <2>1, FreshStep DEF FreshStays
<1>3. TypeOK /\ Base /\ (FreshExists /\ NewWatchIsCovered) /\ [Next]_vars
        => (FreshExists /\ NewWatchIsCovered)'
  BY <1>2, CoveredStep
<1>4. QED
  BY <1>1, <1>3, BaseHolds, TypeCorrect, PTL DEF Spec
=============================================================================
