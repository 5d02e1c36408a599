------------------------- MODULE AlertEngineProofs -------------------------
(***************************************************************************)
(* Theorems about AlertEngine for every set of watches, users, workers and *)
(* answers, every channel capacity and every bound: type correctness; that *)
(* a claimed milestone is mailed at most once per watch, as AlertOnce says;*)
(* that mail goes only to users who verified their address; and that, as   *)
(* long as no two workers poll the event at once, a repeated row of the    *)
(* history has a cause of its own behind it -- a failure, or a request that*)
(* stores its answer over another's -- and a status mail has a failure or  *)
(* a change of the answer.                                                 *)
(***************************************************************************)
EXTENDS AlertEngine, EvaluatorProofs, FiniteSetTheorems

-----------------------------------------------------------------------------
(* Types of the locals. *)

LEMMA NoRowType == NoRow \in Row
BY ConstantsAssumption DEF NoRow, Row

LEMMA BlankType == Blank \in Locals
<1>1. (CHOOSE f \in Feeds : TRUE) \in Feed
  BY ConstantsAssumption
<1>2. QED
  BY <1>1, NoRowType DEF Blank, Locals, Availability, Kind, Time, NoTime

(* A Step to a program point with well-typed locals keeps pc and loc typed. *)
LEMMA StepType ==
  ASSUME TypeOK, NEW p \in Workers, NEW from, NEW to \in PC, NEW l \in Locals,
         Step(p, from, to, l)
  PROVE  pc' \in [Workers -> PC] /\ loc' \in [Workers -> Locals]
BY DEF TypeOK, Step

(* The rows ListActiveWatches builds. *)
LEMMA TodoType ==
  ASSUME TypeOK, NEW l \in Locals
  PROVE  {[watch |-> w, kinds |-> Verdict(l, w).kinds,
           mayMail |-> MayMail(consent[Owner[w]])] : w \in Active} \in SUBSET Row
<1>1. SUFFICES ASSUME NEW w \in Active
               PROVE  [watch |-> w, kinds |-> Verdict(l, w).kinds,
                       mayMail |-> MayMail(consent[Owner[w]])] \in Row
  OBVIOUS
<1>2. w \in Watches
  BY DEF Active
<1>3. Verdict(l, w).kinds \subseteq Kind
  BY EvaluateType DEF Verdict
<1>4. MayMail(consent[Owner[w]]) \in BOOLEAN
  BY DEF MayMail
<1>5. QED
  BY <1>2, <1>3, <1>4 DEF Row

(* A request's locals, and the row it stores. *)
LEMMA NoCreatorType == NoCreator \in Creator
BY BlankType DEF NoCreator, Creator, CreatorStage, Locals

LEMMA UpsertedType ==
  ASSUME NEW e \in EventRow, NEW s \in Feed
  PROVE  Upserted(e, s) \in EventRow
BY DEF Upserted, EventRow, Feed

LEMMA ResolvedType ==
  ASSUME NEW e
  PROVE  Resolved(e) \in Creator /\ Resolved(e).stage = "resolved"
<1>1. (e.avail = "onsale") \in BOOLEAN /\ Known(e.publicStart) \in BOOLEAN
  BY DEF Known
<1>2. QED
  BY <1>1, NoCreatorType DEF Resolved, Creator, CreatorStage

(* Dropping a kind of the current row. *)
LEMMA DropType ==
  ASSUME NEW l \in Locals, NEW k
  PROVE  Drop(l, k) \in Locals
<1>1. Blank.kind \in Kind
  BY BlankType DEF Locals
<1>2. QED
  BY <1>1 DEF Drop, Locals, Row

-----------------------------------------------------------------------------
(* Type correctness: every step of the engine keeps the rows, the channel, *)
(* the workers' locals and the ghosts in their types; the channel never    *)
(* exceeds its capacity.                                                   *)

LEMMA InitType == Init => TypeOK
<1>1. SUFFICES ASSUME Init PROVE TypeOK
  OBVIOUS
<1>2. feed \in Feed
  BY <1>1, ConstantsAssumption DEF Init
<1>3. event \in EventRow
  <2>1. NoEvent \in EventRow
    BY DEF NoEvent, EventRow, Availability, Time, NoTime
  <2>2. \A due \in BOOLEAN : [NoEvent EXCEPT !.due = due] \in EventRow
    BY <2>1 DEF EventRow
  <2>3. QED
    BY <1>1, <1>2, <2>1, <2>2, UpsertedType DEF Init
<1>4. watch \in [Watches -> WatchRow]
  BY <1>1 DEF Init, NoWatch, WatchRow, Time, NoTime
<1>5. pc \in [Workers -> PC] /\ loc \in [Workers -> Locals]
  BY <1>1, BlankType DEF Init, PC
<1>6. creator \in [Requests -> Creator]
  BY <1>1, NoCreatorType DEF Init
<1>7. consent \in [Users -> Consent]
  BY <1>1, ConstantsAssumption DEF Init
<1>8. mailed \in [Watches -> [Kind -> Nat]] /\ spent \in [Bound -> Nat]
  BY <1>1 DEF Init
<1>9. snapshots \in Seq(Availability) /\ jobs \in 0..QueueCap
  BY <1>1, ConstantsAssumption DEF Init
<1>10. QED
  BY <1>1, <1>3, <1>4, <1>5, <1>6, <1>7, <1>8, <1>9 DEF Init, TypeOK, Time

(* Spend counts in Nat. *)
LEMMA SpendType ==
  ASSUME TypeOK, NEW b \in Bound, Spend(b)
  PROVE  spent' \in [Bound -> Nat]
BY DEF TypeOK, Spend

LEMMA EnvironmentType ==
  ASSUME TypeOK, Tick \/ Upstream \/ IntervalElapses \/ Enqueue \/ Crash
  PROVE  TypeOK'
<1>1. CASE Tick
  BY <1>1 DEF Tick, TypeOK, db, people, engine, ghosts, Time
<1>2. CASE Upstream
  BY <1>2, SpendType DEF Upstream, Bound, TypeOK, db, people, engine, ghosts
<1>3. CASE IntervalElapses
  <2>1. event' \in EventRow
    BY <1>3 DEF IntervalElapses, TypeOK, EventRow
  <2>2. QED
    BY <1>3, <2>1 DEF IntervalElapses, TypeOK, env, people, engine, ghosts
<1>4. CASE Enqueue
  <2>1. jobs' \in 0..QueueCap
    BY <1>4, ConstantsAssumption DEF Enqueue, HasRoom, TypeOK
  <2>2. QED
    BY <1>4, <2>1 DEF Enqueue, TypeOK, env, db, people, ghosts
<1>5. CASE Crash
  <2>1. pc' \in [Workers -> PC] /\ loc' \in [Workers -> Locals]
    BY <1>5, BlankType DEF Crash, PC
  <2>2. creator' \in [Requests -> Creator]
    BY <1>5, NoCreatorType DEF Crash, TypeOK, Creator, CreatorStage
  <2>3. jobs' \in 0..QueueCap
    BY <1>5, ConstantsAssumption DEF Crash
  <2>4. QED
    BY <1>5, <2>1, <2>2, <2>3, SpendType DEF Crash, Bound, TypeOK, db, ghosts
<1>6. QED
  BY <1>1, <1>2, <1>3, <1>4, <1>5

\* A request before it inserts its watch, if it ever does.
Resolving(r) ==
  CreateResolve(r) \/ CreateFetch(r) \/ CreateUpsert(r) \/ CreateRejected(r)
  \/ CreateFails(r)

LEMMA ResolvingType ==
  ASSUME TypeOK, NEW r \in Requests, Resolving(r)
  PROVE  TypeOK'
<1>0. creator[r] \in Creator
  BY DEF TypeOK
<1>1. CASE CreateResolve(r)
  <2>1. [NoCreator EXCEPT !.stage = "fetch"] \in Creator
    BY NoCreatorType DEF Creator, CreatorStage
  <2>2. creator' \in [Requests -> Creator]
    BY <1>1, <2>1, ResolvedType DEF CreateResolve, TypeOK
  <2>3. QED
    BY <1>1, <2>2 DEF CreateResolve, TypeOK, env, db, engine, ghosts
<1>2. CASE CreateFetch(r)
  <2>1. creator' \in [Requests -> Creator]
    BY <1>0, <1>2, ConstantsAssumption DEF CreateFetch, TypeOK, Creator, CreatorStage
  <2>2. QED
    BY <1>2, <2>1 DEF CreateFetch, TypeOK, env, db, engine, ghosts
<1>3. CASE CreateUpsert(r)
  <2>1. event' \in EventRow
    BY <1>0, <1>3, UpsertedType DEF CreateUpsert, TypeOK, Creator
  <2>2. creator' \in [Requests -> Creator] /\ overwrites' \in Nat
    BY <1>3, ResolvedType DEF CreateUpsert, TypeOK
  <2>3. QED
    BY <1>3, <2>1, <2>2 DEF CreateUpsert, TypeOK, env, engine
<1>4. CASE CreateRejected(r)
  <2>1. [NoCreator EXCEPT !.stage = "done"] \in Creator
    BY NoCreatorType DEF Creator, CreatorStage
  <2>2. creator' \in [Requests -> Creator]
    BY <1>4, <2>1 DEF CreateRejected, TypeOK
  <2>3. QED
    BY <1>4, <2>2 DEF CreateRejected, TypeOK, env, db, engine, ghosts
<1>5. CASE CreateFails(r)
  <2>1. creator' \in [Requests -> Creator]
    BY <1>5, NoCreatorType DEF CreateFails, TypeOK
  <2>2. QED
    BY <1>5, <2>1, SpendType DEF CreateFails, TypeOK, db, engine, ghosts, Bound
<1>6. QED
  BY <1>1, <1>2, <1>3, <1>4, <1>5 DEF Resolving

LEMMA RequestType ==
  ASSUME TypeOK, Request
  PROVE  TypeOK'
<1>1. ASSUME NEW r \in Requests, Resolving(r) PROVE TypeOK'
  BY <1>1, ResolvingType
<1>2. ASSUME NEW w \in Watches, CreateInsert(w) PROVE TypeOK'
  <2>1. creator' \in [Requests -> Creator]
    <3>1. w \in Requests /\ creator[w] \in Creator
      BY ConstantsAssumption DEF TypeOK
    <3>2. [creator[w] EXCEPT !.stage = "inserted", !.seed = FALSE] \in Creator
      BY <3>1 DEF Creator, CreatorStage
    <3>3. QED
      BY <1>2, <3>1, <3>2 DEF CreateInsert, TypeOK, Creator, CreatorStage
  <2>2. watch' \in [Watches -> WatchRow]
    <3>1. creator[w].seed \in BOOLEAN
      BY ConstantsAssumption DEF TypeOK, Creator
    <3>2. QED
      BY <1>2, <3>1 DEF CreateInsert, TypeOK, WatchRow
  <2>3. QED
    BY <1>2, <2>1, <2>2 DEF CreateInsert, TypeOK, env, engine
<1>3. ASSUME NEW w \in Watches, CreateMarkDue(w) \/ CreateMarkDueFails(w)
      PROVE  TypeOK'
  <2>1. creator' \in [Requests -> Creator]
    <3>1. creator' = [creator EXCEPT ![w].stage = "done"]
      BY <1>3 DEF CreateMarkDue, CreateMarkDueFails
    <3>2. w \in Requests
      BY ConstantsAssumption
    <3>3. QED
      BY <3>1, <3>2 DEF TypeOK, Creator, CreatorStage
  <2>2. event' \in EventRow /\ spent' \in [Bound -> Nat]
    BY <1>3, SpendType
    DEF CreateMarkDue, CreateMarkDueFails, MarkDue, TypeOK, EventRow, env, db, Bound
  <2>3. QED
    BY <1>3, <2>1, <2>2
    DEF CreateMarkDue, CreateMarkDueFails, TypeOK, env, db, engine, ghosts
<1>4. ASSUME NEW w \in Watches, Pause(w) \/ Resume(w) \/ Delete(w)
      PROVE  TypeOK'
  <2>1. watch' \in [Watches -> WatchRow]
    <3>1. PICK s \in {"active", "paused", "deleted"} :
            watch' = [watch EXCEPT ![w].status = s]
      BY <1>4 DEF Pause, Resume, Delete, SetStatus
    <3>2. QED
      BY <3>1 DEF TypeOK, WatchRow
  <2>2. spent' \in [Bound -> Nat]
    BY <1>4, SpendType DEF Pause, Resume, Delete, SetStatus, Bound
  <2>3. QED
    BY <1>4, <2>1, <2>2 DEF Pause, Resume, Delete, SetStatus, TypeOK, people, engine
<1>5. ASSUME NEW u \in Users, Verify(u) \/ Unsubscribe(u) \/ Resubscribe(u)
      PROVE  TypeOK'
  <2>1. consent' \in [Users -> Consent]
    BY <1>5 DEF Verify, Unsubscribe, Resubscribe, SetConsent, TypeOK, Consent
  <2>2. spent' \in [Bound -> Nat]
    BY <1>5, SpendType DEF Verify, Unsubscribe, Resubscribe, SetConsent, Bound
  <2>3. QED
    BY <1>5, <2>1, <2>2
    DEF Verify, Unsubscribe, Resubscribe, SetConsent, TypeOK, db, engine, ghosts
<1>6. QED
  BY <1>1, <1>2, <1>3, <1>4, <1>5 DEF Request, Resolving

\* From taking a job to listing the watches.
LEMMA PollType ==
  ASSUME TypeOK, NEW p \in Workers,
         \/ TakeJob(p) \/ ReadEvent(p) \/ Fetch(p) \/ InsertAvailabilitySnapshot(p)
         \/ UpdateEventLatest(p) \/ ListActiveWatches(p)
  PROVE  TypeOK'
<1> USE DEF PC
<1>0. loc[p] \in Locals
  BY DEF TypeOK
<1>1. CASE TakeJob(p)
  <2>1. pc' \in [Workers -> PC] /\ loc' \in [Workers -> Locals]
    BY <1>1, StepType, BlankType DEF TakeJob
  <2>2. jobs' \in 0..QueueCap
    BY <1>1, ConstantsAssumption DEF TakeJob, TypeOK
  <2>3. QED
    BY <1>1, <2>1, <2>2 DEF TakeJob, TypeOK, env, db, people, ghosts
<1>2. CASE ReadEvent(p)
  <2>1. [loc[p] EXCEPT !.knew = Known(event.publicStart), !.stored = event.avail,
                       !.eventDate = event.eventDate] \in Locals
    BY <1>0 DEF TypeOK, Locals, EventRow, Known
  <2>2. pc' \in [Workers -> PC] /\ loc' \in [Workers -> Locals]
    BY <1>2, <2>1, StepType DEF ReadEvent
  <2>3. QED
    BY <1>2, <2>2 DEF ReadEvent, TypeOK, env, db, people, ghosts
<1>3. CASE Fetch(p)
  <2>1. [loc[p] EXCEPT !.snap = feed, !.stored = "unknown"] \in Locals
    BY <1>0, ConstantsAssumption DEF TypeOK, Locals, Availability
  <2>2. pc' \in [Workers -> PC] /\ loc' \in [Workers -> Locals]
    BY <1>3, <2>1, StepType DEF Fetch
  <2>3. QED
    BY <1>3, <2>2 DEF Fetch, TypeOK, env, db, people, ghosts
<1>4. CASE InsertAvailabilitySnapshot(p)
  <2>1. pc' \in [Workers -> PC] /\ loc' \in [Workers -> Locals]
    BY <1>0, <1>4, StepType DEF InsertAvailabilitySnapshot
  <2>2. snapshots' \in Seq(Availability)
    BY <1>0, <1>4 DEF InsertAvailabilitySnapshot, TypeOK, Locals, Feed
  <2>3. QED
    BY <1>4, <2>1, <2>2 DEF InsertAvailabilitySnapshot, TypeOK, env, people, ghosts
<1>5. CASE UpdateEventLatest(p)
  <2>1. [loc[p] EXCEPT !.at = now] \in Locals
    BY <1>0 DEF TypeOK, Locals
  <2>2. pc' \in [Workers -> PC] /\ loc' \in [Workers -> Locals]
    BY <1>5, <2>1, StepType DEF UpdateEventLatest
  <2>3. event' \in EventRow
    BY <1>0, <1>5 DEF UpdateEventLatest, Latest, TypeOK, EventRow, Locals, Feed
  <2>4. QED
    BY <1>5, <2>2, <2>3 DEF UpdateEventLatest, TypeOK, env, people, ghosts
<1>6. CASE ListActiveWatches(p)
  <2>1. (\E w \in Active : Verdict(loc[p], w).closeWatch) \in BOOLEAN
    OBVIOUS
  <2>2. (loc[p].snap.avail = "onsale") \in BOOLEAN
    OBVIOUS
  <2>3. PICK l \in Locals : Step(p, "list", "watches", l)
    BY <1>0, <1>6, <2>1, <2>2, TodoType, BlankType DEF ListActiveWatches, Locals
  <2>4. pc' \in [Workers -> PC] /\ loc' \in [Workers -> Locals]
    BY <2>3, StepType
  <2>5. QED
    BY <1>6, <2>4 DEF ListActiveWatches, TypeOK, env, db, people
<1>7. QED
  BY <1>1, <1>2, <1>3, <1>4, <1>5, <1>6

\* The loop over the listed watches and over the kinds of each.
LEMMA LoopType ==
  ASSUME TypeOK, NEW p \in Workers,
         \/ NextWatch(p) \/ ClaimWon(p) \/ ClaimLost(p) \/ ClaimGone(p)
         \/ Unclaimed(p) \/ Withhold(p) \/ Send(p) \/ SendFails(p)
         \/ MarkNotified(p) \/ SetLastEvaluation(p)
  PROVE  TypeOK'
<1> USE DEF PC
<1>0. loc[p] \in Locals
  BY DEF TypeOK
<1>a. loc[p].cur.watch \in Watches /\ loc[p].kind \in Kind
  BY <1>0 DEF Locals, Row
<1>1. \A k \in FirstKinds(loc[p].cur.kinds) :
        k \in Kind /\ [loc[p] EXCEPT !.kind = k] \in Locals
  BY <1>0 DEF FirstKinds, Locals, Row
<1>2. CASE NextWatch(p)
  <2>1. PICK row \in loc[p].todo :
          Step(p, "watches", "kinds", [loc[p] EXCEPT !.todo = @ \ {row}, !.cur = row])
    BY <1>2 DEF NextWatch
  <2>2. [loc[p] EXCEPT !.todo = @ \ {row}, !.cur = row] \in Locals
    BY <1>0 DEF Locals
  <2>3. pc' \in [Workers -> PC] /\ loc' \in [Workers -> Locals]
    BY <2>1, <2>2, StepType
  <2>4. QED
    BY <1>2, <2>3 DEF NextWatch, TypeOK, env, db, people, ghosts
<1>3. CASE ClaimWon(p)
  <2>1. PICK k \in FirstKinds(loc[p].cur.kinds) :
          /\ Step(p, "kinds", "notify", [loc[p] EXCEPT !.kind = k])
          /\ claims' = ClaimRow(loc[p].cur.watch, k)
    BY <1>3 DEF ClaimWon
  <2>2. claims' \subseteq Watches \X Kind
    BY <1>a, <1>1, <2>1 DEF ClaimRow, TypeOK
  <2>3. pc' \in [Workers -> PC] /\ loc' \in [Workers -> Locals]
    BY <1>1, <2>1, StepType
  <2>4. QED
    BY <1>3, <2>2, <2>3 DEF ClaimWon, TypeOK, env, people, ghosts
<1>4. CASE ClaimLost(p) \/ Withhold(p) \/ MarkNotified(p)
  <2>1. PICK k, from : Step(p, from, "kinds", Drop(loc[p], k))
    BY <1>4 DEF ClaimLost, Withhold, MarkNotified
  <2>2. pc' \in [Workers -> PC] /\ loc' \in [Workers -> Locals]
    BY <1>0, <2>1, DropType, StepType
  <2>3. QED
    BY <1>4, <2>2
    DEF ClaimLost, Withhold, MarkNotified, TypeOK, env, db, people, ghosts
<1>5. CASE ClaimGone(p)
  <2>1. pc' \in [Workers -> PC] /\ loc' \in [Workers -> Locals]
    BY <1>5, BlankType, StepType DEF ClaimGone, Return
  <2>2. QED
    BY <1>5, <2>1 DEF ClaimGone, TypeOK, env, db, people, ghosts
<1>6. CASE Unclaimed(p)
  <2>1. PICK k \in FirstKinds(loc[p].cur.kinds) :
          Step(p, "kinds", "notify", [loc[p] EXCEPT !.kind = k])
    BY <1>6 DEF Unclaimed
  <2>2. pc' \in [Workers -> PC] /\ loc' \in [Workers -> Locals]
    BY <1>1, <2>1, StepType
  <2>3. QED
    BY <1>6, <2>2 DEF Unclaimed, TypeOK, env, db, people, ghosts
<1>7. CASE Send(p) \/ SendFails(p)
  <2>1. pc' \in [Workers -> PC] /\ loc' \in [Workers -> Locals]
    BY <1>0, <1>7, StepType DEF Send, SendFails
  <2>2. mailed' \in [Watches -> [Kind -> Nat]]
    <3>1. CASE Send(p)
      BY <1>a, <3>1 DEF Send, TypeOK
    <3>2. CASE SendFails(p)
      BY <3>2 DEF SendFails, ghosts, TypeOK
    <3>3. QED
      BY <1>7, <3>1, <3>2
  <2>3. spent' \in [Bound -> Nat]
    BY <1>7, SpendType DEF Send, SendFails, env, Bound, TypeOK
  <2>4. QED
    BY <1>7, <2>1, <2>2, <2>3 DEF Send, SendFails, TypeOK, env, db, people, ghosts
<1>8. CASE SetLastEvaluation(p)
  <2>1. [loc[p] EXCEPT !.cur = NoRow] \in Locals
    BY <1>0, NoRowType DEF Locals
  <2>2. pc' \in [Workers -> PC] /\ loc' \in [Workers -> Locals]
    BY <1>8, <2>1, StepType DEF SetLastEvaluation
  <2>3. watch' \in [Watches -> WatchRow]
    <3>1. loc[p].statusOnsale \in BOOLEAN
      BY <1>0 DEF Locals
    <3>2. Evaluated(watch[loc[p].cur.watch], loc[p].statusOnsale) \in WatchRow
      <4>1. watch[loc[p].cur.watch] \in WatchRow
        BY <1>a DEF TypeOK
      <4>2. QED
        BY <3>1, <4>1 DEF Evaluated, WatchRow
    <3>3. \/ watch' = watch
          \/ watch' = [watch EXCEPT ![loc[p].cur.watch] =
                          Evaluated(watch[loc[p].cur.watch], loc[p].statusOnsale)]
      BY <1>8 DEF SetLastEvaluation
    <3>4. QED
      BY <3>2, <3>3 DEF TypeOK
  <2>4. QED
    BY <1>8, <2>2, <2>3 DEF SetLastEvaluation, TypeOK, env, people, ghosts
<1>9. QED
  BY <1>2, <1>3, <1>4, <1>5, <1>6, <1>7, <1>8

\* The ways a job ends.
LEMMA EndType ==
  ASSUME TypeOK, NEW p \in Workers,
         CloseWatchesForEvent(p) \/ Finish(p) \/ Abort(p)
  PROVE  TypeOK'
<1>1. PICK from : Return(p, from)
  BY DEF CloseWatchesForEvent, Finish, Abort
<1>2. pc' \in [Workers -> PC] /\ loc' \in [Workers -> Locals]
  BY <1>1, BlankType, StepType DEF Return, PC
<1>3. CASE CloseWatchesForEvent(p)
  <2>1. watch' \in [Watches -> WatchRow]
    BY <1>3 DEF CloseWatchesForEvent, TypeOK, WatchRow
  <2>2. QED
    BY <1>2, <1>3, <2>1 DEF CloseWatchesForEvent, TypeOK, env, people, ghosts
<1>4. CASE Finish(p)
  BY <1>2, <1>4 DEF Finish, TypeOK, env, db, people, ghosts
<1>5. CASE Abort(p)
  BY <1>2, <1>5, SpendType DEF Abort, TypeOK, db, people, ghosts, Bound
<1>6. QED
  BY <1>3, <1>4, <1>5

LEMMA WorkType ==
  ASSUME TypeOK, NEW p \in Workers, Work(p) \/ SendFails(p) \/ Abort(p)
  PROVE  TypeOK'
BY PollType, LoopType, EndType DEF Work

LEMMA NextType == TypeOK /\ [Next]_vars => TypeOK'
<1>1. ASSUME TypeOK, Next PROVE TypeOK'
  BY <1>1, EnvironmentType, RequestType, WorkType DEF Next
<1>2. ASSUME TypeOK, UNCHANGED vars PROVE TypeOK'
  BY <1>2 DEF TypeOK, vars, env, db, people, engine, ghosts
<1>3. QED
  BY <1>1, <1>2

(* Every reachable state of the engine is well typed, and the jobs channel *)
(* never holds more than its capacity.                                     *)
THEOREM TypeCorrect == Spec => []TypeOK
<1>1. Init => TypeOK
  BY InitType
<1>2. TypeOK /\ [Next]_vars => TypeOK'
  BY NextType
<1>3. QED
  BY <1>1, <1>2, PTL DEF Spec
-----------------------------------------------------------------------------
(* AlertOnce.  A claimed milestone is mailed at most once per watch, and   *)
(* the engine implements AlertOnce.  Once an alert's right is gone it stays*)
(* gone (GoneStays); only ClaimWon makes a worker the holder of an alert,  *)
(* and only of one that is not gone; only Send mails, and its worker stops *)
(* being holder.                                                           *)

(* The type facts used below: the row and the kind a worker is at.         *)
LEMMA CurrentType ==
  ASSUME TypeOK, NEW p \in Workers
  PROVE  /\ loc[p].cur.watch \in Watches
         /\ loc[p].kind \in Kind
         /\ \A k \in FirstKinds(loc[p].cur.kinds) : k \in Kind
<1>1. loc[p] \in Locals
  BY DEF TypeOK
<1>2. QED
  BY <1>1 DEF Locals, Row, FirstKinds

-----------------------------------------------------------------------------
(* The rows: what a step may do to a watch's status and to the claims.     *)

\* Every step leaves a watch's status alone, or moves it along.
LEMMA StatusSteps ==
  ASSUME TypeOK, Next, NEW w \in Watches
  PROVE  \/ watch'[w].status = watch[w].status
         \/ CreateInsert(w)
         \/ watch[w].status \in {"active", "paused"} /\ watch'[w].status # "none"
<1> DEFINE Goal == \/ watch'[w].status = watch[w].status
                   \/ CreateInsert(w)
                   \/ /\ watch[w].status \in {"active", "paused"}
                      /\ watch'[w].status # "none"
<1>1. CASE Tick \/ Upstream \/ IntervalElapses \/ Enqueue \/ Crash
  BY <1>1 DEF Tick, Upstream, IntervalElapses, Enqueue, Crash, db
<1>2. ASSUME NEW v \in Watches, CreateInsert(v) PROVE Goal
  BY <1>2 DEF CreateInsert, TypeOK
<1>3. ASSUME \/ \E r \in Requests : Resolving(r)
             \/ \E v \in Watches : CreateMarkDue(v) \/ CreateMarkDueFails(v)
      PROVE  Goal
  BY <1>3 DEF Resolving, CreateResolve, CreateFetch, CreateUpsert, CreateRejected,
              CreateFails, CreateMarkDue, CreateMarkDueFails, db
<1>4. ASSUME NEW v \in Watches, Pause(v) \/ Resume(v) \/ Delete(v) PROVE Goal
  <2>1. PICK s \in {"active", "paused", "deleted"} :
          watch' = [watch EXCEPT ![v].status = s]
    BY <1>4 DEF Pause, Resume, Delete, SetStatus
  <2>2. watch[v].status \in {"active", "paused"}
    BY <1>4 DEF Pause, Resume, Delete, SetStatus
  <2>3. QED
    BY <2>1, <2>2 DEF TypeOK, WatchRow
<1>5. ASSUME NEW u \in Users, Verify(u) \/ Unsubscribe(u) \/ Resubscribe(u)
      PROVE  Goal
  BY <1>5 DEF Verify, Unsubscribe, Resubscribe, SetConsent, db
<1>6. ASSUME NEW p \in Workers, SetLastEvaluation(p) PROVE Goal
  <2> DEFINE v == loc[p].cur.watch
  <2>1. v \in Watches
    BY CurrentType
  <2>2. watch[v] \in WatchRow
    BY <2>1 DEF TypeOK
  <2>3. \/ watch' = watch
        \/ watch' = [watch EXCEPT ![v] = Evaluated(watch[v], loc[p].statusOnsale)]
    BY <1>6 DEF SetLastEvaluation
  <2>4. Evaluated(watch[v], loc[p].statusOnsale).status = watch[v].status
    BY <2>2 DEF Evaluated, WatchRow
  <2>5. QED
    BY <2>1, <2>3, <2>4 DEF TypeOK
<1>7. ASSUME NEW p \in Workers, CloseWatchesForEvent(p) PROVE Goal
  BY <1>7 DEF CloseWatchesForEvent, Active, TypeOK, WatchRow
<1>8. ASSUME NEW p \in Workers,
             \/ TakeJob(p) \/ ReadEvent(p) \/ Fetch(p) \/ InsertAvailabilitySnapshot(p)
             \/ UpdateEventLatest(p) \/ ListActiveWatches(p) \/ NextWatch(p)
             \/ ClaimWon(p) \/ ClaimLost(p) \/ ClaimGone(p) \/ Unclaimed(p)
             \/ Withhold(p) \/ Send(p) \/ SendFails(p) \/ MarkNotified(p)
             \/ Finish(p) \/ Abort(p)
      PROVE  watch' = watch
  BY <1>8 DEF TakeJob, ReadEvent, Fetch, InsertAvailabilitySnapshot,
       UpdateEventLatest, ListActiveWatches, NextWatch, ClaimWon, ClaimLost,
       ClaimGone, Unclaimed, Withhold, Send, SendFails, MarkNotified, Finish,
       Abort, db
<1>9. QED
  BY <1>1, <1>2, <1>3, <1>4, <1>5, <1>6, <1>7, <1>8 DEF Next, Request, Resolving, Work

\* A request that has not inserted its watch had not a step before, and
\* nothing but CreateInsert gets it there.
LEMMA CreatorSteps ==
  ASSUME TypeOK, Next, NEW w \in Watches,
         creator'[w].stage \notin {"inserted", "done"}
  PROVE  creator[w].stage \notin {"inserted", "done"} /\ ~CreateInsert(w)
<1> DEFINE Goal == creator[w].stage \notin {"inserted", "done"} /\ ~CreateInsert(w)
<1>0. w \in Requests /\ creator[w] \in Creator
  BY ConstantsAssumption DEF TypeOK
<1>i. ~CreateInsert(w)
  BY <1>0 DEF CreateInsert, TypeOK, Creator
<1>1. ASSUME creator' = creator PROVE Goal
  BY <1>1, <1>i
<1>2. ASSUME NEW r \in Requests, Resolving(r) PROVE Goal
  <2>1. CASE r = w
    BY <1>i, <1>2, <2>1 DEF Resolving, CreateResolve, CreateFetch, CreateUpsert,
         CreateRejected, CreateFails
  <2>2. CASE r # w
    <3>1. PICK c : creator' = [creator EXCEPT ![r] = c]
      BY <1>2 DEF Resolving, CreateResolve, CreateFetch, CreateUpsert,
           CreateRejected, CreateFails
    <3>2. QED
      BY <1>0, <1>i, <2>2, <3>1 DEF TypeOK
  <2>3. QED
    BY <2>1, <2>2
<1>3. ASSUME NEW v \in Watches,
             CreateInsert(v) \/ CreateMarkDue(v) \/ CreateMarkDueFails(v)
      PROVE  Goal
  <2>1. v \in Requests
    BY ConstantsAssumption
  <2>2. CASE v = w
    BY <1>0, <1>3, <2>2 DEF CreateInsert, CreateMarkDue, CreateMarkDueFails, TypeOK, Creator
  <2>3. CASE v # w
    <3>1. creator'[w] = creator[w]
      BY <1>0, <1>3, <2>1, <2>3 DEF CreateInsert, CreateMarkDue, CreateMarkDueFails, TypeOK
    <3>2. QED
      BY <1>i, <3>1
  <2>4. QED
    BY <2>2, <2>3
<1>4. CASE Crash
  BY <1>0, <1>i, <1>4 DEF Crash, NoCreator
<1>5. CASE Tick \/ Upstream \/ IntervalElapses \/ Enqueue
  BY <1>1, <1>5 DEF Tick, Upstream, IntervalElapses, Enqueue, people
<1>6. ASSUME NEW v \in Watches, Pause(v) \/ Resume(v) \/ Delete(v) PROVE Goal
  BY <1>1, <1>6 DEF Pause, Resume, Delete, SetStatus, people
<1>7. ASSUME NEW u \in Users, Verify(u) \/ Unsubscribe(u) \/ Resubscribe(u)
      PROVE  Goal
  BY <1>1, <1>7 DEF Verify, Unsubscribe, Resubscribe, SetConsent
<1>8. ASSUME NEW p \in Workers, Work(p) \/ SendFails(p) \/ Abort(p) PROVE Goal
  <2>1. creator' = creator
    BY <1>8 DEF Work, TakeJob, ReadEvent, Fetch, InsertAvailabilitySnapshot,
         UpdateEventLatest, ListActiveWatches, NextWatch, ClaimWon, ClaimLost,
         ClaimGone, Unclaimed, Withhold, Send, SendFails, MarkNotified,
         SetLastEvaluation, CloseWatchesForEvent, Finish, Abort, people
  <2>2. QED
    BY <1>1, <2>1
<1>9. QED
  BY <1>2, <1>3, <1>4, <1>5, <1>6, <1>7, <1>8 DEF Next, Request, Resolving

LEMMA UnbornStays ==
  ASSUME TypeOK, UnbornIsNone, Next
  PROVE  UnbornIsNone'
<1>1. SUFFICES ASSUME NEW w \in Watches, creator'[w].stage \notin {"inserted", "done"}
               PROVE  watch'[w].status = "none"
  BY DEF UnbornIsNone
<1>2. watch[w].status = "none" /\ ~CreateInsert(w)
  BY <1>1, CreatorSteps DEF UnbornIsNone
<1>3. QED
  BY <1>2, StatusSteps

\* The claims only grow, but for those of a watch that is deleted.
LEMMA ClaimSteps ==
  ASSUME TypeOK, Next, NEW w \in Watches, NEW k, <<w, k>> \in claims
  PROVE  <<w, k>> \in claims' \/ watch'[w].status = "deleted"
<1>1. CASE claims' = claims
  BY <1>1
<1>2. ASSUME NEW v \in Watches, Delete(v)
      PROVE  <<w, k>> \in claims' \/ watch'[w].status = "deleted"
  <2>1. CASE v = w
    BY <1>2, <2>1 DEF Delete, TypeOK, WatchRow
  <2>2. CASE v # w
    BY <1>2, <2>2 DEF Delete
  <2>3. QED
    BY <2>1, <2>2
<1>3. ASSUME NEW p \in Workers, ClaimWon(p) PROVE claims \subseteq claims'
  BY <1>3 DEF ClaimWon, ClaimRow
<1>4. CASE Tick \/ Upstream \/ IntervalElapses \/ Enqueue \/ Crash
  BY <1>1, <1>4 DEF Tick, Upstream, IntervalElapses, Enqueue, Crash, db
<1>5. ASSUME \/ \E r \in Requests : Resolving(r)
             \/ \E v \in Watches :
                  \/ CreateInsert(v) \/ CreateMarkDue(v) \/ CreateMarkDueFails(v)
                  \/ Pause(v) \/ Resume(v)
      PROVE  claims' = claims
  BY <1>5 DEF Resolving, CreateResolve, CreateFetch, CreateUpsert, CreateRejected,
       CreateFails, CreateInsert, CreateMarkDue, CreateMarkDueFails, Pause, Resume,
       SetStatus, db
<1>6. ASSUME NEW u \in Users, Verify(u) \/ Unsubscribe(u) \/ Resubscribe(u)
      PROVE  claims' = claims
  BY <1>6 DEF Verify, Unsubscribe, Resubscribe, SetConsent, db
<1>7. ASSUME NEW p \in Workers, ~ClaimWon(p), Work(p) \/ SendFails(p) \/ Abort(p)
      PROVE  claims' = claims
  BY <1>7 DEF Work, TakeJob, ReadEvent, Fetch, InsertAvailabilitySnapshot,
       UpdateEventLatest, ListActiveWatches, NextWatch, ClaimLost,
       ClaimGone, Unclaimed, Withhold, Send, SendFails, MarkNotified,
       SetLastEvaluation, CloseWatchesForEvent, Finish, Abort, db
<1>8. QED
  BY <1>1, <1>2, <1>3, <1>4, <1>5, <1>6, <1>7 DEF Next, Request, Resolving

(* What is gone stays gone: a deleted watch is never inserted again, and   *)
(* its claims go only with it.                                             *)
LEMMA GoneStays ==
  ASSUME TypeOK, UnbornIsNone, Next, NEW w \in Watches, NEW k, Gone(w, k)
  PROVE  Gone(w, k)'
<1>1. CASE <<w, k>> \in claims
  BY <1>1, ClaimSteps DEF Gone
<1>2. CASE watch[w].status = "deleted"
  <2>1. ~CreateInsert(w)
    BY <1>2 DEF CreateInsert, UnbornIsNone
  <2>2. QED
    BY <1>2, <2>1, StatusSteps DEF Gone
<1>3. QED
  BY <1>1, <1>2 DEF Gone

-----------------------------------------------------------------------------
(* The workers: how one becomes the holder of an alert, and who mails.     *)

\* A step of one worker leaves the others where they are.
LEMMA OthersStay ==
  ASSUME TypeOK, NEW p \in Workers, NEW q \in Workers, p # q,
         NEW from, NEW to, NEW l, Step(p, from, to, l),
         NEW w, NEW k
  PROVE  Holder(q, w, k)' <=> Holder(q, w, k)
BY DEF Step, Holder, TypeOK

\* Steps to a program point other than notify make nobody a holder.
LEMMA NoNewHolder ==
  ASSUME TypeOK, NEW p \in Workers, NEW q \in Workers,
         NEW from, NEW to, NEW l, Step(p, from, to, l), to # "notify",
         NEW w, NEW k, Holder(q, w, k)'
  PROVE  Holder(q, w, k)
<1>1. CASE p = q
  BY <1>1 DEF Step, Holder, TypeOK
<1>2. CASE p # q
  BY <1>2, OthersStay
<1>3. QED
  BY <1>1, <1>2

(* Winning the claim of an alert that was not gone is the only way to      *)
(* become its holder, and makes it gone.                                   *)
LEMMA HolderSteps ==
  ASSUME TypeOK, Next, NEW q \in Workers, NEW w \in Watches, NEW k \in ClaimedKind,
         Holder(q, w, k)', ~Holder(q, w, k)
  PROVE  ClaimWon(q) /\ ~Gone(w, k) /\ Gone(w, k)'
<1> DEFINE Goal == ClaimWon(q) /\ ~Gone(w, k) /\ Gone(w, k)'
<1>1. ASSUME UNCHANGED <<pc, loc>> PROVE FALSE
  BY <1>1 DEF Holder
<1>2. ASSUME NEW p \in Workers, ClaimWon(p) PROVE Goal
  <2>1. PICK j \in FirstKinds(loc[p].cur.kinds) :
          /\ Step(p, "kinds", "notify", [loc[p] EXCEPT !.kind = j])
          /\ watch[loc[p].cur.watch].status # "deleted"
          /\ <<loc[p].cur.watch, j>> \notin claims
          /\ claims' = ClaimRow(loc[p].cur.watch, j)
    BY <1>2 DEF ClaimWon
  <2>2. p = q
    BY <2>1, OthersStay
  <2>3. loc[q] \in Locals
    BY DEF TypeOK
  <2>4. loc'[q] = [loc[q] EXCEPT !.kind = j]
    BY <2>1, <2>2 DEF Step, TypeOK
  <2>5. loc[q].cur.watch = w /\ j = k
    BY <2>3, <2>4 DEF Holder, Locals
  <2>6. QED
    BY <1>2, <2>1, <2>2, <2>5 DEF Gone, ClaimRow
<1>3. ASSUME NEW p \in Workers, Unclaimed(p) PROVE FALSE
  <2>1. PICK j \in FirstKinds(loc[p].cur.kinds) :
          /\ ~NeedsClaim(j)
          /\ Step(p, "kinds", "notify", [loc[p] EXCEPT !.kind = j])
    BY <1>3 DEF Unclaimed
  <2>2. p = q
    BY <2>1, OthersStay
  <2>3. loc[q] \in Locals
    BY DEF TypeOK
  <2>4. loc'[q] = [loc[q] EXCEPT !.kind = j]
    BY <2>1, <2>2 DEF Step, TypeOK
  <2>5. QED
    BY <2>1, <2>3, <2>4 DEF Holder, Locals, NeedsClaim, ClaimedKind
<1>4. ASSUME NEW p \in Workers, ~ClaimWon(p), ~Unclaimed(p),
             Work(p) \/ SendFails(p) \/ Abort(p)
      PROVE  FALSE
  <2>1. PICK from, to, l : Step(p, from, to, l) /\ to # "notify"
    <3>1. CASE TakeJob(p) \/ ReadEvent(p) \/ Fetch(p) \/ InsertAvailabilitySnapshot(p)
      BY <3>1 DEF TakeJob, ReadEvent, Fetch, InsertAvailabilitySnapshot
    <3>2. CASE UpdateEventLatest(p) \/ ListActiveWatches(p)
      BY <3>2 DEF UpdateEventLatest, ListActiveWatches
    <3>3. CASE NextWatch(p)
      BY <3>3 DEF NextWatch
    <3>4. CASE ClaimLost(p)
      BY <3>4 DEF ClaimLost
    <3>5. CASE Withhold(p) \/ Send(p) \/ SendFails(p) \/ MarkNotified(p)
      BY <3>5 DEF Withhold, Send, SendFails, MarkNotified
    <3>6. CASE SetLastEvaluation(p)
      BY <3>6 DEF SetLastEvaluation
    <3>7. CASE ClaimGone(p) \/ CloseWatchesForEvent(p) \/ Finish(p) \/ Abort(p)
      BY <3>7 DEF ClaimGone, CloseWatchesForEvent, Finish, Abort, Return
    <3>8. QED
      BY <1>4, <3>1, <3>2, <3>3, <3>4, <3>5, <3>6, <3>7 DEF Work
  <2>2. QED
    BY <2>1, NoNewHolder
<1>5. CASE Crash
  BY <1>5 DEF Crash, Holder
<1>6. CASE Tick \/ Upstream \/ IntervalElapses \/ Enqueue
  BY <1>1, <1>6 DEF Tick, Upstream, IntervalElapses, Enqueue, engine
<1>7. CASE Request
  BY <1>1, <1>7 DEF Request, CreateResolve, CreateFetch, CreateUpsert, CreateRejected,
       CreateFails, CreateInsert, CreateMarkDue, CreateMarkDueFails, Pause, Resume,
       SetStatus, Delete, Verify, Unsubscribe,
       Resubscribe, SetConsent, engine
<1>8. QED
  BY <1>2, <1>3, <1>4, <1>5, <1>6, <1>7 DEF Next

(* Only Send mails, and it mails the alert its worker is at.               *)
LEMMA MailSteps ==
  ASSUME TypeOK, Next, NEW w \in Watches, NEW k \in Kind,
         mailed'[w][k] # mailed[w][k]
  PROVE  \E p \in Workers :
           Send(p) /\ Holder(p, w, k) /\ mailed'[w][k] = mailed[w][k] + 1
<1>1. ASSUME UNCHANGED mailed PROVE FALSE
  BY <1>1
<1>2. ASSUME NEW p \in Workers, Send(p)
      PROVE  Holder(p, w, k) /\ mailed'[w][k] = mailed[w][k] + 1
  <2>1. mailed' = [mailed EXCEPT ![loc[p].cur.watch][loc[p].kind] = @ + 1]
    BY <1>2 DEF Send
  <2>2. loc[p].cur.watch \in Watches /\ loc[p].kind \in Kind
    BY CurrentType
  <2>3. loc[p].cur.watch = w /\ loc[p].kind = k
    BY <2>1, <2>2 DEF TypeOK
  <2>4. QED
    BY <1>2, <2>1, <2>3 DEF Send, Step, Holder, TypeOK
<1>3. ASSUME NEW p \in Workers, ~Send(p), Work(p) \/ SendFails(p) \/ Abort(p)
      PROVE  UNCHANGED mailed
  BY <1>3 DEF Work, TakeJob, ReadEvent, Fetch, InsertAvailabilitySnapshot,
       UpdateEventLatest, ListActiveWatches, NextWatch, ClaimWon, ClaimLost,
       ClaimGone, Unclaimed, Withhold, SendFails, MarkNotified,
       SetLastEvaluation, CloseWatchesForEvent, Finish, Abort, ghosts
<1>4. CASE Tick \/ Upstream \/ IntervalElapses \/ Enqueue \/ Crash
  BY <1>1, <1>4 DEF Tick, Upstream, IntervalElapses, Enqueue, Crash, ghosts
<1>5. CASE Request
  BY <1>1, <1>5 DEF Request, CreateResolve, CreateFetch, CreateUpsert, CreateRejected,
       CreateFails, CreateInsert, CreateMarkDue, CreateMarkDueFails, Pause, Resume,
       SetStatus, Delete, Verify, Unsubscribe,
       Resubscribe, SetConsent, ghosts
<1>6. QED
  BY <1>1, <1>2, <1>3, <1>4, <1>5 DEF Next

-----------------------------------------------------------------------------
(* The inductive invariant. *)

LEMMA ClaimInvInit == Init => ClaimInv
<1>1. SUFFICES ASSUME Init PROVE ClaimInv
  OBVIOUS
<1>2. \A p \in Workers : \A w, k : ~Holder(p, w, k)
  BY <1>1 DEF Init, Holder
<1>3. \A w \in Watches, k \in ClaimedKind : mailed[w][k] = 0
  BY <1>1 DEF Init, ClaimedKind
<1>4. \A w \in Watches : watch[w].status = "none"
  BY <1>1 DEF Init, NoWatch
<1>5. QED
  BY <1>2, <1>3, <1>4
  DEF ClaimInv, OneHolder, HeldIsGone, MailedIsGone, UnbornIsNone

\* Two workers do not win claims in one step.
LEMMA OneWinner ==
  ASSUME TypeOK, NEW p \in Workers, NEW q \in Workers, ClaimWon(p), ClaimWon(q)
  PROVE  p = q
<1>1. pc[q] = "kinds" /\ pc'[q] = "notify"
  BY DEF ClaimWon, Step, TypeOK
<1>2. PICK l : Step(p, "kinds", "notify", l)
  BY DEF ClaimWon
<1>3. QED
  BY <1>1, <1>2 DEF Step, TypeOK

LEMMA ClaimInvNext ==
  ASSUME TypeOK, ClaimInv, Next
  PROVE  ClaimInv'
<1> USE DEF ClaimInv
<1>0. ClaimedKind \subseteq Kind
  BY DEF ClaimedKind
<1>1. OneHolder'
  <2>1. SUFFICES ASSUME NEW p \in Workers, NEW q \in Workers, NEW w \in Watches,
                        NEW k \in ClaimedKind,
                        Holder(p, w, k)', Holder(q, w, k)'
                 PROVE  p = q
    BY DEF OneHolder
  <2>2. CASE Holder(p, w, k) /\ Holder(q, w, k)
    BY <2>2 DEF OneHolder
  <2>3. CASE ~Holder(p, w, k) /\ ~Holder(q, w, k)
    BY <2>1, <2>3, HolderSteps, OneWinner
  <2>4. CASE Holder(p, w, k) /\ ~Holder(q, w, k)
    BY <2>1, <2>4, HolderSteps DEF HeldIsGone
  <2>5. CASE ~Holder(p, w, k) /\ Holder(q, w, k)
    BY <2>1, <2>5, HolderSteps DEF HeldIsGone
  <2>6. QED
    BY <2>2, <2>3, <2>4, <2>5
<1>2. HeldIsGone'
  <2>1. SUFFICES ASSUME NEW p \in Workers, NEW w \in Watches, NEW k \in ClaimedKind,
                        Holder(p, w, k)'
                 PROVE  Gone(w, k)' /\ mailed'[w][k] = 0
    BY DEF HeldIsGone
  <2>2. CASE Holder(p, w, k)
    <3>1. Gone(w, k)' /\ mailed[w][k] = 0
      BY <2>2, GoneStays DEF HeldIsGone
    <3>2. SUFFICES ASSUME mailed'[w][k] # mailed[w][k] PROVE FALSE
      BY <3>1
    <3>3. PICK q \in Workers : Send(q) /\ Holder(q, w, k)
      BY <1>0, <3>2, MailSteps
    <3>4. q = p
      BY <2>2, <3>3 DEF OneHolder
    <3>5. pc'[p] = "mark"
      BY <3>3, <3>4 DEF Send, Step, TypeOK
    <3>6. QED
      BY <2>1, <3>5 DEF Holder
  <2>3. CASE ~Holder(p, w, k)
    <3>1. ~Gone(w, k) /\ Gone(w, k)'
      BY <2>1, <2>3, HolderSteps
    <3>2. mailed[w][k] = 0
      BY <3>1 DEF MailedIsGone
    <3>3. SUFFICES ASSUME mailed'[w][k] # mailed[w][k] PROVE FALSE
      BY <3>1, <3>2
    <3>4. PICK q \in Workers : Holder(q, w, k)
      BY <1>0, <3>3, MailSteps
    <3>5. QED
      BY <3>1, <3>4 DEF HeldIsGone
  <2>4. QED
    BY <2>2, <2>3
<1>3. MailedIsGone'
  <2>1. SUFFICES ASSUME NEW w \in Watches, NEW k \in ClaimedKind, mailed'[w][k] # 0
                 PROVE  Gone(w, k)' /\ mailed'[w][k] = 1
    BY DEF MailedIsGone
  <2>2. CASE mailed'[w][k] = mailed[w][k]
    BY <2>1, <2>2, GoneStays DEF MailedIsGone
  <2>3. CASE mailed'[w][k] # mailed[w][k]
    <3>1. PICK q \in Workers : Holder(q, w, k) /\ mailed'[w][k] = mailed[w][k] + 1
      BY <1>0, <2>3, MailSteps
    <3>2. QED
      BY <3>1, GoneStays DEF HeldIsGone
  <2>4. QED
    BY <2>2, <2>3
<1>4. UnbornIsNone'
  BY UnbornStays
<1>5. QED
  BY <1>1, <1>2, <1>3, <1>4

LEMMA ClaimInvStutter == ClaimInv /\ UNCHANGED vars => ClaimInv'
BY DEF ClaimInv, OneHolder, HeldIsGone, MailedIsGone, UnbornIsNone, Holder, Gone,
       vars, db, people, engine, ghosts

(* At every moment an alert's right has at most one holder, and is gone    *)
(* for everybody else from the claim on.                                   *)
THEOREM ClaimInvariant == Spec => []ClaimInv
<1>1. TypeOK /\ ClaimInv /\ [Next]_vars => ClaimInv'
  BY ClaimInvNext, ClaimInvStutter
<1>2. QED
  BY <1>1, ClaimInvInit, TypeCorrect, PTL DEF Spec

LEMMA ClaimInvSuffices == ClaimInv => AtMostOnce
<1>1. SUFFICES ASSUME ClaimInv, NEW w \in Watches, NEW k \in ClaimedKind
               PROVE  mailed[w][k] <= 1
  BY DEF AtMostOnce
<1>2. mailed[w][k] = 0 \/ mailed[w][k] = 1
  BY <1>1 DEF ClaimInv, MailedIsGone
<1>3. QED
  BY <1>2

(* worker.go:29, README: whatever is queued twice, crashes or fails, a     *)
(* milestone that goes through watch_alerts is mailed at most once.        *)
THEOREM MailedAtMostOnce == Spec => []AtMostOnce
BY ClaimInvariant, ClaimInvSuffices, PTL

-----------------------------------------------------------------------------
(* The refinement of AlertOnce. *)

\* The mapping, alert by alert.
LEMMA RightBar ==
  ASSUME NEW w \in Watches, NEW k \in ClaimedKind
  PROVE  /\ <<w, k>> \in ClaimedAlerts
         /\ rightBar[<<w, k>>] = IF Held(w, k) THEN "held"
                                 ELSE IF Gone(w, k) THEN "spent" ELSE "free"
         /\ mailsBar[<<w, k>>] = mailed[w][k]
BY DEF rightBar, mailsBar, ClaimedAlerts

LEMMA RightBarNext ==
  ASSUME NEW w \in Watches, NEW k \in ClaimedKind
  PROVE  /\ rightBar'[<<w, k>>] = IF Held(w, k)' THEN "held"
                                  ELSE IF Gone(w, k)' THEN "spent" ELSE "free"
         /\ mailsBar'[<<w, k>>] = mailed'[w][k]
BY DEF rightBar, mailsBar, ClaimedAlerts

\* To show something of every alert it is enough to show it of every pair.
LEMMA EveryAlert ==
  ASSUME NEW a \in ClaimedAlerts
  PROVE  \E w \in Watches, k \in ClaimedKind : a = <<w, k>>
BY DEF ClaimedAlerts

LEMMA InitRefines == Init => Abstract!Init
<1>1. SUFFICES ASSUME Init PROVE Abstract!Init
  OBVIOUS
<1>2. ASSUME NEW w \in Watches, NEW k \in ClaimedKind
      PROVE  rightBar[<<w, k>>] = "free" /\ mailsBar[<<w, k>>] = 0
  <2>1. ~Held(w, k) /\ ~Gone(w, k)
    BY <1>1 DEF Init, Held, Holder, Gone, NoWatch
  <2>2. mailed[w][k] = 0
    BY <1>1 DEF Init, ClaimedKind
  <2>3. QED
    BY <2>1, <2>2, RightBar
<1>3. \A a \in ClaimedAlerts : rightBar[a] = "free" /\ mailsBar[a] = 0
  BY <1>2, EveryAlert
<1>4. rightBar = [a \in ClaimedAlerts |-> "free"]
  BY <1>3 DEF rightBar
<1>5. mailsBar = [a \in ClaimedAlerts |-> 0]
  BY <1>3 DEF mailsBar
<1>6. QED
  BY <1>4, <1>5 DEF Abstract!Init

\* Steps at which nobody wins a claim and no claimed alert is mailed.
LEMMA LoseStep ==
  ASSUME TypeOK, ClaimInv, Next, \A p \in Workers : ~ClaimWon(p),
         \A w \in Watches, k \in ClaimedKind : mailed'[w][k] = mailed[w][k]
  PROVE  Abstract!Lose
<1>1. ASSUME NEW w \in Watches, NEW k \in ClaimedKind
      PROVE  rightBar'[<<w, k>>] \in {rightBar[<<w, k>>], "spent"}
  <2>1. Held(w, k)' => Held(w, k)
    BY HolderSteps DEF Held
  <2>2. Held(w, k) => Gone(w, k)
    BY DEF Held, ClaimInv, HeldIsGone
  <2>3. Gone(w, k) => Gone(w, k)'
    BY GoneStays DEF ClaimInv
  <2>4. QED
    BY <2>1, <2>2, <2>3, RightBar, RightBarNext
<1>2. \A a \in ClaimedAlerts : rightBar'[a] \in {rightBar[a], "spent"}
  BY <1>1, EveryAlert
<1>3. rightBar' \in [ClaimedAlerts -> {"free", "held", "spent"}]
  BY DEF rightBar, ClaimedAlerts
<1>4. mailsBar' = mailsBar
  BY EveryAlert DEF mailsBar, ClaimedAlerts
<1>5. QED
  BY <1>2, <1>3, <1>4 DEF Abstract!Lose, Abstract!Right

\* A won claim.
LEMMA WinStep ==
  ASSUME TypeOK, ClaimInv, Next, NEW p \in Workers, ClaimWon(p)
  PROVE  \E a \in ClaimedAlerts : Abstract!Win(a)
<1>0. PICK w \in Watches : w = loc[p].cur.watch
  BY CurrentType
<1>1. PICK j \in FirstKinds(loc[p].cur.kinds) :
        /\ NeedsClaim(j)
        /\ Step(p, "kinds", "notify", [loc[p] EXCEPT !.kind = j])
        /\ watch[w].status # "deleted"
        /\ <<w, j>> \notin claims
        /\ claims' = ClaimRow(w, j)
        /\ watch' = watch /\ mailed' = mailed
  BY <1>0 DEF ClaimWon, ghosts
<1>2. j \in ClaimedKind
  BY <1>1, CurrentType DEF NeedsClaim, ClaimedKind
<1>3. ~Gone(w, j) /\ Gone(w, j)'
  BY <1>1 DEF Gone, ClaimRow
<1>4. ~Held(w, j)
  BY <1>2, <1>3 DEF Held, ClaimInv, HeldIsGone
<1>5. loc'[p].cur = loc[p].cur /\ loc'[p].kind = j /\ pc'[p] = "notify" /\ pc[p] = "kinds"
  <2>1. loc[p] \in Locals
    BY DEF TypeOK
  <2>2. loc'[p] = [loc[p] EXCEPT !.kind = j]
    BY <1>1 DEF Step, TypeOK
  <2>3. QED
    BY <1>1, <2>1, <2>2 DEF Step, TypeOK, Locals
<1>6. Held(w, j)'
  BY <1>0, <1>5 DEF Held, Holder
<1>7. ASSUME NEW v \in Watches, NEW k \in ClaimedKind, <<v, k>> # <<w, j>>
      PROVE  rightBar'[<<v, k>>] = rightBar[<<v, k>>]
  <2>1. Gone(v, k)' <=> Gone(v, k)
    BY <1>1, <1>7 DEF Gone, ClaimRow
  <2>2. ~Holder(p, v, k) /\ ~Holder(p, v, k)'
    BY <1>0, <1>5, <1>7 DEF Holder
  <2>3. \A q \in Workers : Holder(q, v, k)' <=> Holder(q, v, k)
    BY <1>1, <2>2, OthersStay
  <2>4. Held(v, k)' <=> Held(v, k)
    BY <2>3 DEF Held
  <2>5. QED
    BY <2>1, <2>4, RightBar, RightBarNext
<1>8. <<w, j>> \in ClaimedAlerts /\ rightBar[<<w, j>>] = "free" /\ rightBar'[<<w, j>>] = "held"
  BY <1>2, <1>3, <1>4, <1>6, RightBar, RightBarNext
<1>9. rightBar' = [rightBar EXCEPT ![<<w, j>>] = "held"]
  <2>1. \A a \in ClaimedAlerts : a # <<w, j>> => rightBar'[a] = rightBar[a]
    BY <1>7, EveryAlert
  <2>2. QED
    BY <1>8, <2>1 DEF rightBar
<1>10. mailsBar' = mailsBar
  BY <1>1 DEF mailsBar
<1>11. QED
  BY <1>8, <1>9, <1>10 DEF Abstract!Win

\* A claimed alert that is mailed.
LEMMA MailStep ==
  ASSUME TypeOK, ClaimInv, Next, NEW w \in Watches, NEW k \in ClaimedKind,
         mailed'[w][k] # mailed[w][k]
  PROVE  Abstract!Mail(<<w, k>>)
<1>0. ClaimedKind \subseteq Kind
  BY DEF ClaimedKind
<1>1. PICK p \in Workers :
        Send(p) /\ Holder(p, w, k) /\ mailed'[w][k] = mailed[w][k] + 1
  BY <1>0, MailSteps
<1>2. /\ watch' = watch /\ claims' = claims
      /\ Step(p, "notify", "mark", loc[p])
      /\ mailed' = [mailed EXCEPT ![w][k] = @ + 1]
  BY <1>1 DEF Send, Holder, db
<1>3. \A q \in Workers : ~Holder(q, w, k)'
  <2>1. ~Holder(p, w, k)'
    BY <1>2 DEF Step, Holder, TypeOK
  <2>2. ASSUME NEW q \in Workers, q # p PROVE ~Holder(q, w, k)'
    BY <1>1, <1>2, <2>2, OthersStay DEF ClaimInv, OneHolder
  <2>3. QED
    BY <2>1, <2>2
<1>4. Held(w, k) /\ ~Held(w, k)' /\ Gone(w, k)'
  BY <1>1, <1>2, <1>3 DEF Held, ClaimInv, HeldIsGone, Gone
<1>5. ASSUME NEW v \in Watches, NEW j \in ClaimedKind, <<v, j>> # <<w, k>>
      PROVE  /\ rightBar'[<<v, j>>] = rightBar[<<v, j>>]
             /\ mailsBar'[<<v, j>>] = mailsBar[<<v, j>>]
  <2>1. Gone(v, j)' <=> Gone(v, j)
    BY <1>2 DEF Gone
  <2>2. ~Holder(p, v, j) /\ ~Holder(p, v, j)'
    BY <1>1, <1>2, <1>5 DEF Holder, Step, TypeOK
  <2>3. \A q \in Workers : Holder(q, v, j)' <=> Holder(q, v, j)
    BY <1>2, <2>2, OthersStay
  <2>4. Held(v, j)' <=> Held(v, j)
    BY <2>3 DEF Held
  <2>5. mailed'[v][j] = mailed[v][j]
    BY <1>0, <1>2, <1>5 DEF TypeOK
  <2>6. QED
    BY <2>1, <2>4, <2>5, RightBar, RightBarNext
<1>6. /\ rightBar[<<w, k>>] = "held" /\ rightBar'[<<w, k>>] = "spent"
      /\ mailsBar'[<<w, k>>] = mailsBar[<<w, k>>] + 1
  BY <1>1, <1>4, RightBar, RightBarNext
<1>7. \A a \in ClaimedAlerts : a # <<w, k>> =>
        rightBar'[a] = rightBar[a] /\ mailsBar'[a] = mailsBar[a]
  BY <1>5, EveryAlert
<1>8. rightBar' = [rightBar EXCEPT ![<<w, k>>] = "spent"]
  BY <1>6, <1>7 DEF rightBar
<1>9. mailsBar' = [mailsBar EXCEPT ![<<w, k>>] = @ + 1]
  BY <1>6, <1>7 DEF mailsBar
<1>10. QED
  BY <1>6, <1>8, <1>9 DEF Abstract!Mail

LEMMA NextRefines ==
  ASSUME TypeOK, ClaimInv, Next
  PROVE  Abstract!Next
<1>1. CASE \E w \in Watches, k \in ClaimedKind : mailed'[w][k] # mailed[w][k]
  BY <1>1, MailStep, RightBar DEF Abstract!Next
<1>2. CASE \E p \in Workers : ClaimWon(p)
  BY <1>2, WinStep DEF Abstract!Next
<1>3. QED
  BY <1>1, <1>2, LoseStep DEF Abstract!Next

LEMMA StutterRefines == UNCHANGED vars => UNCHANGED Abstract!vars
BY DEF vars, db, people, engine, ghosts, Abstract!vars, rightBar, mailsBar, Held,
       Holder, Gone

(* The engine implements AlertOnce: whatever happens to workers, rows and  *)
(* requests, a right is won once, mailed at most once, and never returned. *)
THEOREM Refinement == Spec => ImplementsAlertOnce
<1>1. TypeOK /\ ClaimInv /\ [Next]_vars => [Abstract!Next]_(Abstract!vars)
  BY NextRefines, StutterRefines
<1>2. QED
  BY <1>1, InitRefines, TypeCorrect, ClaimInvariant, PTL
  DEF Spec, ImplementsAlertOnce, Abstract!Spec

-----------------------------------------------------------------------------
(* Consent: what a row said of verification when it was listed still holds *)
(* when its mail leaves.                                                   *)

LEMMA WorkersKeepConsent ==
  ASSUME NEW p \in Workers, Work(p) \/ SendFails(p) \/ Abort(p)
  PROVE  consent' = consent
BY DEF Work, TakeJob, ReadEvent, Fetch, InsertAvailabilitySnapshot,
   UpdateEventLatest, ListActiveWatches, NextWatch, ClaimWon, ClaimLost,
   ClaimGone, Unclaimed, Withhold, Send, SendFails, MarkNotified,
   SetLastEvaluation, CloseWatchesForEvent, Finish, Abort, people

LEMMA WorkersMoveAlone ==
  ASSUME TypeOK, NEW p \in Workers, Work(p) \/ SendFails(p) \/ Abort(p),
         NEW q \in Workers, p # q
  PROVE  loc'[q] = loc[q]
<1>1. ASSUME NEW from, NEW to, NEW l, Step(p, from, to, l) PROVE loc'[q] = loc[q]
  BY <1>1 DEF Step, TypeOK
<1>2. QED
  BY <1>1 DEF Work, TakeJob, ReadEvent, Fetch, InsertAvailabilitySnapshot,
     UpdateEventLatest, ListActiveWatches, NextWatch, ClaimWon, ClaimLost,
     ClaimGone, Unclaimed, Withhold, Send, SendFails, MarkNotified,
     SetLastEvaluation, CloseWatchesForEvent, Finish, Abort, Return

\* No request takes verification back.
LEMMA VerifiedStays ==
  ASSUME TypeOK, [Next]_vars, NEW u \in Users, consent[u].verified
  PROVE  consent'[u].verified
<1>1. ASSUME consent' = consent PROVE consent'[u].verified
  BY <1>1
<1>2. ASSUME NEW v \in Users, Verify(v) \/ Unsubscribe(v) \/ Resubscribe(v)
      PROVE  consent'[u].verified
  <2>1. consent[v] \in Consent
    BY DEF TypeOK
  <2>2. PICK c : consent' = [consent EXCEPT ![v] = c] /\ (consent[v].verified => c.verified)
    BY <1>2, <2>1 DEF Verify, Unsubscribe, Resubscribe, SetConsent, Consent
  <2>3. QED
    BY <2>2 DEF TypeOK
<1>3. CASE Tick \/ Upstream \/ IntervalElapses \/ Enqueue \/ Crash
  BY <1>1, <1>3 DEF Tick, Upstream, IntervalElapses, Enqueue, Crash, people
<1>4. ASSUME \/ \E r \in Requests : Resolving(r)
             \/ \E w \in Watches :
                  \/ CreateInsert(w) \/ CreateMarkDue(w) \/ CreateMarkDueFails(w)
                  \/ Pause(w) \/ Resume(w) \/ Delete(w)
      PROVE  consent' = consent
  BY <1>4 DEF Resolving, CreateResolve, CreateFetch, CreateUpsert, CreateRejected,
       CreateFails, CreateInsert, CreateMarkDue, CreateMarkDueFails, Pause, Resume,
       SetStatus, Delete, people
<1>5. ASSUME NEW p \in Workers, Work(p) \/ SendFails(p) \/ Abort(p)
      PROVE  consent' = consent
  BY <1>5, WorkersKeepConsent
<1>6. CASE UNCHANGED vars
  BY <1>1, <1>6 DEF vars, people
<1>7. QED
  BY <1>1, <1>2, <1>3, <1>4, <1>5, <1>6 DEF Next, Request, Resolving

\* A worker's step lists rows with what consent says now, or takes rows over
\* as they were listed.
LEMMA GateSteps ==
  ASSUME TypeOK, NEW p \in Workers, Work(p) \/ SendFails(p) \/ Abort(p), Gate(loc[p])
  PROVE  Gate(loc'[p])
<1>0. loc[p] \in Locals
  BY DEF TypeOK
<1>a. Gate(Blank)
  BY DEF Gate, Blank, NoRow
<1>b. ASSUME NEW from, NEW to, NEW l, Step(p, from, to, l), Gate(l)
      PROVE  Gate(loc'[p])
  BY <1>b DEF Step, TypeOK
<1>c. ASSUME NEW l, l.todo = loc[p].todo, l.cur = loc[p].cur PROVE Gate(l)
  BY <1>c DEF Gate
<1>d. ASSUME NEW from, NEW to, NEW l, Step(p, from, to, l) PROVE loc'[p] = l
  BY <1>d DEF Step, TypeOK
<1>1. CASE TakeJob(p)
  BY <1>1, <1>a, <1>b DEF TakeJob
<1>2. CASE ReadEvent(p) \/ Fetch(p) \/ InsertAvailabilitySnapshot(p) \/ UpdateEventLatest(p)
           \/ ClaimWon(p) \/ Unclaimed(p) \/ Send(p) \/ SendFails(p)
  <2>1. loc'[p].todo = loc[p].todo /\ loc'[p].cur = loc[p].cur
    <3>1. CASE ReadEvent(p)
      <4>1. loc'[p] = [loc[p] EXCEPT !.knew = Known(event.publicStart),
                                     !.stored = event.avail,
                                     !.eventDate = event.eventDate]
        BY <1>d, <3>1 DEF ReadEvent
      <4>2. QED
        BY <1>0, <4>1 DEF Locals
    <3>2. CASE Fetch(p)
      <4>1. loc'[p] = [loc[p] EXCEPT !.snap = feed, !.stored = "unknown"]
        BY <1>d, <3>2 DEF Fetch
      <4>2. QED
        BY <1>0, <4>1 DEF Locals
    <3>3. CASE UpdateEventLatest(p)
      <4>1. loc'[p] = [loc[p] EXCEPT !.at = now]
        BY <1>d, <3>3 DEF UpdateEventLatest
      <4>2. QED
        BY <1>0, <4>1 DEF Locals
    <3>4. CASE InsertAvailabilitySnapshot(p) \/ Send(p) \/ SendFails(p)
      BY <1>d, <3>4 DEF InsertAvailabilitySnapshot, Send, SendFails
    <3>5. CASE ClaimWon(p) \/ Unclaimed(p)
      <4>1. PICK k : Step(p, "kinds", "notify", [loc[p] EXCEPT !.kind = k])
        BY <3>5 DEF ClaimWon, Unclaimed
      <4>2. loc'[p] = [loc[p] EXCEPT !.kind = k]
        BY <1>d, <4>1
      <4>3. QED
        BY <1>0, <4>2 DEF Locals
    <3>6. QED
      BY <1>2, <3>1, <3>2, <3>3, <3>4, <3>5
  <2>2. QED
    BY <1>c, <2>1
<1>3. CASE ListActiveWatches(p)
  <2> DEFINE listed == {[watch |-> w, kinds |-> Verdict(loc[p], w).kinds,
                         mayMail |-> MayMail(consent[Owner[w]])] : w \in Active}
             l == [Blank EXCEPT
                     !.todo = listed,
                     !.statusOnsale = loc[p].snap.avail = "onsale",
                     !.closing = \E w \in Active : Verdict(loc[p], w).closeWatch]
  <2>1. Step(p, "list", "watches", l)
    BY <1>3 DEF ListActiveWatches
  <2>2. l.todo = listed /\ l.cur = NoRow
    BY DEF Blank
  <2>3. \A row \in listed : row.mayMail => consent[Owner[row.watch]].verified
    <3>1. \A w \in Active : MayMail(consent[Owner[w]]) => consent[Owner[w]].verified
      BY DEF MayMail
    <3>2. QED
      BY <3>1
  <2>4. Gate(l)
    BY <2>2, <2>3 DEF Gate, NoRow
  <2>5. QED
    BY <1>b, <2>1, <2>4
<1>4. CASE NextWatch(p)
  <2>1. PICK row \in loc[p].todo :
          Step(p, "watches", "kinds", [loc[p] EXCEPT !.todo = @ \ {row}, !.cur = row])
    BY <1>4 DEF NextWatch
  <2>2. Gate([loc[p] EXCEPT !.todo = @ \ {row}, !.cur = row])
    BY <1>0 DEF Gate, Locals
  <2>3. QED
    BY <1>b, <2>1, <2>2
<1>5. CASE ClaimLost(p) \/ Withhold(p) \/ MarkNotified(p)
  <2>1. PICK k, from : Step(p, from, "kinds", Drop(loc[p], k))
    BY <1>5 DEF ClaimLost, Withhold, MarkNotified
  <2>2. /\ Drop(loc[p], k).todo = loc[p].todo
        /\ Drop(loc[p], k).cur.mayMail = loc[p].cur.mayMail
        /\ Drop(loc[p], k).cur.watch = loc[p].cur.watch
    BY <1>0 DEF Drop, Locals, Row
  <2>3. Gate(Drop(loc[p], k))
    BY <2>2 DEF Gate
  <2>4. QED
    BY <1>b, <2>1, <2>3
<1>6. CASE SetLastEvaluation(p)
  <2>1. Step(p, "kinds", "watches", [loc[p] EXCEPT !.cur = NoRow])
    BY <1>6 DEF SetLastEvaluation
  <2>2. Gate([loc[p] EXCEPT !.cur = NoRow])
    BY <1>0 DEF Gate, Locals, NoRow
  <2>3. QED
    BY <1>b, <2>1, <2>2
<1>7. CASE ClaimGone(p) \/ CloseWatchesForEvent(p) \/ Finish(p) \/ Abort(p)
  BY <1>7, <1>a, <1>b DEF ClaimGone, CloseWatchesForEvent, Finish, Abort, Return
<1>8. QED
  BY <1>1, <1>2, <1>3, <1>4, <1>5, <1>6, <1>7 DEF Work

LEMMA GateInvNext == TypeOK /\ TypeOK' /\ GateInv /\ [Next]_vars => GateInv'
<1>1. SUFFICES ASSUME TypeOK, TypeOK', GateInv, [Next]_vars, NEW q \in Workers
               PROVE  Gate(loc[q])'
  BY DEF GateInv
<1>2. Gate(loc[q]) /\ loc[q] \in Locals /\ loc'[q] \in Locals
  BY <1>1 DEF GateInv, TypeOK
<1>3. SUFFICES Gate(loc'[q])
  <2>1. \A row \in loc'[q].todo \cup {loc'[q].cur} : Owner[row.watch] \in Users
    BY <1>2, ConstantsAssumption DEF Locals, Row
  <2>2. QED
    BY <1>1, <1>3, <2>1, VerifiedStays DEF Gate
<1>4. CASE loc'[q] = loc[q]
  BY <1>2, <1>4
<1>5. ASSUME NEW p \in Workers, Work(p) \/ SendFails(p) \/ Abort(p)
      PROVE  Gate(loc'[q])
  <2>1. CASE p = q
    BY <1>1, <1>2, <1>5, <2>1, GateSteps
  <2>2. CASE p # q
    BY <1>1, <1>4, <1>5, <2>2, WorkersMoveAlone
  <2>3. QED
    BY <2>1, <2>2
<1>6. CASE Crash
  BY <1>6 DEF Crash, Gate, Blank, NoRow
<1>7. CASE Tick \/ Upstream \/ IntervalElapses \/ Enqueue \/ UNCHANGED vars
  BY <1>4, <1>7 DEF Tick, Upstream, IntervalElapses, Enqueue, engine, vars
<1>8. CASE Request
  BY <1>4, <1>8 DEF Request, CreateResolve, CreateFetch, CreateUpsert, CreateRejected,
       CreateFails, CreateInsert, CreateMarkDue, CreateMarkDueFails, Pause, Resume,
       SetStatus, Delete, Verify, Unsubscribe,
       Resubscribe, SetConsent, engine
<1>9. QED
  BY <1>1, <1>5, <1>6, <1>7, <1>8 DEF Next

(* No mail leaves for an address that was not confirmed, however long ago  *)
(* the row its gate looks at was listed.                                   *)
THEOREM OnlyVerifiedAreMailed == Spec => NoMailToUnverified
<1>1. Init => GateInv
  BY DEF Init, GateInv, Gate, Blank, NoRow
<1>2. TypeOK /\ GateInv /\ [Next]_vars
      => [\A w \in Watches : mailed'[w] # mailed[w] => consent[Owner[w]].verified]_vars
  <2>1. SUFFICES ASSUME TypeOK, GateInv, Next, NEW w \in Watches, mailed'[w] # mailed[w]
                 PROVE  consent[Owner[w]].verified
    OBVIOUS
  <2>2. TypeOK'
    BY <2>1, NextType
  <2>3. PICK k \in Kind : mailed'[w][k] # mailed[w][k]
    BY <2>1, <2>2 DEF TypeOK
  <2>4. PICK p \in Workers : Send(p) /\ Holder(p, w, k)
    BY <2>1, <2>3, MailSteps
  <2>5. loc[p].cur.watch = w /\ loc[p].cur.mayMail
    BY <2>4 DEF Send, Holder
  <2>6. QED
    BY <2>1, <2>5 DEF GateInv, Gate
<1>3. QED
  BY <1>1, <1>2, TypeCorrect, NextType, GateInvNext, PTL DEF Spec, NoMailToUnverified

-----------------------------------------------------------------------------
(* As long as no two workers poll the event at once, the snapshots are a   *)
(* list of transitions and each status alert has a change of Ticketmaster's*)
(* answer of its own behind it, but for one repetition per failure.        *)

\* The steps other than failures and crashes.
Normal ==
  \/ Tick \/ Upstream \/ IntervalElapses \/ Enqueue
  \/ \E r \in Requests :
       CreateResolve(r) \/ CreateFetch(r) \/ CreateUpsert(r) \/ CreateRejected(r)
  \/ \E w \in Watches :
       CreateInsert(w) \/ CreateMarkDue(w) \/ Pause(w) \/ Resume(w) \/ Delete(w)
  \/ \E u \in Users : Verify(u) \/ Unsubscribe(u) \/ Resubscribe(u)
  \/ \E p \in Workers : Work(p)

\* A step in which a statement, a mail or the process fails.
Fault ==
  \/ Crash
  \/ \E r \in Requests : CreateFails(r)
  \/ \E w \in Watches : CreateMarkDueFails(w)
  \/ \E p \in Workers : SendFails(p) \/ Abort(p)

LEMMA EveryStep == Next => Normal \/ Fault
BY DEF Next, Request, Normal, Fault

LEMMA NormalSpends ==
  ASSUME TypeOK, Normal
  PROVE  spent'["faults"] = spent["faults"]
<1>1. CASE Upstream
  BY <1>1 DEF Upstream, Spend, TypeOK, Bound
<1>2. ASSUME NEW w \in Watches, Pause(w) \/ Resume(w) \/ Delete(w)
      PROVE  spent'["faults"] = spent["faults"]
  BY <1>2 DEF Pause, Resume, SetStatus, Delete, Spend, TypeOK, Bound
<1>3. ASSUME NEW u \in Users, Verify(u) \/ Unsubscribe(u) \/ Resubscribe(u)
      PROVE  spent'["faults"] = spent["faults"]
  BY <1>3 DEF Verify, Unsubscribe, Resubscribe, SetConsent, Spend, TypeOK, Bound
<1>4. CASE Tick \/ IntervalElapses \/ Enqueue
  BY <1>4 DEF Tick, IntervalElapses, Enqueue, env
<1>5. ASSUME \/ \E r \in Requests :
                  CreateResolve(r) \/ CreateFetch(r) \/ CreateUpsert(r) \/ CreateRejected(r)
             \/ \E w \in Watches : CreateInsert(w) \/ CreateMarkDue(w)
      PROVE  spent'["faults"] = spent["faults"]
  BY <1>5 DEF CreateResolve, CreateFetch, CreateUpsert, CreateRejected, CreateInsert,
       CreateMarkDue, env
<1>6. ASSUME NEW p \in Workers, Work(p) PROVE spent'["faults"] = spent["faults"]
  BY <1>6 DEF Work, TakeJob, ReadEvent, Fetch, InsertAvailabilitySnapshot,
       UpdateEventLatest, ListActiveWatches, NextWatch, ClaimWon, ClaimLost,
       ClaimGone, Unclaimed, Withhold, Send, MarkNotified,
       SetLastEvaluation, CloseWatchesForEvent, Finish, env
<1>7. QED
  BY <1>1, <1>2, <1>3, <1>4, <1>5, <1>6 DEF Normal

\* A failure is counted.  It leaves the rows as they are; a worker goes on as
\* before, or after the mail, or is idle.
LEMMA FaultFacts ==
  ASSUME TypeOK, Fault
  PROVE  /\ spent'["faults"] = spent["faults"] + 1 /\ spent'["moves"] = spent["moves"]
         /\ UNCHANGED <<feed, event, snapshots, watch, mailed, overwrites>>
         /\ \A p \in Workers :
              \/ pc'[p] = pc[p] /\ loc'[p] = loc[p]
              \/ pc'[p] = "idle"
              \/ pc[p] = "notify" /\ pc'[p] = "mark" /\ loc'[p] = loc[p]
         /\ \A w \in Watches :
              creator[w].stage \in {"inserted", "done"} =>
                creator'[w].stage \in {"inserted", "done"}
<1>1. Spend("faults") => /\ spent'["faults"] = spent["faults"] + 1
                         /\ spent'["moves"] = spent["moves"]
  BY DEF Spend, TypeOK, Bound
<1>2. CASE Crash
  <2>1. \A w \in Watches : creator[w].stage \in {"inserted", "done"} =>
                           creator'[w].stage = "done"
    <3>1. SUFFICES ASSUME NEW w \in Watches, creator[w].stage \in {"inserted", "done"}
                   PROVE  creator'[w].stage = "done"
      OBVIOUS
    <3>2. w \in Requests /\ creator[w] \in Creator
      BY ConstantsAssumption DEF TypeOK
    <3>3. creator'[w] = [creator[w] EXCEPT !.stage = "done"]
      BY <1>2, <3>1, <3>2 DEF Crash
    <3>4. QED
      BY <3>2, <3>3 DEF Creator
  <2>2. QED
    BY <1>1, <1>2, <2>1 DEF Crash, db, ghosts, TypeOK
<1>3. ASSUME \/ \E r \in Requests : CreateFails(r)
             \/ \E w \in Watches : CreateMarkDueFails(w)
      PROVE  /\ Spend("faults")
             /\ UNCHANGED <<feed, event, snapshots, watch, mailed, overwrites, pc, loc>>
             /\ \A v \in Watches : creator[v].stage \in {"inserted", "done"} =>
                                     creator'[v].stage \in {"inserted", "done"}
  <2>1. Watches \subseteq Requests
    BY ConstantsAssumption
  <2>2. CASE \E r \in Requests : CreateFails(r)
    <3>1. PICK r \in Requests : CreateFails(r)
      BY <2>2
    <3>2. creator' = [creator EXCEPT ![r] = NoCreator]
          /\ creator[r].stage \notin {"inserted", "done"}
      BY <3>1 DEF CreateFails
    <3>3. QED
      BY <2>1, <3>1, <3>2 DEF CreateFails, db, engine, ghosts, TypeOK
  <2>3. CASE \E w \in Watches : CreateMarkDueFails(w)
    BY <2>1, <2>3 DEF CreateMarkDueFails, db, engine, ghosts, TypeOK, Creator
  <2>4. QED
    BY <1>3, <2>2, <2>3
<1>4. ASSUME NEW p \in Workers, SendFails(p)
      PROVE  /\ Spend("faults")
             /\ UNCHANGED <<feed, event, snapshots, watch, mailed, overwrites, creator>>
             /\ pc[p] = "notify" /\ pc'[p] = "mark" /\ loc'[p] = loc[p]
             /\ \A q \in Workers : q # p => pc'[q] = pc[q] /\ loc'[q] = loc[q]
  BY <1>4 DEF SendFails, Step, db, people, ghosts, TypeOK
<1>5. ASSUME NEW p \in Workers, Abort(p)
      PROVE  /\ Spend("faults")
             /\ UNCHANGED <<feed, event, snapshots, watch, mailed, overwrites, creator>>
             /\ pc'[p] = "idle"
             /\ \A q \in Workers : q # p => pc'[q] = pc[q] /\ loc'[q] = loc[q]
  BY <1>5 DEF Abort, Return, Step, db, people, ghosts, TypeOK
<1>6. QED
  BY <1>1, <1>2, <1>3, <1>4, <1>5 DEF Fault

-----------------------------------------------------------------------------
(* Nothing happens to an event the table does not hold but first requests. *)
StoredFirst ==
  ~event.stored =>
    /\ snapshots = <<>> /\ jobs = 0
    /\ \A p \in Workers : pc[p] = "idle"
    /\ \A w \in Watches : watch[w].status = "none"
    /\ \A r \in Requests : creator[r].stage \in {"none", "fetch", "upsert"}

LEMMA StoredFirstNext ==
  ASSUME TypeOK, StoredFirst, [Next]_vars
  PROVE  StoredFirst'
<1>1. SUFFICES ASSUME ~event.stored, ~event'.stored PROVE StoredFirst'
  <2>1. event.stored => event'.stored
    <3>1. ASSUME NEW r \in Requests, Resolving(r), event.stored PROVE event'.stored
      BY <3>1 DEF Resolving, CreateResolve, CreateFetch, CreateUpsert, CreateRejected,
           CreateFails, Upserted, db
    <3>2. ASSUME NEW w \in Watches, event.stored,
                 \/ CreateInsert(w) \/ CreateMarkDue(w) \/ CreateMarkDueFails(w)
                 \/ Pause(w) \/ Resume(w) \/ Delete(w)
          PROVE  event'.stored
      BY <3>2 DEF CreateInsert, CreateMarkDue, CreateMarkDueFails, MarkDue, Pause,
           Resume, SetStatus, Delete, TypeOK, EventRow, db
    <3>3. ASSUME NEW p \in Workers, Work(p) \/ SendFails(p) \/ Abort(p), event.stored
          PROVE  event'.stored
      BY <3>3 DEF Work, TakeJob, ReadEvent, Fetch, InsertAvailabilitySnapshot,
           UpdateEventLatest, Latest, ListActiveWatches, NextWatch, ClaimWon, ClaimLost,
           ClaimGone, Unclaimed, Withhold, Send, SendFails, MarkNotified,
           SetLastEvaluation, CloseWatchesForEvent, Finish, Abort, db, TypeOK, EventRow
    <3>4. ASSUME NEW u \in Users, Verify(u) \/ Unsubscribe(u) \/ Resubscribe(u)
          PROVE  event' = event
      BY <3>4 DEF Verify, Unsubscribe, Resubscribe, SetConsent, db
    <3>5. CASE Tick \/ Upstream \/ IntervalElapses \/ Enqueue \/ Crash \/ UNCHANGED vars
      BY <3>5 DEF Tick, Upstream, IntervalElapses, Enqueue, Crash, db, vars, TypeOK, EventRow
    <3>6. QED
      BY <3>1, <3>2, <3>3, <3>4, <3>5 DEF Next, Request, Resolving
  <2>2. QED
    BY <2>1 DEF StoredFirst
<1>2. /\ snapshots = <<>> /\ jobs = 0
      /\ \A p \in Workers : pc[p] = "idle"
      /\ \A w \in Watches : watch[w].status = "none"
      /\ \A r \in Requests : creator[r].stage \in {"none", "fetch", "upsert"}
  BY <1>1 DEF StoredFirst
<1>3. ASSUME UNCHANGED <<snapshots, jobs, pc, watch, creator>> PROVE StoredFirst'
  BY <1>2, <1>3 DEF StoredFirst
<1>4. CASE Tick \/ Upstream \/ IntervalElapses \/ UNCHANGED vars
  BY <1>3, <1>4 DEF Tick, Upstream, IntervalElapses, db, people, engine, vars
<1>5. CASE Enqueue
  BY <1>2, <1>5 DEF Enqueue, Active
<1>6. CASE Crash
  BY <1>2, <1>6 DEF Crash, StoredFirst, NoCreator, db
<1>7. ASSUME NEW r \in Requests, Resolving(r) PROVE StoredFirst'
  <2>1. ~CreateUpsert(r) /\ ~CreateRejected(r)
    BY <1>1, <1>2 DEF CreateUpsert, Upserted, CreateRejected
  <2>2. UNCHANGED <<snapshots, jobs, pc, watch>>
    BY <1>7, <2>1 DEF Resolving, CreateResolve, CreateFetch, CreateFails, db, engine
  <2>3. \A q \in Requests : creator'[q].stage \in {"none", "fetch", "upsert"}
    <3>1. creator[r] \in Creator
      BY DEF TypeOK
    <3>2. PICK c : creator' = [creator EXCEPT ![r] = c] /\ c.stage \in {"none", "fetch", "upsert"}
      BY <1>1, <1>7, <2>1, <3>1 DEF Resolving, CreateResolve, CreateFetch, CreateFails,
           NoCreator, Creator
    <3>3. QED
      BY <1>2, <3>2 DEF TypeOK
  <2>4. QED
    BY <1>2, <2>2, <2>3 DEF StoredFirst
<1>8. ASSUME NEW w \in Watches,
             \/ CreateInsert(w) \/ CreateMarkDue(w) \/ CreateMarkDueFails(w)
             \/ Pause(w) \/ Resume(w) \/ Delete(w)
      PROVE  FALSE
  <2>1. creator[w].stage \in {"none", "fetch", "upsert"} /\ watch[w].status = "none"
    BY <1>2, ConstantsAssumption
  <2>2. CASE CreateInsert(w) \/ CreateMarkDue(w) \/ CreateMarkDueFails(w)
    BY <2>1, <2>2 DEF CreateInsert, CreateMarkDue, CreateMarkDueFails
  <2>3. CASE Pause(w) \/ Resume(w) \/ Delete(w)
    BY <2>1, <2>3 DEF Pause, Resume, SetStatus, Delete
  <2>4. QED
    BY <1>8, <2>2, <2>3
<1>9. ASSUME NEW u \in Users, Verify(u) \/ Unsubscribe(u) \/ Resubscribe(u)
      PROVE  StoredFirst'
  BY <1>3, <1>9 DEF Verify, Unsubscribe, Resubscribe, SetConsent, db, engine
<1>10. ASSUME NEW p \in Workers, Work(p) \/ SendFails(p) \/ Abort(p) PROVE FALSE
  <2>1. pc[p] = "idle" /\ jobs = 0
    BY <1>2
  <2>2. ~TakeJob(p) /\ \A from, to, l : from # "idle" => ~Step(p, from, to, l)
    BY <2>1 DEF TakeJob, Step
  <2>3. ~Abort(p)
    BY <2>1 DEF Abort, CanFail
  <2>4. QED
    BY <1>10, <2>2, <2>3 DEF Work, ReadEvent, Fetch, InsertAvailabilitySnapshot,
       UpdateEventLatest, ListActiveWatches, NextWatch, ClaimWon, ClaimLost,
       ClaimGone, Unclaimed, Withhold, Send, SendFails, MarkNotified,
       SetLastEvaluation, CloseWatchesForEvent, Finish, Return
<1>11. QED
  BY <1>4, <1>5, <1>6, <1>7, <1>8, <1>9, <1>10 DEF Next, Request, Resolving

LEMMA StoredFirstInit == Init => StoredFirst
BY DEF Init, StoredFirst, NoWatch, NoCreator

-----------------------------------------------------------------------------
(* The snapshots.  A poll compares the answer with the copy it read and    *)
(* stores it; at rest the last snapshot is what the row says.  A failure   *)
(* between the two statements, or a request that stores its answer over    *)
(* the row, may part them, and pays for the one snapshot that repeats the  *)
(* last one until a poll brings them together again.                       *)
LastIs(a) == snapshots # <<>> /\ snapshots[Len(snapshots)] = a
Off(a)    == IF snapshots = <<>> \/ LastIs(a) THEN 0 ELSE 1
Again(a)  == IF LastIs(a) THEN 1 ELSE 0
Causes    == spent["faults"] + overwrites

\* A poll between its reading of the row and its update.
Comparing(p) == pc[p] \in {"fetch", "snapshot", "update"}

SnapshotInv ==
  /\ \A p \in Workers :
       /\ pc[p] = "fetch" => Cardinality(Repeats) + Off(loc[p].stored) <= Causes
       /\ pc[p] = "snapshot" => Cardinality(Repeats) + Again(loc[p].snap.avail) <= Causes
       /\ pc[p] = "update" => Cardinality(Repeats) + Off(loc[p].snap.avail) <= Causes
  /\ (\A p \in Workers : ~Comparing(p)) =>
       Cardinality(Repeats) + Off(event.avail) <= Causes

LEMMA OffType == ASSUME NEW a PROVE Off(a) \in {0, 1} /\ Again(a) \in {0, 1}
BY DEF Off, Again

LEMMA RepeatsFinite ==
  ASSUME TypeOK
  PROVE  /\ IsFiniteSet(Repeats) /\ Cardinality(Repeats) \in Nat
         /\ Causes \in Nat
<1>1. Len(snapshots) \in Nat /\ Causes \in Nat
  BY DEF TypeOK, Bound, Causes
<1>2. Repeats \in SUBSET (1..Len(snapshots)-1)
  BY DEF Repeats
<1>3. IsFiniteSet(Repeats)
  <2>1. 1 \in Int /\ Len(snapshots) - 1 \in Int
    BY <1>1
  <2>2. IsFiniteSet(1..Len(snapshots)-1)
    BY <2>1, FS_Interval
  <2>3. QED
    BY <1>2, <2>2, FS_Subset
<1>4. QED
  BY <1>1, <1>3, FS_CardinalityType

\* One more snapshot repeats the last one or adds no repetition.
LEMMA AppendRepeats ==
  ASSUME TypeOK, NEW a \in Availability, snapshots' = Append(snapshots, a)
  PROVE  /\ snapshots'[Len(snapshots')] = a
         /\ Repeats' \subseteq Repeats \cup {Len(snapshots)}
         /\ Repeats' # Repeats => ~(snapshots = <<>>) /\ snapshots[Len(snapshots)] = a
         /\ Repeats \subseteq Repeats'
<1>1. snapshots \in Seq(Availability) /\ Len(snapshots) \in Nat
  BY DEF TypeOK
<1>2. /\ Len(snapshots') = Len(snapshots) + 1
      /\ snapshots'[Len(snapshots')] = a
      /\ \A i \in 1..Len(snapshots) : snapshots'[i] = snapshots[i]
  BY <1>1
<1>3. Repeats' = {i \in 1..Len(snapshots) : snapshots'[i] = snapshots'[i+1]}
  BY <1>1, <1>2 DEF Repeats
<1>4. ASSUME NEW i \in 1..Len(snapshots)-1
      PROVE  i \in Repeats' <=> i \in Repeats
  <2>1. /\ i \in 1..Len(snapshots) /\ i + 1 \in 1..Len(snapshots)
    BY <1>1, <1>4
  <2>2. QED
    BY <1>2, <1>3, <2>1 DEF Repeats
<1>5. ASSUME NEW i \in Repeats', i \notin 1..Len(snapshots)-1
      PROVE  /\ i = Len(snapshots) /\ ~(snapshots = <<>>)
             /\ snapshots[Len(snapshots)] = a
  <2>1. i \in 1..Len(snapshots) /\ snapshots'[i] = snapshots'[i+1]
    BY <1>3, <1>5
  <2>2. i = Len(snapshots)
    BY <1>1, <1>5, <2>1
  <2>3. QED
    BY <1>1, <1>2, <2>1, <2>2
<1>6. Repeats \subseteq 1..Len(snapshots)-1
  BY DEF Repeats
<1>7. QED
  BY <1>2, <1>4, <1>5, <1>6

\* At every moment there are enough causes.
LEMMA SnapshotEnough ==
  ASSUME TypeOK, SnapshotInv
  PROVE  Cardinality(Repeats) <= Causes
<1>1. PICK n \in {0, 1} : Cardinality(Repeats) + n <= Causes
  BY OffType DEF SnapshotInv, Comparing
<1>2. QED
  BY <1>1, RepeatsFinite

\* Steps outside that window leave the snapshots and the row's status alone.
LEMMA SnapshotFrame ==
  ASSUME SnapshotInv, snapshots' = snapshots, event'.avail = event.avail,
         spent'["faults"] = spent["faults"], overwrites' = overwrites,
         \A p \in Workers :
           \/ pc'[p] = pc[p] /\ loc'[p] = loc[p]
           \/ ~Comparing(p) /\ pc'[p] \notin {"fetch", "snapshot", "update"}
  PROVE  SnapshotInv'
<1>1. /\ Cardinality(Repeats)' = Cardinality(Repeats) /\ Causes' = Causes
      /\ \A a : Off(a)' = Off(a) /\ Again(a)' = Again(a)
  BY DEF Repeats, Off, Again, LastIs, Causes
<1>2. QED
  BY <1>1 DEF SnapshotInv, Comparing

\* One more cause pays for the one snapshot that may repeat the last one.
LEMMA SnapshotPaid ==
  ASSUME TypeOK, SnapshotInv, snapshots' = snapshots, Causes' = Causes + 1
  PROVE  SnapshotInv'
<1>1. Cardinality(Repeats)' = Cardinality(Repeats)
  BY DEF Repeats
<1>2. \A a : Off(a)' \in {0, 1} /\ Again(a)' \in {0, 1}
  BY DEF Off, Again
<1>3. Cardinality(Repeats) \in Nat /\ Causes \in Nat /\ Cardinality(Repeats) <= Causes
  BY RepeatsFinite, SnapshotEnough
<1>4. \A a : /\ Cardinality(Repeats)' + Off(a)' <= Causes'
             /\ Cardinality(Repeats)' + Again(a)' <= Causes'
  BY <1>1, <1>2, <1>3
<1>5. QED
  BY <1>4 DEF SnapshotInv

LEMMA SnapshotFault ==
  ASSUME TypeOK, SnapshotInv, Fault
  PROVE  SnapshotInv'
<1>1. snapshots' = snapshots /\ Causes' = Causes + 1
  BY FaultFacts DEF Causes, TypeOK, Bound
<1>2. QED
  BY <1>1, SnapshotPaid

\* The answer of a first request: the first one is stored before any snapshot,
\* and each of the others counts.
LEMMA SnapshotUpsert ==
  ASSUME TypeOK, TypeOK', StoredFirst, SnapshotInv, NEW r \in Requests, CreateUpsert(r)
  PROVE  SnapshotInv'
<1>1. CASE event.stored
  <2>1. snapshots' = snapshots /\ Causes' = Causes + 1
    BY <1>1 DEF CreateUpsert, env, Causes, TypeOK, Bound
  <2>2. QED
    BY <2>1, SnapshotPaid
<1>2. CASE ~event.stored
  <2>1. snapshots' = <<>>
    BY <1>2 DEF StoredFirst, CreateUpsert
  <2>2. Repeats' = {} /\ \A a : Off(a)' = 0 /\ Again(a)' = 0
    BY <2>1 DEF Repeats, Off, Again, LastIs
  <2>3. Cardinality(Repeats') = 0 /\ Causes' \in Nat
    BY <2>2, FS_EmptySet DEF TypeOK, Causes, Bound
  <2>4. QED
    BY <2>2, <2>3 DEF SnapshotInv
<1>3. QED
  BY <1>1, <1>2

\* What a step of the loop, or a step outside the window, does to its worker.
LEMMA OutsideSteps ==
  ASSUME TypeOK, NEW p \in Workers, Work(p),
         ~ReadEvent(p), ~Fetch(p), ~InsertAvailabilitySnapshot(p), ~UpdateEventLatest(p)
  PROVE  /\ snapshots' = snapshots /\ event' = event
         /\ ~Comparing(p) /\ pc'[p] \notin {"fetch", "snapshot", "update"}
         /\ \A q \in Workers : q # p => pc'[q] = pc[q] /\ loc'[q] = loc[q]
<1>1. snapshots' = snapshots /\ event' = event
  BY DEF Work, TakeJob, ListActiveWatches, NextWatch, ClaimWon, ClaimLost,
     ClaimGone, Unclaimed, Withhold, Send, MarkNotified,
     SetLastEvaluation, CloseWatchesForEvent, Finish, db
<1>2. PICK from, to, l :
        /\ Step(p, from, to, l)
        /\ from \notin {"fetch", "snapshot", "update"}
        /\ to \notin {"fetch", "snapshot", "update"}
  <2>1. CASE TakeJob(p) \/ ListActiveWatches(p)
    BY <2>1 DEF TakeJob, ListActiveWatches
  <2>2. CASE NextWatch(p)
    BY <2>2 DEF NextWatch
  <2>3. CASE ClaimWon(p)
    BY <2>3 DEF ClaimWon
  <2>4. CASE ClaimLost(p)
    BY <2>4 DEF ClaimLost
  <2>5. CASE Unclaimed(p)
    BY <2>5 DEF Unclaimed
  <2>6. CASE Withhold(p) \/ Send(p) \/ MarkNotified(p)
    BY <2>6 DEF Withhold, Send, MarkNotified
  <2>7. CASE SetLastEvaluation(p)
    BY <2>7 DEF SetLastEvaluation
  <2>8. CASE ClaimGone(p) \/ CloseWatchesForEvent(p) \/ Finish(p)
    BY <2>8 DEF ClaimGone, CloseWatchesForEvent, Finish, Return
  <2>9. QED
    BY <2>1, <2>2, <2>3, <2>4, <2>5, <2>6, <2>7, <2>8 DEF Work
<1>3. QED
  BY <1>1, <1>2 DEF Step, TypeOK, Comparing

LEMMA SnapshotWork ==
  ASSUME TypeOK, Alone, SnapshotInv, NEW p \in Workers, Work(p)
  PROVE  SnapshotInv'
<1>0. /\ loc[p] \in Locals /\ pc \in [Workers -> PC] /\ snapshots \in Seq(Availability)
      /\ Cardinality(Repeats) \in Nat /\ Causes \in Nat /\ Cardinality(Repeats) <= Causes
  BY RepeatsFinite, SnapshotEnough DEF TypeOK
<1>a. spent'["faults"] = spent["faults"] /\ overwrites' = overwrites /\ Causes' = Causes
  <2>1. overwrites' = overwrites
    BY DEF Work, TakeJob, ReadEvent, Fetch, InsertAvailabilitySnapshot,
       UpdateEventLatest, ListActiveWatches, NextWatch, ClaimWon, ClaimLost,
       ClaimGone, Unclaimed, Withhold, Send, MarkNotified,
       SetLastEvaluation, CloseWatchesForEvent, Finish, ghosts
  <2>2. QED
    BY <2>1, NormalSpends DEF Normal, Causes
<1>b. ASSUME snapshots' = snapshots
      PROVE  /\ Cardinality(Repeats)' = Cardinality(Repeats)
             /\ \A a : Off(a)' = Off(a) /\ Again(a)' = Again(a)
  BY <1>b DEF Repeats, Off, Again, LastIs
<1>1. CASE ReadEvent(p)
  <2>1. /\ snapshots' = snapshots /\ event' = event
        /\ pc[p] = "read" /\ pc'[p] = "fetch"
        /\ \A q \in Workers : q # p => pc'[q] = pc[q] /\ loc'[q] = loc[q]
    BY <1>1 DEF ReadEvent, Step, TypeOK, db
  <2>2. loc'[p].stored = event.avail
    BY <1>0, <1>1 DEF ReadEvent, Step, TypeOK, Locals
  <2>3. \A q \in Workers : q # p => pc[q] = "idle"
    BY <2>1 DEF Alone
  <2>4. Cardinality(Repeats) + Off(event.avail) <= Causes
    BY <2>1, <2>3 DEF SnapshotInv, Comparing
  <2>5. QED
    BY <1>a, <1>b, <2>1, <2>2, <2>3, <2>4 DEF SnapshotInv, Comparing
<1>2. CASE Fetch(p)
  <2>1. /\ snapshots' = snapshots
        /\ pc[p] = "fetch"
        /\ pc'[p] = IF loc[p].stored # feed.avail THEN "snapshot" ELSE "update"
        /\ \A q \in Workers : q # p => pc'[q] = pc[q] /\ loc'[q] = loc[q]
    BY <1>2 DEF Fetch, changed, Step, TypeOK, db
  <2>2. loc'[p].snap = feed
    BY <1>0, <1>2 DEF Fetch, Step, TypeOK, Locals
  <2>3. \A q \in Workers : q # p => pc[q] = "idle"
    BY <2>1 DEF Alone
  <2>4. Cardinality(Repeats) + Off(loc[p].stored) <= Causes
    BY <2>1 DEF SnapshotInv
  <2>5. loc[p].stored # feed.avail => Cardinality(Repeats) + Again(feed.avail) <= Causes
    BY <1>0, <2>4 DEF Off, Again, LastIs
  <2>6. QED
    BY <1>a, <1>b, <2>1, <2>2, <2>3, <2>4, <2>5 DEF SnapshotInv, Comparing
<1>3. CASE InsertAvailabilitySnapshot(p)
  <2>1. /\ pc[p] = "snapshot" /\ pc'[p] = "update" /\ loc'[p] = loc[p]
        /\ \A q \in Workers : q # p => pc'[q] = pc[q] /\ loc'[q] = loc[q]
    BY <1>3 DEF InsertAvailabilitySnapshot, Step, TypeOK
  <2>2. snapshots' = Append(snapshots, loc[p].snap.avail)
    BY <1>3 DEF InsertAvailabilitySnapshot
  <2>3. loc[p].snap.avail \in Availability
    BY <1>0 DEF Locals, Feed
  <2>4. \A q \in Workers : q # p => pc[q] = "idle"
    BY <2>1 DEF Alone
  <2>5. Cardinality(Repeats) + Again(loc[p].snap.avail) <= Causes
    BY <2>1 DEF SnapshotInv
  <2>6. Off(loc[p].snap.avail)' = 0
    <3>1. snapshots' # <<>> /\ snapshots'[Len(snapshots')] = loc[p].snap.avail
      BY <1>0, <2>2, <2>3, AppendRepeats
    <3>2. QED
      BY <2>1, <3>1 DEF Off, LastIs
  <2>7. Cardinality(Repeats)' \in Nat /\ Cardinality(Repeats)' <= Causes
    <3>1. CASE Repeats' = Repeats
      BY <1>0, <3>1
    <3>2. CASE Repeats' # Repeats
      <4>1. Repeats' = Repeats \cup {Len(snapshots)} /\ Len(snapshots) \notin Repeats
        BY <2>2, <2>3, <3>2, AppendRepeats
      <4>2. Again(loc[p].snap.avail) = 1
        BY <2>2, <2>3, <3>2, AppendRepeats DEF Again, LastIs
      <4>3. Cardinality(Repeats') = Cardinality(Repeats) + 1
        BY <4>1, RepeatsFinite, FS_AddElement
      <4>4. QED
        BY <1>0, <2>5, <4>2, <4>3
    <3>3. QED
      BY <3>1, <3>2
  <2>8. QED
    BY <1>a, <2>1, <2>4, <2>6, <2>7 DEF SnapshotInv, Comparing
<1>4. CASE UpdateEventLatest(p)
  <2>1. /\ snapshots' = snapshots
        /\ pc[p] = "update" /\ pc'[p] = "list"
        /\ \A q \in Workers : q # p => pc'[q] = pc[q] /\ loc'[q] = loc[q]
    BY <1>4 DEF UpdateEventLatest, Step, TypeOK
  <2>2. event'.avail = loc[p].snap.avail
    BY <1>4 DEF UpdateEventLatest, Latest, TypeOK, EventRow
  <2>3. \A q \in Workers : q # p => pc[q] = "idle"
    BY <2>1 DEF Alone
  <2>4. Cardinality(Repeats) + Off(loc[p].snap.avail) <= Causes
    BY <2>1 DEF SnapshotInv
  <2>5. QED
    BY <1>a, <1>b, <2>1, <2>2, <2>3, <2>4 DEF SnapshotInv, Comparing
<1>5. CASE ~ReadEvent(p) /\ ~Fetch(p) /\ ~InsertAvailabilitySnapshot(p)
           /\ ~UpdateEventLatest(p)
  BY <1>5, <1>a, OutsideSteps, SnapshotFrame
<1>6. QED
  BY <1>1, <1>2, <1>3, <1>4, <1>5

LEMMA SnapshotNext ==
  ASSUME TypeOK, TypeOK', Alone, StoredFirst, SnapshotInv, Normal
  PROVE  SnapshotInv'
<1>1. ASSUME UNCHANGED <<snapshots, pc, loc, overwrites>>, event'.avail = event.avail
      PROVE  SnapshotInv'
  BY <1>1, NormalSpends, SnapshotFrame
<1>2. CASE Tick \/ Upstream \/ IntervalElapses \/ Enqueue
  <2>1. event'.avail = event.avail
    BY <1>2 DEF Tick, Upstream, IntervalElapses, Enqueue, db, TypeOK, EventRow
  <2>2. QED
    BY <1>1, <1>2, <2>1 DEF Tick, Upstream, IntervalElapses, Enqueue, db, engine, ghosts
<1>3. ASSUME \/ \E r \in Requests : CreateResolve(r) \/ CreateFetch(r) \/ CreateRejected(r)
             \/ \E w \in Watches :
                  CreateInsert(w) \/ CreateMarkDue(w) \/ Pause(w) \/ Resume(w) \/ Delete(w)
      PROVE  SnapshotInv'
  <2>1. event'.avail = event.avail
    BY <1>3 DEF CreateResolve, CreateFetch, CreateRejected, CreateInsert, CreateMarkDue,
         MarkDue, Pause, Resume, SetStatus, Delete, db, TypeOK, EventRow
  <2>2. QED
    BY <1>1, <1>3, <2>1 DEF CreateResolve, CreateFetch, CreateRejected, CreateInsert,
         CreateMarkDue, Pause, Resume, SetStatus, Delete, db, engine, ghosts
<1>4. ASSUME NEW r \in Requests, CreateUpsert(r) PROVE SnapshotInv'
  BY <1>4, SnapshotUpsert
<1>5. ASSUME NEW u \in Users, Verify(u) \/ Unsubscribe(u) \/ Resubscribe(u)
      PROVE  SnapshotInv'
  BY <1>1, <1>5 DEF Verify, Unsubscribe, Resubscribe, SetConsent, db, engine, ghosts
<1>6. QED
  BY <1>2, <1>3, <1>4, <1>5, SnapshotWork DEF Normal

(* worker.go:97: as long as no two workers poll the event at once, each    *)
(* pair of consecutive snapshots that say the same has a cause of its own: *)
(* a failed statement, a crash, or a first request whose answer was stored *)
(* over the row of another.                                                *)
THEOREM RepeatsAreFailures == Spec /\ []Alone => []RepeatsAccounted
<1>1. Init => StoredFirst /\ SnapshotInv
  <2>1. SUFFICES ASSUME Init PROVE SnapshotInv
    BY StoredFirstInit
  <2>2. Repeats = {} /\ \A a : Off(a) = 0
    BY <2>1 DEF Init, Repeats, Off, LastIs
  <2>3. Cardinality(Repeats) = 0
    BY <2>2, FS_EmptySet
  <2>4. Causes = 0 /\ \A p \in Workers : pc[p] = "idle"
    BY <2>1 DEF Init, Causes, Bound
  <2>5. QED
    BY <2>2, <2>3, <2>4 DEF SnapshotInv
<1>2. TypeOK /\ TypeOK' /\ Alone /\ StoredFirst /\ SnapshotInv /\ [Next]_vars
        => StoredFirst' /\ SnapshotInv'
  <2>1. ASSUME TypeOK, TypeOK', Alone, StoredFirst, SnapshotInv, Next PROVE SnapshotInv'
    BY <2>1, EveryStep, SnapshotNext, SnapshotFault
  <2>2. ASSUME SnapshotInv, UNCHANGED vars PROVE SnapshotInv'
    BY <2>2, SnapshotFrame DEF vars, env, db, engine, ghosts
  <2>3. QED
    BY <2>1, <2>2, StoredFirstNext
<1>3. TypeOK /\ SnapshotInv => RepeatsAccounted
  BY SnapshotEnough DEF RepeatsAccounted, Causes
<1>4. QED
  BY <1>1, <1>2, <1>3, TypeCorrect, PTL DEF Spec

-----------------------------------------------------------------------------
(* The status alert.  The sale's status travels from Ticketmaster to the   *)
(* poll's answer and from there to last_evaluation.  Every place where the *)
(* sale is open for one of two neighbours and not yet for the next is      *)
(* worth a change of the answer that no mail was sent for yet: a change    *)
(* upstream makes one more such place at most, the polls only move and     *)
(* remove them, and a mail uses one up.  The row is not on that way: what  *)
(* is stored over it reaches a watch only as the seed it is inserted with. *)
Flip      == "status_onsale"
OnSale(a) == a = "onsale"
Up(a, b)  == IF ~a /\ b THEN 1 ELSE 0

Loop  == {"watches", "kinds", "notify", "mark"}
AtRow == {"kinds", "notify", "mark"}
Carrying == {"snapshot", "update", "list"}

Born(w) == creator[w].stage \in {"inserted", "done"}

\* What a poll at program point at with locals l will store, as far as it goes.
Front(at, l) ==
  \/ at \in Loop /\ l.statusOnsale
  \/ at \in Carrying /\ OnSale(l.snap.avail)
  \/ at \notin Loop \cup Carrying /\ OnSale(feed.avail)

\* That poll may still mail w's status alert.
Expects(at, l, w) ==
  \/ at \in Loop /\ \E row \in l.todo : row.watch = w /\ Flip \in row.kinds
  \/ /\ at \in AtRow /\ l.cur.watch = w /\ Flip \in l.cur.kinds
     /\ ~(at = "mark" /\ l.kind = Flip)
Handles(at, l, w) == at \in AtRow /\ l.cur.watch = w

\* There is no watch, or this poll is about to store what it found.
Settled(at, l, w) == ~Born(w) \/ watch[w].status = "deleted" \/ Handles(at, l, w)

Owed(at, l, w) == IF Expects(at, l, w) THEN 1
                  ELSE IF Settled(at, l, w) THEN 0
                  ELSE Up(watch[w].lastEvaluation, Front(at, l))

Debt(at, l, w) ==
  mailed[w][Flip] + Owed(at, l, w) + Up(Front(at, l), OnSale(feed.avail))

\* What there is to pay with: a change of the answer, or a failure.
Credit == spent["moves"] + spent["faults"]

FlipsAreBacked ==
  \A w \in Watches :
    /\ (\A p \in Workers : pc[p] = "idle") => Debt("idle", Blank, w) <= Credit
    /\ \A p \in Workers : pc[p] # "idle" => Debt(pc[p], loc[p], w) <= Credit

\* As long as Ticketmaster's answer has not changed, whoever holds one holds
\* the same: the row, the requests and the polls.
NoNews ==
  spent["moves"] = 0 =>
    /\ event.stored => (OnSale(event.avail) <=> OnSale(feed.avail))
    /\ \A r \in Requests :
         /\ creator[r].stage = "upsert" =>
              (OnSale(creator[r].snap.avail) <=> OnSale(feed.avail))
         /\ creator[r].stage = "resolved" => (creator[r].seed <=> OnSale(feed.avail))
    /\ \A p \in Workers : Front(pc[p], loc[p]) <=> OnSale(feed.avail)

\* The rows in a poll's hands: those of watches, each once.
PollSound(at, l) ==
  /\ at \in Loop =>
       /\ \A r, s \in l.todo : r.watch = s.watch => r = s
       /\ \A r \in l.todo : Born(r.watch)
  /\ at \in AtRow =>
       /\ Born(l.cur.watch)
       /\ \A r \in l.todo : r.watch # l.cur.watch
  /\ at = "notify" => l.kind \in l.cur.kinds

PollsAreSound == \A p \in Workers : PollSound(pc[p], loc[p])

UnbornIsUnmailed == \A w \in Watches : ~Born(w) => mailed[w][Flip] = 0

FlipInv == FlipsAreBacked /\ NoNews /\ PollsAreSound /\ UnbornIsUnmailed

-----------------------------------------------------------------------------
(* Arithmetic. *)
LEMMA UpType == ASSUME NEW a, NEW b PROVE Up(a, b) \in {0, 1}
BY DEF Up

LEMMA Triangle ==
  ASSUME NEW a, NEW b, NEW c
  PROVE  Up(a, c) <= Up(a, b) + Up(b, c) /\ Up(a, b) + Up(b, c) <= 1
BY DEF Up

LEMMA OwedType == ASSUME NEW at, NEW l, NEW w PROVE Owed(at, l, w) \in {0, 1}
BY UpType DEF Owed

LEMMA FlipCounts ==
  ASSUME TypeOK, NEW w \in Watches
  PROVE  mailed[w][Flip] \in Nat /\ Credit \in Nat
BY DEF TypeOK, Flip, Kind, Bound, Credit

\* Whatever the polls are doing, the mails that left are paid for.
LEMMA MailsArePaid ==
  ASSUME TypeOK, FlipsAreBacked, NEW w \in Watches
  PROVE  mailed[w][Flip] <= Credit
<1>1. PICK at, l : Debt(at, l, w) <= Credit
  BY DEF FlipsAreBacked
<1>2. QED
  BY <1>1, OwedType, UpType, FlipCounts DEF Debt

\* A watch owes no more when its poll has the same answer, no alert becomes
\* expected that it did not owe, and what is settled stays so.
LEMMA Relax ==
  ASSUME TypeOK, NEW p \in Workers, NEW w \in Watches,
         mailed'[w][Flip] = mailed[w][Flip], feed' = feed,
         Front(pc[p], loc[p])' <=> Front(pc[p], loc[p]),
         Expects(pc[p], loc[p], w)' => Owed(pc[p], loc[p], w) = 1,
         Settled(pc[p], loc[p], w) => Settled(pc[p], loc[p], w)',
         watch'[w].lastEvaluation = watch[w].lastEvaluation
  PROVE  Debt(pc[p], loc[p], w)' <= Debt(pc[p], loc[p], w)
<1>1. Up(Front(pc[p], loc[p]), OnSale(feed.avail))' = Up(Front(pc[p], loc[p]), OnSale(feed.avail))
  BY DEF Up, OnSale
<1>2. Owed(pc[p], loc[p], w)' <= Owed(pc[p], loc[p], w)
  <2>1. CASE Expects(pc[p], loc[p], w)'
    BY <2>1 DEF Owed
  <2>2. CASE ~Expects(pc[p], loc[p], w)' /\ Settled(pc[p], loc[p], w)'
    BY <2>2, OwedType DEF Owed
  <2>3. CASE ~Expects(pc[p], loc[p], w)' /\ ~Settled(pc[p], loc[p], w)'
    <3>1. Owed(pc[p], loc[p], w)' = Up(watch[w].lastEvaluation, Front(pc[p], loc[p]))
      BY <2>3 DEF Owed, Up
    <3>2. QED
      BY <2>3, <3>1, UpType DEF Owed
  <2>4. QED
    BY <2>1, <2>2, <2>3
<1>3. Owed(pc[p], loc[p], w)' \in {0, 1}
  BY DEF Owed, Up
<1>4. QED
  BY <1>1, <1>2, <1>3, OwedType, UpType, FlipCounts DEF Debt

-----------------------------------------------------------------------------
(* One poll at a time.                                                     *)
LEMMA StepFacts ==
  ASSUME TypeOK, NEW p \in Workers, NEW from, NEW to, NEW l, Step(p, from, to, l)
  PROVE  /\ pc[p] = from /\ pc'[p] = to /\ loc'[p] = l
         /\ \A q \in Workers : q # p => pc'[q] = pc[q] /\ loc'[q] = loc[q]
BY DEF Step, TypeOK

\* A step of the one worker that polls.
SoloStep(p) ==
  /\ pc[p] # "idle" \/ pc'[p] # "idle"
  /\ \A q \in Workers : q # p => pc'[q] = pc[q] /\ loc'[q] = loc[q]

LEMMA WorkIsSolo ==
  ASSUME TypeOK, NEW p \in Workers, Work(p)
  PROVE  SoloStep(p)
<1>1. PICK from, to, l : Step(p, from, to, l) /\ (from # "idle" \/ to # "idle")
  <2>1. CASE \/ TakeJob(p) \/ ReadEvent(p) \/ Fetch(p) \/ InsertAvailabilitySnapshot(p)
             \/ UpdateEventLatest(p) \/ ListActiveWatches(p)
    BY <2>1 DEF TakeJob, ReadEvent, Fetch, InsertAvailabilitySnapshot,
         UpdateEventLatest, ListActiveWatches
  <2>2. CASE NextWatch(p)
    BY <2>2 DEF NextWatch
  <2>3. CASE SetLastEvaluation(p) \/ Withhold(p) \/ Send(p) \/ MarkNotified(p)
    BY <2>3 DEF SetLastEvaluation, Withhold, Send, MarkNotified
  <2>4. CASE ClaimWon(p)
    BY <2>4 DEF ClaimWon
  <2>5. CASE ClaimLost(p)
    BY <2>5 DEF ClaimLost
  <2>6. CASE Unclaimed(p)
    BY <2>6 DEF Unclaimed
  <2>7. CASE ClaimGone(p) \/ CloseWatchesForEvent(p) \/ Finish(p)
    BY <2>7 DEF ClaimGone, CloseWatchesForEvent, Finish, Return
  <2>8. QED
    BY <2>1, <2>2, <2>3, <2>4, <2>5, <2>6, <2>7 DEF Work
<1>2. QED
  BY <1>1, StepFacts DEF SoloStep

LEMMA OthersIdle ==
  ASSUME TypeOK, Alone, Alone', NEW p \in Workers, SoloStep(p)
  PROVE  \A q \in Workers : q # p => pc[q] = "idle" /\ pc'[q] = "idle"
BY DEF Alone, SoloStep

\* It is enough to look at that worker.
LEMMA SoloBacked ==
  ASSUME TypeOK, TypeOK', Alone, Alone', FlipsAreBacked, NEW p \in Workers, SoloStep(p),
         Credit' = Credit,
         \A w \in Watches : Debt(pc[p], loc[p], w)' <= Debt(pc[p], loc[p], w)
  PROVE  FlipsAreBacked'
<1>1. \A q \in Workers : q # p => pc[q] = "idle" /\ pc'[q] = "idle"
  BY OthersIdle
<1>2. SUFFICES ASSUME NEW w \in Watches
               PROVE  /\ (\A q \in Workers : pc'[q] = "idle") => Debt("idle", Blank, w)' <= Credit'
                      /\ \A q \in Workers : pc'[q] # "idle" => Debt(pc[q], loc[q], w)' <= Credit'
  BY DEF FlipsAreBacked
<1>3. pc[p] = "idle" => Debt(pc[p], loc[p], w) = Debt("idle", Blank, w)
  BY DEF Debt, Owed, Expects, Settled, Handles, Front, Loop, AtRow, Carrying
<1>4. pc'[p] = "idle" => Debt(pc[p], loc[p], w)' = Debt("idle", Blank, w)'
  BY DEF Debt, Owed, Expects, Settled, Handles, Front, Loop, AtRow, Carrying
<1>5. Debt(pc[p], loc[p], w) <= Credit
  <2>1. CASE pc[p] = "idle"
    BY <1>1, <1>3, <2>1 DEF FlipsAreBacked
  <2>2. CASE pc[p] # "idle"
    BY <2>2 DEF FlipsAreBacked
  <2>3. QED
    BY <2>1, <2>2
<1>6. Debt(pc[p], loc[p], w)' <= Credit'
  <2>1. Debt(pc[p], loc[p], w) \in Nat /\ Credit \in Nat
    BY OwedType, UpType, FlipCounts DEF Debt
  <2>2. Debt(pc[p], loc[p], w)' \in Nat
    <3>1. mailed'[w][Flip] \in Nat
      BY DEF TypeOK, Flip, Kind
    <3>2. QED
      BY <3>1 DEF Debt, Owed, Up
  <2>3. QED
    BY <1>5, <2>1, <2>2
<1>7. QED
  BY <1>1, <1>4, <1>6

\* Steps that leave the workers where they are, and are paid for by n.
LEMMA StillBacked ==
  ASSUME TypeOK, TypeOK', FlipsAreBacked, UNCHANGED <<pc, loc>>,
         NEW n \in Nat, Credit' = Credit + n,
         \A at, l : \A w \in Watches : Debt(at, l, w)' <= Debt(at, l, w) + n
  PROVE  FlipsAreBacked'
<1>1. SUFFICES ASSUME NEW at, NEW l, NEW w \in Watches, Debt(at, l, w) <= Credit
               PROVE  Debt(at, l, w)' <= Credit'
  BY <1>1 DEF FlipsAreBacked
<1>2. Debt(at, l, w) \in Nat /\ Credit \in Nat
  BY OwedType, UpType, FlipCounts DEF Debt
<1>3. Debt(at, l, w)' \in Nat
  <2>1. mailed'[w][Flip] \in Nat
    BY DEF TypeOK, Flip, Kind
  <2>2. QED
    BY <2>1 DEF Debt, Owed, Up
<1>4. QED
  BY <1>1, <1>2, <1>3

-----------------------------------------------------------------------------
(* The steps of a poll. *)

\* The steps at one row: the alert is claimed, won or not, withheld or marked.
RowStep(p) ==
  ClaimWon(p) \/ ClaimLost(p) \/ Unclaimed(p) \/ Withhold(p) \/ MarkNotified(p)

LEMMA DropShape ==
  ASSUME NEW l \in Locals, NEW k
  PROVE  /\ Drop(l, k).todo = l.todo /\ Drop(l, k).statusOnsale = l.statusOnsale
         /\ Drop(l, k).cur.watch = l.cur.watch
         /\ Drop(l, k).cur.kinds = l.cur.kinds \ {k}
BY DEF Drop, Locals, Row

LEMMA RowShape ==
  ASSUME TypeOK, NEW p \in Workers, RowStep(p)
  PROVE  \E to, l :
           /\ to \in {"kinds", "notify"}
           /\ Step(p, pc[p], to, l)
           /\ pc[p] \in AtRow
           /\ l.todo = loc[p].todo /\ l.statusOnsale = loc[p].statusOnsale
           /\ l.cur.watch = loc[p].cur.watch
           /\ l.cur.kinds \subseteq loc[p].cur.kinds
           /\ pc[p] = "mark" => loc[p].kind \notin l.cur.kinds
           /\ to = "notify" => l.kind \in l.cur.kinds
<1>0. loc[p] \in Locals
  BY DEF TypeOK
<1>1. CASE ClaimWon(p) \/ Unclaimed(p)
  <2>1. PICK k \in FirstKinds(loc[p].cur.kinds) :
          Step(p, "kinds", "notify", [loc[p] EXCEPT !.kind = k])
    <3>1. CASE ClaimWon(p)
      BY <3>1 DEF ClaimWon
    <3>2. CASE Unclaimed(p)
      BY <3>2 DEF Unclaimed
    <3>3. QED
      BY <1>1, <3>1, <3>2
  <2> DEFINE l == [loc[p] EXCEPT !.kind = k]
  <2>2. /\ l.todo = loc[p].todo /\ l.statusOnsale = loc[p].statusOnsale
        /\ l.cur = loc[p].cur /\ l.kind = k
    BY <1>0 DEF Locals
  <2>3. k \in loc[p].cur.kinds
    BY DEF FirstKinds
  <2>4. pc[p] = "kinds"
    BY <2>1 DEF Step
  <2>5. /\ "notify" \in {"kinds", "notify"}
        /\ Step(p, pc[p], "notify", l)
        /\ pc[p] \in AtRow
        /\ pc[p] # "mark"
    BY <2>1, <2>4 DEF AtRow
  <2> HIDE DEF l
  <2>6. QED
    BY <2>2, <2>3, <2>5
<1>2. CASE ClaimLost(p) \/ Withhold(p) \/ MarkNotified(p)
  <2>1. PICK k : /\ Step(p, pc[p], "kinds", Drop(loc[p], k))
                 /\ pc[p] \in AtRow
                 /\ pc[p] = "mark" => k = loc[p].kind
    <3>1. CASE ClaimLost(p)
      BY <3>1 DEF ClaimLost, Step, AtRow
    <3>2. CASE Withhold(p) \/ MarkNotified(p)
      BY <3>2 DEF Withhold, MarkNotified, Step, AtRow
    <3>3. QED
      BY <1>2, <3>1, <3>2
  <2>2. QED
    BY <1>0, <2>1, DropShape
<1>3. QED
  BY <1>1, <1>2 DEF RowStep

LEMMA RowFrame ==
  ASSUME NEW p \in Workers, RowStep(p)
  PROVE  UNCHANGED <<feed, spent, event, watch, creator, mailed>>
BY DEF RowStep, ClaimWon, ClaimLost, Unclaimed, Withhold, MarkNotified, env, db,
   people, ghosts

\* The rows a poll lists: each watch once, and a status alert only for one
\* that was not on sale when it was evaluated last.
LEMMA ListShape ==
  ASSUME TypeOK, NEW p \in Workers, ListActiveWatches(p)
  PROVE  \E l :
           /\ Step(p, "list", "watches", l)
           /\ l.statusOnsale <=> OnSale(loc[p].snap.avail)
           /\ \A r, s \in l.todo : r.watch = s.watch => r = s
           /\ \A r \in l.todo :
                /\ r.watch \in Active
                /\ Flip \in r.kinds =>
                     OnSale(loc[p].snap.avail) /\ ~watch[r.watch].lastEvaluation
<1> DEFINE listed == {[watch |-> v, kinds |-> Verdict(loc[p], v).kinds,
                       mayMail |-> MayMail(consent[Owner[v]])] : v \in Active}
           l == [Blank EXCEPT
                   !.todo = listed,
                   !.statusOnsale = loc[p].snap.avail = "onsale",
                   !.closing = \E v \in Active : Verdict(loc[p], v).closeWatch]
<1>1. Step(p, "list", "watches", l)
  BY DEF ListActiveWatches
<1>2. l.todo = listed /\ (l.statusOnsale <=> OnSale(loc[p].snap.avail))
  BY DEF Blank, OnSale
<1>3. \A r, s \in listed : r.watch = s.watch => r = s
  OBVIOUS
<1>4. ASSUME NEW r \in listed
      PROVE  /\ r.watch \in Active
             /\ Flip \in r.kinds =>
                  OnSale(loc[p].snap.avail) /\ ~watch[r.watch].lastEvaluation
  <2>1. PICK v \in Active : r.watch = v /\ r.kinds = Verdict(loc[p], v).kinds
    BY <1>4
  <2>2. Flip \in Verdict(loc[p], v).kinds =>
          loc[p].snap.avail = "onsale" /\ ~watch[v].lastEvaluation
    BY DEF Verdict, Evaluate, SaleKinds, Holds, ObservationOf, Flip
  <2>3. QED
    BY <2>1, <2>2 DEF OnSale
<1> HIDE DEF l, listed
<1>5. QED
  BY <1>1, <1>2, <1>3, <1>4

\* Until it ends, a poll goes on with the answer it has.
LEMMA FrontWork ==
  ASSUME TypeOK, NEW p \in Workers, Work(p)
  PROVE  /\ feed' = feed
         /\ pc'[p] = "idle" \/ (Front(pc[p], loc[p])' <=> Front(pc[p], loc[p]))
<1>0. loc[p] \in Locals
  BY DEF TypeOK
<1>1. feed' = feed
  BY DEF Work, TakeJob, ReadEvent, Fetch, InsertAvailabilitySnapshot,
     UpdateEventLatest, ListActiveWatches, NextWatch, ClaimWon, ClaimLost,
     ClaimGone, Unclaimed, Withhold, Send, MarkNotified,
     SetLastEvaluation, CloseWatchesForEvent, Finish, env
<1>2. ASSUME NEW from, NEW to, NEW l, Step(p, from, to, l),
             Front(to, l) <=> Front(from, loc[p])
      PROVE  Front(pc[p], loc[p])' <=> Front(pc[p], loc[p])
  BY <1>1, <1>2, StepFacts DEF Front, OnSale
<1>3. CASE TakeJob(p) \/ ReadEvent(p)
  BY <1>1, <1>2, <1>3 DEF TakeJob, ReadEvent, Front, Loop, Carrying
<1>4. CASE Fetch(p)
  <2> DEFINE to == IF changed(loc[p].stored, feed.avail) THEN "snapshot" ELSE "update"
             l == [loc[p] EXCEPT !.snap = feed, !.stored = "unknown"]
  <2>1. Step(p, "fetch", to, l)
    BY <1>4 DEF Fetch
  <2>2. l.snap = feed /\ to \in {"snapshot", "update"}
    BY <1>0 DEF Locals
  <2> HIDE DEF l, to
  <2>3. Front(to, l) <=> Front("fetch", loc[p])
    BY <2>2 DEF Front, Loop, Carrying
  <2>4. QED
    BY <1>1, <1>2, <2>1, <2>3
<1>5. CASE InsertAvailabilitySnapshot(p) \/ UpdateEventLatest(p)
  <2>1. PICK from, to, l :
          /\ Step(p, from, to, l)
          /\ from \in {"snapshot", "update"} /\ to \in {"update", "list"}
          /\ l.snap = loc[p].snap
    <3>1. [loc[p] EXCEPT !.at = now].snap = loc[p].snap
      BY <1>0 DEF Locals
    <3>2. QED
      BY <1>5, <3>1 DEF InsertAvailabilitySnapshot, UpdateEventLatest
  <2>2. Front(to, l) <=> Front(from, loc[p])
    BY <2>1 DEF Front, Loop, Carrying
  <2>3. QED
    BY <1>1, <1>2, <2>1, <2>2
<1>6. CASE ListActiveWatches(p)
  <2>1. PICK l : Step(p, "list", "watches", l)
                 /\ (l.statusOnsale <=> OnSale(loc[p].snap.avail))
    BY <1>6, ListShape
  <2>2. Front("watches", l) <=> Front("list", loc[p])
    BY <2>1 DEF Front, Loop, Carrying, OnSale
  <2>3. QED
    BY <1>1, <1>2, <2>1, <2>2
<1>7. ASSUME NEW from \in Loop, NEW to \in Loop, NEW l, Step(p, from, to, l),
             l.statusOnsale = loc[p].statusOnsale
      PROVE  Front(pc[p], loc[p])' <=> Front(pc[p], loc[p])
  <2>1. Front(to, l) <=> Front(from, loc[p])
    BY <1>7 DEF Front, Loop, Carrying
  <2>2. QED
    BY <1>2, <1>7, <2>1
<1>8. CASE NextWatch(p)
  <2>1. PICK row \in loc[p].todo :
          Step(p, "watches", "kinds", [loc[p] EXCEPT !.todo = @ \ {row}, !.cur = row])
    BY <1>8 DEF NextWatch
  <2>2. [loc[p] EXCEPT !.todo = @ \ {row}, !.cur = row].statusOnsale = loc[p].statusOnsale
    BY <1>0 DEF Locals
  <2>3. QED
    BY <1>1, <1>7, <2>1, <2>2 DEF Loop
<1>9. CASE RowStep(p)
  <2>1. PICK to, l : /\ to \in {"kinds", "notify"}
                     /\ Step(p, pc[p], to, l)
                     /\ pc[p] \in AtRow
                     /\ l.statusOnsale = loc[p].statusOnsale
    BY <1>9, RowShape
  <2>2. QED
    BY <1>1, <1>7, <2>1 DEF Loop, AtRow
<1>10. CASE Send(p)
  BY <1>1, <1>7, <1>10 DEF Send, Loop
<1>11. CASE SetLastEvaluation(p)
  <2>1. Step(p, "kinds", "watches", [loc[p] EXCEPT !.cur = NoRow])
    BY <1>11 DEF SetLastEvaluation
  <2>2. [loc[p] EXCEPT !.cur = NoRow].statusOnsale = loc[p].statusOnsale
    BY <1>0 DEF Locals
  <2>3. QED
    BY <1>1, <1>7, <2>1, <2>2 DEF Loop
<1>12. CASE ClaimGone(p) \/ CloseWatchesForEvent(p) \/ Finish(p)
  BY <1>1, <1>12, StepFacts DEF ClaimGone, CloseWatchesForEvent, Finish, Return
<1>13. QED
  BY <1>1, <1>3, <1>4, <1>5, <1>6, <1>8, <1>9, <1>10, <1>11, <1>12 DEF Work, RowStep

\* A step of a poll that mails no status alert and stores no status.
LEMMA QuietDebt ==
  ASSUME TypeOK, NEW p \in Workers, Work(p), pc'[p] # "idle", NEW w \in Watches,
         NEW from, NEW to, NEW l, Step(p, from, to, l),
         mailed'[w][Flip] = mailed[w][Flip], creator' = creator, watch'[w] = watch[w],
         Expects(to, l, w) => Owed(from, loc[p], w) = 1,
         Handles(from, loc[p], w) => Handles(to, l, w)
  PROVE  Debt(pc[p], loc[p], w)' <= Debt(pc[p], loc[p], w)
<1>1. pc[p] = from /\ pc'[p] = to /\ loc'[p] = l
  BY StepFacts
<1>2. Expects(pc[p], loc[p], w)' => Owed(pc[p], loc[p], w) = 1
  BY <1>1 DEF Expects
<1>3. Settled(pc[p], loc[p], w) => Settled(pc[p], loc[p], w)'
  BY <1>1 DEF Settled, Born, Handles
<1>4. QED
  BY <1>2, <1>3, FrontWork, Relax

\* Up to the list, no poll expects or handles anything.
LEMMA EarlyDebt ==
  ASSUME TypeOK, NEW p \in Workers, NEW w \in Watches,
         \/ TakeJob(p) \/ ReadEvent(p) \/ Fetch(p) \/ InsertAvailabilitySnapshot(p)
         \/ UpdateEventLatest(p)
  PROVE  Debt(pc[p], loc[p], w)' <= Debt(pc[p], loc[p], w)
<1>1. PICK from, to, l :
        /\ Step(p, from, to, l)
        /\ from \notin Loop /\ to \notin Loop /\ to # "idle"
  BY DEF TakeJob, ReadEvent, Fetch, InsertAvailabilitySnapshot, UpdateEventLatest, Loop
<1>2. UNCHANGED <<watch, creator, mailed>> /\ Work(p)
  BY DEF Work, TakeJob, ReadEvent, Fetch, InsertAvailabilitySnapshot,
     UpdateEventLatest, db, people, ghosts
<1>3. ~Expects(to, l, w) /\ ~Handles(from, loc[p], w)
  BY <1>1 DEF Expects, Handles, Loop, AtRow
<1>4. pc'[p] # "idle"
  BY <1>1, StepFacts
<1>5. QED
  BY <1>1, <1>2, <1>3, <1>4, QuietDebt

\* The listing: a watch whose alert is expected was owed it.
LEMMA ListDebt ==
  ASSUME TypeOK, UnbornIsNone, NEW p \in Workers, NEW w \in Watches, ListActiveWatches(p)
  PROVE  Debt(pc[p], loc[p], w)' <= Debt(pc[p], loc[p], w)
<1>1. PICK l :
        /\ Step(p, "list", "watches", l)
        /\ \A r \in l.todo :
             /\ r.watch \in Active
             /\ Flip \in r.kinds =>
                  OnSale(loc[p].snap.avail) /\ ~watch[r.watch].lastEvaluation
  BY ListShape
<1>2. UNCHANGED <<watch, creator, mailed>> /\ Work(p)
  BY DEF Work, ListActiveWatches, db, people
<1>3. ASSUME Expects("watches", l, w) PROVE Owed("list", loc[p], w) = 1
  <2>1. w \in Active /\ OnSale(loc[p].snap.avail) /\ ~watch[w].lastEvaluation
    BY <1>1, <1>3 DEF Expects, AtRow
  <2>2. Born(w) /\ watch[w].status # "deleted"
    BY <2>1 DEF Active, UnbornIsNone, Born
  <2>3. ~Settled("list", loc[p], w) /\ Front("list", loc[p])
    BY <2>1, <2>2 DEF Settled, Handles, AtRow, Front, Carrying
  <2>4. QED
    BY <2>1, <2>3 DEF Owed, Up
<1>4. ~Handles("list", loc[p], w)
  BY DEF Handles, AtRow
<1>5. pc'[p] # "idle"
  BY <1>1, StepFacts
<1>6. QED
  BY <1>1, <1>2, <1>3, <1>4, <1>5, QuietDebt

\* The next row: what is expected of it was expected.
LEMMA NextWatchDebt ==
  ASSUME TypeOK, NEW p \in Workers, NEW w \in Watches, NextWatch(p)
  PROVE  Debt(pc[p], loc[p], w)' <= Debt(pc[p], loc[p], w)
<1>1. PICK row \in loc[p].todo :
        Step(p, "watches", "kinds", [loc[p] EXCEPT !.todo = @ \ {row}, !.cur = row])
  BY DEF NextWatch
<1> DEFINE l == [loc[p] EXCEPT !.todo = @ \ {row}, !.cur = row]
<1>2. l.todo = loc[p].todo \ {row} /\ l.cur = row
  BY DEF TypeOK, Locals
<1>3. Step(p, "watches", "kinds", l)
  BY <1>1
<1>4. UNCHANGED <<watch, creator, mailed>> /\ Work(p)
  BY DEF Work, NextWatch, db, people, ghosts
<1> HIDE DEF l
<1>5. Expects("kinds", l, w) => Owed("watches", loc[p], w) = 1
  BY <1>2 DEF Expects, Owed, Loop, AtRow
<1>6. ~Handles("watches", loc[p], w)
  BY DEF Handles, AtRow
<1>7. pc'[p] # "idle"
  BY <1>3, StepFacts
<1>8. QED
  BY <1>3, <1>4, <1>5, <1>6, <1>7, QuietDebt

LEMMA RowDebt ==
  ASSUME TypeOK, NEW p \in Workers, NEW w \in Watches, RowStep(p)
  PROVE  Debt(pc[p], loc[p], w)' <= Debt(pc[p], loc[p], w)
<1>1. PICK to, l :
        /\ to \in {"kinds", "notify"}
        /\ Step(p, pc[p], to, l)
        /\ pc[p] \in AtRow
        /\ l.todo = loc[p].todo
        /\ l.cur.watch = loc[p].cur.watch
        /\ l.cur.kinds \subseteq loc[p].cur.kinds
        /\ pc[p] = "mark" => loc[p].kind \notin l.cur.kinds
  BY RowShape
<1>2. Expects(to, l, w) => Owed(pc[p], loc[p], w) = 1
  BY <1>1 DEF Expects, Owed, Loop, AtRow
<1>3. Handles(pc[p], loc[p], w) => Handles(to, l, w)
  BY <1>1 DEF Handles, AtRow
<1>4. UNCHANGED <<watch, creator, mailed>> /\ Work(p)
  BY RowFrame DEF RowStep, Work
<1>5. pc'[p] # "idle"
  BY <1>1, StepFacts
<1>6. QED
  BY <1>1, <1>2, <1>3, <1>4, <1>5, QuietDebt

\* A status mail uses up what its watch was owed.
LEMMA SendDebt ==
  ASSUME TypeOK, PollsAreSound, NEW p \in Workers, NEW w \in Watches, Send(p)
  PROVE  Debt(pc[p], loc[p], w)' <= Debt(pc[p], loc[p], w)
<1>1. Step(p, "notify", "mark", loc[p]) /\ Work(p)
  BY DEF Send, Work
<1>2. pc[p] = "notify" /\ pc'[p] = "mark" /\ loc'[p] = loc[p]
  BY <1>1, StepFacts
<1>3. UNCHANGED <<watch, creator>>
  BY DEF Send, db, people
<1>4. mailed' = [mailed EXCEPT ![loc[p].cur.watch][loc[p].kind] = @ + 1]
  BY DEF Send
<1>5. PollSound("notify", loc[p])
  BY <1>2 DEF PollsAreSound
<1>6. CASE loc[p].cur.watch = w /\ loc[p].kind = Flip
  <2>1. Expects("notify", loc[p], w) /\ ~Expects("mark", loc[p], w)
    BY <1>5, <1>6 DEF PollSound, Expects, AtRow
  <2>2. Handles("mark", loc[p], w)
    BY <1>6 DEF Handles, AtRow
  <2>3. Owed(pc[p], loc[p], w) = 1
    BY <1>2, <2>1 DEF Owed
  <2>4. Owed(pc[p], loc[p], w)' = 0
    BY <1>2, <2>1, <2>2 DEF Owed, Expects, Settled, Handles
  <2>5. mailed'[w][Flip] = mailed[w][Flip] + 1
    BY <1>4, <1>6 DEF TypeOK, Flip, Kind
  <2>6. Up(Front(pc[p], loc[p]), OnSale(feed.avail))'
        = Up(Front(pc[p], loc[p]), OnSale(feed.avail))
    BY <1>1, <1>2, FrontWork DEF Up, OnSale
  <2>7. QED
    BY <2>3, <2>4, <2>5, <2>6, FlipCounts, UpType DEF Debt
<1>7. CASE ~(loc[p].cur.watch = w /\ loc[p].kind = Flip)
  <2>1. mailed'[w][Flip] = mailed[w][Flip]
    BY <1>4, <1>7, CurrentType DEF TypeOK
  <2>2. Expects("mark", loc[p], w) => Owed("notify", loc[p], w) = 1
    BY DEF Expects, Owed, Loop, AtRow
  <2>3. Handles("notify", loc[p], w) => Handles("mark", loc[p], w)
    BY DEF Handles, AtRow
  <2>4. QED
    BY <1>1, <1>2, <1>3, <2>1, <2>2, <2>3, QuietDebt
<1>8. QED
  BY <1>6, <1>7

\* What the poll found is stored: from here to the watch nothing is owed.
LEMMA StoreDebt ==
  ASSUME TypeOK, PollsAreSound, NEW p \in Workers, NEW w \in Watches, SetLastEvaluation(p)
  PROVE  Debt(pc[p], loc[p], w)' <= Debt(pc[p], loc[p], w)
<1> DEFINE l == [loc[p] EXCEPT !.cur = NoRow]
           v == loc[p].cur.watch
<1>1. Step(p, "kinds", "watches", l) /\ Work(p)
  BY DEF SetLastEvaluation, Work
<1>2. UNCHANGED <<creator, mailed>>
  BY DEF SetLastEvaluation, people, ghosts
<1>3. l.todo = loc[p].todo /\ l.statusOnsale = loc[p].statusOnsale
  BY DEF TypeOK, Locals
<1>4. watch' = IF watch[v].status = "deleted" THEN watch
               ELSE [watch EXCEPT ![v] = Evaluated(@, loc[p].statusOnsale)]
  BY DEF SetLastEvaluation
<1> HIDE DEF l
<1>5. pc[p] = "kinds" /\ pc'[p] = "watches" /\ loc'[p] = l
  BY <1>1, StepFacts
<1>6. PollSound("kinds", loc[p])
  BY <1>5 DEF PollsAreSound
<1>7. CASE w # v
  <2>1. Expects("watches", l, w) => Owed("kinds", loc[p], w) = 1
    BY <1>3 DEF Expects, Owed, Loop, AtRow
  <2>2. ~Handles("kinds", loc[p], w)
    BY <1>7 DEF Handles
  <2>3. watch'[w] = watch[w]
    BY <1>4, <1>7 DEF TypeOK
  <2>4. QED
    BY <1>1, <1>2, <1>5, <2>1, <2>2, <2>3, QuietDebt
<1>8. CASE w = v
  <2>1. ~Expects("watches", l, w)
    BY <1>3, <1>6, <1>8 DEF PollSound, Expects, Loop, AtRow
  <2>2. ~Expects(pc[p], loc[p], w)'
    BY <1>5, <2>1 DEF Expects
  <2>3. Owed(pc[p], loc[p], w)' = 0
    <3>1. CASE watch[w].status = "deleted"
      <4>1. Settled(pc[p], loc[p], w)'
        BY <1>4, <1>8, <3>1 DEF Settled
      <4>2. QED
        BY <2>2, <4>1 DEF Owed
    <3>2. CASE watch[w].status # "deleted"
      <4>1. watch'[w].lastEvaluation = loc[p].statusOnsale
        BY <1>4, <1>8, <3>2 DEF TypeOK, WatchRow, Evaluated
      <4>2. Front(pc[p], loc[p])' <=> loc[p].statusOnsale
        BY <1>3, <1>5 DEF Front, Loop, Carrying
      <4>3. Up(watch[w].lastEvaluation, Front(pc[p], loc[p]))' = 0
        BY <4>1, <4>2 DEF Up
      <4>4. QED
        BY <2>2, <4>3 DEF Owed
    <3>3. QED
      BY <3>1, <3>2
  <2>4. Up(Front(pc[p], loc[p]), OnSale(feed.avail))'
        = Up(Front(pc[p], loc[p]), OnSale(feed.avail))
    BY <1>1, <1>5, FrontWork DEF Up, OnSale
  <2>5. QED
    BY <1>2, <2>3, <2>4, OwedType, UpType, FlipCounts DEF Debt
<1>9. QED
  BY <1>7, <1>8

\* The ways a poll ends: its answer drops out of the chain.
LEMMA EndDebt ==
  ASSUME TypeOK, NEW p \in Workers, NEW w \in Watches,
         ClaimGone(p) \/ CloseWatchesForEvent(p) \/ Finish(p)
  PROVE  Debt(pc[p], loc[p], w)' <= Debt(pc[p], loc[p], w)
<1>1. PICK from \in {"kinds", "watches"} : Step(p, from, "idle", Blank)
  BY DEF ClaimGone, CloseWatchesForEvent, Finish, Return
<1>2. UNCHANGED <<feed, creator, mailed>>
  BY DEF ClaimGone, CloseWatchesForEvent, Finish, env, people, ghosts
<1>3. pc[p] = from /\ pc'[p] = "idle"
  BY <1>1, StepFacts
<1>4. /\ watch'[w].lastEvaluation = watch[w].lastEvaluation
      /\ watch[w].status = "deleted" => watch'[w].status = "deleted"
  BY DEF ClaimGone, CloseWatchesForEvent, Finish, Active, db, TypeOK, WatchRow
<1>5. Handles(from, loc[p], w) => watch'[w].status = "deleted"
  <2>1. SUFFICES ASSUME Handles(from, loc[p], w) PROVE watch'[w].status = "deleted"
    OBVIOUS
  <2>2. pc[p] = "kinds" /\ loc[p].cur.watch = w
    BY <1>1, <1>3, <2>1 DEF Handles, AtRow
  <2>3. ClaimGone(p)
    BY <2>2 DEF CloseWatchesForEvent, Finish, Return, Step
  <2>4. QED
    BY <1>4, <2>2, <2>3 DEF ClaimGone
<1>6. ~Expects(pc[p], loc[p], w)'
  BY <1>3 DEF Expects, Loop, AtRow
<1>7. Settled(from, loc[p], w) => Settled(pc[p], loc[p], w)'
  BY <1>2, <1>4, <1>5 DEF Settled, Born
<1>8. Front(pc[p], loc[p])' <=> OnSale(feed.avail)
  BY <1>2, <1>3 DEF Front, Loop, Carrying, OnSale
<1>9. Up(Front(pc[p], loc[p]), OnSale(feed.avail))' = 0
  BY <1>2, <1>8 DEF Up, OnSale
<1>10. Owed(pc[p], loc[p], w)'
       <= Owed(from, loc[p], w) + Up(Front(from, loc[p]), OnSale(feed.avail))
  <2>1. CASE Settled(pc[p], loc[p], w)'
    <3>1. Owed(pc[p], loc[p], w)' = 0
      BY <1>6, <2>1 DEF Owed
    <3>2. QED
      BY <3>1, OwedType, UpType
  <2>2. CASE ~Settled(pc[p], loc[p], w)'
    <3>1. Owed(pc[p], loc[p], w)' = Up(watch[w].lastEvaluation, OnSale(feed.avail))
      BY <1>4, <1>6, <1>8, <2>2 DEF Owed, Up
    <3>2. CASE Expects(from, loc[p], w)
      BY <3>1, <3>2, UpType DEF Owed
    <3>3. CASE ~Expects(from, loc[p], w)
      <4>1. Owed(from, loc[p], w) = Up(watch[w].lastEvaluation, Front(from, loc[p]))
        BY <1>7, <2>2, <3>3 DEF Owed
      <4>2. QED
        BY <3>1, <4>1, Triangle
    <3>4. QED
      BY <3>2, <3>3
  <2>3. QED
    BY <2>1, <2>2
<1>11. Owed(pc[p], loc[p], w)' \in {0, 1}
  BY DEF Owed, Up
<1>12. Debt(pc[p], loc[p], w) = mailed[w][Flip] + Owed(from, loc[p], w)
                                + Up(Front(from, loc[p]), OnSale(feed.avail))
  BY <1>3 DEF Debt
<1>13. Debt(pc[p], loc[p], w)' = mailed[w][Flip] + Owed(pc[p], loc[p], w)'
  BY <1>2, <1>9, <1>11, FlipCounts DEF Debt
<1>14. QED
  BY <1>10, <1>11, <1>12, <1>13, OwedType, UpType, FlipCounts

LEMMA WorkBacked ==
  ASSUME TypeOK, TypeOK', Alone, Alone', UnbornIsNone, FlipsAreBacked, PollsAreSound,
         NEW p \in Workers, Work(p)
  PROVE  FlipsAreBacked'
<1>1. SoloStep(p)
  BY WorkIsSolo
<1>2. Credit' = Credit
  BY DEF Work, TakeJob, ReadEvent, Fetch, InsertAvailabilitySnapshot,
     UpdateEventLatest, ListActiveWatches, NextWatch, ClaimWon, ClaimLost,
     ClaimGone, Unclaimed, Withhold, Send, MarkNotified,
     SetLastEvaluation, CloseWatchesForEvent, Finish, env, Credit
<1>3. \A w \in Watches : Debt(pc[p], loc[p], w)' <= Debt(pc[p], loc[p], w)
  BY EarlyDebt, ListDebt, NextWatchDebt, RowDebt, SendDebt, StoreDebt, EndDebt
  DEF Work, RowStep
<1>4. QED
  BY <1>1, <1>2, <1>3, SoloBacked

-----------------------------------------------------------------------------
(* The environment and the requests. *)

\* A watch that neither appears nor is evaluated owes no more than before.
LEMMA OutsideDebt ==
  ASSUME TypeOK, NEW w \in Watches, NEW at, NEW l,
         mailed' = mailed, feed' = feed, Born(w)' <=> Born(w),
         watch'[w].lastEvaluation = watch[w].lastEvaluation,
         watch[w].status = "deleted" => watch'[w].status = "deleted"
  PROVE  Debt(at, l, w)' <= Debt(at, l, w)
<1>1. Front(at, l)' <=> Front(at, l)
  BY DEF Front, OnSale
<1>2. Up(Front(at, l), OnSale(feed.avail))' = Up(Front(at, l), OnSale(feed.avail))
  BY <1>1 DEF Up, OnSale
<1>3. /\ Expects(at, l, w)' <=> Expects(at, l, w)
      /\ Settled(at, l, w) => Settled(at, l, w)'
  BY DEF Expects, Settled, Handles
<1>4. Up(watch[w].lastEvaluation, Front(at, l))' = Up(watch[w].lastEvaluation, Front(at, l))
  BY <1>1 DEF Up
<1>5. Owed(at, l, w)' <= Owed(at, l, w)
  BY <1>3, <1>4, UpType DEF Owed
<1>6. Owed(at, l, w)' \in {0, 1}
  BY DEF Owed, Up
<1>7. QED
  BY <1>2, <1>5, <1>6, OwedType, UpType, FlipCounts DEF Debt

\* A change of the answer pays for the one place it may add.
LEMMA UpstreamBacked ==
  ASSUME TypeOK, TypeOK', FlipsAreBacked, Upstream
  PROVE  FlipsAreBacked'
<1>1. UNCHANGED <<pc, loc, watch, creator, mailed>>
  BY DEF Upstream, db, people, engine, ghosts
<1>2. Credit' = Credit + 1
  BY DEF Upstream, Spend, Credit, TypeOK, Bound
<1>3. ASSUME NEW at, NEW l, NEW w \in Watches
      PROVE  Debt(at, l, w)' <= Debt(at, l, w) + 1
  <2>1. /\ Expects(at, l, w)' <=> Expects(at, l, w)
        /\ Settled(at, l, w)' <=> Settled(at, l, w)
    BY <1>1 DEF Expects, Settled, Handles, Born
  <2>2. mailed'[w][Flip] = mailed[w][Flip]
    BY <1>1
  <2>3. CASE at \in Loop \cup Carrying
    <3>1. Front(at, l)' <=> Front(at, l)
      BY <2>3 DEF Front, OnSale
    <3>2. Owed(at, l, w)' = Owed(at, l, w)
      BY <1>1, <2>1, <3>1 DEF Owed, Up
    <3>3. Up(Front(at, l), OnSale(feed.avail))' \in {0, 1}
      BY DEF Up
    <3>4. QED
      BY <2>2, <3>2, <3>3, OwedType, UpType, FlipCounts DEF Debt
  <2>4. CASE at \notin Loop \cup Carrying
    <3>1. Front(at, l) <=> OnSale(feed.avail)
      BY <2>4 DEF Front
    <3>2. Front(at, l)' <=> OnSale(feed.avail)'
      BY <2>4 DEF Front, OnSale
    <3>3. /\ Up(Front(at, l), OnSale(feed.avail)) = 0
          /\ Up(Front(at, l), OnSale(feed.avail))' = 0
      BY <3>1, <3>2 DEF Up
    <3>4. Owed(at, l, w)' \in {0, 1}
      BY DEF Owed, Up
    <3>5. QED
      BY <2>2, <3>3, <3>4, OwedType, FlipCounts DEF Debt
  <2>5. QED
    BY <2>3, <2>4
<1>4. QED
  BY <1>1, <1>2, <1>3, StillBacked

\* A watch is inserted.  Either Ticketmaster has not changed its answer yet,
\* and the seed says the same, or a change pays for the one place there may be.
LEMMA InsertBacked ==
  ASSUME TypeOK, TypeOK', FlipInv, NEW v \in Watches, CreateInsert(v)
  PROVE  FlipsAreBacked'
<1>1. UNCHANGED <<pc, loc, feed, spent, mailed>> /\ Credit' = Credit
  BY DEF CreateInsert, env, engine, Credit
<1>2. v \in Requests /\ creator[v].stage = "resolved"
  BY ConstantsAssumption DEF CreateInsert
<1>3. watch'[v].lastEvaluation = creator[v].seed /\ watch'[v].status = "active"
  BY DEF CreateInsert, TypeOK
<1>4. mailed'[v][Flip] = 0 /\ ~Born(v)
  BY <1>1, <1>2 DEF FlipInv, UnbornIsUnmailed, Born
<1>5. ASSUME NEW at, NEW l, ~Expects(at, l, v),
             spent["moves"] = 0 => (Front(at, l) <=> OnSale(feed.avail))
      PROVE  Debt(at, l, v)' <= Credit'
  <2>1. (Front(at, l)' <=> Front(at, l)) /\ (OnSale(feed.avail)' <=> OnSale(feed.avail))
    BY <1>1 DEF Front, OnSale
  <2>2. ~Expects(at, l, v)'
    BY <1>5 DEF Expects
  <2>3. Owed(at, l, v)' \in {0, Up(creator[v].seed, Front(at, l))}
    BY <1>3, <2>1, <2>2 DEF Owed, Up
  <2>4. Debt(at, l, v)' = Owed(at, l, v)' + Up(Front(at, l), OnSale(feed.avail))
    <3>1. Up(Front(at, l), OnSale(feed.avail))' = Up(Front(at, l), OnSale(feed.avail))
      BY <2>1 DEF Up
    <3>2. QED
      BY <1>4, <2>3, <3>1, UpType DEF Debt
  <2>5. CASE spent["moves"] = 0
    <3>1. (creator[v].seed <=> OnSale(feed.avail)) /\ (Front(at, l) <=> OnSale(feed.avail))
      BY <1>2, <1>5, <2>5 DEF FlipInv, NoNews
    <3>2. /\ Up(creator[v].seed, Front(at, l)) = 0
          /\ Up(Front(at, l), OnSale(feed.avail)) = 0
      BY <3>1 DEF Up
    <3>3. Debt(at, l, v)' = 0
      BY <2>3, <2>4, <3>2
    <3>4. QED
      BY <1>1, <3>3, FlipCounts
  <2>6. CASE spent["moves"] # 0
    <3>1. Credit >= 1
      BY <2>6 DEF Credit, TypeOK, Bound
    <3>2. Debt(at, l, v)' <= 1
      BY <2>3, <2>4, Triangle, UpType
    <3>3. Debt(at, l, v)' \in Nat
      BY <2>3, <2>4, UpType
    <3>4. QED
      BY <1>1, <3>1, <3>2, <3>3, FlipCounts
  <2>7. QED
    BY <2>5, <2>6
<1>6. ASSUME NEW w \in Watches, w # v, NEW at, NEW l, Debt(at, l, w) <= Credit
      PROVE  Debt(at, l, w)' <= Credit'
  <2>1. (Born(w)' <=> Born(w)) /\ watch'[w] = watch[w]
    <3>1. w \in Requests
      BY ConstantsAssumption
    <3>2. QED
      BY <1>6, <3>1 DEF CreateInsert, Born, TypeOK
  <2>2. Debt(at, l, w)' <= Debt(at, l, w)
    BY <1>1, <2>1, OutsideDebt
  <2>3. Debt(at, l, w) \in Nat
    BY OwedType, UpType, FlipCounts DEF Debt
  <2>4. Debt(at, l, w)' \in Nat
    <3>1. mailed'[w][Flip] \in Nat
      BY DEF TypeOK, Flip, Kind
    <3>2. QED
      BY <3>1 DEF Debt, Owed, Up
  <2>5. QED
    BY <1>1, <1>6, <2>2, <2>3, <2>4, FlipCounts
<1>7. ~Expects("idle", Blank, v) /\ (Front("idle", Blank) <=> OnSale(feed.avail))
  BY DEF Expects, Front, Loop, AtRow, Carrying
<1>8. ASSUME NEW p \in Workers
      PROVE  /\ ~Expects(pc[p], loc[p], v)
             /\ spent["moves"] = 0 => (Front(pc[p], loc[p]) <=> OnSale(feed.avail))
  <2>1. PollSound(pc[p], loc[p])
    BY DEF FlipInv, PollsAreSound
  <2>2. QED
    BY <1>4, <2>1 DEF PollSound, Expects, FlipInv, NoNews
<1>9. QED
  BY <1>1, <1>5, <1>6, <1>7, <1>8 DEF FlipsAreBacked, FlipInv

LEMMA BackedNext ==
  ASSUME TypeOK, TypeOK', Alone, Alone', UnbornIsNone, FlipInv, Normal
  PROVE  FlipsAreBacked'
<1>1. ASSUME UNCHANGED <<pc, loc, mailed, feed>>, Credit' = Credit,
             \A w \in Watches :
               /\ Born(w)' <=> Born(w)
               /\ watch'[w].lastEvaluation = watch[w].lastEvaluation
               /\ watch[w].status = "deleted" => watch'[w].status = "deleted"
      PROVE  FlipsAreBacked'
  <2>1. ASSUME NEW at, NEW l, NEW w \in Watches PROVE Debt(at, l, w)' <= Debt(at, l, w) + 0
    <3>1. Debt(at, l, w)' <= Debt(at, l, w)
      BY <1>1, OutsideDebt
    <3>2. Debt(at, l, w) \in Nat
      BY OwedType, UpType, FlipCounts DEF Debt
    <3>3. QED
      BY <3>1, <3>2
  <2>2. Credit' = Credit + 0
    <3>1. Credit \in Nat
      BY DEF TypeOK, Bound, Credit
    <3>2. QED
      BY <1>1, <3>1
  <2>3. QED
    BY <1>1, <2>1, <2>2, StillBacked DEF FlipInv
<1>2. CASE Tick \/ IntervalElapses \/ Enqueue
  <2>1. UNCHANGED <<pc, loc, mailed, watch, creator, feed, spent>>
    BY <1>2 DEF Tick, IntervalElapses, Enqueue, env, db, people, engine, ghosts
  <2>2. QED
    BY <1>1, <2>1 DEF Credit, Born
<1>3. CASE Upstream
  BY <1>3, UpstreamBacked DEF FlipInv
<1>4. ASSUME NEW r \in Requests,
             CreateResolve(r) \/ CreateFetch(r) \/ CreateUpsert(r) \/ CreateRejected(r)
      PROVE  FlipsAreBacked'
  <2>1. UNCHANGED <<pc, loc, mailed, watch, feed, spent>>
    BY <1>4 DEF CreateResolve, CreateFetch, CreateUpsert, CreateRejected, env, db, engine,
         ghosts
  <2>2. ASSUME NEW w \in Watches PROVE Born(w)' <=> Born(w)
    <3>1. w \in Requests /\ creator[w] \in Creator
      BY ConstantsAssumption DEF TypeOK
    <3>2. CASE w # r
      BY <1>4, <3>1, <3>2 DEF CreateResolve, CreateFetch, CreateUpsert, CreateRejected,
           TypeOK, Born
    <3>3. CASE w = r
      <4>1. ~CreateRejected(r)
        BY <3>3 DEF CreateRejected
      <4>2. ~Born(w)
        BY <1>4, <3>3, <4>1 DEF CreateResolve, CreateFetch, CreateUpsert, Born
      <4>3. ~Born(w)'
        <5>1. \A e : Resolved(e).stage = "resolved"
          BY DEF Resolved, NoCreator
        <5>2. QED
          BY <1>4, <3>1, <3>3, <4>1, <5>1 DEF CreateResolve, CreateFetch, CreateUpsert,
               NoCreator, TypeOK, Creator, Born
      <4>4. QED
        BY <4>2, <4>3
    <3>4. QED
      BY <3>2, <3>3
  <2>3. QED
    BY <1>1, <2>1, <2>2 DEF Credit
<1>5. ASSUME NEW v \in Watches, CreateInsert(v) PROVE FlipsAreBacked'
  BY <1>5, InsertBacked
<1>6. ASSUME NEW v \in Watches, CreateMarkDue(v) PROVE FlipsAreBacked'
  <2>1. UNCHANGED <<pc, loc, mailed, watch, feed, spent>>
    BY <1>6 DEF CreateMarkDue, env, engine, ghosts
  <2>2. ASSUME NEW w \in Watches PROVE Born(w)' <=> Born(w)
    <3>1. w \in Requests /\ v \in Requests /\ creator[w] \in Creator
      BY ConstantsAssumption DEF TypeOK
    <3>2. QED
      BY <1>6, <3>1 DEF CreateMarkDue, TypeOK, Creator, Born
  <2>3. QED
    BY <1>1, <2>1, <2>2 DEF Credit
<1>7. ASSUME NEW v \in Watches, Pause(v) \/ Resume(v) \/ Delete(v) PROVE FlipsAreBacked'
  <2>1. UNCHANGED <<pc, loc, mailed, creator, feed>>
    BY <1>7 DEF Pause, Resume, SetStatus, Delete, people, engine, ghosts
  <2>2. Credit' = Credit
    BY <1>7 DEF Pause, Resume, SetStatus, Delete, Spend, Credit, TypeOK, Bound
  <2>3. ASSUME NEW w \in Watches
        PROVE  /\ watch'[w].lastEvaluation = watch[w].lastEvaluation
               /\ watch[w].status = "deleted" => watch'[w].status = "deleted"
    <3>1. PICK s : watch' = [watch EXCEPT ![v].status = s] /\ watch[v].status # "deleted"
      BY <1>7 DEF Pause, Resume, SetStatus, Delete
    <3>2. QED
      BY <3>1 DEF TypeOK, WatchRow
  <2>4. QED
    BY <1>1, <2>1, <2>2, <2>3 DEF Born
<1>8. ASSUME NEW u \in Users, Verify(u) \/ Unsubscribe(u) \/ Resubscribe(u)
      PROVE  FlipsAreBacked'
  <2>1. UNCHANGED <<pc, loc, mailed, watch, creator, feed>> /\ Credit' = Credit
    BY <1>8 DEF Verify, Unsubscribe, Resubscribe, SetConsent, Spend, db, engine,
         ghosts, TypeOK, Bound, Credit
  <2>2. QED
    BY <1>1, <2>1 DEF Born
<1>9. ASSUME NEW p \in Workers, Work(p) PROVE FlipsAreBacked'
  BY <1>9, WorkBacked DEF FlipInv
<1>10. QED
  BY <1>2, <1>3, <1>4, <1>5, <1>6, <1>7, <1>8, <1>9 DEF Normal

-----------------------------------------------------------------------------
(* No news.                                                                *)

LEMMA NoNewsFrame ==
  ASSUME NoNews, UNCHANGED <<feed, pc, loc>>, spent'["moves"] = spent["moves"],
         event'.stored = event.stored, event'.avail = event.avail,
         \A r \in Requests :
           \/ creator'[r] = creator[r]
           \/ creator'[r].stage \notin {"upsert", "resolved"}
           \/ creator'[r].stage = "upsert" /\ creator'[r].snap = feed
           \/ event.stored /\ (creator'[r].seed <=> OnSale(event.avail))
              /\ creator'[r].stage = "resolved"
  PROVE  NoNews'
<1>1. \A p \in Workers : Front(pc[p], loc[p])' <=> Front(pc[p], loc[p])
  BY DEF Front, OnSale
<1>2. QED
  BY <1>1 DEF NoNews, OnSale

LEMMA NoNewsNext ==
  ASSUME TypeOK, NoNews, Normal
  PROVE  NoNews'
<1>1. CASE Tick \/ IntervalElapses \/ Enqueue
  <2>1. event'.stored = event.stored /\ event'.avail = event.avail
    BY <1>1 DEF Tick, IntervalElapses, Enqueue, db, TypeOK, EventRow
  <2>2. QED
    BY <1>1, <2>1, NoNewsFrame DEF Tick, IntervalElapses, Enqueue, env, people, engine
<1>2. CASE Upstream
  <2>1. spent'["moves"] # 0
    BY <1>2 DEF Upstream, Spend, TypeOK, Bound
  <2>2. QED
    BY <2>1 DEF NoNews
<1>3. ASSUME NEW q \in Requests, CreateResolve(q) \/ CreateFetch(q) \/ CreateRejected(q)
      PROVE  NoNews'
  <2>1. UNCHANGED <<feed, pc, loc, spent, event>>
    BY <1>3 DEF CreateResolve, CreateFetch, CreateRejected, env, db, engine
  <2>2. creator[q] \in Creator
    BY DEF TypeOK
  <2>3. \A r \in Requests : r # q => creator'[r] = creator[r]
    BY <1>3 DEF CreateResolve, CreateFetch, CreateRejected, TypeOK
  <2>4. CASE CreateResolve(q)
    <3>1. /\ Resolved(event).stage = "resolved"
          /\ Resolved(event).seed <=> OnSale(event.avail)
      BY DEF Resolved, NoCreator, OnSale
    <3>2. creator'[q] = IF event.stored THEN Resolved(event)
                        ELSE [NoCreator EXCEPT !.stage = "fetch"]
      BY <2>4 DEF CreateResolve, TypeOK
    <3>3. \/ creator'[q].stage \notin {"upsert", "resolved"}
          \/ event.stored /\ (creator'[q].seed <=> OnSale(event.avail))
             /\ creator'[q].stage = "resolved"
      BY <3>1, <3>2 DEF NoCreator
    <3>4. QED
      BY <2>1, <2>3, <3>3, NoNewsFrame
  <2>5. CASE CreateFetch(q)
    <3>1. creator'[q].stage = "upsert" /\ creator'[q].snap = feed
      BY <2>2, <2>5 DEF CreateFetch, TypeOK, Creator
    <3>2. QED
      BY <2>1, <2>3, <3>1, NoNewsFrame
  <2>6. CASE CreateRejected(q)
    <3>1. creator'[q].stage = "done"
      BY <2>6 DEF CreateRejected, NoCreator, TypeOK
    <3>2. QED
      BY <2>1, <2>3, <3>1, NoNewsFrame
  <2>7. QED
    BY <1>3, <2>4, <2>5, <2>6
<1>4. ASSUME NEW q \in Requests, CreateUpsert(q) PROVE NoNews'
  <2>1. UNCHANGED <<feed, pc, loc, spent>>
    BY <1>4 DEF CreateUpsert, env, engine
  <2>2. event'.avail = creator[q].snap.avail /\ creator[q].stage = "upsert"
    BY <1>4 DEF CreateUpsert, Upserted
  <2>3. \A r \in Requests : r # q => creator'[r] = creator[r]
    BY <1>4 DEF CreateUpsert, TypeOK
  <2>4. creator'[q] = Resolved(event')
    BY <1>4 DEF CreateUpsert, TypeOK
  <2>5. creator'[q].stage = "resolved" /\ (creator'[q].seed <=> OnSale(event'.avail))
    BY <2>4 DEF Resolved, NoCreator, OnSale
  <2>6. \A p \in Workers : Front(pc[p], loc[p])' <=> Front(pc[p], loc[p])
    BY <2>1 DEF Front, OnSale
  <2>7. QED
    BY <2>1, <2>2, <2>3, <2>5, <2>6 DEF NoNews, OnSale
<1>5. ASSUME NEW w \in Watches, CreateInsert(w) \/ CreateMarkDue(w) PROVE NoNews'
  <2>1. w \in Requests /\ creator[w] \in Creator
    BY ConstantsAssumption DEF TypeOK
  <2>2. event'.stored = event.stored /\ event'.avail = event.avail
    BY <1>5 DEF CreateInsert, CreateMarkDue, MarkDue, TypeOK, EventRow
  <2>3. \A r \in Requests :
          \/ creator'[r] = creator[r]
          \/ creator'[r].stage \notin {"upsert", "resolved"}
    BY <1>5, <2>1 DEF CreateInsert, CreateMarkDue, TypeOK, Creator
  <2>4. QED
    BY <1>5, <2>2, <2>3, NoNewsFrame DEF CreateInsert, CreateMarkDue, env, engine
<1>6. ASSUME \/ \E w \in Watches : Pause(w) \/ Resume(w) \/ Delete(w)
             \/ \E u \in Users : Verify(u) \/ Unsubscribe(u) \/ Resubscribe(u)
      PROVE  NoNews'
  <2>1. /\ UNCHANGED <<feed, pc, loc, event, creator>>
        /\ Spend("userOps")
    BY <1>6 DEF Pause, Resume, SetStatus, Delete, Verify, Unsubscribe, Resubscribe,
         SetConsent, db, people, engine
  <2>2. spent'["moves"] = spent["moves"]
    BY <2>1 DEF Spend, TypeOK, Bound
  <2>3. QED
    BY <2>1, <2>2, NoNewsFrame
<1>7. ASSUME NEW p \in Workers, Work(p) PROVE NoNews'
  <2>1. UNCHANGED <<spent, creator>>
    BY <1>7 DEF Work, TakeJob, ReadEvent, Fetch, InsertAvailabilitySnapshot,
       UpdateEventLatest, ListActiveWatches, NextWatch, ClaimWon, ClaimLost,
       ClaimGone, Unclaimed, Withhold, Send, MarkNotified,
       SetLastEvaluation, CloseWatchesForEvent, Finish, env, people
  <2>2. /\ feed' = feed
        /\ pc'[p] = "idle" \/ (Front(pc[p], loc[p])' <=> Front(pc[p], loc[p]))
        /\ \A q \in Workers : q # p => pc'[q] = pc[q] /\ loc'[q] = loc[q]
    BY <1>7, FrontWork, WorkIsSolo DEF SoloStep
  <2>3. \A q \in Workers :
          (Front(pc[q], loc[q]) <=> OnSale(feed.avail))
            => (Front(pc[q], loc[q])' <=> OnSale(feed.avail))
    <3>1. pc'[p] = "idle" => (Front(pc[p], loc[p])' <=> OnSale(feed.avail))
      BY <2>2 DEF Front, OnSale, Loop, Carrying
    <3>2. \A q \in Workers : q # p => (Front(pc[q], loc[q])' <=> Front(pc[q], loc[q]))
      BY <2>2 DEF Front, OnSale
    <3>3. QED
      BY <2>2, <3>1, <3>2
  <2>4. \/ UNCHANGED event
        \/ event'.stored = event.stored /\ (OnSale(event'.avail) <=> Front(pc[p], loc[p]))
    <3>1. CASE UpdateEventLatest(p)
      <4>1. pc[p] = "update"
        BY <3>1, StepFacts DEF UpdateEventLatest
      <4>2. event'.avail = loc[p].snap.avail /\ event'.stored = event.stored
        BY <3>1 DEF UpdateEventLatest, Latest, TypeOK, EventRow
      <4>3. QED
        BY <4>1, <4>2 DEF Front, Loop, Carrying
    <3>2. CASE ~UpdateEventLatest(p)
      BY <1>7, <3>2 DEF Work, TakeJob, ReadEvent, Fetch, InsertAvailabilitySnapshot,
         ListActiveWatches, NextWatch, ClaimWon, ClaimLost, ClaimGone, Unclaimed,
         Withhold, Send, MarkNotified, SetLastEvaluation, CloseWatchesForEvent, Finish, db
    <3>3. QED
      BY <3>1, <3>2
  <2>5. QED
    BY <2>1, <2>2, <2>3, <2>4 DEF NoNews, OnSale
<1>8. QED
  BY <1>1, <1>2, <1>3, <1>4, <1>5, <1>6, <1>7 DEF Normal

-----------------------------------------------------------------------------
(* What a poll holds stays sound, and only a watch that is there is mailed. *)

LEMMA BornStays ==
  ASSUME TypeOK, Next, NEW w \in Watches, Born(w)
  PROVE  Born(w)'
BY CreatorSteps DEF Born

LEMMA SoundFrame ==
  ASSUME TypeOK, Next, NEW p \in Workers, PollSound(pc[p], loc[p]),
         pc'[p] = pc[p], loc'[p] = loc[p]
  PROVE  PollSound(pc[p], loc[p])'
<1>1. loc[p].cur.watch \in Watches /\ \A r \in loc[p].todo : r.watch \in Watches
  BY DEF TypeOK, Locals, Row
<1>2. \A w \in Watches : Born(w) => Born(w)'
  BY BornStays
<1>3. QED
  BY <1>1, <1>2 DEF PollSound

\* The poll's own step.
LEMMA SoloSound ==
  ASSUME TypeOK, Next, UnbornIsNone, PollsAreSound, NEW p \in Workers, Work(p)
  PROVE  PollSound(pc[p], loc[p])'
<1>0. PollSound(pc[p], loc[p]) /\ loc[p] \in Locals
  BY DEF PollsAreSound, TypeOK
<1>a. loc[p].cur.watch \in Watches /\ \A r \in loc[p].todo : r.watch \in Watches
  BY <1>0 DEF Locals, Row
<1>b. \A w \in Watches : Born(w) => Born(w)'
  BY BornStays
<1>1. ASSUME NEW from, NEW to, NEW l, Step(p, from, to, l), to \notin Loop
      PROVE  PollSound(pc[p], loc[p])'
  <2>1. pc'[p] \notin Loop
    BY <1>1, StepFacts
  <2>2. QED
    BY <2>1 DEF PollSound, Loop, AtRow
<1>2. CASE \/ TakeJob(p) \/ ReadEvent(p) \/ Fetch(p) \/ InsertAvailabilitySnapshot(p)
           \/ UpdateEventLatest(p) \/ ClaimGone(p) \/ CloseWatchesForEvent(p) \/ Finish(p)
  <2>1. PICK from, to, l : Step(p, from, to, l) /\ to \notin Loop
    BY <1>2 DEF TakeJob, ReadEvent, Fetch, InsertAvailabilitySnapshot, UpdateEventLatest,
         ClaimGone, CloseWatchesForEvent, Finish, Return, Loop
  <2>2. QED
    BY <1>1, <2>1
<1>3. CASE ListActiveWatches(p)
  <2>1. PICK l :
          /\ Step(p, "list", "watches", l)
          /\ \A r, s \in l.todo : r.watch = s.watch => r = s
          /\ \A r \in l.todo : r.watch \in Active
    BY <1>3, ListShape
  <2>2. pc'[p] = "watches" /\ loc'[p] = l
    BY <2>1, StepFacts
  <2>3. \A w \in Active : w \in Watches /\ Born(w)
    BY DEF Active, UnbornIsNone, Born
  <2>4. QED
    BY <1>b, <2>1, <2>2, <2>3 DEF PollSound, AtRow
<1>4. CASE NextWatch(p)
  <2>1. PICK row \in loc[p].todo :
          Step(p, "watches", "kinds", [loc[p] EXCEPT !.todo = @ \ {row}, !.cur = row])
    BY <1>4 DEF NextWatch
  <2> DEFINE l == [loc[p] EXCEPT !.todo = @ \ {row}, !.cur = row]
  <2>2. l.todo = loc[p].todo \ {row} /\ l.cur = row
    BY <1>0 DEF Locals
  <2> HIDE DEF l
  <2>3. pc[p] = "watches" /\ pc'[p] = "kinds" /\ loc'[p] = l
    BY <2>1, StepFacts DEF l
  <2>4. QED
    BY <1>0, <1>a, <1>b, <2>2, <2>3 DEF PollSound, Loop, AtRow
<1>5. CASE RowStep(p)
  <2>1. PICK to, l :
          /\ to \in {"kinds", "notify"}
          /\ Step(p, pc[p], to, l)
          /\ pc[p] \in AtRow
          /\ l.todo = loc[p].todo
          /\ l.cur.watch = loc[p].cur.watch
          /\ to = "notify" => l.kind \in l.cur.kinds
    BY <1>5, RowShape
  <2>2. pc'[p] = to /\ loc'[p] = l
    BY <2>1, StepFacts
  <2>3. QED
    BY <1>0, <1>a, <1>b, <2>1, <2>2 DEF PollSound, Loop, AtRow
<1>6. CASE Send(p)
  <2>1. pc[p] = "notify" /\ pc'[p] = "mark" /\ loc'[p] = loc[p]
    BY <1>6, StepFacts DEF Send
  <2>2. QED
    BY <1>0, <1>a, <1>b, <2>1 DEF PollSound, Loop, AtRow
<1>7. CASE SetLastEvaluation(p)
  <2> DEFINE l == [loc[p] EXCEPT !.cur = NoRow]
  <2>1. l.todo = loc[p].todo
    BY <1>0 DEF Locals
  <2> HIDE DEF l
  <2>2. pc[p] = "kinds" /\ pc'[p] = "watches" /\ loc'[p] = l
    BY <1>7, StepFacts DEF SetLastEvaluation, l
  <2>3. QED
    BY <1>0, <1>a, <1>b, <2>1, <2>2 DEF PollSound, Loop, AtRow
<1>8. QED
  BY <1>2, <1>3, <1>4, <1>5, <1>6, <1>7 DEF Work, RowStep

LEMMA SoundNext ==
  ASSUME TypeOK, Next, UnbornIsNone, PollsAreSound
  PROVE  PollsAreSound'
<1>1. SUFFICES ASSUME NEW p \in Workers PROVE PollSound(pc[p], loc[p])'
  BY DEF PollsAreSound
<1>2. PollSound(pc[p], loc[p])
  BY DEF PollsAreSound
<1>3. CASE Normal
  <2>1. CASE UNCHANGED <<pc, loc>>
    BY <1>2, <2>1, SoundFrame
  <2>2. ASSUME NEW q \in Workers, Work(q) PROVE PollSound(pc[p], loc[p])'
    <3>1. CASE q = p
      BY <2>2, <3>1, SoloSound
    <3>2. CASE q # p
      <4>1. pc'[p] = pc[p] /\ loc'[p] = loc[p]
        BY <2>2, <3>2, WorkIsSolo DEF SoloStep
      <4>2. QED
        BY <1>2, <4>1, SoundFrame
    <3>3. QED
      BY <3>1, <3>2
  <2>3. (\A q \in Workers : ~Work(q)) => UNCHANGED <<pc, loc>>
    BY <1>3 DEF Normal, Tick, Upstream, IntervalElapses, Enqueue, CreateResolve,
       CreateFetch, CreateUpsert, CreateRejected, CreateInsert, CreateMarkDue, Pause,
       Resume, SetStatus, Delete, Verify, Unsubscribe, Resubscribe, SetConsent, engine
  <2>4. QED
    BY <2>1, <2>2, <2>3
<1>4. CASE Fault
  <2>1. CASE pc'[p] = pc[p] /\ loc'[p] = loc[p]
    BY <1>2, <2>1, SoundFrame
  <2>2. CASE pc'[p] = "idle"
    BY <2>2 DEF PollSound, Loop, AtRow
  <2>3. CASE pc[p] = "notify" /\ pc'[p] = "mark" /\ loc'[p] = loc[p]
    <3>1. loc[p].cur.watch \in Watches /\ \A r \in loc[p].todo : r.watch \in Watches
      BY DEF TypeOK, Locals, Row
    <3>2. \A w \in Watches : Born(w) => Born(w)'
      BY BornStays
    <3>3. QED
      BY <1>2, <2>3, <3>1, <3>2 DEF PollSound, Loop, AtRow
  <2>4. QED
    BY <1>4, <2>1, <2>2, <2>3, FaultFacts
<1>5. QED
  BY <1>3, <1>4, EveryStep

LEMMA UnbornUnmailedNext ==
  ASSUME TypeOK, Next, PollsAreSound, UnbornIsUnmailed
  PROVE  UnbornIsUnmailed'
<1>1. SUFFICES ASSUME NEW w \in Watches, ~Born(w)' PROVE mailed'[w][Flip] = 0
  BY DEF UnbornIsUnmailed
<1>2. ~Born(w)
  BY <1>1, BornStays
<1>3. mailed[w][Flip] = 0
  BY <1>2 DEF UnbornIsUnmailed
<1>4. ASSUME mailed'[w][Flip] # mailed[w][Flip] PROVE FALSE
  <2>1. PICK p \in Workers : Holder(p, w, Flip)
    BY <1>4, MailSteps DEF Flip, Kind
  <2>2. PollSound("notify", loc[p]) /\ loc[p].cur.watch = w
    BY <2>1 DEF Holder, PollsAreSound
  <2>3. QED
    BY <1>2, <2>2 DEF PollSound, AtRow
<1>5. QED
  BY <1>3, <1>4

-----------------------------------------------------------------------------
(* Failures. *)

\* A poll that fails keeps what it expects, or drops it; what its watch may be
\* owed on top is paid for by the failure.
LEMMA FaultBacked ==
  ASSUME TypeOK, TypeOK', FlipsAreBacked, Fault
  PROVE  FlipsAreBacked'
<1>1. /\ UNCHANGED <<feed, mailed>>
      /\ Credit' = Credit + 1
  <2>1. /\ spent'["faults"] = spent["faults"] + 1 /\ spent'["moves"] = spent["moves"]
        /\ UNCHANGED <<feed, mailed>>
    BY FaultFacts
  <2>2. spent["faults"] \in Nat /\ spent["moves"] \in Nat
    BY DEF TypeOK, Bound
  <2>3. QED
    BY <2>1, <2>2 DEF Credit
<1>2. ASSUME NEW w \in Watches, NEW at, NEW l, ~Expects(at, l, w)
      PROVE  mailed[w][Flip] + Owed(at, l, w)' + Up(Front(at, l), OnSale(feed.avail))'
               <= Credit + 1
  <2>1. Owed(at, l, w)' + Up(Front(at, l), OnSale(feed.avail))' <= 1
    <3>1. ~Expects(at, l, w)'
      BY <1>2 DEF Expects
    <3>2. Owed(at, l, w)' <= Up(watch[w].lastEvaluation, Front(at, l))'
      BY <3>1 DEF Owed, Up
    <3>3. /\ Owed(at, l, w)' \in {0, 1}
          /\ Up(Front(at, l), OnSale(feed.avail))' \in {0, 1}
          /\ Up(watch[w].lastEvaluation, Front(at, l))'
             + Up(Front(at, l), OnSale(feed.avail))' <= 1
          /\ Up(watch[w].lastEvaluation, Front(at, l))' \in {0, 1}
      BY DEF Owed, Up
    <3>4. QED
      BY <3>2, <3>3
  <2>2. /\ Owed(at, l, w)' \in {0, 1}
        /\ Up(Front(at, l), OnSale(feed.avail))' \in {0, 1}
    BY DEF Owed, Up
  <2>3. QED
    BY <2>1, <2>2, MailsArePaid, FlipCounts
<1>3. ASSUME NEW w \in Watches PROVE Debt("idle", Blank, w)' <= Credit'
  <2>1. ~Expects("idle", Blank, w)
    BY DEF Expects, Loop, AtRow
  <2>2. QED
    BY <1>1, <1>2, <2>1 DEF Debt
<1>4. ASSUME NEW w \in Watches, NEW p \in Workers, pc'[p] # "idle"
      PROVE  Debt(pc[p], loc[p], w)' <= Credit'
  <2>1. /\ loc'[p] = loc[p]
        /\ pc'[p] = pc[p] \/ (pc[p] = "notify" /\ pc'[p] = "mark")
    BY <1>4, FaultFacts
  <2>2. CASE ~Expects(pc'[p], loc[p], w)
    <3>1. mailed[w][Flip] + Owed(pc[p], loc[p], w)'
            + Up(Front(pc[p], loc[p]), OnSale(feed.avail))' <= Credit + 1
      <4>1. ~Expects(pc[p], loc[p], w)'
        BY <2>1, <2>2 DEF Expects
      <4>2. Owed(pc[p], loc[p], w)' + Up(Front(pc[p], loc[p]), OnSale(feed.avail))' <= 1
        BY <4>1 DEF Owed, Up
      <4>3. /\ Owed(pc[p], loc[p], w)' \in {0, 1}
            /\ Up(Front(pc[p], loc[p]), OnSale(feed.avail))' \in {0, 1}
        BY DEF Owed, Up
      <4>4. QED
        BY <4>2, <4>3, MailsArePaid, FlipCounts
    <3>2. QED
      BY <1>1, <3>1 DEF Debt
  <2>3. CASE Expects(pc'[p], loc[p], w)
    <3>1. Expects(pc[p], loc[p], w) /\ pc[p] # "idle"
      BY <2>1, <2>3 DEF Expects, Loop, AtRow
    <3>2. Owed(pc[p], loc[p], w) = 1
      BY <3>1 DEF Owed
    <3>3. Owed(pc[p], loc[p], w)' = 1
      BY <2>1, <2>3 DEF Owed, Expects
    <3>4. Front(pc[p], loc[p])' <=> Front(pc[p], loc[p])
      BY <1>1, <2>1 DEF Front, OnSale, Loop, Carrying
    <3>5. Up(Front(pc[p], loc[p]), OnSale(feed.avail))'
          = Up(Front(pc[p], loc[p]), OnSale(feed.avail))
      BY <1>1, <3>4 DEF Up, OnSale
    <3>6. Debt(pc[p], loc[p], w) <= Credit
      BY <3>1 DEF FlipsAreBacked
    <3>7. Debt(pc[p], loc[p], w)' = Debt(pc[p], loc[p], w)
      BY <1>1, <3>2, <3>3, <3>5 DEF Debt
    <3>8. Debt(pc[p], loc[p], w) \in Nat
      BY OwedType, UpType, FlipCounts DEF Debt
    <3>9. QED
      BY <1>1, <3>6, <3>7, <3>8, FlipCounts
  <2>4. QED
    BY <2>2, <2>3
<1>5. QED
  BY <1>3, <1>4 DEF FlipsAreBacked

\* A request that fails holds no answer any more.
LEMMA FaultRequests ==
  ASSUME TypeOK, Fault, NEW r \in Requests
  PROVE  creator'[r] = creator[r] \/ creator'[r].stage \notin {"upsert", "resolved"}
<1>0. creator[r] \in Creator
  BY DEF TypeOK
<1>1. CASE Crash
  <2>1. creator'[r] = IF creator[r].stage \in {"inserted", "done"}
                        THEN [creator[r] EXCEPT !.stage = "done"] ELSE NoCreator
    BY <1>1 DEF Crash
  <2>2. QED
    BY <1>0, <2>1 DEF NoCreator, Creator
<1>2. ASSUME NEW q \in Requests, CreateFails(q)
      PROVE  creator'[r] = creator[r] \/ creator'[r].stage \notin {"upsert", "resolved"}
  BY <1>2 DEF CreateFails, NoCreator, TypeOK
<1>3. ASSUME NEW w \in Watches, CreateMarkDueFails(w)
      PROVE  creator'[r] = creator[r] \/ creator'[r].stage \notin {"upsert", "resolved"}
  BY <1>0, <1>3, ConstantsAssumption DEF CreateMarkDueFails, TypeOK, Creator
<1>4. ASSUME NEW p \in Workers, SendFails(p) \/ Abort(p) PROVE creator' = creator
  BY <1>4 DEF SendFails, Abort, people
<1>5. QED
  BY <1>1, <1>2, <1>3, <1>4 DEF Fault

LEMMA FaultNoNews ==
  ASSUME TypeOK, NoNews, Fault
  PROVE  NoNews'
<1>1. UNCHANGED <<feed, event>> /\ spent'["moves"] = spent["moves"]
  BY FaultFacts
<1>2. ASSUME NEW p \in Workers, Front(pc[p], loc[p]) <=> OnSale(feed.avail)
      PROVE  Front(pc[p], loc[p])' <=> OnSale(feed.avail)
  <2>1. \/ pc'[p] = "idle"
        \/ loc'[p] = loc[p] /\ (pc'[p] = pc[p] \/ (pc[p] = "notify" /\ pc'[p] = "mark"))
    BY FaultFacts
  <2>2. QED
    BY <1>1, <1>2, <2>1 DEF Front, OnSale, Loop, Carrying
<1>3. QED
  BY <1>1, <1>2, FaultRequests DEF NoNews, OnSale

(* worker.go:249: as long as no two workers poll the event at once, each   *)
(* status mail to a watch has a change of Ticketmaster's answer, or a      *)
(* failure, of its own behind it.                                          *)
THEOREM FlipsArePaidFor == Spec /\ []Alone => []FlipsAccounted
<1>1. Init => FlipInv
  <2>1. SUFFICES ASSUME Init PROVE FlipInv
    OBVIOUS
  <2>2. \A p \in Workers : pc[p] = "idle"
    BY <2>1 DEF Init
  <2>3. PollsAreSound
    BY <2>2 DEF PollsAreSound, PollSound, Loop, AtRow
  <2>4. \A w \in Watches : mailed[w][Flip] = 0 /\ ~Born(w)
    BY <2>1, ConstantsAssumption DEF Init, Flip, Kind, Born, NoCreator
  <2>5. UnbornIsUnmailed
    BY <2>4 DEF UnbornIsUnmailed
  <2>6. \A l : Front("idle", l) <=> OnSale(feed.avail)
    BY DEF Front, Loop, Carrying
  <2>7. NoNews
    <3>1. event.stored => event.avail = feed.avail
      BY <2>1 DEF Init, NoEvent, Upserted
    <3>2. \A r \in Requests : creator[r].stage = "none"
      BY <2>1 DEF Init, NoCreator
    <3>3. QED
      BY <2>2, <2>6, <3>1, <3>2 DEF NoNews
  <2>8. ASSUME NEW w \in Watches PROVE Debt("idle", Blank, w) = 0
    <3>1. Owed("idle", Blank, w) = 0
      BY <2>4 DEF Owed, Expects, Settled, Loop, AtRow
    <3>2. Up(Front("idle", Blank), OnSale(feed.avail)) = 0
      BY <2>6 DEF Up
    <3>3. QED
      BY <2>4, <3>1, <3>2 DEF Debt
  <2>9. Credit = 0
    BY <2>1 DEF Init, Credit, Bound
  <2>10. QED
    BY <2>2, <2>3, <2>5, <2>7, <2>8, <2>9 DEF FlipInv, FlipsAreBacked
<1>2. /\ TypeOK /\ TypeOK' /\ Alone /\ Alone' /\ ClaimInv /\ FlipInv /\ [Next]_vars
      => FlipInv'
  <2>1. ASSUME TypeOK, TypeOK', Alone, Alone', ClaimInv, FlipInv, Next PROVE FlipInv'
    <3>1. PollsAreSound' /\ UnbornIsUnmailed'
      BY <2>1, SoundNext, UnbornUnmailedNext DEF FlipInv, ClaimInv
    <3>2. CASE Normal
      BY <2>1, <3>1, <3>2, BackedNext, NoNewsNext DEF FlipInv, ClaimInv
    <3>3. CASE Fault
      BY <2>1, <3>1, <3>3, FaultBacked, FaultNoNews DEF FlipInv
    <3>4. QED
      BY <2>1, <3>2, <3>3, EveryStep
  <2>2. ASSUME FlipInv, UNCHANGED vars PROVE FlipInv'
    BY <2>2 DEF vars, env, db, people, engine, ghosts, FlipInv, FlipsAreBacked, NoNews,
         PollsAreSound, PollSound, UnbornIsUnmailed, Debt, Owed, Expects, Settled,
         Handles, Born, Front, Credit, OnSale, Up
  <2>3. QED
    BY <2>1, <2>2
<1>3. TypeOK /\ FlipInv => FlipsAccounted
  BY MailsArePaid DEF FlipsAccounted, FlipInv, Flip, Credit
<1>4. QED
  BY <1>1, <1>2, <1>3, TypeCorrect, ClaimInvariant, PTL DEF Spec

(* The case of the run: a pool of one worker is never in two polls.        *)
THEOREM OneWorkerSuffices ==
  ASSUME \A p, q \in Workers : p = q
  PROVE  Spec => []RepeatsAccounted /\ []FlipsAccounted
<1>1. Alone
  BY DEF Alone
<1>2. QED
  BY <1>1, RepeatsAreFailures, FlipsArePaidFor, PTL
=============================================================================
