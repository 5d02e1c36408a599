---------------------------- MODULE AlertEngine ----------------------------
(***************************************************************************)
(* The alert engine of one event: the jobs channel, the pool of workers    *)
(* each running ProcessEvent one database statement or remote call at a    *)
(* time, the rows they share (events, watches, watch_alerts, users) and    *)
(* the requests that change those rows meanwhile.  Every statement of the  *)
(* code is keyed by one event, so other events only compete for the        *)
(* channel and the budget (PollScheduler).                                 *)
(*                                                                         *)
(* Faults: a statement or call may fail, which makes ProcessEvent return   *)
(* (Abort); the process may crash, losing the channel and every worker's   *)
(* locals and keeping the database.                                        *)
(***************************************************************************)
EXTENDS Evaluator, Sequences, FiniteSets

CONSTANTS
  Watches,     \* watch ids; an id is inserted at most once
  Requests,    \* requests to create a watch: a watch's own, under its id, and
               \* those that end in an error at the insert
  Users,       \* accounts
  Owner,       \* the user a watch belongs to
  Workers,     \* goroutines of the pool
  QueueCap,    \* capacity of the jobs channel
  Feeds,       \* answers Ticketmaster may give
  Consents,    \* what the accounts' consent columns say at the start
  MaxTime,     \* bound on the clock
  Limit,       \* bound on each kind of environment step
  Disturbances \* bound on faults and userOps together

Consent == [verified: BOOLEAN, unsub: BOOLEAN]
Feed  == [avail: Availability, publicStart: Time, publicEnd: Time,
          presale: Time, eventDate: Time]
\* moves: changes of Ticketmaster's answer.  faults: failed statements and
\* crashes.  userOps: requests other than creating a watch.
Bound == {"moves", "faults", "userOps"}

ASSUME ConstantsAssumption ==
  /\ Watches # {}
  /\ Watches \subseteq Requests
  /\ Feeds # {} /\ Feeds \subseteq Feed
  /\ Consents \subseteq Consent
  /\ Owner \in [Watches -> Users]
  /\ QueueCap \in Nat
  /\ MaxTime \in Nat
  /\ Limit \in [Bound -> Nat]
  /\ Disturbances \in Nat

VARIABLES
  now,        \* the clock
  feed,       \* what Ticketmaster answers now
  spent,      \* environment steps taken, against Limit
  event,      \* the events row; due abstracts next_poll_at <= now()
  snapshots,  \* availability_snapshots, oldest first
  watch,      \* the watches rows
  claims,     \* the watch_alerts rows
  consent,    \* the two consent columns of the users rows
  creator,    \* progress of the requests to create a watch
  jobs,       \* number of copies of the event in the jobs channel
  pc,         \* where each worker stands in ProcessEvent
  loc,        \* ProcessEvent's local variables, per worker
  fresh,      \* history: watches no poll has listed, their user left alone
              \* since they were inserted
  mailed,     \* history: e-mails that left, per watch and kind
  overwrites  \* history: requests that stored their answer over another's row

env    == <<now, feed, spent>>
db     == <<event, snapshots, watch, claims>>
people == <<consent, creator>>
engine == <<jobs, pc, loc>>
ghosts == <<fresh, mailed, overwrites>>
vars   == <<env, db, people, engine, ghosts>>

-----------------------------------------------------------------------------
WatchRow == [status: {"none", "active", "paused", "deleted"},
             lastEvaluation: BOOLEAN, createdAt: Time]
NoWatch  == [status |-> "none", lastEvaluation |-> FALSE, createdAt |-> NoTime]

EventRow == [stored: BOOLEAN, avail: Availability, publicStart: Time,
             publicEnd: Time, presale: Time, eventDate: Time, due: BOOLEAN]
\* There is no row.  The one to come will be due (column default now()).
NoEvent  == [stored |-> FALSE, avail |-> "unknown", publicStart |-> NoTime,
             publicEnd |-> NoTime, presale |-> NoTime, eventDate |-> NoTime,
             due |-> TRUE]

Active == {w \in Watches : watch[w].status = "active"}

(* A row of ListActiveWatchesForEvent as evaluateWatches uses it.  The     *)
(* observation is fixed before the list and Evaluate is pure, so a row     *)
(* carries its verdict: the kinds still to go through, and what the two    *)
(* consent columns joined to it say.                                       *)
Row == [watch: Watches, kinds: SUBSET Kind, mayMail: BOOLEAN]

PC == {"idle", "read", "fetch", "snapshot", "update", "list", "watches",
       "kinds", "notify", "mark"}

Locals == [knew: BOOLEAN, stored: Availability, eventDate: Time, snap: Feed,
           at: Time, todo: SUBSET Row, cur: Row, kind: Kind, statusOnsale: BOOLEAN,
           closing: BOOLEAN]

\* The value of a worker's locals between two jobs; a local that the rest of
\* the job does not read goes back to it.
NoRow == [watch |-> CHOOSE w \in Watches : TRUE, kinds |-> {}, mayMail |-> FALSE]
Blank == [knew |-> FALSE, stored |-> "unknown", eventDate |-> NoTime,
          snap |-> CHOOSE f \in Feeds : TRUE, at |-> NoTime, todo |-> {},
          cur |-> NoRow, kind |-> "cancelled", statusOnsale |-> FALSE,
          closing |-> FALSE]

\* A request to create a watch.  A failed one leaves no local behind, and may
\* be made again.
CreatorStage == {"none", "fetch", "upsert", "resolved", "inserted", "done"}
Creator == [stage: CreatorStage, seed: BOOLEAN, knew: BOOLEAN, snap: Feed]
NoCreator == [stage |-> "none", seed |-> FALSE, knew |-> FALSE, snap |-> Blank.snap]

TypeOK ==
  /\ now \in Time
  /\ feed \in Feeds
  /\ spent \in [Bound -> Nat]
  /\ event \in EventRow
  /\ snapshots \in Seq(Availability)
  /\ watch \in [Watches -> WatchRow]
  /\ claims \subseteq Watches \X Kind
  /\ consent \in [Users -> Consent]
  /\ creator \in [Requests -> Creator]
  /\ jobs \in 0..QueueCap
  /\ pc \in [Workers -> PC]
  /\ loc \in [Workers -> Locals]
  /\ fresh \subseteq Watches
  /\ mailed \in [Watches -> [Kind -> Nat]]
  /\ overwrites \in Nat

\* A whole answer as UpsertEventByTMID stores it: next_poll_at is not among the
\* columns it overwrites.
Upserted(e, s) ==
  [stored |-> TRUE, avail |-> s.avail, publicStart |-> s.publicStart,
   publicEnd |-> s.publicEnd, presale |-> s.presale, eventDate |-> s.eventDate,
   due |-> e.due]

\* Nobody has asked for the event yet, or somebody once did: then the row holds
\* a whole answer, and is due or was polled since.
Init ==
  /\ now = 1
  /\ feed \in Feeds
  /\ spent = [b \in Bound |-> 0]
  /\ \/ event = NoEvent
     \/ \E due \in BOOLEAN : event = Upserted([NoEvent EXCEPT !.due = due], feed)
  /\ snapshots = <<>>
  /\ watch = [w \in Watches |-> NoWatch]
  /\ claims = {}
  /\ consent \in [Users -> Consents]
  /\ creator = [r \in Requests |-> NoCreator]
  /\ jobs = 0
  /\ pc = [p \in Workers |-> "idle"]
  /\ loc = [p \in Workers |-> Blank]
  /\ fresh = {}
  /\ mailed = [w \in Watches |-> [k \in Kind |-> 0]]
  /\ overwrites = 0

-----------------------------------------------------------------------------
(* The environment: time, Ticketmaster's answer and the polling interval.  *)
Spend(b) ==
  /\ spent[b] < Limit[b]
  /\ b # "moves" => spent["faults"] + spent["userOps"] < Disturbances
  /\ spent' = [spent EXCEPT ![b] = @ + 1]

Tick ==
  /\ now < MaxTime
  /\ now' = now + 1
  /\ UNCHANGED <<feed, spent, db, people, engine, ghosts>>

Upstream ==
  /\ Spend("moves")
  /\ feed' \in Feeds \ {feed}
  /\ UNCHANGED <<now, db, people, engine, ghosts>>

\* next_poll_at is reached.
IntervalElapses ==
  /\ ~event.due
  /\ event' = [event EXCEPT !.due = TRUE]
  /\ UNCHANGED <<env, snapshots, watch, claims, people, engine, ghosts>>

-----------------------------------------------------------------------------
(* The requests of the event's users. *)

\* What Create keeps of the row it found or upserted.
Resolved(e) ==
  [NoCreator EXCEPT !.stage = "resolved", !.seed = e.avail = "onsale",
                    !.knew = Known(e.publicStart)]

\* WatchService.Create, first statement: the event's row, as it is now.
CreateResolve(r) ==
  /\ creator[r].stage = "none"
  /\ creator' = [creator EXCEPT ![r] = IF event.stored THEN Resolved(event)
                                      ELSE [NoCreator EXCEPT !.stage = "fetch"]]
  /\ UNCHANGED <<env, db, consent, engine, ghosts>>

\* TM.GetEvent, for an event the table did not hold.
CreateFetch(r) ==
  /\ creator[r].stage = "fetch"
  /\ creator' = [creator EXCEPT ![r].stage = "upsert", ![r].snap = feed]
  /\ UNCHANGED <<env, db, consent, engine, ghosts>>

\* UpsertEventByTMID: by now the row may be there, and newer.
CreateUpsert(r) ==
  /\ creator[r].stage = "upsert"
  /\ event' = Upserted(event, creator[r].snap)
  /\ creator' = [creator EXCEPT ![r] = Resolved(event')]
  /\ overwrites' = IF event.stored THEN overwrites + 1 ELSE overwrites
  /\ UNCHANGED <<env, snapshots, watch, claims, consent, engine, fresh, mailed>>

\* CreateWatch: the watch, its edge state seeded from the row resolved.
CreateInsert(w) ==
  /\ creator[w].stage = "resolved"
  /\ creator' = [creator EXCEPT ![w].stage = "inserted", ![w].seed = FALSE]
  /\ watch' = [watch EXCEPT ![w] =
       [status |-> "active", lastEvaluation |-> creator[w].seed, createdAt |-> now]]
  /\ fresh' = fresh \cup {w}
  /\ UNCHANGED <<env, event, snapshots, claims, consent, engine, mailed, overwrites>>

\* CreateWatch, for an account erased meanwhile: the foreign key rejects it.
CreateRejected(r) ==
  /\ r \notin Watches
  /\ creator[r].stage = "resolved"
  /\ creator' = [creator EXCEPT ![r] = [NoCreator EXCEPT !.stage = "done"]]
  /\ UNCHANGED <<env, db, consent, engine, ghosts>>

\* The call or one of these statements returns an error, and so does Create.
CreateFails(r) ==
  /\ creator[r].stage \in {"fetch", "upsert", "resolved"}
  /\ Spend("faults")
  /\ creator' = [creator EXCEPT ![r] = NoCreator]
  /\ UNCHANGED <<now, feed, db, consent, engine, ghosts>>

\* next_poll_at = now().
MarkDue(e) == [e EXCEPT !.due = TRUE]

\* Create, last statement: MarkEventDue, best-effort.
CreateMarkDue(w) ==
  /\ creator[w].stage = "inserted"
  /\ creator' = [creator EXCEPT ![w].stage = "done"]
  /\ event' = MarkDue(event)
  /\ UNCHANGED <<env, snapshots, watch, claims, consent, engine, ghosts>>

CreateMarkDueFails(w) ==
  /\ creator[w].stage = "inserted"
  /\ Spend("faults")
  /\ creator' = [creator EXCEPT ![w].stage = "done"]
  /\ UNCHANGED <<now, feed, db, consent, engine, ghosts>>

\* WatchService.Update: last_evaluation is kept and the event is not made due.
SetStatus(w, from, to) ==
  /\ watch[w].status = from
  /\ Spend("userOps")
  /\ watch' = [watch EXCEPT ![w].status = to]
  /\ fresh' = fresh \ {w}
  /\ UNCHANGED <<now, feed, event, snapshots, claims, people, engine, mailed,
                 overwrites>>

Pause(w)  == SetStatus(w, "active", "paused")
Resume(w) == SetStatus(w, "paused", "active")

\* WatchService.Delete: the watch_alerts rows go with the watch (ON DELETE CASCADE).
Delete(w) ==
  /\ watch[w].status \in {"active", "paused"}
  /\ Spend("userOps")
  /\ watch' = [watch EXCEPT ![w].status = "deleted"]
  /\ claims' = {c \in claims : c[1] # w}
  /\ fresh' = fresh \ {w}
  /\ UNCHANGED <<now, feed, event, snapshots, people, engine, mailed, overwrites>>

SetConsent(u, c) ==
  /\ consent[u] # c
  /\ Spend("userOps")
  /\ consent' = [consent EXCEPT ![u] = c]
  /\ UNCHANGED <<now, feed, db, creator, engine, ghosts>>

Verify(u)      == SetConsent(u, [consent[u] EXCEPT !.verified = TRUE])
Unsubscribe(u) == SetConsent(u, [consent[u] EXCEPT !.unsub = TRUE])
Resubscribe(u) == SetConsent(u, [consent[u] EXCEPT !.unsub = FALSE])

-----------------------------------------------------------------------------
\* A send on jobs does not block.  Mutants: one slot too many, one too few.
MutRoomMore == jobs <= QueueCap
MutRoomLess == jobs + 1 < QueueCap
HasRoom == jobs < QueueCap

(* The scheduler's tick, as far as this event goes: a due event with an    *)
(* active watch is sent to the channel unless the channel is full.  The    *)
(* row is not touched, so a later tick may send the event again.           *)
Enqueue ==
  /\ event.due /\ Active # {}
  /\ HasRoom
  /\ jobs' = jobs + 1
  /\ UNCHANGED <<env, db, people, pc, loc, ghosts>>

-----------------------------------------------------------------------------
(* ProcessEvent.  Step moves a worker from one program point to the next   *)
(* with new locals; every action below is one statement or call.           *)
Step(p, from, to, l) ==
  /\ pc[p] = from
  /\ pc'  = [pc EXCEPT ![p] = to]
  /\ loc' = [loc EXCEPT ![p] = l]

Return(p, from) == Step(p, from, "idle", Blank)

TakeJob(p) ==
  /\ jobs > 0
  /\ jobs' = jobs - 1
  /\ Step(p, "idle", "read", Blank)
  /\ UNCHANGED <<env, db, people, ghosts>>

\* GetEvent: the copy of the row that changed(), knewPublicStart and the
\* observation's EventDate are taken from.
ReadEvent(p) ==
  /\ Step(p, "read", "fetch",
          [loc[p] EXCEPT !.knew = Known(event.publicStart), !.stored = event.avail,
                         !.eventDate = event.eventDate])
  /\ UNCHANGED <<env, db, people, jobs, ghosts>>

\* changed(): mutant: a snapshot is written on every poll.
MutChanged(stored, avail) == avail \in Availability
changed(stored, avail) == stored # avail

\* TM.GetEvent, and the comparison with the copy read before.
Fetch(p) ==
  /\ Step(p, "fetch", IF changed(loc[p].stored, feed.avail) THEN "snapshot" ELSE "update",
          [loc[p] EXCEPT !.snap = feed, !.stored = "unknown"])
  /\ UNCHANGED <<env, db, people, jobs, ghosts>>

InsertAvailabilitySnapshot(p) ==
  /\ Step(p, "snapshot", "update", loc[p])
  /\ snapshots' = Append(snapshots, loc[p].snap.avail)
  /\ UNCHANGED <<env, event, watch, claims, people, jobs, ghosts>>

\* The columns UpdateEventLatest writes: all of the answer but the event's date.
Latest(e, s) ==
  [e EXCEPT !.avail = s.avail, !.publicStart = s.publicStart,
            !.publicEnd = s.publicEnd, !.presale = s.presale, !.due = FALSE]

UpdateEventLatest(p) ==
  /\ Step(p, "update", "list", [loc[p] EXCEPT !.at = now])
  /\ event' = Latest(event, loc[p].snap)
  /\ UNCHANGED <<env, snapshots, watch, claims, people, jobs, ghosts>>

ObservationOf(l) ==
  [now |-> l.at, avail |-> l.snap.avail, publicStart |-> l.snap.publicStart,
   publicEnd |-> l.snap.publicEnd, presale |-> l.snap.presale,
   eventDate |-> l.eventDate]

Verdict(l, w) ==
  Evaluate(ObservationOf(l),
           [knew |-> l.knew, lastEvaluation |-> watch[w].lastEvaluation,
            createdAt |-> watch[w].createdAt])

\* The consent gates' condition.  Mutant: verification is not asked for.
MutMayMail(c) == ~c.unsub
MayMail(c) == c.verified /\ ~c.unsub

ListActiveWatches(p) ==
  LET l == loc[p] IN
  /\ Step(p, "list", "watches",
          [Blank EXCEPT
             !.todo = {[watch |-> w, kinds |-> Verdict(l, w).kinds,
                        mayMail |-> MayMail(consent[Owner[w]])] : w \in Active},
             !.statusOnsale = l.snap.avail = "onsale",
             !.closing = \E w \in Active : Verdict(l, w).closeWatch])
  /\ fresh' = fresh \ Active
  /\ UNCHANGED <<env, db, people, jobs, mailed, overwrites>>

\* The head of the loop: the rows come in no particular order.
NextWatch(p) ==
  \E row \in loc[p].todo :
    /\ Step(p, "watches", "kinds",
            [loc[p] EXCEPT !.todo = @ \ {row}, !.cur = row])
    /\ UNCHANGED <<env, db, people, jobs, ghosts>>

\* Mutant: the sale opening is taken for an edge, too.
MutNeedsClaim(k) == k \notin {"status_onsale", "public_open"}
NeedsClaim(k) == k # "status_onsale"

\* The loop over the kinds goes on without k.
Drop(l, k) == [l EXCEPT !.cur.kinds = @ \ {k}, !.kind = Blank.kind]

\* INSERT INTO watch_alerts.
ClaimRow(w, k) == claims \cup {<<w, k>>}

\* ClaimWatchAlert inserted the row: this worker may send.
ClaimWon(p) ==
  \E k \in FirstKinds(loc[p].cur.kinds) :
    LET w == loc[p].cur.watch IN
    /\ NeedsClaim(k)
    /\ watch[w].status # "deleted"
    /\ <<w, k>> \notin claims
    /\ Step(p, "kinds", "notify", [loc[p] EXCEPT !.kind = k])
    /\ claims' = ClaimRow(w, k)
    /\ UNCHANGED <<env, event, snapshots, watch, people, jobs, ghosts>>

\* ON CONFLICT DO NOTHING: already told.
ClaimLost(p) ==
  \E k \in FirstKinds(loc[p].cur.kinds) :
    /\ NeedsClaim(k)
    /\ <<loc[p].cur.watch, k>> \in claims
    /\ Step(p, "kinds", "kinds", Drop(loc[p], k))
    /\ UNCHANGED <<env, db, people, jobs, ghosts>>

\* The watch was deleted meanwhile: the foreign key makes the insert fail and
\* ProcessEvent returns, whatever watches are left.
ClaimGone(p) ==
  /\ \E k \in FirstKinds(loc[p].cur.kinds) : NeedsClaim(k)
  /\ watch[loc[p].cur.watch].status = "deleted"
  /\ Return(p, "kinds")
  /\ UNCHANGED <<env, db, people, jobs, ghosts>>

Unclaimed(p) ==
  \E k \in FirstKinds(loc[p].cur.kinds) :
    /\ ~NeedsClaim(k)
    /\ Step(p, "kinds", "notify", [loc[p] EXCEPT !.kind = k])
    /\ UNCHANGED <<env, db, people, jobs, ghosts>>

\* The consent gates, on the row as it was listed.
Withhold(p) ==
  /\ ~loc[p].cur.mayMail
  /\ Step(p, "notify", "kinds", Drop(loc[p], loc[p].kind))
  /\ UNCHANGED <<env, db, people, jobs, ghosts>>

\* Notify, the provider accepting the message.
Send(p) ==
  /\ loc[p].cur.mayMail
  /\ Step(p, "notify", "mark", loc[p])
  /\ mailed' = [mailed EXCEPT ![loc[p].cur.watch][loc[p].kind] = @ + 1]
  /\ UNCHANGED <<env, db, people, jobs, fresh, overwrites>>

\* Notify, the provider refusing it: logged, and the poll goes on.
SendFails(p) ==
  /\ loc[p].cur.mayMail
  /\ Spend("faults")
  /\ Step(p, "notify", "mark", loc[p])
  /\ UNCHANGED <<now, feed, db, people, jobs, ghosts>>

\* MarkNotified writes last_notified_at, which nothing reads.
MarkNotified(p) ==
  /\ Step(p, "mark", "kinds", Drop(loc[p], loc[p].kind))
  /\ UNCHANGED <<env, db, people, jobs, ghosts>>

\* last_evaluation = $2.  Mutant: the verdict is not stored.
MutEvaluated(row, onsale) == row
Evaluated(row, onsale) == [row EXCEPT !.lastEvaluation = onsale]

\* The row may be gone: then the UPDATE matches nothing.
SetLastEvaluation(p) ==
  LET w == loc[p].cur.watch IN
  /\ loc[p].cur.kinds = {}
  /\ Step(p, "kinds", "watches", [loc[p] EXCEPT !.cur = NoRow])
  /\ watch' = IF watch[w].status = "deleted" THEN watch
              ELSE [watch EXCEPT ![w] = Evaluated(@, loc[p].statusOnsale)]
  /\ UNCHANGED <<env, event, snapshots, claims, people, jobs, ghosts>>

\* Whatever is active by now, listed or not.
CloseWatchesForEvent(p) ==
  /\ loc[p].todo = {} /\ loc[p].closing
  /\ Return(p, "watches")
  /\ watch' = [w \in Watches |->
       IF w \in Active THEN [watch[w] EXCEPT !.status = "paused"] ELSE watch[w]]
  /\ UNCHANGED <<env, event, snapshots, claims, people, jobs, ghosts>>

Finish(p) ==
  /\ loc[p].todo = {} /\ ~loc[p].closing
  /\ Return(p, "watches")
  /\ UNCHANGED <<env, db, people, jobs, ghosts>>

\* The program points at which a statement or call returns an error.
CanFail(p) ==
  \/ pc[p] \in {"read", "fetch", "snapshot", "update", "list", "mark"}
  \/ pc[p] = "kinds" /\ \A k \in FirstKinds(loc[p].cur.kinds) : NeedsClaim(k)
  \/ pc[p] = "watches" /\ loc[p].todo = {} /\ loc[p].closing

Abort(p) ==
  /\ CanFail(p)
  /\ Spend("faults")
  /\ Return(p, pc[p])
  /\ UNCHANGED <<now, feed, db, people, jobs, ghosts>>

\* The process dies and starts again.
Crash ==
  /\ Spend("faults")
  /\ jobs' = 0
  /\ pc'  = [p \in Workers |-> "idle"]
  /\ loc' = [p \in Workers |-> Blank]
  /\ creator' = [r \in Requests |->
       IF creator[r].stage \in {"inserted", "done"}
         THEN [creator[r] EXCEPT !.stage = "done"] ELSE NoCreator]
  /\ UNCHANGED <<now, feed, db, consent, ghosts>>

-----------------------------------------------------------------------------
\* What a worker does when nothing fails.
Work(p) ==
  \/ TakeJob(p) \/ ReadEvent(p) \/ Fetch(p) \/ InsertAvailabilitySnapshot(p)
  \/ UpdateEventLatest(p) \/ ListActiveWatches(p) \/ NextWatch(p)
  \/ ClaimWon(p) \/ ClaimLost(p) \/ ClaimGone(p) \/ Unclaimed(p)
  \/ Withhold(p) \/ Send(p) \/ MarkNotified(p) \/ SetLastEvaluation(p)
  \/ CloseWatchesForEvent(p) \/ Finish(p)

Request ==
  \/ \E r \in Requests :
       \/ CreateResolve(r) \/ CreateFetch(r) \/ CreateUpsert(r)
       \/ CreateRejected(r) \/ CreateFails(r)
  \/ \E w \in Watches :
       \/ CreateInsert(w) \/ CreateMarkDue(w) \/ CreateMarkDueFails(w)
       \/ Pause(w) \/ Resume(w) \/ Delete(w)
  \/ \E u \in Users : Verify(u) \/ Unsubscribe(u) \/ Resubscribe(u)

Next ==
  \/ Tick \/ Upstream \/ IntervalElapses \/ Enqueue \/ Request \/ Crash
  \/ \E p \in Workers : Work(p) \/ SendFails(p) \/ Abort(p)

Spec == Init /\ [][Next]_vars

\* A request to create a watch, on its way.
Creating(r) ==
  \/ CreateFetch(r) \/ CreateUpsert(r) \/ CreateRejected(r)
  \/ r \in Watches /\ (CreateInsert(r) \/ CreateMarkDue(r))

\* The interval always ends, the ticker always ticks, goroutines are scheduled
\* and a request that was started runs to its end.
Fairness ==
  /\ WF_vars(IntervalElapses)
  /\ WF_vars(Enqueue)
  /\ \A p \in Workers : WF_vars(Work(p))
  /\ \A r \in Requests : WF_vars(Creating(r))

FairSpec == Spec /\ Fairness

-----------------------------------------------------------------------------
\* The kinds that go through watch_alerts.
ClaimedKind == Kind \ {"status_onsale"}

(* However many copies of the event are queued, whatever crashes and       *)
(* however often a statement fails, a milestone that goes through          *)
(* watch_alerts is mailed at most once per watch (worker.go: the insert is *)
(* the lock).                                                              *)
AtMostOnce ==
  \A w \in Watches, k \in ClaimedKind : mailed[w][k] <= 1

(* No mail leaves for an address that was never confirmed, although the    *)
(* gate looks at consent as it was listed, many statements earlier.        *)
NoMailToUnverified ==
  [][ \A w \in Watches :
        mailed'[w] # mailed[w] => consent[Owner[w]].verified ]_vars

\* Why: what a listed row says of the mail's consent still holds as far as
\* verification goes, for it is never taken back.
Gate(l)  == \A row \in l.todo \cup {l.cur} : row.mayMail => consent[Owner[row.watch]].verified
GateInv  == \A p \in Workers : Gate(loc[p])

\* No two workers poll the event at once.
Alone == \A p, q \in Workers : pc[p] # "idle" /\ pc[q] # "idle" => p = q

(* The status alert is "once-per-transition" (worker.go:249), but for      *)
(* failures: with one poll at a time (the run has one worker), a failed    *)
(* statement, a refused mail or a crash costs a watch at most one mail     *)
(* more, and nothing else does -- no request that stores an old answer     *)
(* over the row, and no pause.                                             *)
FlipsAccounted ==
  \A w \in Watches : mailed[w]["status_onsale"] <= spent["moves"] + spent["faults"]

(* The snapshots read as a list of transitions (worker.go:97): with one    *)
(* poll at a time, two consecutive rows that say the same have a cause of  *)
(* their own, which is a failed statement, a crash, or a first request     *)
(* whose answer was stored over the row of another one.                    *)
Repeats == {i \in 1..Len(snapshots)-1 : snapshots[i] = snapshots[i+1]}

RepeatsAccounted == Cardinality(Repeats) <= spent["faults"] + overwrites

(* Every claimed milestone fires exactly once (worker.go:29).  For the     *)
(* announcement: when the engine is at rest, a watch created before the    *)
(* date was known, never paused and already polled, has been told of a     *)
(* date that is stored and still ahead.                                    *)
AnnouncementIsClaimed ==
  jobs = 0 /\ (\A p \in Workers : pc[p] = "idle") =>
    \A w \in Active \ fresh :
      /\ creator[w].stage = "done" /\ ~creator[w].knew
      /\ event.avail \notin {"cancelled", "postponed", "rescheduled"}
      /\ now < event.publicStart
      => <<w, "onsale_announced">> \in claims

(* A watch the engine has not looked at yet is looked at eventually,       *)
(* through crashes and failed statements, unless its user withdraws it or  *)
(* -- WatchService's NoneIsPassedOver -- a poll of the event found it over *)
(* and paused the watch unseen.                                            *)
EventuallyEvaluated ==
  \A w \in Watches : w \in fresh ~> (w \notin fresh \/ watch[w].status = "paused")

(* A public sale that opened after the watch was created, and stays open   *)
(* while the watch stays active, is claimed for it eventually: a failed    *)
(* poll is made good by a later one.                                       *)
SaleIsOpenFor(w) ==
  /\ watch[w].status = "active"
  /\ feed.avail = "onsale" /\ Begun(feed.publicStart, now)
  /\ watch[w].createdAt < feed.publicStart
  /\ ~Passed(feed.publicEnd, now) /\ ~Passed(event.eventDate, now)

OpenSaleEventuallyClaimed ==
  \A w \in Watches :
    SaleIsOpenFor(w) ~> (<<w, "public_open">> \in claims \/ ~SaleIsOpenFor(w))

-----------------------------------------------------------------------------
(* Why AtMostOnce holds.  A worker between its claim and the mail holds    *)
(* the right to the alert; the right is gone for everybody else once the   *)
(* watch_alerts row exists, or can no longer be inserted because the watch *)
(* is deleted.                                                             *)
Holder(p, w, k) == pc[p] = "notify" /\ loc[p].cur.watch = w /\ loc[p].kind = k
Held(w, k)      == \E p \in Workers : Holder(p, w, k)
Gone(w, k)      == <<w, k>> \in claims \/ watch[w].status = "deleted"

OneHolder ==
  \A p, q \in Workers, w \in Watches, k \in ClaimedKind :
    Holder(p, w, k) /\ Holder(q, w, k) => p = q

HeldIsGone ==
  \A p \in Workers, w \in Watches, k \in ClaimedKind :
    Holder(p, w, k) => Gone(w, k) /\ mailed[w][k] = 0

MailedIsGone ==
  \A w \in Watches, k \in ClaimedKind :
    mailed[w][k] # 0 => Gone(w, k) /\ mailed[w][k] = 1

\* An id is inserted once: a deleted watch does not come back.
UnbornIsNone ==
  \A w \in Watches :
    creator[w].stage \notin {"inserted", "done"} => watch[w].status = "none"

(* The inductive invariant behind AtMostOnce: at most one worker holds an  *)
(* alert's right, and neither holding it nor having mailed it is possible  *)
(* while somebody could still win it.                                      *)
ClaimInv == OneHolder /\ HeldIsGone /\ MailedIsGone /\ UnbornIsNone

-----------------------------------------------------------------------------
(* The engine implements AlertOnce: a right is held by its holder, free as *)
(* long as it can be won, spent otherwise.                                 *)
ClaimedAlerts == Watches \X ClaimedKind

rightBar == [a \in ClaimedAlerts |->
               IF Held(a[1], a[2]) THEN "held"
               ELSE IF Gone(a[1], a[2]) THEN "spent" ELSE "free"]
mailsBar == [a \in ClaimedAlerts |-> mailed[a[1]][a[2]]]

Abstract == INSTANCE AlertOnce WITH Alerts <- ClaimedAlerts,
                                    right <- rightBar, mails <- mailsBar

(* Every step of the engine is a step of AlertOnce or leaves it alone.     *)
ImplementsAlertOnce == Abstract!Spec
=============================================================================
