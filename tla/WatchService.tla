---------------------------- MODULE WatchService ----------------------------
(***************************************************************************)
(* Creating watches: every request of WatchService.Create runs its five    *)
(* statements -- count, resolve, fetch and upsert of an unknown event,     *)
(* insert, mark due -- between those of other requests, of the polls that  *)
(* refresh the same rows, of pauses, deletions and of accounts being       *)
(* erased.                                                                 *)
(*                                                                         *)
(* A request is named by the watch it may insert.  The edge state a watch  *)
(* is seeded with and the alerts of a poll are AlertEngine's matter; here  *)
(* an answer of Ticketmaster is its availability, "cancelled" standing for *)
(* both reasons Evaluate closes an event for.  A poll is its fetch, its    *)
(* update, its list and its closing of the event; a poller is one copy of  *)
(* an event on its way through the channel and the pool.  A crash of the   *)
(* process is Fail, MarkDueFails and PollFails at once.                    *)
(***************************************************************************)
EXTENDS Evaluator, FiniteSets

CONSTANTS
  Requests,    \* requests to create a watch
  Users,       \* accounts
  Events,      \* Ticketmaster ids
  By, For,     \* a request's user and event
  MaxPerUser,  \* cap on a user's watches, 0 for none
  Pollers,     \* polls that may be under way at once
  Answers,     \* availabilities Ticketmaster may report
  MaxPollFails \* bound on failed polls

ASSUME RequestsAssumption ==
  /\ IsFiniteSet(Requests) /\ Events # {}
  /\ By \in [Requests -> Users] /\ For \in [Requests -> Events]
ASSUME BoundsAssumption  == MaxPerUser \in Nat /\ MaxPollFails \in Nat
ASSUME AnswersAssumption == Answers \subseteq Availability \ {"unknown"}

VARIABLES
  upstream,  \* what Ticketmaster answers now, per event
  account,   \* whether the users row exists
  event,     \* the events rows
  watch,     \* status of the watches rows
  request,   \* where each request stands, and the answer it holds
  poll,      \* where each poller stands, its event and the answer it holds
  fresh,     \* history: watches no poll has listed, their user left alone since
             \* they were inserted
  met,       \* history: pairs of requests once between count and insert together
  storers,   \* history: requests that stored an event they had to ask for
  pollFails  \* failed polls

rows   == <<account, event, watch>>
ghosts == <<fresh, met, storers, pollFails>>
vars   == <<upstream, rows, request, poll, ghosts>>

-----------------------------------------------------------------------------
NoAnswer == "none"
NoEvent  == [stored |-> FALSE, avail |-> NoAnswer, due |-> FALSE]
EventRow == [stored: {TRUE}, avail: Answers, due: BOOLEAN] \cup {NoEvent}

\* The statement a request executes next, or how it ended.
Window == {"resolve", "fetch", "upsert", "insert"}
Stage  == {"count", "markDue", "done", "unmarked", "refused", "failed"} \cup Window

PC == {"idle", "fetch", "update", "list", "close"}
Holding == Answers \cup {NoAnswer}
Idle    == [pc |-> "idle", event |-> CHOOSE e \in Events : TRUE, snap |-> NoAnswer]

TypeOK ==
  /\ upstream \in [Events -> Answers]
  /\ account \in [Users -> BOOLEAN]
  /\ event \in [Events -> EventRow]
  /\ watch \in [Requests -> {"none", "active", "paused", "deleted"}]
  /\ request \in [Requests -> [stage: Stage, snap: Holding]]
  /\ poll \in [Pollers -> [pc: PC, event: Events, snap: Holding]]
  /\ fresh \subseteq Requests
  /\ met \subseteq Requests \X Requests
  /\ storers \subseteq Requests
  /\ pollFails \in Nat

Init ==
  /\ upstream \in [Events -> Answers]
  /\ account = [u \in Users |-> TRUE]
  /\ event = [e \in Events |-> NoEvent]
  /\ watch = [q \in Requests |-> "none"]
  /\ request = [q \in Requests |-> [stage |-> "count", snap |-> NoAnswer]]
  /\ poll = [p \in Pollers |-> Idle]
  /\ fresh = {}
  /\ met = {}
  /\ storers = {}
  /\ pollFails = 0

Exists(q)    == watch[q] \in {"active", "paused"}
WatchesOf(u) == {q \in Requests : By[q] = u /\ Exists(q)}
ActiveOn(e)  == {q \in Requests : For[q] = e /\ watch[q] = "active"}
InWindow(q)  == request[q].stage \in Window

-----------------------------------------------------------------------------
(* WatchService.Create. *)
Goto(q, from, to, snap) ==
  /\ request[q].stage = from
  /\ request' = [request EXCEPT ![q] = [stage |-> to, snap |-> snap]]

\* n >= int64(s.maxPerUser).  Mutant: one watch too many.
MutAtCap(n) == MaxPerUser > 0 /\ n > MaxPerUser
AtCap(n) == MaxPerUser > 0 /\ n >= MaxPerUser

\* CountWatchesForUser counts paused watches, too.
CountPasses(q) ==
  /\ ~AtCap(Cardinality(WatchesOf(By[q])))
  /\ Goto(q, "count", "resolve", NoAnswer)
  /\ met' = met \cup UNION {{<<q, r>>, <<r, q>>} : r \in {r \in Requests : InWindow(r)}}
  /\ UNCHANGED <<upstream, rows, poll, fresh, storers, pollFails>>

CountRefuses(q) ==
  /\ AtCap(Cardinality(WatchesOf(By[q])))
  /\ Goto(q, "count", "refused", NoAnswer)
  /\ UNCHANGED <<upstream, rows, poll, ghosts>>

\* GetEventByTMID.  Mutant: only events somebody watches are found.
MutStored(e) == event[e].stored /\ ActiveOn(e) # {}
Stored(e) == event[e].stored

Resolve(q) ==
  /\ Goto(q, "resolve", IF Stored(For[q]) THEN "insert" ELSE "fetch", NoAnswer)
  /\ UNCHANGED <<upstream, rows, poll, ghosts>>

\* TM.GetEvent, one call and only for events the table does not hold.
FetchUnknown(q) ==
  /\ Goto(q, "fetch", "upsert", upstream[For[q]])
  /\ UNCHANGED <<upstream, rows, poll, ghosts>>

\* UpsertEventByTMID: a new row is due (column default), a row another request
\* inserted meanwhile keeps its next_poll_at.  Mutant: display fields only.
MutUpserted(row, a) ==
  [stored |-> TRUE, avail |-> row.avail, due |-> row.stored => row.due]
Upserted(row, a) ==
  [stored |-> TRUE, avail |-> a, due |-> row.stored => row.due]

UpsertEventByTMID(q) ==
  /\ Goto(q, "upsert", "insert", NoAnswer)
  /\ event' = [event EXCEPT ![For[q]] = Upserted(@, request[q].snap)]
  /\ storers' = storers \cup {q}
  /\ UNCHANGED <<upstream, account, watch, poll, fresh, met, pollFails>>

\* The foreign key of watches.user_id.  Mutant: it is not there.
MutOwnerExists(u) == u \in Users
OwnerExists(u) == account[u]

\* CreateWatch; for an account erased meanwhile it fails like any statement (Fail).
CreateWatch(q) ==
  /\ OwnerExists(By[q])
  /\ Goto(q, "insert", "markDue", NoAnswer)
  /\ watch' = [watch EXCEPT ![q] = "active"]
  /\ fresh' = fresh \cup {q}
  /\ UNCHANGED <<upstream, account, event, poll, met, storers, pollFails>>

\* next_poll_at = now().  Mutant: the statement is forgotten.
MutMarked(row) == row
Marked(row) == [row EXCEPT !.due = TRUE]

MarkEventDue(q) ==
  /\ Goto(q, "markDue", "done", NoAnswer)
  /\ event' = [event EXCEPT ![For[q]] = Marked(@)]
  /\ UNCHANGED <<upstream, account, watch, poll, ghosts>>

\* Best-effort: its error is dropped.
MarkDueFails(q) ==
  /\ Goto(q, "markDue", "unmarked", NoAnswer)
  /\ UNCHANGED <<upstream, rows, poll, ghosts>>

\* A statement or the call to Ticketmaster returns an error, and so does Create.
Fail(q) ==
  /\ InWindow(q)
  /\ Goto(q, request[q].stage, "failed", NoAnswer)
  /\ UNCHANGED <<upstream, rows, poll, ghosts>>

Create(q) ==
  \/ CountPasses(q) \/ CountRefuses(q) \/ Resolve(q) \/ FetchUnknown(q)
  \/ UpsertEventByTMID(q) \/ CreateWatch(q) \/ MarkEventDue(q)
  \/ MarkDueFails(q) \/ Fail(q)

-----------------------------------------------------------------------------
(* Update, Delete and AccountService.Delete. *)
SetStatus(q, from, to) ==
  /\ watch[q] = from
  /\ watch' = [watch EXCEPT ![q] = to]
  /\ fresh' = fresh \ {q}
  /\ UNCHANGED <<upstream, account, event, request, poll, met, storers, pollFails>>

Pause(q)  == SetStatus(q, "active", "paused")
Resume(q) == SetStatus(q, "paused", "active")
Delete(q) == SetStatus(q, "active", "deleted") \/ SetStatus(q, "paused", "deleted")

\* DeleteUser: the watches go with the account (ON DELETE CASCADE).
Erase(u) ==
  /\ account[u]
  /\ account' = [account EXCEPT ![u] = FALSE]
  /\ watch' = [q \in Requests |-> IF q \in WatchesOf(u) THEN "deleted" ELSE watch[q]]
  /\ fresh' = fresh \ WatchesOf(u)
  /\ UNCHANGED <<upstream, event, request, poll, met, storers, pollFails>>

-----------------------------------------------------------------------------
(* Ticketmaster and the polls. *)
Upstream(e) ==
  /\ \E a \in Answers \ {upstream[e]} : upstream' = [upstream EXCEPT ![e] = a]
  /\ UNCHANGED <<rows, request, poll, ghosts>>

IntervalElapses(e) ==
  /\ event[e].stored /\ ~event[e].due
  /\ event' = [event EXCEPT ![e].due = TRUE]
  /\ UNCHANGED <<upstream, account, watch, request, poll, ghosts>>

\* ListDueEvents: some watch of the event is active.  Mutant: none is paused.
MutWanted(e) == ActiveOn(e) # {} /\ \A q \in Requests : For[q] = e => watch[q] # "paused"
Wanted(e) == ActiveOn(e) # {}

Move(p, from, to) == poll[p].pc = from /\ poll' = [poll EXCEPT ![p] = to]

Dispatch(p, e) ==
  /\ event[e].due /\ Wanted(e)
  /\ Move(p, "idle", [Idle EXCEPT !.pc = "fetch", !.event = e])
  /\ UNCHANGED <<upstream, rows, request, ghosts>>

PollFetch(p) ==
  /\ Move(p, "fetch", [poll[p] EXCEPT !.pc = "update", !.snap = upstream[poll[p].event]])
  /\ UNCHANGED <<upstream, rows, request, ghosts>>

UpdateEventLatest(p) ==
  /\ Move(p, "update", [poll[p] EXCEPT !.pc = "list"])
  /\ event' = [event EXCEPT ![poll[p].event] =
                 [stored |-> TRUE, avail |-> poll[p].snap, due |-> FALSE]]
  /\ UNCHANGED <<upstream, account, watch, request, ghosts>>

\* ListActiveWatchesForEvent and the evaluation of what it lists.
ListAndEvaluate(p) ==
  LET listed == ActiveOn(poll[p].event) IN
  /\ Move(p, "list", IF poll[p].snap = "cancelled" /\ listed # {}
                       THEN [poll[p] EXCEPT !.pc = "close"] ELSE Idle)
  /\ fresh' = fresh \ listed
  /\ UNCHANGED <<upstream, rows, request, met, storers, pollFails>>

\* CloseWatchesForEvent pauses what is active by now.
CloseWatches(p) ==
  LET closed == ActiveOn(poll[p].event) IN
  /\ Move(p, "close", Idle)
  /\ watch' = [q \in Requests |-> IF q \in closed THEN "paused" ELSE watch[q]]
  /\ UNCHANGED <<upstream, account, event, request, ghosts>>

PollFails(p) ==
  /\ poll[p].pc # "idle"
  /\ pollFails < MaxPollFails
  /\ pollFails' = pollFails + 1
  /\ poll' = [poll EXCEPT ![p] = Idle]
  /\ UNCHANGED <<upstream, rows, request, fresh, met, storers>>

Poll(p) ==
  PollFetch(p) \/ UpdateEventLatest(p) \/ ListAndEvaluate(p) \/ CloseWatches(p)

Next ==
  \/ \E q \in Requests : Create(q) \/ Pause(q) \/ Resume(q) \/ Delete(q)
  \/ \E u \in Users : Erase(u)
  \/ \E e \in Events : Upstream(e) \/ IntervalElapses(e) \/ \E p \in Pollers : Dispatch(p, e)
  \/ \E p \in Pollers : Poll(p) \/ PollFails(p)

Spec == Init /\ [][Next]_vars

\* Intervals end, a poll that began goes on, and a due event that stays wanted
\* gets its turn (PollScheduler: DueIsPolled).  Nothing is asked of requests.
Fairness ==
  /\ \A p \in Pollers : WF_vars(Poll(p))
  /\ \A e \in Events : /\ WF_vars(IntervalElapses(e))
                       /\ SF_vars(\E p \in Pollers : Dispatch(p, e))

FairSpec == Spec /\ Fairness

-----------------------------------------------------------------------------
Met(q, r)   == <<q, r>> \in met
Unmet(S)    == \A q, r \in S : q # r => ~Met(q, r)

(* The cap (watch.go: "you can track up to %d events at once") is checked  *)
(* statements before the insert it guards, so requests that overlap may    *)
(* together pass it.  This is the whole of the damage: watches of one user *)
(* no two of which were being created at the same time are never more than *)
(* the cap, whatever was paused, resumed, deleted and added in between.    *)
CapUnlessMet ==
  MaxPerUser > 0 =>
    \A u \in Users : \A S \in SUBSET WatchesOf(u) :
      Unmet(S) => Cardinality(S) <= MaxPerUser

(* Erasing an account leaves nothing behind (account.go:48) and nothing    *)
(* comes after it, although a session outlives its account and a request   *)
(* begun before, or even after, goes on: no watch is without its user's    *)
(* and its event's row.                                                    *)
ErasedLeavesNothing ==
  \A q \in Requests : Exists(q) => account[By[q]] /\ event[For[q]].stored

(* "One API call, only for new events" (watch.go:186): once one request    *)
(* stored an event, another one asks Ticketmaster for it, or is about to   *)
(* store what it was told, only if the two were being served at the same   *)
(* time -- whoever watches the event by then.                              *)
FetchersMet ==
  \A q \in storers, r \in Requests :
    q # r /\ For[q] = For[r] /\ request[r].stage \in {"fetch", "upsert"} => Met(q, r)

(* A new watch is evaluated promptly (watch.go:232): once the request that *)
(* inserted it has marked its event due, the event stays due until a poll  *)
(* that will list the watch has begun to -- a poll in flight, even one     *)
(* dispatched before the watch existed, never uses up the mark unseen.     *)
(* The exception is NoneIsPassedOver's: a poll that found the event over   *)
(* may pause the watch instead.                                            *)
NewWatchIsCovered ==
  \A q \in fresh :
    request[q].stage = "done" /\ pollFails = 0
      => \/ event[For[q]].due
         \/ \E p \in Pollers : poll[p].pc = "list" /\ poll[p].event = For[q]
         \/ watch[q] = "paused"

(* Create "marks the event due so the new watch is evaluated on the next   *)
(* tick" (watch.go:160-162): it is not paused before a poll listed it, its *)
(* user leaving it alone.                                                  *)
NoneIsPassedOver == \A q \in fresh : watch[q] # "paused"

(* Answers may be stored in another order than they were given -- by two   *)
(* pollers, or by a request whose fetch was overtaken by a poll -- but the *)
(* row of an event that stays watched ends up saying what Ticketmaster     *)
(* says, once that has stopped changing.                                   *)
RowsCatchUp ==
  \A e \in Events, a \in Answers :
    <>[](upstream[e] = a /\ ActiveOn(e) # {}) => <>[](event[e].avail = a)

-----------------------------------------------------------------------------
(* Why these hold.  The places a user's watches and requests past the count *)
(* take, counted together, obey the cap as long as they did not meet; and   *)
(* of requests in the window, any two did.                                  *)
Places(u) == {q \in Requests : By[q] = u /\ (Exists(q) \/ InWindow(q))}

WindowsMeet == \A q, r \in Requests : q # r /\ InWindow(q) /\ InWindow(r) => Met(q, r)

CapInv ==
  MaxPerUser > 0 =>
    \A u \in Users : \A S \in SUBSET Places(u) :
      Unmet(S) => Cardinality(S) <= MaxPerUser

\* An event is in the table before anything refers to it, and stays there.
StoredFirst ==
  /\ \A q \in storers : event[For[q]].stored
  /\ \A q \in Requests : request[q].stage \in {"insert", "markDue"} => event[For[q]].stored

\* What is about to be stored is an answer.
HoldsAnswer ==
  /\ \A q \in Requests : request[q].stage = "upsert" => request[q].snap \in Answers
  /\ \A p \in Pollers : poll[p].pc = "update" => poll[p].snap \in Answers

FreshExists == \A q \in fresh : Exists(q)
=============================================================================
