--------------------------- MODULE PollScheduler ---------------------------
(***************************************************************************)
(* Which event is polled when: the scheduler's ticks, the jobs channel,    *)
(* the worker pool, the daily poll budget and main's graceful shutdown,    *)
(* over several events.  A poll is one step here (AlertEngine takes it     *)
(* apart), a tick is not: the workers run while it lists and sends.        *)
(*                                                                         *)
(* due holds the events with next_poll_at <= now() in the order of         *)
(* next_poll_at.  An event becomes due later than those that already are,  *)
(* and MarkEventDue stores now(): both go to the end.                      *)
(***************************************************************************)
EXTENDS Naturals, Sequences, SequencesExt, FiniteSets

CONSTANTS
  Events,
  Failing,     \* events Ticketmaster has no answer for any more
  Workers,     \* goroutines of the pool
  QueueCap,    \* capacity of the jobs channel
  MaxTick,     \* MaxEventsPerTick
  Budget,      \* polls a day
  MaxFaults,   \* bound on polls that fail in passing
  MaxRequests  \* bound on requests that touch an event's watches

ASSUME SchedulerAssumption ==
  /\ IsFiniteSet(Events) /\ Failing \subseteq Events
  /\ IsFiniteSet(Workers) /\ Workers # {}
  /\ QueueCap \in Nat \ {0}
  /\ MaxTick \in Nat \ {0}
  /\ Budget \in Nat \ {0}
  /\ MaxFaults \in Nat
  /\ MaxRequests \in Nat

VARIABLES
  due,      \* the events whose next_poll_at is reached
  active,   \* the events with an active watch
  sched,    \* the scheduler: "waiting", "sending" or "stopped"
  listed,   \* the rows of the tick that are still to be sent
  jobs,     \* the channel's buffer
  closed,   \* the channel is closed
  pc,       \* each worker: "idle", "polling" or "exited"
  job,      \* the event each worker polls
  left,     \* Remaining(ClassPoll)
  main,     \* main: "serving", "stopping", "draining" or "done"
  faults,   \* polls that failed in passing, against MaxFaults
  requests  \* against MaxRequests

vars == <<due, active, sched, listed, jobs, closed, pc, job, left, main, faults, requests>>

NoEvent   == "none"
Cancelled == main # "serving"       \* ctx is done

TypeOK ==
  /\ due \in Seq(Events) /\ IsInjective(due)
  /\ active \in SUBSET Events
  /\ sched \in {"waiting", "sending", "stopped"}
  /\ listed \in Seq(Events) /\ Len(listed) <= MaxTick
  /\ jobs \in Seq(Events) /\ Len(jobs) <= QueueCap
  /\ closed \in BOOLEAN
  /\ pc \in [Workers -> {"idle", "polling", "exited"}]
  /\ job \in [Workers -> Events \cup {NoEvent}]
  /\ left \in 0..Budget
  /\ main \in {"serving", "stopping", "draining", "done"}
  /\ faults \in 0..MaxFaults
  /\ requests \in 0..MaxRequests

\* After a restart: everything is due, in some order.
Init ==
  /\ due \in SetToSeqs(Events)
  /\ active \in SUBSET Events
  /\ sched = "waiting" /\ listed = <<>>
  /\ jobs = <<>> /\ closed = FALSE
  /\ pc = [p \in Workers |-> "idle"]
  /\ job = [p \in Workers |-> NoEvent]
  /\ left = Budget
  /\ main = "serving"
  /\ faults = 0 /\ requests = 0

-----------------------------------------------------------------------------
(* The rows: an event has one. *)
Without(s, e) == RemoveFirst(s, e)

Precedes(s, e, f) == \E i, j \in DOMAIN s : i < j /\ s[i] = e /\ s[j] = f

\* next_poll_at is reached.
IntervalElapses(e) ==
  /\ e \notin ToSet(due)
  /\ due' = Append(due, e)
  /\ UNCHANGED <<active, sched, listed, jobs, closed, pc, job, left, main, faults, requests>>

UserRequest ==
  /\ requests < MaxRequests /\ ~Cancelled
  /\ requests' = requests + 1
  /\ UNCHANGED <<sched, listed, jobs, closed, pc, job, left, main, faults>>

\* WatchService.Create ends with MarkEventDue: an event that was due already
\* is put behind the others.
CreateWatch(e) ==
  /\ UserRequest
  /\ active' = active \cup {e}
  /\ due' = Append(Without(due, e), e)

\* The event's last active watch is paused or deleted: next_poll_at stays.
StopWatching(e) ==
  /\ UserRequest
  /\ active' = active \ {e}
  /\ UNCHANGED due

\* A watch is resumed, or created while MarkEventDue fails: the event is found
\* at its old place.
ResumeWatch(e) ==
  /\ UserRequest
  /\ active' = active \cup {e}
  /\ UNCHANGED due

\* DailyQuota is reset.
Midnight ==
  /\ left < Budget
  /\ left' = Budget
  /\ UNCHANGED <<due, active, sched, listed, jobs, closed, pc, job, main, faults, requests>>

-----------------------------------------------------------------------------
(* The scheduler. *)
MinOf(m, n) == IF m < n THEN m ELSE n

\* ListDueEvents(budget): WHERE, ORDER BY and LIMIT.  Mutant: the newest first.
Waiting == ToSet(due) \cap active
Limit   == MinOf(left, MaxTick)

MutEarlier(e, f) == Precedes(due, f, e)
Earlier(e, f) == Precedes(due, e, f)

Batches ==
  {rows \in SeqOf(Waiting, Limit) :
     /\ \A i \in 2..Len(rows) : Earlier(rows[i - 1], rows[i])
     /\ \A e \in Waiting \ ToSet(rows) :
          Len(rows) = Limit /\ \A i \in DOMAIN rows : Earlier(rows[i], e)}

\* Once ctx is done the query fails and the tick has nothing to send.
Tick ==
  /\ sched = "waiting" /\ ~Cancelled
  /\ \E rows \in Batches : rows # <<>> /\ listed' = rows
  /\ sched' = "sending"
  /\ UNCHANGED <<due, active, jobs, closed, pc, job, left, main, faults, requests>>

\* A send on jobs does not block.  Mutant: one slot too many.
MutHasRoom == Len(jobs) <= QueueCap
HasRoom == Len(jobs) < QueueCap

\* When ctx is done, too, select may still choose to send.
SendJob ==
  /\ sched = "sending" /\ listed # <<>>
  /\ HasRoom
  /\ jobs' = Append(jobs, Head(listed))
  /\ listed' = Tail(listed)
  /\ UNCHANGED <<due, active, sched, closed, pc, job, left, main, faults, requests>>

\* All sent, or the channel is full and the rest is left for the next tick,
\* or ctx is done.
EndTick ==
  /\ sched = "sending"
  /\ listed = <<>> \/ ~HasRoom \/ Cancelled
  /\ sched' = "waiting"
  /\ listed' = <<>>
  /\ UNCHANGED <<due, active, jobs, closed, pc, job, left, main, faults, requests>>

StopScheduler ==
  /\ sched = "waiting" /\ Cancelled
  /\ sched' = "stopped"
  /\ UNCHANGED <<due, active, listed, jobs, closed, pc, job, left, main, faults, requests>>

-----------------------------------------------------------------------------
(* The worker pool. *)
TakeJob(p) ==
  /\ pc[p] = "idle" /\ jobs # <<>>
  /\ pc' = [pc EXCEPT ![p] = "polling"]
  /\ job' = [job EXCEPT ![p] = Head(jobs)]
  /\ jobs' = Tail(jobs)
  /\ UNCHANGED <<due, active, sched, listed, closed, left, main, faults, requests>>

EndPoll(p) ==
  /\ pc[p] = "polling"
  /\ pc' = [pc EXCEPT ![p] = "idle"]
  /\ job' = [job EXCEPT ![p] = NoEvent]
  /\ UNCHANGED <<sched, listed, jobs, closed, main, requests>>

\* A call was spent and UpdateEventLatest moved next_poll_at; if the sale is
\* over, CloseWatchesForEvent follows.
PollSucceeds(p) ==
  /\ ~Cancelled /\ left > 0 /\ job[p] \notin Failing
  /\ EndPoll(p)
  /\ left' = left - 1
  /\ due' = Without(due, job[p])
  /\ active' \in {active, active \ {job[p]}}
  /\ UNCHANGED faults

\* No budget, or ctx is done: no call, and next_poll_at stays.
PollRefused(p) ==
  /\ Cancelled \/ left = 0
  /\ EndPoll(p)
  /\ UNCHANGED <<due, active, left, faults>>

\* A call was spent on an error; next_poll_at stays.
PollFails(p) ==
  /\ ~Cancelled /\ left > 0
  /\ \/ job[p] \in Failing /\ UNCHANGED faults
     \/ job[p] \notin Failing /\ faults < MaxFaults /\ faults' = faults + 1
  /\ EndPoll(p)
  /\ left' = left - 1
  /\ UNCHANGED <<due, active>>

\* range over a closed channel ends when its buffer is empty.  Mutant: at once.
MutDrained == closed
Drained == closed /\ jobs = <<>>

ExitWorker(p) ==
  /\ pc[p] = "idle" /\ Drained
  /\ pc' = [pc EXCEPT ![p] = "exited"]
  /\ UNCHANGED <<due, active, sched, listed, jobs, closed, job, left, main, faults, requests>>

-----------------------------------------------------------------------------
(* main's shutdown. *)
Signal ==
  /\ main = "serving"
  /\ main' = "stopping"
  /\ UNCHANGED <<due, active, sched, listed, jobs, closed, pc, job, left, faults, requests>>

\* schedWG.Wait, then close(jobs).  Mutants: it does not wait; it does not close.
MutSafeToClose == TRUE
MutClosed == closed
SafeToClose == sched = "stopped"
Closed == TRUE

CloseJobs ==
  /\ main = "stopping" /\ SafeToClose
  /\ main' = "draining"
  /\ closed' = Closed
  /\ UNCHANGED <<due, active, sched, listed, jobs, pc, job, left, faults, requests>>

\* workersWG.Wait.
ShutdownComplete ==
  /\ main = "draining"
  /\ \A p \in Workers : pc[p] = "exited"
  /\ main' = "done"
  /\ UNCHANGED <<due, active, sched, listed, jobs, closed, pc, job, left, faults, requests>>

-----------------------------------------------------------------------------
EndsPoll(p) == PollSucceeds(p) \/ PollRefused(p) \/ PollFails(p)

Scheduler == Tick \/ SendJob \/ EndTick \/ StopScheduler

Next ==
  \/ \E e \in Events :
       IntervalElapses(e) \/ CreateWatch(e) \/ StopWatching(e) \/ ResumeWatch(e)
  \/ Midnight \/ Scheduler
  \/ \E p \in Workers : TakeJob(p) \/ EndsPoll(p) \/ ExitWorker(p)
  \/ Signal \/ CloseJobs \/ ShutdownComplete

Spec == Init /\ [][Next]_vars

\* The ticker ticks, goroutines are scheduled, a poll ends (the client's
\* timeout, bounded retries), main goes on and every day ends.
FairSpec ==
  /\ Spec
  /\ WF_vars(Midnight) /\ WF_vars(Scheduler)
  /\ \A p \in Workers : WF_vars(TakeJob(p) \/ EndsPoll(p) \/ ExitWorker(p))
  /\ WF_vars(CloseJobs) /\ WF_vars(ShutdownComplete)

-----------------------------------------------------------------------------
(* The channel is closed only when nobody will send on it any more         *)
(* (main.go:122): a send on a closed channel would panic.                  *)
NoSendAfterClose == closed => sched = "stopped"

(* When main returns, every buffered event was handed to a worker and no   *)
(* worker is still polling (main.go:124, worker.go:56).                    *)
DrainedWhenDone ==
  main = "done" => jobs = <<>> /\ \A p \in Workers : pc[p] # "polling"

(* A signal always ends the process, wherever the scheduler and the        *)
(* workers stand when it arrives.                                          *)
ShutdownCompletes == Cancelled ~> main = "done"

\* From some day on the budget is not used up.
BudgetLasts == <>[](left > 0)

(* Every due event is polled: the channel may be full, the event queued    *)
(* twice, its poll fail, its place be lost to a new watch, yet its turn    *)
(* comes, unless nobody watches it any more, the process is stopped        *)
(* (scheduler.go:69) or the budget is spent day after day, when stale      *)
(* copies may always be what it is spent on.                               *)
DueIsPolled ==
  BudgetLasts =>
    \A e \in Events : e \in Waiting ~> e \notin Waiting \/ Cancelled

(* The same for the events that do answer, whatever others do.             *)
HealthyIsPolled ==
  BudgetLasts =>
    \A e \in Events \ Failing : e \in Waiting ~> e \notin Waiting \/ Cancelled
=============================================================================
