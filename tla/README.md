# TicketWatcher in TLA+

TicketWatcher polls Ticketmaster for the events its users watch and mails them
when a sale milestone is reached. This directory holds a TLA+ model of it, the
TLC configurations that check the model on small instances, and theorems TLAPS
checks for every value of the constants. Paths below are relative to `src/`.

## 1. Inventory

One process (`cmd/api/main.go`) serves the HTTP API and the web client and runs
the alert engine; its state of record is PostgreSQL.

| Component | State | Operations | Talks to |
|---|---|---|---|
| scheduler (`internal/scheduler`) | none but the ticker | `tick`: read the remaining budget, list due events, send them without blocking; `Run`: stop when ctx is done | quota, store, jobs channel |
| worker pool (`internal/worker`) | locals of one `ProcessEvent` per goroutine | read event, fetch, snapshot, update and reschedule, list watches, then per watch: evaluate, claim, gate, mail, mark, set `last_evaluation`; close | jobs channel, client, evaluator, store, notifier |
| evaluator (`internal/evaluator`) | none | `Evaluate(observation, prior)` | – |
| watch service (`internal/service/watch.go`) | `watches`, `events` | create (cap, resolve event, insert, mark due), pause/resume, delete, list with label, history | store, client |
| auth service (`internal/service/auth.go`) | `users`, `auth_tokens` | register, login, verify, resend, request reset, reset | store, mail sender |
| account service (`internal/service/account.go`) | consent columns | unsubscribe, resubscribe, delete | store |
| notifier (`internal/notifier`) | `notifications` | render, send, record; errors are logged | mail provider, store |
| outbound limit (`internal/ratelimit/quota.go`, `limiter.go`) | calls used per class, `resetAt`, a token bucket | `Reserve`, `Release`, `Remaining`, `Acquire` | – |
| Ticketmaster client (`internal/ticketmaster`) | none | `do`: acquire, call, back off on 429, retry; decode | limiter, Ticketmaster |
| inbound limit (`internal/ratelimit/ip.go`) | a bucket per client address | `Allow`, sweep | – |
| store (`internal/store`) | all tables | one SQL statement per operation; no transactions | – |
| HTTP API (`internal/httpapi`) | none | routing, decoding, status codes | services |
| web client (`web/src`) | React state, polled every 20 s | refresh, add, save, pause, delete | HTTP API |
| wiring, configuration, credentials, search | none that changes | start-up, reads | – |

How they interact: the scheduler and the workers share the `jobs` channel; the
workers, the requests of users and, after a restart, the next process share only
the database; workers and requests share the quota. No two statements are in
one transaction, so between any two of them every other actor may run.

Hard behaviours: several copies of one event in flight; a watch created, paused
or deleted during a poll of its event; a poll that fails or a process that dies
between two statements; answers that change between polls; the clock passing a
date between polls; midnight between a reservation and its refund; a full
channel; a signal at any point. What makes each component right:

* evaluator: vetoes beat dates; closed and open are never both said; each
  opening is seen by some poll; the label on the dashboard agrees, but for a
  status that runs ahead of its date.
* worker: a milestone is mailed at most once per watch; nobody unconfirmed is
  mailed; a failed poll is made good; a new watch is looked at.
* scheduler and shutdown: every due event has its turn; no send on a closed
  channel; a signal ends the process with nothing buffered.
* quota: a class is refused only because of its own calls; calls per day are
  bounded (not by the budget alone); a request always ends.
* tokens: a link that did its work is dead, and is used twice only by requests
  that overlap; asking again withdraws the earlier
  link and leaves one that works; a link acts on its own account only.
* watch service: the cap is passed by overlapping requests only; one call to
  Ticketmaster per unknown event; nothing outlives its account; the row of a
  watched event catches up with Ticketmaster.
* client: no placeholder for an unannounced date is taken for a date.
* inbound limit: dropping idle buckets gives no tokens away; the wait a refused
  client is told is long enough; the map stays bounded.
* web client: the list shows the latest state (not modelled).

`PROJECT.json` lists the hazards at their lines, with the properties about each.

## 2. Modules

| Module | Models | Extends |
|---|---|---|
| `Evaluator` | the pure decision function | – |
| `Ticketmaster` | the decoding of an answer: `toSnapshot`, `parseSaleTime`, `normalizeStatus` | `Evaluator` |
| `SaleTimeline` | one event and one watch over time, polls atomic, with the label | `Ticketmaster` |
| `AlertOnce` | abstract: an alert's right is free, held, spent | – |
| `AlertEngine` | the engine of one event, statement by statement | `Evaluator`; implements `AlertOnce` |
| `WatchService` | creating watches statement by statement, among polls, pauses, deletions and erased accounts | `Evaluator` |
| `PollScheduler` | several events: ticks, channel, pool, shutdown | – |
| `DailyQuota` | counters, `Acquire`, the retry loop of `do` | – |
| `AuthTokens` | the e-mailed links: issue, redeem, expire, erase, statement by statement | – |
| `TokenBucket` | abstract: one bucket per client, never dropped | – |
| `IPLimiter` | the inbound limit: buckets made, refilled, swept | – ; implements `TokenBucket` |
| `EvaluatorProofs`, `SaleTimelineProofs`, `AlertEngineProofs`, `WatchServiceProofs`, `PollSchedulerProofs`, `DailyQuotaProofs`, `AuthTokensProofs`, `IPLimiterProofs` | theorems | their module, TLAPS |
| `MC...` | constants for TLC | their module |

The decomposition follows how the code is coupled. Every SQL statement of the
engine is keyed by one event, so `AlertEngine` takes one event and all that
happens to it; other events only compete for channel and budget, which is what
`PollScheduler` is about. `SaleTimeline` keeps polls atomic to afford longer
histories of answers and dates. The two share `Evaluate`. `WatchService` gives
an event any number of requests to create its first watches, and leaves what a
poll alerts about to the engine: of an answer it keeps the availability.

### Evaluator

A `*time.Time` is a natural number, nil is 0. `Evaluate` returns the *set* of
kinds; the order in which the code appends them is `Rank`, and `FirstKinds`
yields the next one of a list. `Begun` is `!t.After(now)`, `Passed` is
`t.Before(now)`: the two comparisons the code uses, kept apart because much
depends on the instant itself.

### Ticketmaster

An `Answer` is the part of the JSON the program reads. A timestamp that is
absent or does not parse is `NoTime`; from `Sentinel` on it lies in the year
9999. `flagged` is `startTBD || startTBA`. `toSnapshot` is the method, field by
field; `presales` is a set, of which only the earliest time is kept (names and
the count are display only).

### SaleTimeline

`upstream` is what Ticketmaster answers now (any change of it is possible at any
time), `feed` the snapshot the client makes of it, `event` the row, `watch` the row, `fired` its `watch_alerts` rows,
`report` the kinds alerted by the last step. `PollActive` is a whole
`ProcessEvent` with the watch active, `PollOthers` one on behalf of other
watches while it is paused. `Refreshed` is `UpdateEventLatest`, which does not
write `event_date`. `missed` is history: a poll went by while the watch was
paused.

### AlertEngine

* `event`, `watch`, `claims`, `snapshots`, `consent` are the tables. `due`
  stands for `next_poll_at <= now()`: a poll sets it to FALSE, the passing of the
  interval or `MarkEventDue` to TRUE.
* `pc` and `loc` are where a worker stands in `ProcessEvent` and its local
  variables; a local is reset once the code does not read it any more.
* One action per statement or call: `ReadEvent`, `Fetch`,
  `InsertAvailabilitySnapshot`, `UpdateEventLatest`, `ListActiveWatches`,
  `ClaimWon`/`ClaimLost`/`ClaimGone`/`Unclaimed`, `Withhold`/`Send`/`SendFails`,
  `MarkNotified`, `SetLastEvaluation`, `CloseWatchesForEvent`. `NextWatch` and
  `Finish` are loop control. `ListActiveWatches` also evaluates: the observation is fixed and
  `Evaluate` is pure, so a listed row carries its verdict.
* `Abort` is an error return at any of those statements, `Crash` the end of the
  process: channel and locals are lost, the tables stay.
* A request to create a watch is `CreateResolve`, then, for an event the table
  does not hold, `CreateFetch` and `CreateUpsert`, then `CreateInsert` and
  `CreateMarkDue`; `CreateMarkDueFails` is the ignored error, `CreateFails` an
  error return. The upsert makes requests writers of the row that polls compare
  with: it stores the whole answer of its fetch, `event_date` included, over
  whatever is there by then. `Requests` may hold more than the watches' own:
  those end at the insert, which the foreign key rejects for an account erased
  meanwhile (`CreateRejected`), and leave only their upsert behind.
* `ClaimGone`: the watch was deleted after it was listed, the insert violates
  the foreign key, the poll returns.
* History: `mailed`; `overwrites`, how often a request's upsert found a row to
  overwrite; `fresh`, the watches no poll has listed yet whose users left them
  alone. A close that pauses such a watch does not take it out of `fresh`.

Not in it: the columns nothing in the engine reads (`last_notified_at`,
`notifications`, names and URLs); deletion of an account, which for the engine
is the deletion of its watches.

### WatchService

* `account`, `event`, `watch` are the tables; a watch is named by the request
  that may insert it. `request[q].stage` is the statement of `Create` that comes
  next: `CountPasses`/`CountRefuses`, `Resolve`, `FetchUnknown`,
  `UpsertEventByTMID`, `CreateWatch`, `MarkEventDue`/`MarkDueFails`; `Fail` is an
  error return.
* `Upserted`: a new row is due by the column's default; on a conflict the answer
  is overwritten and `next_poll_at` kept.
* `Erase` is `DeleteUser` with its cascade. A JWT is valid without its account,
  so a request may begin after it; `OwnerExists` is the foreign key it meets.
* `Dispatch`, `PollFetch`, `UpdateEventLatest`, `ListAndEvaluate`,
  `CloseWatches` are the statements of a poll that read or write these rows; two
  pollers may carry copies of one event.
* `met` (pairs of requests once between count and insert together), `storers`
  and `fresh` (as in the engine) are history.

The code promises neither an exact cap nor a single fetch to requests that
overlap; `CapUnlessMet` and `FetchersMet` say that overlap is the only way to
pass the cap or fetch twice, whatever happens between.

`CloseWatches` pauses whatever is active by then, a watch inserted after the list
included. `NewWatchIsCovered` therefore promises a new watch less than
`watch.go:160-162` does: it is listed by a poll its mark brings about, or paused
unseen by a poll that found the event over. The run `passed_over` reaches the
second. In the engine `EventuallyEvaluated` has the same exception; its run has
one watch, where a poll that closes has listed that watch, so it shows the
first.

### PollScheduler

`due` is the list of events whose `next_poll_at` is reached, oldest first, and
`active` says which of them are watched; `Batches` is `ListDueEvents` (WHERE,
ORDER BY and LIMIT) as a set of admissible answers. `CreateWatch` marks the event
due now, `StopWatching` and `ResumeWatch` leave its place alone. A poll is one
step, with the closing of an event's watches when its sale is over; a tick is not
(`Tick`, `SendJob`, `EndTick`). `Failing` are events for which Ticketmaster has no
answer any more. `left` is what `Remaining` says. `Signal`, `CloseJobs`,
`ShutdownComplete` are the three lines at the end of `main`.

### DailyQuota

`day`, `resetAt`, `used` are the quota's fields with days for instants; `pc` and
`attempt` follow a request through `Client.do`. `maybeReset` is applied by
`Reserve` and `Remaining` and not by `Release`, as in the code. `Restart` makes
new counters, as a new process does. History: `stamp`, when a request reserved;
`live`, which reservations stand; `sent`, the calls that went out today, of
whatever process; `restarts`, how many there were today.

The documents promise 5,000 calls a day and the default budgets add up to just
that. The code does not keep it: a restart brings the whole budget back, and a
call reserved before midnight is issued after it or refunded to the new day.
`DayOverrun` is the bound that is left, one budget per process of the day and one
call per request; with the budget alone TLC shows either way in seven steps or
eight (`PROJECT.json`, findings).

### AuthTokens

The successive accounts of one address (`CreateUser` is refused while one of
them is open), their `auth_tokens` rows and the requests of `auth.go`. A request
issues at most one token, so `token[r]` is the row request `r` inserts, and
`about[r]`, the request's locals, also names the row's owner and purpose.
`ClearOld`, `StoreToken`, `MailLink` are `issueToken` and the mail; `Redeem`,
`MarkUsed`, `Apply`, `BurnOthers` are `redeemToken` and the rest of
`VerifyEmail` and `ResetPassword`. `Fail` is an error of any statement after the
first, of the mail, or of `HashPassword`. A raw token exists only in a mail, so
`Redeem` takes links from `inbox`. A request refused by its first statement
changes nothing and is left out, as are `Login` and `Me`, which only read.
`usedBy` (who acted on a link) and `met` are history.

Two redemptions that both find the row before either marks it both go through:
the lookup and the mark are two statements, and the mark does not ask whether the
row is unused. The migration calls the tokens single-use and the mail says "can be
used once", which is a finding. `SingleUseUnlessMet` says what holds: nobody finds
a link after it has acted, and two requests use one link only if they met between
those two statements. In the same way two links work at
once exactly when their requests were both inside `issueToken` (`TwoLinksMet`),
and then too one of those in the inbox works (`SomeLinkWorks`).

### IPLimiter and TokenBucket

`Allow` holds the mutex from end to end, so a request is one action: the sweep
(`Kept`, `Swept`), the bucket found or made (`Found`, `Touch`), and `Admit` or
`Refuse`. Time is counted in a unit that divides the second and the time one
token takes; a token is `Period` units, and a bucket gains one unit per unit of
time. `golang.org/x/time/rate` is modelled by that refill (`Refilled`) and by
`CancelAt`, which puts the token back. `Refuse` includes the `Retry-After` of
`httpapi/ratelimit.go`. `start`, `admitted` and `told` are history.

`TokenBucket` keeps a bucket for every client for ever; the refinement mapping
gives a client the map does not hold a full bucket. `LimiterAssumption` says
that a bucket fills within `Ttl`, as with the configured ten a minute, burst
five and ten minutes. With a rate so low that it does not, eviction would give
tokens away; the code does not check this.
`!res.OK()` cannot occur since the burst is at least one, and is left out; so
are the rounding of float64 tokens and `clientIP`.

## 3. Runs

| Run | Module / configuration | Instance | Shows |
|---|---|---|---|
| `sale_timeline` | `MCSaleTimeline` | one watch, 4 instants, 19 raw answers in any order | label and alerts agree, one named case apart; a status alert is news; an opening is claimed by the poll that stores it; no unannounced date reaches a user |
| `alert_engine` | `MCAlertEngine` | 2 workers, 1 watch, 1 slot, one change of the answer, one disturbance | at most one mail per milestone; refinement of `AlertOnce`; nobody unconfirmed is mailed |
| `alert_engine_live` | `MCAlertEngine` / `MCAlertEngineLive` | 1 worker, 1 watch and a second first request, an event known or not, one change, one disturbance, fairness | a new watch is evaluated, an open sale claimed, eventually; mails of a flip never outnumber changes and failures, repeated rows of the history never failures and overwriting requests |
| `watch_service` | `MCWatchService` | 2 requests of one user for one unknown event, cap 1, 2 pollers, one failed poll, fairness | cap and fetch: passed or repeated only by requests that overlap; nothing outlives its account; a new watch is covered, unless paused unseen; the row catches up |
| `daily_quota` | `MCDailyQuota` | 2 pollers, 1 search, budgets 2 and 1, one retry, one midnight, one restart a day | refusals are fair; a day's overrun is bounded by one budget per process and the requests in flight; requests end |
| `poll_scheduler` | `MCPollScheduler` | 2 events, 2 workers, 1 slot, ticks of 2, budget 2, two requests | every due event is polled; shutdown is orderly and complete |
| `auth_tokens` | `MCAuthTokens` | 2 successive accounts, 4 requests of any kind, symmetric | a link that acted is dead; two uses of one only by requests that met; two links only of requests that met; one link works; nothing outlives its account |
| `ip_limiter` | `MCIPLimiter` | 2 clients, burst 2, a token per 3 units, sweeps every 6, 18 units of time | refinement of `TokenBucket`; burst and rate hold over evictions; `Retry-After` suffices; the map is bounded |
| `moved_event` | `MCSaleTimeline` / `MCMovedEvent` | as above | violation: a moved event is closed at its first date |
| `passed_over` | `MCWatchService` / `MCPassedOver` | 2 users' requests, 1 poller | violation: a new watch is paused without having been looked at |
| `lost_announcement` | `MCAlertEngine` / `MCLostAnnouncement` | 2 watches, one deletion | violation: another user's announcement is lost |
| `dead_events` | `MCPollScheduler` / `MCDeadEvents` | 2 events that fail, 1 that answers | violation: the healthy event starves |

Each violation is a disagreement between the code and a sentence in it or in
its documents; `PROJECT.json` "findings" quotes them. Five properties of the
passing runs are weaker than such a sentence and say by how much; for each, TLC
refutes the sentence as it stands, and the findings give the behaviour:

| Property | The sentence | What the property adds |
|---|---|---|
| `LabelAgreesWithAlerts` | label and alerts can never disagree (`watch.go:98-100`) | a status that says onsale before the date it comes with (`StatusOutrunsDate`) |
| `FlipsAccounted` | once per transition, no duplicate mail (`worker.go:248-250`, `README.md:47-49`) | one mail for each failure |
| `RepeatsAccounted` | a clean list of transitions (`worker.go:97`) | one repeated row for each failure and each overwriting request |
| `DayOverrun` | within 5,000 a day (`quota.go:1-2`) | one budget for each restart, one call for each request |
| `SingleUseUnlessMet` | single-use (`0003_email_verification.sql:13`) | requests that met between lookup and mark |

### Bounds and why they are enough

* `MaxTime` (4, or 2 in the engine): a date is before, at or after the watch's
  creation and the poll. The answers contain dates at each of those places.
* `Limit`, `Disturbances` (engine): one change of the answer, and one crash,
  failed statement or user request per behaviour. Any single point of failure
  and any single interfering request is covered; two of them together are left
  to the proofs, which have no bound.
* `QueueCap` 1 with two workers gives up to three copies of an event in flight.
* `Watches`, `Requests`: one watch for properties of a watch; two in
  `lost_announcement`, where one affects the other. `alert_engine_live` has a
  second request (`r1`), which needs no watch of its own to overwrite the row
  with an older answer: two first requests and a poll between the slower one's
  fetch and upsert are all a repetition takes. The initial event is one nobody
  asked for, or one already stored, due or not.
* `watch_service`: two requests are all a pair can meet of, one place under the
  cap, one event both ask for; two pollers so that answers are stored out of
  order. Changes of the answer, pauses and deletions are not bounded. That two
  or more users, events and requests change nothing is what the proofs say.
* `ip_limiter`: a bucket holds two tokens, fills in six units, which is also
  `Ttl` (the least the assumption allows), and a second is two units, which does
  not divide `Period`, so that rounding matters. `MaxTime` leaves room for a
  sweep, an eviction and a second sweep.
* Answers: every availability but `postponed` (which the code treats as
  `rescheduled`); a sale date absent, in the year 9999, flagged, reached during
  the run, or moved; no, one and several presales; an end that is reached.
* `MaxDay` 1: one midnight separates today from yesterday; nothing in the quota
  remembers more than that. `MaxRestarts` 1 a day: two processes share a day.
* `MaxRetries` 1 (3 in the code): a request retries or has used its retries up.
* `MaxTick` 2, `QueueCap` 1, `Budget` 2 against two due events: a batch of two
  does not fit the channel, and when one call is left the LIMIT cuts it. That any
  number of events keep their order is proved (`TurnsComeInOrder`).
* `Requests` (tokens): registration and three more, so that two requests issue
  while a third redeems, or two redeem one link; `Accounts`: one erased, one
  after it. Failures, expiry and erasure are not bounded.
* `MaxFaults`, `MaxRequests` (scheduler): one poll that fails in passing, and two
  requests that create, stop or resume the watching of an event; whether it was
  watched at the start is open, and a poll may end it at any time.

`CHECK_DEADLOCK FALSE` is set for the engine, whose bounded environment comes to
rest, for the scheduler, whose process ends, and for the tokens and the watch
service, whose requests end. Workers are interchangeable in
`alert_engine`, requests and accounts in `auth_tokens`, clients in `ip_limiter`;
none of these runs has a liveness property, so they are declared symmetric.

### Fairness

* Engine: the polling interval ends, the ticker ticks (`Enqueue`), goroutines
  are scheduled (`Work`), a request that began runs to its end. Nothing is
  assumed of Ticketmaster's answers, users, failures or crashes; `SendFails`,
  `Abort`, `CreateFails` and `CreateMarkDueFails` are bounded by `Limit`, not by
  fairness. Fairness of `Enqueue` supposes that a slot of the channel comes free
  for the event, which events that fail for ever can prevent (`dead_events`).
* Scheduler: ticks, goroutines, `main` going on after the signal, and every day
  ending. A poll ends because the HTTP client has a timeout of ten seconds and
  retries are bounded (`daily_quota` shows the latter). `DueIsPolled` is
  conditional on a budget that is not used up for ever (`BudgetLasts`): the
  budget is not reserved for queued events, so stale copies may spend it.
* Watch service: an interval ends, a poll that began goes on (`PollFails` is
  bounded), and an event that is due and wanted again and again is dispatched:
  strong fairness, since another copy's update may take the mark away before
  the tick; it is what `DueIsPolled` shows of the scheduler. Nothing is assumed
  of requests.
* Quota: weak fairness of a request's own way through `do`; cancellation is
  never forced.

## 4. Proofs

All proofs are about the specifications themselves, for every set of watches,
users, workers, events and requests, every capacity, budget and bound.
Assumptions are the named `ASSUME`s of the modules: types of the constants, at
least one watch and one answer in the engine, at least one worker in the
scheduler, finitely many requests in the quota and the watch service, a bucket
that fills within `Ttl` in the inbound limiter.

* `EvaluatorProofs`: vetoes beat triggers; closed and open are never said
  together; at most one of date and status says that a sale is open.
* `SaleTimelineProofs`: every property of the run `sale_timeline`. Most follow
  from one poll: the label reads the row, the verdict read the same fields of
  the same answer (`SameFields`), and what the client stores of an answer is a
  date or a presale Ticketmaster gave (`FeedIsGiven`; an earliest presale
  exists because the natural numbers are well-founded). `StatusFlipIsNews`
  relates two polls and needs `EdgeInv`: `last_evaluation`, kept by the watch's
  own polls, follows `last_availability`, kept by everybody's, until a poll
  passes the watch by.
* `AlertEngineProofs`: `TypeCorrect`, one step per action. `AtMostOnce` is not
  inductive: a worker that has won its claim and not mailed yet could mail a
  second time. `ClaimInv` adds what is missing: at most one worker holds the
  right to an alert (`OneHolder`); who holds it, or has mailed it, left
  something behind that keeps everybody else from winning it — the
  `watch_alerts` row, or the watch's deletion, which takes the row away but
  makes the insert fail (`HeldIsGone`, `MailedIsGone`); and a deleted id does
  not come back (`UnbornIsNone`). `Refinement` uses the same invariant: winning
  a claim is `Win`, the mail is `Mail`, and every other step is `Lose` or
  leaves the abstract state alone. `NoMailToUnverified` needs `GateInv`: what a
  listed row says of the mail's consent may be out of date when the mail
  leaves, but verification is never taken back (`VerifiedStays`).

  `RepeatsAreFailures` and `FlipsArePaidFor` are about polls of which no two
  overlap (`[]Alone`, which one worker guarantees: `OneWorkerSuffices`; two
  workers do repeat rows and mails). Everything else is free: any statement may
  fail, any mail be refused, the process crash, users may do what they like, and
  Ticketmaster's answer may change between any two statements. A status travels
  from the answer to the poll, to the `events` row, to `last_evaluation`. Both
  theorems keep an account. `SnapshotInv`: the row a poll read is still the row
  unless a request stored its answer meanwhile, and the repeated rows of the
  history, plus one if its last row is not what the row says (`Off`), never
  outnumber the failures and such requests (`Causes`): only a poll that failed
  between the insert and the update, or an upsert over a stored row
  (`StoredFirst`), parts the two, and only then can the next poll insert the same
  status again.

  `FlipInv` follows the status from Ticketmaster's answer to what a poll holds
  (`Front`) and on to a watch's `last_evaluation`. Each place on that way where
  the next one does not know yet of an open sale may still become a mail
  (`Debt`); those, with the mails sent, are at most the changes of the answer and
  the failures (`FlipsAreBacked`). The row is not on the way: what a request
  stores over it reaches a watch only as the seed it is inserted with. A watch
  therefore starts with a seed that disagrees with the answer only if that has
  changed at least once, and has no mail to account for yet (`NoNews`,
  `UnbornIsUnmailed`). `PollsAreSound`: a poll goes through a watch once. Both
  bounds are attained: a failure between the mail and `SetLastEvaluation` repeats
  the mail, one between `InsertAvailabilitySnapshot` and `UpdateEventLatest` the
  row.
* `WatchServiceProofs`: `CapInv` counts places: a user's watches, and the
  user's requests between the count and the insert. Any two requests in that
  window met (`WindowsMeet`), so among places that never met at most one is
  such a request, and its count saw the watches of the others.
  `ErasedLeavesNothing` rests on the foreign keys: whatever refers to an event
  finds it stored, and an account's watches go with it. `FetchersMet` is the
  argument of `WindowsMeet` for the requests that found an event unknown. The
  types need `HoldsAnswer` and `StoredFirst`: what is about to be stored is an
  answer. For `NewWatchIsCovered`, `IsCovered` names the ways in which a fresh
  watch is still looked after; a poll's update of `next_poll_at` takes the mark
  away before the poll lists, so a poll that takes it lists the watch, and the
  one way out is a close that pauses the watch.
* `DailyQuotaProofs`: `used` may fall behind the standing reservations (a
  refund after midnight) and never gets ahead of them. A refund of today's
  takes one standing reservation back only if there is one, hence
  `WaitersStand`: those who wait under today's stamp are at most as many as
  stand. A reset leaves no waiter of the new day behind, hence `StampsPast`.
  For `DayOverrun`, `OverrunInv` weighs what was issued today and what may
  still be without another reservation against today's counter, a budget for
  each earlier process of the day, and one call per request.
* `PollSchedulerProofs`: a worker leaves only when the channel is closed and
  empty; it stays so because the sender has stopped for good; `main` waits for
  all workers. The types need that an event is in the list once, hence what
  taking a row out does to a sequence (`WithoutRows`, `WithoutType`). The same
  lemmas give the safety part of `DueIsPolled`: no step puts another event before
  one that is due, unless a watch on it is created (`NeverOvertaken`), so those
  before it only get fewer.
* `AuthTokensProofs`: `RowInv` follows one row: it is not there before its
  request stored it, it is marked before its link is acted upon, and neither a
  used nor a deleted row becomes redeemable again. `UseInv` adds who found a link
  and has not been refused since: any two of them met, the second having found the
  row when the first had not marked it yet. For `TwoLinksMet`, `PairInv`
  adds those still between the two statements: they have met each other
  (`StoringMet`) and the issuer of any link that works (`LiveMet`), since their
  own deletion would have withdrawn an earlier one. `LinkInv` says whose a link
  is — a mailed one is its request's own, a request redeems one of its own user
  and purpose — which gives `OwnLinksOnly`; and with `NewestInv` (as long as
  nothing but issuing happened, some request will still store its link, or has
  and it works) `SomeLinkWorks`.
* `IPLimiterProofs`: a bucket the sweep drops would be full by then
  (`SweepIsFree`), so a client that comes back to a new one is no better off:
  the sweep is a stutter of `TokenBucket`. `WindowBound` follows from what a
  bucket may hold (`Covered`), `RetryAfterIsEnough` from what it must
  (`Promised`), `MapBounded` from when each client was seen
  (`SeenAroundSweep`).

Only model-checked: the liveness properties, `RowsCatchUp` included, which are
outside the prover's reach. Every invariant and action property of the runs that
pass is a theorem.

## 5. Not modelled, and the plan

Not modelled, and why:

* the **web client** (`web/`): it holds a copy of what the API returns and draws
  it. Its one hazard, a late answer of an earlier refresh overwriting a newer
  one, is a race inside the browser's fetches with nothing of the server in it;
* the **HTTP layer** (`httpapi/`): routing, JSON, status codes, cookies. The
  handlers call one service operation each; those are modelled;
* `clientIP` of the inbound limit: which header names the client is parsing of
  text; a client is a key here;
* mail texts and SMTP, cryptography, configuration, migrations, generated code
  other than the SQL statements the modules map, search and notification lists
  (single reads, nothing kept).

Abstractions that could be refined, in this order:

1. `WatchService` and `AlertEngine` composed through the `events` and `watches`
   rows. Today each carries the other's part as far as it needs it: the engine
   has `CreateInsert` and pauses, the service has polls without alerts.
2. `DailyQuota` and `PollScheduler` composed through `left`; today the scheduler
   has the budget as one number and the quota has no queue.
3. Tokens of the inbound limit as floating-point numbers; here they are counted
   in whole units of the refill.
