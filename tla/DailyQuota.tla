----------------------------- MODULE DailyQuota -----------------------------
(***************************************************************************)
(* Outbound Ticketmaster calls: DailyQuota's counters, Limiter.Acquire and *)
(* the retry loop of Client.do, shared by pollers and HTTP requests.  A    *)
(* request reserves before every attempt, waits for a token of the bucket, *)
(* calls, and on a 429 backs off and tries again; its context may be       *)
(* cancelled at any point.  Counters are reset by the first Reserve or     *)
(* Remaining after midnight, and lost when the process restarts.           *)
(*                                                                         *)
(* Every operation on the counters holds the mutex, so it is one step; the *)
(* bucket (golang.org/x/time/rate) is a wait that ends at any time.        *)
(***************************************************************************)
EXTENDS Integers, FiniteSets

CONSTANTS
  Requests,    \* goroutines in Client.do
  ClassOf,     \* ClassPoll or ClassSearch, per request
  Budget,      \* calls a day, per class
  MaxRetries,  \* attempts after the first
  MaxDay,      \* bound on the days
  MaxRestarts  \* bound on the restarts of one day

Class == {"poll", "search"}

ASSUME QuotaAssumption ==
  /\ IsFiniteSet(Requests)
  /\ ClassOf \in [Requests -> Class]
  /\ Budget \in [Class -> Nat]
  /\ MaxRetries \in Nat
  /\ MaxDay \in Nat
  /\ MaxRestarts \in Nat

VARIABLES
  day,      \* the calendar day
  resetAt,  \* the day at whose midnight the counters are due to be reset
  used,     \* calls reserved, per class
  pc,       \* where each request stands
  attempt,  \* Client.do's loop variable
  stamp,    \* history: the resetAt under which a request reserved
  live,     \* history: reservations since the reset that were not refunded
  sent,     \* history: calls issued today, per class, whatever process issued them
  restarts  \* history: how often the process was restarted today

quota == <<resetAt, used, live>>
today == <<day, restarts>>
vars  == <<today, quota, pc, attempt, stamp, sent>>

PC   == {"idle", "acquire", "wait", "call", "backoff"}
Zero == [c \in Class |-> 0]

TypeOK ==
  /\ day \in Nat
  /\ resetAt \in Nat
  /\ used \in [Class -> Nat]
  /\ pc \in [Requests -> PC]
  /\ attempt \in [Requests -> 0..MaxRetries]
  /\ stamp \in [Requests -> Nat]
  /\ live \in [Class -> Nat]
  /\ sent \in [Class -> Nat]
  /\ restarts \in Nat

Init ==
  /\ day = 0
  /\ resetAt = 1
  /\ used = Zero
  /\ pc = [r \in Requests |-> "idle"]
  /\ attempt = [r \in Requests |-> 0]
  /\ stamp = [r \in Requests |-> 0]
  /\ live = Zero
  /\ sent = Zero
  /\ restarts = 0

-----------------------------------------------------------------------------
(* DailyQuota. *)

\* What maybeReset leaves.  Mutant: resetAt is not moved on.
Elapsed == day >= resetAt
MutResetAt == resetAt
ResetAt == IF Elapsed THEN day + 1 ELSE resetAt
Used(c) == IF Elapsed THEN 0 ELSE used[c]
Live(c) == IF Elapsed THEN 0 ELSE live[c]

maybeReset ==
  /\ resetAt' = ResetAt
  /\ used' = [c \in Class |-> Used(c)]
  /\ live' = [c \in Class |-> Live(c)]

Exhausted(c) == Used(c) >= Budget[c]

Reserve(c) ==
  /\ ~Exhausted(c)
  /\ resetAt' = ResetAt
  /\ used' = [d \in Class |-> IF d = c THEN Used(d) + 1 ELSE Used(d)]
  /\ live' = [d \in Class |-> IF d = c THEN Live(d) + 1 ELSE Live(d)]

\* Mutants: a refund that is forgotten; one that may go below zero.
MutRefund(n) == n
MutRefundBelow(n) == n - 1
Refund(n) == IF n > 0 THEN n - 1 ELSE n

\* Release does not reset, and does not ask when the call was reserved.
Release(r) ==
  LET c == ClassOf[r] IN
  /\ used' = [used EXCEPT ![c] = Refund(@)]
  /\ live' = IF stamp[r] = resetAt THEN [live EXCEPT ![c] = @ - 1] ELSE live
  /\ UNCHANGED resetAt

\* The scheduler's tick asks; another day's counters are dropped on the way.
Remaining ==
  /\ Elapsed
  /\ maybeReset
  /\ UNCHANGED <<today, pc, attempt, stamp, sent>>

-----------------------------------------------------------------------------
(* Client.do. *)
Goto(r, to) == pc' = [pc EXCEPT ![r] = to]

Begin(r) ==
  /\ pc[r] = "idle"
  /\ Goto(r, "acquire")
  /\ UNCHANGED <<today, quota, attempt, stamp, sent>>

\* Back to the caller, with an answer or an error.
Return(r) ==
  /\ Goto(r, "idle")
  /\ attempt' = [attempt EXCEPT ![r] = 0]

\* Acquire, first half.
Reserved(r) ==
  /\ pc[r] = "acquire"
  /\ Reserve(ClassOf[r])
  /\ stamp' = [stamp EXCEPT ![r] = ResetAt]
  /\ Goto(r, "wait")
  /\ UNCHANGED <<today, attempt, sent>>

\* Out of budget.  Mutant: the request waits for another day's allowance.
MutRefused(r) ==
  /\ pc[r] = "acquire"
  /\ Exhausted(ClassOf[r])
  /\ maybeReset
  /\ UNCHANGED <<today, pc, attempt, stamp, sent>>

Refused(r) ==
  /\ pc[r] = "acquire"
  /\ Exhausted(ClassOf[r])
  /\ maybeReset
  /\ Return(r)
  /\ UNCHANGED <<today, stamp, sent>>

\* bucket.Wait returns and the attempt goes out.
Call(r) ==
  /\ pc[r] = "wait"
  /\ Goto(r, "call")
  /\ sent' = [sent EXCEPT ![ClassOf[r]] = @ + 1]
  /\ UNCHANGED <<today, quota, attempt, stamp>>

\* bucket.Wait fails: the context was cancelled.
WaitCancelled(r) ==
  /\ pc[r] = "wait"
  /\ Release(r)
  /\ Return(r)
  /\ UNCHANGED <<today, stamp, sent>>

\* 200, a status other than 429, a failed call, or the context cancelled.
Answered(r) ==
  /\ pc[r] \in {"call", "backoff"}
  /\ Return(r)
  /\ UNCHANGED <<today, quota, stamp, sent>>

TooManyRequests(r) ==
  /\ pc[r] = "call"
  /\ Goto(r, "backoff")
  /\ UNCHANGED <<today, quota, attempt, stamp, sent>>

\* The backoff elapses.
Retry(r) ==
  /\ pc[r] = "backoff"
  /\ attempt[r] < MaxRetries
  /\ Goto(r, "acquire")
  /\ attempt' = [attempt EXCEPT ![r] = @ + 1]
  /\ UNCHANGED <<today, quota, stamp, sent>>

RetriesExhausted(r) ==
  /\ pc[r] = "backoff"
  /\ attempt[r] = MaxRetries
  /\ Return(r)
  /\ UNCHANGED <<today, quota, stamp, sent>>

-----------------------------------------------------------------------------
Midnight ==
  /\ day < MaxDay
  /\ day' = day + 1
  /\ sent' = Zero /\ restarts' = 0
  /\ UNCHANGED <<quota, pc, attempt, stamp>>

\* Nothing of this is persisted: the new process counts from zero.
Restart ==
  /\ restarts < MaxRestarts
  /\ restarts' = restarts + 1
  /\ resetAt' = day + 1
  /\ used' = Zero /\ live' = Zero
  /\ pc' = [r \in Requests |-> "idle"]
  /\ attempt' = [r \in Requests |-> 0]
  /\ stamp' = [r \in Requests |-> 0]
  /\ UNCHANGED <<day, sent>>

\* A request's way through do once it has begun, its context not cancelled.
Proceed(r) ==
  \/ Reserved(r) \/ Refused(r) \/ Call(r) \/ Answered(r) \/ TooManyRequests(r)
  \/ Retry(r) \/ RetriesExhausted(r)

Next ==
  \/ Midnight \/ Restart \/ Remaining
  \/ \E r \in Requests : Begin(r) \/ WaitCancelled(r) \/ Proceed(r)

Spec == Init /\ [][Next]_vars

\* Goroutines are scheduled, the bucket refills, a call ends within the
\* client's ten seconds and a backoff elapses.
FairSpec == Spec /\ \A r \in Requests : WF_vars(Proceed(r))

-----------------------------------------------------------------------------
(* A class is refused a call only when it has itself used its allowance:   *)
(* as many of its own calls as the budget were reserved since midnight and *)
(* not refunded.  Neither the other class nor cancelled calls nor          *)
(* yesterday's can starve it (README.md:51-54).                            *)
RefusedOnlyWhenSpent ==
  [][ \A r \in Requests : Refused(r) => Live(ClassOf[r]) >= Budget[ClassOf[r]] ]_vars

(* What the counters do guarantee of a day's calls.  The service issues at *)
(* most one budget for each process that ran that day, and one call more   *)
(* for each request that can be waiting for the bucket at midnight, which  *)
(* spends a call yesterday paid for, or refunds one to today.  A day of    *)
(* one process without such waiters stays within the budget; the documents *)
(* say that every day does (quota.go:1-2).                                 *)
Mine(c) == {r \in Requests : ClassOf[r] = c}

DayOverrun ==
  \A c \in Class : sent[c] <= (1 + restarts) * Budget[c] + Cardinality(Mine(c))

(* A request is answered one way or the other, however often Ticketmaster  *)
(* says 429.                                                               *)
EveryRequestEnds == \A r \in Requests : pc[r] # "idle" ~> pc[r] = "idle"

-----------------------------------------------------------------------------
(* Why refusals are fair: the counter never exceeds the reservations that  *)
(* stand, because what is refunded is taken off today's or stands no more; *)
(* and those of today that still wait for the bucket are among them.       *)
Waiting(c) == {r \in Requests : /\ pc[r] = "wait" /\ ClassOf[r] = c
                                /\ stamp[r] = resetAt}

ChargesOnlyCalls == \A c \in Class : used[c] <= live[c]
WaitersStand     == \A c \in Class : Cardinality(Waiting(c)) <= live[c]
StampsPast       == \A r \in Requests : stamp[r] <= resetAt

(* A class is never charged for more calls than were reserved for it since *)
(* midnight and not refunded: the inductive invariant behind               *)
(* RefusedOnlyWhenSpent.                                                   *)
ChargeInv == ChargesOnlyCalls /\ WaitersStand /\ StampsPast

(* Why the overrun is bounded: what was issued today, and what may still   *)
(* be without another reservation, is covered by today's counter, one      *)
(* budget for each counter that was lost and one call per request.  Behind *)
(* DayOverrun.                                                             *)
InWait(c) == {r \in Requests : pc[r] = "wait" /\ ClassOf[r] = c}
Lost(c)   == restarts * Budget[c]

OverrunInv ==
  \A c \in Class :
    /\ used[c] <= Budget[c]
    /\ sent[c] + Cardinality(InWait(c)) <= Lost(c) + Used(c) + Cardinality(Mine(c))
=============================================================================
