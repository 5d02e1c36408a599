----------------------------- MODULE IPLimiter -----------------------------
(***************************************************************************)
(* The limit on requests to the auth endpoints: a token bucket per client  *)
(* address, made when the client is first seen and dropped again by the    *)
(* sweep that a later request may run.  Allow holds the mutex from end to  *)
(* end, so a request is one step.                                          *)
(*                                                                         *)
(* Time is counted in a unit that divides a second and the time in which   *)
(* one token comes back, and so are tokens (Period units each): a bucket   *)
(* gains one unit per unit of time.  rate.Limiter advances its own clock   *)
(* in every reservation and lets a refused caller cancel, which puts the   *)
(* token back.                                                             *)
(***************************************************************************)
EXTENDS Integers

CONSTANTS
  Keys,     \* client addresses
  Burst,    \* tokens a bucket holds
  Period,   \* time in which one token comes back
  Second,   \* units of time in a second
  Ttl,      \* idle time after which a bucket may be dropped
  MaxTime   \* bound on the clock

Full == Burst * Period

\* A bucket that is dropped has long been full, as it is with the default of
\* ten requests a minute, burst five and ten minutes.
ASSUME LimiterAssumption ==
  /\ Keys # {}
  /\ Burst \in Nat \ {0} /\ Period \in Nat \ {0} /\ Second \in Nat \ {0}
  /\ Ttl \in Nat /\ Full <= Ttl
  /\ MaxTime \in Nat

VARIABLES
  now,        \* the clock
  buckets,    \* the map: for the clients it holds, credit when last seen
  lastSweep,  \* when the map was swept
  answer,     \* the last answer (any, before the first): to whom, and passed or not
  start,      \* history: an instant, any, at which somebody begins to count
  admitted,   \* history: requests let through from then on
  told        \* history: when a refused client was first told to come back

vars == <<now, buckets, lastSweep, answer, start, admitted, told>>

NoTime == -1
Bucket == [credit: 0..Full, lastSeen: 0..MaxTime]

TypeOK ==
  /\ now \in 0..MaxTime
  /\ DOMAIN buckets \subseteq Keys
  /\ \A k \in DOMAIN buckets : buckets[k] \in Bucket /\ buckets[k].lastSeen <= now
  /\ lastSweep \in 0..now
  /\ answer \in [key: Keys, ok: BOOLEAN]
  /\ start \in 0..MaxTime
  /\ admitted \in [Keys -> Nat]
  /\ told \in [Keys -> Nat \cup {NoTime}]

\* lastSweep is the zero time: the first request sweeps an empty map.
Init ==
  /\ now = Ttl /\ Ttl <= MaxTime
  /\ buckets = [k \in {} |-> 0]
  /\ lastSweep = 0
  /\ answer \in [key: Keys, ok: {TRUE}]
  /\ start \in Ttl..MaxTime
  /\ admitted = [k \in Keys |-> 0]
  /\ told = [k \in Keys |-> NoTime]

-----------------------------------------------------------------------------
(* sweepLocked. *)

\* Mutant: what was not asked for since the last unit of time.
MutIdle(b) == now > b.lastSeen
Idle(b) == now - b.lastSeen > Ttl

SweepDue == now - lastSweep >= Ttl

\* Mutant: lastSweep is set before the early return.
MutSwept == now
Swept == IF SweepDue THEN now ELSE lastSweep
Kept  == {k \in DOMAIN buckets : SweepDue => ~Idle(buckets[k])}

MinOf(m, n) == IF m < n THEN m ELSE n
MaxOf(m, n) == IF m < n THEN n ELSE m

\* The bucket Allow finds or makes, refilled up to now.  Mutant: over the brim.
MutRefilled(b) == b.credit + (now - b.lastSeen)
Refilled(b) == MinOf(Full, b.credit + (now - b.lastSeen))
Found(k) == IF k \in Kept THEN Refilled(buckets[k]) ELSE Full

Touch(k, credit) ==
  /\ lastSweep' = Swept
  /\ buckets' = [j \in Kept \cup {k} |->
       IF j = k THEN [credit |-> credit, lastSeen |-> now] ELSE buckets[j]]

-----------------------------------------------------------------------------
Admit(k) ==
  /\ Found(k) >= Period
  /\ Touch(k, Found(k) - Period)
  /\ answer' = [key |-> k, ok |-> TRUE]
  /\ admitted' = IF now >= start THEN [admitted EXCEPT ![k] = @ + 1] ELSE admitted
  /\ told' = [told EXCEPT ![k] = NoTime]
  /\ UNCHANGED <<now, start>>

\* CancelAt puts the token back.  Mutant: the reservation stands.
MutCancelled(credit) == credit - Period
Cancelled(credit) == credit

\* The header counts whole seconds, rounded up and never 0.  Mutant: down.
MutRetryAfter(d) == MaxOf(1, d \div Second)
RetryAfter(d) == MaxOf(1, (d + Second - 1) \div Second)

Refuse(k) ==
  /\ Found(k) < Period
  /\ Touch(k, Cancelled(Found(k)))
  /\ answer' = [key |-> k, ok |-> FALSE]
  /\ told' = IF told[k] # NoTime THEN told
             ELSE [told EXCEPT ![k] = now + RetryAfter(Period - Found(k)) * Second]
  /\ UNCHANGED <<now, start, admitted>>

Tick ==
  /\ now < MaxTime
  /\ now' = now + 1
  /\ UNCHANGED <<buckets, lastSweep, answer, start, admitted, told>>

Next == Tick \/ \E k \in Keys : Admit(k) \/ Refuse(k)

Spec == Init /\ [][Next]_vars

-----------------------------------------------------------------------------
\* What a client's bucket holds now, whether or not the map has it.
Credit(k) == IF k \in DOMAIN buckets THEN Refilled(buckets[k]) ELSE Full

(* A client never gets more through than the burst and the rate allow      *)
(* (ip.go:26: "perMinute sustained requests per key, tolerating a burst"): *)
(* counted from any instant on, over sweeps that drop its bucket and make  *)
(* it anew.                                                                *)
WindowBound ==
  now >= start =>
    \A k \in Keys : admitted[k] * Period <= Full + (now - start)

(* The Retry-After a refused client is given is long enough (ratelimit.go  *)
(* of httpapi): from then on its next request is let through, whatever     *)
(* other requests were refused to it and to others meanwhile, as long as   *)
(* none of its own was let through.                                        *)
RetryAfterIsEnough ==
  \A k \in Keys : told[k] # NoTime /\ now >= told[k] => Found(k) >= Period

(* The map does not grow without bound (ip.go:27), although it is swept    *)
(* once per ttl only: whatever it holds was asked for within two ttl of    *)
(* the last request.                                                       *)
MapBounded ==
  \A j, k \in DOMAIN buckets : buckets[j].lastSeen - buckets[k].lastSeen < 2 * Ttl

Buckets == INSTANCE TokenBucket WITH level <- [k \in Keys |-> Credit(k)]

(* Dropping and remaking buckets cannot be told from keeping them all: the *)
(* limiter gives each client the answers of a bucket of its own.           *)
ImplementsBuckets == Buckets!Spec

-----------------------------------------------------------------------------
(* Why these hold.  What is counted so far is covered by what the bucket   *)
(* held and gained; what a refused client was told covers what its bucket  *)
(* lacks; and what the map holds was seen around the last sweep.           *)
Covered ==
  \A k \in Keys :
    /\ now < start => admitted[k] = 0
    /\ now >= start => admitted[k] * Period + Credit(k) <= Full + (now - start)

Promised ==
  \A k \in Keys :
    told[k] # NoTime => Credit(k) >= Period \/ Credit(k) + (told[k] - now) >= Period

SeenAroundSweep ==
  \A k \in DOMAIN buckets :
    /\ lastSweep <= buckets[k].lastSeen + Ttl
    /\ buckets[k].lastSeen - lastSweep < Ttl
=============================================================================
