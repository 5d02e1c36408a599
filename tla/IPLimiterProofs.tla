-------------------------- MODULE IPLimiterProofs --------------------------
(***************************************************************************)
(* For any clients, burst, rate and ttl in which a bucket fills up: the    *)
(* bound on what passes, the promise of Retry-After, the bound on the map, *)
(* and the refinement to buckets that are never dropped.                   *)
(***************************************************************************)
EXTENDS IPLimiter, TLAPS

(* Levels and times are natural numbers, and a bucket that is full lets a  *)
(* request through.                                                        *)
LEMMA FullFacts == Full \in Nat /\ Period \in Nat \ {0} /\ Period <= Full /\ Full <= Ttl /\ Ttl \in Nat
<1>1. Burst \in Nat \ {0} /\ Period \in Nat \ {0} /\ Ttl \in Nat /\ Full <= Ttl
  BY LimiterAssumption
<1>2. Burst * Period \in Nat /\ 1 * Period <= Burst * Period
  BY <1>1
<1> QED
  BY <1>1, <1>2 DEF Full

(* What a bucket holds is between nothing and Full.                        *)
LEMMA CreditInRange ==
  ASSUME TypeOK, NEW k \in Keys
  PROVE  Credit(k) \in 0..Full
BY FullFacts DEF TypeOK, Credit, Refilled, MinOf, Bucket

(* Dropping a bucket is free: it was full.                                 *)
LEMMA SweepIsFree ==
  ASSUME TypeOK, NEW k \in Keys
  PROVE  Found(k) = Credit(k)
BY FullFacts DEF TypeOK, Found, Credit, Kept, Idle, Refilled, MinOf, Bucket

(* A request changes the bucket of its own client and nobody else's.       *)
LEMMA TouchOne ==
  ASSUME TypeOK, NEW k \in Keys, NEW c \in 0..Full, Touch(k, c), now' = now
  PROVE  /\ Credit(k)' = c
         /\ \A j \in Keys \ {k} : Credit(j)' = Credit(j)
<1>1. Credit(k)' = c
  BY FullFacts DEF TypeOK, Touch, Credit, Refilled, MinOf
<1>2. ASSUME NEW j \in Keys \ {k} PROVE Credit(j)' = Found(j)
  <2>1. CASE j \in Kept
    <3>1. j \in DOMAIN buckets' /\ buckets'[j] = buckets[j]
      BY <2>1 DEF Touch
    <3> QED
      BY <3>1, <2>1 DEF Credit, Found, Refilled
  <2>2. CASE j \notin Kept
    BY <2>2 DEF Credit, Found, Touch
  <2> QED
    BY <2>1, <2>2
<1> QED
  BY <1>1, <1>2, SweepIsFree

(* A unit of time brings a unit, up to Full.                               *)
LEMMA TickRefills ==
  ASSUME TypeOK, Tick, NEW k \in Keys
  PROVE  Credit(k)' = IF Credit(k) < Full THEN Credit(k) + 1 ELSE Full
BY FullFacts DEF TypeOK, Tick, Credit, Refilled, MinOf, Bucket

(* What a request does, in terms of what its client's bucket holds.        *)
LEMMA RequestEffect ==
  ASSUME TypeOK, NEW k \in Keys, Admit(k) \/ Refuse(k)
  PROVE  /\ now' = now /\ start' = start
         /\ \A j \in Keys \ {k} : Credit(j)' = Credit(j)
         /\ Admit(k) => Credit(k) >= Period /\ Credit(k)' = Credit(k) - Period
         /\ Refuse(k) => Credit(k) < Period /\ Credit(k)' = Credit(k)
<1>1. Found(k) = Credit(k) /\ Credit(k) \in 0..Full
  BY SweepIsFree, CreditInRange
<1>2. CASE Admit(k)
  <2>1. Found(k) >= Period /\ Touch(k, Found(k) - Period) /\ now' = now /\ start' = start
    BY <1>2 DEF Admit
  <2>2. Found(k) - Period \in 0..Full
    BY <1>1, <2>1, FullFacts
  <2>3. ~Refuse(k)
    BY <1>1, <2>1, FullFacts DEF Refuse
  <2> QED
    BY <1>1, <2>1, <2>2, <2>3, TouchOne
<1>3. CASE Refuse(k)
  <2>1. Found(k) < Period /\ Touch(k, Found(k)) /\ now' = now /\ start' = start
    BY <1>3 DEF Refuse, Cancelled
  <2>2. ~Admit(k)
    BY <1>1, <2>1, FullFacts DEF Admit
  <2> QED
    BY <1>1, <2>1, <2>2, TouchOne
<1> QED
  BY <1>2, <1>3

-----------------------------------------------------------------------------
(* The header's seconds, in units of time, are a whole number of them and  *)
(* not less than the delay.                                                *)
LEMMA RoundedUp ==
  ASSUME NEW d \in Nat \ {0}
  PROVE  RetryAfter(d) * Second \in Nat /\ RetryAfter(d) * Second >= d
<1> DEFINE q == (d + Second - 1) \div Second
<1>1. Second \in Nat \ {0}
  BY LimiterAssumption
<1>2. d + Second - 1 \in Nat
  BY <1>1
<1>3. q \in Nat
  BY <1>1, <1>2
<1>4. d + Second - 1 = Second * q + ((d + Second - 1) % Second)
      /\ (d + Second - 1) % Second \in 0..(Second - 1)
  BY <1>1, <1>2
<1>5. q * Second >= d /\ q * Second \in Nat
  BY <1>1, <1>3, <1>4
<1>6. q >= 1
  BY <1>1, <1>3, <1>5
<1>7. RetryAfter(d) = q
  BY <1>3, <1>6 DEF RetryAfter, MaxOf
<1> QED
  BY <1>5, <1>7

(* Every reachable state of the limiter is well typed.                     *)
THEOREM TypeCorrect == Spec => []TypeOK
<1>1. ASSUME Init PROVE TypeOK
  <2>1. DOMAIN buckets = {}
    BY <1>1 DEF Init
  <2>2. now \in 0..MaxTime /\ lastSweep \in 0..now /\ start \in 0..MaxTime
    BY <1>1, LimiterAssumption DEF Init
  <2>3. /\ answer \in [key: Keys, ok: BOOLEAN]
        /\ admitted \in [Keys -> Nat] /\ told \in [Keys -> Nat \cup {NoTime}]
    BY <1>1 DEF Init
  <2> QED
    BY <2>1, <2>2, <2>3 DEF TypeOK
<1>2. TypeOK /\ [Next]_vars => TypeOK'
  <2> SUFFICES ASSUME TypeOK, [Next]_vars PROVE TypeOK'
    OBVIOUS
  <2>1. CASE Tick
    <3>1. now' \in 0..MaxTime /\ now' > now /\ lastSweep' \in 0..now'
      BY <2>1, LimiterAssumption DEF Tick, TypeOK
    <3>2. \A k \in DOMAIN buckets : buckets[k].lastSeen \in Nat
      BY DEF TypeOK, Bucket
    <3>3. \A k \in DOMAIN buckets : buckets[k].lastSeen <= now'
      BY <3>1, <3>2 DEF TypeOK
    <3> QED
      BY <2>1, <3>1, <3>3 DEF Tick, TypeOK, Bucket
  <2>2. ASSUME NEW k \in Keys, NEW c \in 0..Full, Touch(k, c), now' = now
        PROVE  /\ DOMAIN buckets' \subseteq Keys
               /\ \A j \in DOMAIN buckets' : buckets'[j] \in Bucket /\ buckets'[j].lastSeen <= now'
               /\ lastSweep' \in 0..now'
    BY <2>2 DEF Touch, TypeOK, Bucket, Kept, Swept, SweepDue
  <2>3. ASSUME NEW k \in Keys, Admit(k) PROVE TypeOK'
    <3>1. Found(k) - Period \in 0..Full /\ Touch(k, Found(k) - Period) /\ now' = now
      BY <2>3, FullFacts, SweepIsFree, CreditInRange DEF Admit
    <3>2. admitted' \in [Keys -> Nat] /\ told' \in [Keys -> Nat \cup {NoTime}]
      BY <2>3 DEF Admit, TypeOK
    <3> QED
      BY <2>2, <2>3, <3>1, <3>2 DEF Admit, TypeOK
  <2>4. ASSUME NEW k \in Keys, Refuse(k) PROVE TypeOK'
    <3>1. Found(k) \in 0..Full /\ Touch(k, Found(k)) /\ now' = now
      BY <2>4, FullFacts, SweepIsFree, CreditInRange DEF Refuse, Cancelled
    <3>2. told' \in [Keys -> Nat \cup {NoTime}]
      <4>1. Period - Found(k) \in Nat \ {0}
        BY <2>4, <3>1, FullFacts DEF Refuse
      <4>2. now + RetryAfter(Period - Found(k)) * Second \in Nat
        BY <4>1, RoundedUp DEF TypeOK
      <4> QED
        BY <2>4, <4>2 DEF Refuse, TypeOK
    <3> QED
      BY <2>2, <2>4, <3>1, <3>2 DEF Refuse, TypeOK
  <2>5. CASE UNCHANGED vars
    BY <2>5 DEF vars, TypeOK
  <2> QED
    BY <2>1, <2>3, <2>4, <2>5 DEF Next
<1> QED
  BY <1>1, <1>2, PTL DEF Spec

-----------------------------------------------------------------------------
(* What a bucket has given since the count began and what it still holds   *)
(* are covered by what it held and gained; a tick gains a unit on both     *)
(* sides, a token moves from the one summand to the other, and a sweep     *)
(* changes neither.                                                        *)
THEOREM BoundHolds == Spec => []WindowBound
<1>1. ASSUME Init PROVE Covered
  <2>1. \A k \in Keys : Credit(k) = Full /\ admitted[k] = 0
    BY <1>1 DEF Init, Credit
  <2>2. now \in Nat /\ start \in Nat /\ 0 * Period = 0
    BY <1>1, FullFacts DEF Init
  <2>3. ASSUME NEW k \in Keys
        PROVE  /\ now < start => admitted[k] = 0
               /\ now >= start => admitted[k] * Period + Credit(k) <= Full + (now - start)
    <3>1. Credit(k) = Full /\ admitted[k] = 0 /\ admitted[k] * Period = 0
      BY <2>1, <2>2
    <3> QED
      BY <2>2, <3>1, FullFacts
  <2> QED
    BY <2>3 DEF Covered
<1>2. ASSUME TypeOK, Covered, [Next]_vars PROVE Covered'
  <2> SUFFICES ASSUME NEW k \in Keys
               PROVE  /\ now' < start' => admitted'[k] = 0
                      /\ now' >= start' =>
                           admitted'[k] * Period + Credit(k)' <= Full + (now' - start')
    BY DEF Covered
  <2>2. /\ Credit(k) \in Nat /\ Credit(k) <= Full /\ now \in Nat /\ start \in Nat
        /\ admitted[k] \in Nat /\ admitted[k] * Period \in Nat /\ 0 * Period = 0
    BY <1>2, CreditInRange, FullFacts DEF TypeOK
  <2>3. /\ now < start => admitted[k] = 0
        /\ now >= start => admitted[k] * Period + Credit(k) <= Full + (now - start)
    BY <1>2 DEF Covered
  <2>4. CASE Tick
    <3>1. now' = now + 1 /\ start' = start /\ admitted'[k] = admitted[k]
      BY <2>4 DEF Tick
    <3>2. Credit(k)' <= Credit(k) + 1 /\ Credit(k)' \in Nat /\ Credit(k)' <= Full
      BY <1>2, <2>2, <2>4, TickRefills, FullFacts
    <3>3. CASE now >= start
      BY <3>1, <3>2, <3>3, <2>2, <2>3, FullFacts
    <3>4. CASE now < start
      <4>1. admitted'[k] * Period = 0
        BY <3>1, <3>4, <2>2, <2>3
      <4> QED
        BY <3>1, <3>2, <3>4, <4>1, <2>2, <2>3, FullFacts
    <3> QED
      BY <3>3, <3>4, <2>2
  <2>5. ASSUME NEW j \in Keys, Admit(j)
        PROVE  /\ now' < start' => admitted'[k] = 0
               /\ now' >= start' =>
                    admitted'[k] * Period + Credit(k)' <= Full + (now' - start')
    <3>1. now' = now /\ start' = start
      BY <1>2, <2>5, RequestEffect
    <3>2. CASE j = k
      <4>1. Credit(k) >= Period /\ Credit(k)' = Credit(k) - Period
        BY <1>2, <2>5, <3>2, RequestEffect
      <4>2. admitted'[k] = IF now >= start THEN admitted[k] + 1 ELSE admitted[k]
        BY <1>2, <2>5, <3>2 DEF Admit, TypeOK
      <4>3. (admitted[k] + 1) * Period = admitted[k] * Period + Period
        BY <2>2, FullFacts
      <4> QED
        BY <3>1, <4>1, <4>2, <4>3, <2>2, <2>3, FullFacts
    <3>3. CASE j # k
      <4>1. Credit(k)' = Credit(k)
        BY <1>2, <2>5, <3>3, RequestEffect
      <4>2. admitted'[k] = admitted[k]
        BY <1>2, <2>5, <3>3 DEF Admit, TypeOK
      <4> QED
        BY <3>1, <4>1, <4>2, <2>3
    <3> QED
      BY <3>2, <3>3
  <2>6. ASSUME NEW j \in Keys, Refuse(j)
        PROVE  /\ now' < start' => admitted'[k] = 0
               /\ now' >= start' =>
                    admitted'[k] * Period + Credit(k)' <= Full + (now' - start')
    <3>1. now' = now /\ start' = start
      BY <1>2, <2>6, RequestEffect
    <3>2. Credit(k)' = Credit(k)
      BY <1>2, <2>6, RequestEffect
    <3>3. admitted' = admitted
      BY <2>6 DEF Refuse
    <3> QED
      BY <3>1, <3>2, <3>3, <2>3
  <2>7. CASE UNCHANGED vars
    BY <2>7, <2>3 DEF vars, Credit, Refilled
  <2> QED
    BY <1>2, <2>4, <2>5, <2>6, <2>7 DEF Next
<1>3. ASSUME TypeOK, Covered PROVE WindowBound
  <2>1. ASSUME now >= start, NEW k \in Keys
        PROVE  admitted[k] * Period <= Full + (now - start)
    <3>1. admitted[k] * Period + Credit(k) <= Full + (now - start)
      BY <1>3, <2>1 DEF Covered
    <3>2. Credit(k) \in Nat /\ now \in Int /\ start \in Int /\ admitted[k] * Period \in Int
      BY <1>3, CreditInRange, FullFacts DEF TypeOK
    <3> QED
      BY <3>1, <3>2, FullFacts
  <2> QED
    BY <2>1 DEF WindowBound
<1> QED
  BY <1>1, <1>2, <1>3, TypeCorrect, PTL DEF Spec

(* A refused client's bucket lacks at most what fills up until the time it *)
(* was told: neither a refusal nor a sweep takes anything out of it.       *)
THEOREM WaitSuffices == Spec => []RetryAfterIsEnough
<1>1. Init => Promised
  BY DEF Init, Promised
<1>2. ASSUME TypeOK, Promised, [Next]_vars PROVE Promised'
  <2>1. SUFFICES ASSUME NEW k \in Keys, told'[k] # NoTime
                 PROVE  Credit(k)' >= Period \/ Credit(k)' + (told'[k] - now') >= Period
    BY DEF Promised, NoTime
  <2>2. Credit(k) \in Nat /\ Credit(k) <= Full /\ now \in Nat /\ told[k] \in Nat \cup {NoTime}
    BY <1>2, CreditInRange DEF TypeOK
  <2>3. told[k] # NoTime => Credit(k) >= Period \/ Credit(k) + (told[k] - now) >= Period
    BY <1>2 DEF Promised
  <2>4. CASE Tick
    <3>1. now' = now + 1 /\ told' = told
      BY <2>4 DEF Tick
    <3>2. Credit(k)' = IF Credit(k) < Full THEN Credit(k) + 1 ELSE Full
      BY <1>2, <2>4, TickRefills
    <3> QED
      BY <2>1, <2>2, <2>3, <3>1, <3>2, FullFacts DEF NoTime
  <2>5. ASSUME NEW j \in Keys, Admit(j)
        PROVE  Credit(k)' >= Period \/ Credit(k)' + (told'[k] - now') >= Period
    <3>1. j # k
      BY <1>2, <2>1, <2>5 DEF Admit, TypeOK
    <3>2. told'[k] = told[k]
      BY <1>2, <2>5, <3>1 DEF Admit, TypeOK
    <3>3. now' = now /\ Credit(k)' = Credit(k)
      BY <1>2, <2>5, <3>1, RequestEffect
    <3> QED
      BY <2>1, <2>3, <3>2, <3>3
  <2>6. ASSUME NEW j \in Keys, Refuse(j)
        PROVE  Credit(k)' >= Period \/ Credit(k)' + (told'[k] - now') >= Period
    <3>1. now' = now /\ Credit(k)' = Credit(k)
      BY <1>2, <2>6, RequestEffect
    <3>2. CASE told'[k] = told[k]
      BY <2>1, <2>3, <3>1, <3>2
    <3>3. CASE told'[k] # told[k]
      <4>1. j = k /\ told'[k] = now + RetryAfter(Period - Credit(k)) * Second
        BY <1>2, <2>6, <3>3, SweepIsFree DEF Refuse, TypeOK
      <4>2. Period - Credit(k) \in Nat \ {0}
        BY <1>2, <2>2, <2>6, <4>1, RequestEffect, FullFacts
      <4>3. RetryAfter(Period - Credit(k)) * Second \in Nat
            /\ RetryAfter(Period - Credit(k)) * Second >= Period - Credit(k)
        BY <4>2, RoundedUp
      <4> QED
        BY <2>2, <3>1, <4>1, <4>3, FullFacts
    <3> QED
      BY <3>2, <3>3
  <2>7. CASE UNCHANGED vars
    BY <2>1, <2>3, <2>7 DEF vars, Credit, Refilled
  <2> QED
    BY <1>2, <2>4, <2>5, <2>6, <2>7 DEF Next
<1>3. ASSUME TypeOK, Promised PROVE RetryAfterIsEnough
  <2>1. ASSUME NEW k \in Keys, told[k] # NoTime, now >= told[k] PROVE Found(k) >= Period
    <3>1. Found(k) = Credit(k) /\ Credit(k) \in Nat /\ now \in Nat /\ told[k] \in Nat
      BY <1>3, <2>1, SweepIsFree, CreditInRange DEF TypeOK
    <3>2. Credit(k) >= Period \/ Credit(k) + (told[k] - now) >= Period
      BY <1>3, <2>1 DEF Promised
    <3> QED
      BY <2>1, <3>1, <3>2, FullFacts
  <2> QED
    BY <2>1 DEF RetryAfterIsEnough
<1> QED
  BY <1>1, <1>2, <1>3, TypeCorrect, PTL DEF Spec

(* The map holds only what was asked for within a ttl of the last sweep,   *)
(* on either side.                                                         *)
THEOREM MapIsBounded == Spec => []MapBounded
<1>1. Init => SeenAroundSweep
  BY DEF Init, SeenAroundSweep
<1>2. ASSUME TypeOK, SeenAroundSweep, [Next]_vars PROVE SeenAroundSweep'
  <2>1. ASSUME NEW k \in Keys, NEW c \in Int, Touch(k, c), now' = now
        PROVE  SeenAroundSweep'
    <3>1. SUFFICES ASSUME NEW j \in DOMAIN buckets'
                   PROVE  /\ lastSweep' <= buckets'[j].lastSeen + Ttl
                          /\ buckets'[j].lastSeen - lastSweep' < Ttl
      BY DEF SeenAroundSweep
    <3>2. lastSweep' = IF now - lastSweep >= Ttl THEN now ELSE lastSweep
      BY <2>1 DEF Touch, Swept, SweepDue
    <3>3. now \in Nat /\ lastSweep \in Nat /\ lastSweep <= now /\ Ttl \in Nat \ {0}
      BY <1>2, FullFacts DEF TypeOK
    <3>4. CASE j = k
      <4>1. buckets'[j].lastSeen = now
        BY <2>1, <3>4 DEF Touch
      <4> QED
        BY <3>2, <3>3, <4>1
    <3>5. CASE j # k
      <4>1. j \in Kept /\ buckets'[j] = buckets[j]
        BY <2>1, <3>1, <3>5 DEF Touch
      <4>2. /\ j \in DOMAIN buckets
            /\ now - lastSweep >= Ttl => ~(now - buckets[j].lastSeen > Ttl)
        BY <4>1 DEF Kept, SweepDue, Idle
      <4>3. buckets[j].lastSeen \in Nat /\ buckets[j].lastSeen <= now
        BY <1>2, <4>2 DEF TypeOK, Bucket
      <4>4. lastSweep <= buckets[j].lastSeen + Ttl /\ buckets[j].lastSeen - lastSweep < Ttl
        BY <1>2, <4>2 DEF SeenAroundSweep
      <4> QED
        BY <3>2, <3>3, <4>1, <4>2, <4>3, <4>4
    <3> QED
      BY <3>4, <3>5
  <2>2. ASSUME NEW k \in Keys, Admit(k) \/ Refuse(k) PROVE SeenAroundSweep'
    <3>1. Found(k) \in Int /\ Found(k) - Period \in Int
      BY <1>2, SweepIsFree, CreditInRange, FullFacts
    <3> QED
      BY <2>1, <2>2, <3>1 DEF Admit, Refuse, Cancelled
  <2>3. CASE Tick \/ UNCHANGED vars
    BY <1>2, <2>3 DEF Tick, vars, SeenAroundSweep
  <2> QED
    BY <1>2, <2>2, <2>3 DEF Next
<1>3. ASSUME TypeOK, SeenAroundSweep PROVE MapBounded
  <2>1. ASSUME NEW j \in DOMAIN buckets, NEW k \in DOMAIN buckets
        PROVE  buckets[j].lastSeen - buckets[k].lastSeen < 2 * Ttl
    <3>1. buckets[j].lastSeen \in Nat /\ buckets[k].lastSeen \in Nat /\ lastSweep \in Nat
      BY <1>3 DEF TypeOK, Bucket
    <3>2. buckets[j].lastSeen - lastSweep < Ttl /\ lastSweep <= buckets[k].lastSeen + Ttl
      BY <1>3 DEF SeenAroundSweep
    <3> QED
      BY <3>1, <3>2, FullFacts
  <2> QED
    BY <2>1 DEF MapBounded
<1> QED
  BY <1>1, <1>2, <1>3, TypeCorrect, PTL DEF Spec

-----------------------------------------------------------------------------
(* Every request is Take or Refuse of its client's own bucket, a tick is   *)
(* Refill; sweeps are invisible.                                           *)
THEOREM Refinement == Spec => ImplementsBuckets
<1>1. ASSUME Init PROVE Buckets!Init
  <2>1. \A k \in Keys : Credit(k) = Buckets!Full
    BY <1>1 DEF Init, Credit, Full, Buckets!Full
  <2>2. answer \in [key: Keys, ok: BOOLEAN]
    BY <1>1 DEF Init
  <2> QED
    BY <2>1, <2>2 DEF Buckets!Init, Buckets!Answers
<1>2. ASSUME TypeOK, [Next]_vars
      PROVE  Buckets!Next \/ UNCHANGED <<[k \in Keys |-> Credit(k)], answer>>
  <2>1. CASE Tick
    <3>1. \A k \in Keys : Credit(k)' = IF Credit(k) < Full THEN Credit(k) + 1 ELSE Full
      BY <1>2, <2>1, TickRefills
    <3>2. answer' = answer
      BY <2>1 DEF Tick
    <3> QED
      BY <3>1, <3>2 DEF Buckets!Next, Buckets!Refill, Full, Buckets!Full
  <2>2. ASSUME NEW k \in Keys, Admit(k) PROVE Buckets!Take(k)
    <3>1. /\ Credit(k) >= Period /\ Credit(k)' = Credit(k) - Period
          /\ \A j \in Keys \ {k} : Credit(j)' = Credit(j)
      BY <1>2, <2>2, RequestEffect
    <3>2. answer' = [key |-> k, ok |-> TRUE]
      BY <2>2 DEF Admit
    <3> QED
      BY <3>1, <3>2 DEF Buckets!Take
  <2>3. ASSUME NEW k \in Keys, Refuse(k) PROVE Buckets!Refuse(k)
    <3>1. /\ Credit(k) < Period /\ Credit(k)' = Credit(k)
          /\ \A j \in Keys \ {k} : Credit(j)' = Credit(j)
      BY <1>2, <2>3, RequestEffect
    <3>2. answer' = [key |-> k, ok |-> FALSE]
      BY <2>3 DEF Refuse
    <3> QED
      BY <3>1, <3>2 DEF Buckets!Refuse
  <2>4. CASE UNCHANGED vars
    BY <2>4 DEF vars, Credit, Refilled
  <2> QED
    BY <1>2, <2>1, <2>2, <2>3, <2>4 DEF Next, Buckets!Next
<1> QED
  BY <1>1, <1>2, TypeCorrect, PTL DEF Spec, ImplementsBuckets, Buckets!Spec
=============================================================================
