-------------------------- MODULE DailyQuotaProofs --------------------------
(***************************************************************************)
(* For every number of requests, budget, number of retries and of days: a  *)
(* class is refused a call only when it has used its allowance itself.     *)
(*                                                                         *)
(* The counter used may fall behind the reservations that stand (a refund  *)
(* after midnight), but never ahead of them (ChargesOnlyCalls).  That a    *)
(* refund finds a reservation to take back needs WaitersStand, and that    *)
(* the reset leaves no waiter of the new day behind needs StampsPast.      *)
(***************************************************************************)
EXTENDS DailyQuota, FiniteSetTheorems, TLAPS

USE QuotaAssumption

\* The requests that wait are finitely many.
LEMMA WaitingFinite ==
  ASSUME NEW S, S \subseteq Requests
  PROVE  IsFiniteSet(S) /\ Cardinality(S) \in Nat
BY FS_Subset, FS_CardinalityType

\* The steps that leave the counters alone.
LEMMA QuotaKept ==
  ASSUME TypeOK, ChargeInv, UNCHANGED quota, stamp' = stamp,
         \A r \in Requests : pc'[r] = "wait" => pc[r] = "wait"
  PROVE  ChargeInv'
<1>1. ASSUME NEW c \in Class PROVE Cardinality(Waiting(c)') <= live'[c]
  <2>1. Waiting(c)' \subseteq Waiting(c) /\ Waiting(c) \subseteq Requests
    BY DEF Waiting, quota
  <2>2. Cardinality(Waiting(c)') <= Cardinality(Waiting(c))
    BY <2>1, WaitingFinite, FS_Subset
  <2>3. Waiting(c)' \subseteq Requests
    BY <2>1
  <2>4. QED
    BY <2>1, <2>2, <2>3, WaitingFinite DEF ChargeInv, WaitersStand, quota, TypeOK
<1>2. QED
  BY <1>1 DEF ChargeInv, ChargesOnlyCalls, WaitersStand, StampsPast, quota

\* What the reset leaves: counters in order,
LEMMA ResetCounters ==
  ASSUME TypeOK, ChargeInv
  PROVE  /\ ResetAt \in Nat /\ resetAt <= ResetAt
         /\ \A c \in Class :
              Used(c) \in Nat /\ Live(c) \in Nat /\ Used(c) <= Live(c)
<1>1. ResetAt \in Nat /\ resetAt <= ResetAt
  BY DEF TypeOK, ResetAt, Elapsed
<1>2. ASSUME NEW c \in Class
      PROVE  Used(c) \in Nat /\ Live(c) \in Nat /\ Used(c) <= Live(c)
  BY DEF TypeOK, Used, Live, ChargeInv, ChargesOnlyCalls
<1>3. QED
  BY <1>1, <1>2

\* and room for every waiter of the day.
LEMMA AfterReset ==
  ASSUME TypeOK, ChargeInv, NEW c \in Class
  PROVE  LET S == {q \in Requests : /\ pc[q] = "wait" /\ ClassOf[q] = c
                                    /\ stamp[q] = ResetAt}
         IN S \subseteq Requests /\ Cardinality(S) <= Live(c)
<1> DEFINE S == {q \in Requests : /\ pc[q] = "wait" /\ ClassOf[q] = c
                                  /\ stamp[q] = ResetAt}
<1>1. CASE Elapsed
  <2>1. \A q \in Requests : stamp[q] # ResetAt
    BY <1>1 DEF TypeOK, ChargeInv, StampsPast, ResetAt, Elapsed
  <2>2. S = {}
    BY <2>1
  <2>3. QED
    BY <1>1, <2>2, FS_EmptySet DEF Live
<1>2. CASE ~Elapsed
  <2>1. S = Waiting(c)
    BY <1>2 DEF Waiting, ResetAt
  <2>2. QED
    BY <1>2, <2>1 DEF Live, ChargeInv, WaitersStand
<1>3. QED
  BY <1>1, <1>2

\* A reset on its own: a refusal, or the scheduler asking.
LEMMA ResetKeeps ==
  ASSUME TypeOK, ChargeInv, maybeReset, stamp' = stamp,
         \A r \in Requests : pc'[r] = "wait" => pc[r] = "wait"
  PROVE  ChargeInv'
<1>1. ChargesOnlyCalls'
  BY ResetCounters DEF maybeReset, ChargesOnlyCalls
<1>2. StampsPast'
  BY ResetCounters DEF maybeReset, StampsPast, ChargeInv, TypeOK
<1>3. ASSUME NEW c \in Class PROVE Cardinality(Waiting(c)') <= live'[c]
  <2> DEFINE S == {q \in Requests : /\ pc[q] = "wait" /\ ClassOf[q] = c
                                    /\ stamp[q] = ResetAt}
  <2>1. Waiting(c)' \subseteq S /\ S \subseteq Requests
    BY DEF Waiting, maybeReset
  <2>2. Cardinality(Waiting(c)') <= Cardinality(S)
    BY <2>1, WaitingFinite, FS_Subset
  <2>3. Cardinality(S) <= Live(c) /\ Live(c) \in Nat
    BY AfterReset, ResetCounters
  <2>4. live'[c] = Live(c)
    BY DEF maybeReset
  <2>5. Waiting(c)' \subseteq Requests
    BY <2>1
  <2>6. QED
    BY <2>1, <2>2, <2>3, <2>4, <2>5, WaitingFinite
<1>4. QED
  BY <1>1, <1>2, <1>3 DEF ChargeInv, WaitersStand

\* A reservation makes its request one of those that wait.
LEMMA ReservedKeeps ==
  ASSUME TypeOK, ChargeInv, NEW r \in Requests, Reserved(r)
  PROVE  ChargeInv'
<1> DEFINE k == ClassOf[r]
<1>0. k \in Class
  OBVIOUS
<1>1. /\ resetAt' = ResetAt
      /\ used' = [d \in Class |-> IF d = k THEN Used(d) + 1 ELSE Used(d)]
      /\ live' = [d \in Class |-> IF d = k THEN Live(d) + 1 ELSE Live(d)]
      /\ pc' = [pc EXCEPT ![r] = "wait"] /\ stamp' = [stamp EXCEPT ![r] = ResetAt]
      /\ pc[r] = "acquire"
  BY DEF Reserved, Reserve, Goto
<1>2. ChargesOnlyCalls'
  <2>1. ASSUME NEW c \in Class PROVE used'[c] <= live'[c]
    <3>1. Used(c) \in Nat /\ Live(c) \in Nat /\ Used(c) <= Live(c)
      BY ResetCounters
    <3>2. \/ used'[c] = Used(c) /\ live'[c] = Live(c)
          \/ used'[c] = Used(c) + 1 /\ live'[c] = Live(c) + 1
      BY <1>1
    <3>3. QED
      BY <3>1, <3>2
  <2>2. QED
    BY <2>1 DEF ChargesOnlyCalls
<1>3. StampsPast'
  BY <1>1, ResetCounters DEF StampsPast, ChargeInv, TypeOK
<1>4. ASSUME NEW c \in Class PROVE Cardinality(Waiting(c)') <= live'[c]
  <2> DEFINE S == {q \in Requests : /\ pc[q] = "wait" /\ ClassOf[q] = c
                                    /\ stamp[q] = ResetAt}
  <2>1. S \subseteq Requests /\ Cardinality(S) <= Live(c) /\ Live(c) \in Nat
    BY AfterReset, ResetCounters
  <2>2. IsFiniteSet(S) /\ Cardinality(S) \in Nat
    BY <2>1, WaitingFinite
  <2>3. CASE c = k
    <3>1. Waiting(c)' = S \cup {r} /\ r \notin S
      BY <1>1, <2>3 DEF Waiting, TypeOK
    <3>2. Cardinality(Waiting(c)') = Cardinality(S) + 1
      <4>1. Cardinality(S \cup {r}) = Cardinality(S) + 1
        BY <2>2, <3>1, FS_AddElement
      <4>2. QED
        BY <3>1, <4>1
    <3>3. live'[c] = Live(c) + 1
      BY <1>1, <2>3
    <3>4. QED
      BY <2>1, <2>2, <3>2, <3>3
  <2>4. CASE c # k
    <3>1. Waiting(c)' = S
      BY <1>1, <2>4 DEF Waiting, TypeOK
    <3>2. live'[c] = Live(c)
      BY <1>1, <2>4
    <3>3. QED
      BY <2>1, <3>1, <3>2
  <2>5. QED
    BY <2>3, <2>4
<1>5. QED
  BY <1>2, <1>3, <1>4 DEF ChargeInv, WaitersStand

\* A refund of today's takes its own reservation back; one of an earlier day
\* only makes the counter smaller.
LEMMA RefundKeeps ==
  ASSUME TypeOK, ChargeInv, NEW r \in Requests, WaitCancelled(r)
  PROVE  ChargeInv' /\ live' \in [Class -> Nat]
<1> DEFINE k == ClassOf[r]
<1>0. k \in Class /\ used[k] \in Nat /\ live[k] \in Nat /\ used[k] <= live[k]
  BY DEF TypeOK, ChargeInv, ChargesOnlyCalls
<1>1. /\ used' = [used EXCEPT ![k] = Refund(used[k])]
      /\ live' = IF stamp[r] = resetAt THEN [live EXCEPT ![k] = live[k] - 1] ELSE live
      /\ resetAt' = resetAt /\ stamp' = stamp
      /\ pc' = [pc EXCEPT ![r] = "idle"] /\ pc[r] = "wait"
  BY DEF WaitCancelled, Release, Return, Goto
<1>2. stamp[r] = resetAt => live[k] >= 1
  <2>1. SUFFICES ASSUME stamp[r] = resetAt PROVE live[k] >= 1
    OBVIOUS
  <2>2. r \in Waiting(k)
    BY <1>1, <2>1 DEF Waiting
  <2>3. IsFiniteSet(Waiting(k)) /\ Cardinality(Waiting(k)) \in Nat
    BY WaitingFinite DEF Waiting
  <2>4. Cardinality(Waiting(k)) # 0
    BY <2>2, <2>3, FS_EmptySet
  <2>5. Cardinality(Waiting(k)) <= live[k]
    BY <1>0 DEF ChargeInv, WaitersStand
  <2>6. QED
    BY <1>0, <2>3, <2>4, <2>5
<1>3. live' \in [Class -> Nat]
  BY <1>0, <1>1, <1>2 DEF TypeOK
<1>4. ChargesOnlyCalls'
  <2>1. ASSUME NEW c \in Class, c # k PROVE used'[c] <= live'[c]
    BY <1>1, <2>1 DEF TypeOK, ChargeInv, ChargesOnlyCalls
  <2>2. used'[k] <= live'[k]
    BY <1>0, <1>1, <1>2 DEF TypeOK, Refund
  <2>3. QED
    BY <2>1, <2>2 DEF ChargesOnlyCalls
<1>5. StampsPast'
  BY <1>1 DEF StampsPast, ChargeInv
<1>6. ASSUME NEW c \in Class PROVE Cardinality(Waiting(c)') <= live'[c]
  <2>1. Waiting(c) \subseteq Requests
    BY DEF Waiting
  <2>2. /\ IsFiniteSet(Waiting(c)) /\ Cardinality(Waiting(c)) \in Nat
        /\ Cardinality(Waiting(c)) <= live[c]
    BY <2>1, WaitingFinite DEF ChargeInv, WaitersStand
  <2>3. Waiting(c)' = Waiting(c) \ {r}
    BY <1>1 DEF Waiting, TypeOK
  <2>4. Cardinality(Waiting(c) \ {r}) =
          IF r \in Waiting(c) THEN Cardinality(Waiting(c)) - 1
                              ELSE Cardinality(Waiting(c))
    BY <2>2, FS_RemoveElement
  <2>5. r \in Waiting(c) <=> c = k /\ stamp[r] = resetAt
    BY <1>1 DEF Waiting
  <2>6. live'[c] = IF r \in Waiting(c) THEN live[c] - 1 ELSE live[c]
    BY <1>0, <1>1, <2>5 DEF TypeOK
  <2>7. live[c] \in Nat
    BY DEF TypeOK
  <2>8. Cardinality(Waiting(c)') = Cardinality(Waiting(c) \ {r})
    BY <2>3
  <2>9. QED
    BY <2>2, <2>4, <2>6, <2>7, <2>8
<1>7. QED
  BY <1>3, <1>4, <1>5, <1>6 DEF ChargeInv, WaitersStand

-----------------------------------------------------------------------------
(* Types. *)

LEMMA ReturnType ==
  ASSUME TypeOK, NEW r \in Requests, Return(r)
  PROVE  pc' \in [Requests -> PC] /\ attempt' \in [Requests -> 0..MaxRetries]
BY DEF TypeOK, Return, Goto, PC

LEMMA ResetType ==
  ASSUME TypeOK, ChargeInv, maybeReset
  PROVE  resetAt' \in Nat /\ used' \in [Class -> Nat] /\ live' \in [Class -> Nat]
BY ResetCounters DEF maybeReset

LEMMA TypeNext ==
  ASSUME TypeOK, ChargeInv, Next
  PROVE  TypeOK'
<1>1. CASE Midnight \/ Restart
  BY <1>1 DEF Midnight, Restart, TypeOK, quota, today, Zero, PC
<1>2. CASE Remaining
  BY <1>2, ResetType DEF Remaining, TypeOK, today
<1>3. ASSUME NEW r \in Requests, Reserved(r) PROVE TypeOK'
  <2>1. resetAt' \in Nat /\ used' \in [Class -> Nat] /\ live' \in [Class -> Nat]
    <3>1. \A d \in Class : Used(d) \in Nat /\ Live(d) \in Nat
      BY ResetCounters
    <3>2. /\ resetAt' = ResetAt
          /\ used' = [d \in Class |-> IF d = ClassOf[r] THEN Used(d) + 1 ELSE Used(d)]
          /\ live' = [d \in Class |-> IF d = ClassOf[r] THEN Live(d) + 1 ELSE Live(d)]
      BY <1>3 DEF Reserved, Reserve
    <3>3. QED
      BY <3>1, <3>2, ResetCounters
  <2>2. stamp' \in [Requests -> Nat] /\ pc' \in [Requests -> PC]
    BY <1>3, ResetCounters DEF Reserved, Goto, TypeOK, today, PC
  <2>3. QED
    BY <1>3, <2>1, <2>2 DEF Reserved, TypeOK, today
<1>4. ASSUME NEW r \in Requests, Refused(r) PROVE TypeOK'
  BY <1>4, ResetType, ReturnType DEF Refused, TypeOK, today
<1>5. ASSUME NEW r \in Requests, WaitCancelled(r) PROVE TypeOK'
  <2>1. used' \in [Class -> Nat] /\ resetAt' = resetAt
    BY <1>5 DEF WaitCancelled, Release, Refund, TypeOK, today
  <2>2. QED
    BY <1>5, <2>1, RefundKeeps, ReturnType DEF WaitCancelled, TypeOK, today
<1>6. ASSUME NEW r \in Requests, Call(r) PROVE TypeOK'
  BY <1>6 DEF Call, Goto, TypeOK, today, quota, PC
<1>7. ASSUME NEW r \in Requests, Answered(r) \/ RetriesExhausted(r) PROVE TypeOK'
  BY <1>7, ReturnType DEF Answered, RetriesExhausted, TypeOK, today, quota
<1>8. ASSUME NEW r \in Requests, Begin(r) \/ TooManyRequests(r) PROVE TypeOK'
  BY <1>8 DEF Begin, TooManyRequests, Goto, TypeOK, today, quota, PC
<1>9. ASSUME NEW r \in Requests, Retry(r) PROVE TypeOK'
  <2>1. attempt' \in [Requests -> 0..MaxRetries]
    BY <1>9 DEF Retry, TypeOK, today
  <2>2. QED
    BY <1>9, <2>1 DEF Retry, Goto, TypeOK, today, quota, PC
<1>10. QED
  BY <1>1, <1>2, <1>3, <1>4, <1>5, <1>6, <1>7, <1>8, <1>9 DEF Next, Proceed

-----------------------------------------------------------------------------
LEMMA ChargeNext ==
  ASSUME TypeOK, ChargeInv, Next
  PROVE  ChargeInv'
<1>1. CASE Midnight
  BY <1>1, QuotaKept DEF Midnight
<1>2. CASE Restart
  <2>1. \A c \in Class : Waiting(c)' = {}
    BY <1>2 DEF Restart, Waiting
  <2>2. \A c \in Class : Cardinality(Waiting(c)') = 0
    BY <2>1, FS_EmptySet
  <2>3. QED
    BY <1>2, <2>2
    DEF Restart, Zero, TypeOK, ChargeInv, ChargesOnlyCalls, WaitersStand, StampsPast
<1>3. CASE Remaining
  BY <1>3, ResetKeeps DEF Remaining
<1>4. ASSUME NEW r \in Requests, Refused(r) PROVE ChargeInv'
  <2>1. \A q \in Requests : pc'[q] = "wait" => pc[q] = "wait"
    BY <1>4 DEF Refused, Return, Goto, TypeOK
  <2>2. QED
    BY <1>4, <2>1, ResetKeeps DEF Refused
<1>5. ASSUME NEW r \in Requests,
             \/ Begin(r) \/ Call(r) \/ Answered(r) \/ TooManyRequests(r)
             \/ Retry(r) \/ RetriesExhausted(r)
      PROVE  ChargeInv'
  <2>1. \A q \in Requests : pc'[q] = "wait" => pc[q] = "wait"
    BY <1>5 DEF Begin, Call, Answered, TooManyRequests, Retry, RetriesExhausted,
         Return, Goto, TypeOK
  <2>2. UNCHANGED quota /\ stamp' = stamp
    BY <1>5 DEF Begin, Call, Answered, TooManyRequests, Retry, RetriesExhausted
  <2>3. QED
    BY <2>1, <2>2, QuotaKept
<1>6. QED
  BY <1>1, <1>2, <1>3, <1>4, <1>5, ReservedKeeps, RefundKeeps DEF Next, Proceed

LEMMA InitHolds == Init => TypeOK /\ ChargeInv
<1>1. SUFFICES ASSUME Init PROVE TypeOK /\ ChargeInv
  OBVIOUS
<1>2. \A c \in Class : Waiting(c) = {}
  BY <1>1 DEF Init, Waiting
<1>3. \A c \in Class : Cardinality(Waiting(c)) = 0
  BY <1>2, FS_EmptySet
<1>4. QED
  BY <1>1, <1>3
  DEF Init, Zero, PC, TypeOK, ChargeInv, ChargesOnlyCalls, WaitersStand, StampsPast

(* quota.go: the counter is never ahead of the calls it stands for, across *)
(* midnights, refunds, retries and restarts.                               *)
THEOREM NeverOvercharged == Spec => [](TypeOK /\ ChargeInv)
<1>1. TypeOK /\ ChargeInv /\ UNCHANGED vars => TypeOK' /\ ChargeInv'
  <2>1. SUFFICES ASSUME TypeOK, ChargeInv, UNCHANGED vars PROVE TypeOK' /\ ChargeInv'
    OBVIOUS
  <2>2. TypeOK'
    BY <2>1 DEF vars, today, quota, TypeOK
  <2>3. UNCHANGED quota /\ stamp' = stamp /\ pc' = pc
    BY <2>1 DEF vars
  <2>4. QED
    BY <2>1, <2>2, <2>3, QuotaKept
<1>2. TypeOK /\ ChargeInv /\ [Next]_vars => TypeOK' /\ ChargeInv'
  BY <1>1, TypeNext, ChargeNext
<1>3. QED
  BY <1>2, InitHolds, PTL DEF Spec

(* README.md:51-54: a class is refused a call only when as many calls of   *)
(* its own as the budget were reserved since midnight and not refunded.    *)
THEOREM FairRefusals == Spec => RefusedOnlyWhenSpent
<1> DEFINE Fair == \A r \in Requests : Refused(r) => Live(ClassOf[r]) >= Budget[ClassOf[r]]
<1>1. TypeOK /\ ChargeInv => Fair
  <2>1. SUFFICES ASSUME TypeOK, ChargeInv, NEW r \in Requests, Exhausted(ClassOf[r])
                 PROVE  Live(ClassOf[r]) >= Budget[ClassOf[r]]
    BY DEF Refused
  <2>2. ClassOf[r] \in Class
    OBVIOUS
  <2>3. Budget[ClassOf[r]] \in Nat
    BY <2>2
  <2>4. QED
    BY <2>1, <2>2, <2>3, ResetCounters DEF Exhausted
<1>2. QED
  BY <1>1, NeverOvercharged, PTL DEF RefusedOnlyWhenSpent

(* Every reachable state is well typed: the counters never leave Nat, so   *)
(* release (quota.go) takes nothing back that was not reserved.            *)
THEOREM QuotaTyped == Spec => []TypeOK
BY NeverOvercharged, PTL
-----------------------------------------------------------------------------
(* The overrun of a day. *)

\* How many there are of a class, and how many of those wait.
LEMMA Counts ==
  ASSUME TypeOK, NEW c \in Class
  PROVE  /\ used[c] \in Nat /\ Used(c) \in Nat /\ sent[c] \in Nat /\ Budget[c] \in Nat
         /\ Lost(c) \in Nat /\ (1 + restarts) * Budget[c] = Lost(c) + Budget[c]
         /\ IsFiniteSet(InWait(c)) /\ Cardinality(InWait(c)) \in Nat
         /\ Cardinality(Mine(c)) \in Nat
         /\ Cardinality(InWait(c)) <= Cardinality(Mine(c))
<1>1. InWait(c) \subseteq Mine(c) /\ Mine(c) \subseteq Requests
  BY DEF InWait, Mine
<1>2. Cardinality(InWait(c)) <= Cardinality(Mine(c))
  BY <1>1, WaitingFinite, FS_Subset
<1>3. InWait(c) \subseteq Requests
  BY <1>1
<1>4. Budget[c] \in Nat /\ restarts \in Nat
  BY DEF TypeOK
<1>5. Lost(c) \in Nat /\ (1 + restarts) * Budget[c] = Lost(c) + Budget[c]
  BY <1>4 DEF Lost
<1>6. QED
  BY <1>1, <1>2, <1>3, <1>5, WaitingFinite DEF TypeOK, Used

\* No request starts to wait, none goes out, and the counters do not fall.
LEMMA OverrunKept ==
  ASSUME TypeOK, TypeOK', OverrunInv, sent' = sent, restarts' = restarts,
         \A r \in Requests : pc'[r] = "wait" => pc[r] = "wait",
         \A c \in Class : used'[c] <= Budget[c] /\ Used(c)' >= Used(c)
  PROVE  OverrunInv'
<1>1. SUFFICES ASSUME NEW c \in Class
               PROVE  sent'[c] + Cardinality(InWait(c)') <= Lost(c)' + Used(c)' + Cardinality(Mine(c))
  BY DEF OverrunInv, Mine
<1>2. InWait(c)' \subseteq InWait(c)
  BY DEF InWait
<1>3. /\ Cardinality(InWait(c)') \in Nat
      /\ Cardinality(InWait(c)') <= Cardinality(InWait(c))
  BY <1>2, Counts, FS_Subset, FS_CardinalityType
<1>4. Used(c)' \in Nat
  BY DEF TypeOK, Used
<1>5. sent[c] + Cardinality(InWait(c)) <= Lost(c) + Used(c) + Cardinality(Mine(c))
  BY DEF OverrunInv
<1>6. Used(c)' >= Used(c) /\ sent'[c] = sent[c] /\ Lost(c)' = Lost(c)
  BY DEF Lost
<1>7. QED
  BY <1>3, <1>4, <1>5, <1>6, Counts

\* A request leaves the wait: what it held is issued, or taken off the counter.
LEMMA OverrunLeave ==
  ASSUME TypeOK, TypeOK', OverrunInv, NEW r \in Requests, Call(r) \/ WaitCancelled(r)
  PROVE  OverrunInv'
<1> DEFINE k == ClassOf[r]
<1>1. pc[r] = "wait" /\ \E to \in {"call", "idle"} : pc' = [pc EXCEPT ![r] = to]
  BY DEF Call, WaitCancelled, Return, Goto
<1>2. day' = day /\ resetAt' = resetAt /\ \A c \in Class : Lost(c)' = Lost(c)
  BY DEF Call, WaitCancelled, Release, quota, today, Lost
<1>3. ASSUME NEW c \in Class
      PROVE  /\ used'[c] <= Budget[c]
             /\ sent'[c] + Cardinality(InWait(c)') <= Lost(c)' + Used(c)' + Cardinality(Mine(c))
  <2>1. /\ sent[c] + Cardinality(InWait(c)) <= Lost(c) + Used(c) + Cardinality(Mine(c))
        /\ used[c] <= Budget[c]
    BY DEF OverrunInv
  <2>2. InWait(c)' = InWait(c) \ {r}
    BY <1>1 DEF InWait, TypeOK
  <2>3. Cardinality(InWait(c) \ {r}) =
          IF r \in InWait(c) THEN Cardinality(InWait(c)) - 1 ELSE Cardinality(InWait(c))
    BY Counts, FS_RemoveElement
  <2>4. r \in InWait(c) <=> c = k
    BY <1>1 DEF InWait
  <2>5. Cardinality(InWait(c)') =
          IF c = k THEN Cardinality(InWait(c)) - 1 ELSE Cardinality(InWait(c))
    BY <2>2, <2>3, <2>4
  <2>6. CASE Call(r)
    <3>1. /\ used' = used /\ Used(c)' = Used(c)
          /\ sent'[c] = IF c = k THEN sent[c] + 1 ELSE sent[c]
      BY <1>2, <2>6 DEF Call, quota, TypeOK, Used, Elapsed
    <3>2. QED
      BY <1>2, <2>1, <2>5, <3>1, Counts
  <2>7. CASE WaitCancelled(r)
    <3>1. /\ used'[c] = IF c = k THEN Refund(used[c]) ELSE used[c]
          /\ sent'[c] = sent[c]
      BY <2>7 DEF WaitCancelled, Release, TypeOK
    <3>2. /\ Refund(used[c]) \in Nat /\ Refund(used[c]) <= used[c]
          /\ used[c] <= Refund(used[c]) + 1
      BY Counts DEF Refund
    <3>3. Used(c)' = IF Elapsed THEN 0 ELSE used'[c]
      BY <1>2 DEF Used, Elapsed
    <3>4. Used(c) = IF Elapsed THEN 0 ELSE used[c]
      BY DEF Used
    <3>5. used'[c] <= Budget[c]
      BY <2>1, <3>1, <3>2, Counts
    <3>6. CASE c = k
      <4>1. Used(c)' \in Nat /\ Used(c) <= Used(c)' + 1
        BY <3>1, <3>2, <3>3, <3>4, <3>6
      <4>2. Cardinality(InWait(c)') = Cardinality(InWait(c)) - 1
        BY <2>5, <3>6
      <4>3. QED
        BY <1>2, <2>1, <3>1, <3>5, <4>1, <4>2, Counts
    <3>7. CASE c # k
      BY <1>2, <2>1, <2>5, <3>1, <3>3, <3>4, <3>5, <3>7
    <3>8. QED
      BY <3>6, <3>7
  <2>8. QED
    BY <2>6, <2>7
<1>4. QED
  BY <1>3 DEF OverrunInv, Mine

\* A reservation pays for the request that starts to wait.
LEMMA OverrunReserved ==
  ASSUME TypeOK, TypeOK', OverrunInv, NEW r \in Requests, Reserved(r)
  PROVE  OverrunInv'
<1> DEFINE k == ClassOf[r]
<1>1. /\ pc[r] = "acquire" /\ pc' = [pc EXCEPT ![r] = "wait"]
      /\ sent' = sent /\ day' = day /\ resetAt' = ResetAt
      /\ used' = [d \in Class |-> IF d = k THEN Used(d) + 1 ELSE Used(d)]
      /\ Used(k) < Budget[k]
      /\ \A c \in Class : Lost(c)' = Lost(c)
  BY Counts DEF Reserved, Reserve, Goto, Exhausted, today, Lost
<1>2. ~Elapsed'
  BY <1>1 DEF Elapsed, ResetAt, TypeOK
<1>3. ASSUME NEW c \in Class
      PROVE  /\ used'[c] <= Budget[c]
             /\ sent'[c] + Cardinality(InWait(c)') <= Lost(c)' + Used(c)' + Cardinality(Mine(c))
  <2>1. /\ sent[c] + Cardinality(InWait(c)) <= Lost(c) + Used(c) + Cardinality(Mine(c))
        /\ used[c] <= Budget[c]
    BY DEF OverrunInv
  <2>2. Used(c)' = used'[c]
    BY <1>2 DEF Used
  <2>3. Used(c) <= Budget[c]
    BY <2>1, Counts DEF Used
  <2>4. CASE c = k
    <3>1. InWait(c)' = InWait(c) \cup {r} /\ r \notin InWait(c)
      BY <1>1, <2>4 DEF InWait, TypeOK
    <3>2. Cardinality(InWait(c) \cup {r}) = Cardinality(InWait(c)) + 1
      BY <3>1, Counts, FS_AddElement
    <3>3. Cardinality(InWait(c)') = Cardinality(InWait(c)) + 1
      BY <3>1, <3>2
    <3>4. used'[c] = Used(c) + 1 /\ sent'[c] = sent[c]
      BY <1>1, <2>4
    <3>5. QED
      BY <1>1, <2>1, <2>2, <2>4, <3>3, <3>4, Counts
  <2>5. CASE c # k
    <3>1. InWait(c)' = InWait(c)
      BY <1>1, <2>5 DEF InWait, TypeOK
    <3>2. used'[c] = Used(c) /\ sent'[c] = sent[c]
      BY <1>1, <2>5
    <3>3. QED
      BY <1>1, <2>1, <2>2, <2>3, <3>1, <3>2
  <2>6. QED
    BY <2>4, <2>5
<1>4. QED
  BY <1>3 DEF OverrunInv, Mine

\* A new day: nothing was issued yet.
LEMMA OverrunMidnight ==
  ASSUME TypeOK, TypeOK', OverrunInv, Midnight
  PROVE  OverrunInv'
<1>1. SUFFICES ASSUME NEW c \in Class
               PROVE  /\ used'[c] <= Budget[c]
                      /\ sent'[c] + Cardinality(InWait(c)') <= Lost(c)' + Used(c)' + Cardinality(Mine(c))
  BY DEF OverrunInv, Mine
<1>2. sent'[c] = 0 /\ used'[c] = used[c] /\ Lost(c)' \in Nat
  <2>1. restarts' = 0 /\ Budget[c] \in Nat
    BY DEF Midnight
  <2>2. QED
    BY <2>1 DEF Midnight, Zero, quota, Lost
<1>3. Used(c)' \in Nat
  BY DEF TypeOK, Used
<1>4. InWait(c)' = InWait(c)
  BY DEF InWait, Midnight
<1>5. QED
  BY <1>2, <1>3, <1>4, Counts DEF OverrunInv

\* A new process: whatever the old one had left to issue today, its counter
\* allowed no more than the budget that is now counted as lost.
LEMMA OverrunRestart ==
  ASSUME TypeOK, TypeOK', OverrunInv, Restart
  PROVE  OverrunInv'
<1>1. SUFFICES ASSUME NEW c \in Class
               PROVE  /\ used'[c] <= Budget[c]
                      /\ sent'[c] + Cardinality(InWait(c)') <= Lost(c)' + Used(c)' + Cardinality(Mine(c))
  BY DEF OverrunInv, Mine
<1>2. /\ used'[c] = 0 /\ sent'[c] = sent[c] /\ restarts' = restarts + 1
      /\ day' = day /\ resetAt' = day + 1
  BY DEF Restart, Zero
<1>3. Lost(c)' = Lost(c) + Budget[c]
  BY <1>2, Counts DEF Lost, TypeOK
<1>4. Used(c)' = 0
  BY <1>2 DEF Used
<1>5. Cardinality(InWait(c)') = 0
  <2>1. InWait(c)' = {}
    BY DEF InWait, Restart
  <2>2. QED
    BY <2>1, FS_EmptySet
<1>6. Used(c) <= Budget[c]
  BY Counts DEF OverrunInv, Used
<1>7. QED
  BY <1>2, <1>3, <1>4, <1>5, <1>6, Counts DEF OverrunInv

LEMMA OverrunNext ==
  ASSUME TypeOK, TypeOK', OverrunInv, Next
  PROVE  OverrunInv'
<1>1. ASSUME maybeReset, UNCHANGED <<today, sent>>,
             \A r \in Requests : pc'[r] = "wait" => pc[r] = "wait"
      PROVE  OverrunInv'
  <2>1. ASSUME NEW c \in Class
        PROVE  used'[c] <= Budget[c] /\ Used(c)' >= Used(c)
    <3>1. used'[c] = Used(c) /\ ~Elapsed'
      BY <1>1 DEF maybeReset, ResetAt, Elapsed, TypeOK, today
    <3>2. Used(c)' = Used(c)
      BY <3>1 DEF Used
    <3>3. Used(c) <= Budget[c]
      BY Counts DEF OverrunInv, Used
    <3>4. QED
      BY <3>1, <3>2, <3>3, Counts
  <2>2. QED
    BY <1>1, <2>1, OverrunKept DEF today
<1>2. CASE Remaining
  BY <1>1, <1>2 DEF Remaining
<1>3. ASSUME NEW r \in Requests, Refused(r) PROVE OverrunInv'
  <2>1. \A q \in Requests : pc'[q] = "wait" => pc[q] = "wait"
    BY <1>3 DEF Refused, Return, Goto, TypeOK
  <2>2. QED
    BY <1>1, <1>3, <2>1 DEF Refused
<1>4. ASSUME NEW r \in Requests,
             \/ Begin(r) \/ Answered(r) \/ TooManyRequests(r)
             \/ Retry(r) \/ RetriesExhausted(r)
      PROVE  OverrunInv'
  <2>1. \A q \in Requests : pc'[q] = "wait" => pc[q] = "wait"
    BY <1>4 DEF Begin, Answered, TooManyRequests, Retry, RetriesExhausted, Return,
         Goto, TypeOK
  <2>2. UNCHANGED <<today, resetAt, used, sent>>
    BY <1>4 DEF Begin, Answered, TooManyRequests, Retry, RetriesExhausted, quota
  <2>3. \A c \in Class : used'[c] <= Budget[c] /\ Used(c)' >= Used(c)
    <3>1. \A c \in Class : Used(c)' = Used(c)
      BY <2>2 DEF Used, Elapsed, today
    <3>2. QED
      BY <2>2, <3>1, Counts DEF OverrunInv
  <2>4. QED
    BY <2>1, <2>2, <2>3, OverrunKept DEF today
<1>5. QED
  BY <1>2, <1>3, <1>4, OverrunLeave, OverrunReserved, OverrunMidnight, OverrunRestart
  DEF Next, Proceed

(* quota.go:1-2 bounds the calls of a day.  For every budget, number of    *)
(* requests, of retries and of restarts: the calls issued in a day, by all *)
(* the processes that ran in it, are at most one budget for each of them   *)
(* and one call per request, whatever is refunded or retried.              *)
THEOREM OverrunBounded == Spec => []DayOverrun
<1>1. Init => OverrunInv
  <2>1. SUFFICES ASSUME Init, NEW c \in Class
                 PROVE  /\ used[c] <= Budget[c]
                        /\ sent[c] + Cardinality(InWait(c)) <= Lost(c) + Used(c) + Cardinality(Mine(c))
    BY DEF OverrunInv
  <2>2. InWait(c) = {}
    BY <2>1 DEF Init, InWait
  <2>3. Cardinality(InWait(c)) = 0
    BY <2>2, FS_EmptySet
  <2>4. used[c] = 0 /\ sent[c] = 0 /\ Used(c) = 0
    BY <2>1 DEF Init, Zero, Used
  <2>5. Budget[c] \in Nat /\ Lost(c) \in Nat /\ Cardinality(Mine(c)) \in Nat
    BY <2>1, InitHolds, Counts
  <2>6. QED
    BY <2>3, <2>4, <2>5
<1>2. TypeOK /\ TypeOK' /\ OverrunInv /\ UNCHANGED vars => OverrunInv'
  <2>1. SUFFICES ASSUME TypeOK, TypeOK', OverrunInv, UNCHANGED vars PROVE OverrunInv'
    OBVIOUS
  <2>2. UNCHANGED <<today, resetAt, used, sent>> /\ pc' = pc
    BY <2>1 DEF vars, quota
  <2>3. \A c \in Class : used'[c] <= Budget[c] /\ Used(c)' >= Used(c)
    <3>1. \A c \in Class : Used(c)' = Used(c)
      BY <2>2 DEF Used, Elapsed, today
    <3>2. QED
      BY <2>1, <2>2, <3>1, Counts DEF OverrunInv
  <2>4. QED
    BY <2>1, <2>2, <2>3, OverrunKept DEF today
<1>3. TypeOK /\ TypeOK' /\ OverrunInv /\ [Next]_vars => OverrunInv'
  BY <1>2, OverrunNext
<1>4. TypeOK /\ OverrunInv => DayOverrun
  <2>1. SUFFICES ASSUME TypeOK, OverrunInv, NEW c \in Class
                 PROVE  sent[c] <= (1 + restarts) * Budget[c] + Cardinality(Mine(c))
    BY DEF DayOverrun
  <2>2. Used(c) <= Budget[c]
    BY <2>1, Counts DEF OverrunInv, Used
  <2>3. QED
    BY <2>1, <2>2, Counts DEF OverrunInv
<1>5. QED
  BY <1>1, <1>3, <1>4, QuotaTyped, PTL DEF Spec
=============================================================================
