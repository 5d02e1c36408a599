------------------------ MODULE PollSchedulerProofs ------------------------
(***************************************************************************)
(* For every set of events and workers, capacity and budget: the channel   *)
(* is closed only after the scheduler stopped, and when main returns the   *)
(* channel is drained and no worker polls.                                 *)
(*                                                                         *)
(* A worker leaves only when the channel is closed and empty.  It stays    *)
(* empty because the one sender has stopped for good, so the first worker  *)
(* that left already tells that nothing is buffered, and main waits for    *)
(* the last.                                                               *)
(*                                                                         *)
(* The list of due events holds an event once and keeps its order: nobody  *)
(* is overtaken except by asking to be put behind.                         *)
(***************************************************************************)
EXTENDS PollScheduler, FiniteSetTheorems, SequenceTheorems, TLAPS

LeftWhenDrained == \A p \in Workers : pc[p] = "exited" => closed /\ jobs = <<>>
DoneWhenLeft    == main = "done" => \A p \in Workers : pc[p] = "exited"

\* The inductive invariant; pc needs to be a function for it to be one.
ShutdownInv ==
  /\ DOMAIN pc = Workers
  /\ NoSendAfterClose
  /\ LeftWhenDrained
  /\ DoneWhenLeft

\* Steps that move neither a worker nor main and send nothing.
LEMMA Untouched ==
  ASSUME ShutdownInv, UNCHANGED <<jobs, closed, pc, main>>,
         sched = "stopped" => sched' = "stopped"
  PROVE  ShutdownInv'
BY DEF ShutdownInv, NoSendAfterClose, LeftWhenDrained, DoneWhenLeft

\* A worker that moves has not left, so main is not done; it may leave only
\* when the channel is drained, and only a worker that takes an event away
\* touches the channel.
LEMMA WorkerMoves ==
  ASSUME ShutdownInv, NEW p \in Workers,
         TakeJob(p) \/ EndsPoll(p) \/ ExitWorker(p)
  PROVE  ShutdownInv'
<1>1. /\ UNCHANGED <<sched, closed, main>>
      /\ DOMAIN pc' = Workers
      /\ pc[p] # "exited"
      /\ \A q \in Workers : q # p => pc'[q] = pc[q]
  BY DEF ShutdownInv, TakeJob, EndsPoll, PollSucceeds, PollRefused, PollFails,
         EndPoll, ExitWorker
<1>2. pc'[p] = "exited" => closed /\ jobs = <<>>
  BY DEF ShutdownInv, TakeJob, EndsPoll, PollSucceeds, PollRefused, PollFails,
         EndPoll, ExitWorker, Drained
<1>3. jobs = <<>> => jobs' = <<>>
  BY DEF TakeJob, EndsPoll, PollSucceeds, PollRefused, PollFails, EndPoll, ExitWorker
<1>4. LeftWhenDrained'
  BY <1>1, <1>2, <1>3 DEF ShutdownInv, LeftWhenDrained
<1>5. DoneWhenLeft'
  BY <1>1 DEF ShutdownInv, DoneWhenLeft
<1>6. QED
  BY <1>1, <1>4, <1>5 DEF ShutdownInv, NoSendAfterClose

\* The sender is not stopped, so the channel is open and no worker has left.
LEMMA SendKeeps ==
  ASSUME ShutdownInv, SendJob
  PROVE  ShutdownInv'
BY DEF ShutdownInv, SendJob, NoSendAfterClose, LeftWhenDrained, DoneWhenLeft

\* Once the signal came the scheduler can only come to its end.
LEMMA SchedulerKeeps ==
  ASSUME ShutdownInv, Tick \/ EndTick \/ StopScheduler
  PROVE  ShutdownInv'
<1>1. UNCHANGED <<jobs, closed, pc, main>> /\ (sched = "stopped" => sched' = "stopped")
  BY DEF Tick, EndTick, StopScheduler
<1>2. QED
  BY <1>1, Untouched

LEMMA MainKeeps ==
  ASSUME ShutdownInv, Signal \/ CloseJobs \/ ShutdownComplete
  PROVE  ShutdownInv'
<1>1. CASE Signal
  BY <1>1 DEF Signal, ShutdownInv, NoSendAfterClose, LeftWhenDrained, DoneWhenLeft
<1>2. CASE CloseJobs
  BY <1>2 DEF CloseJobs, SafeToClose, Closed, ShutdownInv, NoSendAfterClose,
              LeftWhenDrained, DoneWhenLeft
<1>3. CASE ShutdownComplete
  BY <1>3 DEF ShutdownComplete, ShutdownInv, NoSendAfterClose, LeftWhenDrained,
              DoneWhenLeft
<1>4. QED
  BY <1>1, <1>2, <1>3

LEMMA ShutdownNext ==
  ASSUME ShutdownInv, [Next]_vars
  PROVE  ShutdownInv'
<1>1. CASE UNCHANGED vars
  BY <1>1, Untouched DEF vars
<1>2. CASE Midnight \/ \E e \in Events :
             IntervalElapses(e) \/ CreateWatch(e) \/ StopWatching(e) \/ ResumeWatch(e)
  BY <1>2, Untouched DEF Midnight, IntervalElapses, CreateWatch, StopWatching,
                         ResumeWatch, UserRequest
<1>3. QED
  BY <1>1, <1>2, WorkerMoves, SendKeeps, SchedulerKeeps, MainKeeps DEF Next, Scheduler

LEMMA ShutdownAlways == Spec => []ShutdownInv
<1>1. Init => ShutdownInv
  BY DEF Init, ShutdownInv, NoSendAfterClose, LeftWhenDrained, DoneWhenLeft
<1>2. QED
  BY <1>1, ShutdownNext, PTL DEF Spec

(* main.go:122: jobs is closed only when its sender has stopped.           *)
THEOREM ClosedAfterLastSend == Spec => []NoSendAfterClose
BY ShutdownAlways, PTL DEF ShutdownInv

(* main.go:124: when main returns, nothing is buffered and nothing polled. *)
THEOREM DoneIsDrained == Spec => []DrainedWhenDone
<1>1. ShutdownInv => DrainedWhenDone
  BY SchedulerAssumption DEF ShutdownInv, LeftWhenDrained, DoneWhenLeft, DrainedWhenDone
<1>2. QED
  BY <1>1, ShutdownAlways, PTL

-----------------------------------------------------------------------------
(* The rows and the queues keep their types. *)

\* A row taken out: the rows before it stay, those behind it move up by one.
LEMMA WithoutRows ==
  ASSUME NEW s \in Seq(Events), IsInjective(s), NEW i \in 1..Len(s)
  PROVE  /\ Without(s, s[i]) \in Seq(Events)
         /\ Len(Without(s, s[i])) = Len(s) - 1
         /\ \A j \in 1..(Len(s) - 1) :
              Without(s, s[i])[j] = IF j < i THEN s[j] ELSE s[j + 1]
<1>1. \A j \in 1..Len(s) : s[j] = s[i] => j = i
  BY DEF IsInjective
<1>2. {j \in 1..Len(s) : s[j] = s[i]} = {i}
  BY <1>1
<1>3. Min({i}) = i
  BY DEF Min
<1>4. Without(s, s[i]) = RemoveAt(s, i)
  BY <1>2, <1>3 DEF Without, RemoveFirst, SelectInSeq
<1>. DEFINE before == SubSeq(s, 1, i - 1)
           behind == SubSeq(s, i + 1, Len(s))
<1>5. /\ before \in Seq(Events) /\ Len(before) = i - 1
      /\ \A j \in 1..(i - 1) : before[j] = s[j]
  OBVIOUS
<1>6. /\ behind \in Seq(Events) /\ Len(behind) = Len(s) - i
      /\ \A j \in 1..(Len(s) - i) : behind[j] = s[i + j]
  OBVIOUS
<1>7. Without(s, s[i]) = before \o behind
  BY <1>4 DEF RemoveAt
<1>. HIDE DEF before, behind
<1>8. /\ before \o behind \in Seq(Events)
      /\ Len(before \o behind) = Len(s) - 1
      /\ \A j \in 1..(Len(s) - 1) :
           (before \o behind)[j] = IF j < i THEN before[j] ELSE behind[j - (i - 1)]
  <2>1. /\ before \o behind \in Seq(Events)
        /\ Len(before \o behind) = Len(before) + Len(behind)
        /\ \A j \in 1..(Len(before) + Len(behind)) : (before \o behind)[j] =
             IF j <= Len(before) THEN before[j] ELSE behind[j - Len(before)]
    BY <1>5, <1>6, ConcatProperties, Zenon
  <2>2. Len(before) + Len(behind) = Len(s) - 1
    BY <1>5, <1>6
  <2>3. \A j \in 1..(Len(s) - 1) : j <= Len(before) <=> j < i
    BY <1>5
  <2>4. QED
    BY <1>5, <2>1, <2>2, <2>3
<1>9. QED
  <2>1. ASSUME NEW j \in 1..(Len(s) - 1), ~(j < i)
        PROVE  behind[j - (i - 1)] = s[j + 1]
    <3>1. /\ j - (i - 1) \in 1..(Len(s) - i) /\ i + (j - (i - 1)) = j + 1
      BY <2>1
    <3>2. QED
      BY <1>6, <3>1
  <2>2. QED
    BY <1>5, <1>7, <1>8, <2>1

\* What is left is in order and holds every other event still.
LEMMA WithoutType ==
  ASSUME NEW s \in Seq(Events), IsInjective(s), NEW e
  PROVE  /\ Without(s, e) \in Seq(Events)
         /\ IsInjective(Without(s, e))
         /\ ToSet(Without(s, e)) = ToSet(s) \ {e}
<1>1. CASE e \notin ToSet(s)
  <2>1. ~ \E i \in 1..Len(s) : s[i] = e
    BY <1>1 DEF ToSet
  <2>2. Without(s, e) = s
    BY <2>1 DEF Without, RemoveFirst
  <2>3. QED
    BY <1>1, <2>2
<1>2. CASE e \in ToSet(s)
  <2>1. PICK i \in 1..Len(s) : s[i] = e
    BY <1>2 DEF ToSet
  <2>. DEFINE t == Without(s, e)
  <2>2. /\ t \in Seq(Events) /\ Len(t) = Len(s) - 1
        /\ \A j \in 1..(Len(s) - 1) : t[j] = IF j < i THEN s[j] ELSE s[j + 1]
    BY <2>1, WithoutRows
  <2>. HIDE DEF t
  <2>3. DOMAIN t = 1..(Len(s) - 1) /\ DOMAIN s = 1..Len(s)
    BY <2>2
  <2>4. \A j, k \in 1..Len(s) : s[j] = s[k] => j = k
    BY DEF IsInjective
  <2>5. IsInjective(t)
    <3>1. SUFFICES ASSUME NEW j \in 1..(Len(s) - 1), NEW k \in 1..(Len(s) - 1), t[j] = t[k]
                   PROVE  j = k
      BY <2>3 DEF IsInjective
    <3>2. QED
      BY <2>2, <2>4, <3>1
  <2>6. ToSet(t) \subseteq ToSet(s) \ {e}
    <3>1. SUFFICES ASSUME NEW j \in 1..(Len(s) - 1)
                   PROVE  t[j] \in ToSet(s) \ {e}
      BY <2>3 DEF ToSet
    <3>2. PICK k \in 1..Len(s) : k # i /\ t[j] = s[k]
      BY <2>2
    <3>3. QED
      BY <2>1, <2>3, <2>4, <3>2 DEF ToSet
  <2>7. ToSet(s) \ {e} \subseteq ToSet(t)
    <3>1. SUFFICES ASSUME NEW k \in 1..Len(s), k # i
                   PROVE  \E j \in 1..(Len(s) - 1) : t[j] = s[k]
      BY <2>1, <2>3 DEF ToSet
    <3>2. CASE k < i
      BY <2>2, <3>2
    <3>3. CASE i < k
      <4>1. k - 1 \in 1..(Len(s) - 1) /\ ~(k - 1 < i) /\ (k - 1) + 1 = k
        BY <3>3
      <4>2. QED
        BY <2>2, <4>1
    <3>4. QED
      BY <3>1, <3>2, <3>3
  <2>8. QED
    BY <2>2, <2>5, <2>6, <2>7 DEF t
<1>3. QED
  BY <1>1, <1>2

\* An event that was not in the list is put behind the others.
LEMMA AppendType ==
  ASSUME NEW s \in Seq(Events), IsInjective(s), NEW e \in Events, e \notin ToSet(s)
  PROVE  Append(s, e) \in Seq(Events) /\ IsInjective(Append(s, e))
<1>1. /\ Append(s, e) \in Seq(Events)
      /\ DOMAIN Append(s, e) = 1..(Len(s) + 1)
      /\ Append(s, e)[Len(s) + 1] = e
      /\ \A j \in 1..Len(s) : Append(s, e)[j] = s[j] /\ s[j] # e
  BY DEF ToSet
<1>2. \A j, k \in 1..Len(s) : s[j] = s[k] => j = k
  BY DEF IsInjective
<1>3. \A j \in 1..(Len(s) + 1) : j \in 1..Len(s) \/ j = Len(s) + 1
  OBVIOUS
<1>4. \A j, k \in 1..(Len(s) + 1) : Append(s, e)[j] = Append(s, e)[k] => j = k
  BY <1>1, <1>2, <1>3, Zenon
<1>5. QED
  BY <1>1, <1>4 DEF IsInjective

\* What a tick lists is due, and MaxTick rows at most.
LEMMA BatchType ==
  ASSUME TypeOK, NEW rows \in Batches
  PROVE  rows \in Seq(Events) /\ Len(rows) <= MaxTick
<1>1. Limit \in Nat /\ Limit <= MaxTick
  BY SchedulerAssumption DEF TypeOK, Limit, MinOf
<1>2. PICK m \in 0..Limit : rows \in [1..m -> Waiting]
  BY DEF Batches, SeqOf
<1>3. Waiting \subseteq Events
  BY DEF TypeOK, Waiting
<1>4. m \in Nat /\ m <= MaxTick /\ rows \in [1..m -> Events]
  BY <1>1, <1>2, <1>3, SchedulerAssumption
<1>5. rows \in Seq(Events) /\ Len(rows) = m
  BY <1>4
<1>6. QED
  BY <1>4, <1>5

LEMMA InitTyped == Init => TypeOK
<1>1. ASSUME due \in SetToSeqs(Events)
      PROVE  due \in Seq(Events) /\ IsInjective(due)
  <2>1. Cardinality(Events) \in Nat
    BY SchedulerAssumption, FS_CardinalityType
  <2>2. /\ due \in [1..Cardinality(Events) -> Events]
        /\ \A i, j \in 1..Cardinality(Events) : i # j => due[i] # due[j]
    BY <1>1 DEF SetToSeqs
  <2>3. due \in Seq(Events)
    BY <2>1, <2>2
  <2>4. IsInjective(due)
    BY <2>2 DEF IsInjective
  <2>5. QED
    BY <2>3, <2>4
<1>2. ASSUME Init
      PROVE  TypeOK
  <2>1. due \in Seq(Events) /\ IsInjective(due)
    BY <1>1, <1>2 DEF Init
  <2>2. /\ Len(listed) <= MaxTick /\ listed \in Seq(Events)
        /\ Len(jobs) <= QueueCap /\ jobs \in Seq(Events)
    BY <1>2, SchedulerAssumption DEF Init
  <2>3. left \in 0..Budget /\ faults \in 0..MaxFaults /\ requests \in 0..MaxRequests
    BY <1>2, SchedulerAssumption DEF Init
  <2>4. QED
    BY <1>2, <2>1, <2>2, <2>3 DEF Init, TypeOK
<1>3. QED
  BY <1>2

LEMMA RowsTyped ==
  ASSUME TypeOK, NEW e \in Events,
         IntervalElapses(e) \/ CreateWatch(e) \/ StopWatching(e) \/ ResumeWatch(e)
  PROVE  TypeOK'
<1>1. CASE IntervalElapses(e)
  <2>1. due' \in Seq(Events) /\ IsInjective(due')
    BY <1>1, AppendType DEF IntervalElapses, TypeOK
  <2>2. QED
    BY <1>1, <2>1 DEF IntervalElapses, TypeOK
<1>2. CASE CreateWatch(e)
  <2>1. /\ Without(due, e) \in Seq(Events) /\ IsInjective(Without(due, e))
        /\ e \notin ToSet(Without(due, e))
    BY WithoutType DEF TypeOK
  <2>2. due' \in Seq(Events) /\ IsInjective(due')
    BY <1>2, <2>1, AppendType DEF CreateWatch, UserRequest
  <2>3. requests' \in 0..MaxRequests
    BY <1>2, SchedulerAssumption DEF CreateWatch, UserRequest, TypeOK
  <2>4. QED
    BY <1>2, <2>2, <2>3 DEF CreateWatch, UserRequest, TypeOK
<1>3. CASE StopWatching(e) \/ ResumeWatch(e)
  <2>1. active' \in SUBSET Events /\ due' = due
    BY <1>3 DEF StopWatching, ResumeWatch, TypeOK
  <2>2. requests' \in 0..MaxRequests
    BY <1>3, SchedulerAssumption DEF StopWatching, ResumeWatch, UserRequest, TypeOK
  <2>3. QED
    BY <1>3, <2>1, <2>2 DEF StopWatching, ResumeWatch, UserRequest, TypeOK
<1>4. QED
  BY <1>1, <1>2, <1>3

LEMMA SchedulerTyped ==
  ASSUME TypeOK, Scheduler \/ Midnight
  PROVE  TypeOK'
<1>1. CASE Tick
  BY <1>1, BatchType DEF Tick, TypeOK
<1>2. CASE SendJob
  <2>1. /\ Head(listed) \in Events /\ Tail(listed) \in Seq(Events)
        /\ Len(Tail(listed)) <= MaxTick
    BY <1>2, SchedulerAssumption DEF SendJob, TypeOK
  <2>2. Append(jobs, Head(listed)) \in Seq(Events)
        /\ Len(Append(jobs, Head(listed))) <= QueueCap
    BY <1>2, <2>1, SchedulerAssumption DEF SendJob, HasRoom, TypeOK
  <2>3. QED
    BY <1>2, <2>1, <2>2 DEF SendJob, TypeOK
<1>3. CASE EndTick
  BY <1>3, SchedulerAssumption DEF EndTick, TypeOK
<1>4. CASE StopScheduler
  BY <1>4 DEF StopScheduler, TypeOK
<1>5. CASE Midnight
  BY <1>5, SchedulerAssumption DEF Midnight, TypeOK
<1>6. QED
  BY <1>1, <1>2, <1>3, <1>4, <1>5 DEF Scheduler

LEMMA WorkersTyped ==
  ASSUME TypeOK, NEW p \in Workers, TakeJob(p) \/ EndsPoll(p) \/ ExitWorker(p)
  PROVE  TypeOK'
<1>1. CASE TakeJob(p)
  <2>1. /\ Head(jobs) \in Events /\ Tail(jobs) \in Seq(Events)
        /\ Len(Tail(jobs)) <= QueueCap
    BY <1>1, SchedulerAssumption DEF TakeJob, TypeOK
  <2>2. QED
    BY <1>1, <2>1 DEF TakeJob, TypeOK
<1>2. CASE PollSucceeds(p)
  <2>1. due' \in Seq(Events) /\ IsInjective(due')
    BY <1>2, WithoutType DEF PollSucceeds, TypeOK
  <2>2. left' \in 0..Budget
    BY <1>2, SchedulerAssumption DEF PollSucceeds, TypeOK
  <2>3. QED
    BY <1>2, <2>1, <2>2 DEF PollSucceeds, EndPoll, TypeOK
<1>3. CASE PollRefused(p)
  BY <1>3 DEF PollRefused, EndPoll, TypeOK
<1>4. CASE PollFails(p)
  <2>1. left' \in 0..Budget /\ faults' \in 0..MaxFaults
    BY <1>4, SchedulerAssumption DEF PollFails, TypeOK
  <2>2. QED
    BY <1>4, <2>1 DEF PollFails, EndPoll, TypeOK
<1>5. CASE ExitWorker(p)
  BY <1>5 DEF ExitWorker, TypeOK
<1>6. QED
  BY <1>1, <1>2, <1>3, <1>4, <1>5 DEF EndsPoll

LEMMA MainTyped ==
  ASSUME TypeOK, Signal \/ CloseJobs \/ ShutdownComplete
  PROVE  TypeOK'
BY DEF TypeOK, Signal, CloseJobs, Closed, ShutdownComplete

(* scheduler.go:54: a row is due once, and neither a tick (scheduler.go:60)  *)
(* nor the channel holds more than its capacity.                           *)
THEOREM SchedulerTypes == Spec => []TypeOK
<1>1. ASSUME TypeOK, [Next]_vars
      PROVE  TypeOK'
  <2>1. CASE UNCHANGED vars
    BY <1>1, <2>1 DEF TypeOK, vars
  <2>2. CASE Next
    BY <1>1, <2>2, RowsTyped, SchedulerTyped, WorkersTyped, MainTyped DEF Next
  <2>3. QED
    BY <1>1, <2>1, <2>2
<1>2. QED
  BY <1>1, InitTyped, PTL DEF Spec

-----------------------------------------------------------------------------
(* The turn of an event: why DueIsPolled may hold at all. *)

(* An event that is due is overtaken by none: whoever is before it after a *)
(* step was before it already, unless a watch on it was created, which     *)
(* puts it behind the others (scheduler.go:54, watch.go:236).              *)
NeverOvertaken ==
  [][\A e, f \in Events :
       e \in ToSet(due) /\ Precedes(due', f, e) =>
         Precedes(due, f, e) \/ CreateWatch(e)]_vars

LEMMA WithoutKeepsOrder ==
  ASSUME NEW s \in Seq(Events), IsInjective(s), NEW x, NEW e, NEW f,
         Precedes(Without(s, x), f, e)
  PROVE  Precedes(s, f, e)
<1>1. CASE x \notin ToSet(s)
  <2>1. ~ \E i \in 1..Len(s) : s[i] = x
    BY <1>1 DEF ToSet
  <2>2. QED
    BY <2>1 DEF Without, RemoveFirst
<1>2. CASE x \in ToSet(s)
  <2>1. PICK k \in 1..Len(s) : s[k] = x
    BY <1>2 DEF ToSet
  <2>. DEFINE t == Without(s, x)
  <2>2. /\ t \in Seq(Events) /\ Len(t) = Len(s) - 1
        /\ \A j \in 1..(Len(s) - 1) : t[j] = IF j < k THEN s[j] ELSE s[j + 1]
    BY <2>1, WithoutRows
  <2>. HIDE DEF t
  <2>3. PICK i, j \in 1..(Len(s) - 1) : i < j /\ t[i] = f /\ t[j] = e
    BY <2>2 DEF Precedes, t
  <2>4. PICK i1, j1 \in 1..Len(s) : i1 < j1 /\ s[i1] = t[i] /\ s[j1] = t[j]
    BY <2>2, <2>3
  <2>5. QED
    BY <2>3, <2>4 DEF Precedes
<1>3. QED
  BY <1>1, <1>2

LEMMA AppendKeepsOrder ==
  ASSUME NEW s \in Seq(Events), NEW x, NEW e, NEW f, e # x,
         Precedes(Append(s, x), f, e)
  PROVE  Precedes(s, f, e)
<1>1. /\ DOMAIN Append(s, x) = 1..(Len(s) + 1)
      /\ Append(s, x)[Len(s) + 1] = x
      /\ \A j \in 1..Len(s) : Append(s, x)[j] = s[j]
  OBVIOUS
<1>2. PICK i, j \in 1..(Len(s) + 1) : i < j /\ Append(s, x)[i] = f /\ Append(s, x)[j] = e
  BY <1>1 DEF Precedes
<1>3. j \in 1..Len(s) /\ i \in 1..Len(s)
  BY <1>1, <1>2
<1>4. QED
  BY <1>1, <1>2, <1>3 DEF Precedes

(* The order the events became due in is the order they are listed in.     *)
THEOREM TurnsComeInOrder == Spec => NeverOvertaken
<1>1. ASSUME TypeOK, [Next]_vars, NEW e \in Events, NEW f \in Events,
             e \in ToSet(due), Precedes(due', f, e)
      PROVE  Precedes(due, f, e) \/ CreateWatch(e)
  <2>1. due \in Seq(Events) /\ IsInjective(due)
    BY <1>1 DEF TypeOK
  <2>2. CASE due' = due
    BY <1>1, <2>2
  <2>3. CASE \E x \in Events : IntervalElapses(x)
    BY <1>1, <2>1, <2>3, AppendKeepsOrder DEF IntervalElapses
  <2>4. ASSUME NEW x \in Events, CreateWatch(x)
        PROVE  Precedes(due, f, e) \/ CreateWatch(e)
    <3>1. CASE x = e
      BY <2>4, <3>1
    <3>2. CASE x # e
      <4>1. Without(due, x) \in Seq(Events)
        BY <2>1, WithoutType
      <4>2. Precedes(Without(due, x), f, e)
        BY <1>1, <2>4, <3>2, <4>1, AppendKeepsOrder DEF CreateWatch, UserRequest
      <4>3. QED
        BY <2>1, <4>2, WithoutKeepsOrder
    <3>3. QED
      BY <3>1, <3>2
  <2>5. CASE \E p \in Workers : PollSucceeds(p)
    BY <1>1, <2>1, <2>5, WithoutKeepsOrder DEF PollSucceeds
  <2>6. QED
    BY <1>1, <2>2, <2>3, <2>4, <2>5
       DEF Next, Scheduler, EndsPoll, StopWatching, ResumeWatch, vars, Midnight, Tick,
       SendJob, EndTick,
           StopScheduler, TakeJob, PollRefused, PollFails, ExitWorker, Signal,
           CloseJobs, ShutdownComplete
<1>2. TypeOK /\ [Next]_vars =>
        [\A e, f \in Events : e \in ToSet(due) /\ Precedes(due', f, e) =>
           Precedes(due, f, e) \/ CreateWatch(e)]_vars
  BY <1>1
<1>3. QED
  BY <1>2, SchedulerTypes, PTL DEF Spec, NeverOvertaken
=============================================================================
