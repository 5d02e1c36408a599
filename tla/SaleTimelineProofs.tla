------------------------- MODULE SaleTimelineProofs -------------------------
(***************************************************************************)
(* Theorems about one event's life for every set of answers and every      *)
(* bound on the clock.  Two invariants carry them: TypeOK, and EdgeInv,    *)
(* which says that last_evaluation, kept by the watch's own polls, follows *)
(* last_availability, kept by everybody's, until a poll passes it by.      *)
(***************************************************************************)
EXTENDS SaleTimeline, EvaluatorProofs, WellFoundedInduction

-----------------------------------------------------------------------------
(* What the client makes of an answer.                                     *)

LEMMA ParseType ==
  ASSUME NEW v \in Time
  PROVE  /\ parseSaleTime(v).t \in Time
         /\ parseSaleTime(v).tbd \in BOOLEAN
         /\ Known(parseSaleTime(v).t) => parseSaleTime(v).t = v /\ v < Sentinel
BY SentinelAssumption DEF parseSaleTime, Time, NoTime, Known

\* A non-empty set of times has an earliest one.
LEMMA Earliest ==
  ASSUME NEW S \in SUBSET Time, S # {}
  PROVE  \E t \in S : \A u \in S : t <= u
<1>1. PICK t \in S : \A u \in S : ~(<<u, t>> \in OpToRel(<, Nat))
  BY NatLessThanWellFounded, WFMin DEF Time
<1>2. \A u \in S : ~(u < t)
  BY <1>1 DEF OpToRel, Time
<1>3. QED
  BY <1>2 DEF Time

\* The stored presale is none, or one of those Ticketmaster gave.
LEMMA PresaleIsGiven ==
  ASSUME NEW P \in SUBSET Time
  PROVE  /\ EarliestPresale(P) \in Time
         /\ Known(EarliestPresale(P)) => EarliestPresale(P) \in P
<1> DEFINE D == {t \in {parseSaleTime(v).t : v \in P} : Known(t)}
<1>1. D \in SUBSET Time /\ D \subseteq P
  BY ParseType
<1>2. CASE D = {}
  BY <1>2 DEF EarliestPresale, Time, NoTime, Known
<1>3. CASE D # {}
  <2>1. \E t \in D : \A u \in D : t <= u
    BY <1>1, <1>3, Earliest
  <2>2. EarliestPresale(P) \in D
    BY <2>1, <1>3 DEF EarliestPresale
  <2>3. QED
    BY <1>1, <2>2
<1>4. QED
  BY <1>2, <1>3

LEMMA SnapshotType ==
  ASSUME NEW a \in Answer
  PROVE  toSnapshot(a) \in Snapshot
<1>1. /\ a.code \in Availability \cup {NoCode}
      /\ a.dateTime \in Time /\ a.start \in Time /\ a.end \in Time
      /\ a.flagged \in BOOLEAN /\ a.presales \in SUBSET Time
  BY DEF Answer
<1>2. normalizeStatus(a.code) \in Availability
  BY <1>1 DEF normalizeStatus, Availability
<1>3. /\ parseSaleTime(a.start).t \in Time /\ parseSaleTime(a.end).t \in Time
      /\ parseSaleTime(a.start).tbd \in BOOLEAN
  BY <1>1, ParseType
<1>4. EarliestPresale(a.presales) \in Time
  BY <1>1, PresaleIsGiven
<1>5. (IF a.flagged THEN NoTime ELSE parseSaleTime(a.start).t) \in Time
  BY <1>3 DEF NoTime, Time
<1>6. (parseSaleTime(a.start).tbd \/ a.flagged) \in BOOLEAN
  BY <1>1, <1>3
<1>7. QED
  BY <1>1, <1>2, <1>3, <1>4, <1>5, <1>6 DEF toSnapshot, Snapshot

LEMMA FeedType ==
  ASSUME TypeOK
  PROVE  upstream \in Answer /\ feed \in Snapshot
BY AnswersAssumption, SnapshotType DEF TypeOK, feed

LEMMA RefreshedType ==
  ASSUME TypeOK
  PROVE  /\ Refreshed \in Snapshot
         /\ Refreshed.avail = feed.avail /\ Refreshed.publicStart = feed.publicStart
         /\ Refreshed.publicEnd = feed.publicEnd /\ Refreshed.presale = feed.presale
         /\ Refreshed.tbd = feed.tbd
<1>1. feed \in Snapshot /\ event \in Snapshot
  BY FeedType DEF TypeOK
<1>2. QED
  BY <1>1 DEF Refreshed, Snapshot

-----------------------------------------------------------------------------
(* The type and the edge state.                                            *)

EdgeInv ==
  \/ watch.status = "none" \/ watch.missed
  \/ watch.lastEvaluation = (event.avail = "onsale")

LEMMA TypeNext ==
  ASSUME TypeOK, Next
  PROVE  TypeOK'
<1> USE DEF TypeOK
<1>1. CASE Tick
  BY <1>1 DEF Tick, Time
<1>2. CASE Upstream
  BY <1>2 DEF Upstream
<1>3. CASE Create
  BY <1>3 DEF Create, NoWatch, WatchStatus, Seed, Time, NoTime
<1>4. CASE Pause \/ Resume
  BY <1>4 DEF Pause, Resume, SetStatus, WatchStatus
<1>5. CASE PollActive
  <2> DEFINE res == Evaluate(observation, prior)
  <2>1. res.kinds \subseteq Kind /\ res.statusOnsale \in BOOLEAN
    BY EvaluateType
  <2>2. event' \in Snapshot
    BY <1>5, RefreshedType DEF PollActive
  <2>3. watch' = [watch EXCEPT !.lastEvaluation = res.statusOnsale, !.missed = FALSE,
                     !.status = IF res.closeWatch THEN "paused" ELSE @]
    BY <1>5 DEF PollActive
  <2>4. watch' \in [status: WatchStatus, lastEvaluation: BOOLEAN, createdAt: Time,
                    missed: BOOLEAN]
    <3> HIDE DEF res
    <3>1. QED
      BY <2>1, <2>3 DEF WatchStatus
  <2>5. fired' \subseteq Kind \ {"status_onsale"} /\ report' \subseteq Kind
    <3>1. /\ fired' = fired \cup {k \in res.kinds : NeedsClaim(k)}
          /\ report' = {k \in res.kinds : NeedsClaim(k) => k \notin fired}
      BY <1>5 DEF PollActive
    <3> HIDE DEF res
    <3>2. QED
      BY <2>1, <3>1 DEF NeedsClaim
  <2>6. QED
    BY <1>5, <2>2, <2>4, <2>5 DEF PollActive
<1>6. CASE PollOthers
  BY <1>6, RefreshedType DEF PollOthers
<1>7. QED
  BY <1>1, <1>2, <1>3, <1>4, <1>5, <1>6 DEF Next

LEMMA InitTyped == Init => TypeOK /\ EdgeInv
<1>1. SUFFICES ASSUME Init PROVE TypeOK /\ EdgeInv
  OBVIOUS
<1>2. upstream \in Answer
  BY <1>1, AnswersAssumption DEF Init
<1>3. event \in Snapshot
  BY <1>1, <1>2, SnapshotType DEF Init, feed
<1>4. QED
  BY <1>1, <1>3
  DEF Init, TypeOK, EdgeInv, NoWatch, WatchStatus, Time, NoTime

LEMMA EdgeNext ==
  ASSUME TypeOK, EdgeInv, Next
  PROVE  EdgeInv'
<1>1. CASE Tick \/ Upstream
  BY <1>1 DEF Tick, Upstream, EdgeInv
<1>2. CASE Create
  BY <1>2 DEF Create, EdgeInv, Seed, NoWatch
<1>3. CASE Pause \/ Resume
  BY <1>3 DEF Pause, Resume, SetStatus, EdgeInv, TypeOK
<1>4. CASE PollActive
  <2>1. watch'.lastEvaluation = Evaluate(observation, prior).statusOnsale
    BY <1>4 DEF PollActive, TypeOK
  <2>2. Evaluate(observation, prior).statusOnsale = (feed.avail = "onsale")
    BY DEF Evaluate, observation
  <2>3. event'.avail = feed.avail
    BY <1>4, RefreshedType DEF PollActive
  <2>4. QED
    BY <2>1, <2>2, <2>3 DEF EdgeInv
<1>5. CASE PollOthers
  BY <1>5 DEF PollOthers, EdgeInv, TypeOK, WatchStatus
<1>6. QED
  BY <1>1, <1>2, <1>3, <1>4, <1>5 DEF Next

(* Every reachable state is well typed, and until a poll passes the watch  *)
(* by, its edge state agrees with the availability in the events row       *)
(* (watch.go:226 seeds it, worker.go:225 keeps it).                        *)
THEOREM EdgeFollows == Spec => [](TypeOK /\ EdgeInv)
<1>1. TypeOK /\ EdgeInv /\ UNCHANGED vars => TypeOK' /\ EdgeInv'
  BY DEF TypeOK, EdgeInv, vars
<1>2. TypeOK /\ EdgeInv /\ [Next]_vars => TypeOK' /\ EdgeInv'
  BY <1>1, TypeNext, EdgeNext
<1>3. QED
  BY <1>2, InitTyped, PTL DEF Spec

(* Every reachable state is well typed: what the client stores is always a *)
(* snapshot, and status_onsale is never claimed (worker.go:257).           *)
THEOREM TypeCorrect == Spec => []TypeOK
BY EdgeFollows, PTL

-----------------------------------------------------------------------------
(* What a poll's verdict says of the answer it was given.                  *)

\* A report comes from a poll, and only of kinds the verdict holds.
LEMMA ReportedHolds ==
  ASSUME TypeOK, Next, NEW k \in report'
  PROVE  /\ PollActive
         /\ k \in Evaluate(observation, prior).kinds
         /\ event' = Refreshed /\ now' = now
BY DEF Next, Tick, Upstream, Create, Pause, Resume, SetStatus, PollOthers, PollActive

\* A sale alert means that its trigger holds, no veto does, and the sale is
\* not over if the alert says it can be used.
LEMMA SaleKindHolds ==
  ASSUME NEW o, NEW p, NEW k \in Evaluate(o, p).kinds,
         k \notin {"cancelled", "rescheduled"}
  PROVE  ~Vetoed(o) /\ Holds(k, o, p) /\ (k \in OpenKinds => ~SaleEnded(o))
BY DEF Evaluate, Vetoed, SaleKinds

LEMMA VetoKindHolds ==
  ASSUME NEW o, NEW p
  PROVE  /\ "cancelled" \in Evaluate(o, p).kinds => o.avail = "cancelled"
         /\ "rescheduled" \in Evaluate(o, p).kinds =>
              o.avail \in {"postponed", "rescheduled"}
<1>1. "cancelled" \notin SaleKinds(o, p) /\ "rescheduled" \notin SaleKinds(o, p)
  BY DEF SaleKinds, Holds
<1>2. QED
  BY <1>1 DEF Evaluate, Cancelled, Moved

\* The label reads the row; the verdict read the same fields of the answer.
LEMMA SameFields ==
  ASSUME TypeOK, event' = Refreshed, now' = now
  PROVE  /\ event'.avail = observation.avail
         /\ event'.publicStart = observation.publicStart
         /\ event'.publicEnd = observation.publicEnd
         /\ event'.presale = observation.presale
         /\ now' = observation.now
BY RefreshedType DEF observation

LEMMA LabelAgreesNext ==
  ASSUME TypeOK, Next
  PROVE  LabelAgreesWithAlerts'
<1> DEFINE o == observation
           Kinds == Evaluate(observation, prior).kinds
<1>1. CASE report' = {}
  BY <1>1 DEF LabelAgreesWithAlerts
<1>2. CASE report' # {}
  <2>1. event' = Refreshed /\ now' = now /\ report' \subseteq Kinds
    BY <1>2, ReportedHolds
  <2>2. label' = deriveSaleState(event', now')
    BY DEF label
  <2>3. "cancelled" \in report' => label' = "cancelled"
    BY <2>1, <2>2, VetoKindHolds, SameFields DEF deriveSaleState
  <2>4. "rescheduled" \in report' => label' = "rescheduled"
    BY <2>1, <2>2, VetoKindHolds, SameFields DEF deriveSaleState
  <2>5. "sale_closed" \in report' => label' = "sale_closed"
    <3>1. HAVE "sale_closed" \in report'
    <3>2. ~Vetoed(o) /\ Holds("sale_closed", o, prior)
      BY <2>1, <3>1, SaleKindHolds
    <3>3. SaleEnded(o)
      BY <3>2 DEF Holds
    <3>4. QED
      BY <2>1, <2>2, <3>2, <3>3, SameFields
      DEF deriveSaleState, SaleEnded, Vetoed, Cancelled, Moved
  <2>6. ASSUME NEW k \in report', k \in OpenKinds
        PROVE  label' \in {"on_sale", "presale_open"}
    <3>1. ~Vetoed(o) /\ Holds(k, o, prior) /\ ~SaleEnded(o)
      BY <2>1, <2>6, SaleKindHolds DEF OpenKinds
    <3>2. o.avail = "onsale" \/ Begun(o.presale, o.now)
      BY <2>6, <3>1 DEF Holds, OpenKinds
    <3>3. QED
      BY <2>1, <2>2, <3>1, <3>2, SameFields
      DEF deriveSaleState, SaleEnded, Vetoed, Cancelled, Moved
  <2>7. ASSUME "onsale_announced" \in report'
        PROVE  \/ label' \in {"onsale_scheduled", "presale_open"}
               \/ label' = "sale_closed" /\ "sale_closed" \in fired'
               \/ label' = "on_sale" /\ StatusOutrunsDate'
    <3>1. ~Vetoed(o) /\ Holds("onsale_announced", o, prior)
      BY <2>1, <2>7, SaleKindHolds
    <3>2. Known(o.publicStart) /\ o.now < o.publicStart
      BY <3>1 DEF Holds
    <3>3. CASE SaleEnded(o)
      <4>1. "sale_closed" \in Kinds
        BY <3>1, <3>3 DEF Evaluate, Vetoed, SaleKinds, Holds, OpenKinds, Kind
      <4>2. PollActive
        BY <1>2, ReportedHolds
      <4>3. "sale_closed" \in fired'
        BY <4>1, <4>2 DEF PollActive, NeedsClaim
      <4>4. label' = "sale_closed"
        BY <2>1, <2>2, <3>1, <3>3, SameFields
        DEF deriveSaleState, SaleEnded, Vetoed, Cancelled, Moved
      <4>5. QED
        BY <4>3, <4>4
    <3>4. CASE ~SaleEnded(o) /\ o.avail = "onsale"
      BY <2>1, <2>2, <3>1, <3>2, <3>4, SameFields
      DEF deriveSaleState, SaleEnded, Vetoed, Cancelled, Moved, StatusOutrunsDate
    <3>5. CASE ~SaleEnded(o) /\ o.avail # "onsale"
      BY <2>1, <2>2, <3>1, <3>2, <3>5, SameFields
      DEF deriveSaleState, SaleEnded, Vetoed, Cancelled, Moved
    <3>6. QED
      BY <3>3, <3>4, <3>5
  <2>8. QED
    BY <2>3, <2>4, <2>5, <2>6, <2>7 DEF LabelAgreesWithAlerts
<1>3. QED
  BY <1>1, <1>2

(* An alert and the label computed from the row the same poll stored fit   *)
(* together, whatever Ticketmaster answers and whatever the earlier polls  *)
(* left behind, but for an announcement that comes with a status saying    *)
(* onsale already (watch.go:98-100).                                       *)
THEOREM LabelAgrees == Spec => []LabelAgreesWithAlerts
<1>1. Init => LabelAgreesWithAlerts
  BY DEF Init, LabelAgreesWithAlerts
<1>2. LabelAgreesWithAlerts /\ UNCHANGED vars => LabelAgreesWithAlerts'
  BY DEF LabelAgreesWithAlerts, StatusOutrunsDate, label, vars
<1>3. TypeOK /\ LabelAgreesWithAlerts /\ [Next]_vars => LabelAgreesWithAlerts'
  BY <1>2, LabelAgreesNext
<1>4. QED
  BY <1>1, <1>3, TypeCorrect, PTL DEF Spec

-----------------------------------------------------------------------------
(* The action properties.                                                  *)

(* A status_onsale alert is news, however polls, pauses and other users'   *)
(* polls of the event follow one another (worker.go:248).                  *)
THEOREM FlipIsNews == Spec => StatusFlipIsNews
<1> DEFINE News == "status_onsale" \in report' => event.avail # "onsale" \/ watch.missed
<1>1. ASSUME TypeOK, EdgeInv, Next, "status_onsale" \in report'
      PROVE  event.avail # "onsale" \/ watch.missed
  <2>1. /\ PollActive
        /\ "status_onsale" \in Evaluate(observation, prior).kinds
    BY <1>1, ReportedHolds
  <2>2. Holds("status_onsale", observation, prior)
    BY <2>1, SaleKindHolds
  <2>3. ~watch.lastEvaluation
    BY <2>2 DEF Holds, prior
  <2>4. watch.status = "active"
    BY <2>1 DEF PollActive
  <2>5. QED
    BY <1>1, <2>3, <2>4 DEF EdgeInv
<1>2. ASSUME TypeOK, UNCHANGED vars, EdgeInv
      PROVE  [News]_vars
  BY <1>2
<1>3. TypeOK /\ EdgeInv /\ [Next]_vars => [News]_vars
  BY <1>1, <1>2
<1>4. QED
  BY <1>3, EdgeFollows, PTL DEF Spec, StatusFlipIsNews

(* A poll that leaves an active watch on an event shown as on sale, at a   *)
(* date after the watch was made, has claimed public_open.                 *)
THEOREM OpenSalesAreClaimed == Spec => OpenSaleIsClaimed
<1> DEFINE Shown == /\ PollActive
                    /\ watch'.status = "active"
                    /\ label' = "on_sale"
                    /\ watch.createdAt < event'.publicStart
                    /\ event'.publicStart <= now
<1>1. ASSUME TypeOK, Shown
      PROVE  "public_open" \in fired'
  <2> DEFINE o == observation
  <2>1. event' = Refreshed /\ now' = now
    BY <1>1 DEF PollActive
  <2>2. o.avail = "onsale" /\ ~SaleEnded(o)
    BY <1>1, <2>1, SameFields DEF label, deriveSaleState, SaleEnded
  <2>3. ~Evaluate(o, prior).closeWatch
    BY <1>1 DEF PollActive, TypeOK
  <2>4. ~Vetoed(o)
    BY <2>2, <2>3 DEF Evaluate, Vetoed, Over, Cancelled, Moved, Passed, Known
  <2>5. /\ watch.createdAt \in Nat /\ now \in Nat /\ o.publicStart \in Nat
        /\ o.publicStart = event'.publicStart /\ o.now = now
    BY <1>1, <2>1, SameFields, FeedType DEF TypeOK, Time, Snapshot, observation
  <2>6. Begun(o.publicStart, o.now) /\ ~AlreadyHappenedBeforeWatch(prior, o.publicStart)
    BY <1>1, <2>5 DEF Begun, Known, NoTime, AlreadyHappenedBeforeWatch, prior
  <2>7. "public_open" \in SaleKinds(o, prior)
    BY <2>2, <2>6 DEF SaleKinds, Holds, Kind
  <2>8. "public_open" \in Evaluate(o, prior).kinds
    BY <2>4, <2>7 DEF Evaluate, Vetoed
  <2>9. QED
    BY <1>1, <2>8 DEF PollActive, NeedsClaim
<1>2. TypeOK /\ [Next]_vars => [Shown => "public_open" \in fired']_vars
  BY <1>1
<1>3. QED
  BY <1>2, TypeCorrect, PTL DEF Spec, OpenSaleIsClaimed

\* The date and the presale of the answer are those Ticketmaster gave.
LEMMA FeedIsGiven ==
  ASSUME TypeOK
  PROVE  /\ Known(feed.publicStart) => Announced(upstream)
         /\ ~Known(feed.publicStart) /\ feed.tbd => ~Announced(upstream)
         /\ Known(feed.presale) => feed.presale \in upstream.presales
<1> DEFINE start == parseSaleTime(upstream.start)
<1>1. /\ upstream.start \in Time /\ upstream.flagged \in BOOLEAN
      /\ upstream.presales \in SUBSET Time
  BY FeedType DEF Answer
<1>2. /\ feed.publicStart = IF upstream.flagged THEN NoTime ELSE start.t
      /\ feed.tbd = (start.tbd \/ upstream.flagged)
      /\ feed.presale = EarliestPresale(upstream.presales)
  BY DEF feed, toSnapshot
<1>3. Known(feed.publicStart) => Announced(upstream)
  BY <1>1, <1>2, ParseType DEF Announced, Known
<1>4. ~Known(feed.publicStart) /\ feed.tbd => ~Announced(upstream)
  BY <1>1, <1>2, SentinelAssumption DEF Announced, parseSaleTime, Time
<1>5. QED
  BY <1>1, <1>2, <1>3, <1>4, PresaleIsGiven

(* A date reaches a user only if Ticketmaster gave one, over any sequence  *)
(* of answers: neither the placeholder of year 9999 nor an uncertain date  *)
(* is announced or shown (client.go:178).                                  *)
THEOREM OnlyAnnouncedDates == Spec => DatesAreAnnounced
<1> DEFINE Dates ==
      /\ "onsale_announced" \in report' \/ label' = "onsale_scheduled" => Announced(upstream)
      /\ label' = "onsale_tbd" => ~Announced(upstream)
      /\ "presale_open" \in report' \/ label' = "presale_open" =>
           \E t \in upstream.presales : Begun(t, now)
<1>1. ASSUME TypeOK, Next, event' # event \/ report' # {}
      PROVE  Dates
  <2>1. event' = Refreshed /\ now' = now
    BY <1>1
    DEF Next, Tick, Upstream, Create, Pause, Resume, SetStatus, PollOthers, PollActive
  <2>2. /\ event'.publicStart = feed.publicStart /\ event'.presale = feed.presale
        /\ event'.tbd = feed.tbd
    BY <1>1, <2>1, RefreshedType
  <2>3. label' = deriveSaleState(event', now)
    BY <2>1 DEF label
  <2>4. label' = "onsale_scheduled" => Known(feed.publicStart)
    BY <2>2, <2>3 DEF deriveSaleState
  <2>5. label' = "onsale_tbd" => ~Known(feed.publicStart) /\ feed.tbd
    BY <2>2, <2>3 DEF deriveSaleState
  <2>6. label' = "presale_open" => Begun(feed.presale, now)
    BY <2>2, <2>3 DEF deriveSaleState
  <2>7. "onsale_announced" \in report' => Known(feed.publicStart)
    <3>1. HAVE "onsale_announced" \in report'
    <3>2. Holds("onsale_announced", observation, prior)
      BY <1>1, <3>1, ReportedHolds, SaleKindHolds
    <3>3. now < feed.publicStart
      BY <3>2 DEF Holds, observation
    <3>4. feed.publicStart \in Nat /\ now \in Nat
      BY <1>1, FeedType DEF TypeOK, Snapshot, Time
    <3>5. QED
      BY <3>3, <3>4 DEF Known, NoTime
  <2>8. "presale_open" \in report' => Begun(feed.presale, now)
    <3>1. HAVE "presale_open" \in report'
    <3>2. Holds("presale_open", observation, prior)
      BY <1>1, <3>1, ReportedHolds, SaleKindHolds
    <3>3. QED
      BY <3>2 DEF Holds, observation
  <2>9. QED
    BY <1>1, <2>4, <2>5, <2>6, <2>7, <2>8, FeedIsGiven DEF Begun
<1>2. TypeOK /\ [Next]_vars => [event' # event \/ report' # {} => Dates]_vars
  BY <1>1
<1>3. QED
  BY <1>2, TypeCorrect, PTL DEF Spec, DatesAreAnnounced
=============================================================================
