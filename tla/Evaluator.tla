----------------------------- MODULE Evaluator -----------------------------
(***************************************************************************)
(* The pure decision function of internal/evaluator: from one observation  *)
(* of an event and the state earlier polls left behind, which milestones   *)
(* hold and whether the event's watches should be closed.                  *)
(*                                                                         *)
(* A *time.Time is a natural number, nil is NoTime.  The order in which    *)
(* the code appends kinds is the order of Rank, so a result carries the    *)
(* set of its kinds and FirstKinds picks the one reported next.            *)
(***************************************************************************)
EXTENDS Naturals

NoTime == 0
Time   == Nat

Availability == {"onsale", "offsale", "cancelled", "postponed", "rescheduled", "unknown"}

Kind == {"cancelled", "rescheduled", "onsale_announced", "sale_closed",
         "presale_open", "public_open", "status_onsale"}

\* Kinds that tell the reader a sale can be used right now.
OpenKinds == {"presale_open", "public_open", "status_onsale"}

\* Position of a kind in the list Evaluate builds.
Rank == [k \in Kind |->
           CASE k \in {"cancelled", "rescheduled"} -> 1
             [] k = "onsale_announced" -> 2
             [] k = "sale_closed"      -> 3
             [] k = "presale_open"     -> 4
             [] k = "public_open"      -> 5
             [] k = "status_onsale"    -> 6]

FirstKinds(S) == {k \in S : \A j \in S : Rank[k] <= Rank[j]}

Observation == [now: Time, avail: Availability, publicStart: Time, publicEnd: Time,
                presale: Time, eventDate: Time]
Prior  == [knew: BOOLEAN, lastEvaluation: BOOLEAN, createdAt: Time]
Result == [kinds: SUBSET Kind, statusOnsale: BOOLEAN, closeWatch: BOOLEAN]

Known(t)       == t # NoTime
Passed(t, now) == Known(t) /\ t < now          \* t.Before(now)
\* Mutant: a date reached this very instant does not count.
MutBegun(t, now) == Known(t) /\ t < now
Begun(t, now)  == Known(t) /\ t <= now         \* !t.After(now)

AlreadyHappenedBeforeWatch(p, t) == Known(p.createdAt) /\ Begun(t, p.createdAt)

Over(o)      == Passed(o.eventDate, o.now)
Cancelled(o) == o.avail = "cancelled"
Moved(o)     == o.avail \in {"postponed", "rescheduled"}
Vetoed(o)    == Over(o) \/ Cancelled(o) \/ Moved(o)
\* Mutants: the sale counts as ended at its last instant; an unknown end is a
\* past one.
MutNilEnd(o) == o.publicEnd < o.now
MutSaleEnded(o) == Begun(o.publicEnd, o.now)
SaleEnded(o) == Passed(o.publicEnd, o.now)

\* The trigger of each sale milestone, without the vetoes that come before it.
Holds(k, o, p) ==
  \/ /\ k = "onsale_announced"
     /\ ~p.knew /\ Known(o.publicStart) /\ o.now < o.publicStart
  \/ /\ k = "sale_closed"
     /\ SaleEnded(o)
  \/ /\ k = "presale_open"
     /\ Begun(o.presale, o.now) /\ ~AlreadyHappenedBeforeWatch(p, o.presale)
  \/ /\ k = "public_open"
     /\ Begun(o.publicStart, o.now)
     /\ o.avail = "onsale"
     /\ ~AlreadyHappenedBeforeWatch(p, o.publicStart)
  \/ /\ k = "status_onsale"
     /\ ~Known(o.publicStart) /\ o.avail = "onsale" /\ ~p.lastEvaluation

SaleKinds(o, p) ==
  {k \in Kind : Holds(k, o, p) /\ (SaleEnded(o) => k \notin OpenKinds)}

Evaluate(o, p) ==
  [kinds |-> IF Over(o) THEN {}
             ELSE IF Cancelled(o) THEN {"cancelled"}
             ELSE IF Moved(o) THEN {"rescheduled"}
             ELSE SaleKinds(o, p),
   statusOnsale |-> o.avail = "onsale",
   closeWatch   |-> Over(o) \/ Cancelled(o)]
=============================================================================
