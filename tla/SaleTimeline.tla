---------------------------- MODULE SaleTimeline ----------------------------
(***************************************************************************)
(* The life of one event as a user meets it: Ticketmaster's answer changes,*)
(* polls follow one after the other, one watch is created, paused, resumed *)
(* and closed, and the dashboard shows deriveSaleState's label.  Polls are *)
(* atomic here: what is checked is how the evaluator's verdicts, the state *)
(* a poll carries to the next one and the label fit together over time.    *)
(* AlertEngine takes the same poll apart into its statements.              *)
(***************************************************************************)
EXTENDS Ticketmaster

CONSTANTS
  Answers,    \* the answers Ticketmaster may give for this event
  MaxTime     \* bound on the clock

ASSUME AnswersAssumption == Answers \subseteq Answer
ASSUME MaxTimeAssumption == MaxTime \in Nat

VARIABLES
  now,      \* the clock
  upstream, \* what Ticketmaster answers now
  event,    \* the events row
  watch,    \* the watches row
  fired,    \* kinds claimed for the watch (watch_alerts)
  report    \* kinds alerted by the step just taken

vars == <<now, upstream, event, watch, fired, report>>

\* That answer as a poll gets it from the client.
feed == toSnapshot(upstream)

Label == {"cancelled", "rescheduled", "sale_closed", "on_sale", "presale_open",
          "onsale_scheduled", "onsale_tbd", "unknown"}

\* The label of a polled event.
deriveSaleState(e, t) ==
  IF e.avail = "cancelled" THEN "cancelled"
  ELSE IF e.avail \in {"postponed", "rescheduled"} THEN "rescheduled"
  ELSE IF Passed(e.publicEnd, t) THEN "sale_closed"
  ELSE IF e.avail = "onsale" THEN "on_sale"
  ELSE IF Begun(e.presale, t) THEN "presale_open"
  ELSE IF Known(e.publicStart) THEN "onsale_scheduled"
  ELSE IF e.tbd THEN "onsale_tbd"
  ELSE "unknown"

WatchStatus == {"none", "active", "paused"}
NoWatch == [status |-> "none", lastEvaluation |-> FALSE, createdAt |-> NoTime,
            missed |-> FALSE]

\* missed is a history bit: some poll passed the watch by while it was paused.
TypeOK ==
  /\ now \in Time
  /\ upstream \in Answers
  /\ event \in Snapshot
  /\ watch \in [status: WatchStatus, lastEvaluation: BOOLEAN, createdAt: Time,
                missed: BOOLEAN]
  /\ fired \subseteq Kind \ {"status_onsale"}
  /\ report \subseteq Kind

\* The row UpsertEventByTMID stored when the event was first watched by anyone.
Init ==
  /\ now = 1
  /\ upstream \in Answers
  /\ event = feed
  /\ watch = NoWatch
  /\ fired = {}
  /\ report = {}

-----------------------------------------------------------------------------
Tick ==
  /\ now < MaxTime
  /\ now' = now + 1
  /\ report' = {}
  /\ UNCHANGED <<upstream, event, watch, fired>>

Upstream ==
  /\ upstream' \in Answers \ {upstream}
  /\ report' = {}
  /\ UNCHANGED <<now, event, watch, fired>>

\* The edge state a new watch starts from.  Mutant: it is not seeded.
MutSeed(e) == e.avail \notin Availability
Seed(e) == e.avail = "onsale"

\* WatchService.Create on an event the table already holds.
Create ==
  /\ watch.status = "none"
  /\ watch' = [NoWatch EXCEPT !.status = "active", !.createdAt = now,
                              !.lastEvaluation = Seed(event)]
  /\ report' = {}
  /\ UNCHANGED <<now, upstream, event, fired>>

\* WatchService.Update: last_evaluation is kept.
SetStatus(from, to) ==
  /\ watch.status = from
  /\ watch' = [watch EXCEPT !.status = to]
  /\ report' = {}
  /\ UNCHANGED <<now, upstream, event, fired>>

Pause  == SetStatus("active", "paused")
Resume == SetStatus("paused", "active")

\* UpdateEventLatest: every column of the answer but the event's date.
Refreshed == [feed EXCEPT !.eventDate = event.eventDate]

observation ==
  [now |-> now, avail |-> feed.avail, publicStart |-> feed.publicStart,
   publicEnd |-> feed.publicEnd, presale |-> feed.presale,
   eventDate |-> event.eventDate]

prior == [knew |-> Known(event.publicStart), lastEvaluation |-> watch.lastEvaluation,
          createdAt |-> watch.createdAt]

\* Mutant: the status flip is claimed as well.
MutNeedsClaim(k) == k \in Kind
NeedsClaim(k) == k # "status_onsale"

\* One whole ProcessEvent with the watch active: claims, last_evaluation, closing.
PollActive ==
  LET res == Evaluate(observation, prior) IN
  /\ watch.status = "active"
  /\ report' = {k \in res.kinds : NeedsClaim(k) => k \notin fired}
  /\ fired'  = fired \cup {k \in res.kinds : NeedsClaim(k)}
  /\ watch'  = [watch EXCEPT !.lastEvaluation = res.statusOnsale, !.missed = FALSE,
                             !.status = IF res.closeWatch THEN "paused" ELSE @]
  /\ event'  = Refreshed
  /\ UNCHANGED <<now, upstream>>

\* The event polled on behalf of other watches while this one is paused or absent.
PollOthers ==
  /\ watch.status # "active"
  /\ event'  = Refreshed
  /\ watch'  = [watch EXCEPT !.missed = (watch.status = "paused")]
  /\ report' = {}
  /\ UNCHANGED <<now, upstream, fired>>

Next == Tick \/ Upstream \/ Create \/ Pause \/ Resume \/ PollActive \/ PollOthers

Spec == Init /\ [][Next]_vars

-----------------------------------------------------------------------------
label == deriveSaleState(event, now)

\* Ticketmaster says "onsale" of a public sale whose date is still ahead.
StatusOutrunsDate == event.avail = "onsale" /\ now < event.publicStart

(* An alert and the label computed from the row the same poll stored fit   *)
(* together (watch.go:98-100: deriveSaleState mirrors the evaluator's      *)
(* precedence).  A veto, the end of a sale and an open sale are shown as   *)
(* they were mailed.  An announcement (the sale opens in the future) goes  *)
(* with onsale_scheduled, with a presale that is open, or with the end of  *)
(* a sale that was mailed as well; the one case in which the two disagree  *)
(* is a status that says onsale before the date it comes with: then "opens *)
(* in the future" is mailed and on_sale is shown.                          *)
LabelAgreesWithAlerts ==
  /\ "cancelled" \in report   => label = "cancelled"
  /\ "rescheduled" \in report => label = "rescheduled"
  /\ "sale_closed" \in report => label = "sale_closed"
  /\ report \cap OpenKinds # {} => label \in {"on_sale", "presale_open"}
  /\ "onsale_announced" \in report =>
       \/ label \in {"onsale_scheduled", "presale_open"}
       \/ label = "sale_closed" /\ "sale_closed" \in fired
       \/ label = "on_sale" /\ StatusOutrunsDate

(* A status_onsale alert is always news: the row did not say onsale before *)
(* the poll, unless polls passed the watch by while it was paused.  This   *)
(* ties last_evaluation, which only this watch's polls maintain, to        *)
(* last_availability, which everybody's polls maintain.                    *)
StatusFlipIsNews ==
  [][ "status_onsale" \in report' => event.avail # "onsale" \/ watch.missed ]_vars

(* A user is never shown an event on public sale, at a date later than the *)
(* watch, without the alert for it having been claimed: every poll of an   *)
(* active watch that stores such a row also claims public_open.            *)
OpenSaleIsClaimed ==
  [][ /\ PollActive
      /\ watch'.status = "active"
      /\ label' = "on_sale"
      /\ watch.createdAt < event'.publicStart
      /\ event'.publicStart <= now
      => "public_open" \in fired' ]_vars

(* A date reaches a user, as an announcement or on the dashboard, only if  *)
(* Ticketmaster gave one: never the placeholder for a date that is not     *)
(* announced, never a date it flags as uncertain, however the answers      *)
(* change between polls; and a presale is open only if one has begun       *)
(* (client.go:178: "every comparison downstream would get wrong").         *)
Announced(a) == ~a.flagged /\ Known(a.start) /\ a.start < Sentinel

DatesAreAnnounced ==
  [][ event' # event \/ report' # {} =>
        /\ "onsale_announced" \in report' \/ label' = "onsale_scheduled" => Announced(upstream)
        /\ label' = "onsale_tbd" => ~Announced(upstream)
        /\ "presale_open" \in report' \/ label' = "presale_open" =>
             \E t \in upstream.presales : Begun(t, now) ]_vars

(* Documented (evaluator.go:98, 126): watches close once the event is in   *)
(* the past or cancelled; a moved event is not closed, it usually returns  *)
(* with a new date the user wants to hear about.  So a poll taken now does *)
(* not close a watch whose event, by the answer being polled, still lies   *)
(* ahead and is not cancelled.                                             *)
ClosesOnlyWhenOver ==
  watch.status = "active" /\ Evaluate(observation, prior).closeWatch
    => feed.avail = "cancelled" \/ Passed(feed.eventDate, now)
=============================================================================
