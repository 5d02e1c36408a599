--------------------------- MODULE MCSaleTimeline ---------------------------
(* One event over four instants.  The answers cover every availability but *)
(* "postponed", a sale date absent, not announced, flagged, reached during *)
(* the run or moved, one or two presales, a sale that ends and an event    *)
(* that takes place, or returns, within the run.                           *)
EXTENDS SaleTimeline

MCAnswer(code, start, end, date) ==
  [code |-> code, dateTime |-> date, start |-> start, end |-> end,
   flagged |-> FALSE, presales |-> {}]

MCAnswers ==
  {MCAnswer(code, start, 3, 5) : code \in {"onsale", "offsale"}, start \in {NoTime, 2}}
  \cup {MCAnswer(code, start, NoTime, 5) :
     code \in {"onsale", "offsale"}, start \in {NoTime, 2, 4}}
  \cup {MCAnswer(code, 2, NoTime, 2) : code \in {"onsale", "offsale"}}
  \cup {MCAnswer(code, 2, NoTime, 5) : code \in {"cancelled", "rescheduled"}}
  \cup {[MCAnswer("offsale", NoTime, NoTime, 5) EXCEPT !.presales = {NoTime, 2, 3, Sentinel}],
        [MCAnswer("onsale", 4, NoTime, 5) EXCEPT !.presales = {2, 3}]}
  \cup {MCAnswer("offsale", Sentinel, NoTime, 5),
        [MCAnswer("offsale", 4, NoTime, 5) EXCEPT !.flagged = TRUE],
        MCAnswer(NoCode, NoTime, Sentinel, NoTime)}
=============================================================================
