---------------------------- MODULE Ticketmaster ----------------------------
(***************************************************************************)
(* What the client makes of an event as the Discovery API describes it.    *)
(* A timestamp that is absent or does not parse is NoTime; times from      *)
(* Sentinel on lie in the year 9999, which stands for "not announced".     *)
(* Names, addresses and the number of presales are left out.               *)
(***************************************************************************)
EXTENDS Evaluator

CONSTANT Sentinel   \* the beginning of the year 9999

ASSUME SentinelAssumption == Sentinel \in Nat \ {NoTime}

NoCode == ""

\* flagged: startTBD or startTBA.
Answer == [code: Availability \cup {NoCode}, dateTime: Time, start: Time, end: Time,
           flagged: BOOLEAN, presales: SUBSET Time]

Snapshot == [avail: Availability, publicStart: Time, publicEnd: Time,
             presale: Time, eventDate: Time, tbd: BOOLEAN]

\* Mutant: the year is not looked at.
MutParseSaleTime(v) == [t |-> v, tbd |-> FALSE]
parseSaleTime(v) == [t |-> IF v < Sentinel THEN v ELSE NoTime, tbd |-> v >= Sentinel]

normalizeStatus(code) == IF code = NoCode THEN "unknown" ELSE code

\* The earliest of the presales that have a date.
EarliestPresale(presales) ==
  LET dated == {t \in {parseSaleTime(v).t : v \in presales} : Known(t)} IN
  IF dated = {} THEN NoTime ELSE CHOOSE t \in dated : \A u \in dated : t <= u

toSnapshot(a) ==
  LET start == parseSaleTime(a.start) IN
  [avail       |-> normalizeStatus(a.code),
   publicStart |-> IF a.flagged THEN NoTime ELSE start.t,
   publicEnd   |-> parseSaleTime(a.end).t,
   presale     |-> EarliestPresale(a.presales),
   eventDate   |-> a.dateTime,
   tbd         |-> start.tbd \/ a.flagged]
=============================================================================
