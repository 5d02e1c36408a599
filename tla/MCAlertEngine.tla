--------------------------- MODULE MCAlertEngine ---------------------------
EXTENDS AlertEngine, TLC

CONSTANTS w1, w2, r1, u1, u2, p1, p2, Moves, Faults, UserOps

WorkerSymmetry == Permutations(Workers)

MCOwner == [w \in Watches |-> IF w = w1 THEN u1 ELSE u2]
MCLimit == [b \in Bound |-> CASE b = "moves" -> Moves
                              [] b = "faults" -> Faults
                              [] b = "userOps" -> UserOps]

\* Accounts, confirmed or not; one has to be confirmed before it is sent the
\* mail whose link unsubscribes it.  Reachable ones are sent alerts.
Reachable == [verified: {TRUE}, unsub: {FALSE}]
Accounts  == Reachable \cup [verified: {FALSE}, unsub: {FALSE}]
                       \cup [verified: {TRUE}, unsub: {TRUE}]

Answer(avail, start) ==
  [avail |-> avail, publicStart |-> start, publicEnd |-> NoTime,
   presale |-> NoTime, eventDate |-> 9]

\* A sale announced for instant 2 and an event called off.
SaleFeeds == {Answer("onsale", 2), Answer("cancelled", NoTime)}

\* A date that is announced.
AnnounceFeeds == {Answer("offsale", NoTime), Answer("offsale", 2)}

\* A sale that shows in the status only, before and after its date is known.
FlipFeeds == {Answer("offsale", NoTime), Answer("onsale", NoTime), Answer("onsale", 2)}
=============================================================================
