----------------------------- MODULE AlertOnce -----------------------------
(***************************************************************************)
(* What the engine promises about milestone alerts, without watches, rows  *)
(* or workers.  Each alert (one watch, one claimed kind) carries the right *)
(* to be mailed.  The right is free, then held by whoever won it, then     *)
(* spent, by a mail or by nothing: a held right may be lost, never         *)
(* returned, so an alert is mailed at most once and may never be.          *)
(***************************************************************************)
EXTENDS Naturals

CONSTANT Alerts

VARIABLES right, mails

vars == <<right, mails>>

Right == {"free", "held", "spent"}

Init ==
  /\ right = [a \in Alerts |-> "free"]
  /\ mails = [a \in Alerts |-> 0]

Win(a) ==
  /\ right[a] = "free"
  /\ right' = [right EXCEPT ![a] = "held"]
  /\ UNCHANGED mails

Mail(a) ==
  /\ right[a] = "held"
  /\ right' = [right EXCEPT ![a] = "spent"]
  /\ mails' = [mails EXCEPT ![a] = @ + 1]

\* A consent gate, a refused message, an error, a crash, or the watch deleted.
Lose ==
  /\ right' \in [Alerts -> Right]
  /\ \A a \in Alerts : right'[a] \in {right[a], "spent"}
  /\ UNCHANGED mails

Next ==
  \/ Lose
  \/ \E a \in Alerts : Win(a) \/ Mail(a)

Spec == Init /\ [][Next]_vars

TypeOK ==
  /\ right \in [Alerts -> Right]
  /\ mails \in [Alerts -> Nat]

(* No alert is mailed twice: the comment on Store.ClaimWatchAlert.         *)
AtMostOnce == \A a \in Alerts : mails[a] <= 1
=============================================================================
