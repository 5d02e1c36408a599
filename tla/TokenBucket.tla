---------------------------- MODULE TokenBucket ----------------------------
(***************************************************************************)
(* What the inbound limit promises a client: a bucket of its own that is   *)
(* never thrown away, holds Burst tokens and gains one every Period units  *)
(* of time.  A request takes a token or, when there is none, is refused    *)
(* and costs nothing.  Levels are counted in units of time, a token being  *)
(* Period of them.                                                         *)
(***************************************************************************)
EXTENDS Naturals

CONSTANTS
  Keys,    \* clients
  Burst,   \* tokens a bucket holds
  Period   \* time in which one token comes back

VARIABLES
  level,   \* what each client's bucket holds
  answer   \* the last answer: whom it went to and whether it let the client pass

Full == Burst * Period
Answers == [key: Keys, ok: BOOLEAN]

Init ==
  /\ level = [k \in Keys |-> Full]
  /\ answer \in Answers

Refill ==
  /\ level' = [k \in Keys |-> IF level[k] < Full THEN level[k] + 1 ELSE Full]
  /\ UNCHANGED answer

Take(k) ==
  /\ level[k] >= Period
  /\ level' = [level EXCEPT ![k] = @ - Period]
  /\ answer' = [key |-> k, ok |-> TRUE]

Refuse(k) ==
  /\ level[k] < Period
  /\ answer' = [key |-> k, ok |-> FALSE]
  /\ UNCHANGED level

Next == Refill \/ \E k \in Keys : Take(k) \/ Refuse(k)

Spec == Init /\ [][Next]_<<level, answer>>
=============================================================================
