---------------------------- MODULE MCDailyQuota ----------------------------
(* Two pollers and one search; a budget of two polls and one search a day. *)
EXTENDS DailyQuota

CONSTANTS r1, r2, r3

MCClassOf == [r \in Requests |-> IF r = r3 THEN "search" ELSE "poll"]
MCBudget  == [c \in Class |-> IF c = "poll" THEN 2 ELSE 1]
=============================================================================
