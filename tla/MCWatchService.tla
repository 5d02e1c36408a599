--------------------------- MODULE MCWatchService ---------------------------
EXTENDS WatchService

CONSTANTS q1, q2, q3, u1, u2, e1, e2, p1, p2

MCBy  == [q \in Requests |-> IF q = q3 THEN u2 ELSE u1]
MCFor == [q \in Requests |-> e1]
=============================================================================
