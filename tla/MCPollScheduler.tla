-------------------------- MODULE MCPollScheduler --------------------------
EXTENDS PollScheduler

CONSTANTS e1, e2, e3, p1, p2
=============================================================================
