SPECIFICATION FairSpec
CONSTANTS
  q1 = q1
  q2 = q2
  q3 = q3
  u1 = u1
  u2 = u2
  e1 = e1
  e2 = e2
  p1 = p1
  p2 = p2
  Requests = {q1, q2}
  Users = {u1}
  Events = {e1}
  By <- MCBy
  For <- MCFor
  MaxPerUser = 1
  Pollers = {p1, p2}
  Answers = {"offsale", "cancelled"}
  MaxPollFails = 1
INVARIANTS
  TypeOK
  CapUnlessMet
  ErasedLeavesNothing
  FetchersMet
  NewWatchIsCovered
PROPERTY RowsCatchUp
CHECK_DEADLOCK FALSE
