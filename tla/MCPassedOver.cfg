SPECIFICATION Spec
CONSTANTS
  q1 = q1
  q2 = q2
  q3 = q3
  u1 = u1
  u2 = u2
  e1 = e1
  e2 = e2
  p1 = p1
  p2 = p2
  Requests = {q1, q3}
  Users = {u1, u2}
  Events = {e1}
  By <- MCBy
  For <- MCFor
  MaxPerUser = 1
  Pollers = {p1}
  Answers = {"offsale", "cancelled"}
  MaxPollFails = 0
INVARIANT NoneIsPassedOver
