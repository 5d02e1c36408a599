SPECIFICATION FairSpec
CONSTANTS
  w1 = w1
  w2 = w2
  r1 = r1
  u1 = u1
  u2 = u2
  p1 = p1
  p2 = p2
  Watches = {w1}
  Requests = {w1, r1}
  Users = {u1}
  Workers = {p1}
  Owner <- MCOwner
  Feeds <- FlipFeeds
  Consents <- Reachable
  Limit <- MCLimit
  QueueCap = 1
  MaxTime = 2
  Moves = 1
  Faults = 1
  UserOps = 1
  Disturbances = 1
INVARIANTS
  FlipsAccounted
  RepeatsAccounted
PROPERTIES
  EventuallyEvaluated
  OpenSaleEventuallyClaimed
CHECK_DEADLOCK FALSE
