SPECIFICATION Spec
CONSTANTS
  w1 = w1
  w2 = w2
  r1 = r1
  u1 = u1
  u2 = u2
  p1 = p1
  p2 = p2
  Watches = {w1, w2}
  Requests = {w1, w2}
  Users = {u1, u2}
  Workers = {p1}
  Owner <- MCOwner
  Feeds <- AnnounceFeeds
  Consents <- Reachable
  Limit <- MCLimit
  QueueCap = 1
  MaxTime = 2
  Moves = 1
  Faults = 0
  UserOps = 1
  Disturbances = 1
INVARIANT AnnouncementIsClaimed
CHECK_DEADLOCK FALSE
