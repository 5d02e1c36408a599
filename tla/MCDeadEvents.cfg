SPECIFICATION FairSpec
CONSTANTS
  e1 = e1
  e2 = e2
  e3 = e3
  p1 = p1
  p2 = p2
  Events = {e1, e2, e3}
  Failing = {e1, e2}
  Workers = {p1}
  QueueCap = 1
  MaxTick = 3
  Budget = 3
  MaxFaults = 0
  MaxRequests = 0
PROPERTY HealthyIsPolled
CHECK_DEADLOCK FALSE
