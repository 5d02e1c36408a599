SPECIFICATION FairSpec
CONSTANTS
  e1 = e1
  e2 = e2
  e3 = e3
  p1 = p1
  p2 = p2
  Events = {e1, e2}
  Failing = {}
  Workers = {p1, p2}
  QueueCap = 1
  MaxTick = 2
  Budget = 2
  MaxFaults = 1
  MaxRequests = 2
INVARIANTS
  TypeOK
  NoSendAfterClose
  DrainedWhenDone
PROPERTIES
  ShutdownCompletes
  DueIsPolled
CHECK_DEADLOCK FALSE
