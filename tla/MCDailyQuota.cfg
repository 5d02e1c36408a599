SPECIFICATION FairSpec
CONSTANTS
  r1 = r1
  r2 = r2
  r3 = r3
  Requests = {r1, r2, r3}
  ClassOf <- MCClassOf
  Budget <- MCBudget
  MaxRetries = 1
  MaxDay = 1
  MaxRestarts = 1
INVARIANTS
  TypeOK
  DayOverrun
  ChargeInv
PROPERTIES
  RefusedOnlyWhenSpent
  EveryRequestEnds
