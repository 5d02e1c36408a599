SPECIFICATION Spec
CONSTANTS
  Answers <- MCAnswers
  Sentinel = 9
  MaxTime = 4
INVARIANTS
  TypeOK
  LabelAgreesWithAlerts
PROPERTIES
  StatusFlipIsNews
  OpenSaleIsClaimed
  DatesAreAnnounced
