SPECIFICATION Spec
CONSTANTS
  Answers <- MCAnswers
  Sentinel = 9
  MaxTime = 4
INVARIANT ClosesOnlyWhenOver
