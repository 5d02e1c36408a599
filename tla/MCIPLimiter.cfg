SPECIFICATION Spec
CONSTANTS
  k1 = k1
  k2 = k2
  Keys = {k1, k2}
  Burst = 2
  Period = 3
  Second = 2
  Ttl = 6
  MaxTime = 18
INVARIANTS
  TypeOK
  WindowBound
  RetryAfterIsEnough
  MapBounded
PROPERTY ImplementsBuckets
SYMMETRY KeySymmetry
