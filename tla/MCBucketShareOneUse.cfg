SPECIFICATION Spec
CONSTANTS
  s1 = s1  k1 = k1  k2 = k2
  r1 = r1  r2 = r2  r3 = r3
  NoSlug = NoSlug  NoRow = NoRow
  Slugs <- OneSlug
  Keys <- TwoKeys
  Requests <- Requests3
  Expiries <- NeverOrOne
  TicksPerSecond = 2
  MaxTime = 4
  Faults <- NoFaults
  MaxMishaps = 0
CHECK_DEADLOCK FALSE
INVARIANTS
  OneUseBucketOnce
