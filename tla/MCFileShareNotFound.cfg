SPECIFICATION Spec
CONSTANTS
  s1 = s1
  r1 = r1  r2 = r2  r3 = r3  r4 = r4
  NoSlug = NoSlug  NoRow = NoRow
  Slugs <- OneSlug
  Requests <- Requests3
  Expiries <- NeverOrOne
  TicksPerSecond = 2
  MaxTime = 4
  Faults <- ReadFaults
  MaxMishaps = 1
CHECK_DEADLOCK FALSE
INVARIANTS
  NotFoundMeansWithdrawn
