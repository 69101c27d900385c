SPECIFICATION FairSpec
CONSTANTS
  s1 = s1
  r1 = r1  r2 = r2  r3 = r3  r4 = r4
  NoSlug = NoSlug  NoRow = NoRow
  Slugs <- OneSlug
  Requests <- Requests3
  Expiries <- NeverOrOne
  TicksPerSecond = 1
  MaxTime = 2
  Faults <- AllButDisk
  MaxMishaps = 2
CHECK_DEADLOCK FALSE
INVARIANTS
  NoBytesLeftBehind
PROPERTIES
  ExpiredReclaimed
  ImplementsShareLink
