SPECIFICATION FairSpec
CONSTANTS
  s1 = s1
  r1 = r1  r2 = r2  r3 = r3
  NoSlug = NoSlug  NoRow = NoRow
  Slugs <- OneSlug
  Requests <- Requests3
  Expiries <- NeverOrOne
  TicksPerSecond = 1
  MaxTime = 2
  Faults <- AllFaults
  MaxMishaps = 1
CHECK_DEADLOCK FALSE
INVARIANTS
  TypeOK
  PasteKept
  SpentInVainOnlyBy
  PasswordGuards
  RefusalsJustified
PROPERTIES
  NoEntryAfterDelete
  ExpiredReclaimed
  ImplementsShareLink
