SPECIFICATION Spec
CONSTANTS
  s1 = s1
  r1 = r1  r2 = r2  r3 = r3  r4 = r4
  NoSlug = NoSlug  NoRow = NoRow
  Slugs <- OneSlug
  Requests <- Requests4
  Expiries <- NeverOrOne
  TicksPerSecond = 2
  MaxTime = 4
  Faults <- AllFaults
  MaxMishaps = 2
SYMMETRY Symmetry4
CHECK_DEADLOCK FALSE
INVARIANTS
  TypeOK
  KeptUntilWithdrawn
  OneUseServedOnce
  PasswordGuards
  DeletedIsGone
  RefusalsJustified
  SpentInVainOnlyBy
