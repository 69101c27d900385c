SPECIFICATION Spec
CONSTANTS
  k1 = k1  bad = bad
  c1 = c1  c2 = c2  c3 = c3
  Nothing = Nothing  Torn = Torn
  Keys <- OneKey
  BadKeys <- OneBadKey
  Calls <- Calls3
  Chunks = 2
  Faults <- AllFaults
  MaxMishaps = 2
CHECK_DEADLOCK FALSE
INVARIANTS
  WholeOrNothing
  NoTempsLeft
PROPERTIES
  ImplementsByteStore
