SPECIFICATION Spec
CONSTANTS
  l1 = l1  l2 = l2
  v1 = v1  v2 = v2  v3 = v3
  NoLink = NoLink
  Links <- TwoLinks
  Visits <- ThreeVisits
SYMMETRY Symmetry
INVARIANTS
  AtMostOnce
