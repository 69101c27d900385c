SPECIFICATION FairSpec
CONSTANTS
  r1 = r1  r2 = r2
  Requests <- TwoRequests
  MaxPanics = 2
CHECK_DEADLOCK FALSE
INVARIANTS
  StopMeansStopped
  NoWorkOnClosedDB
PROPERTIES
  DrainOnlyShrinks
  ShutdownCompletes
  SweepsAgain
