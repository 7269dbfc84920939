SPECIFICATION FairSpec
CONSTANTS
  Requests = {r1, r2}
  MaxGen = 3
  LibPaths = 2
INVARIANTS NoWorkerLeftOver NoUseAfterDrop SingleFlight JailFirst NoNeedlessStart
PROPERTIES LiveNeverReplaced Recovers
CHECK_DEADLOCK FALSE
