SPECIFICATION FairSpec
CONSTANTS
  Callers = {c1, c2}
  Reader = Reader
  Nobody = Nobody
  IdLimit = 2
  MaxFrame = 1
  MaxOutput = 1
  DoneLen = 1
  MaxWrites = 0
  OutCap = 1
  Crashes = TRUE
  MaxWorkers = 2
  SockCap = 2
  ExitCodes = {0}
PROPERTIES EveryCallReturns
INVARIANTS PendingNoLeak LostMeansWorkerGone
CHECK_DEADLOCK FALSE
