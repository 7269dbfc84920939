SPECIFICATION FairSpec
CONSTANTS
  Callers = {c1, c2}
  Reader = Reader
  Nobody = Nobody
  IdLimit = 2
  MaxFrame = 1
  MaxOutput = 1
  DoneLen = 1
  MaxWrites = 2
  OutCap = 1
  Crashes = FALSE
  MaxWorkers = 1
  SockCap = 3
  ExitCodes = {0}
INVARIANTS SandboxesWithinWorkers
PROPERTIES CutOffSandboxStops
CHECK_DEADLOCK FALSE
