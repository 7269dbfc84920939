SPECIFICATION Spec
CONSTANTS
  IdLimit = 2
  Fds = {1,2,3,4}
  Pids = {1,2}
  SendCap = 1
  MaxWrites = 0
  MaxKills = 0
  ForkFails = TRUE
  ReadErrors = {}
  MaxFrame = 1
  SockCap = 2
  PipeCap = 1
  SockOutCap = 1
  ExitCodes = {0}
INVARIANTS NoFrameLeftBehind
CHECK_DEADLOCK FALSE
