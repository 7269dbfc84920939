SPECIFICATION FairSpec
CONSTANTS
  IdLimit = 2
  Fds = {1,2}
  Pids = {1}
  SendCap = 1
  MaxWrites = 1
  MaxKills = 1
  ForkFails = TRUE
  ReadErrors = {1, 2}
  MaxFrame = 1
  SockCap = 2
  PipeCap = 1
  SockOutCap = 1
  ExitCodes = {0}
PROPERTIES KeepsContract KillTakesEffect
CHECK_DEADLOCK FALSE
