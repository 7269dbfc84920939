SPECIFICATION Spec
CONSTANTS
  IdLimit = 2
  Fds = {1,2,3,4}
  Pids = {p1,p2}
  SendCap = 1
  MaxWrites = 1
  MaxKills = 1
  ForkFails = TRUE
  ReadErrors = {2}
  MaxFrame = 1
  SockCap = 1
  PipeCap = 1
  SockOutCap = 1
  ExitCodes = {0}
SYMMETRY PidSymmetry
INVARIANTS PidsAreOwn FdsAreOwn ReadNeverBlocks OutputComplete SendBufferBounded NoForgottenChild
CHECK_DEADLOCK FALSE
