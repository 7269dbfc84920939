SPECIFICATION Spec
CONSTANTS
  Callers = {c1, c2}
  Reader = Reader
  Nobody = Nobody
  IdLimit = 2
  MaxFrame = 2
  MaxOutput = 1
  DoneLen = 1
  MaxWrites = 2
  OutCap = 1
  Crashes = FALSE
  MaxWorkers = 2
  SockCap = 1
  ExitCodes = {0}
SYMMETRY CallSymmetry
INVARIANTS TypeOK OutputFaithful OutputBounded OneWriter NoStraySandbox
CHECK_DEADLOCK FALSE
