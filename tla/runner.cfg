SPECIFICATION FairSpec
CONSTANTS
  ScriptLen = 3
  PipeCap = 2
  MaxWrites = 4
  ExitCodes = {0, 1, 159}
  Signals = {31}
INVARIANTS NoneLeftRunning OutputWhole SeccompReported
PROPERTIES EveryRunReturns
CHECK_DEADLOCK FALSE
