SPECIFICATION Spec
CONSTANTS
  ScriptLen = 3
  PipeCap = 2
  MaxWrites = 4
  ExitCodes = {0, 1}
  Signals = {31}
INVARIANT CodesAsDocumented
CHECK_DEADLOCK FALSE
