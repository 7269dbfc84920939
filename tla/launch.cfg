SPECIFICATION LaunchSpec
CONSTANTS
  Byte = {0, 1}
  Xor <- MCXor
  ChunkSize = 4
  Base = 3
  Inputs <- MCInputs
  UserCalls <- MCUserCalls
INVARIANTS CodeIntact OnlyConfinedCode InitInOrder GatesHold BootstrapSurvives StreamIntact
PROPERTIES LaunchEnds
CHECK_DEADLOCK FALSE
