SPECIFICATION TestSpec
CONSTANTS
  ByteBits = 7
  Programs <- DifferentProgram
  DataMem <- MCDataMem
  Entry <- MCEntry
INVARIANT ReadablePasses
CHECK_DEADLOCK FALSE
