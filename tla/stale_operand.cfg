SPECIFICATION Spec
CONSTANTS
  ByteBits = 7
  Programs <- HazardPrograms
  DataMem <- MCDataMem
  Entry <- MCEntry
INVARIANT OperandsCurrent
CHECK_DEADLOCK FALSE
