SPECIFICATION Spec
CONSTANTS
  ByteBits = 7
  Programs <- SharedPrograms
  DataMem <- MCDataMem
  Entry <- MCEntry
INVARIANTS OperandsCurrent Faultless
PROPERTIES ImplementsFunctional ExceptionsInOrder
CHECK_DEADLOCK FALSE
