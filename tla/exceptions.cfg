SPECIFICATION FairSpec
CONSTANTS
  ByteBits = 7
  Programs <- ExceptionPrograms
  DataMem <- MCDataMem
  Entry <- MCEntry
PROPERTY ExceptionsInOrder
CHECK_DEADLOCK FALSE
