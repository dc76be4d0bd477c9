SPECIFICATION ReuseSpec
CONSTANTS
  ByteBits = 7
  Programs <- ReusePrograms
  DataMem <- MCDataMem
  Entry <- MCEntry
  Memories <- ReuseMemories
PROPERTY EveryRunEnds
CHECK_DEADLOCK FALSE
