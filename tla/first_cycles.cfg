SPECIFICATION ReuseSpec
CONSTANTS
  ByteBits = 7
  Programs <- ReadsData
  DataMem <- FirstData
  Entry <- MCEntry
  Memories <- ReuseMemories
INVARIANT FirstCyclesSafe
CHECK_DEADLOCK FALSE
