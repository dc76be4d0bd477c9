SPECIFICATION TestSpec
CONSTANTS
  ByteBits = 7
  Programs <- TestPrograms
  DataMem <- MCDataMem
  Entry <- MCEntry
INVARIANTS
  InterpreterTypeOK
  InterpreterTracesReplay
  SameTracesSameMachine
  NoDifferenceSameMachine
  WellScheduledPasses
  WellScheduledAgree
CHECK_DEADLOCK FALSE
