SPECIFICATION Spec
CONSTANTS
  ByteBits = 7
  Programs <- HazardPrograms
  DataMem <- MCDataMem
  Entry <- MCEntry
INVARIANTS
  TypeOK
  InFlightInOrder
  SavedOperandCurrent
  HaltedByLoad
  TracesReplay
PROPERTY
  StallsOneTick
CHECK_DEADLOCK FALSE
