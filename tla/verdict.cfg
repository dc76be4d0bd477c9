SPECIFICATION Spec
CONSTANTS
  ByteBits = 7
  Traces <- MCTraces
  MaxFds = 6
INVARIANTS
  TracesComplete
  VerdictSound
  ReadableVerdictExact
  BinaryCountsReported
