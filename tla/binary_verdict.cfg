SPECIFICATION Spec
CONSTANTS
  ByteBits = 7
  Traces <- MCTraces
  MaxFds = 6
INVARIANT BinaryVerdictExact
