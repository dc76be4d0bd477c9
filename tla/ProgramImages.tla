--------------------------- MODULE ProgramImages ---------------------------
(* What both models are given to run. *)
EXTENDS RV32I

CONSTANTS
  Programs,   \* program images: functions from code addresses to Instr
  DataMem,    \* data memory as the loader and AllocateStack leave it
  Entry       \* entry point of every image

ASSUME ProgramsAssumption ==
  \A p \in Programs : \A a \in DOMAIN p : a \in Nat /\ a % 4 = 0 /\ p[a] \in Instr

ASSUME EntryAssumption == Entry \in Word

ASSUME DataMemAssumption == DataMem \in [DOMAIN DataMem -> 0 .. ByteSize - 1]
=============================================================================
