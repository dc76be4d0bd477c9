--------------------------- MODULE MCCoSimulation ---------------------------
(* Programs for the co-simulation from end to end: the alphabet of the       *)
(* hazards and the instructions on which the models differ.                  *)
EXTENDS CoSimulation, Assembler

DifferCode == {lb(1, 2, 1), S(1, 2, 1, 1), jalr(3, 3, 8)}
ShortPrograms ==
  ImagesOf(3, HazardCode \cup DifferCode \cup {auipc(3, 0)})
    \cup ImagesOf(2, HazardCode \cup DifferCode \cup FaultCode
                       \cup {S(0, 2, 3, 3), R(5, 32, 1, 1, 3), fence})

(* Every opcode with every funct3 and with values of funct7 that the base    *)
(* set uses, reserves, or reads as the sign of an immediate; a branch goes   *)
(* two words ahead.                                                          *)
AnyInstr ==
  {[opcode |-> op, rd |-> 8, funct3 |-> f3, rs1 |-> a, rs2 |-> 3, funct7 |-> f7] :
     op \in Opcodes \ {"ZERO", "OTHER"}, f3 \in 0 .. 7, a \in {1, 2},
     f7 \in {0, 1, 32, 33, 64}}
Encodings ==
  {Image(<<addi(1, 0, 4095), addi(3, 0, 9), i, nop>>) : i \in AnyInstr}
    \cup {Image(<<i, nop>>) : i \in [opcode : {"MISC_MEM", "SYSTEM"}, rd : {0, 4},
                                     funct3 : 0 .. 7, rs1 : {0, 1}, rs2 : 0 .. 2,
                                     funct7 : {0, 8}]}

TestPrograms == ShortPrograms \cup Encodings

(* A store of a half word, a load of the negative byte it wrote, and a jump  *)
(* through the register that it links.                                       *)
DifferentProgram ==
  {Image(<<addi(1, 0, 2047), S(1, 2, 1, 1), lb(3, 2, 1), auipc(5, 0), jalr(5, 5, 8), nop>>)}
=============================================================================
