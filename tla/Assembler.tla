----------------------------- MODULE Assembler -----------------------------
(***************************************************************************)
(* Instructions, images and data memory for the runs of both models.       *)
(***************************************************************************)
EXTENDS RV32I, SequencesExt

(* Immediates: 12 bits for I and S, 0 to 1023 and even for B and J. *)

R(f3, f7, d, a, b) ==
  [opcode |-> "OP", rd |-> d, funct3 |-> f3, rs1 |-> a, rs2 |-> b, funct7 |-> f7]
I(op, f3, d, a, imm) ==
  [opcode |-> op, rd |-> d, funct3 |-> f3, rs1 |-> a,
   rs2 |-> imm % 32, funct7 |-> imm \div 32]
S(f3, a, b, imm) ==
  [opcode |-> "STORE", rd |-> imm % 32, funct3 |-> f3, rs1 |-> a, rs2 |-> b,
   funct7 |-> imm \div 32]
B(f3, a, b, imm) ==
  [opcode |-> "BRANCH", rd |-> imm % 32, funct3 |-> f3, rs1 |-> a, rs2 |-> b,
   funct7 |-> imm \div 32]
U(op, d, imm20) ==
  [opcode |-> op, rd |-> d, funct3 |-> imm20 % 8, rs1 |-> (imm20 \div 8) % 32,
   rs2 |-> 0, funct7 |-> 0]
J(d, imm) ==
  [opcode |-> "JAL", rd |-> d, funct3 |-> 0, rs1 |-> 0,
   rs2 |-> imm % 32, funct7 |-> imm \div 32]

addi(d, a, imm) == I("OP_IMM", 0, d, a, imm)
add(d, a, b)    == R(0, 0, d, a, b)
lw(d, a, imm)   == I("LOAD", 2, d, a, imm)
lb(d, a, imm)   == I("LOAD", 0, d, a, imm)
sw(b, a, imm)   == S(2, a, b, imm)
beq(a, b, imm)  == B(0, a, b, imm)
bne(a, b, imm)  == B(1, a, b, imm)
jal(d, imm)     == J(d, imm)
jalr(d, a, imm) == I("JALR", 0, d, a, imm)
lui(d, imm)     == U("LUI", d, imm)
auipc(d, imm)   == U("AUIPC", d, imm)
fence           == I("MISC_MEM", 0, 0, 0, 0)
nop             == addi(0, 0, 0)
ecall           == I("SYSTEM", 0, 0, 0, 0)
ebreak          == I("SYSTEM", 0, 0, 0, 1)

-----------------------------------------------------------------------------
(* An image of nine words: the instructions of a sequence from Entry on, then *)
(* code that ends the program, then the zeros that fill the page.             *)

MCEntry == 4096
Image(code) ==
  LET full == code \o <<nop, ecall>>
  IN  [a \in {MCEntry + 4 * k : k \in 0 .. 8} |->
         LET n == (a - MCEntry) \div 4 + 1
         IN  IF n <= Len(full) THEN full[n] ELSE ZeroInstr]

ImagesOf(n, alphabet) == {Image(code) : code \in [1 .. n -> alphabet]}

(* The eight bytes of the stack around the initial stack pointer: the word   *)
(* at StackPointer + 1 is aligned; its low byte is negative as a byte.       *)
MCDataMem == [a \in StackPointer - 3 .. StackPointer + 4 |->
                IF a = StackPointer + 1 THEN ByteSize - 3 ELSE 0]

-----------------------------------------------------------------------------
(* Operand and control hazards between x1 and x3, over loads, a store, a      *)
(* branch, a jump, instructions without register operands and the end of the  *)
(* program.  addi adds -1.  The second store is to the initial stack pointer, *)
(* which is not aligned: its word overlaps the aligned one of the others.     *)
HazardCode ==
  {addi(1, 1, 4095), add(3, 1, 3), lw(1, 2, 1), lw(3, 2, 1), sw(1, 2, 1),
   sw(3, 2, 0), beq(1, 3, 8), jal(3, 8), lui(1, 1), ecall}

(* Instructions that end the run: accesses to address 0, which is not mapped, *)
(* modes the data memory unit does not know, jumps to a misaligned and to an  *)
(* unmapped address, and what one of the decoders rejects.                    *)
FaultCode ==
  {lw(1, 0, 0), sw(1, 0, 0), I("LOAD", 3, 1, 2, 1), S(3, 2, 1, 1),
   jalr(0, 0, 2), jalr(0, 0, 0), I("JALR", 1, 0, 0, 0), ebreak,
   I("SYSTEM", 0, 0, 0, 2), I("SYSTEM", 1, 0, 0, 0), R(0, 1, 1, 1, 1),
   B(2, 0, 0, 8), ZeroInstr}
=============================================================================
