------------------------------- MODULE RV32I -------------------------------
(***************************************************************************)
(* What the two processor models share: machine words, the fields of an    *)
(* RV32I instruction and its immediates, the byte-addressed memory of the  *)
(* MMU, and the register file.                                             *)
(*                                                                         *)
(* A byte has ByteBits bits, and halves and words have two and four bytes, *)
(* so ByteBits = 8 is the machine of the repository.  TLC's integers have  *)
(* 32 bits; the runs take ByteBits = 7, which keeps every carry, wrap and  *)
(* sign bit, one place lower in each byte.                                 *)
(*                                                                         *)
(* An instruction is the record of the six fields that r_type of           *)
(* InstrLayout splits the 32-bit word into; the other formats are read     *)
(* from the same fields.  Opcodes have names instead of bit patterns.      *)
(***************************************************************************)
EXTENDS Integers, Sequences, FiniteSetsExt

CONSTANT ByteBits   \* bits in a byte

ASSUME ByteBitsAssumption == ByteBits \in Nat /\ ByteBits >= 6

-----------------------------------------------------------------------------
(* Machine words *)

ByteSize == 2 ^ ByteBits
XLEN     == 4 * ByteBits
WordSize == 2 ^ XLEN
SignBit  == WordSize \div 2

Word     == 0 .. WordSize - 1

\* The laws of powers that the proofs use; a word is a uint32_t.
ASSUME PowersAssumption ==
  /\ 2 ^ 0 = 1 /\ \A n \in 0 .. XLEN - 1 : 2 ^ (n + 1) = 2 * 2 ^ n
  /\ ByteSize ^ 0 = 1 /\ \A n \in 0 .. 3 : ByteSize ^ (n + 1) = ByteSize * ByteSize ^ n
  /\ ByteSize ^ 4 = WordSize
ASSUME WordSizeAssumption ==
  WordSize \in Nat /\ WordSize >= 4096 /\ (WordSize - 1) \div 65536 <= 65535

\* Mutant: a carry out of the word is kept.
AddWithCarry(a, b) == a + b

Add(a, b) == (a + b) % WordSize
Sub(a, b) == (a - b) % WordSize

\* static_cast<int32_t>
Signed(a) == IF a >= SignBit THEN a - WordSize ELSE a

\* An n-byte value extended with its sign to a word.
signExtend(v, n) ==
  IF v >= ByteSize ^ n \div 2 THEN v + WordSize - ByteSize ^ n ELSE v

\* Bitwise operators work on the set of positions that hold a one.
Bits(a)     == {i \in 0 .. XLEN - 1 : (a \div 2 ^ i) % 2 = 1}
FromBits(S) == SumSet({2 ^ i : i \in S})
BitAnd(a, b) == FromBits(Bits(a) \cap Bits(b))
BitOr(a, b)  == FromBits(Bits(a) \cup Bits(b))
BitXor(a, b) == FromBits(SymDiff(Bits(a), Bits(b)))

\* Shifts use the five low bits of the amount.
Sll(a, b) == LET s == b % 32
             IN  IF s >= XLEN THEN 0 ELSE (a % 2 ^ (XLEN - s)) * 2 ^ s
Srl(a, b) == LET s == b % 32
             IN  IF s >= XLEN THEN 0 ELSE a \div 2 ^ s
Sra(a, b) == LET s == b % 32
             IN  IF s >= XLEN THEN IF a >= SignBit THEN WordSize - 1 ELSE 0
                              ELSE (Signed(a) \div 2 ^ s) % WordSize

-----------------------------------------------------------------------------
(* Instructions *)

Opcodes == {"LUI", "AUIPC", "JAL", "JALR", "BRANCH", "LOAD", "STORE",
            "OP_IMM", "OP", "MISC_MEM", "SYSTEM", "ZERO", "OTHER"}

Instr == [opcode : Opcodes, rd : 0 .. 31, funct3 : 0 .. 7,
          rs1 : 0 .. 31, rs2 : 0 .. 31, funct7 : 0 .. 127]

\* The word 0: a bubble in the pipeline, and the padding behind an image.
ZeroInstr == [opcode |-> "ZERO", rd |-> 0, funct3 |-> 0,
              rs1 |-> 0, rs2 |-> 0, funct7 |-> 0]

\* Immediates.  Bit 31 of the instruction is bit 6 of funct7; when it is set,
\* every bit of the immediate from "bits" up is one.
Extend(v, bits, i) == IF i.funct7 >= 64 THEN v + WordSize - 2 ^ bits ELSE v

ImmI(i) == Extend(i.funct7 * 32 + i.rs2, 12, i)
ImmS(i) == Extend(i.funct7 * 32 + i.rd, 12, i)
ImmB(i) == Extend((i.rd % 2) * 2048 + (i.funct7 % 64) * 32
                    + 2 * (i.rd \div 2), 12, i)
ImmU(i) == ((((i.funct7 * 32 + i.rs2) * 32 + i.rs1) * 8 + i.funct3)
               % (WordSize \div 4096)) * 4096
ImmJ(i) == Extend((i.rs1 * 8 + i.funct3) * 4096 + (i.rs2 % 2) * 2048
                    + 2 * ((i.funct7 % 64) * 16 + i.rs2 \div 2), 20, i)

-----------------------------------------------------------------------------
(* Memory: a function from the mapped byte addresses to bytes. *)

Mapped(M, a, n)   == a .. a + n - 1 \subseteq DOMAIN M
GetBytes(M, a, n) == LET byte(k) == M[a + k] * ByteSize ^ k
                     IN  MapThenSumSet(byte, 0 .. n - 1)
ByteAt(v, k)      == (v \div ByteSize ^ k) % ByteSize

\* Mutant: an access at the aligned address below the one asked for.
SetBytesAligned(M, a, n, v) ==
  [x \in DOMAIN M |->
     LET start == a - (a % n)
     IN  IF x \in start .. start + n - 1 THEN ByteAt(v, x - start) ELSE M[x]]

\* Any address will do: the initial stack pointer is not aligned.
SetBytes(M, a, n, v) ==
  [x \in DOMAIN M |-> IF x \in a .. a + n - 1 THEN ByteAt(v, x - a) ELSE M[x]]

\* SetWord, SetHalf and SetByte take a value of their width; the code of the
\* operation is log2 of it.
Narrow(code, v) == v % ByteSize ^ (2 ^ code)

\* The record that they hand to the trace writer.
StoreRecord(code, a, v) == <<code, a, Narrow(code, v)>>

-----------------------------------------------------------------------------
(* Registers *)

Regs  == 0 .. 31
SPReg == 2

PageSize == 4096
MMUSize  == WordSize - 1              \* Size == 0u - 1u
StackPointer == MMUSize - 2 * PageSize \* what AllocateStack returns

WriteReg(R, a, v) == [R EXCEPT ![a] = IF a = 0 THEN 0 ELSE v]
\* Mutant: the value in the record has the width of a byte.
RegRecordByte(a, v) == IF a = 0 THEN <<>> ELSE <<<<a, v % ByteSize>>>>

\* Writes to x0 leave no record.
RegRecord(a, v) == IF a = 0 THEN <<>> ELSE <<<<a, v>>>>
=============================================================================
