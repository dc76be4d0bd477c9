----------------------------- MODULE TraceFiles -----------------------------
(***************************************************************************)
(* The trace files of the co-simulation: how TraceWriter encodes a record  *)
(* in the binary and in the readable format, and how CompareTwoFiles       *)
(* compares two files.                                                     *)
(*                                                                         *)
(* A file is a sequence of bytes.  In a readable file each literal of the  *)
(* format ("set ", a blank, the end of the line) counts as one byte; the   *)
(* digits of the numbers are bytes of their own.                           *)
(***************************************************************************)
EXTENDS RV32I, SequencesExt

Levels     == {"MMU", "REG_FILE", "DECODER"}
LevelOrder == <<"MMU", "REG_FILE", "DECODER">>

\* What the arguments of the functions of TraceWriter can be: code, address
\* and value; register and value; pc and instruction.
Records ==
  [l \in Levels |-> CASE l = "MMU"      -> (0 .. 2) \X Word \X Word
                      [] l = "REG_FILE" -> Regs \X Word
                      [] l = "DECODER"  -> Word \X Instr]

-----------------------------------------------------------------------------
(* The binary format *)

\* write(&value, sizeof(value)) of a uint32_t, least significant byte first.
WordBytes(v) == [k \in 1 .. 4 |-> (v \div ByteSize ^ (k - 1)) % ByteSize]

\* The low seven bits of an instruction.  Any other number stands for OTHER.
OpcodeBits ==
  [op \in Opcodes |->
     CASE op = "LUI" -> 55       [] op = "AUIPC" -> 23  [] op = "JAL" -> 111
       [] op = "JALR" -> 103     [] op = "BRANCH" -> 99 [] op = "LOAD" -> 3
       [] op = "STORE" -> 35     [] op = "OP_IMM" -> 19 [] op = "OP" -> 51
       [] op = "MISC_MEM" -> 15  [] op = "SYSTEM" -> 115
       [] op = "ZERO" -> 0       [] op = "OTHER" -> 127]

\* The four bytes of InstrLayout::raw; they have eight bits whatever ByteBits.
InstrBytes(i) == <<OpcodeBits[i.opcode] + (i.rd % 2) * 128,
                   i.rd \div 2 + i.funct3 * 16 + (i.rs1 % 2) * 128,
                   i.rs1 \div 2 + (i.rs2 % 16) * 16,
                   i.rs2 \div 16 + i.funct7 * 2>>

BinaryRecord(level, rec) ==
  CASE level = "MMU"      -> <<rec[1]>> \o WordBytes(rec[2]) \o WordBytes(rec[3])
    [] level = "REG_FILE" -> <<1>> \o WordBytes(rec[1]) \o WordBytes(rec[2])
    [] level = "DECODER"  -> InstrBytes(rec[2]) \o WordBytes(rec[1])

-----------------------------------------------------------------------------
(* The readable format *)

\* os << std::hex << v, given the eight hexadecimal digits of v: leading zeros
\* are dropped, and the bytes of the digits follow 0.
Hex(digits) ==
  LET first == Min({k \in 1 .. 8 : digits[k] # 0} \cup {8})
  IN  [k \in 1 .. 9 - first |-> digits[first + k - 1] + 1]
\* The powers of 16, for the digits of a word.
DigitValue  == <<268435456, 16777216, 1048576, 65536, 4096, 256, 16, 1>>
HexWord(v)  == Hex([k \in 1 .. 8 |-> (v \div DigitValue[k]) % 16])
HexInstr(i) == LET b == InstrBytes(i)
               IN  Hex([k \in 1 .. 8 |-> LET byte == b[4 - (k - 1) \div 2]
                                         IN  IF k % 2 = 1 THEN byte \div 16
                                                          ELSE byte % 16])

\* The literals, as bytes that are neither 0 nor digits.
Blank       == <<17>>
EndOfLine   == <<18>>
SetReg      == <<19>>
Instruction == <<20>>
AtPC        == <<21>>
ClosePC     == <<22>>
SetMem(code) == <<23 + code>>     \* "setb ", "seth ", "setw "

ReadableRecord(level, rec) ==
  CASE level = "MMU" ->
         SetMem(rec[1]) \o HexWord(rec[2]) \o Blank \o HexWord(rec[3]) \o EndOfLine
    [] level = "REG_FILE" ->
         SetReg \o HexWord(rec[1]) \o Blank \o HexWord(rec[2]) \o EndOfLine
    [] level = "DECODER" ->
         Instruction \o HexInstr(rec[2]) \o AtPC \o HexWord(rec[1]) \o ClosePC

\* What the writer appends to the file of a level for a sequence of records.
Encoded(readable, level, records) ==
  FlattenSeq([k \in 1 .. Len(records) |->
                IF readable THEN ReadableRecord(level, records[k])
                            ELSE BinaryRecord(level, records[k])])

-----------------------------------------------------------------------------
(* CompareTwoFiles *)

\* What strcmp sees of a buffer that ends with a zero byte.
CString(bytes) ==
  LET zero == SelectInSeq(bytes, LAMBDA b : b = 0)
  IN  IF zero = 0 THEN bytes ELSE SubSeq(bytes, 1, zero - 1)

\* Mutant: the text is not compared.
FilesDifferInSize(a, b) == Len(a) # Len(b)

\* Mutant: the sizes are not compared.
FilesDifferInText(a, b) == CString(a) # CString(b)

\* CompareTwoFiles(a, b) != 0
CompareTwoFiles(a, b) == Len(a) # Len(b) \/ CString(a) # CString(b)
=============================================================================
