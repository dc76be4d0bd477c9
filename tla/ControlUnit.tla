---------------------------- MODULE ControlUnit ----------------------------
(***************************************************************************)
(* The combinational part of the cycle model: the control unit, which      *)
(* turns an instruction into control signals, and the functional units it  *)
(* steers (immediate extension block, ALU, comparator, data memory unit).  *)
(***************************************************************************)
EXTENDS RV32I

GetInstructionType(opcode) ==
  CASE opcode = "OP"                                  -> "RType"
    [] opcode = "STORE"                               -> "SType"
    [] opcode = "BRANCH"                              -> "BType"
    [] opcode \in {"LOAD", "OP_IMM", "SYSTEM", "JALR"} -> "IType"
    [] opcode \in {"LUI", "AUIPC"}                    -> "UType"
    [] opcode = "JAL"                                 -> "JType"
    [] OTHER                                          -> "UNKNOWN"

hasRs1(type) == type \notin {"UType", "JType"}
hasRs2(type) == type \in {"RType", "IType", "SType", "BType"}

ImmediateExtensionBlock(i) ==
  LET type == GetInstructionType(i.opcode)
  IN  CASE type = "IType" -> ImmI(i)
        [] type = "SType" -> ImmS(i)
        [] type = "BType" -> ImmB(i)
        [] type = "JType" -> ImmJ(i)
        [] type = "UType" -> ImmU(i)
        [] OTHER          -> 0

-----------------------------------------------------------------------------
(* ControlUnit::Tick: what it throws, and the signals it computes. *)

\* SLL, SRL and SRA of an immediate need a known funct7; ADD, SUB, SRL and SRA
\* of two registers too.  The other operations ignore it.
ValidAlu(i) ==
  \/ i.opcode = "OP_IMM" /\ i.funct3 = 1 /\ i.funct7 = 0
  \/ i.opcode = "OP_IMM" /\ i.funct3 = 5 /\ i.funct7 \in {0, 32}
  \/ i.opcode = "OP_IMM" /\ i.funct3 \notin {1, 5}
  \/ i.opcode = "OP" /\ i.funct3 \in {0, 5} /\ i.funct7 \in {0, 32}
  \/ i.opcode = "OP" /\ i.funct3 \notin {0, 5}

\* Mutant: the exceptions of ECALL and EBREAK are exchanged.
SystemOutcomeExchanged(i) ==
  CASE i.funct3 # 0 \/ i.funct7 # 0                -> "abort"
    [] i.funct3 = 0 /\ i.funct7 = 0 /\ i.rs2 = 0   -> "EBREAK"
    [] i.funct3 = 0 /\ i.funct7 = 0 /\ i.rs2 = 1   -> "ECALL"
    [] OTHER                                       -> "exception"

\* imm[11:0] tells ECALL from EBREAK.  A debug build, the default one, ends the
\* process by its ASSERT on the other fields.
SystemOutcome(i) ==
  CASE i.funct3 # 0 \/ i.funct7 # 0                -> "abort"
    [] i.funct3 = 0 /\ i.funct7 = 0 /\ i.rs2 = 0   -> "ECALL"
    [] i.funct3 = 0 /\ i.funct7 = 0 /\ i.rs2 = 1   -> "EBREAK"
    [] OTHER                                       -> "exception"

\* "ok", or how the decoding of the instruction ends.
DecodeOutcome(i) ==
  CASE i.opcode = "SYSTEM"                             -> SystemOutcome(i)
    [] i.opcode \in {"OP", "OP_IMM"} /\ ~ValidAlu(i)   -> "exception"
    [] i.opcode = "BRANCH" /\ i.funct3 \in {2, 3}      -> "exception"
    [] OTHER                                           -> "ok"

\* Mutant: funct7 is not looked at, SRA is executed as SRL.
ArithmeticOpNoSRA(i) ==
  IF i.funct3 = 0
    THEN IF i.opcode = "OP" /\ i.funct7 = 32 THEN "SUB" ELSE "ADD"
    ELSE <<"SLL", "SLT", "SLTU", "XOR", "SRL", "OR", "AND">>[i.funct3]

\* The operation of an OP or OP_IMM instruction.
ArithmeticOp(i) ==
  CASE i.funct3 = 0 -> IF i.opcode = "OP" /\ i.funct7 = 32 THEN "SUB" ELSE "ADD"
    [] i.funct3 = 1 -> "SLL"
    [] i.funct3 = 2 -> "SLT"
    [] i.funct3 = 3 -> "SLTU"
    [] i.funct3 = 4 -> "XOR"
    [] i.funct3 = 5 -> IF i.funct7 = 32 THEN "SRA" ELSE "SRL"
    [] i.funct3 = 6 -> "OR"
    [] i.funct3 = 7 -> "AND"

AluOp(i) ==
  CASE i.opcode \in {"OP", "OP_IMM"}                           -> ArithmeticOp(i)
    [] i.opcode \in {"LUI", "AUIPC", "JALR", "LOAD", "STORE"}  -> "ADD"
    [] OTHER                                                   -> "NOP"

CmpControl(i) ==
  IF i.opcode # "BRANCH" THEN "NOP"
  ELSE CASE i.funct3 = 0 -> "EQ"
         [] i.funct3 = 1 -> "NE"
         [] i.funct3 = 4 -> "LT"
         [] i.funct3 = 5 -> "GE"
         [] i.funct3 = 6 -> "LTU"
         [] i.funct3 = 7 -> "GEU"

\* The fields of ExecuteState that come from the control unit.
LoadControlSignals(i) ==
  [alu_op      |-> AluOp(i),
   alu_src2    |-> GetInstructionType(i.opcode) \in {"IType", "SType", "UType"},
   is_jalr     |-> i.opcode = "JALR",
   wb_we       |-> i.opcode \notin {"STORE", "BRANCH"},
   mem_we      |-> i.opcode = "STORE",
   mem_to_reg  |-> i.opcode = "LOAD",
   brn_cond    |-> i.opcode = "BRANCH",
   jmp_cond    |-> i.opcode \in {"JAL", "JALR"},
   cmp_control |-> CmpControl(i),
   funct3      |-> i.funct3]

-----------------------------------------------------------------------------
(* Functional units *)

ALU(control, a, b) ==
  CASE control = "NOP"  -> 0
    [] control = "ADD"  -> Add(a, b)
    [] control = "SUB"  -> Sub(a, b)
    [] control = "AND"  -> BitAnd(a, b)
    [] control = "OR"   -> BitOr(a, b)
    [] control = "XOR"  -> BitXor(a, b)
    [] control = "SLL"  -> Sll(a, b)
    [] control = "SRL"  -> Srl(a, b)
    [] control = "SRA"  -> Sra(a, b)
    [] control = "SLT"  -> IF Signed(a) < Signed(b) THEN 1 ELSE 0
    [] control = "SLTU" -> IF a < b THEN 1 ELSE 0

Cmp(control, a, b) ==
  CASE control = "NOP" -> FALSE
    [] control = "EQ"  -> a = b
    [] control = "NE"  -> a # b
    [] control = "LT"  -> Signed(a) < Signed(b)
    [] control = "GE"  -> Signed(a) >= Signed(b)
    [] control = "LTU" -> a < b
    [] control = "GEU" -> a >= b

\* The data memory unit: modes it accepts, bytes it touches, value it loads.
LoadModes  == {0, 1, 2, 4, 5}
StoreModes == {0, 1, 2}
Width(mode) == 2 ^ (mode % 4)

GetData(M, a, mode) ==
  IF mode \in {0, 1} THEN signExtend(GetBytes(M, a, Width(mode)), Width(mode))
                     ELSE GetBytes(M, a, Width(mode))
=============================================================================
