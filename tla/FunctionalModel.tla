-------------------------- MODULE FunctionalModel --------------------------
(***************************************************************************)
(* The interpreter: one step fetches, traces, decodes and executes one     *)
(* instruction.  In the code a handler ends by fetching the instruction of *)
(* the next step; the fetch is at the start of the step here, which is the *)
(* same order.                                                             *)
(*                                                                         *)
(* It runs on its own memory and registers, writes the same three traces   *)
(* as the cycle model, and is the reference the co-simulation compares the *)
(* cycle model with.                                                       *)
(***************************************************************************)
EXTENDS ProgramImages

VARIABLES text, mem, regs, pc, exec_trace, reg_trace, mmu_trace, status

traces == <<exec_trace, reg_trace, mmu_trace>>
vars == <<text, mem, regs, pc, traces, status>>

Init ==
  /\ text = <<>> /\ mem = <<>> /\ regs = [r \in Regs |-> 0] /\ pc = 0
  /\ exec_trace = <<>> /\ reg_trace = <<>> /\ mmu_trace = <<>>
  /\ status = "idle"

RunProgram ==
  /\ status = "idle"
  /\ text' \in Programs
  /\ mem' = DataMem
  /\ pc' = Entry
  /\ regs' = WriteReg(regs, SPReg, StackPointer)
  /\ reg_trace' = reg_trace \o RegRecord(SPReg, StackPointer)
  /\ status' = "running"
  /\ UNCHANGED <<exec_trace, mmu_trace>>

-----------------------------------------------------------------------------
(* LoadFromPC, the trace of the instruction and SWITCH_DECODER. *)

instr == text[pc]

\* The ASSERT of a debug build, the default one, ends the process on a
\* misaligned pc, and an unmapped pc does.
LoadFromPCFault ==
  /\ status = "running"
  /\ pc % 4 # 0 \/ pc \notin DOMAIN text
  /\ status' = IF pc % 4 # 0 THEN "abort" ELSE "segv"
  /\ UNCHANGED <<text, mem, regs, pc, traces>>

Decode(opcodes) ==
  /\ status = "running"
  /\ pc % 4 = 0 /\ pc \in DOMAIN text
  /\ instr.opcode \in opcodes
  /\ exec_trace' = exec_trace \o <<<<pc, instr>>>>
  /\ UNCHANGED text

\* Bit 30 of the instruction tells SUB from ADD and SRA from SRL.
Alternate(i) == (i.funct7 \div 32) % 2 = 1

Rs1 == regs[instr.rs1]
Rs2 == regs[instr.rs2]

\* registers.WriteReg and its record.
Write(v) == /\ regs' = WriteReg(regs, instr.rd, v)
            /\ reg_trace' = reg_trace \o RegRecord(instr.rd, v)

Goto(target) == pc' = target % WordSize
Continues == UNCHANGED status

-----------------------------------------------------------------------------
(* Handlers *)

HandleLUI ==
  /\ Decode({"LUI"})
  /\ Write(ImmU(instr)) /\ Goto(pc + 4)
  /\ Continues /\ UNCHANGED <<mem, mmu_trace>>

HandleAUIPC ==
  /\ Decode({"AUIPC"})
  /\ Write(Add(pc, ImmU(instr))) /\ Goto(pc + 4)
  /\ Continues /\ UNCHANGED <<mem, mmu_trace>>

HandleJAL ==
  /\ Decode({"JAL"})
  /\ Write(Add(pc, 4)) /\ Goto(pc + ImmJ(instr))
  /\ Continues /\ UNCHANGED <<mem, mmu_trace>>

\* The link register is written before rs1 is read.
HandleJALR ==
  /\ Decode({"JALR"})
  /\ instr.funct3 = 0
  /\ Write(Add(pc, 4))
  /\ LET target == Add(regs'[instr.rs1], ImmI(instr))
     IN  Goto(target - (target % 2))
  /\ Continues /\ UNCHANGED <<mem, mmu_trace>>

Taken(f3, a, b) ==
  CASE f3 = 0 -> a = b
    [] f3 = 1 -> a # b
    [] f3 = 4 -> Signed(a) < Signed(b)
    [] f3 = 5 -> Signed(a) >= Signed(b)
    [] f3 = 6 -> a < b
    [] f3 = 7 -> a >= b

HandleBranch ==
  /\ Decode({"BRANCH"})
  /\ instr.funct3 \notin {2, 3}
  /\ Goto(pc + IF Taken(instr.funct3, Rs1, Rs2) THEN ImmB(instr) ELSE 4)
  /\ Continues /\ UNCHANGED <<mem, regs, reg_trace, mmu_trace>>

\* LB, LH, LW, LBU, LHU.  The casts of LB and LH do not extend the sign: the
\* byte and the half they convert are unsigned.
LoadWidth == 2 ^ (instr.funct3 % 4)

HandleLoad ==
  LET addr == Add(Rs1, ImmI(instr))
  IN  /\ Decode({"LOAD"})
      /\ instr.funct3 \in {0, 1, 2, 4, 5}
      /\ Mapped(mem, addr, LoadWidth)
      /\ Write(GetBytes(mem, addr, LoadWidth)) /\ Goto(pc + 4)
      /\ Continues /\ UNCHANGED <<mem, mmu_trace>>

\* SB, SH, SW.  SH stores with SetByte.
StoreCode == IF instr.funct3 = 2 THEN 2 ELSE 0

HandleStore ==
  LET addr == Add(Rs1, ImmS(instr))
  IN  /\ Decode({"STORE"})
      /\ instr.funct3 \in {0, 1, 2}
      /\ Mapped(mem, addr, 2 ^ StoreCode)
      /\ mem' = SetBytes(mem, addr, 2 ^ StoreCode, Narrow(StoreCode, Rs2))
      /\ mmu_trace' = mmu_trace \o <<StoreRecord(StoreCode, addr, Rs2)>>
      /\ Goto(pc + 4)
      /\ Continues /\ UNCHANGED <<regs, reg_trace>>

\* A load or store outside the mapped pages ends the process; the store has
\* been traced by then.
HandleSegFault ==
  LET store == instr.opcode = "STORE"
      addr == Add(Rs1, IF store THEN ImmS(instr) ELSE ImmI(instr))
      width == IF store THEN 2 ^ StoreCode ELSE LoadWidth
  IN  /\ Decode({"LOAD", "STORE"})
      /\ instr.funct3 \in IF store THEN {0, 1, 2} ELSE {0, 1, 2, 4, 5}
      /\ ~Mapped(mem, addr, width)
      /\ mmu_trace' = mmu_trace \o
           IF store THEN <<StoreRecord(StoreCode, addr, Rs2)>> ELSE <<>>
      /\ status' = "segv"
      /\ UNCHANGED <<mem, regs, reg_trace, pc>>

\* The operation of funct3 on a and b; alt chooses SUB and SRA.  The handlers
\* do not mask the amount of a shift, and C++ leaves amounts from 32 on
\* undefined; the shift instructions of the build take the five low bits.
Operation(f3, alt, a, b) ==
  CASE f3 = 0 -> IF alt THEN Sub(a, b) ELSE Add(a, b)
    [] f3 = 1 -> Sll(a, b)
    [] f3 = 2 -> IF Signed(a) < Signed(b) THEN 1 ELSE 0
    [] f3 = 3 -> IF a < b THEN 1 ELSE 0
    [] f3 = 4 -> BitXor(a, b)
    [] f3 = 5 -> IF alt THEN Sra(a, b) ELSE Srl(a, b)
    [] f3 = 6 -> BitOr(a, b)
    [] f3 = 7 -> BitAnd(a, b)

\* ADDI, SLTI, SLTIU, XORI, ORI, ANDI, SLLI, SRLI, SRAI.
HandleOpImm ==
  /\ Decode({"OP_IMM"})
  /\ Write(Operation(instr.funct3, instr.funct3 = 5 /\ Alternate(instr), Rs1, ImmI(instr)))
  /\ Goto(pc + 4)
  /\ Continues /\ UNCHANGED <<mem, mmu_trace>>

\* ADD, SUB, SLL, SLT, SLTU, XOR, SRL, SRA, OR, AND.
HandleOp ==
  /\ Decode({"OP"})
  /\ Write(Operation(instr.funct3, Alternate(instr), Rs1, Rs2))
  /\ Goto(pc + 4)
  /\ Continues /\ UNCHANGED <<mem, mmu_trace>>

HandleFENCE ==
  /\ Decode({"MISC_MEM"})
  /\ Goto(pc + 4)
  /\ Continues /\ UNCHANGED <<mem, regs, reg_trace, mmu_trace>>

\* Bit 20 of the instruction tells EBREAK from ECALL.
HandleSystem ==
  /\ Decode({"SYSTEM"})
  /\ status' = IF instr.rs2 % 2 = 1 THEN "EBREAK" ELSE "ECALL"
  /\ UNCHANGED <<mem, regs, pc, reg_trace, mmu_trace>>

\* HANDLE_UNKNOWN, the default of the decoder and its ASSERT on JALR: the
\* process is terminated.
HandleUnknown ==
  /\ Decode(Opcodes)
  /\ \/ instr.opcode \in {"ZERO", "OTHER"}
     \/ instr.opcode = "JALR" /\ instr.funct3 # 0
     \/ instr.opcode = "BRANCH" /\ instr.funct3 \in {2, 3}
     \/ instr.opcode = "LOAD" /\ instr.funct3 \notin {0, 1, 2, 4, 5}
     \/ instr.opcode = "STORE" /\ instr.funct3 \notin {0, 1, 2}
  /\ status' = "abort"
  /\ UNCHANGED <<mem, regs, pc, reg_trace, mmu_trace>>

Run == \/ HandleLUI \/ HandleAUIPC \/ HandleJAL \/ HandleJALR \/ HandleBranch
       \/ HandleLoad \/ HandleStore \/ HandleSegFault
       \/ HandleOpImm \/ HandleOp \/ HandleFENCE
       \/ HandleSystem \/ HandleUnknown \/ LoadFromPCFault

Next == RunProgram \/ Run
Spec == Init /\ [][Next]_vars
=============================================================================
