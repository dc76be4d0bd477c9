--------------------------- MODULE PipelineModel ---------------------------
(***************************************************************************)
(* The cycle model: a five-stage pipeline with bypassing, a one-tick stall *)
(* for a load whose result the next instruction needs, and two cleared     *)
(* stages behind a taken branch or jump.                                   *)
(*                                                                         *)
(* One step is one call of Tick, which runs the stages from write-back to  *)
(* fetch and then latches the stage registers.  The "next" halves of the   *)
(* registers, pc_r, pc_disp and bp_mem are recomputed by every Tick before *)
(* they are read, so they are operators here.  program_counter,            *)
(* decode_register and execute_register are only halted and restarted      *)
(* together: their three enable flags are the one variable "enabled".      *)
(* MemoryState.jmp_cond is written and never read, and is left out.        *)
(*                                                                         *)
(* The code of a program ("text") and the memory its loads and stores      *)
(* address ("mem") are kept apart: the programs considered do not read or  *)
(* write their own code.                                                   *)
(***************************************************************************)
EXTENDS ControlUnit, ProgramImages

VARIABLES
  text, mem, regs,            \* the image, the data memory, the register file
  pc, de, ex, me, wb,         \* program_counter and the stage registers
  enabled,                    \* their enable flags
  hu_rs1, hu_rs2,             \* bypass selection for the execute stage
  must_take_halted_wb,        \* which operand halted_wb stands in for
  halted_wb,
  trace_prev_pc,              \* location last seen by TraceExecutedInstruction
  exec_trace, reg_trace, mmu_trace,   \* the three trace files
  status                      \* what the model is doing, or how it ended

stages == <<pc, de, ex, me, wb>>
hazard == <<enabled, hu_rs1, hu_rs2, must_take_halted_wb, halted_wb>>
vars == <<text, mem, regs, stages, hazard, trace_prev_pc,
          exec_trace, reg_trace, mmu_trace, status>>

Bypass == {"REG", "MEM", "WB"}
Ended  == {"ECALL", "EBREAK", "exception", "segv", "abort"}

-----------------------------------------------------------------------------
(* Cleared stage registers: every field 0. *)

DecodeCleared == [v_de |-> FALSE, pc_de |-> 0, instr |-> ZeroInstr]

ExecuteCleared ==
  [alu_op |-> "NOP", alu_src2 |-> FALSE, is_jalr |-> FALSE, wb_we |-> FALSE,
   mem_we |-> FALSE, mem_to_reg |-> FALSE, brn_cond |-> FALSE,
   jmp_cond |-> FALSE, cmp_control |-> "NOP", funct3 |-> 0, v_de |-> FALSE,
   data1 |-> 0, data2 |-> 0, pc_de |-> 0, instr |-> ZeroInstr]

MemoryCleared == [mem_we |-> FALSE, mem_to_reg |-> FALSE, wb_we |-> FALSE,
                  store_mode |-> 0, write_data |-> 0, alu_res |-> 0, wb_a |-> 0]

WriteBackCleared == [wb_we |-> FALSE, wb_d |-> 0, wb_a |-> 0]

\* The constructor.
Init ==
  /\ text = <<>> /\ mem = <<>> /\ regs = [r \in Regs |-> 0]
  /\ pc = 0
  /\ de = DecodeCleared /\ ex = ExecuteCleared
  /\ me = MemoryCleared /\ wb = WriteBackCleared
  /\ enabled = TRUE
  /\ hu_rs1 = "REG" /\ hu_rs2 = "REG"
  /\ must_take_halted_wb = "NONE" /\ halted_wb = 0
  /\ trace_prev_pc = 0
  /\ exec_trace = <<>> /\ reg_trace = <<>> /\ mmu_trace = <<>>
  /\ status = "idle"

\* RunProgram up to the loop of Run: the image is loaded, SetPC, InitSP.
RunProgram ==
  /\ status = "idle"
  /\ text' \in Programs
  /\ mem' = DataMem
  /\ pc' = Entry
  /\ regs' = WriteReg(regs, SPReg, StackPointer)
  /\ reg_trace' = reg_trace \o RegRecord(SPReg, StackPointer)
  /\ trace_prev_pc' = 0
  /\ status' = "running"
  /\ UNCHANGED <<de, ex, me, wb, hazard, exec_trace, mmu_trace>>

-----------------------------------------------------------------------------
(* DoMemory, for a memory register m over the memory M. *)

Accesses(m) == m.mem_to_reg \/ m.mem_we

\* The mode the data memory unit throws std::logic_error for.
BadMode(m) == Accesses(m) /\ m.store_mode \notin IF m.mem_we THEN StoreModes ELSE LoadModes
\* An access outside the mapped pages ends the process.
SegFault(m, M) ==
  Accesses(m) /\ ~BadMode(m) /\ ~Mapped(M, m.alu_res, Width(m.store_mode))
MemoryFault(m, M) == BadMode(m) \/ SegFault(m, M)

StoredMem(m, M) ==
  IF m.mem_we
    THEN SetBytes(M, m.alu_res, Width(m.store_mode), Narrow(m.store_mode, m.write_data))
    ELSE M

StoreTrace(m) ==
  IF m.mem_we THEN <<StoreRecord(m.store_mode, m.alu_res, m.write_data)>> ELSE <<>>

\* The data memory unit is read in every tick.  When the stage accesses no
\* memory it repeats the last access, which has succeeded, and the multiplexer
\* drops the value; Run points it at the code in the first two ticks.
WriteBackNext(m, M) ==
  [wb_we |-> m.wb_we,
   wb_d  |-> IF m.mem_to_reg THEN GetData(M, m.alu_res, m.store_mode) ELSE m.alu_res,
   wb_a  |-> m.wb_a]

\* Mutant: the record does not depend on the write enable.
WriteTraceAlways(w) == RegRecord(w.wb_a, w.wb_d)

\* The write port of the register file, for a write-back register w.
Written(w, R)  == IF w.wb_we THEN WriteReg(R, w.wb_a, w.wb_d) ELSE R
WriteTrace(w)  == IF w.wb_we THEN RegRecord(w.wb_a, w.wb_d) ELSE <<>>

-----------------------------------------------------------------------------
(* DoExecute *)

SrcA ==
  CASE hu_rs1 = "REG" -> IF must_take_halted_wb = "RS1" THEN halted_wb ELSE ex.data1
    [] hu_rs1 = "MEM" -> me.alu_res
    [] hu_rs1 = "WB"  -> wb.wb_d

Rs2V ==
  CASE hu_rs2 = "REG" -> IF must_take_halted_wb = "RS2" THEN halted_wb ELSE ex.data2
    [] hu_rs2 = "MEM" -> me.alu_res
    [] hu_rs2 = "WB"  -> wb.wb_d

AluRes == ALU(ex.alu_op, SrcA,
              IF ex.alu_src2 THEN ImmediateExtensionBlock(ex.instr) ELSE Rs2V)

\* Redirect the program counter: a jump, or a branch that is taken.
pc_r == ex.jmp_cond \/ (ex.brn_cond /\ Cmp(ex.cmp_control, SrcA, Rs2V))

pc_disp == IF ex.is_jalr THEN AluRes - (AluRes % 2)
                         ELSE ImmediateExtensionBlock(ex.instr)

MemoryNext ==
  [mem_we     |-> ex.mem_we /\ ~ex.v_de,
   mem_to_reg |-> ex.mem_to_reg,
   wb_we      |-> ex.wb_we /\ ~ex.v_de,
   store_mode |-> ex.funct3,
   write_data |-> Rs2V,
   alu_res    |-> IF ex.jmp_cond THEN Add(ex.pc_de, 4) ELSE AluRes,
   wb_a       |-> ex.instr.rd]

\* Mutant: the value on the memory bypass is saved instead.
SaveBypassedMem ==
  /\ must_take_halted_wb' =
       IF enabled THEN "NONE"
       ELSE IF hu_rs1 = "WB" THEN "RS1"
       ELSE IF hu_rs2 = "WB" THEN "RS2" ELSE must_take_halted_wb
  /\ halted_wb' = IF ~enabled /\ "WB" \in {hu_rs1, hu_rs2} THEN me.alu_res ELSE halted_wb

\* While halted, the operand bypassed from write-back is saved.
SaveHaltedWB ==
  /\ must_take_halted_wb' =
       IF enabled THEN "NONE"
       ELSE IF hu_rs1 = "WB" THEN "RS1"
       ELSE IF hu_rs2 = "WB" THEN "RS2" ELSE must_take_halted_wb
  /\ halted_wb' = IF ~enabled /\ "WB" \in {hu_rs1, hu_rs2} THEN wb.wb_d ELSE halted_wb

ExecRecord(i, location, prev) ==
  IF i # ZeroInstr /\ location # prev THEN <<<<location, i>>>> ELSE <<>>

TraceExecutedInstruction(i, location) ==
  /\ exec_trace' = exec_trace \o ExecRecord(i, location, trace_prev_pc)
  /\ trace_prev_pc' = location

-----------------------------------------------------------------------------
(* DoDecode: R is the register file after its write port has been served. *)

ExecuteNext(R) ==
  LET i == de.instr
      s == LoadControlSignals(i)
  IN  [alu_op |-> s.alu_op, alu_src2 |-> s.alu_src2, is_jalr |-> s.is_jalr,
       wb_we |-> s.wb_we, mem_we |-> s.mem_we, mem_to_reg |-> s.mem_to_reg,
       brn_cond |-> s.brn_cond, jmp_cond |-> s.jmp_cond,
       cmp_control |-> s.cmp_control, funct3 |-> s.funct3,
       v_de  |-> pc_r \/ de.v_de,
       data1 |-> IF i.opcode = "LUI" THEN 0
                 ELSE IF i.opcode = "AUIPC" THEN de.pc_de ELSE R[i.rs1],
       data2 |-> R[i.rs2],
       pc_de |-> de.pc_de,
       instr |-> i]

(* DoFetch *)

\* Mutant: a branch is relative to the instruction being fetched.
PCNextFromFetch ==
  IF ex.is_jalr THEN pc_disp % WordSize ELSE Add(pc, IF pc_r THEN pc_disp ELSE 4)

\* JALR, which always sets pc_r, adds its target to 0.
PCNext ==
  IF ex.is_jalr THEN pc_disp % WordSize
                ELSE Add(IF pc_r THEN ex.pc_de ELSE pc, IF pc_r THEN pc_disp ELSE 4)

DecodeNext == [v_de |-> pc_r, pc_de |-> pc, instr |-> text[pc]]

-----------------------------------------------------------------------------
(* HazardUnitTick, on the stage registers as this tick has latched them.   *)
(* The instruction type is the one control_unit has decoded in this tick.  *)

Writes(stage, r) == stage.wb_we /\ stage.wb_a = r

\* Mutant: the older of two writers wins.
BypassOldest(present, r, m, w) ==
  IF ~present \/ r = 0 THEN "REG"
  ELSE IF Writes(w, r) THEN "WB"
  ELSE IF Writes(m, r) THEN "MEM" ELSE "REG"

BypassOf(present, r, m, w) ==
  IF ~present \/ r = 0 THEN "REG"
  ELSE IF Writes(m, r) THEN "MEM"
  ELSE IF Writes(w, r) THEN "WB" ELSE "REG"

\* Mutant: any result in the memory stage halts the pipeline.
HazardHaltsAlways ==
  LET type == GetInstructionType(de.instr.opcode)
  IN  /\ hu_rs1' = BypassOf(hasRs1(type), ex'.instr.rs1, me', wb')
      /\ hu_rs2' = BypassOf(hasRs2(type), ex'.instr.rs2, me', wb')
      /\ enabled' = ("MEM" \notin {hu_rs1', hu_rs2'})

\* Mutant: RestartPipeline is not called.
HazardNeverRestarts ==
  LET type == GetInstructionType(de.instr.opcode)
  IN  /\ hu_rs1' = BypassOf(hasRs1(type), ex'.instr.rs1, me', wb')
      /\ hu_rs2' = BypassOf(hasRs2(type), ex'.instr.rs2, me', wb')
      /\ enabled' = (enabled /\ ~(me'.mem_to_reg /\ "MEM" \in {hu_rs1', hu_rs2'}))

HazardUnitTick ==
  LET type == GetInstructionType(de.instr.opcode)
  IN  /\ hu_rs1' = BypassOf(hasRs1(type), ex'.instr.rs1, me', wb')
      /\ hu_rs2' = BypassOf(hasRs2(type), ex'.instr.rs2, me', wb')
      /\ enabled' = ~ (me'.mem_to_reg /\ "MEM" \in {hu_rs1', hu_rs2'})

-----------------------------------------------------------------------------
(* Tick *)

Running == status = "running"

\* DoMemory throws, or the process ends with SIGSEGV; a store has already
\* been traced by then.
TickMemoryFault ==
  /\ Running /\ MemoryFault(me, mem)
  /\ status' = IF BadMode(me) THEN "exception" ELSE "segv"
  /\ mmu_trace' = mmu_trace \o IF BadMode(me) THEN <<>> ELSE StoreTrace(me)
  /\ UNCHANGED <<text, mem, regs, stages, hazard, trace_prev_pc, exec_trace, reg_trace>>

\* DoMemory, DoExecute and the register file tick of DoDecode: what every
\* tick does whose memory access succeeds.
DoStages ==
  /\ Running /\ ~MemoryFault(me, mem)
  /\ mem' = StoredMem(me, mem)
  /\ mmu_trace' = mmu_trace \o StoreTrace(me)
  /\ IF enabled THEN TraceExecutedInstruction(ex.instr, ex.pc_de)
                ELSE UNCHANGED <<exec_trace, trace_prev_pc>>
  /\ SaveHaltedWB
  /\ regs' = Written(wb, regs)
  /\ reg_trace' = reg_trace \o WriteTrace(wb)
  /\ UNCHANGED text

\* The control unit throws on the instruction in decode: DoLastTicks latches
\* the last two stage registers and goes on in the handler below.  A failed
\* ASSERT ends the process instead.
TickTrap ==
  /\ DoStages
  /\ DecodeOutcome(de.instr) # "ok"
  /\ IF DecodeOutcome(de.instr) = "abort"
       THEN status' = "abort" /\ UNCHANGED <<me, wb>>
       ELSE /\ status' = "draining"
            /\ me' = MemoryNext /\ wb' = WriteBackNext(me, mem)
  /\ UNCHANGED <<pc, de, ex, enabled, hu_rs1, hu_rs2>>

\* DoFetch throws on a misaligned next pc, before it reads the instruction at
\* pc; reading an unmapped one ends the process.
TickFetchFault ==
  /\ DoStages
  /\ DecodeOutcome(de.instr) = "ok"
  /\ PCNext % 4 # 0 \/ pc \notin DOMAIN text
  /\ status' = IF PCNext % 4 # 0 THEN "exception" ELSE "segv"
  /\ UNCHANGED <<stages, enabled, hu_rs1, hu_rs2>>

FetchOK == PCNext % 4 = 0 /\ pc \in DOMAIN text

\* Mutant: HaltPipeline does not stop the program counter.
TickHaltedPcRuns ==
  /\ ~enabled
  /\ DoStages
  /\ DecodeOutcome(de.instr) = "ok" /\ FetchOK
  /\ pc' = PCNext
  /\ UNCHANGED <<de, ex, status>>
  /\ me' = MemoryCleared
  /\ wb' = WriteBackNext(me, mem)
  /\ HazardUnitTick

\* A tick of the halted pipeline: only write-back advances, and a bubble
\* follows the load.
TickHalted ==
  /\ ~enabled
  /\ DoStages
  /\ DecodeOutcome(de.instr) = "ok" /\ FetchOK
  /\ UNCHANGED <<pc, de, ex, status>>
  /\ me' = MemoryCleared
  /\ wb' = WriteBackNext(me, mem)
  /\ HazardUnitTick

\* Mutant: the instruction fetched behind the jump stays in decode.
TickRedirectKeepsFetch ==
  /\ enabled /\ pc_r
  /\ DoStages
  /\ DecodeOutcome(de.instr) = "ok" /\ FetchOK
  /\ pc' = PCNext
  /\ de' = [DecodeNext EXCEPT !.v_de = FALSE] /\ ex' = ExecuteCleared
  /\ me' = MemoryNext
  /\ wb' = WriteBackNext(me, mem)
  /\ UNCHANGED <<enabled, hu_rs1, hu_rs2, status>>

\* A taken branch or a jump: the two younger stages are cleared.
TickRedirect ==
  /\ enabled /\ pc_r
  /\ DoStages
  /\ DecodeOutcome(de.instr) = "ok" /\ FetchOK
  /\ pc' = PCNext
  /\ de' = DecodeCleared /\ ex' = ExecuteCleared
  /\ me' = MemoryNext
  /\ wb' = WriteBackNext(me, mem)
  /\ UNCHANGED <<enabled, hu_rs1, hu_rs2, status>>

\* Every stage advances.
TickAdvance ==
  /\ enabled /\ ~pc_r
  /\ DoStages
  /\ DecodeOutcome(de.instr) = "ok" /\ FetchOK
  /\ pc' = PCNext
  /\ de' = DecodeNext
  /\ ex' = ExecuteNext(regs')
  /\ me' = MemoryNext
  /\ wb' = WriteBackNext(me, mem)
  /\ HazardUnitTick
  /\ UNCHANGED status

\* The catch blocks of DoDecode: trace ECALL and EBREAK, then finish the two
\* older instructions.  An exception of the memory stage replaces the first.
DoLastTicks ==
  LET last == WriteBackNext(me, mem)
      out  == DecodeOutcome(de.instr)
  IN  /\ status = "draining"
      /\ IF out \in {"ECALL", "EBREAK"}
           THEN TraceExecutedInstruction(de.instr, de.pc_de)
           ELSE UNCHANGED <<exec_trace, trace_prev_pc>>
      /\ mmu_trace' = mmu_trace \o IF BadMode(me) THEN <<>> ELSE StoreTrace(me)
      /\ \/ /\ MemoryFault(me, mem)
            /\ status' = IF BadMode(me) THEN "exception" ELSE "segv"
            /\ UNCHANGED <<mem, regs, reg_trace, wb>>
         \/ /\ ~MemoryFault(me, mem)
            /\ status' = out
            /\ mem' = StoredMem(me, mem)
            /\ regs' = Written(last, Written(wb, regs))
            /\ reg_trace' = reg_trace \o WriteTrace(wb) \o WriteTrace(last)
            /\ wb' = last
      /\ UNCHANGED <<text, pc, de, ex, me, hazard>>

Tick == \/ TickAdvance \/ TickRedirect \/ TickHalted
        \/ TickTrap \/ DoLastTicks
        \/ TickMemoryFault \/ TickFetchFault

Next == RunProgram \/ Tick

Spec == Init /\ [][Next]_vars
FairSpec == Spec /\ WF_vars(Next)
=============================================================================
