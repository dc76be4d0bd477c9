------------------------- MODULE PipelineProperties -------------------------
(***************************************************************************)
(* What the cycle model must satisfy on its own: its types, the contents   *)
(* of the stage registers, the operands of the execute stage, stalls,      *)
(* traps and traces.                                                       *)
(***************************************************************************)
EXTENDS PipelineModel, TraceReplay

-----------------------------------------------------------------------------
(* Types *)

\* The types of the control state.
ControlTypeOK ==
  /\ de.instr \in Instr /\ de.v_de \in BOOLEAN
  /\ ex.instr \in Instr /\ ex.v_de \in BOOLEAN
  /\ \A f \in {ex.alu_src2, ex.is_jalr, ex.wb_we, ex.mem_we, ex.mem_to_reg,
               ex.brn_cond, ex.jmp_cond} : f \in BOOLEAN
  /\ me.mem_we \in BOOLEAN /\ me.mem_to_reg \in BOOLEAN /\ me.wb_we \in BOOLEAN
  /\ me.wb_a \in Regs
  /\ wb.wb_we \in BOOLEAN /\ wb.wb_a \in Regs
  /\ regs = [r \in Regs |-> regs[r]]
  /\ enabled \in BOOLEAN
  /\ hu_rs1 \in Bypass /\ hu_rs2 \in Bypass
  /\ must_take_halted_wb \in {"NONE", "RS1", "RS2"}
  /\ status \in {"idle", "running", "draining"} \cup Ended

\* Every register, latch and memory cell of the cycle model holds a value of
\* its type in the code: words do not grow past XLEN bits anywhere on the
\* way through the ALU, the bypasses and the memory.
TypeOK ==
  /\ ControlTypeOK
  /\ \A r \in Regs : regs[r] \in Word
  /\ \A a \in DOMAIN mem : mem[a] \in 0 .. ByteSize - 1
  /\ {pc, de.pc_de, ex.pc_de, ex.data1, ex.data2, me.alu_res, me.write_data,
      wb.wb_d, halted_wb, trace_prev_pc} \subseteq Word
  /\ ex.funct3 \in 0 .. 7 /\ me.store_mode \in 0 .. 7

-----------------------------------------------------------------------------
(* Program order *)

\* The decode and execute stages hold consecutive instructions of the image,
\* and the program counter is the one after them: what DoFetch, the stall and
\* the clearing behind a jump leave in the stage registers never skips,
\* repeats or reorders an instruction.
InFlightInOrder ==
  /\ de.instr # ZeroInstr =>
       /\ de.pc_de \in DOMAIN text /\ de.instr = text[de.pc_de]
       /\ pc = Add(de.pc_de, 4)
  /\ ex.instr # ZeroInstr =>
       /\ ex.pc_de \in DOMAIN text /\ ex.instr = text[ex.pc_de]
       /\ de.pc_de \in DOMAIN text /\ de.instr = text[de.pc_de]
       /\ de.pc_de = Add(ex.pc_de, 4) /\ pc = Add(de.pc_de, 4)

-----------------------------------------------------------------------------
(* Operands *)

\* The registers as the instruction in the execute stage must see them: those
\* of the register file after the two older instructions have written back.
ArchRegs == Written(WriteBackNext(me, mem), Written(wb, regs))

\* In every tick that executes an instruction, the operands that HazardUnitTick
\* and the multiplexers of DoExecute select are the architectural values of its
\* source registers, although the two older instructions have not written
\* theirs yet; LUI and AUIPC get the operand DoDecode gave them.
OperandsCurrent ==
  LET type == GetInstructionType(ex.instr.opcode)
  IN  Running /\ enabled /\ ex.instr # ZeroInstr /\ ~MemoryFault(me, mem) =>
        /\ IF hasRs1(type) THEN SrcA = ArchRegs[ex.instr.rs1] ELSE SrcA = ex.data1
        /\ hasRs2(type) => Rs2V = ArchRegs[ex.instr.rs2]

\* The value DoExecute saved while the pipeline was halted is the register's
\* value when the pipeline goes on, and the multiplexer of that operand is
\* set to take it.
SavedOperandCurrent ==
  Running =>
    /\ must_take_halted_wb = "RS1" =>
         enabled /\ hu_rs1 = "REG" /\ halted_wb = regs[ex.instr.rs1]
    /\ must_take_halted_wb = "RS2" =>
         enabled /\ hu_rs2 = "REG" /\ halted_wb = regs[ex.instr.rs2]

\* An instruction that reads, right behind a load, the register it loads is
\* followed by an instruction with a register operand in the same place.
StallSafe(p) ==
  \A a \in DOMAIN p :
    LET b == Add(a, 4)
        c == Add(b, 4)
    IN  p[a].opcode = "LOAD" /\ p[a].rd # 0 /\ b \in DOMAIN p /\ c \in DOMAIN p =>
          LET use  == GetInstructionType(p[b].opcode)
              next == GetInstructionType(p[c].opcode)
          IN  /\ hasRs1(use) /\ p[b].rs1 = p[a].rd => hasRs1(next)
              /\ hasRs2(use) /\ p[b].rs2 = p[a].rd => hasRs2(next)

-----------------------------------------------------------------------------
(* Stalls *)

\* The pipeline halts only while the memory stage holds a load whose result
\* the execute stage reads.
HaltedByLoad ==
  Running /\ ~enabled =>
    /\ me.mem_to_reg /\ me.wb_we /\ me.wb_a # 0
    /\ me.wb_a \in {ex.instr.rs1, ex.instr.rs2}

\* The tick after HaltPipeline restarts the pipeline or ends the run: the
\* bubble behind the load cannot raise the conflict again.
StallsOneTick ==
  [][~enabled => enabled' \/ status' # "running"]_vars

-----------------------------------------------------------------------------
(* Traps *)

\* An exception of the control unit or of the fetch ends the run only when the
\* older instruction in execute is done: it does not wait for a loaded operand,
\* and, if the instruction in decode is the cause, does not jump elsewhere.
ExceptionsInOrder ==
  [][Running /\ ~MemoryFault(me, mem) /\ status' \in {"draining", "exception"}
       => enabled /\ (status' = "draining" => ~pc_r)]_vars

-----------------------------------------------------------------------------
(* Traces *)

\* Replaying the records of the register trace, or those of the memory trace,
\* gives the state of the model: two models whose traces agree have the same
\* registers and memory, which is why comparing traces is enough.
TracesReplay ==
  /\ RegReplayed(regs, reg_trace)
  /\ status \notin {"idle", "segv"} => MemReplayed(mem, DataMem, mmu_trace)
=============================================================================
