--------------------------- MODULE PipelineProofs ---------------------------
(***************************************************************************)
(* Proofs of properties of the cycle model for every word size, every set  *)
(* of programs and every data memory.                                      *)
(*                                                                         *)
(* The results about control, order and traces hold whatever the ALU, the  *)
(* comparator and the immediate extension block compute: their proofs      *)
(* expand none of these units.  Only the last section, which proves that   *)
(* everything the model keeps is of its type, uses that they return words. *)
(***************************************************************************)
EXTENDS PipelineProperties, MachineProofs

\* What the stage registers hold before a program runs.
BeforeRun ==
  status = "idle" => /\ de.instr = ZeroInstr /\ ex.instr = ZeroInstr
                     /\ enabled = TRUE /\ must_take_halted_wb = "NONE"

\* The image is one of the programs, and made of instructions.
ImageLoaded ==
  /\ status # "idle" => text \in Programs
  /\ \A a \in DOMAIN text : text[a] \in Instr

\* The signals in the execute stage that the proofs need.
SignalsDecoded ==
  /\ ex.mem_to_reg = (ex.instr.opcode = "LOAD")
  /\ ex.is_jalr => ex.jmp_cond

\* The pipeline drains only behind an instruction that the control unit
\* refused.
Trapped == status = "draining" => DecodeOutcome(de.instr) \notin {"ok", "abort"}

TypeInv == ControlTypeOK /\ ImageLoaded /\ BeforeRun /\ SignalsDecoded /\ Trapped

\* A halted pipeline: the execute stage reads what a load has not delivered
\* yet, the selection of its operands is the one its own instruction asks
\* for, and nothing has been saved.
Conflict ==
  Running /\ ~enabled =>
    LET type == GetInstructionType(ex.instr.opcode)
    IN  /\ me.mem_to_reg /\ must_take_halted_wb = "NONE"
        /\ hu_rs1 = BypassOf(hasRs1(type), ex.instr.rs1, me, wb)
        /\ hu_rs2 = BypassOf(hasRs2(type), ex.instr.rs2, me, wb)
        /\ hu_rs1 = "MEM" \/ hu_rs2 = "MEM"

\* In a halted pipeline, the latched operands are those of the register file,
\* and the load is the instruction in front of the one in execute.
BehindLoad ==
  Running /\ ~enabled =>
    /\ hasRs1(GetInstructionType(ex.instr.opcode)) => ex.data1 = regs[ex.instr.rs1]
    /\ ex.data2 = regs[ex.instr.rs2]
    /\ ex.instr # ZeroInstr
    /\ \E a \in DOMAIN text : /\ text[a].opcode = "LOAD" /\ text[a].rd = me.wb_a
                              /\ ex.pc_de = Add(a, 4)

ZeroReads == regs[0] = 0

StallInv == TypeInv /\ InFlightInOrder /\ Conflict /\ SavedOperandCurrent
OperandInv == StallInv /\ ZeroReads /\ BehindLoad /\ OperandsCurrent

-----------------------------------------------------------------------------
(* Operators *)

LEMMA ZeroInstrType == ZeroInstr \in Instr
  BY DEF ZeroInstr, Instr, Opcodes

LEMMA WriteRegType ==
  ASSUME NEW R, R = [r \in Regs |-> R[r]], NEW a \in Regs, NEW v
  PROVE  /\ WriteReg(R, a, v) = [r \in Regs |-> WriteReg(R, a, v)[r]]
         /\ \A r \in Regs : WriteReg(R, a, v)[r] =
              IF r = a THEN IF a = 0 THEN 0 ELSE v ELSE R[r]
  BY DEF WriteReg

LEMMA WrittenType ==
  ASSUME NEW R, R = [r \in Regs |-> R[r]], NEW w, w.wb_a \in Regs
  PROVE  Written(w, R) = [r \in Regs |-> Written(w, R)[r]]
  BY WriteRegType DEF Written

LEMMA WriteBackNextFields ==
  ASSUME NEW m, NEW M
  PROVE  /\ WriteBackNext(m, M).wb_we = m.wb_we
         /\ WriteBackNext(m, M).wb_a = m.wb_a
         /\ ~m.mem_to_reg => WriteBackNext(m, M).wb_d = m.alu_res
  BY DEF WriteBackNext

LEMMA BypassOfType ==
  ASSUME NEW present, NEW r, NEW m, NEW w
  PROVE  BypassOf(present, r, m, w) \in Bypass
  BY DEF BypassOf, Bypass

LEMMA DecodeOutcomeType ==
  ASSUME NEW i
  PROVE  DecodeOutcome(i) \in {"ok", "ECALL", "EBREAK", "exception", "abort"}
  BY Zenon DEF DecodeOutcome, SystemOutcome

LEMMA MemoryNextFields ==
  /\ MemoryNext.mem_to_reg = ex.mem_to_reg
  /\ MemoryNext.wb_we = (ex.wb_we /\ ~ex.v_de)
  /\ MemoryNext.mem_we = (ex.mem_we /\ ~ex.v_de)
  /\ MemoryNext.wb_a = ex.instr.rd
  BY DEF MemoryNext

LEMMA ExecuteNextFields ==
  ASSUME NEW R
  PROVE  /\ ExecuteNext(R).instr = de.instr
         /\ ExecuteNext(R).pc_de = de.pc_de
         /\ ExecuteNext(R).mem_to_reg = (de.instr.opcode = "LOAD")
         /\ ExecuteNext(R).v_de = (pc_r \/ de.v_de)
         /\ ExecuteNext(R).data2 = R[de.instr.rs2]
         /\ ExecuteNext(R).wb_we = (de.instr.opcode \notin {"STORE", "BRANCH"})
         /\ ExecuteNext(R).mem_we = (de.instr.opcode = "STORE")
         /\ ExecuteNext(R).brn_cond \in BOOLEAN /\ ExecuteNext(R).jmp_cond \in BOOLEAN
         /\ ExecuteNext(R).is_jalr \in BOOLEAN /\ ExecuteNext(R).alu_src2 \in BOOLEAN
         /\ ExecuteNext(R).is_jalr => ExecuteNext(R).jmp_cond
<1>1. (de.instr.opcode \in {"JAL", "JALR"}) \in BOOLEAN
  OBVIOUS
<1>2. (GetInstructionType(de.instr.opcode) \in {"IType", "SType", "UType"}) \in BOOLEAN
  OBVIOUS
<1> QED  BY <1>1, <1>2 DEF ExecuteNext, LoadControlSignals

-----------------------------------------------------------------------------
(* Types *)

LEMMA RedirectType == pc_r \in BOOLEAN
  BY DEF pc_r

LEMMA InitTypeInv == Init => TypeInv
<1> SUFFICES ASSUME Init PROVE TypeInv
  OBVIOUS
<1>1. ControlTypeOK
  BY ZeroInstrType
     DEF Init, ControlTypeOK, DecodeCleared, ExecuteCleared, MemoryCleared,
         WriteBackCleared, Regs, Bypass
<1>2. ImageLoaded
  BY DEF Init, ImageLoaded
<1>3. BeforeRun
  BY DEF Init, BeforeRun, DecodeCleared, ExecuteCleared
<1>4. SignalsDecoded
  BY DEF Init, SignalsDecoded, ExecuteCleared, ZeroInstr
<1>5. Trapped
  BY DEF Init, Trapped
<1> QED  BY <1>1, <1>2, <1>3, <1>4, <1>5 DEF TypeInv

\* What the part of a tick that is common to all keeps.
LEMMA DoStagesType ==
  ASSUME TypeInv, DoStages
  PROVE  /\ Running /\ text' = text
         /\ regs' = [r \in Regs |-> regs'[r]]
         /\ must_take_halted_wb' \in {"NONE", "RS1", "RS2"}
         /\ WriteBackNext(me, mem).wb_we \in BOOLEAN
         /\ WriteBackNext(me, mem).wb_a \in Regs
         /\ MemoryNext.mem_we \in BOOLEAN /\ MemoryNext.mem_to_reg \in BOOLEAN
         /\ MemoryNext.wb_we \in BOOLEAN /\ MemoryNext.wb_a \in Regs
<1>1. Running /\ text' = text
  BY DEF DoStages
<1>2. regs' = [r \in Regs |-> regs'[r]]
  <2>1. Written(wb, regs) = [r \in Regs |-> Written(wb, regs)[r]]
    BY WrittenType DEF TypeInv, ControlTypeOK
  <2> QED  BY <2>1 DEF DoStages
<1>3. must_take_halted_wb' \in {"NONE", "RS1", "RS2"}
  BY DEF DoStages, SaveHaltedWB, TypeInv, ControlTypeOK
<1>4. /\ WriteBackNext(me, mem).wb_we \in BOOLEAN
      /\ WriteBackNext(me, mem).wb_a \in Regs
  BY WriteBackNextFields DEF TypeInv, ControlTypeOK
<1>5. /\ MemoryNext.mem_we \in BOOLEAN /\ MemoryNext.mem_to_reg \in BOOLEAN
      /\ MemoryNext.wb_we \in BOOLEAN
  BY MemoryNextFields DEF TypeInv, ControlTypeOK
<1>6. MemoryNext.wb_a \in Regs
  BY MemoryNextFields DEF TypeInv, ControlTypeOK, Instr, Regs
<1> QED  BY <1>1, <1>2, <1>3, <1>4, <1>5, <1>6

\* The hazard unit selects one of the bypasses, whatever it finds.
LEMMA HazardUnitTickType ==
  ASSUME HazardUnitTick
  PROVE  hu_rs1' \in Bypass /\ hu_rs2' \in Bypass /\ enabled' \in BOOLEAN
  BY BypassOfType DEF HazardUnitTick

LEMMA NextTypeInv ==
  ASSUME TypeInv, [Next]_vars
  PROVE  TypeInv'
<1> USE DEF TypeInv
<1>1. CASE RunProgram
  <2>1. regs' = [r \in Regs |-> regs'[r]]
    <3>1. SPReg \in Regs
      BY DEF SPReg, Regs
    <3> QED  BY <1>1, <3>1, WriteRegType DEF RunProgram, ControlTypeOK
  <2>2. ControlTypeOK'
    BY <1>1, <2>1 DEF RunProgram, ControlTypeOK, hazard
  <2>3. ImageLoaded'
    BY <1>1, ProgramsAssumption DEF RunProgram, ImageLoaded
  <2> QED  BY <1>1, <2>2, <2>3 DEF RunProgram, BeforeRun, SignalsDecoded, Trapped
<1>2. CASE TickAdvance
  <2>1. DoStages /\ status' = "running"
    BY <1>2 DEF TickAdvance, DoStages, Running
  <2>2. de'.instr \in Instr /\ de'.v_de \in BOOLEAN
    BY <1>2, RedirectType DEF TickAdvance, DecodeNext, FetchOK, ImageLoaded
  <2>3. /\ ex'.instr \in Instr /\ ex'.v_de \in BOOLEAN
        /\ ex'.alu_src2 \in BOOLEAN /\ ex'.is_jalr \in BOOLEAN
        /\ ex'.wb_we \in BOOLEAN /\ ex'.mem_we \in BOOLEAN
        /\ ex'.mem_to_reg \in BOOLEAN /\ ex'.brn_cond \in BOOLEAN
        /\ ex'.jmp_cond \in BOOLEAN
    <3>1. ex' = ExecuteNext(regs')
      BY <1>2 DEF TickAdvance
    <3>2. ex'.instr \in Instr
      BY <3>1, ExecuteNextFields DEF ControlTypeOK
    <3> QED  BY <3>1, <3>2, ExecuteNextFields
  <2>4. ControlTypeOK'
    BY <1>2, <2>1, <2>2, <2>3, DoStagesType, HazardUnitTickType
       DEF TickAdvance, ControlTypeOK
  <2>5. SignalsDecoded'
    BY <1>2, ExecuteNextFields DEF TickAdvance, SignalsDecoded
  <2> QED  BY <2>1, <2>4, <2>5, DoStagesType DEF ImageLoaded, BeforeRun, Trapped, Running
<1>3. CASE TickRedirect
  <2>1. DoStages /\ status' = "running"
    BY <1>3 DEF TickRedirect, DoStages, Running
  <2>2. ControlTypeOK'
    BY <1>3, <2>1, DoStagesType, ZeroInstrType
       DEF TickRedirect, ControlTypeOK, DecodeCleared, ExecuteCleared
  <2>3. SignalsDecoded'
    BY <1>3 DEF TickRedirect, SignalsDecoded, ExecuteCleared, ZeroInstr
  <2> QED  BY <2>1, <2>2, <2>3, DoStagesType DEF ImageLoaded, BeforeRun, Trapped, Running
<1>4. CASE TickHalted
  <2>1. DoStages /\ status' = "running"
    BY <1>4 DEF TickHalted, DoStages, Running
  <2>2. ControlTypeOK'
    BY <1>4, <2>1, DoStagesType, HazardUnitTickType
       DEF TickHalted, ControlTypeOK, MemoryCleared, Regs
  <2>3. SignalsDecoded'
    BY <1>4 DEF TickHalted, SignalsDecoded
  <2> QED  BY <2>1, <2>2, <2>3, DoStagesType DEF ImageLoaded, BeforeRun, Trapped, Running
<1>5. CASE TickTrap
  <2>1. DoStages /\ status' \in {"abort", "draining"}
    BY <1>5 DEF TickTrap
  <2>2. ControlTypeOK'
    BY <1>5, <2>1, DoStagesType DEF TickTrap, ControlTypeOK, Ended
  <2>3. SignalsDecoded'
    BY <1>5 DEF TickTrap, SignalsDecoded
  <2>4. Trapped'
    BY <1>5 DEF TickTrap, Trapped
  <2> QED  BY <2>1, <2>2, <2>3, <2>4, DoStagesType DEF ImageLoaded, BeforeRun, Running
<1>6. CASE DoLastTicks
  <2>1. regs' = [r \in Regs |-> regs'[r]]
    <3>1. Written(wb, regs) = [r \in Regs |-> Written(wb, regs)[r]]
      BY WrittenType DEF ControlTypeOK
    <3>2. WriteBackNext(me, mem).wb_a \in Regs
      BY WriteBackNextFields DEF ControlTypeOK
    <3> DEFINE last == WriteBackNext(me, mem)
               R == Written(wb, regs)
    <3>3. Written(last, R) = [r \in Regs |-> Written(last, R)[r]]
      BY <3>1, <3>2, WrittenType
    <3>4. regs' \in {regs, Written(last, R)}
      BY <1>6 DEF DoLastTicks
    <3> QED  BY <3>3, <3>4 DEF ControlTypeOK
  <2>2. /\ status' \in {"exception", "segv", DecodeOutcome(de.instr)}
        /\ wb' \in {wb, WriteBackNext(me, mem)}
        /\ UNCHANGED <<text, pc, de, ex, me, hazard>>
        /\ status = "draining"
    BY <1>6 DEF DoLastTicks
  <2>3. status' \in Ended
    BY <2>2, DecodeOutcomeType DEF Ended, Trapped
  <2>4. ControlTypeOK'
    BY <2>1, <2>2, <2>3, WriteBackNextFields DEF ControlTypeOK, hazard
  <2> QED  BY <2>2, <2>3, <2>4 DEF ImageLoaded, BeforeRun, SignalsDecoded, Trapped, Ended
<1>7. CASE TickMemoryFault
  <2>1. /\ status = "running" /\ status' \in {"exception", "segv"}
        /\ UNCHANGED <<text, regs, stages, hazard>>
    BY <1>7 DEF TickMemoryFault, Running
  <2>2. ControlTypeOK'
    BY <2>1 DEF ControlTypeOK, stages, hazard, Ended
  <2>3. SignalsDecoded'
    BY <2>1 DEF SignalsDecoded, stages
  <2> QED  BY <2>1, <2>2, <2>3 DEF ImageLoaded, BeforeRun, Trapped
<1>8. CASE TickFetchFault
  <2>1. DoStages /\ status' \in {"exception", "segv"}
    BY <1>8 DEF TickFetchFault
  <2>2. ControlTypeOK'
    BY <1>8, <2>1, DoStagesType DEF TickFetchFault, ControlTypeOK, stages, Ended
  <2>3. SignalsDecoded'
    BY <1>8 DEF TickFetchFault, SignalsDecoded, stages
  <2> QED  BY <2>1, <2>2, <2>3, DoStagesType DEF ImageLoaded, BeforeRun, Trapped, Running
<1>9. CASE UNCHANGED vars
  <2>1. ControlTypeOK'
    BY <1>9 DEF vars, stages, hazard, ControlTypeOK
  <2> QED  BY <1>9, <2>1 DEF vars, stages, hazard, ImageLoaded, BeforeRun,
                             SignalsDecoded, Trapped
<1> QED  BY <1>1, <1>2, <1>3, <1>4, <1>5, <1>6, <1>7, <1>8, <1>9 DEF Next, Tick

\* Every control register of the cycle model keeps a value of its type: the
\* pipeline reaches no state that its stages have no case for.
THEOREM ControlTypeCorrect == Spec => []ControlTypeOK
<1>1. Init => TypeInv
  BY InitTypeInv
<1>2. TypeInv /\ [Next]_vars => TypeInv'
  BY NextTypeInv
<1>3. TypeInv => ControlTypeOK
  BY DEF TypeInv
<1> QED  BY <1>1, <1>2, <1>3, PTL DEF Spec

-----------------------------------------------------------------------------
(* Program order *)

LEMMA NextInOrder ==
  ASSUME TypeInv, InFlightInOrder, [Next]_vars
  PROVE  InFlightInOrder'
<1>1. CASE RunProgram
  BY <1>1 DEF RunProgram, InFlightInOrder, TypeInv, BeforeRun
<1>2. CASE TickAdvance
  <2>1. text' = text
    BY <1>2 DEF TickAdvance, DoStages
  <2>2. pc' = Add(pc, 4) /\ pc \in DOMAIN text
    BY <1>2 DEF TickAdvance, FetchOK, PCNext, pc_r, TypeInv, SignalsDecoded
  <2>3. de'.pc_de = pc /\ de'.instr = text[pc]
    BY <1>2 DEF TickAdvance, DecodeNext
  <2>4. ex'.instr = de.instr /\ ex'.pc_de = de.pc_de
    BY <1>2, ExecuteNextFields DEF TickAdvance
  <2> QED  BY <2>1, <2>2, <2>3, <2>4 DEF InFlightInOrder
<1>3. CASE TickRedirect
  BY <1>3 DEF TickRedirect, InFlightInOrder, DecodeCleared, ExecuteCleared
<1>4. CASE UNCHANGED <<text, pc, de, ex>>
  BY <1>4 DEF InFlightInOrder
<1>5. \/ RunProgram \/ TickAdvance \/ TickRedirect
      \/ UNCHANGED <<text, pc, de, ex>>
  BY DEF Next, Tick, TickHalted, TickTrap, DoLastTicks, TickMemoryFault,
         TickFetchFault, DoStages, vars, stages
<1> QED  BY <1>1, <1>2, <1>3, <1>4, <1>5

\* In every state the decode and execute stages hold consecutive instructions
\* of the image with the program counter behind them, whatever the programs
\* and whatever the units of the data path compute.
THEOREM ProgramOrder == Spec => []InFlightInOrder
<1>1. Init => TypeInv /\ InFlightInOrder
  BY InitTypeInv DEF Init, InFlightInOrder, DecodeCleared, ExecuteCleared
<1>2. TypeInv /\ InFlightInOrder /\ [Next]_vars => TypeInv' /\ InFlightInOrder'
  BY NextTypeInv, NextInOrder
<1> QED  BY <1>1, <1>2, PTL DEF Spec

-----------------------------------------------------------------------------
(* Stalls *)

LEMMA BypassFromMemory ==
  ASSUME NEW present, NEW r, NEW m, NEW w
  PROVE  /\ BypassOf(present, r, m, w) = "MEM" <=> present /\ r # 0 /\ Writes(m, r)
         /\ BypassOf(present, r, m, w) = "WB" <=>
              present /\ r # 0 /\ ~Writes(m, r) /\ Writes(w, r)
  BY DEF BypassOf

\* A tick that leaves the program running is one of three.
LEMMA RunningSteps ==
  ASSUME TypeInv, [Next]_vars, Running'
  PROVE  \/ RunProgram \/ TickAdvance \/ TickRedirect \/ TickHalted
         \/ UNCHANGED vars
<1>1. ~TickTrap
  BY DEF TickTrap, Running
<1>2. ~DoLastTicks
  <2> SUFFICES ASSUME DoLastTicks PROVE FALSE
    OBVIOUS
  <2>1. status' \in {"exception", "segv", DecodeOutcome(de.instr)}
    BY DEF DoLastTicks
  <2> QED  BY <2>1, DecodeOutcomeType DEF Running
<1>3. ~TickMemoryFault
  BY DEF TickMemoryFault, Running
<1>4. ~TickFetchFault
  BY DEF TickFetchFault, Running
<1> QED  BY <1>1, <1>2, <1>3, <1>4 DEF Next, Tick

\* The bubble behind a load conflicts with nothing.
LEMMA HaltedTickRestarts ==
  ASSUME TickHalted
  PROVE  enabled' = TRUE
<1>1. ~Writes(me', ex'.instr.rs1) /\ ~Writes(me', ex'.instr.rs2)
  BY DEF TickHalted, MemoryCleared, Writes
<1>2. hu_rs1' # "MEM" /\ hu_rs2' # "MEM"
  BY <1>1, BypassFromMemory DEF TickHalted, HazardUnitTick
<1> QED  BY <1>2 DEF TickHalted, HazardUnitTick

LEMMA NextConflict ==
  ASSUME TypeInv, Conflict, [Next]_vars
  PROVE  Conflict'
<1> SUFFICES ASSUME Running', ~enabled' PROVE Conflict'
  BY DEF Conflict
<1>1. CASE RunProgram
  BY <1>1 DEF RunProgram, hazard, TypeInv, BeforeRun
<1>2. CASE TickAdvance
  <2>1. must_take_halted_wb' = "NONE"
    BY <1>2 DEF TickAdvance, DoStages, SaveHaltedWB
  <2>2. ex'.instr = de.instr
    BY <1>2, ExecuteNextFields DEF TickAdvance
  <2> QED  BY <1>2, <2>1, <2>2 DEF TickAdvance, HazardUnitTick, Conflict
<1>3. CASE TickRedirect
  BY <1>3 DEF TickRedirect
<1>4. CASE TickHalted
  BY <1>4, HaltedTickRestarts
<1>5. CASE UNCHANGED vars
  BY <1>5 DEF Conflict, vars, stages, hazard, Running
<1> QED  BY <1>1, <1>2, <1>3, <1>4, <1>5, RunningSteps

\* The pipeline halts only for a load in the memory stage that writes a
\* register the instruction in the execute stage names.
LEMMA ConflictHaltedByLoad == Conflict => HaltedByLoad
  BY BypassFromMemory DEF Conflict, HaltedByLoad, Writes

LEMMA NextSavedOperand ==
  ASSUME TypeInv, Conflict, SavedOperandCurrent, [Next]_vars
  PROVE  SavedOperandCurrent'
<1> SUFFICES ASSUME Running' PROVE SavedOperandCurrent'
  BY DEF SavedOperandCurrent
<1>1. CASE RunProgram
  BY <1>1 DEF RunProgram, hazard, TypeInv, BeforeRun, SavedOperandCurrent
<1>2. CASE TickAdvance
  BY <1>2 DEF TickAdvance, DoStages, SaveHaltedWB, SavedOperandCurrent
<1>3. CASE TickRedirect
  BY <1>3 DEF TickRedirect, DoStages, SaveHaltedWB, SavedOperandCurrent
<1>4. CASE TickHalted
  <2> DEFINE type == GetInstructionType(ex.instr.opcode)
             next == GetInstructionType(de.instr.opcode)
  <2>1. /\ ~enabled /\ Running /\ must_take_halted_wb = "NONE"
        /\ hu_rs1 = BypassOf(hasRs1(type), ex.instr.rs1, me, wb)
        /\ hu_rs2 = BypassOf(hasRs2(type), ex.instr.rs2, me, wb)
    BY <1>4 DEF TickHalted, DoStages, Conflict
  <2>2. /\ ex' = ex /\ enabled' = TRUE
        /\ hu_rs1' = BypassOf(hasRs1(next), ex.instr.rs1, me', wb')
        /\ hu_rs2' = BypassOf(hasRs2(next), ex.instr.rs2, me', wb')
        /\ regs' = Written(wb, regs)
    BY <1>4, HaltedTickRestarts DEF TickHalted, HazardUnitTick, DoStages
  <2>3. \A r : ~Writes(me', r) /\ (Writes(wb', r) <=> Writes(me, r))
    BY <1>4, WriteBackNextFields DEF TickHalted, MemoryCleared, Writes
  <2>4. /\ must_take_halted_wb' = IF hu_rs1 = "WB" THEN "RS1"
                                  ELSE IF hu_rs2 = "WB" THEN "RS2" ELSE "NONE"
        /\ "WB" \in {hu_rs1, hu_rs2} => halted_wb' = wb.wb_d
    BY <1>4, <2>1 DEF TickHalted, DoStages, SaveHaltedWB
  <2>5. ASSUME NEW r \in Regs, r # 0, Writes(wb, r)
        PROVE  regs'[r] = wb.wb_d
    BY <2>2, <2>5, WriteRegType DEF Written, Writes, TypeInv, ControlTypeOK
  <2>6. ex.instr.rs1 \in Regs /\ ex.instr.rs2 \in Regs
    BY DEF TypeInv, ControlTypeOK, Instr, Regs
  <2>7. CASE must_take_halted_wb' = "RS1"
    <3>1. hu_rs1 = "WB"
      BY <2>4, <2>7
    <3>2. hu_rs1' = "REG" /\ halted_wb' = regs'[ex.instr.rs1]
      BY <2>1, <2>2, <2>3, <2>4, <2>5, <2>6, <3>1, BypassFromMemory DEF BypassOf
    <3> QED  BY <2>2, <2>7, <3>2 DEF SavedOperandCurrent
  <2>8. CASE must_take_halted_wb' = "RS2"
    <3>1. hu_rs2 = "WB"
      BY <2>4, <2>8
    <3>2. hu_rs2' = "REG" /\ halted_wb' = regs'[ex.instr.rs2]
      BY <2>1, <2>2, <2>3, <2>4, <2>5, <2>6, <3>1, BypassFromMemory DEF BypassOf
    <3> QED  BY <2>2, <2>8, <3>2 DEF SavedOperandCurrent
  <2> QED  BY <2>7, <2>8 DEF SavedOperandCurrent
<1>5. CASE UNCHANGED vars
  BY <1>5 DEF SavedOperandCurrent, vars, stages, hazard, Running
<1> QED  BY <1>1, <1>2, <1>3, <1>4, <1>5, RunningSteps

LEMMA InitStallInv == Init => StallInv
  BY InitTypeInv
     DEF Init, StallInv, InFlightInOrder, DecodeCleared, ExecuteCleared, Running,
         Conflict, SavedOperandCurrent

LEMMA NextStallInv == StallInv /\ [Next]_vars => StallInv'
  BY NextTypeInv, NextInOrder, NextConflict, NextSavedOperand DEF StallInv

\* The pipeline is halted only while the memory stage holds a load of a
\* register other than x0 that the execute stage names.
THEOREM StallReason == Spec => []HaltedByLoad
<1>1. StallInv => HaltedByLoad
  BY ConflictHaltedByLoad DEF StallInv
<1> QED  BY <1>1, InitStallInv, NextStallInv, PTL DEF Spec

\* A stall lasts one tick.
THEOREM StallEnds == Spec => StallsOneTick
<1>1. StallInv /\ [Next]_vars => [~enabled => enabled' \/ status' # "running"]_vars
  <2> SUFFICES ASSUME StallInv, [Next]_vars, ~enabled, status' = "running"
               PROVE  enabled' = TRUE \/ UNCHANGED vars
    OBVIOUS
  <2>1. CASE RunProgram
    BY <2>1 DEF RunProgram, StallInv, TypeInv, BeforeRun
  <2> QED  BY <2>1, RunningSteps, HaltedTickRestarts
           DEF StallInv, Running, TickAdvance, TickRedirect
<1> QED  BY <1>1, InitStallInv, NextStallInv, PTL DEF Spec, StallsOneTick

\* The operand saved during a stall is the one the instruction needs after it.
THEOREM SavedOperand == Spec => []SavedOperandCurrent
<1>1. StallInv => SavedOperandCurrent
  BY DEF StallInv
<1> QED  BY <1>1, InitStallInv, NextStallInv, PTL DEF Spec

-----------------------------------------------------------------------------
(* Operands *)

\* x0 reads as 0.
LEMMA NextZeroReads ==
  ASSUME TypeInv, ZeroReads, [Next]_vars
  PROVE  ZeroReads'
<1>1. ASSUME NEW w, NEW R, R = [r \in Regs |-> R[r]], w.wb_a \in Regs, R[0] = 0
      PROVE  Written(w, R)[0] = 0
  <2>1. WriteReg(R, w.wb_a, w.wb_d)[0] = IF 0 = w.wb_a THEN IF w.wb_a = 0 THEN 0 ELSE w.wb_d
                                                       ELSE R[0]
    <3>1. 0 \in Regs
      BY DEF Regs
    <3> QED  BY <1>1, <3>1, WriteRegType
  <2>2. WriteReg(R, w.wb_a, w.wb_d)[0] = 0
    BY <1>1, <2>1
  <2> QED  BY <1>1, <2>2 DEF Written
<1>2. CASE RunProgram
  <2>1. SPReg \in Regs /\ SPReg # 0 /\ 0 \in Regs
    BY DEF SPReg, Regs
  <2> QED  BY <1>2, <2>1, WriteRegType DEF RunProgram, ZeroReads, TypeInv, ControlTypeOK
<1>3. CASE DoStages
  BY <1>1, <1>3 DEF DoStages, ZeroReads, TypeInv, ControlTypeOK
<1>4. CASE DoLastTicks
  <2> DEFINE last == WriteBackNext(me, mem)
             R == Written(wb, regs)
  <2>1. R = [r \in Regs |-> R[r]] /\ R[0] = 0
    BY <1>1, WrittenType DEF ZeroReads, TypeInv, ControlTypeOK
  <2>2. last.wb_a \in Regs
    BY WriteBackNextFields DEF TypeInv, ControlTypeOK
  <2>3. Written(last, R)[0] = 0
    BY <1>1, <2>1, <2>2
  <2>4. regs' \in {regs, Written(last, R)}
    BY <1>4 DEF DoLastTicks
  <2> QED  BY <2>3, <2>4 DEF ZeroReads
<1>5. CASE UNCHANGED regs
  BY <1>5 DEF ZeroReads
<1> QED  BY <1>2, <1>3, <1>4, <1>5
         DEF Next, Tick, TickAdvance, TickRedirect, TickHalted, TickTrap,
             TickMemoryFault, TickFetchFault, vars

\* What DoDecode latches for the instruction it decodes.
LEMMA LatchedOperands ==
  ASSUME TickAdvance
  PROVE  /\ ex'.instr = de.instr
         /\ hasRs1(GetInstructionType(de.instr.opcode)) =>
              ex'.data1 = regs'[de.instr.rs1]
         /\ ex'.data2 = regs'[de.instr.rs2]
<1>1. GetInstructionType("LUI") = "UType" /\ GetInstructionType("AUIPC") = "UType"
  BY Zenon DEF GetInstructionType
<1>2. hasRs1(GetInstructionType(de.instr.opcode)) =>
        de.instr.opcode # "LUI" /\ de.instr.opcode # "AUIPC"
  BY <1>1 DEF hasRs1
<1>3. ex' = ExecuteNext(regs')
  BY DEF TickAdvance
<1> QED  BY <1>2, <1>3, ExecuteNextFields DEF ExecuteNext

LEMMA NextBehindLoad ==
  ASSUME StallInv, BehindLoad, [Next]_vars
  PROVE  BehindLoad'
<1> SUFFICES ASSUME Running', ~enabled' PROVE BehindLoad'
  BY DEF BehindLoad
<1>1. CASE TickAdvance
  <2>1. ex'.pc_de = de.pc_de /\ text' = text
    BY <1>1, ExecuteNextFields DEF TickAdvance, DoStages
  <2>2. me'.mem_to_reg = ex.mem_to_reg /\ me'.wb_a = ex.instr.rd
    BY <1>1, MemoryNextFields DEF TickAdvance
  <2>3. Conflict'
    BY NextConflict DEF StallInv
  <2>4. ex.instr.opcode = "LOAD"
    BY <2>2, <2>3 DEF Conflict, StallInv, TypeInv, SignalsDecoded
  <2>5. ex.instr # ZeroInstr
    BY <2>4 DEF ZeroInstr
  <2>6. /\ ex.pc_de \in DOMAIN text /\ text[ex.pc_de] = ex.instr
        /\ de.pc_de = Add(ex.pc_de, 4)
    BY <2>5 DEF StallInv, InFlightInOrder
  <2>7. ex'.instr # ZeroInstr
    BY <2>3, BypassFromMemory DEF Conflict, ZeroInstr
  <2> QED  BY <1>1, <2>1, <2>2, <2>4, <2>6, <2>7, LatchedOperands DEF BehindLoad
<1>2. CASE RunProgram
  BY <1>2 DEF RunProgram, hazard, StallInv, TypeInv, BeforeRun
<1>3. CASE TickRedirect
  BY <1>3 DEF TickRedirect
<1>4. CASE TickHalted
  BY <1>4, HaltedTickRestarts
<1>5. CASE UNCHANGED vars
  BY <1>5 DEF BehindLoad, vars, stages, hazard, Running
<1> QED  BY <1>1, <1>2, <1>3, <1>4, <1>5, RunningSteps DEF StallInv

\* The registers an instruction must see, one by one.
LEMMA ArchRegsAt ==
  ASSUME NEW R, R = [r \in Regs |-> R[r]], R[0] = 0,
         NEW w, w.wb_a \in Regs, NEW m, m.wb_a \in Regs, NEW M, NEW r \in Regs
  PROVE  Written(WriteBackNext(m, M), Written(w, R))[r] =
           IF r = 0 THEN 0
           ELSE IF Writes(m, r) THEN WriteBackNext(m, M).wb_d
           ELSE IF Writes(w, r) THEN w.wb_d ELSE R[r]
<1>1. \A x \in Regs : Written(w, R)[x] =
        IF w.wb_we /\ w.wb_a = x THEN IF x = 0 THEN 0 ELSE w.wb_d ELSE R[x]
  BY WriteRegType DEF Written
<1> DEFINE S == Written(w, R)
           last == WriteBackNext(m, M)
<1>2. S = [x \in Regs |-> S[x]]
  BY WrittenType
<1>3. last.wb_a = m.wb_a /\ last.wb_we = m.wb_we
  BY WriteBackNextFields
<1> HIDE DEF S, last
<1>4. Written(last, S)[r] =
        IF last.wb_we /\ last.wb_a = r THEN IF r = 0 THEN 0 ELSE last.wb_d ELSE S[r]
  BY <1>2, <1>3, WriteRegType DEF Written
<1> QED  BY <1>1, <1>3, <1>4 DEF S, last, Writes

\* The tick that latches an instruction selects its operands.
LEMMA AdvanceOperands ==
  ASSUME StallInv, ZeroReads', TickAdvance, TypeInv'
  PROVE  OperandsCurrent'
<1> DEFINE type == GetInstructionType(de.instr.opcode)
           i == de.instr
<1> SUFFICES ASSUME enabled'
             PROVE  /\ IF hasRs1(type) THEN SrcA' = ArchRegs'[i.rs1]
                                       ELSE SrcA' = ex'.data1
                    /\ hasRs2(type) => Rs2V' = ArchRegs'[i.rs2]
  BY LatchedOperands DEF OperandsCurrent
<1>1. must_take_halted_wb' = "NONE"
  BY DEF TickAdvance, DoStages, SaveHaltedWB
<1>2. /\ hu_rs1' = BypassOf(hasRs1(type), i.rs1, me', wb')
      /\ hu_rs2' = BypassOf(hasRs2(type), i.rs2, me', wb')
      /\ me'.mem_to_reg => hu_rs1' # "MEM" /\ hu_rs2' # "MEM"
  BY LatchedOperands DEF TickAdvance, HazardUnitTick
<1>3. i.rs1 \in Regs /\ i.rs2 \in Regs
  BY DEF StallInv, TypeInv, ControlTypeOK, Instr, Regs
<1>4. \A r \in Regs : ArchRegs'[r] =
           IF r = 0 THEN 0
           ELSE IF Writes(me', r) THEN WriteBackNext(me', mem').wb_d
           ELSE IF Writes(wb', r) THEN wb'.wb_d ELSE regs'[r]
  BY ArchRegsAt DEF ArchRegs, TypeInv, ControlTypeOK, ZeroReads
<1>5. ~me'.mem_to_reg => WriteBackNext(me', mem').wb_d = me'.alu_res
  BY WriteBackNextFields
<1>6. /\ hasRs1(type) => ex'.data1 = regs'[i.rs1]
      /\ ex'.data2 = regs'[i.rs2]
  BY LatchedOperands
<1>7. ASSUME hasRs1(type) PROVE SrcA' = ArchRegs'[i.rs1]
  BY <1>1, <1>2, <1>3, <1>4, <1>5, <1>6, <1>7 DEF SrcA, BypassOf, ZeroReads
<1>8. ASSUME ~hasRs1(type) PROVE SrcA' = ex'.data1
  BY <1>1, <1>2, <1>8 DEF SrcA, BypassOf
<1>9. ASSUME hasRs2(type) PROVE Rs2V' = ArchRegs'[i.rs2]
  BY <1>1, <1>2, <1>3, <1>4, <1>5, <1>6, <1>9 DEF Rs2V, BypassOf, ZeroReads
<1> QED  BY <1>7, <1>8, <1>9

\* So does the tick that ends a stall, if the instruction in decode has its
\* registers in the same places.
LEMMA HaltedOperands ==
  ASSUME StallInv, BehindLoad, ZeroReads, ZeroReads', TickHalted, TypeInv', StallSafe(text)
  PROVE  OperandsCurrent'
<1> DEFINE i == ex.instr
           type == GetInstructionType(i.opcode)
           next == GetInstructionType(de.instr.opcode)
<1>1. ex' = ex /\ Running /\ ~enabled
  BY DEF TickHalted, DoStages
<1>2. /\ must_take_halted_wb = "NONE"
      /\ hu_rs1 = BypassOf(hasRs1(type), i.rs1, me, wb)
      /\ hu_rs2 = BypassOf(hasRs2(type), i.rs2, me, wb)
      /\ hu_rs1 = "MEM" \/ hu_rs2 = "MEM"
  BY <1>1 DEF StallInv, Conflict
<1>3. /\ hasRs1(type)
      /\ ex.data1 = regs[i.rs1] /\ ex.data2 = regs[i.rs2]
  <2>1. hasRs2(type) => hasRs1(type)
    BY DEF hasRs1, hasRs2
  <2>2. hasRs1(type)
    BY <1>2, <2>1, BypassFromMemory
  <2> QED  BY <1>1, <2>2 DEF BehindLoad
<1>4. /\ Writes(me, i.rs1) /\ i.rs1 # 0 => hasRs1(next)
      /\ Writes(me, i.rs2) /\ i.rs2 # 0 /\ hasRs2(type) => hasRs2(next)
  <2>1. PICK a \in DOMAIN text : /\ text[a].opcode = "LOAD" /\ text[a].rd = me.wb_a
                                 /\ ex.pc_de = Add(a, 4)
    BY <1>1 DEF BehindLoad
  <2>2. /\ ex.pc_de \in DOMAIN text /\ text[ex.pc_de] = i
        /\ de.pc_de \in DOMAIN text /\ text[de.pc_de] = de.instr
        /\ de.pc_de = Add(ex.pc_de, 4)
    BY <1>1 DEF BehindLoad, StallInv, InFlightInOrder
  <2> QED  BY <1>3, <2>1, <2>2 DEF StallSafe, Writes
<1>5. /\ hu_rs1' = BypassOf(hasRs1(next), i.rs1, me', wb')
      /\ hu_rs2' = BypassOf(hasRs2(next), i.rs2, me', wb')
      /\ regs' = Written(wb, regs)
  BY <1>1 DEF TickHalted, HazardUnitTick, DoStages
<1>6. \A r : ~Writes(me', r) /\ (Writes(wb', r) <=> Writes(me, r))
  BY WriteBackNextFields DEF TickHalted, MemoryCleared, Writes
<1>7. /\ must_take_halted_wb' = IF hu_rs1 = "WB" THEN "RS1"
                                ELSE IF hu_rs2 = "WB" THEN "RS2" ELSE "NONE"
      /\ hu_rs1 = "WB" \/ hu_rs2 = "WB" => halted_wb' = wb.wb_d
  BY <1>1, <1>2 DEF TickHalted, DoStages, SaveHaltedWB
<1>8. i.rs1 \in Regs /\ i.rs2 \in Regs
  BY DEF StallInv, TypeInv, ControlTypeOK, Instr, Regs
<1>9. \A r \in Regs : regs'[r] = IF Writes(wb, r) /\ r # 0 THEN wb.wb_d ELSE regs[r]
  BY <1>5, WriteRegType
     DEF Written, Writes, ZeroReads, StallInv, TypeInv, ControlTypeOK
<1>10. \A r \in Regs : ArchRegs'[r] =
           IF r = 0 THEN 0 ELSE IF Writes(wb', r) THEN wb'.wb_d ELSE regs'[r]
  BY <1>6, ArchRegsAt DEF ArchRegs, TypeInv, ControlTypeOK, ZeroReads
<1>11. SrcA' = ArchRegs'[i.rs1]
  BY <1>1, <1>2, <1>3, <1>4, <1>5, <1>6, <1>7, <1>8, <1>9, <1>10
     DEF SrcA, BypassOf, ZeroReads
<1>12. ASSUME hasRs2(type) PROVE Rs2V' = ArchRegs'[i.rs2]
  BY <1>1, <1>2, <1>3, <1>4, <1>5, <1>6, <1>7, <1>8, <1>9, <1>10, <1>12
     DEF Rs2V, BypassOf, ZeroReads
<1> QED  BY <1>1, <1>3, <1>11, <1>12 DEF OperandsCurrent

LEMMA NextOperandInv ==
  ASSUME OperandInv, [Next]_vars, status # "idle" => StallSafe(text)
  PROVE  OperandInv'
<1>1. StallInv' /\ TypeInv'
  BY NextStallInv DEF OperandInv, StallInv
<1>2. ZeroReads'
  BY NextZeroReads DEF OperandInv, StallInv
<1>3. BehindLoad'
  BY NextBehindLoad DEF OperandInv
<1>4. OperandsCurrent'
  <2> SUFFICES ASSUME Running' PROVE OperandsCurrent'
    BY DEF OperandsCurrent
  <2>1. CASE RunProgram
    BY <2>1 DEF RunProgram, OperandInv, StallInv, TypeInv, BeforeRun, OperandsCurrent
  <2>2. CASE TickAdvance
    BY <1>1, <1>2, <2>2, AdvanceOperands DEF OperandInv
  <2>3. CASE TickRedirect
    BY <2>3 DEF TickRedirect, ExecuteCleared, OperandsCurrent
  <2>4. CASE TickHalted
    BY <1>1, <1>2, <2>4, HaltedOperands DEF OperandInv, TickHalted, DoStages, Running
  <2>5. CASE UNCHANGED vars
    BY <2>5 DEF OperandInv, OperandsCurrent, vars, stages, hazard, Running, SrcA, Rs2V,
                ArchRegs
  <2> QED  BY <2>1, <2>2, <2>3, <2>4, <2>5, RunningSteps DEF OperandInv, StallInv
<1> QED  BY <1>1, <1>2, <1>3, <1>4 DEF OperandInv

\* If in every program the instruction behind each dependent load names its
\* registers where the dependent instruction does, the execute stage always
\* gets the architectural values of its source registers.  Without the
\* condition the property fails: HazardUnitTick looks at the type of the
\* instruction in decode when a stall ends.
THEOREM OperandsCorrect ==
  ASSUME \A p \in Programs : StallSafe(p)
  PROVE  Spec => []OperandsCurrent
<1>1. Init => OperandInv
  BY InitStallInv
     DEF Init, OperandInv, ZeroReads, BehindLoad, OperandsCurrent, Running, Regs
<1>2. OperandInv /\ [Next]_vars => OperandInv'
  BY NextOperandInv DEF OperandInv, StallInv, TypeInv, ImageLoaded
<1>3. OperandInv => OperandsCurrent
  BY DEF OperandInv
<1> QED  BY <1>1, <1>2, <1>3, PTL DEF Spec

-----------------------------------------------------------------------------
(* Traces *)

\* The registers and the memory are those of the traces, which are sequences;
\* nothing is in the memory trace before a program runs.
ReplayInv ==
  /\ TypeInv /\ ZeroReads /\ TracesReplay
  /\ IsTrace(reg_trace) /\ IsTrace(mmu_trace)
  /\ status = "idle" => mmu_trace = <<>>

\* The write port of the register file and its record.
LEMMA WrittenReplay ==
  ASSUME NEW w, NEW R, NEW t, IsTrace(t), RegReplayed(R, t), R[0] = 0
  PROVE  /\ RegReplayed(Written(w, R), t \o WriteTrace(w))
         /\ Written(w, R)[0] = 0 /\ IsTrace(t \o WriteTrace(w))
<1>1. CASE w.wb_we
  <2> DEFINE a == w.wb_a
             v == w.wb_d
  <2>1. Written(w, R) = WriteReg(R, a, v) /\ WriteTrace(w) = RegRecord(a, v)
    BY <1>1 DEF Written, WriteTrace
  <2> HIDE DEF a, v
  <2> QED  BY <2>1, RegReplayWrite
<1>2. CASE ~w.wb_we
  BY <1>2, AppendNothing DEF Written, WriteTrace
<1> QED  BY <1>1, <1>2

\* What DoMemory adds to the memory trace is a record or nothing.
LEMMA StoreTraceType ==
  ASSUME NEW m, NEW t, IsTrace(t)
  PROVE  IsTrace(t \o StoreTrace(m))
<1>1. CASE m.mem_we
  BY <1>1, AppendRecord DEF StoreTrace
<1>2. CASE ~m.mem_we
  BY <1>2, AppendNothing DEF StoreTrace
<1> QED  BY <1>1, <1>2

\* The store of DoMemory and its record.
LEMMA StoredReplay ==
  ASSUME NEW m, NEW M, NEW M0, NEW t, IsTrace(t), MemReplayed(M, M0, t), ~BadMode(m)
  PROVE  MemReplayed(StoredMem(m, M), M0, t \o StoreTrace(m))
<1>1. CASE m.mem_we
  <2> DEFINE code == m.store_mode
             addr == m.alu_res
             v == m.write_data
  <2>1. code \in {0, 1, 2}
    BY <1>1 DEF BadMode, Accesses, StoreModes
  <2>2. Width(code) = 2 ^ code
    BY <2>1 DEF Width
  <2>3. /\ StoredMem(m, M) = SetBytes(M, addr, 2 ^ code, Narrow(code, v))
        /\ StoreTrace(m) = <<StoreRecord(code, addr, v)>>
    BY <1>1, <2>2 DEF StoredMem, StoreTrace
  <2> HIDE DEF code, addr, v
  <2> QED  BY <2>3, MemReplayStore
<1>2. CASE ~m.mem_we
  BY <1>2, AppendNothing DEF StoredMem, StoreTrace
<1> QED  BY <1>1, <1>2

LEMMA NextReplay ==
  ASSUME ReplayInv, [Next]_vars
  PROVE  ReplayInv'
<1>1. TypeInv' /\ ZeroReads'
  BY NextTypeInv, NextZeroReads DEF ReplayInv
<1>2. CASE RunProgram
  <2>1. RegReplayed(regs', reg_trace') /\ IsTrace(reg_trace')
    BY <1>2, RegReplayWrite DEF RunProgram, ReplayInv, TracesReplay, ZeroReads
  <2>2. MemReplayed(mem', DataMem, mmu_trace') /\ UNCHANGED mmu_trace
    BY <1>2, ReplayInitially, DataMemAssumption DEF RunProgram, ReplayInv
  <2> QED  BY <1>1, <1>2, <2>1, <2>2 DEF RunProgram, ReplayInv, TracesReplay
<1>3. CASE DoStages /\ status' # "idle"
  <2>1. RegReplayed(regs', reg_trace') /\ IsTrace(reg_trace')
    BY <1>3, WrittenReplay DEF DoStages, ReplayInv, TracesReplay, ZeroReads
  <2>2. ~BadMode(me) /\ MemReplayed(mem, DataMem, mmu_trace)
    BY <1>3 DEF DoStages, MemoryFault, ReplayInv, TracesReplay, Running
  <2>3. MemReplayed(mem', DataMem, mmu_trace') /\ IsTrace(mmu_trace')
    BY <1>3, <2>2, StoredReplay, StoreTraceType DEF DoStages, ReplayInv
  <2> QED  BY <1>1, <1>3, <2>1, <2>3 DEF ReplayInv, TracesReplay
<1>4. CASE DoLastTicks
  <2> DEFINE last == WriteBackNext(me, mem)
             R == Written(wb, regs)
             t == reg_trace \o WriteTrace(wb)
  <2>1. RegReplayed(R, t) /\ IsTrace(t) /\ R[0] = 0
    BY WrittenReplay DEF ReplayInv, TracesReplay, ZeroReads
  <2>2. RegReplayed(Written(last, R), t \o WriteTrace(last)) /\ IsTrace(t \o WriteTrace(last))
    <3> HIDE DEF last, R, t
    <3> QED  BY <2>1, WrittenReplay
  <2>3. MemReplayed(mem, DataMem, mmu_trace) /\ status' # "idle"
    <3>1. status' \in {"exception", "segv", DecodeOutcome(de.instr)}
      BY <1>4 DEF DoLastTicks
    <3> QED  BY <1>4, <3>1, DecodeOutcomeType DEF DoLastTicks, ReplayInv, TracesReplay
  <2>4. CASE MemoryFault(me, mem)
    <3>1. UNCHANGED <<mem, regs, reg_trace>> /\ status' = IF BadMode(me) THEN "exception" ELSE "segv"
      BY <1>4, <2>4 DEF DoLastTicks
    <3>2. mmu_trace' = mmu_trace \o IF BadMode(me) THEN <<>> ELSE StoreTrace(me)
      BY <1>4 DEF DoLastTicks
    <3>3. CASE BadMode(me)
      BY <1>1, <2>3, <3>1, <3>2, <3>3, AppendNothing DEF ReplayInv, TracesReplay
    <3>4. CASE ~BadMode(me)
      BY <1>1, <3>1, <3>2, <3>4, StoreTraceType DEF ReplayInv, TracesReplay
    <3> QED  BY <3>3, <3>4
  <2>5. CASE ~MemoryFault(me, mem)
    <3>1. /\ mem' = StoredMem(me, mem) /\ mmu_trace' = mmu_trace \o StoreTrace(me)
          /\ regs' = Written(last, R) /\ reg_trace' = t \o WriteTrace(last)
          /\ ~BadMode(me)
      BY <1>4, <2>5 DEF DoLastTicks, MemoryFault
    <3>2. MemReplayed(mem', DataMem, mmu_trace') /\ IsTrace(mmu_trace')
      BY <2>3, <3>1, StoredReplay, StoreTraceType DEF ReplayInv
    <3> QED  BY <1>1, <2>2, <2>3, <3>1, <3>2 DEF ReplayInv, TracesReplay
  <2> QED  BY <2>4, <2>5
<1>5. CASE TickMemoryFault
  <2>1. /\ UNCHANGED <<mem, regs, reg_trace>> /\ status = "running"
        /\ status' = IF BadMode(me) THEN "exception" ELSE "segv"
        /\ mmu_trace' = mmu_trace \o IF BadMode(me) THEN <<>> ELSE StoreTrace(me)
    BY <1>5 DEF TickMemoryFault, Running
  <2>2. CASE BadMode(me)
    BY <1>1, <2>1, <2>2, AppendNothing DEF ReplayInv, TracesReplay
  <2>3. CASE ~BadMode(me)
    BY <1>1, <2>1, <2>3, StoreTraceType DEF ReplayInv, TracesReplay
  <2> QED  BY <2>2, <2>3
<1>6. CASE UNCHANGED vars
  BY <1>1, <1>6 DEF ReplayInv, TracesReplay, vars
<1> QED  BY <1>2, <1>3, <1>4, <1>5, <1>6
         DEF Next, Tick, TickAdvance, TickRedirect, TickHalted, TickTrap,
             TickFetchFault, DoStages, Running

\* The traces tell the machine: the last record of each register and of each
\* byte is what the cycle model holds there, although the records come from
\* other stages and other ticks than the instructions, and however the run
\* ends short of a segmentation fault.
THEOREM TracesTellMachine == Spec => []TracesReplay
<1>1. Init => ReplayInv
  BY InitTypeInv, ReplayInitially DEF Init, ReplayInv, TracesReplay, ZeroReads, Regs
<1>2. ReplayInv /\ [Next]_vars => ReplayInv'
  BY NextReplay
<1>3. ReplayInv => TracesReplay
  BY DEF ReplayInv
<1> QED  BY <1>1, <1>2, <1>3, PTL DEF Spec

-----------------------------------------------------------------------------
(* Words *)

AluOps == {"NOP", "ADD", "SUB", "AND", "OR", "XOR", "SLL", "SRL", "SRA", "SLT", "SLTU"}

\* The records of the traces have the types of the writer's arguments.
TraceRecords ==
  /\ exec_trace \in Seq(Word \X Instr)
  /\ reg_trace \in Seq(Regs \X Word)
  /\ mmu_trace \in Seq((0 .. 2) \X Word \X Word)

WordInv == TypeInv /\ TypeOK /\ ex.alu_op \in AluOps /\ TraceRecords

\* The functional units return words.
LEMMA ALUType ==
  ASSUME NEW op \in AluOps, NEW a \in Word, NEW b \in Word
  PROVE  ALU(op, a, b) \in Word
<1>1. a \in Int /\ b \in Int /\ 0 \in Word /\ 1 \in Word
  BY WordType DEF Word
<1>2. /\ ALU("NOP", a, b) = 0
      /\ ALU("ADD", a, b) = Add(a, b) /\ ALU("SUB", a, b) = Sub(a, b)
  BY Zenon DEF ALU
<1>3. /\ ALU("AND", a, b) = BitAnd(a, b) /\ ALU("OR", a, b) = BitOr(a, b)
      /\ ALU("XOR", a, b) = BitXor(a, b)
  BY Zenon DEF ALU
<1>4. /\ ALU("SLL", a, b) = Sll(a, b) /\ ALU("SRL", a, b) = Srl(a, b)
      /\ ALU("SRA", a, b) = Sra(a, b)
  BY Zenon DEF ALU
<1>5. /\ ALU("SLT", a, b) = IF Signed(a) < Signed(b) THEN 1 ELSE 0
      /\ ALU("SLTU", a, b) = IF a < b THEN 1 ELSE 0
  BY Zenon DEF ALU
<1>6. ALU("SLT", a, b) \in {0, 1} /\ ALU("SLTU", a, b) \in {0, 1}
  BY <1>5
<1>7. Add(a, b) \in Word /\ Sub(a, b) \in Word
  BY <1>1, SumType
<1>8. /\ BitAnd(a, b) \in Word /\ BitOr(a, b) \in Word /\ BitXor(a, b) \in Word
      /\ Sll(a, b) \in Word /\ Srl(a, b) \in Word /\ Sra(a, b) \in Word
  BY BitwiseType, ShiftType
<1> QED  BY <1>1, <1>2, <1>3, <1>4, <1>6, <1>7, <1>8 DEF AluOps

LEMMA BlockType ==
  ASSUME NEW i \in Instr
  PROVE  ImmediateExtensionBlock(i) \in Word
<1> DEFINE type == GetInstructionType(i.opcode)
<1>1. ImmediateExtensionBlock(i) \in {ImmI(i), ImmS(i), ImmB(i), ImmJ(i), ImmU(i), 0}
  <2>1. ImmediateExtensionBlock(i) =
          CASE type = "IType" -> ImmI(i)
            [] type = "SType" -> ImmS(i)
            [] type = "BType" -> ImmB(i)
            [] type = "JType" -> ImmJ(i)
            [] type = "UType" -> ImmU(i)
            [] OTHER          -> 0
    BY DEF ImmediateExtensionBlock
  <2> HIDE DEF type
  <2> QED  BY <2>1, Zenon
<1>2. 0 \in Word
  BY WordType DEF Word
<1> QED  BY <1>1, <1>2, ImmediateType

LEMMA AluOpType ==
  ASSUME NEW i \in Instr
  PROVE  AluOp(i) \in AluOps
<1>1. ArithmeticOp(i) \in AluOps
  <2>1. i.funct3 \in {0, 1, 2, 3, 4, 5, 6, 7}
    BY InstrType
  <2> QED  BY <2>1 DEF ArithmeticOp, AluOps
<1>2. AluOp(i) \in {ArithmeticOp(i), "ADD", "NOP"}
  BY Zenon DEF AluOp
<1> QED  BY <1>1, <1>2 DEF AluOps

LEMMA InitWordInv == Init => WordInv
<1> SUFFICES ASSUME Init PROVE WordInv
  OBVIOUS
<1>1. TypeInv
  BY InitTypeInv
<1>2. 0 \in Word
  BY WordType DEF Word
<1>3. TypeOK
  <2>1. ControlTypeOK
    BY <1>1 DEF TypeInv
  <2>2. /\ \A r \in Regs : regs[r] \in Word
        /\ \A a \in DOMAIN mem : mem[a] \in 0 .. ByteSize - 1
    BY <1>2 DEF Init
  <2>3. /\ {pc, de.pc_de, ex.pc_de, ex.data1, ex.data2, me.alu_res, me.write_data,
            wb.wb_d, halted_wb, trace_prev_pc} \subseteq Word
        /\ ex.funct3 \in 0 .. 7 /\ me.store_mode \in 0 .. 7
    BY <1>2 DEF Init, DecodeCleared, ExecuteCleared, MemoryCleared, WriteBackCleared
  <2> QED  BY <2>1, <2>2, <2>3 DEF TypeOK
<1>4. ex.alu_op \in AluOps /\ TraceRecords
  BY DEF Init, ExecuteCleared, AluOps, TraceRecords
<1> QED  BY <1>1, <1>3, <1>4 DEF WordInv

\* What the stages hand on are words.
LEMMA ExecuteWords ==
  ASSUME WordInv
  PROVE  /\ SrcA \in Word /\ Rs2V \in Word /\ AluRes \in Word
         /\ MemoryNext.alu_res \in Word /\ MemoryNext.write_data \in Word
         /\ MemoryNext.store_mode \in 0 .. 7
         /\ PCNext \in Word
<1>1. /\ ex.instr \in Instr /\ hu_rs1 \in Bypass /\ hu_rs2 \in Bypass
      /\ ex.alu_op \in AluOps /\ ex.funct3 \in 0 .. 7
      /\ pc \in Word /\ ex.pc_de \in Word /\ ex.data1 \in Word /\ ex.data2 \in Word
      /\ me.alu_res \in Word /\ wb.wb_d \in Word /\ halted_wb \in Word
  BY DEF WordInv, TypeOK, ControlTypeOK
<1>2. SrcA \in Word /\ Rs2V \in Word
  <2>1. SrcA \in {halted_wb, ex.data1, me.alu_res, wb.wb_d}
    BY <1>1 DEF SrcA, Bypass
  <2>2. Rs2V \in {halted_wb, ex.data2, me.alu_res, wb.wb_d}
    BY <1>1 DEF Rs2V, Bypass
  <2> QED  BY <1>1, <2>1, <2>2
<1>3. AluRes \in Word
  <2>1. AluRes \in {ALU(ex.alu_op, SrcA, ImmediateExtensionBlock(ex.instr)),
                    ALU(ex.alu_op, SrcA, Rs2V)}
    BY DEF AluRes
  <2>2. ImmediateExtensionBlock(ex.instr) \in Word
    BY <1>1, BlockType
  <2>3. ALU(ex.alu_op, SrcA, ImmediateExtensionBlock(ex.instr)) \in Word
    BY <1>1, <1>2, <2>2, ALUType
  <2>4. ALU(ex.alu_op, SrcA, Rs2V) \in Word
    BY <1>1, <1>2, ALUType
  <2> QED  BY <2>1, <2>3, <2>4
<1>4. \A v \in Word : v \in Int
  BY WordType
<1>5. Add(ex.pc_de, 4) \in Word
  <2>1. ex.pc_de \in Int
    BY <1>1, <1>4
  <2> QED  BY <2>1, SumType
<1>6. /\ MemoryNext.alu_res \in {Add(ex.pc_de, 4), AluRes}
      /\ MemoryNext.write_data = Rs2V /\ MemoryNext.store_mode = ex.funct3
  BY DEF MemoryNext
<1>7. pc_disp \in Int
  <2>1. pc_disp \in {AluRes - (AluRes % 2), ImmediateExtensionBlock(ex.instr)}
    BY DEF pc_disp
  <2>2. AluRes \in Int /\ ImmediateExtensionBlock(ex.instr) \in Int
    BY <1>1, <1>3, <1>4, BlockType
  <2>3. AluRes - (AluRes % 2) \in Int
    BY <2>2
  <2> QED  BY <2>1, <2>2, <2>3
<1>8. PCNext \in Word
  <2>1. PCNext \in {pc_disp % WordSize, Add(ex.pc_de, pc_disp), Add(ex.pc_de, 4),
                    Add(pc, pc_disp), Add(pc, 4)}
    BY DEF PCNext
  <2>2. pc \in Int /\ ex.pc_de \in Int /\ 4 \in Int
    BY <1>1, <1>4
  <2>3. pc_disp % WordSize \in Word
    BY <1>7, Remainder
  <2>4. /\ Add(ex.pc_de, pc_disp) \in Word /\ Add(ex.pc_de, 4) \in Word
        /\ Add(pc, pc_disp) \in Word /\ Add(pc, 4) \in Word
    BY <1>7, <2>2, SumType
  <2> QED  BY <2>1, <2>3, <2>4
<1> QED  BY <1>1, <1>2, <1>3, <1>5, <1>6, <1>8

\* The register file, written with a word.
LEMMA WrittenWords ==
  ASSUME NEW R, R = [r \in Regs |-> R[r]], \A r \in Regs : R[r] \in Word,
         NEW w, w.wb_a \in Regs, w.wb_d \in Word
  PROVE  \A r \in Regs : Written(w, R)[r] \in Word
<1>1. 0 \in Word
  BY WordType DEF Word
<1>2. \A r \in Regs : WriteReg(R, w.wb_a, w.wb_d)[r] \in {0, w.wb_d, R[r]}
  BY WriteRegType
<1> QED  BY <1>1, <1>2 DEF Written

LEMMA WriteTraceType ==
  ASSUME NEW w, w.wb_a \in Regs, w.wb_d \in Word, NEW t \in Seq(Regs \X Word)
  PROVE  t \o WriteTrace(w) \in Seq(Regs \X Word)
<1> DEFINE x == <<w.wb_a, w.wb_d>>
<1>1. WriteTrace(w) \in {<<>>, <<x>>}
  BY DEF WriteTrace, RegRecord
<1>2. x \in Regs \X Word
  OBVIOUS
<1> DEFINE S == Regs \X Word
<1>3. x \in S /\ t \in Seq(S)
  BY <1>2
<1> HIDE DEF S, x
<1>4. t \o <<x>> \in Seq(S) /\ t \o <<>> \in Seq(S)
  BY <1>3
<1>5. t \o WriteTrace(w) \in Seq(S)
  BY <1>1, <1>4
<1> QED  BY <1>5 DEF S

\* The width of an access whose mode the data memory unit accepts.
LEMMA WidthType ==
  \A mode \in LoadModes \cup StoreModes : Width(mode) \in {1, 2, 4}
<1>1. \A mode \in LoadModes \cup StoreModes : mode % 4 \in 0 .. 2
  BY DEF LoadModes, StoreModes
<1> QED  BY <1>1, Widths DEF Width

\* The memory stage: what it loads, stores and traces.
LEMMA MemoryWords ==
  ASSUME WordInv
  PROVE  /\ ~MemoryFault(me, mem) => /\ WriteBackNext(me, mem).wb_d \in Word
                                     /\ Memory(StoredMem(me, mem))
         /\ ~BadMode(me) => mmu_trace \o StoreTrace(me) \in Seq((0 .. 2) \X Word \X Word)
<1> DEFINE m == me
           S == (0 .. 2) \X Word \X Word
<1>1. /\ m.mem_we \in BOOLEAN /\ m.mem_to_reg \in BOOLEAN /\ m.alu_res \in Word
      /\ m.write_data \in Word /\ Memory(mem) /\ mmu_trace \in Seq(S)
  BY DEF WordInv, TypeOK, ControlTypeOK, TraceRecords, Memory, ByteValues
<1>2. m.alu_res \in Nat
  BY <1>1, WordType
<1>3. ~BadMode(m) /\ m.mem_we => m.store_mode \in StoreModes /\ m.store_mode \in 0 .. 2
  BY DEF BadMode, Accesses, StoreModes
<1>4. ~BadMode(m) /\ Accesses(m) => m.store_mode \in LoadModes \cup StoreModes
  BY DEF BadMode
<1>5. ~MemoryFault(m, mem) /\ Accesses(m) =>
        /\ ~BadMode(m) /\ Mapped(mem, m.alu_res, Width(m.store_mode))
        /\ Width(m.store_mode) \in {1, 2, 4}
  BY <1>4, WidthType DEF MemoryFault, SegFault
<1>6. ASSUME ~MemoryFault(m, mem)
      PROVE  WriteBackNext(m, mem).wb_d \in Word
  <2>1. CASE m.mem_to_reg
    <3> DEFINE n == Width(m.store_mode)
               a == m.alu_res
    <3>1. n \in {1, 2, 4} /\ Mapped(mem, a, n)
      BY <1>5, <1>6, <2>1 DEF Accesses
    <3>2. WriteBackNext(m, mem).wb_d = GetData(mem, a, m.store_mode)
      BY <2>1 DEF WriteBackNext
    <3>3. GetData(mem, a, m.store_mode) \in {GetBytes(mem, a, n), signExtend(GetBytes(mem, a, n), n)}
      BY DEF GetData
    <3> HIDE DEF n, a
    <3>4. GetBytes(mem, a, n) \in Word /\ signExtend(GetBytes(mem, a, n), n) \in Word
      BY <1>1, <1>2, <3>1, LoadedType DEF a
    <3> QED  BY <3>2, <3>3, <3>4
  <2>2. CASE ~m.mem_to_reg
    BY <1>1, <2>2, WriteBackNextFields
  <2> QED  BY <2>1, <2>2
<1>7. ASSUME ~MemoryFault(m, mem)
      PROVE  Memory(StoredMem(m, mem))
  <2>1. CASE m.mem_we
    <3> DEFINE n == Width(m.store_mode)
               a == m.alu_res
               v == Narrow(m.store_mode, m.write_data)
    <3>1. n \in {1, 2, 4} /\ ~BadMode(m)
      BY <1>5, <1>7, <2>1 DEF Accesses
    <3>2. v \in Word
      BY <1>1, <1>3, <2>1, <3>1, NarrowType
    <3>3. StoredMem(m, mem) = SetBytes(mem, a, n, v)
      BY <2>1 DEF StoredMem
    <3>4. a \in Nat
      BY <1>2
    <3> HIDE DEF n, a, v
    <3> QED  BY <1>1, <3>1, <3>2, <3>3, <3>4, SetBytesType
  <2>2. CASE ~m.mem_we
    BY <1>1, <2>2 DEF StoredMem
  <2> QED  BY <2>1, <2>2
<1>8. ASSUME ~BadMode(m)
      PROVE  mmu_trace \o StoreTrace(m) \in Seq(S)
  <2>1. CASE m.mem_we
    <3> DEFINE x == StoreRecord(m.store_mode, m.alu_res, m.write_data)
    <3>1. x \in S /\ StoreTrace(m) = <<x>>
      BY <1>1, <1>3, <1>8, <2>1, StoreRecordType DEF StoreTrace
    <3> HIDE DEF x, S
    <3> QED  BY <1>1, <3>1
  <2>2. CASE ~m.mem_we
    <3>1. StoreTrace(m) = <<>>
      BY <2>2 DEF StoreTrace
    <3> HIDE DEF S
    <3> QED  BY <1>1, <3>1
  <2> QED  BY <2>1, <2>2
<1> QED  BY <1>6, <1>7, <1>8

LEMMA ExecTraceType ==
  ASSUME NEW i \in Instr, NEW l \in Word, NEW p, NEW t \in Seq(Word \X Instr)
  PROVE  t \o ExecRecord(i, l, p) \in Seq(Word \X Instr)
<1> DEFINE S == Word \X Instr
           x == <<l, i>>
<1>1. x \in S /\ t \in Seq(S) /\ ExecRecord(i, l, p) \in {<<>>, <<x>>}
  BY DEF ExecRecord
<1> HIDE DEF S, x
<1>2. t \o <<x>> \in Seq(S) /\ t \o <<>> \in Seq(S)
  BY <1>1
<1>3. t \o ExecRecord(i, l, p) \in Seq(S)
  BY <1>1, <1>2
<1> QED  BY <1>3 DEF S

\* What every tick does whose memory access succeeds.
LEMMA DoStagesWords ==
  ASSUME WordInv, DoStages
  PROVE  /\ TraceRecords' /\ Memory(mem')
         /\ \A r \in Regs : regs'[r] \in Word
         /\ halted_wb' \in Word /\ trace_prev_pc' \in Word
         /\ WriteBackNext(me, mem).wb_d \in Word
<1>1. /\ ControlTypeOK /\ \A r \in Regs : regs[r] \in Word
      /\ ex.pc_de \in Word /\ wb.wb_d \in Word /\ halted_wb \in Word /\ trace_prev_pc \in Word
      /\ wb.wb_a \in Regs /\ ex.instr \in Instr /\ regs = [r \in Regs |-> regs[r]]
      /\ exec_trace \in Seq(Word \X Instr) /\ reg_trace \in Seq(Regs \X Word)
  BY DEF WordInv, TypeOK, ControlTypeOK, TraceRecords
<1>2. ~MemoryFault(me, mem) /\ ~BadMode(me)
  BY DEF DoStages, MemoryFault
<1>3. Memory(mem') /\ WriteBackNext(me, mem).wb_d \in Word
  BY <1>2, MemoryWords DEF DoStages
<1>4. mmu_trace' \in Seq((0 .. 2) \X Word \X Word)
  BY <1>2, MemoryWords DEF DoStages
<1>5. \A r \in Regs : regs'[r] \in Word
  BY <1>1, WrittenWords DEF DoStages
<1>6. reg_trace' \in Seq(Regs \X Word)
  BY <1>1, WriteTraceType DEF DoStages
<1>7. halted_wb' \in Word
  BY <1>1 DEF DoStages, SaveHaltedWB
<1>8. exec_trace' \in Seq(Word \X Instr) /\ trace_prev_pc' \in Word
  <2>1. exec_trace \o ExecRecord(ex.instr, ex.pc_de, trace_prev_pc) \in Seq(Word \X Instr)
    BY <1>1, ExecTraceType
  <2> QED  BY <1>1, <2>1 DEF DoStages, TraceExecutedInstruction
<1> QED  BY <1>3, <1>4, <1>5, <1>6, <1>7, <1>8 DEF TraceRecords

\* The fields of the stage registers that hold words.
StageWords ==
  /\ pc \in Word /\ de.pc_de \in Word
  /\ ex.pc_de \in Word /\ ex.data1 \in Word /\ ex.data2 \in Word
  /\ ex.funct3 \in 0 .. 7 /\ ex.alu_op \in AluOps
  /\ me.alu_res \in Word /\ me.write_data \in Word /\ me.store_mode \in 0 .. 7
  /\ wb.wb_d \in Word

LEMMA WordParts ==
  WordInv <=> /\ TypeInv /\ StageWords /\ TraceRecords /\ Memory(mem)
              /\ \A r \in Regs : regs[r] \in Word
              /\ halted_wb \in Word /\ trace_prev_pc \in Word
  BY DEF WordInv, TypeInv, TypeOK, StageWords, Memory, ByteValues

LEMMA LatchedWords ==
  /\ 0 \in Word /\ 0 \in 0 .. 7
  /\ ExecuteCleared.pc_de = 0 /\ ExecuteCleared.data1 = 0 /\ ExecuteCleared.data2 = 0
  /\ ExecuteCleared.funct3 = 0 /\ ExecuteCleared.alu_op \in AluOps
  /\ DecodeCleared.pc_de = 0
  /\ MemoryCleared.alu_res = 0 /\ MemoryCleared.write_data = 0 /\ MemoryCleared.store_mode = 0
<1>1. 0 \in Word
  BY WordType DEF Word
<1> QED  BY <1>1 DEF ExecuteCleared, DecodeCleared, MemoryCleared, AluOps

LEMMA NextWordInv ==
  ASSUME WordInv, [Next]_vars
  PROVE  WordInv'
<1>1. /\ TypeInv /\ StageWords /\ TraceRecords /\ Memory(mem)
      /\ \A r \in Regs : regs[r] \in Word
      /\ halted_wb \in Word /\ trace_prev_pc \in Word
      /\ ControlTypeOK
  BY WordParts DEF TypeInv
<1>2. TypeInv'
  BY <1>1, NextTypeInv
<1>3. SUFFICES /\ StageWords' /\ TraceRecords' /\ Memory(mem')
               /\ \A r \in Regs : regs'[r] \in Word
               /\ halted_wb' \in Word /\ trace_prev_pc' \in Word
  BY <1>2 DEF WordInv, TypeInv, TypeOK, StageWords, Memory, ByteValues
<1>4. CASE RunProgram
  <2>1. /\ UNCHANGED <<de, ex, me, wb, halted_wb, exec_trace, mmu_trace>>
        /\ pc' = Entry /\ mem' = DataMem /\ trace_prev_pc' = 0
        /\ regs' = WriteReg(regs, SPReg, StackPointer)
        /\ reg_trace' = reg_trace \o RegRecord(SPReg, StackPointer)
    BY <1>4 DEF RunProgram, hazard
  <2>2. StackPointer \in Word /\ SPReg \in Regs /\ 0 \in Word
    <3>1. StackPointer = WordSize - 8193
      BY WordType DEF StackPointer, MMUSize, PageSize
    <3> QED  BY <3>1, SmallPowers, LatchedWords, SMT DEF SPReg, Regs
  <2>3. Memory(mem')
    BY <2>1, DataMemAssumption DEF Memory, ByteValues
  <2>4. \A r \in Regs : regs'[r] \in Word
    <3>1. regs = [r \in Regs |-> regs[r]]
      BY <1>1 DEF ControlTypeOK
    <3> QED  BY <1>1, <2>1, <2>2, <3>1, WriteRegType
  <2>5. reg_trace' \in Seq(Regs \X Word)
    <3> DEFINE w == [wb_we |-> TRUE, wb_a |-> SPReg, wb_d |-> StackPointer]
    <3>1. w.wb_a \in Regs /\ w.wb_d \in Word /\ WriteTrace(w) = RegRecord(SPReg, StackPointer)
      BY <2>2 DEF WriteTrace
    <3> HIDE DEF w
    <3> QED  BY <1>1, <2>1, <3>1, WriteTraceType DEF TraceRecords
  <2> QED  BY <1>1, <2>1, <2>2, <2>3, <2>4, <2>5, EntryAssumption DEF StageWords, TraceRecords
<1>5. CASE TickAdvance
  <2>1. /\ DoStages /\ pc' = PCNext /\ de' = DecodeNext /\ ex' = ExecuteNext(regs')
        /\ me' = MemoryNext /\ wb' = WriteBackNext(me, mem)
    BY <1>5 DEF TickAdvance
  <2>2. /\ TraceRecords' /\ Memory(mem') /\ \A r \in Regs : regs'[r] \in Word
        /\ halted_wb' \in Word /\ trace_prev_pc' \in Word /\ wb'.wb_d \in Word
    BY <2>1, DoStagesWords
  <2>3. /\ pc' \in Word /\ me'.alu_res \in Word /\ me'.write_data \in Word
        /\ me'.store_mode \in 0 .. 7
    BY <2>1, ExecuteWords
  <2>4. de'.pc_de \in Word
    BY <1>1, <2>1 DEF DecodeNext, StageWords
  <2>5. /\ ex'.pc_de \in Word /\ ex'.data1 \in Word /\ ex'.data2 \in Word
        /\ ex'.funct3 \in 0 .. 7 /\ ex'.alu_op \in AluOps
    <3> DEFINE i == de.instr
    <3>1. i \in Instr /\ de.pc_de \in Word /\ 0 \in Word
      BY <1>1, LatchedWords DEF ControlTypeOK, StageWords
    <3>2. i.rs1 \in Regs /\ i.rs2 \in Regs /\ i.funct3 \in 0 .. 7
      BY <3>1, InstrType DEF Regs
    <3>3. ex'.data1 \in {0, de.pc_de, regs'[i.rs1]} /\ ex'.data2 = regs'[i.rs2]
      BY <2>1 DEF ExecuteNext
    <3>4. ex'.pc_de = de.pc_de /\ ex'.funct3 = i.funct3 /\ ex'.alu_op = AluOp(i)
      BY <2>1 DEF ExecuteNext, LoadControlSignals
    <3> QED  BY <2>2, <3>1, <3>2, <3>3, <3>4, AluOpType
  <2> QED  BY <2>2, <2>3, <2>4, <2>5 DEF StageWords
<1>6. CASE TickRedirect
  <2>1. /\ DoStages /\ pc' = PCNext /\ de' = DecodeCleared /\ ex' = ExecuteCleared
        /\ me' = MemoryNext /\ wb' = WriteBackNext(me, mem)
    BY <1>6 DEF TickRedirect
  <2> QED  BY <2>1, DoStagesWords, ExecuteWords, LatchedWords DEF StageWords
<1>7. CASE TickHalted
  <2>1. /\ DoStages /\ UNCHANGED <<pc, de, ex>>
        /\ me' = MemoryCleared /\ wb' = WriteBackNext(me, mem)
    BY <1>7 DEF TickHalted
  <2> QED  BY <1>1, <2>1, DoStagesWords, LatchedWords DEF StageWords
<1>8. CASE TickTrap
  <2>1. /\ DoStages /\ UNCHANGED <<pc, de, ex>>
        /\ me' \in {me, MemoryNext} /\ wb' \in {wb, WriteBackNext(me, mem)}
    BY <1>8 DEF TickTrap
  <2>2. /\ TraceRecords' /\ Memory(mem') /\ \A r \in Regs : regs'[r] \in Word
        /\ halted_wb' \in Word /\ trace_prev_pc' \in Word
        /\ WriteBackNext(me, mem).wb_d \in Word
    BY <2>1, DoStagesWords
  <2> QED  BY <1>1, <2>1, <2>2, ExecuteWords DEF StageWords
<1>9. CASE TickFetchFault
  <2>1. DoStages /\ UNCHANGED stages
    BY <1>9 DEF TickFetchFault
  <2> QED  BY <1>1, <2>1, DoStagesWords DEF StageWords, stages
<1>10. CASE TickMemoryFault
  <2>1. /\ UNCHANGED <<mem, regs, stages, hazard, trace_prev_pc, exec_trace, reg_trace>>
        /\ mmu_trace' = mmu_trace \o IF BadMode(me) THEN <<>> ELSE StoreTrace(me)
    BY <1>10 DEF TickMemoryFault
  <2>2. mmu_trace' \in Seq((0 .. 2) \X Word \X Word)
    BY <1>1, <2>1, MemoryWords DEF TraceRecords
  <2> QED  BY <1>1, <2>1, <2>2 DEF StageWords, TraceRecords, stages, hazard
<1>11. CASE DoLastTicks
  <2> DEFINE last == WriteBackNext(me, mem)
             R == Written(wb, regs)
  <2>1. /\ UNCHANGED <<pc, de, ex, me, halted_wb>>
        /\ mmu_trace' = mmu_trace \o IF BadMode(me) THEN <<>> ELSE StoreTrace(me)
        /\ \/ exec_trace' = exec_trace \o ExecRecord(de.instr, de.pc_de, trace_prev_pc)
              /\ trace_prev_pc' = de.pc_de
           \/ UNCHANGED <<exec_trace, trace_prev_pc>>
    BY <1>11 DEF DoLastTicks, TraceExecutedInstruction, hazard
  <2>2. mmu_trace' \in Seq((0 .. 2) \X Word \X Word)
    BY <1>1, <2>1, MemoryWords DEF TraceRecords
  <2>3. exec_trace' \in Seq(Word \X Instr) /\ trace_prev_pc' \in Word
    <3>1. exec_trace \o ExecRecord(de.instr, de.pc_de, trace_prev_pc) \in Seq(Word \X Instr)
      BY <1>1, ExecTraceType DEF TraceRecords, ControlTypeOK, StageWords
    <3> QED  BY <1>1, <2>1, <3>1 DEF TraceRecords, StageWords
  <2>4. CASE MemoryFault(me, mem)
    <3>1. UNCHANGED <<mem, regs, reg_trace, wb>>
      BY <1>11, <2>4 DEF DoLastTicks
    <3> QED  BY <1>1, <2>1, <2>2, <2>3, <3>1 DEF StageWords, TraceRecords
  <2>5. CASE ~MemoryFault(me, mem)
    <3>1. /\ mem' = StoredMem(me, mem) /\ wb' = last
          /\ regs' = Written(last, R)
          /\ reg_trace' = reg_trace \o WriteTrace(wb) \o WriteTrace(last)
      BY <1>11, <2>5 DEF DoLastTicks
    <3>2. last.wb_d \in Word /\ Memory(mem')
      BY <2>5, <3>1, MemoryWords
    <3>3. /\ last.wb_a \in Regs /\ wb.wb_a \in Regs /\ wb.wb_d \in Word
          /\ regs = [r \in Regs |-> regs[r]]
      BY <1>1, WriteBackNextFields DEF ControlTypeOK, StageWords
    <3>4. R = [r \in Regs |-> R[r]] /\ \A r \in Regs : R[r] \in Word
      BY <1>1, <3>3, WrittenType, WrittenWords
    <3> HIDE DEF last, R
    <3>5. \A r \in Regs : regs'[r] \in Word
      BY <3>1, <3>2, <3>3, <3>4, WrittenWords
    <3>6. reg_trace' \in Seq(Regs \X Word)
      <4> DEFINE t == reg_trace \o WriteTrace(wb)
      <4>1. t \in Seq(Regs \X Word)
        BY <1>1, <3>3, WriteTraceType DEF TraceRecords
      <4>2. reg_trace' = t \o WriteTrace(last)
        BY <3>1
      <4> HIDE DEF t
      <4> QED  BY <3>2, <3>3, <4>1, <4>2, WriteTraceType
    <3>7. StageWords' /\ TraceRecords'
      BY <1>1, <2>1, <2>2, <2>3, <3>1, <3>2, <3>6 DEF StageWords, TraceRecords
    <3> QED  BY <1>1, <2>1, <2>3, <3>2, <3>5, <3>7
  <2> QED  BY <2>4, <2>5
<1>12. CASE UNCHANGED vars
  BY <1>1, <1>12 DEF vars, stages, hazard, StageWords, TraceRecords
<1> QED  BY <1>4, <1>5, <1>6, <1>7, <1>8, <1>9, <1>10, <1>11, <1>12 DEF Next, Tick

\* Every register, latch and memory cell of the cycle model holds a value of
\* its type in the code: no sum, shift, immediate, sign extension, bypass or
\* load makes a word grow past XLEN bits, for any size of a byte.
THEOREM TypesCorrect == Spec => []TypeOK
<1>1. WordInv => TypeOK
  BY DEF WordInv
<1>2. WordInv /\ [Next]_vars => WordInv'
  BY NextWordInv
<1> QED  BY <1>1, <1>2, InitWordInv, PTL DEF Spec
=============================================================================
