-------------------------- MODULE RefinementProofs --------------------------
(***************************************************************************)
(* The cycle model implements the interpreter, for every word size and     *)
(* every set of well-scheduled programs, as long as a run meets no fault.  *)
(***************************************************************************)
EXTENDS CycleRefinement, PipelineProofs

\* The execute stage holds the signals of its instruction, which the control
\* unit has accepted, and the operand that DoDecode gives to LUI and AUIPC.
Decoded ==
  LET s == LoadControlSignals(ex.instr)
  IN  /\ ex.alu_op = s.alu_op /\ ex.alu_src2 = s.alu_src2 /\ ex.is_jalr = s.is_jalr
      /\ ex.mem_we = s.mem_we /\ ex.mem_to_reg = s.mem_to_reg
      /\ ex.brn_cond = s.brn_cond /\ ex.jmp_cond = s.jmp_cond
      /\ ex.cmp_control = s.cmp_control /\ ex.funct3 = s.funct3
      /\ ex.instr # ZeroInstr => ex.wb_we = s.wb_we
      /\ DecodeOutcome(ex.instr) = "ok"
      /\ ex.instr.opcode = "LUI" => ex.data1 = 0
      /\ ex.instr.opcode = "AUIPC" => ex.data1 = ex.pc_de
      /\ ~de.v_de /\ ~ex.v_de

\* TraceExecutedInstruction takes no instruction for the one it traced last.
TracedOnce ==
  /\ Running /\ ex.instr # ZeroInstr => ex.pc_de # trace_prev_pc
  /\ status = "draining" => de.pc_de # trace_prev_pc

\* Nothing is in the pipeline before the program runs.
Empty ==
  status = "idle" => /\ de = DecodeCleared /\ ex = ExecuteCleared
                     /\ me = MemoryCleared /\ wb = WriteBackCleared

RefinementInv ==
  OperandInv /\ ReplayInv /\ Decoded /\ TracedOnce /\ Empty /\ IsTrace(exec_trace)

\* No fault so far, and none of the access in the memory stage.
FaultFree ==
  /\ status \in {"idle", "running", "draining", "ECALL", "EBREAK"}
  /\ InFlight => ~MemoryFault(me, mem)

\* What the instruction in the execute stage will write back.
Delivered == WriteBackNext(MemoryNext, AbsMem)

\* The instruction in the execute stage leaves it: the abstract state gets its
\* register write, its store and its record, and goes to its successor.
Leaving ==
  /\ Running /\ enabled /\ ex.instr # ZeroInstr /\ ~MemoryFault(me, mem)
  /\ text' = text
  /\ exec_trace' = exec_trace \o <<<<ex.pc_de, ex.instr>>>>
  /\ AbsRegs' = Written(Delivered, AbsRegs)
  /\ AbsRegTrace' = AbsRegTrace \o WriteTrace(Delivered)
  /\ AbsMem' = StoredMem(MemoryNext, AbsMem)
  /\ AbsMmuTrace' = AbsMmuTrace \o StoreTrace(MemoryNext)
  /\ AbsStatus = "running" /\ AbsStatus' = "running"
  /\ AbsPC = ex.pc_de
  /\ AbsPC' = IF pc_r THEN PCNext ELSE Add(ex.pc_de, 4)

-----------------------------------------------------------------------------
(* Both models use the same words, immediates, memory and register file. *)

LEMMA SameWords ==
  /\ Functional!ByteSize = ByteSize /\ Functional!WordSize = WordSize
  /\ Functional!Regs = Regs /\ Functional!SPReg = SPReg
  /\ Functional!StackPointer = StackPointer
  /\ Functional!Opcodes = Opcodes
  BY DEF ByteSize, WordSize, XLEN, Functional!ByteSize, Functional!WordSize,
         Functional!XLEN, Regs, Functional!Regs, SPReg, Functional!SPReg,
         StackPointer, MMUSize, PageSize, Functional!StackPointer,
         Functional!MMUSize, Functional!PageSize, Opcodes, Functional!Opcodes

LEMMA SameArithmetic ==
  ASSUME NEW a, NEW b
  PROVE  /\ Functional!Add(a, b) = Add(a, b) /\ Functional!Sub(a, b) = Sub(a, b)
         /\ Functional!Signed(a) = Signed(a)
         /\ Functional!Sll(a, b) = Sll(a, b) /\ Functional!Srl(a, b) = Srl(a, b)
         /\ Functional!Sra(a, b) = Sra(a, b)
<1>1. Functional!XLEN = XLEN /\ Functional!SignBit = SignBit
  BY SameWords DEF XLEN, Functional!XLEN, SignBit, Functional!SignBit
<1>2. \A x : Functional!Signed(x) = Signed(x)
  BY <1>1, SameWords DEF Signed, Functional!Signed
<1> QED  BY <1>1, <1>2, SameWords
         DEF Add, Sub, Sll, Srl, Sra, Functional!Add, Functional!Sub,
             Functional!Sll, Functional!Srl, Functional!Sra

LEMMA SameBits ==
  ASSUME NEW a, NEW b
  PROVE  /\ Functional!BitAnd(a, b) = BitAnd(a, b)
         /\ Functional!BitOr(a, b) = BitOr(a, b)
         /\ Functional!BitXor(a, b) = BitXor(a, b)
<1>1. \A x : Functional!Bits(x) = Bits(x)
  BY DEF Bits, Functional!Bits, XLEN, Functional!XLEN
<1>2. \A S : Functional!FromBits(S) = FromBits(S)
  BY Zenon DEF FromBits, SumSet, FoldSet, MapThenFoldSet, Functional!FromBits,
               Functional!SumSet, Functional!FoldSet, Functional!MapThenFoldSet
<1>3. \A S, T : Functional!SymDiff(S, T) = SymDiff(S, T)
  BY Zenon DEF SymDiff, Functional!SymDiff
<1> QED  BY <1>1, <1>2, <1>3
         DEF BitAnd, BitOr, BitXor, Functional!BitAnd, Functional!BitOr,
             Functional!BitXor

LEMMA SameImmediates ==
  ASSUME NEW i
  PROVE  /\ Functional!ImmI(i) = ImmI(i) /\ Functional!ImmS(i) = ImmS(i)
         /\ Functional!ImmB(i) = ImmB(i) /\ Functional!ImmU(i) = ImmU(i)
         /\ Functional!ImmJ(i) = ImmJ(i)
<1>1. \A v, bits : Functional!Extend(v, bits, i) = Extend(v, bits, i)
  BY SameWords DEF Extend, Functional!Extend
<1> QED  BY <1>1, SameWords
         DEF ImmI, ImmS, ImmB, ImmU, ImmJ, Functional!ImmI, Functional!ImmS,
             Functional!ImmB, Functional!ImmU, Functional!ImmJ

LEMMA SameStorage ==
  /\ \A M, a, n : Functional!Mapped(M, a, n) <=> Mapped(M, a, n)
  /\ \A M, a, n : Functional!GetBytes(M, a, n) = GetBytes(M, a, n)
  /\ \A M, a, n, v : Functional!SetBytes(M, a, n, v) = SetBytes(M, a, n, v)
  /\ \A c, v : Functional!Narrow(c, v) = Narrow(c, v)
  /\ \A c, a, v : Functional!StoreRecord(c, a, v) = StoreRecord(c, a, v)
  /\ \A R, a, v : Functional!WriteReg(R, a, v) = WriteReg(R, a, v)
  /\ \A a, v : Functional!RegRecord(a, v) = RegRecord(a, v)
<1>1. \A M, a, n : Functional!Mapped(M, a, n) <=> Mapped(M, a, n)
  BY DEF Mapped, Functional!Mapped
<1>2. \A M, a, n : Functional!GetBytes(M, a, n) = GetBytes(M, a, n)
  BY Zenon DEF GetBytes, ByteSize, MapThenSumSet, MapThenFoldSet,
               Functional!GetBytes, Functional!ByteSize, Functional!MapThenSumSet,
               Functional!MapThenFoldSet
<1>3. \A v, k : Functional!ByteAt(v, k) = ByteAt(v, k)
  BY SameWords DEF ByteAt, Functional!ByteAt
<1>4. \A M, a, n, v : Functional!SetBytes(M, a, n, v) = SetBytes(M, a, n, v)
  BY <1>3 DEF SetBytes, Functional!SetBytes
<1>5. \A c, v : Functional!Narrow(c, v) = Narrow(c, v)
  BY SameWords DEF Narrow, Functional!Narrow
<1>6. \A c, a, v : Functional!StoreRecord(c, a, v) = StoreRecord(c, a, v)
  BY <1>5 DEF StoreRecord, Functional!StoreRecord
<1>7. /\ \A R, a, v : Functional!WriteReg(R, a, v) = WriteReg(R, a, v)
      /\ \A a, v : Functional!RegRecord(a, v) = RegRecord(a, v)
  BY DEF WriteReg, RegRecord, Functional!WriteReg, Functional!RegRecord
<1> QED  BY <1>1, <1>2, <1>4, <1>5, <1>6, <1>7

-----------------------------------------------------------------------------
(* The inductive invariant *)

LEMMA ZeroInstrDecodes ==
  /\ DecodeOutcome(ZeroInstr) = "ok" /\ AluOp(ZeroInstr) = "NOP"
  /\ CmpControl(ZeroInstr) = "NOP" /\ GetInstructionType("ZERO") = "UNKNOWN"
<1>1. DecodeOutcome(ZeroInstr) = "ok"
  BY Zenon DEF DecodeOutcome, ZeroInstr
<1>2. AluOp(ZeroInstr) = "NOP"
  BY Zenon DEF AluOp, ZeroInstr
<1>3. CmpControl(ZeroInstr) = "NOP"
  BY Zenon DEF CmpControl, ZeroInstr
<1>4. GetInstructionType("ZERO") = "UNKNOWN"
  BY Zenon DEF GetInstructionType
<1> QED  BY <1>1, <1>2, <1>3, <1>4

\* The signals of an instruction, one by one.
LEMMA Signals ==
  ASSUME NEW i
  PROVE  LET s == LoadControlSignals(i)
         IN  /\ s.alu_op = AluOp(i) /\ s.cmp_control = CmpControl(i) /\ s.funct3 = i.funct3
             /\ s.alu_src2 = (GetInstructionType(i.opcode) \in {"IType", "SType", "UType"})
             /\ s.is_jalr = (i.opcode = "JALR")
             /\ s.wb_we = (i.opcode \notin {"STORE", "BRANCH"})
             /\ s.mem_we = (i.opcode = "STORE") /\ s.mem_to_reg = (i.opcode = "LOAD")
             /\ s.brn_cond = (i.opcode = "BRANCH")
             /\ s.jmp_cond = (i.opcode \in {"JAL", "JALR"})
  BY DEF LoadControlSignals

LEMMA ClearedDecoded ==
  ASSUME NEW e, e = ExecuteCleared
  PROVE  LET s == LoadControlSignals(e.instr)
         IN  /\ e.alu_op = s.alu_op /\ e.alu_src2 = s.alu_src2 /\ e.is_jalr = s.is_jalr
             /\ e.mem_we = s.mem_we /\ e.mem_to_reg = s.mem_to_reg
             /\ e.brn_cond = s.brn_cond /\ e.jmp_cond = s.jmp_cond
             /\ e.cmp_control = s.cmp_control /\ e.funct3 = s.funct3
<1>1. /\ e.instr.opcode = "ZERO" /\ e.instr.funct3 = 0 /\ e.instr = ZeroInstr
  BY DEF ZeroInstr, ExecuteCleared
<1>2. /\ e.alu_op = "NOP" /\ e.cmp_control = "NOP" /\ e.funct3 = 0
      /\ e.alu_src2 = FALSE /\ e.is_jalr = FALSE
      /\ e.mem_we = FALSE /\ e.mem_to_reg = FALSE
      /\ e.brn_cond = FALSE /\ e.jmp_cond = FALSE
  BY DEF ExecuteCleared
<1>3. AluOp(e.instr) = "NOP" /\ CmpControl(e.instr) = "NOP"
      /\ GetInstructionType(e.instr.opcode) = "UNKNOWN"
  BY <1>1, ZeroInstrDecodes
<1> DEFINE s == LoadControlSignals(e.instr)
<1>4. /\ s.alu_op = "NOP" /\ s.cmp_control = "NOP" /\ s.funct3 = 0
      /\ s.alu_src2 = FALSE /\ s.is_jalr = FALSE
      /\ s.mem_we = FALSE /\ s.mem_to_reg = FALSE
      /\ s.brn_cond = FALSE /\ s.jmp_cond = FALSE
  <2> DEFINE i == e.instr
  <2>1. /\ s.alu_op = AluOp(i) /\ s.cmp_control = CmpControl(i) /\ s.funct3 = i.funct3
        /\ s.alu_src2 = (GetInstructionType(i.opcode) \in {"IType", "SType", "UType"})
        /\ s.is_jalr = (i.opcode = "JALR")
        /\ s.mem_we = (i.opcode = "STORE") /\ s.mem_to_reg = (i.opcode = "LOAD")
        /\ s.brn_cond = (i.opcode = "BRANCH")
        /\ s.jmp_cond = (i.opcode \in {"JAL", "JALR"})
    BY Signals
  <2>2. /\ (GetInstructionType(i.opcode) \in {"IType", "SType", "UType"}) = FALSE
        /\ (i.opcode = "JALR") = FALSE /\ (i.opcode = "STORE") = FALSE
        /\ (i.opcode = "LOAD") = FALSE /\ (i.opcode = "BRANCH") = FALSE
        /\ (i.opcode \in {"JAL", "JALR"}) = FALSE
    BY <1>1, <1>3
  <2> HIDE DEF s, i
  <2>3. /\ s.alu_src2 = FALSE /\ s.is_jalr = FALSE
        /\ s.mem_we = FALSE /\ s.mem_to_reg = FALSE
        /\ s.brn_cond = FALSE /\ s.jmp_cond = FALSE
    BY <2>1, <2>2
  <2> QED  BY <1>1, <1>3, <2>1, <2>3 DEF i
<1> HIDE DEF s
<1>5. /\ e.alu_op = s.alu_op /\ e.alu_src2 = s.alu_src2 /\ e.is_jalr = s.is_jalr
      /\ e.mem_we = s.mem_we /\ e.mem_to_reg = s.mem_to_reg
      /\ e.brn_cond = s.brn_cond /\ e.jmp_cond = s.jmp_cond
      /\ e.cmp_control = s.cmp_control /\ e.funct3 = s.funct3
  BY <1>2, <1>4
<1> QED  BY <1>5 DEF s

LEMMA NextDecoded ==
  ASSUME TypeInv, Decoded, [Next]_vars
  PROVE  Decoded'
<1>1. CASE TickAdvance
  <2>1. ex' = ExecuteNext(regs') /\ de' = DecodeNext /\ ~pc_r
        /\ DecodeOutcome(de.instr) = "ok"
    BY <1>1 DEF TickAdvance
  <2>2. ~de'.v_de /\ ~ex'.v_de
    BY <2>1, ExecuteNextFields DEF DecodeNext, Decoded
  <2>3. ex'.instr = de.instr
    BY <2>1, ExecuteNextFields
  <2>4. LET t == LoadControlSignals(de.instr)
        IN  /\ ex'.alu_op = t.alu_op /\ ex'.alu_src2 = t.alu_src2
            /\ ex'.is_jalr = t.is_jalr
            /\ ex'.mem_we = t.mem_we /\ ex'.mem_to_reg = t.mem_to_reg
            /\ ex'.brn_cond = t.brn_cond /\ ex'.jmp_cond = t.jmp_cond
            /\ ex'.cmp_control = t.cmp_control /\ ex'.funct3 = t.funct3
            /\ ex'.wb_we = t.wb_we
    BY <2>1 DEF ExecuteNext
  <2>5. /\ de.instr.opcode = "LUI" => ex'.data1 = 0
        /\ de.instr.opcode = "AUIPC" => ex'.data1 = ex'.pc_de
    BY <2>1 DEF ExecuteNext
  <2> QED  BY <2>1, <2>2, <2>3, <2>4, <2>5 DEF Decoded
<1>2. CASE TickRedirect
  <2>1. ex' = ExecuteCleared /\ de' = DecodeCleared
    BY <1>2 DEF TickRedirect
  <2>2. ex'.instr = ZeroInstr /\ ZeroInstr.opcode = "ZERO" /\ ~ex'.v_de /\ ~de'.v_de
    BY <2>1 DEF ExecuteCleared, DecodeCleared, ZeroInstr
  <2> QED  BY <2>1, <2>2, ClearedDecoded, ZeroInstrDecodes DEF Decoded
<1>3. CASE UNCHANGED <<de, ex>>
  BY <1>3 DEF Decoded
<1> QED  BY <1>1, <1>2, <1>3
         DEF Next, Tick, RunProgram, TickHalted, TickTrap, DoLastTicks,
             TickMemoryFault, TickFetchFault, vars, stages

\* The next location is another one.
LEMMA NextLocation ==
  ASSUME NEW a \in Nat
  PROVE  Add(a, 4) # a
<1> SUFFICES ASSUME Add(a, 4) = a PROVE FALSE
  OBVIOUS
<1> DEFINE W == WordSize
           x == a + 4
<1>1. W \in Nat /\ W >= 4096
  BY WordSizeAssumption
<1> HIDE DEF W
<1>2. x % W = a
  BY DEF Add, W
<1>3. \A y \in Nat, m \in Nat : m > 0 => y - (y % m) = m * (y \div m) /\ (y \div m) \in Int
  OBVIOUS
<1>4. 4 = W * (x \div W) /\ (x \div W) \in Int
  BY <1>1, <1>2, <1>3
<1>5. \A q \in Int, m \in Nat : m >= 4096 => m * q # 4
  OBVIOUS
<1> QED  BY <1>1, <1>4, <1>5

\* An instruction that the control unit refuses meets a running pipeline, and
\* no branch or jump in front of it.
LEMMA TrapInOrder ==
  ASSUME StallInv, BehindLoad, Decoded, Running, DecodeOutcome(de.instr) # "ok",
         TrapSafe(text)
  PROVE  enabled /\ ~pc_r
<1>1. de.instr # ZeroInstr
  BY ZeroInstrDecodes
<1>2. ASSUME pc_r PROVE FALSE
  <2>1. Redirects(ex.instr)
    BY <1>2 DEF pc_r, Decoded, LoadControlSignals, Redirects
  <2>2. ex.instr # ZeroInstr
    BY <2>1 DEF Redirects, ZeroInstr
  <2>3. /\ ex.pc_de \in DOMAIN text /\ ex.instr = text[ex.pc_de]
        /\ de.pc_de \in DOMAIN text /\ de.instr = text[de.pc_de]
        /\ de.pc_de = Add(ex.pc_de, 4)
    BY <2>2 DEF StallInv, InFlightInOrder
  <2> QED  BY <2>1, <2>3 DEF TrapSafe
<1>3. ASSUME ~enabled PROVE FALSE
  <2>1. PICK a \in DOMAIN text : /\ text[a].opcode = "LOAD" /\ text[a].rd = me.wb_a
                                 /\ ex.pc_de = Add(a, 4)
    BY <1>3 DEF BehindLoad
  <2>2. /\ ex.pc_de \in DOMAIN text /\ ex.instr = text[ex.pc_de]
        /\ de.pc_de \in DOMAIN text /\ de.instr = text[de.pc_de]
        /\ de.pc_de = Add(ex.pc_de, 4)
    BY <1>3 DEF BehindLoad, StallInv, InFlightInOrder
  <2>3. ReadsLoaded(ex.instr, text[a])
    BY <1>3, <2>1, BypassFromMemory
       DEF StallInv, Conflict, ReadsLoaded, Writes
  <2> QED  BY <2>1, <2>2, <2>3 DEF TrapSafe
<1> QED  BY <1>2, <1>3 DEF StallInv, TypeInv, ControlTypeOK

LEMMA ExecRecordType ==
  ASSUME NEW t, IsTrace(t), NEW i, NEW a, NEW b
  PROVE  IsTrace(t \o ExecRecord(i, a, b))
  BY AppendRecord, AppendNothing DEF ExecRecord

LEMMA NextExecTrace ==
  ASSUME IsTrace(exec_trace), [Next]_vars
  PROVE  IsTrace(exec_trace')
<1>1. CASE UNCHANGED exec_trace
  BY <1>1
<1>2. CASE \E i, a : TraceExecutedInstruction(i, a)
  BY <1>2, ExecRecordType DEF TraceExecutedInstruction
<1>3. CASE DoStages
  BY <1>1, <1>2, <1>3 DEF DoStages
<1> QED  BY <1>1, <1>2, <1>3
         DEF Next, Tick, RunProgram, TickAdvance, TickRedirect, TickHalted, TickTrap,
             DoLastTicks, TickMemoryFault, TickFetchFault, vars

LEMMA NextEmpty ==
  ASSUME TypeInv, Empty, [Next]_vars
  PROVE  Empty'
<1> SUFFICES ASSUME status' = "idle" PROVE Empty'
  BY DEF Empty
<1>1. ~DoLastTicks
  <2> SUFFICES ASSUME DoLastTicks PROVE FALSE
    OBVIOUS
  <2>1. status' \in {"exception", "segv", DecodeOutcome(de.instr)}
    BY DEF DoLastTicks
  <2> QED  BY <2>1, DecodeOutcomeType
<1>2. UNCHANGED vars
  BY <1>1 DEF Next, Tick, RunProgram, TickAdvance, TickRedirect, TickHalted, TickTrap,
              TickMemoryFault, TickFetchFault, DoStages, Running
<1> QED  BY <1>2 DEF Empty, vars, stages

\* The location of an instruction of a well-scheduled program is no cleared one
\* and is followed by another.
LEMMA Locations ==
  ASSUME NEW p, WellScheduled(p), \A a \in DOMAIN p : a \in Nat, NEW a \in DOMAIN p
  PROVE  a # 0 /\ Add(a, 4) # a
  BY NextLocation DEF WellScheduled

LEMMA NextTracedOnce ==
  ASSUME OperandInv, Decoded, TracedOnce, Faultless, [Next]_vars,
         status # "idle" => WellScheduled(text)
  PROVE  TracedOnce'
<1>1. CASE RunProgram
  BY <1>1 DEF RunProgram, TracedOnce, OperandInv, StallInv, TypeInv, BeforeRun, Running
<1>2. ASSUME Running
      PROVE  /\ TrapSafe(text)
             /\ \A a \in DOMAIN text : a # 0 /\ Add(a, 4) # a
  <2>1. text \in Programs
    BY <1>2 DEF OperandInv, StallInv, TypeInv, ImageLoaded, Running
  <2>2. WellScheduled(text) /\ \A a \in DOMAIN text : a \in Nat
    BY <1>2, <2>1, ProgramsAssumption DEF Running
  <2> QED  BY <2>2, Locations DEF WellScheduled
<1>3. ASSUME DoStages, enabled, de.instr # ZeroInstr \/ ex.instr # ZeroInstr
      PROVE  de.pc_de # trace_prev_pc'
  <2>1. trace_prev_pc' = ex.pc_de /\ Running
    BY <1>3 DEF DoStages, TraceExecutedInstruction
  <2>2. CASE ex.instr # ZeroInstr
    BY <1>2, <2>1, <2>2 DEF OperandInv, StallInv, InFlightInOrder
  <2>3. CASE ex.instr = ZeroInstr
    BY <1>2, <1>3, <2>1, <2>3 DEF OperandInv, StallInv, InFlightInOrder, Faultless
  <2> QED  BY <2>2, <2>3
<1>4. CASE TickAdvance
  <2>1. ex'.instr = de.instr /\ ex'.pc_de = de.pc_de
    BY <1>4, ExecuteNextFields DEF TickAdvance
  <2> QED  BY <1>3, <1>4, <2>1 DEF TickAdvance, TracedOnce, DoStages, Running
<1>5. CASE TickRedirect
  BY <1>5 DEF TickRedirect, DoStages, TracedOnce, Running, ExecuteCleared
<1>6. CASE TickHalted
  BY <1>6 DEF TickHalted, DoStages, TracedOnce, Running
<1>7. CASE TickTrap
  <2>1. DoStages /\ DecodeOutcome(de.instr) # "ok" /\ UNCHANGED de
        /\ status' \in {"abort", "draining"}
    BY <1>7 DEF TickTrap
  <2>2. Running /\ enabled /\ de.instr # ZeroInstr
    BY <1>2, <2>1, TrapInOrder, ZeroInstrDecodes DEF DoStages, OperandInv
  <2> QED  BY <1>3, <2>1, <2>2 DEF TracedOnce, Running
<1>8. CASE status' \notin {"running", "draining"}
  BY <1>8 DEF TracedOnce, Running
<1>9. CASE UNCHANGED vars
  BY <1>9 DEF TracedOnce, Running, vars, stages
<1>10. DoLastTicks => status' \notin {"running", "draining"}
  <2> SUFFICES ASSUME DoLastTicks PROVE status' \notin {"running", "draining"}
    OBVIOUS
  <2>1. status' \in {"exception", "segv", DecodeOutcome(de.instr)}
    BY DEF DoLastTicks
  <2> QED  BY <2>1, DecodeOutcomeType
<1> QED  BY <1>1, <1>4, <1>5, <1>6, <1>7, <1>8, <1>9, <1>10
         DEF Next, Tick, TickMemoryFault, TickFetchFault

LEMMA InitRefinementInv == Init => RefinementInv
<1> SUFFICES ASSUME Init PROVE RefinementInv
  OBVIOUS
<1>1. OperandInv
  BY InitStallInv
     DEF Init, OperandInv, ZeroReads, BehindLoad, OperandsCurrent, Running, Regs
<1>2. ReplayInv
  BY InitTypeInv, ReplayInitially DEF Init, ReplayInv, TracesReplay, ZeroReads, Regs
<1>3. Decoded
  <2>1. ex = ExecuteCleared /\ de = DecodeCleared
    BY DEF Init
  <2>2. ex.instr = ZeroInstr /\ ZeroInstr.opcode = "ZERO" /\ ~ex.v_de /\ ~de.v_de
    BY <2>1 DEF ExecuteCleared, DecodeCleared, ZeroInstr
  <2> QED  BY <2>1, <2>2, ClearedDecoded, ZeroInstrDecodes DEF Decoded
<1>4. TracedOnce /\ Empty /\ IsTrace(exec_trace)
  BY ReplayInitially DEF Init, TracedOnce, Empty, Running
<1> QED  BY <1>1, <1>2, <1>3, <1>4 DEF RefinementInv

LEMMA NextRefinementInv ==
  ASSUME RefinementInv, Faultless, [Next]_vars, status # "idle" => WellScheduled(text)
  PROVE  RefinementInv'
<1>1. OperandInv'
  BY NextOperandInv DEF RefinementInv, WellScheduled
<1>2. ReplayInv'
  BY NextReplay DEF RefinementInv
<1>3. TypeInv
  BY DEF RefinementInv, OperandInv, StallInv
<1>4. Decoded' /\ Empty' /\ IsTrace(exec_trace')
  BY <1>3, NextDecoded, NextEmpty, NextExecTrace DEF RefinementInv
<1>5. TracedOnce'
  BY NextTracedOnce DEF RefinementInv
<1> QED  BY <1>1, <1>2, <1>4, <1>5 DEF RefinementInv

-----------------------------------------------------------------------------
(* The abstract state *)

LEMMA AbsStateType ==
  ASSUME RefinementInv
  PROVE  /\ AbsRegs = [r \in Regs |-> AbsRegs[r]] /\ AbsRegs[0] = 0
         /\ IsTrace(AbsRegTrace) /\ IsTrace(AbsMmuTrace)
<1> DEFINE R == Written(wb, regs)
           t == reg_trace \o WriteTrace(wb)
           last == WriteBackNext(me, mem)
<1>1. RegReplayed(regs, reg_trace) /\ IsTrace(reg_trace) /\ regs[0] = 0 /\ IsTrace(mmu_trace)
  BY DEF RefinementInv, ReplayInv, TracesReplay, ZeroReads
<1>2. RegReplayed(R, t) /\ IsTrace(t) /\ R[0] = 0
  BY <1>1, WrittenReplay
<1>3. /\ RegReplayed(Written(last, R), t \o WriteTrace(last))
      /\ IsTrace(t \o WriteTrace(last)) /\ Written(last, R)[0] = 0
  <2> HIDE DEF R, t, last
  <2> QED  BY <1>2, WrittenReplay
<1>4. RegReplayed(AbsRegs, AbsRegTrace) /\ IsTrace(AbsRegTrace) /\ AbsRegs[0] = 0
  BY <1>1, <1>3 DEF AbsRegs, AbsRegTrace, ArchRegs
<1>5. IsTrace(AbsMmuTrace)
  BY <1>1, StoreTraceType DEF AbsMmuTrace
<1> QED  BY <1>4, <1>5 DEF RegReplayed

\* A tick that moves the execute stage on adds what the instruction delivers.
LEMMA StageMoves ==
  ASSUME DoStages, me' = MemoryNext, wb' = WriteBackNext(me, mem),
         status' \in {"running", "draining"}
  PROVE  /\ AbsRegs' = Written(Delivered, AbsRegs)
         /\ AbsRegTrace' = AbsRegTrace \o WriteTrace(Delivered)
         /\ AbsMem' = StoredMem(MemoryNext, AbsMem)
         /\ AbsMmuTrace' = AbsMmuTrace \o StoreTrace(MemoryNext)
         /\ AbsStatus = "running" /\ AbsStatus' = "running"
<1>1. InFlight /\ InFlight' /\ status = "running"
  BY DEF InFlight, DoStages, Running
<1>2. AbsMem = StoredMem(me, mem) /\ mem' = StoredMem(me, mem)
  BY <1>1 DEF AbsMem, DoStages
<1>3. WriteBackNext(me', mem') = Delivered
  BY <1>2 DEF Delivered
<1>4. AbsRegs' = Written(Delivered, AbsRegs)
  BY <1>1, <1>3 DEF AbsRegs, ArchRegs, DoStages
<1>5. AbsRegTrace' = AbsRegTrace \o WriteTrace(Delivered)
  BY <1>1, <1>3 DEF AbsRegTrace, DoStages
<1>6. AbsMem' = StoredMem(MemoryNext, AbsMem)
  BY <1>1, <1>2 DEF AbsMem
<1>7. AbsMmuTrace' = AbsMmuTrace \o StoreTrace(MemoryNext)
  BY <1>1 DEF AbsMmuTrace, DoStages
<1> QED  BY <1>1, <1>4, <1>5, <1>6, <1>7 DEF AbsStatus

\* What the instruction delivers.
LEMMA DeliveredFields ==
  ASSUME Decoded, ex.instr # ZeroInstr
  PROVE  /\ Delivered.wb_we = (ex.instr.opcode \notin {"STORE", "BRANCH"})
         /\ Delivered.wb_a = ex.instr.rd
         /\ MemoryNext.mem_we = (ex.instr.opcode = "STORE")
         /\ MemoryNext.mem_to_reg = (ex.instr.opcode = "LOAD")
         /\ MemoryNext.store_mode = ex.instr.funct3
         /\ MemoryNext.write_data = Rs2V
         /\ MemoryNext.alu_res =
              IF ex.instr.opcode \in {"JAL", "JALR"} THEN Add(ex.pc_de, 4) ELSE AluRes
         /\ ex.instr.opcode # "LOAD" => Delivered.wb_d = MemoryNext.alu_res
         /\ ex.instr.opcode = "LOAD" =>
              Delivered.wb_d = GetData(AbsMem, MemoryNext.alu_res, ex.instr.funct3)
<1>1. /\ ex.wb_we = (ex.instr.opcode \notin {"STORE", "BRANCH"})
      /\ ex.mem_we = (ex.instr.opcode = "STORE")
      /\ ex.mem_to_reg = (ex.instr.opcode = "LOAD")
      /\ ex.jmp_cond = (ex.instr.opcode \in {"JAL", "JALR"})
      /\ ex.funct3 = ex.instr.funct3 /\ ~ex.v_de
  BY Signals DEF Decoded
<1>2. /\ MemoryNext.wb_we = (ex.wb_we /\ ~ex.v_de)
      /\ MemoryNext.mem_we = (ex.mem_we /\ ~ex.v_de)
      /\ MemoryNext.mem_to_reg = ex.mem_to_reg
      /\ MemoryNext.wb_a = ex.instr.rd
      /\ MemoryNext.store_mode = ex.funct3
      /\ MemoryNext.write_data = Rs2V
      /\ MemoryNext.alu_res = IF ex.jmp_cond THEN Add(ex.pc_de, 4) ELSE AluRes
  BY DEF MemoryNext
<1>3. /\ MemoryNext.wb_we = (ex.instr.opcode \notin {"STORE", "BRANCH"})
      /\ MemoryNext.mem_we = (ex.instr.opcode = "STORE")
      /\ MemoryNext.mem_to_reg = (ex.instr.opcode = "LOAD")
  BY <1>1, <1>2
<1> DEFINE N == MemoryNext
<1>4. /\ Delivered.wb_we = N.wb_we /\ Delivered.wb_a = N.wb_a
      /\ Delivered.wb_d = IF N.mem_to_reg THEN GetData(AbsMem, N.alu_res, N.store_mode)
                                          ELSE N.alu_res
  BY DEF Delivered, WriteBackNext
<1> HIDE DEF N
<1> QED  BY <1>1, <1>2, <1>3, <1>4 DEF N

LEMMA Operands ==
  ASSUME RefinementInv, Leaving
  PROVE  LET type == GetInstructionType(ex.instr.opcode)
         IN  /\ IF hasRs1(type) THEN SrcA = AbsRegs[ex.instr.rs1] ELSE SrcA = ex.data1
             /\ hasRs2(type) => Rs2V = AbsRegs[ex.instr.rs2]
  BY DEF RefinementInv, OperandInv, OperandsCurrent, Leaving, AbsRegs, InFlight, Running

-----------------------------------------------------------------------------
(* The steps of the interpreter *)

LEMMA DecodeStep ==
  ASSUME RefinementInv, Leaving, NEW S, ex.instr.opcode \in S
  PROVE  Functional!Decode(S) /\ Functional!instr = ex.instr /\ Functional!Continues
<1>1. /\ ex.pc_de \in DOMAIN text /\ ex.instr = text[ex.pc_de]
      /\ text \in Programs
  BY DEF Leaving, RefinementInv, OperandInv, StallInv, InFlightInOrder, TypeInv,
         ImageLoaded, Running
<1>2. ex.pc_de % 4 = 0
  BY <1>1, ProgramsAssumption
<1>3. Functional!instr = ex.instr
  BY <1>1 DEF Functional!instr, Leaving
<1> QED  BY <1>1, <1>2, <1>3 DEF Functional!Decode, Functional!Continues, Leaving

\* The instructions that write a register.
LEMMA WriteStep ==
  ASSUME RefinementInv, Leaving, NEW v, Delivered.wb_d = v,
         ex.instr.opcode \notin {"STORE", "BRANCH"}
  PROVE  Functional!Write(v)
<1>1. Delivered.wb_we /\ Delivered.wb_a = ex.instr.rd
  BY DeliveredFields DEF RefinementInv, Leaving
<1>2. Functional!instr = ex.instr
  BY DecodeStep
<1>3. /\ AbsRegs' = WriteReg(AbsRegs, ex.instr.rd, v)
      /\ AbsRegTrace' = AbsRegTrace \o RegRecord(ex.instr.rd, v)
  BY <1>1 DEF Leaving, Written, WriteTrace
<1> QED  BY <1>2, <1>3, SameStorage DEF Functional!Write

\* Those that write none.
LEMMA NoWriteStep ==
  ASSUME RefinementInv, Leaving,
         ex.instr.opcode \in {"STORE", "BRANCH"} \/ ex.instr.rd = 0
  PROVE  UNCHANGED <<AbsRegs, AbsRegTrace>>
<1>1. /\ Delivered.wb_we = (ex.instr.opcode \notin {"STORE", "BRANCH"})
      /\ Delivered.wb_a = ex.instr.rd
  BY DeliveredFields DEF RefinementInv, Leaving
<1>2. WriteTrace(Delivered) = <<>>
  BY <1>1 DEF WriteTrace, RegRecord
<1>3. Written(Delivered, AbsRegs) = AbsRegs
  BY <1>1, AbsStateType DEF Written, WriteReg
<1> QED  BY <1>2, <1>3, AbsStateType, AppendNothing DEF Leaving

LEMMA NoStoreStep ==
  ASSUME RefinementInv, Leaving, ex.instr.opcode # "STORE"
  PROVE  UNCHANGED <<AbsMem, AbsMmuTrace>>
<1>1. ~MemoryNext.mem_we
  BY DeliveredFields DEF RefinementInv, Leaving
<1>2. StoreTrace(MemoryNext) = <<>> /\ StoredMem(MemoryNext, AbsMem) = AbsMem
  BY <1>1 DEF StoreTrace, StoredMem
<1> QED  BY <1>2, AbsStateType, AppendNothing DEF Leaving

\* The instructions that neither branch nor jump.
LEMMA NextStep ==
  ASSUME RefinementInv, Leaving, ~pc_r
  PROVE  Functional!Goto(AbsPC + 4)
  BY SameWords DEF Functional!Goto, Leaving, Add

LEMMA JumpSignals ==
  ASSUME Decoded
  PROVE  /\ ex.jmp_cond <=> ex.instr.opcode \in {"JAL", "JALR"}
         /\ ex.is_jalr <=> ex.instr.opcode = "JALR"
         /\ ex.brn_cond <=> ex.instr.opcode = "BRANCH"
<1>1. /\ ex.jmp_cond = (ex.instr.opcode \in {"JAL", "JALR"})
      /\ ex.is_jalr = (ex.instr.opcode = "JALR")
      /\ ex.brn_cond = (ex.instr.opcode = "BRANCH")
  BY Signals DEF Decoded
<1> QED  BY <1>1

LEMMA StraightOn ==
  ASSUME Decoded, ~Redirects(ex.instr)
  PROVE  ~pc_r
  BY JumpSignals DEF pc_r, Redirects

\* The operation of the ALU, by opcode.
LEMMA AluOperation ==
  ASSUME NEW i
  PROVE  /\ i.opcode \in {"LUI", "AUIPC", "JALR", "LOAD", "STORE"} => AluOp(i) = "ADD"
         /\ i.opcode \in {"OP", "OP_IMM"} => AluOp(i) = ArithmeticOp(i)
  BY Zenon DEF AluOp

LEMMA Types ==
  /\ GetInstructionType("OP") = "RType" /\ GetInstructionType("STORE") = "SType"
  /\ GetInstructionType("BRANCH") = "BType" /\ GetInstructionType("JAL") = "JType"
  /\ GetInstructionType("LOAD") = "IType" /\ GetInstructionType("OP_IMM") = "IType"
  /\ GetInstructionType("JALR") = "IType" /\ GetInstructionType("LUI") = "UType"
  /\ GetInstructionType("AUIPC") = "UType"
<1>1. GetInstructionType("OP") = "RType" /\ GetInstructionType("STORE") = "SType"
  BY Zenon DEF GetInstructionType
<1>2. GetInstructionType("BRANCH") = "BType" /\ GetInstructionType("JAL") = "JType"
  BY Zenon DEF GetInstructionType
<1>3. GetInstructionType("LOAD") = "IType" /\ GetInstructionType("OP_IMM") = "IType"
  BY Zenon DEF GetInstructionType
<1>4. GetInstructionType("JALR") = "IType" /\ GetInstructionType("LUI") = "UType"
  BY Zenon DEF GetInstructionType
<1>5. GetInstructionType("AUIPC") = "UType"
  BY Zenon DEF GetInstructionType
<1> QED  BY <1>1, <1>2, <1>3, <1>4, <1>5

LEMMA Immediates ==
  ASSUME NEW i
  PROVE  LET type == GetInstructionType(i.opcode)
         IN  /\ type = "IType" => ImmediateExtensionBlock(i) = ImmI(i)
             /\ type = "SType" => ImmediateExtensionBlock(i) = ImmS(i)
             /\ type = "BType" => ImmediateExtensionBlock(i) = ImmB(i)
             /\ type = "JType" => ImmediateExtensionBlock(i) = ImmJ(i)
             /\ type = "UType" => ImmediateExtensionBlock(i) = ImmU(i)
<1> DEFINE type == GetInstructionType(i.opcode)
<1>0. ImmediateExtensionBlock(i) =
        CASE type = "IType" -> ImmI(i)
          [] type = "SType" -> ImmS(i)
          [] type = "BType" -> ImmB(i)
          [] type = "JType" -> ImmJ(i)
          [] type = "UType" -> ImmU(i)
          [] OTHER          -> 0
  BY DEF ImmediateExtensionBlock
<1> HIDE DEF type
<1>1. type = "IType" => ImmediateExtensionBlock(i) = ImmI(i)
  BY <1>0, Zenon
<1>2. type = "SType" => ImmediateExtensionBlock(i) = ImmS(i)
  BY <1>0, Zenon
<1>3. type = "BType" => ImmediateExtensionBlock(i) = ImmB(i)
  BY <1>0, Zenon
<1>4. type = "JType" => ImmediateExtensionBlock(i) = ImmJ(i)
  BY <1>0, Zenon
<1>5. type = "UType" => ImmediateExtensionBlock(i) = ImmU(i)
  BY <1>0, Zenon
<1> QED  BY <1>1, <1>2, <1>3, <1>4, <1>5 DEF type

\* The address, sum or target that the ALU computes.
LEMMA AluSum ==
  ASSUME RefinementInv, Leaving, ex.instr.opcode \in {"LUI", "AUIPC", "JALR", "LOAD", "STORE"}
  PROVE  AluRes = Add(SrcA, ImmediateExtensionBlock(ex.instr))
<1>1. ex.alu_op = "ADD"
  BY Signals, AluOperation DEF RefinementInv, Decoded
<1>2. ex.alu_src2 = (GetInstructionType(ex.instr.opcode) \in {"IType", "SType", "UType"})
  BY Signals DEF RefinementInv, Decoded
<1>3. GetInstructionType(ex.instr.opcode) \in {"IType", "SType", "UType"}
  BY Types
<1>4. \A a, b : ALU("ADD", a, b) = Add(a, b)
  BY Zenon DEF ALU
<1> QED  BY <1>1, <1>2, <1>3, <1>4 DEF AluRes

\* The immediate of LUI is a word, so adding it to 0 does not change it.
LEMMA UpperImmediate ==
  ASSUME NEW i \in Instr
  PROVE  Add(0, ImmU(i)) = ImmU(i)
<1> DEFINE W == WordSize
           d == W \div 4096
           x == ((i.funct7 * 32 + i.rs2) * 32 + i.rs1) * 8 + i.funct3
<1>1. W \in Nat /\ W >= 4096
  BY WordSizeAssumption
<1>2. x \in Nat
  <2>1. i.funct7 \in Nat /\ i.rs2 \in Nat /\ i.rs1 \in Nat /\ i.funct3 \in Nat
    BY DEF Instr
  <2> QED  BY <2>1
<1> HIDE DEF W, x
<1>3. d \in Nat /\ d > 0 /\ d * 4096 <= W
  BY <1>1
<1> HIDE DEF d
<1>4. x % d \in Nat /\ x % d <= d - 1
  BY <1>2, <1>3
<1>5. (x % d) * 4096 \in Nat /\ (x % d) * 4096 < W
  BY <1>1, <1>3, <1>4
<1> DEFINE y == (x % d) * 4096
<1>6. ImmU(i) = y
  BY DEF ImmU, x, d, W
<1> HIDE DEF y
<1>7. (0 + y) % W = y
  BY <1>1, <1>5 DEF y
<1> QED  BY <1>6, <1>7 DEF Add, W

LEMMA LUIStep ==
  ASSUME RefinementInv, Leaving, ex.instr.opcode = "LUI"
  PROVE  Functional!HandleLUI
<1>1. SrcA = 0
  BY Operands, Types DEF hasRs1, RefinementInv, Decoded
<1>2. ex.instr \in Instr
  BY DEF RefinementInv, OperandInv, StallInv, TypeInv, ControlTypeOK
<1>3. AluRes = ImmU(ex.instr)
  BY <1>1, <1>2, AluSum, Immediates, Types, UpperImmediate
<1>4. Delivered.wb_d = ImmU(ex.instr)
  BY <1>3, DeliveredFields DEF RefinementInv, Leaving
<1>5. Functional!Decode({"LUI"}) /\ Functional!instr = ex.instr /\ Functional!Continues
  BY DecodeStep
<1>6. Functional!Write(Functional!ImmU(Functional!instr))
  BY <1>4, <1>5, WriteStep, SameImmediates
<1>7. Functional!Goto(AbsPC + 4)
  BY StraightOn, NextStep DEF RefinementInv, Redirects
<1> QED  BY <1>5, <1>6, <1>7, NoStoreStep DEF Functional!HandleLUI

LEMMA AUIPCStep ==
  ASSUME RefinementInv, Leaving, ex.instr.opcode = "AUIPC"
  PROVE  Functional!HandleAUIPC
<1>1. SrcA = ex.pc_de
  BY Operands, Types DEF hasRs1, RefinementInv, Decoded
<1>2. AluRes = Add(ex.pc_de, ImmU(ex.instr))
  BY <1>1, AluSum, Immediates, Types
<1>3. Delivered.wb_d = Add(AbsPC, ImmU(ex.instr))
  BY <1>2, DeliveredFields DEF RefinementInv, Leaving
<1>4. Functional!Decode({"AUIPC"}) /\ Functional!instr = ex.instr /\ Functional!Continues
  BY DecodeStep
<1>5. Functional!Write(Functional!Add(AbsPC, Functional!ImmU(Functional!instr)))
  BY <1>3, <1>4, WriteStep, SameImmediates, SameArithmetic
<1>6. Functional!Goto(AbsPC + 4)
  BY StraightOn, NextStep DEF RefinementInv, Redirects
<1> QED  BY <1>4, <1>5, <1>6, NoStoreStep DEF Functional!HandleAUIPC

LEMMA JALStep ==
  ASSUME RefinementInv, Leaving, ex.instr.opcode = "JAL"
  PROVE  Functional!HandleJAL
<1>1. ex.jmp_cond /\ ~ex.is_jalr
  BY JumpSignals DEF RefinementInv
<1>2. pc_disp = ImmJ(ex.instr) /\ pc_r
  BY <1>1, Immediates, Types DEF pc_disp, pc_r
<1>3. PCNext = (ex.pc_de + ImmJ(ex.instr)) % WordSize
  BY <1>1, <1>2 DEF PCNext, Add
<1>4. Delivered.wb_d = Add(AbsPC, 4)
  BY DeliveredFields DEF RefinementInv, Leaving
<1>5. Functional!Decode({"JAL"}) /\ Functional!instr = ex.instr /\ Functional!Continues
  BY DecodeStep
<1>6. Functional!Write(Functional!Add(AbsPC, 4))
  BY <1>4, WriteStep, SameArithmetic
<1>7. Functional!Goto(AbsPC + Functional!ImmJ(Functional!instr))
  BY <1>2, <1>3, <1>5, SameImmediates, SameWords DEF Functional!Goto, Leaving
<1> QED  BY <1>5, <1>6, <1>7, NoStoreStep DEF Functional!HandleJAL

\* The target is computed from the register before the link is written, and
\* the interpreter reads it after: SameInBoth keeps the two registers apart.
LEMMA JALRStep ==
  ASSUME RefinementInv, Leaving, ex.instr.opcode = "JALR", ex.instr.funct3 = 0,
         SameInBoth(ex.instr)
  PROVE  Functional!HandleJALR
<1> DEFINE i == ex.instr
<1>1. ex.jmp_cond /\ ex.is_jalr
  BY JumpSignals DEF RefinementInv
<1>2. SrcA = AbsRegs[i.rs1]
  BY Operands, Types DEF hasRs1
<1>3. AluRes = Add(AbsRegs[i.rs1], ImmI(i))
  BY <1>2, AluSum, Immediates, Types
<1>4. pc_r /\ PCNext = (AluRes - (AluRes % 2)) % WordSize
  BY <1>1 DEF pc_r, PCNext, pc_disp
<1>5. Delivered.wb_d = Add(AbsPC, 4)
  BY DeliveredFields DEF RefinementInv, Leaving
<1>6. /\ Functional!Decode({"JALR"}) /\ Functional!instr = i /\ Functional!Continues
  BY DecodeStep
<1>7. Functional!Write(Functional!Add(AbsPC, 4))
  BY <1>5, WriteStep, SameArithmetic
<1>8. AbsRegs'[i.rs1] = AbsRegs[i.rs1]
  <2>1. i.rs1 \in Regs /\ i.rd \in Regs
    BY DEF RefinementInv, OperandInv, StallInv, TypeInv, ControlTypeOK, Instr, Regs
  <2>2. AbsRegs' = WriteReg(AbsRegs, i.rd, Delivered.wb_d)
    BY DeliveredFields DEF RefinementInv, Leaving, Written
  <2>3. i.rd # i.rs1 \/ i.rd = 0
    BY DEF SameInBoth
  <2> HIDE DEF i
  <2> QED  BY <2>1, <2>2, <2>3, AbsStateType, WriteRegType
<1>9. Functional!Add(AbsRegs'[Functional!instr.rs1], Functional!ImmI(Functional!instr)) = AluRes
  BY <1>3, <1>6, <1>8, SameArithmetic, SameImmediates
<1>10. AbsPC' = (AluRes - (AluRes % 2)) % Functional!WordSize
  BY <1>4, SameWords DEF Leaving
<1> QED  BY <1>6, <1>7, <1>9, <1>10, NoStoreStep
         DEF Functional!HandleJALR, Functional!Goto

\* The comparator decides a branch as the interpreter does.
LEMMA SameComparison ==
  ASSUME NEW i \in Instr, i.opcode = "BRANCH", i.funct3 \notin {2, 3}, NEW a, NEW b
  PROVE  Cmp(CmpControl(i), a, b) <=> Functional!Taken(i.funct3, a, b)
<1>1. i.funct3 \in {0, 1, 4, 5, 6, 7}
  BY DEF Instr
<1>2. Functional!Signed(a) = Signed(a) /\ Functional!Signed(b) = Signed(b)
  BY SameArithmetic
<1>3. CASE i.funct3 = 0
  <2>1. CmpControl(i) = "EQ"
    BY <1>3 DEF CmpControl
  <2>2. Cmp("EQ", a, b) <=> a = b
    BY Zenon DEF Cmp
  <2> QED  BY <1>3, <2>1, <2>2 DEF Functional!Taken
<1>4. CASE i.funct3 = 1
  <2>1. CmpControl(i) = "NE"
    BY <1>4 DEF CmpControl
  <2>2. Cmp("NE", a, b) <=> a # b
    BY Zenon DEF Cmp
  <2> QED  BY <1>4, <2>1, <2>2 DEF Functional!Taken
<1>5. CASE i.funct3 = 4
  <2>1. CmpControl(i) = "LT"
    BY <1>5 DEF CmpControl
  <2>2. Cmp("LT", a, b) <=> Signed(a) < Signed(b)
    BY Zenon DEF Cmp
  <2> QED  BY <1>2, <1>5, <2>1, <2>2 DEF Functional!Taken
<1>6. CASE i.funct3 = 5
  <2>1. CmpControl(i) = "GE"
    BY <1>6 DEF CmpControl
  <2>2. Cmp("GE", a, b) <=> Signed(a) >= Signed(b)
    BY Zenon DEF Cmp
  <2> QED  BY <1>2, <1>6, <2>1, <2>2 DEF Functional!Taken
<1>7. CASE i.funct3 = 6
  <2>1. CmpControl(i) = "LTU"
    BY <1>7 DEF CmpControl
  <2>2. Cmp("LTU", a, b) <=> a < b
    BY Zenon DEF Cmp
  <2> QED  BY <1>7, <2>1, <2>2 DEF Functional!Taken
<1>8. CASE i.funct3 = 7
  <2>1. CmpControl(i) = "GEU"
    BY <1>8 DEF CmpControl
  <2>2. Cmp("GEU", a, b) <=> a >= b
    BY Zenon DEF Cmp
  <2> QED  BY <1>8, <2>1, <2>2 DEF Functional!Taken
<1> QED  BY <1>1, <1>3, <1>4, <1>5, <1>6, <1>7, <1>8

LEMMA BranchStep ==
  ASSUME RefinementInv, Leaving, ex.instr.opcode = "BRANCH"
  PROVE  Functional!HandleBranch
<1> DEFINE i == ex.instr
           taken == Functional!Taken(i.funct3, AbsRegs[i.rs1], AbsRegs[i.rs2])
<1>1. i \in Instr /\ DecodeOutcome(i) = "ok"
  BY DEF RefinementInv, OperandInv, StallInv, TypeInv, ControlTypeOK, Decoded
<1>2. i.funct3 \notin {2, 3}
  BY <1>1, Zenon DEF DecodeOutcome
<1>3. ex.brn_cond /\ ~ex.jmp_cond /\ ~ex.is_jalr /\ ex.cmp_control = CmpControl(i)
  <2>1. ex.cmp_control = CmpControl(i)
    BY Signals DEF RefinementInv, Decoded
  <2> QED  BY <2>1, JumpSignals DEF RefinementInv
<1>4. SrcA = AbsRegs[i.rs1] /\ Rs2V = AbsRegs[i.rs2]
  BY Operands, Types DEF hasRs1, hasRs2
<1>5. pc_r <=> taken
  BY <1>1, <1>2, <1>3, <1>4, SameComparison DEF pc_r
<1>6. pc_r => PCNext = Add(ex.pc_de, ImmB(i))
  BY <1>3, Immediates, Types DEF PCNext, pc_disp
<1>7. /\ Functional!Decode({"BRANCH"}) /\ Functional!instr = i /\ Functional!Continues
  BY DecodeStep
<1>8. AbsPC' = (AbsPC + IF taken THEN ImmB(i) ELSE 4) % WordSize
  <2> HIDE DEF taken
  <2> QED  BY <1>5, <1>6 DEF Leaving, Add
<1>9. Functional!Goto(AbsPC + IF taken THEN Functional!ImmB(Functional!instr) ELSE 4)
  <2> HIDE DEF taken
  <2> QED  BY <1>7, <1>8, SameWords, SameImmediates DEF Functional!Goto
<1> QED  BY <1>2, <1>7, <1>9, NoStoreStep, NoWriteStep
         DEF Functional!HandleBranch, Functional!Rs1, Functional!Rs2

\* The access that follows in the memory stage does not fault.
LEMMA LoadStep ==
  ASSUME RefinementInv, Leaving, ex.instr.opcode = "LOAD", SameInBoth(ex.instr),
         ~MemoryFault(MemoryNext, AbsMem)
  PROVE  Functional!HandleLoad
<1> DEFINE i == ex.instr
           addr == Add(AbsRegs[i.rs1], ImmI(i))
<1>1. AluRes = addr
  BY Operands, AluSum, Immediates, Types DEF hasRs1
<1>2. /\ MemoryNext.alu_res = addr /\ MemoryNext.store_mode = i.funct3
      /\ MemoryNext.mem_to_reg /\ ~MemoryNext.mem_we
      /\ Delivered.wb_d = GetData(AbsMem, addr, i.funct3)
  BY <1>1, DeliveredFields DEF RefinementInv, Leaving
<1> DEFINE N == MemoryNext
<1>3. i.funct3 \in {0, 1, 2, 4, 5} /\ Mapped(AbsMem, addr, Width(i.funct3))
  <2> HIDE DEF N, addr, i
  <2>1. Accesses(N) /\ ~BadMode(N) /\ ~SegFault(N, AbsMem)
    BY <1>2 DEF MemoryFault, Accesses, N
  <2>2. i.funct3 \in LoadModes
    BY <1>2, <2>1 DEF BadMode, N
  <2>3. Mapped(AbsMem, addr, Width(i.funct3))
    BY <1>2, <2>1 DEF SegFault, N
  <2> QED  BY <2>2, <2>3 DEF LoadModes
<1>4. Delivered.wb_d = GetBytes(AbsMem, addr, Width(i.funct3))
  <2>1. i.funct3 \notin {0, 1}
    BY DEF SameInBoth
  <2> QED  BY <1>2, <2>1 DEF GetData
<1>5. Functional!Decode({"LOAD"}) /\ Functional!instr = i /\ Functional!Continues
  BY DecodeStep
<1>6. /\ Functional!LoadWidth = Width(i.funct3)
      /\ Functional!Add(Functional!Rs1, Functional!ImmI(Functional!instr)) = addr
  BY <1>5, SameArithmetic, SameImmediates DEF Functional!LoadWidth, Width, Functional!Rs1
<1>7. Functional!Write(Functional!GetBytes(AbsMem, addr, Functional!LoadWidth))
  BY <1>4, <1>6, WriteStep, SameStorage
<1>8. Functional!Goto(AbsPC + 4)
  BY StraightOn, NextStep DEF RefinementInv, Redirects
<1>9. Functional!Mapped(AbsMem, addr, Functional!LoadWidth)
  BY <1>3, <1>6, SameStorage
<1> HIDE DEF addr
<1> QED  BY <1>3, <1>5, <1>6, <1>7, <1>8, <1>9, NoStoreStep DEF Functional!HandleLoad

LEMMA StoreStep ==
  ASSUME RefinementInv, Leaving, ex.instr.opcode = "STORE", SameInBoth(ex.instr),
         ~MemoryFault(MemoryNext, AbsMem)
  PROVE  Functional!HandleStore
<1> DEFINE i == ex.instr
           addr == Add(AbsRegs[i.rs1], ImmS(i))
           v == AbsRegs[i.rs2]
           N == MemoryNext
<1>1. AluRes = addr /\ Rs2V = v
  BY Operands, AluSum, Immediates, Types DEF hasRs1, hasRs2
<1>2. /\ N.alu_res = addr /\ N.store_mode = i.funct3 /\ N.mem_we /\ N.write_data = v
  BY <1>1, DeliveredFields DEF RefinementInv, Leaving
<1>3. i.funct3 \in {0, 2} /\ Mapped(AbsMem, addr, Width(i.funct3))
  <2>0. i.funct3 # 1
    BY DEF SameInBoth
  <2> HIDE DEF N, addr, v, i
  <2>1. Accesses(N) /\ ~BadMode(N) /\ ~SegFault(N, AbsMem)
    BY <1>2 DEF MemoryFault, Accesses, N
  <2>2. i.funct3 \in StoreModes
    BY <1>2, <2>1 DEF BadMode
  <2>3. Mapped(AbsMem, addr, Width(i.funct3))
    BY <1>2, <2>1 DEF SegFault
  <2> QED  BY <2>0, <2>2, <2>3 DEF StoreModes
<1>4. Functional!Decode({"STORE"}) /\ Functional!instr = i /\ Functional!Continues
  BY DecodeStep
<1>5. Functional!StoreCode = i.funct3 /\ Width(i.funct3) = 2 ^ i.funct3
  BY <1>3, <1>4 DEF Functional!StoreCode, Width
<1>6. /\ AbsMem' = SetBytes(AbsMem, addr, 2 ^ i.funct3, Narrow(i.funct3, v))
      /\ AbsMmuTrace' = AbsMmuTrace \o <<StoreRecord(i.funct3, addr, v)>>
  <2> HIDE DEF N, addr, v, i
  <2> QED  BY <1>2, <1>5 DEF Leaving, StoredMem, StoreTrace, N
<1>7. /\ Functional!Add(Functional!Rs1, Functional!ImmS(Functional!instr)) = addr
      /\ Functional!Rs2 = v
  BY <1>4, SameArithmetic, SameImmediates DEF Functional!Rs1, Functional!Rs2
<1>8. Functional!Goto(AbsPC + 4)
  BY StraightOn, NextStep DEF RefinementInv, Redirects
<1>9. /\ AbsMem' = Functional!SetBytes(AbsMem, addr, 2 ^ Functional!StoreCode,
                                      Functional!Narrow(Functional!StoreCode, v))
      /\ AbsMmuTrace' = AbsMmuTrace \o <<Functional!StoreRecord(Functional!StoreCode, addr, v)>>
      /\ Functional!Mapped(AbsMem, addr, 2 ^ Functional!StoreCode)
  BY <1>3, <1>5, <1>6, SameStorage
<1> HIDE DEF addr, v
<1> QED  BY <1>3, <1>4, <1>7, <1>8, <1>9, NoWriteStep DEF Functional!HandleStore

\* Where it matters, bit 30 of the instruction is what funct7 says.
LEMMA AlternateBit ==
  ASSUME NEW i, i.funct7 \in {0, 32}
  PROVE  Functional!Alternate(i) <=> i.funct7 = 32
  BY DEF Functional!Alternate

\* The ALU computes what the interpreter does.
LEMMA SameOperation ==
  ASSUME NEW i \in Instr, i.opcode \in {"OP", "OP_IMM"}, ValidAlu(i), NEW a, NEW b, NEW alt,
         i.opcode = "OP" => (alt <=> Functional!Alternate(i)),
         i.opcode = "OP_IMM" => (alt <=> i.funct3 = 5 /\ Functional!Alternate(i))
  PROVE  ALU(ArithmeticOp(i), a, b) = Functional!Operation(i.funct3, alt, a, b)
<1> DEFINE f == i.funct3
<1>1. f \in {0, 1, 2, 3, 4, 5, 6, 7}
  BY DEF Instr
<1>2. (i.opcode = "OP" /\ f = 0) \/ f = 5 => i.funct7 \in {0, 32}
  BY DEF ValidAlu
<1>3. /\ Functional!Add(a, b) = Add(a, b) /\ Functional!Sub(a, b) = Sub(a, b)
      /\ Functional!Signed(a) = Signed(a) /\ Functional!Signed(b) = Signed(b)
      /\ Functional!Sll(a, b) = Sll(a, b) /\ Functional!Srl(a, b) = Srl(a, b)
      /\ Functional!Sra(a, b) = Sra(a, b)
      /\ Functional!BitAnd(a, b) = BitAnd(a, b) /\ Functional!BitOr(a, b) = BitOr(a, b)
      /\ Functional!BitXor(a, b) = BitXor(a, b)
  BY SameArithmetic, SameBits
<1>4. CASE f = 0
  <2>1. /\ ALU("ADD", a, b) = Add(a, b)
        /\ ALU("SUB", a, b) = Sub(a, b)
    BY Zenon DEF ALU
  <2>2. ArithmeticOp(i) = IF i.opcode = "OP" /\ i.funct7 = 32 THEN "SUB" ELSE "ADD"
    BY <1>4 DEF ArithmeticOp
  <2>3. alt <=> i.opcode = "OP" /\ i.funct7 = 32
    BY <1>2, <1>4, AlternateBit
  <2>4. Functional!Operation(f, alt, a, b) = IF alt THEN Sub(a, b) ELSE Add(a, b)
    BY <1>3, <1>4 DEF Functional!Operation
  <2> QED  BY <2>1, <2>2, <2>3, <2>4
<1>5. CASE f = 5
  <2>1. /\ ALU("SRL", a, b) = Srl(a, b)
        /\ ALU("SRA", a, b) = Sra(a, b)
    BY Zenon DEF ALU
  <2>2. ArithmeticOp(i) = IF i.funct7 = 32 THEN "SRA" ELSE "SRL"
    BY <1>5 DEF ArithmeticOp
  <2>3. alt <=> i.funct7 = 32
    BY <1>2, <1>5, AlternateBit
  <2>4. Functional!Operation(f, alt, a, b) = IF alt THEN Sra(a, b) ELSE Srl(a, b)
    BY <1>3, <1>5 DEF Functional!Operation
  <2> QED  BY <2>1, <2>2, <2>3, <2>4
<1>6. CASE f = 1
  <2>1. ArithmeticOp(i) = "SLL"
    BY <1>6 DEF ArithmeticOp
  <2>2. ALU("SLL", a, b) = Sll(a, b)
    BY Zenon DEF ALU
  <2>3. Functional!Operation(f, alt, a, b) = Sll(a, b)
    BY <1>3, <1>6 DEF Functional!Operation
  <2> QED  BY <2>1, <2>2, <2>3
<1>7. CASE f = 4
  <2>1. ArithmeticOp(i) = "XOR"
    BY <1>7 DEF ArithmeticOp
  <2>2. ALU("XOR", a, b) = BitXor(a, b)
    BY Zenon DEF ALU
  <2>3. Functional!Operation(f, alt, a, b) = BitXor(a, b)
    BY <1>3, <1>7 DEF Functional!Operation
  <2> QED  BY <2>1, <2>2, <2>3
<1>8. CASE f = 6
  <2>1. ArithmeticOp(i) = "OR"
    BY <1>8 DEF ArithmeticOp
  <2>2. ALU("OR", a, b) = BitOr(a, b)
    BY Zenon DEF ALU
  <2>3. Functional!Operation(f, alt, a, b) = BitOr(a, b)
    BY <1>3, <1>8 DEF Functional!Operation
  <2> QED  BY <2>1, <2>2, <2>3
<1>9. CASE f = 7
  <2>1. ArithmeticOp(i) = "AND"
    BY <1>9 DEF ArithmeticOp
  <2>2. ALU("AND", a, b) = BitAnd(a, b)
    BY Zenon DEF ALU
  <2>3. Functional!Operation(f, alt, a, b) = BitAnd(a, b)
    BY <1>3, <1>9 DEF Functional!Operation
  <2> QED  BY <2>1, <2>2, <2>3
<1>10. CASE f = 2
  <2>1. ArithmeticOp(i) = "SLT"
    BY <1>10 DEF ArithmeticOp
  <2>2. ALU("SLT", a, b) = IF Signed(a) < Signed(b) THEN 1 ELSE 0
    BY Zenon DEF ALU
  <2>3. Functional!Operation(f, alt, a, b) = IF Signed(a) < Signed(b) THEN 1 ELSE 0
    BY <1>3, <1>10 DEF Functional!Operation
  <2> QED  BY <2>1, <2>2, <2>3
<1>11. CASE f = 3
  <2>1. ArithmeticOp(i) = "SLTU"
    BY <1>11 DEF ArithmeticOp
  <2>2. ALU("SLTU", a, b) = IF a < b THEN 1 ELSE 0
    BY Zenon DEF ALU
  <2>3. Functional!Operation(f, alt, a, b) = IF a < b THEN 1 ELSE 0
    BY <1>3, <1>11 DEF Functional!Operation
  <2> QED  BY <2>1, <2>2, <2>3
<1> QED  BY <1>1, <1>4, <1>5, <1>6, <1>7, <1>8, <1>9, <1>10, <1>11

LEMMA OpImmStep ==
  ASSUME RefinementInv, Leaving, ex.instr.opcode = "OP_IMM"
  PROVE  Functional!HandleOpImm
<1> DEFINE i == ex.instr
           alt == i.funct3 = 5 /\ Functional!Alternate(i)
<1>1. i \in Instr /\ DecodeOutcome(i) = "ok"
  BY DEF RefinementInv, OperandInv, StallInv, TypeInv, ControlTypeOK, Decoded
<1>2. ValidAlu(i)
  BY <1>1, Zenon DEF DecodeOutcome
<1>3. ex.alu_op = ArithmeticOp(i) /\ ex.alu_src2 = TRUE
  <2>1. /\ ex.alu_op = AluOp(i)
        /\ ex.alu_src2 = (GetInstructionType(i.opcode) \in {"IType", "SType", "UType"})
    BY Signals DEF RefinementInv, Decoded
  <2>2. GetInstructionType(i.opcode) \in {"IType", "SType", "UType"}
    BY Types
  <2> QED  BY <2>1, <2>2, AluOperation
<1>4. SrcA = AbsRegs[i.rs1] /\ ImmediateExtensionBlock(i) = ImmI(i)
  BY Operands, Immediates, Types DEF hasRs1
<1>5. AluRes = ALU(ArithmeticOp(i), AbsRegs[i.rs1], ImmI(i))
  BY <1>3, <1>4 DEF AluRes
<1>6. Delivered.wb_d = Functional!Operation(i.funct3, alt, AbsRegs[i.rs1], ImmI(i))
  <2>1. Delivered.wb_d = AluRes
    BY DeliveredFields DEF RefinementInv, Leaving
  <2>2. i.opcode = "OP_IMM" /\ (alt <=> i.funct3 = 5 /\ Functional!Alternate(i))
    OBVIOUS
  <2> HIDE DEF i, alt
  <2>3. ALU(ArithmeticOp(i), AbsRegs[i.rs1], ImmI(i)) =
          Functional!Operation(i.funct3, alt, AbsRegs[i.rs1], ImmI(i))
    BY <1>1, <1>2, <2>2, SameOperation
  <2> QED  BY <1>5, <2>1, <2>3
<1>7. Functional!Decode({"OP_IMM"}) /\ Functional!instr = i /\ Functional!Continues
  BY DecodeStep
<1>8. Functional!Rs1 = AbsRegs[i.rs1] /\ Functional!ImmI(Functional!instr) = ImmI(i)
  BY <1>7, SameImmediates DEF Functional!Rs1
<1>9. Functional!Write(Functional!Operation(i.funct3, alt, AbsRegs[i.rs1], ImmI(i)))
  BY <1>6, WriteStep
<1>10. Functional!Goto(AbsPC + 4)
  BY StraightOn, NextStep DEF RefinementInv, Redirects
<1> QED  BY <1>7, <1>8, <1>9, <1>10, NoStoreStep DEF Functional!HandleOpImm

LEMMA OpStep ==
  ASSUME RefinementInv, Leaving, ex.instr.opcode = "OP"
  PROVE  Functional!HandleOp
<1> DEFINE i == ex.instr
           alt == Functional!Alternate(i)
<1>1. i \in Instr /\ DecodeOutcome(i) = "ok"
  BY DEF RefinementInv, OperandInv, StallInv, TypeInv, ControlTypeOK, Decoded
<1>2. ValidAlu(i)
  BY <1>1, Zenon DEF DecodeOutcome
<1>3. ex.alu_op = ArithmeticOp(i) /\ ex.alu_src2 = FALSE
  <2>1. /\ ex.alu_op = AluOp(i)
        /\ ex.alu_src2 = (GetInstructionType(i.opcode) \in {"IType", "SType", "UType"})
    BY Signals DEF RefinementInv, Decoded
  <2>2. (GetInstructionType(i.opcode) \in {"IType", "SType", "UType"}) = FALSE
    BY Types
  <2>3. AluOp(i) = ArithmeticOp(i)
    BY AluOperation
  <2> HIDE DEF i
  <2> QED  BY <2>1, <2>2, <2>3
<1>4. SrcA = AbsRegs[i.rs1] /\ Rs2V = AbsRegs[i.rs2]
  BY Operands, Types DEF hasRs1, hasRs2
<1>5. AluRes = ALU(ArithmeticOp(i), AbsRegs[i.rs1], AbsRegs[i.rs2])
  BY <1>3, <1>4 DEF AluRes
<1>6. Delivered.wb_d = Functional!Operation(i.funct3, alt, AbsRegs[i.rs1], AbsRegs[i.rs2])
  <2>1. Delivered.wb_d = AluRes
    BY DeliveredFields DEF RefinementInv, Leaving
  <2>2. i.opcode = "OP" /\ (alt <=> Functional!Alternate(i))
    OBVIOUS
  <2> HIDE DEF i, alt
  <2>3. ALU(ArithmeticOp(i), AbsRegs[i.rs1], AbsRegs[i.rs2]) =
          Functional!Operation(i.funct3, alt, AbsRegs[i.rs1], AbsRegs[i.rs2])
    BY <1>1, <1>2, <2>2, SameOperation
  <2> QED  BY <1>5, <2>1, <2>3
<1>7. Functional!Decode({"OP"}) /\ Functional!instr = i /\ Functional!Continues
  BY DecodeStep
<1>8. Functional!Rs1 = AbsRegs[i.rs1] /\ Functional!Rs2 = AbsRegs[i.rs2]
  BY <1>7 DEF Functional!Rs1, Functional!Rs2
<1>9. Functional!Write(Functional!Operation(i.funct3, alt, AbsRegs[i.rs1], AbsRegs[i.rs2]))
  BY <1>6, WriteStep
<1>10. Functional!Goto(AbsPC + 4)
  BY StraightOn, NextStep DEF RefinementInv, Redirects
<1> QED  BY <1>7, <1>8, <1>9, <1>10, NoStoreStep DEF Functional!HandleOp

LEMMA FENCEStep ==
  ASSUME RefinementInv, Leaving, ex.instr.opcode = "MISC_MEM", SameInBoth(ex.instr)
  PROVE  Functional!HandleFENCE
<1>1. UNCHANGED <<AbsRegs, AbsRegTrace>>
  BY NoWriteStep DEF SameInBoth
<1>2. Functional!Goto(AbsPC + 4)
  BY StraightOn, NextStep DEF RefinementInv, Redirects
<1> QED  BY <1>1, <1>2, DecodeStep, NoStoreStep DEF Functional!HandleFENCE

\* Every instruction that leaves the execute stage does what its handler does.
LEMMA LeavingStep ==
  ASSUME RefinementInv, Leaving, Faultless, WellScheduled(text),
         ~MemoryFault(MemoryNext, AbsMem)
  PROVE  Functional!Next
<1> DEFINE i == ex.instr
<1>1. SameInBoth(i)
  BY DEF Leaving, RefinementInv, OperandInv, StallInv, InFlightInOrder, WellScheduled
<1>2. i \in Instr /\ DecodeOutcome(i) = "ok"
  BY DEF RefinementInv, OperandInv, StallInv, TypeInv, ControlTypeOK, Decoded
<1>3. i.opcode # "SYSTEM"
  BY <1>2, Zenon DEF DecodeOutcome, SystemOutcome
<1>4. i.opcode \notin {"ZERO", "OTHER"} /\ (i.opcode = "JALR" => i.funct3 = 0)
  BY DEF Faultless, Leaving
<1>5. i.opcode \in {"LUI", "AUIPC", "JAL", "JALR", "BRANCH", "LOAD", "STORE",
                    "OP_IMM", "OP", "MISC_MEM"}
  BY <1>2, <1>3, <1>4 DEF Instr, Opcodes
<1> QED  BY <1>1, <1>4, <1>5, LUIStep, AUIPCStep, JALStep, JALRStep, BranchStep, LoadStep,
            StoreStep, OpImmStep, OpStep, FENCEStep
         DEF Functional!Next, Functional!Run

-----------------------------------------------------------------------------
(* Every tick is a step of the interpreter or leaves the abstract state alone. *)

\* A bubble delivers nothing.
LEMMA BubbleStep ==
  ASSUME RefinementInv, Faultless, DoStages, enabled, ex.instr = ZeroInstr,
         me' = MemoryNext, wb' = WriteBackNext(me, mem),
         status' \in {"running", "draining"}
  PROVE  UNCHANGED <<text, AbsMem, AbsRegs, exec_trace, AbsRegTrace, AbsMmuTrace, AbsStatus>>
<1>1. ZeroInstr.rd = 0 /\ ZeroInstr.opcode = "ZERO"
  BY DEF ZeroInstr
<1>2. Delivered.wb_a = 0
  BY <1>1, MemoryNextFields, WriteBackNextFields DEF Delivered
<1>3. ~MemoryNext.mem_we
  <2>1. ex.mem_we = (ex.instr.opcode = "STORE")
    BY Signals DEF RefinementInv, Decoded
  <2> QED  BY <1>1, <2>1, MemoryNextFields
<1>4. WriteTrace(Delivered) = <<>> /\ StoreTrace(MemoryNext) = <<>>
  BY <1>2, <1>3 DEF WriteTrace, RegRecord, StoreTrace
<1>5. Written(Delivered, AbsRegs) = AbsRegs
  BY <1>2, AbsStateType DEF Written, WriteReg
<1>6. StoredMem(MemoryNext, AbsMem) = AbsMem
  BY <1>3 DEF StoredMem
<1>7. UNCHANGED <<text, exec_trace>>
  BY AppendNothing
     DEF DoStages, TraceExecutedInstruction, ExecRecord, RefinementInv
<1> QED  BY <1>4, <1>5, <1>6, <1>7, StageMoves, AbsStateType, AppendNothing

\* An instruction that moves on and is not a bubble leaves the execute stage.
LEMMA LeavesExecute ==
  ASSUME RefinementInv, Faultless, FaultFree', DoStages, enabled, ex.instr # ZeroInstr,
         me' = MemoryNext, wb' = WriteBackNext(me, mem),
         status' \in {"running", "draining"}, WellScheduled(text),
         AbsPC' = IF pc_r THEN PCNext ELSE Add(ex.pc_de, 4)
  PROVE  Functional!Next
<1>1. Running /\ ~MemoryFault(me, mem) /\ text' = text
  BY DEF DoStages
<1>2. exec_trace' = exec_trace \o <<<<ex.pc_de, ex.instr>>>>
  BY <1>1 DEF DoStages, TraceExecutedInstruction, ExecRecord, RefinementInv, TracedOnce
<1>3. AbsPC = ex.pc_de
  BY <1>1 DEF AbsPC, Running, RefinementInv, OperandInv, StallInv, InFlightInOrder,
              WellScheduled
<1>4. Leaving
  BY <1>1, <1>2, <1>3, StageMoves DEF Leaving
<1>5. ~MemoryFault(MemoryNext, AbsMem)
  <2>1. AbsMem = mem'
    BY <1>1 DEF AbsMem, DoStages, InFlight, Running
  <2> QED  BY <2>1 DEF FaultFree, InFlight
<1> QED  BY <1>4, <1>5, LeavingStep

LEMMA AdvanceStep ==
  ASSUME RefinementInv, Faultless, FaultFree', TickAdvance, WellScheduled(text)
  PROVE  Functional!Next \/ UNCHANGED Functional!vars
<1>1. /\ enabled /\ ~pc_r /\ DoStages /\ FetchOK /\ status' = "running" /\ Running
      /\ me' = MemoryNext /\ wb' = WriteBackNext(me, mem)
      /\ de'.pc_de = pc /\ ex'.pc_de = de.pc_de
  BY ExecuteNextFields DEF TickAdvance, DoStages, Running, DecodeNext
<1>2. pc # 0
  BY <1>1 DEF FetchOK, WellScheduled
<1>3. CASE ex.instr = ZeroInstr
  <2>1. ex.pc_de = 0
    BY <1>1, <1>3 DEF Faultless
  <2>2. AbsPC' = AbsPC
    BY <1>1, <1>2, <2>1 DEF AbsPC, Running
  <2> QED  BY <1>1, <1>3, <2>2, BubbleStep DEF Functional!vars, Functional!traces
<1>4. CASE ex.instr # ZeroInstr
  <2>1. de.pc_de = Add(ex.pc_de, 4) /\ de.pc_de # 0
    BY <1>4 DEF RefinementInv, OperandInv, StallInv, InFlightInOrder, WellScheduled
  <2>2. AbsPC' = Add(ex.pc_de, 4)
    BY <1>1, <2>1 DEF AbsPC
  <2> QED  BY <1>1, <1>4, <2>2, LeavesExecute
<1> QED  BY <1>3, <1>4

LEMMA RedirectStep ==
  ASSUME RefinementInv, Faultless, FaultFree', TickRedirect, WellScheduled(text)
  PROVE  Functional!Next
<1>1. /\ enabled /\ pc_r /\ DoStages /\ status' = "running"
      /\ me' = MemoryNext /\ wb' = WriteBackNext(me, mem)
      /\ pc' = PCNext /\ de' = DecodeCleared /\ ex' = ExecuteCleared
  BY DEF TickRedirect, DoStages, Running
<1>2. AbsPC' = PCNext
  BY <1>1 DEF AbsPC, DecodeCleared, ExecuteCleared
<1>3. ex.instr # ZeroInstr
  BY <1>1, StraightOn DEF RefinementInv, Redirects, ZeroInstr
<1> QED  BY <1>1, <1>2, <1>3, LeavesExecute

\* While the pipeline is halted, only the load in front moves.
LEMMA HaltedStep ==
  ASSUME RefinementInv, TickHalted
  PROVE  UNCHANGED Functional!vars
<1>1. /\ ~enabled /\ DoStages /\ UNCHANGED <<pc, de, ex, status>> /\ Running
      /\ me' = MemoryCleared /\ wb' = WriteBackNext(me, mem)
  BY DEF TickHalted, DoStages
<1>2. ~MemoryCleared.mem_we /\ ~MemoryCleared.wb_we
  BY DEF MemoryCleared
<1>3. InFlight /\ InFlight' /\ UNCHANGED <<AbsPC, AbsStatus>>
  BY <1>1 DEF InFlight, Running, AbsPC, AbsStatus
<1>4. UNCHANGED <<text, exec_trace>>
  BY <1>1 DEF DoStages
<1>5. UNCHANGED AbsMem
  BY <1>1, <1>2, <1>3 DEF AbsMem, DoStages, StoredMem
<1>6. AbsMmuTrace' = AbsMmuTrace \o <<>>
  BY <1>1, <1>2, <1>3 DEF AbsMmuTrace, DoStages, StoreTrace
<1> DEFINE last == WriteBackNext(me', mem')
<1>7. ~last.wb_we
  BY <1>1, <1>2, WriteBackNextFields
<1>8. UNCHANGED AbsRegs
  BY <1>1, <1>3, <1>7 DEF AbsRegs, ArchRegs, DoStages, Written
<1>9. AbsRegTrace' = AbsRegTrace \o <<>>
  <2>1. WriteTrace(last) = <<>>
    BY <1>7 DEF WriteTrace
  <2>2. AbsRegTrace' = reg_trace' \o WriteTrace(wb') \o WriteTrace(last)
    BY <1>3 DEF AbsRegTrace
  <2> HIDE DEF last
  <2> QED  BY <1>1, <1>3, <2>1, <2>2 DEF AbsRegTrace, DoStages
<1>10. UNCHANGED <<AbsMmuTrace, AbsRegTrace>>
  BY <1>6, <1>9, AbsStateType, AppendNothing
<1> QED  BY <1>3, <1>4, <1>5, <1>8, <1>10 DEF Functional!vars, Functional!traces

\* The instruction in front of ECALL and EBREAK leaves the execute stage as
\* the pipeline begins to drain.
LEMMA TrapStep ==
  ASSUME RefinementInv, Faultless, FaultFree', TickTrap, WellScheduled(text)
  PROVE  Functional!Next \/ UNCHANGED Functional!vars
<1>1. DoStages /\ Running /\ DecodeOutcome(de.instr) # "ok" /\ UNCHANGED <<pc, de, ex>>
  BY DEF TickTrap, DoStages
<1>2. status' = "draining" /\ me' = MemoryNext /\ wb' = WriteBackNext(me, mem)
  BY DEF TickTrap, FaultFree
<1>3. enabled /\ ~pc_r
  BY <1>1, TrapInOrder DEF RefinementInv, OperandInv, WellScheduled
<1>4. de.instr # ZeroInstr
  BY <1>1, ZeroInstrDecodes
<1>5. de.pc_de # 0
  BY <1>4 DEF RefinementInv, OperandInv, StallInv, InFlightInOrder, WellScheduled
<1>6. AbsPC' = de.pc_de
  BY <1>1, <1>2, <1>5 DEF AbsPC
<1>7. CASE ex.instr = ZeroInstr
  <2>1. ex.pc_de = 0
    BY <1>1, <1>7 DEF Faultless
  <2>2. AbsPC' = AbsPC
    BY <1>5, <1>6, <2>1 DEF AbsPC
  <2> QED  BY <1>1, <1>2, <1>3, <1>7, <2>2, BubbleStep DEF Functional!vars, Functional!traces
<1>8. CASE ex.instr # ZeroInstr
  <2>1. de.pc_de = Add(ex.pc_de, 4)
    BY <1>8 DEF RefinementInv, OperandInv, StallInv, InFlightInOrder
  <2> QED  BY <1>1, <1>2, <1>3, <1>6, <1>8, <2>1, LeavesExecute
<1> QED  BY <1>7, <1>8

LEMMA SystemInstruction ==
  ASSUME NEW i, DecodeOutcome(i) \in {"ECALL", "EBREAK"}
  PROVE  /\ i.opcode = "SYSTEM"
         /\ DecodeOutcome(i) = IF i.rs2 % 2 = 1 THEN "EBREAK" ELSE "ECALL"
<1>1. i.opcode = "SYSTEM"
  BY Zenon DEF DecodeOutcome
<1>2. DecodeOutcome(i) = SystemOutcome(i)
  BY <1>1, Zenon DEF DecodeOutcome
<1>3. \/ i.rs2 = 0 /\ SystemOutcome(i) = "ECALL"
      \/ i.rs2 = 1 /\ SystemOutcome(i) = "EBREAK"
  BY <1>2, Zenon DEF SystemOutcome
<1>4. 0 % 2 = 0 /\ 1 % 2 = 1
  OBVIOUS
<1> QED  BY <1>1, <1>2, <1>3, <1>4

\* ECALL and EBREAK take effect when the pipeline has drained.
LEMMA LastTicksStep ==
  ASSUME RefinementInv, Faultless, FaultFree', DoLastTicks, WellScheduled(text)
  PROVE  Functional!HandleSystem
<1> DEFINE i == de.instr
           last == WriteBackNext(me, mem)
<1>1. status = "draining" /\ ~MemoryFault(me, mem) /\ InFlight
  BY DEF DoLastTicks, Faultless, InFlight
<1>2. /\ status' = DecodeOutcome(i)
      /\ mem' = StoredMem(me, mem)
      /\ regs' = Written(last, Written(wb, regs))
      /\ reg_trace' = reg_trace \o WriteTrace(wb) \o WriteTrace(last)
      /\ mmu_trace' = mmu_trace \o StoreTrace(me)
      /\ UNCHANGED <<text, pc, de>>
  BY <1>1 DEF DoLastTicks, MemoryFault
<1>3. DecodeOutcome(i) \in {"ECALL", "EBREAK"}
  <2>1. DecodeOutcome(i) \notin {"ok", "abort"}
    BY <1>1 DEF RefinementInv, OperandInv, StallInv, TypeInv, Trapped
  <2>2. status' \in {"idle", "running", "draining", "ECALL", "EBREAK"}
    BY DEF FaultFree
  <2>3. DecodeOutcome(i) \in {"ok", "ECALL", "EBREAK", "exception", "abort"}
    BY DecodeOutcomeType
  <2> HIDE DEF i
  <2> QED  BY <1>2, <2>1, <2>2, <2>3
<1>4. i.opcode = "SYSTEM" /\ status' = IF i.rs2 % 2 = 1 THEN "EBREAK" ELSE "ECALL"
  BY <1>2, <1>3, SystemInstruction
<1>5. i # ZeroInstr
  BY <1>3, ZeroInstrDecodes
<1>6. de.pc_de \in DOMAIN text /\ i = text[de.pc_de] /\ de.pc_de # 0
  BY <1>5 DEF RefinementInv, OperandInv, StallInv, InFlightInOrder, WellScheduled
<1>7. de.pc_de % 4 = 0
  BY <1>1, <1>6, ProgramsAssumption
     DEF RefinementInv, OperandInv, StallInv, TypeInv, ImageLoaded
<1>8. exec_trace' = exec_trace \o <<<<de.pc_de, i>>>>
  BY <1>1, <1>3, <1>5
     DEF DoLastTicks, TraceExecutedInstruction, ExecRecord, RefinementInv, TracedOnce
<1>9. ~InFlight' /\ AbsStatus = "running" /\ AbsStatus' = status'
  BY <1>1, <1>2, <1>3 DEF InFlight, AbsStatus
<1>10. AbsPC = de.pc_de /\ AbsPC' = de.pc_de
  BY <1>1, <1>2, <1>3, <1>6 DEF AbsPC
<1>11. UNCHANGED <<AbsMem, AbsRegs, AbsRegTrace, AbsMmuTrace>>
  BY <1>1, <1>2, <1>9 DEF AbsMem, AbsRegs, ArchRegs, AbsRegTrace, AbsMmuTrace
<1>12. Functional!instr = i
  BY <1>6, <1>10 DEF Functional!instr
<1>13. Functional!Decode({"SYSTEM"})
  BY <1>2, <1>4, <1>6, <1>7, <1>8, <1>9, <1>10, <1>12 DEF Functional!Decode
<1> HIDE DEF i
<1> QED  BY <1>4, <1>9, <1>10, <1>11, <1>12, <1>13 DEF Functional!HandleSystem

LEMMA RunStep ==
  ASSUME RefinementInv, RunProgram
  PROVE  Functional!RunProgram
<1>1. /\ status = "idle" /\ status' = "running" /\ UNCHANGED <<de, ex, me, wb>>
      /\ text' \in Programs /\ mem' = DataMem /\ pc' = Entry
      /\ regs' = WriteReg(regs, SPReg, StackPointer)
      /\ reg_trace' = reg_trace \o RegRecord(SPReg, StackPointer)
      /\ UNCHANGED <<exec_trace, mmu_trace>>
  BY DEF RunProgram
<1>2. /\ de' = DecodeCleared /\ ex' = ExecuteCleared
      /\ me' = MemoryCleared /\ wb' = WriteBackCleared
  BY <1>1 DEF RefinementInv, Empty
<1>3. ~InFlight /\ InFlight'
  BY <1>1 DEF InFlight
<1>4. /\ ~MemoryCleared.mem_we /\ ~MemoryCleared.wb_we /\ ~WriteBackCleared.wb_we
      /\ DecodeCleared.pc_de = 0 /\ ExecuteCleared.pc_de = 0
  BY DEF MemoryCleared, WriteBackCleared, DecodeCleared, ExecuteCleared
<1>5. AbsMem' = DataMem /\ AbsPC' = Entry /\ AbsStatus = "idle" /\ AbsStatus' = "running"
  BY <1>1, <1>2, <1>3, <1>4 DEF AbsMem, StoredMem, AbsPC, AbsStatus
<1> DEFINE last == WriteBackNext(me', mem')
<1>6. ~last.wb_we
  BY <1>2, <1>4, WriteBackNextFields
<1>7. AbsRegs = regs /\ AbsRegs' = regs'
  BY <1>2, <1>3, <1>4, <1>6 DEF AbsRegs, ArchRegs, Written
<1>8. IsTrace(reg_trace) /\ IsTrace(mmu_trace)
  BY DEF RefinementInv, ReplayInv
<1>9. IsTrace(reg_trace')
  BY <1>1, <1>8, AppendRecord, AppendNothing DEF RegRecord
<1>10. AbsRegTrace = reg_trace /\ AbsRegTrace' = reg_trace'
  <2>1. WriteTrace(last) = <<>> /\ WriteTrace(wb') = <<>>
    BY <1>2, <1>4, <1>6 DEF WriteTrace
  <2>2. AbsRegTrace' = reg_trace' \o WriteTrace(wb') \o WriteTrace(last)
    BY <1>3 DEF AbsRegTrace
  <2> HIDE DEF last
  <2>3. AbsRegTrace' = reg_trace' \o <<>> \o <<>>
    BY <2>1, <2>2
  <2> QED  BY <1>3, <1>9, <2>3, AppendNothing DEF AbsRegTrace
<1>11. AbsMmuTrace = mmu_trace /\ AbsMmuTrace' = mmu_trace'
  <2>1. StoreTrace(me') = <<>>
    BY <1>2, <1>4 DEF StoreTrace
  <2>2. AbsMmuTrace' = mmu_trace \o <<>>
    BY <1>1, <1>3, <2>1 DEF AbsMmuTrace
  <2> QED  BY <1>1, <1>3, <1>8, <2>2, AppendNothing DEF AbsMmuTrace
<1> QED  BY <1>1, <1>5, <1>7, <1>10, <1>11, SameWords, SameStorage DEF Functional!RunProgram

LEMMA StepSimulation ==
  ASSUME RefinementInv, Faultless, FaultFree', [Next]_vars,
         status # "idle" => WellScheduled(text)
  PROVE  Functional!Next \/ UNCHANGED Functional!vars
<1>1. CASE RunProgram
  BY <1>1, RunStep DEF Functional!Next
<1>2. CASE TickAdvance
  BY <1>2, AdvanceStep DEF TickAdvance, DoStages, Running
<1>3. CASE TickRedirect
  BY <1>3, RedirectStep DEF TickRedirect, DoStages, Running
<1>4. CASE TickHalted
  BY <1>4, HaltedStep
<1>5. CASE TickTrap
  BY <1>5, TrapStep DEF TickTrap, DoStages, Running
<1>6. CASE DoLastTicks
  BY <1>6, LastTicksStep DEF DoLastTicks, Functional!Next, Functional!Run
<1>7. CASE TickMemoryFault
  BY <1>7 DEF TickMemoryFault, Faultless, InFlight, Running
<1>8. CASE TickFetchFault
  BY <1>8 DEF TickFetchFault, FaultFree
<1>9. CASE UNCHANGED vars
  BY <1>9 DEF vars, stages, hazard, Functional!vars, Functional!traces, AbsMem, AbsRegs,
               ArchRegs, AbsPC, AbsRegTrace, AbsMmuTrace, AbsStatus, InFlight
<1> QED  BY <1>1, <1>2, <1>3, <1>4, <1>5, <1>6, <1>7, <1>8, <1>9 DEF Next, Tick

LEMMA InitSimulation == Init => Functional!Init
  BY SameWords
     DEF Init, Functional!Init, AbsMem, AbsRegs, AbsPC, AbsRegTrace, AbsMmuTrace,
         AbsStatus, InFlight, DecodeCleared, ExecuteCleared

\* A run of well-scheduled programs that meets no fault is a run of the
\* interpreter: the pipeline with its bypasses, stalls and cleared stages
\* executes the same instructions in the same order, and writes the same
\* registers, memory and traces, for every word size, image and data memory.
THEOREM CycleModelRefines ==
  ASSUME \A p \in Programs : WellScheduled(p)
  PROVE  Spec /\ []Faultless => ImplementsFunctional
<1>1. RefinementInv => (status # "idle" => WellScheduled(text))
  BY DEF RefinementInv, OperandInv, StallInv, TypeInv, ImageLoaded
<1>2. RefinementInv /\ Faultless /\ [Next]_vars => RefinementInv'
  BY <1>1, NextRefinementInv
<1>3. RefinementInv /\ Faultless /\ Faultless' /\ [Next]_vars
        => [Functional!Next]_(Functional!vars)
  BY <1>1, StepSimulation DEF Faultless, FaultFree
<1> QED  BY <1>2, <1>3, InitRefinementInv, InitSimulation, PTL
         DEF Spec, ImplementsFunctional, Functional!Spec

-----------------------------------------------------------------------------
(* Exceptions *)

\* What the stages hold while the pipeline waits for a load.
OrderInv == StallInv /\ BehindLoad /\ Decoded

LEMMA WordSizeMultiple == \E k \in Nat : WordSize = 4 * k
<1> DEFINE k == 2 ^ (XLEN - 2)
           n == XLEN - 2
           W == 2 ^ XLEN
           h == 2 ^ (XLEN - 1)
<1>1. n \in 0 .. XLEN - 1 /\ n + 1 \in 0 .. XLEN - 1 /\ n + 1 = XLEN - 1 /\ n + 2 = XLEN
  BY ByteBitsAssumption DEF XLEN
<1>2. (XLEN - 1) + 1 = XLEN
  BY ByteBitsAssumption DEF XLEN
<1>3. h = 2 * k
  BY <1>1, PowersAssumption
<1>4. W = 2 * h
  BY <1>1, <1>2, PowersAssumption
<1>5. k \in Nat
  BY <1>1, PowersOfTwo
<1> HIDE DEF k, h
<1>6. W = 4 * k
  <2> HIDE DEF W
  <2> QED  BY <1>3, <1>4, <1>5
<1> QED  BY <1>5, <1>6 DEF WordSize

\* A carry out of a word does not disturb the two low bits of a sum.
LEMMA AlignedSum ==
  ASSUME NEW a \in Nat, NEW b \in Nat, a % 4 = 0, b % 4 = 0
  PROVE  Add(a, b) % 4 = 0
<1>1. PICK k \in Nat : WordSize = 4 * k
  BY WordSizeMultiple
<1> DEFINE s == a + b
           W == WordSize
           q == s \div W
           p == k * q
<1>2. W \in Nat /\ W > 0 /\ s \in Nat /\ W = 4 * k
  BY <1>1, WordType
<1>3. s = 4 * (s \div 4) /\ s \div 4 \in Int
  <2>1. a = 4 * (a \div 4) /\ b = 4 * (b \div 4)
    OBVIOUS
  <2> QED  BY <2>1
<1> HIDE DEF s, W
<1>4. q \in Int /\ s % W = s - W * q
  BY <1>2
<1> HIDE DEF q
<1>5. p \in Int /\ W * q = 4 * p
  BY <1>1, <1>2, <1>4
<1> HIDE DEF p
<1> DEFINE m == s \div 4
<1>6. m \in Int /\ s = 4 * m
  BY <1>3
<1> HIDE DEF m
<1>7. s % W = 4 * (m - p)
  BY <1>4, <1>5, <1>6
<1>8. (4 * (m - p)) % 4 = 0
  BY <1>5, <1>6
<1> QED  BY <1>7, <1>8 DEF Add, s, W

\* The address after a tick of the halted pipeline: it is not a jump that
\* waits for a load, and a branch goes to an aligned address.
LEMMA HaltedFetchAligned ==
  ASSUME OrderInv, Running, ~enabled, TrapSafe(text), BranchesAligned(text)
  PROVE  PCNext % 4 = 0
<1> DEFINE i == ex.instr
<1>1. PICK a \in DOMAIN text : /\ text[a].opcode = "LOAD" /\ text[a].rd = me.wb_a
                               /\ ex.pc_de = Add(a, 4)
  BY DEF OrderInv, BehindLoad
<1>2. /\ ex.pc_de \in DOMAIN text /\ i = text[ex.pc_de]
      /\ de.pc_de \in DOMAIN text /\ pc = Add(de.pc_de, 4)
  BY DEF OrderInv, BehindLoad, StallInv, InFlightInOrder
<1>3. ReadsLoaded(i, text[a])
  BY <1>1, BypassFromMemory
     DEF OrderInv, StallInv, Conflict, ReadsLoaded, Writes
<1>4. i.opcode # "JALR" /\ i.opcode # "JAL"
  <2>1. i.opcode # "JALR"
    BY <1>1, <1>2, <1>3 DEF TrapSafe
  <2>2. ~hasRs1(GetInstructionType("JAL")) /\ ~hasRs2(GetInstructionType("JAL"))
    BY DEF GetInstructionType, hasRs1, hasRs2
  <2> QED  BY <1>3, <2>1, <2>2 DEF ReadsLoaded
<1>5. ~ex.is_jalr /\ (pc_r => i.opcode = "BRANCH")
  <2>1. /\ ex.is_jalr = (i.opcode = "JALR") /\ ex.jmp_cond = (i.opcode \in {"JAL", "JALR"})
        /\ ex.brn_cond = (i.opcode = "BRANCH")
    BY Signals DEF OrderInv, Decoded
  <2> QED  BY <1>4, <2>1 DEF pc_r
<1>6. text \in Programs
  BY DEF OrderInv, StallInv, TypeInv, ImageLoaded, Running
<1>7. /\ ex.pc_de \in Nat /\ ex.pc_de % 4 = 0 /\ de.pc_de \in Nat /\ de.pc_de % 4 = 0
      /\ i \in Instr
  BY <1>2, <1>6, ProgramsAssumption
<1>8. CASE pc_r
  <2>1. PCNext = Add(ex.pc_de, pc_disp)
    BY <1>5, <1>8 DEF PCNext
  <2>2. pc_disp = ImmediateExtensionBlock(i)
    BY <1>5 DEF pc_disp
  <2>3. ImmediateExtensionBlock(i) = ImmB(i)
    <3>1. GetInstructionType(i.opcode) = "BType"
      BY <1>5, <1>8 DEF GetInstructionType
    <3> QED  BY <3>1 DEF ImmediateExtensionBlock
  <2>4. ImmB(i) \in Nat /\ ImmB(i) % 4 = 0
    BY <1>2, <1>5, <1>7, <1>8, ImmediateType, WordType DEF BranchesAligned
  <2> HIDE DEF i
  <2> QED  BY <1>7, <2>1, <2>2, <2>3, <2>4, AlignedSum
<1>9. CASE ~pc_r
  <2>1. PCNext = Add(pc, 4)
    BY <1>5, <1>9 DEF PCNext
  <2>2. 4 \in Nat /\ 4 % 4 = 0
    OBVIOUS
  <2>3. pc % 4 = 0
    BY <1>2, <1>7, <2>2, AlignedSum
  <2>4. pc \in Nat
    <3>1. de.pc_de \in Int /\ 4 \in Int
      BY <1>7
    <3>2. pc \in Word
      BY <1>2, <3>1, SumType
    <3> QED  BY <3>2, WordType
  <2> QED  BY <2>1, <2>2, <2>3, <2>4, AlignedSum
<1> QED  BY <1>8, <1>9

LEMMA NextOrderInv == OrderInv /\ [Next]_vars => OrderInv'
<1> SUFFICES ASSUME OrderInv, [Next]_vars PROVE OrderInv'
  OBVIOUS
<1>1. StallInv' /\ BehindLoad'
  BY NextStallInv, NextBehindLoad DEF OrderInv
<1>2. Decoded'
  BY NextDecoded DEF OrderInv, StallInv
<1> QED  BY <1>1, <1>2 DEF OrderInv

LEMMA InitOrderInv == Init => OrderInv
<1> SUFFICES ASSUME Init PROVE OrderInv
  OBVIOUS
<1>1. StallInv /\ BehindLoad
  BY InitStallInv DEF Init, BehindLoad, Running
<1>2. Decoded
  <2>1. ex = ExecuteCleared /\ de = DecodeCleared
    BY DEF Init
  <2>2. ex.instr = ZeroInstr /\ ZeroInstr.opcode = "ZERO" /\ ~ex.v_de /\ ~de.v_de
    BY <2>1 DEF ExecuteCleared, DecodeCleared, ZeroInstr
  <2> QED  BY <2>1, <2>2, ClearedDecoded, ZeroInstrDecodes DEF Decoded
<1> QED  BY <1>1, <1>2 DEF OrderInv

\* On a program without the patterns of TrapSafe, whose branches go to aligned
\* addresses, no exception overtakes an older instruction: ExceptionsInOrder
\* fails for no other reason, however the run ends and whatever the access of
\* the memory stage does.
THEOREM ExceptionsOrdered ==
  ASSUME \A p \in Programs : TrapSafe(p) /\ BranchesAligned(p)
  PROVE  Spec => ExceptionsInOrder
<1>1. OrderInv /\ [Next]_vars =>
        [Running /\ ~MemoryFault(me, mem) /\ status' \in {"draining", "exception"}
           => enabled /\ (status' = "draining" => ~pc_r)]_vars
  <2> SUFFICES ASSUME OrderInv, [Next]_vars, Running, ~MemoryFault(me, mem),
                      status' \in {"draining", "exception"}
               PROVE  enabled /\ (status' = "draining" => ~pc_r)
    OBVIOUS
  <2>1. TrapSafe(text) /\ BranchesAligned(text)
    BY DEF OrderInv, StallInv, TypeInv, ImageLoaded, Running
  <2>2. CASE TickTrap
    BY <2>1, <2>2, TrapInOrder DEF OrderInv, TickTrap
  <2>3. CASE TickFetchFault
    <3>1. PCNext % 4 # 0 /\ status' = "exception"
      BY <2>3 DEF TickFetchFault
    <3>2. enabled
      BY <2>1, <3>1, HaltedFetchAligned
    <3> QED  BY <3>1, <3>2
  <2> QED  BY <2>2, <2>3
           DEF Next, Tick, RunProgram, TickAdvance, TickRedirect, TickHalted, DoLastTicks,
               TickMemoryFault, Running, vars
<1> QED  BY <1>1, InitOrderInv, NextOrderInv, PTL DEF Spec, ExceptionsInOrder
=============================================================================
