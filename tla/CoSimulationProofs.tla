------------------------- MODULE CoSimulationProofs -------------------------
(***************************************************************************)
(* The traces of both models tell their registers and memory, for every    *)
(* program, every word size and whatever the models compute: comparing the *)
(* traces compares the machines.                                           *)
(***************************************************************************)
EXTENDS CoSimulation, PipelineProofs, TraceFilesProofs

\* The traces of the interpreter are sequences, x0 reads as 0, and the memory
\* trace is empty before the program runs.
InterpreterInv ==
  /\ InterpreterTracesReplay
  /\ i_regs[0] = 0
  /\ IsTrace(i_reg_trace) /\ IsTrace(i_mmu_trace)
  /\ i_status = "idle" => i_mmu_trace = <<>>

\* The cycle model waits for the interpreter.
TestInv ==
  /\ InterpreterInv /\ ReplayInv
  /\ i_status = "idle" => status = "idle"

-----------------------------------------------------------------------------
(* The interpreter computes with the operators of the cycle model. *)

LEMMA InterpreterArithmetic ==
  /\ Interpreter!ByteSize = ByteSize /\ Interpreter!WordSize = WordSize
  /\ \A a, b : Interpreter!Add(a, b) = Add(a, b) /\ Interpreter!Sub(a, b) = Sub(a, b)
  /\ \A a : Interpreter!Signed(a) = Signed(a)
  /\ \A a, b : /\ Interpreter!Sll(a, b) = Sll(a, b) /\ Interpreter!Srl(a, b) = Srl(a, b)
               /\ Interpreter!Sra(a, b) = Sra(a, b)
<1>1. /\ Interpreter!ByteSize = ByteSize /\ Interpreter!WordSize = WordSize
      /\ Interpreter!XLEN = XLEN
  BY DEF ByteSize, WordSize, XLEN, Interpreter!ByteSize, Interpreter!WordSize,
         Interpreter!XLEN
<1>2. Interpreter!SignBit = SignBit
  BY <1>1 DEF SignBit, Interpreter!SignBit
<1>3. \A a : Interpreter!Signed(a) = Signed(a)
  BY <1>1, <1>2 DEF Signed, Interpreter!Signed
<1> QED  BY <1>1, <1>2, <1>3
         DEF Add, Sub, Sll, Srl, Sra, Interpreter!Add, Interpreter!Sub,
             Interpreter!Sll, Interpreter!Srl, Interpreter!Sra

LEMMA InterpreterBits ==
  ASSUME NEW a, NEW b
  PROVE  /\ Interpreter!BitAnd(a, b) = BitAnd(a, b)
         /\ Interpreter!BitOr(a, b) = BitOr(a, b)
         /\ Interpreter!BitXor(a, b) = BitXor(a, b)
<1>1. \A x : Interpreter!Bits(x) = Bits(x)
  BY DEF Bits, Interpreter!Bits, XLEN, Interpreter!XLEN
<1>2. \A S : Interpreter!FromBits(S) = FromBits(S)
  BY Zenon DEF FromBits, SumSet, FoldSet, MapThenFoldSet, Interpreter!FromBits,
               Interpreter!SumSet, Interpreter!FoldSet, Interpreter!MapThenFoldSet
<1>3. \A S, T : Interpreter!SymDiff(S, T) = SymDiff(S, T)
  BY Zenon DEF SymDiff, Interpreter!SymDiff
<1> QED  BY <1>1, <1>2, <1>3
         DEF BitAnd, BitOr, BitXor, Interpreter!BitAnd, Interpreter!BitOr,
             Interpreter!BitXor

LEMMA InterpreterImmediates ==
  ASSUME NEW i
  PROVE  /\ Interpreter!ImmI(i) = ImmI(i) /\ Interpreter!ImmS(i) = ImmS(i)
         /\ Interpreter!ImmB(i) = ImmB(i) /\ Interpreter!ImmU(i) = ImmU(i)
         /\ Interpreter!ImmJ(i) = ImmJ(i)
<1>1. \A v, bits : Interpreter!Extend(v, bits, i) = Extend(v, bits, i)
  BY InterpreterArithmetic DEF Extend, Interpreter!Extend
<1> QED  BY <1>1, InterpreterArithmetic
         DEF ImmI, ImmS, ImmB, ImmU, ImmJ, Interpreter!ImmI, Interpreter!ImmS,
             Interpreter!ImmB, Interpreter!ImmU, Interpreter!ImmJ

LEMMA InterpreterStorage ==
  /\ \A M, a, n : Interpreter!Mapped(M, a, n) <=> Mapped(M, a, n)
  /\ \A M, a, n : Interpreter!GetBytes(M, a, n) = GetBytes(M, a, n)
  /\ \A M, a, n, v : Interpreter!SetBytes(M, a, n, v) = SetBytes(M, a, n, v)
  /\ \A c, v : Interpreter!Narrow(c, v) = Narrow(c, v)
  /\ \A c, a, v : Interpreter!StoreRecord(c, a, v) = StoreRecord(c, a, v)
  /\ \A R, a, v : Interpreter!WriteReg(R, a, v) = WriteReg(R, a, v)
  /\ \A a, v : Interpreter!RegRecord(a, v) = RegRecord(a, v)
<1>1. \A M, a, n : Interpreter!Mapped(M, a, n) <=> Mapped(M, a, n)
  BY DEF Mapped, Interpreter!Mapped
<1>2. \A M, a, n : Interpreter!GetBytes(M, a, n) = GetBytes(M, a, n)
  BY Zenon DEF GetBytes, ByteSize, MapThenSumSet, MapThenFoldSet,
               Interpreter!GetBytes, Interpreter!ByteSize, Interpreter!MapThenSumSet,
               Interpreter!MapThenFoldSet
<1>3. \A v, k : Interpreter!ByteAt(v, k) = ByteAt(v, k)
  BY InterpreterArithmetic DEF ByteAt, Interpreter!ByteAt
<1>4. \A M, a, n, v : Interpreter!SetBytes(M, a, n, v) = SetBytes(M, a, n, v)
  BY <1>3 DEF SetBytes, Interpreter!SetBytes
<1>5. \A c, v : Interpreter!Narrow(c, v) = Narrow(c, v)
  BY InterpreterArithmetic DEF Narrow, Interpreter!Narrow
<1>6. \A c, a, v : Interpreter!StoreRecord(c, a, v) = StoreRecord(c, a, v)
  BY <1>5 DEF StoreRecord, Interpreter!StoreRecord
<1>7. /\ \A R, a, v : Interpreter!WriteReg(R, a, v) = WriteReg(R, a, v)
      /\ \A a, v : Interpreter!RegRecord(a, v) = RegRecord(a, v)
  BY DEF WriteReg, RegRecord, Interpreter!WriteReg, Interpreter!RegRecord
<1> QED  BY <1>1, <1>2, <1>4, <1>5, <1>6, <1>7

-----------------------------------------------------------------------------
(* The interpreter *)

\* The handlers that write a register.
LEMMA WriteReplay ==
  ASSUME InterpreterInv, NEW v, Interpreter!Write(v), i_status # "idle",
         UNCHANGED <<i_mem, i_mmu_trace, i_status>>
  PROVE  InterpreterInv'
<1>1. /\ RegReplayed(i_regs', i_reg_trace') /\ i_regs'[0] = 0 /\ IsTrace(i_reg_trace')
  <2> DEFINE a == text[i_pc].rd
  <2>1. i_regs' = WriteReg(i_regs, a, v) /\ i_reg_trace' = i_reg_trace \o RegRecord(a, v)
    BY DEF Interpreter!Write, Interpreter!instr, WriteReg, RegRecord,
           Interpreter!WriteReg, Interpreter!RegRecord
  <2> HIDE DEF a
  <2> QED  BY <2>1, RegReplayWrite DEF InterpreterInv, InterpreterTracesReplay
<1> QED  BY <1>1 DEF InterpreterInv, InterpreterTracesReplay

LEMMA StoreReplay ==
  ASSUME InterpreterInv, Interpreter!HandleStore
  PROVE  InterpreterInv'
<1>1. \E code, addr, v :
        /\ i_mem' = SetBytes(i_mem, addr, 2 ^ code, Narrow(code, v))
        /\ i_mmu_trace' = i_mmu_trace \o <<StoreRecord(code, addr, v)>>
  BY DEF Interpreter!HandleStore, SetBytes, Narrow, StoreRecord, ByteAt, ByteSize,
         Interpreter!SetBytes, Interpreter!Narrow, Interpreter!StoreRecord,
         Interpreter!ByteAt, Interpreter!ByteSize
<1>2. UNCHANGED <<i_regs, i_reg_trace, i_status>> /\ i_status = "running"
  BY DEF Interpreter!HandleStore, Interpreter!Decode, Interpreter!Continues
<1>3. MemReplayed(i_mem', DataMem, i_mmu_trace') /\ IsTrace(i_mmu_trace')
  BY <1>1, <1>2, MemReplayStore, AppendRecord DEF InterpreterInv, InterpreterTracesReplay
<1> QED  BY <1>2, <1>3 DEF InterpreterInv, InterpreterTracesReplay

\* A store that faults has left its record and ends the process.
LEMMA SegFaultReplay ==
  ASSUME InterpreterInv, Interpreter!HandleSegFault
  PROVE  InterpreterInv'
<1>1. /\ i_status' = "segv" /\ UNCHANGED <<i_regs, i_reg_trace>>
      /\ \/ i_mmu_trace' = i_mmu_trace \o <<>>
         \/ \E x : i_mmu_trace' = i_mmu_trace \o <<x>>
  BY DEF Interpreter!HandleSegFault
<1>2. IsTrace(i_mmu_trace')
  BY <1>1, AppendRecord, AppendNothing DEF InterpreterInv
<1> QED  BY <1>1, <1>2 DEF InterpreterInv, InterpreterTracesReplay

LEMMA RunProgramReplay ==
  ASSUME InterpreterInv, Interpreter!RunProgram
  PROVE  InterpreterInv'
<1>1. \E a, v : /\ i_regs' = WriteReg(i_regs, a, v)
                /\ i_reg_trace' = i_reg_trace \o RegRecord(a, v)
  BY DEF Interpreter!RunProgram, WriteReg, RegRecord,
         Interpreter!WriteReg, Interpreter!RegRecord
<1>2. RegReplayed(i_regs', i_reg_trace') /\ i_regs'[0] = 0 /\ IsTrace(i_reg_trace')
  BY <1>1, RegReplayWrite DEF InterpreterInv, InterpreterTracesReplay
<1>3. MemReplayed(i_mem', DataMem, i_mmu_trace') /\ UNCHANGED i_mmu_trace
  BY ReplayInitially, DataMemAssumption DEF Interpreter!RunProgram, InterpreterInv
<1> QED  BY <1>2, <1>3 DEF Interpreter!RunProgram, InterpreterInv, InterpreterTracesReplay

LEMMA InterpreterReplay ==
  ASSUME InterpreterInv, Interpreter!Next
  PROVE  InterpreterInv'
<1> USE DEF Interpreter!Decode, Interpreter!Continues, Interpreter!traces
<1>1. CASE Interpreter!RunProgram
  BY <1>1, RunProgramReplay
<1>2. CASE \/ Interpreter!HandleLUI \/ Interpreter!HandleAUIPC \/ Interpreter!HandleJAL
           \/ Interpreter!HandleJALR \/ Interpreter!HandleLoad
           \/ Interpreter!HandleOpImm \/ Interpreter!HandleOp
  <2>1. \E v : Interpreter!Write(v)
    BY <1>2 DEF Interpreter!HandleLUI, Interpreter!HandleAUIPC, Interpreter!HandleJAL,
                Interpreter!HandleJALR, Interpreter!HandleLoad,
                Interpreter!HandleOpImm, Interpreter!HandleOp
  <2>2. i_status # "idle" /\ UNCHANGED <<i_mem, i_mmu_trace, i_status>>
    BY <1>2 DEF Interpreter!HandleLUI, Interpreter!HandleAUIPC, Interpreter!HandleJAL,
                Interpreter!HandleJALR, Interpreter!HandleLoad,
                Interpreter!HandleOpImm, Interpreter!HandleOp
  <2> QED  BY <2>1, <2>2, WriteReplay
<1>3. CASE Interpreter!HandleStore
  BY <1>3, StoreReplay
<1>4. CASE Interpreter!HandleSegFault
  BY <1>4, SegFaultReplay
<1>5. CASE \/ Interpreter!HandleBranch \/ Interpreter!HandleFENCE
           \/ Interpreter!HandleSystem \/ Interpreter!HandleUnknown
           \/ Interpreter!LoadFromPCFault
  <2>1. /\ UNCHANGED <<i_mem, i_regs, i_reg_trace, i_mmu_trace>>
        /\ i_status = "running" /\ i_status' # "idle"
    BY <1>5 DEF Interpreter!HandleBranch, Interpreter!HandleFENCE,
                Interpreter!HandleSystem, Interpreter!HandleUnknown,
                Interpreter!LoadFromPCFault
  <2> QED  BY <2>1 DEF InterpreterInv, InterpreterTracesReplay
<1> QED  BY <1>1, <1>2, <1>3, <1>4, <1>5 DEF Interpreter!Next, Interpreter!Run

-----------------------------------------------------------------------------
(* The co-simulation *)

LEMMA InitTestInv == TestInit => TestInv
<1> SUFFICES ASSUME TestInit PROVE TestInv
  OBVIOUS
<1>1. ReplayInv
  BY InitTypeInv, ReplayInitially
     DEF TestInit, Init, ReplayInv, TracesReplay, ZeroReads, Regs
<1>2. InterpreterInv
  BY ReplayInitially
     DEF TestInit, Interpreter!Init, InterpreterInv, InterpreterTracesReplay,
         Regs, Interpreter!Regs
<1> QED  BY <1>1, <1>2 DEF TestInv, TestInit, Init

\* The interpreter loads the image while the cycle model is idle and leaves the
\* rest of that model alone.
LEMMA RunInterpreterKeeps ==
  ASSUME TestInv, RunInterpreter
  PROVE  ReplayInv'
<1>1. \/ UNCHANGED text
      \/ text' \in Programs /\ status = "idle"
  BY DEF RunInterpreter, TestInv, Interpreter!Next, Interpreter!Run, Interpreter!RunProgram,
         Interpreter!LoadFromPCFault, Interpreter!HandleLUI, Interpreter!HandleAUIPC,
         Interpreter!HandleJAL, Interpreter!HandleJALR, Interpreter!HandleBranch,
         Interpreter!HandleLoad, Interpreter!HandleStore, Interpreter!HandleSegFault,
         Interpreter!HandleOpImm, Interpreter!HandleOp, Interpreter!HandleFENCE,
         Interpreter!HandleSystem, Interpreter!HandleUnknown, Interpreter!Decode
<1>2. UNCHANGED <<mem, regs, stages, hazard, reg_trace, mmu_trace, status>>
  BY DEF RunInterpreter
<1>3. ImageLoaded'
  BY <1>1, <1>2, ProgramsAssumption DEF TestInv, ReplayInv, TypeInv, ImageLoaded
<1>4. ControlTypeOK'
  BY <1>2 DEF TestInv, ReplayInv, TypeInv, ControlTypeOK, stages, hazard
<1>5. BeforeRun' /\ SignalsDecoded' /\ Trapped'
  BY <1>2 DEF TestInv, ReplayInv, TypeInv, BeforeRun, SignalsDecoded, Trapped,
              stages, hazard
<1> QED  BY <1>2, <1>3, <1>4, <1>5 DEF TestInv, ReplayInv, TypeInv, ZeroReads, TracesReplay

LEMMA NextTestInv ==
  ASSUME TestInv, [TestNext]_testVars
  PROVE  TestInv'
<1>1. CASE RunInterpreter
  <2>1. InterpreterInv' /\ ReplayInv'
    BY <1>1, InterpreterReplay, RunInterpreterKeeps DEF RunInterpreter, TestInv
  <2>2. i_status' # "idle" \/ UNCHANGED i_status
    BY <1>1 DEF RunInterpreter, Interpreter!Next, Interpreter!Run, Interpreter!RunProgram,
         Interpreter!LoadFromPCFault, Interpreter!HandleLUI, Interpreter!HandleAUIPC,
         Interpreter!HandleJAL, Interpreter!HandleJALR, Interpreter!HandleBranch,
         Interpreter!HandleLoad, Interpreter!HandleStore, Interpreter!HandleSegFault,
         Interpreter!HandleOpImm, Interpreter!HandleOp, Interpreter!HandleFENCE,
         Interpreter!HandleSystem, Interpreter!HandleUnknown, Interpreter!Continues
  <2> QED  BY <1>1, <2>1, <2>2 DEF RunInterpreter, TestInv
<1>2. CASE RunCycleModel
  BY <1>2, NextReplay
     DEF RunCycleModel, TestInv, InterpreterInv, InterpreterTracesReplay, i_vars, Valid
<1>3. CASE UNCHANGED <<vars, i_vars>>
  BY <1>3, NextReplay DEF TestInv, InterpreterInv, InterpreterTracesReplay, i_vars, vars
<1> QED  BY <1>1, <1>2, <1>3 DEF TestNext, CompareTraces, testVars

\* Whatever program it runs, the last record of each register and of each byte
\* is what the interpreter holds there: no handler forgets a record, writes one
\* of a write it does not do, or traces another value than it writes.
THEOREM InterpreterTraced == TestSpec => []InterpreterTracesReplay
<1>1. TestInv => InterpreterTracesReplay
  BY DEF TestInv, InterpreterInv
<1>2. TestInv /\ [TestNext]_testVars => TestInv'
  BY NextTestInv
<1> QED  BY <1>1, <1>2, InitTestInv, PTL DEF TestSpec

\* Two models that have left the same register and memory traces have the same
\* registers and memory, although each writes its records at other points: what
\* CompareTraces compares decides whether the machines agree.
THEOREM TracesDecide == TestSpec => []SameTracesSameMachine
<1>1. TestInv => SameTracesSameMachine
  <2> SUFFICES ASSUME TestInv, Valid(i_status), Valid(status),
                      reg_trace = i_reg_trace, mmu_trace = i_mmu_trace
               PROVE  regs = i_regs /\ mem = i_mem
    BY DEF SameTracesSameMachine
  <2>1. RegReplayed(regs, reg_trace) /\ RegReplayed(i_regs, reg_trace)
    BY DEF TestInv, ReplayInv, TracesReplay, InterpreterInv, InterpreterTracesReplay
  <2>2. MemReplayed(mem, DataMem, mmu_trace) /\ MemReplayed(i_mem, DataMem, mmu_trace)
    BY DEF TestInv, ReplayInv, TracesReplay, InterpreterInv, InterpreterTracesReplay, Valid
  <2> QED  BY <2>1, <2>2, RegReplayUnique, MemReplayUnique DEF TestInv, ReplayInv
<1>2. TestInv /\ [TestNext]_testVars => TestInv'
  BY NextTestInv
<1> QED  BY <1>1, <1>2, InitTestInv, PTL DEF TestSpec

-----------------------------------------------------------------------------
(* What the interpreter keeps *)

Images == \A a \in DOMAIN text : text[a] \in Instr

\* The records of the interpreter have the types of the writer's arguments.
InterpreterRecords ==
  /\ i_exec_trace \in Seq(Word \X Instr)
  /\ i_reg_trace \in Seq(Regs \X Word)
  /\ i_mmu_trace \in Seq((0 .. 2) \X Word \X Word)

InterpreterWords == InterpreterTypeOK /\ InterpreterRecords /\ Images

LEMMA InitInterpreterWords == TestInit => InterpreterWords
<1> SUFFICES ASSUME TestInit PROVE InterpreterWords
  OBVIOUS
<1>1. 0 \in Word
  BY WordType DEF Word
<1>2. Interpreter!Regs = Regs /\ 0 \in Regs
  BY DEF Regs, Interpreter!Regs
<1>3. Images
  BY DEF TestInit, Init, Images
<1>4. InterpreterTypeOK
  BY <1>1, <1>2 DEF TestInit, Interpreter!Init, InterpreterTypeOK
<1>5. InterpreterRecords
  BY DEF TestInit, Interpreter!Init, InterpreterRecords
<1> QED  BY <1>3, <1>4, <1>5 DEF InterpreterWords

\* A register is written, and traced, with a word.
LEMMA RegisterWritten ==
  ASSUME NEW R \in [Regs -> Word], R[0] = 0, NEW a \in Regs, NEW v \in Word,
         NEW t \in Seq(Regs \X Word)
  PROVE  /\ WriteReg(R, a, v) \in [Regs -> Word] /\ WriteReg(R, a, v)[0] = 0
         /\ t \o RegRecord(a, v) \in Seq(Regs \X Word)
<1>1. 0 \in Word /\ 0 \in Regs
  BY WordType DEF Word, Regs
<1>2. WriteReg(R, a, v) \in [Regs -> Word] /\ WriteReg(R, a, v)[0] = 0
  BY <1>1 DEF WriteReg
<1> DEFINE x == <<a, v>>
           S == Regs \X Word
<1>3. x \in S /\ t \in Seq(S) /\ RegRecord(a, v) \in {<<>>, <<x>>}
  BY DEF RegRecord
<1> HIDE DEF x, S
<1>4. t \o <<x>> \in Seq(S) /\ t \o <<>> \in Seq(S)
  BY <1>3
<1>5. t \o RegRecord(a, v) \in Seq(S)
  BY <1>3, <1>4
<1> QED  BY <1>2, <1>5 DEF S

LEMMA DecodeWords ==
  ASSUME InterpreterWords, NEW S, Interpreter!Decode(S)
  PROVE  /\ i_status = "running" /\ Interpreter!instr \in Instr /\ Images'
         /\ i_exec_trace' \in Seq(Word \X Instr)
<1> DEFINE T == Word \X Instr
           x == <<i_pc, Interpreter!instr>>
<1>1. i_status = "running" /\ Interpreter!instr \in Instr /\ Images'
  BY DEF InterpreterWords, Images, Interpreter!Decode, Interpreter!instr
<1>2. x \in T /\ i_exec_trace \in Seq(T) /\ i_exec_trace' = i_exec_trace \o <<x>>
  BY <1>1 DEF InterpreterWords, InterpreterTypeOK, InterpreterRecords, Interpreter!Decode
<1> HIDE DEF T, x
<1>3. i_exec_trace' \in Seq(T)
  BY <1>2
<1> QED  BY <1>1, <1>3 DEF T

LEMMA GotoWord ==
  ASSUME NEW c \in Int, Interpreter!Goto(c)
  PROVE  i_pc' \in Word
<1>1. i_pc' = c % WordSize
  BY InterpreterArithmetic DEF Interpreter!Goto
<1> QED  BY <1>1, Remainder

\* The handlers that write a register, with the value and the target that they
\* compute.
LEMMA WritingHandler ==
  ASSUME InterpreterWords, NEW S, Interpreter!Decode(S),
         NEW v \in Word, Interpreter!Write(v), NEW c \in Int, Interpreter!Goto(c),
         UNCHANGED <<i_mem, i_mmu_trace, i_status>>
  PROVE  InterpreterWords'
<1>1. Images' /\ i_exec_trace' \in Seq(Word \X Instr) /\ Interpreter!instr \in Instr
  BY DecodeWords
<1>2. i_pc' \in Word
  BY GotoWord
<1> DEFINE a == Interpreter!instr.rd
<1>3. i_regs' = WriteReg(i_regs, a, v) /\ i_reg_trace' = i_reg_trace \o RegRecord(a, v)
  BY InterpreterStorage DEF Interpreter!Write
<1>4. a \in Regs
  BY <1>1, InstrType DEF Regs
<1> HIDE DEF a
<1>5. i_regs \in [Regs -> Word] /\ i_regs[0] = 0 /\ i_reg_trace \in Seq(Regs \X Word)
  BY DEF InterpreterWords, InterpreterTypeOK, InterpreterRecords
<1>6. i_regs' \in [Regs -> Word] /\ i_regs'[0] = 0 /\ i_reg_trace' \in Seq(Regs \X Word)
  BY <1>3, <1>4, <1>5, RegisterWritten
<1>7. InterpreterTypeOK'
  BY <1>2, <1>6 DEF InterpreterWords, InterpreterTypeOK
<1>8. InterpreterRecords'
  BY <1>1, <1>6 DEF InterpreterWords, InterpreterRecords
<1> QED  BY <1>1, <1>7, <1>8 DEF InterpreterWords

\* The handlers that write no register.
LEMMA QuietHandler ==
  ASSUME InterpreterWords, NEW S, Interpreter!Decode(S), i_pc' \in Word,
         i_status' \in {"running", "ECALL", "EBREAK", "segv", "abort"},
         UNCHANGED <<i_regs, i_reg_trace>>, Memory(i_mem'),
         i_mmu_trace' \in Seq((0 .. 2) \X Word \X Word)
  PROVE  InterpreterWords'
<1>1. Images' /\ i_exec_trace' \in Seq(Word \X Instr)
  BY DecodeWords
<1>2. InterpreterTypeOK'
  BY DEF InterpreterWords, InterpreterTypeOK, Memory, ByteValues
<1>3. InterpreterRecords'
  BY <1>1 DEF InterpreterWords, InterpreterRecords
<1> QED  BY <1>1, <1>2, <1>3 DEF InterpreterWords

LEMMA OperationWord ==
  ASSUME NEW f \in 0 .. 7, NEW alt \in BOOLEAN, NEW a \in Word, NEW b \in Word
  PROVE  Interpreter!Operation(f, alt, a, b) \in Word
<1>1. a \in Int /\ b \in Int /\ 0 \in Word /\ 1 \in Word
  BY WordType DEF Word
<1>2. /\ Interpreter!Add(a, b) \in Word /\ Interpreter!Sub(a, b) \in Word
      /\ Interpreter!BitAnd(a, b) \in Word /\ Interpreter!BitOr(a, b) \in Word
      /\ Interpreter!BitXor(a, b) \in Word
      /\ Interpreter!Sll(a, b) \in Word /\ Interpreter!Srl(a, b) \in Word
      /\ Interpreter!Sra(a, b) \in Word
  BY <1>1, InterpreterArithmetic, InterpreterBits, SumType, BitwiseType, ShiftType
<1> DEFINE less == IF Interpreter!Signed(a) < Interpreter!Signed(b) THEN 1 ELSE 0
           below == IF a < b THEN 1 ELSE 0
<1>3. less \in {0, 1} /\ below \in {0, 1}
  OBVIOUS
<1>4. /\ Interpreter!Operation(0, alt, a, b) = IF alt THEN Interpreter!Sub(a, b)
                                                     ELSE Interpreter!Add(a, b)
      /\ Interpreter!Operation(1, alt, a, b) = Interpreter!Sll(a, b)
      /\ Interpreter!Operation(2, alt, a, b) = less
      /\ Interpreter!Operation(3, alt, a, b) = below
  BY DEF Interpreter!Operation
<1>5. /\ Interpreter!Operation(4, alt, a, b) = Interpreter!BitXor(a, b)
      /\ Interpreter!Operation(5, alt, a, b) = IF alt THEN Interpreter!Sra(a, b)
                                                     ELSE Interpreter!Srl(a, b)
      /\ Interpreter!Operation(6, alt, a, b) = Interpreter!BitOr(a, b)
      /\ Interpreter!Operation(7, alt, a, b) = Interpreter!BitAnd(a, b)
  BY DEF Interpreter!Operation
<1> HIDE DEF less, below
<1>6. f \in {0, 1, 2, 3, 4, 5, 6, 7}
  OBVIOUS
<1> QED  BY <1>1, <1>2, <1>3, <1>4, <1>5, <1>6

\* The operands of a handler.
LEMMA HandlerOperands ==
  ASSUME InterpreterWords, NEW S, Interpreter!Decode(S)
  PROVE  /\ Interpreter!Rs1 \in Word /\ Interpreter!Rs2 \in Word
         /\ i_pc \in Word /\ i_pc \in Int
         /\ Interpreter!ImmI(Interpreter!instr) \in Word
         /\ Interpreter!ImmS(Interpreter!instr) \in Word
         /\ Interpreter!ImmB(Interpreter!instr) \in Word
         /\ Interpreter!ImmU(Interpreter!instr) \in Word
         /\ Interpreter!ImmJ(Interpreter!instr) \in Word
<1>1. Interpreter!instr \in Instr
  BY DecodeWords
<1>2. i_regs \in [Regs -> Word] /\ i_pc \in Word
  BY DEF InterpreterWords, InterpreterTypeOK
<1>3. Interpreter!instr.rs1 \in Regs /\ Interpreter!instr.rs2 \in Regs
  BY <1>1, InstrType DEF Regs
<1>4. Interpreter!Rs1 \in Word /\ Interpreter!Rs2 \in Word
  BY <1>2, <1>3 DEF Interpreter!Rs1, Interpreter!Rs2
<1>5. i_pc \in Int
  BY <1>2, WordType
<1> QED  BY <1>1, <1>2, <1>4, <1>5, ImmediateType, InterpreterImmediates

LEMMA JumpHandlersWords ==
  ASSUME InterpreterWords,
         \/ Interpreter!HandleLUI \/ Interpreter!HandleAUIPC \/ Interpreter!HandleJAL
         \/ Interpreter!HandleOpImm \/ Interpreter!HandleOp
  PROVE  InterpreterWords'
<1> DEFINE i == Interpreter!instr
<1> USE DEF Interpreter!Continues
<1>1. \A v \in Word : v \in Int
  BY WordType
<1>2. CASE Interpreter!HandleLUI
  <2>1. Interpreter!Decode({"LUI"})
    BY <1>2 DEF Interpreter!HandleLUI
  <2>2. Interpreter!ImmU(i) \in Word /\ i_pc + 4 \in Int
    BY <2>1, HandlerOperands
  <2> QED  BY <1>2, <2>1, <2>2, WritingHandler DEF Interpreter!HandleLUI
<1>3. CASE Interpreter!HandleAUIPC
  <2>1. Interpreter!Decode({"AUIPC"})
    BY <1>3 DEF Interpreter!HandleAUIPC
  <2>2. Interpreter!ImmU(i) \in Int /\ i_pc \in Int
    BY <1>1, <2>1, HandlerOperands
  <2>3. Interpreter!Add(i_pc, Interpreter!ImmU(i)) \in Word /\ i_pc + 4 \in Int
    BY <2>2, SumType, InterpreterArithmetic
  <2> QED  BY <1>3, <2>1, <2>3, WritingHandler DEF Interpreter!HandleAUIPC
<1>4. CASE Interpreter!HandleJAL
  <2>1. Interpreter!Decode({"JAL"})
    BY <1>4 DEF Interpreter!HandleJAL
  <2>2. Interpreter!ImmJ(i) \in Int /\ i_pc \in Int /\ 4 \in Int
    BY <1>1, <2>1, HandlerOperands
  <2>3. Interpreter!Add(i_pc, 4) \in Word /\ i_pc + Interpreter!ImmJ(i) \in Int
    BY <2>2, SumType, InterpreterArithmetic
  <2> QED  BY <1>4, <2>1, <2>3, WritingHandler DEF Interpreter!HandleJAL
<1>5. CASE Interpreter!HandleOpImm
  <2> DEFINE alt == i.funct3 = 5 /\ Interpreter!Alternate(i)
             v == Interpreter!Operation(i.funct3, alt, Interpreter!Rs1, Interpreter!ImmI(i))
  <2>1. Interpreter!Decode({"OP_IMM"})
    BY <1>5 DEF Interpreter!HandleOpImm
  <2>2. i_pc + 4 \in Int /\ Interpreter!Rs1 \in Word /\ Interpreter!ImmI(i) \in Word
    BY <2>1, HandlerOperands
  <2>3. i.funct3 \in 0 .. 7
    BY <2>1, DecodeWords, InstrType
  <2>4. alt \in BOOLEAN
    BY DEF Interpreter!Alternate
  <2>5. v \in Word
    BY <2>2, <2>3, <2>4, OperationWord
  <2>6. Interpreter!Write(v)
    BY <1>5 DEF Interpreter!HandleOpImm
  <2> HIDE DEF v, alt
  <2> QED  BY <1>5, <2>1, <2>2, <2>5, <2>6, WritingHandler DEF Interpreter!HandleOpImm
<1>6. CASE Interpreter!HandleOp
  <2> DEFINE alt == Interpreter!Alternate(i)
             v == Interpreter!Operation(i.funct3, alt, Interpreter!Rs1, Interpreter!Rs2)
  <2>1. Interpreter!Decode({"OP"})
    BY <1>6 DEF Interpreter!HandleOp
  <2>2. i_pc + 4 \in Int /\ Interpreter!Rs1 \in Word /\ Interpreter!Rs2 \in Word
    BY <2>1, HandlerOperands
  <2>3. i.funct3 \in 0 .. 7
    BY <2>1, DecodeWords, InstrType
  <2>4. alt \in BOOLEAN
    BY DEF Interpreter!Alternate
  <2>5. v \in Word
    BY <2>2, <2>3, <2>4, OperationWord
  <2>6. Interpreter!Write(v)
    BY <1>6 DEF Interpreter!HandleOp
  <2> HIDE DEF v, alt
  <2> QED  BY <1>6, <2>1, <2>2, <2>5, <2>6, WritingHandler DEF Interpreter!HandleOp
<1> QED  BY <1>2, <1>3, <1>4, <1>5, <1>6

LEMMA JALRWords ==
  ASSUME InterpreterWords, Interpreter!HandleJALR
  PROVE  InterpreterWords'
<1> DEFINE i == Interpreter!instr
           v == Interpreter!Add(i_pc, 4)
           target == Interpreter!Add(i_regs'[i.rs1], Interpreter!ImmI(i))
           c == target - (target % 2)
<1>1. Interpreter!Decode({"JALR"}) /\ Interpreter!Write(v) /\ Interpreter!Goto(c)
  BY DEF Interpreter!HandleJALR
<1>2. UNCHANGED <<i_mem, i_mmu_trace, i_status>>
  BY DEF Interpreter!HandleJALR, Interpreter!Continues
<1>3. \A w \in Word : w \in Int
  BY WordType
<1>4. i \in Instr /\ i.rd \in Regs /\ i.rs1 \in Regs /\ i_pc \in Int /\ 4 \in Int
      /\ Interpreter!ImmI(i) \in Int
  BY <1>1, <1>3, DecodeWords, HandlerOperands, InstrType DEF Regs
<1>5. v \in Word
  BY <1>4, SumType, InterpreterArithmetic
<1>6. i_regs' \in [Regs -> Word]
  <2>1. i_regs' = WriteReg(i_regs, i.rd, v)
    BY <1>1, InterpreterStorage DEF Interpreter!Write
  <2>2. i_regs \in [Regs -> Word] /\ i_regs[0] = 0 /\ <<>> \in Seq(Regs \X Word)
    BY DEF InterpreterWords, InterpreterTypeOK
  <2> HIDE DEF i, v
  <2> QED  BY <1>4, <1>5, <2>1, <2>2, RegisterWritten
<1>7. target \in Int
  <2>1. i_regs'[i.rs1] \in Int
    BY <1>3, <1>4, <1>6
  <2> QED  BY <1>3, <1>4, <2>1, SumType, InterpreterArithmetic
<1>8. c \in Int
  <2> HIDE DEF target
  <2> QED  BY <1>7
<1> HIDE DEF v, c
<1> QED  BY <1>1, <1>2, <1>5, <1>8, WritingHandler

LEMMA LoadWords ==
  ASSUME InterpreterWords, Interpreter!HandleLoad
  PROVE  InterpreterWords'
<1> DEFINE i == Interpreter!instr
           n == Interpreter!LoadWidth
           addr == Interpreter!Add(Interpreter!Rs1, Interpreter!ImmI(i))
           v == Interpreter!GetBytes(i_mem, addr, n)
<1>1. /\ Interpreter!Decode({"LOAD"}) /\ i.funct3 \in {0, 1, 2, 4, 5}
      /\ Interpreter!Mapped(i_mem, addr, n) /\ Interpreter!Write(v)
      /\ Interpreter!Goto(i_pc + 4) /\ UNCHANGED <<i_mem, i_mmu_trace, i_status>>
  BY DEF Interpreter!HandleLoad, Interpreter!Continues
<1>2. i_pc + 4 \in Int /\ addr \in Nat
  <2>1. /\ Interpreter!Rs1 \in Int /\ Interpreter!ImmI(i) \in Int /\ i_pc \in Int
    BY <1>1, HandlerOperands, WordType
  <2>2. addr \in Word
    BY <2>1, SumType, InterpreterArithmetic
  <2> QED  BY <2>1, <2>2, WordType
<1>3. n \in {1, 2, 4}
  <2>1. i.funct3 % 4 \in 0 .. 2
    BY <1>1
  <2>2. n = 2 ^ (i.funct3 % 4)
    BY DEF Interpreter!LoadWidth
  <2> HIDE DEF n, i
  <2> QED  BY <2>1, <2>2, Widths
<1>4. v \in Word
  <2>1. Memory(i_mem)
    BY DEF InterpreterWords, InterpreterTypeOK, Memory, ByteValues
  <2>2. Mapped(i_mem, addr, n) /\ v = GetBytes(i_mem, addr, n)
    BY <1>1, InterpreterStorage
  <2> HIDE DEF n, addr, v
  <2> QED  BY <1>2, <1>3, <2>1, <2>2, LoadedType
<1> HIDE DEF v
<1> QED  BY <1>1, <1>2, <1>4, WritingHandler

\* The record of a store, and the trace with it.
LEMMA StoreTraced ==
  ASSUME InterpreterWords, NEW S, Interpreter!Decode(S), NEW addr \in Word
  PROVE  i_mmu_trace \o <<Interpreter!StoreRecord(Interpreter!StoreCode, addr, Interpreter!Rs2)>>
           \in Seq((0 .. 2) \X Word \X Word)
<1> DEFINE T == (0 .. 2) \X Word \X Word
           x == StoreRecord(Interpreter!StoreCode, addr, Interpreter!Rs2)
<1>1. Interpreter!StoreCode \in 0 .. 2 /\ Interpreter!Rs2 \in Word
  BY HandlerOperands DEF Interpreter!StoreCode
<1>2. x \in T /\ i_mmu_trace \in Seq(T)
  BY <1>1, StoreRecordType DEF InterpreterWords, InterpreterRecords
<1> HIDE DEF T, x
<1>3. i_mmu_trace \o <<x>> \in Seq(T)
  BY <1>2
<1> QED  BY <1>3, InterpreterStorage DEF T, x

LEMMA StoreWords ==
  ASSUME InterpreterWords, Interpreter!HandleStore
  PROVE  InterpreterWords'
<1> DEFINE i == Interpreter!instr
           c == Interpreter!StoreCode
           addr == Interpreter!Add(Interpreter!Rs1, Interpreter!ImmS(i))
           v == Interpreter!Narrow(c, Interpreter!Rs2)
           u == i_mmu_trace \o <<Interpreter!StoreRecord(c, addr, Interpreter!Rs2)>>
<1>1. /\ Interpreter!Decode({"STORE"})
      /\ i_mem' = Interpreter!SetBytes(i_mem, addr, 2 ^ c, v) /\ i_mmu_trace' = u
      /\ Interpreter!Goto(i_pc + 4) /\ UNCHANGED <<i_regs, i_reg_trace, i_status>>
  BY DEF Interpreter!HandleStore, Interpreter!Continues
<1>2. /\ Interpreter!Rs1 \in Int /\ Interpreter!ImmS(i) \in Int /\ i_pc + 4 \in Int
      /\ Interpreter!Rs2 \in Word
  <2>1. i_pc \in Int /\ Interpreter!Rs1 \in Word /\ Interpreter!ImmS(i) \in Word
        /\ Interpreter!Rs2 \in Word
    BY <1>1, HandlerOperands
  <2> QED  BY <2>1, WordType
<1>3. addr \in Word /\ addr \in Nat
  <2>1. addr \in Word
    BY <1>2, SumType, InterpreterArithmetic
  <2> QED  BY <2>1, WordType
<1>4. u \in Seq((0 .. 2) \X Word \X Word)
  <2> HIDE DEF addr
  <2> QED  BY <1>1, <1>3, StoreTraced
<1>5. Memory(i_mem')
  <2>1. Memory(i_mem)
    BY DEF InterpreterWords, InterpreterTypeOK, Memory, ByteValues
  <2>2. c \in 0 .. 2
    BY DEF Interpreter!StoreCode
  <2>3. i_mem' = SetBytes(i_mem, addr, 2 ^ c, v) /\ v = Narrow(c, Interpreter!Rs2)
    BY <1>1, InterpreterStorage
  <2> HIDE DEF c, addr, v
  <2>4. v \in Word /\ 2 ^ c \in {1, 2, 4}
    BY <1>2, <2>2, <2>3, NarrowType, Widths
  <2> QED  BY <1>3, <2>1, <2>3, <2>4, SetBytesType
<1>6. i_pc' \in Word
  BY <1>1, <1>2, GotoWord
<1>7. i_status' = "running"
  BY <1>1, DecodeWords
<1> HIDE DEF u
<1> QED  BY <1>1, <1>4, <1>5, <1>6, <1>7, QuietHandler

LEMMA SegFaultWords ==
  ASSUME InterpreterWords, Interpreter!HandleSegFault
  PROVE  InterpreterWords'
<1> DEFINE i == Interpreter!instr
           addr == Interpreter!Add(Interpreter!Rs1, Interpreter!ImmS(i))
           u == i_mmu_trace \o <<Interpreter!StoreRecord(Interpreter!StoreCode, addr,
                                                        Interpreter!Rs2)>>
<1>1. /\ Interpreter!Decode({"LOAD", "STORE"})
      /\ i_mmu_trace' \in {u, i_mmu_trace \o <<>>}
      /\ i_status' = "segv" /\ UNCHANGED <<i_mem, i_regs, i_reg_trace, i_pc>>
  BY DEF Interpreter!HandleSegFault
<1>2. addr \in Word
  <2>1. Interpreter!Rs1 \in Int /\ Interpreter!ImmS(i) \in Int
    BY <1>1, HandlerOperands, WordType
  <2> QED  BY <2>1, SumType, InterpreterArithmetic
<1>3. u \in Seq((0 .. 2) \X Word \X Word)
  <2> HIDE DEF addr
  <2> QED  BY <1>1, <1>2, StoreTraced
<1>4. i_mmu_trace \o <<>> \in Seq((0 .. 2) \X Word \X Word)
  <2> DEFINE T == (0 .. 2) \X Word \X Word
  <2>1. i_mmu_trace \in Seq(T)
    BY DEF InterpreterWords, InterpreterRecords
  <2> HIDE DEF T
  <2>2. i_mmu_trace \o <<>> \in Seq(T)
    BY <2>1
  <2> QED  BY <2>2 DEF T
<1>5. i_pc' \in Word /\ Memory(i_mem')
  BY <1>1 DEF InterpreterWords, InterpreterTypeOK, Memory, ByteValues
<1> HIDE DEF u
<1> QED  BY <1>1, <1>3, <1>4, <1>5, QuietHandler

LEMMA ControlHandlersWords ==
  ASSUME InterpreterWords,
         \/ Interpreter!HandleBranch \/ Interpreter!HandleFENCE
         \/ Interpreter!HandleSystem \/ Interpreter!HandleUnknown
  PROVE  InterpreterWords'
<1> DEFINE i == Interpreter!instr
<1>1. \E S : Interpreter!Decode(S)
  BY DEF Interpreter!HandleBranch, Interpreter!HandleFENCE, Interpreter!HandleSystem,
         Interpreter!HandleUnknown
<1>2. /\ UNCHANGED <<i_mem, i_regs, i_reg_trace, i_mmu_trace>>
      /\ i_status' \in {i_status, "ECALL", "EBREAK", "abort"}
  BY DEF Interpreter!HandleBranch, Interpreter!HandleFENCE, Interpreter!HandleSystem,
         Interpreter!HandleUnknown, Interpreter!Continues
<1>3. i_status = "running"
  BY <1>1 DEF Interpreter!Decode
<1>4. i_pc \in Word /\ i_pc \in Int /\ Interpreter!ImmB(i) \in Int
  <2>1. i_pc \in Word /\ i_pc \in Int /\ Interpreter!ImmB(i) \in Word
    BY <1>1, HandlerOperands
  <2>2. \A v \in Word : v \in Int
    BY WordType
  <2> QED  BY <2>1, <2>2
<1>5. i_pc' \in Word
  <2>1. CASE Interpreter!HandleBranch
    <3> DEFINE c == i_pc + IF Interpreter!Taken(i.funct3, Interpreter!Rs1, Interpreter!Rs2)
                           THEN Interpreter!ImmB(i) ELSE 4
    <3>1. c \in Int /\ Interpreter!Goto(c)
      BY <1>4, <2>1 DEF Interpreter!HandleBranch
    <3> HIDE DEF c
    <3> QED  BY <3>1, GotoWord
  <2>2. CASE Interpreter!HandleFENCE
    <3>1. i_pc + 4 \in Int /\ Interpreter!Goto(i_pc + 4)
      BY <1>4, <2>2 DEF Interpreter!HandleFENCE
    <3> QED  BY <3>1, GotoWord
  <2>3. CASE Interpreter!HandleSystem \/ Interpreter!HandleUnknown
    BY <1>4, <2>3 DEF Interpreter!HandleSystem, Interpreter!HandleUnknown
  <2> QED  BY <2>1, <2>2, <2>3
<1>6. Memory(i_mem') /\ i_mmu_trace' \in Seq((0 .. 2) \X Word \X Word)
  BY <1>2 DEF InterpreterWords, InterpreterTypeOK, InterpreterRecords, Memory, ByteValues
<1> QED  BY <1>1, <1>2, <1>3, <1>5, <1>6, QuietHandler

LEMMA StartWords ==
  ASSUME InterpreterWords, Interpreter!RunProgram
  PROVE  InterpreterWords'
<1>1. Images'
  BY ProgramsAssumption DEF Interpreter!RunProgram, Images
<1>2. i_regs' \in [Regs -> Word] /\ i_regs'[0] = 0 /\ i_reg_trace' \in Seq(Regs \X Word)
  <2> DEFINE a == Interpreter!SPReg
             v == Interpreter!StackPointer
  <2>1. i_regs' = WriteReg(i_regs, a, v) /\ i_reg_trace' = i_reg_trace \o RegRecord(a, v)
    BY InterpreterStorage DEF Interpreter!RunProgram
  <2>2. a \in Regs
    BY DEF Interpreter!SPReg, Regs
  <2>3. v \in Word
    <3>1. v = WordSize - 8193
      <4>1. v = (WordSize - 1) - 2 * 4096
        BY InterpreterArithmetic
           DEF Interpreter!StackPointer, Interpreter!MMUSize, Interpreter!PageSize
      <4> QED  BY <4>1, WordType, SMT
    <3> QED  BY <3>1, SmallPowers
  <2>4. i_regs \in [Regs -> Word] /\ i_regs[0] = 0 /\ i_reg_trace \in Seq(Regs \X Word)
    BY DEF InterpreterWords, InterpreterTypeOK, InterpreterRecords
  <2> HIDE DEF a, v
  <2> QED  BY <2>1, <2>2, <2>3, <2>4, RegisterWritten
<1>3. i_pc' \in Word
  BY EntryAssumption DEF Interpreter!RunProgram
<1>4. \A a \in DOMAIN i_mem' : i_mem'[a] \in 0 .. ByteSize - 1
  BY DataMemAssumption DEF Interpreter!RunProgram
<1>5. InterpreterTypeOK'
  BY <1>2, <1>3, <1>4 DEF InterpreterTypeOK, Interpreter!RunProgram
<1>6. InterpreterRecords'
  BY <1>2 DEF InterpreterWords, InterpreterRecords, Interpreter!RunProgram
<1> QED  BY <1>1, <1>5, <1>6 DEF InterpreterWords

LEMMA FetchFaultWords ==
  ASSUME InterpreterWords, Interpreter!LoadFromPCFault
  PROVE  InterpreterWords'
<1>1. /\ i_status' \in {"abort", "segv"}
      /\ UNCHANGED <<text, i_mem, i_regs, i_pc, i_exec_trace, i_reg_trace, i_mmu_trace>>
  BY DEF Interpreter!LoadFromPCFault, Interpreter!traces
<1> QED  BY <1>1 DEF InterpreterWords, InterpreterTypeOK, InterpreterRecords, Images

LEMMA InterpreterNextWords ==
  ASSUME InterpreterWords, Interpreter!Next
  PROVE  InterpreterWords'
  BY StartWords, JumpHandlersWords, JALRWords, LoadWords, StoreWords, SegFaultWords,
     ControlHandlersWords, FetchFaultWords
     DEF Interpreter!Next, Interpreter!Run

\* The cycle model keeps the image once it runs, and the interpreter does not
\* move any more.
LEMMA NextInterpreterWords ==
  ASSUME InterpreterWords, [TestNext]_testVars
  PROVE  InterpreterWords'
<1>1. CASE RunInterpreter
  BY <1>1, InterpreterNextWords DEF RunInterpreter
<1>2. CASE text' = text /\ UNCHANGED i_vars
  BY <1>2 DEF i_vars, InterpreterWords, InterpreterTypeOK, InterpreterRecords, Images
<1> QED  BY <1>1, <1>2 DEF TestNext, RunCycleModel, CompareTraces, testVars, vars

\* Whatever program the interpreter runs, no handler lets a register, a byte of
\* the memory or the program counter leave its width, and nothing writes x0.
THEOREM InterpreterTypes == TestSpec => []InterpreterTypeOK
<1>1. InterpreterWords => InterpreterTypeOK
  BY DEF InterpreterWords
<1>2. InterpreterWords /\ [TestNext]_testVars => InterpreterWords'
  BY NextInterpreterWords
<1> QED  BY <1>1, <1>2, InitInterpreterWords, PTL DEF TestSpec

-----------------------------------------------------------------------------
(* The readable verdict *)

\* A verdict is about two runs that have come to their end; without a
\* difference in the readable files the traces are the same.
VerdictInv ==
  /\ TestInv /\ WordInv /\ InterpreterWords
  /\ format # "none" => Valid(i_status) /\ Valid(status)
  /\ format = "readable" /\ verdict = {} =>
       exec_trace = i_exec_trace /\ reg_trace = i_reg_trace /\ mmu_trace = i_mmu_trace

\* A model that has ended does not move.
LEMMA EndedStays ==
  /\ Interpreter!Next => ~Valid(i_status)
  /\ Next => ~Valid(status)
<1>1. ASSUME Interpreter!Next PROVE ~Valid(i_status)
  <2>1. i_status \in {"idle", "running"}
    BY <1>1 DEF Interpreter!Next, Interpreter!Run, Interpreter!RunProgram,
         Interpreter!LoadFromPCFault, Interpreter!HandleLUI, Interpreter!HandleAUIPC,
         Interpreter!HandleJAL, Interpreter!HandleJALR, Interpreter!HandleBranch,
         Interpreter!HandleLoad, Interpreter!HandleStore, Interpreter!HandleSegFault,
         Interpreter!HandleOpImm, Interpreter!HandleOp, Interpreter!HandleFENCE,
         Interpreter!HandleSystem, Interpreter!HandleUnknown, Interpreter!Decode
  <2> QED  BY <2>1 DEF Valid
<1>2. ASSUME Next PROVE ~Valid(status)
  <2>1. status \in {"idle", "running", "draining"}
    BY <1>2 DEF Next, RunProgram, Tick, TickAdvance, TickRedirect, TickHalted, TickTrap,
                TickFetchFault, TickMemoryFault, DoLastTicks, DoStages, Running
  <2> QED  BY <2>1 DEF Valid
<1> QED  BY <1>1, <1>2

\* CompareTraces finds no difference between the readable files of two runs
\* only if their traces are the same on every level.
LEMMA ReadableVerdict ==
  ASSUME WordInv, InterpreterWords, CompareTraces, format' = "readable", verdict' = {}
  PROVE  exec_trace = i_exec_trace /\ reg_trace = i_reg_trace /\ mmu_trace = i_mmu_trace
<1>1. /\ Records["MMU"] = (0 .. 2) \X Word \X Word
      /\ Records["REG_FILE"] = Regs \X Word
      /\ Records["DECODER"] = Word \X Instr
      /\ "MMU" \in Levels /\ "REG_FILE" \in Levels /\ "DECODER" \in Levels
  BY Zenon DEF Records, Levels
<1>2. /\ FunctionalTrace("MMU") = i_mmu_trace /\ PipelineTrace("MMU") = mmu_trace
      /\ FunctionalTrace("REG_FILE") = i_reg_trace /\ PipelineTrace("REG_FILE") = reg_trace
      /\ FunctionalTrace("DECODER") = i_exec_trace /\ PipelineTrace("DECODER") = exec_trace
  BY DEF FunctionalTrace, PipelineTrace
<1>3. \A l \in Levels : ~CompareTwoFiles(Encoded(TRUE, l, FunctionalTrace(l)),
                                         Encoded(TRUE, l, PipelineTrace(l)))
  BY DEF CompareTraces
<1>4. /\ i_mmu_trace \in Seq(Records["MMU"]) /\ mmu_trace \in Seq(Records["MMU"])
      /\ i_reg_trace \in Seq(Records["REG_FILE"]) /\ reg_trace \in Seq(Records["REG_FILE"])
      /\ i_exec_trace \in Seq(Records["DECODER"]) /\ exec_trace \in Seq(Records["DECODER"])
  BY <1>1, Zenon DEF WordInv, TraceRecords, InterpreterWords, InterpreterRecords
<1>5. mmu_trace = i_mmu_trace
  <2>1. ~CompareTwoFiles(Encoded(TRUE, "MMU", i_mmu_trace), Encoded(TRUE, "MMU", mmu_trace))
    BY <1>1, <1>2, <1>3
  <2> QED  BY <1>1, <1>4, <2>1, ReadableFilesExact
<1>6. reg_trace = i_reg_trace
  <2>1. ~CompareTwoFiles(Encoded(TRUE, "REG_FILE", i_reg_trace),
                         Encoded(TRUE, "REG_FILE", reg_trace))
    BY <1>1, <1>2, <1>3
  <2> QED  BY <1>1, <1>4, <2>1, ReadableFilesExact
<1>7. exec_trace = i_exec_trace
  <2>1. ~CompareTwoFiles(Encoded(TRUE, "DECODER", i_exec_trace),
                         Encoded(TRUE, "DECODER", exec_trace))
    BY <1>1, <1>2, <1>3
  <2> QED  BY <1>1, <1>4, <2>1, ReadableFilesExact
<1> QED  BY <1>5, <1>6, <1>7

LEMMA InitVerdictInv == TestInit => VerdictInv
  BY InitTestInv, InitWordInv, InitInterpreterWords DEF TestInit, VerdictInv

LEMMA NextVerdictInv ==
  ASSUME VerdictInv, [TestNext]_testVars
  PROVE  VerdictInv'
<1>1. TestInv' /\ InterpreterWords'
  BY NextTestInv, NextInterpreterWords DEF VerdictInv
<1>2. CASE RunInterpreter
  <2>1. WordInv'
    <3>1. UNCHANGED <<mem, regs, stages, hazard, trace_prev_pc, exec_trace, reg_trace,
                      mmu_trace>>
      BY <1>2 DEF RunInterpreter
    <3>2. TypeInv'
      BY <1>1 DEF TestInv, ReplayInv
    <3>3. TypeOK'
      BY <3>1, <3>2 DEF VerdictInv, WordInv, TypeInv, TypeOK, stages, hazard
    <3> QED  BY <3>1, <3>2, <3>3 DEF VerdictInv, WordInv, TraceRecords, stages
  <2>2. format = "none" /\ format' = "none"
    BY <1>2, EndedStays DEF RunInterpreter, VerdictInv
  <2> QED  BY <1>1, <2>1, <2>2 DEF VerdictInv
<1>3. CASE RunCycleModel
  <2>1. WordInv'
    BY <1>3, NextWordInv DEF RunCycleModel, VerdictInv
  <2>2. format = "none" /\ format' = "none"
    BY <1>3, EndedStays DEF RunCycleModel, VerdictInv
  <2> QED  BY <1>1, <2>1, <2>2 DEF VerdictInv
<1>4. CASE CompareTraces
  <2>1. UNCHANGED <<vars, i_vars>> /\ Valid(i_status) /\ Valid(status)
    BY <1>4 DEF CompareTraces
  <2>2. WordInv'
    BY <2>1, NextWordInv DEF VerdictInv
  <2>3. Valid(i_status') /\ Valid(status')
    BY <2>1 DEF vars, i_vars, Valid
  <2>4. ASSUME format' = "readable", verdict' = {}
        PROVE  (exec_trace = i_exec_trace /\ reg_trace = i_reg_trace /\ mmu_trace = i_mmu_trace)'
    BY <1>4, <2>1, <2>4, ReadableVerdict DEF VerdictInv, vars, i_vars
  <2> QED  BY <1>1, <2>2, <2>3, <2>4 DEF VerdictInv
<1>5. CASE UNCHANGED testVars
  <2>1. UNCHANGED <<vars, i_vars, format, verdict>>
    BY <1>5 DEF testVars
  <2>2. WordInv'
    BY <2>1, NextWordInv DEF VerdictInv
  <2> QED  BY <1>1, <2>1, <2>2 DEF VerdictInv, vars, i_vars, Valid
<1> QED  BY <1>2, <1>3, <1>4, <1>5 DEF TestNext

\* A readable verdict of no difference is right whatever program has run: the
\* writer's format loses nothing of a record, the types of what both models
\* hand it are those that it can write, and the records tell the machines.
THEOREM ReadableVerdictDecides == TestSpec => []NoDifferenceSameMachine
<1>1. VerdictInv => NoDifferenceSameMachine
  <2> SUFFICES ASSUME VerdictInv, format = "readable", verdict = {}
               PROVE  regs = i_regs /\ mem = i_mem /\ exec_trace = i_exec_trace
    BY DEF NoDifferenceSameMachine
  <2>1. /\ Valid(i_status) /\ Valid(status) /\ exec_trace = i_exec_trace
        /\ reg_trace = i_reg_trace /\ mmu_trace = i_mmu_trace
    BY DEF VerdictInv
  <2>2. RegReplayed(regs, reg_trace) /\ RegReplayed(i_regs, reg_trace)
    BY <2>1 DEF VerdictInv, TestInv, ReplayInv, TracesReplay, InterpreterInv,
                InterpreterTracesReplay
  <2>3. MemReplayed(mem, DataMem, mmu_trace) /\ MemReplayed(i_mem, DataMem, mmu_trace)
    BY <2>1 DEF VerdictInv, TestInv, ReplayInv, TracesReplay, InterpreterInv,
                InterpreterTracesReplay, Valid
  <2> QED  BY <2>1, <2>2, <2>3, RegReplayUnique, MemReplayUnique
           DEF VerdictInv, TestInv, ReplayInv
<1>2. VerdictInv /\ [TestNext]_testVars => VerdictInv'
  BY NextVerdictInv
<1> QED  BY <1>1, <1>2, InitVerdictInv, PTL DEF TestSpec
=============================================================================
