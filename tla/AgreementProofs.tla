--------------------------- MODULE AgreementProofs ---------------------------
(***************************************************************************)
(* A well-scheduled program that both models run to its end passes the     *)
(* co-simulation, for every word size, image and data memory.              *)
(*                                                                         *)
(* The interpreter is done before the cycle model starts, so its run is    *)
(* kept as a history: a function from the number of executed instructions  *)
(* to the state of the machine.  The cycle model walks along this history, *)
(* one entry for each instruction that leaves its execute stage, and has   *)
(* no fault while the history goes on.                                     *)
(***************************************************************************)
EXTENDS CoSimulationProofs, RefinementProofs

-----------------------------------------------------------------------------
(* The steps of a machine *)

\* The state of the interpreter, and the abstract state of the cycle model.
InterpreterMachine ==
  [mem |-> i_mem, regs |-> i_regs, pc |-> i_pc, exec_trace |-> i_exec_trace,
   reg_trace |-> i_reg_trace, mmu_trace |-> i_mmu_trace, status |-> i_status]
CycleMachine ==
  [mem |-> AbsMem, regs |-> AbsRegs, pc |-> AbsPC, exec_trace |-> exec_trace,
   reg_trace |-> AbsRegTrace, mmu_trace |-> AbsMmuTrace, status |-> AbsStatus]

\* What RunProgram gives to either model.
Start ==
  LET zeros == [r \in Regs |-> 0]
  IN  [mem |-> DataMem, regs |-> WriteReg(zeros, SPReg, StackPointer), pc |-> Entry,
       exec_trace |-> <<>>, reg_trace |-> <<>> \o RegRecord(SPReg, StackPointer),
       mmu_trace |-> <<>>, status |-> "running"]

\* Machine s after instruction i, which writes v to rd, stores what u says of
\* the memory and its trace, or does neither, and goes to c.
Traced(s, i) == s.exec_trace \o <<<<s.pc, i>>>>

Wrote(s, i, v, c) ==
  [mem |-> s.mem, regs |-> WriteReg(s.regs, i.rd, v), pc |-> c,
   exec_trace |-> Traced(s, i), reg_trace |-> s.reg_trace \o RegRecord(i.rd, v),
   mmu_trace |-> s.mmu_trace, status |-> s.status]

Stored(s, i, code, addr, v, c) ==
  [mem |-> SetBytes(s.mem, addr, 2 ^ code, Narrow(code, v)), regs |-> s.regs, pc |-> c,
   exec_trace |-> Traced(s, i), reg_trace |-> s.reg_trace,
   mmu_trace |-> s.mmu_trace \o <<StoreRecord(code, addr, v)>>, status |-> s.status]

Went(s, i, c, ended) ==
  [mem |-> s.mem, regs |-> s.regs, pc |-> c, exec_trace |-> Traced(s, i),
   reg_trace |-> s.reg_trace, mmu_trace |-> s.mmu_trace, status |-> ended]

\* An instruction of p takes s to t, without a fault.
Executes(p, s, t) ==
  LET i   == p[s.pc]
      rs1 == s.regs[i.rs1]
      rs2 == s.regs[i.rs2]
      next == Add(s.pc, 4)
      alternate == Functional!Alternate(i)
      width == 2 ^ (i.funct3 % 4)
      code  == IF i.funct3 = 2 THEN 2 ELSE 0
      load  == Add(rs1, ImmI(i))
      store == Add(rs1, ImmS(i))
      jump  == Add(WriteReg(s.regs, i.rd, next)[i.rs1], ImmI(i))
  IN  /\ s.status = "running" /\ s.pc \in DOMAIN p
      /\ \/ i.opcode = "LUI" /\ t = Wrote(s, i, ImmU(i), next)
         \/ i.opcode = "AUIPC" /\ t = Wrote(s, i, Add(s.pc, ImmU(i)), next)
         \/ i.opcode = "JAL" /\ t = Wrote(s, i, next, Add(s.pc, ImmJ(i)))
         \/ /\ i.opcode = "JALR" /\ i.funct3 = 0
            /\ t = Wrote(s, i, next, (jump - (jump % 2)) % WordSize)
         \/ /\ i.opcode = "BRANCH"
            /\ t = Went(s, i, Add(s.pc, IF Functional!Taken(i.funct3, rs1, rs2)
                                          THEN ImmB(i) ELSE 4), s.status)
         \/ /\ i.opcode = "LOAD" /\ i.funct3 \in LoadModes /\ Mapped(s.mem, load, width)
            /\ t = Wrote(s, i, GetBytes(s.mem, load, width), next)
         \/ /\ i.opcode = "STORE" /\ i.funct3 \in StoreModes
            /\ Mapped(s.mem, store, 2 ^ code)
            /\ t = Stored(s, i, code, store, rs2, next)
         \/ /\ i.opcode = "OP_IMM"
            /\ t = Wrote(s, i, Functional!Operation(i.funct3, i.funct3 = 5 /\ alternate,
                                                    rs1, ImmI(i)), next)
         \/ /\ i.opcode = "OP"
            /\ t = Wrote(s, i, Functional!Operation(i.funct3, alternate, rs1, rs2), next)
         \/ i.opcode = "MISC_MEM" /\ t = Went(s, i, next, s.status)
         \/ /\ i.opcode = "SYSTEM"
            /\ t = Went(s, i, s.pc, IF i.rs2 % 2 = 1 THEN "EBREAK" ELSE "ECALL")

\* An instruction has one result.
LEMMA Deterministic ==
  ASSUME NEW p, NEW s, NEW t, NEW u, Executes(p, s, t), Executes(p, s, u)
  PROVE  t = u
<1> USE DEF Executes
<1> DEFINE op == p[s.pc].opcode
<1>1. CASE op \in {"LUI", "AUIPC", "JAL", "JALR"}
  BY <1>1
<1>2. CASE op \in {"BRANCH", "LOAD", "STORE", "OP_IMM"}
  BY <1>2
<1>3. CASE op \in {"OP", "MISC_MEM", "SYSTEM"}
  BY <1>3
<1> QED  BY <1>1, <1>2, <1>3


-----------------------------------------------------------------------------
(* What the two models compute is the same. *)

LEMMA InterpreterOperations ==
  ASSUME NEW f, NEW a, NEW b
  PROVE  /\ \A alt : Interpreter!Operation(f, alt, a, b) = Functional!Operation(f, alt, a, b)
         /\ Interpreter!Taken(f, a, b) <=> Functional!Taken(f, a, b)
         /\ \A i : Interpreter!Alternate(i) = Functional!Alternate(i)
<1>1. /\ Interpreter!Add(a, b) = Functional!Add(a, b)
      /\ Interpreter!Sub(a, b) = Functional!Sub(a, b)
      /\ Interpreter!Signed(a) = Functional!Signed(a)
      /\ Interpreter!Signed(b) = Functional!Signed(b)
      /\ Interpreter!Sll(a, b) = Functional!Sll(a, b)
      /\ Interpreter!Srl(a, b) = Functional!Srl(a, b)
      /\ Interpreter!Sra(a, b) = Functional!Sra(a, b)
      /\ Interpreter!BitAnd(a, b) = Functional!BitAnd(a, b)
      /\ Interpreter!BitOr(a, b) = Functional!BitOr(a, b)
      /\ Interpreter!BitXor(a, b) = Functional!BitXor(a, b)
  BY InterpreterArithmetic, InterpreterBits, SameArithmetic, SameBits
<1>2. \A alt : Interpreter!Operation(f, alt, a, b) = Functional!Operation(f, alt, a, b)
  BY <1>1, Zenon DEF Interpreter!Operation, Functional!Operation
<1>3. Interpreter!Taken(f, a, b) <=> Functional!Taken(f, a, b)
  BY <1>1, Zenon DEF Interpreter!Taken, Functional!Taken
<1>4. \A i : Interpreter!Alternate(i) = Functional!Alternate(i)
  BY DEF Interpreter!Alternate, Functional!Alternate
<1> QED  BY <1>2, <1>3, <1>4

-----------------------------------------------------------------------------
(* The steps of the interpreter *)

LEMMA InterpreterWrote ==
  ASSUME NEW v, NEW c, Interpreter!Write(v), Interpreter!Goto(c), Interpreter!Continues,
         i_exec_trace' = i_exec_trace \o <<<<i_pc, Interpreter!instr>>>>,
         UNCHANGED <<i_mem, i_mmu_trace>>
  PROVE  InterpreterMachine' = Wrote(InterpreterMachine, Interpreter!instr, v, c % WordSize)
<1>1. i_pc' = c % WordSize
  BY InterpreterArithmetic DEF Interpreter!Goto
<1>2. /\ i_regs' = WriteReg(i_regs, Interpreter!instr.rd, v)
      /\ i_reg_trace' = i_reg_trace \o RegRecord(Interpreter!instr.rd, v)
  BY InterpreterStorage DEF Interpreter!Write
<1> QED  BY <1>1, <1>2 DEF Interpreter!Continues, Wrote, Traced, InterpreterMachine

LEMMA InterpreterWent ==
  ASSUME NEW c, i_pc' = c,
         i_exec_trace' = i_exec_trace \o <<<<i_pc, Interpreter!instr>>>>,
         UNCHANGED <<i_mem, i_regs, i_reg_trace, i_mmu_trace>>
  PROVE  InterpreterMachine' = Went(InterpreterMachine, Interpreter!instr, c, i_status')
  BY DEF Went, Traced, InterpreterMachine

\* Each handler that does not end the process executes its instruction.
LEMMA InterpreterExecutes ==
  ASSUME Interpreter!Run, i_status' \in {"running", "ECALL", "EBREAK"}
  PROVE  Executes(text, InterpreterMachine, InterpreterMachine')
<1> DEFINE s == InterpreterMachine
           i == Interpreter!instr
           rs1 == s.regs[i.rs1]
           rs2 == s.regs[i.rs2]
           next == Add(s.pc, 4)
<1>1. /\ s.regs = i_regs /\ s.pc = i_pc /\ s.mem = i_mem
      /\ s.status = i_status /\ i = text[s.pc]
      /\ rs1 = Interpreter!Rs1 /\ rs2 = Interpreter!Rs2
  BY DEF InterpreterMachine, Interpreter!instr, Interpreter!Rs1, Interpreter!Rs2
<1>2. /\ \A v : Interpreter!Goto(v) <=> i_pc' = v % WordSize
      /\ \A v : Interpreter!Add(s.pc, v) = (s.pc + v) % WordSize
      /\ next = (s.pc + 4) % WordSize
      /\ \A a, b : Interpreter!Add(a, b) = Add(a, b)
  BY InterpreterArithmetic DEF Interpreter!Goto, Add
<1>3. /\ Interpreter!ImmI(i) = ImmI(i)
      /\ Interpreter!ImmS(i) = ImmS(i)
      /\ Interpreter!ImmB(i) = ImmB(i)
      /\ Interpreter!ImmU(i) = ImmU(i) /\ Interpreter!ImmJ(i) = ImmJ(i)
  BY InterpreterImmediates
<1>4. ASSUME NEW S, Interpreter!Decode(S)
      PROVE  /\ s.status = "running" /\ s.pc \in DOMAIN text /\ i.opcode \in S
             /\ i_exec_trace' = i_exec_trace \o <<<<i_pc, i>>>>
  BY <1>1, <1>4 DEF Interpreter!Decode
<1> HIDE DEF s, i, rs1, rs2, next
<1>5. CASE Interpreter!HandleLUI
  <2>1. s' = Wrote(s, i, ImmU(i), next)
    BY <1>1, <1>2, <1>3, <1>4, <1>5, InterpreterWrote DEF Interpreter!HandleLUI, s, i
  <2>2. s.status = "running" /\ s.pc \in DOMAIN text /\ i.opcode = "LUI"
    BY <1>4, <1>5 DEF Interpreter!HandleLUI
  <2> QED  BY <1>1, <2>1, <2>2 DEF Executes, next, s
<1>6. CASE Interpreter!HandleAUIPC
  <2>1. s' = Wrote(s, i, Add(s.pc, ImmU(i)), next)
    BY <1>1, <1>2, <1>3, <1>4, <1>6, InterpreterWrote DEF Interpreter!HandleAUIPC, s, i
  <2>2. s.status = "running" /\ s.pc \in DOMAIN text /\ i.opcode = "AUIPC"
    BY <1>4, <1>6 DEF Interpreter!HandleAUIPC
  <2> QED  BY <1>1, <2>1, <2>2 DEF Executes, next, s
<1>7. CASE Interpreter!HandleJAL
  <2>1. s' = Wrote(s, i, next, Add(s.pc, ImmJ(i)))
    BY <1>1, <1>2, <1>3, <1>4, <1>7, InterpreterWrote
       DEF Interpreter!HandleJAL, s, i, next, Add
  <2>2. s.status = "running" /\ s.pc \in DOMAIN text /\ i.opcode = "JAL"
    BY <1>4, <1>7 DEF Interpreter!HandleJAL
  <2> QED  BY <1>1, <2>1, <2>2 DEF Executes, next, s
<1>8. CASE Interpreter!HandleJALR
  <2> DEFINE jump == Add(WriteReg(s.regs, i.rd, next)[i.rs1], ImmI(i))
  <2>1. i_regs' = WriteReg(i_regs, i.rd, next)
    BY <1>1, <1>2, <1>8, InterpreterStorage
       DEF Interpreter!HandleJALR, Interpreter!Write, i, next
  <2>2. jump = Interpreter!Add(i_regs'[i.rs1], Interpreter!ImmI(i))
    BY <1>1, <1>2, <1>3, <2>1
  <2>3. Interpreter!Goto(jump - (jump % 2))
    <3> HIDE DEF jump
    <3> QED  BY <1>8, <2>2 DEF Interpreter!HandleJALR, i
  <2> HIDE DEF jump
  <2>4. s' = Wrote(s, i, next, (jump - (jump % 2)) % WordSize)
    BY <1>1, <1>2, <1>4, <1>8, <2>3, InterpreterWrote
       DEF Interpreter!HandleJALR, s, i, next
  <2>5. /\ s.status = "running" /\ s.pc \in DOMAIN text /\ i.opcode = "JALR"
        /\ i.funct3 = 0
    BY <1>4, <1>8 DEF Interpreter!HandleJALR, i
  <2> QED  BY <1>1, <2>4, <2>5 DEF Executes, next, s, jump
<1>9. CASE Interpreter!HandleBranch
  <2> DEFINE taken == Functional!Taken(i.funct3, rs1, rs2)
  <2>1. i_pc' = Add(s.pc, IF taken THEN ImmB(i) ELSE 4)
    <3>1. Interpreter!Taken(i.funct3, Interpreter!Rs1, Interpreter!Rs2) <=> taken
      BY <1>1, InterpreterOperations
    <3> HIDE DEF taken
    <3> QED  BY <1>1, <1>2, <1>3, <1>9, <3>1 DEF Interpreter!HandleBranch, i, Add
  <2> HIDE DEF taken
  <2>2. s' = Went(s, i, Add(s.pc, IF taken THEN ImmB(i) ELSE 4), s.status)
    BY <1>1, <1>4, <1>9, <2>1, InterpreterWent
       DEF Interpreter!HandleBranch, Interpreter!Continues, s, i
  <2>3. s.status = "running" /\ s.pc \in DOMAIN text /\ i.opcode = "BRANCH"
    BY <1>4, <1>9 DEF Interpreter!HandleBranch
  <2> QED  BY <1>1, <2>2, <2>3 DEF Executes, s, taken, rs1, rs2
<1>10. CASE Interpreter!HandleLoad
  <2> DEFINE width == 2 ^ (i.funct3 % 4)
             addr == Add(rs1, ImmI(i))
  <2>1. /\ Interpreter!LoadWidth = width
        /\ Interpreter!Add(Interpreter!Rs1, Interpreter!ImmI(i)) = addr
    BY <1>1, <1>2, <1>3 DEF Interpreter!LoadWidth, i
  <2> HIDE DEF width, addr
  <2>2. /\ Mapped(s.mem, addr, width) /\ Interpreter!Write(GetBytes(s.mem, addr, width))
        /\ i.funct3 \in LoadModes
    BY <1>1, <1>10, <2>1, InterpreterStorage DEF Interpreter!HandleLoad, LoadModes, i
  <2>3. s' = Wrote(s, i, GetBytes(s.mem, addr, width), next)
    BY <1>1, <1>2, <1>4, <1>10, <2>2, InterpreterWrote DEF Interpreter!HandleLoad, s, i
  <2>4. s.status = "running" /\ s.pc \in DOMAIN text /\ i.opcode = "LOAD"
    BY <1>4, <1>10 DEF Interpreter!HandleLoad
  <2> QED  BY <1>1, <2>2, <2>3, <2>4 DEF Executes, next, s, width, addr, rs1
<1>11. CASE Interpreter!HandleStore
  <2> DEFINE code == IF i.funct3 = 2 THEN 2 ELSE 0
             addr == Add(rs1, ImmS(i))
  <2>1. /\ Interpreter!StoreCode = code
        /\ Interpreter!Add(Interpreter!Rs1, Interpreter!ImmS(i)) = addr
    BY <1>1, <1>2, <1>3 DEF Interpreter!StoreCode, i
  <2> HIDE DEF code, addr
  <2>2. /\ Mapped(s.mem, addr, 2 ^ code) /\ i.funct3 \in StoreModes
        /\ i_mem' = SetBytes(s.mem, addr, 2 ^ code, Narrow(code, rs2))
        /\ i_mmu_trace' = i_mmu_trace \o <<StoreRecord(code, addr, rs2)>>
    BY <1>1, <1>11, <2>1, InterpreterStorage DEF Interpreter!HandleStore, StoreModes, i
  <2>3. /\ i_pc' = next /\ UNCHANGED <<i_regs, i_reg_trace, i_status>>
    BY <1>1, <1>2, <1>11 DEF Interpreter!HandleStore, Interpreter!Continues
  <2>4. /\ s.status = "running" /\ s.pc \in DOMAIN text /\ i.opcode = "STORE"
        /\ i_exec_trace' = i_exec_trace \o <<<<i_pc, i>>>>
    <3>1. Interpreter!Decode({"STORE"})
      BY <1>11 DEF Interpreter!HandleStore
    <3> QED  BY <1>1, <3>1 DEF Interpreter!Decode, i
  <2>5. s' = Stored(s, i, code, addr, rs2, next)
    BY <2>2, <2>3, <2>4 DEF Stored, Traced, s, InterpreterMachine
  <2> QED  BY <1>1, <2>2, <2>4, <2>5 DEF Executes, next, s, code, addr, rs1, rs2
<1>12. CASE Interpreter!HandleOpImm
  <2> DEFINE alt == i.funct3 = 5 /\ Functional!Alternate(i)
             v == Functional!Operation(i.funct3, alt, rs1, ImmI(i))
  <2>1. Interpreter!Write(v)
    <3>1. Interpreter!Write(Interpreter!Operation(i.funct3,
          i.funct3 = 5 /\ Interpreter!Alternate(i),
          Interpreter!Rs1, Interpreter!ImmI(i)))
      BY <1>12 DEF Interpreter!HandleOpImm, i
    <3>2. Interpreter!Alternate(i) = Functional!Alternate(i)
      BY InterpreterOperations
    <3>3. \A a : Interpreter!Operation(i.funct3, a, rs1, ImmI(i)) =
                   Functional!Operation(i.funct3, a, rs1, ImmI(i))
      BY InterpreterOperations
    <3> QED  BY <1>1, <1>3, <3>1, <3>2, <3>3, Zenon
  <2> HIDE DEF v
  <2>2. s' = Wrote(s, i, v, next)
    BY <1>1, <1>2, <1>4, <1>12, <2>1, InterpreterWrote DEF Interpreter!HandleOpImm, s, i
  <2>3. s.status = "running" /\ s.pc \in DOMAIN text /\ i.opcode = "OP_IMM"
    BY <1>4, <1>12 DEF Interpreter!HandleOpImm
  <2> QED  BY <1>1, <2>2, <2>3 DEF Executes, next, s, v, rs1
<1>13. CASE Interpreter!HandleOp
  <2> DEFINE v == Functional!Operation(i.funct3, Functional!Alternate(i), rs1, rs2)
  <2>1. Interpreter!Write(v)
    <3>1. Interpreter!Write(Interpreter!Operation(i.funct3, Interpreter!Alternate(i),
                                          Interpreter!Rs1, Interpreter!Rs2))
      BY <1>13 DEF Interpreter!HandleOp, i
    <3>2. Interpreter!Alternate(i) = Functional!Alternate(i)
      BY InterpreterOperations
    <3>3. \A a : Interpreter!Operation(i.funct3, a, rs1, rs2) =
                   Functional!Operation(i.funct3, a, rs1, rs2)
      BY InterpreterOperations
    <3> QED  BY <1>1, <3>1, <3>2, <3>3, Zenon
  <2> HIDE DEF v
  <2>2. s' = Wrote(s, i, v, next)
    BY <1>1, <1>2, <1>4, <1>13, <2>1, InterpreterWrote DEF Interpreter!HandleOp, s, i
  <2>3. s.status = "running" /\ s.pc \in DOMAIN text /\ i.opcode = "OP"
    BY <1>4, <1>13 DEF Interpreter!HandleOp
  <2> QED  BY <1>1, <2>2, <2>3 DEF Executes, next, s, v, rs1, rs2
<1>14. CASE Interpreter!HandleFENCE
  <2>1. s' = Went(s, i, next, s.status)
    BY <1>1, <1>2, <1>4, <1>14, InterpreterWent
       DEF Interpreter!HandleFENCE, Interpreter!Continues, s, i
  <2>2. s.status = "running" /\ s.pc \in DOMAIN text /\ i.opcode = "MISC_MEM"
    BY <1>4, <1>14 DEF Interpreter!HandleFENCE
  <2> QED  BY <1>1, <2>1, <2>2 DEF Executes, next, s
<1>15. CASE Interpreter!HandleSystem
  <2> DEFINE out == IF i.rs2 % 2 = 1 THEN "EBREAK" ELSE "ECALL"
  <2>1. i_status' = out
    BY <1>15 DEF Interpreter!HandleSystem, i
  <2> HIDE DEF out
  <2>2. s' = Went(s, i, s.pc, out)
    BY <1>1, <1>4, <1>15, <2>1, InterpreterWent DEF Interpreter!HandleSystem, s, i
  <2>3. s.status = "running" /\ s.pc \in DOMAIN text /\ i.opcode = "SYSTEM"
    BY <1>4, <1>15 DEF Interpreter!HandleSystem
  <2> QED  BY <1>1, <2>2, <2>3 DEF Executes, s, out
<1>16. /\ ~Interpreter!HandleSegFault
       /\ ~Interpreter!HandleUnknown
       /\ ~Interpreter!LoadFromPCFault
  BY DEF Interpreter!HandleSegFault, Interpreter!HandleUnknown, Interpreter!LoadFromPCFault
<1> QED  BY <1>5, <1>6, <1>7, <1>8, <1>9, <1>10, <1>11, <1>12, <1>13, <1>14, <1>15, <1>16
         DEF Interpreter!Run, s

-----------------------------------------------------------------------------
(* The steps of the abstract state *)

LEMMA CycleWrote ==
  ASSUME NEW v, NEW c, Functional!Write(v), Functional!Goto(c), Functional!Continues,
         exec_trace' = exec_trace \o <<<<AbsPC, Functional!instr>>>>,
         UNCHANGED <<AbsMem, AbsMmuTrace>>
  PROVE  CycleMachine' = Wrote(CycleMachine, Functional!instr, v, c % WordSize)
<1>1. AbsPC' = c % WordSize
  BY SameWords DEF Functional!Goto
<1>2. /\ AbsRegs' = WriteReg(AbsRegs, Functional!instr.rd, v)
      /\ AbsRegTrace' = AbsRegTrace \o RegRecord(Functional!instr.rd, v)
  BY SameStorage DEF Functional!Write
<1> QED  BY <1>1, <1>2 DEF Functional!Continues, Wrote, Traced, CycleMachine

LEMMA CycleWent ==
  ASSUME NEW c, AbsPC' = c,
         exec_trace' = exec_trace \o <<<<AbsPC, Functional!instr>>>>,
         UNCHANGED <<AbsMem, AbsRegs, AbsRegTrace, AbsMmuTrace>>
  PROVE  CycleMachine' = Went(CycleMachine, Functional!instr, c, AbsStatus')
  BY DEF Went, Traced, CycleMachine

\* So does the instruction that leaves the pipeline.
LEMMA CycleExecutes ==
  ASSUME Functional!Run, AbsStatus' \in {"running", "ECALL", "EBREAK"}
  PROVE  Executes(text, CycleMachine, CycleMachine')
<1> DEFINE s == CycleMachine
           i == Functional!instr
           rs1 == s.regs[i.rs1]
           rs2 == s.regs[i.rs2]
           next == Add(s.pc, 4)
<1>1. /\ s.regs = AbsRegs /\ s.pc = AbsPC /\ s.mem = AbsMem
      /\ s.status = AbsStatus /\ i = text[s.pc]
      /\ rs1 = Functional!Rs1 /\ rs2 = Functional!Rs2
  BY DEF CycleMachine, Functional!instr, Functional!Rs1, Functional!Rs2
<1>2. /\ \A v : Functional!Goto(v) <=> AbsPC' = v % WordSize
      /\ \A v : Functional!Add(s.pc, v) = (s.pc + v) % WordSize
      /\ next = (s.pc + 4) % WordSize
      /\ \A a, b : Functional!Add(a, b) = Add(a, b)
  BY SameWords, SameArithmetic DEF Functional!Goto, Add
<1>3. /\ Functional!ImmI(i) = ImmI(i)
      /\ Functional!ImmS(i) = ImmS(i)
      /\ Functional!ImmB(i) = ImmB(i)
      /\ Functional!ImmU(i) = ImmU(i) /\ Functional!ImmJ(i) = ImmJ(i)
  BY SameImmediates
<1>4. ASSUME NEW S, Functional!Decode(S)
      PROVE  /\ s.status = "running" /\ s.pc \in DOMAIN text /\ i.opcode \in S
             /\ exec_trace' = exec_trace \o <<<<AbsPC, i>>>>
  BY <1>1, <1>4 DEF Functional!Decode
<1> HIDE DEF s, i, rs1, rs2, next
<1>5. CASE Functional!HandleLUI
  <2>1. s' = Wrote(s, i, ImmU(i), next)
    BY <1>1, <1>2, <1>3, <1>4, <1>5, CycleWrote DEF Functional!HandleLUI, s, i
  <2>2. s.status = "running" /\ s.pc \in DOMAIN text /\ i.opcode = "LUI"
    BY <1>4, <1>5 DEF Functional!HandleLUI
  <2> QED  BY <1>1, <2>1, <2>2 DEF Executes, next, s
<1>6. CASE Functional!HandleAUIPC
  <2>1. s' = Wrote(s, i, Add(s.pc, ImmU(i)), next)
    BY <1>1, <1>2, <1>3, <1>4, <1>6, CycleWrote DEF Functional!HandleAUIPC, s, i
  <2>2. s.status = "running" /\ s.pc \in DOMAIN text /\ i.opcode = "AUIPC"
    BY <1>4, <1>6 DEF Functional!HandleAUIPC
  <2> QED  BY <1>1, <2>1, <2>2 DEF Executes, next, s
<1>7. CASE Functional!HandleJAL
  <2>1. s' = Wrote(s, i, next, Add(s.pc, ImmJ(i)))
    BY <1>1, <1>2, <1>3, <1>4, <1>7, CycleWrote
       DEF Functional!HandleJAL, s, i, next, Add
  <2>2. s.status = "running" /\ s.pc \in DOMAIN text /\ i.opcode = "JAL"
    BY <1>4, <1>7 DEF Functional!HandleJAL
  <2> QED  BY <1>1, <2>1, <2>2 DEF Executes, next, s
<1>8. CASE Functional!HandleJALR
  <2> DEFINE jump == Add(WriteReg(s.regs, i.rd, next)[i.rs1], ImmI(i))
  <2>1. AbsRegs' = WriteReg(AbsRegs, i.rd, next)
    BY <1>1, <1>2, <1>8, SameStorage
       DEF Functional!HandleJALR, Functional!Write, i, next
  <2>2. jump = Functional!Add(AbsRegs'[i.rs1], Functional!ImmI(i))
    BY <1>1, <1>2, <1>3, <2>1
  <2>3. Functional!Goto(jump - (jump % 2))
    <3> HIDE DEF jump
    <3> QED  BY <1>8, <2>2 DEF Functional!HandleJALR, i
  <2> HIDE DEF jump
  <2>4. s' = Wrote(s, i, next, (jump - (jump % 2)) % WordSize)
    BY <1>1, <1>2, <1>4, <1>8, <2>3, CycleWrote DEF Functional!HandleJALR, s, i, next
  <2>5. /\ s.status = "running" /\ s.pc \in DOMAIN text /\ i.opcode = "JALR"
        /\ i.funct3 = 0
    BY <1>4, <1>8 DEF Functional!HandleJALR, i
  <2> QED  BY <1>1, <2>4, <2>5 DEF Executes, next, s, jump
<1>9. CASE Functional!HandleBranch
  <2> DEFINE taken == Functional!Taken(i.funct3, rs1, rs2)
  <2>1. AbsPC' = Add(s.pc, IF taken THEN ImmB(i) ELSE 4)
    <3>1. Functional!Taken(i.funct3, Functional!Rs1, Functional!Rs2) <=> taken
      BY <1>1
    <3> HIDE DEF taken
    <3> QED  BY <1>1, <1>2, <1>3, <1>9, <3>1 DEF Functional!HandleBranch, i, Add
  <2> HIDE DEF taken
  <2>2. s' = Went(s, i, Add(s.pc, IF taken THEN ImmB(i) ELSE 4), s.status)
    BY <1>1, <1>4, <1>9, <2>1, CycleWent
       DEF Functional!HandleBranch, Functional!Continues, s, i
  <2>3. s.status = "running" /\ s.pc \in DOMAIN text /\ i.opcode = "BRANCH"
    BY <1>4, <1>9 DEF Functional!HandleBranch
  <2> QED  BY <1>1, <2>2, <2>3 DEF Executes, s, taken, rs1, rs2
<1>10. CASE Functional!HandleLoad
  <2> DEFINE width == 2 ^ (i.funct3 % 4)
             addr == Add(rs1, ImmI(i))
  <2>1. /\ Functional!LoadWidth = width
        /\ Functional!Add(Functional!Rs1, Functional!ImmI(i)) = addr
    BY <1>1, <1>2, <1>3 DEF Functional!LoadWidth, i
  <2> HIDE DEF width, addr
  <2>2. /\ Mapped(s.mem, addr, width) /\ Functional!Write(GetBytes(s.mem, addr, width))
        /\ i.funct3 \in LoadModes
    BY <1>1, <1>10, <2>1, SameStorage DEF Functional!HandleLoad, LoadModes, i
  <2>3. s' = Wrote(s, i, GetBytes(s.mem, addr, width), next)
    BY <1>1, <1>2, <1>4, <1>10, <2>2, CycleWrote DEF Functional!HandleLoad, s, i
  <2>4. s.status = "running" /\ s.pc \in DOMAIN text /\ i.opcode = "LOAD"
    BY <1>4, <1>10 DEF Functional!HandleLoad
  <2> QED  BY <1>1, <2>2, <2>3, <2>4 DEF Executes, next, s, width, addr, rs1
<1>11. CASE Functional!HandleStore
  <2> DEFINE code == IF i.funct3 = 2 THEN 2 ELSE 0
             addr == Add(rs1, ImmS(i))
  <2>1. /\ Functional!StoreCode = code
        /\ Functional!Add(Functional!Rs1, Functional!ImmS(i)) = addr
    BY <1>1, <1>2, <1>3 DEF Functional!StoreCode, i
  <2> HIDE DEF code, addr
  <2>2. /\ Mapped(s.mem, addr, 2 ^ code) /\ i.funct3 \in StoreModes
        /\ AbsMem' = SetBytes(s.mem, addr, 2 ^ code, Narrow(code, rs2))
        /\ AbsMmuTrace' = AbsMmuTrace \o <<StoreRecord(code, addr, rs2)>>
    BY <1>1, <1>11, <2>1, SameStorage DEF Functional!HandleStore, StoreModes, i
  <2>3. /\ AbsPC' = next /\ UNCHANGED <<AbsRegs, AbsRegTrace, AbsStatus>>
    BY <1>1, <1>2, <1>11 DEF Functional!HandleStore, Functional!Continues
  <2>4. /\ s.status = "running" /\ s.pc \in DOMAIN text /\ i.opcode = "STORE"
        /\ exec_trace' = exec_trace \o <<<<AbsPC, i>>>>
    <3>1. Functional!Decode({"STORE"})
      BY <1>11 DEF Functional!HandleStore
    <3> QED  BY <1>1, <3>1 DEF Functional!Decode, i
  <2>5. s' = Stored(s, i, code, addr, rs2, next)
    BY <2>2, <2>3, <2>4 DEF Stored, Traced, s, CycleMachine
  <2> QED  BY <1>1, <2>2, <2>4, <2>5 DEF Executes, next, s, code, addr, rs1, rs2
<1>12. CASE Functional!HandleOpImm
  <2> DEFINE alt == i.funct3 = 5 /\ Functional!Alternate(i)
             v == Functional!Operation(i.funct3, alt, rs1, ImmI(i))
  <2>1. Functional!Write(v)
    <3>1. Functional!Write(Functional!Operation(i.funct3,
          i.funct3 = 5 /\ Functional!Alternate(i),
          Functional!Rs1, Functional!ImmI(i)))
      BY <1>12 DEF Functional!HandleOpImm, i
    <3> QED  BY <1>1, <1>3, <3>1
  <2> HIDE DEF v
  <2>2. s' = Wrote(s, i, v, next)
    BY <1>1, <1>2, <1>4, <1>12, <2>1, CycleWrote DEF Functional!HandleOpImm, s, i
  <2>3. s.status = "running" /\ s.pc \in DOMAIN text /\ i.opcode = "OP_IMM"
    BY <1>4, <1>12 DEF Functional!HandleOpImm
  <2> QED  BY <1>1, <2>2, <2>3 DEF Executes, next, s, v, rs1
<1>13. CASE Functional!HandleOp
  <2> DEFINE v == Functional!Operation(i.funct3, Functional!Alternate(i), rs1, rs2)
  <2>1. Functional!Write(v)
    <3>1. Functional!Write(Functional!Operation(i.funct3, Functional!Alternate(i),
                                          Functional!Rs1, Functional!Rs2))
      BY <1>13 DEF Functional!HandleOp, i
    <3> QED  BY <1>1, <3>1
  <2> HIDE DEF v
  <2>2. s' = Wrote(s, i, v, next)
    BY <1>1, <1>2, <1>4, <1>13, <2>1, CycleWrote DEF Functional!HandleOp, s, i
  <2>3. s.status = "running" /\ s.pc \in DOMAIN text /\ i.opcode = "OP"
    BY <1>4, <1>13 DEF Functional!HandleOp
  <2> QED  BY <1>1, <2>2, <2>3 DEF Executes, next, s, v, rs1, rs2
<1>14. CASE Functional!HandleFENCE
  <2>1. s' = Went(s, i, next, s.status)
    BY <1>1, <1>2, <1>4, <1>14, CycleWent
       DEF Functional!HandleFENCE, Functional!Continues, s, i
  <2>2. s.status = "running" /\ s.pc \in DOMAIN text /\ i.opcode = "MISC_MEM"
    BY <1>4, <1>14 DEF Functional!HandleFENCE
  <2> QED  BY <1>1, <2>1, <2>2 DEF Executes, next, s
<1>15. CASE Functional!HandleSystem
  <2> DEFINE out == IF i.rs2 % 2 = 1 THEN "EBREAK" ELSE "ECALL"
  <2>1. AbsStatus' = out
    BY <1>15 DEF Functional!HandleSystem, i
  <2> HIDE DEF out
  <2>2. s' = Went(s, i, s.pc, out)
    BY <1>1, <1>4, <1>15, <2>1, CycleWent DEF Functional!HandleSystem, s, i
  <2>3. s.status = "running" /\ s.pc \in DOMAIN text /\ i.opcode = "SYSTEM"
    BY <1>4, <1>15 DEF Functional!HandleSystem
  <2> QED  BY <1>1, <2>2, <2>3 DEF Executes, s, out
<1>16. /\ ~Functional!HandleSegFault
       /\ ~Functional!HandleUnknown
       /\ ~Functional!LoadFromPCFault
  BY DEF Functional!HandleSegFault, Functional!HandleUnknown, Functional!LoadFromPCFault
<1> QED  BY <1>5, <1>6, <1>7, <1>8, <1>9, <1>10, <1>11, <1>12, <1>13, <1>14, <1>15, <1>16
         DEF Functional!Run, s

-----------------------------------------------------------------------------
(* The history of the interpreter *)

\* h is the run of program p from the start to machine m, in n instructions.
Path(p, h, n, m) ==
  /\ n \in Nat /\ h[0] = Start /\ h[n] = m
  /\ \A k \in 0 .. n - 1 : Executes(p, h[k], h[k + 1])

HistoryInv ==
  /\ i_status = "idle" =>
       /\ i_regs = [r \in Regs |-> 0]
       /\ i_exec_trace = <<>> /\ i_reg_trace = <<>> /\ i_mmu_trace = <<>>
  /\ i_status \in {"running", "ECALL", "EBREAK"} =>
       \E n, h : Path(text, h, n, InterpreterMachine)

LEMMA PathBegins ==
  ASSUME NEW p
  PROVE  \E n, h : Path(p, h, n, Start)
<1> DEFINE h == [k \in {0} |-> Start]
<1>1. h[0] = Start
  OBVIOUS
<1> HIDE DEF h
<1>2. Path(p, h, 0, Start)
  BY <1>1 DEF Path
<1> QED  BY <1>2

LEMMA PathGoesOn ==
  ASSUME NEW p, NEW m, NEW t, \E n, h : Path(p, h, n, m), Executes(p, m, t)
  PROVE  \E n, h : Path(p, h, n, t)
<1>1. PICK n, h : Path(p, h, n, m)
  OBVIOUS
<1>2. n \in Nat /\ h[0] = Start /\ h[n] = m
  BY <1>1 DEF Path
<1> DEFINE g == [k \in 0 .. n + 1 |-> IF k <= n THEN h[k] ELSE t]
<1>3. /\ \A k \in 0 .. n : g[k] = h[k]
      /\ g[n + 1] = t
  BY <1>2
<1> HIDE DEF g
<1>4. ASSUME NEW k \in 0 .. n PROVE Executes(p, g[k], g[k + 1])
  <2>1. CASE k = n
    BY <1>2, <1>3, <2>1
  <2>2. CASE k # n
    <3>1. k \in 0 .. n - 1 /\ k + 1 \in 0 .. n
      BY <1>2, <2>2
    <3>2. Executes(p, h[k], h[k + 1])
      BY <1>1, <3>1 DEF Path
    <3> QED  BY <1>3, <3>1, <3>2
  <2> QED  BY <2>1, <2>2
<1>5. Path(p, g, n + 1, t)
  <2>1. n + 1 \in Nat /\ 0 \in 0 .. n /\ (n + 1) - 1 = n
    BY <1>2
  <2> QED  BY <1>2, <1>3, <1>4, <2>1 DEF Path
<1> QED  BY <1>5

\* RunProgram leaves the same machine whichever model runs it.
LEMMA InterpreterStarts ==
  ASSUME HistoryInv, Interpreter!RunProgram
  PROVE  InterpreterMachine' = Start
<1>1. /\ i_regs = [r \in Regs |-> 0]
      /\ i_exec_trace = <<>> /\ i_reg_trace = <<>> /\ i_mmu_trace = <<>>
  BY DEF HistoryInv, Interpreter!RunProgram
<1>2. Interpreter!SPReg = SPReg /\ Interpreter!StackPointer = StackPointer
  BY InterpreterArithmetic
     DEF SPReg, Interpreter!SPReg, StackPointer, MMUSize, PageSize,
         Interpreter!StackPointer, Interpreter!MMUSize, Interpreter!PageSize
<1>3. /\ i_regs' = WriteReg(i_regs, SPReg, StackPointer)
      /\ i_reg_trace' = i_reg_trace \o RegRecord(SPReg, StackPointer)
      /\ i_mem' = DataMem /\ i_pc' = Entry /\ i_status' = "running"
      /\ UNCHANGED <<i_exec_trace, i_mmu_trace>>
  BY <1>2, InterpreterStorage DEF Interpreter!RunProgram
<1> QED  BY <1>1, <1>3 DEF InterpreterMachine, Start

LEMMA InterpreterRuns ==
  ASSUME Interpreter!Run
  PROVE  i_status = "running" /\ text' = text /\ i_status' # "idle"
  BY DEF Interpreter!Run, Interpreter!LoadFromPCFault, Interpreter!HandleLUI,
         Interpreter!HandleAUIPC, Interpreter!HandleJAL, Interpreter!HandleJALR,
         Interpreter!HandleBranch, Interpreter!HandleLoad, Interpreter!HandleStore,
         Interpreter!HandleSegFault, Interpreter!HandleOpImm, Interpreter!HandleOp,
         Interpreter!HandleFENCE, Interpreter!HandleSystem, Interpreter!HandleUnknown,
         Interpreter!Decode, Interpreter!Continues

LEMMA NextHistory ==
  ASSUME HistoryInv, Interpreter!Next
  PROVE  HistoryInv'
<1>1. CASE Interpreter!RunProgram
  <2>1. InterpreterMachine' = Start /\ i_status' = "running"
    BY <1>1, InterpreterStarts DEF Interpreter!RunProgram
  <2>2. \E n, h : Path(text', h, n, InterpreterMachine')
    BY <2>1, PathBegins
  <2> QED  BY <2>1, <2>2 DEF HistoryInv, Path
<1>2. CASE Interpreter!Run
  <2>1. i_status = "running" /\ text' = text /\ i_status' # "idle"
    BY <1>2, InterpreterRuns
  <2>2. ASSUME i_status' \in {"running", "ECALL", "EBREAK"}
        PROVE  \E n, h : Path(text, h, n, InterpreterMachine')
    <3>1. Executes(text, InterpreterMachine, InterpreterMachine')
      BY <1>2, <2>2, InterpreterExecutes
    <3>2. \E n, h : Path(text, h, n, InterpreterMachine)
      BY <2>1 DEF HistoryInv
    <3> HIDE DEF InterpreterMachine
    <3> QED  BY <3>1, <3>2, PathGoesOn
  <2> QED  BY <2>1, <2>2 DEF HistoryInv, Path
<1> QED  BY <1>1, <1>2 DEF Interpreter!Next

-----------------------------------------------------------------------------
(* The cycle model walks along the history. *)

\* The history of the interpreter, which is done, goes through the state of
\* the cycle model.
Follows ==
  \E n, h : /\ Path(text, h, n, InterpreterMachine)
            /\ \E k \in 0 .. n : h[k] = CycleMachine

\* The stage registers hold an instruction of the image wherever they have a
\* location, also the padding.
Located ==
  /\ de.pc_de # 0 => de.pc_de \in DOMAIN text /\ de.instr = text[de.pc_de]
  /\ ex.pc_de # 0 => ex.pc_de \in DOMAIN text /\ ex.instr = text[ex.pc_de]

\* A machine on the history that has not ended executes its next instruction.
LEMMA HistoryGoesOn ==
  ASSUME Follows, Valid(i_status), AbsStatus = "running"
  PROVE  \E t : /\ Executes(text, CycleMachine, t)
                /\ \A u : Executes(text, CycleMachine, u) =>
                     \E n, h : /\ Path(text, h, n, InterpreterMachine)
                               /\ \E k \in 0 .. n : h[k] = u
<1>1. PICK n, h : /\ Path(text, h, n, InterpreterMachine)
                  /\ \E k \in 0 .. n : h[k] = CycleMachine
  BY DEF Follows
<1>2. PICK k \in 0 .. n : h[k] = CycleMachine
  BY <1>1
<1>3. n \in Nat /\ h[n] = InterpreterMachine
  BY <1>1 DEF Path
<1>4. k # n
  BY <1>2, <1>3 DEF CycleMachine, InterpreterMachine, Valid
<1>5. k \in 0 .. n - 1 /\ k + 1 \in 0 .. n
  BY <1>3, <1>4
<1>6. Executes(text, CycleMachine, h[k + 1])
  BY <1>1, <1>2, <1>5 DEF Path
<1>7. ASSUME NEW u, Executes(text, CycleMachine, u) PROVE u = h[k + 1]
  BY <1>6, <1>7, Deterministic
<1> QED  BY <1>1, <1>5, <1>6, <1>7

\* One that has ended is the last one.
LEMMA HistoryEnds ==
  ASSUME Follows, AbsStatus # "running"
  PROVE  CycleMachine = InterpreterMachine
<1>1. PICK n, h : /\ Path(text, h, n, InterpreterMachine)
                  /\ \E k \in 0 .. n : h[k] = CycleMachine
  BY DEF Follows
<1>2. PICK k \in 0 .. n : h[k] = CycleMachine
  BY <1>1
<1>3. n \in Nat /\ h[n] = InterpreterMachine
  BY <1>1 DEF Path
<1>4. k \notin 0 .. n - 1
  <2> SUFFICES ASSUME k \in 0 .. n - 1 PROVE FALSE
    OBVIOUS
  <2>1. Executes(text, CycleMachine, h[k + 1])
    BY <1>1, <1>2 DEF Path
  <2> QED  BY <2>1 DEF Executes, CycleMachine
<1>5. k = n
  BY <1>3, <1>4
<1> QED  BY <1>2, <1>3, <1>5

\* What is executed on the history is an instruction that both models know.
LEMMA FaultlessAlong ==
  ASSUME RefinementInv, FaultFree, Located, Valid(i_status),
         status # "idle" => Follows /\ WellScheduled(text)
  PROVE  Faultless
<1> SUFFICES ASSUME Running
             PROVE  IF ex.instr = ZeroInstr
                      THEN ex.pc_de = 0
                      ELSE /\ ex.instr.opcode \notin {"ZERO", "OTHER"}
                           /\ ex.instr.opcode = "JALR" => ex.instr.funct3 = 0
  BY DEF Faultless, FaultFree
<1>1. Follows /\ WellScheduled(text) /\ AbsStatus = "running"
  BY DEF Running, AbsStatus
<1>2. CASE ex.pc_de = 0
  <2>1. ex.instr = ZeroInstr
    BY <1>1, <1>2
       DEF RefinementInv, OperandInv, StallInv, InFlightInOrder, WellScheduled
  <2> QED  BY <1>2, <2>1
<1>3. CASE ex.pc_de # 0
  <2>1. AbsPC = ex.pc_de /\ ex.instr = text[ex.pc_de]
    BY <1>3 DEF AbsPC, Running, Located
  <2>2. PICK t : Executes(text, CycleMachine, t)
    BY <1>1, HistoryGoesOn
  <2>3. text[CycleMachine.pc] = ex.instr
    BY <2>1 DEF CycleMachine
  <2>4. /\ ex.instr.opcode \notin {"ZERO", "OTHER"}
        /\ ex.instr.opcode = "JALR" => ex.instr.funct3 = 0
    BY <2>2, <2>3 DEF Executes
  <2> QED  BY <2>4 DEF ZeroInstr
<1> QED  BY <1>2, <1>3

LEMMA NextLocated ==
  ASSUME Located, [Next]_vars, text' = text, status = "idle" => Empty
  PROVE  Located'
<1>1. CASE TickAdvance
  BY <1>1, ExecuteNextFields DEF TickAdvance, DecodeNext, FetchOK, Located
<1>2. CASE TickRedirect
  BY <1>2 DEF TickRedirect, DecodeCleared, ExecuteCleared, Located
<1>3. CASE UNCHANGED <<de, ex>>
  BY <1>3 DEF Located
<1> QED  BY <1>1, <1>2, <1>3
         DEF Next, Tick, RunProgram, TickHalted, TickTrap, DoLastTicks,
             TickMemoryFault, TickFetchFault, vars, stages

\* The address of a load or store in the execute stage, and the value stored.
LEMMA AccessOperands ==
  ASSUME RefinementInv, Running, enabled, ~MemoryFault(me, mem),
         ex.instr.opcode \in {"LOAD", "STORE"}
  PROVE  AluRes = Add(AbsRegs[ex.instr.rs1],
                      IF ex.instr.opcode = "LOAD" THEN ImmI(ex.instr) ELSE ImmS(ex.instr))
<1> DEFINE i == ex.instr
           type == GetInstructionType(i.opcode)
<1>1. type = (IF i.opcode = "LOAD" THEN "IType" ELSE "SType")
  BY Types
<1>2. i # ZeroInstr
  BY DEF ZeroInstr
<1>3. SrcA = AbsRegs[i.rs1]
  BY <1>1, <1>2
     DEF RefinementInv, OperandInv, OperandsCurrent, AbsRegs, InFlight, Running, hasRs1
<1>4. ex.alu_op = "ADD" /\ ex.alu_src2 = (type \in {"IType", "SType", "UType"})
  BY Signals, AluOperation DEF RefinementInv, Decoded
<1>5. ImmediateExtensionBlock(i) = IF i.opcode = "LOAD" THEN ImmI(i) ELSE ImmS(i)
  BY <1>1, Immediates
<1>6. \A a, b : ALU("ADD", a, b) = Add(a, b)
  BY Zenon DEF ALU
<1>7. type \in {"IType", "SType", "UType"}
  BY <1>1
<1> HIDE DEF type, i
<1> QED  BY <1>3, <1>4, <1>5, <1>6, <1>7 DEF AluRes, i

\* A load or store that the interpreter has executed does not fault.
LEMMA NoFaultAhead ==
  ASSUME RefinementInv, Running, enabled, ~MemoryFault(me, mem), ex.instr # ZeroInstr,
         WellScheduled(text), NEW t, Executes(text, CycleMachine, t)
  PROVE  ~MemoryFault(MemoryNext, AbsMem)
<1> DEFINE i == ex.instr
           N == MemoryNext
<1>1. ex.pc_de \in DOMAIN text /\ i = text[ex.pc_de] /\ ex.pc_de # 0
  BY DEF RefinementInv, OperandInv, StallInv, InFlightInOrder, WellScheduled
<1>2. /\ CycleMachine.pc = ex.pc_de /\ CycleMachine.regs = AbsRegs
      /\ CycleMachine.mem = AbsMem
  BY <1>1 DEF CycleMachine, AbsPC, Running
<1>3. /\ N.mem_we = (i.opcode = "STORE") /\ N.mem_to_reg = (i.opcode = "LOAD")
      /\ N.store_mode = i.funct3
      /\ i.opcode \in {"LOAD", "STORE"} => N.alu_res = AluRes
  BY DeliveredFields DEF RefinementInv
<1>4. CASE i.opcode = "LOAD"
  <2> DEFINE addr == Add(AbsRegs[i.rs1], ImmI(i))
  <2>1. AluRes = addr
    BY <1>4, AccessOperands
  <2>2. i.funct3 \in LoadModes /\ Mapped(AbsMem, addr, 2 ^ (i.funct3 % 4))
    BY <1>1, <1>2, <1>4 DEF Executes
  <2> HIDE DEF addr, N, i
  <2> QED  BY <1>3, <1>4, <2>1, <2>2 DEF MemoryFault, BadMode, SegFault, Width, N
<1>5. CASE i.opcode = "STORE"
  <2> DEFINE addr == Add(AbsRegs[i.rs1], ImmS(i))
  <2>1. AluRes = addr
    BY <1>5, AccessOperands
  <2>2. /\ i.funct3 \in StoreModes
        /\ Mapped(AbsMem, addr, 2 ^ (IF i.funct3 = 2 THEN 2 ELSE 0))
    BY <1>1, <1>2, <1>5 DEF Executes
  <2>3. i.funct3 # 1
    BY <1>1, <1>5 DEF WellScheduled, SameInBoth
  <2>4. i.funct3 % 4 = IF i.funct3 = 2 THEN 2 ELSE 0
    BY <2>2, <2>3 DEF StoreModes
  <2> HIDE DEF addr, N, i
  <2>5. Mapped(AbsMem, addr, Width(i.funct3))
    BY <2>2, <2>4 DEF Width
  <2> QED  BY <1>3, <1>5, <2>1, <2>2, <2>5 DEF MemoryFault, BadMode, SegFault, N
<1>6. CASE i.opcode \notin {"LOAD", "STORE"}
  <2>1. (i.opcode = "LOAD") = FALSE /\ (i.opcode = "STORE") = FALSE
    BY <1>6
  <2> HIDE DEF N, i
  <2>2. N.mem_we = FALSE /\ N.mem_to_reg = FALSE
    BY <1>3, <2>1
  <2> QED  BY <2>2 DEF MemoryFault, BadMode, SegFault, Accesses, N
<1> QED  BY <1>4, <1>5, <1>6

\* No access of a tick that the run goes on from faults.
LEMMA NextFaultFree ==
  ASSUME RefinementInv, FaultFree, Valid(i_status), [Next]_vars,
         status # "idle" => Follows /\ WellScheduled(text),
         status' \in {"idle", "running", "draining", "ECALL", "EBREAK"}
  PROVE  FaultFree'
<1> SUFFICES ASSUME InFlight' PROVE ~MemoryFault(me', mem')
  BY DEF FaultFree
<1>1. \A m, M : m.mem_we = FALSE /\ m.mem_to_reg = FALSE => ~MemoryFault(m, M)
  BY DEF MemoryFault, BadMode, SegFault, Accesses
<1>2. MemoryCleared.mem_we = FALSE /\ MemoryCleared.mem_to_reg = FALSE
  BY DEF MemoryCleared
<1>3. ASSUME DoStages, enabled, me' = MemoryNext
      PROVE  ~MemoryFault(me', mem')
  <2>1. /\ Running /\ ~MemoryFault(me, mem) /\ mem' = AbsMem
        /\ AbsStatus = "running" /\ Follows /\ WellScheduled(text)
    BY <1>3 DEF DoStages, AbsMem, InFlight, Running, AbsStatus
  <2>2. CASE ex.instr = ZeroInstr
    <3>1. /\ ex.mem_we = (ex.instr.opcode = "STORE")
          /\ ex.mem_to_reg = (ex.instr.opcode = "LOAD")
      BY Signals DEF RefinementInv, Decoded
    <3>2. (ex.instr.opcode = "STORE") = FALSE /\ (ex.instr.opcode = "LOAD") = FALSE
      BY <2>2 DEF ZeroInstr
    <3>3. MemoryNext.mem_we = FALSE /\ MemoryNext.mem_to_reg = FALSE
      BY <3>1, <3>2 DEF MemoryNext
    <3> QED  BY <1>1, <1>3, <3>3
  <2>3. CASE ex.instr # ZeroInstr
    <3>1. PICK t : Executes(text, CycleMachine, t)
      BY <2>1, HistoryGoesOn
    <3> QED  BY <1>3, <2>1, <2>3, <3>1, NoFaultAhead
  <2> QED  BY <2>2, <2>3
<1>4. CASE RunProgram
  BY <1>1, <1>2, <1>4 DEF RunProgram, RefinementInv, Empty
<1>5. CASE TickAdvance \/ TickRedirect
  BY <1>3, <1>5 DEF TickAdvance, TickRedirect
<1>6. CASE TickHalted
  BY <1>1, <1>2, <1>6 DEF TickHalted
<1>7. CASE TickTrap
  <2>1. DoStages /\ Running /\ DecodeOutcome(de.instr) # "ok" /\ me' = MemoryNext
    BY <1>7 DEF TickTrap, DoStages, InFlight
  <2>2. enabled
    BY <2>1, TrapInOrder DEF RefinementInv, OperandInv, WellScheduled, Running
  <2> QED  BY <1>3, <2>1, <2>2
<1>8. ~DoLastTicks
  <2> SUFFICES ASSUME DoLastTicks PROVE FALSE
    OBVIOUS
  <2>1. /\ status' \in {"exception", "segv", DecodeOutcome(de.instr)}
        /\ status = "draining"
    BY DEF DoLastTicks
  <2>2. DecodeOutcome(de.instr) \notin {"running", "draining"}
    BY DecodeOutcomeType
  <2> QED  BY <2>1, <2>2 DEF InFlight
<1>9. CASE UNCHANGED vars
  BY <1>9 DEF vars, stages, FaultFree, InFlight
<1> QED  BY <1>4, <1>5, <1>6, <1>7, <1>8, <1>9
         DEF Next, Tick, TickMemoryFault, TickFetchFault, InFlight

\* Nothing has been traced or written before the program runs.
Untouched ==
  status = "idle" => /\ regs = [r \in Regs |-> 0]
                     /\ exec_trace = <<>> /\ reg_trace = <<>> /\ mmu_trace = <<>>

LEMMA CycleStarts ==
  ASSUME RefinementInv, Untouched, RunProgram
  PROVE  CycleMachine' = Start
<1>1. /\ AbsRegs' = WriteReg(AbsRegs, SPReg, StackPointer)
      /\ AbsRegTrace' = AbsRegTrace \o RegRecord(SPReg, StackPointer)
      /\ AbsMem' = DataMem /\ AbsPC' = Entry /\ AbsStatus' = "running"
      /\ UNCHANGED <<exec_trace, AbsMmuTrace>>
  BY RunStep, SameWords, SameStorage DEF Functional!RunProgram
<1>2. /\ AbsRegs = [r \in Regs |-> 0] /\ AbsRegTrace = <<>> /\ AbsMmuTrace = <<>>
      /\ exec_trace = <<>>
  BY DEF RunProgram, Untouched, AbsRegs, AbsRegTrace, AbsMmuTrace, InFlight
<1> QED  BY <1>1, <1>2 DEF CycleMachine, Start

\* Every tick of a run without faults stays on the history.
LEMMA NextFollows ==
  ASSUME RefinementInv, Faultless, FaultFree', Untouched, Valid(i_status), HistoryInv,
         status # "idle" => Follows /\ WellScheduled(text),
         [Next]_vars, UNCHANGED <<text, i_vars>>, status' # "idle"
  PROVE  Follows'
<1>1. InterpreterMachine' = InterpreterMachine
  BY DEF InterpreterMachine, i_vars
<1>2. CASE RunProgram
  <2>1. PICK n, h : Path(text, h, n, InterpreterMachine)
    BY DEF HistoryInv, Valid
  <2>2. 0 \in 0 .. n /\ h[0] = CycleMachine'
    BY <1>2, <2>1, CycleStarts DEF Path
  <2> QED  BY <1>1, <2>1, <2>2 DEF Follows
<1>3. CASE ~RunProgram
  <2>1. status # "idle"
    BY <1>3
       DEF Next, Tick, TickAdvance, TickRedirect, TickHalted, TickTrap, DoLastTicks,
                TickMemoryFault, TickFetchFault, DoStages, Running, vars
  <2>2. Functional!Next \/ UNCHANGED Functional!vars
    BY <2>1, StepSimulation
  <2>3. CASE UNCHANGED Functional!vars
    <3>1. CycleMachine' = CycleMachine
      BY <2>3 DEF CycleMachine, Functional!vars, Functional!traces
    <3> QED  BY <1>1, <2>1, <3>1 DEF Follows
  <2>4. CASE Functional!Next
    <3>1. Functional!Run
      BY <2>1, <2>4 DEF Functional!Next, Functional!RunProgram, AbsStatus
    <3>2. AbsStatus' \in {"running", "ECALL", "EBREAK"}
      BY DEF AbsStatus, FaultFree
    <3>3. Executes(text, CycleMachine, CycleMachine')
      BY <3>1, <3>2, CycleExecutes
    <3>4. AbsStatus = "running"
      BY <3>3 DEF Executes, CycleMachine
    <3>5. \E n, h : /\ Path(text, h, n, InterpreterMachine)
                    /\ \E k \in 0 .. n : h[k] = CycleMachine'
      <4> HIDE DEF CycleMachine, InterpreterMachine
      <4> QED  BY <2>1, <3>3, <3>4, HistoryGoesOn
    <3> QED  BY <1>1, <3>5 DEF Follows
  <2> QED  BY <2>2, <2>3, <2>4
<1> QED  BY <1>2, <1>3

-----------------------------------------------------------------------------
(* The co-simulation *)

\* The cycle model has not run into a fault, the end of the mapped code, or an
\* encoding that only the interpreter accepts.
Unbroken == status \in {"idle", "running", "draining", "ECALL", "EBREAK"}

AgreementInv ==
  /\ TestInv /\ HistoryInv /\ Untouched
  /\ ~Valid(i_status) => status = "idle" /\ verdict = {}
  /\ status = "idle" => RefinementInv
  /\ WellScheduled(text) =>
       /\ Unbroken => RefinementInv /\ FaultFree /\ Located
       /\ Unbroken /\ status # "idle" => Follows
       /\ verdict = {}

\* Both models have ended: at the end of the history.
LEMMA AgreeAtTheEnd ==
  ASSUME AgreementInv
  PROVE  WellScheduledAgree
<1> SUFFICES ASSUME WellScheduled(text), Valid(i_status), Valid(status)
             PROVE  /\ regs = i_regs /\ mem = i_mem /\ status = i_status
                    /\ exec_trace = i_exec_trace /\ reg_trace = i_reg_trace
                    /\ mmu_trace = i_mmu_trace
  BY DEF WellScheduledAgree
<1>1. Follows /\ ~InFlight /\ AbsStatus = status /\ AbsStatus # "running"
  BY DEF AgreementInv, Unbroken, Valid, InFlight, AbsStatus
<1>2. CycleMachine = InterpreterMachine
  BY <1>1, HistoryEnds
<1>3. /\ CycleMachine.regs = regs /\ CycleMachine.mem = mem
      /\ CycleMachine.status = status /\ CycleMachine.exec_trace = exec_trace
      /\ CycleMachine.reg_trace = reg_trace /\ CycleMachine.mmu_trace = mmu_trace
  BY <1>1 DEF CycleMachine, AbsRegs, AbsMem, AbsRegTrace, AbsMmuTrace
<1> HIDE DEF CycleMachine
<1> QED  BY <1>2, <1>3 DEF InterpreterMachine

LEMMA InitAgreementInv == TestInit => AgreementInv
<1> SUFFICES ASSUME TestInit PROVE AgreementInv
  OBVIOUS
<1>1. Init /\ Interpreter!Init /\ verdict = {}
  BY DEF TestInit
<1>2. TestInv /\ RefinementInv
  BY <1>1, InitTestInv, InitRefinementInv
<1>3. status = "idle" /\ i_status = "idle"
  BY <1>1 DEF Init, Interpreter!Init
<1>4. HistoryInv
  BY <1>1 DEF Interpreter!Init, HistoryInv, Regs, Interpreter!Regs
<1>5. Untouched /\ FaultFree /\ Located
  BY <1>1
     DEF Init, Untouched, FaultFree, InFlight, Located, DecodeCleared, ExecuteCleared
<1> QED  BY <1>1, <1>2, <1>3, <1>4, <1>5 DEF AgreementInv, Valid

\* The interpreter leaves the cycle model, which is idle, alone but for the image.
LEMMA IdleKeeps ==
  ASSUME AgreementInv, RunInterpreter
  PROVE  /\ status = "idle" /\ status' = "idle" /\ verdict = {} /\ verdict' = {}
         /\ RefinementInv' /\ Untouched' /\ FaultFree' /\ Located'
<1>1. i_status \in {"idle", "running"}
  BY InterpreterRuns DEF RunInterpreter, Interpreter!Next, Interpreter!RunProgram
<1>2. /\ status = "idle" /\ verdict = {} /\ RefinementInv /\ Untouched /\ TestInv
  BY <1>1 DEF AgreementInv, Valid
<1>3. UNCHANGED <<mem, regs, stages, hazard, trace_prev_pc, exec_trace, reg_trace,
                  mmu_trace, status, verdict>>
  BY DEF RunInterpreter
<1>4. ReplayInv'
  BY <1>2, RunInterpreterKeeps
<1>5. Empty /\ Empty'
  BY <1>2, <1>3 DEF RefinementInv, Empty, stages
<1>6. Located' /\ InFlightInOrder' /\ TracedOnce'
  BY <1>2, <1>3, <1>5
     DEF Empty, Located, InFlightInOrder, TracedOnce, Running, DecodeCleared, ExecuteCleared
<1>7. Conflict' /\ SavedOperandCurrent' /\ BehindLoad' /\ OperandsCurrent'
  BY <1>2, <1>3 DEF Conflict, SavedOperandCurrent, BehindLoad, OperandsCurrent, Running
<1>8. Decoded' /\ IsTrace(exec_trace')
  BY <1>2, <1>3 DEF RefinementInv, Decoded, stages
<1>9. RefinementInv'
  BY <1>4, <1>5, <1>6, <1>7, <1>8 DEF RefinementInv, OperandInv, StallInv, ReplayInv
<1> QED  BY <1>2, <1>3, <1>6, <1>9 DEF Untouched, FaultFree, InFlight

\* A tick keeps what leads to agreement, unless it breaks the run.
LEMMA TickKeeps ==
  ASSUME AgreementInv, RunCycleModel, WellScheduled(text), Unbroken'
  PROVE  RefinementInv' /\ FaultFree' /\ Located' /\ (status' # "idle" => Follows')
<1>1. Valid(i_status) /\ text' = text /\ Next /\ UNCHANGED i_vars
  BY DEF RunCycleModel
<1>2. Unbroken
  BY <1>1 DEF Unbroken, Next, Tick, RunProgram, TickAdvance, TickRedirect, TickHalted,
              TickTrap, DoLastTicks, TickMemoryFault, TickFetchFault, DoStages, Running
<1>3. /\ RefinementInv /\ FaultFree /\ Located /\ HistoryInv /\ Untouched
      /\ status # "idle" => Follows /\ WellScheduled(text)
  BY <1>2 DEF AgreementInv
<1>4. Faultless
  BY <1>1, <1>3, FaultlessAlong
<1>5. FaultFree'
  BY <1>1, <1>3, NextFaultFree DEF Unbroken
<1>6. RefinementInv'
  BY <1>1, <1>3, <1>4, NextRefinementInv
<1>7. Located'
  BY <1>1, <1>3, NextLocated DEF RefinementInv
<1>8. status' # "idle" => Follows'
  BY <1>1, <1>3, <1>4, <1>5, NextFollows
<1> QED  BY <1>5, <1>6, <1>7, <1>8

\* Traces that agree are found equal, whatever the format.
LEMMA ComparedAlike ==
  ASSUME AgreementInv, CompareTraces, WellScheduled(text)
  PROVE  verdict' = {}
<1>1. exec_trace = i_exec_trace /\ reg_trace = i_reg_trace /\ mmu_trace = i_mmu_trace
  BY AgreeAtTheEnd DEF CompareTraces, WellScheduledAgree
<1>2. \A l \in Levels : FunctionalTrace(l) = PipelineTrace(l)
  BY <1>1 DEF FunctionalTrace, PipelineTrace
<1>3. \A f : ~CompareTwoFiles(f, f)
  BY DEF CompareTwoFiles
<1>4. \A l \in Levels : \A r :
        ~CompareTwoFiles(Encoded(r, l, FunctionalTrace(l)), Encoded(r, l, PipelineTrace(l)))
  BY <1>2, <1>3
<1> QED  BY <1>4 DEF CompareTraces

\* Nothing of the invariant is about the format.
LEMMA SameStateKeeps ==
  ASSUME AgreementInv, TestInv', UNCHANGED <<vars, i_vars>>,
         verdict' = {} \/ (~WellScheduled(text) /\ Valid(i_status)) \/ UNCHANGED verdict
  PROVE  AgreementInv'
<1>1. UNCHANGED <<text, status, i_status, CycleMachine, InterpreterMachine>>
  BY
     DEF vars, stages, hazard, i_vars, CycleMachine, InterpreterMachine, AbsMem, AbsRegs,
         ArchRegs, AbsPC, AbsRegTrace, AbsMmuTrace, AbsStatus, InFlight
<1>2. HistoryInv'
  BY DEF AgreementInv, HistoryInv, i_vars, vars, InterpreterMachine, Path
<1>3. Untouched'
  BY DEF AgreementInv, Untouched, vars
<1>4. RefinementInv /\ (status # "idle" => WellScheduled(text)) => RefinementInv'
  <2> SUFFICES ASSUME RefinementInv, status # "idle" => WellScheduled(text)
               PROVE  RefinementInv'
    OBVIOUS
  <2>1. OperandInv' /\ ReplayInv'
    BY NextOperandInv, NextReplay DEF RefinementInv, WellScheduled
  <2>2. Decoded' /\ TracedOnce' /\ Empty' /\ IsTrace(exec_trace')
    BY DEF RefinementInv, Decoded, TracedOnce, Running, Empty, vars, stages
  <2> QED  BY <2>1, <2>2 DEF RefinementInv
<1>5. FaultFree /\ Located => FaultFree' /\ Located'
  BY DEF FaultFree, Located, InFlight, vars, stages
<1>6. Follows => Follows'
  BY <1>1 DEF Follows
<1> QED  BY <1>1, <1>2, <1>3, <1>4, <1>5, <1>6 DEF AgreementInv, Unbroken, Valid

LEMMA NextAgreementInv ==
  ASSUME AgreementInv, [TestNext]_testVars
  PROVE  AgreementInv'
<1>1. TestInv'
  BY NextTestInv DEF AgreementInv
<1>2. CASE RunInterpreter
  <2>1. HistoryInv'
    BY <1>2, NextHistory DEF AgreementInv, RunInterpreter
  <2> QED  BY <1>1, <1>2, <2>1, IdleKeeps DEF AgreementInv
<1>3. CASE RunCycleModel
  <2>1. /\ Valid(i_status) /\ UNCHANGED <<i_vars, text, verdict>> /\ status' # "idle"
    <3>1. Valid(i_status) /\ UNCHANGED <<i_vars, text, verdict>> /\ Next
      BY <1>3 DEF RunCycleModel
    <3>2. DoLastTicks => status' # "idle"
      <4> SUFFICES ASSUME DoLastTicks PROVE status' # "idle"
        OBVIOUS
      <4>1. status' \in {"exception", "segv", DecodeOutcome(de.instr)}
        BY DEF DoLastTicks
      <4> QED  BY <4>1, DecodeOutcomeType
    <3> QED  BY <3>1, <3>2
       DEF Next, Tick, RunProgram, TickAdvance, TickRedirect, TickHalted,
                TickTrap, TickMemoryFault, TickFetchFault, DoStages, Running
  <2>2. HistoryInv'
    BY <2>1 DEF AgreementInv, HistoryInv, i_vars, InterpreterMachine, Path
  <2>3. Untouched' /\ Valid(i_status')
    BY <2>1 DEF Untouched, i_vars, Valid
  <2>4. WellScheduled(text') /\ Unbroken' => RefinementInv' /\ FaultFree' /\ Located' /\ Follows'
    BY <1>3, <2>1, TickKeeps
  <2>5. WellScheduled(text') => verdict' = {}
    BY <2>1 DEF AgreementInv
  <2> QED  BY <1>1, <2>1, <2>2, <2>3, <2>4, <2>5 DEF AgreementInv
<1>4. CASE CompareTraces \/ UNCHANGED testVars
  <2>1. UNCHANGED <<vars, i_vars>>
    BY <1>4 DEF CompareTraces, testVars
  <2>2. verdict' = {} \/ (~WellScheduled(text) /\ Valid(i_status)) \/ UNCHANGED verdict
    BY <1>4, ComparedAlike DEF testVars, CompareTraces
  <2> QED  BY <1>1, <2>1, <2>2, SameStateKeeps
<1> QED  BY <1>2, <1>3, <1>4 DEF TestNext

\* A program without the patterns of the findings passes the co-simulation in
\* both formats: on it the pipeline, with its bypasses, stalls, cleared stages
\* and drained traps, leaves the very traces of the interpreter.
THEOREM WellScheduledProgramsPass == TestSpec => []WellScheduledPasses
<1>1. AgreementInv => WellScheduledPasses
  BY DEF AgreementInv, WellScheduledPasses
<1>2. AgreementInv /\ [TestNext]_testVars => AgreementInv'
  BY NextAgreementInv
<1> QED  BY <1>1, <1>2, InitAgreementInv, PTL DEF TestSpec

\* Whenever both models have run such a program to its end, the two machines
\* agree on every register, every byte of memory, the return code and every
\* record of the three traces.
THEOREM WellScheduledProgramsAgree == TestSpec => []WellScheduledAgree
<1>1. AgreementInv => WellScheduledAgree
  BY AgreeAtTheEnd
<1>2. AgreementInv /\ [TestNext]_testVars => AgreementInv'
  BY NextAgreementInv
<1> QED  BY <1>1, <1>2, InitAgreementInv, PTL DEF TestSpec

\* What the refinement assumes of a run holds in the co-simulation as long as
\* the cycle model goes on: a well-scheduled program that the interpreter has
\* run to its end makes no access that faults and executes nothing that the
\* interpreter rejects.
THEOREM WellScheduledFaultless ==
  TestSpec => [](WellScheduled(text) /\ Valid(i_status) /\ Unbroken => Faultless)
<1>1. AgreementInv => (WellScheduled(text) /\ Valid(i_status) /\ Unbroken => Faultless)
  BY FaultlessAlong DEF AgreementInv
<1>2. AgreementInv /\ [TestNext]_testVars => AgreementInv'
  BY NextAgreementInv
<1> QED  BY <1>1, <1>2, InitAgreementInv, PTL DEF TestSpec
=============================================================================
