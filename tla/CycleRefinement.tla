-------------------------- MODULE CycleRefinement --------------------------
(***************************************************************************)
(* The cycle model implements the interpreter: on programs that avoid the  *)
(* patterns below, its executed instructions, register writes and memory   *)
(* writes are, in order, those of FunctionalModel.  This is what the       *)
(* co-simulation checks for one program at a time.                         *)
(*                                                                         *)
(* An instruction takes effect in the abstract state when it leaves the    *)
(* execute stage, so the write-back and memory stages are part of the      *)
(* abstract registers, memory and traces.                                  *)
(***************************************************************************)
EXTENDS PipelineProperties

InFlight == status \in {"running", "draining"}

AbsRegs == IF InFlight THEN ArchRegs ELSE regs

AbsMem == IF InFlight THEN StoredMem(me, mem) ELSE mem

AbsRegTrace ==
  IF InFlight THEN reg_trace \o WriteTrace(wb) \o WriteTrace(WriteBackNext(me, mem))
              ELSE reg_trace

AbsMmuTrace == IF InFlight THEN mmu_trace \o StoreTrace(me) ELSE mmu_trace

\* The oldest instruction that has not left the execute stage; a cleared
\* stage register has the location 0.
AbsPC ==
  IF status = "running" /\ ex.pc_de # 0 THEN ex.pc_de
  ELSE IF de.pc_de # 0 THEN de.pc_de ELSE pc

AbsStatus == IF status = "draining" THEN "running" ELSE status

Functional == INSTANCE FunctionalModel
                WITH mem <- AbsMem, regs <- AbsRegs, pc <- AbsPC,
                     reg_trace <- AbsRegTrace, mmu_trace <- AbsMmuTrace,
                     status <- AbsStatus

\* No access leaves the mapped memory or has an unknown mode, the run does not
\* end by an exception, and the execute stage holds neither the padding behind
\* an image nor an encoding that only the interpreter rejects.
Faultless ==
  /\ status \in {"idle", "running", "draining", "ECALL", "EBREAK"}
  /\ InFlight => ~MemoryFault(me, mem)
  /\ Running => IF ex.instr = ZeroInstr
                  THEN ex.pc_de = 0
                  ELSE /\ ex.instr.opcode \notin {"ZERO", "OTHER"}
                       /\ ex.instr.opcode = "JALR" => ex.instr.funct3 = 0

\* On every program of the run, each tick of the cycle model is a step of the
\* interpreter or changes nothing the interpreter has: same instructions in the
\* same order, same register writes, same memory writes, same return code.
ImplementsFunctional == Functional!Spec

-----------------------------------------------------------------------------
(* Programs on which the two models are meant to agree and do. *)

Redirects(i) == i.opcode \in {"BRANCH", "JAL", "JALR"}

\* What follows a load and an instruction that waits for it.
ReadsLoaded(use, load) ==
  /\ load.opcode = "LOAD" /\ load.rd # 0
  /\ \/ hasRs1(GetInstructionType(use.opcode)) /\ use.rs1 = load.rd
     \/ hasRs2(GetInstructionType(use.opcode)) /\ use.rs2 = load.rd

\* No ECALL, EBREAK or undecodable instruction right behind a branch or jump,
\* or two behind a load whose result the instruction between them reads; and
\* no JALR that reads the result of a load right before it.
TrapSafe(p) ==
  \A a \in DOMAIN p :
    LET b == Add(a, 4)
        c == Add(b, 4)
    IN  b \in DOMAIN p =>
          /\ Redirects(p[a]) => DecodeOutcome(p[b]) = "ok"
          /\ ReadsLoaded(p[b], p[a]) =>
               /\ p[b].opcode # "JALR"
               /\ c \in DOMAIN p => DecodeOutcome(p[c]) = "ok"

\* Branches go to aligned addresses.
BranchesAligned(p) ==
  \A a \in DOMAIN p : p[a].opcode = "BRANCH" => ImmB(p[a]) % 4 = 0

\* Instructions that the two models execute differently.
SameInBoth(i) ==
  /\ i.opcode = "LOAD" => i.funct3 \notin {0, 1}
  /\ i.opcode = "STORE" => i.funct3 # 1
  /\ i.opcode = "JALR" => i.rd # i.rs1 \/ i.rd = 0
  /\ i.opcode = "MISC_MEM" => i.rd = 0

WellScheduled(p) ==
  /\ StallSafe(p) /\ TrapSafe(p)
  /\ \A a \in DOMAIN p : a # 0 /\ SameInBoth(p[a])
=============================================================================
