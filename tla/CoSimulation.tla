---------------------------- MODULE CoSimulation ----------------------------
(***************************************************************************)
(* A test from end to end: the interpreter runs a program, the cycle model *)
(* runs the same program, and CompareTraces compares the files they wrote. *)
(* This is CoSimulator without its failures and with the two models in the *)
(* place of arbitrary traces.                                              *)
(***************************************************************************)
EXTENDS CycleRefinement, TraceFiles

VARIABLES
  i_mem, i_regs, i_pc,                          \* the state of the interpreter
  i_exec_trace, i_reg_trace, i_mmu_trace, i_status,
  format,    \* "readable" or "binary" once the traces are compared, else "none"
  verdict    \* the levels CompareTraces found different

i_vars == <<i_mem, i_regs, i_pc, i_exec_trace, i_reg_trace, i_mmu_trace, i_status>>
testVars == <<vars, i_vars, format, verdict>>

Interpreter == INSTANCE FunctionalModel
                 WITH mem <- i_mem, regs <- i_regs, pc <- i_pc,
                      exec_trace <- i_exec_trace, reg_trace <- i_reg_trace,
                      mmu_trace <- i_mmu_trace, status <- i_status

\* IsReturnCodeValid; Run never returns ERROR_NONE.
Valid(code) == code \in {"ECALL", "EBREAK"}

TestInit == Init /\ Interpreter!Init /\ format = "none" /\ verdict = {}

RunInterpreter ==
  /\ Interpreter!Next
  /\ UNCHANGED <<mem, regs, stages, hazard, trace_prev_pc, exec_trace, reg_trace,
                 mmu_trace, status, format, verdict>>

RunCycleModel ==
  /\ Valid(i_status)
  /\ text' = text /\ Next
  /\ UNCHANGED <<i_vars, format, verdict>>

FunctionalTrace(l) ==
  CASE l = "MMU" -> i_mmu_trace [] l = "REG_FILE" -> i_reg_trace
    [] l = "DECODER" -> i_exec_trace
PipelineTrace(l) ==
  CASE l = "MMU" -> mmu_trace [] l = "REG_FILE" -> reg_trace
    [] l = "DECODER" -> exec_trace

CompareTraces ==
  /\ Valid(i_status) /\ Valid(status) /\ format = "none"
  /\ format' \in {"readable", "binary"}
  /\ verdict' = LET readable == format' = "readable"
                IN  {l \in Levels : CompareTwoFiles(Encoded(readable, l, FunctionalTrace(l)),
                                                    Encoded(readable, l, PipelineTrace(l)))}
  /\ UNCHANGED <<vars, i_vars>>

TestNext == RunInterpreter \/ RunCycleModel \/ CompareTraces

TestSpec == TestInit /\ [][TestNext]_testVars

-----------------------------------------------------------------------------
\* Registers, memory and program counter of the interpreter hold words, and x0
\* is 0: no handler lets a word grow past XLEN bits.
InterpreterTypeOK ==
  /\ i_regs \in [Regs -> Word] /\ i_regs[0] = 0
  /\ \A a \in DOMAIN i_mem : i_mem[a] \in 0 .. ByteSize - 1
  /\ i_pc \in Word
  /\ i_status \in {"idle", "running", "ECALL", "EBREAK", "segv", "abort"}

\* Replaying the traces of the interpreter gives its registers and memory:
\* every handler hands the writer exactly what it changes.
InterpreterTracesReplay ==
  /\ RegReplayed(i_regs, i_reg_trace)
  /\ i_status \notin {"idle", "segv"} => MemReplayed(i_mem, DataMem, i_mmu_trace)

\* If the two models have left the same register and memory traces, they have
\* ended with the same registers and memory: a difference between the machines
\* is a difference between their traces.
SameTracesSameMachine ==
  Valid(i_status) /\ Valid(status) /\ reg_trace = i_reg_trace /\ mmu_trace = i_mmu_trace
    => regs = i_regs /\ mem = i_mem

\* A readable verdict of no difference means that the two models have executed
\* the same instructions and ended with the same registers and memory: what
\* they trace is enough to catch every disagreement, on any program.
NoDifferenceSameMachine ==
  format = "readable" /\ verdict = {} =>
    /\ regs = i_regs /\ mem = i_mem
    /\ exec_trace = i_exec_trace

\* A program without the patterns of the findings passes the co-simulation in
\* either format, although the pipeline writes its traces in other ticks and
\* from other stages than the interpreter.
WellScheduledPasses == verdict # {} => ~WellScheduled(text)

\* Where both models run such a program to its end, they agree on more than
\* the traces that are compared: on registers, memory and the return code too.
WellScheduledAgree ==
  WellScheduled(text) /\ Valid(i_status) /\ Valid(status) =>
    /\ regs = i_regs /\ mem = i_mem /\ status = i_status
    /\ exec_trace = i_exec_trace /\ reg_trace = i_reg_trace /\ mmu_trace = i_mmu_trace

\* A program that both models run to its end passes the co-simulation with
\* readable traces.
ReadablePasses == format = "readable" => verdict = {}
=============================================================================
