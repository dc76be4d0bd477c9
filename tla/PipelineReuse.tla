--------------------------- MODULE PipelineReuse ---------------------------
(***************************************************************************)
(* Several programs, one after the other, on one PipelineModel: what a     *)
(* co-simulator does whose TestProgram is called again.  RunProgram sets   *)
(* the program counter, the stack pointer, ticks_counter and               *)
(* trace_prev_pc_; the stage registers, the enable flags, the bypass       *)
(* selectors and the registers are those the last program left.            *)
(***************************************************************************)
EXTENDS PipelineProperties, TLC

CONSTANT Memories   \* data memory of the programs that follow the first

VARIABLE ticks      \* ticks_counter, up to 2: the code asks only whether it is below

reuseVars == <<vars, ticks>>

ReuseInit == Init /\ ticks = 0

FirstRun == RunProgram /\ ticks' = 0

\* RunProgram on a model that has run a program.  The writer is given new
\* files.  SetPC ticks the program counter, which has no effect while the
\* pipeline is halted.  An exception left Run without FreeMemory: the pages of
\* that program are still mapped where the new one maps none.
RunAnother ==
  /\ status \in {"ECALL", "EBREAK", "exception"}
  /\ \E p \in Programs, m \in Memories :
       IF status = "exception" THEN text' = p @@ text /\ mem' = m @@ mem
                               ELSE text' = p /\ mem' = m
  /\ pc' = IF enabled THEN Entry ELSE pc
  /\ regs' = WriteReg(regs, SPReg, StackPointer)
  /\ reg_trace' = RegRecord(SPReg, StackPointer)
  /\ exec_trace' = <<>> /\ mmu_trace' = <<>>
  /\ trace_prev_pc' = 0
  /\ ticks' = 0
  /\ status' = "running"
  /\ UNCHANGED <<de, ex, me, wb, hazard>>

\* In the first two ticks Run points the data memory unit at the program
\* counter, and DoMemory reads there unless the memory stage holds an access.
DataUnitFault ==
  Running /\ ticks < 2 /\ ~Accesses(me) /\ pc \notin DOMAIN text \cup DOMAIN mem

FirstTickFault ==
  /\ DataUnitFault
  /\ status' = "segv"
  /\ UNCHANGED <<text, mem, regs, stages, hazard, trace_prev_pc, exec_trace,
                 reg_trace, mmu_trace, ticks>>

\* ++ticks_counter is the end of a Tick that does not throw.
CountedTick ==
  /\ ~DataUnitFault
  /\ Tick
  /\ ticks' = IF status' = "running" /\ ticks < 2 THEN ticks + 1 ELSE ticks

ReuseNext == FirstRun \/ RunAnother \/ FirstTickFault \/ CountedTick

ReuseSpec == ReuseInit /\ [][ReuseNext]_reuseVars /\ WF_reuseVars(CountedTick \/ FirstTickFault)

-----------------------------------------------------------------------------
\* Whatever the last program left in the pipeline, a run of a program without
\* loops ends: a pipeline that starts halted, or with the instructions of
\* another program in its stages, does not wait or loop for ever.
EveryRunEnds == Running ~> status \in Ended

\* No memory access of the first two ticks of a run leaves the mapped memory.
FirstCyclesSafe == Running /\ ticks < 2 => ~SegFault(me, mem) /\ ~DataUnitFault
=============================================================================
