# RISC-V co-simulator: a TLA+ model

The repository runs a RISC-V RV32I program on two models of a processor, an
*interpreter* (`models/functional`) and a *cycle model* with a five-stage
pipeline (`models/pipeline`), has each write three traces (executed
instructions, register writes, memory writes), and compares the traces
(`co_simulator`). The program is sequential: nothing runs concurrently, nothing
is persisted but trace files. What is hard about it is, first, inside the
pipeline: up to five instructions are in flight, operands are taken from four
places, a load whose result is needed at once stalls part of the pipeline for a
tick, taken branches throw two instructions away, and exceptions leave the
pipeline from the middle of a tick. Second, what a call leaves behind when it
fails half-way or ends the process (mapped pages, stage registers, trace files,
open descriptors) is what the next call starts from.

This directory models both processor models, states that the cycle model
implements the interpreter and checks it with TLC over all small programs; models
the loader and the memory of a model, the trace files and the co-simulator over
sequences of programs with failures between any two steps; and proves with TLAPS,
for every program, memory and word size, the control properties of the pipeline,
that it implements the interpreter on programs without the patterns on which the
two are found to differ, that such programs pass the co-simulation, that a
readable verdict of "no difference" means equal machines, that a test compares
what its two runs traced, and that programs are loaded whole and their memory is
accounted for.

## Inventory

| component | state | operations | correct when |
|---|---|---|---|
| `PipelineModel` | program counter, four stage registers, enable flags, bypass selectors, saved operand, register file, memory, traces | `RunProgram`, `Run`, `Tick` (`DoMemory`, `DoExecute`, `DoDecode`, `DoFetch`, `HazardUnitTick`), `DoLastTicks` | instructions stay in program order, operands are current, a stall ends, traps end the run where the program does, traces are complete, and it does what the interpreter does |
| `ControlUnit`, ALU, `Cmp`, data memory unit, immediate extension block | none that outlives a tick | combinational | signals and results are those of RV32I |
| `FunctionalModel` | pc, registers, memory, traces | one handler per instruction | words stay in range, x0 is 0, every change is traced |
| `MMUFixedOffset` | mapped pages, allocated chunks | `Get*`, `Set*`, `AllocateMemory`, `AllocateStack`, `FreeMemory` | an access hits the pages of this program only |
| `TraceWriter`, `Runtime` | three streams, enable flag | open, trace, close | a record reaches the file before the effect it describes |
| `RV32ICoSimulator` | two models, trace directory | `TestProgram` = set up, run both, compare, tear down | the verdict is "equal" exactly when the traces are |
| `Elf32Loader` | ELF header and segments | `LoadElf32IntoMemory` | the image in memory is the one in the file |
| `utils/system`, `utils/file.h` | trace directory, files, descriptors | create, remove, `CompareTwoFiles` | a test finds new files, and two files compare equal only if they are |

Interaction is by direct calls. `CoSimulator` calls `RunProgram` of one model
after the other; each model calls the loader, then drives its own MMU and
register file; these call the `TraceWriter` singleton, whose files `CoSimulator`
compares at the end. Errors travel as C++ exceptions, failed `ASSERT`s
(which end the process in the default debug build) and SIGSEGV on unmapped pages.

Hazards (what is hard to test) are listed with their lines in `PROJECT.json`.

## Modules

| module | models |
|---|---|
| `RV32I` | words, instruction fields and immediates, byte memory, register file, trace records: what both models share |
| `ControlUnit` | control unit, immediate extension block, ALU, comparator, data memory unit modes |
| `PipelineModel` | the cycle model as a state machine, one step per tick |
| `FunctionalModel` | the interpreter, one step per instruction |
| `ProgramImages` | the programs, data memory and entry point that both run |
| `PipelineProperties` | what the cycle model must satisfy on its own |
| `TraceReplay` | what a trace says of registers and memory |
| `CycleRefinement` | `FunctionalModel` instantiated under a refinement mapping; the programs on which the models agree |
| `PipelineReuse` | `RunProgram` again on a cycle model that has run a program |
| `Loader` | `MMUFixedOffset`'s mapping and freeing, `Elf32Loader`, and `RunProgram`'s use of both over a sequence of calls |
| `TraceFiles` | the binary and readable formats of a record, `CompareTwoFiles` |
| `CoSimulator` | `RV32ICoSimulator` over sequences of tests, with the models' traces left open |
| `CoSimulation` | one test with the two models in it: both run the program, their files are compared; the interpreter's own properties |
| `Assembler`, `MCPipeline`, `MCRefinement`, `MCReuse`, `MCLoader`, `MCCoSimulator`, `MCCoSimulation` | instructions, images, traces and the sets of programs of the runs |
| `PipelineProofs`, `RefinementProofs`, `CoSimulationProofs`, `CoSimulatorProofs`, `LoaderProofs` | theorems about the modules they are named after |
| `AgreementProofs` | theorems about `CoSimulation` that need the refinement too: programs that pass |
| `MachineProofs` | lemmas about words, bytes, powers of two and traces that the proofs of the models share |
| `TraceFilesProofs` | lemmas about the two formats: what a file tells of the records in it |

### The cycle model

`PipelineModel.tla` has a variable for every piece of state that survives a
tick: `pc`, `de`, `ex`, `me`, `wb` are the current halves of the program counter
and the stage registers (fields named as in `stages_states.h`), `enabled` the
three enable flags, which only `HaltPipeline` and `RestartPipeline` write, and
always together; `hu_rs1`, `hu_rs2`, `must_take_halted_wb`, `halted_wb` and
`trace_prev_pc` are the members of those names. The next halves, `pc_r`,
`pc_disp` and `bp_mem` are recomputed by each tick before they are read and are
operators. `status` is `running`, or `draining` between the exception of the
control unit and the end of `DoLastTicks`, or how the run ended: `ECALL` and
`EBREAK` are return codes, `exception` any other C++ exception, `segv` and
`abort` the end of the process.

| action | code |
|---|---|
| `RunProgram` | `RunProgram` and `Run` up to the loop |
| `TickAdvance`, `TickRedirect`, `TickHalted` | a whole `Tick` with the pipeline running, behind a taken branch or jump, and halted |
| `TickTrap`, `DoLastTicks` | a `Tick` whose instruction in decode throws, and the catch blocks of `DoDecode` |
| `TickMemoryFault`, `TickFetchFault` | a `Tick` that ends in `DoMemory` or `DoFetch` |

### The interpreter

`FunctionalModel.tla` has one action per group of handlers. The decoder's
`UNKNOWN`, `UNREACHABLE` and `ASSERT` are `HandleUnknown`; an unmapped access is
`HandleSegFault`. The `catch` of `AccessViolationException` is dead: nothing
throws it.

### Running again

`PipelineReuse` adds `ticks_counter` (up to 2) to the cycle model. `RunAnother` is
`RunProgram` on a used model: `SetPC`, which does nothing while the pipeline is
halted, `InitSP`, new trace files, and everything else as the last program left
it; after an exception its pages too. `FirstTickFault` is the read that the
data memory unit does in the first two ticks at the address the workaround in
`Run` gives it.

### The loader

`Loader` has the mapped bytes (`mem`), `allocated_chunks_`, the program and the
segment the loop is at, and where `RunProgram` stands.

| action | code |
|---|---|
| `Open`, `OpenFails` | constructor of `Elf32Loader`, `ReadElfHeader`, `ReadProgramHeaderTable` |
| `SkipSegment`, `LoadSegment` | a whole turn of the loop of `LoadElf32IntoMemory`: `AllocateMemory`, `pread`, `Memset` |
| `SegmentOutOfMemory`, `SegmentNotMapped`, `SegmentNotRead`, `SegmentNotCleared` | a turn that ends in `OutOfMemoryException` (which nothing catches), a failed `mmap`, a short `pread`, or a `Memset` outside the mapping |
| `InitSP`, `InitSPFails` | `AllocateStack`, and its exception, thrown outside the `try` |
| `Store`, `Return`, `Throw` | `Run`: a write to memory, a return followed by `FreeMemory`, an exception |
| `NewModel` | the destructor and another constructor |

### The co-simulator

`CoSimulator` has `TestProgram` as four kinds of step: `SetupBeforeTest`; a run
of each model with its `EnableTraces` (`RunModel`, `LoadFails`, or `RunAborts` for an
exception or the end of the process); `CompareTraces`; `TeardownAfterTest`. Each
has its failures: `SetupFails` after any number of files, `CompareThrows` when
a file cannot be opened, a `RemoveDirectory` that leaves any of the files. The
tests of a process share the `TraceWriter` and the descriptors that
`CompareTwoFiles` leaves open when sizes differ (`leaked`); `NewProcess` closes
them and finds the old files. A run traces any of a set of traces: which ones is the
subject of `CoSimulation`, which composes the interpreter (under its own
variables), the cycle model and the comparison.

### Abstractions

* An instruction is the record of its six bit fields, with a name for its
  opcode. A word is a number below `2 ^ (4 * ByteBits)`. The repository's machine
  is `ByteBits = 8`; TLC's own integers have 32 bits, so the runs use 7. Every
  wrap-around, carry and sign bit is still there, one bit lower per byte. The
  immediates keep their width.
* Code and data are separate functions, so programs that read or write their own
  code are outside the model. Data memory is the set of mapped bytes; an access
  outside ends the run.
* In the processor models a trace is a sequence of records. `TraceFiles` turns
  it into bytes: binary words byte by byte, readable numbers digit by digit without
  leading zeros; each literal of a readable line is one byte of its own. A byte of
  a word has `ByteBits` bits, one of an instruction always eight.
* `Loader` scales the address space: `Space` bytes instead of `2^32`, with
  `uint32_t` sums modulo `Space` and `size_t` sums unbounded, as in the code.
  Page protection is left out: `AllocateMemory` always adds `PROT_WRITE`, so
  every page can be written and, on the host, read.
* Whether system calls succeed is open wherever the code looks at their result;
  reads of files and writes of traces do not fail.
* A debug build is modelled, which is the default: a failed `ASSERT` ends the
  process.
* Shifts by 32 or more are undefined in C++; the model takes what the
  build's shift instructions do (five low bits).

Both processor models were compared with the built binaries on several hundred random
programs, faults and exceptions included: traces and outcomes were the same.

## Runs

### The processor models

These runs use `Programs` as an explicit set of images of nine words: the generated
code, `nop; ecall`, and zeros as in the rest of a page. A run is
deterministic once `RunProgram` has chosen the image, so the number of states is
the number of ticks of all programs together. Programs end, so these cfgs do not
check for deadlock.

| run | programs | shows |
|---|---|---|
| `hazards` | all 10000 programs of 4 instructions over `HazardCode`, and all of 2 over it and `FaultCode` | `TypeOK`, `InFlightInOrder`, `SavedOperandCurrent`, `HaltedByLoad`, `TracesReplay`, `StallsOneTick` |
| `agree` | `auipc x5` and 4 instructions over `AgreeCode`, or 2 and a trap, those that are `WellScheduled`; every shared instruction on 42 pairs of operands | `ImplementsFunctional`, `ExceptionsInOrder`, `OperandsCurrent`, `Faultless` |
| `reuse` | any sequence of programs of 3 (a load, a use, a store, a branch, traps), of 2 (jumps, some of which fault) and a short one | `EveryRunEnds` |
| `cosimulation` | programs of 3 over `HazardCode` and the instructions of the disagreements, of 2 over these and `FaultCode`; one instruction of every opcode and `funct3` with five values of `funct7` | `InterpreterTypeOK`, `InterpreterTracesReplay`, `SameTracesSameMachine`, `NoDifferenceSameMachine`, `WellScheduledPasses`, `WellScheduledAgree` |

Four instructions are enough for every combination of a stall: the longest
pattern in the pipeline is a writer in write-back, a load in memory, the
dependent instruction in execute and the instruction in decode. `HazardCode`
has two registers that are written by loads, ALU operations, a jump and LUI and
read by all, so that each bypass, both bypasses at once, and a stall with and
without a saved operand occur for each operand. Data memory is the eight bytes
around the initial stack pointer, in which the aligned word and the misaligned
one the code's stack pointer names are both mapped. The programs store to either
and load the aligned one. `TracesReplay` and `InterpreterTracesReplay` say byte by byte what
overlapping stores leave in memory, independently of `SetBytes`.

`Faultless` says of the programs of `agree` that every access is mapped, every
run ends with `ECALL` or `EBREAK`, and jumps land on code: neither the padding
behind an image nor an encoding that only the interpreter rejects is executed. It is
a hypothesis of the theorem about the refinement below, and so is
`WellScheduled`, which an `ASSUME` of `MCRefinement` checks for these programs
together with `BranchesAligned`. `ExceptionsInOrder`, which the run `exceptions`
refutes, holds of them: the trap right behind an instruction that reads the
register written in front of it waits for no load.

`SameTracesSameMachine` and `NoDifferenceSameMachine` are about all programs,
those on which the models differ included: whatever they do, if the records, or
the three readable files, agree, so do the machines. `WellScheduledPasses` is the converse for programs without the known
patterns; on the third set of programs it is about the two decoders.
`WellScheduledAgree` adds what no trace shows, the return code. A program
that one of the models refuses has no verdict. The interpreter's own properties
are checked in the same run, for every program it runs.

Fairness: `Run` is a loop in a single thread that nothing else can hold up, so a
tick that can be taken is taken: weak fairness of the ticks in `reuse`. Whether
`RunProgram` is called again is up to the caller. The program sets of `reuse` have
no backward jumps and nothing that counts from one program to the next.

### Memory and loading

| run | programs | shows |
|---|---|---|
| `loader` | sequences of six files: text and data that end inside pages, zero and empty segments, a note, one behind the stack, one cut short, one that is refused; and 112 files with one segment at an end of the memory or the stack, with sizes before, at and behind the end of a page and of the space | `Accounted`, `FreedOnReturn`, `SegmentsMapped`, `ImageFaithful` |

The address space has 64 bytes in pages of 4, the stack three pages, which leaves
the code's proportions: an unmapped page above the stack, room below, and a
`Size` that is one short of the space. `FewChunks` bounds the chunks that failed
calls have left: `MaxChunks = 5` are two of a failed program under the three of a
complete one. The programs of the second set each have the memory for themselves: where in
the address space a segment lies does not depend on earlier calls. `ImageFaithful`
is stated for programs whose loadable segments are `PageDisjoint`, as linkers make
them; otherwise `MAP_FIXED` replaces what is in the shared page. There is always a step
(`NewModel`), so deadlock is checked.

### The co-simulator

| run | traces | shows |
|---|---|---|
| `verdict` | five triples of traces that differ in a value behind a zero byte, in how digits are divided between two numbers, in length and in path | `TracesComplete`, `VerdictSound`, `ReadableVerdictExact`, `BinaryCountsReported` |

`MaxFds = 6` descriptors are enough for two tests that leak, after which each of
the `open` calls in turn is the one that fails: creating a file, one of the three streams,
the program, the comparison. `TracesComplete` holds although `RunTest` ignores the
result of `EnableTraces`: a process without a descriptor for a trace has none for
the program either, and the test ends as `FUNCTIONAL_FAILED`. It holds although
only the first trace is opened for appending because `CreateNewFile` removes
what is left. Deadlock is checked; a new process can always be started.

### Disagreements

Six runs end in a counterexample. Each is a pattern on which the code does not
do what its comments or its documentation say; all were reproduced with the
binaries.

| run | pattern |
|---|---|
| `stale_operand` | `lw x1`; an instruction that reads `x1`; an instruction without that operand (`lui`, `jal`, ...) |
| `exceptions` | a taken branch or jump; `ecall` |
| `differences` | `sh`; `lb` or `lh` of a negative value; `jalr` with `rd = rs1` (interpreter): one program in which each makes one of the three traces differ |
| `first_cycles` | a program ends with a load in the memory stage; another program on the same model, without that page |
| `binary_verdict` | traces of equal length that differ behind a zero byte, in the (default) binary format |
| `non_loadable` | a `PT_NOTE` segment in a page of the text |

`ExceptionsInOrder` has two more causes, which `ExceptionPrograms` also holds: `lw x1`, an
instruction that reads `x1` and `ecall`, where the instruction in the middle is
finished with the address of the load as its operand and is missing from the
execution trace; and `lw x1` from a misaligned address and `jalr` through
`x1`, which raises `AlignmentException` from the address of the load.

`CycleRefinement!WellScheduled` excludes exactly the patterns of the first three runs
and these two, `fence` with `rd # x0`, and code at address 0, which
`TraceExecutedInstruction` and a cleared stage register use for "none". The `agree`
run shows that on the remaining programs of its size there is no other
disagreement, and `CycleModelRefines` that there is none at all in runs without faults.

Two further observations contradict no comment and have no run. The cycle model
fetches behind a jump: one in the last mapped word ends it with SIGSEGV, while the
interpreter follows the jump (the images of the runs end with padding, as pages
do). And a load that fails after a segment, or an exception, leaves pages mapped while
the next program runs on the same model, until that one returns
(`FreedOnReturn`).

## Refinement

An instruction takes effect, in the abstract state, when it leaves execute.
`AbsRegs`, `AbsMem` and the two write traces therefore include what the memory
and write-back stages will still do, `AbsPC` is the oldest instruction that has
not left execute, and `exec_trace` maps to itself. `TickRedirect` and
`TickAdvance` with an instruction in execute map to the interpreter's step for
it, `DoLastTicks` to its `ECALL` or `EBREAK`; bubbles and stalls are stuttering.

## Proofs

All theorems are for every value of the constants, under the assumptions named
with each. The provers know nothing about powers, so `PowersAssumption` states the
arithmetic the proofs use: `2 ^ 0 = 1`, `2 ^ (n + 1) = 2 * 2 ^ n` up to the word
size, the same for bytes, and four bytes make a word. It holds for every
`ByteBits`, and TLC evaluates it. `WordSizeAssumption` says that a word has at least
12 bits, which follows from `ByteBitsAssumption`, and at most 32: it is a
`uint32_t`, and eight hexadecimal digits hold it. `EntryAssumption` says that the entry
point is a word.

### The machine

`MachineProofs.tla` has what both models rest on. The bit operators and the bytes of
a word are sums over sets, folded in an order that `CHOOSE` leaves open. `SumSetTotal`
relates such a fold to a function over the subsets that takes any element out
first (`TotalTakes`), so the order does not matter and a sum can be split off at
its highest bit (`FromBitsType`) or byte (`GetBytesType`). The library's
induction rules take an operator, which the provers cannot instantiate; `Induction` says
the same of a set of numbers, from its least element (`LeastElement`). From this follow the ranges of every operator:
`SumType`, `BitwiseType`, `ShiftType`, `ImmediateType`, `LoadedType`, `SetBytesType`.

### The pipeline

`PipelineProofs.tla`, for every `Programs`, `DataMem`, `Entry` and `ByteBits`, from
the assumptions in `RV32I` and `ProgramImages` (a byte has at least six bits;
images consist of instructions at aligned addresses; memory holds bytes). Only the
proof of `TypesCorrect` expands the ALU and the immediates; the other results
hold whatever these compute.

| theorem | says |
|---|---|
| `ControlTypeCorrect` | `Spec => []ControlTypeOK` |
| `ProgramOrder` | `Spec => []InFlightInOrder` |
| `StallReason` | `Spec => []HaltedByLoad` |
| `StallEnds` | `Spec => StallsOneTick` |
| `SavedOperand` | `Spec => []SavedOperandCurrent` |
| `OperandsCorrect` | if every program is `StallSafe`, `Spec => []OperandsCurrent` |
| `TracesTellMachine` | `Spec => []TracesReplay` |
| `TypesCorrect` | `Spec => []TypeOK` |

The inductive invariants, each preserved with one step per action:

* `TypeInv`: types, that the image is one of the programs, that nothing is in
  flight before a run, that the latched signals belong to the latched
  instruction, and that the pipeline drains only behind an instruction the
  control unit refused. `InFlightInOrder` is inductive on top of it: a tick that
  advances moves `pc` to `decode` and `decode` to `execute`, one that is halted
  moves nothing, one that redirects empties both.
* `StallInv` adds `Conflict`, needed because `HaltedByLoad` says nothing of the
  selectors: while the pipeline is halted, they are the ones the instruction *in
  execute* asks for, and nothing has been saved. It holds in a halted tick
  because the tick before it advanced, so that the type the hazard unit used was
  that instruction's; it is what makes the saved operand the right one. A halted
  tick puts a bubble into the memory stage, which conflicts with nothing, so the
  next one is never halted.
* `OperandInv` adds that `x0` is 0 and `BehindLoad`: in a halted pipeline the
  latched operands are those of the register file and the load is, in the image,
  right in front of the instruction in execute. With `InFlightInOrder` this ties
  the three instructions of the `stale_operand` pattern to the image, so that
  `StallSafe`, a condition on programs, excludes it. Together with the run
  `stale_operand` the theorem shows that this pattern is the only way the bypass
  network goes wrong.
* `ReplayInv` adds to `TracesReplay` that `x0` is 0, that a trace is a sequence,
  and that no store is traced before a run. The lemmas of `MachineProofs` say
  that a register write, or a store, and its record together keep a replay: the
  new record is the newest of the places it covers and of no other
  (`NewestAfterAppend`).
* `WordInv` adds to `TypeInv` and `TypeOK` that the latched ALU operation is one of
  the ALU's and that all records are made of words (`TraceRecords`): nothing the
  stages hand on, from operands through results to the register file and the
  memory, leaves its width.

### The refinement

`RefinementProofs.tla`, from the same assumptions.

| theorem | says |
|---|---|
| `CycleModelRefines` | if every program is `WellScheduled`, `Spec /\ []Faultless => ImplementsFunctional` |
| `ExceptionsOrdered` | if every program is `TrapSafe` and `BranchesAligned`, `Spec => ExceptionsInOrder` |

`Faultless` is a hypothesis because the models do end differently on faults: the
cycle model meets them in another stage, after younger instructions have been
fetched and traced. Where execution goes depends on data, so no condition on
the image could replace it; `agree` shows that it holds in runs, and
`WellScheduledFaultless` below derives it from the run of the interpreter.

`ExceptionsOrdered` needs no `Faultless`: whatever an access does, an exception of
the control unit or of the fetch overtakes an older instruction only in the three
ways of the run `exceptions`. `OrderInv` is `StallInv`, `BehindLoad` and `Decoded`. In
a halted tick the instruction in execute is, in the image, right behind the load
it waits for, and the one in decode behind it, so `TrapSafe` says that neither
raises one. What remains is the alignment check of `DoFetch`, which a halted tick
does too (`HaltedFetchAligned`): an address that is a sum of aligned ones modulo a
power of two is aligned.

`RefinementInv` is `OperandInv` and `ReplayInv` with three more parts. `Decoded`: the
signals in execute are those of the instruction there, which the control unit
has accepted. `TracedOnce`: the instruction in execute is not taken for the one
traced last, since its location is not that of its predecessor, nor 0. `Empty`:
nothing is in flight before a run. On top of it:

1. `Same...`: both models use the same words, immediates, memory and registers.
2. `StageMoves`: a tick that moves execute on changes the abstract registers,
   memory and traces by what the instruction there will write and nothing else
   (`Delivered`, `DeliveredFields`); `Operands`: it computes this from the
   abstract registers, which is `OperandsCurrent`.
3. One lemma per kind of instruction, `LUIStep` to `FENCEStep`: what it delivers
   and where `PCNext` leads is what its handler does. `SameOperation` and
   `SameComparison` take the ALU and the comparator apart by `funct3` and `funct7`.
4. One lemma per action, `AdvanceStep` to `LastTicksStep`: a tick with an
   instruction in execute is that instruction's step, a bubble (`BubbleStep`) and a halted
   tick change nothing, a trap is in order (`TrapInOrder`, from `TrapSafe`) and
   takes effect when the pipeline has drained. `StepSimulation` puts them together.

### The co-simulation

`CoSimulationProofs.tla` and `AgreementProofs.tla`, from the same assumptions.

| theorem | says |
|---|---|
| `InterpreterTypes` | `TestSpec => []InterpreterTypeOK` |
| `InterpreterTraced` | `TestSpec => []InterpreterTracesReplay` |
| `TracesDecide` | `TestSpec => []SameTracesSameMachine` |
| `ReadableVerdictDecides` | `TestSpec => []NoDifferenceSameMachine` |
| `WellScheduledProgramsPass` | `TestSpec => []WellScheduledPasses` |
| `WellScheduledProgramsAgree` | `TestSpec => []WellScheduledAgree` |
| `WellScheduledFaultless` | the cycle model is `Faultless` on a `WellScheduled` program that the interpreter has run to its end, until it ends otherwise than by a trap |

The first four are about all programs. `TracesDecide` rests on the replay of both
models and on the fact that a trace replays to one machine only
(`RegReplayUnique`, `MemReplayUnique`): two models whose records are equal have equal
registers and memories. This is what makes a comparison of traces a comparison
of processors. `ReadableVerdictDecides` adds the files: the records of both models
are of the types that the writer can print (`TraceRecords`, `InterpreterRecords`),
so equal readable files have equal records in them (`ReadableFilesExact`). It needs
the types of both models, which is why those are proved first.

The last three say that the co-simulation has no false alarms outside the
patterns of the findings. They relate the end of one run to the end of another, so
the interpreter's run is kept as a history:

1. `Executes` is one step of a machine, whatever it is part of. `InterpreterExecutes`:
   each action of the interpreter is one; `CycleExecutes`: so is each step of the
   abstract state of the cycle model; `Deterministic`: a state has one successor.
2. `HistoryInv`: the interpreter has come to its state along a `Path`, a function
   from the number of executed instructions to machines.
3. `Follows`: the abstract state of the cycle model is on this path. It stays
   there because the path goes on where the machine has not ended
   (`HistoryGoesOn`) and steps are deterministic.
4. `FaultFree` need not be assumed: the next instruction in the cycle model is the next
   one of the history, which the interpreter has executed, so that its access is
   mapped and its encoding is accepted (`NoFaultAhead`, `FaultlessAlong`). So the
   hypothesis of `StepSimulation` follows from the invariant itself.
5. `AgreeAtTheEnd`: an ended machine on the path is at its end (`HistoryEnds`).

What is left to `Unbroken` is a fetch that faults two words behind the last instruction
executed, which the interpreter does not do.

`CoSimulatorProofs.tla`, for every `Traces` and `MaxFds`, from `TracesAssumption` (a
trace is a sequence of records of its level).

| theorem | says |
|---|---|
| `TracesAreComplete` | `Spec => []TracesComplete` |
| `VerdictIsSound` | `Spec => []VerdictSound` |
| `ReadableVerdictIsExact` | `Spec => []ReadableVerdictExact` |
| `BinaryCountsAreReported` | `Spec => []BinaryCountsReported` |

The invariant behind `TracesAreComplete` relates the six files, the streams of
`TraceWriter` and the free descriptors at each point between set-up and
comparison: after set-up all files are new and empty; a run whose streams could not all
be opened has no descriptor for the program either and never reaches the
comparison.

The last two rest on `TraceFilesProofs.tla`. A file is a fold over its records, and
`FlattenInjective` says when it can be taken apart again: every record begins with a
byte of a set of which it holds no other (`Headed`, `UniqueSplit`). A
readable record has this form (`FramedHeaded`): two runs of digits between
literals that are no digits (`FramedInjective`), and numbers without leading zeros
tell their value (`HexInjective`, `WordDigitsInjective`, `InstrDigitsInjective`). A
binary record has a fixed length for its level (`BinaryRecordLength`), and the
length of a file is a multiple of it (`FlattenLength`); that its bytes do not
count is the finding of `binary_verdict`.

### The loader

`LoaderProofs.tla`, for every `Space`, `PageSize`, `StackPages` and `Elfs`, from
`SpaceAssumption` (the space is a number of pages and holds the stack and two
more) and `ElfsAssumption` (no segment has more bytes in the file than in memory).

| theorem | says |
|---|---|
| `MemoryAccounted` | `Spec => []Accounted` |
| `ReturnFrees` | `Spec => []FreedOnReturn` |
| `SegmentsAreMapped` | `Spec => []SegmentsMapped` |
| `ImageIsFaithful` | if `NotesApart` holds of every program, `Spec => []ImageFaithful` |

`LoaderInv` adds two parts to these. `LoadedMapped` generalises `SegmentsMapped`
from the end of the loop to the segments it has passed. `MemoryInv` has that the
last byte of the address space is never mapped, which the last theorem rests on:
`vaddr + file_size` wraps, so that `Memset` clears the wrong place, only if the
copied bytes reach that byte (`LoadedSegmentMapped`). It holds because
`AllocateMemory` keeps every chunk below `Size` and the stack ends there
(`AllocatedBounds`, `StackBounds`).

`ImageIsFaithful` generalises `ImageFaithful` to the segments the loop has passed: mapping
another segment with `MAP_FIXED` replaces whole pages, which are not those of a
segment that shares no page with it, and in a `PageDisjoint` program the stack
overlaps none. `NotesApart` excludes the pattern of the
`non_loadable` run; an `ASSUME` of `MCLoader` checks it for the programs of `loader`.

### Only model-checked

* `EveryRunEnds`: liveness.
* `Faultless` as an invariant of the programs of `agree`: whether a program has faults
  depends on what it computes, so no theorem about all programs can say so. What
  can be said is `WellScheduledFaultless`.
* The cycle model on the second and later programs (`PipelineReuse`): the theorems
  are about the first program of a model.

Six properties are stated to be violated; of these, `OperandsCurrent`,
`ExceptionsInOrder` and `ImageFaithful` are proved for the programs without the pattern.

## Not modelled

* Programs that read or write their own code.
* Where the host and the kernel place mappings: the model's reservation of the
  address space is given back at once, so other mappings of the process may
  come to lie in it.
* Failing writes of traces (a full disk), after which no property of the verdict
  can hold. One process runs at a time in a working directory.
* Command-line programs, printing, the text of result codes and the parsing of
  ELF headers: pure I/O. Tests and example programs are not part of the system.

## What could follow

1. The refinement with faults: the cycle model may stop before the interpreter
   does, so its traces are prefixes.
2. The control invariants for `PipelineReuse`, where the stages are not empty when
   a run begins.
