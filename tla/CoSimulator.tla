----------------------------- MODULE CoSimulator -----------------------------
(***************************************************************************)
(* RV32ICoSimulator: TestProgram sets up the trace files, runs the program *)
(* on the interpreter and on the cycle model, compares the traces and      *)
(* tears down.  Tests follow one another in a process, with exceptions     *)
(* that leave a test in the middle, processes that end in the middle of a  *)
(* run, system calls that fail, and file descriptors that run out.         *)
(*                                                                         *)
(* What the two models do is left open here: a run hands any of Traces to  *)
(* the trace writer and ends in any way RunProgram can end.  The models    *)
(* themselves take their place in CoSimulation.                            *)
(***************************************************************************)
EXTENDS TraceFiles, TLC

CONSTANTS
  Traces,   \* what a run may trace: functions from Levels to sequences of records
  MaxFds    \* file descriptors that a fresh process can open

ASSUME MaxFdsAssumption == MaxFds \in Nat

ASSUME TracesAssumption == \A t \in Traces, l \in Levels : t[l] \in Seq(Records[l])

VARIABLES
  step,          \* where TestProgram is; "idle" outside it, "dead" without a process
  readable,      \* readable_traces_
  should_delete, \* should_delete_traces_
  dir,           \* the directory of the traces exists
  files,         \* the trace files in it and their bytes
  streams,       \* the model whose file the writer's stream of a level is open on
  must_trace,    \* must_trace_
  leaked,        \* descriptors that are open and that nothing will close
  did,           \* what each model has handed to the writer in this test
  result         \* the code that RunTest returned last

vars == <<step, readable, should_delete, dir, files, streams, must_trace,
          leaked, did, result>>

object == <<readable, should_delete>>
writer == <<streams, must_trace>>

Models == {"functional", "pipeline"}

\* FunctionalTraces and PipelineTraces, in the order SetupFiles creates them.
FileNames == <<<<"functional", "MMU">>, <<"functional", "REG_FILE">>,
               <<"functional", "DECODER">>, <<"pipeline", "MMU">>,
               <<"pipeline", "REG_FILE">>, <<"pipeline", "DECODER">>>>

Nothing == [l \in Levels |-> <<>>]
Closed  == [l \in Levels |-> "closed"]

NumOpen(s) == Cardinality({l \in Levels : s[l] # "closed"})
FreeFds    == MaxFds - leaked - NumOpen(streams)

Init ==
  /\ step = "idle"
  /\ readable = FALSE /\ should_delete = TRUE
  /\ dir = FALSE /\ files = <<>>
  /\ streams = Closed /\ must_trace = FALSE
  /\ leaked = 0
  /\ did = [m \in Models |-> Nothing]
  /\ result = 0

-----------------------------------------------------------------------------
(* Between tests *)

MakeTracesReadable ==
  /\ step = "idle"
  /\ readable' \in BOOLEAN
  /\ UNCHANGED <<step, should_delete, dir, files, writer, leaked, did, result>>

ShouldDeleteTraces ==
  /\ step = "idle"
  /\ should_delete' \in BOOLEAN
  /\ UNCHANGED <<step, readable, dir, files, writer, leaked, did, result>>

\* The next test is given a co-simulator of its own.
NewObject ==
  /\ step = "idle"
  /\ readable' = FALSE /\ should_delete' = TRUE
  /\ UNCHANGED <<step, dir, files, writer, leaked, did, result>>

\* The program is started again: only the files are left of what was before.
NewProcess ==
  /\ step \in {"idle", "dead"}
  /\ step' = "idle"
  /\ readable' = FALSE /\ should_delete' = TRUE
  /\ streams' = Closed /\ must_trace' = FALSE
  /\ leaked' = 0
  /\ UNCHANGED <<dir, files, did, result>>

-----------------------------------------------------------------------------
(* SetupBeforeTest *)

\* Mutant: a file that is there is kept.
CreateFileIfNotExists(name) == IF name \in DOMAIN files THEN files[name] ELSE <<>>

\* What is in a file after CreateNewFile, which removes the one that is there.
CreateNewFile(name) == <<>>

\* The files once SetupFiles has created the first n.
SetupFiles(n) ==
  LET created == {FileNames[k] : k \in 1 .. n}
  IN  [f \in created \cup DOMAIN files |->
         IF f \in created THEN CreateNewFile(f) ELSE files[f]]

SetupBeforeTest ==
  /\ step = "idle" /\ FreeFds > 0
  /\ step' = "functional"
  /\ dir' = TRUE
  /\ files' = SetupFiles(6)
  /\ did' = [m \in Models |-> Nothing]
  /\ UNCHANGED <<object, writer, leaked, result>>

\* TestProgram returns SETUP_FAIL: the directory, or one of the files, cannot
\* be created, or an old file cannot be removed.
SetupFails ==
  /\ step = "idle"
  /\ \/ ~dir /\ UNCHANGED <<dir, files>>
     \/ /\ dir' = TRUE
        /\ \E n \in 0 .. 5, removed \in BOOLEAN :
             LET name == FileNames[n + 1]
             IN  /\ n > 0 => FreeFds > 0
                 /\ files' = IF removed
                               THEN [f \in DOMAIN SetupFiles(n) \ {name} |-> SetupFiles(n)[f]]
                               ELSE SetupFiles(n)
  /\ result' = -1
  /\ UNCHANGED <<step, object, writer, leaked, did>>

-----------------------------------------------------------------------------
(* RunTest *)

\* Mutant: a stream that is open keeps its file.
OpenTraceFileOnce(s, l, m) ==
  IF s[l] = "closed" /\ leaked + NumOpen(s) < MaxFds THEN [s EXCEPT ![l] = m] ELSE s

\* The streams after OpenTraceFile for the file of model m: open closes the
\* level's stream, and needs a free descriptor.
OpenTraceFile(s, l, m) ==
  LET closed == [s EXCEPT ![l] = "closed"]
  IN  IF leaked + NumOpen(closed) < MaxFds THEN [s EXCEPT ![l] = m] ELSE closed

\* The streams after EnableTraces, whose result RunTest ignores.
Enabled(m) ==
  OpenTraceFile(OpenTraceFile(OpenTraceFile(streams, "MMU", m), "REG_FILE", m), "DECODER", m)

\* TraceFilesModes gives a mode to the first level only: the others truncate.
Truncated(m) ==
  [f \in DOMAIN files |->
     IF f[1] = m /\ f[2] # "MMU" /\ Enabled(m)[f[2]] = m THEN <<>> ELSE files[f]]

\* The files after the writer has been handed the traces t of model m.
Written(m, t) ==
  [f \in DOMAIN files |->
     IF f[1] = m /\ Enabled(m)[f[2]] = m
       THEN Truncated(m)[f] \o Encoded(readable, f[2], t[f[2]])
       ELSE files[f]]

\* The loader opens the program while the streams are open.
CanLoad(m) == leaked + NumOpen(Enabled(m)) < MaxFds

EnableTraces(m) == must_trace' = TRUE /\ streams' = Enabled(m)

Failed(m) == IF m = "functional" THEN 1 ELSE 2   \* FUNCTIONAL_FAILED, PIPELINE_FAILED

\* RunProgram returns ECALL or EBREAK.
RunModel(m) ==
  /\ step = m /\ CanLoad(m)
  /\ EnableTraces(m)
  /\ \E t \in Traces : files' = Written(m, t) /\ did' = [did EXCEPT ![m] = t]
  /\ step' = IF m = "functional" THEN "pipeline" ELSE "compare"
  /\ UNCHANGED <<object, dir, leaked, result>>

\* RunProgram returns FILE_OPEN_ERROR, ELF_LOAD_ERROR or MMU_ALLOC_ERROR: the
\* program is not loaded and nothing is traced.
LoadFails(m) ==
  /\ step = m
  /\ EnableTraces(m)
  /\ files' = Truncated(m)
  /\ step' = "teardown" /\ result' = Failed(m)
  /\ UNCHANGED <<object, dir, leaked, did>>

\* An exception that RunProgram does not catch leaves TestProgram, or the
\* process ends with a failed assertion or a segmentation fault.
RunAborts(m) ==
  /\ step = m /\ CanLoad(m)
  /\ EnableTraces(m)
  /\ \E t \in Traces : files' = Written(m, t) /\ did' = [did EXCEPT ![m] = t]
  /\ step' \in {"idle", "dead"}
  /\ UNCHANGED <<object, dir, leaked, result>>

-----------------------------------------------------------------------------
(* CompareTraces *)

File(m, l)  == files[<<m, l>>]
Mismatch(l) == CompareTwoFiles(File("functional", l), File("pipeline", l))

\* The compiler chooses the order of the three comparisons.
Orders == {o \in [1 .. 3 -> Levels] : \A j, k \in 1 .. 3 : o[j] = o[k] => j = k}

\* Of the first n comparisons, those that find sizes different return without
\* closing the second file.
LeakedBy(order, n) ==
  Cardinality({k \in 1 .. n : Len(File("functional", order[k]))
                                # Len(File("pipeline", order[k]))})

Code(l) == CASE l = "REG_FILE" -> 4 [] l = "MMU" -> 8 [] l = "DECODER" -> 16
CodeOf(mismatches) == MapThenSumSet(Code, mismatches)

CompareTraces ==
  /\ step = "compare"
  /\ \E order \in Orders : \A k \in 1 .. 3 : LeakedBy(order, k - 1) < FreeFds
  /\ leaked' = leaked + LeakedBy(LevelOrder, 3)
  /\ result' = CodeOf({l \in Levels : Mismatch(l)})
  /\ step' = "teardown"
  /\ UNCHANGED <<object, dir, files, writer, did>>

\* Comparison n + 1 cannot open a file: FileOpenException leaves TestProgram.
CompareThrows ==
  /\ step = "compare"
  /\ \E order \in Orders, n \in 0 .. 2 :
       /\ LeakedBy(order, n) = FreeFds
       /\ \A k \in 1 .. n : LeakedBy(order, k - 1) < FreeFds
       /\ leaked' = leaked + LeakedBy(order, n)
  /\ step' = "idle"
  /\ UNCHANGED <<object, dir, files, writer, did, result>>

-----------------------------------------------------------------------------
(* TeardownAfterTest *)

\* RemoveDirectory goes on when it cannot remove a file.
RemoveDirectory ==
  \E kept \in SUBSET DOMAIN files :
    /\ files' = [f \in kept |-> files[f]]
    /\ dir' \in BOOLEAN /\ (kept # {} => dir')

TeardownAfterTest ==
  /\ step = "teardown"
  /\ streams' = Closed /\ must_trace' = FALSE
  /\ \/ should_delete /\ RemoveDirectory
     \/ ~should_delete /\ UNCHANGED <<dir, files>>
  /\ step' = "idle"
  /\ UNCHANGED <<object, leaked, did, result>>

-----------------------------------------------------------------------------
Next ==
  \/ MakeTracesReadable \/ ShouldDeleteTraces \/ NewObject \/ NewProcess
  \/ SetupBeforeTest \/ SetupFails
  \/ \E m \in Models : RunModel(m) \/ LoadFails(m) \/ RunAborts(m)
  \/ CompareTraces \/ CompareThrows
  \/ TeardownAfterTest

Spec == Init /\ [][Next]_vars

-----------------------------------------------------------------------------
(* Properties *)

\* The levels on which the two models differed in this test.
Differences == {l \in Levels : did["functional"][l] # did["pipeline"][l]}

Compared == step = "teardown" /\ result \in {0, 4, 8, 12, 16, 20, 24, 28}

\* When the traces are compared, each of the six files holds exactly what its
\* model handed to the writer in this test: nothing of an earlier test that
\* was left by an exception, a dead process or a failed RemoveDirectory, and
\* nothing missing because EnableTraces ran out of descriptors unnoticed.
TracesComplete ==
  step = "compare" =>
    \A m \in Models, l \in Levels : File(m, l) = Encoded(readable, l, did[m][l])

\* A difference that TestProgram reports is there, in either format: no
\* leftover of an earlier test and no lost stream makes it report one.
VerdictSound ==
  Compared => \E reported \in SUBSET Differences : result = CodeOf(reported)

\* With readable traces, TestProgram's verdict names exactly the levels on
\* which the models differed: no leftover of an earlier test, lost stream or
\* coincidence of two texts makes it miss a difference or report one.
ReadableVerdictExact ==
  Compared /\ readable => result = CodeOf(Differences)

\* With binary traces, the verdict reports at least every difference in the
\* number of records, whatever zero bytes the records hold.
BinaryCountsReported ==
  Compared /\ ~readable =>
    \E reported \in SUBSET Levels :
      /\ result = CodeOf(reported)
      /\ \A l \in Levels : Len(did["functional"][l]) # Len(did["pipeline"][l])
                            => l \in reported

\* With binary traces, the verdict names exactly the levels on which the
\* models differed, as the comment on CompareTwoFiles has it.
BinaryVerdictExact ==
  Compared /\ ~readable => result = CodeOf(Differences)
=============================================================================
