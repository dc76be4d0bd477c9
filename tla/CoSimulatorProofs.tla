------------------------- MODULE CoSimulatorProofs -------------------------
(***************************************************************************)
(* Theorems about CoSimulator, for every set of traces and every number of *)
(* file descriptors.  What the formats of the traces can tell apart is     *)
(* proved in TraceFilesProofs.                                             *)
(***************************************************************************)
EXTENDS CoSimulator, FiniteSetTheorems, TraceFilesProofs, TLAPS

-----------------------------------------------------------------------------
(* Descriptors *)

Streams == [Levels -> Models \cup {"closed"}]

\* The levels whose stream is open.
Open(s) == {l \in Levels : s[l] # "closed"}

\* The number of open streams is a number.
LEMMA NumOpenType == \A s : IsFiniteSet(Open(s)) /\ NumOpen(s) = Cardinality(Open(s)) /\ NumOpen(s) \in Nat
<1> SUFFICES ASSUME NEW s
             PROVE  IsFiniteSet(Open(s)) /\ NumOpen(s) = Cardinality(Open(s)) /\ NumOpen(s) \in Nat
  OBVIOUS
<1>1. IsFiniteSet(Levels)
  <2>1. IsFiniteSet({}) /\ Levels = (({} \cup {"MMU"}) \cup {"REG_FILE"}) \cup {"DECODER"}
    BY FS_EmptySet DEF Levels
  <2>2. QED
    BY <2>1, FS_AddElement
<1>2. Open(s) \in SUBSET Levels
  BY DEF Open
<1>3. IsFiniteSet(Open(s))
  BY <1>1, <1>2, FS_Subset
<1>4. QED
  BY <1>3, FS_CardinalityType DEF NumOpen, Open

\* OpenTraceFile touches the stream of its level only.
LEMMA OpenTraceFileType ==
  ASSUME NEW s \in Streams, NEW l \in Levels, NEW m \in Models
  PROVE  /\ OpenTraceFile(s, l, m) \in Streams
         /\ OpenTraceFile(s, l, m)[l] \in {m, "closed"}
         /\ \A k \in Levels \ {l} : OpenTraceFile(s, l, m)[k] = s[k]
  BY DEF OpenTraceFile, Streams

\* A process that has used its descriptors up has used them up after another
\* OpenTraceFile, and an OpenTraceFile that fails leaves it in that state:
\* the stream it closes first is taken by nobody else.
LEMMA OpenTraceFileFull ==
  ASSUME NEW s \in Streams, NEW l \in Levels, NEW m \in Models, leaked \in Nat,
         \/ leaked + NumOpen(s) >= MaxFds
         \/ OpenTraceFile(s, l, m)[l] # m
  PROVE  leaked + NumOpen(OpenTraceFile(s, l, m)) >= MaxFds
<1> DEFINE closed == [s EXCEPT ![l] = "closed"]
           opened == [s EXCEPT ![l] = m]
<1>1. leaked \in Nat /\ MaxFds \in Nat
  BY MaxFdsAssumption
<1>2. NumOpen(s) \in Nat /\ NumOpen(closed) \in Nat /\ NumOpen(opened) \in Nat
  BY NumOpenType
<1>3. CASE leaked + NumOpen(closed) < MaxFds
  <2>1. OpenTraceFile(s, l, m) = opened /\ opened[l] = m
    BY <1>3 DEF OpenTraceFile, Streams
  <2>2. leaked + NumOpen(s) >= MaxFds
    BY <2>1
  <2>3. Open(s) \in SUBSET Open(opened)
    BY DEF Open, Streams, Models
  <2>4. NumOpen(s) <= NumOpen(opened)
    BY <2>3, NumOpenType, FS_Subset
  <2>5. QED
    BY <1>1, <1>2, <2>1, <2>2, <2>4
<1>4. CASE ~(leaked + NumOpen(closed) < MaxFds)
  <2>1. OpenTraceFile(s, l, m) = closed
    BY <1>4 DEF OpenTraceFile
  <2>2. QED
    BY <1>1, <1>2, <1>4, <2>1
<1>5. QED
  BY <1>3, <1>4

\* EnableTraces whose result nobody looks at: where a descriptor is left for
\* the program, all three streams are open on the files of the model.
LEMMA EnabledComplete ==
  ASSUME NEW m \in Models, streams \in Streams, leaked \in Nat
  PROVE  /\ Enabled(m) \in Streams
         /\ CanLoad(m) => \A l \in Levels : Enabled(m)[l] = m
<1> DEFINE s1 == OpenTraceFile(streams, "MMU", m)
           s2 == OpenTraceFile(s1, "REG_FILE", m)
           s3 == OpenTraceFile(s2, "DECODER", m)
<1>1. Levels = {"MMU", "REG_FILE", "DECODER"}
  BY DEF Levels
<1>2. Enabled(m) = s3
  BY DEF Enabled
<1>3. s1 \in Streams /\ s2 \in Streams /\ s3 \in Streams
  <2>1. s1 \in Streams
    BY <1>1, OpenTraceFileType
  <2>2. s2 \in Streams
    BY <1>1, <2>1, OpenTraceFileType
  <2>3. QED
    BY <1>1, <2>1, <2>2, OpenTraceFileType
<1>4. s1["MMU"] # m => leaked + NumOpen(s1) >= MaxFds
  BY <1>1, OpenTraceFileFull
<1>5. s2["REG_FILE"] # m \/ leaked + NumOpen(s1) >= MaxFds => leaked + NumOpen(s2) >= MaxFds
  BY <1>1, <1>3, OpenTraceFileFull
<1>6. s3["DECODER"] # m \/ leaked + NumOpen(s2) >= MaxFds => leaked + NumOpen(s3) >= MaxFds
  BY <1>1, <1>3, OpenTraceFileFull
<1>7. s2["MMU"] = s1["MMU"]
  BY <1>1, <1>3, OpenTraceFileType
<1>8. s3["MMU"] = s2["MMU"] /\ s3["REG_FILE"] = s2["REG_FILE"]
  BY <1>1, <1>3, OpenTraceFileType
<1>9. CanLoad(m) => ~(leaked + NumOpen(s3) >= MaxFds)
  BY <1>2, NumOpenType, MaxFdsAssumption DEF CanLoad
<1> HIDE DEF s1, s2, s3
<1>10. QED
  BY <1>1, <1>2, <1>3, <1>4, <1>5, <1>6, <1>7, <1>8, <1>9

-----------------------------------------------------------------------------
(* The inductive invariant *)

\* The file of a level has been created for this test and nothing is in it.
New(m, l) == <<m, l>> \in DOMAIN files /\ File(m, l) = <<>>

\* It holds what the model has handed to the writer.
Complete(m, l) == <<m, l>> \in DOMAIN files /\ File(m, l) = Encoded(readable, l, did[m][l])

TracesInv ==
  /\ streams \in Streams /\ leaked \in Nat /\ readable \in BOOLEAN
  /\ did = [m \in Models |-> did[m]]
  /\ \A m \in Models, l \in Levels : did[m][l] \in Seq(Records[l])
  /\ step = "functional" => \A m \in Models, l \in Levels : New(m, l)
  /\ step = "pipeline" => \A l \in Levels : Complete("functional", l) /\ New("pipeline", l)
  /\ step = "compare" => \A m \in Models, l \in Levels : Complete(m, l)

\* SetupFiles leaves six empty files.
LEMMA SetupFilesNew ==
  \A m \in Models, l \in Levels :
    <<m, l>> \in DOMAIN SetupFiles(6) /\ SetupFiles(6)[<<m, l>>] = <<>>
<1> DEFINE created == {FileNames[k] : k \in 1 .. 6}
<1>1. \A m \in Models, l \in Levels : <<m, l>> \in created
  BY DEF FileNames, Models, Levels
<1>2. SetupFiles(6) = [f \in created \cup DOMAIN files |->
                         IF f \in created THEN <<>> ELSE files[f]]
  BY DEF SetupFiles, CreateNewFile
<1> HIDE DEF created
<1>3. QED
  BY <1>1, <1>2

\* What a run that loads the program leaves in the files of its model, if they
\* were empty, and in those of the other model.
LEMMA WrittenComplete ==
  ASSUME TracesInv, NEW m \in Models, CanLoad(m), NEW t \in Traces,
         \A l \in Levels : New(m, l)
  PROVE  /\ DOMAIN Written(m, t) = DOMAIN files
         /\ \A l \in Levels : Written(m, t)[<<m, l>>] = Encoded(readable, l, t[l])
         /\ \A n \in Models \ {m}, l \in Levels :
              <<n, l>> \in DOMAIN files => Written(m, t)[<<n, l>>] = File(n, l)
<1>1. \A l \in Levels : Enabled(m)[l] = m
  BY EnabledComplete DEF TracesInv
<1>2. ASSUME NEW l \in Levels
      PROVE  Written(m, t)[<<m, l>>] = Encoded(readable, l, t[l])
  <2>1. <<m, l>> \in DOMAIN files /\ files[<<m, l>>] = <<>>
    BY DEF New, File
  <2>2. Truncated(m)[<<m, l>>] = <<>>
    BY <2>1 DEF Truncated
  <2>3. Written(m, t)[<<m, l>>] = <<>> \o Encoded(readable, l, t[l])
    BY <1>1, <2>1, <2>2 DEF Written
  <2>4. Encoded(readable, l, t[l]) \in Seq(Nat)
    BY TracesAssumption, EncodedType DEF TracesInv
  <2>5. QED
    BY <2>3, <2>4
<1>3. ASSUME NEW n \in Models \ {m}, NEW l \in Levels, <<n, l>> \in DOMAIN files
      PROVE  Written(m, t)[<<n, l>>] = File(n, l)
  BY <1>3 DEF Written, File
<1>4. QED
  BY <1>2, <1>3 DEF Written

\* A co-simulator that has tested nothing satisfies the invariant.
LEMMA TracesInvInit == Init => TracesInv
<1> SUFFICES ASSUME Init PROVE TracesInv
  OBVIOUS
<1>1. streams \in Streams
  BY DEF Init, Streams, Closed
<1>2. /\ did = [m \in Models |-> did[m]]
      /\ \A m \in Models, l \in Levels : did[m][l] \in Seq(Records[l])
  BY DEF Init, Nothing
<1>3. QED
  BY <1>1, <1>2 DEF Init, TracesInv

\* The number of descriptors that a comparison leaves open is a number.
LEMMA LeakedByType == \A order, n : n \in Nat => LeakedBy(order, n) \in Nat
<1> SUFFICES ASSUME NEW order, NEW n \in Nat PROVE LeakedBy(order, n) \in Nat
  OBVIOUS
<1> DEFINE S == {k \in 1 .. n : Len(File("functional", order[k])) # Len(File("pipeline", order[k]))}
<1>1. IsFiniteSet(1 .. n)
  BY FS_Interval
<1>2. S \in SUBSET (1 .. n)
  OBVIOUS
<1>3. IsFiniteSet(S)
  BY <1>1, <1>2, FS_Subset
<1>4. QED
  BY <1>3, FS_CardinalityType DEF LeakedBy

\* Every step of a test, and of what comes between tests, keeps it.
LEMMA TracesInvNext == TracesInv /\ [Next]_vars => TracesInv'
<1> SUFFICES ASSUME TracesInv, [Next]_vars PROVE TracesInv'
  OBVIOUS
<1> USE DEF object, writer
<1>0. streams \in Streams /\ leaked \in Nat /\ readable \in BOOLEAN
  BY DEF TracesInv
<1>1. CASE MakeTracesReadable \/ ShouldDeleteTraces \/ NewObject \/ NewProcess
  <2>1. /\ step' = "idle" /\ readable' \in BOOLEAN /\ did' = did
        /\ UNCHANGED <<streams, leaked>> \/ (streams' = Closed /\ leaked' = 0)
    BY <1>0, <1>1 DEF MakeTracesReadable, ShouldDeleteTraces, NewObject, NewProcess
  <2>2. Closed \in Streams
    BY DEF Streams, Closed
  <2>3. QED
    BY <1>0, <2>1, <2>2 DEF TracesInv
<1>2. CASE SetupBeforeTest
  <2>1. /\ step' = "functional" /\ files' = SetupFiles(6) /\ UNCHANGED <<streams, leaked, readable>>
        /\ did' = [m \in Models |-> Nothing]
    BY <1>2 DEF SetupBeforeTest
  <2>2. \A m \in Models, l \in Levels : New(m, l)'
    BY <2>1, SetupFilesNew DEF New, File
  <2>3. \A m \in Models, l \in Levels : did'[m][l] \in Seq(Records[l])
    BY <2>1 DEF Nothing
  <2>4. QED
    BY <1>0, <2>1, <2>2, <2>3 DEF TracesInv
<1>3. CASE SetupFails
  BY <1>0, <1>3 DEF SetupFails, TracesInv
<1>4. ASSUME NEW m \in Models, RunModel(m)
      PROVE  TracesInv'
  <2>1. /\ step = m /\ CanLoad(m) /\ streams' = Enabled(m)
        /\ step' = IF m = "functional" THEN "pipeline" ELSE "compare"
        /\ UNCHANGED <<leaked, readable>>
    BY <1>4 DEF RunModel, EnableTraces
  <2>2. PICK t \in Traces : files' = Written(m, t) /\ did' = [did EXCEPT ![m] = t]
    BY <1>4 DEF RunModel
  <2>3. streams' \in Streams
    BY <1>0, <2>1, EnabledComplete
  <2>4. \A l \in Levels : New(m, l)
    BY <2>1 DEF TracesInv, Models
  <2>5. /\ DOMAIN files' = DOMAIN files
        /\ \A l \in Levels : files'[<<m, l>>] = Encoded(readable, l, t[l])
        /\ \A n \in Models \ {m}, l \in Levels :
             <<n, l>> \in DOMAIN files => files'[<<n, l>>] = File(n, l)
    BY <2>1, <2>2, <2>4, WrittenComplete
  <2>6. /\ did' = [n \in Models |-> did'[n]] /\ did'[m] = t
        /\ \A n \in Models \ {m} : did'[n] = did[n]
        /\ \A n \in Models, l \in Levels : did'[n][l] \in Seq(Records[l])
    BY <2>2, TracesAssumption DEF TracesInv
  <2>7. \A l \in Levels : Complete(m, l)'
    BY <2>1, <2>4, <2>5, <2>6 DEF Complete, New, File
  <2>8. CASE m = "functional"
    <3>1. \A l \in Levels : New("pipeline", l)
      BY <2>1, <2>8 DEF TracesInv, Models
    <3>2. \A l \in Levels : New("pipeline", l)'
      BY <2>5, <2>8, <3>1 DEF New, File, Models
    <3>3. QED
      BY <1>0, <2>1, <2>3, <2>6, <2>7, <2>8, <3>2 DEF TracesInv
  <2>9. CASE m = "pipeline"
    <3>1. \A l \in Levels : Complete("functional", l)
      BY <2>1, <2>9 DEF TracesInv
    <3>2. \A l \in Levels : Complete("functional", l)'
      BY <2>1, <2>5, <2>6, <2>9, <3>1 DEF Complete, File, Models
    <3>3. QED
      BY <1>0, <2>1, <2>3, <2>6, <2>7, <2>9, <3>2 DEF TracesInv, Models
  <2>10. QED
    BY <2>8, <2>9 DEF Models
<1>5. ASSUME NEW m \in Models, LoadFails(m)
      PROVE  TracesInv'
  <2>1. step' = "teardown" /\ streams' = Enabled(m) /\ UNCHANGED <<leaked, readable, did>>
    BY <1>5 DEF LoadFails, EnableTraces
  <2>2. streams' \in Streams
    BY <1>0, <2>1, EnabledComplete
  <2>3. QED
    BY <2>1, <2>2 DEF TracesInv
<1>6. ASSUME NEW m \in Models, RunAborts(m)
      PROVE  TracesInv'
  <2>1. step' \in {"idle", "dead"} /\ streams' = Enabled(m) /\ UNCHANGED <<leaked, readable>>
    BY <1>6 DEF RunAborts, EnableTraces
  <2>2. streams' \in Streams
    BY <1>0, <2>1, EnabledComplete
  <2>3. /\ did' = [n \in Models |-> did'[n]]
        /\ \A n \in Models, l \in Levels : did'[n][l] \in Seq(Records[l])
    BY <1>6, TracesAssumption DEF RunAborts, TracesInv
  <2>4. QED
    BY <2>1, <2>2, <2>3 DEF TracesInv
<1>7. CASE CompareTraces
  <2>1. LeakedBy(LevelOrder, 3) \in Nat
    BY LeakedByType
  <2>2. QED
    BY <1>0, <1>7, <2>1 DEF CompareTraces, TracesInv
<1>8. CASE CompareThrows
  <2>1. PICK order \in Orders, n \in 0 .. 2 : leaked' = leaked + LeakedBy(order, n)
    BY <1>8 DEF CompareThrows
  <2>2. leaked' \in Nat
    BY <1>0, <2>1, LeakedByType
  <2>3. QED
    BY <1>0, <1>8, <2>2 DEF CompareThrows, TracesInv
<1>9. CASE TeardownAfterTest
  BY <1>0, <1>9 DEF TeardownAfterTest, TracesInv, Streams, Closed
<1>10. CASE UNCHANGED vars
  BY <1>10 DEF vars, TracesInv, New, Complete, File
<1>11. QED
  BY <1>1, <1>2, <1>3, <1>4, <1>5, <1>6, <1>7, <1>8, <1>9, <1>10 DEF Next

\* The invariant holds in every state.
LEMMA TracesInvariant == Spec => []TracesInv
  BY TracesInvInit, TracesInvNext, PTL DEF Spec

-----------------------------------------------------------------------------
(* The theorems *)

\* CompareTraces reads what the two models wrote in this test and all of it:
\* over every sequence of tests, with set-ups, loads, comparisons and
\* tear-downs that fail, exceptions, processes that end in the middle of a
\* run, and any number of descriptors that earlier tests have lost.
THEOREM TracesAreComplete == Spec => []TracesComplete
<1>1. TracesInv => TracesComplete
  BY DEF TracesInv, TracesComplete, Complete
<1>2. QED
  BY <1>1, TracesInvariant, PTL

\* A verdict is there only once CompareTraces has given it.
LEMMA VerdictStep ==
  ASSUME [Next]_vars, Compared'
  PROVE  UNCHANGED vars \/ CompareTraces
<1> USE DEF object, writer
<1>1. ASSUME NEW m \in Models, LoadFails(m)
      PROVE  FALSE
  <2>1. result' \in {1, 2}
    BY <1>1 DEF LoadFails, Failed
  <2>2. QED
    BY <2>1 DEF Compared
<1>2. ASSUME \/ MakeTracesReadable \/ ShouldDeleteTraces \/ NewObject \/ NewProcess
             \/ SetupBeforeTest \/ SetupFails \/ CompareThrows \/ TeardownAfterTest
             \/ \E m \in Models : RunModel(m) \/ RunAborts(m)
      PROVE  FALSE
  <2>1. step' # "teardown"
    BY <1>2 DEF MakeTracesReadable, ShouldDeleteTraces, NewObject, NewProcess,
                SetupBeforeTest, SetupFails, CompareThrows, TeardownAfterTest,
                RunModel, RunAborts
  <2>2. QED
    BY <2>1 DEF Compared
<1>3. QED
  BY <1>1, <1>2 DEF Next

\* What CompareTraces compares and what it returns.
LEMMA CompareTracesVerdict ==
  ASSUME TracesInv, CompareTraces
  PROVE  /\ result' = CodeOf({l \in Levels : Mismatch(l)})
         /\ UNCHANGED <<did, readable>> /\ Differences' = Differences
         /\ \A m \in Models, l \in Levels :
              /\ did[m][l] \in Seq(Records[l])
              /\ File(m, l) = Encoded(readable, l, did[m][l])
         /\ "functional" \in Models /\ "pipeline" \in Models /\ readable \in BOOLEAN
<1>1. step = "compare" /\ UNCHANGED <<did, readable>>
  BY DEF CompareTraces, object
<1>2. QED
  BY <1>1 DEF CompareTraces, TracesInv, Complete, Models, Differences

\* A file is equal to itself.
LEMMA SameFilesCompareEqual == \A a, b : a = b => ~CompareTwoFiles(a, b)
  BY DEF CompareTwoFiles

\* TestProgram reports no difference that the two models did not have.
THEOREM VerdictIsSound == Spec => []VerdictSound
<1>1. Init => VerdictSound
  BY DEF Init, VerdictSound, Compared
<1>2. TracesInv /\ VerdictSound /\ [Next]_vars => VerdictSound'
  <2> SUFFICES ASSUME TracesInv, VerdictSound, [Next]_vars, Compared'
               PROVE  (\E reported \in SUBSET Differences : result = CodeOf(reported))'
    BY DEF VerdictSound
  <2>1. CASE CompareTraces
    <3> DEFINE reported == {l \in Levels : Mismatch(l)}
    <3>1. result' = CodeOf(reported) /\ Differences' = Differences
      BY <2>1, CompareTracesVerdict
    <3>2. ASSUME NEW l \in Levels, did["functional"][l] = did["pipeline"][l]
          PROVE  ~Mismatch(l)
      BY <2>1, <3>2, CompareTracesVerdict, SameFilesCompareEqual DEF Mismatch
    <3>3. reported \in SUBSET Differences'
      BY <3>1, <3>2 DEF Differences
    <3> HIDE DEF reported
    <3>4. QED
      BY <3>1, <3>3 DEF CodeOf
  <2>2. CASE UNCHANGED vars
    BY <2>2 DEF vars, VerdictSound, Compared, Differences, CodeOf
  <2>3. QED
    BY <2>1, <2>2, VerdictStep
<1>3. QED
  BY <1>1, <1>2, TracesInvariant, PTL DEF Spec

\* With readable traces TestProgram reports the levels on which the models
\* differed, all of them and no other: a text can be divided into records in
\* one way only, and a record is found again in its text.
THEOREM ReadableVerdictIsExact == Spec => []ReadableVerdictExact
<1>1. Init => ReadableVerdictExact
  BY DEF Init, ReadableVerdictExact, Compared
<1>2. TracesInv /\ ReadableVerdictExact /\ [Next]_vars => ReadableVerdictExact'
  <2> SUFFICES ASSUME TracesInv, ReadableVerdictExact, [Next]_vars, Compared', readable'
               PROVE  (result = CodeOf(Differences))'
    BY DEF ReadableVerdictExact
  <2>1. CASE CompareTraces
    <3> DEFINE reported == {l \in Levels : Mismatch(l)}
    <3>1. result' = CodeOf(reported) /\ Differences' = Differences /\ readable = TRUE
      BY <2>1, CompareTracesVerdict
    <3>2. ASSUME NEW l \in Levels, did["functional"][l] = did["pipeline"][l]
          PROVE  ~Mismatch(l)
      BY <2>1, <3>2, CompareTracesVerdict, SameFilesCompareEqual DEF Mismatch
    <3>3. ASSUME NEW l \in Levels, ~Mismatch(l)
          PROVE  did["functional"][l] = did["pipeline"][l]
      <4> DEFINE s == did["functional"][l]
                 t == did["pipeline"][l]
      <4>1. /\ s \in Seq(Records[l]) /\ t \in Seq(Records[l])
            /\ ~CompareTwoFiles(Encoded(TRUE, l, s), Encoded(TRUE, l, t))
        BY <2>1, <3>1, <3>3, CompareTracesVerdict DEF Mismatch
      <4> HIDE DEF s, t
      <4>2. s = t
        BY <4>1, ReadableFilesExact
      <4>3. QED
        BY <4>2 DEF s, t
    <3>4. reported = Differences
      BY <3>2, <3>3 DEF Differences
    <3> HIDE DEF reported
    <3>5. QED
      BY <3>1, <3>4 DEF CodeOf
  <2>2. CASE UNCHANGED vars
    BY <2>2 DEF vars, ReadableVerdictExact, Compared, Differences, CodeOf
  <2>3. QED
    BY <2>1, <2>2, VerdictStep
<1>3. QED
  BY <1>1, <1>2, TracesInvariant, PTL DEF Spec

\* With binary traces TestProgram reports every level on which the models have
\* traced different numbers of records.
THEOREM BinaryCountsAreReported == Spec => []BinaryCountsReported
<1>1. Init => BinaryCountsReported
  BY DEF Init, BinaryCountsReported, Compared
<1>2. TracesInv /\ BinaryCountsReported /\ [Next]_vars => BinaryCountsReported'
  <2> SUFFICES ASSUME TracesInv, BinaryCountsReported, [Next]_vars, Compared', ~readable'
               PROVE  (\E reported \in SUBSET Levels :
                         /\ result = CodeOf(reported)
                         /\ \A l \in Levels : Len(did["functional"][l]) # Len(did["pipeline"][l])
                                               => l \in reported)'
    BY DEF BinaryCountsReported
  <2>1. CASE CompareTraces
    <3> DEFINE reported == {l \in Levels : Mismatch(l)}
    <3>1. result' = CodeOf(reported) /\ did' = did /\ readable = FALSE
      BY <2>1, CompareTracesVerdict
    <3>2. ASSUME NEW l \in Levels, Len(did["functional"][l]) # Len(did["pipeline"][l])
          PROVE  Mismatch(l)
      <4> DEFINE s == did["functional"][l]
                 t == did["pipeline"][l]
      <4>1. /\ s \in Seq(Records[l]) /\ t \in Seq(Records[l])
            /\ Mismatch(l) <=> CompareTwoFiles(Encoded(FALSE, l, s), Encoded(FALSE, l, t))
        BY <2>1, <3>1, CompareTracesVerdict DEF Mismatch
      <4>2. Len(s) # Len(t)
        BY <3>2
      <4> HIDE DEF s, t
      <4>3. CompareTwoFiles(Encoded(FALSE, l, s), Encoded(FALSE, l, t))
        BY <4>1, <4>2, BinaryFilesCount
      <4>4. QED
        BY <4>1, <4>3
    <3>3. /\ reported \in SUBSET Levels
          /\ \A l \in Levels : Len(did'["functional"][l]) # Len(did'["pipeline"][l])
                                => l \in reported
      BY <3>1, <3>2
    <3> HIDE DEF reported
    <3>4. QED
      BY <3>1, <3>3 DEF CodeOf
  <2>2. CASE UNCHANGED vars
    BY <2>2 DEF vars, BinaryCountsReported, Compared, CodeOf
  <2>3. QED
    BY <2>1, <2>2, VerdictStep
<1>3. QED
  BY <1>1, <1>2, TracesInvariant, PTL DEF Spec
=============================================================================
