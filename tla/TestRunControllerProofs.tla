---------------------- MODULE TestRunControllerProofs -----------------------
(***************************************************************************)
(* Theorems about TestRunController, for every number of templates, names, *)
(* faults, deletions, edits and restarts, and for caches of any age.       *)
(***************************************************************************)
EXTENDS TestRunController, KubeApiProofs, FiniteSetTheorems

RunPhases  == {"", "Starting", "Running", "Passed", "Failed", "Gone"}
TestPhases == {"", "Passed", "Failed", "Unborn", "Gone"}
RunFins    == SUBSET {RunFin, SuiteFin}
ResultRecs == [template : 0..(NumTests - 1), test : Names, passed : BOOLEAN]
TestRecs   == [idx : 0..(NumTests - 1), phase : TestPhases, del : BOOLEAN, fins : SUBSET {TestFin}]

\* The object has no phase yet.
Blank(obj) == obj.phase = ""

\* The shapes of TypeOK, with the sets of phases named.
LEMMA Shapes ==
  /\ Runs = [policy : Policies, n : 1..NumTests, phase : RunPhases, results : SUBSET ResultRecs,
             del : BOOLEAN, fins : RunFins]
  /\ TestSets = [Names -> TestRecs]
<1>1. Runs = [policy : Policies, n : 1..NumTests, phase : RunPhases, results : SUBSET ResultRecs,
              del : BOOLEAN, fins : RunFins]
  BY Zenon DEF Runs, RunPhases, ResultRecs, RunFins
<1>2. TestSets = [Names -> TestRecs]
  BY Zenon DEF TestSets, TestRecs, TestPhases
<1> QED
  BY <1>1, <1>2

\* The phases the code writes are phases of the types.
LEMMA Phases ==
  /\ {"Starting", "Running", "Passed", "Failed", "Gone"} \subseteq RunPhases
  /\ {"Passed", "Failed", "Unborn", "Gone"} \subseteq TestPhases
  BY Zenon DEF RunPhases, TestPhases

\* A Test is created undecided, for its template and held by its controller.
LEMMA NewTestShape ==
  ASSUME NEW i \in 0..(NumTests - 1)
  PROVE  /\ NewTest(i) \in TestRecs
         /\ NewTest(i).idx = i /\ NewTest(i).fins = {TestFin}
         /\ ~NewTest(i).del /\ Exists(NewTest(i)) /\ ~IsFinal(NewTest(i).phase)
<1>1. "" \in TestPhases /\ "" \notin {"Unborn", "Gone"} /\ "" \notin {"Passed", "Failed"}
  BY Zenon DEF TestPhases
<1>2. NewTest(i).phase = "" /\ NewTest(i).idx = i /\ NewTest(i).fins = {TestFin} /\ NewTest(i).del = FALSE
  BY Zenon DEF NewTest
<1>3. NewTest(i) \in TestRecs
  BY <1>1, Zenon DEF NewTest, TestRecs
<1> QED
  BY <1>1, <1>2, <1>3, Zenon DEF Exists, IsFinal

\* So is a run.
LEMMA NewRunShape ==
  ASSUME NEW policy \in Policies, NEW fins \in InitialFins
  PROVE  /\ NewRun(policy, fins) \in Runs
         /\ NewRun(policy, fins).n = NumTests /\ NewRun(policy, fins).fins = fins
         /\ NewRun(policy, fins).results = {} /\ ~NewRun(policy, fins).del
         /\ Exists(NewRun(policy, fins)) /\ Blank(NewRun(policy, fins)) /\ ~IsFinal(NewRun(policy, fins).phase)
<1> DEFINE run == NewRun(policy, fins)
<1>1. "" \in RunPhases /\ "" \notin {"Unborn", "Gone"} /\ "" \notin {"Passed", "Failed"}
  BY Zenon DEF RunPhases
<1>2. run.phase = "" /\ run.n = NumTests /\ run.fins = fins /\ run.results = {} /\ run.del = FALSE
  BY Zenon DEF NewRun
<1>3. NumTests \in 1..NumTests /\ fins \in RunFins /\ {} \in SUBSET ResultRecs
  BY ConstantsAssumption DEF RunFins
<1>4. run \in [policy : Policies, n : 1..NumTests, phase : RunPhases, results : SUBSET ResultRecs,
               del : BOOLEAN, fins : RunFins]
  BY <1>1, <1>3, Zenon DEF NewRun
<1>5. run \in Runs
  BY <1>4, Shapes, Zenon
<1> QED
  BY <1>1, <1>2, <1>5, Zenon DEF Exists, Blank, IsFinal

-----------------------------------------------------------------------------
(***************************************************************************)
(* The shape of objects is kept by what the API does to them.              *)
(***************************************************************************)
LEMMA RunTypes ==
  ASSUME NEW run \in Runs
  PROVE  /\ Deleted(run) \in Runs
         /\ Reaped(run) \in Runs
         /\ \A fins \in RunFins : WithFins(run, fins) \in Runs
         /\ \A copy \in Runs, phase \in RunPhases, results \in SUBSET ResultRecs :
              WithStatus(run, copy, phase, results) \in Runs
         /\ run.n > 1 => [run EXCEPT !.n = @ - 1] \in Runs
<1> DEFINE S == [policy : Policies, n : 1..NumTests, phase : RunPhases, results : SUBSET ResultRecs,
                 del : BOOLEAN, fins : RunFins]
<1>1. Runs = S /\ run \in S /\ "Gone" \in RunPhases
  BY Shapes, Phases
<1>2. Deleted(run) \in S /\ \A fins \in RunFins : WithFins(run, fins) \in S
  BY <1>1 DEF Deleted, WithFins
<1>3. Reaped(run) \in S
  BY <1>1 DEF Reaped
<1>4. ASSUME NEW copy \in Runs, NEW phase \in RunPhases, NEW results \in SUBSET ResultRecs
      PROVE  WithStatus(run, copy, phase, results) \in S
  BY <1>1 DEF WithStatus
<1>5. ASSUME run.n > 1 PROVE [run EXCEPT !.n = @ - 1] \in S
  BY <1>1, <1>5, ConstantsAssumption
<1> HIDE DEF S
<1> QED
  BY <1>1, <1>2, <1>3, <1>4, <1>5

\* What deletions, releases and verdicts make of a Test is a Test.
LEMMA TestTypes ==
  ASSUME NEW test \in TestRecs
  PROVE  /\ Deleted(test) \in TestRecs
         /\ Reaped(test) \in TestRecs
         /\ WithFins(test, test.fins \ {TestFin}) \in TestRecs
         /\ [test EXCEPT !.phase = "Passed"] \in TestRecs
         /\ [test EXCEPT !.phase = "Failed"] \in TestRecs
  BY Phases DEF Deleted, Reaped, WithFins, TestRecs

Results == {"OK", "Error", "NotFound", "Invalid"}

\* A Test does not carry this controller's finalizer: cleanUp deletes it, or
\* does nothing because the copy says it is deleted.
LEMMA CleanUpOutcomes ==
  ASSUME NEW copy \in TestRecs, NEW test, NEW out \in cleanUp(copy, test, RunFin, "Resource")
  PROVE  /\ out.res \in {"OK", "Error"}
         /\ out.obj \in {test, Reaped(Deleted(test))}
         /\ out.res = "OK" => out.obj = (IF copy.del THEN test ELSE Reaped(Deleted(test)))
         /\ copy.del => out.obj = test
<1>1. RunFin \notin copy.fins
  BY DEF TestRecs, RunFin, TestFin
<1> QED
  BY <1>1 DEF cleanUp, Settled
-----------------------------------------------------------------------------
(***************************************************************************)
(* Type correctness.  It needs one fact more: a reconcile that gets past   *)
(* the mapping of its Tests has not indexed their list past its end.       *)
(***************************************************************************)
Mapped == job.step = "ensure" => ~OutOfRange

\* What follows once the run has its finalizer, case by case.
LEMMA HandleCases ==
  ASSUME NEW run, NEW tests
  PROVE  \/ /\ Blank(run)
            /\ Handle(run, tests) = At("starting", run, tests, {})
         \/ /\ ~Blank(run) /\ run.del /\ Listed(tests) = {}
            /\ Handle(run, tests) = At("release", run, tests, Listed(tests))
         \/ /\ ~Blank(run) /\ run.del /\ Listed(tests) # {}
            /\ Handle(run, tests) = At("delete", run, tests, Listed(tests))
         \/ /\ ~Blank(run) /\ ~run.del /\ IsFinal(run.phase)
            /\ Handle(run, tests) = At("retain", run, tests, IF Drops(run) THEN Live(tests) ELSE {})
         \/ /\ ~Blank(run) /\ ~run.del /\ ~IsFinal(run.phase)
            /\ Handle(run, tests) = At("map", run, tests, Misnamed(run, tests))
<1>1. CASE run.phase = ""
  BY <1>1, Zenon DEF Handle, Blank
<1>2. CASE run.phase # ""
  <2>1. ~Blank(run)
    BY <1>2 DEF Blank
  <2>2. CASE run.del /\ Listed(tests) = {}
    BY <1>2, <2>1, <2>2, Zenon DEF Handle
  <2>3. CASE run.del /\ Listed(tests) # {}
    BY <1>2, <2>1, <2>3, Zenon DEF Handle
  <2>4. CASE ~run.del /\ IsFinal(run.phase)
    BY <1>2, <2>1, <2>4, Zenon DEF Handle
  <2>5. CASE ~run.del /\ ~IsFinal(run.phase)
    BY <1>2, <2>1, <2>5, Zenon DEF Handle
  <2> QED
    BY <2>2, <2>3, <2>4, <2>5
<1> QED
  BY <1>1, <1>2

\* The fields of a job as At makes it.
LEMMA AtShape ==
  ASSUME NEW step, NEW run, NEW tests, NEW todo
  PROVE  /\ At(step, run, tests, todo).step = step
         /\ At(step, run, tests, todo).run = run
         /\ At(step, run, tests, todo).tests = tests
         /\ At(step, run, tests, todo).todo = todo
         /\ ~At(step, run, tests, todo).err
         /\ step \in Steps /\ run \in Runs /\ tests \in TestSets /\ todo \in SUBSET Names =>
              At(step, run, tests, todo) \in Jobs
  BY DEF At, Jobs

\* The sets that loops visit are sets of names.
LEMMA ListedTypes ==
  ASSUME NEW run, NEW tests
  PROVE  /\ Listed(tests) \in SUBSET Names /\ Live(tests) \in SUBSET Listed(tests)
         /\ Misnamed(run, tests) \in SUBSET Live(tests)
  BY DEF Listed, Live, Misnamed

\* What follows the finalizer is a reconcile in progress.
LEMMA HandleType ==
  ASSUME NEW run \in Runs, NEW tests \in TestSets
  PROVE  Handle(run, tests) \in Jobs /\ Handle(run, tests).step \notin {"ensure", "finalizer", "idle"}
<1>1. {"starting", "release", "delete", "retain", "map"} \subseteq Steps \ {"ensure", "finalizer", "idle"}
  BY DEF Steps
<1>2. /\ {} \in SUBSET Names /\ Listed(tests) \in SUBSET Names /\ Misnamed(run, tests) \in SUBSET Names
      /\ (IF Drops(run) THEN Live(tests) ELSE {}) \in SUBSET Names
  BY ListedTypes
<1>3. \A step \in Steps \ {"ensure", "finalizer", "idle"}, todo \in SUBSET Names :
        /\ At(step, run, tests, todo) \in Jobs
        /\ At(step, run, tests, todo).step \notin {"ensure", "finalizer", "idle"}
  BY AtShape
<1> DEFINE kept == IF Drops(run) THEN Live(tests) ELSE {}
<1> HIDE DEF kept
<1>4. kept \in SUBSET Names
  BY <1>2 DEF kept
<1>5. \/ Handle(run, tests) = At("starting", run, tests, {})
      \/ Handle(run, tests) = At("release", run, tests, Listed(tests))
      \/ Handle(run, tests) = At("delete", run, tests, Listed(tests))
      \/ Handle(run, tests) = At("retain", run, tests, kept)
      \/ Handle(run, tests) = At("map", run, tests, Misnamed(run, tests))
  BY HandleCases DEF kept
<1> QED
  BY <1>1, <1>2, <1>3, <1>4, <1>5

\* What TypeOK says of the objects at hand.
LEMMA TypeFacts ==
  ASSUME TypeOK
  PROVE  /\ Run \in Runs /\ Cached(runFeed) \in Runs
         /\ Tests \in TestSets /\ Cached(testFeed) \in TestSets
         /\ \A t \in Names : Tests[t] \in TestRecs
         /\ \A run \in Runs : runFeed' = Publish(runFeed, run) =>
              runFeed' \in Seq(Runs) /\ runFeed' # <<>> /\ Run' = run
         /\ \A t \in Names, test \in TestRecs : PublishTest(t, test) =>
              /\ testFeed' \in Seq(TestSets) /\ testFeed' # <<>>
              /\ Tests' = [Tests EXCEPT ![t] = test]
         /\ Working => /\ job \in Jobs /\ job.run \in Runs /\ job.tests \in TestSets
                       /\ job.todo \in SUBSET Names /\ job.missing \in SUBSET (0..(NumTests - 1))
                       /\ job.err \in BOOLEAN /\ job.step \in Steps
                       /\ \A t \in Names : job.tests[t] \in TestRecs
<1>1. Run \in Runs /\ Cached(runFeed) \in Runs
  BY FeedStates DEF TypeOK, Run
<1>2. Tests \in TestSets /\ Cached(testFeed) \in TestSets
  BY FeedStates DEF TypeOK, Tests
<1>3. \A t \in Names : Tests[t] \in TestRecs
  BY <1>2, Shapes
<1>4. ASSUME NEW run \in Runs, runFeed' = Publish(runFeed, run)
      PROVE  runFeed' \in Seq(Runs) /\ runFeed' # <<>> /\ Run' = run
  BY <1>4, PublishStates DEF TypeOK, Run
<1>5. ASSUME NEW t \in Names, NEW test \in TestRecs, PublishTest(t, test)
      PROVE  /\ testFeed' \in Seq(TestSets) /\ testFeed' # <<>>
             /\ Tests' = [Tests EXCEPT ![t] = test]
  <2> DEFINE tests == [Tests EXCEPT ![t] = test]
  <2>1. tests \in TestSets
    BY <1>2, Shapes
  <2>2. testFeed \in Seq(TestSets) /\ testFeed # <<>> /\ testFeed' = Publish(testFeed, tests)
    BY <1>5 DEF TypeOK, PublishTest
  <2> HIDE DEF tests
  <2>3. testFeed' \in Seq(TestSets) /\ testFeed' # <<>> /\ Stored(testFeed') = tests
    BY <2>1, <2>2, PublishStates
  <2> QED
    BY <2>3 DEF Tests, tests
<1>6. ASSUME Working
      PROVE  /\ job \in Jobs /\ job.run \in Runs /\ job.tests \in TestSets
             /\ job.todo \in SUBSET Names /\ job.missing \in SUBSET (0..(NumTests - 1))
             /\ job.err \in BOOLEAN /\ job.step \in Steps
             /\ \A t \in Names : job.tests[t] \in TestRecs
  <2>1. job \in Jobs
    BY <1>6 DEF TypeOK, Working, Idle
  <2>2. job.run \in Runs /\ job.tests \in TestSets /\ job.todo \in SUBSET Names
        /\ job.missing \in SUBSET (0..(NumTests - 1)) /\ job.err \in BOOLEAN /\ job.step \in Steps
    BY <2>1 DEF Jobs
  <2> QED
    BY <2>1, <2>2, Shapes
<1> QED
  BY <1>1, <1>2, <1>3, <1>4, <1>5, <1>6

\* The count of failed calls stays within its bound.
LEMMA FaultType ==
  ASSUME TypeOK, NEW res, res = "Error" => faults < MaxFaults, Answer(res)
  PROVE  faults' \in 0..MaxFaults
  BY ConstantsAssumption DEF TypeOK, Answer

\* An answer is one of the outcomes; an error needs a fault that is left.
LEMMA AnswersAre ==
  ASSUME NEW outs, NEW out \in Answers(outs)
  PROVE  out \in outs /\ (out.res = "Error" => faults < MaxFaults)
  BY DEF Answers

\* A template's index is read back as a number.
LEMMA DigitType ==
  ASSUME NEW test \in TestRecs
  PROVE  Digit(test) \in Nat
<1>1. test.idx \in Nat
  BY ConstantsAssumption DEF TestRecs
<1>2. Radix \in Nat \ {0}
  BY ConstantsAssumption
<1> QED
  BY <1>1, <1>2 DEF Digit

\* The number of Tests in a listing.
LEMMA LiveFinite ==
  ASSUME NEW tests
  PROVE  /\ IsFiniteSet(Live(tests)) /\ Cardinality(Live(tests)) \in Nat
         /\ \A S \in SUBSET Live(tests) : IsFiniteSet(S) /\ Cardinality(S) \in Nat /\ Cardinality(S) <= Cardinality(Live(tests))
<1>1. Live(tests) \in SUBSET Names
  BY ListedTypes
<1>2. IsFiniteSet(Live(tests))
  BY <1>1, ConstantsAssumption, FS_Subset
<1> QED
  BY <1>2, FS_Subset, FS_CardinalityType

\* What the mapping of a listing yields: every digit is the index of a template
\* and, when it is in range, the position of a Test of the list.
LEMMA DigitsRange ==
  ASSUME TypeOK, Working
  PROVE  /\ Digits \subseteq 0..(job.run.n - 1)
         /\ Digits \subseteq 0..(NumTests - 1)
         /\ ~OutOfRange =>
              \A items \in Bijection(0..(Cardinality(Live(job.tests)) - 1), Live(job.tests)), d \in Digits :
                d \in DOMAIN items /\ items[d] \in Live(job.tests)
<1>1. job.run.n \in 1..NumTests
  BY TypeFacts, Shapes
<1>2. ASSUME NEW d \in Digits PROVE d \in 0..(job.run.n - 1)
  <2>1. PICK t \in Live(job.tests) \ Misnamed(job.run, job.tests) : d = Digit(job.tests[t])
    BY <1>2 DEF Digits
  <2>2. d \in Nat
    BY <2>1, TypeFacts, ListedTypes, DigitType
  <2>3. ~(d >= job.run.n)
    BY <2>1 DEF Misnamed
  <2> QED
    BY <1>1, <2>2, <2>3
<1>3. ASSUME ~OutOfRange, NEW d \in Digits,
             NEW items \in Bijection(0..(Cardinality(Live(job.tests)) - 1), Live(job.tests))
      PROVE  d \in DOMAIN items /\ items[d] \in Live(job.tests)
  <2>1. items \in [0..(Cardinality(Live(job.tests)) - 1) -> Live(job.tests)]
    BY <1>3 DEF Bijection, Injection
  <2>2. ~(d >= Cardinality(Live(job.tests)))
    BY <1>3 DEF OutOfRange
  <2>3. d \in 0..(Cardinality(Live(job.tests)) - 1)
    BY <1>1, <1>2, <1>3, <2>2, LiveFinite
  <2> QED
    BY <2>1, <2>3
<1>4. Digits \subseteq 0..(job.run.n - 1)
  BY <1>2
<1>5. 0..(job.run.n - 1) \subseteq 0..(NumTests - 1)
  BY <1>1, ConstantsAssumption
<1> QED
  BY <1>3, <1>4, <1>5

\* The status a reconcile computes has the shape of a status.
LEMMA StatusType ==
  ASSUME TypeOK, Working, ~OutOfRange,
         NEW items \in Bijection(0..(Cardinality(Live(job.tests)) - 1), Live(job.tests))
  PROVE  ResultsOf(items) \in SUBSET ResultRecs /\ PhaseOf(ResultsOf(items)) \in {"Running", "Passed", "Failed"}
<1>1. ASSUME NEW r \in ResultsOf(items) PROVE r \in ResultRecs
  <2>1. PICK d \in Digits : r = [template |-> d, test |-> items[d], passed |-> job.tests[items[d]].phase = "Passed"]
    BY <1>1 DEF ResultsOf
  <2>2. d \in 0..(NumTests - 1) /\ items[d] \in Names
    BY DigitsRange, ListedTypes
  <2>3. (job.tests[items[d]].phase = "Passed") \in BOOLEAN
    OBVIOUS
  <2> QED
    BY <2>1, <2>2, <2>3 DEF ResultRecs
<1>2. PhaseOf(ResultsOf(items)) \in {"Running", "Passed", "Failed"}
  BY DEF PhaseOf
<1> QED
  BY <1>1, <1>2

\* The initial state has the shape.
LEMMA InitTypeOK == Init => TypeOK /\ Mapped
<1> SUFFICES ASSUME Init PROVE TypeOK /\ Mapped
  OBVIOUS
<1>1. PICK policy \in Policies, fins \in InitialFins : runFeed = <<NewRun(policy, fins)>>
  BY DEF Init
<1>2. runFeed \in Seq(Runs) /\ runFeed # <<>>
  BY <1>1, NewRunShape, RestartStates
<1>3. NoTest \in TestRecs
  BY Phases, ConstantsAssumption DEF NoTest, TestRecs
<1>4. [t \in Names |-> NoTest] \in TestSets
  BY <1>3, Shapes
<1>5. testFeed \in Seq(TestSets) /\ testFeed # <<>>
  BY <1>4, RestartStates DEF Init
<1>6. verdict \in [Names -> {"None", "Passed", "Failed"}]
  BY DEF Init
<1>7. Mapped
  BY DEF Init, Mapped, Idle
<1>8. 0 \in 0..MaxFaults /\ 0 \in 0..MaxDeletions /\ 0 \in 0..MaxEdits /\ 0 \in 0..MaxRestarts
  BY ConstantsAssumption
<1> QED
  BY <1>2, <1>5, <1>6, <1>7, <1>8 DEF Init, TypeOK

\* The answers to the calls on the run leave a run.
LEMMA RunCalls ==
  ASSUME TypeOK, Working
  PROVE  /\ \A out \in addFinalizer(job.run, Run, RunFin, "Resource") : out.obj \in Runs
         /\ \A out \in removeFinalizer(job.run, Run, RunFin, "Resource") : out.obj \in Runs
         /\ \A phase \in RunPhases, results \in SUBSET ResultRecs :
              \A out \in Patch(Run, WithStatus(Run, job.run, phase, results)) : out.obj \in Runs
<1>1. Run \in Runs /\ job.run \in Runs
  BY TypeFacts
<1>2. job.run.fins \cup {RunFin} \in RunFins /\ job.run.fins \ {RunFin} \in RunFins
  BY <1>1, Shapes DEF RunFins
<1>3. \A fins \in RunFins : Reaped(WithFins(Run, fins)) \in Runs
  BY <1>1, RunTypes
<1>4. ASSUME NEW out \in addFinalizer(job.run, Run, RunFin, "Resource") PROVE out.obj \in Runs
  <2>1. out.obj \in {Run, Reaped(WithFins(Run, job.run.fins \cup {RunFin}))}
    BY <1>4, FinOutcomes DEF addFinalizer
  <2> QED
    BY <1>1, <1>2, <1>3, <2>1
<1>5. ASSUME NEW out \in removeFinalizer(job.run, Run, RunFin, "Resource") PROVE out.obj \in Runs
  <2>1. out.obj \in {Run, Reaped(WithFins(Run, job.run.fins \ {RunFin}))}
    BY <1>5, FinOutcomes DEF removeFinalizer
  <2> QED
    BY <1>1, <1>2, <1>3, <2>1
<1>6. ASSUME NEW phase \in RunPhases, NEW results \in SUBSET ResultRecs,
             NEW out \in Patch(Run, WithStatus(Run, job.run, phase, results))
      PROVE  out.obj \in Runs
  <2>1. WithStatus(Run, job.run, phase, results) \in Runs
    BY <1>1, RunTypes
  <2>2. out.obj \in {Run, WithStatus(Run, job.run, phase, results)}
    BY <1>6, PatchOutcomes
  <2> QED
    BY <1>1, <2>1, <2>2
<1> QED
  BY <1>4, <1>5, <1>6

\* So do those on a Test.
LEMMA TestCalls ==
  ASSUME TypeOK, Working, NEW t \in Names, NEW out \in cleanUp(job.tests[t], Tests[t], RunFin, "Resource")
  PROVE  /\ out.obj \in TestRecs
         /\ out.res \in {"OK", "Error"}
         /\ out.obj \in {Tests[t], Reaped(Deleted(Tests[t]))}
         /\ out.res = "OK" => out.obj = (IF job.tests[t].del THEN Tests[t] ELSE Reaped(Deleted(Tests[t])))
<1>1. job.tests[t] \in TestRecs /\ Tests[t] \in TestRecs
  BY TypeFacts
<1>2. Reaped(Deleted(Tests[t])) \in TestRecs
  BY <1>1, TestTypes
<1> QED
  BY <1>1, <1>2, CleanUpOutcomes

\* A reconcile that ends.
LEMMA ReturnType ==
  ASSUME TypeOK, NEW requeue \in BOOLEAN, Return(requeue)
  PROVE  job' = Idle /\ job' \in {Idle} \cup Jobs /\ queued' \in BOOLEAN /\ Mapped'
  BY DEF TypeOK, Return, Mapped, Idle

\* One that is handed the run by the server.
LEMMA HandOverType ==
  ASSUME NEW run \in Runs, NEW tests \in TestSets, job' = Handle(run, tests)
  PROVE  job' \in {Idle} \cup Jobs /\ Mapped'
  BY HandleType DEF Mapped

\* The reconcile's steps keep the shapes.
LEMMA ControllerTypeOK ==
  ASSUME TypeOK, Mapped, Controller
  PROVE  TypeOK' /\ Mapped'
<1>1. CASE Reconcile
  <2> DEFINE run == Cached(runFeed)
             tests == Cached(testFeed)
  <2>1. run \in Runs /\ tests \in TestSets
    BY TypeFacts
  <2>2. job' \in {Idle, At("finalizer", run, tests, {}), Handle(run, tests)}
    BY <1>1 DEF Reconcile
  <2> HIDE DEF run, tests
  <2>3. At("finalizer", run, tests, {}) \in Jobs /\ At("finalizer", run, tests, {}).step = "finalizer"
    BY <2>1, AtShape DEF Steps
  <2>4. job' \in {Idle} \cup Jobs /\ Mapped'
    BY <2>1, <2>2, <2>3, HandleType DEF Mapped, Idle
  <2> QED
    BY <1>1, <2>4 DEF Reconcile, TypeOK, env
<1>2. CASE EnsureFinalizer
  <2>1. PICK out \in Answers(addFinalizer(job.run, Run, RunFin, "Resource")) :
          /\ Answer(out.res)
          /\ runFeed' = Publish(runFeed, out.obj)
          /\ IF out.res = "OK" THEN job' = Handle(out.obj, job.tests) /\ UNCHANGED queued
             ELSE Return(out.res # "NotFound")
    BY <1>2 DEF EnsureFinalizer
  <2>2. Working /\ UNCHANGED <<testFeed, panics, env>>
    BY <1>2 DEF EnsureFinalizer, Working
  <2>3. out.obj \in Runs /\ job.tests \in TestSets /\ faults' \in 0..MaxFaults
    BY <2>1, <2>2, AnswersAre, RunCalls, TypeFacts, FaultType
  <2>4. runFeed' \in Seq(Runs) /\ runFeed' # <<>>
    BY <2>1, <2>3, TypeFacts
  <2>5. job' \in {Idle} \cup Jobs /\ queued' \in BOOLEAN /\ Mapped'
    BY <2>1, <2>3, HandOverType, ReturnType DEF TypeOK
  <2> QED
    BY <2>2, <2>3, <2>4, <2>5 DEF TypeOK, env
<1>3. CASE SetStarting
  <2>1. PICK out \in Answers(Patch(Run, WithStatus(Run, job.run, "Starting", job.run.results))) :
          /\ Answer(out.res)
          /\ runFeed' = Publish(runFeed, out.obj)
          /\ IF out.res = "OK" THEN job' = Handle(out.obj, job.tests) /\ UNCHANGED queued
             ELSE Return(out.res # "NotFound")
    BY <1>3 DEF SetStarting
  <2>2. Working /\ UNCHANGED <<testFeed, panics, env>>
    BY <1>3 DEF SetStarting, Working
  <2>3. job.run.results \in SUBSET ResultRecs /\ "Starting" \in RunPhases
    BY <2>2, TypeFacts, Shapes, Phases
  <2>4. out.obj \in Runs /\ job.tests \in TestSets /\ faults' \in 0..MaxFaults
    BY <2>1, <2>2, <2>3, AnswersAre, RunCalls, TypeFacts, FaultType
  <2>5. runFeed' \in Seq(Runs) /\ runFeed' # <<>>
    BY <2>1, <2>4, TypeFacts
  <2>6. job' \in {Idle} \cup Jobs /\ queued' \in BOOLEAN /\ Mapped'
    BY <2>1, <2>4, HandOverType, ReturnType DEF TypeOK
  <2> QED
    BY <2>2, <2>4, <2>5, <2>6 DEF TypeOK, env
<1>4. CASE \E t \in Names : CleanUpTest(t)
  <2>1. PICK t \in Names : CleanUpTest(t)
    BY <1>4
  <2>2. PICK out \in Answers(cleanUp(job.tests[t], Tests[t], RunFin, "Resource")) :
          /\ Answer(out.res)
          /\ PublishTest(t, out.obj)
          /\ job' = [job EXCEPT !.todo = @ \ {t}, !.err = @ \/ out.res # "OK"]
    BY <2>1 DEF CleanUpTest
  <2>3. Working /\ job.step \in {"delete", "retain"} /\ UNCHANGED <<runFeed, queued, panics, env>>
    BY <2>1 DEF CleanUpTest, Working
  <2>4. out.obj \in TestRecs /\ faults' \in 0..MaxFaults
    BY <2>2, <2>3, AnswersAre, TestCalls, FaultType
  <2>5. testFeed' \in Seq(TestSets) /\ testFeed' # <<>>
    BY <2>2, <2>4, TypeFacts
  <2>6. job' \in Jobs /\ job'.step = job.step
    BY <2>2, <2>3, TypeFacts DEF Jobs
  <2> QED
    BY <2>3, <2>4, <2>5, <2>6 DEF TypeOK, Mapped, env
<1>5. CASE \E t \in Names : CleanUpMisnamed(t)
  <2>1. PICK t \in Names : CleanUpMisnamed(t)
    BY <1>5
  <2>2. PICK out \in Answers(cleanUp(job.tests[t], Tests[t], RunFin, "Resource")) :
          /\ Answer(out.res)
          /\ PublishTest(t, out.obj)
          /\ IF out.res = "OK" THEN job' = [job EXCEPT !.todo = @ \ {t}] /\ UNCHANGED queued
             ELSE Return(TRUE)
    BY <2>1 DEF CleanUpMisnamed
  <2>3. Working /\ job.step = "map" /\ UNCHANGED <<runFeed, panics, env>>
    BY <2>1 DEF CleanUpMisnamed, Working
  <2>4. out.obj \in TestRecs /\ faults' \in 0..MaxFaults
    BY <2>2, <2>3, AnswersAre, TestCalls, FaultType
  <2>5. testFeed' \in Seq(TestSets) /\ testFeed' # <<>>
    BY <2>2, <2>4, TypeFacts
  <2>6. CASE out.res = "OK"
    <3>1. job' \in Jobs /\ job'.step = job.step
      BY <2>2, <2>3, <2>6, TypeFacts DEF Jobs
    <3> QED
      BY <2>2, <2>3, <2>4, <2>5, <2>6, <3>1 DEF TypeOK, Mapped, env
  <2>7. CASE out.res # "OK"
    <3>1. job' \in {Idle} \cup Jobs /\ queued' \in BOOLEAN /\ Mapped'
      BY <2>2, <2>7, ReturnType
    <3> QED
      BY <2>3, <2>4, <2>5, <3>1 DEF TypeOK, env
  <2> QED
    BY <2>6, <2>7
<1>6. CASE CleanedUp
  <2>1. Working /\ Return(job.err) /\ UNCHANGED <<runFeed, testFeed, panics, faults, env>>
    BY <1>6 DEF CleanedUp, Working
  <2>2. job' \in {Idle} \cup Jobs /\ queued' \in BOOLEAN /\ Mapped'
    BY <2>1, TypeFacts, ReturnType
  <2> QED
    BY <2>1, <2>2 DEF TypeOK, env
<1>7. CASE ReleaseRun
  <2>1. Working /\ UNCHANGED <<testFeed, panics, env>>
    BY <1>7 DEF ReleaseRun, Working
  <2>2. CASE RunFin \in job.run.fins
    <3>1. PICK out \in Answers(removeFinalizer(job.run, Run, RunFin, "Resource")) :
            /\ Answer(out.res)
            /\ runFeed' = Publish(runFeed, out.obj)
            /\ Return(out.res # "OK")
      BY <1>7, <2>2 DEF ReleaseRun
    <3>2. out.obj \in Runs /\ faults' \in 0..MaxFaults
      BY <2>1, <3>1, AnswersAre, RunCalls, FaultType
    <3>3. runFeed' \in Seq(Runs) /\ runFeed' # <<>>
      BY <3>1, <3>2, TypeFacts
    <3>4. job' \in {Idle} \cup Jobs /\ queued' \in BOOLEAN /\ Mapped'
      BY <3>1, ReturnType
    <3> QED
      BY <2>1, <3>2, <3>3, <3>4 DEF TypeOK, env
  <2>3. CASE RunFin \notin job.run.fins
    <3>1. Return(FALSE) /\ UNCHANGED <<runFeed, faults>>
      BY <1>7, <2>3 DEF ReleaseRun
    <3>2. job' \in {Idle} \cup Jobs /\ queued' \in BOOLEAN /\ Mapped'
      BY <3>1, ReturnType
    <3> QED
      BY <2>1, <3>1, <3>2 DEF TypeOK, env
  <2> QED
    BY <2>2, <2>3
<1>8. CASE Panic
  <2>1. /\ panics' = TRUE /\ runFeed' = <<Run>> /\ testFeed' = <<Tests>> /\ queued' = TRUE /\ job' = Idle
        /\ UNCHANGED <<faults, env>>
    BY <1>8 DEF Panic
  <2>2. runFeed' \in Seq(Runs) /\ runFeed' # <<>> /\ testFeed' \in Seq(TestSets) /\ testFeed' # <<>>
    BY <2>1, TypeFacts, RestartStates
  <2> QED
    BY <2>1, <2>2 DEF TypeOK, Mapped, Idle, env
<1>9. CASE MapTests
  <2>1. /\ Working /\ ~OutOfRange
        /\ job' = [job EXCEPT !.step = "ensure", !.missing = 0..(job.run.n - 1) \ Digits]
        /\ UNCHANGED <<runFeed, testFeed, queued, panics, faults, env>>
    BY <1>9 DEF MapTests, Working
  <2>2. job.run.n \in 1..NumTests
    BY <2>1, TypeFacts, Shapes
  <2>3. 0..(job.run.n - 1) \ Digits \in SUBSET (0..(NumTests - 1)) /\ "ensure" \in Steps
    BY <2>2, ConstantsAssumption DEF Steps
  <2>4. job' \in Jobs /\ job'.run = job.run /\ job'.tests = job.tests
    BY <2>1, <2>3, TypeFacts DEF Jobs
  <2>5. Mapped'
    BY <2>1, <2>4 DEF Mapped, OutOfRange, Digits
  <2> QED
    BY <2>1, <2>4, <2>5 DEF TypeOK, env
<1>10. CASE CreateTest
  <2>1. PICK i \in job.missing, t \in Names, res \in {"OK", "Error"} :
          /\ res = "Error" => faults < MaxFaults
          /\ Answer(res)
          /\ PublishTest(t, NewTest(i))
          /\ IF res = "OK" THEN job' = [job EXCEPT !.missing = @ \ {i}] /\ UNCHANGED queued
             ELSE Return(TRUE)
    BY <1>10 DEF CreateTest
  <2>2. Working /\ job.step = "ensure" /\ UNCHANGED <<runFeed, panics, env>>
    BY <1>10 DEF CreateTest, Working
  <2>3. NewTest(i) \in TestRecs /\ faults' \in 0..MaxFaults
    BY <2>1, <2>2, TypeFacts, NewTestShape, FaultType
  <2>4. testFeed' \in Seq(TestSets) /\ testFeed' # <<>>
    BY <2>1, <2>3, TypeFacts
  <2>5. CASE res = "OK"
    <3>1. job' \in Jobs /\ job'.run = job.run /\ job'.tests = job.tests
      BY <2>1, <2>2, <2>5, TypeFacts DEF Jobs
    <3>2. Mapped'
      BY <2>2, <3>1 DEF Mapped, OutOfRange, Digits
    <3> QED
      BY <2>1, <2>2, <2>3, <2>4, <2>5, <3>1, <3>2 DEF TypeOK, env
  <2>6. CASE res = "Error"
    <3>1. job' \in {Idle} \cup Jobs /\ queued' \in BOOLEAN /\ Mapped'
      BY <2>1, <2>6, ReturnType
    <3> QED
      BY <2>2, <2>3, <2>4, <3>1 DEF TypeOK, env
  <2> QED
    BY <2>5, <2>6
<1>11. CASE CreateTestFails
  <2>1. Return(TRUE) /\ UNCHANGED <<runFeed, testFeed, panics, env>>
    BY <1>11 DEF CreateTestFails
  <2>2. faults' \in 0..MaxFaults
    BY <1>11, FaultType DEF CreateTestFails, TypeOK
  <2>3. job' \in {Idle} \cup Jobs /\ queued' \in BOOLEAN /\ Mapped'
    BY <2>1, ReturnType
  <2> QED
    BY <2>1, <2>2, <2>3 DEF TypeOK, env
<1>12. CASE UpdateStatus
  <2>1. PICK items \in Bijection(0..(Cardinality(Live(job.tests)) - 1), Live(job.tests)) :
          \E out \in Answers(Patch(Run, WithStatus(Run, job.run, PhaseOf(ResultsOf(items)), ResultsOf(items)))) :
            /\ Answer(out.res)
            /\ runFeed' = Publish(runFeed, out.obj)
            /\ \E requeue \in BOOLEAN : Return(requeue)
    BY <1>12 DEF UpdateStatus
  <2>2. Working /\ ~OutOfRange /\ UNCHANGED <<testFeed, panics, env>>
    BY <1>12 DEF UpdateStatus, Working, Mapped
  <2>3. ResultsOf(items) \in SUBSET ResultRecs /\ PhaseOf(ResultsOf(items)) \in RunPhases
    BY <2>2, StatusType, Phases
  <2>4. PICK out \in Answers(Patch(Run, WithStatus(Run, job.run, PhaseOf(ResultsOf(items)), ResultsOf(items)))) :
            /\ Answer(out.res)
            /\ runFeed' = Publish(runFeed, out.obj)
            /\ \E requeue \in BOOLEAN : Return(requeue)
    BY <2>1
  <2>5. out.obj \in Runs /\ faults' \in 0..MaxFaults
    BY <2>2, <2>3, <2>4, AnswersAre, RunCalls, FaultType
  <2>6. runFeed' \in Seq(Runs) /\ runFeed' # <<>>
    BY <2>4, <2>5, TypeFacts
  <2>7. job' \in {Idle} \cup Jobs /\ queued' \in BOOLEAN /\ Mapped'
    BY <2>4, ReturnType
  <2> QED
    BY <2>2, <2>5, <2>6, <2>7 DEF TypeOK, env
<1> QED
  BY <1>1, <1>2, <1>3, <1>4, <1>5, <1>6, <1>7, <1>8, <1>9, <1>10, <1>11, <1>12 DEF Controller

\* So do the watches and a restart.
LEMMA WatchTypeOK ==
  ASSUME TypeOK, Mapped, RunEvent \/ TestEvent \/ Restart
  PROVE  TypeOK' /\ Mapped'
<1>1. CASE RunEvent
  <2>1. runFeed' \in Seq(Runs) /\ runFeed' # <<>>
    BY <1>1, EventStates DEF RunEvent, TypeOK
  <2> QED
    BY <1>1, <2>1 DEF RunEvent, TypeOK, Mapped, OutOfRange, Digits, env
<1>2. CASE TestEvent
  <2>1. testFeed' \in Seq(TestSets) /\ testFeed' # <<>>
    BY <1>2, EventStates DEF TestEvent, TypeOK
  <2> QED
    BY <1>2, <2>1 DEF TestEvent, TypeOK, Mapped, OutOfRange, Digits, env
<1>3. CASE Restart
  <2>1. runFeed' \in Seq(Runs) /\ runFeed' # <<>> /\ testFeed' \in Seq(TestSets) /\ testFeed' # <<>>
    BY <1>3, TypeFacts, RestartStates DEF Restart
  <2>2. restarts' \in 0..MaxRestarts
    BY <1>3, ConstantsAssumption DEF Restart, TypeOK
  <2>3. job' \in {Idle} \cup Jobs /\ Mapped' /\ queued' \in BOOLEAN
    BY <1>3 DEF Restart, Mapped, Idle
  <2> QED
    BY <1>3, <2>1, <2>2, <2>3 DEF Restart, TypeOK
<1> QED
  BY <1>1, <1>2, <1>3

\* What the cluster writes: a Test, or the run.
LEMMA ClusterWrites ==
  ASSUME TypeOK, Cluster
  PROVE  /\ Others
         /\ \/ UNCHANGED runFeed /\ \E t \in Names, test \in TestRecs : PublishTest(t, test)
            \/ UNCHANGED <<testFeed, verdict>> /\ \E run \in Runs : runFeed' = Publish(runFeed, run)
<1>1. \A t \in Names : Tests[t] \in TestRecs
  BY TypeFacts
<1>2. CASE \E t \in Names : TestDecided(t, "Passed") \/ TestDecided(t, "Failed")
  <2>1. PICK t \in Names, phase \in {"Passed", "Failed"} : TestDecided(t, phase)
    BY <1>2
  <2>2. PublishTest(t, [Tests[t] EXCEPT !.phase = phase]) /\ UNCHANGED runFeed /\ Others
    BY <2>1, Zenon DEF TestDecided
  <2>3. [Tests[t] EXCEPT !.phase = phase] \in TestRecs
    BY <1>1, TestTypes
  <2> QED
    BY <2>2, <2>3
<1>3. CASE \E t \in Names : TestReleased(t) \/ TestDeleted(t) \/ TestOrphaned(t)
  <2>1. PICK t \in Names : TestReleased(t) \/ TestDeleted(t) \/ TestOrphaned(t)
    BY <1>3
  <2>2. PICK test \in {Reaped(WithFins(Tests[t], Tests[t].fins \ {TestFin})), Reaped(Deleted(Tests[t]))} :
          PublishTest(t, test) /\ UNCHANGED runFeed /\ Others
    BY <2>1 DEF TestReleased, TestDeleted, TestOrphaned
  <2>3. test \in TestRecs
    BY <1>1, <2>2, TestTypes
  <2> QED
    BY <2>2, <2>3
<1>4. CASE RunDeleted \/ SuiteReleases \/ RunEdited
  <2>1. Run \in Runs /\ \A fins \in SUBSET Run.fins : fins \ {SuiteFin} \in RunFins
    BY TypeFacts, Shapes DEF RunFins
  <2>2. /\ Reaped(Deleted(Run)) \in Runs
        /\ \A fins \in SUBSET Run.fins : Reaped(WithFins(Run, fins \ {SuiteFin})) \in Runs
    BY <2>1, RunTypes
  <2>3. RunEdited => [Run EXCEPT !.n = @ - 1] \in Runs
    BY <2>1, RunTypes DEF RunEdited
  <2>4. CASE RunDeleted
    BY <2>2, <2>4 DEF RunDeleted
  <2>5. CASE SuiteReleases
    BY <2>2, <2>5 DEF SuiteReleases
  <2>6. CASE RunEdited
    BY <2>3, <2>6, Zenon DEF RunEdited
  <2> QED
    BY <1>4, <2>4, <2>5, <2>6
<1> QED
  BY <1>2, <1>3, <1>4 DEF Cluster

\* The cluster keeps the shape.
LEMMA ClusterTypeOK ==
  ASSUME TypeOK, Mapped, Cluster
  PROVE  TypeOK' /\ Mapped'
<1>1. /\ runFeed' \in Seq(Runs) /\ runFeed' # <<>> /\ testFeed' \in Seq(TestSets) /\ testFeed' # <<>>
      /\ Others
  BY ClusterWrites, TypeFacts DEF TypeOK
<1>2. verdict' \in [Names -> {"None", "Passed", "Failed"}]
  <2>1. UNCHANGED verdict \/ \E t \in Names, phase \in {"Passed", "Failed"} : verdict' = [verdict EXCEPT ![t] = phase]
    <3>1. \A t \in Names : \A phase : TestDecided(t, phase) => verdict' = [verdict EXCEPT ![t] = phase]
      BY Zenon DEF TestDecided
    <3> QED
      BY <3>1 DEF Cluster, TestReleased, TestDeleted, TestOrphaned, RunDeleted, SuiteReleases, RunEdited
  <2> QED
    BY <2>1 DEF TypeOK
<1>3. deletions' \in 0..MaxDeletions /\ edits' \in 0..MaxEdits
  <2>1. \A t \in Names : \A phase : TestDecided(t, phase) => UNCHANGED <<deletions, edits>>
    BY Zenon DEF TestDecided
  <2>2. \/ UNCHANGED <<deletions, edits>>
        \/ deletions < MaxDeletions /\ deletions' = deletions + 1 /\ UNCHANGED edits
        \/ edits < MaxEdits /\ edits' = edits + 1 /\ UNCHANGED deletions
    BY <2>1 DEF Cluster, TestReleased, TestDeleted, TestOrphaned, RunDeleted, SuiteReleases, RunEdited
  <2>3. MaxDeletions \in Nat /\ MaxEdits \in Nat
    BY ConstantsAssumption
  <2>4. deletions \in 0..MaxDeletions /\ edits \in 0..MaxEdits
    BY DEF TypeOK
  <2> QED
    BY <2>2, <2>3, <2>4
<1> QED
  BY <1>1, <1>2, <1>3 DEF TypeOK, Others, Mapped, OutOfRange, Digits

\* Every step keeps the shape.
LEMMA NextTypeOK == TypeOK /\ Mapped /\ [Next]_vars => TypeOK' /\ Mapped'
<1>1. TypeOK /\ Mapped /\ UNCHANGED vars => TypeOK' /\ Mapped'
  BY DEF TypeOK, Mapped, OutOfRange, Digits, vars
<1> QED
  BY <1>1, ControllerTypeOK, WatchTypeOK, ClusterTypeOK DEF Next

\* In every behaviour of the TestRun controller every variable keeps its shape;
\* in particular every result names a template of the run and a Test, although
\* isRunning finds the Test by the position its digit has in the list.
THEOREM TypeCorrect == Spec => []TypeOK
<1>1. Spec => [](TypeOK /\ Mapped)
  BY InitTypeOK, NextTypeOK, PTL DEF Spec
<1> QED
  BY <1>1, PTL

-----------------------------------------------------------------------------
(***************************************************************************)
(* The inductive invariant behind ResultsSound: what a reconcile read of a *)
(* Test, however long ago, can be outdated but not wrong.  A Test that any *)
(* cache or copy shows decided was decided that way, and a Test the server *)
(* shows undecided was not decided before.                                 *)
(***************************************************************************)
Agrees(tests) == \A t \in Names : IsFinal(tests[t].phase) => verdict[t] = tests[t].phase

FeedAgrees == \A k \in 1..Len(testFeed) : Agrees(testFeed[k])

JobAgrees == Working => Agrees(job.tests)

Undecided == \A t \in Names : Tests[t].phase \notin {"Passed", "Failed", "Gone"} => verdict[t] = "None"

Evidence == FeedAgrees /\ JobAgrees /\ Undecided /\ ResultsSound

\* What ResultsSound says of a run.
Sound(run) ==
  /\ \A r \in run.results : verdict[r.test] = (IF r.passed THEN "Passed" ELSE "Failed")
  /\ IsFinal(run.phase) => \E t \in Names : verdict[t] = run.phase

\* A verdict is given once.
VerdictsStay == \A t \in Names : verdict[t] # "None" => verdict'[t] = verdict[t]

\* In the beginning nobody has seen anything.
LEMMA InitEvidence == Init => Evidence
<1> SUFFICES ASSUME Init PROVE Evidence
  OBVIOUS
<1> DEFINE none == [t \in Names |-> NoTest]
<1>1. testFeed = <<none>> /\ Len(testFeed) = 1 /\ testFeed[1] = none /\ Tests = none
  BY DEF Init, Tests, Stored
<1>2. \A t \in Names : none[t].phase = "Unborn" /\ verdict[t] = "None"
  BY DEF Init, NoTest
<1>3. FeedAgrees /\ Undecided
  BY <1>1, <1>2 DEF FeedAgrees, Agrees, IsFinal, Undecided
<1>4. JobAgrees
  BY DEF Init, JobAgrees, Working, Idle
<1>5. PICK policy \in Policies, fins \in InitialFins : runFeed = <<NewRun(policy, fins)>>
  BY DEF Init
<1>6. Run = NewRun(policy, fins)
  BY <1>5, NewRunShape, RestartStates DEF Run
<1>7. ResultsSound
  BY <1>6, NewRunShape DEF ResultsSound
<1> QED
  BY <1>3, <1>4, <1>7 DEF Evidence

\* Copies stay right while verdicts stay.
LEMMA AgreesLater ==
  ASSUME TypeOK, VerdictsStay, NEW tests, Agrees(tests)
  PROVE  Agrees(tests)'
  BY DEF VerdictsStay, Agrees, IsFinal

\* So do results.
LEMMA SoundLater ==
  ASSUME VerdictsStay, NEW run \in Runs, Sound(run), Run' = run
  PROVE  ResultsSound'
<1>1. \A r \in run.results : r.test \in Names
  BY Shapes DEF ResultRecs
<1> QED
  BY <1>1 DEF VerdictsStay, Sound, ResultsSound, IsFinal

\* A write to a Test that leaves its verdict alone.
LEMMA TestWritten ==
  ASSUME TypeOK, Evidence, UNCHANGED verdict,
         NEW t \in Names, NEW test \in TestRecs, PublishTest(t, test),
         test.phase \in {Tests[t].phase, "Gone"} \/ (Tests[t].phase = "Unborn" /\ ~IsFinal(test.phase))
  PROVE  FeedAgrees' /\ Undecided'
<1> DEFINE tests == [Tests EXCEPT ![t] = test]
<1>1. tests \in TestSets /\ Tests \in TestSets /\ Tests' = tests
  BY TypeFacts, Shapes
<1>2. Agrees(Tests)
  <2>1. Len(testFeed) \in Nat \ {0}
    BY FeedStates DEF TypeOK
  <2> QED
    BY <2>1 DEF Evidence, FeedAgrees, Tests, Stored
<1>3. tests[t] = test /\ \A u \in Names \ {t} : tests[u] = Tests[u]
  BY <1>1, Shapes
<1>4. Agrees(tests)
  BY <1>2, <1>3 DEF Agrees, IsFinal
<1>5. \A k \in 1..Len(testFeed') : testFeed'[k] = tests \/ \E m \in 1..Len(testFeed) : testFeed'[k] = testFeed[m]
  <2>1. testFeed \in Seq(TestSets) /\ testFeed' = Publish(testFeed, tests)
    BY DEF TypeOK, PublishTest
  <2> HIDE DEF tests
  <2> QED
    BY <2>1, PublishKeeps
<1> HIDE DEF tests
<1>6. FeedAgrees'
  <2>1. \A k \in 1..Len(testFeed') : Agrees(testFeed'[k])
    BY <1>4, <1>5 DEF Evidence, FeedAgrees
  <2> QED
    BY <2>1 DEF FeedAgrees, Agrees
<1>7. Undecided'
  <2>1. Tests[t].phase \notin {"Passed", "Failed", "Gone"} => verdict[t] = "None"
    BY DEF Evidence, Undecided
  <2>2. test.phase \notin {"Passed", "Failed", "Gone"} => verdict[t] = "None"
    BY <2>1
  <2>3. \A u \in Names : tests[u].phase \notin {"Passed", "Failed", "Gone"} => verdict[u] = "None"
    BY <1>3, <2>2 DEF Evidence, Undecided
  <2> QED
    BY <1>1, <2>3 DEF Undecided
<1> QED
  BY <1>6, <1>7

\* A step that writes no Test.
LEMMA TestsUntouched ==
  ASSUME Evidence, UNCHANGED <<testFeed, verdict>>
  PROVE  FeedAgrees' /\ Undecided'
  BY DEF Evidence, FeedAgrees, Agrees, Undecided, Tests

\* A reconcile keeps its copy of the Tests to its end.
LEMMA CopyKept ==
  ASSUME Evidence, UNCHANGED verdict, job' = Idle \/ (Working /\ job'.tests = job.tests)
  PROVE  JobAgrees'
  BY DEF Evidence, JobAgrees, Agrees, Working, Idle

\* A step that leaves the run's phase and results alone, or removes the run.
LEMMA RunKept ==
  ASSUME TypeOK, Evidence, VerdictsStay, NEW run \in Runs, Run' = run,
         run.results = Run.results, run.phase \in {Run.phase, "Gone"}
  PROVE  ResultsSound'
<1>1. Sound(run)
  BY DEF Evidence, ResultsSound, Sound, IsFinal
<1> QED
  BY <1>1, SoundLater

\* What the calls that do not touch the status leave of it.
LEMMA StatusKept ==
  ASSUME NEW run \in Runs, NEW fins
  PROVE  /\ Reaped(WithFins(run, fins)).results = run.results
         /\ Reaped(WithFins(run, fins)).phase \in {run.phase, "Gone"}
         /\ Reaped(Deleted(run)).results = run.results
         /\ Reaped(Deleted(run)).phase \in {run.phase, "Gone"}
         /\ [run EXCEPT !.n = @ - 1].results = run.results
         /\ [run EXCEPT !.n = @ - 1].phase = run.phase
  BY Shapes DEF Reaped, WithFins, Deleted

\* A Test keeps its phase, too, until it is gone.
LEMMA PhaseKept ==
  ASSUME NEW test \in TestRecs, NEW fins
  PROVE  /\ Reaped(WithFins(test, fins)).phase \in {test.phase, "Gone"}
         /\ Reaped(Deleted(test)).phase \in {test.phase, "Gone"}
  BY DEF Reaped, WithFins, Deleted, TestRecs

\* Handle passes its copies on and notes no error.
LEMMA HandleTests ==
  ASSUME NEW run, NEW tests
  PROVE  Handle(run, tests).tests = tests /\ Handle(run, tests).run = run /\ ~Handle(run, tests).err
<1>1. PICK step, todo : Handle(run, tests) = At(step, run, tests, todo)
  BY HandleCases
<1> QED
  BY <1>1, AtShape

\* The status a reconcile computes from the Tests it saw is sound.
LEMMA StatusSound ==
  ASSUME TypeOK, Evidence, Working, ~OutOfRange,
         NEW items \in Bijection(0..(Cardinality(Live(job.tests)) - 1), Live(job.tests)),
         NEW run, run = WithStatus(Run, job.run, PhaseOf(ResultsOf(items)), ResultsOf(items))
  PROVE  Sound(run)
<1> DEFINE results == ResultsOf(items)
<1>1. ASSUME NEW r \in results
      PROVE  r.test \in Names /\ verdict[r.test] = (IF r.passed THEN "Passed" ELSE "Failed")
  <2>1. PICK d \in Digits :
          /\ IsFinal(job.tests[items[d]].phase)
          /\ r = [template |-> d, test |-> items[d], passed |-> job.tests[items[d]].phase = "Passed"]
    BY <1>1 DEF ResultsOf
  <2>2. items[d] \in Names
    BY DigitsRange, ListedTypes
  <2>3. verdict[items[d]] = job.tests[items[d]].phase
    BY <2>1, <2>2 DEF Evidence, JobAgrees, Agrees
  <2> QED
    BY <2>1, <2>2, <2>3 DEF IsFinal
<1>2. job.run.n \in 1..NumTests /\ NumTests \in Nat
  BY TypeFacts, Shapes, ConstantsAssumption
<1>3. IsFinal(PhaseOf(results)) => results # {}
  <2>1. Cardinality({}) = 0 /\ job.run.n # 0
    BY <1>2, FS_EmptySet
  <2> HIDE DEF results
  <2> QED
    BY <2>1 DEF PhaseOf, IsFinal
<1>4. IsFinal(PhaseOf(results)) => \E t \in Names : verdict[t] = PhaseOf(results)
  <2> HIDE DEF results
  <2>1. CASE PhaseOf(results) = "Passed"
    <3>1. PICK r \in results : r.passed
      BY <1>3, <2>1 DEF PhaseOf, IsFinal
    <3> QED
      BY <1>1, <2>1, <3>1
  <2>2. CASE PhaseOf(results) = "Failed"
    <3>1. PICK r \in results : ~r.passed
      BY <2>2 DEF PhaseOf
    <3> QED
      BY <1>1, <2>2, <3>1
  <2> QED
    BY <2>1, <2>2 DEF IsFinal
<1>5. Run \in Runs
  BY TypeFacts
<1> HIDE DEF results
<1>6. run.results \in {Run.results, results} /\ run.phase \in {Run.phase, PhaseOf(results)}
  BY <1>5, Shapes DEF WithStatus, results
<1> QED
  BY <1>1, <1>4, <1>6 DEF Evidence, ResultsSound, Sound

\* A restarted manager sees what the server has.
LEMMA RestartEvidence ==
  ASSUME TypeOK, Evidence, UNCHANGED verdict, runFeed' = <<Run>>, testFeed' = <<Tests>>, job' = Idle
  PROVE  Evidence'
<1>1. Run' = Run /\ Tests' = Tests
  BY RestartStates DEF Run, Tests
<1>2. Len(testFeed) \in Nat \ {0}
  BY FeedStates DEF TypeOK
<1>3. Agrees(Tests)
  BY <1>2 DEF Evidence, FeedAgrees, Tests, Stored
<1>4. \A k \in 1..Len(testFeed') : testFeed'[k] = Tests
  BY RestartStates
<1>5. FeedAgrees'
  BY <1>3, <1>4 DEF FeedAgrees, Agrees
<1>6. Undecided' /\ ResultsSound' /\ JobAgrees'
  BY <1>1 DEF Evidence, Undecided, ResultsSound, JobAgrees, Working, Idle
<1> QED
  BY <1>5, <1>6 DEF Evidence

\* The reconcile's steps keep the evidence.
LEMMA ControllerEvidence ==
  ASSUME TypeOK, Mapped, Evidence, Controller
  PROVE  Evidence'
<1>a. UNCHANGED verdict /\ VerdictsStay
  BY DEF Controller, Reconcile, EnsureFinalizer, SetStarting, CleanUpTest, CleanUpMisnamed, CleanedUp, ReleaseRun,
         Panic, MapTests, CreateTest, CreateTestFails, UpdateStatus, env, VerdictsStay
<1>b. Run \in Runs /\ (UNCHANGED runFeed => ResultsSound')
  BY <1>a, TypeFacts DEF Evidence, ResultsSound, Run
<1>c. UNCHANGED testFeed => FeedAgrees' /\ Undecided'
  BY <1>a, TestsUntouched
<1>1. CASE Reconcile
  <2> DEFINE run == Cached(runFeed)
             tests == Cached(testFeed)
  <2>1. tests = testFeed[1] /\ 1 \in 1..Len(testFeed)
    BY FeedStates DEF TypeOK
  <2>2. Agrees(tests)
    BY <2>1 DEF Evidence, FeedAgrees
  <2>3. job' \in {Idle, At("finalizer", run, tests, {}), Handle(run, tests)}
    BY <1>1 DEF Reconcile
  <2> HIDE DEF run, tests
  <2>4. job' = Idle \/ job'.tests = tests
    BY <2>3, AtShape, HandleTests
  <2>5. JobAgrees'
    BY <1>a, <2>2, <2>4 DEF JobAgrees, Agrees, Working, Idle
  <2> QED
    BY <1>1, <1>b, <1>c, <2>5 DEF Reconcile, Evidence
<1>2. CASE EnsureFinalizer
  <2>1. PICK out \in Answers(addFinalizer(job.run, Run, RunFin, "Resource")) :
          /\ runFeed' = Publish(runFeed, out.obj)
          /\ IF out.res = "OK" THEN job' = Handle(out.obj, job.tests) ELSE job' = Idle
    BY <1>2 DEF EnsureFinalizer, Return
  <2>2. Working /\ UNCHANGED testFeed
    BY <1>2 DEF EnsureFinalizer, Working
  <2>3. out.obj \in Runs /\ Run' = out.obj
    BY <2>1, <2>2, AnswersAre, RunCalls, TypeFacts
  <2>4. out.obj \in {Run, Reaped(WithFins(Run, job.run.fins \cup {RunFin}))}
    BY AnswersAre, FinOutcomes DEF addFinalizer
  <2>5. ResultsSound'
    BY <1>a, <1>b, <2>3, <2>4, StatusKept, RunKept
  <2>6. JobAgrees'
    BY <1>a, <2>1, <2>2, HandleTests, CopyKept
  <2> QED
    BY <1>c, <2>2, <2>5, <2>6 DEF Evidence
<1>3. CASE SetStarting
  <2>1. PICK out \in Answers(Patch(Run, WithStatus(Run, job.run, "Starting", job.run.results))) :
          /\ runFeed' = Publish(runFeed, out.obj)
          /\ IF out.res = "OK" THEN job' = Handle(out.obj, job.tests) ELSE job' = Idle
    BY <1>3 DEF SetStarting, Return
  <2>2. Working /\ UNCHANGED testFeed
    BY <1>3 DEF SetStarting, Working
  <2>3. job.run.results \in SUBSET ResultRecs /\ "Starting" \in RunPhases
    BY <2>2, TypeFacts, Shapes, Phases
  <2>4. out.obj \in Runs /\ Run' = out.obj
    BY <2>1, <2>2, <2>3, AnswersAre, RunCalls, TypeFacts
  <2>5. out.obj \in {Run, WithStatus(Run, job.run, "Starting", job.run.results)}
    BY AnswersAre, PatchOutcomes
  <2>6. out.obj.results = Run.results /\ out.obj.phase \in {Run.phase, "Starting"}
    BY <1>b, <2>5, Shapes DEF WithStatus
  <2>7. Sound(out.obj)
    BY <2>6 DEF Evidence, ResultsSound, Sound, IsFinal
  <2>8. ResultsSound'
    BY <1>a, <2>4, <2>7, SoundLater
  <2>9. JobAgrees'
    BY <1>a, <2>1, <2>2, HandleTests, CopyKept
  <2> QED
    BY <1>c, <2>2, <2>8, <2>9 DEF Evidence
<1>4. CASE \E t \in Names : CleanUpTest(t) \/ CleanUpMisnamed(t)
  <2>1. PICK t \in Names : CleanUpTest(t) \/ CleanUpMisnamed(t)
    BY <1>4
  <2>2. Working /\ UNCHANGED runFeed
    BY <2>1 DEF CleanUpTest, CleanUpMisnamed, Working
  <2>3. PICK out \in Answers(cleanUp(job.tests[t], Tests[t], RunFin, "Resource")) :
          /\ PublishTest(t, out.obj)
          /\ \/ job' = [job EXCEPT !.todo = @ \ {t}, !.err = @ \/ out.res # "OK"]
             \/ job' = [job EXCEPT !.todo = @ \ {t}]
             \/ job' = Idle
    BY <2>1 DEF CleanUpTest, CleanUpMisnamed, Return
  <2>4. out.obj \in TestRecs /\ out.obj \in {Tests[t], Reaped(Deleted(Tests[t]))}
    BY <2>2, <2>3, AnswersAre, TestCalls
  <2>5. out.obj.phase \in {Tests[t].phase, "Gone"}
    BY <2>4, TypeFacts, PhaseKept
  <2>6. FeedAgrees' /\ Undecided'
    BY <1>a, <2>3, <2>4, <2>5, TestWritten
  <2>7. JobAgrees'
    BY <1>a, <2>2, <2>3, TypeFacts, CopyKept DEF Jobs
  <2> QED
    BY <1>b, <2>2, <2>6, <2>7 DEF Evidence
<1>5. CASE CleanedUp \/ CreateTestFails
  <2>1. UNCHANGED <<runFeed, testFeed>> /\ job' = Idle
    BY <1>5 DEF CleanedUp, CreateTestFails, Return
  <2> QED
    BY <1>a, <1>b, <1>c, <2>1, CopyKept DEF Evidence
<1>6. CASE ReleaseRun
  <2>1. Working /\ UNCHANGED testFeed /\ job' = Idle
    BY <1>6 DEF ReleaseRun, Working, Return
  <2>2. CASE UNCHANGED runFeed
    BY <1>a, <1>b, <1>c, <2>1, <2>2, CopyKept DEF Evidence
  <2>3. CASE \E out \in Answers(removeFinalizer(job.run, Run, RunFin, "Resource")) : runFeed' = Publish(runFeed, out.obj)
    <3>1. PICK out \in Answers(removeFinalizer(job.run, Run, RunFin, "Resource")) : runFeed' = Publish(runFeed, out.obj)
      BY <2>3
    <3>2. out.obj \in Runs /\ Run' = out.obj
      BY <2>1, <3>1, AnswersAre, RunCalls, TypeFacts
    <3>3. out.obj \in {Run, Reaped(WithFins(Run, job.run.fins \ {RunFin}))}
      BY AnswersAre, FinOutcomes DEF removeFinalizer
    <3>4. ResultsSound'
      BY <1>a, <1>b, <3>2, <3>3, StatusKept, RunKept
    <3> QED
      BY <1>a, <1>c, <2>1, <3>4, CopyKept DEF Evidence
  <2> QED
    BY <1>6, <2>2, <2>3 DEF ReleaseRun
<1>7. CASE Panic
  <2>1. runFeed' = <<Run>> /\ testFeed' = <<Tests>> /\ job' = Idle
    BY <1>7 DEF Panic
  <2> QED
    BY <1>a, <2>1, RestartEvidence
<1>8. CASE MapTests
  <2>1. /\ Working /\ UNCHANGED <<runFeed, testFeed>>
        /\ job' = [job EXCEPT !.step = "ensure", !.missing = 0..(job.run.n - 1) \ Digits]
    BY <1>8 DEF MapTests, Working
  <2>2. job'.tests = job.tests
    BY <2>1, TypeFacts DEF Jobs
  <2> QED
    BY <1>a, <1>b, <1>c, <2>1, <2>2, CopyKept DEF Evidence
<1>9. CASE CreateTest
  <2>1. PICK i \in job.missing, t \in Names :
          /\ Tests[t].phase = "Unborn"
          /\ PublishTest(t, NewTest(i))
          /\ job' = Idle \/ job' = [job EXCEPT !.missing = @ \ {i}]
    BY <1>9 DEF CreateTest, Return
  <2>2. Working /\ UNCHANGED runFeed
    BY <1>9 DEF CreateTest, Working
  <2>3. NewTest(i) \in TestRecs /\ ~IsFinal(NewTest(i).phase)
    BY <2>2, TypeFacts, NewTestShape
  <2>4. FeedAgrees' /\ Undecided'
    BY <1>a, <2>1, <2>3, TestWritten
  <2>5. JobAgrees'
    BY <1>a, <2>1, <2>2, TypeFacts, CopyKept DEF Jobs
  <2> QED
    BY <1>b, <2>2, <2>4, <2>5 DEF Evidence
<1>10. CASE UpdateStatus
  <2>1. Working /\ ~OutOfRange /\ UNCHANGED testFeed /\ job' = Idle
    BY <1>10 DEF UpdateStatus, Working, Mapped, Return
  <2>2. PICK items \in Bijection(0..(Cardinality(Live(job.tests)) - 1), Live(job.tests)) :
          \E out \in Answers(Patch(Run, WithStatus(Run, job.run, PhaseOf(ResultsOf(items)), ResultsOf(items)))) :
            runFeed' = Publish(runFeed, out.obj)
    BY <1>10 DEF UpdateStatus
  <2> DEFINE new == WithStatus(Run, job.run, PhaseOf(ResultsOf(items)), ResultsOf(items))
  <2>3. ResultsOf(items) \in SUBSET ResultRecs /\ PhaseOf(ResultsOf(items)) \in RunPhases
    BY <2>1, StatusType, Phases
  <2>4. PICK out \in Answers(Patch(Run, new)) : runFeed' = Publish(runFeed, out.obj)
    BY <2>2
  <2>5. out.obj \in Runs /\ Run' = out.obj
    BY <2>1, <2>3, <2>4, AnswersAre, RunCalls, TypeFacts
  <2>6. Sound(new) /\ Sound(Run)
    BY <2>1, StatusSound DEF Evidence, ResultsSound, Sound
  <2> HIDE DEF new
  <2>7. out.obj \in {Run, new}
    BY <2>4, AnswersAre, PatchOutcomes
  <2>8. ResultsSound'
    BY <1>a, <2>5, <2>6, <2>7, SoundLater
  <2> QED
    BY <1>a, <1>c, <2>1, <2>8, CopyKept DEF Evidence
<1> QED
  BY <1>1, <1>2, <1>3, <1>4, <1>5, <1>6, <1>7, <1>8, <1>9, <1>10 DEF Controller

\* The watches and a restart keep the evidence.
LEMMA WatchEvidence ==
  ASSUME TypeOK, Evidence, RunEvent \/ TestEvent \/ Restart
  PROVE  Evidence'
<1>1. CASE RunEvent
  <2>1. Run' = Run
    BY <1>1, EventStates DEF RunEvent, TypeOK, Run
  <2>2. UNCHANGED <<testFeed, job, verdict>>
    BY <1>1 DEF RunEvent, env
  <2> QED
    BY <2>1, <2>2, TestsUntouched DEF Evidence, ResultsSound, JobAgrees, Agrees, Working
<1>2. CASE TestEvent
  <2>1. Tests' = Tests /\ \A k \in 1..Len(testFeed') : \E m \in 1..Len(testFeed) : testFeed'[k] = testFeed[m]
    BY <1>2, EventStates DEF TestEvent, TypeOK, Tests
  <2>2. UNCHANGED <<runFeed, job, verdict>>
    BY <1>2 DEF TestEvent, env
  <2>3. FeedAgrees'
    BY <2>1, <2>2 DEF Evidence, FeedAgrees, Agrees
  <2>4. Undecided' /\ JobAgrees' /\ ResultsSound'
    BY <2>1, <2>2 DEF Evidence, Undecided, JobAgrees, Agrees, Working, ResultsSound, Run
  <2> QED
    BY <2>3, <2>4 DEF Evidence
<1>3. CASE Restart
  BY <1>3, RestartEvidence DEF Restart
<1> QED
  BY <1>1, <1>2, <1>3

\* So does the cluster: a Test is decided when it had no verdict.
LEMMA ClusterEvidence ==
  ASSUME TypeOK, Evidence, Cluster
  PROVE  Evidence'
<1>1. \A t \in Names : Tests[t] \in TestRecs
  BY TypeFacts
<1>2. Run \in Runs /\ (UNCHANGED runFeed => Run' = Run)
  BY TypeFacts DEF Run
<1>3. UNCHANGED job
  BY ClusterWrites DEF Others
<1>4. CASE \E t \in Names : TestDecided(t, "Passed") \/ TestDecided(t, "Failed")
  <2>1. PICK t \in Names, phase \in {"Passed", "Failed"} : TestDecided(t, phase)
    BY <1>4
  <2>2. /\ PublishTest(t, [Tests[t] EXCEPT !.phase = phase]) /\ UNCHANGED runFeed
        /\ verdict' = [verdict EXCEPT ![t] = phase]
        /\ Tests[t].phase \notin {"Passed", "Failed", "Gone"}
    <3>1. Tests[t].phase = ""
      BY <2>1, Zenon DEF TestDecided
    <3>2. "" \notin {"Passed", "Failed", "Gone"}
      BY Zenon
    <3> QED
      BY <2>1, <3>1, <3>2, Zenon DEF TestDecided
  <2> DEFINE test == [Tests[t] EXCEPT !.phase = phase]
             tests == [Tests EXCEPT ![t] = test]
  <2>3. test \in TestRecs /\ test.phase = phase
    BY <1>1, TestTypes DEF TestRecs
  <2> HIDE DEF test
  <2>4. tests \in TestSets /\ Tests \in TestSets /\ Tests' = tests
    BY <2>2, <2>3, TypeFacts, Shapes DEF test
  <2>5. tests[t] = test /\ \A u \in Names \ {t} : tests[u] = Tests[u]
    BY <2>4, Shapes
  <2>6. verdict[t] = "None" /\ verdict'[t] = phase /\ \A u \in Names \ {t} : verdict'[u] = verdict[u]
    BY <2>2 DEF TypeOK, Evidence, Undecided
  <2>7. VerdictsStay
    BY <2>6 DEF VerdictsStay
  <2>8. testFeed \in Seq(TestSets) /\ testFeed' = Publish(testFeed, tests)
    BY <2>2 DEF TypeOK, PublishTest, test
  <2> HIDE DEF tests
  <2>9. \A k \in 1..Len(testFeed') : testFeed'[k] = tests \/ \E m \in 1..Len(testFeed) : testFeed'[k] = testFeed[m]
    BY <2>8, PublishKeeps
  <2>10. \A m \in 1..Len(testFeed) : Agrees(testFeed[m])
    BY DEF Evidence, FeedAgrees
  <2>11. Agrees(Tests)
    <3>1. Len(testFeed) \in Nat \ {0}
      BY FeedStates DEF TypeOK
    <3> QED
      BY <3>1 DEF Evidence, FeedAgrees, Tests, Stored
  <2>12. FeedAgrees'
    <3>1. \A u \in Names : IsFinal(tests[u].phase) => verdict'[u] = tests[u].phase
      BY <2>3, <2>5, <2>6, <2>11 DEF Agrees
    <3>2. \A m \in 1..Len(testFeed), u \in Names : IsFinal(testFeed[m][u].phase) => verdict'[u] = testFeed[m][u].phase
      BY <2>7, <2>10 DEF Agrees, VerdictsStay, IsFinal
    <3> QED
      BY <2>9, <3>1, <3>2 DEF FeedAgrees, Agrees
  <2>13. Undecided'
    BY <2>3, <2>4, <2>5, <2>6 DEF Evidence, Undecided
  <2>14. JobAgrees'
    BY <1>3, <2>7 DEF Evidence, JobAgrees, Agrees, Working, VerdictsStay, IsFinal
  <2>15. ResultsSound'
    BY <1>2, <2>2, <2>7, RunKept
  <2> QED
    BY <2>12, <2>13, <2>14, <2>15 DEF Evidence
<1>5. CASE \E t \in Names : TestReleased(t) \/ TestDeleted(t) \/ TestOrphaned(t)
  <2>1. PICK t \in Names : TestReleased(t) \/ TestDeleted(t) \/ TestOrphaned(t)
    BY <1>5
  <2>2. PICK test \in {Reaped(WithFins(Tests[t], Tests[t].fins \ {TestFin})), Reaped(Deleted(Tests[t]))} :
          PublishTest(t, test) /\ UNCHANGED <<runFeed, verdict>>
    BY <2>1 DEF TestReleased, TestDeleted, TestOrphaned
  <2>3. test \in TestRecs /\ test.phase \in {Tests[t].phase, "Gone"}
    BY <1>1, <2>2, TestTypes, PhaseKept
  <2>4. FeedAgrees' /\ Undecided'
    BY <2>2, <2>3, TestWritten
  <2> QED
    BY <1>2, <1>3, <2>2, <2>4 DEF Evidence, ResultsSound, JobAgrees, Agrees, Working
<1>6. CASE RunDeleted \/ SuiteReleases \/ RunEdited
  <2>1. UNCHANGED <<testFeed, verdict>> /\ VerdictsStay
    BY <1>6 DEF RunDeleted, SuiteReleases, RunEdited, VerdictsStay
  <2>2. \A fins \in SUBSET Run.fins : fins \ {SuiteFin} \in RunFins
    BY <1>2, Shapes DEF RunFins
  <2>3. PICK run \in Runs : /\ runFeed' = Publish(runFeed, run)
                            /\ run.results = Run.results /\ run.phase \in {Run.phase, "Gone"}
    <3>1. CASE RunDeleted
      BY <1>2, <3>1, RunTypes, StatusKept DEF RunDeleted
    <3>2. CASE SuiteReleases
      BY <1>2, <2>2, <3>2, RunTypes, StatusKept DEF SuiteReleases
    <3>3. CASE RunEdited
      <4> DEFINE run == [Run EXCEPT !.n = @ - 1]
      <4>1. runFeed' = Publish(runFeed, run) /\ run \in Runs /\ run.results = Run.results /\ run.phase = Run.phase
        BY <1>2, <3>3, RunTypes, StatusKept DEF RunEdited
      <4> HIDE DEF run
      <4> QED
        BY <4>1
    <3> QED
      BY <1>6, <3>1, <3>2, <3>3
  <2>4. Run' = run
    BY <2>3, TypeFacts
  <2>5. ResultsSound'
    BY <2>1, <2>3, <2>4, RunKept
  <2> QED
    BY <1>3, <2>1, <2>5, TestsUntouched DEF Evidence, JobAgrees, Agrees, Working
<1> QED
  BY <1>4, <1>5, <1>6 DEF Cluster

\* Every step keeps the evidence.
LEMMA NextEvidence ==
  ASSUME TypeOK, Mapped, Evidence, [Next]_vars
  PROVE  Evidence'
<1>1. UNCHANGED vars => Evidence'
  BY DEF vars, Evidence, FeedAgrees, Agrees, JobAgrees, Working, Undecided, Tests, ResultsSound, Run
<1> QED
  BY <1>1, ControllerEvidence, WatchEvidence, ClusterEvidence DEF Next

\* The evidence holds with caches of any age.
LEMMA EvidenceInvariant == Spec => [](TypeOK /\ Mapped /\ Evidence)
<1>1. TypeOK /\ Mapped /\ Evidence /\ [Next]_vars => (TypeOK /\ Mapped /\ Evidence)'
  BY NextTypeOK, NextEvidence
<1> QED
  BY InitTypeOK, InitEvidence, <1>1, PTL DEF Spec

\* Whatever is stale, mixed up by the shadowed index, lost or patched over: a
\* result always names a Test decided that way, a Failed run has a Test that
\* failed and a Passed run one that passed.
THEOREM ResultsAlwaysSound == Spec => []ResultsSound
<1>1. Evidence => ResultsSound
  BY DEF Evidence
<1> QED
  BY EvidenceInvariant, <1>1, PTL

-----------------------------------------------------------------------------
(***************************************************************************)
(* Convergence, with caches of any age.  The key is not queued and no      *)
(* event is under way only if nothing changed since the reconcile in       *)
(* progress read its copies, so they are what the server has; and one that *)
(* could not do what it should have done has an error to return.           *)
(***************************************************************************)
Calm == ~queued /\ Fresh(runFeed) /\ Fresh(testFeed)

\* What a calm reconcile knows of its run.
CalmRun ==
  /\ job.run = Run
  /\ job.step \in {"delete", "release"} => Run.del
  /\ job.step \in {"finalizer", "map", "ensure", "retain"} => ~Run.del
  /\ job.step = "finalizer" => RunFin \notin Run.fins
  /\ job.step = "starting" => Blank(Run) /\ (Run.del \/ RunFin \in Run.fins)
  /\ job.step \in {"map", "ensure"} => RunFin \in Run.fins /\ ~IsFinal(Run.phase)
  /\ job.step = "retain" => IsFinal(Run.phase)

\* What it knows of the Tests: those it still has to delete have not changed.
CalmTests ==
  /\ ~job.err => job.tests = Tests
  /\ job.step = "release" => Listed(Tests) = {}
  /\ job.step = "delete" => job.err \/ (Listed(Tests) # {} /\ Live(Tests) \subseteq job.todo)
  /\ job.step = "retain" => job.err \/ (Drops(Run) => Live(Tests) \subseteq job.todo)
  /\ job.step \in {"map", "ensure"} => ~job.err
  /\ job.step = "map" => job.todo \subseteq Live(Tests)
  /\ job.step = "ensure" => job.missing = 0..(Run.n - 1) \ Digits

Attentive ==
  /\ Converged /\ DeletionGoesOn
  /\ Working /\ Calm => CalmRun /\ CalmTests

\* A step that queues the key has nothing to show for.
LEMMA QueuedAttentive ==
  ASSUME queued' = TRUE
  PROVE  Attentive'
  BY DEF Attentive, Converged, DeletionGoesOn, Quiescent, Calm

\* Nor has one that leaves an event under way: calm after a write, it was calm
\* before, and nothing was changed.
LEMMA Undisturbed ==
  ASSUME TypeOK, Calm'
  PROVE  /\ \A run \in Runs : runFeed' = Publish(runFeed, run) => UNCHANGED runFeed /\ run = Run
         /\ \A t \in Names, test \in TestRecs : PublishTest(t, test) => UNCHANGED testFeed /\ test = Tests[t]
         /\ UNCHANGED <<runFeed, testFeed>> =>
              Run' = Run /\ Tests' = Tests /\ (queued' = queued => Calm)
<1>1. ASSUME NEW run \in Runs, runFeed' = Publish(runFeed, run)
      PROVE  UNCHANGED runFeed /\ run = Run
  <2>1. runFeed \in Seq(Runs) /\ runFeed # <<>> /\ Fresh(Publish(runFeed, run))
    BY <1>1 DEF TypeOK, Calm
  <2> QED
    BY <1>1, <2>1, PublishFresh DEF Run
<1>2. ASSUME NEW t \in Names, NEW test \in TestRecs, PublishTest(t, test)
      PROVE  UNCHANGED testFeed /\ test = Tests[t]
  <2> DEFINE tests == [Tests EXCEPT ![t] = test]
  <2>1. tests \in TestSets /\ Tests \in TestSets
    BY TypeFacts, Shapes
  <2>2. testFeed \in Seq(TestSets) /\ testFeed # <<>> /\ Fresh(Publish(testFeed, tests)) /\ testFeed' = Publish(testFeed, tests)
    BY <1>2 DEF TypeOK, Calm, PublishTest
  <2>3. tests = Tests /\ UNCHANGED testFeed
    <3> HIDE DEF tests
    <3> QED
      BY <2>1, <2>2, PublishFresh DEF Tests
  <2>4. tests[t] = test
    BY <2>1, Shapes
  <2> QED
    BY <2>3, <2>4
<1>3. ASSUME UNCHANGED <<runFeed, testFeed>>
      PROVE  Run' = Run /\ Tests' = Tests /\ (queued' = queued => Calm)
  BY <1>3 DEF Run, Tests, Calm
<1> QED
  BY <1>1, <1>2, <1>3

\* A reconcile handed the stored run and the stored Tests.
LEMMA HandledCalmly ==
  ASSUME job' = Handle(Run, Tests), Run' = Run, Tests' = Tests,
         Run.del \/ IsFinal(Run.phase) \/ RunFin \in Run.fins
  PROVE  CalmRun' /\ CalmTests' /\ Working'
<1>1. job'.run = Run /\ job'.tests = Tests /\ ~job'.err
  BY HandleTests
<1>2. CASE Blank(Run) /\ job' = At("starting", Run, Tests, {})
  <2>1. job'.step = "starting"
    BY <1>2, AtShape
  <2>2. ~IsFinal(Run.phase)
    BY <1>2, Zenon DEF Blank, IsFinal
  <2> QED
    BY <1>1, <1>2, <2>1, <2>2 DEF CalmRun, CalmTests, Working, Blank
<1>3. CASE Run.del /\ Listed(Tests) = {} /\ job' = At("release", Run, Tests, Listed(Tests))
  <2>1. job'.step = "release"
    BY <1>3, AtShape
  <2> QED
    BY <1>1, <1>3, <2>1 DEF CalmRun, CalmTests, Working
<1>4. CASE Run.del /\ Listed(Tests) # {} /\ job' = At("delete", Run, Tests, Listed(Tests))
  <2>1. job'.step = "delete" /\ job'.todo = Listed(Tests)
    BY <1>4, AtShape
  <2> QED
    BY <1>1, <1>4, <2>1, ListedTypes DEF CalmRun, CalmTests, Working
<1>5. CASE ~Run.del /\ IsFinal(Run.phase) /\ job' = At("retain", Run, Tests, IF Drops(Run) THEN Live(Tests) ELSE {})
  <2>1. job'.step = "retain" /\ (Drops(Run) => job'.todo = Live(Tests))
    BY <1>5, AtShape
  <2> QED
    BY <1>1, <1>5, <2>1 DEF CalmRun, CalmTests, Working
<1>6. CASE ~Run.del /\ ~IsFinal(Run.phase) /\ job' = At("map", Run, Tests, Misnamed(Run, Tests))
  <2>1. job'.step = "map" /\ job'.todo = Misnamed(Run, Tests)
    BY <1>6, AtShape
  <2> QED
    BY <1>1, <1>6, <2>1, ListedTypes DEF CalmRun, CalmTests, Working
<1> QED
  BY <1>2, <1>3, <1>4, <1>5, <1>6, HandleCases

\* A delete that leaves a live Test as it is has failed.
LEMMA Ineffective ==
  ASSUME NEW test \in TestRecs, Exists(test), ~test.del
  PROVE  \A out \in cleanUp(test, test, RunFin, "Resource") : out.obj = test => out.res = "Error"
<1>1. Reaped(Deleted(test)) # test
  <2>1. Reaped(Deleted(test)).del
    BY DEF Reaped, Deleted, TestRecs
  <2> QED
    BY <2>1
<1> QED
  BY <1>1, CleanUpOutcomes

\* A run whose status is written anew, from an up-to-date copy, shows it.
LEMMA StatusShown ==
  ASSUME NEW run \in Runs, Exists(run), NEW phase, NEW results, run = WithStatus(run, run, phase, results)
  PROVE  phase = run.phase
  BY Shapes DEF WithStatus

\* If every template has a Test that is mapped to it and every Test is decided,
\* the run has as many results as templates.
LEMMA AllDecided ==
  ASSUME TypeOK, Working, ~OutOfRange, Digits = 0..(job.run.n - 1),
         NEW items \in Bijection(0..(Cardinality(Live(job.tests)) - 1), Live(job.tests)),
         \A t \in Live(job.tests) : IsFinal(job.tests[t].phase)
  PROVE  Cardinality(ResultsOf(items)) = job.run.n
<1> DEFINE n == job.run.n
           F(d) == [template |-> d, test |-> items[d], passed |-> job.tests[items[d]].phase = "Passed"]
           results == {F(d) : d \in 0..(n - 1)}
           f == [d \in 0..(n - 1) |-> F(d)]
<1>1. n \in Nat /\ n # 0
  BY TypeFacts, Shapes, ConstantsAssumption
<1>2. {e \in Digits : IsFinal(job.tests[items[e]].phase)} = 0..(n - 1)
  BY DigitsRange
<1>3. ResultsOf(items) = results
  BY <1>2 DEF ResultsOf
<1>4. \A d, e \in 0..(n - 1) : F(d) = F(e) => d = e
  <2>1. \A d \in 0..(n - 1) : F(d).template = d
    OBVIOUS
  <2> QED
    BY <2>1
<1>5. f \in Bijection(0..(n - 1), results)
  <2>1. f \in [0..(n - 1) -> results] /\ \A d \in 0..(n - 1) : f[d] = F(d)
    OBVIOUS
  <2>2. \A r \in results : \E d \in 0..(n - 1) : f[d] = r
    BY <2>1
  <2> HIDE DEF f, results, F
  <2> QED
    BY <1>4, <2>1, <2>2 DEF Bijection, Injection, Surjection, IsInjective
<1>6. IsFiniteSet(0..(n - 1)) /\ Cardinality(0..(n - 1)) = n
  <2> HIDE DEF n
  <2>1. 0 \in Int /\ n - 1 \in Int /\ ~(0 > n - 1) /\ (n - 1) - 0 + 1 = n
    BY <1>1
  <2>2. IsFiniteSet(0..(n - 1)) /\ Cardinality(0..(n - 1)) = IF 0 > n - 1 THEN 0 ELSE (n - 1) - 0 + 1
    BY <2>1, FS_Interval
  <2> QED
    BY <2>1, <2>2
<1>7. Cardinality(results) = n
  <2> HIDE DEF results, f
  <2>1. ExistsBijection(0..(n - 1), results)
    BY <1>5 DEF ExistsBijection
  <2> QED
    BY <1>6, <2>1, FS_Bijection
<1> QED
  BY <1>3, <1>7

\* A reconcile ends calmly only with everything done.
LEMMA EndsConverged ==
  ASSUME Run' = Run, Tests' = Tests,
         Exists(Run) /\ ~Run.del =>
           /\ ~IsFinal(Run.phase) =>
                /\ RunFin \in Run.fins
                /\ \A i \in 0..(Run.n - 1) : \E t \in Live(Tests) : Digit(Tests[t]) = i
                /\ \E t \in Live(Tests) : ~IsFinal(Tests[t].phase)
           /\ IsFinal(Run.phase) /\ Drops(Run) => Live(Tests) = {},
         Exists(Run) /\ Run.del => RunFin \notin Run.fins \/ (Listed(Tests) # {} /\ Live(Tests) = {})
  PROVE  Converged' /\ DeletionGoesOn'
  BY DEF Converged, DeletionGoesOn
\* The reconcile's steps.
LEMMA ControllerAttentive ==
  ASSUME TypeOK, Mapped, Attentive, Controller
  PROVE  Attentive'
<1> SUFFICES ASSUME Calm' PROVE Attentive'
  BY DEF Attentive, Converged, DeletionGoesOn, Quiescent, Calm
<1>a. ~queued'
  BY DEF Calm
<1>b. Run \in Runs /\ Tests \in TestSets /\ \A t \in Names : Tests[t] \in TestRecs
  BY TypeFacts
<1>c. Working => /\ job \in Jobs /\ job.run \in Runs /\ job.tests \in TestSets
                 /\ \A t \in Names : job.tests[t] \in TestRecs
  BY TypeFacts
<1>d. job' = Idle => ~Working'
  BY DEF Working, Idle
<1>e. CalmRun' /\ CalmTests' /\ Working' => Attentive'
  BY DEF Attentive, Converged, DeletionGoesOn, Quiescent
<1>f. Converged' /\ DeletionGoesOn' /\ ~Working' => Attentive'
  BY DEF Attentive
<1>1. CASE Reconcile
  <2>1. UNCHANGED <<runFeed, testFeed>> /\ Fresh(runFeed) /\ Fresh(testFeed)
    BY <1>1 DEF Reconcile, Calm
  <2>2. Cached(runFeed) = Run /\ Cached(testFeed) = Tests
    BY <2>1, FreshStates DEF TypeOK, Run, Tests
  <2>3. Run' = Run /\ Tests' = Tests
    BY <2>1 DEF Run, Tests
  <2>4. CASE ~Exists(Run)
    <3>1. job' = Idle
      BY <1>1, <2>2, <2>4 DEF Reconcile
    <3> QED
      BY <1>d, <1>f, <2>3, <2>4, <3>1, EndsConverged
  <2>5. CASE Exists(Run) /\ ~IsFinal(Run.phase) /\ ~Run.del /\ RunFin \notin Run.fins
    <3>1. job' = At("finalizer", Run, Tests, {})
      BY <1>1, <2>2, <2>5 DEF Reconcile
    <3>2. job'.step = "finalizer" /\ job'.run = Run /\ job'.tests = Tests
      BY <3>1, AtShape
    <3> QED
      BY <1>e, <2>3, <2>5, <3>2 DEF CalmRun, CalmTests, Working
  <2>6. CASE Exists(Run) /\ (IsFinal(Run.phase) \/ Run.del \/ RunFin \in Run.fins)
    <3>1. job' = Handle(Run, Tests)
      BY <1>1, <2>2, <2>6 DEF Reconcile
    <3> QED
      BY <1>e, <2>3, <2>6, <3>1, HandledCalmly
  <2> QED
    BY <2>4, <2>5, <2>6
<1>2. CASE ~Reconcile
  <2>1. Working
    BY <1>2 DEF Controller, EnsureFinalizer, SetStarting, CleanUpTest, CleanUpMisnamed, CleanedUp, ReleaseRun,
                Panic, MapTests, CreateTest, CreateTestFails, UpdateStatus, Working
  <2>2. ASSUME UNCHANGED <<runFeed, testFeed>>, ~queued
        PROVE  Run' = Run /\ Tests' = Tests /\ CalmRun /\ CalmTests
    BY <2>1, <2>2, Undisturbed DEF Attentive, Calm
  <2>3. CASE EnsureFinalizer
    <3>1. PICK out \in Answers(addFinalizer(job.run, Run, RunFin, "Resource")) :
            /\ runFeed' = Publish(runFeed, out.obj)
            /\ IF out.res = "OK" THEN UNCHANGED queued ELSE Return(out.res # "NotFound")
      BY <2>3 DEF EnsureFinalizer
    <3>2. out.obj \in Runs /\ job.step = "finalizer" /\ UNCHANGED testFeed
      BY <2>1, <2>3, AnswersAre, RunCalls DEF EnsureFinalizer
    <3>3. UNCHANGED runFeed /\ out.obj = Run
      BY <3>1, <3>2, Undisturbed
    <3>4. ~queued
      BY <1>a, <3>1 DEF Return
    <3>5. Run' = Run /\ Tests' = Tests /\ RunFin \notin Run.fins
      BY <2>2, <3>2, <3>3, <3>4 DEF CalmRun
    <3>6. /\ out.res = "OK" => Exists(Run) /\ Run = Reaped(WithFins(Run, job.run.fins \cup {RunFin}))
          /\ out.res = "NotFound" => ~Exists(Run)
      BY <3>1, <3>3, AnswersAre, FinOutcomes DEF addFinalizer
    <3>7. out.res # "OK"
      <4>1. \A run \in Runs : Exists(run) => RunFin \in Reaped(WithFins(run, job.run.fins \cup {RunFin})).fins
        BY Shapes DEF Reaped, WithFins
      <4> QED
        BY <1>b, <3>5, <3>6, <4>1
    <3>8. out.res = "NotFound" /\ job' = Idle
      BY <1>a, <3>1, <3>7 DEF Return
    <3> QED
      BY <1>d, <1>f, <3>5, <3>6, <3>8, EndsConverged
  <2>4. CASE SetStarting
    <3>1. PICK out \in Answers(Patch(Run, WithStatus(Run, job.run, "Starting", job.run.results))) :
            /\ runFeed' = Publish(runFeed, out.obj)
            /\ IF out.res = "OK" THEN UNCHANGED queued ELSE Return(out.res # "NotFound")
      BY <2>4 DEF SetStarting
    <3>2. job.run.results \in SUBSET ResultRecs /\ "Starting" \in RunPhases
      BY <1>c, <2>1, Shapes, Phases
    <3>3. out.obj \in Runs /\ job.step = "starting" /\ UNCHANGED testFeed
      BY <2>1, <2>4, <3>2, AnswersAre, RunCalls DEF SetStarting
    <3>4. UNCHANGED runFeed /\ out.obj = Run
      BY <3>1, <3>3, Undisturbed
    <3>5. ~queued
      BY <1>a, <3>1 DEF Return
    <3>6. Run' = Run /\ Tests' = Tests /\ job.run = Run /\ Blank(Run)
      BY <2>2, <3>3, <3>4, <3>5 DEF CalmRun
    <3>7. /\ out.res = "OK" => Exists(Run) /\ Run = WithStatus(Run, Run, "Starting", Run.results)
          /\ out.res = "NotFound" => ~Exists(Run)
      BY <3>1, <3>4, <3>6, AnswersAre, PatchOutcomes
    <3>8. Run.phase # "Starting"
      BY <3>6, Zenon DEF Blank
    <3>9. out.res # "OK"
      BY <1>b, <3>7, <3>8, StatusShown
    <3>10. out.res = "NotFound" /\ job' = Idle
      BY <1>a, <3>1, <3>9 DEF Return
    <3> QED
      BY <1>d, <1>f, <3>6, <3>7, <3>10, EndsConverged
  <2>5. CASE \E t \in Names : CleanUpTest(t)
    <3>1. PICK t \in Names : CleanUpTest(t)
      BY <2>5
    <3>2. PICK out \in Answers(cleanUp(job.tests[t], Tests[t], RunFin, "Resource")) :
            /\ PublishTest(t, out.obj)
            /\ job' = [job EXCEPT !.todo = @ \ {t}, !.err = @ \/ out.res # "OK"]
      BY <3>1 DEF CleanUpTest
    <3>3. job.step \in {"delete", "retain"} /\ t \in job.todo /\ UNCHANGED <<runFeed, queued>>
      BY <3>1 DEF CleanUpTest
    <3>4. out.obj \in TestRecs
      BY <2>1, AnswersAre, TestCalls
    <3>5. UNCHANGED testFeed /\ out.obj = Tests[t]
      BY <3>2, <3>4, Undisturbed
    <3>6. Run' = Run /\ Tests' = Tests /\ CalmRun /\ CalmTests
      BY <1>a, <2>2, <3>3, <3>5
    <3>7. job.err \/ out.res = "Error" \/ t \notin Live(Tests)
      <4>1. SUFFICES ASSUME ~job.err, t \in Live(Tests) PROVE out.res = "Error"
        OBVIOUS
      <4>2. job.tests = Tests /\ Exists(Tests[t]) /\ ~Tests[t].del
        BY <3>6, <4>1 DEF CalmTests, Live, Listed
      <4>3. out \in cleanUp(Tests[t], Tests[t], RunFin, "Resource")
        BY <4>2, AnswersAre
      <4> QED
        BY <1>b, <3>5, <4>2, <4>3, Ineffective
    <3>8. /\ job'.step = job.step /\ job'.run = job.run /\ job'.tests = job.tests
          /\ job'.todo = job.todo \ {t}
          /\ job.err \/ out.res = "Error" => job'.err
          /\ ~job'.err => ~job.err
      BY <1>c, <2>1, <3>2 DEF Jobs
    <3>9. CalmRun' /\ Working'
      BY <3>3, <3>6, <3>8 DEF CalmRun, Working
    <3>10. CalmTests'
      BY <3>3, <3>6, <3>7, <3>8 DEF CalmTests
    <3> QED
      BY <1>e, <3>9, <3>10
  <2>6. CASE \E t \in Names : CleanUpMisnamed(t)
    <3>1. PICK t \in Names : CleanUpMisnamed(t)
      BY <2>6
    <3>2. PICK out \in Answers(cleanUp(job.tests[t], Tests[t], RunFin, "Resource")) :
            /\ PublishTest(t, out.obj)
            /\ IF out.res = "OK" THEN UNCHANGED queued ELSE Return(TRUE)
      BY <3>1 DEF CleanUpMisnamed
    <3>3. job.step = "map" /\ t \in job.todo /\ UNCHANGED runFeed
      BY <3>1 DEF CleanUpMisnamed
    <3>4. out.obj \in TestRecs /\ out.res = "OK" /\ ~queued
      BY <1>a, <2>1, <3>2, AnswersAre, TestCalls DEF Return
    <3>5. UNCHANGED testFeed /\ out.obj = Tests[t]
      BY <3>2, <3>4, Undisturbed
    <3>6. job.tests = Tests /\ t \in Live(Tests)
      BY <2>2, <3>3, <3>4, <3>5 DEF CalmTests
    <3>7. Exists(Tests[t]) /\ ~Tests[t].del /\ out \in cleanUp(Tests[t], Tests[t], RunFin, "Resource")
      BY <3>6, AnswersAre DEF Live, Listed
    <3> QED
      BY <1>b, <3>4, <3>5, <3>7, Ineffective
  <2>7. CASE CleanedUp
    <3>1. /\ job.step \in {"delete", "retain"} /\ job.todo = {} /\ Return(job.err)
          /\ UNCHANGED <<runFeed, testFeed>>
      BY <2>7 DEF CleanedUp
    <3>2. ~queued /\ ~job.err /\ job' = Idle
      BY <1>a, <3>1 DEF Return
    <3>3. Run' = Run /\ Tests' = Tests /\ CalmRun /\ CalmTests
      BY <2>2, <3>1, <3>2
    <3>4. \/ Run.del /\ Listed(Tests) # {} /\ Live(Tests) = {}
          \/ ~Run.del /\ IsFinal(Run.phase) /\ (Drops(Run) => Live(Tests) = {})
      BY <3>1, <3>2, <3>3 DEF CalmRun, CalmTests
    <3> QED
      BY <1>d, <1>f, <3>2, <3>3, <3>4, EndsConverged
  <2>8. CASE ReleaseRun
    <3>1. job.step = "release" /\ UNCHANGED testFeed /\ job' = Idle /\ ~queued
      BY <1>a, <2>8 DEF ReleaseRun, Return
    <3>2. CASE RunFin \notin job.run.fins
      <4>1. UNCHANGED runFeed
        BY <2>8, <3>2 DEF ReleaseRun
      <4>2. Run' = Run /\ Tests' = Tests /\ Run.del /\ RunFin \notin Run.fins
        BY <2>2, <3>1, <3>2, <4>1 DEF CalmRun
      <4> QED
        BY <1>d, <1>f, <3>1, <4>2, EndsConverged
    <3>3. CASE RunFin \in job.run.fins
      <4>1. PICK out \in Answers(removeFinalizer(job.run, Run, RunFin, "Resource")) :
              runFeed' = Publish(runFeed, out.obj) /\ Return(out.res # "OK")
        BY <2>8, <3>3 DEF ReleaseRun
      <4>2. out.obj \in Runs /\ out.res = "OK"
        BY <1>a, <2>1, <4>1, AnswersAre, RunCalls DEF Return
      <4>3. UNCHANGED runFeed /\ out.obj = Run
        BY <4>1, <4>2, Undisturbed
      <4>4. job.run = Run
        BY <2>2, <3>1, <4>3 DEF CalmRun
      <4>5. Exists(Run) /\ Run = Reaped(WithFins(Run, Run.fins \ {RunFin}))
        BY <4>1, <4>2, <4>3, <4>4, AnswersAre, FinOutcomes DEF removeFinalizer
      <4>6. \A run \in Runs : Exists(run) => RunFin \notin Reaped(WithFins(run, run.fins \ {RunFin})).fins
        BY Shapes DEF Reaped, WithFins
      <4> QED
        BY <1>b, <3>3, <4>4, <4>5, <4>6
    <3> QED
      BY <3>2, <3>3
  <2>9. CASE Panic \/ CreateTestFails
    BY <1>a, <2>9 DEF Panic, CreateTestFails, Return
  <2>10. CASE MapTests
    <3>1. /\ job.step = "map" /\ UNCHANGED <<runFeed, testFeed, queued>>
          /\ job' = [job EXCEPT !.step = "ensure", !.missing = 0..(job.run.n - 1) \ Digits]
      BY <2>10 DEF MapTests
    <3>2. Run' = Run /\ Tests' = Tests /\ CalmRun /\ CalmTests
      BY <1>a, <2>2, <3>1
    <3>3. /\ job'.step = "ensure" /\ job'.run = job.run /\ job'.tests = job.tests /\ job'.err = job.err
          /\ job'.missing = 0..(job.run.n - 1) \ Digits
      BY <1>c, <2>1, <3>1 DEF Jobs
    <3>4. Digits' = Digits
      BY <3>3 DEF Digits
    <3>5. CalmRun' /\ Working'
      BY <3>1, <3>2, <3>3 DEF CalmRun, Working
    <3>6. job.run = Run
      BY <3>2 DEF CalmRun
    <3>7. CalmTests'
      BY <3>1, <3>2, <3>3, <3>4, <3>6 DEF CalmTests
    <3> QED
      BY <1>e, <3>5, <3>7
  <2>11. CASE CreateTest
    <3>1. PICK i \in job.missing, t \in Names : Tests[t].phase = "Unborn" /\ PublishTest(t, NewTest(i))
      BY <2>11 DEF CreateTest
    <3>2. NewTest(i) \in TestRecs /\ Exists(NewTest(i))
      BY <2>1, TypeFacts, NewTestShape
    <3>3. NewTest(i) = Tests[t]
      BY <3>1, <3>2, Undisturbed
    <3> QED
      BY <3>1, <3>2, <3>3 DEF Exists
  <2>12. CASE UpdateStatus
    <3>1. job.step = "ensure" /\ job.missing = {} /\ UNCHANGED testFeed /\ ~OutOfRange
      BY <2>12 DEF UpdateStatus, Mapped
    <3>2. PICK items \in Bijection(0..(Cardinality(Live(job.tests)) - 1), Live(job.tests)) :
            \E out \in Answers(Patch(Run, WithStatus(Run, job.run, PhaseOf(ResultsOf(items)), ResultsOf(items)))) :
              /\ runFeed' = Publish(runFeed, out.obj)
              /\ Return(out.res = "Error" \/ (out.res = "NotFound" /\ ~IsFinal(PhaseOf(ResultsOf(items)))))
      BY <2>12 DEF UpdateStatus
    <3> DEFINE results == ResultsOf(items)
               phase   == PhaseOf(results)
    <3>3. results \in SUBSET ResultRecs /\ phase \in RunPhases /\ phase \in {"Running", "Passed", "Failed"}
      BY <2>1, <3>1, StatusType, Phases
    <3>4. PICK out \in Answers(Patch(Run, WithStatus(Run, job.run, phase, results))) :
            /\ runFeed' = Publish(runFeed, out.obj)
            /\ Return(out.res = "Error" \/ (out.res = "NotFound" /\ ~IsFinal(phase)))
      BY <3>2
    <3> HIDE DEF phase, results
    <3>5. out.obj \in Runs /\ out.res # "Error" /\ job' = Idle /\ ~queued
      BY <1>a, <2>1, <3>3, <3>4, AnswersAre, RunCalls DEF Return
    <3>6. UNCHANGED runFeed /\ out.obj = Run
      BY <3>4, <3>5, Undisturbed
    <3>7. Run' = Run /\ Tests' = Tests /\ CalmRun /\ CalmTests
      BY <2>2, <3>1, <3>5, <3>6
    <3>8. /\ job.run = Run /\ job.tests = Tests /\ ~Run.del /\ ~IsFinal(Run.phase) /\ RunFin \in Run.fins
          /\ 0..(Run.n - 1) \subseteq Digits
      BY <3>1, <3>7 DEF CalmRun, CalmTests
    <3>9. CASE ~Exists(Run)
      BY <1>d, <1>f, <3>5, <3>7, <3>9, EndsConverged
    <3>10. CASE Exists(Run)
      <4>1. /\ out.res \in {"OK", "Error", "NotFound"}
            /\ out.res = "OK" => Exists(Run) /\ out.obj = WithStatus(Run, job.run, phase, results)
            /\ out.res = "NotFound" => ~Exists(Run)
        BY AnswersAre, PatchOutcomes
      <4>2. Run = WithStatus(Run, Run, phase, results)
        BY <3>5, <3>6, <3>8, <3>10, <4>1
      <4>3. phase = Run.phase
        BY <1>b, <3>10, <4>2, StatusShown
      <4>4. phase = "Running"
        BY <3>3, <3>8, <4>3 DEF IsFinal
      <4>5. Cardinality(results) # job.run.n
        BY <4>4 DEF phase, PhaseOf
      <4>6. Digits = 0..(job.run.n - 1)
        BY <2>1, <3>8, DigitsRange
      <4>7. \E t \in Live(Tests) : ~IsFinal(Tests[t].phase)
        <5>1. SUFFICES ASSUME \A t \in Live(job.tests) : IsFinal(job.tests[t].phase) PROVE FALSE
          BY <3>8
        <5>2. Cardinality(results) = job.run.n
          BY <2>1, <3>1, <4>6, <5>1, AllDecided DEF results
        <5> QED
          BY <4>5, <5>2
      <4>8. \A i \in 0..(Run.n - 1) : \E t \in Live(Tests) : Digit(Tests[t]) = i
        BY <3>8 DEF Digits
      <4> QED
        BY <1>d, <1>f, <3>5, <3>7, <3>8, <4>7, <4>8, EndsConverged
    <3> QED
      BY <3>9, <3>10
  <2> QED
    BY <1>2, <2>3, <2>4, <2>5, <2>6, <2>7, <2>8, <2>9, <2>10, <2>11, <2>12 DEF Controller
<1> QED
  BY <1>1, <1>2

\* Neither the cluster nor a stuttering step touches the reconcile or the queue.
LEMMA BystanderAttentive ==
  ASSUME TypeOK, Attentive, UNCHANGED <<queued, job>>, Calm' => UNCHANGED <<runFeed, testFeed>>
  PROVE  Attentive'
<1> SUFFICES ASSUME Calm' PROVE Attentive'
  BY DEF Attentive, Converged, DeletionGoesOn, Quiescent, Calm
<1>1. Run' = Run /\ Tests' = Tests /\ Calm
  BY Undisturbed
<1>2. CASE Working
  <2>1. CalmRun /\ CalmTests
    BY <1>1, <1>2 DEF Attentive
  <2>2. Digits' = Digits
    BY DEF Digits
  <2>3. CalmRun' /\ CalmTests' /\ Working'
    BY <1>1, <1>2, <2>1, <2>2 DEF CalmRun, CalmTests, Working, Blank
  <2> QED
    BY <2>3 DEF Attentive, Converged, DeletionGoesOn, Quiescent
<1>3. CASE ~Working
  <2>1. Quiescent /\ ~Working'
    BY <1>1, <1>3 DEF Quiescent, Calm, Working
  <2>2. Converged' /\ DeletionGoesOn'
    BY <1>1, <2>1 DEF Attentive, Converged, DeletionGoesOn
  <2> QED
    BY <2>1, <2>2 DEF Attentive
<1> QED
  BY <1>2, <1>3

\* Every step keeps the attention.
LEMMA NextAttentive == TypeOK /\ Mapped /\ Attentive /\ [Next]_vars => Attentive'
<1> SUFFICES ASSUME TypeOK, Mapped, Attentive, [Next]_vars PROVE Attentive'
  OBVIOUS
<1>1. CASE Controller
  BY <1>1, ControllerAttentive
<1>2. CASE RunEvent \/ TestEvent \/ Restart
  BY <1>2, QueuedAttentive DEF RunEvent, TestEvent, Restart
<1>3. CASE Cluster
  <2>1. UNCHANGED <<queued, job>>
    BY <1>3, ClusterWrites DEF Others
  <2>2. Calm' => UNCHANGED <<runFeed, testFeed>>
    BY <1>3, ClusterWrites, Undisturbed
  <2> QED
    BY <2>1, <2>2, BystanderAttentive
<1>4. CASE UNCHANGED vars
  BY <1>4, BystanderAttentive DEF vars
<1> QED
  BY <1>1, <1>2, <1>3, <1>4 DEF Next

\* In the beginning the key is queued.
LEMMA InitAttentive == Init => Attentive
  BY DEF Init, Attentive, Converged, DeletionGoesOn, Quiescent, Working, Idle

\* The attention holds with caches of any age.
LEMMA AttentiveInvariant == Spec => [](TypeOK /\ Mapped /\ Attentive)
<1>1. TypeOK /\ Mapped /\ Attentive /\ [Next]_vars => (TypeOK /\ Mapped /\ Attentive)'
  BY NextTypeOK, NextAttentive
<1> QED
  BY InitTypeOK, InitAttentive, <1>1, PTL DEF Spec

\* Whatever was stale, lost or restarted on the way, the controller stops
\* working on a run that is not deleted only when every template has a Test and
\* one of them is still to be decided, or when the run is finished and the Tests
\* its policy drops are deleted: no return of isRunning forgets a decided run.
THEOREM AlwaysConverged == Spec => []Converged
<1>1. Attentive => Converged
  BY DEF Attentive
<1> QED
  BY AttentiveInvariant, <1>1, PTL

\* And on a deleted run only when others have to act: a Test is still going, or
\* this controller's finalizer is removed.
THEOREM DeletionAlwaysGoesOn == Spec => []DeletionGoesOn
<1>1. Attentive => DeletionGoesOn
  BY DEF Attentive
<1> QED
  BY AttentiveInvariant, <1>1, PTL
=============================================================================
